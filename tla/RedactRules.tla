----------------------------- MODULE RedactRules -----------------------------
(***************************************************************************)
(* The redaction rules: which are compiled, which hosts and fields each is *)
(* for, and what one does to a JSON document or to bytes.                  *)
(*                                                                         *)
(* A text, a key or a value, is the set of words in it.  A rule matches    *)
(* some words and puts its replacement for them.  A document is a set of    *)
(* leaves [id, path, type, text]: path is the keys that lead to the leaf,   *)
(* each a non-empty text without separator, and the elements of an array are     *)
(* leaves of its own path.  None stands for a filter that is not set.       *)
(***************************************************************************)
EXTENDS Integers, Sequences, FiniteSets

CONSTANT None

\* compileHostMatchers: no pattern, or the pattern of every host, is no filter.
CompileHosts(hosts) == IF hosts = {} \/ ".*" \in hosts THEN None ELSE hosts

\* compileRules refuses them all for one of another type or that is not a
\* regular expression.  Filters are of structured rules only.
Compiles(rules) == \A i \in DOMAIN rules : rules[i].type \in {"regex", "regex-structured-data"}
Compile(rule) ==
    [structured |-> rule.type = "regex-structured-data",
     words |-> rule.words, replacement |-> rule.replacement,
     hosts |-> CompileHosts(rule.hosts),
     redact |-> IF rule.type = "regex" THEN None ELSE rule.redact,
     skip |-> IF rule.type = "regex" THEN None ELSE rule.skip]

\* Redactor.Update: what is in force after it.
Update(rules, old) ==
    IF Compiles(rules) THEN [i \in DOMAIN rules |-> Compile(rules[i])] ELSE old

AppliesToHost(rule, host) == rule.hosts = None \/ host \in rule.hosts

\* Whether a pass runs one of the rules it took: ApplyJSON, "json", those that
\* are structured, Apply, "bytes", the others, each those for the host.
Fires(rule, pass, host) == (rule.structured <=> pass = "json") /\ AppliesToHost(rule, host)

\* applyOneRule.
Hits(rule, text) == text \cap rule.words # {}
Redacted(rule, text) ==
    IF Hits(rule, text) THEN (text \ rule.words) \cup {rule.replacement} ELSE text

Prefix(path, n) == SubSeq(path, 1, n)

\* hasPathPrefixInSet: the path, or one it is under; the root is under none.
HasPathPrefixInSet(path, set) == path \in set \/ \E n \in 1..Len(path) : Prefix(path, n) \in set

InScope(rule, path) == rule.redact = None \/ HasPathPrefixInSet(path, rule.redact)

\* redactValueForRule does not go into it, from the root down.
Skipped(rule, path) ==
    rule.skip # None /\ (<<>> \in rule.skip \/ HasPathPrefixInSet(path, rule.skip))

\* The n-th key of a path after the rule: keys are of their object's scope.
NewKey(rule, path, n) ==
    IF ~Skipped(rule, Prefix(path, n)) /\ InScope(rule, Prefix(path, n - 1))
    THEN Redacted(rule, path[n]) ELSE path[n]

NewPath(rule, path) == [n \in DOMAIN path |-> NewKey(rule, path, n)]

\* A leaf after the rule: strings and numbers in scope are redacted, and a
\* number that is becomes a string.
NewLeaf(rule, leaf) ==
    LET hit == /\ leaf.type \in {"string", "number"}
               /\ ~Skipped(rule, leaf.path) /\ InScope(rule, leaf.path)
               /\ Hits(rule, leaf.text)
    IN [leaf EXCEPT !.path = NewPath(rule, @),
                    !.type = IF hit THEN "string" ELSE @,
                    !.text = IF hit THEN Redacted(rule, @) ELSE @]

\* Two keys of one object that become one: the object keeps either's value,
\* whichever key the map's iteration came to last.
Collide(rule, a, b) ==
    \E n \in DOMAIN a.path \cap DOMAIN b.path :
        /\ Prefix(NewPath(rule, a.path), n) = Prefix(NewPath(rule, b.path), n)
        /\ Prefix(a.path, n) # Prefix(b.path, n)

\* The leaves that may be left.
Survivors(rule, doc) ==
    LET kept == {s \in SUBSET doc : \A a, b \in s : ~Collide(rule, a, b)}
    IN {s \in kept : \A leaf \in doc \ s : s \cup {leaf} \notin kept}

\* The mutated form of Outcomes: what skip_fields names is not put in the new map.
Outcomes_SkippedDropped(rule, doc) ==
    {{NewLeaf(rule, leaf) : leaf \in {l \in s : ~Skipped(rule, l.path)}} : s \in Survivors(rule, doc)}

\* What the rule may make of a document.
Outcomes(rule, doc) == {{NewLeaf(rule, leaf) : leaf \in s} : s \in Survivors(rule, doc)}

\* Apply: the rules that are not structured know no fields.
OnBytes(rule, doc) ==
    {[leaf EXCEPT !.path = [n \in DOMAIN @ |-> Redacted(rule, @[n])], !.text = Redacted(rule, @)] :
        leaf \in doc}
-----------------------------------------------------------------------------
\* README: a rule fires inside the subtrees redact_fields names, if it names
\* any, and never inside those of skip_fields.
Under(path, fields) == \E n \in 0..Len(path) : Prefix(path, n) \in fields
Names(rule, path) ==
    /\ rule.redact = None \/ Under(path, rule.redact)
    /\ rule.skip = None \/ ~Under(path, rule.skip)

\* README: "The addressing key that brought you into the subtree lives at the
\* parent scope"; redactValueForRule: the key of a skipped entry stays too.
NamesKey(rule, path, n) ==
    /\ rule.redact = None \/ Under(Prefix(path, n - 1), rule.redact)
    /\ rule.skip = None \/ ~Under(Prefix(path, n), rule.skip)

\* What a rule makes of a leaf where places says it is, by that.  Booleans and
\* null stay, and a number that matches becomes a string.
LeafDocumented(rule, leaf, places) ==
    LET named == leaf.type \in {"string", "number"} /\ Names(rule, places) IN
    [id |-> leaf.id,
     path |-> [n \in DOMAIN leaf.path |->
                  IF NamesKey(rule, places, n) THEN Redacted(rule, leaf.path[n]) ELSE leaf.path[n]],
     type |-> IF named /\ Hits(rule, leaf.text) THEN "string" ELSE leaf.type,
     text |-> IF named THEN Redacted(rule, leaf.text) ELSE leaf.text]

\* The leaf after each of rules: each finds it where those before have put it.
Documented(rules, host, leaf) ==
    LET after[n \in 0..Len(rules)] ==
        IF n = 0 THEN leaf
        ELSE IF Fires(rules[n], "json", host)
             THEN LeafDocumented(rules[n], after[n - 1], after[n - 1].path) ELSE after[n - 1]
    IN after

\* And if each found it where it came.
Apart(rules, host, leaf) ==
    LET after[n \in 0..Len(rules)] ==
        IF n = 0 THEN leaf
        ELSE IF Fires(rules[n], "json", host)
             THEN LeafDocumented(rules[n], after[n - 1], leaf.path) ELSE after[n - 1]
    IN after
=============================================================================
