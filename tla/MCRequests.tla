----------------------------- MODULE MCRequests -----------------------------
(***************************************************************************)
(* Instance of Requests: pipes to a name, to literals that may and may not *)
(* be dialed, to this machine by name and to the probe; requests that      *)
(* spell a destination in several ways; lookups that answer with nothing   *)
(* and with up to four addresses; rules that name the same leaves, rename  *)
(* the keys others go by and make two keys of an object one.               *)
(***************************************************************************)
EXTENDS Requests

Open == [ip |-> "open", form |-> "ip"]
Other == [ip |-> "other", form |-> "nat64"]
Denied == [ip |-> "denied", form |-> "ip"]
Carried == [ip |-> "denied", form |-> "6to4"]

MCAddresses == {Open, Other, Denied, Carried}
MCLiterals == [n \in {"10.0.0.1", "2002:7f00:1::"} |-> IF n = "10.0.0.1" THEN Open ELSE Carried]
MCDeny == {"denied"}
MCPipes ==
    [host : {"a"}, port : {80, 443}] \cup
    {[host |-> "10.0.0.1", port |-> 80], [host |-> "2002:7f00:1::", port |-> 443],
     [host |-> "localhost", port |-> 443], [host |-> "probe", port |-> 80]}

Spelled(n, s) == [name |-> n, spelled |-> s]
Request(v, s, h, p) == [connect |-> FALSE, http2 |-> v, scheme |-> s, host |-> h, port |-> p]
MCInbound ==
    {Request(v, s, Spelled("a", sp), p) :
        v \in BOOLEAN, s \in {"none", "http", "ftp"}, sp \in {"dot", "zone"}, p \in {NoPort, 0, 80, 443}} \cup
    {Request(TRUE, "https", Spelled(h, "canonical"), p) :
        h \in {"10.0.0.1", "2002:7f00:1::", "localhost", "probe"}, p \in {80, 443}} \cup
    {[Request(TRUE, "https", Spelled("a", "canonical"), 443) EXCEPT !.connect = TRUE]}
MCPolicies ==
    {[proxy |-> FALSE, proxyResolves |-> FALSE], [proxy |-> TRUE, proxyResolves |-> FALSE],
     [proxy |-> TRUE, proxyResolves |-> TRUE]}
MCLookups ==
    {<<>>, <<Open, Other>>, <<Open, Carried>>, <<Denied>>, <<Open, Other, Open>>, <<Other, Open, Open, Denied>>}

K == {"k"}
W == {"w"}
S == {"s"}
Rule(type, words, by, hosts, redact, skip) ==
    [type |-> type, words |-> words, replacement |-> by, hosts |-> hosts,
     redact |-> redact, skip |-> skip]
Word == Rule("regex-structured-data", {"w"}, "r", {"a"}, {<<K>>}, {<<K, S>>})
Again == Rule("regex-structured-data", {"r", "s"}, "t", {"a"}, {<<K>>, <<S>>}, None)
Key == Rule("regex-structured-data", {"k"}, "s", {}, None, None)
Bytes == Rule("regex", {"w"}, "b", {"b", ".*"}, {<<K>>}, None)
Elsewhere == Rule("regex", {"k", "w"}, "e", {"b"}, None, None)
Unknown == Rule("literal", {"w"}, "u", {}, None, None)
MCRuleSets == {<<Key, Word, Again>>, <<Word, Again, Bytes, Elsewhere>>, <<Bytes, Unknown>>}

Leaf(id, path, type, text) == [id |-> id, path |-> path, type |-> type, text |-> text]
MCDocuments ==
    {{Leaf(1, <<K, W>>, "string", W), Leaf(2, <<K, S>>, "string", W), Leaf(3, <<S>>, "string", K)},
     {Leaf(1, <<K, {"x"}>>, "number", W), Leaf(2, <<K, {"x"}>>, "number", {"y"}),
      Leaf(3, <<{"z"}>>, "null", {}), Leaf(4, <<K, S>>, "number", W)}}
=============================================================================
