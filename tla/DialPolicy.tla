----------------------------- MODULE DialPolicy -----------------------------
(***************************************************************************)
(* What a request in a pipe names and what dialpolicy makes of it: the one *)
(* spelling of a host, the destinations that are never dialed, and how the *)
(* others are reached.                                                     *)
(*                                                                         *)
(* A host is [name, spelled]: a name, an IP literal (a name in Literals)   *)
(* or a spelling of one.  An address is [ip, form]: an IPv4 or IPv6        *)
(* address, or an IPv6 address that carries an IPv4 one.                   *)
(***************************************************************************)
EXTENDS Integers, Sequences

CONSTANTS
    Addresses,  \* the addresses there are
    Literals,   \* the address each IP literal is, by name
    Deny,       \* the IPs and forms of Policy.deny: built in, extra, the host's own
    MaxAnswers, \* the answers a direct dial looks at: 8
    NoPort      \* no port in an authority, and one that is not canonical

ASSUME LiteralsAssumption == Literals \in [DOMAIN Literals -> Addresses]
ASSUME AnswersAssumption == MaxAnswers \in Nat

\* hostname.Canonical: a name has one spelling, without case and the last dot;
\* other alphabets, an IPv6 zone and names a resolver could read as an address
\* have none.
Canonical(h) == IF h.spelled \in {"canonical", "upper case", "dot"} THEN {h.name} ELSE {}

\* rawpipe.Authority: the destination a request names, if it names one.
PortNumbers == 1..65535
PortOf(scheme, port) == IF port # NoPort THEN port ELSE IF scheme = "http" THEN 80 ELSE 443
Authority(scheme, h, port) ==
    {[host |-> n, port |-> PortOf(scheme, port)] :
        n \in {m \in Canonical(h) : port = NoPort \/ port \in PortNumbers}}

\* capability.Canonical names of the machine itself and of metadata services.
ForbiddenName(host) == host \in {"localhost", "a.localhost", "metadata.google.internal"}

\* The forms of IPv6 address that carry an IPv4 address.
Carrying == {"nat64", "nat64 local", "6to4", "teredo"}

\* The mutated form of Checked: the address as it is written.
Checked_Outer(a) == {a.form}

\* What Policy.forbidden checks of an address, without its zone and, if it is
\* IPv4-mapped, as IPv4: itself, and the IPv4 address it carries.
Checked(a) == (IF a.form \in Carrying THEN {a.form} ELSE {}) \cup {a.ip}

\* Policy.forbidden.
Forbidden(a) == Checked(a) \cap Deny # {}

Considered(answers) == SubSeq(answers, 1, IF Len(answers) > MaxAnswers THEN MaxAnswers ELSE Len(answers))

IsLiteral(host) == host \in DOMAIN Literals

\* Policy.Dial up to its dials: refused, through the proxy, or the addresses
\* to race.
Refusal(reason) == [kind |-> "refused", reason |-> reason]
DialPlan(policy, host, answers) ==
    IF ForbiddenName(host) \/ (IsLiteral(host) /\ Forbidden(Literals[host]))
    THEN Refusal("forbidden_address")
    ELSE IF policy.proxy
    THEN IF IsLiteral(host) \/ policy.proxyResolves
         THEN [kind |-> "proxy"] ELSE Refusal("forbidden_address")
    ELSE LET addrs == IF IsLiteral(host) THEN <<Literals[host]>> ELSE Considered(answers) IN
         IF addrs = <<>> THEN Refusal("dns_failed")
         ELSE IF \E i \in DOMAIN addrs : Forbidden(addrs[i]) THEN Refusal("forbidden_address")
         ELSE [kind |-> "race", addrs |-> addrs]
=============================================================================
