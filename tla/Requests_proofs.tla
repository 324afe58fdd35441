-------------------------- MODULE Requests_proofs --------------------------
(***************************************************************************)
(* One request's dials and tunnel, for any pipes, requests, policies,      *)
(* lookups and denied addresses; and the rules run over its body as JSON,  *)
(* for any rules, fields, keys and texts.                                  *)
(***************************************************************************)
EXTENDS Requests, SequenceTheorems, WellFoundedInduction, TLAPS

\* What is dialed was checked: Policy.Dial checks all before it races any.
DialsAllowed == \A i \in DOMAIN dials : ~Forbidden(dials[i].addr)

\* race keeps one connection, and is over when each dial is.
KeptIsWinner == \A i \in DOMAIN dials : dials[i].state = "kept" <=> i = winner
RaceIsOver ==
    stage \notin {"forward", "dial", "race"} =>
        \A i \in DOMAIN dials : dials[i].state \notin {"dialing", "connected"}
NotYet ==
    /\ stage \in {"forward", "dial"} => dials = <<>> /\ winner = 0
    /\ stage \in {"forward", "dial", "race"} => tunnel.state = "none"

\* The caller's tunnel is not armed: stop came first.
TunnelStopped ==
    /\ tunnel.state = "kept" => ~tunnel.past /\ ~tunnel.armed
    /\ stage = "refused" => tunnel.state \in {"none", "closed"}

RInv == KeptIsWinner /\ RaceIsOver /\ NotYet
IInv == TypeOK /\ DialsAllowed /\ RInv /\ TunnelStopped

LEMMA InitIInv == Init => IInv
<1> SUFFICES ASSUME Init PROVE IInv
  OBVIOUS
<1>1. TypeOK
  <2>1. dials \in Seq(Dialed)
    BY EmptySeq DEF Init
  <2>2. tunnel \in Tunnel
    BY DEF Init, Tunnel
  <2> QED
    BY <2>1, <2>2 DEF Init, TypeOK
<1>2. DOMAIN dials = {}
  BY DEF Init
<1>3. DialsAllowed /\ RInv
  BY <1>2 DEF Init, DialsAllowed, RInv, KeptIsWinner, RaceIsOver, NotYet
<1>4. TunnelStopped
  BY DEF Init, TunnelStopped
<1> QED
  BY <1>1, <1>3, <1>4 DEF IInv

\* The steps that leave the dials, the tunnel and what is asked alone, and end
\* no race.
LEMMA QuietStep ==
  ASSUME IInv, UNCHANGED <<given, raceVars>>,
         \/ stage' = stage
         \/ /\ stage' \in {"respond", "json", "bytes", "sent"}
            /\ stage \in {"proxy", "respond", "json", "bytes"}
  PROVE  IInv'
<1>1. UNCHANGED <<pipe, request, policy, dials, winner, gone, tunnel>>
  BY DEF given, raceVars
<1>2. TypeOK'
  BY <1>1 DEF IInv, TypeOK
<1>3. DialsAllowed'
  BY <1>1 DEF IInv, DialsAllowed
<1>4. RInv'
  BY <1>1 DEF IInv, RInv, KeptIsWinner, RaceIsOver, NotYet
<1>5. TunnelStopped'
  BY <1>1 DEF IInv, TunnelStopped
<1> QED
  BY <1>2, <1>3, <1>4, <1>5 DEF IInv

LEMMA ForwardStep == ASSUME IInv, Forward PROVE IInv'
<1>1. stage = "forward" /\ UNCHANGED <<pipe, request, policy, dials, winner, gone, tunnel>>
  BY DEF Forward, given, raceVars
<1>2. stage' \in {"refused", "sent", "dial"}
  BY DEF Forward, Refuse
<1>3. TypeOK'
  BY <1>1, <1>2 DEF IInv, TypeOK
<1>4. DialsAllowed'
  BY <1>1 DEF IInv, DialsAllowed
<1>5. RInv'
  <2>1. DOMAIN dials = {}
    BY <1>1 DEF IInv, RInv, NotYet
  <2> QED
    BY <1>1, <1>2, <2>1 DEF IInv, RInv, KeptIsWinner, RaceIsOver, NotYet
<1>6. TunnelStopped'
  BY <1>1 DEF IInv, RInv, NotYet, TunnelStopped
<1> QED
  BY <1>3, <1>4, <1>5, <1>6 DEF IInv

\* What a plan to race has: addresses, each of which may be dialed.
LEMMA RaceIsChecked ==
  ASSUME NEW p, NEW host, NEW answers \in Seq(Addresses),
         DialPlan(p, host, answers).kind = "race"
  PROVE  /\ DialPlan(p, host, answers).addrs \in Seq(Addresses)
         /\ \A i \in DOMAIN DialPlan(p, host, answers).addrs :
                ~Forbidden(DialPlan(p, host, answers).addrs[i])
<1> DEFINE addrs == IF IsLiteral(host) THEN <<Literals[host]>> ELSE Considered(answers)
<1>1. DialPlan(p, host, answers) = [kind |-> "race", addrs |-> addrs]
      /\ ~ \E i \in DOMAIN addrs : Forbidden(addrs[i])
  BY DEF DialPlan, Refusal
<1>2. CASE IsLiteral(host)
  <2>1. Literals[host] \in Addresses
    BY <1>2, LiteralsAssumption DEF IsLiteral
  <2>2. addrs \in Seq(Addresses)
    BY <1>2, <2>1
  <2> QED
    BY <1>1, <2>2
<1>3. CASE ~IsLiteral(host)
  <2> DEFINE n == IF Len(answers) > MaxAnswers THEN MaxAnswers ELSE Len(answers)
  <2>1. n \in Nat /\ n <= Len(answers) /\ Len(answers) \in Nat
    BY AnswersAssumption, LenProperties
  <2>2. \A i \in 1..n : answers[i] \in Addresses
    BY <2>1, ElementOfSeq
  <2>3. SubSeq(answers, 1, n) \in Seq(Addresses)
    BY <2>1, <2>2, SubSeqProperties
  <2>4. addrs \in Seq(Addresses)
    BY <1>3, <2>3 DEF Considered
  <2> QED
    BY <1>1, <2>4
<1> QED
  BY <1>2, <1>3

LEMMA DialStep ==
  ASSUME IInv, NEW answers \in Lookups, Dial(answers)
  PROVE  IInv'
<1> DEFINE plan == DialPlan(policy, pipe.host, answers)
<1>1. /\ stage = "dial" /\ dials = <<>> /\ winner = 0 /\ tunnel.state = "none"
      /\ UNCHANGED <<pipe, request, policy, winner, gone>>
  BY DEF IInv, RInv, NotYet, Dial, given, raceVars
<1>2. CASE dials' = dials
  <2>1. /\ stage' \in {"refused", "proxy"}
        /\ \/ tunnel' = tunnel
           \/ stage' = "proxy" /\ tunnel' = [state |-> "asked", armed |-> TRUE, past |-> FALSE]
    <3>1. CASE plan.kind = "refused"
      BY <3>1 DEF Dial, Refuse, raceVars
    <3>2. CASE plan.kind = "proxy"
      BY <3>2 DEF Dial, Refuse
    <3>3. CASE plan.kind = "race"
      <4>1. dials' = [i \in DOMAIN plan.addrs |-> [addr |-> plan.addrs[i], state |-> "dialing"]]
        BY <3>3 DEF Dial
      <4>2. plan.addrs # <<>>
        BY <3>3 DEF DialPlan, Refusal
      <4>3. plan.addrs \in Seq(Addresses)
        BY <3>3, LookupsAssumption, RaceIsChecked
      <4>4. 1 \in DOMAIN plan.addrs
        BY <4>2, <4>3, EmptySeq, LenProperties
      <4> QED
        BY <1>1, <1>2, <4>1, <4>4
    <3> QED
      BY <3>1, <3>2, <3>3 DEF Dial
  <2>2. TypeOK'
    <3>1. tunnel \in Tunnel
      BY DEF IInv, TypeOK
    <3>2. [state |-> "asked", armed |-> TRUE, past |-> FALSE] \in Tunnel
      BY DEF Tunnel
    <3>3. tunnel' \in Tunnel
      BY <2>1, <3>1, <3>2
    <3> QED
      BY <1>1, <1>2, <2>1, <3>3 DEF IInv, TypeOK
  <2>3. DOMAIN dials = {}
    BY <1>1
  <2>4. DialsAllowed' /\ RInv'
    BY <1>1, <1>2, <2>1, <2>3 DEF DialsAllowed, RInv, KeptIsWinner, RaceIsOver, NotYet
  <2>5. TunnelStopped'
    BY <1>1, <2>1 DEF TunnelStopped
  <2> QED
    BY <2>2, <2>4, <2>5 DEF IInv
<1>3. CASE dials' # dials
  <2>1. /\ plan.kind = "race" /\ stage' = "race" /\ tunnel' = tunnel
        /\ dials' = [i \in DOMAIN plan.addrs |-> [addr |-> plan.addrs[i], state |-> "dialing"]]
    BY <1>3 DEF Dial, raceVars
  <2>2. plan.addrs \in Seq(Addresses) /\ \A i \in DOMAIN plan.addrs : ~Forbidden(plan.addrs[i])
    BY <2>1, LookupsAssumption, RaceIsChecked
  <2>3. DOMAIN plan.addrs = 1..Len(plan.addrs) /\ Len(plan.addrs) \in Nat
        /\ \A i \in DOMAIN plan.addrs : plan.addrs[i] \in Addresses
    BY <2>2, LenProperties, ElementOfSeq
  <2>4. dials' \in Seq(Dialed)
    BY <2>1, <2>3 DEF Dialed
  <2>5. TypeOK'
    BY <1>1, <2>1, <2>4 DEF IInv, TypeOK
  <2>6. DialsAllowed'
    BY <2>1, <2>2 DEF DialsAllowed
  <2>7. RInv'
    BY <1>1, <2>1, <2>3 DEF RInv, KeptIsWinner, RaceIsOver, NotYet
  <2>8. TunnelStopped'
    BY <1>1, <2>1 DEF TunnelStopped
  <2> QED
    BY <2>5, <2>6, <2>7, <2>8 DEF IInv
<1> QED
  BY <1>2, <1>3

\* What a step of the race does to one dial.
LEMMA SetDial ==
  ASSUME TypeOK, NEW i \in DOMAIN dials,
         NEW s \in {"dialing", "connected", "failed", "kept", "closed"}, Set(i, s)
  PROVE  /\ dials' \in Seq(Dialed)
         /\ DOMAIN dials' = DOMAIN dials
         /\ dials'[i].state = s
         /\ \A k \in DOMAIN dials : dials'[k].addr = dials[k].addr /\ (k # i => dials'[k] = dials[k])
<1>1. dials \in [1..Len(dials) -> Dialed] /\ Len(dials) \in Nat /\ DOMAIN dials = 1..Len(dials)
  BY LenProperties DEF TypeOK
<1>2. dials' = [dials EXCEPT ![i].state = s]
  BY DEF Set
<1>3. dials[i] \in Dialed
  BY <1>1
<1>4. [dials[i] EXCEPT !.state = s] \in Dialed
  BY <1>3 DEF Dialed
<1>5. dials' = [dials EXCEPT ![i] = [dials[i] EXCEPT !.state = s]]
  BY <1>1, <1>2
<1>6. dials' \in [1..Len(dials) -> Dialed]
  BY <1>1, <1>4, <1>5
<1>7. dials' \in Seq(Dialed) /\ DOMAIN dials' = DOMAIN dials
  BY <1>1, <1>6
<1>8. dials'[i].state = s /\ dials'[i].addr = dials[i].addr
  BY <1>1, <1>3, <1>5 DEF Dialed
<1>9. \A k \in DOMAIN dials : k # i => dials'[k] = dials[k]
  BY <1>1, <1>5
<1> QED
  BY <1>7, <1>8, <1>9

LEMMA RaceStep ==
  ASSUME IInv, NEW i \in DOMAIN dials, Connect(i) \/ Fail(i) \/ Take(i)
  PROVE  IInv'
<1>1. /\ stage = "race" /\ stage' = stage /\ TypeOK
      /\ UNCHANGED <<pipe, request, policy, tunnel>>
  BY DEF IInv, Connect, Fail, Take, given
<1>2. PICK s \in {"connected", "failed", "kept", "closed"} :
         /\ Set(i, s) /\ dials[i].state \in {"dialing", "connected"}
         /\ \/ s # "kept" /\ winner' = winner /\ gone' = gone
            \/ s = "kept" /\ winner = 0 /\ winner' = i /\ gone' = TRUE
  BY DEF Connect, Fail, Take, Loser, Cancels
<1>3. /\ dials' \in Seq(Dialed)
      /\ DOMAIN dials' = DOMAIN dials
      /\ dials'[i].state = s
      /\ \A k \in DOMAIN dials : dials'[k].addr = dials[k].addr /\ (k # i => dials'[k] = dials[k])
  BY <1>1, <1>2, SetDial
<1>4. DOMAIN dials \subseteq Nat \ {0}
  BY <1>1, LenProperties DEF TypeOK
<1>5. TypeOK'
  BY <1>1, <1>2, <1>3, <1>4 DEF TypeOK
<1>6. DialsAllowed'
  BY <1>3 DEF IInv, DialsAllowed
<1>7. KeptIsWinner'
  BY <1>2, <1>3, <1>4 DEF IInv, RInv, KeptIsWinner
<1>8. RaceIsOver' /\ NotYet'
  BY <1>1 DEF IInv, RInv, RaceIsOver, NotYet
<1>9. TunnelStopped'
  BY <1>1 DEF IInv, TunnelStopped
<1> QED
  BY <1>5, <1>6, <1>7, <1>8, <1>9 DEF IInv, RInv

LEMMA EndRaceStep == ASSUME IInv, EndRace PROVE IInv'
<1>1. /\ stage = "race" /\ stage' \in {"refused", "respond"}
      /\ \A i \in DOMAIN dials : dials[i].state \notin {"dialing", "connected"}
      /\ UNCHANGED <<pipe, request, policy, dials, winner, gone, tunnel>>
  BY DEF EndRace, Refuse, given, raceVars
<1>2. TypeOK' /\ DialsAllowed'
  BY <1>1 DEF IInv, TypeOK, DialsAllowed
<1>3. RInv'
  BY <1>1 DEF IInv, RInv, KeptIsWinner, RaceIsOver, NotYet
<1>4. TunnelStopped'
  BY <1>1 DEF IInv, RInv, NotYet, TunnelStopped
<1> QED
  BY <1>2, <1>3, <1>4 DEF IInv

\* The tunnel's steps, and the caller's leaving.
LEMMA TunnelStep ==
  ASSUME IInv, Answer \/ Finish \/ PutDeadline \/ Leave
  PROVE  IInv'
<1>1. UNCHANGED <<pipe, request, policy, dials, winner>>
  BY DEF Answer, Finish, PutDeadline, Leave, given
<1>2. stage' = stage \/ (stage = "proxy" /\ stage' \in {"respond", "refused"})
  BY DEF Answer, Finish, PutDeadline, Leave, Refuse
<1>3. tunnel' \in Tunnel /\ gone' \in BOOLEAN
  <2>1. tunnel \in Tunnel /\ gone \in BOOLEAN
    BY DEF IInv, TypeOK
  <2>2. CASE Answer
    BY <2>1, <2>2 DEF Tunnel, Answer
  <2>3. CASE Finish
    <3>1. [state |-> "kept", armed |-> gone, past |-> FALSE] \in Tunnel
      BY <2>1 DEF Tunnel
    <3>2. [tunnel EXCEPT !.state = "closed"] \in Tunnel
      BY <2>1 DEF Tunnel
    <3> QED
      BY <2>1, <2>3, <3>1, <3>2 DEF Finish
  <2>4. CASE PutDeadline \/ Leave
    BY <2>1, <2>4 DEF Tunnel, PutDeadline, Leave
  <2> QED
    BY <2>2, <2>3, <2>4
<1>4. TypeOK'
  BY <1>1, <1>2, <1>3 DEF IInv, TypeOK
<1>5. DialsAllowed' /\ KeptIsWinner' /\ RaceIsOver'
  BY <1>1, <1>2 DEF IInv, RInv, DialsAllowed, KeptIsWinner, RaceIsOver
<1>6. NotYet' /\ TunnelStopped'
  <2>1. CASE Answer
    BY <2>1 DEF IInv, TypeOK, Tunnel, RInv, NotYet, TunnelStopped, Answer, Refuse
  <2>2. CASE Finish
    BY <2>2 DEF IInv, TypeOK, Tunnel, RInv, NotYet, TunnelStopped, Finish, Stopped, Refuse
  <2>3. CASE PutDeadline
    BY <2>3 DEF IInv, TypeOK, Tunnel, RInv, NotYet, TunnelStopped, PutDeadline
  <2>4. CASE Leave
    BY <2>4 DEF IInv, RInv, NotYet, TunnelStopped, Leave
  <2> QED
    BY <2>1, <2>2, <2>3, <2>4
<1> QED
  BY <1>4, <1>5, <1>6 DEF IInv, RInv

LEMMA NextIInv == IInv /\ [Next]_vars => IInv'
<1> SUFFICES ASSUME IInv, [Next]_vars PROVE IInv'
  OBVIOUS
<1>1. CASE Forward
  BY <1>1, ForwardStep
<1>2. CASE \E answers \in Lookups : Dial(answers)
  BY <1>2, DialStep
<1>3. CASE \E i \in DOMAIN dials : Connect(i) \/ Fail(i) \/ Take(i)
  BY <1>3, RaceStep
<1>4. CASE EndRace
  BY <1>4, EndRaceStep
<1>5. CASE Answer \/ Finish \/ PutDeadline \/ Leave
  BY <1>5, TunnelStep
<1>6. CASE \E r \in RuleSets : Install(r)
  BY <1>6, QuietStep DEF Install
<1>7. CASE \E d \in Documents : Respond(d)
  BY <1>7, QuietStep DEF Respond
<1>8. CASE RunStructured \/ TakeOthers \/ RunOnBytes \/ Send
  BY <1>8, QuietStep DEF RunStructured, TakeOthers, RunOnBytes, Send
<1>9. CASE UNCHANGED vars
  BY <1>9, QuietStep DEF vars
<1> QED
  BY <1>1, <1>2, <1>3, <1>4, <1>5, <1>6, <1>7, <1>8, <1>9 DEF Next

\* The inductive invariant.
THEOREM Invariant == Spec => []IInv
<1> QED
  BY InitIInv, NextIInv, PTL DEF Spec

\* Policy.Dial: no address dialed is denied, nor carries one that is.
THEOREM NothingDeniedIsDialed == Spec => []NoDialReachesDenied
<1>1. IInv => NoDialReachesDenied
  BY DEF IInv, DialsAllowed, NoDialReachesDenied, Forbidden, Checked
<1> QED
  BY <1>1, Invariant, PTL

\* race: one connection is left open if one is returned, and none if not.
THEOREM OneIsKept == Spec => []OneConnection
<1>1. IInv => OneConnection
  <2> SUFFICES ASSUME IInv, stage \notin {"forward", "dial", "race"}, NEW i \in DOMAIN dials
               PROVE  dials[i].state \notin {"failed", "closed"} <=> i = winner
    BY DEF OneConnection
  <2>1. dials[i].state \in {"dialing", "connected", "failed", "kept", "closed"}
    <3>1. dials \in Seq(Dialed)
      BY DEF IInv, TypeOK
    <3>2. dials[i] \in Dialed
      BY <3>1, LenProperties, ElementOfSeq
    <3> QED
      BY <3>2 DEF Dialed
  <2>2. dials[i].state \notin {"dialing", "connected"}
    BY DEF IInv, RInv, RaceIsOver
  <2> QED
    BY <2>1, <2>2 DEF IInv, RInv, KeptIsWinner
<1> QED
  BY <1>1, Invariant, PTL

\* httpconnect.Dial: the caller's tunnel bears no deadline.
THEOREM TunnelsAreUsable == Spec => []TunnelIsUsable
<1>1. IInv => TunnelIsUsable
  BY DEF IInv, TunnelStopped, TunnelIsUsable
<1> QED
  BY <1>1, Invariant, PTL
-----------------------------------------------------------------------------
\* A set of numbers has a least one: what is proved by induction below is
\* proved by way of the least number it would not hold for.
LEMMA LeastOf ==
  ASSUME NEW T, T \subseteq Nat, T # {}
  PROVE  \E x \in T : \A y \in T : x <= y
<1> DEFINE R == {p \in Nat \X Nat : p[1] < p[2]}
<1>1. IsWellFoundedOn(R, Nat)
  BY NatLessThanWellFounded DEF OpToRel
<1> HIDE DEF R
<1>2. PICK x \in T : \A y \in T : <<y, x>> \notin R
  BY <1>1, WFMin
<1>3. \A y \in T : ~(y < x)
  BY <1>2 DEF R
<1> QED
  BY <1>3

\* A function that is defined by recursion up to N, from what it is at 0 and how
\* each value comes from the one before.
Steps(N, V) == [1..N -> [V -> V]]
Follows(f, N, V, base, step) ==
    /\ f \in [0..N -> V]
    /\ f[0] = base
    /\ \A n \in 1..N : f[n] = step[n][f[n - 1]]
LEMMA Recursion ==
  ASSUME NEW N \in Nat, NEW V, NEW base \in V, NEW step \in Steps(N, V)
  PROVE  \E f : Follows(f, N, V, base, step)
<1> DEFINE Is(f, m) == Follows(f, m, V, base, step)
           none == {m \in Nat : m <= N /\ ~ \E f : Is(f, m)}
<1>1. none = {}
  <2> SUFFICES ASSUME none # {} PROVE FALSE
    OBVIOUS
  <2>1. PICK m \in none : \A y \in none : m <= y
    <3>1. none \subseteq Nat
      OBVIOUS
    <3> QED
      BY <3>1, LeastOf
  <2>2. m \in Nat /\ m <= N /\ ~ \E f : Is(f, m)
    OBVIOUS
  <2>3. CASE m = 0
    <3>1. Is([n \in 0..0 |-> base], 0)
      BY DEF Follows
    <3> QED
      BY <2>2, <2>3, <3>1
  <2>4. CASE m # 0
    <3> HIDE DEF Is
    <3>1. m - 1 \in Nat /\ m - 1 <= N /\ m - 1 \notin none
      <4>1. m - 1 \in Nat /\ m - 1 <= N /\ ~(m <= m - 1)
        BY <2>2, <2>4
      <4> HIDE DEF none
      <4> QED
        BY <2>1, <4>1
    <3>2. PICK g : Is(g, m - 1)
      BY <3>1
    <3>3. /\ g \in [0..(m - 1) -> V] /\ g[0] = base
          /\ \A n \in 1..(m - 1) : g[n] = step[n][g[n - 1]]
      BY <3>2 DEF Is, Follows
    <3> DEFINE f == [n \in 0..m |-> IF n = m THEN step[m][g[m - 1]] ELSE g[n]]
    <3>4. step[m][g[m - 1]] \in V
      <4>1. m \in 1..N /\ g[m - 1] \in V
        BY <2>2, <2>4, <3>1, <3>3
      <4> QED
        BY <4>1 DEF Steps
    <3>5. f \in [0..m -> V]
      BY <2>2, <3>3, <3>4
    <3>6. f[0] = base
      BY <2>2, <2>4, <3>3
    <3>7. \A n \in 1..m : f[n] = step[n][f[n - 1]]
      BY <2>2, <3>3
    <3>8. Is(f, m)
      BY <3>5, <3>6, <3>7 DEF Is, Follows
    <3> QED
      BY <2>2, <3>8
  <2> QED
    BY <2>3, <2>4
<1>2. PICK f : Is(f, N)
  <2> HIDE DEF Is
  <2> QED
    BY <1>1
<1> QED
  BY <1>2

\* What is indexed from 1 is a list of what is in it.
LEMMA ListOf ==
  ASSUME NEW s, NEW n \in Nat, s = [i \in 1..n |-> s[i]]
  PROVE  s \in Seq(Range(s)) /\ Len(s) = n
<1>1. DOMAIN s = 1..n /\ \A i \in 1..n : s[i] \in Range(s)
  BY DEF Range
<1>2. s \in [1..n -> Range(s)]
  BY <1>1
<1> QED
  BY <1>2

LEMMA ListIs ==
  ASSUME NEW S, NEW s \in Seq(S)
  PROVE  /\ s \in Seq(Range(s)) /\ Len(s) \in Nat /\ DOMAIN s = 1..Len(s)
         /\ \A i \in 1..Len(s) : s[i] \in Range(s)
         /\ s = [i \in 1..Len(s) |-> s[i]]
<1>1. Len(s) \in Nat /\ DOMAIN s = 1..Len(s) /\ s = [i \in 1..Len(s) |-> s[i]]
  BY LenProperties
<1>2. s \in Seq(Range(s))
  BY <1>1, ListOf
<1> QED
  BY <1>1, <1>2 DEF Range

\* The paths a field may have named are the path, those it is under, and none.
LEMMA PrefixIs ==
  ASSUME NEW S, NEW path \in Seq(S)
  PROVE  Prefix(path, 0) = <<>> /\ Prefix(path, Len(path)) = path
<1>1. Len(path) \in Nat /\ \A i \in 1..Len(path) : path[i] \in S
  BY LenProperties, ElementOfSeq
<1>2. Prefix(path, 0) = <<>>
  BY SubSeqEmpty DEF Prefix
<1>3. /\ Prefix(path, Len(path)) \in Seq(S)
      /\ Len(Prefix(path, Len(path))) = Len(path)
      /\ \A i \in 1..Len(path) : Prefix(path, Len(path))[i] = path[i]
  BY <1>1, SubSeqProperties DEF Prefix
<1>4. Prefix(path, Len(path)) = path
  BY <1>3, SeqEqual
<1> QED
  BY <1>2, <1>4

LEMMA PrefixOf ==
  ASSUME NEW S, NEW path \in Seq(S), NEW n \in 0..Len(path)
  PROVE  /\ Prefix(path, n) \in Seq(S) /\ Len(Prefix(path, n)) = n
         /\ \A i \in 1..n : Prefix(path, n)[i] = path[i]
<1>1. Len(path) \in Nat /\ n \in Nat /\ \A i \in 1..n : path[i] \in S
  BY LenProperties, ElementOfSeq
<1> QED
  BY <1>1, SubSeqProperties DEF Prefix

\* Two paths begin alike as far as their keys are the same.
LEMMA PrefixesEqual ==
  ASSUME NEW S, NEW p \in Seq(S), NEW q \in Seq(S), NEW n \in 0..Len(p), n <= Len(q)
  PROVE  Prefix(p, n) = Prefix(q, n) <=> \A i \in 1..n : p[i] = q[i]
<1>1. n \in 0..Len(q) /\ n \in Nat
  BY LenProperties
<1>2. /\ Prefix(p, n) \in Seq(S) /\ Len(Prefix(p, n)) = n
      /\ \A i \in 1..n : Prefix(p, n)[i] = p[i]
      /\ Prefix(q, n) \in Seq(S) /\ Len(Prefix(q, n)) = n
      /\ \A i \in 1..n : Prefix(q, n)[i] = q[i]
  BY <1>1, PrefixOf
<1>3. ASSUME \A i \in 1..n : p[i] = q[i] PROVE Prefix(p, n) = Prefix(q, n)
  BY <1>2, <1>3, SeqEqual
<1>4. ASSUME Prefix(p, n) = Prefix(q, n) PROVE \A i \in 1..n : p[i] = q[i]
  <2> SUFFICES ASSUME NEW i \in 1..n PROVE p[i] = q[i]
    OBVIOUS
  <2>1. Prefix(p, n)[i] = p[i] /\ Prefix(q, n)[i] = q[i]
    BY <1>2
  <2> QED
    BY <1>4, <2>1
<1> QED
  BY <1>3, <1>4

\* A field is over a path if the walk finds it at a prefix, or it is the root.
LEMMA UnderIs ==
  ASSUME NEW S, NEW path \in Seq(S), NEW fields
  PROVE  Under(path, fields) <=> <<>> \in fields \/ HasPathPrefixInSet(path, fields)
<1>1. Len(path) \in Nat /\ Prefix(path, 0) = <<>> /\ Prefix(path, Len(path)) = path
  BY PrefixIs, LenProperties
<1>2. 0..Len(path) = {0} \cup 1..Len(path) /\ Len(path) \in 0..Len(path)
  BY <1>1
<1>3. ASSUME Under(path, fields) PROVE <<>> \in fields \/ HasPathPrefixInSet(path, fields)
  <2>1. PICK n \in 0..Len(path) : Prefix(path, n) \in fields
    BY <1>3 DEF Under
  <2>2. CASE n = 0
    BY <1>1, <2>1, <2>2
  <2>3. CASE n \in 1..Len(path)
    BY <2>1, <2>3 DEF HasPathPrefixInSet
  <2> QED
    BY <1>2, <2>1, <2>2, <2>3
<1>4. ASSUME <<>> \in fields PROVE Under(path, fields)
  BY <1>1, <1>2, <1>4 DEF Under
<1>5. ASSUME HasPathPrefixInSet(path, fields) PROVE Under(path, fields)
  BY <1>1, <1>2, <1>5 DEF Under, HasPathPrefixInSet
<1> QED
  BY <1>3, <1>4, <1>5

\* redactValueForRule goes where the README says a rule fires, whatever the path
\* and the two filters, when redact_fields names fields: for a text and for
\* each key on the way to it.
THEOREM FiresWhereDocumented ==
  ASSUME NEW S, NEW path \in Seq(S), NEW rule, rule.redact = None \/ <<>> \notin rule.redact
  PROVE  /\ Names(rule, path) <=> InScope(rule, path) /\ ~Skipped(rule, path)
         /\ \A n \in DOMAIN path :
              NamesKey(rule, path, n) <=>
                InScope(rule, Prefix(path, n - 1)) /\ ~Skipped(rule, Prefix(path, n))
<1>1. ASSUME NEW p \in Seq(S)
      PROVE  /\ (rule.redact = None \/ Under(p, rule.redact)) <=> InScope(rule, p)
             /\ (rule.skip = None \/ ~Under(p, rule.skip)) <=> ~Skipped(rule, p)
  BY UnderIs DEF InScope, Skipped
<1>2. ASSUME NEW n \in DOMAIN path
      PROVE  Prefix(path, n) \in Seq(S) /\ Prefix(path, n - 1) \in Seq(S)
  <2>1. n \in 0..Len(path) /\ n - 1 \in 0..Len(path)
    BY LenProperties
  <2> QED
    BY <2>1, PrefixOf
<1> QED
  BY <1>1, <1>2 DEF Names, NamesKey

\* redactValueForRule: the leaf of a leaf.
LEMMA NewLeafIs ==
  ASSUME NEW leaf, IsLeaf(leaf), NEW rule, rule.redact = None \/ <<>> \notin rule.redact
  PROVE  /\ NewLeaf(rule, leaf) = LeafDocumented(rule, leaf, leaf.path)
         /\ NewLeaf(rule, leaf).id = leaf.id
         /\ NewLeaf(rule, leaf).path = NewPath(rule, leaf.path)
<1> DEFINE hit == /\ leaf.type \in {"string", "number"}
                  /\ ~Skipped(rule, leaf.path) /\ InScope(rule, leaf.path)
                  /\ Hits(rule, leaf.text)
           type == IF hit THEN "string" ELSE leaf.type
           text == IF hit THEN Redacted(rule, leaf.text) ELSE leaf.text
           named == leaf.type \in {"string", "number"} /\ Names(rule, leaf.path)
           docPath == [n \in DOMAIN leaf.path |->
                  IF NamesKey(rule, leaf.path, n) THEN Redacted(rule, leaf.path[n]) ELSE leaf.path[n]]
           docType == IF named /\ Hits(rule, leaf.text) THEN "string" ELSE leaf.type
           docText == IF named THEN Redacted(rule, leaf.text) ELSE leaf.text
<1>1. /\ leaf = [id |-> leaf.id, path |-> leaf.path, type |-> leaf.type, text |-> leaf.text]
      /\ leaf.path \in Seq(Range(leaf.path))
  BY DEF IsLeaf
<1>2. NewLeaf(rule, leaf) = [leaf EXCEPT !.path = NewPath(rule, leaf.path), !.type = type, !.text = text]
  BY DEF NewLeaf
<1>3. LeafDocumented(rule, leaf, leaf.path) = 
        [id |-> leaf.id, path |-> docPath, type |-> docType, text |-> docText]
  BY DEF LeafDocumented
<1>4. docPath = NewPath(rule, leaf.path)
  BY <1>1, FiresWhereDocumented DEF NewPath, NewKey
<1>5. docType = type /\ docText = text
  <2>1. Names(rule, leaf.path) <=> InScope(rule, leaf.path) /\ ~Skipped(rule, leaf.path)
    BY <1>1, FiresWhereDocumented
  <2> QED
    BY <2>1 DEF Redacted
<1> HIDE DEF hit, type, text, named, docPath, docType, docText
<1>6. NewLeaf(rule, leaf) = [id |-> leaf.id, path |-> NewPath(rule, leaf.path), type |-> type, text |-> text]
  BY <1>1, <1>2
<1> QED
  BY <1>3, <1>4, <1>5, <1>6

\* A leaf on its way through the rules: of the same field, with the keys it has.
LeafOf(leaf, o) == IsLeaf(leaf) /\ leaf.id = o.id /\ DOMAIN leaf.path = DOMAIN o.path

LEMMA LeafStays ==
  ASSUME NEW o, NEW leaf, LeafOf(leaf, o), NEW rule
  PROVE  LeafOf(LeafDocumented(rule, leaf, leaf.path), o)
<1> DEFINE p == [n \in DOMAIN leaf.path |->
                  IF NamesKey(rule, leaf.path, n) THEN Redacted(rule, leaf.path[n]) ELSE leaf.path[n]]
           new == LeafDocumented(rule, leaf, leaf.path)
<1>1. DOMAIN leaf.path = 1..Len(leaf.path) /\ Len(leaf.path) \in Nat
  BY ListIs DEF LeafOf, IsLeaf
<1>2. p \in Seq(Range(p))
  <2>1. p = [n \in 1..Len(leaf.path) |-> p[n]]
    BY <1>1
  <2> QED
    BY <1>1, <2>1, ListOf
<1>3. /\ new = [id |-> leaf.id, path |-> p, type |-> new.type, text |-> new.text]
      /\ new.path = p /\ new.id = leaf.id
  BY DEF LeafDocumented
<1> HIDE DEF new
<1>4. DOMAIN p = DOMAIN leaf.path
  OBVIOUS
<1> HIDE DEF p
<1>5. IsLeaf(new)
  BY <1>2, <1>3 DEF IsLeaf
<1>6. LeafOf(new, o)
  BY <1>3, <1>4, <1>5 DEF LeafOf
<1> QED
  BY <1>6 DEF new

\* Through the rules, one after the other.
LEMMA DocumentedIs ==
  ASSUME NEW rs, Len(rs) \in Nat, NEW host, NEW leaf, IsLeaf(leaf)
  PROVE  /\ Documented(rs, host, leaf)[0] = leaf
         /\ \A n \in 1..Len(rs) :
              Documented(rs, host, leaf)[n] =
                IF Fires(rs[n], "json", host)
                THEN LeafDocumented(rs[n], Documented(rs, host, leaf)[n - 1], Documented(rs, host, leaf)[n - 1].path)
                ELSE Documented(rs, host, leaf)[n - 1]
<1> DEFINE N == Len(rs)
           W == (UNION Range(leaf.path)) \cup leaf.text \cup {rs[n].replacement : n \in 1..N}
           V == [id : {leaf.id}, path : [DOMAIN leaf.path -> SUBSET W],
                 type : {leaf.type, "string"}, text : SUBSET W]
           Next1(n, x) == IF Fires(rs[n], "json", host) THEN LeafDocumented(rs[n], x, x.path) ELSE x
           Is(f) == f = [n \in 0..N |-> IF n = 0 THEN leaf ELSE Next1(n, f[n - 1])]
           step == [n \in 1..N |-> [x \in V |-> Next1(n, x)]]
           after == CHOOSE f : Is(f)
<1>1. N \in Nat
  OBVIOUS
<1>2. \A n \in 1..N : \A x \in V : Next1(n, x) \in V
  <2> SUFFICES ASSUME NEW n \in 1..N, NEW x \in V PROVE LeafDocumented(rs[n], x, x.path) \in V
    OBVIOUS
  <2>1. rs[n].replacement \in W
    OBVIOUS
  <2> HIDE DEF W
  <2>2. /\ x.id = leaf.id /\ x.path \in [DOMAIN leaf.path -> SUBSET W]
        /\ x.type \in {leaf.type, "string"} /\ x.text \in SUBSET W
    OBVIOUS
  <2>3. \A t \in SUBSET W : Redacted(rs[n], t) \in SUBSET W
    BY <2>1 DEF Redacted
  <2> QED
    BY <2>2, <2>3 DEF LeafDocumented
<1>3. leaf \in V
  <2>1. /\ leaf = [id |-> leaf.id, path |-> leaf.path, type |-> leaf.type, text |-> leaf.text]
        /\ leaf.path = [n \in DOMAIN leaf.path |-> leaf.path[n]]
        /\ \A n \in DOMAIN leaf.path : leaf.path[n] \in Range(leaf.path)
    BY ListIs DEF IsLeaf
  <2>2. \A n \in DOMAIN leaf.path : leaf.path[n] \subseteq W
    BY <2>1
  <2>3. leaf.text \subseteq W
    OBVIOUS
  <2> HIDE DEF W
  <2>4. leaf.path \in [DOMAIN leaf.path -> SUBSET W]
    BY <2>1, <2>2
  <2> QED
    BY <2>1, <2>3, <2>4
<1>4. Documented(rs, host, leaf) = after
  <2>1. Documented(rs, host, leaf) =
          (CHOOSE f : f = [n \in 0..N |-> IF n = 0 THEN leaf
               ELSE IF Fires(rs[n], "json", host)
                    THEN LeafDocumented(rs[n], f[n - 1], f[n - 1].path) ELSE f[n - 1]])
    BY DEF Documented
  <2> QED
    BY <2>1
<1>5. \A n, x : Next1(n, x) = IF Fires(rs[n], "json", host) THEN LeafDocumented(rs[n], x, x.path) ELSE x
  OBVIOUS
<1> HIDE DEF Next1, N, V, W
<1>6. step \in Steps(N, V)
  BY <1>2 DEF Steps
<1>7. \A n \in 1..N : \A x \in V : step[n][x] = Next1(n, x)
  OBVIOUS
<1> HIDE DEF step
<1>8. PICK f : Follows(f, N, V, leaf, step)
  BY <1>1, <1>3, <1>6, Recursion
<1>9. Is(f)
  <2>1. \A n \in 0..N : n # 0 => n \in 1..N /\ f[n - 1] \in V
    BY <1>1, <1>8 DEF Follows
  <2>2. \A n \in 0..N : f[n] = IF n = 0 THEN leaf ELSE Next1(n, f[n - 1])
    BY <1>7, <1>8, <2>1 DEF Follows
  <2>3. f = [n \in 0..N |-> f[n]]
    BY <1>8 DEF Follows
  <2> QED
    BY <2>2, <2>3
<1>10. Is(after)
  BY <1>9
<1> HIDE DEF after
<1>11. after[0] = leaf /\ \A n \in 1..N : after[n] = Next1(n, after[n - 1])
  BY <1>1, <1>10
<1> QED
  BY <1>4, <1>5, <1>11 DEF N
-----------------------------------------------------------------------------
\* A rule takes paths that begin alike to paths that begin alike.
LEMMA NewPathBegins ==
  ASSUME NEW S, NEW p \in Seq(S), NEW q \in Seq(S), NEW rule,
         NEW n \in DOMAIN p \cap DOMAIN q, Prefix(p, n) = Prefix(q, n)
  PROVE  Prefix(NewPath(rule, p), n) = Prefix(NewPath(rule, q), n)
<1>1. /\ DOMAIN p = 1..Len(p) /\ Len(p) \in Nat /\ DOMAIN q = 1..Len(q) /\ Len(q) \in Nat
      /\ n \in 1..Len(p) /\ n \in 1..Len(q)
  BY LenProperties
<1>2. \A i \in 1..n : p[i] = q[i]
  BY <1>1, PrefixesEqual
<1>3. \A i \in 0..n : Prefix(p, i) = Prefix(q, i)
  <2> SUFFICES ASSUME NEW i \in 0..n PROVE Prefix(p, i) = Prefix(q, i)
    OBVIOUS
  <2>1. i \in 0..Len(p) /\ i <= Len(q) /\ \A k \in 1..i : k \in 1..n
    BY <1>1
  <2> QED
    BY <1>2, <2>1, PrefixesEqual
<1>4. \A i \in 1..n : NewPath(rule, p)[i] = NewPath(rule, q)[i]
  <2> SUFFICES ASSUME NEW i \in 1..n PROVE NewKey(rule, p, i) = NewKey(rule, q, i)
    BY <1>1 DEF NewPath
  <2>1. i \in 0..n /\ i - 1 \in 0..n
    BY <1>1
  <2>2. p[i] = q[i] /\ Prefix(p, i) = Prefix(q, i) /\ Prefix(p, i - 1) = Prefix(q, i - 1)
    BY <1>2, <1>3, <2>1
  <2> QED
    BY <2>2 DEF NewKey
<1>5. /\ NewPath(rule, p) \in Seq(Range(NewPath(rule, p)) \cup Range(NewPath(rule, q)))
      /\ NewPath(rule, q) \in Seq(Range(NewPath(rule, p)) \cup Range(NewPath(rule, q)))
      /\ Len(NewPath(rule, p)) = Len(p) /\ Len(NewPath(rule, q)) = Len(q)
  BY <1>1 DEF NewPath, Range
<1> QED
  BY <1>1, <1>4, <1>5, PrefixesEqual

\* Where the leaves left are: now is the path of each original one, through the
\* rules run so far.  Those that began alike still do, those left that begin
\* alike did so as they came, and what is lost would be under a key that is left
\* and that was another.
BeginAlike(p, q, n) == n \in DOMAIN p \cap DOMAIN q /\ Prefix(p, n) = Prefix(q, n)
LostTo(now, o, w, n) ==
    n \in DOMAIN o.path /\ BeginAlike(now[w], now[o], n) /\ Prefix(w.path, n) # Prefix(o.path, n)
Accounted(orig, left, now) ==
    /\ \A a, b \in orig : \A n : BeginAlike(a.path, b.path, n) => BeginAlike(now[a], now[b], n)
    /\ \A a, b \in left : \A n : BeginAlike(now[a], now[b], n) => BeginAlike(a.path, b.path, n)
    /\ \A o \in orig \ left : \E w \in left : \E n : LostTo(now, o, w, n)

\* Paths that begin alike do so before that.
LEMMA BeginAlikeBefore ==
  ASSUME NEW S, NEW p \in Seq(S), NEW q \in Seq(S), NEW n, BeginAlike(p, q, n), NEW m \in 1..n
  PROVE  BeginAlike(p, q, m)
<1>1. /\ DOMAIN p = 1..Len(p) /\ Len(p) \in Nat /\ DOMAIN q = 1..Len(q) /\ Len(q) \in Nat
      /\ n \in 1..Len(p) /\ n \in 1..Len(q) /\ Prefix(p, n) = Prefix(q, n)
  BY LenProperties DEF BeginAlike
<1>2. n \in 0..Len(p) /\ n <= Len(q) /\ m \in 0..Len(p) /\ m <= Len(q)
  BY <1>1
<1>3. \A i \in 1..m : i \in 1..n
  BY <1>1
<1>4. \A i \in 1..m : p[i] = q[i]
  BY <1>1, <1>2, <1>3, PrefixesEqual
<1>5. Prefix(p, m) = Prefix(q, m)
  BY <1>2, <1>4, PrefixesEqual
<1>6. m \in DOMAIN p \cap DOMAIN q
  BY <1>1
<1> QED
  BY <1>5, <1>6 DEF BeginAlike

\* One more rule over the leaves left: it leaves left2 of them, no two of which
\* collide, and every other of which does with one that it leaves.
OneMore(S, rule, orig, left, left2, now, next) ==
    /\ left \in SUBSET orig /\ left2 \in SUBSET left
    /\ \A o \in orig :
         /\ o.path \in Seq(S) /\ now[o] \in Seq(S) /\ next[o] \in Seq(S)
         /\ DOMAIN now[o] = DOMAIN o.path /\ DOMAIN next[o] = DOMAIN o.path
         /\ next[o] = NewPath(rule, now[o])
    /\ \A a, b \in left2 : \A n : BeginAlike(next[a], next[b], n) => BeginAlike(now[a], now[b], n)
    /\ \A c \in left \ left2 : \E w \in left2 : \E n :
         BeginAlike(next[w], next[c], n) /\ Prefix(now[w], n) # Prefix(now[c], n)

\* Nothing is lost to anything else by it.
LEMMA LossStep ==
  ASSUME NEW S, NEW rule, NEW orig, NEW left, NEW left2, NEW now, NEW next,
         OneMore(S, rule, orig, left, left2, now, next), Accounted(orig, left, now)
  PROVE  Accounted(orig, left2, next)
<1> USE DEF OneMore
<1>1. ASSUME NEW a \in orig, NEW b \in orig, NEW n, BeginAlike(now[a], now[b], n)
      PROVE  BeginAlike(next[a], next[b], n)
  BY <1>1, NewPathBegins DEF BeginAlike
<1>2. \A a, b \in orig : \A n : BeginAlike(a.path, b.path, n) => BeginAlike(next[a], next[b], n)
  BY <1>1 DEF Accounted
<1>3. \A a, b \in left2 : \A n : BeginAlike(next[a], next[b], n) => BeginAlike(a.path, b.path, n)
  BY DEF Accounted
\* One that is not found where it was did not come from there either.
<1>4. ASSUME NEW o \in orig, NEW c \in left, NEW w \in left2, NEW m,
             BeginAlike(now[c], now[o], m),
             BeginAlike(next[w], next[c], m), Prefix(now[w], m) # Prefix(now[c], m)
      PROVE  LostTo(next, o, w, m)
  <2>1. BeginAlike(next[w], next[o], m)
    BY <1>1, <1>4 DEF BeginAlike
  <2>2. Prefix(w.path, m) # Prefix(o.path, m)
    <3>1. SUFFICES ASSUME Prefix(w.path, m) = Prefix(o.path, m) PROVE FALSE
      OBVIOUS
    <3>2. BeginAlike(w.path, o.path, m)
      BY <2>1, <3>1 DEF BeginAlike
    <3>3. BeginAlike(now[w], now[o], m)
      BY <3>2 DEF Accounted
    <3> QED
      BY <1>4, <3>3 DEF BeginAlike
  <2> QED
    BY <2>1, <2>2 DEF LostTo, BeginAlike
<1>5. ASSUME NEW o \in orig \ left2
      PROVE  \E w \in left2 : \E n : LostTo(next, o, w, n)
  <2>1. CASE o \in left
    <3> DEFINE Same(w, n) == BeginAlike(next[w], next[o], n) /\ Prefix(now[w], n) # Prefix(now[o], n)
    <3>0. PICK w \in left2 : \E n : Same(w, n)
      BY <1>5, <2>1
    <3>1. PICK n : Same(w, n)
      BY <3>0
    <3>2. BeginAlike(now[o], now[o], n)
      BY <3>1 DEF BeginAlike
    <3>3. LostTo(next, o, w, n)
      BY <1>4, <2>1, <3>1, <3>2
    <3> QED
      BY <3>3
  <2>2. CASE o \notin left
    <3>0. PICK c \in left : \E n : LostTo(now, o, c, n)
      BY <1>5, <2>2 DEF Accounted
    <3>1. PICK n : LostTo(now, o, c, n)
      BY <3>0
    <3>2. BeginAlike(now[c], now[o], n) /\ BeginAlike(next[c], next[o], n)
      BY <1>1, <3>1 DEF LostTo
    <3>3. CASE c \in left2
      <4>1. LostTo(next, o, c, n)
        BY <3>1, <3>2 DEF LostTo
      <4> QED
        BY <3>3, <4>1
    <3>4. CASE c \notin left2
      <4> DEFINE Same(w, m) == BeginAlike(next[w], next[c], m) /\ Prefix(now[w], m) # Prefix(now[c], m)
      <4>0. PICK w \in left2 : \E m : Same(w, m)
        BY <3>4
      <4>1. PICK m : Same(w, m)
        BY <4>0
      <4>2. n \in Nat \ {0} /\ m \in Nat \ {0} /\ DOMAIN now[w] = DOMAIN next[w]
        BY <3>2, <4>1, LenProperties DEF BeginAlike
      <4>3. CASE m <= n
        <5>1. m \in 1..n
          BY <4>2, <4>3
        <5>2. BeginAlike(now[c], now[o], m)
          BY <3>2, <5>1, BeginAlikeBefore
        <5>3. LostTo(next, o, w, m)
          BY <1>4, <4>1, <5>2
        <5> QED
          BY <5>3
      <4>4. CASE n < m
        <5>1. n \in 1..m
          BY <4>2, <4>4
        <5>2. BeginAlike(next[w], next[c], n)
          BY <4>1, <5>1, BeginAlikeBefore
        <5>3. CASE Prefix(now[w], n) # Prefix(now[c], n)
          <6>1. LostTo(next, o, w, n)
            BY <1>4, <3>2, <5>2, <5>3
          <6> QED
            BY <6>1
        <5>4. CASE Prefix(now[w], n) = Prefix(now[c], n)
          <6>1. BeginAlike(now[w], now[c], n)
            BY <5>2, <5>4 DEF BeginAlike
          <6>2. Prefix(w.path, n) = Prefix(c.path, n)
            BY <6>1 DEF Accounted, BeginAlike
          <6>3. BeginAlike(next[w], next[o], n)
            BY <3>2, <5>2 DEF BeginAlike
          <6>4. LostTo(next, o, w, n)
            BY <3>1, <6>2, <6>3 DEF LostTo
          <6> QED
            BY <6>4
        <5> QED
          BY <5>3, <5>4
      <4> QED
        BY <4>2, <4>3, <4>4
    <3> QED
      BY <3>3, <3>4
  <2> QED
    BY <2>1, <2>2
<1> QED
  BY <1>2, <1>3, <1>5 DEF Accounted
-----------------------------------------------------------------------------
\* What the rules run so far make of a leaf that came; and of the document, its
\* leaves that are left and where each is, or would be.
Become(o) == Documented(taken, pipe.host, o)[at]
Left == {o \in original : \E leaf \in doc : leaf.id = o.id}
Now == [o \in original |-> Become(o).path]

JsonInv ==
    /\ taken \in Seq(Range(taken)) /\ at \in 0..Len(taken)
    /\ \A o \in original :
         IsLeaf(o) /\ LeafOf(Become(o), o) /\ \A other \in original : other.id = o.id => other = o
    /\ NamesFields => doc \subseteq {Become(o) : o \in original} /\ Accounted(original, Left, Now)
BodyInv ==
    /\ rules \in Seq(Range(rules))
    /\ stage = "json" => JsonInv

\* Redactor.Update leaves a list of rules.
LEMMA UpdateIsList ==
  ASSUME NEW r \in RuleSets, NEW old, old \in Seq(Range(old))
  PROVE  Update(r, old) \in Seq(Range(Update(r, old)))
<1> DEFINE compiled == [i \in DOMAIN r |-> Compile(r[i])]
<1>1. DOMAIN r = 1..Len(r) /\ Len(r) \in Nat
  BY RuleSetsAssumption, ListIs
<1>2. compiled = [i \in 1..Len(r) |-> compiled[i]]
  BY <1>1
<1> HIDE DEF compiled
<1>3. compiled \in Seq(Range(compiled))
  BY <1>1, <1>2, ListOf
<1>4. Update(r, old) = compiled \/ Update(r, old) = old
  BY DEF Update, compiled
<1> QED
  BY <1>3, <1>4

LEMMA InitBodyInv == Init => BodyInv
<1> SUFFICES ASSUME Init PROVE BodyInv
  OBVIOUS
<1>1. <<>> \in Seq(Range(<<>>))
  BY EmptySeq
<1>2. PICK r \in RuleSets : rules = Update(r, <<>>)
  BY DEF Init
<1>3. rules \in Seq(Range(rules))
  BY <1>1, <1>2, UpdateIsList
<1> QED
  BY <1>3 DEF Init, BodyInv

\* What is known of the body and the rules run over it is of these alone.
LEMMA BodyStays ==
  ASSUME JsonInv, UNCHANGED <<pipe, doc, original, taken, at>>
  PROVE  JsonInv'
<1>1. pipe' = pipe /\ doc' = doc /\ original' = original /\ taken' = taken /\ at' = at
  OBVIOUS
<1>2. \A o : Become(o)' = Become(o)
  BY <1>1 DEF Become
<1>3. Left' = Left /\ Now' = Now /\ (NamesFields' <=> NamesFields)
  BY <1>1, <1>2 DEF Left, Now, NamesFields
<1> QED
  BY <1>1, <1>2, <1>3 DEF JsonInv

\* The steps that run no structured rule, and take none.
LEMMA OtherStep ==
  ASSUME BodyInv, UNCHANGED rules,
         stage' = "json" => UNCHANGED <<stage, pipe, doc, original, taken, at>>
  PROVE  BodyInv'
<1>1. CASE stage' = "json"
  <2>1. UNCHANGED <<stage, pipe, rules, doc, original, taken, at>>
    BY <1>1
  <2>2. JsonInv'
    BY <1>1, <2>1, BodyStays DEF BodyInv
  <2> QED
    BY <2>1, <2>2 DEF BodyInv
<1>2. CASE stage' # "json"
  BY <1>2 DEF BodyInv
<1> QED
  BY <1>1, <1>2

LEMMA InstallBody == ASSUME BodyInv, NEW r \in RuleSets, Install(r) PROVE BodyInv'
<1>1. rules' \in Seq(Range(rules'))
  BY UpdateIsList DEF BodyInv, Install
<1>2. UNCHANGED <<stage, pipe, doc, original, taken, at>>
  BY DEF Install, bodyVars, given
<1>3. stage' = "json" => JsonInv'
  BY <1>2, BodyStays DEF BodyInv
<1> QED
  BY <1>1, <1>3 DEF BodyInv

\* ApplyJSON has run none of the rules it takes.
LEMMA RespondBody == ASSUME BodyInv, NEW d \in Documents, Respond(d) PROVE BodyInv'
<1>1. /\ rules' = rules /\ doc' = d /\ original' = d /\ taken' = rules /\ at' = 0
  BY DEF Respond, TakeRules
<1>2. rules \in Seq(Range(rules)) /\ Len(rules) \in Nat
  BY LenProperties DEF BodyInv
<1>3. \A o \in d : IsLeaf(o) /\ \A other \in d : other.id = o.id => other = o
  BY DocumentsAssumption
<1>4. \A o \in d : Become(o)' = o
  <2> SUFFICES ASSUME NEW o \in d PROVE Become(o)' = o
    OBVIOUS
  <2>1. Documented(rules, pipe'.host, o)[0] = o
    BY <1>2, <1>3, DocumentedIs
  <2> QED
    BY <1>1, <2>1 DEF Become
<1>5. \A o \in d : LeafOf(o, o)
  BY <1>3 DEF LeafOf
<1>6. Left' = d
  BY <1>1 DEF Left
<1>7. \A o \in d : Now'[o] = o.path
  BY <1>1, <1>4 DEF Now
<1>8. Accounted(d, d, Now')
  BY <1>7 DEF Accounted
<1>9. doc' \subseteq {Become(o)' : o \in original'}
  BY <1>1, <1>4
<1>10. JsonInv'
  BY <1>1, <1>2, <1>3, <1>4, <1>5, <1>6, <1>8, <1>9 DEF JsonInv
<1> QED
  BY <1>1, <1>2, <1>10 DEF BodyInv

\* redactValue: one more rule has been run.
LEMMA RunBody == ASSUME BodyInv, RunStructured PROVE BodyInv'
<1> PICK rule : rule = taken[at + 1]
  OBVIOUS
<1> DEFINE fires == Fires(rule, "json", pipe.host)
<1>1. /\ stage = "json" /\ stage' = stage /\ UNCHANGED <<pipe, rules, original, taken>>
      /\ at < Len(taken) /\ at' = at + 1
      /\ IF fires THEN doc' \in Outcomes(rule, doc) ELSE doc' = doc
  BY DEF RunStructured, RuleIsRun, Turn, given
<1>2. JsonInv /\ taken \in Seq(Range(taken)) /\ at \in 0..Len(taken) /\ Len(taken) \in Nat
      /\ DOMAIN taken = 1..Len(taken)
  BY <1>1, LenProperties DEF BodyInv, JsonInv
<1>3. at' \in 1..Len(taken) /\ at' - 1 = at /\ rule = taken[at']
  BY <1>1, <1>2
<1>4. \A o \in original :
        Become(o)' = IF fires THEN LeafDocumented(rule, Become(o), Become(o).path) ELSE Become(o)
  <2> SUFFICES ASSUME NEW o \in original
               PROVE  Documented(taken, pipe.host, o)[at'] =
                        IF fires THEN LeafDocumented(rule, Become(o), Become(o).path) ELSE Become(o)
    BY <1>1 DEF Become
  <2>1. IsLeaf(o)
    BY <1>2 DEF JsonInv
  <2> DEFINE D == Documented(taken, pipe.host, o)
  <2>2. \A n \in 1..Len(taken) :
          D[n] = IF Fires(taken[n], "json", pipe.host)
                 THEN LeafDocumented(taken[n], D[n - 1], D[n - 1].path) ELSE D[n - 1]
    BY <1>2, <2>1, DocumentedIs
  <2>3. Become(o) = D[at]
    BY DEF Become
  <2> HIDE DEF D
  <2>4. D[at'] = IF fires THEN LeafDocumented(rule, D[at], D[at].path) ELSE D[at]
    BY <1>3, <2>2
  <2> QED
    BY <2>3, <2>4 DEF D
<1>5. \A o \in original : LeafOf(Become(o), o) /\ LeafOf(Become(o)', o)
  BY <1>2, <1>4, LeafStays DEF JsonInv
<1>6. \A o \in original : \A other \in original : other.id = o.id => other = o
  BY <1>2 DEF JsonInv
<1>7. ASSUME NamesFields'
      PROVE  doc' \subseteq {Become(o)' : o \in original} /\ Accounted(original, Left', Now')
  <2>1. doc \subseteq {Become(o) : o \in original} /\ Accounted(original, Left, Now)
    BY <1>1, <1>2, <1>7 DEF JsonInv, NamesFields
  <2>2. rule.redact = None \/ <<>> \notin rule.redact
    BY <1>1, <1>2, <1>3, <1>7 DEF NamesFields
  <2>3. CASE ~fires
    <3>1. doc' = doc /\ \A o \in original : Become(o)' = Become(o)
      BY <1>1, <1>4, <2>3
    <3>2. Left' = Left /\ Now' = Now
      BY <1>1, <3>1 DEF Left, Now
    <3> QED
      BY <2>1, <3>1, <3>2
  <2>4. CASE fires
    <3>1. PICK s \in Survivors(rule, doc) : doc' = {NewLeaf(rule, leaf) : leaf \in s}
      BY <1>1, <2>4 DEF Outcomes
    <3>2. /\ s \in SUBSET doc /\ \A a, b \in s : ~Collide(rule, a, b)
          /\ \A leaf \in doc \ s : ~ \A a, b \in s \cup {leaf} : ~Collide(rule, a, b)
      <4> DEFINE kept == {t \in SUBSET doc : \A a, b \in t : ~Collide(rule, a, b)}
      <4>1. s \in kept /\ \A leaf \in doc \ s : s \cup {leaf} \notin kept
        BY <3>1 DEF Survivors
      <4>2. \A leaf \in doc \ s : s \cup {leaf} \in SUBSET doc
        BY <4>1
      <4> QED
        BY <4>1, <4>2
    <3>3. \A o \in original :
            /\ Become(o)' = NewLeaf(rule, Become(o)) /\ Become(o)'.path = NewPath(rule, Become(o).path)
            /\ Become(o).id = o.id /\ Become(o)'.id = o.id
      <4> SUFFICES ASSUME NEW o \in original
                   PROVE  /\ Become(o)' = NewLeaf(rule, Become(o))
                          /\ Become(o)'.path = NewPath(rule, Become(o).path)
                          /\ Become(o).id = o.id /\ Become(o)'.id = o.id
        OBVIOUS
      <4>1. IsLeaf(Become(o)) /\ Become(o).id = o.id /\ Become(o)'.id = o.id
        BY <1>5 DEF LeafOf
      <4>2. Become(o)' = LeafDocumented(rule, Become(o), Become(o).path)
        BY <1>4, <2>4
      <4> QED
        BY <2>2, <4>1, <4>2, NewLeafIs
    <3>4. doc' \subseteq {Become(o)' : o \in original}
      BY <2>1, <3>1, <3>2, <3>3
    <3>5. \A o \in original : (o \in Left <=> Become(o) \in doc) /\ (o \in Left' <=> Become(o) \in s)
      <4> SUFFICES ASSUME NEW o \in original
                   PROVE  (o \in Left <=> Become(o) \in doc) /\ (o \in Left' <=> Become(o) \in s)
        OBVIOUS
      <4>1. ASSUME o \in Left PROVE Become(o) \in doc
        <5>1. PICK p \in original : Become(p) \in doc /\ Become(p).id = o.id
          BY <2>1, <4>1 DEF Left
        <5>2. p = o
          BY <1>6, <3>3, <5>1
        <5> QED
          BY <5>1, <5>2
      <4>2. ASSUME Become(o) \in doc PROVE o \in Left
        BY <3>3, <4>2 DEF Left
      <4>3. ASSUME o \in Left' PROVE Become(o) \in s
        <5>1. PICK leaf \in s : NewLeaf(rule, leaf).id = o.id
          BY <1>1, <3>1, <4>3 DEF Left
        <5>2. PICK p \in original : leaf = Become(p)
          BY <2>1, <3>2
        <5>3. p = o
          BY <1>6, <3>3, <5>1, <5>2
        <5> QED
          BY <5>2, <5>3
      <4>4. ASSUME Become(o) \in s PROVE o \in Left'
        <5>1. Become(o)' \in doc'
          BY <3>1, <3>3, <4>4
        <5>2. Become(o)'.id = o.id
          BY <3>3
        <5> QED
          BY <1>1, <5>1, <5>2 DEF Left
      <4> QED
        BY <4>1, <4>2, <4>3, <4>4
    <3>6. Left \in SUBSET original /\ Left' \in SUBSET Left
      <4>1. Left \subseteq original /\ Left' \subseteq original
        BY <1>1 DEF Left
      <4> QED
        BY <3>2, <3>5, <4>1
    <3>7. \A o \in original :
            Now[o] = Become(o).path /\ Now'[o] = Become(o)'.path /\ Now'[o] = NewPath(rule, Now[o])
      BY <1>1, <3>3 DEF Now
    <3> DEFINE S == UNION {Range(o.path) \cup Range(Now[o]) \cup Range(Now'[o]) : o \in original}
    <3>8. \A o \in original :
            /\ o.path \in Seq(S) /\ Now[o] \in Seq(S) /\ Now'[o] \in Seq(S)
            /\ DOMAIN Now[o] = DOMAIN o.path /\ DOMAIN Now'[o] = DOMAIN o.path
      <4> SUFFICES ASSUME NEW o \in original
                   PROVE  /\ o.path \in Seq(S) /\ Now[o] \in Seq(S) /\ Now'[o] \in Seq(S)
                          /\ DOMAIN Now[o] = DOMAIN o.path /\ DOMAIN Now'[o] = DOMAIN o.path
        OBVIOUS
      <4>1. Range(o.path) \subseteq S /\ Range(Now[o]) \subseteq S /\ Range(Now'[o]) \subseteq S
        OBVIOUS
      <4>2. IsLeaf(o) /\ LeafOf(Become(o), o) /\ LeafOf(Become(o)', o)
        BY <1>2, <1>5 DEF JsonInv
      <4>3. /\ o.path \in Seq(Range(o.path))
            /\ Now[o] \in Seq(Range(Now[o])) /\ Now'[o] \in Seq(Range(Now'[o]))
            /\ DOMAIN Now[o] = DOMAIN o.path /\ DOMAIN Now'[o] = DOMAIN o.path
        BY <3>7, <4>2 DEF IsLeaf, LeafOf
      <4>4. ASSUME NEW T, NEW U, T \subseteq U, NEW q \in Seq(T) PROVE q \in Seq(U)
        BY <4>4
      <4> HIDE DEF S
      <4> QED
        BY <4>1, <4>3, <4>4
    <3> HIDE DEF S
    <3>9. ASSUME NEW a \in original, NEW b \in original, NEW n
          PROVE  BeginAlike(Now'[a], Now'[b], n) /\ Prefix(Now[a], n) # Prefix(Now[b], n)
                   => Collide(rule, Become(a), Become(b))
      BY <3>7, <3>8 DEF Collide, BeginAlike
    <3>10. ASSUME NEW a \in Left', NEW b \in Left', NEW n, BeginAlike(Now'[a], Now'[b], n)
           PROVE  BeginAlike(Now[a], Now[b], n)
      <4>1. a \in original /\ b \in original /\ ~Collide(rule, Become(a), Become(b))
        BY <3>2, <3>5, <3>6, <3>10
      <4> QED
        BY <3>8, <3>9, <3>10, <4>1 DEF BeginAlike
    <3>11. ASSUME NEW c \in Left \ Left'
           PROVE  \E w \in Left' : \E n :
                    BeginAlike(Now'[w], Now'[c], n) /\ Prefix(Now[w], n) # Prefix(Now[c], n)
      <4>1. c \in original /\ Become(c) \in doc \ s
        BY <3>5, <3>6, <3>11
      <4>2. PICK a \in s \cup {Become(c)}, b \in s \cup {Become(c)} : Collide(rule, a, b)
        BY <3>2, <4>1
      <4>3. a # b /\ Collide(rule, b, a)
        BY <4>2 DEF Collide
      <4>4. PICK x \in s : Collide(rule, x, Become(c))
        BY <3>2, <4>2, <4>3
      <4>5. PICK w \in original : x = Become(w)
        BY <2>1, <3>2, <4>4
      <4>6. w \in Left'
        BY <3>5, <4>4, <4>5
      <4>7. PICK n \in DOMAIN Now[w] \cap DOMAIN Now[c] :
              /\ Prefix(NewPath(rule, Now[w]), n) = Prefix(NewPath(rule, Now[c]), n)
              /\ Prefix(Now[w], n) # Prefix(Now[c], n)
        BY <3>7, <4>1, <4>4, <4>5 DEF Collide
      <4>8. BeginAlike(Now'[w], Now'[c], n)
        BY <3>7, <3>8, <4>1, <4>7 DEF BeginAlike
      <4> QED
        BY <4>6, <4>7, <4>8
    <3>12. OneMore(S, rule, original, Left, Left', Now, Now')
      BY <3>6, <3>7, <3>8, <3>10, <3>11 DEF OneMore
    <3>13. Accounted(original, Left', Now')
      BY <2>1, <3>12, LossStep
    <3> QED
      BY <3>4, <3>13
  <2> QED
    BY <2>3, <2>4
<1>8. JsonInv'
  BY <1>1, <1>2, <1>3, <1>5, <1>7 DEF JsonInv
<1> QED
  BY <1>1, <1>8 DEF BodyInv

LEMMA NextBodyInv == BodyInv /\ [Next]_vars => BodyInv'
<1> SUFFICES ASSUME BodyInv, [Next]_vars PROVE BodyInv'
  OBVIOUS
<1>1. CASE Forward \/ EndRace \/ \E answers \in Lookups : Dial(answers)
  BY <1>1, OtherStep DEF Forward, EndRace, Dial, Refuse
<1>2. CASE \E i \in DOMAIN dials : Connect(i) \/ Fail(i) \/ Take(i)
  BY <1>2, OtherStep DEF Connect, Fail, Take
<1>3. CASE Answer \/ Finish \/ PutDeadline \/ Leave
  BY <1>3, OtherStep DEF Answer, Finish, PutDeadline, Leave, Refuse, bodyVars, given
<1>4. CASE \E r \in RuleSets : Install(r)
  BY <1>4, InstallBody
<1>5. CASE \E d \in Documents : Respond(d)
  BY <1>5, RespondBody
<1>6. CASE RunStructured
  BY <1>6, RunBody
<1>7. CASE TakeOthers \/ RunOnBytes \/ Send
  BY <1>7, OtherStep DEF TakeOthers, RunOnBytes, Send
<1>8. CASE UNCHANGED vars
  BY <1>8, OtherStep DEF vars, bodyVars, given
<1> QED
  BY <1>1, <1>2, <1>3, <1>4, <1>5, <1>6, <1>7, <1>8 DEF Next

LEMMA BodyIsInvariant == Spec => []BodyInv
<1> QED
  BY InitBodyInv, NextBodyInv, PTL DEF Spec

\* The leaf that came of one that is left, and what the rules make of it.
LEMMA LeftIs ==
  ASSUME BodyInv, StructuredDone, NamesFields, NEW leaf \in doc
  PROVE  Original(leaf) \in original /\ leaf = Become(Original(leaf))
<1>1. JsonInv /\ doc \subseteq {Become(o) : o \in original}
  BY DEF BodyInv, StructuredDone, JsonInv
<1>2. PICK o \in original : leaf = Become(o)
  BY <1>1
<1>3. leaf.id = o.id /\ \A other \in original : other.id = o.id => other = o
  BY <1>1, <1>2 DEF JsonInv, LeafOf
<1>4. Original(leaf) = o
  BY <1>3 DEF Original
<1> QED
  BY <1>2, <1>4

\* README: keys and texts have been through the rules whose subtrees they are in,
\* in their order, and no other, however many rules, fields, keys and texts
\* there are and whatever the rules rename.
THEOREM FieldsAreAsDocumented == Spec => []FieldsAsDocumented
<1>1. BodyInv => FieldsAsDocumented
  BY LeftIs DEF FieldsAsDocumented, StructuredDone, Final, Become
<1> QED
  BY <1>1, BodyIsInvariant, PTL

\* redactValueForRule: through all the rules nothing is lost but to another key
\* that collapses to the same form, however many collapse one after the other.
THEOREM OnlyCollapsedIsLost == Spec => []NothingElseIsLost
<1>1. ASSUME BodyInv PROVE NothingElseIsLost
  <2> SUFFICES ASSUME StructuredDone, NamesFields, NEW o \in original, ~ \E leaf \in doc : leaf.id = o.id
               PROVE  \E leaf \in doc : \E n \in DOMAIN leaf.path \cap DOMAIN o.path :
                        /\ Prefix(leaf.path, n) = Prefix(Final(o).path, n)
                        /\ Prefix(Original(leaf).path, n) # Prefix(o.path, n)
    BY DEF NothingElseIsLost
  <2>1. JsonInv /\ Accounted(original, Left, Now) /\ o \in original \ Left
    BY <1>1 DEF BodyInv, StructuredDone, JsonInv, Left
  <2>0. PICK w \in Left : \E n : LostTo(Now, o, w, n)
    BY <2>1 DEF Accounted
  <2>2. PICK n : LostTo(Now, o, w, n)
    BY <2>0
  <2>3. PICK leaf \in doc : leaf.id = w.id /\ w \in original
    BY <2>2 DEF Left
  <2>4. Original(leaf) \in original /\ leaf = Become(Original(leaf))
    BY <1>1, <2>3, LeftIs
  <2>5. Original(leaf) = w
    <3>1. leaf.id = Original(leaf).id
      BY <2>1, <2>4 DEF JsonInv, LeafOf
    <3> QED
      BY <2>1, <2>3, <2>4, <3>1 DEF JsonInv
  <2>6. Now[w] = leaf.path /\ Now[o] = Final(o).path
    BY <2>3, <2>4, <2>5 DEF Now, Final, Become, StructuredDone
  <2> QED
    BY <2>2, <2>3, <2>5, <2>6 DEF LostTo, BeginAlike
<1> QED
  BY <1>1, BodyIsInvariant, PTL
=============================================================================
