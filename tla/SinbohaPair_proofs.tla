------------------------- MODULE SinbohaPair_proofs -------------------------
(***************************************************************************)
(* Theorems about SinbohaPair, for every number of links, every skew of    *)
(* the clocks, every resolution and every bound.                           *)
(***************************************************************************)
EXTENDS SinbohaPair, StatusRep_proofs

(* The two nodes are each other's peer. *)
LEMMA PeerFacts ==
  ASSUME NEW n \in Node
  PROVE  Peer(n) \in Node /\ Peer(n) # n /\ Peer(Peer(n)) = n /\ Node = {n, Peer(n)}
  BY PairAssumption DEF Node, Peer

(* The true time, and what a node reads, are natural numbers. *)
LEMMA ReadingsAreNat ==
  ASSUME TypeOK, NEW n \in Node, NEW t \in Instants
  PROVE  t \in Nat /\ t + Skew[n] \in Nat
  BY PairAssumption DEF TypeOK, Instants

LEMMA IdleType == Idle \in Call
  BY RepMethods DEF Idle, Call, NewRep, Rep, Status

(***************************************************************************)
(* Every step keeps the variables well formed.                             *)
(***************************************************************************)
LEMMA TypeStep == TypeOK /\ [Next]_vars => TypeOK'
<1> SUFFICES ASSUME TypeOK, [Next]_vars
             PROVE  TypeOK'
  OBVIOUS
<1>1. ASSUME NEW n \in Node, Start(n)
      PROVE  TypeOK'
  <2>1. PICK t \in Instants :
          /\ clock' = t
          /\ rep' = [rep EXCEPT ![n] = NewRep(t + Skew[n])]
          /\ born' = [born EXCEPT ![n] = t + Skew[n]]
    BY <1>1 DEF Start
  <2>2. t \in Nat /\ t + Skew[n] \in Nat /\ NewRep(t + Skew[n]) \in Rep
    BY ReadingsAreNat DEF NewRep, Rep, Status
  <2> QED
    BY <1>1, <2>1, <2>2 DEF TypeOK, Start
<1>2. ASSUME NEW n \in Node, NEW l \in Link, Ask(n, l)
      PROVE  TypeOK'
  <2>1. AskOf(rep[n]) \in Rep
    BY RepFields DEF TypeOK
  <2>2. [pc |-> IF up[Peer(n)] THEN "asked" ELSE "lost",
         ask |-> AskOf(rep[n]), allow |-> FALSE] \in Call
    BY <2>1 DEF Call
  <2> QED
    BY <1>2, <2>2 DEF TypeOK, Ask
<1>3. ASSUME NEW n \in Node, NEW l \in Link, Answer(n, l)
      PROVE  TypeOK'
  <2>1. IfAllowPeerActivate(rep[Peer(n)], hb[n][l].ask) \in BOOLEAN
    BY DEF IfAllowPeerActivate
  <2>2. hb[n][l] \in Call
    BY DEF TypeOK
  <2>3. [hb[n][l] EXCEPT !.pc = "replied",
                         !.allow = IfAllowPeerActivate(rep[Peer(n)], hb[n][l].ask)] \in Call
    BY <2>1, <2>2 DEF Call
  <2>4. hb' \in [Node -> [Link -> Call]]
    BY <1>3, <2>3 DEF TypeOK, Answer
  <2> QED
    BY <1>3, <2>4, PeerFacts DEF TypeOK, Answer
<1>4. ASSUME NEW n \in Node, NEW l \in Link, Apply(n, l)
      PROVE  TypeOK'
  <2>1. PICK t \in Instants :
          /\ rep' = [rep EXCEPT ![n] = TryActivate(@, hb[n][l].allow, t + Skew[n])]
          /\ Stamped(n, t)
    BY <1>4 DEF Apply
  <2>2. rep[n] \in Rep /\ hb[n][l].allow \in BOOLEAN
    BY DEF TypeOK, Call
  <2>3. TryActivate(rep[n], hb[n][l].allow, t + Skew[n]) \in Rep
    BY <2>2, ReadingsAreNat, RepMethods
  <2>4. rep' \in [Node -> Rep]
    BY <2>1, <2>3 DEF TypeOK
  <2>5. clock' \in Nat /\ yielded' \in [Node -> BOOLEAN]
    BY <2>1, ReadingsAreNat DEF TypeOK, Stamped
  <2>6. hb' \in [Node -> [Link -> Call]]
    BY <1>4, IdleType DEF TypeOK, Apply, EndCall
  <2> QED
    BY <1>4, <2>4, <2>5, <2>6 DEF TypeOK, Apply
<1>5. ASSUME NEW n \in Node, NEW l \in Link, Fail(n, l)
      PROVE  TypeOK'
  BY <1>5, IdleType DEF TypeOK, Fail, EndCall
<1>6. ASSUME NEW n \in Node, AnswerLate(n)
      PROVE  TypeOK'
  BY <1>6, PeerFacts DEF TypeOK, AnswerLate
<1>7. ASSUME NEW n \in Node, Silence(n)
      PROVE  TypeOK'
  BY <1>7 DEF TypeOK, Silence, Disturbance
<1>8. ASSUME NEW n \in Node, Check(n)
      PROVE  TypeOK'
  BY <1>8 DEF TypeOK, Check
<1>9. ASSUME NEW n \in Node, Split(n)
      PROVE  TypeOK'
  <2>1. PICK t \in Instants :
          /\ rep' = [rep EXCEPT ![n] = BrainSplit(@, t + Skew[n])]
          /\ Stamped(n, t)
    BY <1>9 DEF Split
  <2>2. BrainSplit(rep[n], t + Skew[n]) \in Rep
    BY ReadingsAreNat, RepMethods DEF TypeOK
  <2>3. rep' \in [Node -> Rep]
    BY <2>1, <2>2 DEF TypeOK
  <2>4. clock' \in Nat /\ yielded' \in [Node -> BOOLEAN]
    BY <2>1, ReadingsAreNat DEF TypeOK, Stamped
  <2> QED
    BY <1>9, <2>3, <2>4 DEF TypeOK, Split
<1>10. ASSUME NEW n \in Node, ManualSwitch(n)
       PROVE  TypeOK'
  <2>1. PICK t \in Instants :
          /\ clock' = t
          /\ rep' = [rep EXCEPT ![n] = Switch(@, t + Skew[n])]
    BY <1>10 DEF ManualSwitch
  <2>2. t \in Nat /\ Switch(rep[n], t + Skew[n]) \in Rep
    BY ReadingsAreNat, RepMethods DEF TypeOK
  <2> QED
    BY <1>10, <2>1, <2>2 DEF TypeOK, ManualSwitch, Disturbance
<1>11. ASSUME NEW n \in Node, Crash(n)
       PROVE  TypeOK'
  <2>1. hb' \in [Node -> [Link -> Call]]
    <3>1. ASSUME NEW m \in Node, NEW l \in Link
          PROVE  /\ hb[m][l] \in Call
                 /\ [hb[m][l] EXCEPT !.pc = "lost"] \in Call
      <4>1. hb[m][l] \in Call
        BY DEF TypeOK
      <4> QED
        BY <4>1 DEF Call
    <3> QED
      BY <1>11, <3>1, IdleType DEF Crash
  <2>2. NewRep(0) \in Rep
    BY DEF NewRep, Rep, Status
  <2>3. late' \in [Node -> BOOLEAN]
    BY <1>11 DEF Crash
  <2> QED
    BY <1>11, <2>1, <2>2, <2>3 DEF TypeOK, Crash, Disturbance
<1>12. CASE UNCHANGED vars
  BY <1>12 DEF TypeOK, vars
<1> QED
  BY <1>1, <1>2, <1>3, <1>4, <1>5, <1>6, <1>7, <1>8, <1>9, <1>10, <1>11, <1>12
  DEF Next, Heartbeat

(***************************************************************************)
(* TypeOK holds in every reachable state of the pair.                      *)
(***************************************************************************)
THEOREM TypeCorrect == Spec => []TypeOK
<1>1. Init => TypeOK
  <2>1. NewRep(0) \in Rep
    BY DEF NewRep, Rep, Status
  <2> QED
    BY <2>1, IdleType DEF Init, TypeOK
<1> QED
  BY <1>1, TypeStep, PTL DEF Spec

(***************************************************************************)
(* What the rules say of a settled pair: the ACTIVE node is confirmed, the *)
(* STANDBY node is not.                                                    *)
(***************************************************************************)
LEMMA SettledVerdicts ==
  ASSUME NEW r \in Rep, NEW s \in Rep, r.status = "ACTIVE", s.status = "STANDBY"
  PROVE  IfAllowPeerActivate(s, AskOf(r)) /\ ~IfAllowPeerActivate(r, AskOf(s))
  BY RepFields DEF IfAllowPeerActivate

(***************************************************************************)
(* A step without a disturbance leaves a settled pair settled.             *)
(***************************************************************************)
LEMMA SettledStep ==
  ASSUME TypeOK, [Next]_vars, NEW n \in Node, Settled(n), used' = used
  PROVE  Settled(n)'
<1> DEFINE m == Peer(n)
<1>1. /\ m \in Node /\ m # n /\ Peer(m) = n /\ Node = {n, m}
  BY PeerFacts
<1>2. /\ up[n] /\ up[m]
      /\ rep[n] \in Rep /\ rep[n].status = "ACTIVE"
      /\ rep[m] \in Rep /\ rep[m].status = "STANDBY"
      /\ checker[m] = "wait" /\ ~silent[m]
  BY <1>1 DEF Settled, TypeOK
<1>3. ASSUME NEW l \in Link
      PROVE  /\ hb[n][l].pc = "replied" => hb[n][l].allow
             /\ hb[n][l].pc = "asked" => IfAllowPeerActivate(rep[m], hb[n][l].ask)
             /\ hb[m][l].pc = "replied" => ~hb[m][l].allow
             /\ hb[m][l].pc = "asked" => ~IfAllowPeerActivate(rep[n], hb[m][l].ask)
  BY DEF Settled
<1>4. /\ IfAllowPeerActivate(rep[m], AskOf(rep[n]))
      /\ ~IfAllowPeerActivate(rep[n], AskOf(rep[m]))
  BY <1>2, SettledVerdicts
<1>5. ASSUME NEW now
      PROVE  /\ TryActivate(rep[n], TRUE, now) = rep[n]
             /\ TryActivate(rep[m], FALSE, now) = rep[m]
             /\ BrainSplit(rep[n], now) = rep[n]
  BY <1>2 DEF TryActivate, BrainSplit, SetStatus
<1> HIDE DEF m
<1>6. ASSUME up' = up, rep' = rep, checker'[m] = "wait", ~silent'[m],
             \A l \in Link :
               /\ hb'[n][l] = hb[n][l] \/ hb'[n][l] = Idle
               /\ hb'[m][l] = hb[m][l] \/ hb'[m][l] = Idle
      PROVE  Settled(n)'
  BY <1>2, <1>3, <1>6 DEF Settled, Idle, m
<1>7. ASSUME NEW x \in Node, Start(x)
      PROVE  Settled(n)'
  BY <1>1, <1>2, <1>7 DEF Start
<1>8. ASSUME NEW x \in Node, NEW l \in Link, Ask(x, l)
      PROVE  Settled(n)'
  <2>1. up[Peer(x)]
    BY <1>1, <1>2 DEF m
  <2>2. /\ up' = up /\ rep' = rep /\ silent' = silent /\ checker' = checker
        /\ hb' = [hb EXCEPT ![x][l] =
             [pc |-> "asked", ask |-> AskOf(rep[x]), allow |-> FALSE]]
    BY <1>8, <2>1 DEF Ask
  <2> QED
    BY <1>1, <1>2, <1>3, <1>4, <2>2 DEF Settled, TypeOK, m
<1>9. ASSUME NEW x \in Node, NEW l \in Link, Answer(x, l)
      PROVE  Settled(n)'
  <2>1. /\ up' = up /\ rep' = rep /\ checker' = checker
        /\ silent' = [silent EXCEPT ![Peer(x)] = FALSE]
        /\ hb[x][l].pc = "asked"
        /\ hb' = [hb EXCEPT ![x][l].pc = "replied",
                            ![x][l].allow = IfAllowPeerActivate(rep[Peer(x)], hb[x][l].ask)]
    BY <1>9 DEF Answer
  <2>2. hb[x][l] \in Call /\ hb \in [Node -> [Link -> Call]]
    BY DEF TypeOK
  <2>3. /\ hb'[x][l].pc = "replied"
        /\ hb'[x][l].allow = IfAllowPeerActivate(rep[Peer(x)], hb[x][l].ask)
        /\ \A y \in Node, k \in Link : y # x \/ k # l => hb'[y][k] = hb[y][k]
    BY <2>1, <2>2 DEF Call
  <2>4. ~silent'[m]
    BY <1>1, <1>2, <2>1 DEF TypeOK
  <2>5. CASE x = n
    BY <1>1, <1>2, <1>3, <2>1, <2>3, <2>4, <2>5 DEF Settled, m
  <2>6. CASE x = m
    BY <1>1, <1>2, <1>3, <2>1, <2>3, <2>4, <2>6 DEF Settled, m
  <2> QED
    BY <1>1, <2>5, <2>6
<1>10. ASSUME NEW x \in Node, NEW l \in Link, Apply(x, l)
       PROVE  Settled(n)'
  <2>1. rep' = rep
    <3>1. PICK t \in Instants :
            rep' = [rep EXCEPT ![x] = TryActivate(@, hb[x][l].allow, t + Skew[x])]
      BY <1>10 DEF Apply
    <3>2. hb[x][l].allow \in BOOLEAN /\ hb[x][l].pc = "replied"
      BY <1>10 DEF Apply, TypeOK, Call
    <3>3. TryActivate(rep[x], hb[x][l].allow, t + Skew[x]) = rep[x]
      <4>1. CASE x = n
        <5>1. hb[x][l].allow = TRUE
          BY <1>3, <3>2, <4>1
        <5> QED
          BY <1>5, <4>1, <5>1
      <4>2. CASE x = m
        <5>1. hb[x][l].allow = FALSE
          BY <1>3, <3>2, <4>2
        <5> QED
          BY <1>5, <4>2, <5>1
      <4> QED
        BY <1>1, <4>1, <4>2
    <3> QED
      BY <3>1, <3>3 DEF TypeOK
  <2>2. /\ up' = up /\ checker' = checker
        /\ silent' = [silent EXCEPT ![x] = FALSE]
        /\ hb' = [hb EXCEPT ![x][l] = Idle]
    BY <1>10 DEF Apply, EndCall
  <2>3. ~silent'[m]
    BY <1>1, <1>2, <2>2 DEF TypeOK
  <2> QED
    BY <1>1, <1>2, <1>6, <2>1, <2>2, <2>3 DEF TypeOK
<1>11. ASSUME NEW x \in Node, NEW l \in Link, Fail(x, l)
       PROVE  Settled(n)'
  <2>1. /\ up' = up /\ rep' = rep /\ checker' = checker /\ silent' = silent
        /\ hb' = [hb EXCEPT ![x][l] = Idle]
    BY <1>11 DEF Fail, EndCall
  <2> QED
    BY <1>1, <1>2, <1>6, <2>1 DEF TypeOK
<1>12. ASSUME NEW x \in Node, AnswerLate(x)
       PROVE  Settled(n)'
  <2>1. /\ up' = up /\ rep' = rep /\ checker' = checker /\ hb' = hb
        /\ silent' = [silent EXCEPT ![Peer(x)] = FALSE]
    BY <1>12 DEF AnswerLate
  <2>2. ~silent'[m]
    BY <1>1, <1>2, <2>1 DEF TypeOK
  <2> QED
    BY <1>2, <1>6, <2>1, <2>2
<1>13. ASSUME NEW x \in Node, Check(x)
       PROVE  Settled(n)'
  <2>1. /\ up' = up /\ rep' = rep /\ silent' = silent /\ hb' = hb
        /\ silent[x] /\ checker' = [checker EXCEPT ![x] = "split"]
    BY <1>13 DEF Check
  <2> QED
    BY <1>1, <1>2, <1>6, <2>1 DEF TypeOK
<1>14. ASSUME NEW x \in Node, Split(x)
       PROVE  Settled(n)'
  <2>1. x = n
    BY <1>1, <1>2, <1>14 DEF Split
  <2>2. rep' = rep
    <3>1. PICK t \in Instants :
            rep' = [rep EXCEPT ![x] = BrainSplit(@, t + Skew[x])]
      BY <1>14 DEF Split
    <3> QED
      BY <1>5, <2>1, <3>1 DEF TypeOK
  <2>3. /\ up' = up /\ silent' = silent /\ hb' = hb
        /\ checker' = [checker EXCEPT ![x] = "wait"]
    BY <1>14 DEF Split
  <2> QED
    BY <1>1, <1>2, <1>6, <2>1, <2>2, <2>3 DEF TypeOK
<1>15. ASSUME NEW x \in Node, Silence(x) \/ ManualSwitch(x) \/ Crash(x)
       PROVE  FALSE
  <2>1. PICK d \in Disturbance : used' = [used EXCEPT ![d] = @ + 1]
    BY <1>15 DEF Silence, ManualSwitch, Crash, Disturbance
  <2>2. used[d] \in Nat /\ used'[d] = used[d] + 1
    BY <2>1 DEF TypeOK
  <2> QED
    BY <2>2
<1>16. CASE UNCHANGED vars
  BY <1>2, <1>6, <1>16 DEF vars
<1> QED
  BY <1>7, <1>8, <1>9, <1>10, <1>11, <1>12, <1>13, <1>14, <1>15, <1>16
  DEF Next, Heartbeat

(***************************************************************************)
(* The ACTIVE role of a settled pair does not move without a disturbance.  *)
(***************************************************************************)
THEOREM SettledStable == Spec => SettledIsStable
<1>1. TypeOK /\ [Next]_vars
        => [\A n \in Node : Settled(n) /\ used' = used => Settled(n)']_vars
  BY SettledStep
<1> QED
  BY <1>1, TypeCorrect, PTL DEF Spec, SettledIsStable

(***************************************************************************)
(* The rules can resolve every reachable state of the two repositories.    *)
(***************************************************************************)
THEOREM AlwaysOneAllowed == Spec => []OneIsAllowed
<1>1. TypeOK => OneIsAllowed
  BY ExactlyOneAllowed DEF TypeOK, OneIsAllowed, Node
<1> QED
  BY <1>1, TypeCorrect, PTL

-----------------------------------------------------------------------------
(***************************************************************************)
(* The inductive invariant behind DualActiveNeedsDisturbance.  As long as  *)
(* nothing was switched, silent or crashed:                                *)
(*   - no checker moves;                                                   *)
(*   - a node that is not up has asked nothing, and its peer has learned   *)
(*     nothing;                                                            *)
(*   - PENDING, in a repository or in a question, goes with the time the   *)
(*     process started;                                                    *)
(*   - the elder node is never refused and the younger never allowed.      *)
(***************************************************************************)
Undisturbed == \A d \in Disturbance : used[d] = 0

Quiet == \A n \in Node : checker[n] = "wait" /\ ~silent[n]

Alone(n) ==
  /\ rep[n].status = "PENDING" /\ rep[Peer(n)].status = "PENDING"
  /\ \A l \in Link : hb[n][l].pc \in {"wait", "lost"} /\ hb[Peer(n)][l].pc = "wait"

Underway(n, l) == hb[n][l].pc \in {"asked", "replied"}

PendingSinceBorn(n) ==
  /\ rep[n].status = "PENDING" => rep[n].changeTime = born[n]
  /\ \A l \in Link : (Underway(n, l) /\ hb[n][l].ask.status = "PENDING")
                       => hb[n][l].ask.changeTime = ToMillis(born[n])

Elder(n) == up[n] /\ up[Peer(n)] /\ ToMillis(born[n]) < ToMillis(born[Peer(n)])

Leads(n) ==
  /\ rep[n].status # "STANDBY"
  /\ \A l \in Link : Underway(n, l) => hb[n][l].ask.status # "STANDBY"
  /\ \A l \in Link : hb[n][l].pc = "replied" => hb[n][l].allow

Follows(n) ==
  /\ rep[n].status # "ACTIVE"
  /\ \A l \in Link : Underway(n, l) => hb[n][l].ask.status # "ACTIVE"
  /\ \A l \in Link : hb[n][l].pc = "replied" => ~hb[n][l].allow

ElderLeads ==
  Undisturbed =>
    /\ Quiet
    /\ \A n \in Node : ~up[Peer(n)] => Alone(n)
    /\ \A n \in Node : up[n] => PendingSinceBorn(n)
    /\ \A n \in Node : Elder(n) => Leads(n) /\ Follows(Peer(n))

(* Of an elder and a younger node, the first is allowed, the second not. *)
LEMMA ElderVerdict ==
  ASSUME NEW b \in Nat, NEW c \in Nat, ToMillis(b) < ToMillis(c),
         NEW elder \in Rep, NEW younger \in Rep,
         elder.status # "STANDBY", younger.status # "ACTIVE"
  PROVE  /\ (/\ elder.status = "PENDING" => elder.changeTime = ToMillis(b)
             /\ younger.status = "PENDING" => younger.changeTime = c)
              => IfAllowPeerActivate(younger, elder)
         /\ (/\ elder.status = "PENDING" => elder.changeTime = b
             /\ younger.status = "PENDING" => younger.changeTime = ToMillis(c))
              => ~IfAllowPeerActivate(elder, younger)
<1>1. elder.status \in {"PENDING", "ACTIVE"} /\ younger.status \in {"PENDING", "STANDBY"}
  BY RepFields DEF Status
<1>2. ToMillis(b) \in Nat /\ ToMillis(c) \in Nat /\ ToMillis(c) <= c /\ b < ToMillis(c)
  BY ToMillisRange, ToMillisOrder
<1>3. ToMillis(b) < c /\ ~(ToMillis(c) < b)
  BY <1>2
<1> QED
  BY <1>1, <1>3 DEF IfAllowPeerActivate

(***************************************************************************)
(* ElderLeads is inductive.                                                *)
(***************************************************************************)
LEMMA ElderStep == TypeOK /\ ElderLeads /\ [Next]_vars => ElderLeads'
<1> SUFFICES ASSUME TypeOK, ElderLeads, [Next]_vars, Undisturbed'
             PROVE  /\ Quiet'
                    /\ (\A x \in Node : ~up[Peer(x)] => Alone(x))'
                    /\ (\A x \in Node : up[x] => PendingSinceBorn(x))'
                    /\ (\A x \in Node : Elder(x) => Leads(x) /\ Follows(Peer(x)))'
  BY DEF ElderLeads
<1> DEFINE Goal == /\ Quiet'
                   /\ (\A x \in Node : ~up[Peer(x)] => Alone(x))'
                   /\ (\A x \in Node : up[x] => PendingSinceBorn(x))'
                   /\ (\A x \in Node : Elder(x) => Leads(x) /\ Follows(Peer(x)))'
<1> HIDE DEF Goal
<1>1. ASSUME NEW n \in Node, Silence(n) \/ ManualSwitch(n) \/ Crash(n)
      PROVE  FALSE
  <2>1. PICK d \in Disturbance : used' = [used EXCEPT ![d] = @ + 1]
    BY <1>1 DEF Silence, ManualSwitch, Crash, Disturbance
  <2>2. used[d] \in Nat /\ used'[d] = used[d] + 1
    BY <2>1 DEF TypeOK
  <2> QED
    BY <2>2 DEF Undisturbed
<1>2. ASSUME used' = used
      PROVE  Goal
  <2>1. /\ Quiet
        /\ \A x \in Node : ~up[Peer(x)] => Alone(x)
        /\ \A x \in Node : up[x] => PendingSinceBorn(x)
        /\ \A x \in Node : Elder(x) => Leads(x) /\ Follows(Peer(x))
    BY <1>2 DEF ElderLeads, Undisturbed
  <2>2. ASSUME NEW n \in Node, Start(n)
        PROVE  Goal
    <3>1. PICK t \in Instants :
            /\ rep' = [rep EXCEPT ![n] = NewRep(t + Skew[n])]
            /\ born' = [born EXCEPT ![n] = t + Skew[n]]
      BY <2>2 DEF Start
    <3>2. /\ ~up[n] /\ up' = [up EXCEPT ![n] = TRUE]
          /\ silent' = [silent EXCEPT ![n] = FALSE]
          /\ hb' = hb /\ checker' = checker
      BY <2>2 DEF Start
    <3>3. Peer(n) \in Node /\ Peer(n) # n /\ Peer(Peer(n)) = n /\ Node = {n, Peer(n)}
      BY PeerFacts
    <3>4. Alone(Peer(n))
      BY <2>1, <3>2, <3>3
    <3>5. rep'[n].status = "PENDING" /\ rep'[Peer(n)].status = "PENDING"
      BY <3>1, <3>3, <3>4 DEF Alone, TypeOK, NewRep
    <3>6. \A x \in Node, l \in Link : hb'[x][l].pc \in {"wait", "lost"}
      BY <3>2, <3>3, <3>4 DEF Alone
    <3>7. Quiet'
      BY <2>1, <3>2 DEF Quiet, TypeOK
    <3>8. ASSUME NEW x \in Node, ~up'[Peer(x)]
          PROVE  Alone(x)'
      <4>1. x = n /\ ~up[Peer(n)]
        BY <3>2, <3>3, <3>8 DEF TypeOK
      <4>2. Alone(n)
        BY <2>1, <4>1
      <4> QED
        BY <3>2, <3>5, <4>1, <4>2 DEF Alone
    <3>9. ASSUME NEW x \in Node, up'[x]
          PROVE  PendingSinceBorn(x)'
      <4>1. CASE x = n
        BY <3>1, <3>6, <4>1 DEF PendingSinceBorn, Underway, TypeOK, NewRep
      <4>2. CASE x = Peer(n)
        <5>1. up[x] /\ rep'[x] = rep[x] /\ born'[x] = born[x]
          BY <3>1, <3>2, <3>3, <3>9, <4>2 DEF TypeOK
        <5> QED
          BY <2>1, <3>6, <5>1 DEF PendingSinceBorn, Underway
      <4> QED
        BY <3>3, <4>1, <4>2
    <3>10. ASSUME NEW x \in Node
           PROVE  (Leads(x) /\ Follows(Peer(x)))'
      BY <3>3, <3>5, <3>6, PeerFacts DEF Leads, Follows, Underway
    <3> QED
      BY <3>7, <3>8, <3>9, <3>10 DEF Goal
  <2>3. ASSUME NEW n \in Node, NEW l \in Link, Ask(n, l)
        PROVE  Goal
    <3>1. /\ up[n] /\ up' = up /\ rep' = rep /\ silent' = silent /\ checker' = checker
          /\ born' = born
          /\ hb' = [hb EXCEPT ![n][l] =
               [pc |-> IF up[Peer(n)] THEN "asked" ELSE "lost",
                ask |-> AskOf(rep[n]), allow |-> FALSE]]
      BY <2>3 DEF Ask
    <3>2. /\ hb'[n][l].pc = IF up[Peer(n)] THEN "asked" ELSE "lost"
          /\ hb'[n][l].ask.status = rep[n].status
          /\ hb'[n][l].ask.changeTime = ToMillis(rep[n].changeTime)
          /\ \A y \in Node, k \in Link : y # n \/ k # l => hb'[y][k] = hb[y][k]
      BY <3>1, RepFields DEF TypeOK
    <3>3. Quiet'
      BY <2>1, <3>1 DEF Quiet
    <3>4. ASSUME NEW x \in Node, ~up'[Peer(x)]
          PROVE  Alone(x)'
      BY <2>1, <3>1, <3>2, <3>4, PeerFacts DEF Alone
    <3>5. ASSUME NEW x \in Node, up'[x]
          PROVE  PendingSinceBorn(x)'
      BY <2>1, <3>1, <3>2, <3>5 DEF PendingSinceBorn, Underway
    <3>6. ASSUME NEW x \in Node, Elder(x)'
          PROVE  (Leads(x) /\ Follows(Peer(x)))'
      <4>1. Leads(x) /\ Follows(Peer(x)) /\ Peer(x) \in Node
        BY <2>1, <3>1, <3>6, PeerFacts DEF Elder
      <4> QED
        BY <3>1, <3>2, <4>1 DEF Leads, Follows, Underway
    <3> QED
      BY <3>3, <3>4, <3>5, <3>6 DEF Goal
  <2>4. ASSUME NEW n \in Node, NEW l \in Link, Answer(n, l)
        PROVE  Goal
    <3>0. PICK m \in Node : m = Peer(n) /\ m # n /\ Peer(m) = n /\ Node = {n, m}
      BY PeerFacts
    <3> DEFINE verdict == IfAllowPeerActivate(rep[m], hb[n][l].ask)
    <3>1. /\ up[m] /\ hb[n][l].pc = "asked"
          /\ up' = up /\ rep' = rep /\ checker' = checker /\ born' = born
          /\ silent' = [silent EXCEPT ![m] = FALSE]
      BY <2>4, <3>0 DEF Answer
    <3>2. hb[n][l] \in Call /\ hb[n][l].ask \in Rep /\ rep[m] \in Rep
          /\ born[n] \in Nat /\ born[m] \in Nat
      BY <3>0 DEF TypeOK, Call
    <3>3. /\ hb'[n][l].pc = "replied"
          /\ hb'[n][l].allow = verdict
          /\ hb'[n][l].ask = hb[n][l].ask
          /\ \A y \in Node, k \in Link : y # n \/ k # l => hb'[y][k] = hb[y][k]
      BY <2>4, <3>0, <3>2 DEF Answer, TypeOK, Call
    <3> HIDE DEF verdict
    <3>4. up[n]
      BY <2>1, <3>0, <3>1 DEF Alone
    <3>5. PendingSinceBorn(n) /\ PendingSinceBorn(m)
      BY <2>1, <3>1, <3>0, <3>4
    <3>6. Quiet'
      BY <2>1, <3>1 DEF Quiet, TypeOK
    <3>7. ASSUME NEW x \in Node
          PROVE  up'[Peer(x)]
      BY <3>0, <3>1, <3>4
    <3>8. ASSUME NEW x \in Node
          PROVE  PendingSinceBorn(x)'
      BY <3>1, <3>0, <3>3, <3>5 DEF PendingSinceBorn, Underway
    <3>9. ASSUME Elder(n)
           PROVE  (Leads(n) /\ Follows(m))'
      <4>1. Leads(n) /\ Follows(m)
        BY <2>1, <3>0, <3>9
      <4>2. ToMillis(born[n]) < ToMillis(born[m])
        BY <3>0, <3>9 DEF Elder
      <4>3. /\ hb[n][l].ask.status # "STANDBY" /\ rep[m].status # "ACTIVE"
            /\ hb[n][l].ask.status = "PENDING" => hb[n][l].ask.changeTime = ToMillis(born[n])
            /\ rep[m].status = "PENDING" => rep[m].changeTime = born[m]
        BY <3>1, <3>5, <4>1 DEF Leads, Follows, Underway, PendingSinceBorn
      <4>4. verdict
        BY <3>2, <4>2, <4>3, ElderVerdict DEF verdict
      <4>5. hb'[n][l].allow
        BY <3>3, <4>4
      <4> QED
        BY <3>0, <3>1, <3>3, <4>1, <4>5 DEF Leads, Follows, Underway
    <3>10. ASSUME Elder(m)
           PROVE  (Leads(m) /\ Follows(n))'
      <4>1. Leads(m) /\ Follows(n)
        BY <2>1, <3>0, <3>10
      <4>2. ToMillis(born[m]) < ToMillis(born[n])
        BY <3>0, <3>10 DEF Elder
      <4>3. /\ hb[n][l].ask.status # "ACTIVE" /\ rep[m].status # "STANDBY"
            /\ hb[n][l].ask.status = "PENDING" => hb[n][l].ask.changeTime = ToMillis(born[n])
            /\ rep[m].status = "PENDING" => rep[m].changeTime = born[m]
        BY <3>1, <3>5, <4>1 DEF Leads, Follows, Underway, PendingSinceBorn
      <4>4. ~verdict
        BY <3>2, <4>2, <4>3, ElderVerdict DEF verdict
      <4> QED
        BY <3>1, <3>0, <3>3, <4>1, <4>4 DEF Leads, Follows, Underway
    <3>11. ASSUME NEW x \in Node, Elder(x)'
           PROVE  (Leads(x) /\ Follows(Peer(x)))'
      <4>1. Elder(x)
        BY <3>1, <3>11 DEF Elder
      <4> QED
        BY <3>0, <3>9, <3>10, <4>1
    <3> QED
      BY <3>6, <3>7, <3>8, <3>11 DEF Goal
  <2>5. ASSUME NEW n \in Node, NEW l \in Link, Apply(n, l)
        PROVE  Goal
    <3>1. PICK t \in Instants :
            rep' = [rep EXCEPT ![n] = TryActivate(@, hb[n][l].allow, t + Skew[n])]
      BY <2>5 DEF Apply
    <3>2. /\ hb[n][l].pc = "replied" /\ hb[n][l].allow \in BOOLEAN
          /\ up' = up /\ checker' = checker /\ born' = born
          /\ silent' = [silent EXCEPT ![n] = FALSE]
          /\ hb' = [hb EXCEPT ![n][l] = Idle]
      BY <2>5 DEF Apply, EndCall, TypeOK, Call
    <3>3. Peer(n) \in Node /\ Peer(n) # n /\ Peer(Peer(n)) = n /\ Node = {n, Peer(n)}
      BY PeerFacts
    <3>4. up[n] /\ up[Peer(n)]
      BY <2>1, <3>2, <3>3 DEF Alone
    <3>5. /\ rep'[n].status = IF hb[n][l].allow THEN "ACTIVE" ELSE "STANDBY"
          /\ rep'[Peer(n)] = rep[Peer(n)]
      BY <3>1, <3>2, <3>3 DEF TypeOK, Rep, TryActivate, SetStatus
    <3>6. /\ hb'[n][l].pc = "wait"
          /\ \A y \in Node, k \in Link : y # n \/ k # l => hb'[y][k] = hb[y][k]
      BY <3>2 DEF TypeOK, Idle
    <3>7. Quiet'
      BY <2>1, <3>2 DEF Quiet, TypeOK
    <3>8. ASSUME NEW x \in Node
          PROVE  up'[Peer(x)]
      BY <3>2, <3>3, <3>4
    <3>9. ASSUME NEW x \in Node
          PROVE  PendingSinceBorn(x)'
      <4>1. PendingSinceBorn(x)
        BY <2>1, <3>3, <3>4
      <4> QED
        BY <3>2, <3>3, <3>5, <3>6, <4>1 DEF PendingSinceBorn, Underway
    <3>10. ASSUME NEW x \in Node, Elder(x)'
           PROVE  (Leads(x) /\ Follows(Peer(x)))'
      <4>1. Leads(x) /\ Follows(Peer(x)) /\ Peer(x) \in Node
        BY <2>1, <3>2, <3>10, PeerFacts DEF Elder
      <4>2. CASE x = n
        BY <3>2, <3>3, <3>5, <3>6, <4>1, <4>2 DEF Leads, Follows, Underway
      <4>3. CASE x = Peer(n)
        BY <3>2, <3>3, <3>5, <3>6, <4>1, <4>3 DEF Leads, Follows, Underway
      <4> QED
        BY <3>3, <4>2, <4>3
    <3> QED
      BY <3>7, <3>8, <3>9, <3>10 DEF Goal
  <2>6. ASSUME up' = up, rep' = rep, born' = born, checker' = checker,
               \A x \in Node : ~silent'[x],
               \A x \in Node, k \in Link :
                 hb'[x][k] = hb[x][k] \/ hb'[x][k] = Idle
        PROVE  Goal
    <3>1. Quiet'
      BY <2>1, <2>6 DEF Quiet
    <3>2. ASSUME NEW x \in Node
          PROVE  /\ Peer(x) \in Node
                 /\ Alone(x) => Alone(x)'
                 /\ PendingSinceBorn(x) => PendingSinceBorn(x)'
                 /\ Leads(x) => Leads(x)'
                 /\ Follows(x) => Follows(x)'
                 /\ Elder(x)' => Elder(x)
      BY <2>6, PeerFacts
      DEF Alone, PendingSinceBorn, Leads, Follows, Elder, Underway, Idle
    <3> QED
      BY <2>1, <2>6, <3>1, <3>2 DEF Goal
  <2>7. ASSUME NEW n \in Node, NEW l \in Link, Fail(n, l)
        PROVE  Goal
    BY <2>1, <2>6, <2>7 DEF Fail, EndCall, Quiet, TypeOK
  <2>8. ASSUME NEW n \in Node, AnswerLate(n)
        PROVE  Goal
    BY <2>1, <2>6, <2>8 DEF AnswerLate, Quiet, TypeOK
  <2>9. ASSUME NEW n \in Node, Check(n) \/ Split(n)
        PROVE  FALSE
    BY <2>1, <2>9 DEF Check, Split, Quiet
  <2>10. CASE UNCHANGED vars
    BY <2>1, <2>6, <2>10 DEF vars, Quiet
  <2> QED
    BY <1>1, <2>2, <2>3, <2>4, <2>5, <2>7, <2>8, <2>9, <2>10 DEF Next, Heartbeat
<1>3. used' = used
  BY <1>1 DEF Next, Heartbeat, Start, Ask, Answer, Apply, Fail, AnswerLate, Check, Split, vars
<1> QED
  BY <1>2, <1>3 DEF Goal

(***************************************************************************)
(* Two processes that started in different milliseconds are never both     *)
(* ACTIVE before the first switch, silence or crash.                       *)
(***************************************************************************)
THEOREM NoUndisturbedDualActive == Spec => []DualActiveNeedsDisturbance
<1>1. Init => ElderLeads
  <2> SUFFICES ASSUME Init
               PROVE  ElderLeads
    OBVIOUS
  <2>1. ASSUME NEW n \in Node
        PROVE  /\ Peer(n) \in Node /\ ~up[n] /\ Alone(n)
               /\ checker[n] = "wait" /\ ~silent[n]
    BY PeerFacts DEF Init, Alone, Idle, NewRep
  <2> QED
    BY <2>1 DEF ElderLeads, Quiet, Elder
<1>2. TypeOK /\ ElderLeads => DualActiveNeedsDisturbance
  <2> SUFFICES ASSUME TypeOK, ElderLeads, StartedApart, Undisturbed
               PROVE  ~BothActive
    BY DEF DualActiveNeedsDisturbance, Undisturbed
  <2>1. NodeA \in Node /\ NodeB \in Node /\ Peer(NodeA) = NodeB /\ Peer(NodeB) = NodeA
    BY PairAssumption DEF Node, Peer
  <2>2. CASE ~up[NodeA] \/ ~up[NodeB]
    BY <2>1, <2>2 DEF ElderLeads, Alone, BothActive
  <2>3. CASE up[NodeA] /\ up[NodeB]
    <3>1. ToMillis(born[NodeA]) \in Nat /\ ToMillis(born[NodeB]) \in Nat
      BY <2>1, ToMillisRange DEF TypeOK
    <3>2. Elder(NodeA) \/ Elder(NodeB)
      BY <2>1, <2>3, <3>1 DEF Elder, StartedApart
    <3> QED
      BY <2>1, <3>2 DEF ElderLeads, Follows, BothActive
  <2> QED
    BY <2>2, <2>3
<1> QED
  BY <1>1, <1>2, TypeCorrect, ElderStep, PTL DEF Spec
=============================================================================
