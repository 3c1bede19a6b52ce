------------------------ MODULE ActiveStandby_proofs ------------------------
(***************************************************************************)
(* The pair implements ActiveStandby, for every number of links, skew,     *)
(* resolution and bound.                                                   *)
(***************************************************************************)
EXTENDS SinbohaPair_proofs

(* Whoever the mapping calls leader is ACTIVE with a STANDBY peer. *)
LEMMA LeaderLeads == \A n \in Node : Settled(n) => Promise!Leads(n) /\ Leader = n
<1> SUFFICES ASSUME NEW n \in Node, Settled(n)
             PROVE  Promise!Leads(n) /\ Leader = n
  OBVIOUS
<1>1. Peer(n) \in Node /\ Peer(n) # n /\ Node = {n, Peer(n)}
  BY PeerFacts
<1>2. /\ up[n] /\ rep[n].status = "ACTIVE"
      /\ up[Peer(n)] /\ rep[Peer(n)].status = "STANDBY"
  BY DEF Settled
<1>3. Promise!Leads(n)
  BY <1>1, <1>2 DEF Promise!Leads, Role
<1>4. ~Settled(Peer(n))
  BY <1>2 DEF Settled
<1>5. Leader = n
  BY <1>1, <1>4 DEF Leader, Node
<1> QED
  BY <1>3, <1>5

LEMMA LeaderLeadsNext == (\A n \in Node : Settled(n) => Promise!Leads(n) /\ Leader = n)'
  BY LeaderLeads, PTL

LEMMA LeaderIsRight == Promise!NewLeader
<1>1. CASE \E n \in Node : Settled(n)'
  BY <1>1, LeaderLeadsNext DEF Promise!NewLeader
<1>2. CASE \A n \in Node : ~Settled(n)'
  BY <1>2 DEF Promise!NewLeader, Leader, Node
<1> QED
  BY <1>1, <1>2

(* A status only ever changes to ACTIVE or STANDBY. *)
LEMMA StatusAfter ==
  ASSUME NEW r \in Rep, NEW now \in Nat, NEW allow \in BOOLEAN
  PROVE  /\ TryActivate(r, allow, now).status \in {"ACTIVE", "STANDBY"}
         /\ BrainSplit(r, now).status = "ACTIVE"
         /\ r.status = "ACTIVE" => Switch(r, now).status = "STANDBY"
  BY DEF Rep, TryActivate, BrainSplit, Switch, SetStatus

(***************************************************************************)
(* How a step moves the roles: what happens from outside is counted, and   *)
(* anything else moves at most one role, in a way ActiveStandby knows.     *)
(***************************************************************************)
Moves(n) ==
  \/ Role' = Role
  \/ \E to \in Promise!Role : Promise!MayBecome(Role[n], to) /\ Role' = [Role EXCEPT ![n] = to]

Falls(n) ==
  \/ Role' = Role
  \/ Role[n] = "ACTIVE" /\ Role' = [Role EXCEPT ![n] = "STANDBY"]
  \/ Role[n] # "DOWN" /\ Role' = [Role EXCEPT ![n] = "DOWN"]

(* A step that gives the running node n a new status. *)
LEMMA StatusMove ==
  ASSUME TypeOK, NEW n \in Node, up' = up, up[n],
         rep'[n].status \in {"ACTIVE", "STANDBY"},
         \A m \in Node \ {n} : rep'[m] = rep[m]
  PROVE  Moves(n)
<1>1. Role' = [Role EXCEPT ![n] = rep'[n].status]
  BY DEF Role, TypeOK
<1>2. Role[n] # "DOWN"
  BY DEF Role, TypeOK, Rep, Status
<1> QED
  BY <1>1, <1>2 DEF Moves, Promise!MayBecome, Promise!Role

(***************************************************************************)
(* The threads of a process that is down do nothing.                       *)
(***************************************************************************)
DownIsIdle ==
  \A n \in Node : ~up[n] => checker[n] = "wait" /\ \A l \in Link : hb[n][l].pc = "wait"

LEMMA DownIsIdleStep == TypeOK /\ DownIsIdle /\ [Next]_vars => DownIsIdle'
<1> SUFFICES ASSUME TypeOK, DownIsIdle, [Next]_vars,
                    NEW n \in Node, ~up'[n]
             PROVE  checker'[n] = "wait" /\ \A l \in Link : hb'[n][l].pc = "wait"
  BY DEF DownIsIdle
<1>1. ASSUME NEW x \in Node, Start(x)
      PROVE  checker'[n] = "wait" /\ \A l \in Link : hb'[n][l].pc = "wait"
  BY <1>1 DEF Start, DownIsIdle, TypeOK
<1>2. ASSUME NEW x \in Node, NEW k \in Link, Ask(x, k) \/ Answer(x, k)
      PROVE  checker'[n] = "wait" /\ \A l \in Link : hb'[n][l].pc = "wait"
  <2>1. ~up[n] /\ up[x] /\ checker' = checker
    BY <1>2 DEF Ask, Answer, DownIsIdle
  <2>2. n # x /\ hb'[n] = hb[n]
    BY <1>2, <2>1 DEF Ask, Answer, TypeOK
  <2> QED
    BY <2>1, <2>2 DEF DownIsIdle
<1>3. ASSUME NEW x \in Node, NEW k \in Link, Apply(x, k) \/ Fail(x, k)
      PROVE  checker'[n] = "wait" /\ \A l \in Link : hb'[n][l].pc = "wait"
  BY <1>3 DEF Apply, Fail, EndCall, Idle, DownIsIdle, TypeOK
<1>4. ASSUME NEW x \in Node, AnswerLate(x) \/ Silence(x) \/ Check(x) \/ ManualSwitch(x)
      PROVE  checker'[n] = "wait" /\ \A l \in Link : hb'[n][l].pc = "wait"
  BY <1>4 DEF AnswerLate, Silence, Check, ManualSwitch, DownIsIdle, TypeOK
<1>5. ASSUME NEW x \in Node, Split(x)
      PROVE  checker'[n] = "wait" /\ \A l \in Link : hb'[n][l].pc = "wait"
  BY <1>5 DEF Split, DownIsIdle, TypeOK
<1>6. ASSUME NEW x \in Node, Crash(x)
      PROVE  checker'[n] = "wait" /\ \A l \in Link : hb'[n][l].pc = "wait"
  <2>1. CASE n = x
    BY <1>6, <2>1 DEF Crash, Idle, TypeOK
  <2>2. CASE n # x
    BY <1>6, <2>2 DEF Crash, Idle, DownIsIdle, TypeOK
  <2> QED
    BY <2>1, <2>2
<1>7. CASE UNCHANGED vars
  BY <1>7 DEF vars, DownIsIdle
<1> QED
  BY <1>1, <1>2, <1>3, <1>4, <1>5, <1>6, <1>7 DEF Next, Heartbeat

(* One step of the pair, without or with something from outside. *)
LEMMA StepMovesRoles ==
  TypeOK /\ DownIsIdle /\ [Next]_vars =>
    \/ used' = used /\ \E n \in Node : Moves(n)
    \/ Outside' = Outside + 1 /\ \E n \in Node : Falls(n)
<1> SUFFICES ASSUME TypeOK, DownIsIdle, [Next]_vars
             PROVE  \/ used' = used /\ \E n \in Node : Moves(n)
                    \/ Outside' = Outside + 1 /\ \E n \in Node : Falls(n)
  OBVIOUS
<1>1. ASSUME NEW n \in Node, Start(n)
      PROVE  used' = used /\ Moves(n)
  <2>1. PICK t \in Instants : rep' = [rep EXCEPT ![n] = NewRep(t + Skew[n])]
    BY <1>1 DEF Start
  <2>2. Role' = [Role EXCEPT ![n] = "PENDING"]
    BY <1>1, <2>1 DEF Start, Role, NewRep, TypeOK
  <2>3. Role[n] = "DOWN"
    BY <1>1 DEF Start, Role
  <2> QED
    BY <1>1, <2>2, <2>3 DEF Start, Moves, Promise!MayBecome, Promise!Role
<1>2. ASSUME NEW n \in Node, NEW l \in Link, Ask(n, l) \/ Answer(n, l) \/ Fail(n, l)
      PROVE  used' = used /\ Moves(n)
  BY <1>2 DEF Ask, Answer, Fail, Moves, Role
<1>3. ASSUME NEW n \in Node, NEW l \in Link, Apply(n, l)
      PROVE  used' = used /\ Moves(n)
  <2>1. PICK t \in Instants :
          rep' = [rep EXCEPT ![n] = TryActivate(rep[n], hb[n][l].allow, t + Skew[n])]
    BY <1>3 DEF Apply
  <2>2. up[n] /\ up' = up /\ used' = used
    BY <1>3 DEF Apply, DownIsIdle
  <2>3. rep[n] \in Rep /\ hb[n][l].allow \in BOOLEAN
    BY DEF TypeOK, Call
  <2>4. /\ rep'[n].status \in {"ACTIVE", "STANDBY"}
        /\ \A m \in Node \ {n} : rep'[m] = rep[m]
    BY <2>1, <2>3, ReadingsAreNat, StatusAfter DEF TypeOK
  <2>5. Moves(n)
    BY <2>2, <2>4, StatusMove
  <2> QED
    BY <2>2, <2>5
<1>4. ASSUME NEW n \in Node, AnswerLate(n) \/ Check(n)
      PROVE  used' = used /\ Moves(n)
  BY <1>4 DEF AnswerLate, Check, Moves, Role
<1>5. ASSUME NEW n \in Node, Split(n)
      PROVE  used' = used /\ Moves(n)
  <2>1. PICK t \in Instants : rep' = [rep EXCEPT ![n] = BrainSplit(rep[n], t + Skew[n])]
    BY <1>5 DEF Split
  <2>2. up[n] /\ up' = up /\ used' = used
    BY <1>5 DEF Split, DownIsIdle
  <2>3. rep[n] \in Rep
    BY DEF TypeOK
  <2>4. /\ rep'[n].status \in {"ACTIVE", "STANDBY"}
        /\ \A m \in Node \ {n} : rep'[m] = rep[m]
    BY <2>1, <2>3, ReadingsAreNat, StatusAfter DEF TypeOK
  <2>5. Moves(n)
    BY <2>2, <2>4, StatusMove
  <2> QED
    BY <2>2, <2>5
<1>6. ASSUME NEW n \in Node, Silence(n)
      PROVE  Outside' = Outside + 1 /\ Falls(n)
  BY <1>6 DEF Silence, Falls, Role, Outside, TypeOK, Disturbance
<1>7. ASSUME NEW n \in Node, ManualSwitch(n)
      PROVE  Outside' = Outside + 1 /\ Falls(n)
  <2>1. PICK t \in Instants : rep' = [rep EXCEPT ![n] = Switch(rep[n], t + Skew[n])]
    BY <1>7 DEF ManualSwitch
  <2>2. rep[n] \in Rep /\ Switch(rep[n], t + Skew[n]).status = "STANDBY"
    BY <1>7, ReadingsAreNat, StatusAfter DEF ManualSwitch, TypeOK
  <2>3. Role' = [Role EXCEPT ![n] = "STANDBY"] /\ Role[n] = "ACTIVE"
    BY <1>7, <2>1, <2>2 DEF ManualSwitch, Role, TypeOK
  <2> QED
    BY <1>7, <2>3 DEF ManualSwitch, Falls, Outside, TypeOK, Disturbance
<1>8. ASSUME NEW n \in Node, Crash(n)
      PROVE  Outside' = Outside + 1 /\ Falls(n)
  <2>1. Role' = [Role EXCEPT ![n] = "DOWN"]
    BY <1>8 DEF Crash, Role, TypeOK
  <2>2. Role[n] # "DOWN"
    BY <1>8 DEF Crash, Role, TypeOK, Rep, Status
  <2> QED
    BY <1>8, <2>1, <2>2 DEF Crash, Falls, Outside, TypeOK, Disturbance
<1>9. CASE UNCHANGED vars
  <2>1. NodeA \in Node /\ used' = used /\ Role' = Role
    BY <1>9 DEF vars, Role, Node
  <2> QED
    BY <2>1 DEF Moves
<1> QED
  BY <1>1, <1>2, <1>3, <1>4, <1>5, <1>6, <1>7, <1>8, <1>9 DEF Next, Heartbeat

(***************************************************************************)
(* Every step of the pair is a step of ActiveStandby or leaves its         *)
(* variables alone.                                                        *)
(***************************************************************************)
LEMMA PromiseStep ==
  TypeOK /\ DownIsIdle /\ [Next]_vars => [Promise!Next]_<<Role, Leader, Outside>>
<1> SUFFICES ASSUME TypeOK, DownIsIdle, [Next]_vars
             PROVE  [Promise!Next]_<<Role, Leader, Outside>>
  OBVIOUS
<1>1. ASSUME NEW n \in Node, Outside' = Outside + 1, Falls(n)
      PROVE  Promise!Next
  BY <1>1, LeaderIsRight DEF Falls, Promise!Next, Promise!Disturb
<1>2. ASSUME NEW n \in Node, used' = used, Settled(n)
      PROVE  UNCHANGED <<Role, Leader, Outside>>
  <2>1. Settled(n)'
    BY <1>2, SettledStep
  <2>3. Leader = n /\ Leader' = n
    BY <1>2, <2>1, LeaderLeads, LeaderLeadsNext
  <2>4. Role[n] = Role'[n] /\ Role[Peer(n)] = Role'[Peer(n)]
    BY <1>2, <2>1, PeerFacts DEF Settled, Role
  <2>5. Role' = Role
    BY <2>4, PeerFacts DEF Role
  <2> QED
    BY <1>2, <2>3, <2>5 DEF Outside
<1>3. ASSUME NEW n \in Node, used' = used, Moves(n), \A m \in Node : ~Settled(m)
      PROVE  Promise!Next
  <2>1. Leader = "nobody"
    BY <1>3 DEF Leader, Node
  <2>2. Outside' = Outside
    BY <1>3 DEF Outside
  <2> QED
    BY <1>3, <2>1, <2>2, LeaderIsRight DEF Moves, Promise!Next, Promise!Contend
<1> QED
  BY <1>1, <1>2, <1>3, StepMovesRoles

(***************************************************************************)
(* The pair implements ActiveStandby.                                      *)
(***************************************************************************)
THEOREM PairImplements == Spec => ImplementsActiveStandby
<1>1. Init => Promise!Init
  BY DEF Init, Promise!Init, Role, Leader, Outside, Settled, Disturbance
<1>2. Init => DownIsIdle
  BY DEF Init, DownIsIdle, Idle
<1> QED
  BY <1>1, <1>2, TypeCorrect, DownIsIdleStep, PromiseStep, PTL
     DEF Spec, ImplementsActiveStandby, Promise!Spec
=============================================================================
