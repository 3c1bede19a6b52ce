----------------------------- MODULE SinbohaPair -----------------------------
(***************************************************************************)
(* Two nodes that decide which of them is ACTIVE.  Each node runs          *)
(*   - one heartbeat thread per link (SinbohaSync::SyncHeartbeat on the    *)
(*     primary and on the secondary address): Query, an RPC to the peer,   *)
(*     TryActivate with the peer's verdict, with no lock held in between;  *)
(*   - the server threads that answer the peer's RPC                       *)
(*     (SinbohaRPCHandler::CanYouActivateMe -> IfAllowPeerActivate);       *)
(*   - the checker thread (SinbohaBrainSplit::BrainSplitCheck) that reads  *)
(*     m_PeerLiveTime, compares, and calls BrainSplit;                     *)
(* and the application may call Switch.  Processes crash and start again,  *)
(* requests and replies are lost, delayed or time out.                     *)
(*                                                                         *)
(* Time.  clock is the true time in ticks, advanced by the steps that      *)
(* stamp a change; node n reads clock + Skew[n].  m_PeerLiveTime is        *)
(* abstracted to silent[n]: "more than m_SwitchTimeout has passed since    *)
(* the last sign of life", which passing time makes true at any moment and *)
(* a store to m_PeerLiveTime makes false.                                  *)
(***************************************************************************)
EXTENDS StatusRep

CONSTANTS
  NodeA, NodeB,      \* the two nodes
  Link,              \* the links of a node: primary and secondary
  Skew,              \* how far each node's system_clock is ahead
  Elapsed,           \* ticks that may pass between two status changes
  Budgets,           \* how many switches, silences and crashes may happen together
  MaxTime            \* bound on the clock

Node == {NodeA, NodeB}
Disturbance == {"switch", "silence", "crash"}

ASSUME PairAssumption ==
  /\ NodeA # NodeB
  /\ Skew \in [Node -> Nat]
  /\ Elapsed \subseteq Nat
  /\ Budgets \subseteq [Disturbance -> Nat]
  /\ MaxTime \in Nat

Peer(n) == IF n = NodeA THEN NodeB ELSE NodeA

VARIABLES
  up,        \* up[n]: the process of n is running
  rep,       \* rep[n]: its SinbohaStatusRep
  silent,    \* silent[n]: now - m_PeerLiveTime > m_SwitchTimeout
  hb,        \* hb[n][l]: the heartbeat thread of n on link l
  checker,   \* checker[n]: the brain split thread, "split" once it found n silent
  late,      \* late[n]: a request n gave up on may still reach the peer
  clock,     \* the true time
  used,      \* history: disturbances so far
  born,      \* history: the change time n's process started with
  yielded    \* history: n switched, and the peer has not been ACTIVE since

vars == <<up, rep, silent, hb, checker, late, clock, used, born, yielded>>

(***************************************************************************)
(* A heartbeat thread waits, or has asked with the repository it queried,  *)
(* or has the reply in its socket, or will get none ("lost").              *)
(***************************************************************************)
Call == [pc : {"wait", "asked", "replied", "lost"}, ask : Rep, allow : BOOLEAN]
Idle == [pc |-> "wait", ask |-> NewRep(0), allow |-> FALSE]

(* The one type invariant. *)
TypeOK ==
  /\ up \in [Node -> BOOLEAN]
  /\ rep \in [Node -> Rep]
  /\ silent \in [Node -> BOOLEAN]
  /\ hb \in [Node -> [Link -> Call]]
  /\ checker \in [Node -> {"wait", "split"}]
  /\ late \in [Node -> BOOLEAN]
  /\ clock \in Nat
  /\ used \in [Disturbance -> Nat]
  /\ born \in [Node -> Nat]
  /\ yielded \in [Node -> BOOLEAN]

Init ==
  /\ up = [n \in Node |-> FALSE]
  /\ rep = [n \in Node |-> NewRep(0)]
  /\ silent = [n \in Node |-> FALSE]
  /\ hb = [n \in Node |-> [l \in Link |-> Idle]]
  /\ checker = [n \in Node |-> "wait"]
  /\ late = [n \in Node |-> FALSE]
  /\ clock = 0
  /\ used = [d \in Disturbance |-> 0]
  /\ born = [n \in Node |-> 0]
  /\ yielded = [n \in Node |-> FALSE]

(***************************************************************************)
(* A step of n read system_clock at true time t.  Only a step that changes *)
(* the repository keeps the reading.                                       *)
(***************************************************************************)
Instants == {clock + d : d \in Elapsed}

Stamped(n, t) ==
  /\ clock' = IF rep'[n] = rep[n] THEN clock ELSE t
  /\ clock' <= MaxTime
  /\ yielded' = [m \in Node |->
       yielded[m] /\ ~(m = Peer(n) /\ rep'[n].status = "ACTIVE")]

(* The call of thread l of n is over, and its next wait begins. *)
EndCall(n, l) == hb' = [hb EXCEPT ![n][l] = Idle]

(* One more disturbance fits one of the budgets. *)
Allowed(d) == \E b \in Budgets : used[d] < b[d] /\ \A e \in Disturbance : used[e] <= b[e]

(* GetSinbohaIf constructs the singleton and Initialize starts the threads. *)
Start(n) ==
  /\ ~up[n]
  /\ \E t \in Instants :
       /\ t <= MaxTime
       /\ clock' = t
       /\ rep' = [rep EXCEPT ![n] = NewRep(t + Skew[n])]
       /\ born' = [born EXCEPT ![n] = t + Skew[n]]
  /\ up' = [up EXCEPT ![n] = TRUE]
  /\ silent' = [silent EXCEPT ![n] = FALSE]
  /\ UNCHANGED <<hb, checker, late, used, yielded>>

(***************************************************************************)
(* SyncHeartbeat: the wait is over, Query, and CanYouActivateMe sends.  A  *)
(* peer that is down refuses the connection.                               *)
(***************************************************************************)
Ask(n, l) ==
  /\ up[n]
  /\ hb[n][l].pc = "wait"
  /\ hb' = [hb EXCEPT ![n][l] =
       [pc |-> IF up[Peer(n)] THEN "asked" ELSE "lost",
        ask |-> AskOf(rep[n]), allow |-> FALSE]]
  /\ UNCHANGED <<up, rep, silent, checker, late, clock, used, born, yielded>>

(* The peer's server thread handles the request of thread l of n. *)
Answer(n, l) ==
  /\ up[Peer(n)]
  /\ hb[n][l].pc = "asked"
  /\ hb' = [hb EXCEPT ![n][l].pc = "replied",
                      ![n][l].allow = IfAllowPeerActivate(rep[Peer(n)], hb[n][l].ask)]
  /\ silent' = [silent EXCEPT ![Peer(n)] = FALSE]
  /\ UNCHANGED <<up, rep, checker, late, clock, used, born, yielded>>

(* SyncHeartbeat: the RPC returned OK, and TryActivate applies the verdict. *)
Apply(n, l) ==
  /\ hb[n][l].pc = "replied"
  /\ \E t \in Instants :
       /\ rep' = [rep EXCEPT ![n] = TryActivate(@, hb[n][l].allow, t + Skew[n])]
       /\ Stamped(n, t)
  /\ silent' = [silent EXCEPT ![n] = FALSE]
  /\ EndCall(n, l)
  /\ UNCHANGED <<up, checker, late, used, born>>

(***************************************************************************)
(* SyncHeartbeat: the RPC failed, for whatever reason, and ReInitialize    *)
(* drops the connection.  A request under way may still reach the peer.    *)
(***************************************************************************)
Fail(n, l) ==
  /\ hb[n][l].pc # "wait"
  /\ EndCall(n, l)
  /\ \/ UNCHANGED late
     \/ hb[n][l].pc = "asked" /\ late' = [late EXCEPT ![n] = TRUE]
  /\ UNCHANGED <<up, rep, silent, checker, clock, used, born, yielded>>

(* The peer handles a request n gave up on: nobody reads the verdict. *)
AnswerLate(n) ==
  /\ late[n]
  /\ up[Peer(n)]
  /\ late' = [late EXCEPT ![n] = FALSE]
  /\ silent' = [silent EXCEPT ![Peer(n)] = FALSE]
  /\ UNCHANGED <<up, rep, hb, checker, clock, used, born, yielded>>

(***************************************************************************)
(* More than m_SwitchTimeout passes without a sign of life of the peer.    *)
(* Nothing bounds how long a live peer may be slow; how often that happens *)
(* is bounded here, while a dead peer is silent for good.                  *)
(***************************************************************************)
Silence(n) ==
  /\ up[n]
  /\ ~silent[n]
  /\ up[Peer(n)] => Allowed("silence")
  /\ silent' = [silent EXCEPT ![n] = TRUE]
  /\ used' = [used EXCEPT !["silence"] = @ + 1]
  /\ UNCHANGED <<up, rep, hb, checker, late, clock, born, yielded>>

(* BrainSplitCheck: the thread loads m_PeerLiveTime and finds it too old. *)
Check(n) ==
  /\ up[n]
  /\ checker[n] = "wait"
  /\ silent[n]
  /\ checker' = [checker EXCEPT ![n] = "split"]
  /\ UNCHANGED <<up, rep, silent, hb, late, clock, used, born, yielded>>

(* BrainSplitCheck: it calls BrainSplit, whatever happened in between. *)
Split(n) ==
  /\ checker[n] = "split"
  /\ \E t \in Instants :
       /\ rep' = [rep EXCEPT ![n] = BrainSplit(@, t + Skew[n])]
       /\ Stamped(n, t)
  /\ checker' = [checker EXCEPT ![n] = "wait"]
  /\ UNCHANGED <<up, silent, hb, late, used, born>>

(* The application calls Switch, and it returns OK. *)
ManualSwitch(n) ==
  /\ up[n]
  /\ rep[n].status = "ACTIVE"
  /\ Allowed("switch")
  /\ \E t \in Instants :
       /\ t <= MaxTime
       /\ clock' = t
       /\ rep' = [rep EXCEPT ![n] = Switch(@, t + Skew[n])]
  /\ used' = [used EXCEPT !["switch"] = @ + 1]
  /\ yielded' = [yielded EXCEPT ![n] = rep[Peer(n)].status # "ACTIVE"]
  /\ UNCHANGED <<up, silent, hb, checker, late, born>>

(***************************************************************************)
(* The process dies with its threads and its connections: requests of the  *)
(* peer that it had not answered get no reply, replies under way arrive.   *)
(***************************************************************************)
Crash(n) ==
  /\ up[n]
  /\ Allowed("crash")
  /\ up' = [up EXCEPT ![n] = FALSE]
  /\ rep' = [rep EXCEPT ![n] = NewRep(0)]
  /\ silent' = [silent EXCEPT ![n] = FALSE]
  /\ hb' = [m \in Node |-> [l \in Link |->
       IF m = n THEN Idle
       ELSE IF hb[m][l].pc = "asked" THEN [hb[m][l] EXCEPT !.pc = "lost"] ELSE hb[m][l]]]
  /\ checker' = [checker EXCEPT ![n] = "wait"]
  /\ \E request \in BOOLEAN :
       /\ request => late[n] \/ \E l \in Link : hb[n][l].pc = "asked"
       /\ late' = [m \in Node |-> m = n /\ request]
  /\ used' = [used EXCEPT !["crash"] = @ + 1]
  /\ yielded' = [yielded EXCEPT ![n] = FALSE]
  /\ UNCHANGED <<clock, born>>

Heartbeat(n, l) == Ask(n, l) \/ Answer(n, l) \/ Apply(n, l) \/ Fail(n, l)

Next ==
  \E n \in Node :
    \/ Start(n)
    \/ \E l \in Link : Heartbeat(n, l)
    \/ AnswerLate(n)
    \/ Silence(n)
    \/ Check(n)
    \/ Split(n)
    \/ ManualSwitch(n)
    \/ Crash(n)

Spec == Init /\ [][Next]_vars

(***************************************************************************)
(* Fairness.  Threads that can run do run, and every call ends, at the     *)
(* latest by the timeout of its socket.  A call may fail any number of     *)
(* times, but between two live nodes not every call on one of the links    *)
(* fails: there Answer and Apply are strongly fair.  Of the other links    *)
(* nothing is assumed.  Time passes, so a dead peer is found silent.       *)
(***************************************************************************)
Sound == CHOOSE l \in Link : TRUE

Fairness ==
  \A n \in Node :
    /\ WF_vars(Check(n) \/ Split(n))
    /\ WF_vars(~up[Peer(n)] /\ Silence(n))
    /\ \A l \in Link : WF_vars(Ask(n, l) \/ Apply(n, l) \/ Fail(n, l))
    /\ SF_vars(Answer(n, Sound))
    /\ SF_vars(Apply(n, Sound))

FairSpec == Spec /\ Fairness
-----------------------------------------------------------------------------
BothActive == \A n \in Node : rep[n].status = "ACTIVE"

(***************************************************************************)
(* In whatever status crashes, switches and takeovers leave the two nodes, *)
(* if they asked each other now exactly one would be told to be ACTIVE:    *)
(* no state is left that the rules cannot resolve, unless both nodes       *)
(* changed within one millisecond.                                         *)
(***************************************************************************)
OneIsAllowed ==
  LET a == rep[NodeA]
      b == rep[NodeB]
  IN  ToMillis(a.changeTime) # ToMillis(b.changeTime) =>
        (IfAllowPeerActivate(a, AskOf(b)) <=> ~IfAllowPeerActivate(b, AskOf(a)))

(***************************************************************************)
(* Until the first switch, silence or crash, two processes that started in *)
(* different milliseconds are never both ACTIVE, whatever is lost, delayed *)
(* or overtaken on the two links.                                          *)
(***************************************************************************)
StartedApart == ToMillis(born[NodeA]) # ToMillis(born[NodeB])

DualActiveNeedsDisturbance ==
  (StartedApart /\ \A d \in Disturbance : used[d] = 0) => ~BothActive

(***************************************************************************)
(* The first of two processes to start leads: as long as nothing is        *)
(* switched, silent or crashed, the other one is not ACTIVE.               *)
(***************************************************************************)
FirstStartedLeads ==
  \A n \in Node :
    (born[n] < born[Peer(n)] /\ up[n] /\ up[Peer(n)] /\ \A d \in Disturbance : used[d] = 0)
      => rep[Peer(n)].status # "ACTIVE"

(***************************************************************************)
(* n is ACTIVE, its peer STANDBY, and nothing under way says otherwise.    *)
(***************************************************************************)
Settled(n) ==
  LET m == Peer(n) IN
  /\ up[n] /\ up[m]
  /\ rep[n].status = "ACTIVE"
  /\ rep[m].status = "STANDBY"
  /\ checker[m] = "wait" /\ ~silent[m]
  /\ \A l \in Link :
       /\ hb[n][l].pc = "replied" => hb[n][l].allow
       /\ hb[n][l].pc = "asked" => IfAllowPeerActivate(rep[m], hb[n][l].ask)
       /\ hb[m][l].pc = "replied" => ~hb[m][l].allow
       /\ hb[m][l].pc = "asked" => ~IfAllowPeerActivate(rep[n], hb[m][l].ask)

(***************************************************************************)
(* A settled pair stays settled: no interleaving of heartbeats, failures,  *)
(* late requests and checks moves the ACTIVE role without a disturbance.   *)
(***************************************************************************)
SettledIsStable ==
  [][\A n \in Node : Settled(n) /\ used' = used => Settled(n)']_vars

(***************************************************************************)
(* The pair implements ActiveStandby: a node that is settled on is its     *)
(* leader, so no heartbeat, loss, delay or check moves a role while the    *)
(* pair is settled, and until then roles only move the way ActiveStandby   *)
(* lets them.                                                              *)
(***************************************************************************)
Role == [n \in Node |-> IF up[n] THEN rep[n].status ELSE "DOWN"]
Leader == IF Settled(NodeA) THEN NodeA ELSE IF Settled(NodeB) THEN NodeB ELSE "nobody"
Outside == used["switch"] + used["silence"] + used["crash"]

Promise == INSTANCE ActiveStandby
             WITH role <- Role, leader <- Leader, outside <- Outside, NoLeader <- "nobody"

ImplementsActiveStandby == Promise!Spec

(***************************************************************************)
(* Once disturbances end and both processes run, the pair settles.         *)
(***************************************************************************)
Converges ==
  <>[](\A n \in Node : up[n]) => <>[](\E n \in Node : Settled(n))

(* The survivor of a crash takes over. *)
Failover ==
  \A n \in Node :
    (up[n] /\ ~up[Peer(n)]) ~> (rep[n].status = "ACTIVE" \/ ~up[n] \/ up[Peer(n)])

(* The clock bound is never reached: flapping ends. *)
FlappingIsBounded == clock < MaxTime

(***************************************************************************)
(* A node that switched away is not ACTIVE again before its peer has been. *)
(***************************************************************************)
SwitchHandsOver ==
  \A n \in Node : yielded[n] => rep[n].status # "ACTIVE"
=============================================================================
