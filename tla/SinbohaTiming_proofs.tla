------------------------ MODULE SinbohaTiming_proofs ------------------------
(***************************************************************************)
(* How long SwitchTimeout must be so that no node finds a living peer      *)
(* silent: a proof for all values of the times.  PeerIsHeard says nothing  *)
(* of how a heartbeat gets on; the invariant below does.  It bounds the    *)
(* age of both nodes' last sign of life by the place where the heartbeat   *)
(* of a steady node q is, plus the time q may still spend there.           *)
(***************************************************************************)
EXTENDS SinbohaTiming, TLAPS

Live == \A n \in Node : Alive(n)

(* The longest time a SyncData of a steady node keeps its locks. *)
DataTime == RoundTrip + 2 * CallbackTime

(* The longest time from one sign of life of q to its next at the peer. *)
Cycle == Heartbeat + 3 * DataTime + 2 * RoundTrip + 3 * CallbackTime

(* The part of the round trip that is left to the call of q. *)
Rest(q) == hb[q].left + RoundTrip - NetworkTimeout

(* The time that SyncData of q may still need. *)
DataLeft(q) ==
  CASE data[q].pc = "idle" -> 0 [] data[q].pc = "locked" -> DataTime [] data[q].pc = "call" -> data[q].left

(* What holds of the heartbeat of q and of the locks it waits for. *)
OnTime(q) ==
  /\ hb[q].pc \notin {"failed", "reset"}
  /\ data[q].pc = "call" => data[q].left <= DataTime
  /\ hb[q].pc = "wait" => hb[q].left <= Heartbeat
  /\ hb[q].pc \in {"sent", "arrived", "answered"} => hb[q].left <= NetworkTimeout
  /\ hb[q].pc = "sent" => hb[q].left >= NetworkTimeout - RoundTrip
  /\ hb[q].pc = "arrived" => busy[Peer(q)] <= hb[q].left

(* The age of n's last sign of life, with what q may still need, from base on. *)
Within(n, q, base) ==
  LET H == Heartbeat
      R == RoundTrip
      C == CallbackTime
      D == DataTime
  IN
  /\ hb[q].pc = "start" => age[n] + DataLeft(q) <= base + D
  /\ hb[q].pc = "wait" => age[n] + hb[q].left <= base + H + D
  /\ hb[q].pc = "wake" => age[n] + DataLeft(q) <= base + H + 2 * D
  /\ hb[q].pc = "query" => age[n] + busy[q] <= base + H + 2 * D + C
  /\ hb[q].pc = "ask" => age[n] + DataLeft(q) <= base + H + 3 * D + C
  /\ hb[q].pc = "sent" =>
       /\ age[n] <= base + H + 3 * D + C + R
       /\ age[n] + Rest(q) <= base + H + 3 * D + C + R
  /\ hb[q].pc = "arrived" =>
       /\ age[n] + busy[Peer(q)] <= base + H + 3 * D + 2 * C + R
       /\ age[n] + Rest(q) <= base + H + 3 * D + 2 * C + R

(* The peer has heard of q when the request was handled. *)
PeerHears(q) ==
  /\ Within(Peer(q), q, RoundTrip + CallbackTime)
  /\ hb[q].pc = "answered" => age[Peer(q)] <= RoundTrip /\ age[Peer(q)] + Rest(q) <= RoundTrip
  /\ hb[q].pc = "verdict" => age[Peer(q)] + busy[q] <= RoundTrip + CallbackTime

(* q has heard of the peer when it applied the last verdict. *)
SelfHears(q) ==
  LET B == Heartbeat + 3 * DataTime + RoundTrip + 2 * CallbackTime IN
  /\ Within(q, q, 0)
  /\ hb[q].pc = "answered" => age[q] <= B /\ age[q] + Rest(q) <= B
  /\ hb[q].pc = "verdict" => age[q] + busy[q] <= B + CallbackTime

(* The inductive invariant, for a steady node q. *)
HeardBy(q) == Live => OnTime(q) /\ PeerHears(q) /\ SelfHears(q)
-----------------------------------------------------------------------------
(* The two nodes are each other's peer. *)
LEMMA PeerFacts ==
  ASSUME NEW n \in Node
  PROVE  Peer(n) \in Node /\ Peer(n) # n /\ Node = {n, Peer(n)} /\ Peer(Peer(n)) = n
<1>1. PICK m \in Node : m # n /\ Node = {n, m}
  BY TimingAssumption
<1>2. \A k : k \in Node /\ k # n <=> k = m
  BY <1>1
<1>3. Peer(n) = m
  BY <1>1, <1>2 DEF Peer
<1>4. Peer(m) = n
  BY <1>1 DEF Peer
<1> QED
  BY <1>1, <1>3, <1>4

(* Every step keeps the variables well formed. *)
LEMMA TypeStep == TypeOK /\ [Next]_vars => TypeOK'
<1> SUFFICES ASSUME TypeOK, [Next]_vars
             PROVE  TypeOK'
  OBVIOUS
<1> USE TimingAssumption, PeerFacts
<1>1. CASE Tick
  <2>1. 0 \in 0 .. Longest
    BY DEF Longest, Latest, LastSign
  <2> QED
    BY <1>1, <2>1 DEF TypeOK, Tick, Less, Older, Longest, Latest, LastSign
<1>2. ASSUME NEW n \in Node, Step(n)
      PROVE  TypeOK'
  <2>1. ASSUME NEW pc \in Pc, NEW left \in Nat, Goto(n, pc, left)
        PROVE  hb' \in [Node -> [pc : Pc, left : Nat]]
    BY <2>1 DEF TypeOK, Goto
  <2>2. hb[n].left \in Nat
    BY DEF TypeOK
  <2>3. 0 \in 0 .. Longest /\ 1 \in 0 .. Longest /\ 0 \in 0 .. CallbackTime
    BY DEF Longest, Latest, LastSign
  <2>4. ASSUME NEW pc \in DataPc, NEW left \in Nat, DataGoto(n, pc, left)
        PROVE  data' \in [Node -> [pc : DataPc, left : Nat]]
    BY <2>4 DEF TypeOK, DataGoto
  <2>5. CASE HeartbeatStep(n)
    <3>1. CASE StartWait(n) \/ WaitEnds(n) \/ Wake(n) \/ Query(n)
      BY <2>1, <2>2, <3>1 DEF TypeOK, StartWait, WaitEnds, Wake, Query, Pc
    <3>2. CASE Ask(n) \/ Arrive(n) \/ Receive(n) \/ ReInitialize(n) \/ Reset(n)
      BY <2>1, <2>2, <3>2 DEF TypeOK, Ask, Arrive, Receive, ReInitialize, Reset, Pc
    <3>3. CASE Handle(n) \/ Apply(n)
      BY <2>1, <2>2, <2>3, <3>3 DEF TypeOK, Handle, Apply, Pc
    <3>4. CASE Fail(n)
      BY <2>1, <2>2, <3>4 DEF TypeOK, Fail, GivenUp, Pc
    <3> QED
      BY <2>5, <3>1, <3>2, <3>3, <3>4 DEF HeartbeatStep
  <2>6. CASE HandleLate(n)
    <3>1. Peer(n) \in Node
      OBVIOUS
    <3> QED
      BY <2>3, <2>6, <3>1 DEF TypeOK, HandleLate
  <2>7. CASE BrainSplit(n)
    <3>1. taken' \in [Node -> BOOLEAN]
      BY <2>7, Zenon DEF TypeOK, BrainSplit
    <3> QED
      BY <2>7, <3>1 DEF TypeOK, BrainSplit
  <2>8. CASE Callback(n)
    BY <2>8 DEF TypeOK, Callback
  <2>9. CASE SyncData(n) \/ SendData(n) \/ DataReturns(n)
    BY <2>4, <2>9 DEF TypeOK, SyncData, SendData, DataReturns, CallTime, DataPc
  <2>10. CASE Crash(n)
    <3>1. hb' \in [Node -> [pc : Pc, left : Nat]] /\ data' \in [Node -> [pc : DataPc, left : Nat]]
      BY <2>1, <2>4, <2>10 DEF Crash, Pc, DataPc
    <3> QED
      BY <2>3, <2>10, <3>1 DEF TypeOK, Crash, GivenUp
  <2> QED
    BY <1>2, <2>5, <2>6, <2>7, <2>8, <2>9, <2>10 DEF Step
<1>3. CASE UNCHANGED vars
  BY <1>3 DEF TypeOK, vars
<1> QED
  BY <1>1, <1>2, <1>3 DEF Next

(* The types of what the invariant speaks of. *)
LEMMA Types ==
  ASSUME TypeOK, NEW n \in Node
  PROVE  /\ hb[n].pc \in Pc /\ hb[n].left \in Nat
         /\ busy[n] \in Nat /\ busy[n] <= CallbackTime
         /\ data[n].pc \in DataPc /\ data[n].left \in Nat /\ age[n] \in Nat
  BY TimingAssumption DEF TypeOK, Longest, Latest, LastSign

(* How long a SyncData in its place may need. *)
LEMMA DataLeftFacts ==
  ASSUME TypeOK, NEW n \in Node, data[n].pc = "call" => data[n].left <= DataTime
  PROVE  /\ DataTime \in Nat /\ DataLeft(n) \in Nat /\ DataLeft(n) <= DataTime
         /\ SyncerFree(n) => DataLeft(n) = 0
  BY Types, TimingAssumption DEF DataLeft, DataTime, DataPc, SyncerFree

(* Only a crash and the clock change gone. *)
LEMMA StepKeepsGone ==
  ASSUME NEW m \in Node, Step(m), ~Crash(m)
  PROVE  UNCHANGED gone
<1>1. CASE HeartbeatStep(m)
  BY <1>1 DEF HeartbeatStep, StartWait, WaitEnds, Wake, Query, Ask, Arrive, Handle, Receive, Apply,
              Fail, ReInitialize, Reset
<1> QED
  BY <1>1 DEF Step, HandleLate, SyncData, SendData, DataReturns, Callback, BrainSplit

(* A node that has crashed stays so. *)
LEMMA LiveBefore ==
  ASSUME TypeOK, [Next]_vars, Live'
  PROVE  Live
<1> SUFFICES ASSUME NEW m \in Node, gone[m] # 0
             PROVE  gone'[m] # 0
  BY DEF Live, Alive
<1>1. CASE Tick
  BY <1>1 DEF Tick, Alive, Older, TypeOK
<1>2. ASSUME NEW n \in Node, Step(n)
      PROVE  gone'[m] # 0
  <2>1. CASE Crash(n)
    BY <2>1 DEF Crash, Alive
  <2> QED
    BY <1>2, <2>1, StepKeepsGone
<1> QED
  BY <1>1, <1>2 DEF Next, vars

(***************************************************************************)
(* A step beside the heartbeat of q: a lock that q or its request waits    *)
(* for is not taken anew, and a sign of life only makes an age 0.          *)
(***************************************************************************)
LEMMA Beside ==
  ASSUME NEW q \in Steady, TypeOK, TypeOK', Live, HeardBy(q),
         hb'[q] = hb[q],
         DataLeft(q)' <= DataLeft(q) \/ hb[q].pc \notin {"start", "wake", "ask"},
         data'[q].pc = "call" => data'[q].left <= DataTime,
         busy'[q] = busy[q] \/ hb[q].pc \notin {"query", "verdict"},
         busy'[Peer(q)] = busy[Peer(q)] \/ hb[q].pc # "arrived",
         age'[q] = age[q] \/ age'[q] = 0,
         age'[Peer(q)] = age[Peer(q)] \/ age'[Peer(q)] = 0
  PROVE  HeardBy(q)'
<1> USE TimingAssumption
<1> DEFINE p == Peer(q)
<1>0. q \in Node /\ p \in Node /\ p # q
  BY PeerFacts
<1>1. /\ hb[q].pc \in Pc /\ hb[q].left \in Nat
      /\ busy[q] \in Nat /\ busy[p] \in Nat /\ busy'[q] \in Nat /\ busy'[p] \in Nat
      /\ busy'[q] <= CallbackTime /\ busy'[p] <= CallbackTime
      /\ age[q] \in Nat /\ age[p] \in Nat
      /\ busy[q] <= CallbackTime /\ busy[p] <= CallbackTime
  BY <1>0, Types DEF TypeOK
<1>2. OnTime(q) /\ PeerHears(q) /\ SelfHears(q)
  BY DEF HeardBy
<1>3. DataLeft(q) \in Nat /\ DataLeft(q)' \in Nat /\ DataTime \in Nat
  BY <1>0, DataLeftFacts DEF OnTime, DataTime, TypeOK, DataLeft, DataPc
<1> HIDE DEF p
<1>4. OnTime(q)'
  BY <1>1, <1>2 DEF OnTime, p
<1>5. PeerHears(q)'
  BY <1>1, <1>2, <1>3 DEF PeerHears, Within, Rest, OnTime, p
<1>6. SelfHears(q)'
  BY <1>1, <1>2, <1>3 DEF SelfHears, Within, Rest, OnTime, p
<1> QED
  BY <1>4, <1>5, <1>6 DEF HeardBy

(***************************************************************************)
(* A step of the heartbeat of q: its calls are answered in time, so none   *)
(* fails and it does not connect again.                                    *)
(***************************************************************************)
LEMMA OwnStep ==
  ASSUME NEW q \in Steady, TypeOK, TypeOK', Live, HeardBy(q), HeartbeatStep(q)
  PROVE  HeardBy(q)'
<1> USE TimingAssumption
<1> DEFINE p == Peer(q)
<1>0. q \in Node /\ p \in Node /\ p # q
  BY PeerFacts
<1>1. /\ hb[q].pc \in Pc /\ hb[q].left \in Nat
      /\ busy[q] \in Nat /\ busy[p] \in Nat
      /\ age[q] \in Nat /\ age[p] \in Nat
      /\ busy[q] <= CallbackTime /\ busy[p] <= CallbackTime
      /\ RoundTrip + 2 * CallbackTime < NetworkTimeout
  BY <1>0, Types
<1>2. OnTime(q) /\ PeerHears(q) /\ SelfHears(q)
  BY DEF HeardBy
<1>3. ASSUME NEW pc, NEW left, Goto(q, pc, left)
      PROVE  hb'[q].pc = pc /\ hb'[q].left = left
  BY <1>0, <1>3 DEF Goto, TypeOK
<1>4. Alive(p) /\ Alive(q)
  BY <1>0 DEF Live
<1>5. /\ DataLeft(q) \in Nat /\ DataTime \in Nat /\ DataLeft(q) <= DataTime
      /\ SyncerFree(q) => DataLeft(q) = 0
  BY <1>0, <1>2, DataLeftFacts DEF OnTime, DataTime
<1>6. UNCHANGED data => DataLeft(q)' = DataLeft(q)
  BY DEF DataLeft
<1> SUFFICES OnTime(q)' /\ PeerHears(q)' /\ SelfHears(q)'
  BY DEF HeardBy
<1> HIDE DEF p
<1> USE <1>0, <1>1, <1>2, <1>5, <1>6
<1>7. CASE StartWait(q)
  BY <1>3, <1>7 DEF StartWait, At, OnTime, PeerHears, SelfHears, Within, p
<1>8. CASE WaitEnds(q)
  BY <1>3, <1>8 DEF WaitEnds, At, OnTime, PeerHears, SelfHears, Within, p
<1>9. CASE Wake(q)
  BY <1>3, <1>9 DEF Wake, At, OnTime, PeerHears, SelfHears, Within, p
<1>10. CASE Query(q)
  BY <1>3, <1>10 DEF Query, At, OnTime, PeerHears, SelfHears, Within, p
<1>11. CASE Ask(q)
  BY <1>3, <1>11 DEF Ask, At, OnTime, PeerHears, SelfHears, Within, Rest, p
<1>12. CASE Arrive(q)
  <2>1. /\ hb[q].pc = "sent" /\ hb'[q].pc = "arrived" /\ hb'[q].left = hb[q].left
        /\ UNCHANGED <<busy, data, age>>
    BY <1>3, <1>12 DEF Arrive, At
  <2>2. OnTime(q)'
    BY <2>1 DEF OnTime, p
  <2>3. PeerHears(q)'
    BY <2>1 DEF PeerHears, Within, Rest, p
  <2>4. SelfHears(q)'
    BY <2>1 DEF SelfHears, Within, Rest, p
  <2> QED
    BY <2>2, <2>3, <2>4
<1>13. CASE Handle(q)
  <2>1. age'[p] = 0 /\ age'[q] = age[q]
    BY <1>13 DEF Handle, TypeOK, p
  <2>2. /\ hb[q].pc = "arrived" /\ hb'[q].pc = "answered" /\ hb'[q].left = hb[q].left
        /\ data' = data
    BY <1>3, <1>13 DEF Handle, At
  <2> QED
    BY <2>1, <2>2 DEF OnTime, PeerHears, SelfHears, Within, Rest, p
<1>14. CASE Receive(q)
  BY <1>3, <1>14 DEF Receive, At, OnTime, PeerHears, SelfHears, Within, p
<1>15. CASE Apply(q)
  <2>1. age'[q] = 0 /\ age'[p] = age[p]
    BY <1>15 DEF Apply, TypeOK, p
  <2>2. /\ hb[q].pc = "verdict" /\ hb'[q].pc = "start" /\ hb'[q].left = 0
        /\ data' = data
    BY <1>3, <1>15 DEF Apply, At
  <2> QED
    BY <2>1, <2>2 DEF OnTime, PeerHears, SelfHears, Within, p
<1>16. CASE Fail(q)
  <2>1. hb[q].left = 0 /\ hb[q].pc \in {"sent", "arrived", "answered"}
    BY <1>4, <1>16 DEF Fail, Fails, InCall, At, p
  <2>2. hb[q].pc = "arrived" => busy[p] = 0
    BY <2>1 DEF OnTime, p
  <2>3. MovesOn(q)
    BY <1>4, <2>1, <2>2 DEF MovesOn, p
  <2> QED
    BY <1>16, <2>3 DEF Fail, Fails
<1>17. CASE ReInitialize(q) \/ Reset(q)
  BY <1>17 DEF ReInitialize, Reset, At, OnTime
<1> QED
  BY <1>7, <1>8, <1>9, <1>10, <1>11, <1>12, <1>13, <1>14, <1>15, <1>16, <1>17 DEF HeartbeatStep

(***************************************************************************)
(* Time passes: whatever q waits for has come closer by as much.           *)
(***************************************************************************)
LEMMA TickStep ==
  ASSUME NEW q \in Steady, TypeOK, TypeOK', Live, HeardBy(q), Tick
  PROVE  HeardBy(q)'
<1> USE TimingAssumption
<1> DEFINE p == Peer(q)
<1>0. q \in Node /\ p \in Node /\ p # q
  BY PeerFacts
<1>1. /\ hb[q].pc \in Pc /\ hb[q].left \in Nat
      /\ busy[q] \in Nat /\ busy[p] \in Nat
      /\ data[q].pc \in DataPc /\ data[q].left \in Nat
      /\ age[q] \in Nat /\ age[p] \in Nat
      /\ busy[q] <= CallbackTime /\ busy[p] <= CallbackTime
      /\ RoundTrip + 2 * CallbackTime < NetworkTimeout
  BY <1>0, Types
<1>2. OnTime(q) /\ PeerHears(q) /\ SelfHears(q)
  BY DEF HeardBy
<1>3. /\ hb'[q].pc = hb[q].pc /\ hb'[q].left = Less(hb[q].left)
      /\ data'[q].pc = data[q].pc /\ data'[q].left = Less(data[q].left)
      /\ busy'[q] = Less(busy[q]) /\ busy'[p] = Less(busy[p])
  BY <1>0, <1>1 DEF Tick, TypeOK
<1>4. ~Due(q) /\ Alive(p) /\ Alive(q)
  BY <1>0 DEF Tick, Live
<1>5. /\ age'[q] \in Nat /\ age'[q] <= age[q] + 1
      /\ age'[p] \in Nat /\ age'[p] <= age[p] + 1
  BY <1>0, <1>1, <1>4 DEF Tick, Older, TypeOK
<1>6. /\ hb[q].pc \in {"wait", "sent", "arrived", "answered"} => hb[q].left > 0
      /\ hb[q].pc \in {"query", "verdict"} => busy[q] > 0
      /\ hb[q].pc \in {"start", "wake", "ask"} => data[q].pc = "call" /\ data[q].left > 0
  BY <1>1, <1>4 DEF Due, SyncerFree, ClientFree, InCall, At, DataPc
<1>7. /\ hb[q].pc \in {"sent", "answered"} => Rest(q) > 0
      /\ hb[q].pc = "arrived" /\ busy[p] = 0 => Rest(q) > 0
  BY <1>0, <1>1, <1>4 DEF Due, MovesOn, Rest, p
<1>8. Rest(q)' = hb'[q].left + RoundTrip - NetworkTimeout
  BY DEF Rest
<1>9. hb[q].pc \in {"start", "wake", "ask"} => DataLeft(q) \in Nat /\ DataLeft(q)' = DataLeft(q) - 1
  BY <1>1, <1>3, <1>6 DEF DataLeft, Less
<1>10. DataTime \in Nat
  BY DEF DataTime
<1>11. data'[q].pc = "call" => data'[q].left <= DataTime
  BY <1>1, <1>2, <1>3, <1>10 DEF OnTime, Less
<1> HIDE DEF p
<1> USE <1>0, <1>1, <1>2, <1>3, <1>5, <1>6, <1>7, <1>8, <1>9, <1>10, <1>11
<1> SUFFICES OnTime(q)' /\ PeerHears(q)' /\ SelfHears(q)'
  BY DEF HeardBy
<1>12. CASE hb[q].pc \in {"start", "wake", "ask"}
  BY <1>12 DEF OnTime, PeerHears, SelfHears, Within, p
<1>13. CASE hb[q].pc = "wait"
  BY <1>13 DEF OnTime, PeerHears, SelfHears, Within, Less, p
<1>14. CASE hb[q].pc = "query"
  BY <1>14 DEF OnTime, PeerHears, SelfHears, Within, Less, p
<1>15. CASE hb[q].pc = "sent"
  <2>1. hb'[q].left = hb[q].left - 1 /\ hb[q].left + RoundTrip - NetworkTimeout > 0
    BY <1>15 DEF Less, Rest
  <2>2. OnTime(q)'
    BY <1>15, <2>1 DEF OnTime, Less
  <2>3. PeerHears(q)'
    BY <1>15, <2>1 DEF PeerHears, Within, Rest, p
  <2>4. SelfHears(q)'
    BY <1>15, <2>1 DEF SelfHears, Within, Rest
  <2> QED
    BY <2>2, <2>3, <2>4
<1>16. CASE hb[q].pc = "arrived"
  <2>1. hb'[q].left = hb[q].left - 1
    BY <1>16 DEF Less
  <2>2. (busy'[p] = 0 /\ busy[p] = 0 /\ Rest(q) > 0) \/ busy'[p] = busy[p] - 1
    BY <1>16 DEF Less
  <2>3. OnTime(q)'
    BY <1>16, <2>1, <2>2 DEF OnTime, p
  <2>4. PeerHears(q)'
    BY <1>16, <2>1, <2>2 DEF PeerHears, Within, Rest, OnTime, p
  <2>5. SelfHears(q)'
    BY <1>16, <2>1, <2>2 DEF SelfHears, Within, Rest, OnTime, p
  <2> QED
    BY <2>3, <2>4, <2>5
<1>17. CASE hb[q].pc = "answered"
  <2>1. hb'[q].left = hb[q].left - 1 /\ hb[q].left + RoundTrip - NetworkTimeout > 0
    BY <1>17 DEF Less, Rest
  <2>2. OnTime(q)'
    BY <1>17, <2>1 DEF OnTime, Less
  <2>3. PeerHears(q)'
    BY <1>17, <2>1 DEF PeerHears, Within, Rest, p
  <2>4. SelfHears(q)'
    BY <1>17, <2>1 DEF SelfHears, Within, Rest
  <2> QED
    BY <2>2, <2>3, <2>4
<1>18. CASE hb[q].pc = "verdict"
  BY <1>18 DEF OnTime, PeerHears, SelfHears, Within, Less, p
<1> QED
  BY <1>12, <1>13, <1>14, <1>15, <1>16, <1>17, <1>18 DEF Pc, OnTime

(* The invariant is inductive. *)
LEMMA HeardStep ==
  ASSUME NEW q \in Steady, TypeOK, TypeOK', HeardBy(q), [Next]_vars
  PROVE  HeardBy(q)'
<1> SUFFICES ASSUME Live, Live'
             PROVE  HeardBy(q)'
  BY LiveBefore DEF HeardBy
<1> DEFINE p == Peer(q)
<1>0. q \in Node /\ p \in Node /\ p # q /\ Node = {q, p} /\ Peer(p) = q
  BY PeerFacts, TimingAssumption
<1>d. DataLeft(q) \in Nat /\ OnTime(q) /\ data[q].pc \in DataPc
  BY <1>0, DataLeftFacts, Types DEF HeardBy, OnTime
<1>e. ASSUME data'[q] = data[q]
      PROVE  DataLeft(q)' <= DataLeft(q) /\ (data'[q].pc = "call" => data'[q].left <= DataTime)
  <2>1. DataLeft(q)' = DataLeft(q)
    BY <1>e DEF DataLeft
  <2> QED
    BY <1>d, <1>e, <2>1 DEF OnTime
<1>1. CASE Tick
  BY <1>1, TickStep
<1>2. CASE UNCHANGED vars
  BY <1>2, <1>e, Beside DEF vars
<1>3. CASE Step(q)
  <2>1. CASE Callback(q)
    <3>1. hb[q].pc \notin {"query", "verdict"}
      BY <2>1 DEF Callback, Awaited, At
    <3>2. busy'[p] = busy[p]
      BY <1>0, <2>1 DEF Callback, TypeOK
    <3> QED
      BY <1>e, <2>1, <3>1, <3>2, Beside DEF Callback
  <2>2. CASE SyncData(q)
    <3>1. hb[q].pc \notin {"start", "wake", "ask"}
      BY <2>2 DEF SyncData, At, Waits
    <3>2. data'[q].pc = "locked"
      BY <1>0, <2>2 DEF SyncData, DataGoto, TypeOK
    <3> QED
      BY <2>2, <3>1, <3>2, Beside DEF SyncData
  <2>3. CASE SendData(q)
    <3>1. PICK time \in 0 .. CallTime(q) : DataGoto(q, "call", time)
      BY <2>3 DEF SendData
    <3>2. data[q].pc = "locked" /\ data'[q].pc = "call" /\ data'[q].left = time /\ time <= DataTime
      BY <1>0, <2>3, <3>1, TimingAssumption DEF SendData, DataGoto, CallTime, DataTime, TypeOK
    <3>3. DataLeft(q)' <= DataLeft(q)
      BY <3>2 DEF DataLeft
    <3> QED
      BY <2>3, <3>2, <3>3, Beside DEF SendData
  <2>4. CASE DataReturns(q)
    <3>1. data'[q].pc = "idle"
      BY <1>0, <2>4 DEF DataReturns, DataGoto, TypeOK
    <3>2. DataLeft(q)' = 0
      BY <3>1 DEF DataLeft
    <3> QED
      BY <1>d, <2>4, <3>1, <3>2, Beside DEF DataReturns
  <2>5. CASE HandleLate(q) \/ BrainSplit(q)
    <3>1. age'[q] = age[q] /\ (age'[p] = age[p] \/ age'[p] = 0)
      BY <1>0, <2>5 DEF HandleLate, BrainSplit, TypeOK
    <3> QED
      BY <1>e, <2>5, <3>1, Beside DEF HandleLate, BrainSplit
  <2>6. CASE Crash(q)
    BY <1>0, <2>6 DEF Crash, Live, Alive, TypeOK
  <2> QED
    BY <1>3, <2>1, <2>2, <2>3, <2>4, <2>5, <2>6, OwnStep DEF Step
<1>4. CASE Step(p)
  <2>1. CASE Crash(p)
    BY <1>0, <2>1 DEF Crash, Live, Alive, TypeOK
  <2>2. CASE Callback(p)
    <3>1. hb[q].pc # "arrived"
      BY <1>0, <2>2 DEF Callback, Awaited, At, Live
    <3>2. busy'[q] = busy[q]
      BY <1>0, <2>2 DEF Callback, TypeOK
    <3> QED
      BY <1>e, <2>2, <3>1, <3>2, Beside DEF Callback
  <2>3. CASE SyncData(p) \/ SendData(p) \/ DataReturns(p)
    <3>1. data'[q] = data[q] /\ UNCHANGED <<hb, busy, age>>
      BY <1>0, <2>3 DEF SyncData, SendData, DataReturns, DataGoto, TypeOK
    <3> QED
      BY <1>e, <3>1, Beside
  <2>4. CASE HandleLate(p) \/ BrainSplit(p)
    <3>1. age'[p] = age[p] /\ (age'[q] = age[q] \/ age'[q] = 0)
      BY <1>0, <2>4 DEF HandleLate, BrainSplit, TypeOK
    <3> QED
      BY <1>e, <2>4, <3>1, Beside DEF HandleLate, BrainSplit
  <2>5. CASE HeartbeatStep(p)
    <3>1. ASSUME NEW pc, NEW left, Goto(p, pc, left)
          PROVE  hb'[q] = hb[q]
      BY <1>0, <3>1 DEF Goto, TypeOK
    <3>2. CASE Handle(p) \/ Apply(p)
      <4>1. hb'[q] = hb[q]
        BY <3>1, <3>2 DEF Handle, Apply
      <4>2. (age'[q] = age[q] \/ age'[q] = 0) /\ (age'[p] = age[p] \/ age'[p] = 0)
        BY <1>0, <3>2 DEF Handle, Apply, TypeOK
      <4> QED
        BY <1>e, <3>2, <4>1, <4>2, Beside DEF Handle, Apply
    <3>3. CASE ~(Handle(p) \/ Apply(p))
      <4>1. hb'[q] = hb[q] /\ UNCHANGED <<busy, data, age>>
        BY <2>5, <3>1, <3>3 DEF HeartbeatStep, StartWait, WaitEnds, Wake, Query, Ask, Arrive, Receive,
           Fail, ReInitialize, Reset
      <4> QED
        BY <1>e, <4>1, Beside
    <3> QED
      BY <3>2, <3>3
  <2> QED
    BY <1>4, <2>1, <2>2, <2>3, <2>4, <2>5 DEF Step
<1> QED
  BY <1>0, <1>1, <1>2, <1>3, <1>4 DEF Next

(***************************************************************************)
(* PeerIsHeard, for all times: while both nodes live and the link of one   *)
(* of them is steady, neither finds the other silent if SwitchTimeout is   *)
(* at least Heartbeat + 5 RoundTrip + 9 CallbackTime: an interval, a call, *)
(* three waits for its repository and the peer's, and three for SyncData,  *)
(* which has m_Lock before or after the interval and the client's before   *)
(* the request.  It is about m_PeerLiveTime, which IfAllowPeerActivate and *)
(* TryActivate store and BrainSplitCheck compares.                         *)
(***************************************************************************)
THEOREM HeardInTime ==
  ASSUME Steady # {}, Cycle <= SwitchTimeout
  PROVE  Spec => []PeerIsHeard
<1>0. PICK q \in Steady : TRUE
  OBVIOUS
<1> DEFINE IInv == TypeOK /\ HeardBy(q)
<1>1. Init => IInv
  <2> SUFFICES ASSUME Init PROVE IInv
    OBVIOUS
  <2>1. TypeOK
    BY TimingAssumption DEF Init, TypeOK, Pc, DataPc, Longest, Latest, LastSign
  <2>2. q \in Node /\ Peer(q) \in Node
    BY PeerFacts, TimingAssumption
  <2>3. HeardBy(q)
    BY <2>2, TimingAssumption DEF Init, HeardBy, OnTime, PeerHears, SelfHears, Within, DataTime
  <2> QED
    BY <2>1, <2>3
<1>2. IInv /\ [Next]_vars => IInv'
  BY TypeStep, HeardStep
<1>3. IInv => PeerIsHeard
  <2> SUFFICES ASSUME TypeOK, HeardBy(q), Live
               PROVE  age[q] <= SwitchTimeout /\ age[Peer(q)] <= SwitchTimeout
    BY PeerFacts, TimingAssumption DEF PeerIsHeard, Live
  <2>1. q \in Node /\ Peer(q) \in Node
    BY PeerFacts, TimingAssumption
  <2>2. /\ hb[q].pc \in Pc /\ hb[q].left \in Nat
        /\ busy[q] \in Nat /\ busy[Peer(q)] \in Nat
        /\ age[q] \in Nat /\ age[Peer(q)] \in Nat
    BY <2>1, Types
  <2>3. OnTime(q) /\ PeerHears(q) /\ SelfHears(q)
    BY DEF HeardBy
  <2>4. DataLeft(q) \in Nat /\ DataTime \in Nat
    BY <2>1, <2>3, DataLeftFacts DEF OnTime
  <2>5. age[q] <= SwitchTimeout
    BY <2>2, <2>3, <2>4, TimingAssumption DEF Cycle, Pc, OnTime, SelfHears, Within
  <2>6. age[Peer(q)] <= SwitchTimeout
    BY <2>2, <2>3, <2>4, TimingAssumption DEF Cycle, Pc, OnTime, PeerHears, Within
  <2> QED
    BY <2>5, <2>6
<1> QED
  BY <1>1, <1>2, <1>3, PTL DEF Spec
-----------------------------------------------------------------------------
(* A call waits no longer than the socket's timeout. *)
CallsInTime ==
  \A n \in Node : hb[n].pc \in {"sent", "arrived", "answered"} => hb[n].left <= NetworkTimeout

(* At most one node is gone: nothing is left to survive the second. *)
OneSurvives == \A n \in Node : ~Alive(n) => Alive(Peer(n))

(***************************************************************************)
(* What a dead node n may still cause at its peer: a request it left       *)
(* behind, and a reply it had sent.  They are past after Delay and after   *)
(* NetworkTimeout and the callbacks, and from then on the peer's age grows *)
(* with the time since the end of n.                                       *)
(***************************************************************************)
LastSigns(n) ==
  LET p == Peer(n) IN
  ~Alive(n) =>
    /\ gone[n] <= age[p] + LastSign + 1
    /\ late[n] > 0 => late[n] + gone[n] <= Delay + 1
    /\ hb[p].pc = "answered" => hb[p].left + gone[n] <= NetworkTimeout + 1
    /\ hb[p].pc = "verdict" => busy[p] + gone[n] <= NetworkTimeout + CallbackTime + 1

(* Once it has seen that the time is too old, the checker waits for one callback at most. *)
LooksInTime(n) ==
  Alive(n) /\ Overdue(n) => age[n] + busy[n] <= SwitchTimeout + CheckPeriod + CallbackTime

(* The inductive invariant of TakeoverInTime. *)
Watched ==
  CallsInTime /\ OneSurvives /\ \A n \in Node : LastSigns(n) /\ LooksInTime(n)

LEMMA CallsStep == TypeOK /\ CallsInTime /\ [Next]_vars => CallsInTime'
<1> SUFFICES ASSUME TypeOK, CallsInTime, [Next]_vars, NEW n \in Node,
                    hb'[n].pc \in {"sent", "arrived", "answered"}
             PROVE  hb'[n].left <= NetworkTimeout
  BY DEF CallsInTime
<1>t. hb[n].left \in Nat /\ NetworkTimeout \in Nat
  BY Types, TimingAssumption
<1>1. CASE Tick
  <2>1. hb'[n].pc = hb[n].pc /\ hb'[n].left = Less(hb[n].left)
    BY <1>1 DEF Tick, TypeOK
  <2> QED
    BY <2>1, <1>t DEF CallsInTime, Less
<1>2. ASSUME UNCHANGED hb PROVE hb'[n].left <= NetworkTimeout
  BY <1>2 DEF CallsInTime
<1>3. ASSUME NEW m \in Node, NEW pc, NEW left, Goto(m, pc, left),
             pc \in {"sent", "arrived", "answered"} => left <= NetworkTimeout
      PROVE  hb'[n].left <= NetworkTimeout
  BY <1>3 DEF Goto, CallsInTime, TypeOK
<1>4. ASSUME NEW m \in Node, Step(m) PROVE hb'[n].left <= NetworkTimeout
  <2>1. CASE Ask(m)
    BY <1>3, <1>t, <2>1 DEF Ask
  <2>2. CASE Arrive(m) \/ Handle(m)
    BY <1>3, <2>2 DEF Arrive, Handle, At, CallsInTime
  <2>3. CASE HeartbeatStep(m) /\ ~(Ask(m) \/ Arrive(m) \/ Handle(m))
    BY <1>3, <2>3 DEF HeartbeatStep, StartWait, WaitEnds, Wake, Query, Receive, Apply, Fail,
       ReInitialize, Reset
  <2>4. CASE Crash(m)
    BY <1>3, <2>4 DEF Crash
  <2>5. CASE HandleLate(m) \/ Callback(m) \/ SyncData(m) \/ SendData(m) \/ DataReturns(m) \/ BrainSplit(m)
    BY <1>2, <2>5 DEF HandleLate, Callback, SyncData, SendData, DataReturns, BrainSplit
  <2> QED
    BY <1>4, <2>1, <2>2, <2>3, <2>4, <2>5 DEF Step
<1> QED
  BY <1>1, <1>2, <1>4 DEF Next, vars

(* Only a crash, while both nodes live, and the clock change gone. *)
LEMMA GoneChanges ==
  ASSUME TypeOK, [Next]_vars, NEW n \in Node
  PROVE  \/ UNCHANGED gone
         \/ Tick /\ gone'[n] = IF Alive(n) THEN 0 ELSE Older(gone[n])
         \/ \E m \in Node : Crash(m) /\ gone' = [gone EXCEPT ![m] = 1]
<1>1. ASSUME NEW m \in Node, Step(m), ~Crash(m) PROVE UNCHANGED gone
  BY <1>1, StepKeepsGone
<1>2. CASE Tick
  BY <1>2 DEF Tick
<1>3. ASSUME NEW m \in Node, Crash(m) PROVE gone' = [gone EXCEPT ![m] = 1]
  BY <1>3 DEF Crash
<1> QED
  BY <1>1, <1>2, <1>3 DEF Next, vars

LEMMA SurvivesStep == TypeOK /\ OneSurvives /\ [Next]_vars => OneSurvives'
<1> SUFFICES ASSUME TypeOK, OneSurvives, [Next]_vars, NEW n \in Node, ~Alive(n)'
             PROVE  Alive(Peer(n))'
  BY DEF OneSurvives, Alive, Peer
<1>p. Peer(n) \in Node /\ Peer(n) # n /\ Peer(Peer(n)) = n
  BY PeerFacts
<1>1. CASE UNCHANGED gone
  BY <1>1 DEF OneSurvives, Alive, Peer
<1>2. CASE Tick
  <2>1. gone' = [m \in Node |-> IF Alive(m) THEN 0 ELSE Older(gone[m])]
    BY <1>2 DEF Tick
  <2>2. ~Alive(n)
    BY <2>1 DEF Alive
  <2> QED
    BY <2>1, <2>2, <1>p DEF OneSurvives, Alive, Peer
<1>3. ASSUME NEW m \in Node, Crash(m) PROVE Alive(Peer(n))'
  <2>1. gone' = [gone EXCEPT ![m] = 1] /\ \A k \in Node : gone[k] = 0
    BY <1>3 DEF Crash, Alive
  <2>2. m = n
    BY <2>1 DEF Alive, TypeOK
  <2> QED
    BY <2>1, <2>2, <1>p DEF Alive, TypeOK, Peer
<1> QED
  BY <1>1, <1>2, <1>3, GoneChanges

(* No callback comes between the checker and the lock it waits for. *)
LEMMA LooksStep ==
  ASSUME TypeOK, [Next]_vars, NEW n \in Node, LooksInTime(n)
  PROVE  LooksInTime(n)'
<1> DEFINE Old == SwitchTimeout + CheckPeriod
<1>t. /\ age[n] \in Nat /\ busy[n] \in Nat /\ busy[n] <= CallbackTime /\ Old \in Nat
      /\ CallbackTime \in Nat /\ age'[n] \in Nat /\ busy'[n] \in Nat /\ busy'[n] <= CallbackTime
  BY TypeStep, Types, TimingAssumption DEF TypeOK, Longest, Latest, LastSign
<1>1. CASE Tick
  <2>1. /\ ~Due(n) /\ busy'[n] = Less(busy[n]) /\ UNCHANGED taken
        /\ Alive(n) => age'[n] = Older(age[n])
    BY <1>1 DEF Tick
  <2>2. gone'[n] = IF Alive(n) THEN 0 ELSE Older(gone[n])
    BY <1>1 DEF Tick
  <2>3. SUFFICES ASSUME Alive(n)', Overdue(n)'
                 PROVE  age'[n] + busy'[n] <= Old + CallbackTime
    BY DEF LooksInTime
  <2>4. Alive(n)
    BY <2>2, <2>3 DEF Alive, Older, TypeOK
  <2>5. CASE Overdue(n)
    <3>1. busy[n] > 0
      BY <1>t, <2>1, <2>4, <2>5 DEF Due
    <3> QED
      BY <1>t, <2>1, <2>4, <2>5, <3>1 DEF LooksInTime, Older, Less
  <2>6. CASE ~Overdue(n)
    <3>1. age[n] < Old
      BY <1>t, <2>1, <2>3, <2>6 DEF Overdue
    <3> QED
      BY <1>t, <2>1, <2>4, <3>1 DEF Older
  <2> QED
    BY <2>5, <2>6
<1>2. ASSUME UNCHANGED <<age, busy>>, Alive(n)' => Alive(n), ~taken[n]' => ~taken[n] PROVE LooksInTime(n)'
  BY <1>2 DEF LooksInTime, Overdue
<1>3. ASSUME UNCHANGED <<busy, taken, gone>>, age'[n] = 0 \/ age'[n] = age[n] PROVE LooksInTime(n)'
  BY <1>3, <1>t DEF LooksInTime, Overdue, Alive
<1>4. ASSUME NEW m \in Node, Step(m) PROVE LooksInTime(n)'
  <2>1. CASE \/ (HeartbeatStep(m) /\ ~(Handle(m) \/ Apply(m)))
              \/ SyncData(m) \/ SendData(m) \/ DataReturns(m)
    BY <1>2, <2>1 DEF HeartbeatStep, StartWait, WaitEnds, Wake, Query, Ask, Arrive, Receive, Fail,
       ReInitialize, Reset, SyncData, SendData, DataReturns, Alive
  <2>2. CASE Handle(m) \/ HandleLate(m) \/ Apply(m)
    BY <1>3, <2>2 DEF Handle, HandleLate, Apply, TypeOK
  <2>3. CASE BrainSplit(m)
    <3>1. taken[n] => taken[n]'
      BY <2>3 DEF BrainSplit, TypeOK
    <3> QED
      BY <1>2, <2>3, <3>1 DEF BrainSplit, Alive
  <2>4. CASE Crash(m)
    <3>1. Alive(n) /\ (m # n => age'[n] = age[n] /\ busy'[n] = busy[n]) /\ UNCHANGED taken
      BY <2>4 DEF Crash, TypeOK
    <3>2. m = n => ~Alive(n)'
      BY <2>4 DEF Crash, Alive, TypeOK
    <3> QED
      BY <3>1, <3>2 DEF LooksInTime, Overdue
  <2>5. CASE Callback(m)
    <3>1. UNCHANGED <<age, taken, gone>> /\ ~Overdue(m) /\ (m # n => busy'[n] = busy[n])
      BY <2>5 DEF Callback, Awaited, TypeOK
    <3>2. CASE m = n
      BY <3>1, <3>2 DEF LooksInTime, Overdue
    <3>3. CASE m # n
      BY <3>1, <3>3 DEF LooksInTime, Overdue, Alive
    <3> QED
      BY <3>2, <3>3
  <2> QED
    BY <1>4, <2>1, <2>2, <2>3, <2>4, <2>5 DEF Step
<1>5. CASE UNCHANGED vars
  BY <1>2, <1>5 DEF vars, Alive
<1> QED
  BY <1>1, <1>4, <1>5 DEF Next

(* A dead node takes no step; its peer asks in vain; what was sent is used up in time. *)
LEMMA LastSignsStep ==
  ASSUME TypeOK, CallsInTime, OneSurvives, [Next]_vars, NEW n \in Node, LastSigns(n)
  PROVE  LastSigns(n)'
<1> DEFINE p == Peer(n)
           N == NetworkTimeout
           C == CallbackTime
           L == LastSign
<1>p. p \in Node /\ p # n /\ Node = {n, p} /\ Peer(p) = n
  BY PeerFacts
<1>t. /\ N \in Nat /\ C \in Nat /\ Delay \in Nat /\ L \in Nat /\ Delay <= L /\ N + C <= L
      /\ age[p] \in Nat /\ age'[p] \in Nat /\ age[p] <= Longest /\ Longest \in Nat
      /\ busy[p] \in Nat /\ busy[p] <= C /\ late[n] \in Nat /\ late[n] <= Delay
      /\ hb[p].left \in Nat /\ gone[n] \in Nat /\ gone[n] <= Longest
  BY <1>p, TypeStep, Types, TimingAssumption DEF TypeOK, Longest, Latest, LastSign
<1>a. LastSigns(n)' <=>
        (~Alive(n)' =>
           /\ gone'[n] <= age'[p] + L + 1
           /\ late'[n] > 0 => late'[n] + gone'[n] <= Delay + 1
           /\ hb'[p].pc = "answered" => hb'[p].left + gone'[n] <= N + 1
           /\ hb'[p].pc = "verdict" => busy'[p] + gone'[n] <= N + C + 1)
  BY DEF LastSigns, Peer
<1>b. ~Alive(n) =>
        /\ gone[n] <= age[p] + L + 1
        /\ late[n] > 0 => late[n] + gone[n] <= Delay + 1
        /\ hb[p].pc = "answered" => hb[p].left + gone[n] <= N + 1
        /\ hb[p].pc = "verdict" => busy[p] + gone[n] <= N + C + 1
  BY DEF LastSigns
<1> HIDE DEF p
<1>1. CASE Tick
  <2>1. /\ hb'[p].pc = hb[p].pc /\ hb'[p].left = Less(hb[p].left)
        /\ late'[n] = Less(late[n]) /\ busy'[p] = Less(busy[p])
        /\ Alive(p) => age'[p] = Older(age[p])
        /\ gone'[n] = IF Alive(n) THEN 0 ELSE Older(gone[n])
        /\ ~Due(p)
    BY <1>1, <1>p DEF Tick, TypeOK
  <2>0. SUFFICES ASSUME ~Alive(n)
                 PROVE  LastSigns(n)'
    BY <1>a, <2>1 DEF Alive
  <2>3. Alive(p)
    BY <2>0 DEF OneSurvives, p
  <2>2. SUFFICES /\ Older(gone[n]) <= Older(age[p]) + L + 1
                 /\ Less(late[n]) > 0 => Less(late[n]) + Older(gone[n]) <= Delay + 1
                 /\ hb[p].pc = "answered" => Less(hb[p].left) + Older(gone[n]) <= N + 1
                 /\ hb[p].pc = "verdict" => Less(busy[p]) + Older(gone[n]) <= N + C + 1
    BY <1>a, <2>0, <2>1, <2>3
  <2>4. /\ hb[p].pc = "answered" => hb[p].left > 0
        /\ hb[p].pc = "verdict" => busy[p] > 0
    BY <1>t, <2>1, <2>3 DEF Due
  <2>5. Older(gone[n]) <= Older(age[p]) + L + 1
    BY <1>b, <1>t, <2>0 DEF Older
  <2>6. Less(late[n]) > 0 => Less(late[n]) + Older(gone[n]) <= Delay + 1
    BY <1>b, <1>t, <2>0 DEF Older, Less
  <2>7. hb[p].pc = "answered" => Less(hb[p].left) + Older(gone[n]) <= N + 1
    BY <1>b, <1>t, <2>0, <2>4 DEF Older, Less
  <2>8. hb[p].pc = "verdict" => Less(busy[p]) + Older(gone[n]) <= N + C + 1
    BY <1>b, <1>t, <2>0, <2>4 DEF Older, Less
  <2> QED
    BY <2>5, <2>6, <2>7, <2>8
<1>2. ASSUME NEW m \in Node, Crash(m) PROVE LastSigns(n)'
  <2>1. gone' = [gone EXCEPT ![m] = 1] /\ Alive(n)
    BY <1>2 DEF Crash
  <2>2. CASE m # n
    BY <1>a, <2>1, <2>2 DEF Alive, TypeOK
  <2>3. CASE m = n
    <3>1. gone'[n] = 1 /\ late'[n] \in Nat /\ late'[n] <= Delay
      BY <1>2, <1>t, <2>1, <2>3 DEF Crash, GivenUp, TypeOK
    <3>2. hb'[p] = hb[p] /\ busy'[p] = busy[p] /\ age'[p] = age[p]
      BY <1>2, <1>p, <2>3 DEF Crash, Goto, TypeOK
    <3>3. hb[p].pc = "answered" => hb[p].left <= N
      BY <1>p DEF CallsInTime
    <3> QED
      BY <1>a, <1>t, <2>1, <3>1, <3>2, <3>3
  <2> QED
    BY <2>2, <2>3
<1>3. ASSUME NEW m \in Node, Step(m), ~Crash(m), ~Alive(n) PROVE LastSigns(n)'
  <2>g. UNCHANGED gone
    BY <1>3, StepKeepsGone
  <2>1. CASE m = n
    <3>1. HandleLate(n)
      BY <1>3, <2>1 DEF Step, HeartbeatStep, StartWait, WaitEnds, Wake, Query, Ask, Arrive, Handle,
         Receive, Apply, Fail, Fails, ReInitialize, Reset, Callback, SyncData, SendData, DataReturns,
         BrainSplit, At, InCall
    <3>2. late[n] > 0 /\ UNCHANGED <<hb, busy, late>> /\ age'[p] = 0
      BY <1>p, <3>1 DEF HandleLate, TypeOK, p
    <3> QED
      BY <1>a, <1>b, <1>3, <1>t, <2>g, <3>2
  <2>2. CASE m = p /\ Apply(p)
    <3>1. hb[p].pc = "verdict" /\ hb'[p].pc = "start" /\ UNCHANGED <<late, busy>> /\ age'[p] = 0
      BY <1>p, <2>2 DEF Apply, At, Goto, TypeOK
    <3> QED
      BY <1>a, <1>b, <1>3, <1>t, <2>g, <3>1
  <2>3. CASE m = p /\ Receive(p)
    <3>1. hb[p].pc = "answered" /\ hb'[p].pc = "verdict" /\ UNCHANGED <<late, busy, age>>
      BY <1>p, <2>3 DEF Receive, At, Goto, TypeOK
    <3> QED
      BY <1>a, <1>b, <1>3, <1>t, <2>g, <3>1
  <2>4. CASE m = p /\ Callback(p)
    <3>1. hb[p].pc # "verdict" /\ UNCHANGED <<hb, late, age>>
      BY <1>p, <2>4 DEF Callback, Awaited, At
    <3> QED
      BY <1>a, <1>b, <1>3, <1>t, <2>g, <3>1
  <2>5. CASE /\ m = p
             /\ \/ StartWait(p) \/ WaitEnds(p) \/ Wake(p) \/ Query(p) \/ Ask(p) \/ Fail(p)
                \/ ReInitialize(p) \/ Reset(p)
    <3>1. hb'[p].pc \notin {"answered", "verdict"} /\ late'[n] = late[n] /\ UNCHANGED <<busy, age>>
      BY <1>p, <2>5 DEF StartWait, WaitEnds, Wake, Query, Ask, Fail, ReInitialize, Reset, Goto, GivenUp,
         TypeOK
    <3> QED
      BY <1>a, <1>b, <1>3, <1>t, <2>g, <3>1
  <2>6. CASE m = p /\ (SyncData(p) \/ SendData(p) \/ DataReturns(p) \/ BrainSplit(p))
    <3>1. UNCHANGED <<hb, late, busy, age>>
      BY <2>6 DEF SyncData, SendData, DataReturns, BrainSplit
    <3> QED
      BY <1>a, <1>b, <1>3, <1>t, <2>g, <3>1
  <2>7. m = p => ~(Arrive(p) \/ Handle(p) \/ HandleLate(p))
    BY <1>p, <1>3 DEF Arrive, Handle, HandleLate
  <2> QED
    BY <1>p, <1>3, <2>1, <2>2, <2>3, <2>4, <2>5, <2>6, <2>7 DEF Step, HeartbeatStep
<1>4. ASSUME Alive(n), UNCHANGED gone PROVE LastSigns(n)'
  BY <1>4, <1>a DEF Alive
<1>5. CASE UNCHANGED vars
  BY <1>5, <1>a, <1>b DEF vars, Alive
<1>6. ASSUME NEW m \in Node, Step(m), ~Crash(m), Alive(n) PROVE LastSigns(n)'
  BY <1>4, <1>6, StepKeepsGone
<1> QED
  BY <1>1, <1>2, <1>3, <1>5, <1>6 DEF Next

(***************************************************************************)
(* TakeoverInTime, for all times: the survivor of a crash calls BrainSplit *)
(* within SwitchTimeout, one period of the checker and the callbacks, from *)
(* the last moment at which something of the dead node counts.  That is    *)
(* NetworkTimeout and the callbacks, or Delay if it is longer: Delay is an *)
(* assumption about the network, which no code enforces.  Both links may   *)
(* lose whatever they are given.                                           *)
(***************************************************************************)
THEOREM SurvivorTakesOver == Spec => []TakeoverInTime
<1> DEFINE IInv == TypeOK /\ Watched
<1>1. Init => IInv
  <2> SUFFICES ASSUME Init
               PROVE  IInv
    OBVIOUS
  <2>1. TypeOK
    BY TimingAssumption DEF Init, TypeOK, Pc, DataPc, Longest, Latest, LastSign
  <2>2. \A n \in Node : Alive(n) /\ ~Overdue(n) /\ hb[n].pc = "wait"
    BY TimingAssumption DEF Init, Alive, Overdue
  <2>3. CallsInTime /\ OneSurvives
    BY <2>2 DEF CallsInTime, OneSurvives
  <2>4. \A n \in Node : LastSigns(n) /\ LooksInTime(n)
    BY <2>2 DEF LastSigns, LooksInTime
  <2> QED
    BY <2>1, <2>3, <2>4 DEF Watched
<1>2. IInv /\ [Next]_vars => IInv'
  <2> SUFFICES ASSUME IInv, [Next]_vars
               PROVE  IInv'
    OBVIOUS
  <2>1. TypeOK' /\ CallsInTime' /\ OneSurvives'
    BY TypeStep, CallsStep, SurvivesStep DEF Watched
  <2>2. ASSUME NEW n \in Node PROVE LastSigns(n)' /\ LooksInTime(n)'
    BY <2>2, LastSignsStep, LooksStep DEF Watched
  <2> QED
    BY <2>1, <2>2 DEF Watched
<1>3. IInv => TakeoverInTime
  <2> SUFFICES ASSUME IInv, NEW n \in Node, gone[n] > Latest, ~taken[Peer(n)]
               PROVE  FALSE
    BY DEF TakeoverInTime
  <2>1. Peer(n) \in Node
    BY PeerFacts
  <2>2. /\ age[Peer(n)] \in Nat /\ busy[Peer(n)] \in Nat /\ gone[n] \in Nat
    BY <2>1, Types, TimingAssumption DEF TypeOK
  <2>3. ~Alive(n) /\ Alive(Peer(n))
    BY <2>2, TimingAssumption DEF Watched, OneSurvives, Alive, Latest, LastSign
  <2>4. gone[n] <= age[Peer(n)] + LastSign + 1 /\ LastSign \in Nat
    BY <2>3, TimingAssumption DEF Watched, LastSigns, LastSign
  <2>5. age[Peer(n)] > SwitchTimeout + CheckPeriod + CallbackTime
    BY <2>2, <2>4, TimingAssumption DEF Latest
  <2>6. Overdue(Peer(n))
    BY <2>2, <2>5, TimingAssumption DEF Overdue
  <2>7. age[Peer(n)] + busy[Peer(n)] <= SwitchTimeout + CheckPeriod + CallbackTime
    BY <2>1, <2>3, <2>6 DEF Watched, LooksInTime
  <2> QED
    BY <2>2, <2>5, <2>7, TimingAssumption
<1> QED
  BY <1>1, <1>2, <1>3, PTL DEF Spec
=============================================================================
