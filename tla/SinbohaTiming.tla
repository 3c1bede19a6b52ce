---------------------------- MODULE SinbohaTiming ----------------------------
(***************************************************************************)
(* The three times of Initialize: may a node find its peer silent although *)
(* the peer is alive, and how soon does it find out that the peer is gone? *)
(*                                                                         *)
(* Two nodes with one link each way; time is counted in ticks of any       *)
(* length.  A heartbeat waits for its interval, for the lock of its        *)
(* syncer before and after it, for the lock of its client, which are both  *)
(* kept by a SyncData until its reply or timeout, and for the lock of the  *)
(* repository, which callbacks of the application keep; the handler on the *)
(* other side waits for that node's lock.                                  *)
(*                                                                         *)
(* What is assumed of the surroundings: one thread of each application     *)
(* calls SyncData; a thread that waits for a lock gets it before the next  *)
(* one that asks for it; CallbackTime bounds the callbacks that run before *)
(* a waiting thread gets the lock, together; on the links of the nodes in  *)
(* Steady a call takes RoundTrip and what it waits for the peer, which is  *)
(* less than the timeout, while on the others calls may fail one and all;  *)
(* and what is left of a call that was given up is gone after Delay.       *)
(***************************************************************************)
EXTENDS Integers

CONSTANTS
  Node,            \* the two nodes
  Steady,          \* nodes whose link works
  Heartbeat,       \* the parameters of Initialize, in ticks
  NetworkTimeout,
  SwitchTimeout,
  CheckPeriod,     \* the checker's 100 ms
  RoundTrip,       \* longest way of a request and its reply on a link that works
  CallbackTime,    \* longest time that callbacks keep a waiting thread from the lock
  Delay            \* longest time until a request that was given up is handled or lost

ASSUME TimingAssumption ==
  /\ \E a, b \in Node : a # b /\ Node = {a, b}
  /\ Steady \subseteq Node
  /\ Heartbeat \in Nat /\ NetworkTimeout \in Nat /\ SwitchTimeout \in Nat
  /\ CheckPeriod \in Nat \ {0} /\ RoundTrip \in Nat /\ CallbackTime \in Nat
  /\ Delay \in Nat
  /\ Steady # {} => RoundTrip + 2 * CallbackTime < NetworkTimeout

VARIABLES
  hb,      \* hb[n]: where the heartbeat of n is, and the time left to it
  late,    \* late[n]: how long requests that n has given up may still reach the peer
  busy,    \* busy[n]: time left to the callback that keeps n's repository locked
  data,    \* data[n]: where SyncData of n is, and the time left to its call
  age,     \* age[n]: now - m_PeerLiveTime
  taken,   \* taken[n]: the checker of n has called BrainSplit
  gone     \* gone[n]: time since n crashed, 0 while it is alive

vars == <<hb, late, busy, data, age, taken, gone>>

Peer(n) == CHOOSE m \in Node : m # n
Alive(n) == gone[n] = 0
At(n, pc) == Alive(n) /\ hb[n].pc = pc

(* Ages and times since a crash are counted as far as the properties look. *)
LastSign == IF Delay > NetworkTimeout + CallbackTime THEN Delay ELSE NetworkTimeout + CallbackTime
Latest == SwitchTimeout + LastSign + CheckPeriod + CallbackTime + 1
Longest == Latest + 1
Older(t) == IF t < Longest THEN t + 1 ELSE t
Less(t) == IF t > 0 THEN t - 1 ELSE 0

(***************************************************************************)
(* A heartbeat waits for the syncer's lock, is in wait_for, waits for the  *)
(* syncer's lock again, for the repository's in Query, for the client's;   *)
(* its request is under way or at the peer's lock; the reply is under way  *)
(* or read; the call has failed; or the client connects again.             *)
(***************************************************************************)
Pc == {"start", "wait", "wake", "query", "ask", "sent", "arrived", "answered", "verdict",
       "failed", "reset"}

(* SyncData has the syncer's lock, or the client's too. *)
DataPc == {"idle", "locked", "call"}

(* The one type invariant. *)
TypeOK ==
  /\ hb \in [Node -> [pc : Pc, left : Nat]]
  /\ late \in [Node -> 0 .. Delay]
  /\ busy \in [Node -> 0 .. CallbackTime]
  /\ data \in [Node -> [pc : DataPc, left : Nat]]
  /\ age \in [Node -> 0 .. Longest]
  /\ taken \in [Node -> BOOLEAN]
  /\ gone \in [Node -> 0 .. Longest]

(* Both nodes are connected; the first heartbeat waits for no time. *)
Init ==
  /\ hb = [n \in Node |-> [pc |-> "wait", left |-> 0]]
  /\ late = [n \in Node |-> 0]
  /\ busy = [n \in Node |-> 0]
  /\ data = [n \in Node |-> [pc |-> "idle", left |-> 0]]
  /\ age = [n \in Node |-> 0]
  /\ taken = [n \in Node |-> FALSE]
  /\ gone = [n \in Node |-> 0]

Goto(n, pc, left) == hb' = [hb EXCEPT ![n] = [pc |-> pc, left |-> left]]
DataGoto(n, pc, left) == data' = [data EXCEPT ![n] = [pc |-> pc, left |-> left]]

InCall(n) == At(n, "sent") \/ At(n, "arrived") \/ At(n, "answered")

(* SinbohaSync::m_Lock and SinbohaNetClient::m_Lock of n. *)
SyncerFree(n) == data[n].pc = "idle"
ClientFree(n) == data[n].pc # "call" /\ ~InCall(n) /\ ~At(n, "reset")
-----------------------------------------------------------------------------
(* The lock is taken, and wait_for gives it back for the interval. *)
StartWait(n) ==
  /\ At(n, "start") /\ SyncerFree(n)
  /\ Goto(n, "wait", Heartbeat)
  /\ UNCHANGED <<late, busy, data, age, taken, gone>>

(* The interval is over: wait_for needs the lock again. *)
WaitEnds(n) ==
  /\ At(n, "wait") /\ hb[n].left = 0
  /\ Goto(n, "wake", 0)
  /\ UNCHANGED <<late, busy, data, age, taken, gone>>

(* wait_for returns, and Query needs the repository's lock. *)
Wake(n) ==
  /\ At(n, "wake") /\ SyncerFree(n)
  /\ Goto(n, "query", 0)
  /\ UNCHANGED <<late, busy, data, age, taken, gone>>

(* Query returns, and CanYouActivateMe needs the client's lock. *)
Query(n) ==
  /\ At(n, "query") /\ busy[n] = 0
  /\ Goto(n, "ask", 0)
  /\ UNCHANGED <<late, busy, data, age, taken, gone>>

(* The request is sent; the socket waits for NetworkTimeout. *)
Ask(n) ==
  /\ At(n, "ask") /\ ClientFree(n)
  /\ Goto(n, "sent", NetworkTimeout)
  /\ UNCHANGED <<late, busy, data, age, taken, gone>>

(* The request is with the peer's server thread. *)
Arrive(n) ==
  /\ At(n, "sent") /\ Alive(Peer(n))
  /\ Goto(n, "arrived", hb[n].left)
  /\ UNCHANGED <<late, busy, data, age, taken, gone>>

(* Fault: the handler does not store the time. *)
FaultHandle(n) ==
  /\ At(n, "arrived") /\ Alive(Peer(n)) /\ busy[Peer(n)] = 0
  /\ Goto(n, "answered", hb[n].left)
  /\ UNCHANGED <<late, busy, data, age, taken, gone>>

(* The peer's handler: IfAllowPeerActivate stores the time, under the peer's lock. *)
Handle(n) ==
  /\ At(n, "arrived") /\ Alive(Peer(n)) /\ busy[Peer(n)] = 0
  /\ Goto(n, "answered", hb[n].left)
  /\ age' = [age EXCEPT ![Peer(n)] = 0]
  /\ UNCHANGED <<late, busy, data, taken, gone>>

(* The same for a request that n has given up, of which there may be several. *)
HandleLate(n) ==
  /\ late[n] > 0 /\ Alive(Peer(n)) /\ busy[Peer(n)] = 0
  /\ age' = [age EXCEPT ![Peer(n)] = 0]
  /\ UNCHANGED <<hb, late, busy, data, taken, gone>>

(* The reply is read. *)
Receive(n) ==
  /\ At(n, "answered")
  /\ Goto(n, "verdict", 0)
  /\ UNCHANGED <<late, busy, data, age, taken, gone>>

(* TryActivate stores the time, under the own lock. *)
Apply(n) ==
  /\ At(n, "verdict") /\ busy[n] = 0
  /\ age' = [age EXCEPT ![n] = 0]
  /\ Goto(n, "start", 0)
  /\ UNCHANGED <<late, busy, data, taken, gone>>

(***************************************************************************)
(* On a link that works the request is there, or the reply back, within    *)
(* RoundTrip, and moves on unless the lock of the peer is kept.            *)
(***************************************************************************)
MovesOn(n) ==
  /\ n \in Steady /\ hb[n].left + RoundTrip <= NetworkTimeout
  /\ \/ hb[n].pc = "sent" /\ Alive(Peer(n))
     \/ hb[n].pc = "arrived" /\ Alive(Peer(n)) /\ busy[Peer(n)] = 0
     \/ hb[n].pc = "answered"

Unhandled(n) == At(n, "sent") \/ At(n, "arrived")
GivenUp(n) == late' = [late EXCEPT ![n] = IF Unhandled(n) THEN Delay ELSE @]

(* The call is not answered, and the socket has timed out or the connection is gone. *)
Fails(n) ==
  /\ InCall(n) /\ ~MovesOn(n)
  /\ hb[n].left = 0 \/ n \notin Steady \/ ~Alive(Peer(n))

(* Fault: a failed call counts as a sign of life. *)
FaultFail(n) ==
  /\ Fails(n)
  /\ GivenUp(n)
  /\ age' = [age EXCEPT ![n] = 0]
  /\ Goto(n, "failed", 0)
  /\ UNCHANGED <<busy, data, taken, gone>>

(* CanYouActivateMe returns FAIL; a request the peer has not handled may still be. *)
Fail(n) ==
  /\ Fails(n)
  /\ GivenUp(n)
  /\ Goto(n, "failed", 0)
  /\ UNCHANGED <<busy, data, age, taken, gone>>

(* ReInitialize takes the client's lock again. *)
ReInitialize(n) ==
  /\ At(n, "failed") /\ ClientFree(n)
  /\ Goto(n, "reset", NetworkTimeout)
  /\ UNCHANGED <<late, busy, data, age, taken, gone>>

(* It has connected, or failed to: at once or after NetworkTimeout. *)
Reset(n) ==
  /\ At(n, "reset")
  /\ Goto(n, "start", 0)
  /\ UNCHANGED <<late, busy, data, age, taken, gone>>
-----------------------------------------------------------------------------
(* The checker looks every CheckPeriod, and has seen that the time is too old. *)
Overdue(n) == ~taken[n] /\ age[n] >= SwitchTimeout + CheckPeriod

(* Somebody waits for the lock of n's repository. *)
Awaited(n) == At(Peer(n), "arrived") \/ At(n, "verdict") \/ At(n, "query") \/ Overdue(n)

(* OnStatusChange or OnReceiveData runs with m_Lock held. *)
Callback(n) ==
  /\ Alive(n) /\ busy[n] = 0 /\ ~Awaited(n)
  /\ \E time \in 1 .. CallbackTime : busy' = [busy EXCEPT ![n] = time]
  /\ UNCHANGED <<hb, late, data, age, taken, gone>>

(* SyncData takes the syncer's lock, for which no heartbeat waits at this moment. *)
Waits(n) == At(n, "start") \/ At(n, "wake") \/ At(n, "ask") \/ At(n, "failed")

SyncData(n) ==
  /\ Alive(n) /\ SyncerFree(n) /\ ~Waits(n)
  /\ DataGoto(n, "locked", 0)
  /\ UNCHANGED <<hb, late, busy, age, taken, gone>>

(***************************************************************************)
(* Then it takes the client's, until its reply, for which it waits for the *)
(* lock of the peer and for OnReceiveData there, or until the timeout.     *)
(***************************************************************************)
CallTime(n) == IF n \in Steady THEN RoundTrip + 2 * CallbackTime ELSE NetworkTimeout

SendData(n) ==
  /\ Alive(n) /\ data[n].pc = "locked" /\ ClientFree(n)
  /\ \E time \in 0 .. CallTime(n) : DataGoto(n, "call", time)
  /\ UNCHANGED <<hb, late, busy, age, taken, gone>>

(* It gives both back. *)
DataReturns(n) ==
  /\ Alive(n) /\ data[n].pc = "call" /\ data[n].left = 0
  /\ DataGoto(n, "idle", 0)
  /\ UNCHANGED <<hb, late, busy, age, taken, gone>>

(* The checker finds the time too old; BrainSplit needs the lock. *)
BrainSplit(n) ==
  /\ Alive(n) /\ ~taken[n] /\ age[n] > SwitchTimeout /\ busy[n] = 0
  /\ taken' = [taken EXCEPT ![n] = TRUE]
  /\ UNCHANGED <<hb, late, busy, data, age, gone>>

(* The process of one of the nodes ends with its threads; a request it has sent is given up. *)
Crash(n) ==
  /\ \A m \in Node : Alive(m)
  /\ GivenUp(n)
  /\ gone' = [gone EXCEPT ![n] = 1]
  /\ Goto(n, "wait", 0) /\ DataGoto(n, "idle", 0)
  /\ busy' = [busy EXCEPT ![n] = 0]
  /\ age' = [age EXCEPT ![n] = 0]
  /\ UNCHANGED taken

(***************************************************************************)
(* Time passes unless something is due: a thread that can go on, the end   *)
(* of a call, a message on a link that works, or the checker's next look.  *)
(***************************************************************************)
Due(n) ==
  /\ Alive(n)
  /\ \/ hb[n].pc \in {"wait", "sent", "arrived", "answered", "reset"} /\ hb[n].left = 0
     \/ hb[n].pc \in {"start", "wake"} /\ SyncerFree(n)
     \/ hb[n].pc \in {"query", "verdict"} /\ busy[n] = 0
     \/ (hb[n].pc \in {"ask", "failed"} \/ data[n].pc = "locked") /\ ClientFree(n)
     \/ data[n].pc = "call" /\ data[n].left = 0
     \/ MovesOn(n)
     \/ Overdue(n) /\ busy[n] = 0

Tick ==
  /\ \A n \in Node : ~Due(n)
  /\ hb' = [n \in Node |-> [hb[n] EXCEPT !.left = Less(@)]]
  /\ late' = [n \in Node |-> Less(late[n])]
  /\ busy' = [n \in Node |-> Less(busy[n])]
  /\ data' = [n \in Node |-> [data[n] EXCEPT !.left = Less(@)]]
  /\ age' = [n \in Node |-> IF Alive(n) THEN Older(age[n]) ELSE 0]
  /\ gone' = [n \in Node |-> IF Alive(n) THEN 0 ELSE Older(gone[n])]
  /\ UNCHANGED taken

HeartbeatStep(n) ==
  \/ StartWait(n) \/ WaitEnds(n) \/ Wake(n) \/ Query(n) \/ Ask(n) \/ Arrive(n) \/ Handle(n)
  \/ Receive(n) \/ Apply(n) \/ Fail(n) \/ ReInitialize(n) \/ Reset(n)

Step(n) ==
  \/ HeartbeatStep(n) \/ HandleLate(n)
  \/ SyncData(n) \/ SendData(n) \/ DataReturns(n)
  \/ Callback(n) \/ BrainSplit(n) \/ Crash(n)

Next == Tick \/ \E n \in Node : Step(n)

Spec == Init /\ [][Next]_vars
-----------------------------------------------------------------------------
(***************************************************************************)
(* No false takeover: while both nodes live and the link of one of them    *)
(* works, neither finds the other silent, although callbacks and SyncData  *)
(* keep the locks and the other link loses everything.                     *)
(***************************************************************************)
PeerIsHeard == (\A n \in Node : Alive(n)) => \A n \in Node : age[n] <= SwitchTimeout

(***************************************************************************)
(* The survivor takes over within SwitchTimeout, one period of the checker *)
(* and the callbacks in front of it, counted from the last sign of life of *)
(* the dead node: a request it left behind, within Delay, or its last      *)
(* reply, within the timeout of the call and the callbacks before it is    *)
(* applied.                                                                *)
(***************************************************************************)
TakeoverInTime == \A n \in Node : gone[n] > Latest => taken[Peer(n)]
=============================================================================
