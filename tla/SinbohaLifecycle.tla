-------------------------- MODULE SinbohaLifecycle --------------------------
(***************************************************************************)
(* Initialize and Release of one node, called by one or more threads of    *)
(* the application, over the four workers: the RPC service, the two        *)
(* heartbeats and the brain split checker.  Each worker has a lock, a flag *)
(* m_Quit, and a future of the thread that std::async started.  A future   *)
(* that is overwritten first waits for its thread.                         *)
(*                                                                         *)
(* The service stops with m_Lock held until its thread has ended; the      *)
(* others set m_Quit under the lock and wait without it.  What happens to  *)
(* a syncer's client is in SinbohaChannel.                                 *)
(***************************************************************************)
EXTENDS Naturals, Sequences, Functions

CONSTANTS
  App,           \* threads of the application
  MaxCalls,      \* MaxCalls[t]: bound on the number of calls of thread t
  Missing,       \* the sets of syncers whose address the application may leave empty
  StopMayThrow,  \* whether TThreadedServer::stop may throw
  Throwing       \* workers on whose threads the application's callback may throw

(* The workers in the order of Initialize; Release goes backwards. *)
Order == <<"rpc", "primary", "secondary", "checker">>
Worker == {Order[i] : i \in DOMAIN Order}
Syncer == {"primary", "secondary"}

ASSUME LifecycleAssumption ==
  /\ "free" \notin App /\ MaxCalls \in [App -> Nat] /\ Missing \subseteq SUBSET Syncer
  /\ StopMayThrow \in BOOLEAN /\ Throwing \subseteq Worker

VARIABLES
  quit,        \* quit[w]: m_Quit
  lock,        \* lock[w]: the owner of m_Lock, if it is kept over several steps
  thread,      \* thread[w][g]: where the g-th thread of w is
  future,      \* future[w]: the thread m_Future belongs to, 0 for none
  app,         \* app[t]: where thread t is in Initialize or Release
  calls,       \* calls[t]: number of calls of thread t so far
  last,        \* history: what the last call that returned was
  overlapped,  \* history: two calls were made at the same time
  missed,      \* history: the service was stopped before it listened
  crossed,     \* history: workers started between the two halves of a stop
  thrown,      \* history: stopping the service threw
  killed       \* history: workers whose thread an exception of the callback ended

history == <<last, overlapped, missed, crossed, thrown, killed>>
vars == <<quit, lock, thread, future, app, calls, history>>

(* Where a call is: at Order[at], about to enter Start or Stop, or inside. *)
Place(call, at, pc, empty, on) == [call |-> call, at |-> at, pc |-> pc, empty |-> empty, on |-> on]
Idle == Place("none", 0, "enter", {}, 0)

(***************************************************************************)
(* A thread of a heartbeat or checker is at its loop condition, in         *)
(* wait_for, or at work without the lock.  The thread of the service is at *)
(* its loop condition, inside serve before or after it listens, leaving    *)
(* serve, or asleep after an exception.                                    *)
(***************************************************************************)
ThreadPc == {"loop", "wait", "work", "serve", "listening", "drain", "sleep", "done"}

Init ==
  /\ quit = [w \in Worker |-> TRUE]
  /\ lock = [w \in Worker |-> "free"]
  /\ thread = [w \in Worker |-> <<>>]
  /\ future = [w \in Worker |-> 0]
  /\ app = [t \in App |-> Idle]
  /\ calls = [t \in App |-> 0]
  /\ last = "none"
  /\ overlapped = FALSE /\ missed = FALSE /\ thrown = FALSE
  /\ crossed = {} /\ killed = {}

At(t) == Order[app[t].at]
In(t, call, pc) == app[t].call = call /\ app[t].pc = pc
Live(w) == {g \in DOMAIN thread[w] : thread[w][g] # "done"}

(* m_Future.wait() on the g-th thread would return. *)
Ended(w, g) == g \notin Live(w)
-----------------------------------------------------------------------------
(* The application calls Initialize, with addresses that may be empty, or Release. *)
Call(t) ==
  /\ app[t] = Idle
  /\ calls[t] < MaxCalls[t]
  /\ \/ \E empty \in Missing :
          app' = [app EXCEPT ![t] = Place("Initialize", 1, "enter", empty, 0)]
     \/ app' = [app EXCEPT ![t] = Place("Release", 4, "enter", {}, 0)]
  /\ calls' = [calls EXCEPT ![t] = @ + 1]
  /\ overlapped' = (overlapped \/ \E u \in App \ {t} : app[u] # Idle)
  /\ UNCHANGED <<quit, lock, thread, future, last, missed, crossed, thrown, killed>>

Return(t, result) == app' = [app EXCEPT ![t] = Idle] /\ last' = result

EnterAt(t, i) ==
  /\ app' = [app EXCEPT ![t] = Place(@.call, i, "enter", @.empty, 0)]
  /\ UNCHANGED last

(* Fault: Initialize goes on although a heartbeat or the service did not start. *)
FaultAfterStart(t, ok) ==
  IF At(t) = "checker" THEN Return(t, "started") ELSE EnterAt(t, app[t].at + 1)

(* Initialize gives up when a worker other than the secondary heartbeat fails. *)
AfterStart(t, ok) ==
  IF ~ok /\ At(t) # "secondary" THEN Return(t, "failed")
  ELSE IF At(t) = "checker" THEN Return(t, "started")
  ELSE EnterAt(t, app[t].at + 1)

(* Fault: Release ends when the checker or a heartbeat was not running. *)
FaultAfterStop(t, ok) ==
  IF At(t) = "rpc" \/ ~ok THEN Return(t, "released") ELSE EnterAt(t, app[t].at - 1)

(* Release takes no notice of what Stop returns. *)
AfterStop(t, ok) ==
  IF At(t) = "rpc" THEN Return(t, "released") ELSE EnterAt(t, app[t].at - 1)

(***************************************************************************)
(* Start: an empty address or a running worker is a failure.  Otherwise    *)
(* m_Quit becomes false, the syncer gets a new client, and std::async      *)
(* starts a thread or throws, which makes m_Quit true again.               *)
(***************************************************************************)
StartFails(t) ==
  /\ In(t, "Initialize", "enter")
  /\ \/ At(t) \in app[t].empty
     \/ At(t) \notin app[t].empty /\ lock[At(t)] = "free" /\ ~quit[At(t)]
  /\ AfterStart(t, FALSE)
  /\ UNCHANGED <<quit, lock, thread, future, calls, overlapped, missed, crossed, thrown, killed>>

MayStart(t) ==
  /\ In(t, "Initialize", "enter")
  /\ At(t) \notin app[t].empty
  /\ lock[At(t)] = "free"
  /\ quit[At(t)]

(* A worker is started between the two halves of its stop. *)
Between(w) == \E u \in App : In(u, "Release", "wait") /\ At(u) = w /\ w # "rpc"

StartThrows(t) ==
  /\ MayStart(t)
  /\ AfterStart(t, FALSE)
  /\ crossed' = IF Between(At(t)) THEN crossed \cup {At(t)} ELSE crossed
  /\ UNCHANGED <<quit, lock, thread, future, calls, overlapped, missed, thrown, killed>>

StartLaunches(t) ==
  LET w == At(t) IN
  /\ MayStart(t)
  /\ quit' = [quit EXCEPT ![w] = FALSE]
  /\ lock' = [lock EXCEPT ![w] = t]
  /\ thread' = [thread EXCEPT ![w] = Append(@, IF w \in Syncer THEN "work" ELSE "loop")]
  /\ app' = [app EXCEPT ![t].pc = "assign"]
  /\ crossed' = IF Between(w) THEN crossed \cup {w} ELSE crossed
  /\ UNCHANGED <<future, calls, last, overlapped, missed, thrown, killed>>

(* m_Future is overwritten, which waits for the thread it belonged to. *)
StartAssigns(t) ==
  LET w == At(t) IN
  /\ In(t, "Initialize", "assign")
  /\ Ended(w, future[w])
  /\ future' = [future EXCEPT ![w] = Len(thread[w])]
  /\ lock' = [lock EXCEPT ![w] = "free"]
  /\ AfterStart(t, TRUE)
  /\ UNCHANGED <<quit, thread, calls, overlapped, missed, crossed, thrown, killed>>
-----------------------------------------------------------------------------
(* Stop of a worker that is not running. *)
StopFails(t) ==
  /\ In(t, "Release", "enter")
  /\ lock[At(t)] = "free"
  /\ quit[At(t)]
  /\ AfterStop(t, FALSE)
  /\ UNCHANGED <<quit, lock, thread, future, calls, overlapped, missed, crossed, thrown, killed>>

(* The first half of Stop: m_Quit and notify_one; the service keeps its lock. *)
StopBegins(t) ==
  LET w == At(t) IN
  /\ In(t, "Release", "enter")
  /\ lock[w] = "free"
  /\ ~quit[w]
  /\ quit' = [quit EXCEPT ![w] = TRUE]
  /\ lock' = IF w = "rpc" THEN [lock EXCEPT ![w] = t] ELSE lock
  /\ app' = [app EXCEPT ![t] =
       Place("Release", @.at, IF w = "rpc" THEN "stop" ELSE "wait", @.empty, future[w])]
  /\ UNCHANGED <<thread, future, calls, history>>

(***************************************************************************)
(* m_Server->stop() interrupts a server that listens.  Before the server   *)
(* has made its sockets there is nothing to interrupt.                     *)
(***************************************************************************)
Interrupted(pc) == IF pc = "listening" THEN "drain" ELSE pc

ServerStops(t) ==
  /\ In(t, "Release", "stop")
  /\ thread' = [thread EXCEPT !["rpc"] = [g \in DOMAIN @ |-> Interrupted(@[g])]]
  /\ missed' = (missed \/ \E g \in DOMAIN thread["rpc"] : thread["rpc"][g] = "serve")
  /\ app' = [app EXCEPT ![t].pc = "wait"]
  /\ UNCHANGED <<quit, lock, future, calls, last, overlapped, crossed, thrown, killed>>

(* m_Server->stop() throws: Stop returns with the thread still running. *)
ServerStopThrows(t) ==
  /\ StopMayThrow
  /\ In(t, "Release", "stop")
  /\ thrown' = TRUE
  /\ lock' = [lock EXCEPT !["rpc"] = "free"]
  /\ AfterStop(t, FALSE)
  /\ UNCHANGED <<quit, thread, future, calls, overlapped, missed, crossed, killed>>

(* Fault: Stop does not wait for the thread. *)
FaultStopEnds(t) ==
  LET w == At(t) IN
  /\ In(t, "Release", "wait")
  /\ lock' = IF w = "rpc" THEN [lock EXCEPT ![w] = "free"] ELSE lock
  /\ AfterStop(t, TRUE)
  /\ UNCHANGED <<quit, thread, future, calls, overlapped, missed, crossed, thrown, killed>>

(* The second half of Stop: the thread has ended, and the client is released. *)
StopEnds(t) ==
  LET w == At(t) IN
  /\ In(t, "Release", "wait")
  /\ Ended(w, app[t].on)
  /\ lock' = IF w = "rpc" THEN [lock EXCEPT ![w] = "free"] ELSE lock
  /\ AfterStop(t, TRUE)
  /\ UNCHANGED <<quit, thread, future, calls, overlapped, missed, crossed, thrown, killed>>

(* m_Future was overwritten before wait read it: the wait is for the new thread. *)
StopSeesNewFuture(t) ==
  /\ In(t, "Release", "wait")
  /\ app[t].on # future[At(t)]
  /\ app' = [app EXCEPT ![t].on = future[At(t)]]
  /\ UNCHANGED <<quit, lock, thread, future, calls, history>>
-----------------------------------------------------------------------------
MoveTo(w, g, pc) == thread' = [thread EXCEPT ![w][g] = pc]
Threads == <<quit, lock, future, app, calls, history>>

(* Fault: while (true). *)
FaultLoopCondition(w, g) ==
  /\ thread[w][g] = "loop"
  /\ MoveTo(w, g, IF w = "rpc" THEN "serve" ELSE "wait")
  /\ UNCHANGED Threads

(* while (!m_Quit.load()) *)
LoopCondition(w, g) ==
  /\ thread[w][g] = "loop"
  /\ MoveTo(w, g, IF quit[w] THEN "done" ELSE IF w = "rpc" THEN "serve" ELSE "wait")
  /\ UNCHANGED Threads

(* wait_for ends, with the lock: by m_Quit or by the timeout. *)
WaitFor(w, g) ==
  /\ thread[w][g] = "wait"
  /\ lock[w] = "free"
  /\ MoveTo(w, g, IF quit[w] THEN "done" ELSE "work")
  /\ UNCHANGED Threads

(* The client is initialized or used, the check is made. *)
Work(w, g) ==
  /\ thread[w][g] = "work"
  /\ MoveTo(w, g, "loop")
  /\ UNCHANGED Threads

(***************************************************************************)
(* The callback throws out of TryActivate or BrainSplit: the exception     *)
(* ends the thread and stays in the future, and m_Quit is still false.     *)
(***************************************************************************)
WorkThrows(w, g) ==
  /\ w \in Throwing
  /\ thread[w][g] = "work"
  /\ MoveTo(w, g, "done")
  /\ killed' = killed \cup {w}
  /\ UNCHANGED <<quit, lock, future, app, calls, last, overlapped, missed, crossed, thrown>>

(* serve() listens, or throws because it cannot bind. *)
Serve(w, g) ==
  /\ thread[w][g] = "serve"
  /\ MoveTo(w, g, "listening") \/ MoveTo(w, g, "sleep")
  /\ UNCHANGED Threads

(* serve() returns after its clients are gone; the sleep is over. *)
ServeEnds(w, g) ==
  /\ thread[w][g] \in {"drain", "sleep"}
  /\ MoveTo(w, g, "loop")
  /\ UNCHANGED Threads

ThreadStep(w) ==
  \E g \in DOMAIN thread[w] :
    \/ LoopCondition(w, g) \/ WaitFor(w, g) \/ Work(w, g) \/ WorkThrows(w, g)
    \/ Serve(w, g) \/ ServeEnds(w, g)

CallStep(t) ==
  \/ StartFails(t) \/ StartThrows(t) \/ StartLaunches(t) \/ StartAssigns(t)
  \/ StopFails(t) \/ StopBegins(t) \/ ServerStops(t) \/ ServerStopThrows(t)
  \/ StopEnds(t) \/ StopSeesNewFuture(t)

Next ==
  \/ \E t \in App : Call(t) \/ CallStep(t)
  \/ \E w \in Worker : ThreadStep(w)

Spec == Init /\ [][Next]_vars

(* A bound on the number of threads a worker had. *)
Most == FoldFunction(+, 0, MaxCalls)

(* Threads that can run do run, each of the old and the new ones. *)
Fairness ==
  /\ \A t \in App : WF_vars(CallStep(t))
  /\ \A w \in Worker, g \in 1 .. Most :
       WF_vars(g \in DOMAIN thread[w] /\
         (LoopCondition(w, g) \/ WaitFor(w, g) \/ Work(w, g) \/ Serve(w, g) \/ ServeEnds(w, g)))

FairSpec == Spec /\ Fairness
-----------------------------------------------------------------------------
Quiet == \A t \in App : app[t] = Idle

(***************************************************************************)
(* When calls do not overlap, nothing runs after Release has returned, be  *)
(* it after an Initialize that succeeded, one that failed half way, or     *)
(* none, and everything that can be started again can.                     *)
(***************************************************************************)
ReleaseStopsAll ==
  (~overlapped /\ ~thrown /\ Quiet /\ last = "released") =>
    \A w \in Worker : quit[w] /\ Live(w) = {} /\ lock[w] = "free"

(***************************************************************************)
(* When calls do not overlap and Initialize returned OK, service, primary  *)
(* heartbeat and checker run, each on one thread that m_Future belongs to, *)
(* unless a callback threw.                                                *)
(***************************************************************************)
StartedRuns ==
  (~overlapped /\ ~thrown /\ Quiet /\ last = "started") =>
    \A w \in Worker \ {"secondary"} :
      ~quit[w] /\ (w \in killed \/ Live(w) = {future[w]})

(***************************************************************************)
(* The parameters Start writes before it takes the lock are never those of *)
(* a running worker: when calls do not overlap, the running service makes  *)
(* Initialize fail before it comes to the others.                          *)
(***************************************************************************)
NoOverwrite ==
  ~overlapped /\ ~thrown =>
    \A t \in App : (In(t, "Initialize", "enter") /\ At(t) # "rpc") =>
      quit[At(t)] /\ Live(At(t)) = {}

(***************************************************************************)
(* However calls overlap, the service never has two threads: it keeps its  *)
(* lock while it stops.  The other workers have two only after a start     *)
(* between the two halves of a stop.                                       *)
(***************************************************************************)
OneThread ==
  \A w \in Worker :
    (\E g, h \in Live(w) : g # h) => w \in crossed \/ (w = "rpc" /\ thrown)

(***************************************************************************)
(* Every Initialize and Release returns, except after a stop that came     *)
(* before the service listened, a start between the halves of a stop, or   *)
(* an exception of stop.                                                   *)
(***************************************************************************)
CallsReturn ==
  \A t \in App :
    app[t] # Idle ~> (app[t] = Idle \/ missed \/ crossed # {} \/ thrown)

(***************************************************************************)
(* Release returns, and the sample program can end.                        *)
(***************************************************************************)
ReleaseReturns == \A t \in App : app[t].call = "Release" ~> app[t] = Idle
=============================================================================
