------------------------ MODULE SinbohaLifecycle_proofs ------------------------
(***************************************************************************)
(* Proofs about SinbohaLifecycle, for any threads of the application and   *)
(* any number of calls.  What holds however calls overlap is said worker   *)
(* by worker (Kept); what calls one after the other achieve rests on it    *)
(* and on the order of Initialize and Release (Sequential).                *)
(***************************************************************************)
EXTENDS SinbohaLifecycle, SequenceTheorems, TLAPS

Calls == [call : {"none", "Initialize", "Release"}, at : 0 .. 4,
          pc : {"enter", "assign", "stop", "wait"}, empty : SUBSET Syncer, on : Nat]

(* Where the variables the proofs speak of take their values. *)
TypeOK ==
  /\ quit \in [Worker -> BOOLEAN]
  /\ lock \in [Worker -> App \cup {"free"}]
  /\ thread \in [Worker -> Seq(ThreadPc)]
  /\ future \in [Worker -> Nat]
  /\ app \in [App -> Calls]
  /\ \A t \in App : app[t].call = "none" => app[t] = Idle
  /\ \A t \in App : app[t].call # "none" => app[t].at \in 1 .. 4
  /\ \A t \in App : In(t, "Release", "stop") => At(t) = "rpc"

(* Thread t is between the launch of a thread of w and the assignment of m_Future. *)
Starting(t, w) == In(t, "Initialize", "assign") /\ At(t) = w

(* Thread t is between the two halves of a stop of w. *)
Halting(t, w) == (In(t, "Release", "stop") \/ In(t, "Release", "wait")) /\ At(t) = w

(* A lock that is kept over several steps has its owner. *)
Owned ==
  \A w \in Worker : lock[w] # "free" =>
    Starting(lock[w], w) \/ (w = "rpc" /\ Halting(lock[w], w))

(* The cases in which a worker may have two threads. *)
Exempt(w) == w \in crossed \/ (w = "rpc" /\ thrown)

(***************************************************************************)
(* How m_Quit, m_Lock, m_Future and the threads of a worker fit together.  *)
(***************************************************************************)
WhileStarting(w) ==
  \A t \in App : Starting(t, w) =>
    /\ lock[w] = t /\ ~quit[w]
    /\ Live(w) \subseteq {Len(thread[w])}
    /\ w \in killed \/ Len(thread[w]) \in Live(w)

WhileHalting(w) ==
  \A t \in App : Halting(t, w) =>
    /\ quit[w] /\ app[t].on = future[w]
    /\ lock[w] = IF w = "rpc" THEN t ELSE "free"

OnlyFuture(w) ==
  (\A t \in App : ~Starting(t, w)) =>
    /\ Live(w) \subseteq {future[w]}
    /\ quit[w] \/ w \in killed \/ future[w] \in Live(w)

Stopped(w) ==
  quit[w] /\ lock[w] = "free" /\ (\A t \in App : ~Halting(t, w)) => Live(w) = {}

Kept(w) ==
  ~Exempt(w) => WhileStarting(w) /\ WhileHalting(w) /\ OnlyFuture(w) /\ Stopped(w)

(* Calls that do not overlap: at most one is under way. *)
Solo ==
  ~overlapped =>
    /\ \A t, u \in App : app[t] # Idle /\ app[u] # Idle => t = u
    /\ crossed = {}

(* Release comes from above: the workers it has left are stopped. *)
Releasing(t) ==
  app[t].call = "Release" =>
    \A j \in 1 .. 4 : j > app[t].at => quit[Order[j]] /\ Live(Order[j]) = {}

(* Initialize comes from below: those before it run, those after it do not. *)
Initializing(t) ==
  app[t].call = "Initialize" =>
    /\ app[t].at > 1 \/ app[t].pc = "assign" =>
         \A j \in 2 .. 4 : j > app[t].at \/ (j = app[t].at /\ app[t].pc = "enter") => quit[Order[j]]
    /\ \A j \in 1 .. 4 : j < app[t].at /\ j # 3 => ~quit[Order[j]]

(* The service is started first and stopped last. *)
ServiceFrames == quit["rpc"] => \A w \in Worker : quit[w]

(* What the last call that returned has left behind. *)
Returned ==
  /\ Quiet /\ last = "released" => \A w \in Worker : quit[w] /\ Live(w) = {}
  /\ Quiet /\ last = "started" => \A w \in Worker \ {"secondary"} : ~quit[w]

Sequential ==
  ~overlapped /\ ~thrown =>
    ServiceFrames /\ Returned /\ \A t \in App : Releasing(t) /\ Initializing(t)

(* The inductive invariant. *)
Inv == TypeOK /\ Owned /\ (\A w \in Worker : Kept(w)) /\ Solo /\ Sequential
-----------------------------------------------------------------------------
(* The four workers and their order. *)
LEMMA OrderFacts ==
  /\ Worker = {"rpc", "primary", "secondary", "checker"}
  /\ Order[1] = "rpc" /\ Order[2] = "primary" /\ Order[3] = "secondary" /\ Order[4] = "checker"
  /\ \A i \in 1 .. 4 : Order[i] \in Worker
<1>1. DOMAIN Order = 1 .. 4
  BY DEF Order
<1>2. Order[1] = "rpc" /\ Order[2] = "primary" /\ Order[3] = "secondary" /\ Order[4] = "checker"
  BY DEF Order
<1>3. 1 .. 4 = {1, 2, 3, 4}
  OBVIOUS
<1>4. Worker = {"rpc", "primary", "secondary", "checker"}
  BY <1>1, <1>2, <1>3 DEF Worker
<1> QED
  BY <1>1, <1>2, <1>4 DEF Worker

(* The place of a call is a worker. *)
LEMMA AtFacts ==
  ASSUME TypeOK, NEW t \in App, app[t].call # "none"
  PROVE  At(t) \in Worker /\ app[t].at \in 1 .. 4
  BY OrderFacts DEF TypeOK, At

(* A call that ends is idle; one that goes on enters the next worker; the others stay. *)
LEMMA AfterFacts ==
  ASSUME TypeOK, NEW t \in App, app[t].call # "none", NEW ok \in BOOLEAN,
         \/ AfterStart(t, ok) /\ app[t].call = "Initialize"
         \/ AfterStop(t, ok) /\ app[t].call = "Release"
  PROVE  /\ app' \in [App -> Calls]
         /\ \A u \in App \ {t} : app'[u] = app[u]
         /\ app'[t] = Idle \/ (/\ app'[t].call = app[t].call /\ app'[t].pc = "enter"
                               /\ app'[t].at \in 1 .. 4 /\ UNCHANGED last)
<1>1. Idle \in Calls /\ Idle.call = "none"
  BY DEF Idle, Place, Calls
<1>2. app[t].at \in 1 .. 4 /\ At(t) = Order[app[t].at] /\ app[t] \in Calls
  BY AtFacts DEF At, TypeOK
<1>3. ASSUME NEW result, Return(t, result)
      PROVE  app' \in [App -> Calls] /\ app'[t] = Idle /\ \A u \in App \ {t} : app'[u] = app[u]
  BY <1>1, <1>3 DEF Return, TypeOK
<1>4. ASSUME NEW i \in 1 .. 4, EnterAt(t, i)
      PROVE  /\ app' \in [App -> Calls] /\ \A u \in App \ {t} : app'[u] = app[u]
             /\ app'[t].call = app[t].call /\ app'[t].pc = "enter" /\ app'[t].at = i
             /\ UNCHANGED last
  <2>1. app'[t] = Place(app[t].call, i, "enter", app[t].empty, 0)
    BY <1>4 DEF EnterAt, TypeOK
  <2>2. app'[t] \in Calls /\ app'[t].call = app[t].call /\ app'[t].pc = "enter" /\ app'[t].at = i
    BY <1>2, <1>4, <2>1 DEF Calls, Place
  <2>3. DOMAIN app' = App /\ \A u \in App \ {t} : app'[u] = app[u]
    BY <1>4 DEF EnterAt, TypeOK
  <2>4. app' = [u \in App |-> app'[u]]
    BY <1>4 DEF EnterAt, TypeOK
  <2> QED
    BY <1>4, <2>2, <2>3, <2>4 DEF EnterAt, TypeOK
<1>5. At(t) # "checker" => app[t].at + 1 \in 1 .. 4
  BY <1>2, OrderFacts
<1>6. At(t) # "rpc" => app[t].at - 1 \in 1 .. 4
  BY <1>2, OrderFacts
<1>7. CASE AfterStart(t, ok)
  BY <1>3, <1>4, <1>5, <1>7 DEF AfterStart
<1>8. CASE AfterStop(t, ok)
  BY <1>3, <1>4, <1>6, <1>8 DEF AfterStop
<1> QED
  BY <1>7, <1>8

(* A thread that goes on: none comes to life, and one ends only when told to or killed. *)
LEMMA ThreadFacts ==
  ASSUME TypeOK, NEW v \in Worker, ThreadStep(v)
  PROVE  /\ UNCHANGED <<quit, lock, future, app, calls, last, overlapped, missed, crossed, thrown>>
         /\ thread' \in [Worker -> Seq(ThreadPc)]
         /\ killed \subseteq killed'
         /\ \A w \in Worker : /\ Len(thread'[w]) = Len(thread[w])
                              /\ Live(w)' \subseteq Live(w)
                              /\ quit[w] \/ w \in killed' \/ Live(w)' = Live(w)
<1>1. PICK g \in DOMAIN thread[v] :
        \/ LoopCondition(v, g) \/ WaitFor(v, g) \/ Work(v, g) \/ WorkThrows(v, g)
        \/ Serve(v, g) \/ ServeEnds(v, g)
  BY DEF ThreadStep
<1>2. /\ UNCHANGED <<quit, lock, future, app, calls, last, overlapped, missed, crossed, thrown>>
      /\ killed \subseteq killed'
  BY <1>1 DEF LoopCondition, WaitFor, Work, WorkThrows, Serve, ServeEnds, Threads, history
<1>3. PICK pc \in ThreadPc : /\ MoveTo(v, g, pc) /\ thread[v][g] # "done"
                             /\ pc = "done" => quit[v] \/ v \in killed'
  BY <1>1 DEF LoopCondition, WaitFor, Work, WorkThrows, Serve, ServeEnds, ThreadPc
<1>4. /\ thread[v] \in Seq(ThreadPc) /\ thread'[v] = [thread[v] EXCEPT ![g] = pc]
      /\ \A w \in Worker \ {v} : thread'[w] = thread[w]
      /\ thread' = [w \in Worker |-> thread'[w]]
  BY <1>3 DEF MoveTo, TypeOK
<1>5. /\ thread'[v] \in Seq(ThreadPc) /\ Len(thread'[v]) = Len(thread[v])
      /\ DOMAIN thread'[v] = DOMAIN thread[v] /\ thread'[v][g] = pc
      /\ \A h \in DOMAIN thread[v] \ {g} : thread'[v][h] = thread[v][h]
  BY <1>1, <1>3, <1>4, ExceptSeq
<1>6. Live(v)' \subseteq Live(v) /\ (pc # "done" => Live(v)' = Live(v))
  BY <1>3, <1>5 DEF Live
<1>7. \A w \in Worker \ {v} : Live(w)' = Live(w)
  BY <1>4 DEF Live
<1>8. thread' \in [Worker -> Seq(ThreadPc)]
  BY <1>4, <1>5 DEF TypeOK
<1> QED
  BY <1>2, <1>3, <1>4, <1>5, <1>6, <1>7, <1>8

(* stop() of the server ends no thread. *)
LEMMA ServerStopsFacts ==
  ASSUME TypeOK, NEW t \in App, ServerStops(t)
  PROVE  /\ thread' \in [Worker -> Seq(ThreadPc)]
         /\ \A w \in Worker : Live(w)' = Live(w) /\ Len(thread'[w]) = Len(thread[w])
         /\ app' \in [App -> Calls] /\ \A u \in App \ {t} : app'[u] = app[u]
         /\ app'[t].call = app[t].call /\ app'[t].at = app[t].at /\ app'[t].pc = "wait"
         /\ app'[t].on = app[t].on
<1>1. "rpc" \in Worker
  BY OrderFacts
<1>2. /\ thread'["rpc"] = [g \in DOMAIN thread["rpc"] |-> Interrupted(thread["rpc"][g])]
      /\ \A w \in Worker \ {"rpc"} : thread'[w] = thread[w]
      /\ thread' = [w \in Worker |-> thread'[w]]
  BY <1>1 DEF ServerStops, TypeOK
<1>3. thread["rpc"] \in Seq(ThreadPc) /\ Len(thread["rpc"]) \in Nat
      /\ DOMAIN thread["rpc"] = 1 .. Len(thread["rpc"])
      /\ \A g \in DOMAIN thread["rpc"] : Interrupted(thread["rpc"][g]) \in ThreadPc
  BY <1>1 DEF TypeOK, Interrupted, ThreadPc
<1>4. thread'["rpc"] \in Seq(ThreadPc) /\ Len(thread'["rpc"]) = Len(thread["rpc"])
  BY <1>2, <1>3
<1>5. Live("rpc")' = Live("rpc")
  BY <1>2, <1>3 DEF Live, Interrupted
<1>6. \A w \in Worker \ {"rpc"} : Live(w)' = Live(w)
  BY <1>2 DEF Live
<1>7. thread' \in [Worker -> Seq(ThreadPc)]
  BY <1>2, <1>4 DEF TypeOK
<1>8. /\ app' \in [App -> Calls] /\ \A u \in App \ {t} : app'[u] = app[u]
      /\ app'[t].call = app[t].call /\ app'[t].at = app[t].at /\ app'[t].pc = "wait"
      /\ app'[t].on = app[t].on
  BY DEF ServerStops, TypeOK, Calls
<1> QED
  BY <1>2, <1>4, <1>5, <1>6, <1>7, <1>8

(* std::async starts one more thread of the worker. *)
LEMMA LaunchFacts ==
  ASSUME TypeOK, NEW t \in App, StartLaunches(t)
  PROVE  /\ At(t) \in Worker /\ app[t].call = "Initialize" /\ app[t].pc = "enter"
         /\ thread' \in [Worker -> Seq(ThreadPc)]
         /\ Len(thread'[At(t)]) = Len(thread[At(t)]) + 1
         /\ \A w \in Worker : w = At(t) => Live(w)' = Live(w) \cup {Len(thread[w]) + 1}
         /\ \A w \in Worker \ {At(t)} : thread'[w] = thread[w]
         /\ app' \in [App -> Calls] /\ \A u \in App \ {t} : app'[u] = app[u]
         /\ app'[t].call = "Initialize" /\ app'[t].at = app[t].at /\ app'[t].pc = "assign"
<1>1. At(t) \in Worker /\ app[t].call = "Initialize" /\ app[t].pc = "enter"
  BY AtFacts DEF StartLaunches, MayStart, In
<1>2. PICK pc \in ThreadPc : pc # "done" /\ thread' = [thread EXCEPT ![At(t)] = Append(@, pc)]
  BY DEF StartLaunches, ThreadPc
<1>3. thread[At(t)] \in Seq(ThreadPc)
  BY <1>1 DEF TypeOK
<1>4. /\ thread'[At(t)] = Append(thread[At(t)], pc)
      /\ \A w \in Worker \ {At(t)} : thread'[w] = thread[w]
      /\ thread' = [w \in Worker |-> thread'[w]]
  BY <1>1, <1>2 DEF TypeOK
<1>5. /\ Append(thread[At(t)], pc) \in Seq(ThreadPc)
      /\ Len(Append(thread[At(t)], pc)) = Len(thread[At(t)]) + 1
      /\ DOMAIN Append(thread[At(t)], pc) = 1 .. Len(thread[At(t)]) + 1
      /\ DOMAIN thread[At(t)] = 1 .. Len(thread[At(t)]) /\ Len(thread[At(t)]) \in Nat
      /\ \A g \in 1 .. Len(thread[At(t)]) : Append(thread[At(t)], pc)[g] = thread[At(t)][g]
      /\ Append(thread[At(t)], pc)[Len(thread[At(t)]) + 1] = pc
  BY <1>3
<1> DEFINE v == At(t)
           k == Len(thread[v]) + 1
<1>6. {g \in DOMAIN thread'[v] : thread'[v][g] # "done"} = Live(v) \cup {k}
  BY <1>2, <1>4, <1>5 DEF Live
<1>7. /\ app' \in [App -> Calls] /\ \A u \in App \ {t} : app'[u] = app[u]
      /\ app'[t].call = "Initialize" /\ app'[t].at = app[t].at /\ app'[t].pc = "assign"
  BY <1>1 DEF StartLaunches, TypeOK, Calls
<1>8. thread' \in [Worker -> Seq(ThreadPc)]
  BY <1>4, <1>5 DEF TypeOK
<1>9. ASSUME NEW w \in Worker, w = At(t) PROVE Live(w)' = Live(w) \cup {Len(thread[w]) + 1}
  BY <1>6, <1>9 DEF Live
<1> QED
  BY <1>1, <1>4, <1>5, <1>7, <1>8, <1>9

(* The first half of a stop: the call will wait for m_Future. *)
LEMMA StopBeginsFacts ==
  ASSUME TypeOK, NEW t \in App, StopBegins(t)
  PROVE  /\ At(t) \in Worker /\ app[t].call = "Release" /\ app[t].pc = "enter"
         /\ app' \in [App -> Calls] /\ \A u \in App \ {t} : app'[u] = app[u]
         /\ app'[t].call = "Release" /\ app'[t].at = app[t].at
         /\ app'[t].pc = IF At(t) = "rpc" THEN "stop" ELSE "wait"
         /\ app'[t].on = future[At(t)]
<1>1. At(t) \in Worker /\ app[t].call = "Release" /\ app[t].pc = "enter" /\ app[t] \in Calls
  BY AtFacts DEF StopBegins, In, TypeOK
<1>2. future[At(t)] \in Nat
  BY <1>1 DEF TypeOK
<1>3. app'[t] = Place("Release", app[t].at, IF At(t) = "rpc" THEN "stop" ELSE "wait",
                      app[t].empty, future[At(t)])
  BY DEF StopBegins, TypeOK
<1>4. app'[t] \in Calls
  BY <1>1, <1>2, <1>3 DEF Place, Calls
<1>5. app' = [u \in App |-> app'[u]] /\ \A u \in App \ {t} : app'[u] = app[u]
  BY DEF StopBegins, TypeOK
<1>6. app' \in [App -> Calls]
  <2>1. \A u \in App : app[u] \in Calls
    BY DEF TypeOK
  <2> QED
    BY <1>4, <1>5, <2>1
<1>7. /\ app'[t].call = "Release" /\ app'[t].at = app[t].at /\ app'[t].on = future[At(t)]
      /\ app'[t].pc = IF At(t) = "rpc" THEN "stop" ELSE "wait"
  BY <1>3 DEF Place
<1> QED
  BY <1>1, <1>5, <1>6, <1>7

(* A call begins. *)
LEMMA CallFacts ==
  ASSUME TypeOK, NEW t \in App, Call(t)
  PROVE  /\ app[t] = Idle /\ app[t].call = "none"
         /\ app' \in [App -> Calls] /\ \A u \in App \ {t} : app'[u] = app[u]
         /\ app'[t].pc = "enter"
         /\ \/ app'[t].call = "Initialize" /\ app'[t].at = 1
            \/ app'[t].call = "Release" /\ app'[t].at = 4
         /\ UNCHANGED <<quit, lock, thread, future, last, missed, crossed, thrown, killed>>
<1>1. app[t] = Idle /\ UNCHANGED <<quit, lock, thread, future, last, missed, crossed, thrown, killed>>
  BY DEF Call
<1>2. PICK c \in Calls : /\ c.pc = "enter" /\ app' = [app EXCEPT ![t] = c]
                         /\ \/ c.call = "Initialize" /\ c.at = 1
                            \/ c.call = "Release" /\ c.at = 4
  <2>1. /\ Place("Release", 4, "enter", {}, 0) \in Calls
        /\ Place("Release", 4, "enter", {}, 0).pc = "enter"
        /\ Place("Release", 4, "enter", {}, 0).call = "Release"
        /\ Place("Release", 4, "enter", {}, 0).at = 4
    BY DEF Place, Calls
  <2>2. ASSUME NEW empty \in Missing, app' = [app EXCEPT ![t] = Place("Initialize", 1, "enter", empty, 0)]
        PROVE  /\ Place("Initialize", 1, "enter", empty, 0) \in Calls
               /\ Place("Initialize", 1, "enter", empty, 0).pc = "enter"
               /\ Place("Initialize", 1, "enter", empty, 0).call = "Initialize"
               /\ Place("Initialize", 1, "enter", empty, 0).at = 1
    BY <2>2, LifecycleAssumption DEF Place, Calls
  <2> QED
    BY <2>1, <2>2 DEF Call
<1>3. app'[t] = c /\ app' \in [App -> Calls] /\ \A u \in App \ {t} : app'[u] = app[u]
  BY <1>2 DEF TypeOK
<1> QED
  BY <1>1, <1>2, <1>3 DEF Idle, Place

(* The wait of a stop goes over to the thread that m_Future belongs to now. *)
LEMMA NewFutureFacts ==
  ASSUME TypeOK, NEW t \in App, StopSeesNewFuture(t)
  PROVE  /\ At(t) \in Worker /\ app[t].call = "Release" /\ app[t].pc = "wait"
         /\ app' \in [App -> Calls] /\ \A u \in App \ {t} : app'[u] = app[u]
         /\ app'[t].call = app[t].call /\ app'[t].at = app[t].at /\ app'[t].pc = "wait"
         /\ app'[t].on = future[At(t)]
<1>1. At(t) \in Worker /\ app[t].call = "Release" /\ app[t].pc = "wait"
  BY AtFacts DEF StopSeesNewFuture, In
<1>2. future[At(t)] \in Nat
  BY <1>1 DEF TypeOK
<1> QED
  BY <1>1, <1>2 DEF StopSeesNewFuture, TypeOK, Calls

(* A call is over or goes on to the next worker, in one of six ways. *)
Leaves(t) ==
  StartFails(t) \/ StartThrows(t) \/ StartAssigns(t) \/ StopFails(t) \/ StopEnds(t) \/ ServerStopThrows(t)

LEMMA LeavesFacts ==
  ASSUME TypeOK, NEW t \in App, Leaves(t)
  PROVE  /\ At(t) \in Worker /\ app[t].at \in 1 .. 4
         /\ app[t].call \in {"Initialize", "Release"}
         /\ app' \in [App -> Calls]
         /\ \A u \in App \ {t} : app'[u] = app[u]
         /\ app'[t] = Idle \/ (/\ app'[t].call = app[t].call /\ app'[t].pc = "enter"
                               /\ app'[t].at \in 1 .. 4 /\ UNCHANGED last)
         /\ UNCHANGED <<quit, thread, overlapped, killed>>
<1>1. app[t].call = "Initialize" \/ app[t].call = "Release"
  BY DEF Leaves, StartFails, StartThrows, MayStart, StartAssigns, StopFails, StopEnds,
     ServerStopThrows, In
<1>2. \E ok \in BOOLEAN : \/ AfterStart(t, ok) /\ app[t].call = "Initialize"
                          \/ AfterStop(t, ok) /\ app[t].call = "Release"
  BY DEF Leaves, StartFails, StartThrows, MayStart, StartAssigns, StopFails, StopEnds,
     ServerStopThrows, In
<1>3. UNCHANGED <<quit, thread, overlapped, killed>>
  BY DEF Leaves, StartFails, StartThrows, StartAssigns, StopFails, StopEnds, ServerStopThrows
<1> QED
  BY <1>1, <1>2, <1>3, AfterFacts, AtFacts

(* Every step of a call, sorted by what it does to its caller. *)
LEMMA CallSteps ==
  ASSUME NEW t \in App, CallStep(t)
  PROVE  Leaves(t) \/ StartLaunches(t) \/ StopBegins(t) \/ ServerStops(t) \/ StopSeesNewFuture(t)
  BY DEF CallStep, Leaves

LEMMA TypeStep == TypeOK /\ [Next]_vars => TypeOK'
<1> SUFFICES ASSUME TypeOK, [Next]_vars
             PROVE  TypeOK'
  OBVIOUS
<1> DEFINE CallOK(t) == /\ app[t].call = "none" => app[t] = Idle
                        /\ app[t].call # "none" => app[t].at \in 1 .. 4
                        /\ In(t, "Release", "stop") => At(t) = "rpc"
<1>i. Idle.call = "none" /\ Idle.pc = "enter"
  BY DEF Idle, Place
<1>a. ASSUME NEW t \in App, \A u \in App \ {t} : app'[u] = app[u], CallOK(t)' PROVE \A u \in App : CallOK(u)'
  BY <1>a DEF TypeOK, In, At
<1>b. ASSUME NEW w \in Worker, NEW b \in BOOLEAN, quit' = [quit EXCEPT ![w] = b]
      PROVE  quit' \in [Worker -> BOOLEAN]
  BY <1>b DEF TypeOK
<1>1. ASSUME NEW t \in App, Leaves(t) PROVE TypeOK'
  <2>1. lock' \in [Worker -> App \cup {"free"}]
    BY <1>1, OrderFacts DEF Leaves, StartFails, StartThrows, StartAssigns, StopFails, StopEnds,
       ServerStopThrows, TypeOK
  <2>2. future' \in [Worker -> Nat]
    <3>1. \A w \in Worker : Len(thread[w]) \in Nat
      BY DEF TypeOK
    <3>2. CASE StartAssigns(t)
      <4>1. future' = [future EXCEPT ![At(t)] = Len(thread[At(t)])] /\ At(t) \in Worker
        BY <1>1, <3>2, LeavesFacts DEF StartAssigns
      <4> QED
        BY <3>1, <4>1 DEF TypeOK
    <3>3. CASE ~StartAssigns(t)
      BY <1>1, <3>3 DEF Leaves, StartFails, StartThrows, StopFails, StopEnds, ServerStopThrows, TypeOK
    <3> QED
      BY <3>2, <3>3
  <2>3. CallOK(t)'
    BY <1>1, <1>i, LeavesFacts DEF In
  <2>4. \A u \in App : CallOK(u)'
    BY <1>1, <1>a, <2>3, LeavesFacts
  <2> QED
    BY <1>1, <2>1, <2>2, <2>4, LeavesFacts DEF TypeOK
<1>2. ASSUME NEW t \in App, StartLaunches(t) PROVE TypeOK'
  <2>1. quit' \in [Worker -> BOOLEAN]
    BY <1>b, <1>2, LaunchFacts DEF StartLaunches
  <2>2. lock' \in [Worker -> App \cup {"free"}] /\ UNCHANGED future
    BY <1>2 DEF StartLaunches, TypeOK
  <2>3. CallOK(t)'
    BY <1>2, LaunchFacts, AtFacts DEF In
  <2>4. \A u \in App : CallOK(u)'
    BY <1>2, <1>a, <2>3, LaunchFacts
  <2> QED
    BY <1>2, <2>1, <2>2, <2>4, LaunchFacts DEF TypeOK
<1>3. ASSUME NEW t \in App, StopBegins(t) PROVE TypeOK'
  <2>1. quit' \in [Worker -> BOOLEAN]
    BY <1>b, <1>3, StopBeginsFacts DEF StopBegins
  <2>2. lock' \in [Worker -> App \cup {"free"}] /\ UNCHANGED <<thread, future>>
    BY <1>3 DEF StopBegins, TypeOK
  <2>3. CallOK(t)'
    BY <1>3, StopBeginsFacts, AtFacts DEF In, At
  <2>4. \A u \in App : CallOK(u)'
    BY <1>3, <1>a, <2>3, StopBeginsFacts
  <2> QED
    BY <1>3, <2>1, <2>2, <2>4, StopBeginsFacts DEF TypeOK
<1>4. ASSUME NEW t \in App, ServerStops(t) PROVE TypeOK'
  <2>1. app[t].call = "Release" /\ UNCHANGED <<quit, lock, future>>
    BY <1>4 DEF ServerStops, In
  <2>2. CallOK(t)'
    BY <1>4, <2>1, ServerStopsFacts, AtFacts DEF In
  <2>3. \A u \in App : CallOK(u)'
    BY <1>4, <1>a, <2>2, ServerStopsFacts
  <2> QED
    BY <1>4, <2>1, <2>3, ServerStopsFacts DEF TypeOK
<1>5. ASSUME NEW t \in App, StopSeesNewFuture(t) PROVE TypeOK'
  <2>1. CallOK(t)' /\ UNCHANGED <<quit, lock, thread, future>>
    BY <1>5, NewFutureFacts, AtFacts DEF StopSeesNewFuture, In
  <2>2. \A u \in App : CallOK(u)'
    BY <1>5, <1>a, <2>1, NewFutureFacts
  <2> QED
    BY <1>5, <2>1, <2>2, NewFutureFacts DEF TypeOK
<1>6. ASSUME NEW t \in App, Call(t) PROVE TypeOK'
  <2>1. CallOK(t)'
    BY <1>6, CallFacts DEF In
  <2>2. \A u \in App : CallOK(u)'
    BY <1>6, <1>a, <2>1, CallFacts
  <2> QED
    BY <1>6, <2>2, CallFacts DEF TypeOK
<1>7. ASSUME NEW w \in Worker, ThreadStep(w) PROVE TypeOK'
  BY <1>7, ThreadFacts DEF TypeOK, In, At
<1>8. CASE UNCHANGED vars
  BY <1>8 DEF TypeOK, vars, In, At
<1> QED
  BY <1>1, <1>2, <1>3, <1>4, <1>5, <1>6, <1>7, <1>8, CallSteps DEF Next
-----------------------------------------------------------------------------
(* Where the other callers are does not change. *)
LEMMA OthersStay ==
  ASSUME NEW t \in App, \A u \in App \ {t} : app'[u] = app[u]
  PROVE  \A u \in App \ {t} : \A w : /\ Starting(u, w)' <=> Starting(u, w)
                                     /\ Halting(u, w)' <=> Halting(u, w)
  BY DEF Starting, Halting, In, At

(* A call that is idle or about to enter a worker is between no two steps of it. *)
LEMMA EnterFacts ==
  ASSUME NEW t \in App
  PROVE  /\ app[t].pc = "enter" => \A w : ~Starting(t, w) /\ ~Halting(t, w)
         /\ app'[t].pc = "enter" => \A w : ~Starting(t, w)' /\ ~Halting(t, w)'
         /\ Idle.pc = "enter" /\ Idle.call = "none"
  BY DEF Starting, Halting, In, Idle, Place

(* After a call has left its worker. *)
LEMMA AfterLeaving ==
  ASSUME TypeOK, NEW t \in App, Leaves(t)
  PROVE  /\ \A w : ~Starting(t, w)' /\ ~Halting(t, w)'
         /\ \A u \in App \ {t} : \A w : /\ Starting(u, w)' <=> Starting(u, w)
                                        /\ Halting(u, w)' <=> Halting(u, w)
  BY LeavesFacts, EnterFacts, OthersStay

LEMMA OwnedStep == TypeOK /\ Owned /\ [Next]_vars => Owned'
<1> SUFFICES ASSUME TypeOK, Owned, [Next]_vars, NEW w \in Worker, NEW x \in App, lock'[w] = x
             PROVE  Starting(x, w)' \/ (w = "rpc" /\ Halting(x, w)')
  <2>1. TypeOK /\ [Next]_vars => lock' \in [Worker -> App \cup {"free"}]
    BY TypeStep DEF TypeOK
  <2> QED
    BY <2>1 DEF Owned
<1> DEFINE Holds(u) == Starting(u, w) \/ (w = "rpc" /\ Halting(u, w))
<1>x. x # "free"
  BY LifecycleAssumption
<1>o. lock[w] # "free" => lock[w] \in App /\ Holds(lock[w])
  BY DEF Owned, TypeOK
<1>a. ASSUME NEW t \in App, \A u \in App \ {t} : app'[u] = app[u], lock'[w] = lock[w], lock[w] # t
      PROVE  Holds(x)'
  <2>1. x \in App \ {t} /\ Holds(x)
    BY <1>o, <1>a, <1>x
  <2>2. \A u \in App \ {t} : Holds(u)' <=> Holds(u)
    BY <1>a, OthersStay
  <2> QED
    BY <1>a, <2>1, <2>2
<1>b. ASSUME NEW t \in App, app[t].pc = "enter" PROVE lock[w] # t
  BY <1>b, <1>o, EnterFacts, LifecycleAssumption
<1>c. ASSUME NEW t \in App, lock[w] = t PROVE At(t) = w
  BY <1>c, <1>o, LifecycleAssumption DEF Starting, Halting
<1>1. ASSUME NEW t \in App, Leaves(t) PROVE Holds(x)'
  <2>1. CASE StartFails(t) \/ StartThrows(t) \/ StopFails(t)
    BY <1>1, <1>a, <1>b, <2>1, LeavesFacts DEF StartFails, StartThrows, MayStart, StopFails, In
  <2>2. CASE StartAssigns(t) \/ StopEnds(t) \/ ServerStopThrows(t)
    <3>1. \/ lock' = [lock EXCEPT ![At(t)] = "free"]
          \/ UNCHANGED lock /\ StopEnds(t) /\ At(t) # "rpc"
      BY <2>2 DEF StartAssigns, StopEnds, ServerStopThrows, TypeOK
    <3>2. CASE lock' = [lock EXCEPT ![At(t)] = "free"]
      <4>1. At(t) # w /\ lock'[w] = lock[w]
        BY <1>x, <3>2 DEF TypeOK
      <4> QED
        BY <1>1, <1>a, <1>c, <4>1, LeavesFacts
    <3>3. CASE UNCHANGED lock /\ StopEnds(t) /\ At(t) # "rpc"
      <4>1. lock[w] # t
        BY <1>o, <1>c, <3>3, LifecycleAssumption DEF Starting, StopEnds, In
      <4> QED
        BY <1>1, <1>a, <3>3, <4>1, LeavesFacts
    <3> QED
      BY <3>1, <3>2, <3>3
  <2> QED
    BY <1>1, <2>1, <2>2 DEF Leaves
<1>2. ASSUME NEW t \in App, StartLaunches(t) PROVE Holds(x)'
  <2>1. CASE At(t) = w
    <3>1. lock'[w] = t
      BY <1>2, <2>1 DEF StartLaunches, TypeOK
    <3> QED
      BY <1>2, <2>1, <3>1, LaunchFacts DEF Starting, In, At
  <2>2. CASE At(t) # w
    <3>1. lock'[w] = lock[w]
      BY <1>2, <2>2 DEF StartLaunches, TypeOK
    <3> QED
      BY <1>a, <1>b, <1>2, <3>1, LaunchFacts
  <2> QED
    BY <2>1, <2>2
<1>3. ASSUME NEW t \in App, StopBegins(t) PROVE Holds(x)'
  <2>1. CASE At(t) = w /\ w = "rpc"
    <3>1. lock'[w] = t
      BY <1>3, <2>1 DEF StopBegins, TypeOK
    <3> QED
      BY <1>3, <2>1, <3>1, StopBeginsFacts DEF Halting, In, At
  <2>2. CASE ~(At(t) = w /\ w = "rpc")
    <3>1. lock'[w] = lock[w]
      BY <1>3, <2>2 DEF StopBegins, TypeOK
    <3> QED
      BY <1>a, <1>b, <1>3, <3>1, StopBeginsFacts
  <2> QED
    BY <2>1, <2>2
<1>4. ASSUME NEW t \in App, ServerStops(t) \/ StopSeesNewFuture(t) PROVE Holds(x)'
  <2>1. /\ UNCHANGED lock
        /\ In(t, "Release", "stop") \/ In(t, "Release", "wait")
        /\ \A u \in App \ {t} : app'[u] = app[u]
        /\ app'[t].call = app[t].call /\ app'[t].at = app[t].at /\ app'[t].pc = "wait"
    BY <1>4, ServerStopsFacts, NewFutureFacts DEF ServerStops, StopSeesNewFuture
  <2>2. CASE lock[w] = t
    <3>1. Halting(t, w) /\ w = "rpc"
      BY <1>o, <2>1, <2>2, LifecycleAssumption DEF Starting, In
    <3> QED
      BY <2>1, <2>2, <3>1 DEF Halting, In, At
  <2>3. CASE lock[w] # t
    BY <1>a, <2>1, <2>3
  <2> QED
    BY <2>2, <2>3
<1>5. ASSUME NEW t \in App, Call(t) PROVE Holds(x)'
  BY <1>a, <1>b, <1>5, CallFacts, EnterFacts
<1>6. ASSUME UNCHANGED <<lock, app>> PROVE Holds(x)'
  BY <1>o, <1>x, <1>6 DEF Starting, Halting, In, At
<1>7. ASSUME NEW v \in Worker, ThreadStep(v) PROVE Holds(x)'
  BY <1>6, <1>7, ThreadFacts
<1> QED
  BY <1>1, <1>2, <1>3, <1>4, <1>5, <1>6, <1>7, CallSteps DEF Next, vars
-----------------------------------------------------------------------------
(* A step that leaves m_Quit, m_Lock, m_Future and the calls at w as they are. *)
LEMMA KeptElsewhere ==
  ASSUME NEW w \in Worker, Kept(w),
         quit'[w] = quit[w], lock'[w] = lock[w], future'[w] = future[w],
         Len(thread'[w]) = Len(thread[w]), Live(w)' \subseteq Live(w),
         quit[w] \/ w \in killed' \/ Live(w)' = Live(w),
         \A t \in App : (Starting(t, w)' <=> Starting(t, w)) /\ (Halting(t, w)' <=> Halting(t, w)),
         \A t \in App : Halting(t, w) => app'[t].on = app[t].on,
         crossed \subseteq crossed', killed \subseteq killed', thrown => thrown'
  PROVE  Kept(w)'
<1> SUFFICES ASSUME ~Exempt(w)'
             PROVE  (WhileStarting(w) /\ WhileHalting(w) /\ OnlyFuture(w) /\ Stopped(w))'
  BY DEF Kept
<1>1. WhileStarting(w) /\ WhileHalting(w) /\ OnlyFuture(w) /\ Stopped(w)
  BY DEF Kept, Exempt
<1>2. WhileStarting(w)'
  BY <1>1 DEF WhileStarting
<1>3. WhileHalting(w)'
  BY <1>1 DEF WhileHalting
<1>4. OnlyFuture(w)'
  BY <1>1 DEF OnlyFuture
<1>5. Stopped(w)'
  BY <1>1 DEF Stopped
<1> QED
  BY <1>2, <1>3, <1>4, <1>5

(* The history only grows. *)
LEMMA HistoryGrows ==
  ASSUME TypeOK, [Next]_vars
  PROVE  crossed \subseteq crossed' /\ killed \subseteq killed' /\ (thrown => thrown')
<1>1. ASSUME NEW t \in App, Call(t) \/ CallStep(t)
      PROVE  crossed \subseteq crossed' /\ killed \subseteq killed' /\ (thrown => thrown')
  <2>1. CASE StartThrows(t) \/ StartLaunches(t)
    <3>1. crossed \subseteq crossed' /\ UNCHANGED <<killed, thrown>>
      BY <2>1 DEF StartThrows, StartLaunches
    <3> QED
      BY <3>1
  <2>2. CASE StartFails(t) \/ StartAssigns(t) \/ StopFails(t) \/ ServerStops(t) \/ StopEnds(t) \/ Call(t)
    <3>1. UNCHANGED <<crossed, killed, thrown>>
      BY <2>2 DEF StartFails, StartAssigns, StopFails, ServerStops, StopEnds, Call
    <3> QED
      BY <3>1
  <2>3. CASE ServerStopThrows(t)
    BY <2>3 DEF ServerStopThrows
  <2>4. CASE StopBegins(t) \/ StopSeesNewFuture(t)
    BY <2>4 DEF StopBegins, StopSeesNewFuture, history
  <2> QED
    BY <1>1, <2>1, <2>2, <2>3, <2>4 DEF CallStep
<1>2. ASSUME NEW w \in Worker, ThreadStep(w)
      PROVE  crossed \subseteq crossed' /\ killed \subseteq killed' /\ (thrown => thrown')
  BY <1>2, ThreadFacts
<1> QED
  BY <1>1, <1>2 DEF Next, vars, history

(* Start of w by t while w has no running thread and no stop of it is under way. *)
LEMMA KeptByLaunch ==
  ASSUME TypeOK, NEW t \in App, StartLaunches(t), NEW w \in Worker, w = At(t), Kept(w)
  PROVE  Kept(w)'
<1> SUFFICES ASSUME ~Exempt(w)'
             PROVE  (WhileStarting(w) /\ WhileHalting(w) /\ OnlyFuture(w) /\ Stopped(w))'
  BY DEF Kept
<1>1. /\ lock[w] = "free" /\ quit[w] /\ lock'[w] = t /\ ~quit'[w] /\ ~Between(w)
      /\ UNCHANGED <<thrown, killed>> /\ crossed' = crossed
  BY DEF StartLaunches, MayStart, TypeOK, Exempt
<1>2. WhileStarting(w) /\ WhileHalting(w) /\ Stopped(w)
  BY <1>1 DEF Kept, Exempt
<1>3. ASSUME NEW u \in App, Halting(u, w) PROVE FALSE
  <2>1. CASE w = "rpc"
    BY <1>1, <1>2, <1>3, <2>1, LifecycleAssumption DEF WhileHalting
  <2>2. CASE w # "rpc"
    BY <1>1, <1>3, <2>2 DEF Between, Halting, TypeOK
  <2> QED
    BY <2>1, <2>2
<1>4. \A u \in App : ~Starting(u, w)
  BY <1>1, <1>2, LifecycleAssumption DEF WhileStarting
<1>5. Live(w) = {}
  BY <1>1, <1>2, <1>3 DEF Stopped
<1>6. Live(w)' = {Len(thread'[w])}
  BY <1>5, LaunchFacts
<1>7. Starting(t, w)' /\ ~Halting(t, w)'
  BY LaunchFacts DEF Starting, Halting, In, At
<1>8. \A u \in App \ {t} : ~Starting(u, w)' /\ ~Halting(u, w)'
  BY <1>3, <1>4, LaunchFacts, OthersStay
<1>9. WhileStarting(w)'
  BY <1>1, <1>6, <1>8 DEF WhileStarting
<1>10. WhileHalting(w)'
  BY <1>7, <1>8 DEF WhileHalting
<1>11. OnlyFuture(w)'
  BY <1>7 DEF OnlyFuture
<1>12. Stopped(w)'
  BY <1>1 DEF Stopped
<1> QED
  BY <1>9, <1>10, <1>11, <1>12

(* m_Future of w becomes that of the thread just started. *)
LEMMA KeptByAssign ==
  ASSUME TypeOK, NEW t \in App, StartAssigns(t), NEW w \in Worker, w = At(t), Kept(w)
  PROVE  Kept(w)'
<1> SUFFICES ASSUME ~Exempt(w)'
             PROVE  (WhileStarting(w) /\ WhileHalting(w) /\ OnlyFuture(w) /\ Stopped(w))'
  BY DEF Kept
<1>1. /\ UNCHANGED <<quit, thread, crossed, thrown, killed>>
      /\ future'[w] = Len(thread[w]) /\ Starting(t, w) /\ Leaves(t)
  BY DEF StartAssigns, TypeOK, Starting, Leaves
<1>2. WhileStarting(w) /\ WhileHalting(w)
  BY <1>1 DEF Kept, Exempt
<1>3. lock[w] = t /\ ~quit[w] /\ Live(w) \subseteq {Len(thread[w])}
      /\ (w \in killed \/ Len(thread[w]) \in Live(w))
  BY <1>1, <1>2 DEF WhileStarting
<1>4. \A u \in App : ~Starting(u, w)' /\ ~Halting(u, w)'
  BY <1>1, <1>2, <1>3, AfterLeaving DEF WhileStarting, WhileHalting
<1>5. Live(w)' = Live(w) /\ quit'[w] = quit[w]
  BY <1>1 DEF Live
<1>6. WhileStarting(w)' /\ WhileHalting(w)'
  BY <1>4 DEF WhileStarting, WhileHalting
<1>7. OnlyFuture(w)'
  BY <1>1, <1>3, <1>5 DEF OnlyFuture
<1>8. Stopped(w)'
  BY <1>3, <1>5 DEF Stopped
<1> QED
  BY <1>6, <1>7, <1>8

(* m_Quit of w is set. *)
LEMMA KeptByStopBegins ==
  ASSUME TypeOK, NEW t \in App, StopBegins(t), NEW w \in Worker, w = At(t), Kept(w)
  PROVE  Kept(w)'
<1> SUFFICES ASSUME ~Exempt(w)'
             PROVE  (WhileStarting(w) /\ WhileHalting(w) /\ OnlyFuture(w) /\ Stopped(w))'
  BY DEF Kept
<1>1. /\ lock[w] = "free" /\ ~quit[w] /\ quit'[w] /\ UNCHANGED <<thread, future, history>>
      /\ lock'[w] = IF w = "rpc" THEN t ELSE "free"
  BY DEF StopBegins, TypeOK
<1>2. WhileStarting(w) /\ WhileHalting(w) /\ OnlyFuture(w)
  BY <1>1 DEF Kept, Exempt, history
<1>3. \A u \in App : ~Starting(u, w) /\ ~Halting(u, w)
  BY <1>1, <1>2, LifecycleAssumption DEF WhileStarting, WhileHalting
<1>4. Halting(t, w)' /\ ~Starting(t, w)' /\ app'[t].on = future[w]
  BY StopBeginsFacts DEF Starting, Halting, In, At
<1>5. \A u \in App \ {t} : ~Starting(u, w)' /\ ~Halting(u, w)'
  BY <1>3, StopBeginsFacts, OthersStay
<1>6. Live(w) \subseteq {future[w]} /\ Live(w)' = Live(w)
  BY <1>1, <1>2, <1>3 DEF OnlyFuture, Live
<1>7. WhileStarting(w)'
  BY <1>4, <1>5 DEF WhileStarting
<1>8. WhileHalting(w)'
  BY <1>1, <1>4, <1>5 DEF WhileHalting
<1>9. OnlyFuture(w)'
  BY <1>1, <1>6 DEF OnlyFuture
<1>10. Stopped(w)'
  BY <1>4 DEF Stopped
<1> QED
  BY <1>7, <1>8, <1>9, <1>10

(* The thread of w has ended. *)
LEMMA KeptByStopEnds ==
  ASSUME TypeOK, NEW t \in App, StopEnds(t), NEW w \in Worker, w = At(t), Kept(w)
  PROVE  /\ ~Exempt(w) => quit'[w] /\ Live(w)' = {}
         /\ Kept(w)'
<1>1. /\ UNCHANGED <<quit, thread, future, crossed, thrown, killed>>
      /\ lock'[w] = IF w = "rpc" THEN "free" ELSE lock[w]
      /\ Halting(t, w) /\ Leaves(t) /\ app[t].on \notin Live(w)
  BY DEF StopEnds, TypeOK, Halting, Leaves, Ended
<1>2. SUFFICES ASSUME ~Exempt(w)
               PROVE  /\ quit'[w] /\ Live(w)' = {}
                      /\ (WhileStarting(w) /\ WhileHalting(w) /\ OnlyFuture(w) /\ Stopped(w))'
  BY <1>1 DEF Kept, Exempt
<1>3. WhileStarting(w) /\ WhileHalting(w) /\ OnlyFuture(w)
  BY <1>2 DEF Kept
<1>4. quit[w] /\ app[t].on = future[w] /\ lock[w] = IF w = "rpc" THEN t ELSE "free"
  BY <1>1, <1>3 DEF WhileHalting
<1>5. \A u \in App : ~Starting(u, w)
  BY <1>3, <1>4 DEF WhileStarting
<1>6. Live(w) = {} /\ Live(w)' = {} /\ quit'[w]
  BY <1>1, <1>3, <1>4, <1>5 DEF OnlyFuture, Live
<1>7. WhileStarting(w)'
  BY <1>1, <1>5, AfterLeaving DEF WhileStarting
<1>8. WhileHalting(w)'
  <2>1. ASSUME NEW u \in App, Halting(u, w)' PROVE u # t /\ Halting(u, w) /\ app'[u] = app[u]
    BY <1>1, <2>1, AfterLeaving, LeavesFacts
  <2>2. ASSUME NEW u \in App, Halting(u, w)' PROVE w # "rpc"
    BY <1>3, <1>4, <2>1, <2>2 DEF WhileHalting
  <2> QED
    BY <1>1, <1>3, <1>4, <1>6, <2>1, <2>2 DEF WhileHalting
<1>9. OnlyFuture(w)' /\ Stopped(w)'
  BY <1>6 DEF OnlyFuture, Stopped
<1> QED
  BY <1>6, <1>7, <1>8, <1>9

LEMMA KeptStep ==
  ASSUME TypeOK, [Next]_vars, NEW w \in Worker, Kept(w)
  PROVE  Kept(w)'
<1>h. crossed \subseteq crossed' /\ killed \subseteq killed' /\ (thrown => thrown')
  BY HistoryGrows
<1>a. ASSUME NEW t \in App, \A u \in App \ {t} : app'[u] = app[u],
             ~Starting(t, w), ~Starting(t, w)', Halting(t, w)' <=> Halting(t, w),
             Halting(t, w) => app'[t].on = app[t].on,
             quit'[w] = quit[w], lock'[w] = lock[w], future'[w] = future[w],
             Len(thread'[w]) = Len(thread[w]), Live(w)' = Live(w)
      PROVE  Kept(w)'
  <2>1. \A u \in App : (Starting(u, w)' <=> Starting(u, w)) /\ (Halting(u, w)' <=> Halting(u, w))
    BY <1>a, OthersStay
  <2>2. \A u \in App : Halting(u, w) => app'[u].on = app[u].on
    BY <1>a
  <2> QED
    BY <1>a, <1>h, <2>1, <2>2, KeptElsewhere
<1>1. ASSUME NEW t \in App, Leaves(t) PROVE Kept(w)'
  <2>1. /\ \A u \in App \ {t} : app'[u] = app[u]
        /\ ~Starting(t, w)' /\ ~Halting(t, w)'
        /\ quit'[w] = quit[w] /\ Len(thread'[w]) = Len(thread[w]) /\ Live(w)' = Live(w)
    BY <1>1, LeavesFacts, AfterLeaving DEF Live
  <2>2. CASE StartFails(t) \/ StartThrows(t) \/ StopFails(t)
    <3>1. app[t].pc = "enter" /\ UNCHANGED <<lock, future>>
      BY <2>2 DEF StartFails, StartThrows, MayStart, StopFails, In
    <3> QED
      BY <1>a, <2>1, <3>1, EnterFacts
  <2>3. CASE At(t) = w /\ StartAssigns(t)
    BY <2>3, KeptByAssign
  <2>4. CASE At(t) = w /\ StopEnds(t)
    BY <2>4, KeptByStopEnds
  <2>5. CASE At(t) = w /\ ServerStopThrows(t)
    <3>1. w = "rpc" /\ thrown'
      BY <2>5 DEF ServerStopThrows, TypeOK
    <3> QED
      BY <3>1 DEF Kept, Exempt
  <2>6. CASE At(t) # w /\ (StartAssigns(t) \/ StopEnds(t) \/ ServerStopThrows(t))
    <3>1. lock'[w] = lock[w] /\ future'[w] = future[w]
      BY <2>6 DEF StartAssigns, StopEnds, ServerStopThrows, TypeOK
    <3>2. ~Starting(t, w) /\ ~Halting(t, w)
      BY <2>6 DEF Starting, Halting
    <3> QED
      BY <1>a, <2>1, <3>1, <3>2
  <2> QED
    BY <1>1, <2>2, <2>3, <2>4, <2>5, <2>6 DEF Leaves
<1>2. ASSUME NEW t \in App, StartLaunches(t) PROVE Kept(w)'
  <2>1. CASE At(t) # w
    <3>1. /\ quit'[w] = quit[w] /\ lock'[w] = lock[w] /\ future'[w] = future[w]
          /\ thread'[w] = thread[w] /\ Live(w)' = Live(w)
      <4>1. quit'[w] = quit[w] /\ lock'[w] = lock[w] /\ future'[w] = future[w]
        BY <1>2, <2>1 DEF StartLaunches, TypeOK
      <4>2. thread'[w] = thread[w]
        BY <1>2, <2>1, LaunchFacts
      <4> QED
        BY <4>1, <4>2 DEF Live
    <3>2. ~Starting(t, w) /\ ~Halting(t, w) /\ ~Starting(t, w)' /\ ~Halting(t, w)'
      BY <1>2, <2>1, LaunchFacts DEF Starting, Halting, At
    <3> QED
      BY <1>a, <1>2, <3>1, <3>2, LaunchFacts
  <2> QED
    BY <1>2, <2>1, KeptByLaunch
<1>3. ASSUME NEW t \in App, StopBegins(t) PROVE Kept(w)'
  <2>1. CASE At(t) # w
    <3>1. /\ quit'[w] = quit[w] /\ lock'[w] = lock[w] /\ future'[w] = future[w]
          /\ thread'[w] = thread[w] /\ Live(w)' = Live(w)
      BY <1>3, <2>1 DEF StopBegins, TypeOK, Live
    <3>2. ~Starting(t, w) /\ ~Halting(t, w) /\ ~Starting(t, w)' /\ ~Halting(t, w)'
      BY <1>3, <2>1, StopBeginsFacts DEF Starting, Halting, At
    <3> QED
      BY <1>a, <1>3, <3>1, <3>2, StopBeginsFacts
  <2> QED
    BY <1>3, <2>1, KeptByStopBegins
<1>4. ASSUME NEW t \in App, ServerStops(t) PROVE Kept(w)'
  <2>1. /\ UNCHANGED <<quit, lock, future>> /\ ~Starting(t, w) /\ ~Starting(t, w)'
        /\ Halting(t, w)' <=> Halting(t, w)
    BY <1>4, ServerStopsFacts DEF ServerStops, Starting, Halting, In, At
  <2> QED
    BY <1>a, <1>4, <2>1, ServerStopsFacts
<1>5. ASSUME NEW t \in App, StopSeesNewFuture(t) PROVE Kept(w)'
  <2>1. /\ UNCHANGED <<quit, lock, thread, future>> /\ ~Starting(t, w) /\ ~Starting(t, w)'
        /\ Halting(t, w)' <=> Halting(t, w)
    BY <1>5, NewFutureFacts DEF StopSeesNewFuture, Starting, Halting, In, At
  <2>2. CASE At(t) = w
    <3>1. Halting(t, w) /\ app[t].on # future[w] /\ UNCHANGED history
      BY <1>5, <2>2 DEF StopSeesNewFuture, Halting
    <3>2. Exempt(w)
      BY <3>1 DEF Kept, WhileHalting
    <3> QED
      BY <3>1, <3>2 DEF Kept, Exempt, history
  <2>3. CASE At(t) # w
    <3>1. ~Halting(t, w) /\ Live(w)' = Live(w)
      BY <2>1, <2>3 DEF Halting, Live
    <3> QED
      BY <1>a, <1>5, <2>1, <3>1, NewFutureFacts
  <2> QED
    BY <2>2, <2>3
<1>6. ASSUME NEW t \in App, Call(t) PROVE Kept(w)'
  <2>1. app[t].pc = "enter" /\ Live(w)' = Live(w)
    BY <1>6, CallFacts, EnterFacts DEF Live
  <2> QED
    BY <1>a, <1>6, <2>1, CallFacts, EnterFacts
<1>7. ASSUME NEW v \in Worker, ThreadStep(v) PROVE Kept(w)'
  <2>1. \A u \in App : (Starting(u, w)' <=> Starting(u, w)) /\ (Halting(u, w)' <=> Halting(u, w))
    BY <1>7, ThreadFacts DEF Starting, Halting, In, At
  <2> QED
    BY <1>h, <1>7, <2>1, ThreadFacts, KeptElsewhere
<1>8. CASE UNCHANGED vars
  <2>1. \A u \in App : (Starting(u, w)' <=> Starting(u, w)) /\ (Halting(u, w)' <=> Halting(u, w))
    BY <1>8 DEF Starting, Halting, In, At, vars
  <2>2. Live(w)' = Live(w)
    BY <1>8 DEF Live, vars
  <2> QED
    BY <1>h, <1>8, <2>1, <2>2, KeptElsewhere DEF vars
<1> QED
  BY <1>1, <1>2, <1>3, <1>4, <1>5, <1>6, <1>7, <1>8, CallSteps DEF Next

(* Calls that do not overlap start no worker between the halves of a stop. *)
LEMMA SoloStep == TypeOK /\ Solo /\ [Next]_vars => Solo'
<1> SUFFICES ASSUME TypeOK, Solo, [Next]_vars, ~overlapped'
             PROVE  /\ \A t, u \in App : app'[t] # Idle /\ app'[u] # Idle => t = u
                    /\ crossed' = {}
  BY DEF Solo, Idle, Place
<1>1. ASSUME NEW t \in App, app[t] # Idle, ~overlapped, \A u \in App \ {t} : app'[u] = app[u]
      PROVE  \A s, u \in App : app'[s] # Idle /\ app'[u] # Idle => s = u
  BY <1>1 DEF Solo
<1>2. ASSUME NEW t \in App, CallStep(t)
      PROVE  /\ \A s, u \in App : app'[s] # Idle /\ app'[u] # Idle => s = u
             /\ crossed' = {}
  <2>1. ~overlapped
    BY <1>2 DEF CallStep, StartFails, StartThrows, StartLaunches, StartAssigns, StopFails,
       StopBegins, ServerStops, ServerStopThrows, StopEnds, StopSeesNewFuture, history
  <2>2. app[t].call # "none" /\ app[t] # Idle
    <3>1. app[t].call = "Initialize" \/ app[t].call = "Release"
      BY <1>2, CallSteps, LeavesFacts, LaunchFacts, StopBeginsFacts, NewFutureFacts
         DEF ServerStops, In
    <3> QED
      BY <3>1, EnterFacts
  <2>3. \A u \in App \ {t} : app'[u] = app[u]
    BY <1>2, CallSteps, LeavesFacts, LaunchFacts, StopBeginsFacts, ServerStopsFacts, NewFutureFacts
  <2>4. ASSUME MayStart(t) PROVE ~Between(At(t))
    <3>1. ASSUME NEW u \in App, In(u, "Release", "wait") PROVE FALSE
      <4>1. app[u] # Idle /\ u # t
        BY <2>4, <3>1 DEF In, Idle, Place, MayStart
      <4> QED
        BY <2>1, <2>2, <4>1 DEF Solo
    <3> QED
      BY <3>1 DEF Between
  <2>5. crossed' = crossed
    BY <1>2, <2>4 DEF CallStep, StartFails, StartThrows, StartLaunches, StartAssigns, StopFails,
       StopBegins, ServerStops, ServerStopThrows, StopEnds, StopSeesNewFuture, history
  <2> QED
    BY <1>1, <2>1, <2>2, <2>3, <2>5 DEF Solo
<1>3. ASSUME NEW t \in App, Call(t)
      PROVE  /\ \A s, u \in App : app'[s] # Idle /\ app'[u] # Idle => s = u
             /\ crossed' = {}
  <2>1. ~overlapped /\ \A u \in App \ {t} : app[u] = Idle
    BY <1>3 DEF Call
  <2>2. \A u \in App \ {t} : app'[u] = Idle
    BY <1>3, <2>1, CallFacts
  <2> QED
    BY <1>3, <2>1, <2>2, CallFacts DEF Solo
<1>4. ASSUME UNCHANGED <<app, overlapped, crossed>>
      PROVE  /\ \A s, u \in App : app'[s] # Idle /\ app'[u] # Idle => s = u
             /\ crossed' = {}
  BY <1>4 DEF Solo
<1>5. ASSUME NEW w \in Worker, ThreadStep(w) PROVE UNCHANGED <<app, overlapped, crossed>>
  BY <1>5, ThreadFacts
<1>6. CASE UNCHANGED vars
  BY <1>4, <1>6 DEF vars, history
<1> QED
  BY <1>2, <1>3, <1>4, <1>5, <1>6 DEF Next
-----------------------------------------------------------------------------
(* Calls that overlapped, and a stop that threw, stay in the history. *)
LEMMA OverlapStays ==
  ASSUME [Next]_vars
  PROVE  overlapped => overlapped'
<1>1. ASSUME NEW t \in App, Call(t) PROVE overlapped => overlapped'
  BY <1>1 DEF Call
<1>2. ASSUME NEW t \in App, CallStep(t) PROVE UNCHANGED overlapped
  BY <1>2 DEF CallStep, StartFails, StartThrows, StartLaunches, StartAssigns, StopFails, StopBegins,
     ServerStops, ServerStopThrows, StopEnds, StopSeesNewFuture, history
<1>3. ASSUME NEW w \in Worker, ThreadStep(w) PROVE UNCHANGED overlapped
  BY <1>3 DEF ThreadStep, LoopCondition, WaitFor, Work, WorkThrows, Serve, ServeEnds, Threads, history
<1>4. CASE UNCHANGED vars
  BY <1>4 DEF vars, history
<1> QED
  BY <1>1, <1>2, <1>3, <1>4 DEF Next

(* What holds at every worker while one call is under way at a time. *)
LEMMA KeptAlone ==
  ASSUME Inv, ~overlapped, ~thrown
  PROVE  /\ \A w \in Worker : ~Exempt(w)
         /\ \A w \in Worker : WhileStarting(w) /\ WhileHalting(w) /\ OnlyFuture(w) /\ Stopped(w)
         /\ \A t, u \in App : app[t] # Idle /\ app[u] # Idle => t = u
<1>1. \A w \in Worker : ~Exempt(w)
  BY DEF Inv, Solo, Exempt
<1> QED
  BY <1>1 DEF Inv, Solo, Kept

(* A caller about to enter a worker finds its lock free. *)
LEMMA StoppedAlone ==
  ASSUME Inv, ~overlapped, ~thrown, NEW t \in App, app[t].call # "none", app[t].pc = "enter",
         NEW w \in Worker, quit[w]
  PROVE  Live(w) = {} /\ lock[w] = "free"
<1>1. ASSUME NEW u \in App PROVE ~Starting(u, w) /\ ~Halting(u, w)
  <2>1. CASE u = t
    BY <2>1, EnterFacts
  <2>2. CASE u # t
    <3>1. app[t] # Idle
      BY EnterFacts
    <3>2. app[u] = Idle
      BY <2>2, <3>1, KeptAlone
    <3> QED
      BY <3>2, EnterFacts
  <2> QED
    BY <2>1, <2>2
<1>2. lock[w] = "free"
  BY <1>1 DEF Inv, Owned, TypeOK
<1> QED
  BY <1>1, <1>2, KeptAlone DEF Stopped

(* The next worker of Initialize and of Release, and what they return. *)
LEMMA AfterCases ==
  ASSUME TypeOK, NEW t \in App, app[t].call # "none", NEW ok \in BOOLEAN
  PROVE  /\ AfterStart(t, ok) =>
              \/ app'[t] = Idle /\ last' = "failed" /\ ~ok
              \/ app'[t] = Idle /\ last' = "started" /\ app[t].at = 4 /\ ok
              \/ /\ app'[t].at = app[t].at + 1 /\ app'[t].pc = "enter" /\ app[t].at < 4
                 /\ ok \/ app[t].at = 3
         /\ AfterStop(t, ok) =>
              \/ app'[t] = Idle /\ last' = "released" /\ app[t].at = 1
              \/ app'[t].at = app[t].at - 1 /\ app'[t].pc = "enter" /\ app[t].at > 1
<1>1. app[t].at \in 1 .. 4 /\ At(t) = Order[app[t].at] /\ app[t].at \in Int
  BY AtFacts DEF At
<1>2. /\ At(t) = "checker" <=> app[t].at = 4
      /\ At(t) = "secondary" <=> app[t].at = 3
      /\ At(t) = "rpc" <=> app[t].at = 1
  BY <1>1, OrderFacts
<1>3. ASSUME NEW result, Return(t, result) PROVE app'[t] = Idle /\ last' = result
  BY <1>3 DEF Return, TypeOK
<1>4. ASSUME NEW i, EnterAt(t, i) PROVE app'[t].at = i /\ app'[t].pc = "enter"
  BY <1>4 DEF EnterAt, Place, TypeOK
<1>5. ASSUME AfterStart(t, ok)
      PROVE  \/ app'[t] = Idle /\ last' = "failed" /\ ~ok
             \/ app'[t] = Idle /\ last' = "started" /\ app[t].at = 4 /\ ok
             \/ /\ app'[t].at = app[t].at + 1 /\ app'[t].pc = "enter" /\ app[t].at < 4
                /\ ok \/ app[t].at = 3
  <2>1. CASE ~ok /\ At(t) # "secondary"
    BY <1>3, <1>5, <2>1 DEF AfterStart
  <2>2. CASE ~(~ok /\ At(t) # "secondary") /\ At(t) = "checker"
    BY <1>2, <1>3, <1>5, <2>2 DEF AfterStart
  <2>3. CASE ~(~ok /\ At(t) # "secondary") /\ At(t) # "checker"
    <3>1. EnterAt(t, app[t].at + 1)
      BY <1>5, <2>3 DEF AfterStart
    <3> QED
      BY <1>1, <1>2, <1>4, <2>3, <3>1
  <2> QED
    BY <2>1, <2>2, <2>3
<1>6. ASSUME AfterStop(t, ok)
      PROVE  \/ app'[t] = Idle /\ last' = "released" /\ app[t].at = 1
             \/ app'[t].at = app[t].at - 1 /\ app'[t].pc = "enter" /\ app[t].at > 1
  BY <1>1, <1>2, <1>3, <1>4, <1>6 DEF AfterStop
<1> QED
  BY <1>5, <1>6
(* What one caller's step must achieve when the others are idle. *)
LEMMA SequentialByOne ==
  ASSUME NEW t \in App, \A u \in App \ {t} : app'[u] = Idle,
         ServiceFrames', Returned', Releasing(t)', Initializing(t)'
  PROVE  Sequential'
<1>1. ASSUME NEW u \in App, u # t PROVE Releasing(u)' /\ Initializing(u)'
  BY <1>1, EnterFacts DEF Releasing, Initializing
<1> QED
  BY <1>1 DEF Sequential

(* A call that leaves a worker has done what it came for, or ends Initialize. *)
LEMMA SequentialByLeaving ==
  ASSUME Inv, NEW t \in App, Leaves(t), ~overlapped, ~thrown, ~thrown'
  PROVE  Sequential'
<1>t. TypeOK
  BY DEF Inv
<1>s. ServiceFrames /\ Releasing(t) /\ Initializing(t)
  BY DEF Inv, Sequential
<1>1. /\ UNCHANGED <<quit, thread>> /\ app[t].call \in {"Initialize", "Release"}
      /\ app[t].call # "none" /\ app[t].at \in 1 .. 4 /\ At(t) = Order[app[t].at] /\ At(t) \in Worker
  BY <1>t, LeavesFacts DEF At
<1>2. \A w \in Worker : Live(w)' = Live(w) /\ quit'[w] = quit[w]
  BY <1>1 DEF Live
<1>3. app[t] # Idle /\ \A u \in App \ {t} : app'[u] = Idle
  <2>1. app[t] # Idle
    BY <1>1, EnterFacts
  <2> QED
    BY <1>t, <2>1, KeptAlone, LeavesFacts
<1>4. ServiceFrames'
  BY <1>s, <1>1 DEF ServiceFrames
<1>5. Idle.at = 0 /\ Idle.call = "none"
  BY DEF Idle, Place
<1>6. \A w \in Worker : \E j \in 1 .. 4 : w = Order[j]
  BY OrderFacts
<1>7. ASSUME app'[t] # Idle PROVE app'[t].call = app[t].call /\ app'[t].pc = "enter" /\ Returned'
  BY <1>t, <1>7, LeavesFacts DEF Returned, Quiet, Idle
<1>8. CASE app[t].call = "Initialize" /\ ~StartAssigns(t)
  <2>1. AfterStart(t, FALSE)
    BY <1>8 DEF Leaves, StartFails, StartThrows, StopFails, StopEnds, ServerStopThrows, In
  <2>2. \/ app'[t] = Idle /\ last' = "failed"
        \/ app'[t].at = 4 /\ app'[t].pc = "enter" /\ app[t].at = 3
    <3> DEFINE no == FALSE
    <3>1. AfterStart(t, no) /\ no \in BOOLEAN /\ ~no
      BY <2>1
    <3> HIDE DEF no
    <3> QED
      BY <1>t, <1>1, <3>1, AfterCases
  <2>3. CASE app'[t] = Idle /\ last' = "failed"
    BY <1>3, <1>4, <1>5, <2>3, SequentialByOne DEF Returned, Releasing, Initializing
  <2>4. CASE app'[t].at = 4 /\ app'[t].pc = "enter" /\ app[t].at = 3
    <3>1. app'[t] # Idle
      BY <1>5, <2>4
    <3>2. quit[Order[4]] /\ ~quit[Order[1]] /\ ~quit[Order[2]]
      BY <1>s, <1>8, <2>4 DEF Initializing
    <3>3. Initializing(t)'
      BY <1>1, <2>4, <3>2 DEF Initializing
    <3> QED
      BY <1>3, <1>4, <1>7, <1>8, <3>1, <3>3, SequentialByOne DEF Releasing
  <2> QED
    BY <2>2, <2>3, <2>4
<1>9. CASE StartAssigns(t)
  <2>1. AfterStart(t, TRUE) /\ app[t].call = "Initialize" /\ app[t].pc = "assign"
    BY <1>9 DEF StartAssigns, In
  <2>2. ~quit[At(t)]
    <3>1. Starting(t, At(t))
      BY <1>9 DEF StartAssigns, Starting
    <3> QED
      BY <1>1, <3>1, KeptAlone DEF WhileStarting
  <2>3. \/ app'[t] = Idle /\ last' = "started" /\ app[t].at = 4
        \/ app'[t].at = app[t].at + 1 /\ app'[t].pc = "enter" /\ app[t].at < 4
    BY <1>t, <1>1, <2>1, AfterCases
  <2>4. CASE app'[t] = Idle /\ last' = "started" /\ app[t].at = 4
    <3>1. ~quit[Order[4]] /\ ~quit[Order[1]] /\ ~quit[Order[2]]
      BY <1>s, <1>1, <2>1, <2>2, <2>4 DEF Initializing
    <3>2. Returned'
      BY <1>1, <2>4, <3>1, OrderFacts DEF Returned
    <3> QED
      BY <1>3, <1>4, <1>5, <2>4, <3>2, SequentialByOne DEF Releasing, Initializing
  <2>5. CASE app'[t].at = app[t].at + 1 /\ app'[t].pc = "enter" /\ app[t].at < 4
    <3>1. app'[t] # Idle
      BY <1>1, <1>5, <2>5
    <3>2. \A j \in 2 .. 4 : j > app[t].at => quit[Order[j]]
      BY <1>s, <2>1 DEF Initializing
    <3>3. \A j \in 1 .. 4 : (j < app[t].at \/ j = app[t].at) /\ j # 3 => ~quit[Order[j]]
      BY <1>s, <1>1, <2>1, <2>2 DEF Initializing
    <3>4. Initializing(t)'
      BY <1>1, <2>5, <3>2, <3>3 DEF Initializing
    <3> QED
      BY <1>3, <1>4, <1>7, <2>1, <3>1, <3>4, SequentialByOne DEF Releasing
  <2> QED
    BY <2>3, <2>4, <2>5
<1>10. CASE app[t].call = "Release"
  <2>1. AfterStop(t, FALSE) \/ AfterStop(t, TRUE)
    BY <1>10 DEF Leaves, StartFails, StartThrows, StartAssigns, StopFails, StopEnds, MayStart,
       ServerStopThrows, In
  <2>2. quit[At(t)] /\ Live(At(t)) = {}
    <3>1. CASE StopFails(t)
      BY <1>1, <3>1, StoppedAlone DEF StopFails, In
    <3>2. CASE StopEnds(t)
      BY <1>1, <1>2, <1>t, <3>2, KeptByStopEnds, KeptAlone DEF Inv
    <3>3. StopFails(t) \/ StopEnds(t)
      BY <1>10 DEF Leaves, StartFails, StartThrows, StartAssigns, MayStart, ServerStopThrows, In
    <3> QED
      BY <3>1, <3>2, <3>3
  <2>3. \A j \in 1 .. 4 : (j > app[t].at \/ j = app[t].at) => quit[Order[j]] /\ Live(Order[j]) = {}
    BY <1>s, <1>1, <1>10, <2>2 DEF Releasing
  <2>4. \/ app'[t] = Idle /\ last' = "released" /\ app[t].at = 1
        \/ app'[t].at = app[t].at - 1 /\ app'[t].pc = "enter" /\ app[t].at > 1
    BY <1>t, <1>1, <2>1, AfterCases
  <2>5. CASE app'[t] = Idle /\ last' = "released" /\ app[t].at = 1
    <3>1. \A w \in Worker : quit[w] /\ Live(w) = {}
      BY <1>6, <2>3, <2>5
    <3>2. Returned'
      BY <1>2, <2>5, <3>1 DEF Returned
    <3> QED
      BY <1>3, <1>4, <1>5, <2>5, <3>2, SequentialByOne DEF Releasing, Initializing
  <2>6. CASE app'[t].at = app[t].at - 1 /\ app'[t].pc = "enter" /\ app[t].at > 1
    <3>1. app'[t] # Idle
      BY <1>1, <1>5, <2>6
    <3>2. Releasing(t)'
      BY <1>1, <1>2, <2>3, <2>6, OrderFacts DEF Releasing
    <3> QED
      BY <1>3, <1>4, <1>7, <1>10, <3>1, <3>2, SequentialByOne DEF Initializing
  <2> QED
    BY <2>4, <2>5, <2>6
<1> QED
  BY <1>1, <1>8, <1>9, <1>10
(* A step inside a worker, or into the first one: only that worker's m_Quit may change. *)
LEMMA SequentialByLaunch ==
  ASSUME Inv, NEW t \in App, StartLaunches(t), ~overlapped, ~thrown
  PROVE  Sequential'
<1>1. TypeOK /\ ServiceFrames /\ Initializing(t)
  BY DEF Inv, Sequential
<1>2. /\ app[t].call = "Initialize" /\ app[t].pc = "enter" /\ app[t].at \in 1 .. 4
      /\ At(t) = Order[app[t].at] /\ At(t) \in Worker /\ app[t] # Idle
      /\ app'[t].call = "Initialize" /\ app'[t].at = app[t].at /\ app'[t].pc = "assign"
  BY <1>1, LaunchFacts, AtFacts, EnterFacts DEF At
<1>3. app'[t] # Idle /\ \A u \in App \ {t} : app'[u] = Idle
  BY <1>1, <1>2, KeptAlone, LaunchFacts, EnterFacts
<1>4. quit[At(t)] /\ ~quit'[At(t)] /\ \A w \in Worker \ {At(t)} : quit'[w] = quit[w]
  BY <1>1, <1>2 DEF StartLaunches, MayStart, TypeOK
<1>5. /\ \A j \in 2 .. 4 : j > app[t].at => quit[Order[j]]
      /\ \A j \in 1 .. 4 : j < app[t].at /\ j # 3 => ~quit[Order[j]]
  <2>1. CASE app[t].at = 1
    BY <1>1, <1>2, <1>4, <2>1, OrderFacts DEF ServiceFrames
  <2>2. CASE app[t].at > 1
    BY <1>1, <1>2, <2>2 DEF Initializing
  <2> QED
    BY <1>2, <2>1, <2>2
<1>6. \A j \in 1 .. 4 : j # app[t].at => quit'[Order[j]] = quit[Order[j]]
  BY <1>2, <1>4, OrderFacts
<1>7. ServiceFrames'
  <2>1. ~quit'["rpc"]
    BY <1>2, <1>4, <1>5, <1>6, OrderFacts
  <2> QED
    BY <2>1 DEF ServiceFrames
<1>8. Initializing(t)'
  BY <1>2, <1>5, <1>6 DEF Initializing
<1>9. Returned' /\ Releasing(t)'
  BY <1>2, <1>3 DEF Returned, Quiet, Idle, Releasing
<1> QED
  BY <1>3, <1>7, <1>8, <1>9, SequentialByOne

LEMMA SequentialByStopping ==
  ASSUME Inv, NEW t \in App, StopBegins(t) \/ ServerStops(t) \/ StopSeesNewFuture(t),
         ~overlapped, ~thrown
  PROVE  Sequential'
<1>1. TypeOK /\ ServiceFrames /\ Releasing(t)
  BY DEF Inv, Sequential
<1>2. app[t].call = "Release" /\ app[t].at \in 1 .. 4 /\ At(t) = Order[app[t].at] /\ At(t) \in Worker
  <2>1. app[t].call = "Release"
    BY DEF StopBegins, ServerStops, StopSeesNewFuture, In
  <2> QED
    BY <1>1, <2>1, AtFacts DEF At
<1>3. /\ app'[t].call = "Release" /\ app'[t].at = app[t].at
      /\ \A u \in App \ {t} : app'[u] = app[u]
  BY <1>1, <1>2, StopBeginsFacts, ServerStopsFacts, NewFutureFacts
<1>4. app'[t] # Idle /\ \A u \in App \ {t} : app'[u] = Idle
  BY <1>2, <1>3, KeptAlone, EnterFacts
<1>5. \A w \in Worker : Live(w)' = Live(w)
  <2>1. CASE ServerStops(t)
    BY <1>1, <2>1, ServerStopsFacts
  <2>2. CASE StopBegins(t) \/ StopSeesNewFuture(t)
    BY <2>2 DEF StopBegins, StopSeesNewFuture, Live
  <2> QED
    BY <2>1, <2>2
<1>6. \/ StopBegins(t) /\ quit'[At(t)] /\ \A w \in Worker \ {At(t)} : quit'[w] = quit[w]
      \/ UNCHANGED quit
  BY <1>1, <1>2 DEF StopBegins, ServerStops, StopSeesNewFuture, TypeOK
<1>7. \A w \in Worker : quit[w] => quit'[w]
  BY <1>6
<1>8. \A j \in 1 .. 4 : j > app[t].at => quit[Order[j]] /\ Live(Order[j]) = {}
  BY <1>1, <1>2 DEF Releasing
<1>9. ServiceFrames'
  <2>1. CASE quit["rpc"]
    BY <1>1, <1>7, <2>1 DEF ServiceFrames
  <2>2. CASE ~quit["rpc"] /\ quit'["rpc"]
    <3>1. At(t) = "rpc" /\ app[t].at = 1 /\ quit'["rpc"]
      BY <1>2, <1>6, <2>2, OrderFacts
    <3>2. quit["primary"] /\ quit["secondary"] /\ quit["checker"]
      BY <1>8, <3>1, OrderFacts
    <3> QED
      BY <1>7, <3>1, <3>2, OrderFacts DEF ServiceFrames
  <2> QED
    BY <2>1, <2>2 DEF ServiceFrames
<1>10. Releasing(t)'
  BY <1>3, <1>5, <1>7, <1>8, OrderFacts DEF Releasing
<1>11. Returned' /\ Initializing(t)'
  BY <1>3, <1>4 DEF Returned, Quiet, Idle, Initializing
<1> QED
  BY <1>4, <1>9, <1>10, <1>11, SequentialByOne

(* A call begins at the first worker of its way. *)
LEMMA SequentialByCall ==
  ASSUME Inv, NEW t \in App, Call(t), ~overlapped', ~overlapped, ~thrown
  PROVE  Sequential'
<1>1. TypeOK /\ ServiceFrames
  BY DEF Inv, Sequential
<1>2. \A u \in App \ {t} : app[u] = Idle
  BY DEF Call
<1>3. app'[t] # Idle /\ \A u \in App \ {t} : app'[u] = Idle
  BY <1>1, <1>2, CallFacts, EnterFacts
<1>4. ServiceFrames'
  BY <1>1, CallFacts DEF ServiceFrames
<1>5. Returned'
  BY <1>3 DEF Returned, Quiet, Idle
<1>6. Releasing(t)' /\ Initializing(t)'
  BY <1>1, CallFacts DEF Releasing, Initializing
<1> QED
  BY <1>3, <1>4, <1>5, <1>6, SequentialByOne

LEMMA SequentialStep == Inv /\ [Next]_vars => Sequential'
<1> SUFFICES ASSUME Inv, [Next]_vars, ~overlapped', ~thrown'
             PROVE  Sequential'
  BY DEF Sequential
<1>1. ~overlapped /\ ~thrown /\ TypeOK
  BY OverlapStays, HistoryGrows DEF Inv
<1>2. ServiceFrames /\ Returned /\ \A t \in App : Releasing(t) /\ Initializing(t)
  BY <1>1 DEF Inv, Sequential
<1>3. ASSUME NEW t \in App, CallStep(t) PROVE Sequential'
  BY <1>1, <1>3, CallSteps, SequentialByLeaving, SequentialByLaunch, SequentialByStopping
<1>4. ASSUME NEW t \in App, Call(t) PROVE Sequential'
  BY <1>1, <1>4, SequentialByCall
<1>5. ASSUME UNCHANGED <<quit, app, last>>, \A w \in Worker : Live(w)' \subseteq Live(w)
      PROVE  Sequential'
  <2>1. ServiceFrames'
    BY <1>2, <1>5 DEF ServiceFrames
  <2>2. Returned'
    BY <1>2, <1>5 DEF Returned, Quiet, Idle
  <2>3. ASSUME NEW t \in App PROVE Releasing(t)' /\ Initializing(t)'
    BY <1>2, <1>5, OrderFacts DEF Releasing, Initializing
  <2> QED
    BY <2>1, <2>2, <2>3 DEF Sequential
<1>6. ASSUME NEW w \in Worker, ThreadStep(w) PROVE Sequential'
  BY <1>1, <1>5, <1>6, ThreadFacts
<1>7. CASE UNCHANGED vars
  BY <1>5, <1>7 DEF vars, history, Live
<1> QED
  BY <1>3, <1>4, <1>6, <1>7 DEF Next

LEMMA InitInv == Init => Inv
<1> SUFFICES ASSUME Init
             PROVE  Inv
  OBVIOUS
<1>1. Idle \in Calls /\ Idle.call = "none" /\ Idle.pc = "enter"
  BY DEF Idle, Place, Calls
<1>2. TypeOK
  BY <1>1 DEF Init, TypeOK, In
<1>3. \A t \in App : \A w : ~Starting(t, w) /\ ~Halting(t, w)
  BY <1>1 DEF Init, Starting, Halting, In
<1>4. \A w \in Worker : Live(w) = {} /\ quit[w] /\ lock[w] = "free"
  BY DEF Init, Live
<1>5. Owned /\ \A w \in Worker : Kept(w)
  BY <1>3, <1>4 DEF Owned, Kept, WhileStarting, WhileHalting, OnlyFuture, Stopped
<1>6. Solo
  BY DEF Init, Solo
<1>7. Sequential
  BY <1>1, <1>4 DEF Init, Sequential, ServiceFrames, Returned, Releasing, Initializing
<1> QED
  BY <1>2, <1>5, <1>6, <1>7 DEF Inv

(* The inductive invariant holds in every state of a node's life. *)
THEOREM Invariance == Spec => []Inv
<1>1. Inv /\ [Next]_vars => Inv'
  BY TypeStep, OwnedStep, KeptStep, SoloStep, SequentialStep DEF Inv
<1> QED
  BY InitInv, <1>1, PTL DEF Spec
-----------------------------------------------------------------------------
(***************************************************************************)
(* However many threads call Initialize and Release, and however the calls *)
(* overlap, a worker has one thread: the service always, unless stop()     *)
(* threw, the others unless they were started between the two halves of a  *)
(* stop (SinbohaSync::Stop and SinbohaBrainSplit::Stop wait without m_Lock).*)
(***************************************************************************)
THEOREM AtMostOneThread == Spec => []OneThread
<1>1. Inv => OneThread
  <2> SUFFICES ASSUME Inv, NEW w \in Worker, NEW g \in Live(w), NEW h \in Live(w), g # h
               PROVE  Exempt(w)
    BY DEF OneThread, Exempt
  <2>1. CASE \E t \in App : Starting(t, w)
    BY <2>1 DEF Inv, Kept, WhileStarting
  <2>2. CASE \A t \in App : ~Starting(t, w)
    BY <2>2 DEF Inv, Kept, OnlyFuture
  <2> QED
    BY <2>1, <2>2
<1> QED
  BY Invariance, <1>1, PTL

(* With no call under way nobody is between two steps of a worker, and the locks are free. *)
LEMMA QuietFacts ==
  ASSUME Inv, Quiet
  PROVE  /\ \A t \in App, w \in Worker : ~Starting(t, w) /\ ~Halting(t, w)
         /\ \A w \in Worker : lock[w] = "free"
<1>1. \A t \in App, w \in Worker : ~Starting(t, w) /\ ~Halting(t, w)
  BY EnterFacts DEF Quiet
<1> QED
  BY <1>1 DEF Inv, Owned, TypeOK

(***************************************************************************)
(* After calls one after the other, any number of them, a Release that     *)
(* returned (SinbohaImp::Release) has left no thread, no lock held and     *)
(* every m_Quit set, whatever came before it: an Initialize that           *)
(* succeeded, one that gave up half way, or none.                          *)
(***************************************************************************)
THEOREM ReleaseLeavesNothing == Spec => []ReleaseStopsAll
<1>1. Inv => ReleaseStopsAll
  BY QuietFacts DEF ReleaseStopsAll, Inv, Sequential, Returned
<1> QED
  BY Invariance, <1>1, PTL

(***************************************************************************)
(* After calls one after the other, an Initialize that returned OK has     *)
(* left the service, the primary heartbeat and the checker running, each   *)
(* on the one thread m_Future belongs to, or ended by the callback.        *)
(***************************************************************************)
THEOREM InitializeLeavesRunning == Spec => []StartedRuns
<1>1. Inv => StartedRuns
  <2> SUFFICES ASSUME Inv, ~overlapped, ~thrown, Quiet, last = "started",
                      NEW w \in Worker \ {"secondary"}
               PROVE  ~quit[w] /\ (w \in killed \/ Live(w) = {future[w]})
    BY DEF StartedRuns
  <2>1. ~quit[w]
    BY DEF Inv, Sequential, Returned
  <2>2. Live(w) \subseteq {future[w]} /\ (w \in killed \/ future[w] \in Live(w))
    BY <2>1, QuietFacts, KeptAlone DEF OnlyFuture
  <2> QED
    BY <2>1, <2>2
<1> QED
  BY Invariance, <1>1, PTL

(***************************************************************************)
(* In calls one after the other, the parameters that Start writes before   *)
(* it takes m_Lock (SinbohaSync::Start) are never those of a running       *)
(* worker.                                                                 *)
(***************************************************************************)
THEOREM ParametersAreFree == Spec => []NoOverwrite
<1>1. Inv => NoOverwrite
  <2> SUFFICES ASSUME Inv, ~overlapped, ~thrown, NEW t \in App, In(t, "Initialize", "enter"),
                      At(t) # "rpc"
               PROVE  quit[At(t)] /\ Live(At(t)) = {}
    BY DEF NoOverwrite
  <2>1. TypeOK /\ Initializing(t) /\ app[t].call = "Initialize" /\ app[t].pc = "enter"
    BY DEF Inv, Sequential, In
  <2>2. app[t].at \in 2 .. 4 /\ At(t) = Order[app[t].at] /\ At(t) \in Worker
    BY <2>1, AtFacts, OrderFacts DEF At
  <2>3. quit[At(t)]
    BY <2>1, <2>2 DEF Initializing
  <2> QED
    BY <2>1, <2>2, <2>3, StoppedAlone
<1> QED
  BY Invariance, <1>1, PTL
=============================================================================
