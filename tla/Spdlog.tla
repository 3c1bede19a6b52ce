------------------------------- MODULE Spdlog -------------------------------
(***************************************************************************)
(* The logging library under every component, at work: threads that log    *)
(* through synchronous and asynchronous loggers into one rotating file,    *)
(* the thread pool that serves the asynchronous ones, the periodic         *)
(* flusher, calls that change the registry, and shutdown.                  *)
(*                                                                         *)
(* A thread pool lives as long as somebody holds a shared_ptr to it: the   *)
(* registry, or a thread that is posting.  Whoever lets go of it last runs *)
(* its destructor, which posts one terminate message per worker and joins  *)
(* them.                                                                   *)
(***************************************************************************)
EXTENDS SpdlogQueue, SpdlogFile, SpdlogRegistry, SequencesExt

CONSTANTS
  Thread,     \* threads that log
  Worker,     \* threads of the pool
  MaxMessages, \* bound on the messages logged
  MethodOf,   \* MethodOf[m]: the method that logs the m-th message, "trace" to "critical"
  Policy,     \* Policy[l]: "sync", or the overflow policy of an async_logger
  Levels,     \* levels that are set
  FlushLevels, \* flush levels that are set
  QueueSize,  \* q_max_items
  MaxOps,     \* bound on the calls of the registry
  MaxRounds   \* bound on the rounds of the periodic worker

Message == 1 .. MaxMessages

ASSUME SpdlogAssumption ==
  /\ {"flusher", "registry", Null} \cap Thread = {}
  /\ QueueSize \in Nat \ {0} /\ MaxOps \in Nat /\ MaxRounds \in Nat /\ MaxMessages \in Nat
  /\ MethodOf \in [Message -> {"trace", "debug", "info", "warn", "error", "critical"}]
  /\ Policy \in [Logger -> {"sync", "block", "overrun"}]
  /\ Levels \cup FlushLevels \subseteq 0 .. Off
  /\ IsFiniteSet(Worker) /\ Worker # {}

(* The registry makes the default logger with an empty name. *)
ASSUME DefaultAssumption == \E l \in Logger : NameOf[l] = ""

VARIABLES
  reg,      \* the registry
  obj,      \* obj[l]: level and flush level of logger l, or NotMade
  pool,     \* refs: who holds a pointer to the pool; by: who destroys it
  q,        \* its queue
  worker,   \* worker[w]: what thread w of the pool is doing
  thread,   \* thread[t]: where t is in log()
  flusher,  \* the periodic worker: the loggers it has still to flush
  main,     \* where the program is in shutdown()
  sink,     \* the rotating file sink
  logged,   \* number of messages logged
  ops,      \* number of calls of the registry
  fifo,     \* history: the queue as it should be
  accepted, \* history: messages in the order the pool took them
  lost,     \* history: messages overrun in the queue
  failed,   \* history: messages that ended in the error handler
  written,  \* history: messages in the order they were written
  renamed,  \* history: no rename has failed
  missed,   \* history: messages that failed in a row, from a failed write on
  own       \* history: loggers whose level or registration is not the registry's

history == <<fifo, accepted, lost, failed, written, renamed, missed, own>>
vars == <<reg, obj, pool, q, worker, thread, flusher, main, sink, logged, ops, history>>

Default == CHOOSE l \in Logger : NameOf[l] = ""
NotMade == [level |-> Off + 1, flush |-> Off + 1]
NewLogger == [level |-> Info, flush |-> Off]

(* What a thread that logs or serves the pool is doing. *)
Doing(pc, l, m) == [pc |-> pc, logger |-> l, msg |-> m]
Idle == Doing("idle", Null, 0)

LogItem(l, m) == [type |-> "log", logger |-> l, msg |-> m]
FlushItem(l) == [type |-> "flush", logger |-> l]
Terminate == [type |-> "terminate"]

Init ==
  /\ reg = NewRegistry(Default)
  /\ obj = [l \in Logger |-> IF l = Default THEN NewLogger ELSE NotMade]
  /\ pool = [state |-> "none", refs |-> {}, by |-> Null, posted |-> 0]
  /\ q = NewQueue(QueueSize)
  /\ worker = [w \in Worker |-> Idle]
  /\ thread = [t \in Thread |-> Idle]
  /\ flusher = [pc |-> "none", todo |-> {}, logger |-> Null, rounds |-> 0]
  /\ main = "run"
  /\ sink \in NewSinks
  /\ logged = 0
  /\ ops = 0
  /\ fifo = <<>> /\ accepted = <<>> /\ lost = {} /\ failed = {} /\ written = <<>>
  /\ renamed = TRUE /\ missed = 0 /\ own = {}
-----------------------------------------------------------------------------
(* The registry.  flush_all keeps its mutex while it flushes. *)
MapFree == flusher.pc \in {"none", "wait"}

Operation ==
  /\ ops < MaxOps
  /\ MapFree
  /\ ops' = ops + 1
  /\ UNCHANGED <<q, worker, thread, main, sink, logged, fifo, accepted, lost, failed, written,
                 renamed, missed>>

(* Fault: initialize_logger does not set the level. *)
FaultInitialLevels == [level |-> Info, flush |-> reg.flushLevel]

(* What initialize_logger gives a new logger. *)
InitialLevels == [level |-> reg.level, flush |-> reg.flushLevel]

(* The factory of asynchronous loggers makes the pool if there is none. *)
MakePool ==
  IF "registry" \in pool.refs THEN UNCHANGED pool
  ELSE pool.state = "none" /\ pool' = [pool EXCEPT !.state = "up", !.refs = {"registry"}]

(* The factories: sink and logger are made, and the logger is registered unless its name is taken. *)
Create(l) ==
  /\ Operation
  /\ obj[l] = NotMade /\ MayInitialize(reg, l)
  /\ obj' = [obj EXCEPT ![l] = InitialLevels]
  /\ reg' = InitializeLogger(reg, l)
  /\ IF Policy[l] = "sync" THEN UNCHANGED pool ELSE MakePool
  /\ own' = IF reg.automatic THEN own ELSE own \cup {l}
  /\ UNCHANGED flusher

(* The factory of asynchronous loggers has made the pool by the time the name is found taken. *)
CreateFails(l) ==
  /\ Operation
  /\ obj[l] = NotMade /\ ~MayInitialize(reg, l)
  /\ IF Policy[l] = "sync" THEN UNCHANGED pool ELSE MakePool
  /\ UNCHANGED <<reg, obj, flusher, own>>

Register(l) ==
  /\ Operation
  /\ obj[l] # NotMade /\ MayRegister(reg, l)
  /\ reg' = RegisterLogger(reg, l)
  /\ own' = own \cup {l}
  /\ UNCHANGED <<obj, pool, flusher>>

MakeDefault(l) ==
  /\ Operation
  /\ l # Null => obj[l] # NotMade
  /\ reg' = SetDefaultLogger(reg, l)
  /\ own' = IF l = Null \/ Registered(reg, l) THEN own ELSE own \cup {l}
  /\ UNCHANGED <<obj, pool, flusher>>

DropLogger(n) ==
  /\ Operation
  /\ reg' = Drop(reg, n)
  /\ UNCHANGED <<obj, pool, flusher, own>>

(* set_level and flush_on reach the loggers of the map and those to come. *)
Reached(l) == obj[l] # NotMade /\ Registered(reg, l)

SetLevels(level) ==
  /\ Operation
  /\ reg' = SetLevel(reg, level)
  /\ obj' = [l \in Logger |-> IF Reached(l) THEN [level |-> level, flush |-> obj[l].flush] ELSE obj[l]]
  /\ UNCHANGED <<pool, flusher, own>>

SetFlushLevels(level) ==
  /\ Operation
  /\ reg' = FlushOn(reg, level)
  /\ obj' = [l \in Logger |-> IF Reached(l) THEN [level |-> obj[l].level, flush |-> level] ELSE obj[l]]
  /\ UNCHANGED <<pool, flusher, own>>

(* logger::set_level. *)
SetOwnLevel(l, level) ==
  /\ Operation
  /\ obj[l] # NotMade
  /\ obj' = [obj EXCEPT ![l] = [level |-> level, flush |-> @.flush]]
  /\ own' = own \cup {l}
  /\ UNCHANGED <<reg, pool, flusher>>

Automatic(b) ==
  /\ Operation
  /\ reg' = SetAutomaticRegistration(reg, b)
  /\ UNCHANGED <<obj, pool, flusher, own>>

(* flush_every: the periodic worker starts. *)
FlushEvery ==
  /\ Operation
  /\ main = "run" /\ flusher.pc = "none"
  /\ flusher' = [flusher EXCEPT !.pc = "wait"]
  /\ UNCHANGED <<reg, obj, pool, own>>
-----------------------------------------------------------------------------
(* Messages.  Each method of the logger has its level. *)
LevelOf(m) == IF MethodOf[m] = "error" THEN Level.err ELSE Level[MethodOf[m]]
ShouldLog(l, m) == LevelOf(m) >= obj[l].level
ShouldFlush(l, m) == LevelOf(m) >= obj[l].flush

(* weak_ptr::lock succeeds while somebody holds the pool. *)
Lock(h) == pool.refs # {} /\ pool' = [pool EXCEPT !.refs = @ \cup {h}]

(* h lets go of the pool; the last one has to destroy it. *)
IsLast(h) == pool.refs = {h}
Release(h) == pool' = [pool EXCEPT !.refs = @ \ {h}, !.by = IF IsLast(h) THEN h ELSE @]

(***************************************************************************)
(* log(): the level, and then the sink or the pool.  A text that cannot be *)
(* formatted and a pool that is gone end in the error handler.  The        *)
(* default logger writes to the console.                                   *)
(***************************************************************************)
Log(t, l, m) ==
  /\ thread[t] = Idle /\ m = logged + 1 /\ obj[l] # NotMade
  /\ logged' = m
  /\ \/ (~ShouldLog(l, m) \/ l = Default) /\ UNCHANGED <<thread, pool, failed>>
     \/ /\ ShouldLog(l, m) /\ Policy[l] = "sync" /\ l # Default
        /\ thread' = [thread EXCEPT ![t] = Doing("sink", l, m)]
        /\ UNCHANGED <<pool, failed>>
     \/ /\ ShouldLog(l, m) /\ Policy[l] # "sync" /\ Lock(t)
        /\ thread' = [thread EXCEPT ![t] = Doing("post", l, m)]
        /\ UNCHANGED failed
     \/ /\ ShouldLog(l, m)
        /\ failed' = failed \cup {m}
        /\ UNCHANGED <<thread, pool>>
  /\ UNCHANGED <<reg, obj, q, worker, flusher, main, sink, ops, fifo, accepted, lost,
                 written, renamed, missed, own>>

(* spdlog::log and its like: the default logger, which must not have been dropped. *)
LogDefault(t, m) == reg.default # Null /\ Log(t, reg.default, m)

(* base_sink::log, with one of its outcomes; an exception goes to the error handler. *)
SinkMessage(m, end) ==
  \E o \in SinkIt(sink, m, 1) :
    /\ end = o.end
    /\ sink' = o.sink
    /\ written' = IF end = "written" THEN Append(written, m) ELSE written
    /\ failed' = IF end = "written" THEN failed ELSE failed \cup {m}
    /\ renamed' = (renamed /\ end # "rename failed")
    /\ missed' = IF end = "written" \/ (missed = 0 /\ end # "write failed") THEN 0 ELSE missed + 1

End == {"written", "rename failed", "open failed", "write failed"}

(* logger::sink_it_: the message, and a flush if it was written and asks for one. *)
SinkStep(t) ==
  /\ thread[t].pc = "sink"
  /\ \E end \in End :
       /\ SinkMessage(thread[t].msg, end)
       /\ thread' = [thread EXCEPT ![t] =
            IF end = "written" /\ ShouldFlush(@.logger, @.msg) THEN Doing("flush", @.logger, @.msg) ELSE Idle]
  /\ UNCHANGED <<reg, obj, pool, q, worker, flusher, main, logged, ops, fifo, accepted, lost,
                 own>>

FlushStep(t) ==
  /\ thread[t].pc = "flush"
  /\ sink' = FlushFile(sink)
  /\ thread' = [thread EXCEPT ![t] = Idle]
  /\ UNCHANGED <<reg, obj, pool, q, worker, flusher, main, logged, ops, history>>

(* Fault: nobody waits for room. *)
FaultMayEnqueue(policy) == TRUE

(***************************************************************************)
(* The queue of the pool: enqueue waits for room, enqueue_nowait overruns  *)
(* the oldest item.                                                        *)
(***************************************************************************)
MayEnqueue(policy) == policy = "overrun" \/ ~Full(q)

Enqueue(item) ==
  /\ q' = PushBack(q, item)
  /\ fifo' = IF Len(fifo) = QueueSize THEN Append(Tail(fifo), item) ELSE Append(fifo, item)
  /\ lost' = IF Len(fifo) = QueueSize /\ Head(fifo).type = "log"
             THEN lost \cup {Head(fifo).msg} ELSE lost

(* async_logger::sink_it_ posts the message and lets go of the pool. *)
Post(t) ==
  /\ thread[t].pc = "post"
  /\ MayEnqueue(Policy[thread[t].logger])
  /\ Enqueue(LogItem(thread[t].logger, thread[t].msg))
  /\ accepted' = Append(accepted, thread[t].msg)
  /\ thread' = [thread EXCEPT ![t] = IF IsLast(t) THEN Doing("destroy", Null, 0) ELSE Idle]
  /\ Release(t)
  /\ UNCHANGED <<reg, obj, worker, flusher, main, sink, logged, ops, failed, written,
                 renamed, missed, own>>

(* Fault: ~thread_pool leaves one worker out. *)
FaultTerminations == Cardinality(Worker) - 1

(* ~thread_pool posts one terminate message for every worker. *)
Terminations == Cardinality(Worker)

PostTerminate ==
  /\ pool.by # Null /\ pool.posted < Terminations
  /\ MayEnqueue("block")
  /\ Enqueue(Terminate)
  /\ pool' = [pool EXCEPT !.posted = @ + 1]
  /\ UNCHANGED <<reg, obj, worker, thread, flusher, main, sink, logged, ops, accepted,
                 failed, written, renamed, missed, own>>

(* ~thread_pool has joined all workers, and whoever ran it goes on. *)
Join ==
  /\ pool.by # Null /\ pool.posted = Terminations
  /\ \A w \in Worker : worker[w].pc = "done"
  /\ pool' = [pool EXCEPT !.state = "gone", !.by = Null]
  /\ thread' = [t \in Thread |-> IF t = pool.by THEN Idle ELSE thread[t]]
  /\ flusher' = IF pool.by = "flusher" THEN [flusher EXCEPT !.pc = "all"] ELSE flusher
  /\ main' = IF pool.by = "registry" THEN "done" ELSE main
  /\ UNCHANGED <<reg, obj, q, worker, sink, logged, ops, history>>
-----------------------------------------------------------------------------
(* process_next_msg_ takes the next item. *)
Dequeue(w) ==
  /\ pool.state = "up" /\ worker[w] = Idle /\ ~Empty(q)
  /\ LET item == Oldest(q) IN
       worker' = [worker EXCEPT ![w] =
         CASE item.type = "log" -> Doing("log", item.logger, item.msg)
           [] item.type = "flush" -> Doing("flush", Null, 0)
           [] item.type = "terminate" -> Doing("done", Null, 0)]
  /\ q' = PopFront(q)
  /\ fifo' = Tail(fifo)
  /\ UNCHANGED <<reg, obj, pool, thread, flusher, main, sink, logged, ops, accepted, lost, failed,
                 written, renamed, missed, own>>

(* backend_log_ flushes even after an exception. *)
BackendLog(w) ==
  /\ worker[w].pc = "log"
  /\ \E end \in End : SinkMessage(worker[w].msg, end)
  /\ worker' = [worker EXCEPT ![w] =
       IF ShouldFlush(@.logger, @.msg) THEN Doing("flush", Null, 0) ELSE Idle]
  /\ UNCHANGED <<reg, obj, pool, q, thread, flusher, main, logged, ops, fifo, accepted, lost,
                 own>>

BackendFlush(w) ==
  /\ worker[w].pc = "flush"
  /\ sink' = FlushFile(sink)
  /\ worker' = [worker EXCEPT ![w] = Idle]
  /\ UNCHANGED <<reg, obj, pool, q, thread, flusher, main, logged, ops, history>>
-----------------------------------------------------------------------------
(* The periodic worker: flush_all locks the map and takes every logger of it. *)
FlushAll ==
  /\ flusher.pc = "wait" /\ flusher.rounds < MaxRounds
  /\ flusher' = [flusher EXCEPT !.pc = "all", !.rounds = @ + 1, !.todo = {l \in Logger : Registered(reg, l)}]
  /\ UNCHANGED <<reg, obj, pool, q, worker, thread, main, sink, logged, ops, history>>

FlushNext(l) ==
  /\ flusher.pc = "all" /\ l \in flusher.todo
  /\ \/ /\ Policy[l] = "sync" \/ pool.refs = {}
        /\ sink' = IF Policy[l] = "sync" /\ l # Default THEN FlushFile(sink) ELSE sink
        /\ flusher' = [flusher EXCEPT !.todo = @ \ {l}] /\ UNCHANGED pool
     \/ /\ Policy[l] # "sync" /\ Lock("flusher")
        /\ flusher' = [flusher EXCEPT !.pc = "post", !.todo = @ \ {l}, !.logger = l] /\ UNCHANGED sink
  /\ UNCHANGED <<reg, obj, q, worker, thread, main, logged, ops, history>>

FlushPost ==
  /\ flusher.pc = "post"
  /\ MayEnqueue(Policy[flusher.logger])
  /\ Enqueue(FlushItem(flusher.logger))
  /\ UNCHANGED accepted
  /\ flusher' = [flusher EXCEPT !.pc = IF IsLast("flusher") THEN "destroy" ELSE "all", !.logger = Null]
  /\ Release("flusher")
  /\ UNCHANGED <<reg, obj, worker, thread, main, sink, logged, ops, failed, written,
                 renamed, missed, own>>

FlushDone ==
  /\ flusher.pc = "all" /\ flusher.todo = {}
  /\ flusher' = [flusher EXCEPT !.pc = "wait"]
  /\ UNCHANGED <<reg, obj, pool, q, worker, thread, main, sink, logged, ops, history>>
-----------------------------------------------------------------------------
(* shutdown: the periodic worker is stopped and joined, the loggers dropped, the pool let go. *)
StopFlusher ==
  /\ main = "run"
  /\ main' = "join"
  /\ UNCHANGED <<reg, obj, pool, q, worker, thread, flusher, sink, logged, ops, history>>

(* ~periodic_worker waits for a round of the worker to end. *)
JoinFlusher ==
  /\ main = "join" /\ flusher.pc \in {"none", "wait"}
  /\ flusher' = [flusher EXCEPT !.pc = "none"]
  /\ main' = "drop"
  /\ UNCHANGED <<reg, obj, pool, q, worker, thread, sink, logged, ops, history>>

DropLoggers ==
  /\ main = "drop" /\ MapFree
  /\ reg' = DropAll(reg)
  /\ main' = "tp"
  /\ UNCHANGED <<obj, pool, q, worker, thread, flusher, sink, logged, ops, history>>

ResetPool ==
  /\ main = "tp"
  /\ main' = IF IsLast("registry") THEN "destroy" ELSE "done"
  /\ Release("registry")
  /\ UNCHANGED <<reg, obj, q, worker, thread, flusher, sink, logged, ops, history>>

Admin ==
  \/ \E l \in Logger : Create(l) \/ CreateFails(l) \/ Register(l)
  \/ \E l \in Logger \cup {Null} : MakeDefault(l)
  \/ \E n \in Name : DropLogger(n)
  \/ \E level \in Levels : SetLevels(level)
  \/ \E level \in FlushLevels : SetFlushLevels(level)
  \/ \E l \in Logger, level \in Levels : SetOwnLevel(l, level)
  \/ \E b \in BOOLEAN : Automatic(b)
  \/ FlushEvery

ThreadStep(t) ==
  \/ \E m \in Message : LogDefault(t, m) \/ \E l \in Logger : Log(t, l, m)
  \/ SinkStep(t) \/ FlushStep(t) \/ Post(t)

WorkerStep(w) == Dequeue(w) \/ BackendLog(w) \/ BackendFlush(w)
PoolStep == PostTerminate \/ Join
FlusherStep == FlushAll \/ (\E l \in Logger : FlushNext(l)) \/ FlushPost \/ FlushDone
Shutdown == StopFlusher \/ JoinFlusher \/ DropLoggers \/ ResetPool

Next ==
  \/ Admin
  \/ \E t \in Thread : ThreadStep(t)
  \/ \E w \in Worker : WorkerStep(w)
  \/ PoolStep \/ FlusherStep \/ Shutdown

Spec == Init /\ [][Next]_vars

(* Threads run; nobody has to log, to change the registry or to shut down. *)
Fairness ==
  /\ \A t \in Thread : WF_vars(SinkStep(t) \/ FlushStep(t) \/ Post(t))
  /\ \A w \in Worker : WF_vars(WorkerStep(w))
  /\ WF_vars(PoolStep)
  /\ WF_vars((\E l \in Logger : FlushNext(l)) \/ FlushPost \/ FlushDone)
  /\ WF_vars(main # "run" /\ Shutdown)

FairSpec == Spec /\ Fairness
-----------------------------------------------------------------------------
(***************************************************************************)
(* The default logger can be found under its name: default_logger_ and the *)
(* map agree, whatever is registered, dropped and made default.            *)
(***************************************************************************)
DefaultIsRegistered == reg.default # Null => Registered(reg, reg.default)

(***************************************************************************)
(* A logger that a factory registered has the level of the registry,       *)
(* however the two were set, unless its own level was set.                 *)
(***************************************************************************)
LevelsFollow ==
  \A l \in Logger \ own : Registered(reg, l) => obj[l].level = reg.level

(***************************************************************************)
(* The ring of slots is a queue of at most QueueSize items that loses its  *)
(* oldest item to a push that does not wait.                               *)
(***************************************************************************)
CircularIsFifo == Items(q) = fifo

(***************************************************************************)
(* A message the pool took is written, or ends in the error handler, or is *)
(* overrun; it is overrun only if some logger does not wait for room; and  *)
(* when the pool is gone nothing is left in its queue.                     *)
(***************************************************************************)
Queued == {Items(q)[i].msg : i \in {j \in DOMAIN Items(q) : Items(q)[j].type = "log"}}
InHand == {worker[w].msg : w \in {v \in Worker : worker[v].pc = "log"}}

NothingVanishes ==
  /\ ToSet(accepted) \subseteq Queued \cup InHand \cup ToSet(written) \cup failed \cup lost
  /\ lost # {} => \E l \in Logger : obj[l] # NotMade /\ Policy[l] = "overrun"
  /\ pool.state = "gone" => Empty(q)

(***************************************************************************)
(* One worker writes the messages of the asynchronous loggers in the order *)
(* they were posted, although rotations and writes in between may fail.    *)
(***************************************************************************)
OrderIsKept ==
  Cardinality(Worker) = 1 =>
    \A a, b \in DOMAIN written, i, j \in DOMAIN accepted :
      a < b /\ written[a] = accepted[i] /\ written[b] = accepted[j] => i < j

(***************************************************************************)
(* A closed file is never written to: after a rotation that could not open *)
(* the file again, the size still asks for a rotation.  No file grows      *)
(* beyond max_size or one message.                                         *)
(***************************************************************************)
Longest == IF MaxSize = 0 THEN 1 ELSE MaxSize

SinkIsSafe ==
  /\ ~sink.open => sink.size + 1 > MaxSize
  /\ \A i \in 0 .. MaxFiles : Exists(sink.file[i]) => Len(sink.file[i]) <= Longest

(***************************************************************************)
(* As long as no rename failed, the files, read from the oldest to the     *)
(* newest, are the end of what was written: it can be cut so that log.i is *)
(* the piece between the cuts i + 1 and i.  And they are not nothing,      *)
(* however often log could not be opened, unless more than max_files       *)
(* messages in a row failed from a failed write on: a failed write leaves  *)
(* an empty log, which the next messages rotate like a full one.           *)
(***************************************************************************)
Content(i) == IF Exists(sink.file[i]) THEN sink.file[i] ELSE <<>>

FilesAreTheEnd ==
  renamed =>
    \E cut \in [0 .. MaxFiles + 1 -> 0 .. Len(written)] :
      /\ cut[0] = Len(written)
      /\ \A i \in 0 .. MaxFiles :
           cut[i + 1] <= cut[i] /\ Content(i) = SubSeq(written, cut[i + 1] + 1, cut[i])
      /\ written # <<>> /\ missed <= MaxFiles => cut[MaxFiles + 1] < cut[0]

(***************************************************************************)
(* shutdown returns once it has begun, and so does every log(), although   *)
(* they wait for room in the queue, for a flusher that is posting with the *)
(* map locked, and for the workers.                                        *)
(***************************************************************************)
ShutdownReturns ==
  /\ main # "run" ~> main = "done"
  /\ \A t \in Thread : thread[t] # Idle ~> thread[t] = Idle
=============================================================================
