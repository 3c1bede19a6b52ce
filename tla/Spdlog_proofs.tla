---------------------------- MODULE Spdlog_proofs ----------------------------
(***************************************************************************)
(* Proofs about Spdlog, for any loggers, threads, levels and sizes: the    *)
(* registry (Catalogue), the ring of the queue (Queue), the threads that   *)
(* log, flush and serve (Callers, Flushing, Servers), the end of the pool  *)
(* (Holders, Ending), the fate of every message (Accounted) and the        *)
(* rotating file (Safe), together one inductive invariant (Working).  On   *)
(* top of it, what the histories say: every message is logged and taken    *)
(* once (Numbered), one worker keeps their order (Lined), and the files    *)
(* are pieces of what was written (Archived).                              *)
(***************************************************************************)
EXTENDS Spdlog, FiniteSetTheorems, TLAPS

-----------------------------------------------------------------------------
(* The registry.  A logger that was made has one of the levels. *)
Registry == [loggers : [Name -> Logger \cup {Null}], default : Logger \cup {Null},
             level : 0 .. 6, flushLevel : 0 .. 6, automatic : BOOLEAN]
Object == [level : 0 .. 7, flush : 0 .. 7]
Made(l) == obj[l].level \in 0 .. 6

(* Only loggers that were made are registered. *)
Catalogue ==
  /\ reg \in Registry
  /\ obj \in [Logger -> Object]
  /\ \A l \in Logger : obj[l] = NotMade \/ Made(l)
  /\ \A l \in Logger : Registered(reg, l) => Made(l)
  /\ DefaultIsRegistered
  /\ LevelsFollow

LEMMA LevelFacts == Off = 6 /\ Info = 2 /\ NotMade.level = 7 /\ Default \in Logger
<1>1. Off = 6 /\ Info = 2
  BY DEF Off, Info, Level
<1>2. Default \in Logger
  BY DefaultAssumption, Zenon DEF Default
<1>3. NotMade.level = 7
  BY <1>1 DEF NotMade
<1> QED
  BY <1>1, <1>2, <1>3

(* register_logger_ stores the logger under its name. *)
LEMMA RegisterFacts ==
  ASSUME NEW r \in Registry, NEW l \in Logger
  PROVE  /\ RegisterLogger(r, l) \in Registry
         /\ RegisterLogger(r, l).default = r.default /\ RegisterLogger(r, l).level = r.level
         /\ RegisterLogger(r, l).loggers = [r.loggers EXCEPT ![NameOf[l]] = l]
  BY DEF RegisterLogger, Registry, Name

(* set_default_logger erases the name of the old one before it stores the new one. *)
LEMMA SetDefaultFacts ==
  ASSUME NEW r \in Registry, NEW l \in Logger \cup {Null}
  PROVE  /\ SetDefaultLogger(r, l) \in Registry
         /\ SetDefaultLogger(r, l).default = l /\ SetDefaultLogger(r, l).level = r.level
         /\ l # Null => SetDefaultLogger(r, l).loggers[NameOf[l]] = l
         /\ \A n \in Name : \/ SetDefaultLogger(r, l).loggers[n] = r.loggers[n]
                            \/ SetDefaultLogger(r, l).loggers[n] = Null
                            \/ SetDefaultLogger(r, l).loggers[n] = l
<1> DEFINE erased == IF r.default = Null THEN r.loggers
                     ELSE [r.loggers EXCEPT ![NameOf[r.default]] = Null]
           stored == IF l = Null THEN erased ELSE [erased EXCEPT ![NameOf[l]] = l]
<1>1. /\ erased \in [Name -> Logger \cup {Null}]
      /\ \A n \in Name : erased[n] = r.loggers[n] \/ erased[n] = Null
  BY DEF Registry
<1>2. /\ stored \in [Name -> Logger \cup {Null}]
      /\ \A n \in Name : stored[n] = erased[n] \/ stored[n] = l
      /\ l # Null => stored[NameOf[l]] = l
  BY <1>1 DEF Name
<1>3. SetDefaultLogger(r, l) = [r EXCEPT !.loggers = stored, !.default = l]
  BY DEF SetDefaultLogger
<1> HIDE DEF stored, erased
<1>4. /\ SetDefaultLogger(r, l).loggers = stored /\ SetDefaultLogger(r, l).default = l
      /\ SetDefaultLogger(r, l).level = r.level
  BY <1>3 DEF Registry
<1>5. SetDefaultLogger(r, l) \in Registry
  BY <1>2, <1>3 DEF Registry
<1> QED
  BY <1>1, <1>2, <1>4, <1>5

(* drop removes a name, and the default logger if it has that name. *)
LEMMA DropFacts ==
  ASSUME NEW r \in Registry, NEW n \in Name
  PROVE  /\ Drop(r, n) \in Registry /\ Drop(r, n).level = r.level
         /\ Drop(r, n).loggers = [r.loggers EXCEPT ![n] = Null]
         /\ Drop(r, n).default = IF r.default # Null /\ NameOf[r.default] = n THEN Null ELSE r.default
  BY DEF Drop, Registry

(* drop_all removes them all. *)
LEMMA DropAllFacts ==
  ASSUME NEW r \in Registry
  PROVE  /\ DropAll(r) \in Registry /\ DropAll(r).level = r.level
         /\ DropAll(r).loggers = [k \in Name |-> Null] /\ DropAll(r).default = Null
  BY DEF DropAll, Registry

(* A step that leaves registered and made what was so, and no level behind. *)
LEMMA CatalogueByLoggers ==
  ASSUME Catalogue, reg' \in Registry, UNCHANGED obj, reg'.level = reg.level, own \subseteq own',
         DefaultIsRegistered',
         \A l \in Logger : Registered(reg, l)' => Registered(reg, l) \/ (l \in own' /\ Made(l))
  PROVE  Catalogue'
<1>1. \A l \in Logger : Registered(reg, l)' => Made(l)'
  BY DEF Catalogue, Made
<1>2. LevelsFollow'
  BY DEF Catalogue, LevelsFollow
<1> QED
  BY <1>1, <1>2 DEF Catalogue, Made

LEMMA CatalogueStep == Catalogue /\ [Next]_vars => Catalogue'
<1> SUFFICES ASSUME Catalogue, [Next]_vars
             PROVE  Catalogue'
  OBVIOUS
<1>t. /\ reg \in Registry
      /\ obj \in [Logger -> Object]
      /\ \A l \in Logger : obj[l] = NotMade \/ Made(l)
      /\ \A l \in Logger : Registered(reg, l) => Made(l)
      /\ DefaultIsRegistered /\ LevelsFollow
  BY DEF Catalogue
<1>n. Null \notin Logger /\ \A l \in Logger : NameOf[l] \in Name
  BY RegistryAssumption DEF Name
<1>l. \A level \in Levels \cup FlushLevels : level \in 0 .. 6
  BY SpdlogAssumption, LevelFacts
<1>u. ASSUME UNCHANGED <<reg, obj, own>> PROVE Catalogue'
  BY <1>u DEF Catalogue, Made, DefaultIsRegistered, LevelsFollow
<1>r. ASSUME NEW l \in Logger, MayRegister(reg, l), reg' = RegisterLogger(reg, l)
      PROVE  /\ reg' \in Registry /\ reg'.level = reg.level /\ DefaultIsRegistered'
             /\ \A k \in Logger : Registered(reg, k)' => Registered(reg, k) \/ k = l
             /\ Registered(reg, l)'
  <2>1. /\ reg' \in Registry /\ reg'.default = reg.default /\ reg'.level = reg.level
        /\ reg'.loggers = [reg.loggers EXCEPT ![NameOf[l]] = l]
    BY <1>t, <1>r, RegisterFacts
  <2>2. /\ reg.loggers[NameOf[l]] = Null /\ reg'.loggers[NameOf[l]] = l
        /\ \A n \in Name \ {NameOf[l]} : reg'.loggers[n] = reg.loggers[n]
    BY <1>t, <1>n, <1>r, <2>1 DEF MayRegister, Registry
  <2>3. \A k \in Logger : Registered(reg, k)' => Registered(reg, k) \/ k = l
    BY <1>n, <2>2 DEF Registered
  <2>4. DefaultIsRegistered'
    <3>1. CASE reg.default = Null
      BY <2>1, <3>1 DEF DefaultIsRegistered
    <3>2. CASE reg.default # Null
      BY <1>t, <1>n, <2>1, <2>2, <3>2 DEF DefaultIsRegistered, Registered, Registry
    <3> QED
      BY <3>1, <3>2
  <2> QED
    BY <2>1, <2>2, <2>3, <2>4 DEF Registered
<1>1. ASSUME NEW l \in Logger, Create(l) PROVE Catalogue'
  <2>1. /\ obj' = [obj EXCEPT ![l] = InitialLevels] /\ obj[l] = NotMade
        /\ reg' = InitializeLogger(reg, l) /\ MayInitialize(reg, l)
        /\ own' = IF reg.automatic THEN own ELSE own \cup {l}
    BY <1>1 DEF Create
  <2>2. /\ InitialLevels.level = reg.level /\ reg.level \in 0 .. 6
        /\ InitialLevels \in Object
    <3>1. reg.level \in 0 .. 6 /\ reg.flushLevel \in 0 .. 6
      BY <1>t DEF Registry
    <3> QED
      BY <3>1 DEF InitialLevels, Object
  <2>3. /\ obj' \in [Logger -> Object]
        /\ obj'[l].level = reg.level /\ \A k \in Logger \ {l} : obj'[k] = obj[k]
    BY <1>t, <2>1, <2>2
  <2>4. ~Made(l) /\ ~Registered(reg, l)
    BY <1>t, <2>1, LevelFacts DEF Made
  <2>5. /\ reg' \in Registry /\ reg'.level = reg.level /\ DefaultIsRegistered'
        /\ \A k \in Logger : Registered(reg, k)' => Registered(reg, k) \/ k = l
    <3>1. CASE reg.automatic
      BY <1>r, <2>1, <3>1 DEF MayInitialize, InitializeLogger
    <3>2. CASE ~reg.automatic
      BY <1>t, <2>1, <3>2 DEF InitializeLogger, DefaultIsRegistered
    <3> QED
      BY <3>1, <3>2
  <2>6. \A k \in Logger : Registered(reg, k)' => Made(k)'
    BY <1>t, <2>2, <2>3, <2>5 DEF Made
  <2>7. \A k \in Logger : obj'[k] = NotMade \/ Made(k)'
    BY <1>t, <2>2, <2>3 DEF Made
  <2>8. LevelsFollow'
    BY <1>t, <2>1, <2>3, <2>5 DEF LevelsFollow
  <2> QED
    BY <2>3, <2>5, <2>6, <2>7, <2>8 DEF Catalogue
<1>2. ASSUME NEW l \in Logger, Register(l) PROVE Catalogue'
  <2>1. /\ MayRegister(reg, l) /\ reg' = RegisterLogger(reg, l) /\ own' = own \cup {l}
        /\ UNCHANGED obj /\ obj[l] # NotMade
    BY <1>2 DEF Register
  <2> QED
    BY <1>t, <1>r, <2>1, CatalogueByLoggers
<1>3. ASSUME NEW l \in Logger \cup {Null}, MakeDefault(l) PROVE Catalogue'
  <2>1. /\ reg' = SetDefaultLogger(reg, l) /\ UNCHANGED obj /\ (l # Null => obj[l] # NotMade)
        /\ own' = IF l = Null \/ Registered(reg, l) THEN own ELSE own \cup {l}
    BY <1>3 DEF MakeDefault
  <2>2. /\ reg' \in Registry /\ reg'.default = l /\ reg'.level = reg.level
        /\ l # Null => reg'.loggers[NameOf[l]] = l
        /\ \A n \in Name : \/ reg'.loggers[n] = reg.loggers[n] \/ reg'.loggers[n] = Null
                             \/ reg'.loggers[n] = l
    BY <1>t, <2>1, SetDefaultFacts
  <2>3. DefaultIsRegistered'
    BY <2>2 DEF DefaultIsRegistered, Registered
  <2>4. ASSUME NEW k \in Logger, Registered(reg, k)'
        PROVE  Registered(reg, k) \/ (k \in own' /\ Made(k))
    BY <1>t, <1>n, <2>1, <2>2, <2>4 DEF Registered
  <2> QED
    BY <2>1, <2>2, <2>3, <2>4, CatalogueByLoggers
<1>4. ASSUME NEW n \in Name, reg' = Drop(reg, n) \/ reg' = DropAll(reg), UNCHANGED <<obj, own>>
      PROVE  Catalogue'
  <2>1. /\ reg' \in Registry /\ reg'.level = reg.level
        /\ \A k \in Name : reg'.loggers[k] = reg.loggers[k] \/ reg'.loggers[k] = Null
    <3>1. /\ reg' \in Registry /\ reg'.level = reg.level
          /\ reg'.loggers = [reg.loggers EXCEPT ![n] = Null] \/ reg'.loggers = [k \in Name |-> Null]
      <4>1. CASE reg' = Drop(reg, n)
        BY <1>t, <4>1, DropFacts
      <4>2. CASE reg' = DropAll(reg)
        BY <1>t, <4>2, DropAllFacts
      <4> QED
        BY <1>4, <4>1, <4>2
    <3>2. reg.loggers \in [Name -> Logger \cup {Null}]
      BY <1>t DEF Registry
    <3> QED
      BY <3>1, <3>2
  <2>2. DefaultIsRegistered'
    <3>1. CASE reg' = Drop(reg, n)
      <4>1. /\ reg'.loggers = [reg.loggers EXCEPT ![n] = Null]
            /\ reg'.default = IF reg.default # Null /\ NameOf[reg.default] = n THEN Null ELSE reg.default
        BY <1>t, <3>1, DropFacts
      <4>2. reg.default # Null => NameOf[reg.default] \in Name
        BY <1>t, <1>n DEF Registry
      <4>3. reg.loggers \in [Name -> Logger \cup {Null}]
        BY <1>t DEF Registry
      <4> QED
        BY <1>t, <4>1, <4>2, <4>3 DEF DefaultIsRegistered, Registered
    <3>2. CASE reg' = DropAll(reg)
      BY <1>t, <3>2, DropAllFacts DEF DefaultIsRegistered
    <3> QED
      BY <1>4, <3>1, <3>2
  <2>3. \A k \in Logger : Registered(reg, k)' => Registered(reg, k)
    BY <1>n, <2>1 DEF Registered
  <2> QED
    BY <1>4, <2>1, <2>2, <2>3, CatalogueByLoggers
<1>5. ASSUME NEW level \in Levels, SetLevels(level) PROVE Catalogue'
  <2>1. /\ reg' = [reg EXCEPT !.level = level] /\ UNCHANGED own /\ level \in 0 .. 6
        /\ obj' = [l \in Logger |-> IF Reached(l) THEN [level |-> level, flush |-> obj[l].flush] ELSE obj[l]]
    BY <1>l, <1>5 DEF SetLevels, SetLevel
  <2>2. reg' \in Registry /\ reg'.loggers = reg.loggers /\ reg'.default = reg.default /\ reg'.level = level
    BY <1>t, <2>1 DEF Registry
  <2>3. obj' \in [Logger -> Object]
    BY <1>t, <2>1 DEF Object
  <2>4. ASSUME NEW l \in Logger
        PROVE  /\ Registered(reg, l)' <=> Registered(reg, l)
               /\ Registered(reg, l) => obj'[l].level = level
               /\ ~Registered(reg, l) => obj'[l] = obj[l]
    BY <1>t, <2>1, <2>2, LevelFacts DEF Registered, Reached, Made
  <2>5. DefaultIsRegistered'
    BY <1>t, <2>2 DEF DefaultIsRegistered, Registered
  <2>6. LevelsFollow'
    BY <2>2, <2>4 DEF LevelsFollow
  <2>7. \A l \in Logger : (obj'[l] = NotMade \/ Made(l)') /\ (Registered(reg, l)' => Made(l)')
    BY <1>t, <2>1, <2>4 DEF Made
  <2> QED
    BY <2>2, <2>3, <2>5, <2>6, <2>7 DEF Catalogue
<1>6. ASSUME NEW level \in FlushLevels, SetFlushLevels(level) PROVE Catalogue'
  <2>1. /\ reg' = [reg EXCEPT !.flushLevel = level] /\ UNCHANGED own /\ level \in 0 .. 6
        /\ obj' = [l \in Logger |-> IF Reached(l) THEN [level |-> obj[l].level, flush |-> level] ELSE obj[l]]
    BY <1>l, <1>6 DEF SetFlushLevels, FlushOn
  <2>2. /\ reg' \in Registry /\ reg'.loggers = reg.loggers /\ reg'.default = reg.default
        /\ reg'.level = reg.level
    BY <1>t, <2>1 DEF Registry
  <2>3. /\ obj' \in [Logger -> Object]
        /\ \A l \in Logger : obj'[l].level = obj[l].level
        /\ \A l \in Logger : obj[l] = NotMade => obj'[l] = NotMade
    BY <1>t, <2>1 DEF Reached, Object
  <2>4. DefaultIsRegistered' /\ \A l \in Logger : Registered(reg, l)' <=> Registered(reg, l)
    BY <1>t, <2>2 DEF DefaultIsRegistered, Registered
  <2>5. LevelsFollow'
    BY <1>t, <2>1, <2>2, <2>3, <2>4 DEF LevelsFollow
  <2>6. \A l \in Logger : (obj'[l] = NotMade \/ Made(l)') /\ (Registered(reg, l)' => Made(l)')
    BY <1>t, <2>3, <2>4 DEF Made
  <2> QED
    BY <2>2, <2>3, <2>4, <2>5, <2>6 DEF Catalogue
<1>7. ASSUME NEW l \in Logger, NEW level \in Levels, SetOwnLevel(l, level) PROVE Catalogue'
  <2>1. /\ obj' = [obj EXCEPT ![l] = [level |-> level, flush |-> obj[l].flush]] /\ own' = own \cup {l} /\ UNCHANGED reg
        /\ level \in 0 .. 6
    BY <1>l, <1>7 DEF SetOwnLevel
  <2>2. /\ obj' \in [Logger -> Object]
        /\ obj'[l].level = level /\ \A k \in Logger \ {l} : obj'[k] = obj[k]
    BY <1>t, <2>1 DEF Object
  <2>3. DefaultIsRegistered' /\ \A k \in Logger : Registered(reg, k)' <=> Registered(reg, k)
    BY <1>t, <2>1 DEF DefaultIsRegistered
  <2>4. LevelsFollow'
    BY <1>t, <2>1, <2>2, <2>3 DEF LevelsFollow
  <2>5. \A k \in Logger : (obj'[k] = NotMade \/ Made(k)') /\ (Registered(reg, k)' => Made(k)')
    BY <1>t, <2>1, <2>2, <2>3 DEF Made
  <2> QED
    BY <1>t, <2>1, <2>2, <2>3, <2>4, <2>5 DEF Catalogue
<1>8. ASSUME NEW b \in BOOLEAN, Automatic(b) PROVE Catalogue'
  <2>1. reg' = [reg EXCEPT !.automatic = b] /\ UNCHANGED <<obj, own>>
    BY <1>8 DEF Automatic, SetAutomaticRegistration
  <2>2. /\ reg' \in Registry /\ reg'.loggers = reg.loggers /\ reg'.default = reg.default
        /\ reg'.level = reg.level
    BY <1>t, <2>1 DEF Registry
  <2>3. DefaultIsRegistered' /\ \A l \in Logger : Registered(reg, l)' => Registered(reg, l)
    BY <1>t, <2>2 DEF DefaultIsRegistered, Registered
  <2> QED
    BY <2>1, <2>2, <2>3, CatalogueByLoggers
<1>9. CASE Admin
  <2>1. ASSUME NEW n \in Name, DropLogger(n) PROVE Catalogue'
    BY <1>4, <2>1 DEF DropLogger
  <2>2. ASSUME FlushEvery \/ \E l \in Logger : CreateFails(l) PROVE Catalogue'
    BY <1>u, <2>2 DEF FlushEvery, CreateFails
  <2> QED
    BY <1>1, <1>2, <1>3, <1>5, <1>6, <1>7, <1>8, <1>9, <2>1, <2>2 DEF Admin
<1>10. CASE Shutdown
  <2>1. CASE DropLoggers
    BY <1>4, <1>n, <2>1, LevelFacts DEF DropLoggers, history
  <2>2. CASE StopFlusher \/ JoinFlusher \/ ResetPool
    BY <1>u, <2>2 DEF StopFlusher, JoinFlusher, ResetPool, history
  <2> QED
    BY <1>10, <2>1, <2>2 DEF Shutdown
<1>11. ASSUME NEW t \in Thread, ThreadStep(t) PROVE Catalogue'
  BY <1>u, <1>11 DEF ThreadStep, LogDefault, Log, SinkStep, FlushStep, Post, history
<1>12. ASSUME NEW w \in Worker, WorkerStep(w) PROVE Catalogue'
  BY <1>u, <1>12 DEF WorkerStep, Dequeue, BackendLog, BackendFlush, history
<1>13. CASE PoolStep \/ FlusherStep
  BY <1>u, <1>13 DEF PoolStep, PostTerminate, Join, FlusherStep, FlushAll, FlushNext, FlushPost,
     FlushDone, history
<1>14. CASE UNCHANGED vars
  BY <1>u, <1>14 DEF vars, history
<1> QED
  BY <1>9, <1>10, <1>11, <1>12, <1>13, <1>14 DEF Next

LEMMA CatalogueInit == Init => Catalogue
<1> SUFFICES ASSUME Init PROVE Catalogue
  OBVIOUS
<1>1. /\ reg = [loggers |-> [n \in Name |-> IF n = NameOf[Default] THEN Default ELSE Null],
                default |-> Default, level |-> Info, flushLevel |-> Off, automatic |-> TRUE]
      /\ obj = [l \in Logger |-> IF l = Default THEN NewLogger ELSE NotMade]
  BY LevelFacts DEF Init, NewRegistry
<1>2. reg \in Registry /\ reg.default = Default /\ reg.level = Info
  BY <1>1, LevelFacts DEF Registry
<1>3. \A l \in Logger : Registered(reg, l) <=> l = Default
  BY <1>1, LevelFacts, RegistryAssumption DEF Registered, Name
<1>4. /\ obj \in [Logger -> Object]
      /\ obj[Default].level = Info /\ \A l \in Logger \ {Default} : obj[l] = NotMade
  BY <1>1, LevelFacts DEF NewLogger, NotMade, Object
<1> QED
  BY <1>2, <1>3, <1>4, LevelFacts DEF Catalogue, Made, DefaultIsRegistered, LevelsFollow

LEMMA CatalogueInvariance == Spec => []Catalogue
  BY CatalogueInit, CatalogueStep, PTL DEF Spec

(***************************************************************************)
(* default_logger_ is always the logger of its name in the map: after any  *)
(* sequence of registrations, drops, changes of the default logger and     *)
(* shutdown (registry::set_default_logger, drop, drop_all).                *)
(***************************************************************************)
THEOREM DefaultIsFound == Spec => []DefaultIsRegistered
  BY CatalogueInvariance, PTL DEF Catalogue

(***************************************************************************)
(* A logger registered by a factory has the registry's level, whichever of *)
(* set_level and initialize_logger came first.                             *)
(***************************************************************************)
THEOREM RegisteredHaveTheLevel == Spec => []LevelsFollow
  BY CatalogueInvariance, PTL DEF Catalogue
-----------------------------------------------------------------------------
(* The ring of the queue.  What it holds is a sequence of items. *)
Item == {LogItem(l, m) : l \in Logger, m \in Message} \cup {FlushItem(l) : l \in Logger} \cup {Terminate}

Ring == [slots : {QueueSize + 1}, head : 0 .. QueueSize, tail : 0 .. QueueSize,
         v : [0 .. QueueSize -> Item \cup {Moved}], overrun : Nat]

RingHolds(r, f) == r \in Ring /\ f \in Seq(Item) /\ Items(r) = f

(* The slot i places after h, with and without the division. *)
LEMMA Turning ==
  ASSUME NEW n \in Nat \ {0}, NEW x \in Nat, x < 2 * n
  PROVE  x % n = IF x < n THEN x ELSE x - n
  OBVIOUS

Slot(h, i) == IF h + i < QueueSize + 1 THEN h + i ELSE h + i - (QueueSize + 1)

LEMMA SlotFacts ==
  ASSUME NEW h \in 0 .. QueueSize, NEW i \in 0 .. QueueSize
  PROVE  /\ (h + i) % (QueueSize + 1) = Slot(h, i)
         /\ Slot(h, i) \in 0 .. QueueSize
<1>1. QueueSize \in Nat \ {0} /\ h + i \in Nat /\ h + i < 2 * (QueueSize + 1) /\ QueueSize + 1 \in Nat \ {0}
  BY SpdlogAssumption
<1>2. (h + i) % (QueueSize + 1) = IF h + i < QueueSize + 1 THEN h + i ELSE h + i - (QueueSize + 1)
  <2>1. ASSUME NEW n \in Nat \ {0}, NEW x \in Nat, n = QueueSize + 1, x = h + i
        PROVE  x % n = IF x < n THEN x ELSE x - n
    BY <1>1, <2>1, Turning
  <2> QED
    BY <1>1, <2>1
<1> QED
  BY <1>1, <1>2 DEF Slot

(* How far the tail is ahead of the head. *)
Distance(h, t) == IF t >= h THEN t - h ELSE t + (QueueSize + 1) - h

LEMMA DistanceFacts ==
  ASSUME NEW h \in 0 .. QueueSize, NEW t \in 0 .. QueueSize
  PROVE  /\ Distance(h, t) \in 0 .. QueueSize /\ Slot(h, Distance(h, t)) = t
         /\ Slot(t, 1) = h <=> Distance(h, t) = QueueSize
         /\ Distance(h, t) = 0 <=> t = h
<1>1. QueueSize \in Nat \ {0}
  BY SpdlogAssumption
<1> QED
  BY <1>1 DEF Distance, Slot

LEMMA DistanceAfterPush ==
  ASSUME NEW h \in 0 .. QueueSize, NEW t \in 0 .. QueueSize
  PROVE  /\ Distance(h, t) # QueueSize => Distance(h, Slot(t, 1)) = Distance(h, t) + 1
         /\ Distance(h, t) = QueueSize => Distance(Slot(h, 1), Slot(t, 1)) = QueueSize
<1>1. QueueSize \in Nat \ {0}
  BY SpdlogAssumption
<1> QED
  BY <1>1 DEF Distance, Slot

LEMMA DistanceAfterPop ==
  ASSUME NEW h \in 0 .. QueueSize, NEW t \in 0 .. QueueSize
  PROVE  Distance(h, t) # 0 => Distance(Slot(h, 1), t) = Distance(h, t) - 1
<1>1. QueueSize \in Nat \ {0}
  BY SpdlogAssumption
<1> QED
  BY <1>1 DEF Distance, Slot

LEMMA SlotsApart ==
  ASSUME NEW h \in 0 .. QueueSize, NEW t \in 0 .. QueueSize
  PROVE  \A i \in 0 .. QueueSize : i < Distance(h, t) => Slot(h, i) # t
<1>1. QueueSize \in Nat \ {0}
  BY SpdlogAssumption
<1> QED
  BY <1>1 DEF Distance, Slot

LEMMA SlotsAhead ==
  ASSUME NEW h \in 0 .. QueueSize, NEW i \in 1 .. QueueSize
  PROVE  Slot(Slot(h, 1), i - 1) = Slot(h, i) /\ Slot(h, i) # h /\ Slot(h, 1) \in 0 .. QueueSize
<1>1. QueueSize \in Nat \ {0}
  BY SpdlogAssumption
<1> QED
  BY <1>1 DEF Slot

(* Length and content of the ring, its two ends, and what full and empty mean. *)
LEMMA RingFacts ==
  ASSUME NEW r, NEW f, RingHolds(r, f)
  PROVE  /\ r.slots = QueueSize + 1 /\ r.head \in 0 .. QueueSize /\ r.tail \in 0 .. QueueSize
         /\ r.v \in [0 .. QueueSize -> Item \cup {Moved}]
         /\ Ahead(r, r.tail) = Slot(r.tail, 1) /\ Ahead(r, r.head) = Slot(r.head, 1)
         /\ Len(f) = Count(r) /\ Count(r) \in 0 .. QueueSize /\ Count(r) = Distance(r.head, r.tail)
         /\ \A i \in 1 .. Len(f) : f[i] = r.v[Slot(r.head, i - 1)]
         /\ Slot(r.head, Count(r)) = r.tail
         /\ Full(r) <=> Len(f) = QueueSize
         /\ Empty(r) <=> Len(f) = 0
<1>1. QueueSize \in Nat \ {0}
  BY SpdlogAssumption
<1>2. /\ r.slots = QueueSize + 1 /\ r.head \in 0 .. QueueSize /\ r.tail \in 0 .. QueueSize
      /\ r.v \in [0 .. QueueSize -> Item \cup {Moved}] /\ f \in Seq(Item) /\ f = Items(r)
  BY DEF RingHolds, Ring
<1>3. /\ Count(r) = Distance(r.head, r.tail)
      /\ Count(r) \in 0 .. QueueSize /\ Slot(r.head, Count(r)) = r.tail
  <2>1. Count(r) = Distance(r.head, r.tail)
    BY <1>2 DEF Count, Distance
  <2>2. r.head \in 0 .. QueueSize /\ r.tail \in 0 .. QueueSize
    BY <1>2
  <2>3. Distance(r.head, r.tail) \in 0 .. QueueSize /\ Slot(r.head, Distance(r.head, r.tail)) = r.tail
    BY <2>2, DistanceFacts, Zenon
  <2> QED
    BY <2>1, <2>3
<1>4. Ahead(r, r.tail) = Slot(r.tail, 1) /\ Ahead(r, r.head) = Slot(r.head, 1)
  <2>1. 1 \in 0 .. QueueSize
    BY <1>1
  <2> QED
    BY <1>2, <2>1, SlotFacts DEF Ahead
<1>5. f = [i \in 1 .. Count(r) |-> r.v[(r.head + i - 1) % (QueueSize + 1)]]
  BY <1>2 DEF Items
<1>6. Len(f) = Count(r)
  BY <1>2, <1>3, <1>5
<1>7. ASSUME NEW i \in 1 .. Len(f) PROVE f[i] = r.v[Slot(r.head, i - 1)]
  <2>1. i - 1 \in 0 .. QueueSize /\ r.head + i - 1 = r.head + (i - 1)
    BY <1>1, <1>2, <1>3, <1>6
  <2>2. (r.head + i - 1) % (QueueSize + 1) = Slot(r.head, i - 1)
    BY <1>2, <2>1, SlotFacts
  <2> QED
    BY <1>5, <1>6, <2>2
<1>8. Full(r) <=> Len(f) = QueueSize
  <2>1. Slot(r.tail, 1) = r.head <=> Distance(r.head, r.tail) = QueueSize
    BY <1>2, DistanceFacts
  <2> QED
    BY <1>3, <1>4, <1>6, <2>1 DEF Full
<1>9. Empty(r) <=> Len(f) = 0
  <2>1. Distance(r.head, r.tail) = 0 <=> r.tail = r.head
    BY <1>2, DistanceFacts
  <2> QED
    BY <1>3, <1>6, <2>1 DEF Empty
<1> QED
  BY <1>2, <1>3, <1>4, <1>6, <1>7, <1>8, <1>9

(* A ring with the right length and slots holds the sequence. *)
LEMMA RingIs ==
  ASSUME NEW r \in Ring, NEW f \in Seq(Item), Len(f) = Count(r), Count(r) \in 0 .. QueueSize,
         \A i \in 1 .. Len(f) : f[i] = r.v[Slot(r.head, i - 1)]
  PROVE  RingHolds(r, f)
<1>1. QueueSize \in Nat \ {0} /\ r.slots = QueueSize + 1 /\ r.head \in 0 .. QueueSize
  BY SpdlogAssumption DEF Ring
<1>2. ASSUME NEW i \in 1 .. Count(r) PROVE r.v[(r.head + i - 1) % r.slots] = f[i]
  <2>1. i - 1 \in 0 .. QueueSize /\ r.head + i - 1 = r.head + (i - 1)
    BY <1>1
  <2>2. (r.head + i - 1) % (QueueSize + 1) = Slot(r.head, i - 1)
    BY <1>1, <2>1, SlotFacts
  <2> QED
    BY <1>1, <2>2
<1>3. Items(r) = [i \in 1 .. Count(r) |-> f[i]]
  BY <1>2 DEF Items
<1>4. f = [i \in 1 .. Len(f) |-> f[i]]
  OBVIOUS
<1> QED
  BY <1>3, <1>4 DEF RingHolds

(* push_back: the item at the end, the oldest gone if there was no room. *)
LEMMA PushFacts ==
  ASSUME NEW r, NEW f, RingHolds(r, f), NEW item \in Item
  PROVE  RingHolds(PushBack(r, item),
                   IF Len(f) = QueueSize THEN Append(Tail(f), item) ELSE Append(f, item))
<1> DEFINE tail == Slot(r.tail, 1)
           head == IF Full(r) THEN Slot(r.head, 1) ELSE r.head
           v == [r.v EXCEPT ![r.tail] = item]
           overrun == IF Full(r) THEN r.overrun + 1 ELSE r.overrun
           p == [slots |-> r.slots, head |-> head, tail |-> tail, v |-> v, overrun |-> overrun]
           g == IF Len(f) = QueueSize THEN Append(Tail(f), item) ELSE Append(f, item)
<1>1. /\ r.slots = QueueSize + 1 /\ r.head \in 0 .. QueueSize /\ r.tail \in 0 .. QueueSize
      /\ r.v \in [0 .. QueueSize -> Item \cup {Moved}] /\ r.overrun \in Nat /\ f \in Seq(Item)
      /\ QueueSize \in Nat \ {0} /\ r \in Ring
  BY SpdlogAssumption DEF RingHolds, Ring
<1>h. r.head \in 0 .. QueueSize /\ r.tail \in 0 .. QueueSize
  BY <1>1
<1>2. /\ Len(f) = Distance(r.head, r.tail) /\ Len(f) \in 0 .. QueueSize
      /\ \A i \in 1 .. Len(f) : f[i] = r.v[Slot(r.head, i - 1)]
      /\ Full(r) <=> Len(f) = QueueSize
      /\ Slot(r.head, Len(f)) = r.tail
      /\ Ahead(r, r.tail) = tail /\ Ahead(r, r.head) = Slot(r.head, 1)
  BY RingFacts
<1>3. PushBack(r, item) = p
  <2>1. PushBack(r, item) = [r EXCEPT !.v = v, !.tail = tail, !.head = head, !.overrun = overrun]
    BY <1>2 DEF PushBack, Full
  <2> HIDE DEF v, tail, head, overrun
  <2> QED
    BY <1>1, <2>1 DEF Ring
<1>4. tail \in 0 .. QueueSize /\ head \in 0 .. QueueSize
  BY <1>1, SlotFacts
<1>5. v \in [0 .. QueueSize -> Item \cup {Moved}] /\ overrun \in Nat
  BY <1>1
<1>6. p \in Ring
  BY <1>1, <1>4, <1>5 DEF Ring
<1>7. /\ g \in Seq(Item)
      /\ Len(g) = IF Len(f) = QueueSize THEN QueueSize ELSE Len(f) + 1
      /\ g[Len(g)] = item
      /\ \A i \in 1 .. Len(g) - 1 : g[i] = IF Len(f) = QueueSize THEN f[i + 1] ELSE f[i]
  <2>1. CASE Len(f) = QueueSize
    <3>1. f # <<>> /\ Tail(f) \in Seq(Item) /\ Len(Tail(f)) = QueueSize - 1
          /\ \A i \in 1 .. QueueSize - 1 : Tail(f)[i] = f[i + 1]
      BY <1>1, <2>1
    <3> HIDE DEF v, tail, head, overrun, p
    <3> QED
      BY <1>1, <2>1, <3>1
  <2>2. CASE Len(f) # QueueSize
    BY <1>1, <2>2
  <2> QED
    BY <2>1, <2>2
<1>8. Count(p) = Len(g) /\ Count(p) \in 0 .. QueueSize
  <2>1. p.slots = QueueSize + 1 /\ p.head = head /\ p.tail = tail
    BY <1>1
  <2>2. Count(p) = Distance(head, tail)
    <3> HIDE DEF p, head, tail
    <3> QED
      BY <2>1 DEF Count, Distance
  <2>3. Distance(head, tail) = IF Len(f) = QueueSize THEN QueueSize ELSE Len(f) + 1
    <3>1. /\ Distance(r.head, r.tail) # QueueSize =>
                Distance(r.head, Slot(r.tail, 1)) = Distance(r.head, r.tail) + 1
          /\ Distance(r.head, r.tail) = QueueSize =>
                Distance(Slot(r.head, 1), Slot(r.tail, 1)) = QueueSize
      BY <1>h, DistanceAfterPush, Zenon
    <3> QED
      BY <1>2, <3>1
  <2> HIDE DEF g, p, head, tail
  <2> QED
    BY <1>1, <1>2, <1>7, <2>2, <2>3
<1>d. /\ \A i \in 0 .. QueueSize : i < Distance(r.head, r.tail) => Slot(r.head, i) # r.tail
      /\ \A i \in 1 .. QueueSize : Slot(Slot(r.head, 1), i - 1) = Slot(r.head, i)
      /\ \A i \in 0 .. QueueSize : Slot(r.head, i) \in 0 .. QueueSize
      /\ Slot(r.head, 0) = r.head
  <2>1. \A i \in 0 .. QueueSize : i < Distance(r.head, r.tail) => Slot(r.head, i) # r.tail
    BY <1>h, SlotsApart, Zenon
  <2>3. \A i \in 1 .. QueueSize : Slot(Slot(r.head, 1), i - 1) = Slot(r.head, i)
    BY <1>h, SlotsAhead, Zenon
  <2>2. \A i \in 0 .. QueueSize : Slot(r.head, i) \in 0 .. QueueSize
    BY <1>h, SlotFacts, Zenon
  <2> QED
    BY <1>1, <2>1, <2>2, <2>3 DEF Slot
<1>9. ASSUME NEW i \in 1 .. Len(g) PROVE g[i] = v[Slot(head, i - 1)]
  <2>1. CASE i = Len(g)
    <3>1. Slot(head, i - 1) = r.tail
      <4>1. CASE Len(f) = QueueSize
        <5>1. i = QueueSize /\ i \in 1 .. QueueSize /\ head = Slot(r.head, 1)
          <6> HIDE DEF g, p, v
          <6> QED
            BY <1>1, <1>2, <1>7, <2>1, <4>1
        <5>2. Slot(Slot(r.head, 1), i - 1) = Slot(r.head, i)
          BY <1>d, <5>1, Zenon
        <5> QED
          BY <1>2, <4>1, <5>1, <5>2
      <4>2. CASE Len(f) # QueueSize
        <5>1. i - 1 = Len(f) /\ head = r.head
          <6> HIDE DEF g, p, v
          <6> QED
            BY <1>1, <1>2, <1>7, <2>1, <4>2
        <5> QED
          BY <1>2, <5>1
      <4> QED
        BY <4>1, <4>2
    <3> QED
      BY <1>1, <1>7, <2>1, <3>1
  <2>2. CASE i # Len(g)
    <3> DEFINE k == IF Len(f) = QueueSize THEN i + 1 ELSE i
    <3>1. /\ k \in 1 .. Len(f) /\ Slot(head, i - 1) = Slot(r.head, k - 1)
          /\ Slot(r.head, k - 1) # r.tail /\ Slot(r.head, k - 1) \in 0 .. QueueSize
      <4>1. k \in 1 .. Len(f) /\ k - 1 \in 0 .. QueueSize /\ k - 1 < Len(f)
        <5> HIDE DEF g, p, v
        <5> QED
          BY <1>1, <1>2, <1>7, <2>2
      <4>2. Slot(head, i - 1) = Slot(r.head, k - 1)
        <5>1. CASE Len(f) = QueueSize
          <6>1. i \in 1 .. QueueSize /\ k - 1 = i
            BY <1>1, <1>2, <4>1, <5>1
          <6> QED
            BY <1>2, <1>d, <5>1, <6>1
        <5>2. CASE Len(f) # QueueSize
          BY <1>2, <5>2
        <5> QED
          BY <5>1, <5>2
      <4> HIDE DEF g, p, v, k, head, tail
      <4> QED
        BY <1>2, <1>d, <4>1, <4>2
    <3>2. i \in 1 .. Len(g) - 1 /\ g[i] = f[k]
      BY <1>1, <1>2, <1>7, <2>2
    <3> HIDE DEF g, k
    <3> QED
      BY <1>1, <1>2, <3>1, <3>2
  <2> QED
    BY <2>1, <2>2
<1>10. p.v = v /\ p.head = head
  OBVIOUS
<1> HIDE DEF p, g, v, head, tail
<1>11. RingHolds(p, g)
  BY <1>6, <1>7, <1>8, <1>9, <1>10, RingIs
<1> QED
  BY <1>3, <1>11 DEF g

(* front and pop_front: the oldest item, and the others. *)
LEMMA PopFacts ==
  ASSUME NEW r, NEW f, RingHolds(r, f), ~Empty(r)
  PROVE  f # <<>> /\ Oldest(r) = Head(f) /\ RingHolds(PopFront(r), Tail(f))
<1> DEFINE head == Slot(r.head, 1)
           v == [r.v EXCEPT ![r.head] = Moved]
           p == [slots |-> r.slots, head |-> head, tail |-> r.tail, v |-> v, overrun |-> r.overrun]
<1>1. /\ r.slots = QueueSize + 1 /\ r.head \in 0 .. QueueSize /\ r.tail \in 0 .. QueueSize
      /\ r.v \in [0 .. QueueSize -> Item \cup {Moved}] /\ r.overrun \in Nat /\ f \in Seq(Item)
      /\ QueueSize \in Nat \ {0} /\ r \in Ring
  BY SpdlogAssumption DEF RingHolds, Ring
<1>h. r.head \in 0 .. QueueSize /\ r.tail \in 0 .. QueueSize
  BY <1>1
<1>2. /\ Len(f) = Distance(r.head, r.tail) /\ Len(f) \in 0 .. QueueSize /\ Len(f) # 0
      /\ \A i \in 1 .. Len(f) : f[i] = r.v[Slot(r.head, i - 1)]
      /\ Ahead(r, r.head) = head
  BY RingFacts
<1>3. f # <<>> /\ Head(f) = f[1] /\ Slot(r.head, 0) = r.head
  BY <1>1, <1>2 DEF Slot
<1>4. Oldest(r) = Head(f)
  BY <1>1, <1>2, <1>3 DEF Oldest
<1>5. PopFront(r) = p
  <2>1. PopFront(r) = [r EXCEPT !.v = v, !.head = head]
    BY <1>2 DEF PopFront
  <2> HIDE DEF v, head
  <2> QED
    BY <1>1, <2>1 DEF Ring
<1>6. p \in Ring
  <2>1. head \in 0 .. QueueSize
    <3>1. 1 \in 0 .. QueueSize
      BY <1>1
    <3> QED
      BY <1>h, <3>1, SlotFacts, Zenon
  <2>2. v \in [0 .. QueueSize -> Item \cup {Moved}]
    BY <1>1
  <2> QED
    BY <1>1, <2>1, <2>2 DEF Ring
<1>7. /\ Tail(f) \in Seq(Item) /\ Len(Tail(f)) = Len(f) - 1
      /\ \A i \in 1 .. Len(f) - 1 : Tail(f)[i] = f[i + 1]
  BY <1>1, <1>3
<1>8. Count(p) = Len(f) - 1 /\ Count(p) \in 0 .. QueueSize
  <2>1. p.slots = QueueSize + 1 /\ p.head = head /\ p.tail = r.tail
    BY <1>1
  <2>2. Count(p) = Distance(head, r.tail)
    <3> HIDE DEF p, head
    <3> QED
      BY <2>1 DEF Count, Distance
  <2>3. Distance(r.head, r.tail) # 0 =>
          Distance(Slot(r.head, 1), r.tail) = Distance(r.head, r.tail) - 1
    BY <1>h, DistanceAfterPop, Zenon
  <2> HIDE DEF p
  <2> QED
    BY <1>1, <1>2, <2>2, <2>3
<1>9. ASSUME NEW i \in 1 .. Len(f) - 1 PROVE Tail(f)[i] = v[Slot(head, i - 1)]
  <2>1. /\ Slot(head, i - 1) = Slot(r.head, i) /\ Slot(r.head, i) # r.head
        /\ Slot(r.head, i) \in 0 .. QueueSize
    <3>1. \A k \in 1 .. QueueSize : Slot(Slot(r.head, 1), k - 1) = Slot(r.head, k) /\ Slot(r.head, k) # r.head
      BY <1>h, SlotsAhead, Zenon
    <3>2. \A k \in 0 .. QueueSize : Slot(r.head, k) \in 0 .. QueueSize
      BY <1>h, SlotFacts, Zenon
    <3>3. i \in 1 .. QueueSize /\ i \in 0 .. QueueSize
      BY <1>1, <1>2
    <3> QED
      BY <3>1, <3>2, <3>3
  <2>2. i + 1 \in 1 .. Len(f) /\ (i + 1) - 1 = i
    BY <1>1, <1>2
  <2>3. Tail(f)[i] = r.v[Slot(r.head, i)]
    BY <1>2, <1>7, <2>2
  <2> HIDE DEF head
  <2> QED
    BY <1>1, <2>1, <2>3
<1>10. p.v = v /\ p.head = head
  OBVIOUS
<1> HIDE DEF p, v, head
<1>11. RingHolds(p, Tail(f))
  BY <1>6, <1>7, <1>8, <1>9, <1>10, RingIs
<1> QED
  BY <1>3, <1>4, <1>5, <1>11
-----------------------------------------------------------------------------
(* Threads that log.  The logger of a call was made. *)
Caller == [pc : {"idle", "sink", "post", "flush", "destroy"}, logger : Logger \cup {Null},
           msg : 0 .. MaxMessages]
Logging(t) ==
  thread[t].pc \in {"sink", "post", "flush"} =>
    thread[t].logger \in Logger /\ Made(thread[t].logger) /\ thread[t].msg \in Message

Callers == thread \in [Thread -> Caller] /\ \A t \in Thread : Logging(t)

(* The periodic worker flushes loggers that were made. *)
Flusher == [pc : {"none", "wait", "all", "post", "destroy"}, todo : SUBSET Logger,
            logger : Logger \cup {Null}, rounds : Nat]
Flushing ==
  /\ flusher \in Flusher
  /\ \A l \in flusher.todo : Made(l)
  /\ flusher.pc = "post" => flusher.logger \in Logger /\ Made(flusher.logger)

(* Threads of the pool. *)
Server == [pc : {"idle", "log", "flush", "done"}, logger : Logger \cup {Null}, msg : 0 .. MaxMessages]
Servers ==
  /\ worker \in [Worker -> Server]
  /\ \A w \in Worker : worker[w].pc = "log" => worker[w].msg \in Message

(* The ring holds what the queue should. *)
Queue == RingHolds(q, fifo)

LEMMA DoingFacts ==
  /\ \A pc, l, m : Doing(pc, l, m).pc = pc /\ Doing(pc, l, m).logger = l /\ Doing(pc, l, m).msg = m
  /\ \A pc \in {"idle", "sink", "post", "flush", "destroy"}, l \in Logger \cup {Null}, m \in 0 .. MaxMessages :
       Doing(pc, l, m) \in Caller
  /\ \A pc \in {"idle", "log", "flush", "done"}, l \in Logger \cup {Null}, m \in 0 .. MaxMessages :
       Doing(pc, l, m) \in Server
  /\ Message \subseteq 0 .. MaxMessages /\ 0 \in 0 .. MaxMessages
  /\ Idle \in Caller /\ Idle \in Server /\ Idle.pc = "idle"
<1>1. MaxMessages \in Nat
  BY SpdlogAssumption
<1>2. \A pc, l, m : Doing(pc, l, m).pc = pc /\ Doing(pc, l, m).logger = l /\ Doing(pc, l, m).msg = m
  BY DEF Doing
<1>3. \A pc \in {"idle", "sink", "post", "flush", "destroy"}, l \in Logger \cup {Null}, m \in 0 .. MaxMessages :
        Doing(pc, l, m) \in Caller
  BY DEF Doing, Caller
<1>4. \A pc \in {"idle", "log", "flush", "done"}, l \in Logger \cup {Null}, m \in 0 .. MaxMessages :
        Doing(pc, l, m) \in Server
  BY DEF Doing, Server
<1>5. Message \subseteq 0 .. MaxMessages /\ 0 \in 0 .. MaxMessages
  BY <1>1 DEF Message
<1> QED
  BY <1>2, <1>3, <1>4, <1>5 DEF Idle

(* A logger that was made stays so. *)
LEMMA MadeStays ==
  ASSUME Catalogue, [Next]_vars
  PROVE  \A l \in Logger : Made(l) => Made(l)'
<1>1. ASSUME UNCHANGED obj PROVE \A l \in Logger : Made(l) => Made(l)'
  BY <1>1 DEF Made
<1>l. \A level \in Levels \cup FlushLevels : level \in 0 .. 6
  BY SpdlogAssumption, LevelFacts
<1>o. obj \in [Logger -> Object] /\ \A l \in Logger : obj[l] = NotMade \/ Made(l)
  BY DEF Catalogue
<1>2. ASSUME NEW l \in Logger, Create(l) PROVE \A k \in Logger : Made(k) => Made(k)'
  <2>1. obj[l] = NotMade /\ obj' = [obj EXCEPT ![l] = InitialLevels]
    BY <1>2 DEF Create
  <2>2. ~Made(l) /\ \A k \in Logger \ {l} : obj'[k] = obj[k]
    BY <1>o, <2>1, LevelFacts DEF Made
  <2> QED
    BY <2>2 DEF Made
<1>3. ASSUME NEW level \in Levels, SetLevels(level) PROVE \A k \in Logger : Made(k) => Made(k)'
  BY <1>l, <1>o, <1>3 DEF SetLevels, Made
<1>4. ASSUME NEW level \in FlushLevels, SetFlushLevels(level) PROVE \A k \in Logger : Made(k) => Made(k)'
  BY <1>o, <1>4 DEF SetFlushLevels, Made
<1>5. ASSUME NEW l \in Logger, NEW level \in Levels, SetOwnLevel(l, level)
      PROVE  \A k \in Logger : Made(k) => Made(k)'
  BY <1>l, <1>o, <1>5 DEF SetOwnLevel, Made
<1>6. CASE Admin
  BY <1>1, <1>2, <1>3, <1>4, <1>5, <1>6 DEF Admin, CreateFails, Register, MakeDefault, DropLogger,
     Automatic, FlushEvery
<1>7. CASE Shutdown
  BY <1>1, <1>7 DEF Shutdown, StopFlusher, JoinFlusher, DropLoggers, ResetPool
<1>8. ASSUME NEW t \in Thread, ThreadStep(t) PROVE UNCHANGED obj
  BY <1>8 DEF ThreadStep, LogDefault, Log, SinkStep, FlushStep, Post
<1>9. ASSUME NEW w \in Worker, WorkerStep(w) PROVE UNCHANGED obj
  BY <1>9 DEF WorkerStep, Dequeue, BackendLog, BackendFlush
<1>10. CASE PoolStep \/ FlusherStep \/ UNCHANGED vars
  BY <1>1, <1>10 DEF PoolStep, PostTerminate, Join, FlusherStep, FlushAll, FlushNext, FlushPost,
     FlushDone, vars
<1> QED
  BY <1>1, <1>6, <1>7, <1>8, <1>9, <1>10 DEF Next

LEMMA CallersStep == Catalogue /\ Callers /\ [Next]_vars => Callers'
<1> SUFFICES ASSUME Catalogue, Callers, [Next]_vars
             PROVE  Callers'
  OBVIOUS
<1>1. ASSUME NEW t \in Thread, NEW c \in Caller, thread' = [thread EXCEPT ![t] = c],
             c.pc \in {"sink", "post", "flush"} =>
               c.logger \in Logger /\ Made(c.logger) /\ c.msg \in Message
      PROVE  Callers'
  <2>1. thread' \in [Thread -> Caller] /\ thread'[t] = c /\ \A u \in Thread \ {t} : thread'[u] = thread[u]
    BY <1>1 DEF Callers
  <2>2. ASSUME NEW u \in Thread PROVE Logging(u)'
    BY <1>1, <2>1, MadeStays DEF Callers, Logging
  <2> QED
    BY <2>1, <2>2 DEF Callers
<1>2. ASSUME UNCHANGED thread PROVE Callers'
  BY <1>2, MadeStays DEF Callers, Logging
<1>3. ASSUME NEW t \in Thread, NEW l \in Logger, NEW m \in Message, Log(t, l, m) PROVE Callers'
  <2>1. Made(l) /\ m \in 0 .. MaxMessages
    BY <1>3, DoingFacts DEF Log, Catalogue
  <2>2. CASE UNCHANGED thread
    BY <1>2, <2>2
  <2>3. ASSUME NEW pc \in {"sink", "post"}, thread' = [thread EXCEPT ![t] = Doing(pc, l, m)]
        PROVE  Callers'
    <3> DEFINE c == Doing(pc, l, m)
    <3>1. c \in Caller /\ c.logger = l /\ c.msg = m /\ thread' = [thread EXCEPT ![t] = c]
      BY <2>1, <2>3, DoingFacts
    <3> HIDE DEF c
    <3> QED
      BY <1>1, <2>1, <3>1
  <2> QED
    BY <1>3, <2>2, <2>3 DEF Log
<1>4. ASSUME NEW t \in Thread, ThreadStep(t) PROVE Callers'
  <2>1. ASSUME NEW m \in Message, LogDefault(t, m) PROVE Callers'
    BY <1>3, <2>1 DEF LogDefault, Catalogue, Registry
  <2>2. CASE SinkStep(t)
    <3>1. /\ thread[t].logger \in Logger /\ Made(thread[t].logger) /\ thread[t].msg \in Message
          /\ \/ thread' = [thread EXCEPT ![t] = Idle]
             \/ thread' = [thread EXCEPT ![t] = Doing("flush", thread[t].logger, thread[t].msg)]
      BY <2>2 DEF SinkStep, Callers, Logging
    <3> DEFINE c == Doing("flush", thread[t].logger, thread[t].msg)
    <3>2. c \in Caller /\ c.logger = thread[t].logger /\ c.msg = thread[t].msg
      <4>1. thread[t].msg \in 0 .. MaxMessages
        BY <3>1, DoingFacts
      <4> QED
        BY <3>1, <4>1 DEF Doing, Caller
    <3> HIDE DEF c
    <3>3. CASE thread' = [thread EXCEPT ![t] = c]
      BY <1>1, <3>1, <3>2, <3>3
    <3>4. CASE thread' = [thread EXCEPT ![t] = Idle]
      BY <1>1, <3>4, DoingFacts
    <3> QED
      BY <3>1, <3>3, <3>4 DEF c
  <2>3. CASE FlushStep(t)
    BY <1>1, <2>3, DoingFacts DEF FlushStep
  <2>4. CASE Post(t)
    <3> DEFINE c == IF IsLast(t) THEN Doing("destroy", Null, 0) ELSE Idle
    <3>1. c \in Caller /\ c.pc \notin {"sink", "post", "flush"}
      BY DoingFacts
    <3>2. thread' = [thread EXCEPT ![t] = c]
      BY <2>4 DEF Post
    <3> HIDE DEF c
    <3> QED
      BY <1>1, <3>1, <3>2
  <2> QED
    BY <1>3, <1>4, <2>1, <2>2, <2>3, <2>4 DEF ThreadStep
<1>5. CASE Join
  <2>1. thread' = [t \in Thread |-> IF t = pool.by THEN Idle ELSE thread[t]]
    BY <1>5 DEF Join
  <2>2. thread' \in [Thread -> Caller]
    BY <2>1, DoingFacts DEF Callers
  <2>3. ASSUME NEW u \in Thread PROVE Logging(u)'
    BY <2>1, DoingFacts, MadeStays DEF Callers, Logging
  <2> QED
    BY <2>2, <2>3 DEF Callers
<1>6. CASE PostTerminate \/ FlusherStep \/ Shutdown \/ Admin \/ UNCHANGED vars
  BY <1>2, <1>6 DEF PostTerminate, FlusherStep, FlushAll, FlushNext, FlushPost, FlushDone, Shutdown,
     StopFlusher, JoinFlusher, DropLoggers, ResetPool, Admin, Create, CreateFails, Register, MakeDefault, DropLogger, SetLevels,
     SetFlushLevels, SetOwnLevel, Automatic, FlushEvery, Operation, vars
<1>7. ASSUME NEW w \in Worker, WorkerStep(w) PROVE Callers'
  BY <1>2, <1>7 DEF WorkerStep, Dequeue, BackendLog, BackendFlush
<1> QED
  BY <1>4, <1>5, <1>6, <1>7 DEF Next, PoolStep
LEMMA FlushingStep == Catalogue /\ Flushing /\ [Next]_vars => Flushing'
<1> SUFFICES ASSUME Catalogue, Flushing, [Next]_vars
             PROVE  Flushing'
  OBVIOUS
<1>1. ASSUME NEW pc \in {"none", "wait", "all", "destroy"}, NEW todo \in SUBSET Logger,
             NEW l \in Logger \cup {Null}, NEW rounds \in Nat, \A k \in todo : Made(k),
             flusher' = [pc |-> pc, todo |-> todo, logger |-> l, rounds |-> rounds]
      PROVE  Flushing'
  <2>1. flusher' \in Flusher /\ flusher'.todo = todo /\ flusher'.pc # "post"
    BY <1>1 DEF Flusher
  <2> QED
    BY <1>1, <2>1, MadeStays DEF Flushing
<1>2. ASSUME UNCHANGED flusher PROVE Flushing'
  BY <1>2, MadeStays DEF Flushing, Flusher
<1>t. /\ flusher = [pc |-> flusher.pc, todo |-> flusher.todo, logger |-> flusher.logger, rounds |-> flusher.rounds]
      /\ flusher.todo \in SUBSET Logger /\ flusher.logger \in Logger \cup {Null} /\ flusher.rounds \in Nat
      /\ \A l \in flusher.todo : Made(l)
  BY DEF Flushing, Flusher
<1>3. ASSUME NEW pc \in {"none", "wait", "all", "destroy"}, flusher' = [flusher EXCEPT !.pc = pc]
      PROVE  Flushing'
  <2>1. flusher' = [pc |-> pc, todo |-> flusher.todo, logger |-> flusher.logger, rounds |-> flusher.rounds]
    BY <1>3 DEF Flushing, Flusher
  <2> QED
    BY <1>1, <1>t, <2>1
<1>4. CASE Admin
  <2>1. CASE FlushEvery
    BY <1>3, <2>1 DEF FlushEvery
  <2>2. CASE ~FlushEvery
    BY <1>2, <1>4, <2>2 DEF Admin, Create, CreateFails, Register, MakeDefault, DropLogger, SetLevels, SetFlushLevels,
       SetOwnLevel, Automatic
  <2> QED
    BY <2>1, <2>2
<1>5. CASE PostTerminate \/ (\E t \in Thread : ThreadStep(t)) \/ (\E w \in Worker : WorkerStep(w))
  BY <1>2, <1>5 DEF PostTerminate, ThreadStep, LogDefault, Log, SinkStep, FlushStep, Post, WorkerStep,
     Dequeue, BackendLog, BackendFlush
<1>6. CASE Join
  BY <1>2, <1>3, <1>6 DEF Join
<1>7. CASE FlushAll
  <2> DEFINE todo == {l \in Logger : Registered(reg, l)}
  <2>1. flusher' = [pc |-> "all", todo |-> todo, logger |-> flusher.logger, rounds |-> flusher.rounds + 1]
    <3>1. flusher' = [flusher EXCEPT !.pc = "all", !.rounds = flusher.rounds + 1, !.todo = todo]
      BY <1>7 DEF FlushAll
    <3> HIDE DEF todo
    <3> QED
      BY <3>1 DEF Flushing, Flusher
  <2>2. \A k \in todo : Made(k)
    BY DEF Catalogue
  <2>3. flusher.rounds + 1 \in Nat
    BY <1>t
  <2> QED
    BY <1>1, <1>t, <2>1, <2>2, <2>3
<1>8. ASSUME NEW l \in Logger, FlushNext(l) PROVE Flushing'
  <2> DEFINE rest == [pc |-> flusher.pc, todo |-> flusher.todo \ {l}, logger |-> flusher.logger,
                      rounds |-> flusher.rounds]
             post == [pc |-> "post", todo |-> flusher.todo \ {l}, logger |-> l, rounds |-> flusher.rounds]
  <2>1. flusher.pc = "all" /\ l \in flusher.todo /\ (flusher' = rest \/ flusher' = post)
    <3>1. flusher.pc = "all" /\ l \in flusher.todo
      BY <1>8 DEF FlushNext
    <3>2. \/ flusher' = [flusher EXCEPT !.todo = flusher.todo \ {l}]
          \/ flusher' = [flusher EXCEPT !.pc = "post", !.todo = flusher.todo \ {l}, !.logger = l]
      BY <1>8 DEF FlushNext
    <3> DEFINE todo == flusher.todo \ {l}
    <3>3. ASSUME flusher' = [flusher EXCEPT !.todo = todo] PROVE flusher' = rest
      BY <3>3 DEF Flushing, Flusher
    <3>4. ASSUME flusher' = [flusher EXCEPT !.pc = "post", !.todo = todo, !.logger = l]
          PROVE  flusher' = [pc |-> "post", todo |-> todo, logger |-> l, rounds |-> flusher.rounds]
      <4> HIDE DEF todo
      <4> QED
        BY <3>4 DEF Flushing, Flusher
    <3> QED
      BY <3>1, <3>2, <3>3, <3>4
  <2>2. CASE flusher' = rest
    BY <1>1, <1>t, <2>1, <2>2
  <2>3. CASE flusher' = post
    <3>1. flusher' \in Flusher /\ flusher'.todo = flusher.todo \ {l} /\ flusher'.logger = l
      BY <1>t, <2>3 DEF Flusher
    <3> QED
      BY <1>t, <2>1, <3>1, MadeStays DEF Flushing
  <2> QED
    BY <2>1, <2>2, <2>3
<1>9. CASE FlushPost
  <2> DEFINE pc == IF IsLast("flusher") THEN "destroy" ELSE "all"
  <2>1. flusher' = [pc |-> pc, todo |-> flusher.todo, logger |-> Null, rounds |-> flusher.rounds]
    <3>1. flusher' = [flusher EXCEPT !.pc = pc, !.logger = Null]
      BY <1>9 DEF FlushPost
    <3> HIDE DEF pc
    <3> QED
      BY <3>1 DEF Flushing, Flusher
  <2>2. pc \in {"none", "wait", "all", "destroy"}
    OBVIOUS
  <2> HIDE DEF pc
  <2> QED
    BY <1>1, <1>t, <2>1, <2>2
<1>10. CASE FlushDone
  BY <1>3, <1>10 DEF FlushDone
<1>11. CASE Shutdown
  BY <1>2, <1>3, <1>11 DEF Shutdown, StopFlusher, JoinFlusher, DropLoggers, ResetPool
<1>12. CASE UNCHANGED vars
  BY <1>2, <1>12 DEF vars
<1> QED
  BY <1>4, <1>5, <1>6, <1>7, <1>8, <1>9, <1>10, <1>11, <1>12 DEF Next, PoolStep, FlusherStep

(* The kinds of items. *)
LEMMA ItemFacts ==
  /\ \A l, m : LogItem(l, m).type = "log" /\ LogItem(l, m).logger = l /\ LogItem(l, m).msg = m
  /\ \A l : FlushItem(l).type = "flush"
  /\ Terminate.type = "terminate"
  /\ \A l \in Logger, m \in Message : LogItem(l, m) \in Item
  /\ \A l \in Logger : FlushItem(l) \in Item
  /\ Terminate \in Item
<1>1. /\ \A l, m : LogItem(l, m).type = "log" /\ LogItem(l, m).logger = l /\ LogItem(l, m).msg = m
      /\ \A l : FlushItem(l).type = "flush"
      /\ Terminate.type = "terminate"
  BY DEF LogItem, FlushItem, Terminate
<1>2. /\ \A l \in Logger, m \in Message : LogItem(l, m) \in Item
      /\ \A l \in Logger : FlushItem(l) \in Item
      /\ Terminate \in Item
  BY DEF Item
<1> QED
  BY <1>1, <1>2

(* The steps that change the queue. *)
LEMMA QueueSteps ==
  ASSUME Callers, Flushing, [Next]_vars
  PROVE  \/ UNCHANGED <<q, fifo, lost>>
         \/ \E w \in Worker : Dequeue(w)
         \/ PostTerminate
         \/ FlushPost /\ FlushItem(flusher.logger) \in Item
         \/ \E t \in Thread : Post(t) /\ LogItem(thread[t].logger, thread[t].msg) \in Item
<1>1. ASSUME NEW t \in Thread, Post(t) PROVE LogItem(thread[t].logger, thread[t].msg) \in Item
  <2>1. thread[t].logger \in Logger /\ thread[t].msg \in Message
    BY <1>1 DEF Post, Callers, Logging
  <2> QED
    BY <2>1, ItemFacts
<1>2. ASSUME FlushPost PROVE FlushItem(flusher.logger) \in Item
  BY <1>2, ItemFacts DEF FlushPost, Flushing
<1>3. CASE Admin \/ Shutdown \/ Join \/ UNCHANGED vars
  BY <1>3 DEF Admin, Create, CreateFails, Register, MakeDefault, DropLogger, SetLevels, SetFlushLevels, SetOwnLevel,
     Automatic, FlushEvery, Operation, Shutdown, StopFlusher, JoinFlusher, DropLoggers, ResetPool, Join, vars, history
<1>4. ASSUME NEW t \in Thread, ThreadStep(t) PROVE Post(t) \/ UNCHANGED <<q, fifo, lost>>
  BY <1>4 DEF ThreadStep, LogDefault, Log, SinkStep, FlushStep, history
<1>5. ASSUME NEW w \in Worker, WorkerStep(w) PROVE Dequeue(w) \/ UNCHANGED <<q, fifo, lost>>
  BY <1>5 DEF WorkerStep, BackendLog, BackendFlush, history
<1>6. CASE FlusherStep
  BY <1>2, <1>6 DEF FlusherStep, FlushAll, FlushNext, FlushDone, history
<1> QED
  BY <1>1, <1>2, <1>3, <1>4, <1>5, <1>6 DEF Next, PoolStep

LEMMA QueueStep == Callers /\ Flushing /\ Queue /\ [Next]_vars => Queue'
<1> SUFFICES ASSUME Callers, Flushing, Queue, [Next]_vars
             PROVE  Queue'
  OBVIOUS
<1>1. ASSUME NEW item \in Item, Enqueue(item) PROVE Queue'
  BY <1>1, PushFacts DEF Enqueue, Queue
<1>2. ASSUME NEW w \in Worker, Dequeue(w) PROVE Queue'
  BY <1>2, PopFacts DEF Dequeue, Queue
<1>3. CASE UNCHANGED <<q, fifo, lost>>
  BY <1>3 DEF Queue, RingHolds, Ring, Items, Count
<1> QED
  BY <1>1, <1>2, <1>3, QueueSteps, ItemFacts DEF PostTerminate, FlushPost, Post

(* What a thread of the pool takes is the oldest item, of one of three kinds. *)
LEMMA DequeueFacts ==
  ASSUME Queue, NEW w \in Worker, Dequeue(w)
  PROVE  /\ pool.state = "up" /\ worker[w] = Idle
         /\ fifo \in Seq(Item) /\ fifo # <<>> /\ fifo' = Tail(fifo)
         /\ \/ /\ fifo[1].type = "log" /\ fifo[1].msg \in Message
               /\ \E l \in Logger : worker' = [worker EXCEPT ![w] = Doing("log", l, fifo[1].msg)]
            \/ fifo[1].type = "flush" /\ worker' = [worker EXCEPT ![w] = Doing("flush", Null, 0)]
            \/ fifo[1].type = "terminate" /\ worker' = [worker EXCEPT ![w] = Doing("done", Null, 0)]
<1>1. fifo \in Seq(Item) /\ fifo # <<>> /\ fifo' = Tail(fifo) /\ Oldest(q) = Head(fifo)
  BY PopFacts DEF Dequeue, Queue, RingHolds
<1>2. Oldest(q) = fifo[1] /\ fifo[1] \in Item
  BY <1>1
<1>3. CASE \E l \in Logger, m \in Message : fifo[1] = LogItem(l, m)
  <2>1. PICK l \in Logger, m \in Message : fifo[1] = LogItem(l, m)
    BY <1>3
  <2>2. fifo[1].type = "log" /\ fifo[1].logger = l /\ fifo[1].msg = m
    BY <2>1, ItemFacts
  <2>3. worker' = [worker EXCEPT ![w] = Doing("log", l, fifo[1].msg)]
    BY <1>2, <2>2 DEF Dequeue
  <2> QED
    BY <1>1, <2>2, <2>3 DEF Dequeue
<1>4. CASE \E l \in Logger : fifo[1] = FlushItem(l)
  <2>1. fifo[1].type = "flush"
    BY <1>4, ItemFacts
  <2>2. worker' = [worker EXCEPT ![w] = Doing("flush", Null, 0)]
    BY <1>2, <2>1 DEF Dequeue
  <2> QED
    BY <1>1, <2>1, <2>2 DEF Dequeue
<1>5. CASE fifo[1] = Terminate
  <2>1. fifo[1].type = "terminate"
    BY <1>5, ItemFacts
  <2>2. worker' = [worker EXCEPT ![w] = Doing("done", Null, 0)]
    BY <1>2, <2>1 DEF Dequeue
  <2> QED
    BY <1>1, <2>1, <2>2 DEF Dequeue
<1> QED
  BY <1>2, <1>3, <1>4, <1>5 DEF Item

(* The steps of the threads of the pool. *)
LEMMA WorkerSteps ==
  ASSUME [Next]_vars
  PROVE  \/ UNCHANGED worker
         \/ \E w \in Worker : Dequeue(w)
         \/ \E w \in Worker : /\ BackendLog(w) \/ BackendFlush(w)
                              /\ UNCHANGED <<pool, q, fifo, accepted, lost, thread, flusher>>
<1>1. CASE Admin \/ Shutdown \/ PoolStep \/ FlusherStep \/ UNCHANGED vars
  BY <1>1 DEF Admin, Create, CreateFails, Register, MakeDefault, DropLogger, SetLevels, SetFlushLevels, SetOwnLevel,
     Automatic, FlushEvery, Operation, Shutdown, StopFlusher, JoinFlusher, DropLoggers, ResetPool, PoolStep,
     PostTerminate, Join, FlusherStep, FlushAll, FlushNext, FlushPost, FlushDone, vars
<1>2. ASSUME NEW t \in Thread, ThreadStep(t) PROVE UNCHANGED worker
  BY <1>2 DEF ThreadStep, LogDefault, Log, SinkStep, FlushStep, Post
<1>3. ASSUME NEW w \in Worker, BackendLog(w) \/ BackendFlush(w)
      PROVE  UNCHANGED <<pool, q, fifo, accepted, lost, thread, flusher>>
  BY <1>3 DEF BackendLog, BackendFlush, history
<1> QED
  BY <1>1, <1>2, <1>3 DEF Next, WorkerStep

(* Done with an item: idle, or about to flush. *)
LEMMA BackendFacts ==
  ASSUME Servers, NEW w \in Worker, BackendLog(w) \/ BackendFlush(w)
  PROVE  /\ worker[w].pc \in {"log", "flush"}
         /\ worker' \in [Worker -> Server] /\ worker'[w].pc \in {"idle", "flush"}
         /\ \A v \in Worker \ {w} : worker'[v] = worker[v]
<1>1. PICK c \in Server : c.pc \in {"idle", "flush"} /\ worker' = [worker EXCEPT ![w] = c]
  <2>1. CASE worker' = [worker EXCEPT ![w] = Idle]
    BY <2>1, DoingFacts
  <2>2. CASE worker' = [worker EXCEPT ![w] = Doing("flush", Null, 0)]
    <3>1. Doing("flush", Null, 0) \in Server /\ Doing("flush", Null, 0).pc = "flush"
      BY DoingFacts
    <3> QED
      BY <2>2, <3>1
  <2> QED
    BY <2>1, <2>2 DEF BackendLog, BackendFlush
<1>2. worker[w].pc \in {"log", "flush"}
  BY DEF BackendLog, BackendFlush
<1> QED
  BY <1>1, <1>2 DEF Servers

LEMMA ServersStep == Queue /\ Servers /\ [Next]_vars => Servers'
<1> SUFFICES ASSUME Queue, Servers, [Next]_vars
             PROVE  Servers'
  OBVIOUS
<1>1. ASSUME NEW w \in Worker, Dequeue(w) PROVE Servers'
  <2>1. PICK pc \in {"log", "flush", "done"}, l \in Logger \cup {Null}, m \in 0 .. MaxMessages :
          /\ worker' = [worker EXCEPT ![w] = Doing(pc, l, m)]
          /\ pc = "log" => m \in Message
    BY <1>1, DequeueFacts, DoingFacts
  <2> DEFINE c == Doing(pc, l, m)
  <2>2. c \in Server /\ c.pc = pc /\ c.msg = m /\ worker' = [worker EXCEPT ![w] = c]
    BY <2>1, DoingFacts
  <2> HIDE DEF c
  <2>3. worker' \in [Worker -> Server] /\ worker'[w] = c /\ \A v \in Worker \ {w} : worker'[v] = worker[v]
    BY <2>2 DEF Servers
  <2> QED
    BY <2>1, <2>2, <2>3 DEF Servers
<1>2. ASSUME NEW w \in Worker, BackendLog(w) \/ BackendFlush(w) PROVE Servers'
  BY <1>2, BackendFacts DEF Servers
<1>3. CASE UNCHANGED worker
  BY <1>3 DEF Servers
<1> QED
  BY <1>1, <1>2, <1>3, WorkerSteps
-----------------------------------------------------------------------------
(***************************************************************************)
(* Who posts holds the pool; when nobody holds it any more it is being     *)
(* destroyed; terminate messages are posted only then.                     *)
(***************************************************************************)
Holder == Thread \cup {"flusher", "registry"}
Pool == [state : {"none", "up", "gone"}, refs : SUBSET Holder, by : Holder \cup {Null}, posted : Nat]
Posting(h) == (h \in Thread /\ thread[h].pc = "post") \/ (h = "flusher" /\ flusher.pc = "post")

Holders ==
  /\ pool \in Pool
  /\ \A h \in Holder : Posting(h) => h \in pool.refs
  /\ pool.state \in {"none", "gone"} => pool.refs = {} /\ pool.by = Null
  /\ pool.state = "up" => (pool.by = Null <=> pool.refs # {})
  /\ pool.state = "none" \/ pool.refs # {} => pool.posted = 0

(* The ways in which the pool changes. *)
LEMMA PoolSteps ==
  ASSUME Holders, Callers, Flushing, [Next]_vars
  PROVE  \/ UNCHANGED pool /\ \A h \in Holder : Posting(h)' => Posting(h)
         \/ /\ pool.state = "none" /\ \A h \in Holder : Posting(h)' => Posting(h)
            /\ pool' = [pool EXCEPT !.state = "up", !.refs = {"registry"}]
         \/ \E h \in Holder : Lock(h) /\ \A k \in Holder \ {h} : Posting(k)' => Posting(k)
         \/ \E h \in Holder : Release(h) /\ ~Posting(h)' /\ \A k \in Holder : Posting(k)' => Posting(k)
         \/ PostTerminate /\ \A h \in Holder : Posting(h)' => Posting(h)
         \/ Join /\ \A h \in Holder : Posting(h)' => Posting(h)
<1>n. "flusher" \notin Thread /\ "registry" \notin Thread
  BY SpdlogAssumption
<1>f. flusher \in Flusher /\ thread \in [Thread -> Caller]
  BY DEF Flushing, Callers
<1>1. ASSUME UNCHANGED <<thread, flusher>> PROVE \A h \in Holder : Posting(h)' => Posting(h)
  BY <1>1 DEF Posting
<1>2. ASSUME UNCHANGED thread, flusher'.pc # "post" PROVE \A h \in Holder : Posting(h)' => Posting(h)
  BY <1>2 DEF Posting
<1>3. ASSUME NEW pc, pc # "post", flusher' = [flusher EXCEPT !.pc = pc] PROVE flusher'.pc # "post"
  BY <1>3, <1>f DEF Flusher
<1>4. ASSUME NEW t \in Thread, NEW c, c.pc # "post", thread' = [thread EXCEPT ![t] = c], UNCHANGED flusher
      PROVE  ~Posting(t)' /\ \A h \in Holder : Posting(h)' => Posting(h)
  <2>1. thread'[t] = c /\ \A u \in Thread \ {t} : thread'[u] = thread[u]
    BY <1>4, <1>f
  <2> QED
    BY <1>4, <1>n, <2>1 DEF Posting
<1>5. CASE Admin
  <2>1. ASSUME NEW l \in Logger, Create(l) \/ CreateFails(l)
        PROVE  /\ UNCHANGED <<thread, flusher>>
               /\ UNCHANGED pool \/ (/\ pool.state = "none"
                                     /\ pool' = [pool EXCEPT !.state = "up", !.refs = {"registry"}])
    BY <2>1 DEF Create, CreateFails, MakePool, Operation
  <2>2. CASE FlushEvery
    <3>1. UNCHANGED <<pool, thread>> /\ flusher' = [flusher EXCEPT !.pc = "wait"]
      BY <2>2 DEF FlushEvery, Operation
    <3> QED
      BY <1>2, <1>3, <3>1
  <2>3. ASSUME ~(\E l \in Logger : Create(l) \/ CreateFails(l)), ~FlushEvery
        PROVE  UNCHANGED <<pool, thread, flusher>>
    BY <1>5, <2>3 DEF Admin, Register, MakeDefault, DropLogger, SetLevels, SetFlushLevels, SetOwnLevel,
       Automatic, Operation
  <2> QED
    BY <1>1, <2>1, <2>2, <2>3
<1>6. ASSUME NEW t \in Thread, ThreadStep(t)
      PROVE  \/ UNCHANGED pool /\ \A h \in Holder : Posting(h)' => Posting(h)
             \/ Lock(t) /\ \A k \in Holder \ {t} : Posting(k)' => Posting(k)
             \/ Release(t) /\ ~Posting(t)' /\ \A k \in Holder : Posting(k)' => Posting(k)
  <2>1. ASSUME NEW l, NEW m, Log(t, l, m)
        PROVE  \/ UNCHANGED pool /\ \A h \in Holder : Posting(h)' => Posting(h)
               \/ Lock(t) /\ \A k \in Holder \ {t} : Posting(k)' => Posting(k)
    <3>1. CASE UNCHANGED <<thread, pool>>
      BY <1>1, <2>1, <3>1 DEF Log
    <3>2. CASE UNCHANGED pool /\ thread' = [thread EXCEPT ![t] = Doing("sink", l, m)]
      <4>1. Doing("sink", l, m).pc # "post" /\ UNCHANGED flusher
        BY <2>1, DoingFacts DEF Log
      <4> QED
        BY <1>4, <3>2, <4>1
    <3>3. CASE Lock(t) /\ thread' = [thread EXCEPT ![t] = Doing("post", l, m)]
      <4>1. UNCHANGED flusher /\ \A u \in Thread \ {t} : thread'[u] = thread[u]
        BY <1>f, <2>1, <3>3 DEF Log
      <4> QED
        BY <3>3, <4>1 DEF Posting
    <3> QED
      BY <2>1, <3>1, <3>2, <3>3 DEF Log
  <2>2. CASE SinkStep(t)
    <3>1. PICK c : c.pc # "post" /\ thread' = [thread EXCEPT ![t] = c]
      <4>1. \/ thread' = [thread EXCEPT ![t] = Idle]
            \/ thread' = [thread EXCEPT ![t] = Doing("flush", thread[t].logger, thread[t].msg)]
        BY <2>2 DEF SinkStep
      <4> QED
        BY <4>1, DoingFacts
    <3> QED
      BY <1>4, <2>2, <3>1 DEF SinkStep
  <2>3. CASE FlushStep(t)
    BY <1>4, <2>3, DoingFacts DEF FlushStep
  <2>4. CASE Post(t)
    <3>1. PICK c : c.pc # "post" /\ thread' = [thread EXCEPT ![t] = c]
      <4>1. \/ thread' = [thread EXCEPT ![t] = Idle]
            \/ thread' = [thread EXCEPT ![t] = Doing("destroy", Null, 0)]
        BY <2>4 DEF Post
      <4> QED
        BY <4>1, DoingFacts
    <3> QED
      BY <1>4, <2>4, <3>1 DEF Post
  <2> QED
    BY <1>6, <2>1, <2>2, <2>3, <2>4 DEF ThreadStep, LogDefault
<1>7. ASSUME NEW w \in Worker, WorkerStep(w) PROVE UNCHANGED <<pool, thread, flusher>>
  BY <1>7 DEF WorkerStep, Dequeue, BackendLog, BackendFlush
<1>8. CASE PostTerminate
  BY <1>1, <1>8 DEF PostTerminate
<1>9. CASE Join
  <2>1. \A t \in Thread : thread'[t] = thread[t] \/ thread'[t].pc # "post"
    BY <1>9, DoingFacts DEF Join
  <2>2. UNCHANGED flusher \/ flusher' = [flusher EXCEPT !.pc = "all"]
    BY <1>9 DEF Join
  <2>3. UNCHANGED flusher \/ flusher'.pc # "post"
    BY <1>3, <2>2
  <2>4. \A h \in Holder : Posting(h)' => Posting(h)
    BY <2>1, <2>3 DEF Posting
  <2> QED
    BY <1>9, <2>4
<1>10. CASE FlusherStep
  <2>1. CASE FlushAll
    <3>1. UNCHANGED <<pool, thread>> /\ flusher'.pc = "all"
      BY <1>f, <2>1 DEF FlushAll, Flusher
    <3> QED
      BY <1>2, <3>1
  <2>2. ASSUME NEW l \in Logger, FlushNext(l)
        PROVE  \/ UNCHANGED pool /\ \A h \in Holder : Posting(h)' => Posting(h)
               \/ Lock("flusher") /\ \A k \in Holder \ {"flusher"} : Posting(k)' => Posting(k)
    <3>1. UNCHANGED thread /\ \/ Lock("flusher")
                              \/ UNCHANGED pool /\ flusher' = [flusher EXCEPT !.todo = @ \ {l}]
      BY <2>2 DEF FlushNext
    <3>2. CASE Lock("flusher")
      BY <3>1, <3>2 DEF Posting
    <3>3. CASE UNCHANGED pool /\ flusher' = [flusher EXCEPT !.todo = @ \ {l}]
      <4>1. flusher'.pc = flusher.pc
        BY <1>f, <3>3 DEF Flusher
      <4> QED
        BY <3>1, <3>3, <4>1 DEF Posting
    <3> QED
      BY <3>1, <3>2, <3>3
  <2>3. CASE FlushPost
    <3>1. Release("flusher") /\ UNCHANGED thread
      BY <2>3 DEF FlushPost
    <3>2. flusher'.pc # "post"
      BY <1>f, <2>3 DEF FlushPost, Flusher
    <3> QED
      BY <1>n, <1>2, <3>1, <3>2 DEF Posting, Holder
  <2>4. CASE FlushDone
    BY <1>2, <1>3, <2>4 DEF FlushDone
  <2> QED
    BY <1>10, <2>1, <2>2, <2>3, <2>4 DEF FlusherStep, Holder
<1>11. CASE Shutdown
  <2>1. CASE StopFlusher \/ JoinFlusher
    BY <1>1, <1>2, <1>3, <2>1 DEF StopFlusher, JoinFlusher
  <2>2. CASE DropLoggers
    BY <1>1, <2>2 DEF DropLoggers
  <2>3. CASE ResetPool
    <3>1. Release("registry") /\ UNCHANGED <<thread, flusher>>
      BY <2>3 DEF ResetPool
    <3>2. ~Posting("registry")'
      BY <1>n DEF Posting
    <3> QED
      BY <1>1, <3>1, <3>2 DEF Holder
  <2> QED
    BY <1>11, <2>1, <2>2, <2>3 DEF Shutdown
<1>12. CASE UNCHANGED vars
  BY <1>1, <1>12 DEF vars
<1> QED
  BY <1>1, <1>5, <1>6, <1>7, <1>8, <1>9, <1>10, <1>11, <1>12 DEF Next, PoolStep, Holder

LEMMA HoldersStep == Holders /\ Callers /\ Flushing /\ [Next]_vars => Holders'
<1> SUFFICES ASSUME Holders, Callers, Flushing, [Next]_vars
             PROVE  Holders'
  OBVIOUS
<1>t. /\ pool \in Pool /\ pool.state \in {"none", "up", "gone"} /\ pool.refs \subseteq Holder
      /\ pool.by \in Holder \cup {Null} /\ pool.posted \in Nat
  BY DEF Holders, Pool
<1>n. Null \notin Holder
  BY SpdlogAssumption DEF Holder, Null
<1>1. CASE UNCHANGED pool /\ \A h \in Holder : Posting(h)' => Posting(h)
  BY <1>1 DEF Holders
<1>2. CASE /\ pool.state = "none" /\ \A h \in Holder : Posting(h)' => Posting(h)
           /\ pool' = [pool EXCEPT !.state = "up", !.refs = {"registry"}]
  <2>1. pool.refs = {} /\ pool.by = Null /\ pool.posted = 0 /\ \A h \in Holder : ~Posting(h)
    BY <1>2 DEF Holders
  <2>2. /\ pool' \in Pool /\ pool'.state = "up" /\ pool'.refs = {"registry"}
        /\ pool'.by = pool.by /\ pool'.posted = pool.posted
    BY <1>2, <1>t DEF Pool, Holder
  <2> QED
    BY <1>2, <2>1, <2>2 DEF Holders
<1>3. ASSUME NEW h \in Holder, Lock(h), \A k \in Holder \ {h} : Posting(k)' => Posting(k)
      PROVE  Holders'
  <2>1. /\ pool' \in Pool /\ pool'.state = pool.state /\ pool'.refs = pool.refs \cup {h}
        /\ pool'.by = pool.by /\ pool'.posted = pool.posted /\ pool.refs # {}
    BY <1>3, <1>t DEF Pool, Lock
  <2> QED
    BY <1>3, <1>t, <2>1 DEF Holders
<1>4. ASSUME NEW h \in Holder, Release(h), ~Posting(h)', \A k \in Holder : Posting(k)' => Posting(k)
      PROVE  Holders'
  <2> DEFINE by == IF IsLast(h) THEN h ELSE pool.by
             refs == pool.refs \ {h}
  <2>1. pool' = [pool EXCEPT !.refs = refs, !.by = by]
    BY <1>4 DEF Release
  <2>2. by \in Holder \cup {Null} /\ refs \subseteq Holder /\ (refs = {} <=> pool.refs = {} \/ IsLast(h))
    BY <1>t DEF IsLast
  <2>3. (IsLast(h) => by = h /\ pool.refs # {}) /\ (~IsLast(h) => by = pool.by)
    BY DEF IsLast
  <2> HIDE DEF by, refs
  <2>4. /\ pool' \in Pool /\ pool'.state = pool.state /\ pool'.refs = refs /\ pool'.by = by
        /\ pool'.posted = pool.posted
    BY <1>t, <2>1, <2>2 DEF Pool
  <2>5. \A k \in Holder : Posting(k)' => k \in refs
    BY <1>4 DEF Holders, refs
  <2>6. pool.state \in {"none", "gone"} => refs = {} /\ by = Null
    BY <2>2, <2>3 DEF Holders
  <2>7. pool.state = "up" => (by = Null <=> refs # {})
    BY <1>4, <1>n, <2>2, <2>3 DEF Holders
  <2>8. pool.state = "none" \/ refs # {} => pool.posted = 0
    BY <2>2 DEF Holders
  <2> QED
    BY <2>4, <2>5, <2>6, <2>7, <2>8 DEF Holders
<1>5. CASE PostTerminate /\ \A h \in Holder : Posting(h)' => Posting(h)
  <2>1. /\ pool.by # Null /\ pool' = [pool EXCEPT !.posted = pool.posted + 1]
    BY <1>5 DEF PostTerminate
  <2>2. /\ pool' \in Pool /\ pool'.state = pool.state /\ pool'.refs = pool.refs /\ pool'.by = pool.by
    BY <1>t, <2>1 DEF Pool
  <2> QED
    BY <1>5, <1>t, <2>1, <2>2 DEF Holders
<1>6. CASE Join /\ \A h \in Holder : Posting(h)' => Posting(h)
  <2>1. pool.by # Null /\ pool' = [pool EXCEPT !.state = "gone", !.by = Null]
    BY <1>6 DEF Join
  <2>2. /\ pool' \in Pool /\ pool'.state = "gone" /\ pool'.refs = pool.refs /\ pool'.by = Null
        /\ pool'.posted = pool.posted
    BY <1>t, <2>1 DEF Pool
  <2>3. pool.refs = {}
    BY <1>t, <2>1 DEF Holders
  <2> QED
    BY <1>6, <2>2, <2>3 DEF Holders
<1> QED
  BY <1>1, <1>2, <1>3, <1>4, <1>5, <1>6, PoolSteps
-----------------------------------------------------------------------------
(***************************************************************************)
(* The terminate messages are the last in the queue; each ends a thread,   *)
(* and with the last of them nothing is left.                              *)
(***************************************************************************)
Done == {w \in Worker : worker[w].pc = "done"}
Left == pool.posted - Cardinality(Done)

Ending ==
  /\ Left \in 0 .. Len(fifo)
  /\ \A i \in 1 .. Len(fifo) : fifo[i].type = "terminate" <=> i > Len(fifo) - Left
  /\ pool.posted > 0 /\ Left = 0 => Len(fifo) = 0
  /\ pool.state # "up" => Len(fifo) = 0

(* An item other than a terminate message is posted by a holder of the pool. *)
LEMMA EndingByPost ==
  ASSUME Queue, Holders, Ending, NEW item \in Item, item.type # "terminate", Enqueue(item),
         UNCHANGED worker, NEW h \in Holder, Posting(h), Release(h)
  PROVE  Ending'
<1>1. /\ fifo \in Seq(Item) /\ Cardinality(Done) \in Nat /\ QueueSize \in Nat \ {0} /\ pool \in Pool
      /\ pool.posted \in Nat
  <2>1. IsFiniteSet(Done)
    BY SpdlogAssumption, FS_Subset DEF Done
  <2> QED
    BY <2>1, FS_CardinalityType, SpdlogAssumption DEF Queue, RingHolds, Holders, Pool
<1>2. pool.state = "up" /\ pool.posted = 0
  BY DEF Holders, Pool
<1>3. pool'.state = pool.state /\ pool'.posted = pool.posted
  BY <1>1 DEF Release, Pool
<1>4. Done' = Done
  BY DEF Done
<1>5. Left = 0 /\ Left' = 0
  BY <1>1, <1>2, <1>3, <1>4 DEF Ending, Left
<1>6. \A i \in 1 .. Len(fifo) : fifo[i].type # "terminate"
  BY <1>1, <1>5 DEF Ending
<1>7. fifo' \in Seq(Item) /\ \A i \in 1 .. Len(fifo') : fifo'[i].type # "terminate"
  <2>1. CASE Len(fifo) = QueueSize
    <3>1. fifo' = Append(Tail(fifo), item) /\ fifo # <<>>
      BY <1>1, <2>1 DEF Enqueue
    <3>2. /\ Tail(fifo) \in Seq(Item) /\ Len(Tail(fifo)) = Len(fifo) - 1
          /\ \A i \in 1 .. Len(fifo) - 1 : Tail(fifo)[i] = fifo[i + 1]
      BY <1>1, <3>1
    <3>3. /\ fifo' \in Seq(Item) /\ Len(fifo') = Len(fifo) /\ fifo'[Len(fifo)] = item
          /\ \A i \in 1 .. Len(fifo) - 1 : fifo'[i] = Tail(fifo)[i]
      BY <1>1, <3>1, <3>2
    <3>4. ASSUME NEW i \in 1 .. Len(fifo') PROVE fifo'[i].type # "terminate"
      <4>1. CASE i = Len(fifo)
        BY <3>3, <4>1
      <4>2. CASE i # Len(fifo)
        <5>1. i \in 1 .. Len(fifo) - 1 /\ i + 1 \in 1 .. Len(fifo)
          BY <1>1, <3>3, <3>4, <4>2
        <5>2. fifo'[i] = fifo[i + 1]
          BY <3>2, <3>3, <5>1
        <5> QED
          BY <1>6, <5>1, <5>2
      <4> QED
        BY <4>1, <4>2
    <3> QED
      BY <3>3, <3>4
  <2>2. CASE Len(fifo) # QueueSize
    <3>1. fifo' = Append(fifo, item)
      BY <2>2 DEF Enqueue
    <3> QED
      BY <1>1, <1>6, <3>1
  <2> QED
    BY <2>1, <2>2
<1> QED
  BY <1>2, <1>3, <1>5, <1>7 DEF Ending

LEMMA EndingStep ==
  ASSUME Callers, Flushing, Queue, Servers, Holders, Ending, [Next]_vars
  PROVE  Ending'
<1>1. /\ fifo \in Seq(Item) /\ QueueSize \in Nat \ {0} /\ pool \in Pool /\ pool.posted \in Nat
      /\ Len(fifo) \in Nat
  BY SpdlogAssumption DEF Queue, RingHolds, Holders, Pool
<1>2. IsFiniteSet(Done) /\ Cardinality(Done) \in Nat /\ Done \subseteq Worker
  <2>1. IsFiniteSet(Done)
    BY SpdlogAssumption, FS_Subset DEF Done
  <2> QED
    BY <2>1, FS_CardinalityType DEF Done
<1>3. ASSUME NEW w \in Worker, Dequeue(w) PROVE Ending'
  <2>1. /\ pool.state = "up" /\ worker[w] = Idle /\ fifo # <<>> /\ fifo' = Tail(fifo) /\ UNCHANGED pool
    BY <1>3, DequeueFacts DEF Dequeue
  <2>2. /\ fifo' \in Seq(Item) /\ Len(fifo') = Len(fifo) - 1 /\ Len(fifo) > 0
        /\ \A i \in 1 .. Len(fifo) - 1 : fifo'[i] = fifo[i + 1]
    BY <1>1, <2>1
  <2>3. w \notin Done
    BY <2>1, DoingFacts DEF Done
  <2>4. \A v \in Worker \ {w} : worker'[v] = worker[v]
    BY <1>3, DequeueFacts DEF Servers
  <2>5. CASE fifo[1].type = "terminate"
    <3>1. worker'[w] = Doing("done", Null, 0)
      BY <1>3, <2>5, DequeueFacts DEF Servers
    <3>2. Done' = Done \cup {w}
      BY <2>4, <3>1, DoingFacts DEF Done
    <3>3. Cardinality(Done') = Cardinality(Done) + 1
      BY <1>2, <2>3, <3>2, FS_AddElement
    <3>4. Left' = Left - 1 /\ Left \in 0 .. Len(fifo)
      BY <1>1, <1>2, <2>1, <3>3 DEF Left, Ending
    <3>5. Left = Len(fifo)
      BY <1>1, <2>2, <2>5, <3>4 DEF Ending
    <3>6. Left' = Len(fifo')
      BY <1>1, <2>2, <3>4, <3>5
    <3>7. \A i \in 1 .. Len(fifo') : fifo'[i].type = "terminate"
      BY <1>1, <2>2, <3>5 DEF Ending
    <3> QED
      BY <1>1, <2>1, <2>2, <3>6, <3>7 DEF Ending
  <2>6. CASE fifo[1].type # "terminate"
    <3>1. worker'[w].pc # "done"
      BY <1>3, <2>6, DequeueFacts, DoingFacts DEF Servers
    <3>2. Done' = Done
      BY <2>3, <2>4, <3>1 DEF Done
    <3>3. Left' = Left /\ Left \in 0 .. Len(fifo)
      BY <2>1, <3>2 DEF Left, Ending
    <3>4. Left < Len(fifo)
      BY <1>1, <2>2, <2>6, <3>3 DEF Ending
    <3>5. ASSUME NEW i \in 1 .. Len(fifo')
          PROVE  fifo'[i].type = "terminate" <=> i > Len(fifo') - Left
      <4>1. i + 1 \in 1 .. Len(fifo) /\ fifo'[i] = fifo[i + 1] /\ i \in Nat /\ Left \in Nat
        BY <1>1, <2>2, <3>3, <3>5
      <4>2. fifo[i + 1].type = "terminate" <=> i + 1 > Len(fifo) - Left
        BY <4>1 DEF Ending
      <4>3. i + 1 > Len(fifo) - Left <=> i > Len(fifo') - Left
        BY <1>1, <2>2, <4>1
      <4> QED
        BY <4>1, <4>2, <4>3
    <3>6. ~(pool.posted > 0 /\ Left = 0)
      BY <2>2 DEF Ending
    <3> QED
      BY <1>1, <2>1, <2>2, <3>3, <3>4, <3>5, <3>6 DEF Ending
  <2> QED
    BY <2>5, <2>6
<1>4. ASSUME NEW w \in Worker, BackendLog(w) \/ BackendFlush(w), UNCHANGED <<pool, fifo>> PROVE Ending'
  <2>1. Done' = Done
    BY <1>4, BackendFacts DEF Done
  <2> QED
    BY <1>4, <2>1 DEF Ending, Left
<1>5. CASE PostTerminate
  <2>1. /\ pool.by # Null /\ pool' = [pool EXCEPT !.posted = pool.posted + 1] /\ Enqueue(Terminate)
        /\ ~Full(q) /\ UNCHANGED worker
    BY <1>5 DEF PostTerminate, MayEnqueue
  <2>2. pool'.posted = pool.posted + 1 /\ pool'.state = pool.state /\ pool.state = "up"
    BY <1>1, <2>1 DEF Pool, Holders
  <2>3. Len(fifo) # QueueSize
    BY <2>1, RingFacts DEF Queue
  <2>4. fifo' = Append(fifo, Terminate)
    BY <2>1, <2>3 DEF Enqueue
  <2>5. /\ fifo' \in Seq(Item) /\ Len(fifo') = Len(fifo) + 1 /\ fifo'[Len(fifo) + 1].type = "terminate"
        /\ \A i \in 1 .. Len(fifo) : fifo'[i] = fifo[i]
    BY <1>1, <2>4, ItemFacts
  <2>6. Done' = Done
    BY <2>1 DEF Done
  <2>7. Left' = Left + 1 /\ Left \in 0 .. Len(fifo)
    BY <1>1, <1>2, <2>2, <2>6 DEF Left, Ending
  <2>8. \A i \in 1 .. Len(fifo') : fifo'[i].type = "terminate" <=> i > Len(fifo') - Left'
    BY <1>1, <2>5, <2>7 DEF Ending
  <2> QED
    BY <1>1, <2>2, <2>5, <2>7, <2>8 DEF Ending
<1>6. CASE FlushPost
  <2>1. FlushItem(flusher.logger) \in Item /\ FlushItem(flusher.logger).type # "terminate"
    BY <1>6, ItemFacts DEF FlushPost, Flushing
  <2>2. Posting("flusher") /\ "flusher" \in Holder
    BY <1>6 DEF Posting, FlushPost, Holder
  <2> QED
    BY <1>6, <2>1, <2>2, EndingByPost DEF FlushPost
<1>7. ASSUME NEW t \in Thread, Post(t), LogItem(thread[t].logger, thread[t].msg) \in Item PROVE Ending'
  <2>1. LogItem(thread[t].logger, thread[t].msg).type # "terminate"
    BY ItemFacts
  <2>2. Posting(t) /\ t \in Holder
    BY <1>7 DEF Posting, Post, Holder
  <2> QED
    BY <1>7, <2>1, <2>2, EndingByPost DEF Post
<1>8. CASE Join
  <2>1. /\ pool.posted = Cardinality(Worker) /\ \A w \in Worker : worker[w].pc = "done"
        /\ pool' = [pool EXCEPT !.state = "gone", !.by = Null] /\ UNCHANGED <<worker, fifo>>
    BY <1>8 DEF Join, Terminations, history
  <2>2. pool'.posted = pool.posted /\ pool'.state = "gone"
    BY <1>1, <2>1 DEF Pool
  <2>3. Done = Worker /\ Done' = Worker
    BY <2>1 DEF Done
  <2>4. pool.posted > 0
    BY <1>1, <2>1, SpdlogAssumption, FS_EmptySet
  <2>5. Left = 0 /\ Left' = 0
    BY <1>1, <2>1, <2>2, <2>3 DEF Left
  <2> QED
    BY <2>1, <2>2, <2>4, <2>5 DEF Ending
<1>9. ASSUME UNCHANGED <<worker, fifo>>, ~PostTerminate, ~Join PROVE Ending'
  <2>1. pool'.posted = pool.posted /\ (pool'.state = pool.state \/ pool'.state = "up")
    BY <1>1, <1>9, PoolSteps DEF Pool, Lock, Release
  <2>2. Done' = Done
    BY <1>9 DEF Done
  <2> QED
    BY <1>9, <2>1, <2>2 DEF Ending, Left
<1> QED
  BY <1>3, <1>4, <1>5, <1>6, <1>7, <1>8, <1>9, QueueSteps, WorkerSteps
-----------------------------------------------------------------------------
(***************************************************************************)
(* Messages.  What the pool took waits in the queue, is in the hands of a  *)
(* thread of the pool, is written, failed or was overrun.                  *)
(***************************************************************************)
Taken(m) == \E i \in 1 .. Len(accepted) : accepted[i] = m
Waits(m) == \E i \in 1 .. Len(fifo) : fifo[i].type = "log" /\ fifo[i].msg = m
Served(m) == \E w \in Worker : worker[w].pc = "log" /\ worker[w].msg = m
Written(m) == \E i \in 1 .. Len(written) : written[i] = m
Settled(m) == Waits(m) \/ Served(m) \/ Written(m) \/ m \in failed \/ m \in lost

Accounted ==
  /\ accepted \in Seq(Message) /\ written \in Seq(Message)
  /\ \A m \in Message : Taken(m) => Settled(m)
  /\ lost # {} => \E l \in Logger : Made(l) /\ Policy[l] = "overrun"

(* A message at the sink is written or fails. *)
LEMMA SinkMessageFacts ==
  ASSUME written \in Seq(Message), NEW m \in Message, NEW end, SinkMessage(m, end)
  PROVE  /\ written' \in Seq(Message) /\ failed \subseteq failed'
         /\ \A k : Written(k) => Written(k)'
         /\ Written(m)' \/ m \in failed'
<1>1. written' = (IF end = "written" THEN Append(written, m) ELSE written)
  BY DEF SinkMessage
<1>2. failed' = (IF end = "written" THEN failed ELSE failed \cup {m})
  BY DEF SinkMessage
<1>3. CASE end = "written"
  <2>1. /\ written' \in Seq(Message) /\ Len(written') = Len(written) + 1 /\ written'[Len(written) + 1] = m
        /\ Len(written) \in Nat /\ \A i \in 1 .. Len(written) : written'[i] = written[i]
    BY <1>1, <1>3
  <2> QED
    BY <1>2, <1>3, <2>1 DEF Written
<1>4. CASE end # "written"
  BY <1>1, <1>2, <1>4 DEF Written
<1> QED
  BY <1>3, <1>4

(* What is written stays written, and what failed has failed. *)
LEMMA SettledForGood ==
  ASSUME Callers, Servers, written \in Seq(Message), [Next]_vars
  PROVE  /\ written' \in Seq(Message) /\ failed \subseteq failed'
         /\ \A k : Written(k) => Written(k)'
<1>1. CASE UNCHANGED written /\ failed \subseteq failed'
  BY <1>1 DEF Written
<1>2. CASE Admin \/ Shutdown \/ PoolStep \/ FlusherStep \/ UNCHANGED vars
  BY <1>1, <1>2 DEF Admin, Create, CreateFails, Register, MakeDefault, DropLogger, SetLevels, SetFlushLevels, SetOwnLevel,
     Automatic, FlushEvery, Operation, Shutdown, StopFlusher, JoinFlusher, DropLoggers, ResetPool, PoolStep,
     PostTerminate, Join, FlusherStep, FlushAll, FlushNext, FlushPost, FlushDone, vars, history
<1>3. ASSUME NEW t \in Thread, SinkStep(t)
      PROVE  \E m \in Message, end \in End : SinkMessage(m, end)
  BY <1>3 DEF SinkStep, Callers, Logging
<1>4. ASSUME NEW w \in Worker, BackendLog(w)
      PROVE  \E m \in Message, end \in End : SinkMessage(m, end)
  BY <1>4 DEF BackendLog, Servers
<1>5. ASSUME NEW t \in Thread, ThreadStep(t), ~SinkStep(t)
      PROVE  UNCHANGED written /\ failed \subseteq failed'
  BY <1>5 DEF ThreadStep, LogDefault, Log, FlushStep, Post, history
<1>6. ASSUME NEW w \in Worker, WorkerStep(w), ~BackendLog(w)
      PROVE  UNCHANGED written /\ failed \subseteq failed'
  BY <1>6 DEF WorkerStep, Dequeue, BackendFlush, history
<1> QED
  BY <1>1, <1>2, <1>3, <1>4, <1>5, <1>6, SinkMessageFacts DEF Next

(* A push: the item is in the queue, and the oldest is lost if there was no room. *)
LEMMA EnqueueFacts ==
  ASSUME Queue, NEW item \in Item, Enqueue(item), NEW m, Waits(m) \/ m \in lost
  PROVE  Waits(m)' \/ m \in lost'
<1>1. fifo \in Seq(Item) /\ Len(fifo) \in Nat /\ QueueSize \in Nat \ {0} /\ lost \subseteq lost'
  BY SpdlogAssumption DEF Queue, RingHolds, Enqueue
<1>2. ASSUME NEW i \in 1 .. Len(fifo), fifo[i].type = "log", fifo[i].msg = m
      PROVE  Waits(m)' \/ m \in lost'
  <2>1. CASE Len(fifo) # QueueSize
    <3>1. fifo' = Append(fifo, item)
      BY <2>1 DEF Enqueue
    <3>2. i \in 1 .. Len(fifo') /\ fifo'[i] = fifo[i]
      BY <1>1, <1>2, <3>1
    <3> QED
      BY <1>2, <3>2 DEF Waits
  <2>2. CASE Len(fifo) = QueueSize /\ i = 1
    <3>1. Head(fifo) = fifo[1]
      BY <1>1, <2>2
    <3> QED
      BY <1>2, <2>2, <3>1 DEF Enqueue
  <2>3. CASE Len(fifo) = QueueSize /\ i # 1
    <3>1. fifo' = Append(Tail(fifo), item) /\ fifo # <<>>
      BY <1>1, <2>3 DEF Enqueue
    <3>2. Tail(fifo) \in Seq(Item) /\ Len(Tail(fifo)) = Len(fifo) - 1 /\ i - 1 \in 1 .. Len(fifo) - 1
      BY <1>1, <2>3, <3>1
    <3>3. Tail(fifo)[i - 1] = fifo[(i - 1) + 1] /\ (i - 1) + 1 = i
      BY <1>1, <3>1, <3>2
    <3>4. Len(fifo') = Len(fifo) /\ fifo'[i - 1] = Tail(fifo)[i - 1]
      BY <1>1, <3>1, <3>2
    <3>5. i - 1 \in 1 .. Len(fifo') /\ fifo'[i - 1] = fifo[i]
      BY <1>1, <3>2, <3>3, <3>4
    <3> QED
      BY <1>2, <3>5 DEF Waits
  <2> QED
    BY <2>1, <2>2, <2>3
<1> QED
  BY <1>1, <1>2 DEF Waits

LEMMA EnqueuedWaits ==
  ASSUME Queue, NEW item \in Item, item.type = "log", Enqueue(item)
  PROVE  Waits(item.msg)'
<1>1. fifo \in Seq(Item) /\ Len(fifo) \in Nat /\ QueueSize \in Nat \ {0}
  BY SpdlogAssumption DEF Queue, RingHolds
<1>2. PICK f \in Seq(Item) : fifo' = Append(f, item)
  <2>1. CASE Len(fifo) = QueueSize
    <3>1. fifo # <<>>
      BY <1>1, <2>1
    <3>2. Tail(fifo) \in Seq(Item)
      BY <1>1, <3>1
    <3> QED
      BY <2>1, <3>2 DEF Enqueue
  <2> QED
    BY <1>1, <2>1 DEF Enqueue
<1>3. Len(fifo') \in 1 .. Len(fifo') /\ fifo'[Len(fifo')] = item
  BY <1>2
<1> QED
  BY <1>3 DEF Waits

(* What is settled stays so. *)
LEMMA SettledStays ==
  ASSUME Callers, Flushing, Queue, Servers, written \in Seq(Message), [Next]_vars
  PROVE  \A m : Settled(m) => Settled(m)'
<1>1. ASSUME NEW m, Written(m) \/ m \in failed PROVE Settled(m)'
  BY <1>1, SettledForGood DEF Settled
<1>2. ASSUME NEW m, Waits(m) \/ m \in lost PROVE Settled(m)'
  <2>1. CASE UNCHANGED <<q, fifo, lost>>
    BY <1>2, <2>1 DEF Settled, Waits
  <2>2. ASSUME NEW item \in Item, Enqueue(item) PROVE Settled(m)'
    BY <1>2, <2>2, EnqueueFacts DEF Settled
  <2>3. ASSUME NEW w \in Worker, Dequeue(w) PROVE Settled(m)'
    <3>1. fifo \in Seq(Item) /\ fifo # <<>> /\ fifo' = Tail(fifo) /\ UNCHANGED lost
      BY <2>3, DequeueFacts DEF Dequeue
    <3>2. /\ Len(fifo) \in Nat /\ Len(fifo') = Len(fifo) - 1
          /\ \A i \in 1 .. Len(fifo) - 1 : fifo'[i] = fifo[i + 1]
      BY <3>1
    <3>3. CASE m \in lost
      BY <3>1, <3>3 DEF Settled
    <3>4. ASSUME NEW i \in 1 .. Len(fifo), fifo[i].type = "log", fifo[i].msg = m, i # 1
          PROVE  Waits(m)'
      <4>1. i - 1 \in 1 .. Len(fifo) - 1 /\ (i - 1) + 1 = i
        BY <3>2, <3>4
      <4>2. fifo'[i - 1] = fifo[i] /\ i - 1 \in 1 .. Len(fifo')
        BY <3>2, <4>1
      <4> QED
        BY <3>4, <4>2 DEF Waits
    <3>5. CASE fifo[1].type = "log" /\ fifo[1].msg = m
      <4>1. PICK l \in Logger : worker' = [worker EXCEPT ![w] = Doing("log", l, m)]
        BY <2>3, <3>5, DequeueFacts
      <4>2. worker'[w] = Doing("log", l, m)
        BY <4>1 DEF Servers
      <4>3. worker'[w].pc = "log" /\ worker'[w].msg = m
        BY <4>2, DoingFacts
      <4> QED
        BY <4>3 DEF Settled, Served
    <3> QED
      BY <1>2, <3>3, <3>4, <3>5 DEF Waits, Settled
  <2> QED
    BY <2>1, <2>2, <2>3, QueueSteps, ItemFacts DEF PostTerminate, FlushPost, Post
<1>3. ASSUME NEW m, Served(m) PROVE Settled(m)'
  <2>1. PICK w \in Worker : worker[w].pc = "log" /\ worker[w].msg = m
    BY <1>3 DEF Served
  <2>2. m \in Message
    BY <2>1 DEF Servers
  <2>3. CASE worker'[w] = worker[w]
    BY <2>1, <2>3 DEF Settled, Served
  <2>4. ASSUME NEW v \in Worker, Dequeue(v) PROVE worker'[w] = worker[w]
    <3>1. v # w
      BY <2>1, <2>4, DoingFacts DEF Dequeue
    <3> QED
      BY <2>4, <3>1 DEF Dequeue, Servers
  <2>5. ASSUME NEW v \in Worker, BackendLog(v) \/ BackendFlush(v), worker'[w] # worker[w] PROVE Settled(m)'
    <3>1. v = w
      BY <2>5, BackendFacts
    <3>2. PICK end \in End : SinkMessage(m, end)
      BY <2>1, <2>5, <3>1 DEF BackendLog, BackendFlush
    <3> QED
      BY <2>2, <3>2, SinkMessageFacts DEF Settled
  <2> QED
    BY <2>3, <2>4, <2>5, WorkerSteps
<1> QED
  BY <1>1, <1>2, <1>3 DEF Settled

LEMMA AccountedStep ==
  ASSUME Catalogue, Callers, Flushing, Queue, Servers, Accounted, [Next]_vars
  PROVE  Accounted'
<1>1. written' \in Seq(Message)
  BY SettledForGood DEF Accounted
<1>2. \A m : Settled(m) => Settled(m)'
  BY SettledStays DEF Accounted
<1>3. accepted' \in Seq(Message) /\ \A m \in Message : Taken(m)' => Settled(m)'
  <2>1. CASE UNCHANGED accepted
    BY <1>2, <2>1 DEF Accounted, Taken
  <2>2. ASSUME NEW t \in Thread, Post(t)
        PROVE  accepted' \in Seq(Message) /\ \A m \in Message : Taken(m)' => Settled(m)'
    <3>1. PICK m \in Message, l \in Logger : m = thread[t].msg /\ l = thread[t].logger
      BY <2>2 DEF Post, Callers, Logging
    <3>2. PICK item \in Item : item = LogItem(l, m) /\ item.type = "log" /\ item.msg = m
      BY ItemFacts
    <3>3. Enqueue(item) /\ accepted' = Append(accepted, m)
      BY <2>2, <3>1, <3>2 DEF Post
    <3>4. Settled(m)'
      BY <3>2, <3>3, EnqueuedWaits DEF Settled
    <3>5. /\ accepted' \in Seq(Message) /\ Len(accepted') = Len(accepted) + 1 /\ Len(accepted) \in Nat
          /\ accepted'[Len(accepted) + 1] = m
          /\ \A i \in 1 .. Len(accepted) : accepted'[i] = accepted[i]
      BY <3>3 DEF Accounted
    <3>6. ASSUME NEW k \in Message, Taken(k)' PROVE k = m \/ Taken(k)
      BY <3>5, <3>6 DEF Taken
    <3> QED
      BY <1>2, <3>4, <3>5, <3>6 DEF Accounted
  <2>3. CASE Admin \/ Shutdown \/ PoolStep \/ FlusherStep \/ UNCHANGED vars
    BY <2>1, <2>3 DEF Admin, Create, CreateFails, Register, MakeDefault, DropLogger, SetLevels, SetFlushLevels,
       SetOwnLevel, Automatic, FlushEvery, Operation, Shutdown, StopFlusher, JoinFlusher, DropLoggers, ResetPool,
       PoolStep, PostTerminate, Join, FlusherStep, FlushAll, FlushNext, FlushPost, FlushDone, vars, history
  <2>4. ASSUME NEW t \in Thread, ThreadStep(t), ~Post(t) PROVE UNCHANGED accepted
    BY <2>4 DEF ThreadStep, LogDefault, Log, SinkStep, FlushStep, history
  <2>5. ASSUME NEW w \in Worker, WorkerStep(w) PROVE UNCHANGED accepted
    BY <2>5 DEF WorkerStep, Dequeue, BackendLog, BackendFlush, history
  <2> QED
    BY <2>1, <2>2, <2>3, <2>4, <2>5 DEF Next
<1>4. (\E l \in Logger : Made(l) /\ Policy[l] = "overrun") => (\E l \in Logger : Made(l)' /\ Policy[l] = "overrun")
  BY MadeStays
<1>5. lost' # {} => \E l \in Logger : Made(l)' /\ Policy[l] = "overrun"
  <2>1. CASE UNCHANGED lost
    BY <1>4, <2>1 DEF Accounted
  <2>2. ASSUME NEW item, Enqueue(item), ~Full(q) PROVE UNCHANGED lost
    <3>1. Len(fifo) # QueueSize
      BY <2>2, RingFacts DEF Queue
    <3> QED
      BY <2>2, <3>1 DEF Enqueue
  <2>3. CASE PostTerminate
    BY <2>1, <2>2, <2>3 DEF PostTerminate, MayEnqueue
  <2>4. CASE FlushPost
    BY <1>4, <2>1, <2>2, <2>4 DEF FlushPost, MayEnqueue, Flushing
  <2>5. ASSUME NEW t \in Thread, Post(t) PROVE lost' # {} => \E l \in Logger : Made(l)' /\ Policy[l] = "overrun"
    BY <1>4, <2>1, <2>2, <2>5 DEF Post, MayEnqueue, Callers, Logging
  <2>6. ASSUME NEW w \in Worker, Dequeue(w) PROVE UNCHANGED lost
    BY <2>6 DEF Dequeue
  <2> QED
    BY <2>1, <2>3, <2>4, <2>5, <2>6, QueueSteps
<1> QED
  BY <1>1, <1>3, <1>5 DEF Accounted
-----------------------------------------------------------------------------
(***************************************************************************)
(* The rotating file.  While the file is open its size is counted at least *)
(* in full, and a closed file makes the next message rotate.               *)
(***************************************************************************)
Files == [0 .. MaxFiles -> Seq(Nat)]
Fits(file) == file \in Files /\ \A i \in 0 .. MaxFiles : Len(file[i]) <= Longest
Sink == [open : BOOLEAN, size : Nat, buffered : Nat, file : Files]

Safe(s) ==
  /\ s \in Sink /\ Fits(s.file)
  /\ s.open => Len(s.file[0]) <= s.size
  /\ ~s.open => s.size + 1 > MaxSize

LEMMA LongestFacts ==
  /\ MaxSize \in Nat /\ MaxFiles \in Nat /\ 0 \in 0 .. MaxFiles
  /\ Longest \in Nat \ {0} /\ (MaxSize # 0 => Longest = MaxSize)
  /\ Absent \in Seq(Nat) /\ Len(Absent) = 1 /\ <<>> \in Seq(Nat) /\ Len(<<>>) = 0 /\ Absent # <<>>
<1>1. MaxSize \in Nat /\ MaxFiles \in Nat
  BY FileAssumption
<1>2. Absent \in Seq(Nat) /\ Len(Absent) = 1 /\ Absent # <<>>
  BY DEF Absent
<1> QED
  BY <1>1, <1>2 DEF Longest

(* Renames move files, and a file that fits fits under another name. *)
LEMMA ShiftFits ==
  ASSUME NEW file, Fits(file), NEW j \in Nat
  PROVE  Fits(Shift(file, j))
<1>1. ASSUME NEW k \in 0 .. MaxFiles
      PROVE  Shift(file, j)[k] \in Seq(Nat) /\ Len(Shift(file, j)[k]) <= Longest
  <2>1. CASE Shift(file, j)[k] = Absent
    BY <2>1, LongestFacts
  <2>2. CASE Shift(file, j)[k] = file[k]
    BY <2>2 DEF Fits, Files
  <2>3. CASE k > 0 /\ Shift(file, j)[k] = file[k - 1]
    <3>1. k - 1 \in 0 .. MaxFiles
      BY <2>3, LongestFacts
    <3> QED
      BY <2>3, <3>1 DEF Fits, Files
  <2> QED
    BY <2>1, <2>2, <2>3 DEF Shift
<1>2. Shift(file, j) = [k \in 0 .. MaxFiles |-> Shift(file, j)[k]]
  BY DEF Shift
<1> QED
  BY <1>1, <1>2 DEF Fits, Files

(* A file that is opened again is empty. *)
LEMMA ReopenFacts ==
  ASSUME NEW s \in Sink, Fits(s.file), NEW r \in Reopen(s, TRUE)
  PROVE  /\ r \in Sink /\ Fits(r.file) /\ r.size = s.size
         /\ r.open => r.file[0] = <<>> /\ r.file = [s.file EXCEPT ![0] = <<>>]
         /\ ~r.open => r.file = s.file
<1>1. CASE r = [s EXCEPT !.open = FALSE]
  BY <1>1 DEF Sink
<1>2. CASE r = [s EXCEPT !.open = TRUE, !.file[0] = <<>>]
  <2>1. PICK file : file = [s.file EXCEPT ![0] = <<>>]
    OBVIOUS
  <2>2. Fits(file) /\ file[0] = <<>>
    <3>1. <<>> \in Seq(Nat) /\ Len(<<>>) <= Longest /\ 0 \in 0 .. MaxFiles
      BY LongestFacts
    <3> QED
      BY <2>1, <3>1 DEF Fits, Files
  <2>3. r = [s EXCEPT !.open = TRUE, !.file = file]
    BY <1>2, <2>1
  <2>4. r \in Sink /\ r.file = file /\ r.size = s.size /\ r.open
    BY <2>2, <2>3 DEF Sink, Fits
  <2> QED
    BY <2>1, <2>2, <2>4
<1> QED
  BY <1>1, <1>2 DEF Reopen

(* A message written to an open file that has room for it. *)
LEMMA WriteFacts ==
  ASSUME NEW s \in Sink, Fits(s.file), s.open, NEW m \in Nat, NEW size \in Nat,
         Len(s.file[0]) + 1 <= size, Len(s.file[0]) + 1 <= Longest
  PROVE  Safe(Write(s, m, size))
<1>1. s.file[0] \in Seq(Nat)
  BY LongestFacts DEF Fits, Files
<1>2. PICK f : f = Append(s.file[0], m) /\ f \in Seq(Nat) /\ Len(f) = Len(s.file[0]) + 1
  <2>1. Append(s.file[0], m) \in Seq(Nat) /\ Len(Append(s.file[0], m)) = Len(s.file[0]) + 1
    BY <1>1
  <2> QED
    BY <2>1
<1>3. PICK file : file = [s.file EXCEPT ![0] = f]
  OBVIOUS
<1>4. Fits(file) /\ file[0] = f
  BY <1>2, <1>3, LongestFacts DEF Fits, Files
<1>w. Write(s, m, size) = [s EXCEPT !.size = size, !.file = file, !.buffered = s.buffered + 1]
  BY <1>2, <1>3 DEF Write
<1>5. /\ Write(s, m, size).open /\ Write(s, m, size).size = size /\ Write(s, m, size).file = file
      /\ Write(s, m, size) \in Sink
  <2>1. s.buffered + 1 \in Nat /\ file \in Files
    BY <1>4 DEF Sink, Fits
  <2> QED
    BY <1>w, <2>1 DEF Sink
<1> QED
  BY <1>2, <1>4, <1>5 DEF Safe

(* A rename that fails leaves the file truncated, or closed and asking for a rotation. *)
LEMMA RotateFailsFacts ==
  ASSUME NEW s \in Sink, Fits(s.file), s.size > MaxSize, NEW r \in RotateFails(s)
  PROVE  Safe(r) /\ (r.open => r.file[0] = <<>>)
<1> DEFINE Renamed(j) == [s EXCEPT !.file = Shift(s.file, j + 1)]
           Gone(j) == [Renamed(j) EXCEPT !.file[j] = Absent]
           Ended(t) == { IF p.open THEN [p EXCEPT !.size = 0] ELSE p : p \in Reopen(t, TRUE) }
           Ends(j) == UNION { Ended(t) : t \in {Renamed(j), Gone(j)} }
<1>1. RotateFails(s) = UNION { Ends(j) : j \in { i \in 1 .. MaxFiles : Exists(Shift(s.file, i + 1)[i - 1]) } }
  BY DEF RotateFails
<1> HIDE DEF Ends, Ended
<1>2. PICK j \in 1 .. MaxFiles : r \in Ends(j)
  BY <1>1
<1>3. PICK t \in {Renamed(j), Gone(j)} : r \in Ended(t)
  BY <1>2 DEF Ends
<1>4. j + 1 \in Nat /\ j \in 0 .. MaxFiles
  BY LongestFacts
<1>5. PICK file : file = Shift(s.file, j + 1)
  OBVIOUS
<1>6. Fits(file)
  BY <1>4, <1>5, ShiftFits
<1>7. PICK gone : gone = [file EXCEPT ![j] = Absent]
  OBVIOUS
<1>g. Fits(gone)
  <2>1. Absent \in Seq(Nat) /\ Len(Absent) <= Longest
    BY LongestFacts
  <2>2. file \in Files /\ \A i \in 0 .. MaxFiles : Len(file[i]) <= Longest
    BY <1>6 DEF Fits
  <2>3. gone \in Files
    BY <1>7, <2>1, <2>2 DEF Files
  <2>4. ASSUME NEW i \in 0 .. MaxFiles PROVE Len(gone[i]) <= Longest
    <3>1. gone[i] = Absent \/ gone[i] = file[i]
      BY <1>7, <2>2 DEF Files
    <3> QED
      BY <2>1, <2>2, <3>1
  <2> QED
    BY <2>3, <2>4 DEF Fits
<1>8. t \in Sink /\ Fits(t.file) /\ t.size = s.size
  <2>1. CASE t = Renamed(j)
    <3>1. t = [s EXCEPT !.file = file]
      BY <1>5, <2>1
    <3> QED
      BY <1>6, <3>1 DEF Sink, Fits
  <2>2. CASE t = Gone(j)
    <3>1. Renamed(j) = [s EXCEPT !.file = file]
      BY <1>5
    <3>2. Renamed(j).file = file
      BY <3>1 DEF Sink
    <3>3. Gone(j) = [Renamed(j) EXCEPT !.file = gone]
      BY <1>7, <3>2
    <3>4. t = [s EXCEPT !.file = gone]
      BY <2>2, <3>1, <3>3 DEF Sink
    <3> QED
      BY <1>g, <3>4 DEF Sink, Fits
  <2> QED
    BY <1>3, <2>1, <2>2
<1>9. PICK p \in Reopen(t, TRUE) : r = IF p.open THEN [p EXCEPT !.size = 0] ELSE p
  BY <1>3 DEF Ended
<1>10. p \in Sink /\ Fits(p.file) /\ p.size = s.size /\ (p.open => p.file[0] = <<>>)
  BY <1>8, ReopenFacts
<1>11. CASE p.open
  <2>1. r \in Sink /\ r.open /\ r.size = 0 /\ r.file = p.file
    BY <1>9, <1>10, <1>11 DEF Sink
  <2> QED
    BY <1>10, <1>11, <2>1, LongestFacts DEF Safe
<1>12. CASE ~p.open
  BY <1>9, <1>10, <1>12, LongestFacts DEF Safe, Sink
<1> QED
  BY <1>11, <1>12

(* sink_it_ keeps the file safe, whatever fails in it. *)
LEMMA SinkItFacts ==
  ASSUME NEW s, Safe(s), NEW m \in Nat, NEW o \in SinkIt(s, m, 1)
  PROVE  Safe(o.sink)
<1> DEFINE counted == [s EXCEPT !.size = @ + 1]
           closed == Close(counted)
<1>0. \A k, end : Outcome(k, end).sink = k
  BY DEF Outcome
<1>1. /\ counted \in Sink /\ counted.file = s.file /\ counted.size = s.size + 1 /\ counted.open = s.open
      /\ Fits(counted.file)
  BY DEF Safe, Sink
<1>2. closed \in Sink /\ closed.file = s.file /\ closed.size = s.size + 1 /\ Fits(closed.file)
  BY <1>1 DEF Close, Sink
<1>3. s.size \in Nat /\ Len(s.file[0]) \in Nat /\ MaxSize \in Nat
  BY LongestFacts DEF Safe, Sink, Files
<1>4. CASE counted.size > MaxSize
  <2>1. \/ \E r \in RotateFails(closed) : o = Outcome(r, "rename failed")
        \/ \E r \in Rotate(closed) :
             \/ r.open /\ o = Outcome(Write(r, m, 1), "written")
             \/ r.open /\ o = Outcome([r EXCEPT !.size = 1], "write failed")
             \/ ~r.open /\ o = Outcome(r, "open failed")
    BY <1>4 DEF SinkIt, Put
  <2> HIDE DEF counted, closed
  <2>2. CASE \E r \in RotateFails(closed) : o = Outcome(r, "rename failed")
    <3>1. PICK r \in RotateFails(closed) : o = Outcome(r, "rename failed")
      BY <2>2
    <3>2. o.sink = r
      BY <3>1 DEF Outcome
    <3> QED
      BY <1>1, <1>2, <1>4, <3>2, RotateFailsFacts
  <2>3. ASSUME NEW r \in Rotate(closed),
               \/ r.open /\ o = Outcome(Write(r, m, 1), "written")
               \/ r.open /\ o = Outcome([r EXCEPT !.size = 1], "write failed")
               \/ ~r.open /\ o = Outcome(r, "open failed")
        PROVE  Safe(o.sink)
    <3> DEFINE file == Shift(closed.file, 1)
               shifted == [closed EXCEPT !.file = file]
    <3>1. Fits(file)
      BY <1>2, ShiftFits
    <3> HIDE DEF file
    <3>2. shifted \in Sink /\ shifted.file = file /\ shifted.size = s.size + 1
      BY <1>2, <3>1 DEF Sink, Fits
    <3>3. r \in Reopen(shifted, TRUE)
      BY <2>3 DEF Rotate, file
    <3> HIDE DEF shifted
    <3>4. r \in Sink /\ Fits(r.file) /\ r.size = s.size + 1 /\ (r.open => r.file[0] = <<>>)
      BY <3>1, <3>2, <3>3, ReopenFacts
    <3>5. CASE r.open
      <4>1. o.sink = Write(r, m, 1) \/ o.sink = [r EXCEPT !.size = 1]
        BY <1>0, <2>3, <3>5, Zenon
      <4>2. Safe(Write(r, m, 1))
        BY <3>4, <3>5, WriteFacts, LongestFacts
      <4>3. Safe([r EXCEPT !.size = 1])
        <5>1. PICK emptied : emptied = [r EXCEPT !.size = 1]
          OBVIOUS
        <5>2. /\ emptied \in Sink /\ emptied.file = r.file /\ emptied.size = 1 /\ emptied.open
          BY <3>4, <3>5, <5>1 DEF Sink
        <5>3. Len(emptied.file[0]) = 0
          BY <3>4, <3>5, <5>2
        <5> QED
          BY <3>4, <5>1, <5>2, <5>3, LongestFacts DEF Safe
      <4> QED
        BY <4>1, <4>2, <4>3
    <3>6. CASE ~r.open
      <4>1. o.sink = r
        BY <1>0, <2>3, <3>6, Zenon
      <4> QED
        BY <1>1, <1>3, <1>4, <3>4, <3>6, <4>1 DEF Safe
    <3> QED
      BY <3>5, <3>6
  <2> QED
    BY <2>1, <2>2, <2>3
<1>5. CASE ~(counted.size > MaxSize)
  <2>0. \/ o = Outcome(Write(counted, m, counted.size), "written")
        \/ o = Outcome(counted, "write failed")
    <3>1. [counted EXCEPT !.size = counted.size] = counted
      BY <1>1 DEF Sink
    <3>2. SinkIt(s, m, 1) = Put(counted, m, counted.size)
      BY <1>5 DEF SinkIt
    <3>3. o \in Put(counted, m, counted.size)
      BY <3>2, Zenon
    <3> HIDE DEF counted
    <3> QED
      BY <3>1, <3>3 DEF Put
  <2> HIDE DEF counted
  <2>1. o.sink = Write(counted, m, counted.size) \/ o.sink = counted
    <3>1. \A k, end : Outcome(k, end).sink = k
      BY DEF Outcome
    <3> QED
      BY <2>0, <3>1
  <2>2. s.open /\ Len(s.file[0]) <= s.size
    BY <1>1, <1>3, <1>5 DEF Safe
  <2>3. Len(s.file[0]) + 1 <= Longest /\ counted.open
    BY <1>1, <1>3, <1>5, <2>2, LongestFacts
  <2>4. Safe(Write(counted, m, counted.size))
    BY <1>1, <1>3, <2>2, <2>3, WriteFacts
  <2>5. Safe(counted)
    BY <1>1, <1>3, <2>2 DEF Safe
  <2> QED
    BY <2>1, <2>4, <2>5
<1> QED
  BY <1>4, <1>5

LEMMA SafeStep ==
  ASSUME Callers, Servers, Safe(sink), [Next]_vars
  PROVE  Safe(sink')
<1>1. CASE UNCHANGED sink
  BY <1>1
<1>2. CASE sink' = FlushFile(sink)
  <2>1. CASE sink.open
    <3>1. /\ sink' \in Sink /\ sink'.open = sink.open /\ sink'.size = sink.size /\ sink'.file = sink.file
      BY <1>2, <2>1 DEF FlushFile, Safe, Sink
    <3> QED
      BY <3>1 DEF Safe
  <2> QED
    BY <1>2, <2>1 DEF FlushFile
<1>3. ASSUME NEW m \in Message, NEW end, SinkMessage(m, end) PROVE Safe(sink')
  <2>1. m \in Nat
    BY SpdlogAssumption DEF Message
  <2>2. PICK o \in SinkIt(sink, m, 1) : sink' = o.sink
    BY <1>3 DEF SinkMessage
  <2> QED
    BY <2>1, <2>2, SinkItFacts
<1>4. CASE Admin \/ Shutdown \/ PoolStep \/ FlusherStep \/ UNCHANGED vars
  BY <1>1, <1>2, <1>4 DEF Admin, Create, CreateFails, Register, MakeDefault, DropLogger, SetLevels, SetFlushLevels,
     SetOwnLevel, Automatic, FlushEvery, Operation, Shutdown, StopFlusher, JoinFlusher, DropLoggers, ResetPool,
     PoolStep, PostTerminate, Join, FlusherStep, FlushAll, FlushNext, FlushPost, FlushDone, vars
<1>5. ASSUME NEW t \in Thread, ThreadStep(t) PROVE Safe(sink')
  <2>1. CASE SinkStep(t)
    <3>1. thread[t].msg \in Message /\ \E end \in End : SinkMessage(thread[t].msg, end)
      BY <2>1 DEF SinkStep, Callers, Logging
    <3> QED
      BY <1>3, <3>1
  <2> QED
    BY <1>1, <1>2, <1>5, <2>1 DEF ThreadStep, LogDefault, Log, FlushStep, Post
<1>6. ASSUME NEW w \in Worker, WorkerStep(w) PROVE Safe(sink')
  <2>1. CASE BackendLog(w)
    <3>1. worker[w].msg \in Message /\ \E end \in End : SinkMessage(worker[w].msg, end)
      BY <2>1 DEF BackendLog, Servers
    <3> QED
      BY <1>3, <3>1
  <2> QED
    BY <1>1, <1>2, <1>6, <2>1 DEF WorkerStep, Dequeue, BackendFlush
<1> QED
  BY <1>4, <1>5, <1>6 DEF Next
-----------------------------------------------------------------------------
(* The inductive invariant of the library at work. *)
Working ==
  /\ Catalogue /\ Callers /\ Flushing /\ Queue /\ Servers /\ Holders /\ Ending /\ Accounted
  /\ Safe(sink)

LEMMA WorkingInit == Init => Working
<1> SUFFICES ASSUME Init PROVE Working
  OBVIOUS
<1>1. Catalogue
  BY CatalogueInit
<1>2. Callers
  BY DoingFacts DEF Init, Callers, Logging
<1>3. Flushing
  <2>1. flusher = [pc |-> "none", todo |-> {}, logger |-> Null, rounds |-> 0]
    BY DEF Init
  <2>2. flusher \in Flusher /\ flusher.pc = "none" /\ flusher.todo = {}
    BY <2>1 DEF Flusher
  <2> QED
    BY <2>2 DEF Flushing
<1>4. Queue
  <2>1. QueueSize \in Nat \ {0} /\ fifo = <<>> /\ fifo \in Seq(Item) /\ Len(fifo) = 0
    BY SpdlogAssumption DEF Init
  <2>2. q = [slots |-> QueueSize + 1, head |-> 0, tail |-> 0,
             v |-> [i \in 0 .. QueueSize |-> Moved], overrun |-> 0]
    BY DEF Init, NewQueue
  <2>3. q \in Ring /\ q.head = 0 /\ q.tail = 0
    BY <2>1, <2>2 DEF Ring
  <2>4. Count(q) = 0
    BY <2>3 DEF Count
  <2>5. /\ Len(fifo) = Count(q) /\ Count(q) \in 0 .. QueueSize
        /\ \A i \in 1 .. Len(fifo) : fifo[i] = q.v[Slot(q.head, i - 1)]
    BY <2>1, <2>4
  <2> QED
    BY <2>1, <2>3, <2>5, RingIs DEF Queue
<1>5. Servers
  BY DoingFacts DEF Init, Servers
<1>6. Holders
  <2>1. pool = [state |-> "none", refs |-> {}, by |-> Null, posted |-> 0]
    BY DEF Init
  <2>2. /\ pool \in Pool /\ pool.state = "none" /\ pool.refs = {} /\ pool.by = Null /\ pool.posted = 0
    BY <2>1 DEF Pool
  <2>3. \A h \in Holder : ~Posting(h)
    BY DoingFacts DEF Init, Posting
  <2> QED
    BY <2>2, <2>3 DEF Holders
<1>7. Ending
  <2>1. Done = {}
    BY DoingFacts DEF Init, Done
  <2>2. Cardinality(Done) = 0
    BY <2>1, FS_EmptySet
  <2>3. pool.posted = 0 /\ fifo = <<>>
    BY DEF Init
  <2>4. Left = 0 /\ Len(fifo) = 0
    BY <2>2, <2>3 DEF Left
  <2> QED
    BY <2>3, <2>4 DEF Ending
<1>8. Accounted
  <2>1. accepted = <<>> /\ written = <<>> /\ lost = {}
    BY DEF Init
  <2>2. accepted \in Seq(Message) /\ written \in Seq(Message) /\ Len(accepted) = 0
    BY <2>1
  <2>3. \A m : ~Taken(m)
    BY <2>2 DEF Taken
  <2> QED
    BY <2>1, <2>2, <2>3 DEF Accounted
<1>9. Safe(sink)
  <2>1. PICK file : file = [i \in 0 .. MaxFiles |-> IF i = 0 THEN <<>> ELSE Absent]
    OBVIOUS
  <2>2. PICK size \in 0 .. MaxSize : sink = [open |-> TRUE, size |-> size, buffered |-> 0, file |-> file]
    BY <2>1 DEF Init, NewSinks
  <2>3. /\ \A i \in 0 .. MaxFiles : file[i] \in Seq(Nat) /\ Len(file[i]) <= Longest
        /\ file[0] = <<>>
    <3>1. /\ Absent \in Seq(Nat) /\ Len(Absent) <= Longest
          /\ <<>> \in Seq(Nat) /\ Len(<<>>) <= Longest /\ 0 \in 0 .. MaxFiles
      BY LongestFacts
    <3>2. file[0] = <<>> /\ \A i \in 0 .. MaxFiles : file[i] = Absent \/ file[i] = <<>>
      BY <2>1, <3>1
    <3> QED
      BY <3>1, <3>2
  <2>4. file \in Files
    BY <2>1, <2>3 DEF Files
  <2>5. sink \in Sink /\ sink.open /\ sink.size \in Nat /\ sink.file = file
    BY <2>2, <2>4, LongestFacts DEF Sink
  <2> QED
    BY <2>3, <2>4, <2>5, LongestFacts DEF Safe, Fits
<1> QED
  BY <1>1, <1>2, <1>3, <1>4, <1>5, <1>6, <1>7, <1>8, <1>9 DEF Working

LEMMA WorkingInvariance == Spec => []Working
<1>1. Working /\ [Next]_vars => Working'
  <2> SUFFICES ASSUME Working, [Next]_vars PROVE Working'
    OBVIOUS
  <2>1. Catalogue /\ Callers /\ Flushing /\ Queue /\ Servers /\ Holders /\ Ending /\ Accounted /\ Safe(sink)
    BY DEF Working
  <2>2. Catalogue' /\ Callers' /\ Flushing' /\ Queue' /\ Servers' /\ Holders'
    BY <2>1, CatalogueStep, CallersStep, FlushingStep, QueueStep, ServersStep, HoldersStep
  <2>3. Ending' /\ Accounted'
    BY <2>1, EndingStep, AccountedStep
  <2>4. Safe(sink)'
    BY <2>1, SafeStep
  <2> QED
    BY <2>2, <2>3, <2>4 DEF Working
<1> QED
  BY <1>1, WorkingInit, PTL DEF Spec

(***************************************************************************)
(* circular_q is a bounded queue that loses its oldest item to a push into *)
(* a full ring, for every number of slots (push_back, pop_front).          *)
(***************************************************************************)
THEOREM RingIsAQueue == Spec => []CircularIsFifo
<1>1. Working => CircularIsFifo
  BY DEF Working, Queue, RingHolds, CircularIsFifo
<1> QED
  BY <1>1, WorkingInvariance, PTL

(***************************************************************************)
(* A message an asynchronous logger handed over is written, failed or      *)
(* overrun, never forgotten: not by the ring, not by a worker, and not by  *)
(* ~thread_pool, whose terminate messages come after everything else.      *)
(***************************************************************************)
THEOREM NoMessageVanishes == Spec => []NothingVanishes
<1>1. Working => NothingVanishes
  <2> SUFFICES ASSUME Working PROVE NothingVanishes
    OBVIOUS
  <2>1. Queue /\ Holders /\ Ending /\ Accounted /\ Items(q) = fifo /\ fifo \in Seq(Item)
    BY DEF Working, Queue, RingHolds
  <2>2. ASSUME NEW m, m \in ToSet(accepted)
        PROVE  m \in Queued \cup InHand \cup ToSet(written) \cup failed \cup lost
    <3>1. m \in Message /\ Taken(m)
      BY <2>1, <2>2 DEF ToSet, Accounted, Taken
    <3>2. Settled(m)
      BY <2>1, <3>1 DEF Accounted
    <3>3. Waits(m) => m \in Queued
      BY <2>1 DEF Waits, Queued
    <3>4. Served(m) => m \in InHand
      BY DEF Served, InHand
    <3>5. Written(m) => m \in ToSet(written)
      BY <2>1 DEF Written, ToSet, Accounted
    <3> QED
      BY <3>2, <3>3, <3>4, <3>5 DEF Settled
  <2>3. \A l \in Logger : Made(l) => obj[l] # NotMade
    BY LevelFacts DEF Made
  <2>4. pool.state = "gone" => Empty(q)
    BY <2>1, RingFacts DEF Ending, Queue
  <2> QED
    BY <2>1, <2>2, <2>3, <2>4 DEF NothingVanishes, Accounted
<1> QED
  BY <1>1, WorkingInvariance, PTL

(***************************************************************************)
(* rotating_file_sink never writes to a closed file and no file grows      *)
(* beyond max_size, or one message, whatever opening, renaming, removing   *)
(* and writing fail at (sink_it_, rotate_).                                *)
(***************************************************************************)
THEOREM RotatingSinkIsSafe == Spec => []SinkIsSafe
<1>1. Working => SinkIsSafe
  BY DEF Working, Safe, Fits, SinkIsSafe
<1> QED
  BY <1>1, WorkingInvariance, PTL
-----------------------------------------------------------------------------
(***************************************************************************)
(* Messages are numbered as they are logged, so no two calls carry the     *)
(* same one and the pool takes each at most once; what waits in the queue  *)
(* or is being served was taken.                                           *)
(***************************************************************************)
Carries(t, m) == thread[t].pc \in {"sink", "post"} /\ thread[t].msg = m

Numbered ==
  /\ logged \in Nat
  /\ \A m \in Message : Taken(m) \/ Written(m) => m <= logged
  /\ \A t \in Thread, m \in Message : Carries(t, m) => m <= logged /\ ~Taken(m) /\ ~Written(m)
  /\ \A t, u \in Thread, m \in Message : Carries(t, m) /\ Carries(u, m) => t = u
  /\ \A i, j \in 1 .. Len(accepted) : accepted[i] = accepted[j] => i = j
  /\ \A m \in Message : Waits(m) \/ Served(m) => Taken(m)

(* No message changes hands. *)
Carried == \A t \in Thread, m \in Message : Carries(t, m)' => Carries(t, m)
Passive == \A m \in Message : Served(m)' => Served(m)

(* What a step does to messages. *)
Rests == /\ UNCHANGED <<accepted, written, fifo>> /\ logged <= logged' /\ logged' \in Nat
         /\ Carried /\ Passive
Logs(t, m) == /\ UNCHANGED <<accepted, written, fifo, worker>> /\ m = logged + 1 /\ logged' = m
              /\ \A u \in Thread, k \in Message : Carries(u, k)' => Carries(u, k) \/ (u = t /\ k = m)
Sinks(t, m) == /\ Carries(t, m) /\ \A k \in Message : ~Carries(t, k)'
               /\ UNCHANGED <<accepted, fifo, worker, logged>> /\ Carried
               /\ written' = written \/ written' = Append(written, m)
Hands(t, m, item) == /\ Carries(t, m) /\ \A k \in Message : ~Carries(t, k)'
                     /\ item.type = "log" /\ item.msg = m /\ Enqueue(item) /\ accepted' = Append(accepted, m)
                     /\ UNCHANGED <<written, worker, logged>> /\ Carried
Signals(item) == /\ item.type # "log" /\ Enqueue(item)
                 /\ UNCHANGED <<accepted, written, worker, logged>> /\ Carried
Takes(w) == /\ Dequeue(w) /\ UNCHANGED <<accepted, written, logged>> /\ Carried
Serves(w, m) == /\ worker[w].pc = "log" /\ worker[w].msg = m /\ worker'[w].pc # "log"
                /\ \A v \in Worker \ {w} : worker'[v] = worker[v]
                /\ UNCHANGED <<accepted, fifo, logged>> /\ Carried
                /\ written' = written \/ written' = Append(written, m)

LEMMA MessageSteps ==
  ASSUME Callers, Flushing, Queue, Servers, logged \in Nat, [Next]_vars
  PROVE  \/ Rests
         \/ \E t \in Thread, m \in Message : Logs(t, m) \/ Sinks(t, m)
         \/ \E t \in Thread, m \in Message, item \in Item : Hands(t, m, item)
         \/ \E item \in Item : Signals(item)
         \/ \E w \in Worker : Takes(w)
         \/ \E w \in Worker, m \in Message : Serves(w, m)
<1>1. UNCHANGED thread => Carried
  BY DEF Carried, Carries
<1>2. UNCHANGED worker => Passive
  BY DEF Passive, Served
<1>r. UNCHANGED <<accepted, written, fifo, logged, worker>> /\ Carried => Rests
  BY <1>2 DEF Rests
<1>t. ASSUME NEW t \in Thread, NEW c, thread' = [thread EXCEPT ![t] = c], c.pc \notin {"sink", "post"}
      PROVE  Carried /\ \A k \in Message : ~Carries(t, k)'
  <2>1. thread'[t] = c /\ \A u \in Thread \ {t} : thread'[u] = thread[u]
    BY <1>t DEF Callers
  <2> QED
    BY <1>t, <2>1 DEF Carried, Carries
<1>3. CASE Admin \/ Shutdown \/ UNCHANGED vars
  BY <1>1, <1>3, <1>r DEF Admin, Create, CreateFails, Register, MakeDefault, DropLogger, SetLevels, SetFlushLevels,
     SetOwnLevel, Automatic, FlushEvery, Operation, Shutdown, StopFlusher, JoinFlusher, DropLoggers, ResetPool, vars, history
<1>4. CASE Join
  <2>1. UNCHANGED <<accepted, written, fifo, logged, worker>>
    BY <1>4 DEF Join, history
  <2>2. \A t \in Thread : thread'[t] = thread[t] \/ thread'[t] = Idle
    BY <1>4 DEF Join
  <2>3. Carried
    BY <2>2, DoingFacts DEF Carried, Carries
  <2> QED
    BY <1>r, <2>1, <2>3
<1>5. CASE PostTerminate
  <2>1. UNCHANGED <<accepted, written, worker, logged, thread>> /\ Enqueue(Terminate)
    BY <1>5 DEF PostTerminate
  <2>2. Signals(Terminate)
    BY <1>1, <2>1, ItemFacts DEF Signals
  <2> QED
    BY <2>2, ItemFacts
<1>6. CASE FlusherStep
  <2>1. CASE FlushPost
    <3>1. PICK item \in Item : item = FlushItem(flusher.logger) /\ item.type = "flush"
      BY <2>1, ItemFacts DEF FlushPost, Flushing
    <3>2. UNCHANGED <<accepted, written, worker, logged, thread>> /\ Enqueue(item)
      BY <2>1, <3>1 DEF FlushPost
    <3>3. Signals(item)
      BY <1>1, <3>1, <3>2 DEF Signals
    <3> QED
      BY <3>3
  <2>2. CASE ~FlushPost
    BY <1>1, <1>6, <1>r, <2>2 DEF FlusherStep, FlushAll, FlushNext, FlushDone, history
  <2> QED
    BY <2>1, <2>2
<1>7. ASSUME NEW t \in Thread, NEW m \in Message, NEW l, Log(t, l, m)
      PROVE  Rests \/ Logs(t, m)
  <2>1. UNCHANGED <<accepted, written, fifo, worker>> /\ m = logged + 1 /\ logged' = m
    BY <1>7 DEF Log
  <2>2. CASE UNCHANGED thread
    BY <1>1, <1>2, <2>1, <2>2 DEF Rests
  <2>3. ASSUME NEW pc, thread' = [thread EXCEPT ![t] = Doing(pc, l, m)] PROVE Logs(t, m)
    <3>1. thread'[t].msg = m /\ \A u \in Thread \ {t} : thread'[u] = thread[u]
      BY <2>3, DoingFacts DEF Callers
    <3> QED
      BY <2>1, <3>1 DEF Logs, Carries
  <2> QED
    BY <1>7, <2>2, <2>3 DEF Log
<1>8. ASSUME NEW t \in Thread, SinkStep(t) PROVE \E m \in Message : Sinks(t, m)
  <2>1. PICK m \in Message, end \in End : m = thread[t].msg /\ SinkMessage(m, end)
    BY <1>8 DEF SinkStep, Callers, Logging
  <2>2. UNCHANGED <<accepted, fifo, worker, logged>> /\ Carries(t, m)
    BY <1>8, <2>1 DEF SinkStep, Carries
  <2>3. written' = written \/ written' = Append(written, m)
    BY <2>1 DEF SinkMessage
  <2>4. PICK c : thread' = [thread EXCEPT ![t] = c] /\ c.pc \in {"flush", "idle"}
    <3>1. PICK c : /\ thread' = [thread EXCEPT ![t] = c]
                   /\ c = Doing("flush", thread[t].logger, thread[t].msg) \/ c = Idle
      BY <1>8 DEF SinkStep
    <3>2. c.pc \in {"flush", "idle"}
      BY <3>1, DoingFacts
    <3> QED
      BY <3>1, <3>2
  <2>5. Carried /\ \A k \in Message : ~Carries(t, k)'
    BY <1>t, <2>4
  <2> QED
    BY <2>2, <2>3, <2>5 DEF Sinks
<1>9. ASSUME NEW t \in Thread, FlushStep(t) PROVE Rests
  <2>1. UNCHANGED <<accepted, written, fifo, logged, worker>> /\ thread' = [thread EXCEPT ![t] = Idle]
    BY <1>9 DEF FlushStep, history
  <2>2. Carried
    BY <1>t, <2>1, DoingFacts
  <2> QED
    BY <1>r, <2>1, <2>2
<1>10. ASSUME NEW t \in Thread, Post(t) PROVE \E m \in Message, item \in Item : Hands(t, m, item)
  <2>1. PICK m \in Message, l \in Logger : m = thread[t].msg /\ l = thread[t].logger
    BY <1>10 DEF Post, Callers, Logging
  <2>2. PICK item \in Item : item = LogItem(l, m) /\ item.type = "log" /\ item.msg = m
    BY ItemFacts
  <2>3. /\ Enqueue(item) /\ accepted' = Append(accepted, m) /\ UNCHANGED <<written, worker, logged>>
        /\ Carries(t, m)
    BY <1>10, <2>1, <2>2 DEF Post, Carries
  <2>4. PICK c : thread' = [thread EXCEPT ![t] = c] /\ c.pc \in {"destroy", "idle"}
    <3>1. PICK c : thread' = [thread EXCEPT ![t] = c] /\ (c = Doing("destroy", Null, 0) \/ c = Idle)
      BY <1>10 DEF Post
    <3>2. c.pc \in {"destroy", "idle"}
      BY <3>1, DoingFacts
    <3> QED
      BY <3>1, <3>2
  <2>5. Carried /\ \A k \in Message : ~Carries(t, k)'
    BY <1>t, <2>4
  <2> QED
    BY <2>2, <2>3, <2>5 DEF Hands
<1>11. ASSUME NEW w \in Worker, Dequeue(w) PROVE Takes(w)
  BY <1>1, <1>11 DEF Dequeue, Takes
<1>12. ASSUME NEW w \in Worker, BackendLog(w) PROVE \E m \in Message : Serves(w, m)
  <2>1. PICK m \in Message, end \in End : m = worker[w].msg /\ SinkMessage(m, end) /\ worker[w].pc = "log"
    BY <1>12 DEF BackendLog, Servers
  <2>2. written' = written \/ written' = Append(written, m)
    BY <2>1 DEF SinkMessage
  <2>3. UNCHANGED <<accepted, fifo, logged, thread>>
    BY <1>12 DEF BackendLog
  <2>4. worker'[w].pc # "log" /\ \A v \in Worker \ {w} : worker'[v] = worker[v]
    BY <1>12, BackendFacts
  <2> QED
    BY <1>1, <2>1, <2>2, <2>3, <2>4 DEF Serves
<1>13. ASSUME NEW w \in Worker, BackendFlush(w) PROVE Rests
  <2>1. UNCHANGED <<accepted, written, fifo, logged, thread>>
    BY <1>13 DEF BackendFlush, history
  <2>2. worker'[w].pc # "log" /\ \A v \in Worker \ {w} : worker'[v] = worker[v]
    BY <1>13, BackendFacts
  <2>3. Passive
    BY <2>2 DEF Passive, Served
  <2> QED
    BY <1>1, <2>1, <2>3 DEF Rests
<1>14. ASSUME NEW t \in Thread, ThreadStep(t)
       PROVE  \/ Rests \/ \E m \in Message : Logs(t, m) \/ Sinks(t, m)
              \/ \E m \in Message, item \in Item : Hands(t, m, item)
  BY <1>7, <1>8, <1>9, <1>10, <1>14 DEF ThreadStep, LogDefault
<1> QED
  BY <1>3, <1>4, <1>5, <1>6, <1>11, <1>12, <1>13, <1>14 DEF Next, PoolStep, WorkerStep

LEMMA Appending ==
  ASSUME NEW s \in Seq(Message), NEW m \in Message
  PROVE  /\ Append(s, m) \in Seq(Message) /\ Len(s) \in Nat /\ Len(Append(s, m)) = Len(s) + 1
         /\ Append(s, m)[Len(s) + 1] = m
         /\ \A i \in 1 .. Len(s) : Append(s, m)[i] = s[i]
  OBVIOUS

(* The queue after a push: shifted by one place if the oldest item was overrun. *)
LEMMA EnqueueShape ==
  ASSUME Queue, NEW item \in Item, Enqueue(item)
  PROVE  \E d \in {0, 1} :
           /\ Len(fifo) \in Nat /\ Len(fifo') = Len(fifo) + 1 - d /\ fifo'[Len(fifo')] = item
           /\ \A i \in 1 .. Len(fifo') - 1 : i + d \in 1 .. Len(fifo) /\ fifo'[i] = fifo[i + d]
<1>1. fifo \in Seq(Item) /\ Len(fifo) \in Nat /\ QueueSize \in Nat \ {0}
  BY SpdlogAssumption DEF Queue, RingHolds
<1>2. CASE Len(fifo) = QueueSize
  <2>1. fifo' = Append(Tail(fifo), item) /\ fifo # <<>>
    BY <1>1, <1>2 DEF Enqueue
  <2>2. /\ Tail(fifo) \in Seq(Item) /\ Len(Tail(fifo)) = Len(fifo) - 1
        /\ \A i \in 1 .. Len(fifo) - 1 : Tail(fifo)[i] = fifo[i + 1]
    BY <1>1, <2>1
  <2>3. /\ Len(fifo') = Len(fifo) /\ fifo'[Len(fifo)] = item
        /\ \A i \in 1 .. Len(fifo) - 1 : fifo'[i] = Tail(fifo)[i]
    BY <1>1, <2>1, <2>2
  <2>4. /\ Len(fifo') = Len(fifo) + 1 - 1 /\ fifo'[Len(fifo')] = item
        /\ \A i \in 1 .. Len(fifo') - 1 : i + 1 \in 1 .. Len(fifo) /\ fifo'[i] = fifo[i + 1]
    BY <1>1, <2>2, <2>3
  <2> QED
    BY <1>1, <2>4
<1>3. CASE Len(fifo) # QueueSize
  <2>1. fifo' = Append(fifo, item)
    BY <1>3 DEF Enqueue
  <2>2. /\ Len(fifo') = Len(fifo) + 1 - 0 /\ fifo'[Len(fifo')] = item
        /\ \A i \in 1 .. Len(fifo') - 1 : i + 0 \in 1 .. Len(fifo) /\ fifo'[i] = fifo[i + 0]
    BY <1>1, <2>1
  <2> QED
    BY <1>1, <2>2
<1> QED
  BY <1>2, <1>3

(* A thread of the pool takes the first of what waits. *)
LEMMA TakeFacts ==
  ASSUME Queue, Servers, NEW w \in Worker, Dequeue(w)
  PROVE  /\ fifo' = Tail(fifo) /\ Len(fifo) \in Nat \ {0} /\ Len(fifo') = Len(fifo) - 1
         /\ \A i \in 1 .. Len(fifo') : i + 1 \in 1 .. Len(fifo) /\ fifo'[i] = fifo[i + 1]
         /\ \A v \in Worker \ {w} : worker'[v] = worker[v]
         /\ worker[w].pc = "idle"
         /\ worker'[w].pc = "log" => fifo[1].type = "log" /\ worker'[w].msg = fifo[1].msg
         /\ \A k \in Message : Waits(k)' \/ Served(k)' => Waits(k) \/ Served(k)
<1>1. fifo \in Seq(Item) /\ fifo # <<>> /\ fifo' = Tail(fifo) /\ worker[w] = Idle
  BY DequeueFacts
<1>2. /\ Len(fifo) \in Nat \ {0} /\ Len(fifo') = Len(fifo) - 1
      /\ \A i \in 1 .. Len(fifo') : i + 1 \in 1 .. Len(fifo) /\ fifo'[i] = fifo[i + 1]
  BY <1>1
<1>3. PICK c : /\ worker' = [worker EXCEPT ![w] = c]
               /\ c.pc = "log" => fifo[1].type = "log" /\ c.msg = fifo[1].msg
  <2>1. PICK pc \in {"log", "flush", "done"}, l \in Logger \cup {Null}, m \in {fifo[1].msg, 0} :
          /\ worker' = [worker EXCEPT ![w] = Doing(pc, l, m)]
          /\ pc = "log" => fifo[1].type = "log" /\ m = fifo[1].msg
    BY DequeueFacts
  <2>2. Doing(pc, l, m).pc = pc /\ Doing(pc, l, m).msg = m
    BY DoingFacts
  <2> QED
    BY <2>1, <2>2
<1>4. worker'[w] = c /\ \A v \in Worker \ {w} : worker'[v] = worker[v]
  BY <1>3 DEF Servers
<1>5. \A k \in Message : Waits(k)' => Waits(k)
  BY <1>2 DEF Waits
<1>6. \A k \in Message : Served(k)' => Served(k) \/ Waits(k)
  BY <1>2, <1>3, <1>4 DEF Served, Waits
<1> QED
  BY <1>1, <1>2, <1>3, <1>4, <1>5, <1>6, DoingFacts

LEMMA NumberedStep ==
  ASSUME Callers, Flushing, Queue, Servers, Accounted, Numbered, [Next]_vars
  PROVE  Numbered'
<1>1. logged \in Nat /\ accepted \in Seq(Message) /\ written \in Seq(Message) /\ Len(accepted) \in Nat
  BY DEF Numbered, Accounted
<1>m. \A m \in Message : m \in Nat
  BY SpdlogAssumption DEF Message
<1>2. UNCHANGED accepted => \A m \in Message : Taken(m)' <=> Taken(m)
  BY DEF Taken
<1>3. UNCHANGED written => \A m \in Message : Written(m)' <=> Written(m)
  BY DEF Written
<1>4. UNCHANGED fifo => \A m \in Message : Waits(m)' <=> Waits(m)
  BY DEF Waits
<1>5. UNCHANGED worker => \A m \in Message : Served(m)' <=> Served(m)
  BY DEF Served
<1>6. ASSUME NEW m \in Message, written' = written \/ written' = Append(written, m)
      PROVE  \A k \in Message : Written(k)' => Written(k) \/ k = m
  <2>1. CASE written' = Append(written, m)
    BY <1>1, <2>1, Appending DEF Written
  <2> QED
    BY <1>3, <1>6, <2>1
<1>7. ASSUME NEW item \in Item, Enqueue(item)
      PROVE  \A k \in Message : Waits(k)' => Waits(k) \/ (item.type = "log" /\ item.msg = k)
  <2>1. PICK d \in {0, 1} :
          /\ Len(fifo) \in Nat /\ Len(fifo') = Len(fifo) + 1 - d /\ fifo'[Len(fifo')] = item
          /\ \A i \in 1 .. Len(fifo') - 1 : i + d \in 1 .. Len(fifo) /\ fifo'[i] = fifo[i + d]
    BY <1>7, EnqueueShape
  <2>2. ASSUME NEW k \in Message, NEW i \in 1 .. Len(fifo'), fifo'[i].type = "log", fifo'[i].msg = k
        PROVE  Waits(k) \/ (item.type = "log" /\ item.msg = k)
    <3>1. CASE i = Len(fifo')
      BY <2>1, <2>2, <3>1
    <3>2. CASE i # Len(fifo')
      <4>1. i \in 1 .. Len(fifo') - 1
        BY <2>1, <2>2, <3>2
      <4>2. i + d \in 1 .. Len(fifo) /\ fifo'[i] = fifo[i + d]
        BY <2>1, <4>1
      <4> QED
        BY <2>2, <4>2 DEF Waits
    <3> QED
      BY <3>1, <3>2
  <2> QED
    BY <2>2 DEF Waits
<1>8. CASE Rests
  BY <1>1, <1>m, <1>2, <1>3, <1>4, <1>8 DEF Rests, Carried, Passive, Numbered
<1>9. ASSUME NEW t \in Thread, NEW m \in Message, Logs(t, m) PROVE Numbered'
  <2>1. \A k \in Message : /\ Taken(k)' <=> Taken(k)
                           /\ Written(k)' <=> Written(k)
                           /\ Waits(k)' <=> Waits(k)
                           /\ Served(k)' <=> Served(k)
    BY <1>2, <1>3, <1>4, <1>5, <1>9 DEF Logs
  <2>2. logged' \in Nat /\ logged' = m /\ m > logged /\ ~Taken(m) /\ ~Written(m)
    BY <1>1, <1>9 DEF Logs, Numbered
  <2>3. ASSUME NEW u \in Thread, NEW k \in Message, Carries(u, k)'
        PROVE  k <= logged' /\ ~Taken(k)' /\ ~Written(k)' /\ (k = m => u = t)
    BY <1>1, <1>m, <1>9, <2>1, <2>2, <2>3 DEF Logs, Numbered
  <2>4. \A u, v \in Thread, k \in Message : Carries(u, k)' /\ Carries(v, k)' => u = v
    BY <1>9, <2>3 DEF Logs, Numbered
  <2>5. \A k \in Message : Taken(k)' \/ Written(k)' => k <= logged'
    BY <1>1, <1>m, <2>1, <2>2 DEF Numbered
  <2>6. \A i, j \in 1 .. Len(accepted') : accepted'[i] = accepted'[j] => i = j
    BY <1>9 DEF Logs, Numbered
  <2> QED
    BY <2>1, <2>2, <2>3, <2>4, <2>5, <2>6 DEF Numbered
<1>10. ASSUME NEW t \in Thread, NEW m \in Message, Sinks(t, m) PROVE Numbered'
  <2>1. \A k \in Message : /\ Taken(k)' <=> Taken(k)
                           /\ Waits(k)' <=> Waits(k)
                           /\ Served(k)' <=> Served(k)
                           /\ Written(k)' => Written(k) \/ k = m
    BY <1>2, <1>4, <1>5, <1>6, <1>10 DEF Sinks
  <2>2. ASSUME NEW u \in Thread, NEW k \in Message, Carries(u, k)' PROVE Carries(u, k) /\ k # m
    BY <1>10, <2>2 DEF Sinks, Carried, Numbered
  <2>3. Carries(t, m) /\ logged' = logged /\ UNCHANGED accepted
    BY <1>10 DEF Sinks
  <2> QED
    BY <2>1, <2>2, <2>3 DEF Numbered
<1>11. ASSUME NEW t \in Thread, NEW m \in Message, NEW item \in Item, Hands(t, m, item) PROVE Numbered'
  <2>1. /\ Carries(t, m) /\ logged' = logged /\ accepted' = Append(accepted, m) /\ UNCHANGED <<written, worker>>
        /\ Enqueue(item) /\ item.msg = m
    BY <1>11 DEF Hands
  <2>2. /\ Len(accepted') = Len(accepted) + 1 /\ accepted'[Len(accepted) + 1] = m
        /\ \A i \in 1 .. Len(accepted) : accepted'[i] = accepted[i]
    BY <1>1, <2>1, Appending
  <2>3. \A k \in Message : Taken(k)' <=> Taken(k) \/ k = m
    BY <1>1, <2>2 DEF Taken
  <2>4. \A k \in Message : /\ Written(k)' <=> Written(k)
                           /\ Served(k)' <=> Served(k)
                           /\ Waits(k)' => Waits(k) \/ k = m
    BY <1>3, <1>5, <1>7, <2>1
  <2>5. ASSUME NEW u \in Thread, NEW k \in Message, Carries(u, k)' PROVE Carries(u, k) /\ k # m
    BY <1>11, <2>5 DEF Hands, Carried, Numbered
  <2>6. \A i \in 1 .. Len(accepted) : accepted[i] # m
    BY <2>1 DEF Numbered, Taken
  <2>7. ASSUME NEW i \in 1 .. Len(accepted'), NEW j \in 1 .. Len(accepted'), accepted'[i] = accepted'[j]
        PROVE  i = j
    <3>1. /\ i \in 1 .. Len(accepted) \/ i = Len(accepted) + 1
          /\ j \in 1 .. Len(accepted) \/ j = Len(accepted) + 1
      BY <1>1, <2>2, <2>7
    <3> QED
      BY <2>2, <2>6, <2>7, <3>1 DEF Numbered
  <2>8. m <= logged
    BY <2>1 DEF Numbered
  <2> QED
    BY <2>1, <2>3, <2>4, <2>5, <2>7, <2>8 DEF Numbered
<1>12. ASSUME NEW item \in Item, Signals(item) PROVE Numbered'
  <2>1. \A k \in Message : /\ Taken(k)' <=> Taken(k)
                           /\ Written(k)' <=> Written(k)
                           /\ Served(k)' <=> Served(k)
                           /\ Waits(k)' => Waits(k)
    BY <1>2, <1>3, <1>5, <1>7, <1>12 DEF Signals
  <2>2. Carried /\ logged' = logged /\ UNCHANGED accepted
    BY <1>12 DEF Signals
  <2> QED
    BY <2>1, <2>2 DEF Numbered, Carried
<1>13. ASSUME NEW w \in Worker, Takes(w) PROVE Numbered'
  <2>1. \A k \in Message : (Taken(k)' <=> Taken(k)) /\ (Written(k)' <=> Written(k))
    BY <1>2, <1>3, <1>13 DEF Takes
  <2>2. Carried /\ logged' = logged /\ UNCHANGED accepted
    BY <1>13 DEF Takes
  <2>3. \A k \in Message : Waits(k)' \/ Served(k)' => Waits(k) \/ Served(k)
    BY <1>13, TakeFacts DEF Takes
  <2> QED
    BY <2>1, <2>2, <2>3 DEF Numbered, Carried
<1>14. ASSUME NEW w \in Worker, NEW m \in Message, Serves(w, m) PROVE Numbered'
  <2>1. \A k \in Message : /\ Taken(k)' <=> Taken(k)
                           /\ Waits(k)' <=> Waits(k)
                           /\ Written(k)' => Written(k) \/ k = m
    BY <1>2, <1>4, <1>6, <1>14 DEF Serves
  <2>2. Carried /\ logged' = logged /\ UNCHANGED accepted
    BY <1>14 DEF Serves
  <2>3. \A k \in Message : Served(k)' => Served(k)
    BY <1>14 DEF Serves, Served
  <2>4. Served(m) /\ Taken(m)
    BY <1>14 DEF Serves, Served, Numbered
  <2>5. \A t \in Thread, k \in Message : Carries(t, k)' => Carries(t, k) /\ k # m
    BY <2>2, <2>4 DEF Numbered, Carried
  <2> QED
    BY <2>1, <2>2, <2>3, <2>4, <2>5 DEF Numbered
<1> QED
  BY <1>1, <1>8, <1>9, <1>10, <1>11, <1>12, <1>13, <1>14, MessageSteps

(***************************************************************************)
(* With one thread in the pool, messages are written, served and waiting   *)
(* in the order in which the pool took them.                               *)
(***************************************************************************)
Before(m, n) == \E i, j \in 1 .. Len(accepted) : i < j /\ accepted[i] = m /\ accepted[j] = n
WaitsAt(i, m) == fifo[i].type = "log" /\ fifo[i].msg = m
WrittenAt(a, m) == written[a] = m

Lined ==
  /\ \A i, j \in 1 .. Len(fifo), m, n \in Message : i < j /\ WaitsAt(i, m) /\ WaitsAt(j, n) => Before(m, n)
  /\ \A m, n \in Message : Served(m) /\ Waits(n) => Before(m, n)
  /\ \A m, n \in Message : Written(m) /\ Taken(m) /\ (Waits(n) \/ Served(n)) => Before(m, n)
  /\ \A a, b \in 1 .. Len(written), m, n \in Message :
       a < b /\ WrittenAt(a, m) /\ WrittenAt(b, n) /\ Taken(m) /\ Taken(n) => Before(m, n)

LEMMA LinedStep ==
  ASSUME Callers, Flushing, Queue, Servers, Accounted, Numbered, Lined, [Next]_vars,
         \A v, w \in Worker : v = w
  PROVE  Lined'
<1>1. logged \in Nat /\ accepted \in Seq(Message) /\ written \in Seq(Message) /\ Len(accepted) \in Nat
      /\ Len(written) \in Nat
  BY DEF Numbered, Accounted
<1>2. UNCHANGED accepted => \A m, n \in Message : (Taken(m)' <=> Taken(m)) /\ (Before(m, n)' <=> Before(m, n))
  BY DEF Taken, Before
<1>3. UNCHANGED written => \A m \in Message : Written(m)' <=> Written(m)
  BY DEF Written
<1>4. UNCHANGED fifo => \A m \in Message : Waits(m)' <=> Waits(m)
  BY DEF Waits
<1>5. UNCHANGED worker => \A m \in Message : Served(m)' <=> Served(m)
  BY DEF Served
<1>6. ASSUME UNCHANGED <<accepted, written, fifo>>, Passive PROVE Lined'
  <2>1. \A m, n \in Message : /\ Taken(m)' <=> Taken(m)
                              /\ Before(m, n)' <=> Before(m, n)
                              /\ Written(m)' <=> Written(m)
                              /\ Waits(m)' <=> Waits(m)
                              /\ Served(m)' => Served(m)
    BY <1>2, <1>3, <1>4, <1>6 DEF Passive
  <2>2. \A i, m : (WaitsAt(i, m)' <=> WaitsAt(i, m)) /\ (WrittenAt(i, m)' <=> WrittenAt(i, m))
    BY <1>6 DEF WaitsAt, WrittenAt
  <2> QED
    BY <1>6, <2>1, <2>2 DEF Lined
<1>7. ASSUME NEW t \in Thread, NEW m \in Message, Sinks(t, m) PROVE Lined'
  <2>1. ~Taken(m)
    BY <1>7 DEF Sinks, Numbered
  <2>2. CASE written' = written
    BY <1>5, <1>6, <1>7, <2>2 DEF Sinks, Passive
  <2>3. CASE written' = Append(written, m)
    <3>1. \A k, n \in Message : /\ Taken(k)' <=> Taken(k)
                                /\ Before(k, n)' <=> Before(k, n)
                                /\ Waits(k)' <=> Waits(k)
                                /\ Served(k)' <=> Served(k)
      BY <1>2, <1>4, <1>5, <1>7 DEF Sinks
    <3>2. /\ Len(written') = Len(written) + 1 /\ written'[Len(written) + 1] = m
          /\ \A a \in 1 .. Len(written) : written'[a] = written[a]
      BY <1>1, <2>3, Appending
    <3>3. \A k \in Message : Written(k)' /\ Taken(k) => Written(k)
      BY <1>1, <2>1, <3>2 DEF Written
    <3>4. \A a \in 1 .. Len(written'), k \in Message :
            WrittenAt(a, k)' /\ Taken(k) => a \in 1 .. Len(written) /\ WrittenAt(a, k)
      BY <1>1, <2>1, <3>2 DEF WrittenAt
    <3>5. UNCHANGED fifo /\ \A i, k : WaitsAt(i, k)' <=> WaitsAt(i, k)
      BY <1>7 DEF Sinks, WaitsAt
    <3> QED
      BY <3>1, <3>3, <3>4, <3>5 DEF Lined
  <2> QED
    BY <1>7, <2>2, <2>3 DEF Sinks
<1>8. ASSUME NEW item \in Item, Enqueue(item), UNCHANGED <<written, worker>>,
             \A k, n \in Message : Before(k, n) => Before(k, n)',
             \A k \in Message : Written(k) /\ Taken(k)' => Taken(k),
             \A k, n \in Message : Taken(k) /\ item.type = "log" /\ item.msg = n => Before(k, n)'
      PROVE  Lined'
  <2>1. PICK d \in {0, 1} :
          /\ Len(fifo) \in Nat /\ Len(fifo') = Len(fifo) + 1 - d /\ fifo'[Len(fifo')] = item
          /\ \A i \in 1 .. Len(fifo') - 1 : i + d \in 1 .. Len(fifo) /\ fifo'[i] = fifo[i + d]
    BY <1>8, EnqueueShape
  <2>2. ASSUME NEW i \in 1 .. Len(fifo'), NEW k \in Message, WaitsAt(i, k)'
        PROVE  \/ i + d \in 1 .. Len(fifo) /\ WaitsAt(i + d, k) /\ Waits(k)
               \/ i = Len(fifo') /\ item.type = "log" /\ item.msg = k
    <3>1. CASE i = Len(fifo')
      BY <2>1, <2>2, <3>1 DEF WaitsAt
    <3>2. CASE i # Len(fifo')
      <4>1. i \in 1 .. Len(fifo') - 1
        BY <2>1, <2>2, <3>2
      <4>2. i + d \in 1 .. Len(fifo) /\ fifo'[i] = fifo[i + d]
        BY <2>1, <4>1
      <4> QED
        BY <2>2, <4>2 DEF WaitsAt, Waits
    <3> QED
      BY <3>1, <3>2
  <2>3. \A k \in Message : Waits(k)' => Waits(k) \/ (item.type = "log" /\ item.msg = k)
    <3>1. \A k \in Message : Waits(k)' => \E i \in 1 .. Len(fifo') : WaitsAt(i, k)'
      BY DEF Waits, WaitsAt
    <3> QED
      BY <2>2, <3>1
  <2>4. \A k \in Message : (Served(k)' <=> Served(k)) /\ (Written(k)' <=> Written(k))
    BY <1>3, <1>5, <1>8
  <2>5. ASSUME NEW i \in 1 .. Len(fifo'), NEW j \in 1 .. Len(fifo'), NEW k \in Message, NEW n \in Message,
               i < j, WaitsAt(i, k)', WaitsAt(j, n)'
        PROVE  Before(k, n)'
    <3>1. i + d \in 1 .. Len(fifo) /\ WaitsAt(i + d, k) /\ Waits(k)
      BY <2>1, <2>2, <2>5
    <3>2. CASE j + d \in 1 .. Len(fifo) /\ WaitsAt(j + d, n)
      <4>1. i + d < j + d
        BY <2>1, <2>5
      <4>2. Before(k, n)
        BY <3>1, <3>2, <4>1 DEF Lined
      <4> QED
        BY <1>8, <4>2
    <3>3. CASE item.type = "log" /\ item.msg = n
      BY <1>8, <3>1, <3>3 DEF Numbered
    <3> QED
      BY <2>2, <2>5, <3>2, <3>3
  <2>6. \A k, n \in Message : Served(k)' /\ Waits(n)' => Before(k, n)'
    BY <1>8, <2>3, <2>4 DEF Lined, Numbered
  <2>7. \A k, n \in Message : Written(k)' /\ Taken(k)' /\ (Waits(n)' \/ Served(n)') => Before(k, n)'
    BY <1>8, <2>3, <2>4 DEF Lined
  <2>8. ASSUME NEW a \in 1 .. Len(written'), NEW b \in 1 .. Len(written'), NEW k \in Message, NEW n \in Message,
               a < b, WrittenAt(a, k)', WrittenAt(b, n)', Taken(k)', Taken(n)'
        PROVE  Before(k, n)'
    <3>1. a \in 1 .. Len(written) /\ b \in 1 .. Len(written) /\ WrittenAt(a, k) /\ WrittenAt(b, n)
      BY <1>8, <2>8 DEF WrittenAt
    <3>2. Taken(k) /\ Taken(n)
      BY <1>8, <2>8, <3>1 DEF Written, WrittenAt
    <3> QED
      BY <1>8, <2>8, <3>1, <3>2 DEF Lined
  <2> QED
    BY <2>5, <2>6, <2>7, <2>8 DEF Lined
<1>9. ASSUME NEW t \in Thread, NEW m \in Message, NEW item \in Item, Hands(t, m, item) PROVE Lined'
  <2>1. /\ Carries(t, m) /\ accepted' = Append(accepted, m) /\ UNCHANGED <<written, worker>>
        /\ Enqueue(item) /\ item.type = "log" /\ item.msg = m
    BY <1>9 DEF Hands
  <2>2. /\ Len(accepted') = Len(accepted) + 1 /\ accepted'[Len(accepted) + 1] = m
        /\ \A i \in 1 .. Len(accepted) : accepted'[i] = accepted[i]
    BY <1>1, <2>1, Appending
  <2>3. \A k, n \in Message : Before(k, n) => Before(k, n)'
    BY <1>1, <2>2 DEF Before
  <2>4. \A k \in Message : Taken(k) => Before(k, m)'
    BY <1>1, <2>2 DEF Before, Taken
  <2>5. \A k \in Message : Taken(k)' => Taken(k) \/ k = m
    BY <1>1, <2>2 DEF Taken
  <2>6. ~Written(m)
    BY <2>1 DEF Numbered
  <2> QED
    BY <1>8, <2>1, <2>3, <2>4, <2>5, <2>6
<1>10. ASSUME NEW item \in Item, Signals(item) PROVE Lined'
  <2>1. /\ Enqueue(item) /\ item.type # "log" /\ UNCHANGED <<accepted, written, worker>>
    BY <1>10 DEF Signals
  <2> QED
    BY <1>2, <1>8, <2>1
<1>11. ASSUME NEW w \in Worker, Takes(w) PROVE Lined'
  <2>1. Dequeue(w) /\ UNCHANGED <<accepted, written>>
    BY <1>11 DEF Takes
  <2>2. /\ Len(fifo) \in Nat \ {0} /\ Len(fifo') = Len(fifo) - 1
        /\ \A i \in 1 .. Len(fifo') : i + 1 \in 1 .. Len(fifo) /\ fifo'[i] = fifo[i + 1]
        /\ worker'[w].pc = "log" => fifo[1].type = "log" /\ worker'[w].msg = fifo[1].msg
        /\ \A k \in Message : Waits(k)' \/ Served(k)' => Waits(k) \/ Served(k)
    BY <2>1, TakeFacts
  <2>3. \A m, n \in Message : /\ Taken(m)' <=> Taken(m)
                              /\ Before(m, n)' <=> Before(m, n)
                              /\ Written(m)' <=> Written(m)
    BY <1>2, <1>3, <2>1
  <2>4. \A i \in 1 .. Len(fifo'), k \in Message : WaitsAt(i, k)' => WaitsAt(i + 1, k)
    BY <2>2 DEF WaitsAt
  <2>5. ASSUME NEW i \in 1 .. Len(fifo'), NEW j \in 1 .. Len(fifo'), NEW k \in Message, NEW n \in Message,
               i < j, WaitsAt(i, k)', WaitsAt(j, n)'
        PROVE  Before(k, n)
    <3>1. i + 1 \in 1 .. Len(fifo) /\ j + 1 \in 1 .. Len(fifo) /\ i + 1 < j + 1
      BY <2>2, <2>5
    <3>2. WaitsAt(i + 1, k) /\ WaitsAt(j + 1, n)
      BY <2>4, <2>5
    <3> QED
      BY <3>1, <3>2 DEF Lined
  <2>6. ASSUME NEW k \in Message, NEW n \in Message, Served(k)', Waits(n)' PROVE Before(k, n)
    <3>1. worker'[w].pc = "log" /\ worker'[w].msg = k
      BY <2>6 DEF Served
    <3>2. 1 \in 1 .. Len(fifo) /\ WaitsAt(1, k)
      BY <2>2, <3>1 DEF WaitsAt
    <3>3. PICK i \in 1 .. Len(fifo') : WaitsAt(i, n)'
      BY <2>6 DEF Waits, WaitsAt
    <3>4. i + 1 \in 1 .. Len(fifo) /\ WaitsAt(i + 1, n) /\ 1 < i + 1
      BY <2>2, <2>4, <3>3
    <3> QED
      BY <3>2, <3>4 DEF Lined
  <2>7. \A a, k : WrittenAt(a, k)' <=> WrittenAt(a, k)
    BY <2>1 DEF WrittenAt
  <2> QED
    BY <2>1, <2>2, <2>3, <2>5, <2>6, <2>7 DEF Lined
<1>12. ASSUME NEW w \in Worker, NEW m \in Message, Serves(w, m) PROVE Lined'
  <2>1. Served(m) /\ Taken(m) /\ \A k \in Message : ~Served(k)'
    BY <1>12 DEF Serves, Served, Numbered
  <2>2. CASE written' = written
    BY <1>6, <1>12, <2>1, <2>2 DEF Serves, Passive
  <2>3. CASE written' = Append(written, m)
    <3>1. \A k, n \in Message : /\ Taken(k)' <=> Taken(k)
                                /\ Before(k, n)' <=> Before(k, n)
                                /\ Waits(k)' <=> Waits(k)
      BY <1>2, <1>4, <1>12 DEF Serves
    <3>2. /\ Len(written') = Len(written) + 1 /\ written'[Len(written) + 1] = m
          /\ \A a \in 1 .. Len(written) : written'[a] = written[a]
      BY <1>1, <2>3, Appending
    <3>3. \A k \in Message : Written(k)' => Written(k) \/ k = m
      BY <1>1, <3>2 DEF Written
    <3>4. ASSUME NEW a \in 1 .. Len(written'), NEW k \in Message, WrittenAt(a, k)'
          PROVE  (a \in 1 .. Len(written) /\ WrittenAt(a, k)) \/ (a = Len(written) + 1 /\ k = m)
      BY <1>1, <3>2, <3>4 DEF WrittenAt
    <3>5. UNCHANGED fifo /\ \A i, k : WaitsAt(i, k)' <=> WaitsAt(i, k)
      BY <1>12 DEF Serves, WaitsAt
    <3>6. ASSUME NEW a \in 1 .. Len(written'), NEW b \in 1 .. Len(written'), NEW k \in Message,
                 NEW n \in Message, a < b, WrittenAt(a, k)', WrittenAt(b, n)', Taken(k), Taken(n)
          PROVE  Before(k, n)
      <4>1. a \in 1 .. Len(written) /\ WrittenAt(a, k) /\ Written(k)
        <5>1. a # Len(written) + 1
          BY <1>1, <3>2, <3>6
        <5> QED
          BY <3>4, <3>6, <5>1 DEF WrittenAt, Written
      <4>2. CASE b \in 1 .. Len(written) /\ WrittenAt(b, n)
        BY <3>6, <4>1, <4>2 DEF Lined
      <4>3. CASE n = m
        BY <2>1, <3>6, <4>1, <4>3 DEF Lined
      <4> QED
        BY <3>4, <3>6, <4>2, <4>3
    <3> QED
      BY <2>1, <3>1, <3>3, <3>5, <3>6 DEF Lined
  <2> QED
    BY <1>12, <2>2, <2>3 DEF Serves
<1> QED
  BY <1>1, <1>5, <1>6, <1>7, <1>9, <1>10, <1>11, <1>12, MessageSteps DEF Rests, Logs, Passive
-----------------------------------------------------------------------------
(***************************************************************************)
(* The files as pieces of what was written, after n messages that failed   *)
(* in a row from a failed write on.  Such a write leaves an empty log, so  *)
(* that log.i is empty at the end of what was written only if n > i.       *)
(***************************************************************************)
Held(file, i) == IF Exists(file[i]) THEN file[i] ELSE <<>>

Cuts(file, w, cut) ==
  /\ cut \in [0 .. MaxFiles + 1 -> 0 .. Len(w)] /\ cut[0] = Len(w)
  /\ \A i \in 0 .. MaxFiles :
       cut[i + 1] <= cut[i] /\ Held(file, i) = SubSeq(w, cut[i + 1] + 1, cut[i])

Kept(file, w, n, cut) ==
  /\ w # <<>> /\ n <= MaxFiles => cut[MaxFiles + 1] < cut[0]
  /\ \A i \in 0 .. MaxFiles :
       file[i] = <<>> /\ cut[i] = Len(w) /\ cut[MaxFiles + 1] < Len(w) => n > i

Pieces(file, w, n) == \E cut : Cuts(file, w, cut) /\ Kept(file, w, n, cut)

Archived ==
  /\ missed \in Nat
  /\ sink.open => Exists(sink.file[0])
  /\ renamed => Pieces(sink.file, written, missed)

LEMMA EmptyPiece ==
  ASSUME NEW w \in Seq(Message), NEW a \in 0 .. Len(w), NEW b \in 0 .. Len(w), a <= b
  PROVE  SubSeq(w, a + 1, b) = <<>> <=> a = b
OBVIOUS

(* Pieces of a sequence, and of the sequence with one more message. *)
LEMMA PieceFacts ==
  ASSUME NEW w \in Seq(Message), NEW m \in Message, NEW a \in 0 .. Len(w), NEW b \in 0 .. Len(w), a <= b
  PROVE  /\ SubSeq(w, a + 1, b) \in Seq(Message)
         /\ SubSeq(w, a + 1, b) = <<>> <=> a = b
         /\ SubSeq(Append(w, m), a + 1, b) = SubSeq(w, a + 1, b)
         /\ SubSeq(Append(w, m), a + 1, Len(w) + 1) = Append(SubSeq(w, a + 1, Len(w)), m)
<1>1. SubSeq(w, a + 1, b) \in Seq(Message) /\ (SubSeq(w, a + 1, b) = <<>> <=> a = b)
  OBVIOUS
<1>2. SubSeq(Append(w, m), a + 1, b) = SubSeq(w, a + 1, b)
  OBVIOUS
<1>3. SubSeq(Append(w, m), a + 1, Len(w) + 1) = Append(SubSeq(w, a + 1, Len(w)), m)
  <2> DEFINE p == SubSeq(Append(w, m), a + 1, Len(w) + 1)
             r == Append(SubSeq(w, a + 1, Len(w)), m)
  <2>1. p \in Seq(Message) /\ Len(p) = Len(w) + 1 - a
    OBVIOUS
  <2>2. r \in Seq(Message) /\ Len(r) = Len(w) + 1 - a
    OBVIOUS
  <2>3. ASSUME NEW i \in 1 .. Len(w) + 1 - a PROVE p[i] = r[i]
    <3>1. CASE i = Len(w) + 1 - a
      <4>1. p[i] = m
        BY <3>1
      <4>2. r[i] = m
        BY <3>1
      <4> QED
        BY <4>1, <4>2
    <3>2. CASE i # Len(w) + 1 - a
      <4>1. p[i] = w[a + i]
        BY <3>2
      <4>2. r[i] = w[a + i]
        BY <3>2
      <4> QED
        BY <4>1, <4>2
    <3> QED
      BY <3>1, <3>2
  <2> HIDE DEF p, r
  <2>4. p = r
    BY <2>1, <2>2, <2>3
  <2> QED
    BY <2>4 DEF p, r
<1> QED
  BY <1>1, <1>2, <1>3

(* What the renames of a rotation do, one name at a time. *)
LEMMA ShiftFacts ==
  ASSUME NEW file, MaxFiles > 0
  PROVE  /\ Shift(file, 1)[0] = Absent
         /\ \A k \in 1 .. MaxFiles : Exists(file[k - 1]) => Shift(file, 1)[k] = file[k - 1]
         /\ \A k \in 1 .. MaxFiles - 1 : ~Exists(file[k - 1]) => Shift(file, 1)[k] = Absent
         /\ ~Exists(file[MaxFiles - 1]) => Shift(file, 1)[MaxFiles] = file[MaxFiles]
<1>1. MaxFiles \in Nat
  BY LongestFacts
<1> QED
  BY <1>1 DEF Shift

(* One more failure takes nothing from the files. *)
LEMMA MorePieces ==
  ASSUME NEW file, NEW w, NEW n \in Nat, NEW p \in Nat, n <= p, Pieces(file, w, n)
  PROVE  Pieces(file, w, p)
<1>c. PICK cut : Cuts(file, w, cut) /\ Kept(file, w, n, cut)
  BY DEF Pieces
<1>1. /\ w # <<>> /\ n <= MaxFiles => cut[MaxFiles + 1] < cut[0]
      /\ \A i \in 0 .. MaxFiles :
           file[i] = <<>> /\ cut[i] = Len(w) /\ cut[MaxFiles + 1] < Len(w) => n > i
  BY <1>c, Zenon DEF Kept
<1>2. MaxFiles \in Nat
  BY LongestFacts
<1>3. w # <<>> /\ p <= MaxFiles => cut[MaxFiles + 1] < cut[0]
  BY <1>1, <1>2
<1>4. \A i \in 0 .. MaxFiles : n > i => p > i
  BY <1>2
<1>5. Kept(file, w, p, cut)
  BY <1>1, <1>3, <1>4, Zenon DEF Kept
<1> QED
  BY <1>c, <1>5 DEF Pieces

(***************************************************************************)
(* The renames move the cuts with the files; the oldest file goes.  It is  *)
(* the only one with content if there are max_files empty ones above it.   *)
(***************************************************************************)
LEMMA ShiftPieces ==
  ASSUME NEW file \in Files, NEW w \in Seq(Message), NEW n \in Nat, Pieces(file, w, n),
         NEW p \in Nat, n = 0 \/ n < p
  PROVE  Pieces(Shift(file, 1), w, p)
<1>c. PICK cut : Cuts(file, w, cut) /\ Kept(file, w, n, cut)
  BY DEF Pieces
<1>1. /\ w # <<>> /\ n <= MaxFiles => cut[MaxFiles + 1] < cut[0]
      /\ \A i \in 0 .. MaxFiles :
           file[i] = <<>> /\ cut[i] = Len(w) /\ cut[MaxFiles + 1] < Len(w) => n > i
  BY <1>c, Zenon DEF Kept
<1>n. MaxFiles \in Nat /\ Len(w) \in Nat /\ n <= p
  BY LongestFacts
<1>2. CASE MaxFiles = 0
  <2>1. Shift(file, 1) = file
    BY <1>2 DEF Shift, Files
  <2> QED
    BY <1>n, <2>1, MorePieces
<1>3. CASE MaxFiles > 0
  <2> DEFINE new == Shift(file, 1)
             last == IF Exists(file[MaxFiles - 1]) THEN cut[MaxFiles] ELSE cut[MaxFiles + 1]
             c == [k \in 0 .. MaxFiles + 1 |->
                     IF k = 0 THEN Len(w) ELSE IF k <= MaxFiles THEN cut[k - 1] ELSE last]
  <2>1. /\ \A k \in 0 .. MaxFiles + 1 : cut[k] \in 0 .. Len(w)
        /\ cut[0] = Len(w)
    BY <1>c DEF Cuts
  <2>2. ASSUME NEW i \in 0 .. MaxFiles
        PROVE  /\ cut[i + 1] <= cut[i] /\ Held(file, i) = SubSeq(w, cut[i + 1] + 1, cut[i])
               /\ Held(file, i) = <<>> <=> cut[i + 1] = cut[i]
    <3>1. cut[i + 1] <= cut[i] /\ Held(file, i) = SubSeq(w, cut[i + 1] + 1, cut[i])
      BY <1>c DEF Cuts
    <3>2. cut[i + 1] \in 0 .. Len(w) /\ cut[i] \in 0 .. Len(w)
      BY <1>n, <2>1
    <3>3. SubSeq(w, cut[i + 1] + 1, cut[i]) = <<>> <=> cut[i + 1] = cut[i]
      <4>1. PICK a \in 0 .. Len(w), b \in 0 .. Len(w) : a = cut[i + 1] /\ b = cut[i]
        BY <3>2
      <4>2. a <= b
        BY <3>1, <4>1
      <4>3. SubSeq(w, a + 1, b) = <<>> <=> a = b
        BY <4>2, EmptyPiece
      <4> QED
        BY <4>1, <4>3, Zenon
    <3> QED
      BY <3>1, <3>3
  <2>s. /\ new[0] = Absent
        /\ \A k \in 1 .. MaxFiles : Exists(file[k - 1]) => new[k] = file[k - 1]
        /\ \A k \in 1 .. MaxFiles - 1 : ~Exists(file[k - 1]) => new[k] = Absent
        /\ ~Exists(file[MaxFiles - 1]) => new[MaxFiles] = file[MaxFiles]
    BY <1>3, ShiftFacts
  <2>3. c \in [0 .. MaxFiles + 1 -> 0 .. Len(w)] /\ c[0] = Len(w) /\ c[1] = Len(w) /\ c[MaxFiles + 1] = last
    <3>1. last \in 0 .. Len(w)
      BY <1>n, <2>1
    <3>2. \A k \in 1 .. MaxFiles : cut[k - 1] \in 0 .. Len(w)
      BY <1>n, <2>1
    <3> HIDE DEF last
    <3> QED
      BY <1>n, <1>3, <2>1, <3>1, <3>2
  <2>4. \A k \in 1 .. MaxFiles : c[k] = cut[k - 1]
    BY <1>n
  <2> HIDE DEF new, c, last
  <2>5. ASSUME NEW i \in 0 .. MaxFiles
        PROVE  c[i + 1] <= c[i] /\ Held(new, i) = SubSeq(w, c[i + 1] + 1, c[i])
    <3>1. CASE i = 0
      <4>1. Held(new, i) = <<>>
        BY <2>s, <3>1 DEF Held, Exists
      <4>2. c[i] = Len(w) /\ c[i + 1] = Len(w)
        BY <2>3, <3>1
      <4>3. c[i + 1] <= c[i]
        BY <1>n, <4>2
      <4>4. SubSeq(w, c[i + 1] + 1, c[i]) = <<>>
        BY <1>n, <4>2
      <4> QED
        BY <4>1, <4>3, <4>4, Zenon
    <3>2. CASE i \in 1 .. MaxFiles - 1
      <4>1. i - 1 \in 0 .. MaxFiles /\ (i - 1) + 1 = i /\ i \in 1 .. MaxFiles /\ i + 1 \in 1 .. MaxFiles
        BY <1>n, <3>2
      <4>2. c[i] = cut[i - 1] /\ c[i + 1] = cut[i]
        BY <1>n, <2>4, <4>1
      <4>3. Held(new, i) = Held(file, i - 1)
        BY <2>s, <3>2, <4>1 DEF Held, Exists
      <4> QED
        BY <2>2, <4>1, <4>2, <4>3
    <3>3. CASE i = MaxFiles
      <4>1. i - 1 \in 0 .. MaxFiles /\ (i - 1) + 1 = i /\ i \in 1 .. MaxFiles
        BY <1>n, <1>3, <3>3
      <4>2. c[i] = cut[i - 1] /\ c[i + 1] = last
        BY <2>3, <2>4, <3>3, <4>1
      <4>3. CASE Exists(file[MaxFiles - 1])
        <5>1. Held(new, i) = Held(file, i - 1) /\ last = cut[i]
          BY <2>s, <3>3, <4>1, <4>3 DEF Held, last
        <5> QED
          BY <2>2, <4>1, <4>2, <5>1
      <4>4. CASE ~Exists(file[MaxFiles - 1])
        <5>1. Held(new, i) = Held(file, i) /\ last = cut[i + 1]
          BY <2>s, <3>3, <4>4 DEF Held, last
        <5>2. Held(file, i - 1) = <<>>
          BY <3>3, <4>4 DEF Held
        <5>3. cut[i] = cut[i - 1]
          BY <2>2, <4>1, <5>2
        <5> QED
          BY <2>2, <4>2, <5>1, <5>3
      <4> QED
        BY <4>3, <4>4
    <3> QED
      BY <1>n, <3>1, <3>2, <3>3
  <2>i. /\ MaxFiles - 1 \in 0 .. MaxFiles /\ (MaxFiles - 1) + 1 = MaxFiles /\ MaxFiles \in 0 .. MaxFiles
        /\ cut[MaxFiles - 1] \in 0 .. Len(w) /\ cut[MaxFiles] \in 0 .. Len(w) /\ cut[MaxFiles + 1] \in 0 .. Len(w)
    BY <1>n, <1>3, <2>1
  <2>6. ASSUME w # <<>>, p <= MaxFiles PROVE c[MaxFiles + 1] < c[0]
    <3>1. n < MaxFiles
      BY <1>n, <1>3, <2>6
    <3>2. cut[MaxFiles + 1] < Len(w)
      BY <1>1, <1>n, <2>1, <2>6, <3>1
    <3>3. CASE ~Exists(file[MaxFiles - 1])
      BY <2>3, <3>2, <3>3 DEF last
    <3>4. CASE Exists(file[MaxFiles - 1])
      <4>1. last = cut[MaxFiles]
        BY <3>4 DEF last
      <4>2. ASSUME cut[MaxFiles] = Len(w) PROVE FALSE
        <5>1. cut[MaxFiles - 1] = Len(w)
          BY <1>n, <2>2, <2>i, <4>2
        <5>2. Held(file, MaxFiles - 1) = <<>>
          BY <2>2, <2>i, <4>2, <5>1
        <5>3. file[MaxFiles - 1] = <<>>
          BY <3>4, <5>2 DEF Held
        <5>4. n > MaxFiles - 1
          BY <1>1, <2>i, <3>2, <5>1, <5>3
        <5> QED
          BY <1>n, <3>1, <5>4
      <4> QED
        BY <1>n, <2>3, <2>i, <4>1, <4>2
    <3> QED
      BY <3>3, <3>4
  <2>7. ASSUME NEW i \in 0 .. MaxFiles, new[i] = <<>>, c[i] = Len(w), c[MaxFiles + 1] < Len(w) PROVE p > i
    <3>1. i \in 1 .. MaxFiles /\ i - 1 \in 0 .. MaxFiles
      <4>1. i # 0
        BY <2>7, <2>s, LongestFacts
      <4> QED
        BY <1>n, <4>1
    <3>2. cut[i - 1] = Len(w)
      BY <2>4, <2>7, <3>1
    <3>3. cut[MaxFiles + 1] < Len(w)
      <4>1. cut[MaxFiles + 1] <= cut[MaxFiles]
        BY <2>2, <2>i
      <4> QED
        BY <1>n, <2>3, <2>7, <2>i, <4>1 DEF last
    <3>4. CASE Exists(file[i - 1])
      <4>1. file[i - 1] = <<>>
        BY <2>7, <2>s, <3>1, <3>4
      <4>2. n > i - 1
        BY <1>1, <3>1, <3>2, <3>3, <4>1
      <4> QED
        BY <1>n, <3>1, <4>2
    <3>5. CASE ~Exists(file[i - 1])
      <4>1. i = MaxFiles
        <5>1. ASSUME i # MaxFiles PROVE FALSE
          <6>1. i \in 1 .. MaxFiles - 1
            BY <1>n, <3>1, <5>1
          <6>2. new[i] = Absent
            BY <2>s, <3>5, <6>1
          <6> QED
            BY <2>7, <6>2, LongestFacts
        <5> QED
          BY <5>1
      <4>2. new[i] = file[i] /\ Held(file, i - 1) = <<>>
        BY <2>s, <3>5, <4>1 DEF Held
      <4>3. cut[i] = Len(w)
        BY <2>2, <3>1, <3>2, <4>2
      <4>4. n > i
        BY <1>1, <2>7, <3>3, <4>2, <4>3
      <4> QED
        BY <1>n, <4>4
    <3> QED
      BY <3>4, <3>5
  <2>8. Cuts(new, w, c)
    BY <2>3, <2>5 DEF Cuts
  <2>9. Kept(new, w, p, c)
    BY <2>3, <2>6, <2>7 DEF Kept
  <2> QED
    BY <2>8, <2>9 DEF Pieces, new
<1> QED
  BY <1>n, <1>2, <1>3

(* A message at the end of log, and of what was written. *)
LEMMA WritePieces ==
  ASSUME NEW file \in Files, NEW w \in Seq(Message), NEW m \in Message, NEW cut, Cuts(file, w, cut),
         Exists(file[0]), NEW new, new = [file EXCEPT ![0] = Append(file[0], m)]
  PROVE  Pieces(new, Append(w, m), 0) /\ Exists(new[0])
<1> DEFINE v == Append(w, m)
           c == [cut EXCEPT ![0] = Len(w) + 1]
<1>n. MaxFiles \in Nat /\ Len(w) \in Nat /\ m # 0 /\ m \in Nat /\ 0 \in 0 .. MaxFiles
  BY LongestFacts, SpdlogAssumption DEF Message
<1>1. v \in Seq(Message) /\ Len(v) = Len(w) + 1
  OBVIOUS
<1>2. /\ cut \in [0 .. MaxFiles + 1 -> 0 .. Len(w)] /\ cut[0] = Len(w)
      /\ \A i \in 0 .. MaxFiles :
           cut[i + 1] <= cut[i] /\ Held(file, i) = SubSeq(w, cut[i + 1] + 1, cut[i])
  BY DEF Cuts
<1>3. file[0] \in Seq(Nat) /\ new \in [0 .. MaxFiles -> Seq(Nat)]
  <2>1. file[0] \in Seq(Nat)
    BY <1>n DEF Files
  <2>2. Append(file[0], m) \in Seq(Nat)
    BY <1>n, <2>1
  <2> QED
    BY <2>1, <2>2 DEF Files
<1>4. new[0] = Append(file[0], m) /\ \A i \in 1 .. MaxFiles : new[i] = file[i]
  BY <1>n DEF Files
<1>5. new[0] # <<>> /\ Exists(new[0])
  <2>1. Len(new[0]) = Len(file[0]) + 1 /\ Len(file[0]) \in Nat /\ new[0][Len(file[0]) + 1] = m
    BY <1>n, <1>3, <1>4
  <2>2. ASSUME new[0] = <<>> PROVE FALSE
    <3>1. Len(new[0]) = 0
      BY <2>2
    <3> QED
      BY <2>1, <3>1
  <2>3. ASSUME new[0] = Absent PROVE FALSE
    <3>a. Len(new[0]) = 1
      BY <2>3, LongestFacts, Zenon
    <3>1. Len(file[0]) = 0 /\ new[0][1] = m
      BY <2>1, <3>a
    <3>2. Absent[1] = 0
      BY DEF Absent
    <3> QED
      BY <1>n, <2>3, <3>1, <3>2
  <2> QED
    BY <2>2, <2>3 DEF Exists
<1>6. c \in [0 .. MaxFiles + 1 -> 0 .. Len(v)] /\ c[0] = Len(v) /\ \A i \in 1 .. MaxFiles + 1 : c[i] = cut[i]
  BY <1>n, <1>1, <1>2
<1> HIDE DEF v, c
<1>7. ASSUME NEW i \in 0 .. MaxFiles
      PROVE  c[i + 1] <= c[i] /\ Held(new, i) = SubSeq(v, c[i + 1] + 1, c[i])
  <2>1. i + 1 \in 1 .. MaxFiles + 1 /\ cut[i + 1] \in 0 .. Len(w) /\ cut[i] \in 0 .. Len(w)
        /\ c[i + 1] = cut[i + 1] /\ cut[i + 1] <= cut[i]
    BY <1>n, <1>2, <1>6
  <2>2. CASE i = 0
    <3>1. Held(new, i) = Append(SubSeq(w, cut[i + 1] + 1, Len(w)), m)
      BY <1>2, <1>4, <1>5, <2>2 DEF Held
    <3>2. SubSeq(v, cut[i + 1] + 1, Len(w) + 1) = Append(SubSeq(w, cut[i + 1] + 1, Len(w)), m)
      BY <1>n, <2>1, PieceFacts DEF v
    <3>3. c[i] = Len(w) + 1
      BY <1>1, <1>6, <2>2
    <3>4. c[i + 1] <= c[i]
      BY <1>n, <2>1, <3>3
    <3> QED
      BY <2>1, <3>1, <3>2, <3>3, <3>4, Zenon
  <2>3. CASE i # 0
    <3>1. i \in 1 .. MaxFiles /\ c[i] = cut[i]
      BY <1>n, <1>6, <2>3
    <3>2. Held(new, i) = Held(file, i)
      BY <1>4, <3>1 DEF Held
    <3>3. SubSeq(v, cut[i + 1] + 1, cut[i]) = SubSeq(w, cut[i + 1] + 1, cut[i])
      BY <2>1, PieceFacts DEF v
    <3>4. Held(file, i) = SubSeq(w, cut[i + 1] + 1, cut[i])
      BY <1>2
    <3>5. c[i + 1] <= c[i]
      BY <2>1, <3>1
    <3> QED
      BY <2>1, <3>1, <3>2, <3>3, <3>4, <3>5, Zenon
  <2> QED
    BY <2>2, <2>3
<1>8. c[MaxFiles + 1] < c[0]
  BY <1>n, <1>1, <1>2, <1>6
<1>9. ASSUME NEW i \in 0 .. MaxFiles, new[i] = <<>> PROVE c[i] # Len(v)
  <2>1. i \in 1 .. MaxFiles /\ i \in 1 .. MaxFiles + 1 /\ i \in 0 .. MaxFiles + 1
    BY <1>n, <1>5, <1>9
  <2>2. c[i] = cut[i] /\ cut[i] \in 0 .. Len(w)
    BY <1>2, <1>6, <2>1
  <2> QED
    BY <1>n, <1>1, <2>2
<1>10. Cuts(new, v, c)
  BY <1>6, <1>7 DEF Cuts
<1>11. Kept(new, v, 0, c)
  BY <1>8, <1>9 DEF Kept
<1> QED
  BY <1>5, <1>10, <1>11 DEF Pieces, v

(* After the renames log is truncated and opened: the cuts stay. *)
LEMMA TruncatePieces ==
  ASSUME NEW file \in Files, NEW w \in Seq(Message), NEW n \in Nat, Pieces(file, w, n),
         NEW new, new = [Shift(file, 1) EXCEPT ![0] = <<>>]
  PROVE  Pieces(new, w, n + 1)
<1>n. MaxFiles \in Nat /\ Len(w) \in Nat /\ 0 \in 0 .. MaxFiles
  BY LongestFacts
<1>1. PICK shifted : shifted = Shift(file, 1)
  OBVIOUS
<1>2. Pieces(shifted, w, n + 1)
  BY <1>1, ShiftPieces
<1>3. shifted = [k \in 0 .. MaxFiles |-> shifted[k]]
  BY <1>1 DEF Shift
<1>4. new = [shifted EXCEPT ![0] = <<>>]
  BY <1>1
<1>5. new[0] = <<>> /\ \A i \in 1 .. MaxFiles : new[i] = shifted[i]
  BY <1>n, <1>3, <1>4
<1>6. \A i \in 1 .. MaxFiles : Held(new, i) = Held(shifted, i)
  BY <1>5 DEF Held
<1>8. Held(new, 0) = <<>>
  BY <1>5, LongestFacts DEF Held, Exists
<1>9. CASE MaxFiles > 0
  <2>c. PICK cut : Cuts(shifted, w, cut) /\ Kept(shifted, w, n + 1, cut)
    BY <1>2 DEF Pieces
  <2>1. /\ w # <<>> /\ n + 1 <= MaxFiles => cut[MaxFiles + 1] < cut[0]
        /\ \A i \in 0 .. MaxFiles :
             shifted[i] = <<>> /\ cut[i] = Len(w) /\ cut[MaxFiles + 1] < Len(w) => n + 1 > i
    BY <2>c, Zenon DEF Kept
  <2>2. Held(shifted, 0) = <<>>
    BY <1>1, <1>9, ShiftFacts DEF Held, Exists
  <2>3. \A i \in 0 .. MaxFiles : Held(new, i) = Held(shifted, i)
    BY <1>n, <1>6, <1>8, <2>2
  <2>4. Cuts(new, w, cut)
    BY <2>c, <2>3 DEF Cuts
  <2>5. ASSUME NEW i \in 0 .. MaxFiles, new[i] = <<>>, cut[i] = Len(w), cut[MaxFiles + 1] < Len(w)
        PROVE  n + 1 > i
    <3>1. CASE i = 0
      BY <3>1
    <3>2. CASE i # 0
      <4>1. i \in 1 .. MaxFiles
        BY <1>n, <3>2
      <4> QED
        BY <1>5, <2>1, <2>5, <4>1
    <3> QED
      BY <3>1, <3>2
  <2>6. Kept(new, w, n + 1, cut)
    BY <2>1, <2>5 DEF Kept
  <2> QED
    BY <2>4, <2>6 DEF Pieces
<1>10. CASE MaxFiles = 0
  <2> DEFINE cut == [i \in 0 .. 1 |-> Len(w)]
  <2>1. cut \in [0 .. MaxFiles + 1 -> 0 .. Len(w)] /\ cut[0] = Len(w) /\ cut[1] = Len(w)
    BY <1>n, <1>10
  <2>2. SubSeq(w, Len(w) + 1, Len(w)) = <<>>
    BY <1>n
  <2> HIDE DEF cut
  <2>3. ASSUME NEW i \in 0 .. MaxFiles
        PROVE  cut[i + 1] <= cut[i] /\ Held(new, i) = SubSeq(w, cut[i + 1] + 1, cut[i])
    <3>1. i = 0 /\ cut[i] = Len(w) /\ cut[i + 1] = Len(w)
      BY <1>10, <2>1
    <3>2. cut[i + 1] <= cut[i]
      BY <1>n, <3>1
    <3> QED
      BY <1>8, <2>2, <3>1, <3>2, Zenon
  <2>4. Cuts(new, w, cut)
    BY <2>1, <2>3 DEF Cuts
  <2>5. ~(n + 1 <= MaxFiles) /\ ~(cut[MaxFiles + 1] < Len(w))
    BY <1>n, <1>10, <2>1
  <2>6. Kept(new, w, n + 1, cut)
    BY <2>5 DEF Kept
  <2> QED
    BY <2>4, <2>6 DEF Pieces
<1> QED
  BY <1>n, <1>9, <1>10

(* The ways in which sink_it_ ends, and the files after them. *)
LEMMA SinkItOutcomes ==
  ASSUME NEW s, Safe(s), NEW m \in Nat, NEW o \in SinkIt(s, m, 1)
  PROVE  \/ o.end = "rename failed" /\ (o.sink.open => o.sink.file[0] = <<>>)
         \/ o.end = "open failed" /\ ~o.sink.open /\ o.sink.file = Shift(s.file, 1)
         \/ /\ o.end = "written"
            /\ \E empty : /\ empty = [Shift(s.file, 1) EXCEPT ![0] = <<>>] /\ empty[0] = <<>> /\ empty \in Files
                          /\ o.sink.file = [empty EXCEPT ![0] = Append(empty[0], m)]
         \/ o.end = "written" /\ s.open /\ o.sink.file = [s.file EXCEPT ![0] = Append(s.file[0], m)]
         \/ o.end = "write failed" /\ o.sink.file = s.file /\ o.sink.open = s.open
         \/ o.end = "write failed" /\ o.sink.file = [Shift(s.file, 1) EXCEPT ![0] = <<>>] /\ o.sink.file[0] = <<>>
<1> DEFINE counted == [s EXCEPT !.size = @ + 1]
           closed == Close(counted)
<1>0. \A k, end : Outcome(k, end).sink = k /\ Outcome(k, end).end = end
  BY DEF Outcome
<1>w. ASSUME NEW k \in Sink, NEW size PROVE Write(k, m, size).file = [k.file EXCEPT ![0] = Append(k.file[0], m)]
  <2>1. PICK new : new = [k.file EXCEPT ![0] = Append(k.file[0], m)]
    OBVIOUS
  <2>2. Write(k, m, size) = [k EXCEPT !.size = size, !.file = new, !.buffered = k.buffered + 1]
    BY <2>1 DEF Write
  <2>3. Write(k, m, size).file = new
    BY <2>2 DEF Sink
  <2> QED
    BY <2>1, <2>3
<1>1. /\ counted \in Sink /\ counted.file = s.file /\ counted.size = s.size + 1 /\ counted.open = s.open
      /\ Fits(counted.file)
  BY DEF Safe, Sink
<1>2. closed \in Sink /\ closed.file = s.file /\ closed.size = s.size + 1 /\ Fits(closed.file)
  BY <1>1 DEF Close, Sink
<1>3. CASE counted.size > MaxSize
  <2>1. \/ \E r \in RotateFails(closed) : o = Outcome(r, "rename failed")
        \/ \E r \in Rotate(closed) :
             \/ r.open /\ o = Outcome(Write(r, m, 1), "written")
             \/ r.open /\ o = Outcome([r EXCEPT !.size = 1], "write failed")
             \/ ~r.open /\ o = Outcome(r, "open failed")
    BY <1>3 DEF SinkIt, Put
  <2> HIDE DEF counted, closed
  <2>2. ASSUME NEW r \in RotateFails(closed), o = Outcome(r, "rename failed")
        PROVE  o.end = "rename failed" /\ (o.sink.open => o.sink.file[0] = <<>>)
    <3>1. o.end = "rename failed" /\ o.sink = r
      BY <1>0, <2>2, Zenon
    <3>2. closed.size > MaxSize
      BY <1>1, <1>2, <1>3
    <3>3. r.open => r.file[0] = <<>>
      BY <1>2, <2>2, <3>2, RotateFailsFacts
    <3> QED
      BY <3>1, <3>3
  <2>3. ASSUME NEW r \in Rotate(closed),
               \/ r.open /\ o = Outcome(Write(r, m, 1), "written")
               \/ r.open /\ o = Outcome([r EXCEPT !.size = 1], "write failed")
               \/ ~r.open /\ o = Outcome(r, "open failed")
        PROVE  \/ o.end = "open failed" /\ ~o.sink.open /\ o.sink.file = Shift(s.file, 1)
               \/ /\ o.end = "written"
                  /\ \E empty : /\ empty = [Shift(s.file, 1) EXCEPT ![0] = <<>>] /\ empty[0] = <<>> /\ empty \in Files
                                /\ o.sink.file = [empty EXCEPT ![0] = Append(empty[0], m)]
               \/ /\ o.end = "write failed"
                  /\ o.sink.file = [Shift(s.file, 1) EXCEPT ![0] = <<>>] /\ o.sink.file[0] = <<>>
    <3>1. PICK file : file = Shift(closed.file, 1)
      OBVIOUS
    <3>2. Fits(file) /\ file = Shift(s.file, 1)
      BY <1>2, <3>1, ShiftFits
    <3>3. PICK shifted : shifted = [closed EXCEPT !.file = file]
      OBVIOUS
    <3>4. shifted \in Sink /\ shifted.file = file
      BY <1>2, <3>2, <3>3 DEF Sink, Fits
    <3>5. r \in Reopen(shifted, TRUE)
      BY <2>3, <3>1, <3>3 DEF Rotate
    <3>6. /\ r \in Sink /\ (~r.open => r.file = file)
          /\ r.open => r.file = [file EXCEPT ![0] = <<>>] /\ r.file[0] = <<>>
      <4>1. Fits(shifted.file)
        BY <3>2, <3>4, Zenon
      <4>2. /\ r \in Sink /\ (~r.open => r.file = shifted.file)
            /\ r.open => r.file = [shifted.file EXCEPT ![0] = <<>>] /\ r.file[0] = <<>>
        BY <3>4, <3>5, <4>1, ReopenFacts, Zenon
      <4> QED
        BY <3>4, <4>2, Zenon
    <3>7. CASE o = Outcome(Write(r, m, 1), "written") /\ r.open
      <4>1. o.end = "written" /\ o.sink = Write(r, m, 1)
        BY <1>0, <3>7, Zenon
      <4>2. o.sink.file = [r.file EXCEPT ![0] = Append(r.file[0], m)]
        BY <1>w, <3>6, <4>1
      <4>3. r.file \in Files
        BY <3>6 DEF Sink
      <4> QED
        BY <3>2, <3>6, <3>7, <4>1, <4>2, <4>3
    <3>8. CASE ~r.open /\ o = Outcome(r, "open failed")
      BY <1>0, <3>2, <3>6, <3>8, Zenon
    <3>9. CASE o = Outcome([r EXCEPT !.size = 1], "write failed") /\ r.open
      <4>1. o.end = "write failed" /\ o.sink = [r EXCEPT !.size = 1]
        BY <1>0, <3>9, Zenon
      <4>2. o.sink.file = r.file
        BY <3>6, <4>1 DEF Sink
      <4> QED
        BY <3>2, <3>6, <3>9, <4>1, <4>2
    <3> QED
      BY <2>3, <3>7, <3>8, <3>9
  <2> QED
    BY <2>1, <2>2, <2>3
<1>4. CASE ~(counted.size > MaxSize)
  <2>1. \/ o = Outcome(Write(counted, m, counted.size), "written")
        \/ o = Outcome(counted, "write failed")
    <3>1. [counted EXCEPT !.size = counted.size] = counted
      BY <1>1 DEF Sink
    <3>2. SinkIt(s, m, 1) = Put(counted, m, counted.size)
      BY <1>4 DEF SinkIt
    <3>3. o \in Put(counted, m, counted.size)
      BY <3>2, Zenon
    <3> HIDE DEF counted
    <3> QED
      BY <3>1, <3>3 DEF Put
  <2> HIDE DEF counted
  <2>2. s.size \in Nat /\ MaxSize \in Nat
    BY LongestFacts DEF Safe, Sink
  <2>3. s.open
    BY <1>1, <1>4, <2>2 DEF Safe
  <2>4. CASE o = Outcome(Write(counted, m, counted.size), "written")
    <3>1. o.end = "written" /\ o.sink = Write(counted, m, counted.size)
      BY <1>0, <2>4
    <3>a. Write(counted, m, counted.size).file = [counted.file EXCEPT ![0] = Append(counted.file[0], m)]
      BY <1>1, <1>w, Zenon
    <3>2. o.sink.file = [s.file EXCEPT ![0] = Append(s.file[0], m)]
      BY <1>1, <3>a, <3>1, Zenon
    <3> QED
      BY <2>3, <3>1, <3>2
  <2>5. CASE o = Outcome(counted, "write failed")
    <3>1. o.end = "write failed" /\ o.sink = counted
      BY <1>0, <2>5, Zenon
    <3> QED
      BY <1>1, <3>1
  <2> QED
    BY <2>1, <2>4, <2>5
<1> QED
  BY <1>3, <1>4

(* Every step leaves the files pieces of what was written. *)
LEMMA ArchivedStep ==
  ASSUME Callers, Servers, Accounted, Safe(sink), Archived, renamed \in BOOLEAN, [Next]_vars
  PROVE  Archived' /\ renamed' \in BOOLEAN
<1>w. written \in Seq(Message) /\ sink.file \in Files /\ Fits(sink.file)
  BY DEF Accounted, Safe, Sink
<1>1. CASE UNCHANGED <<sink, written, renamed, missed>>
  BY <1>1 DEF Archived
<1>2. CASE sink' = FlushFile(sink) /\ UNCHANGED <<written, renamed, missed>>
  <2>1. sink'.open = sink.open /\ sink'.file = sink.file
    BY <1>2 DEF FlushFile, Safe, Sink
  <2> QED
    BY <1>2, <2>1 DEF Archived
<1>3. ASSUME NEW m \in Message, NEW end, SinkMessage(m, end) PROVE Archived' /\ renamed' \in BOOLEAN
  <2>1. m \in Nat
    BY SpdlogAssumption DEF Message
  <2>2. PICK o \in SinkIt(sink, m, 1) :
          /\ end = o.end /\ sink' = o.sink /\ renamed' = (renamed /\ end # "rename failed")
          /\ written' = IF end = "written" THEN Append(written, m) ELSE written
          /\ missed' = IF end = "written" \/ (missed = 0 /\ end # "write failed") THEN 0 ELSE missed + 1
    BY <1>3 DEF SinkMessage
  <2>b. renamed' \in BOOLEAN /\ (renamed' => renamed) /\ missed \in Nat /\ missed' \in Nat
    <3>1. missed \in Nat
      BY DEF Archived
    <3>2. missed' = 0 \/ missed' = missed + 1
      BY <2>2, Zenon
    <3>3. renamed' \in BOOLEAN /\ (renamed' => renamed)
      BY <2>2, Zenon
    <3> QED
      BY <3>1, <3>2, <3>3
  <2>3. CASE o.end = "rename failed" /\ (o.sink.open => o.sink.file[0] = <<>>)
    <3>1. ~renamed'
      BY <2>2, <2>3
    <3>2. sink'.open => Exists(sink'.file[0])
      BY <2>2, <2>3, LongestFacts DEF Exists
    <3> QED
      BY <2>b, <3>1, <3>2 DEF Archived
  <2>4. CASE o.end = "open failed" /\ ~o.sink.open /\ o.sink.file = Shift(sink.file, 1)
    <3>1. written' = written /\ sink'.file = Shift(sink.file, 1) /\ ~sink'.open
      BY <2>2, <2>4
    <3>2. missed = 0 \/ missed < missed'
      <4>1. missed = 0 \/ missed' = missed + 1
        BY <2>2, <2>4, Zenon
      <4> QED
        BY <2>b, <4>1
    <3>3. renamed => Pieces(sink'.file, written, missed')
      BY <1>w, <2>b, <3>1, <3>2, ShiftPieces DEF Archived
    <3> QED
      BY <2>b, <3>1, <3>3 DEF Archived
  <2>5. CASE o.end = "written"
    <3>1. written' = Append(written, m) /\ sink' = o.sink /\ missed' = 0
      BY <2>2, <2>5
    <3>2. CASE \E empty : /\ empty = [Shift(sink.file, 1) EXCEPT ![0] = <<>>] /\ empty[0] = <<>> /\ empty \in Files
                          /\ o.sink.file = [empty EXCEPT ![0] = Append(empty[0], m)]
      <4>1. PICK empty \in Files : /\ empty = [Shift(sink.file, 1) EXCEPT ![0] = <<>>] /\ empty[0] = <<>>
                                   /\ o.sink.file = [empty EXCEPT ![0] = Append(empty[0], m)]
        BY <3>2
      <4>2. PICK new : new = [empty EXCEPT ![0] = Append(empty[0], m)] /\ sink'.file = new
        BY <3>1, <4>1
      <4>3. Exists(empty[0])
        BY <4>1, LongestFacts DEF Exists
      <4>4. new[0] = Append(<<>>, m) /\ Exists(new[0])
        <5>1. new[0] = Append(<<>>, m)
          BY <4>1, <4>2, LongestFacts DEF Files
        <5>2. new[0][1] = m /\ m # 0
          BY <5>1, SpdlogAssumption DEF Message
        <5>3. Absent[1] = 0
          BY DEF Absent
        <5> QED
          BY <5>1, <5>2, <5>3 DEF Exists
      <4>5. ASSUME renamed PROVE Pieces(new, Append(written, m), 0)
        <5>1. Pieces(sink.file, written, missed)
          BY <4>5 DEF Archived
        <5>2. Pieces(empty, written, missed + 1)
          BY <1>w, <2>b, <4>1, <5>1, TruncatePieces
        <5>3. PICK cut : Cuts(empty, written, cut)
          BY <5>2 DEF Pieces
        <5> QED
          BY <1>w, <4>2, <4>3, <5>3, WritePieces
      <4> QED
        BY <2>b, <3>1, <4>2, <4>4, <4>5 DEF Archived
    <3>3. CASE sink.open /\ o.sink.file = [sink.file EXCEPT ![0] = Append(sink.file[0], m)]
      <4>1. PICK new : new = [sink.file EXCEPT ![0] = Append(sink.file[0], m)] /\ sink'.file = new
        BY <3>1, <3>3
      <4>2. Exists(sink.file[0])
        BY <3>3 DEF Archived
      <4>3. Exists(new[0])
        <5>1. sink.file[0] \in Seq(Nat) /\ new[0] = Append(sink.file[0], m)
          BY <1>w, <4>1, LongestFacts DEF Files
        <5>2. /\ Len(new[0]) = Len(sink.file[0]) + 1 /\ Len(sink.file[0]) \in Nat
              /\ new[0][Len(sink.file[0]) + 1] = m
          BY <2>1, <5>1
        <5>3. m # 0 /\ Len(Absent) = 1 /\ Absent[1] = 0
          BY SpdlogAssumption, LongestFacts DEF Message, Absent
        <5> QED
          BY <5>2, <5>3 DEF Exists
      <4>4. ASSUME renamed PROVE Pieces(new, Append(written, m), 0)
        <5>1. Pieces(sink.file, written, missed)
          BY <4>4 DEF Archived
        <5>2. PICK cut : Cuts(sink.file, written, cut)
          BY <5>1 DEF Pieces
        <5> QED
          BY <1>w, <4>1, <4>2, <5>2, WritePieces
      <4> QED
        BY <2>b, <3>1, <4>1, <4>3, <4>4 DEF Archived
    <3> QED
      BY <2>1, <2>5, <3>2, <3>3, SinkItOutcomes
  <2>6. CASE o.end = "write failed" /\ o.sink.file = sink.file /\ o.sink.open = sink.open
    <3>1. written' = written /\ sink'.file = sink.file /\ sink'.open = sink.open /\ missed <= missed'
      <4>1. end = "write failed" /\ end # "written"
        BY <2>2, <2>6
      <4>2. missed' = missed + 1
        BY <2>2, <4>1, Zenon
      <4>3. missed <= missed'
        BY <2>b, <4>2
      <4> QED
        BY <2>2, <2>6, <4>1, <4>3, Zenon
    <3>2. renamed => Pieces(sink'.file, written, missed')
      BY <2>b, <3>1, MorePieces DEF Archived
    <3> QED
      BY <2>b, <3>1, <3>2 DEF Archived
  <2>7. CASE /\ o.end = "write failed"
             /\ o.sink.file = [Shift(sink.file, 1) EXCEPT ![0] = <<>>] /\ o.sink.file[0] = <<>>
    <3>1. /\ written' = written /\ sink'.file = [Shift(sink.file, 1) EXCEPT ![0] = <<>>]
          /\ sink'.file[0] = <<>> /\ missed' = missed + 1
      <4>1. end = "write failed" /\ end # "written"
        BY <2>2, <2>7
      <4> QED
        BY <2>2, <2>7, <4>1, Zenon
    <3>2. Exists(sink'.file[0])
      BY <3>1, LongestFacts DEF Exists
    <3>3. renamed => Pieces(sink'.file, written, missed')
      BY <1>w, <2>b, <3>1, TruncatePieces DEF Archived
    <3> QED
      BY <2>b, <3>1, <3>2, <3>3 DEF Archived
  <2> QED
    BY <2>1, <2>3, <2>4, <2>5, <2>6, <2>7, SinkItOutcomes
<1>4. CASE Admin \/ Shutdown \/ PoolStep \/ FlusherStep \/ UNCHANGED vars
  BY <1>1, <1>2, <1>4 DEF Admin, Create, CreateFails, Register, MakeDefault, DropLogger, SetLevels, SetFlushLevels,
     SetOwnLevel, Automatic, FlushEvery, Operation, Shutdown, StopFlusher, JoinFlusher, DropLoggers, ResetPool,
     PoolStep, PostTerminate, Join, FlusherStep, FlushAll, FlushNext, FlushPost, FlushDone, vars, history
<1>5. ASSUME NEW t \in Thread, ThreadStep(t) PROVE Archived' /\ renamed' \in BOOLEAN
  <2>1. CASE SinkStep(t)
    <3>1. thread[t].msg \in Message /\ \E end \in End : SinkMessage(thread[t].msg, end)
      BY <2>1 DEF SinkStep, Callers, Logging
    <3> QED
      BY <1>3, <3>1
  <2> QED
    BY <1>1, <1>2, <1>5, <2>1 DEF ThreadStep, LogDefault, Log, FlushStep, Post, history
<1>6. ASSUME NEW w \in Worker, WorkerStep(w) PROVE Archived' /\ renamed' \in BOOLEAN
  <2>1. CASE BackendLog(w)
    <3>1. worker[w].msg \in Message /\ \E end \in End : SinkMessage(worker[w].msg, end)
      BY <2>1 DEF BackendLog, Servers
    <3> QED
      BY <1>3, <3>1
  <2> QED
    BY <1>1, <1>2, <1>6, <2>1 DEF WorkerStep, Dequeue, BackendFlush, history
<1> QED
  BY <1>4, <1>5, <1>6 DEF Next
-----------------------------------------------------------------------------
(***************************************************************************)
(* With the history of the messages and of the files: the pool's promise   *)
(* of order needs a single worker, the rest holds for any number.          *)
(***************************************************************************)
Recorded ==
  /\ Working /\ Numbered /\ Archived /\ renamed \in BOOLEAN
  /\ Cardinality(Worker) = 1 => Lined

LEMMA RecordedInit == Init => Recorded
<1> SUFFICES ASSUME Init PROVE Recorded
  OBVIOUS
<1>1. /\ accepted = <<>> /\ written = <<>> /\ fifo = <<>> /\ logged = 0 /\ renamed = TRUE /\ missed = 0
      /\ Len(accepted) = 0 /\ Len(written) = 0 /\ Len(fifo) = 0
  BY DEF Init
<1>2. (\A m : ~Taken(m)) /\ (\A m : ~Written(m)) /\ (\A m : ~Waits(m))
  BY <1>1 DEF Taken, Written, Waits
<1>3. /\ \A t \in Thread : thread[t].pc = "idle"
      /\ \A w \in Worker : worker[w].pc = "idle"
  BY DoingFacts DEF Init
<1>4. (\A t \in Thread, m \in Message : ~Carries(t, m)) /\ (\A m : ~Served(m))
  BY <1>3 DEF Carries, Served
<1>5. Numbered
  BY <1>1, <1>2, <1>4 DEF Numbered
<1>6. Lined
  BY <1>1, <1>2, <1>4 DEF Lined
<1>7. Archived
  <2>1. PICK file : file = [i \in 0 .. MaxFiles |-> IF i = 0 THEN <<>> ELSE Absent]
    OBVIOUS
  <2>2. sink.file = file
    <3>1. PICK size \in 0 .. MaxSize : sink = [open |-> TRUE, size |-> size, buffered |-> 0, file |-> file]
      BY <2>1 DEF Init, NewSinks
    <3> QED
      BY <3>1
  <2>n. MaxFiles \in Nat /\ 0 \in 0 .. MaxFiles
    BY LongestFacts
  <2>3. file[0] = <<>> /\ \A i \in 0 .. MaxFiles : file[i] = Absent \/ file[i] = <<>>
    BY <2>1, <2>n
  <2>4. Exists(file[0])
    BY <2>3, LongestFacts DEF Exists
  <2>5. \A i \in 0 .. MaxFiles : Held(file, i) = <<>>
    BY <2>3 DEF Held, Exists
  <2>6. PICK cut : cut = [i \in 0 .. MaxFiles + 1 |-> 0]
    OBVIOUS
  <2>7. cut \in [0 .. MaxFiles + 1 -> 0 .. Len(written)] /\ cut[0] = Len(written)
    BY <1>1, <2>6, <2>n
  <2>8. ASSUME NEW i \in 0 .. MaxFiles
        PROVE  cut[i + 1] <= cut[i] /\ Held(file, i) = SubSeq(written, cut[i + 1] + 1, cut[i])
    <3>1. cut[i] = 0 /\ cut[i + 1] = 0
      BY <2>6, <2>n
    <3>2. SubSeq(written, 0 + 1, 0) = <<>>
      BY <1>1
    <3>3. cut[i + 1] <= cut[i]
      BY <3>1
    <3> QED
      BY <2>5, <3>1, <3>2, <3>3, Zenon
  <2>9. Cuts(file, written, cut)
    BY <2>7, <2>8 DEF Cuts
  <2>10. ~(cut[MaxFiles + 1] < Len(written))
    BY <1>1, <2>6, <2>n
  <2>11. Pieces(file, written, missed)
    BY <1>1, <2>9, <2>10 DEF Pieces, Kept
  <2> QED
    BY <1>1, <2>2, <2>4, <2>11 DEF Archived
<1> QED
  BY <1>1, <1>5, <1>6, <1>7, WorkingInit DEF Recorded

LEMMA RecordedInvariance == Spec => []Recorded
<1>1. Recorded /\ [Next]_vars /\ Working' => Recorded'
  <2> SUFFICES ASSUME Recorded, [Next]_vars, Working' PROVE Recorded'
    OBVIOUS
  <2>1. Callers /\ Flushing /\ Queue /\ Servers /\ Accounted /\ Safe(sink)
    BY DEF Recorded, Working
  <2>2. Numbered /\ Archived /\ renamed \in BOOLEAN
    BY DEF Recorded
  <2>3. Numbered'
    BY <2>1, <2>2, NumberedStep
  <2>4. Archived' /\ renamed' \in BOOLEAN
    BY <2>1, <2>2, ArchivedStep
  <2>5. ASSUME Cardinality(Worker) = 1 PROVE Lined'
    <3>1. \A v, w \in Worker : v = w
      <4>1. \E u : Worker = {u}
        BY <2>5, SpdlogAssumption, FS_Singleton
      <4> QED
        BY <4>1
    <3>2. Lined
      BY <2>5 DEF Recorded
    <3> QED
      BY <2>1, <2>2, <3>1, <3>2, LinedStep
  <2> QED
    BY <2>3, <2>4, <2>5 DEF Recorded
<1> QED
  BY <1>1, RecordedInit, WorkingInvariance, PTL DEF Spec

(***************************************************************************)
(* A pool of one thread writes the messages of its loggers in the order    *)
(* they were posted, whatever is overrun or fails in between, for every    *)
(* size of the queue (thread_pool::process_next_msg_, post_log).           *)
(***************************************************************************)
THEOREM WrittenInOrder == Spec => []OrderIsKept
<1>1. Recorded => OrderIsKept
  <2> SUFFICES ASSUME Recorded, Cardinality(Worker) = 1,
                      NEW a \in DOMAIN written, NEW b \in DOMAIN written,
                      NEW i \in DOMAIN accepted, NEW j \in DOMAIN accepted,
                      a < b, written[a] = accepted[i], written[b] = accepted[j]
               PROVE  i < j
    BY DEF OrderIsKept
  <2>1. Numbered /\ Lined /\ accepted \in Seq(Message) /\ written \in Seq(Message)
    BY DEF Recorded, Working, Accounted
  <2>2. PICK m, n \in Message : m = written[a] /\ n = written[b]
    BY <2>1
  <2>3. a \in 1 .. Len(written) /\ b \in 1 .. Len(written) /\ i \in 1 .. Len(accepted) /\ j \in 1 .. Len(accepted)
    BY <2>1
  <2>4. Taken(m) /\ Taken(n) /\ WrittenAt(a, m) /\ WrittenAt(b, n)
    BY <2>2, <2>3 DEF Taken, WrittenAt
  <2>5. Before(m, n)
    BY <2>1, <2>3, <2>4 DEF Lined
  <2>6. PICK k, l \in 1 .. Len(accepted) : k < l /\ accepted[k] = m /\ accepted[l] = n
    BY <2>5 DEF Before
  <2>7. k = i /\ l = j
    BY <2>1, <2>2, <2>3, <2>6 DEF Numbered
  <2> QED
    BY <2>6, <2>7
<1> QED
  BY <1>1, RecordedInvariance, PTL

(***************************************************************************)
(* Until a rename fails, log.max_files, ..., log.1 and log hold the end of *)
(* what was written, whichever files are missing because log could not be  *)
(* opened again, and not nothing, unless more than max_files messages in a *)
(* row failed from a failed write on (rotate_, sink_it_).                  *)
(***************************************************************************)
THEOREM FilesKeepTheEnd == Spec => []FilesAreTheEnd
<1>1. Recorded => FilesAreTheEnd
  <2> SUFFICES ASSUME Recorded, renamed
               PROVE  \E cut \in [0 .. MaxFiles + 1 -> 0 .. Len(written)] :
                        /\ cut[0] = Len(written)
                        /\ \A i \in 0 .. MaxFiles :
                             cut[i + 1] <= cut[i] /\ Content(i) = SubSeq(written, cut[i + 1] + 1, cut[i])
                        /\ written # <<>> /\ missed <= MaxFiles => cut[MaxFiles + 1] < cut[0]
    BY DEF FilesAreTheEnd
  <2>1. PICK cut : /\ Cuts(sink.file, written, cut)
                   /\ written # <<>> /\ missed <= MaxFiles => cut[MaxFiles + 1] < cut[0]
    BY DEF Recorded, Archived, Pieces, Kept
  <2>2. \A i \in 0 .. MaxFiles : Content(i) = Held(sink.file, i)
    BY DEF Content, Held
  <2>3. /\ cut \in [0 .. MaxFiles + 1 -> 0 .. Len(written)] /\ cut[0] = Len(written)
        /\ \A i \in 0 .. MaxFiles :
             cut[i + 1] <= cut[i] /\ Content(i) = SubSeq(written, cut[i + 1] + 1, cut[i])
    BY <2>1, <2>2 DEF Cuts
  <2> QED
    BY <2>1, <2>3
<1> QED
  BY <1>1, RecordedInvariance, PTL
=============================================================================
