--------------------------- MODULE SpdlogRegistry ---------------------------
(***************************************************************************)
(* details::registry as operators on a record: the loggers by name, the    *)
(* default logger, and the level and flush level that new loggers get.     *)
(* Every method holds logger_map_mutex_.                                   *)
(***************************************************************************)
EXTENDS Naturals

CONSTANTS
  Logger,     \* the logger objects of the program
  NameOf      \* their names; two objects may have the same name

Null == "null"

(* level_enum. *)
Level == [trace |-> 0, debug |-> 1, info |-> 2, warn |-> 3, err |-> 4, critical |-> 5, off |-> 6]
Off == Level.off
Info == Level.info  \* the default level of this build

Name == {NameOf[l] : l \in Logger}

ASSUME RegistryAssumption == Null \notin Logger

(* The registry is made with the default logger d. *)
NewRegistry(d) ==
  [loggers |-> [n \in Name |-> IF n = NameOf[d] THEN d ELSE Null],
   default |-> d, level |-> Info, flushLevel |-> Off, automatic |-> TRUE]

Registered(r, l) == r.loggers[NameOf[l]] = l
Get(r, n) == r.loggers[n]

(* register_logger_ throws if the name is taken. *)
MayRegister(r, l) == r.loggers[NameOf[l]] = Null
RegisterLogger(r, l) == [r EXCEPT !.loggers[NameOf[l]] = l]

(* initialize_logger registers the logger if registration is automatic. *)
MayInitialize(r, l) == r.automatic => MayRegister(r, l)
InitializeLogger(r, l) == IF r.automatic THEN RegisterLogger(r, l) ELSE r

(* Fault: the previous default logger is removed last. *)
FaultSetDefault(r, l) ==
  LET stored == IF l = Null THEN r.loggers ELSE [r.loggers EXCEPT ![NameOf[l]] = l] IN
  [r EXCEPT !.loggers = IF r.default = Null THEN stored
                        ELSE [stored EXCEPT ![NameOf[r.default]] = Null],
            !.default = l]

(* The previous default logger leaves the map, the new one enters it. *)
SetDefaultLogger(r, l) ==
  LET erased == IF r.default = Null THEN r.loggers
                ELSE [r.loggers EXCEPT ![NameOf[r.default]] = Null] IN
  [r EXCEPT !.loggers = IF l = Null THEN erased ELSE [erased EXCEPT ![NameOf[l]] = l],
            !.default = l]

Drop(r, n) ==
  [r EXCEPT !.loggers[n] = Null,
            !.default = IF @ # Null /\ NameOf[@] = n THEN Null ELSE @]

DropAll(r) == [r EXCEPT !.loggers = [n \in Name |-> Null], !.default = Null]

SetLevel(r, level) == [r EXCEPT !.level = level]
FlushOn(r, level) == [r EXCEPT !.flushLevel = level]
SetAutomaticRegistration(r, b) == [r EXCEPT !.automatic = b]
=============================================================================
