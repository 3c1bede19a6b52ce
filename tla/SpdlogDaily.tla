---------------------------- MODULE SpdlogDaily ----------------------------
(***************************************************************************)
(* daily_file_sink: the file that is open, by the time it is named after,  *)
(* and the time of the next rotation, which is computed from the clock     *)
(* while the decision to rotate is made with the time of the message.  A   *)
(* message of an asynchronous logger may have been held in the queue.      *)
(* Opening and writing may fail; the error handler drops the message.      *)
(***************************************************************************)
EXTENDS Integers

CONSTANTS
  Day,            \* the length of a day
  RotationTime,   \* rotation_h_ and rotation_m_: the time of day to rotate at
  MaxTime         \* bound on the clock

ASSUME DailyAssumption ==
  /\ Day \in Nat \ {0} /\ RotationTime \in 0 .. Day - 1 /\ MaxTime \in Nat

VARIABLES
  now,       \* log_clock::now() when the sink was last called
  daily,     \* the file opened last, whether it is open, and the next rotation
  stamp,     \* msg.time of the message written last
  heldOver   \* whether the message that opened the file was held over a rotation

dailyVars == <<now, daily, stamp, heldOver>>

(* Fault: the next rotation is always tomorrow's. *)
FaultNextRotation(at) == Day * (at \div Day) + RotationTime + Day

next_rotation_tp_(at) ==
  LET rotation == Day * (at \div Day) + RotationTime IN
  IF rotation > at THEN rotation ELSE rotation + Day

(* The constructor. *)
NewDaily(at) == [open |-> TRUE, file |-> at, rotation |-> next_rotation_tp_(at)]

(***************************************************************************)
(* sink_it_ when the clock is at, for a message that was logged at time t. *)
(* An opening that fails throws with the former file closed and the time   *)
(* of the rotation as it was, so that the next message opens again.  What  *)
(* is written to no file is undefined: no message before the rotation      *)
(* reaches a closed sink here.                                             *)
(***************************************************************************)
DailySinkIt(s, t, at) ==
  IF t >= s.rotation
  THEN {[open |-> TRUE, file |-> t, rotation |-> next_rotation_tp_(at)], [s EXCEPT !.open = FALSE]}
  ELSE {d \in {s} : s.open}

(* The period of RotationTime to RotationTime that a time is in. *)
Period(t) == (t + Day - RotationTime) \div Day
-----------------------------------------------------------------------------
DailyInit ==
  /\ now \in 0 .. MaxTime
  /\ daily = NewDaily(now)
  /\ stamp = now
  /\ heldOver = FALSE

(* A message of time t is written some time later, or is lost. *)
SinkMessage(t, at) ==
  /\ now' = at
  /\ daily' \in DailySinkIt(daily, t, at)
  /\ stamp' \in IF daily'.open THEN {t, stamp} ELSE {stamp}
  /\ heldOver' = IF t >= daily.rotation /\ daily'.open THEN Period(t) # Period(at) ELSE heldOver

DailyNext == \E at \in now .. MaxTime : \E t \in 0 .. at : SinkMessage(t, at)

DailySpec == DailyInit /\ [][DailyNext]_dailyVars
-----------------------------------------------------------------------------
(***************************************************************************)
(* A message goes to its day's file and never to the file of an earlier    *)
(* day, even if it was held over a rotation, and whatever could not be     *)
(* opened or written before it.  Not so while the file is open that a      *)
(* message opened which was itself held over a rotation.                   *)
(***************************************************************************)
RightDay ==
  ~heldOver =>
    /\ Period(stamp) <= Period(daily.file)
    /\ Period(stamp) = Period(now) => Period(daily.file) = Period(stamp)
=============================================================================
