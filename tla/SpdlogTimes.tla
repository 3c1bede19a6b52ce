---------------------------- MODULE SpdlogTimes ----------------------------
(***************************************************************************)
(* The caches of a pattern_formatter, which formats one message after the  *)
(* other: the broken-down time of the formatter, the date of               *)
(* full_formatter, and the offset from UTC of z_formatter, which is        *)
(* computed again after cache_refresh.  A second has TicksPerSec ticks.    *)
(* Messages need not be formatted in the order of their times: threads     *)
(* stamp them before they queue for the sink.                              *)
(***************************************************************************)
EXTENDS Integers, Sequences

CONSTANTS
  TicksPerSec,
  CacheRefresh,   \* cache_refresh, in seconds
  Offset(_),      \* the offset of local time from UTC in a second
  LogTimes        \* the times of messages

(* The clock is past the first seconds of 1970, which the caches start with. *)
ASSUME TimesAssumption ==
  /\ TicksPerSec \in Nat \ {0} /\ CacheRefresh \in Nat \ {0}
  /\ LogTimes \subseteq Nat
  /\ \A t \in LogTimes : t >= CacheRefresh * TicksPerSec /\ t >= TicksPerSec

VARIABLES
  caches,
  logged,    \* the time of the message that was formatted last, 0 before the first
  latest     \* the latest time of a message so far

timesVars == <<caches, logged, latest>>

Secs(t) == t \div TicksPerSec

(* localtime: a time knows whether it is in daylight saving time, and so its offset. *)
localtime(sec) == [sec |-> sec, offset |-> Offset(sec)]
utc_minutes_offset(tm) == tm.offset

NewCaches ==
  [secs |-> 0, tm |-> [sec |-> 0, offset |-> 0], dateSecs |-> 0, date |-> <<>>, update |-> 0, offset |-> 0]

(* full_formatter: the date is written again when the second is another one. *)
FullFormat(c, t) ==
  IF c.dateSecs # Secs(t) \/ c.date = <<>>
  THEN [c EXCEPT !.date = <<c.tm>>, !.dateSecs = Secs(t)] ELSE c

(* Fault: the offset is kept one refresh too long. *)
FaultZFormat(c, t) ==
  IF t - c.update >= 2 * CacheRefresh * TicksPerSec
  THEN [c EXCEPT !.offset = utc_minutes_offset(c.tm), !.update = t] ELSE c

(* z_formatter: get_cached_offset. *)
ZFormat(c, t) ==
  IF t - c.update >= CacheRefresh * TicksPerSec
  THEN [c EXCEPT !.offset = utc_minutes_offset(c.tm), !.update = t] ELSE c

(* format: the broken-down time first, then the formatters. *)
Format(c, t) ==
  LET timed == IF Secs(t) # c.secs THEN [c EXCEPT !.tm = localtime(Secs(t)), !.secs = Secs(t)] ELSE c
  IN ZFormat(FullFormat(timed, t), t)
-----------------------------------------------------------------------------
TimesInit == caches = NewCaches /\ logged = 0 /\ latest = 0

FormatMessage(t) ==
  /\ caches' = Format(caches, t)
  /\ logged' = t
  /\ latest' = IF t > latest THEN t ELSE latest

TimesNext == \E t \in LogTimes : FormatMessage(t)

TimesSpec == TimesInit /\ [][TimesNext]_timesVars
-----------------------------------------------------------------------------
(***************************************************************************)
(* Every message shows the time it was logged at, although the broken-down *)
(* time and the date are kept from message to message and the times need   *)
(* not be in order.  The offset from UTC it shows was right less than      *)
(* CacheRefresh seconds before, or at a time between that and the latest   *)
(* of the messages so far; in order, the latest is the message's own.      *)
(***************************************************************************)
TimeIsCurrent ==
  logged # 0 =>
    /\ caches.tm = localtime(Secs(logged)) /\ caches.date = <<caches.tm>>
    /\ \E u \in logged - CacheRefresh * TicksPerSec + 1 .. latest : caches.offset = Offset(Secs(u))
=============================================================================
