--------------------------- MODULE Texts_proofs ---------------------------
(***************************************************************************)
(* Proofs about the machines that Texts is composed of: the time caches of *)
(* a log formatter, the daily file, the memory buffers of fmt and the      *)
(* generated stubs, for every value of their constants.                    *)
(***************************************************************************)
EXTENDS FmtBuffer, SpdlogTimes, SpdlogDaily, RpcStubs, TLAPS

-----------------------------------------------------------------------------
(* The time caches. *)

(* Messages are logged when the caches' first second is over. *)
LEMMA SecsPositive ==
  ASSUME NEW t \in LogTimes
  PROVE  t \in Nat /\ t # 0 /\ Secs(t) # 0
<1>1. t \in Nat /\ t >= TicksPerSec /\ TicksPerSec \in Nat \ {0}
  BY TimesAssumption
<1>2. t \div TicksPerSec >= 1
  BY <1>1
<1> QED
  BY <1>1, <1>2 DEF Secs

CacheNames == {"secs", "tm", "dateSecs", "date", "update", "offset"}

(* What a call of format leaves in the caches. *)
LEMMA FormatCaches ==
  ASSUME NEW c, DOMAIN c = CacheNames, NEW t
  PROVE  LET d == Format(c, t) IN
         /\ DOMAIN d = CacheNames
         /\ d.secs = Secs(t)
         /\ d.tm = IF Secs(t) # c.secs THEN localtime(Secs(t)) ELSE c.tm
         /\ d.dateSecs = Secs(t)
         /\ d.date = IF c.dateSecs # Secs(t) \/ c.date = <<>> THEN <<d.tm>> ELSE c.date
         /\ d.update = IF t - c.update >= CacheRefresh * TicksPerSec THEN t ELSE c.update
         /\ d.offset = IF t - c.update >= CacheRefresh * TicksPerSec THEN d.tm.offset ELSE c.offset
<1> DEFINE timed == IF Secs(t) # c.secs THEN [c EXCEPT !.tm = localtime(Secs(t)), !.secs = Secs(t)] ELSE c
           full == FullFormat(timed, t)
<1>1. /\ DOMAIN timed = CacheNames /\ timed.secs = Secs(t)
      /\ timed.tm = IF Secs(t) # c.secs THEN localtime(Secs(t)) ELSE c.tm
      /\ timed.dateSecs = c.dateSecs /\ timed.date = c.date
      /\ timed.update = c.update /\ timed.offset = c.offset
  BY DEF CacheNames
<1> HIDE DEF timed
<1>2. /\ DOMAIN full = CacheNames /\ full.secs = Secs(t) /\ full.tm = timed.tm
      /\ full.dateSecs = Secs(t)
      /\ full.date = IF c.dateSecs # Secs(t) \/ c.date = <<>> THEN <<timed.tm>> ELSE c.date
      /\ full.update = c.update /\ full.offset = c.offset
  BY <1>1 DEF CacheNames, FullFormat
<1>3. Format(c, t) = ZFormat(full, t)
  BY DEF Format, timed
<1> HIDE DEF full
<1> QED
  BY <1>1, <1>2, <1>3 DEF CacheNames, ZFormat, utc_minutes_offset

(***************************************************************************)
(* What the caches hold after a message: each is as old as it says it is,  *)
(* and none is older than it may be.  Before the first message they hold   *)
(* the epoch.                                                              *)
(***************************************************************************)
CachesInv ==
  /\ logged \in Nat /\ latest \in Nat /\ logged <= latest
  /\ DOMAIN caches = CacheNames /\ caches.update \in Nat
  /\ logged = 0 => caches = NewCaches
  /\ logged # 0 =>
       /\ caches.secs = Secs(logged) /\ caches.tm = localtime(Secs(logged))
       /\ caches.dateSecs = Secs(logged) /\ caches.date = <<caches.tm>>
       /\ caches.update <= latest /\ logged - caches.update < CacheRefresh * TicksPerSec
       /\ caches.offset = Offset(Secs(caches.update))

LEMMA CachesInitial == TimesInit => CachesInv
<1> SUFFICES ASSUME TimesInit PROVE CachesInv
  OBVIOUS
<1>1. DOMAIN NewCaches = CacheNames /\ NewCaches.update = 0
  BY DEF NewCaches, CacheNames
<1> QED
  BY <1>1 DEF TimesInit, CachesInv

LEMMA CachesStep == CachesInv /\ [TimesNext]_timesVars => CachesInv'
<1> SUFFICES ASSUME CachesInv, [TimesNext]_timesVars PROVE CachesInv'
  OBVIOUS
<1>1. CASE UNCHANGED timesVars
  BY <1>1 DEF timesVars, CachesInv
<1>2. CASE TimesNext
  <2>1. PICK t \in LogTimes : FormatMessage(t)
    BY <1>2 DEF TimesNext
  <2>2. t \in Nat /\ t # 0 /\ Secs(t) # 0
    BY SecsPositive
  <2>3. TicksPerSec \in Nat /\ CacheRefresh \in Nat /\ CacheRefresh * TicksPerSec \in Nat
        /\ CacheRefresh * TicksPerSec > 0 /\ t >= CacheRefresh * TicksPerSec
    BY TimesAssumption
  <2> DEFINE R == CacheRefresh * TicksPerSec
  <2>4. /\ caches' = Format(caches, t) /\ logged' = t
        /\ latest' = IF t > latest THEN t ELSE latest
    BY <2>1 DEF FormatMessage
  <2>5. /\ logged' \in Nat /\ latest' \in Nat /\ logged' <= latest' /\ latest <= latest' /\ logged' # 0
    BY <2>2, <2>4 DEF CachesInv
  <2>6. /\ DOMAIN caches' = CacheNames
        /\ caches'.secs = Secs(t)
        /\ caches'.tm = IF Secs(t) # caches.secs THEN localtime(Secs(t)) ELSE caches.tm
        /\ caches'.dateSecs = Secs(t)
        /\ caches'.date = IF caches.dateSecs # Secs(t) \/ caches.date = <<>> THEN <<caches'.tm>> ELSE caches.date
        /\ caches'.update = IF t - caches.update >= R THEN t ELSE caches.update
        /\ caches'.offset = IF t - caches.update >= R THEN caches'.tm.offset ELSE caches.offset
    BY <2>4, FormatCaches, Zenon DEF CachesInv
  <2>7. CASE logged = 0
    <3>1. caches.secs = 0 /\ caches.date = <<>> /\ caches.update = 0
      BY <2>7 DEF CachesInv, NewCaches
    <3>2. caches'.tm = localtime(Secs(t)) /\ caches'.date = <<caches'.tm>>
      BY <2>2, <2>6, <3>1
    <3>3. t - caches.update >= R
      BY <2>2, <2>3, <3>1
    <3>4. caches'.update = t /\ caches'.offset = Offset(Secs(t))
      BY <2>6, <3>2, <3>3 DEF localtime
    <3> QED
      BY <2>2, <2>3, <2>4, <2>5, <2>6, <3>2, <3>4 DEF CachesInv
  <2>8. CASE logged # 0
    <3>1. caches'.tm = localtime(Secs(t))
      BY <2>6, <2>8 DEF CachesInv
    <3>2. caches'.date = <<caches'.tm>>
      BY <2>6, <2>8, <3>1 DEF CachesInv
    <3>3. /\ caches'.update \in Nat /\ caches'.update <= latest' /\ t - caches'.update < R
      BY <2>2, <2>3, <2>4, <2>5, <2>6, <2>8 DEF CachesInv
    <3>4. caches'.offset = Offset(Secs(caches'.update))
      BY <2>6, <2>8, <3>1 DEF CachesInv, localtime
    <3> QED
      BY <2>4, <2>5, <2>6, <3>1, <3>2, <3>3, <3>4 DEF CachesInv
  <2> QED
    BY <2>7, <2>8
<1> QED
  BY <1>1, <1>2

(***************************************************************************)
(* Whatever the time zone does and in whatever order messages are          *)
(* formatted, every message shows its own time, and an offset that is no   *)
(* staler than cache_refresh allows.                                       *)
(***************************************************************************)
THEOREM TimeIsCurrentHolds == TimesSpec => []TimeIsCurrent
<1>1. CachesInv => TimeIsCurrent
  <2> SUFFICES ASSUME CachesInv, logged # 0 PROVE TimeIsCurrent
    BY DEF TimeIsCurrent
  <2>1. CacheRefresh * TicksPerSec \in Nat
    BY TimesAssumption
  <2>2. caches.update \in logged - CacheRefresh * TicksPerSec + 1 .. latest
    BY <2>1 DEF CachesInv
  <2> QED
    BY <2>2 DEF CachesInv, TimeIsCurrent
<1> QED
  BY <1>1, CachesInitial, CachesStep, PTL DEF TimesSpec
-----------------------------------------------------------------------------
(* The daily file. *)

LEMMA DivBounds ==
  ASSUME NEW x \in Int, NEW n \in Nat \ {0}
  PROVE  /\ x \div n \in Int
         /\ n * (x \div n) <= x /\ x < n * (x \div n) + n
  OBVIOUS

LEMMA TimesMonotonic ==
  ASSUME NEW n \in Nat \ {0}, NEW a \in Int, NEW b \in Int, a < b
  PROVE  n * a + n <= n * b
  OBVIOUS

(* A quotient is the number whose multiple is the last one not above x. *)
LEMMA DivUnique ==
  ASSUME NEW x \in Int, NEW n \in Nat \ {0}, NEW q \in Int, n * q <= x, x < n * q + n
  PROVE  x \div n = q
<1> DEFINE p == x \div n
<1>1. p \in Int /\ n * p <= x /\ x < n * p + n
  BY DivBounds
<1> HIDE DEF p
<1>2. n * p \in Int /\ n * q \in Int
  BY <1>1
<1>3. ~ (p < q)
  BY <1>1, <1>2, TimesMonotonic
<1>4. ~ (q < p)
  BY <1>1, <1>2, TimesMonotonic
<1>5. p = q
  BY <1>1, <1>3, <1>4
<1> QED
  BY <1>5 DEF p

LEMMA DivMonotonic ==
  ASSUME NEW x \in Int, NEW y \in Int, NEW n \in Nat \ {0}, x <= y
  PROVE  x \div n <= y \div n
<1> DEFINE p == x \div n
           q == y \div n
<1>1. p \in Int /\ n * p <= x /\ q \in Int /\ y < n * q + n
  BY DivBounds
<1> HIDE DEF p, q
<1>2. n * p \in Int /\ n * q \in Int
  BY <1>1
<1>3. ~ (q < p)
  BY <1>1, <1>2, TimesMonotonic
<1>4. p <= q
  BY <1>1, <1>3
<1> QED
  BY <1>4 DEF p, q

(* Periods are numbered in the order of time. *)
LEMMA PeriodMonotonic ==
  ASSUME NEW x \in Int, NEW y \in Int, x <= y
  PROVE  Period(x) \in Int /\ Period(y) \in Int /\ Period(x) <= Period(y)
<1>1. Day \in Nat \ {0} /\ RotationTime \in Int
  BY DailyAssumption
<1>2. x + Day - RotationTime \in Int /\ y + Day - RotationTime \in Int /\ x + Day - RotationTime <= y + Day - RotationTime
  BY <1>1
<1>3. (x + Day - RotationTime) \div Day <= (y + Day - RotationTime) \div Day
  BY <1>1, <1>2, DivMonotonic
<1>4. (x + Day - RotationTime) \div Day \in Int /\ (y + Day - RotationTime) \div Day \in Int
  BY <1>1, <1>2, DivBounds
<1> QED
  BY <1>3, <1>4 DEF Period

(* The end of a period. *)
PeriodEnd(k) == Day * k + RotationTime

(* A time is in a period that is over at its end and not earlier than a day before. *)
LEMMA PeriodBounds ==
  ASSUME NEW x \in Int
  PROVE  x < PeriodEnd(Period(x)) /\ PeriodEnd(Period(x)) <= x + Day
<1>1. Day \in Nat \ {0} /\ RotationTime \in Int
  BY DailyAssumption
<1> DEFINE y == x + Day - RotationTime
           p == y \div Day
<1>2. y \in Int
  BY <1>1
<1>3. p \in Int /\ Day * p <= y /\ y < Day * p + Day
  BY <1>1, <1>2, DivBounds
<1>4. Period(x) = p
  BY DEF Period
<1> HIDE DEF p
<1>5. Day * p \in Int
  BY <1>1, <1>3
<1> QED
  BY <1>1, <1>3, <1>4, <1>5 DEF PeriodEnd

(* next_rotation_tp_ is the end of the period that the clock is in. *)
LEMMA NextRotation ==
  ASSUME NEW at \in Int
  PROVE  next_rotation_tp_(at) = PeriodEnd(Period(at))
<1>1. Day \in Nat \ {0} /\ RotationTime \in Int /\ 0 <= RotationTime /\ RotationTime < Day
  BY DailyAssumption
<1> DEFINE d == at \div Day
<1>2. d \in Int /\ Day * d <= at /\ at < Day * d + Day
  BY <1>1, DivBounds
<1> HIDE DEF d
<1>3. Day * d \in Int /\ Day * (d + 1) = Day * d + Day /\ at + Day - RotationTime \in Int
  BY <1>1, <1>2
<1>4. CASE Day * d + RotationTime > at
  <2>1. Day * d <= at + Day - RotationTime /\ at + Day - RotationTime < Day * d + Day
    BY <1>1, <1>2, <1>3, <1>4
  <2>2. Period(at) = d
    BY <1>1, <1>2, <1>3, <2>1, DivUnique DEF Period
  <2> QED
    BY <1>4, <2>2 DEF next_rotation_tp_, PeriodEnd, d
<1>5. CASE ~ (Day * d + RotationTime > at)
  <2>1. d + 1 \in Int /\ Day * (d + 1) <= at + Day - RotationTime /\ at + Day - RotationTime < Day * (d + 1) + Day
    BY <1>1, <1>2, <1>3, <1>5
  <2>2. Period(at) = d + 1
    BY <1>1, <1>3, <2>1, DivUnique DEF Period
  <2>3. Day * d + RotationTime + Day = Day * (d + 1) + RotationTime
    BY <1>1, <1>3
  <2> QED
    BY <1>5, <2>2, <2>3 DEF next_rotation_tp_, PeriodEnd, d
<1> QED
  BY <1>4, <1>5

(* What is before the end of a period is not in a later one. *)
LEMMA BeforeEnd ==
  ASSUME NEW x \in Int, NEW k \in Int, x < PeriodEnd(k)
  PROVE  Period(x) <= k
<1>1. Day \in Nat \ {0} /\ RotationTime \in Int
  BY DailyAssumption
<1>2. Period(x) \in Int /\ PeriodEnd(Period(x)) <= x + Day
  BY PeriodMonotonic, PeriodBounds
<1>3. ~ (k < Period(x))
  <2> SUFFICES ASSUME k < Period(x) PROVE FALSE
    OBVIOUS
  <2>1. Day * k + Day <= Day * Period(x)
    BY <1>1, <1>2, TimesMonotonic
  <2>2. Day * k \in Int /\ Day * Period(x) \in Int
    BY <1>1, <1>2
  <2> QED
    BY <1>1, <1>2, <2>1, <2>2 DEF PeriodEnd
<1> QED
  BY <1>2, <1>3

(***************************************************************************)
(* The file is rotated at the end of the period that it is named after,    *)
(* and is not named after one to come, unless the message that opened it   *)
(* was held over a rotation.  What is in it was logged before the next     *)
(* rotation.                                                               *)
(***************************************************************************)
DailyInv ==
  /\ now \in Nat /\ stamp \in Nat
  /\ daily \in [open : BOOLEAN, file : Nat, rotation : Int]
  /\ daily.file <= now
  /\ stamp < daily.rotation
  /\ ~heldOver => daily.rotation = PeriodEnd(Period(daily.file))

(* The next rotation is a time to come. *)
LEMMA RotationToCome ==
  ASSUME NEW at \in Int
  PROVE  next_rotation_tp_(at) \in Int /\ at < next_rotation_tp_(at)
<1>1. Day \in Nat \ {0} /\ RotationTime \in Int
  BY DailyAssumption
<1>2. Period(at) \in Int
  BY PeriodMonotonic
<1>3. PeriodEnd(Period(at)) \in Int
  BY <1>1, <1>2 DEF PeriodEnd
<1> QED
  BY <1>3, NextRotation, PeriodBounds

LEMMA DailyInitial == DailyInit => DailyInv
<1> SUFFICES ASSUME DailyInit PROVE DailyInv
  OBVIOUS
<1>1. now \in Nat /\ stamp = now /\ daily.file = now /\ daily.rotation = next_rotation_tp_(now)
      /\ daily = [open |-> TRUE, file |-> now, rotation |-> next_rotation_tp_(now)]
  BY DailyAssumption DEF DailyInit, NewDaily
<1>2. next_rotation_tp_(now) \in Int /\ now < next_rotation_tp_(now)
      /\ next_rotation_tp_(now) = PeriodEnd(Period(now))
  BY <1>1, RotationToCome, NextRotation
<1> QED
  BY <1>1, <1>2 DEF DailyInv

LEMMA DailyStep == DailyInv /\ [DailyNext]_dailyVars => DailyInv'
<1> SUFFICES ASSUME DailyInv, [DailyNext]_dailyVars PROVE DailyInv'
  OBVIOUS
<1>1. CASE UNCHANGED dailyVars
  BY <1>1 DEF dailyVars, DailyInv
<1>2. CASE DailyNext
  <2>1. PICK at \in now .. MaxTime : \E t \in 0 .. at : SinkMessage(t, at)
    BY <1>2 DEF DailyNext
  <2>2. PICK t \in 0 .. at : SinkMessage(t, at)
    BY <2>1
  <2>3. at \in Nat /\ t \in Nat /\ now <= at /\ t <= at
    BY DailyAssumption DEF DailyInv
  <2>4. now' = at /\ stamp' \in {t, stamp}
    BY <2>2 DEF SinkMessage
  <2>5. CASE t >= daily.rotation /\ daily'.open
    <3>1. /\ daily' = [open |-> TRUE, file |-> t, rotation |-> next_rotation_tp_(at)]
          /\ heldOver' = (Period(t) # Period(at))
      BY <2>2, <2>5 DEF SinkMessage, DailySinkIt, DailyInv
    <3>2. daily'.file = t /\ daily'.rotation = next_rotation_tp_(at) /\ (~heldOver' => Period(t) = Period(at))
      BY <3>1
    <3>3. next_rotation_tp_(at) \in Int /\ at < next_rotation_tp_(at)
          /\ next_rotation_tp_(at) = PeriodEnd(Period(at))
      BY <2>3, RotationToCome, NextRotation
    <3>4. ~heldOver' => daily'.rotation = PeriodEnd(Period(daily'.file))
      BY <3>2, <3>3
    <3> QED
      BY <2>3, <2>4, <2>5, <3>1, <3>2, <3>3, <3>4 DEF DailyInv
  <2>6. CASE t >= daily.rotation /\ ~daily'.open
    <3>1. daily' = [daily EXCEPT !.open = FALSE] /\ heldOver' = heldOver /\ stamp' = stamp
      BY <2>2, <2>6 DEF SinkMessage, DailySinkIt
    <3>2. /\ daily' \in [open : BOOLEAN, file : Nat, rotation : Int]
          /\ daily'.file = daily.file /\ daily'.rotation = daily.rotation
      BY <3>1 DEF DailyInv
    <3>3. ~heldOver' => daily'.rotation = PeriodEnd(Period(daily'.file))
      BY <3>1, <3>2 DEF DailyInv
    <3> QED
      BY <2>3, <2>4, <3>1, <3>2, <3>3 DEF DailyInv
  <2>7. CASE ~ (t >= daily.rotation)
    <3>1. daily' = daily /\ heldOver' = heldOver
      BY <2>2, <2>7 DEF SinkMessage, DailySinkIt
    <3> QED
      BY <2>3, <2>4, <2>7, <3>1 DEF DailyInv
  <2> QED
    BY <2>5, <2>6, <2>7
<1> QED
  BY <1>1, <1>2

(***************************************************************************)
(* For every length of a day and every rotation time, whatever times       *)
(* messages have, whenever they are written and whatever cannot be opened  *)
(* or written, a message is in the file of its day, except while the file  *)
(* is open that a message opened which was held over a rotation.           *)
(***************************************************************************)
THEOREM RightDayHolds == DailySpec => []RightDay
<1>1. DailyInv => RightDay
  <2> SUFFICES ASSUME DailyInv, ~heldOver PROVE RightDay
    BY DEF RightDay
  <2>1. /\ now \in Int /\ stamp \in Int /\ daily.file \in Int /\ daily.file <= now
        /\ stamp < PeriodEnd(Period(daily.file))
    BY DEF DailyInv
  <2>2. Period(daily.file) \in Int /\ Period(now) \in Int /\ Period(daily.file) <= Period(now)
    BY <2>1, PeriodMonotonic
  <2>3. Period(stamp) \in Int /\ Period(stamp) <= Period(daily.file)
    BY <2>1, <2>2, BeforeEnd, PeriodMonotonic
  <2> QED
    BY <2>2, <2>3 DEF RightDay
<1> QED
  BY <1>1, DailyInitial, DailyStep, PTL DEF DailySpec
-----------------------------------------------------------------------------
(* The memory buffers. *)

BufferRecord == [data : Nat, size : Nat, capacity : Nat]
StoreType == [buf : [Buffers -> BufferRecord], mem : Seq(Seq(Nat)), freed : Seq(Nat)]
StatusType == [Buffers -> {"live", "moved", "gone"}]
BlocksOf(s) == NBuffers + 1 .. Len(s.mem)
InUse(s, st, p) == \E b \in Buffers : st[b] # "gone" /\ s.buf[b].data = p
IsFreed(s, p) == \E i \in 1 .. Len(s.freed) : s.freed[i] = p

(* The inline arrays are the first entries of the memory, and only blocks are freed, each once. *)
Laid(s) ==
  /\ s \in StoreType
  /\ NBuffers <= Len(s.mem) /\ \A b \in Buffers : Len(s.mem[b]) = InlineSize
  /\ \A i \in 1 .. Len(s.freed) : s.freed[i] \in BlocksOf(s)
  /\ \A i, j \in 1 .. Len(s.freed) : s.freed[i] = s.freed[j] => i = j

(* A buffer points to its own array, or while it is live to a block that nobody else has. *)
Placed(s, st) ==
  \A b \in Buffers : st[b] # "gone" =>
    \/ s.buf[b].data = b
    \/ /\ st[b] = "live" /\ s.buf[b].data \in BlocksOf(s) /\ ~IsFreed(s, s.buf[b].data)
       /\ \A c \in Buffers : st[c] # "gone" /\ s.buf[c].data = s.buf[b].data => c = b

(* No block is lost. *)
NoLeak(s, st) == \A p \in BlocksOf(s) : InUse(s, st, p) \/ IsFreed(s, p)

(* A live buffer holds its characters, and has the room it believes to have. *)
Holds(s, b, chars) ==
  LET x == s.buf[b] IN
  /\ x.size <= x.capacity /\ x.capacity <= Len(s.mem[x.data]) /\ (x.data = b => x.capacity = InlineSize)
  /\ Len(chars) = x.size
  /\ \A i \in 1 .. x.size : s.mem[x.data][i] = chars[i]

(***************************************************************************)
(* The inductive invariant, about any store: deallocate, grow and move are *)
(* calls in the middle of others, so what is between two of them is a      *)
(* store that has it too.                                                  *)
(***************************************************************************)
Good(s, st, ct) ==
  /\ Laid(s) /\ Placed(s, st) /\ NoLeak(s, st)
  /\ \A b \in Buffers : st[b] = "live" => Holds(s, b, ct[b])

BufferInv ==
  /\ status \in StatusType /\ content \in [Buffers -> Seq(Nat)] /\ written \in Nat
  /\ Good(store, status, content)

LEMMA StoreFields ==
  ASSUME NEW s \in StoreType
  PROVE  /\ s = [buf |-> s.buf, mem |-> s.mem, freed |-> s.freed]
         /\ s.buf \in [Buffers -> BufferRecord] /\ s.mem \in Seq(Seq(Nat)) /\ s.freed \in Seq(Nat)
         /\ \A b \in Buffers : s.buf[b] \in BufferRecord /\ s.buf[b].data \in Nat
                               /\ s.buf[b].size \in Nat /\ s.buf[b].capacity \in Nat
         /\ Len(s.mem) \in Nat /\ Len(s.freed) \in Nat
  BY DEF StoreType, BufferRecord

(* Sequences of characters and of freed blocks. *)
LEMMA Joined ==
  ASSUME NEW p \in Seq(Nat), NEW q \in Seq(Nat)
  PROVE  /\ Len(p \o q) = Len(p) + Len(q)
         /\ \A i \in 1 .. Len(p) : (p \o q)[i] = p[i]
         /\ \A i \in Len(p) + 1 .. Len(p) + Len(q) : (p \o q)[i] = q[i - Len(p)]
  OBVIOUS

LEMMA Appended ==
  ASSUME NEW p \in Seq(Nat), NEW x \in Nat
  PROVE  /\ Len(Append(p, x)) = Len(p) + 1 /\ Append(p, x)[Len(p) + 1] = x
         /\ \A i \in 1 .. Len(p) : Append(p, x)[i] = p[i]
  OBVIOUS

(* What deallocate changes. *)
LEMMA DeallocateStore ==
  ASSUME NEW s \in StoreType, NEW b \in Buffers
  PROVE  LET t == deallocate(s, b) IN
         /\ t \in StoreType /\ t.buf = s.buf /\ t.mem = s.mem
         /\ s.buf[b].data = b => t.freed = s.freed
         /\ s.buf[b].data # b => t.freed = Append(s.freed, s.buf[b].data)
<1>1. s.buf[b].data \in Nat
  BY StoreFields
<1>2. CASE s.buf[b].data = b
  BY <1>2 DEF deallocate, Free
<1>3. CASE s.buf[b].data # b
  <2>1. deallocate(s, b) = [s EXCEPT !.freed = Append(s.freed, s.buf[b].data)]
    BY <1>3 DEF deallocate, Free
  <2>2. Append(s.freed, s.buf[b].data) \in Seq(Nat)
    BY <1>1, StoreFields
  <2> QED
    BY <1>3, <2>1, <2>2 DEF StoreType
<1> QED
  BY <1>2, <1>3

(* The destructor, and the first half of an assignment. *)
LEMMA DestroyKeeps ==
  ASSUME NEW s, NEW st \in StatusType, NEW ct, NEW b \in Buffers, Good(s, st, ct), st[b] # "gone"
  PROVE  Good(deallocate(s, b), [st EXCEPT ![b] = "gone"], ct)
<1>1. s \in StoreType /\ NBuffers \in Nat /\ Laid(s) /\ Placed(s, st) /\ NoLeak(s, st)
  BY BufferAssumption DEF Good, Laid
<1> DEFINE t == deallocate(s, b)
           stt == [st EXCEPT ![b] = "gone"]
<1>2. /\ t \in StoreType /\ t.buf = s.buf /\ t.mem = s.mem
      /\ s.buf[b].data = b => t.freed = s.freed
      /\ s.buf[b].data # b => t.freed = Append(s.freed, s.buf[b].data)
  BY <1>1, DeallocateStore
<1>3. /\ stt[b] = "gone" /\ \A c \in Buffers : c # b => stt[c] = st[c]
      /\ \A c \in Buffers : stt[c] # "gone" => c # b /\ st[c] = stt[c]
  BY DEF StatusType
<1>4. /\ s.freed \in Seq(Nat) /\ Len(s.freed) \in Nat /\ Len(s.mem) \in Nat
      /\ \A c \in Buffers : s.buf[c].data \in Nat
  BY <1>1, StoreFields
<1> HIDE DEF t, stt
<1>5. ASSUME NEW c \in Buffers, stt[c] = "live" PROVE Holds(t, c, ct[c])
  <2>1. Holds(s, c, ct[c])
    BY <1>3, <1>5 DEF Good
  <2> QED
    BY <1>2, <2>1 DEF Holds
<1>6. CASE s.buf[b].data = b
  <2>1. t.freed = s.freed
    BY <1>2, <1>6
  <2>2. Laid(t)
    BY <1>1, <1>2, <2>1 DEF Laid, BlocksOf
  <2>3. Placed(t, stt)
    BY <1>1, <1>2, <1>3, <2>1 DEF Placed, BlocksOf, IsFreed
  <2>4. NoLeak(t, stt)
    <3> SUFFICES ASSUME NEW q \in BlocksOf(s), ~IsFreed(s, q) PROVE InUse(t, stt, q)
      BY <1>2, <2>1 DEF NoLeak, BlocksOf, IsFreed
    <3>1. PICK c \in Buffers : st[c] # "gone" /\ s.buf[c].data = q
      BY <1>1 DEF NoLeak, InUse
    <3>2. c # b
      BY <1>1, <1>6, <3>1 DEF BlocksOf, Buffers
    <3> QED
      BY <1>2, <1>3, <3>1, <3>2 DEF InUse
  <2> QED
    BY <1>5, <2>2, <2>3, <2>4 DEF Good, t, stt
<1>7. CASE s.buf[b].data # b
  <2> DEFINE p == s.buf[b].data
  <2>1. /\ st[b] = "live" /\ p \in BlocksOf(s) /\ ~IsFreed(s, p)
        /\ \A c \in Buffers : st[c] # "gone" /\ s.buf[c].data = p => c = b
    BY <1>1, <1>7 DEF Placed
  <2>2. /\ Len(t.freed) = Len(s.freed) + 1 /\ t.freed[Len(s.freed) + 1] = p
        /\ \A i \in 1 .. Len(s.freed) : t.freed[i] = s.freed[i]
    <3>1. t.freed = Append(s.freed, p) /\ s.freed \in Seq(Nat) /\ p \in Nat
      BY <1>2, <1>4, <1>7
    <3> QED
      BY <3>1, Appended
  <2> HIDE DEF p
  <2>3. \A i \in 1 .. Len(t.freed) : i = Len(s.freed) + 1 \/ i \in 1 .. Len(s.freed)
    BY <1>4, <2>2
  <2>4. Laid(t)
    <3>1. \A i \in 1 .. Len(t.freed) : t.freed[i] \in BlocksOf(t)
      BY <1>1, <1>2, <2>1, <2>2, <2>3 DEF Laid, BlocksOf
    <3>2. \A i \in 1 .. Len(s.freed) : t.freed[i] # p
      BY <2>1, <2>2 DEF IsFreed
    <3>3. \A i, j \in 1 .. Len(t.freed) : t.freed[i] = t.freed[j] => i = j
      BY <1>1, <2>2, <2>3, <3>2 DEF Laid
    <3> QED
      BY <1>1, <1>2, <3>1, <3>3 DEF Laid
  <2>5. \A x : IsFreed(t, x) <=> IsFreed(s, x) \/ x = p
    <3> TAKE x
    <3>1. IsFreed(t, x) => IsFreed(s, x) \/ x = p
      BY <2>2, <2>3 DEF IsFreed
    <3>2. IsFreed(s, x) => IsFreed(t, x)
      <4> SUFFICES ASSUME NEW i \in 1 .. Len(s.freed), s.freed[i] = x PROVE IsFreed(t, x)
        BY DEF IsFreed
      <4>1. i \in 1 .. Len(t.freed) /\ t.freed[i] = x
        BY <1>4, <2>2
      <4> QED
        BY <4>1 DEF IsFreed
    <3>3. x = p => IsFreed(t, x)
      BY <1>4, <2>2 DEF IsFreed
    <3> QED
      BY <3>1, <3>2, <3>3
  <2>6. Placed(t, stt)
    <3> SUFFICES ASSUME NEW c \in Buffers, stt[c] # "gone", s.buf[c].data # c
                 PROVE  /\ stt[c] = "live" /\ s.buf[c].data \in BlocksOf(s) /\ ~IsFreed(t, s.buf[c].data)
                        /\ \A d \in Buffers : stt[d] # "gone" /\ s.buf[d].data = s.buf[c].data => d = c
      BY <1>2 DEF Placed, BlocksOf
    <3>1. c # b /\ st[c] = stt[c]
      BY <1>3
    <3>2. /\ st[c] = "live" /\ s.buf[c].data \in BlocksOf(s) /\ ~IsFreed(s, s.buf[c].data)
          /\ \A d \in Buffers : st[d] # "gone" /\ s.buf[d].data = s.buf[c].data => d = c
      BY <1>1, <3>1 DEF Placed
    <3>3. s.buf[c].data # p
      BY <2>1, <3>1
    <3> QED
      BY <1>3, <2>5, <3>1, <3>2, <3>3
  <2>7. NoLeak(t, stt)
    <3> SUFFICES ASSUME NEW q \in BlocksOf(s), ~IsFreed(s, q), q # p PROVE InUse(t, stt, q)
      BY <1>2, <2>5 DEF NoLeak, BlocksOf
    <3>1. PICK c \in Buffers : st[c] # "gone" /\ s.buf[c].data = q
      BY <1>1 DEF NoLeak, InUse
    <3>2. c # b
      BY <3>1 DEF p
    <3> QED
      BY <1>2, <1>3, <3>1, <3>2 DEF InUse
  <2> QED
    BY <1>5, <2>4, <2>6, <2>7 DEF Good, t, stt
<1> QED
  BY <1>6, <1>7

(* t is s but for the record of buffer b, which is r. *)
OnlyBuffer(s, t, b, r) ==
  /\ t \in StoreType /\ t.mem = s.mem /\ t.freed = s.freed
  /\ t.buf[b] = r /\ \A c \in Buffers : c # b => t.buf[c] = s.buf[c]

LEMMA ReplaceBuffer ==
  ASSUME NEW s \in StoreType, NEW b \in Buffers, NEW r \in BufferRecord
  PROVE  OnlyBuffer(s, [s EXCEPT !.buf[b] = r], b, r)
<1> DEFINE t == [s EXCEPT !.buf[b] = r]
<1>1. t.mem = s.mem /\ t.freed = s.freed /\ t.buf = [s.buf EXCEPT ![b] = r]
  BY DEF StoreType
<1>2. [s.buf EXCEPT ![b] = r] \in [Buffers -> BufferRecord]
  BY StoreFields
<1>3. t \in StoreType
  BY <1>2 DEF StoreType
<1>4. t.buf[b] = r /\ \A c \in Buffers : c # b => t.buf[c] = s.buf[c]
  BY <1>1, StoreFields
<1> HIDE DEF t
<1>5. OnlyBuffer(s, t, b, r)
  BY <1>1, <1>3, <1>4 DEF OnlyBuffer
<1> QED
  BY <1>5 DEF t

LEMMA RecordFields ==
  ASSUME NEW x \in BufferRecord, NEW d \in Nat, NEW n \in Nat, NEW c \in Nat
  PROVE  /\ BasicBuffer(d, n, c) \in BufferRecord
         /\ BasicBuffer(d, n, c).data = d /\ BasicBuffer(d, n, c).size = n /\ BasicBuffer(d, n, c).capacity = c
         /\ x = BasicBuffer(x.data, x.size, x.capacity)
         /\ [x EXCEPT !.size = n] = BasicBuffer(x.data, n, x.capacity)
         /\ [x EXCEPT !.data = d] = BasicBuffer(d, x.size, x.capacity)
         /\ [x EXCEPT !.capacity = c] = BasicBuffer(x.data, x.size, c)
<1>1. BasicBuffer(d, n, c) \in BufferRecord
  BY DEF BufferRecord, BasicBuffer
<1>2. BasicBuffer(d, n, c).data = d /\ BasicBuffer(d, n, c).size = n /\ BasicBuffer(d, n, c).capacity = c
  BY DEF BasicBuffer
<1>3. x = BasicBuffer(x.data, x.size, x.capacity)
  BY DEF BufferRecord, BasicBuffer
<1>4. [x EXCEPT !.size = n] = BasicBuffer(x.data, n, x.capacity)
  BY DEF BufferRecord, BasicBuffer
<1>5. [x EXCEPT !.data = d] = BasicBuffer(d, x.size, x.capacity)
  BY DEF BufferRecord, BasicBuffer
<1>6. [x EXCEPT !.capacity = c] = BasicBuffer(x.data, x.size, c)
  BY DEF BufferRecord, BasicBuffer
<1> QED
  BY <1>1, <1>2, <1>3, <1>4, <1>5, <1>6

(* The size of a buffer is set. *)
LEMMA SizeStore ==
  ASSUME NEW s \in StoreType, NEW b \in Buffers, NEW n \in Nat
  PROVE  OnlyBuffer(s, [s EXCEPT !.buf[b].size = n], b, BasicBuffer(s.buf[b].data, n, s.buf[b].capacity))
<1> DEFINE r == BasicBuffer(s.buf[b].data, n, s.buf[b].capacity)
<1>1. s.buf[b].data \in Nat /\ s.buf[b].capacity \in Nat /\ s.buf[b] \in BufferRecord
  BY StoreFields
<1>2. [s.buf[b] EXCEPT !.size = n] = r
  BY <1>1, RecordFields, Zenon
<1>3. r \in BufferRecord
  BY <1>1 DEF BufferRecord, BasicBuffer
<1>4. [s EXCEPT !.buf[b].size = n] = [s EXCEPT !.buf[b] = r]
  BY <1>2
<1> HIDE DEF r
<1>5. OnlyBuffer(s, [s EXCEPT !.buf[b] = r], b, r)
  BY <1>3, ReplaceBuffer, Zenon
<1> QED
  BY <1>4, <1>5 DEF r

(* resize does not allocate what is already there. *)
LEMMA ResizeWithin ==
  ASSUME NEW s \in StoreType, NEW b \in Buffers, NEW n \in Nat, n <= s.buf[b].capacity
  PROVE  OnlyBuffer(s, resize(s, b, n), b, BasicBuffer(s.buf[b].data, n, s.buf[b].capacity))
<1>1. s.buf[b].capacity \in Nat /\ ~ (n > s.buf[b].capacity)
  BY StoreFields
<1>2. resize(s, b, n) = [s EXCEPT !.buf[b].size = n]
  BY <1>1 DEF resize, reserve
<1> QED
  BY <1>2, SizeStore

(* Pointer and capacity are set. *)
LEMMA SetStore ==
  ASSUME NEW s \in StoreType, NEW b \in Buffers, NEW d \in Nat, NEW c \in Nat
  PROVE  OnlyBuffer(s, set(s, b, d, c), b, BasicBuffer(d, s.buf[b].size, c))
<1> DEFINE q == BasicBuffer(d, s.buf[b].size, s.buf[b].capacity)
           r == BasicBuffer(d, s.buf[b].size, c)
<1>1. s.buf[b] \in BufferRecord /\ s.buf[b].size \in Nat /\ s.buf[b].capacity \in Nat
  BY StoreFields
<1>2. q \in BufferRecord /\ r \in BufferRecord
  BY <1>1 DEF BufferRecord, BasicBuffer
<1>3. [s.buf[b] EXCEPT !.data = d] = q
  BY <1>1, RecordFields, Zenon
<1>4. [q EXCEPT !.capacity = c] = r
  BY <1>1 DEF BasicBuffer
<1> HIDE DEF q, r
<1> DEFINE u == [s EXCEPT !.buf[b] = q]
<1>5. [s EXCEPT !.buf[b].data = d] = u
  BY <1>3
<1>6. OnlyBuffer(s, u, b, q)
  BY <1>2, ReplaceBuffer, Zenon
<1>7. set(s, b, d, c) = [u EXCEPT !.buf[b].capacity = c]
  BY <1>5 DEF set
<1> HIDE DEF u
<1>8. u \in StoreType /\ u.buf[b] = q
  BY <1>6 DEF OnlyBuffer
<1>9. [u EXCEPT !.buf[b].capacity = c] = [u EXCEPT !.buf[b] = r]
  BY <1>4, <1>8
<1>10. OnlyBuffer(u, [u EXCEPT !.buf[b] = r], b, r)
  BY <1>2, <1>8, ReplaceBuffer, Zenon
<1>11. OnlyBuffer(s, [u EXCEPT !.buf[b] = r], b, r)
  BY <1>6, <1>10 DEF OnlyBuffer
<1> QED
  BY <1>7, <1>9, <1>11 DEF r

(* t is s but for the memory at d, which holds the cells. *)
OnlyMemory(s, t, d, cells) ==
  /\ t \in StoreType /\ t.buf = s.buf /\ t.freed = s.freed
  /\ Len(t.mem) = Len(s.mem)
  /\ t.mem[d] = cells /\ \A e \in 1 .. Len(s.mem) : e # d => t.mem[e] = s.mem[e]

LEMMA ReplaceMemory ==
  ASSUME NEW s \in StoreType, NEW d \in 1 .. Len(s.mem), NEW cells \in Seq(Nat)
  PROVE  OnlyMemory(s, [s EXCEPT !.mem[d] = cells], d, cells)
<1> DEFINE t == [s EXCEPT !.mem[d] = cells]
           m == s.mem
           w == [m EXCEPT ![d] = cells]
<1>1. t.buf = s.buf /\ t.freed = s.freed /\ t.mem = w
  BY DEF StoreType
<1>2. m \in Seq(Seq(Nat))
  BY StoreFields
<1> HIDE DEF m
<1>3. w \in Seq(Seq(Nat)) /\ Len(w) = Len(m) /\ w[d] = cells /\ \A e \in 1 .. Len(m) : e # d => w[e] = m[e]
  BY <1>2 DEF m
<1> HIDE DEF w
<1>4. t \in StoreType
  <2>1. t = [s EXCEPT !.mem = w]
    BY DEF w, m
  <2> HIDE DEF t
  <2> QED
    BY <1>3, <2>1 DEF StoreType
<1> HIDE DEF t
<1>5. OnlyMemory(s, t, d, cells)
  BY <1>1, <1>3, <1>4 DEF OnlyMemory, m
<1> QED
  BY <1>5 DEF t

(* Elements of the memory. *)
LEMMA MemoryCells ==
  ASSUME NEW s, Laid(s)
  PROVE  /\ s \in StoreType /\ Len(s.mem) \in Nat /\ InlineSize \in Nat /\ NBuffers \in Nat
         /\ \A d \in 1 .. Len(s.mem) : s.mem[d] \in Seq(Nat) /\ Len(s.mem[d]) \in Nat
         /\ \A d \in 1 .. Len(s.mem) : \A i \in 1 .. Len(s.mem[d]) : s.mem[d][i] \in Nat
         /\ \A b \in Buffers : b \in Nat /\ b \in 1 .. Len(s.mem) /\ Len(s.mem[b]) = InlineSize /\ b \notin BlocksOf(s)
         /\ \A p \in BlocksOf(s) : p \in Nat /\ p \in 1 .. Len(s.mem) /\ p \notin Buffers
<1>1. s \in StoreType /\ InlineSize \in Nat /\ NBuffers \in Nat
  BY BufferAssumption DEF Laid
<1> DEFINE m == s.mem
<1>2. m \in Seq(Seq(Nat)) /\ Len(m) \in Nat
  BY <1>1, StoreFields
<1>3. NBuffers <= Len(m) /\ \A b \in Buffers : Len(m[b]) = InlineSize
  BY DEF Laid
<1> HIDE DEF m
<1>4. \A d \in 1 .. Len(m) : m[d] \in Seq(Nat) /\ Len(m[d]) \in Nat
  BY <1>2
<1>5. \A w \in Seq(Nat) : \A i \in 1 .. Len(w) : w[i] \in Nat
  OBVIOUS
<1>6. \A d \in 1 .. Len(m) : \A i \in 1 .. Len(m[d]) : m[d][i] \in Nat
  BY <1>4, <1>5
<1>7. \A b \in Buffers : b \in Nat /\ b \in 1 .. Len(m) /\ b \notin NBuffers + 1 .. Len(m)
  BY <1>1, <1>2, <1>3 DEF Buffers
<1>8. \A p \in NBuffers + 1 .. Len(m) : p \in Nat /\ p \in 1 .. Len(m) /\ p \notin Buffers
  BY <1>1, <1>2, <1>3 DEF Buffers
<1> QED
  BY <1>1, <1>2, <1>3, <1>4, <1>6, <1>7, <1>8 DEF BlocksOf, m

(* Moving an array copies it. *)
LEMMA MoveArray ==
  ASSUME NEW s, Laid(s), NEW b \in Buffers, NEW other \in Buffers, b # other,
         s.buf[other].data = other, s.buf[other].size <= s.buf[other].capacity
  PROVE  \E u, v :
           /\ OnlyMemory(s, u, b, [i \in 1 .. InlineSize |-> IF i <= s.buf[other].size THEN s.mem[other][i] ELSE s.mem[b][i]])
           /\ OnlyBuffer(u, v, b, BasicBuffer(b, s.buf[b].size, s.buf[other].capacity))
           /\ OnlyBuffer(v, move(s, b, other), b, BasicBuffer(b, s.buf[other].size, s.buf[other].capacity))
<1> DEFINE o == s.buf[other]
           copied == [i \in 1 .. InlineSize |-> IF i <= s.buf[other].size THEN s.mem[other][i] ELSE s.mem[b][i]]
           u == [s EXCEPT !.mem[b] = copied]
           v == set(u, b, b, o.capacity)
<1>1. /\ s \in StoreType /\ InlineSize \in Nat /\ b \in Nat /\ b \in 1 .. Len(s.mem)
      /\ \A i \in 1 .. InlineSize : s.mem[b][i] \in Nat /\ s.mem[other][i] \in Nat
  BY MemoryCells
<1>2. o.size \in Nat /\ o.capacity \in Nat
  BY <1>1, StoreFields
<1>3. copied \in Seq(Nat)
  BY <1>1
<1>4. move(s, b, other) = resize(v, b, o.size)
  BY DEF move
<1> HIDE DEF copied
<1>5. OnlyMemory(s, u, b, copied)
  BY <1>1, <1>3, ReplaceMemory, Zenon
<1> HIDE DEF u
<1>6. u \in StoreType /\ u.buf = s.buf
  BY <1>5 DEF OnlyMemory
<1>7. OnlyBuffer(u, v, b, BasicBuffer(b, u.buf[b].size, o.capacity))
  BY <1>1, <1>2, <1>6, SetStore, Zenon
<1> HIDE DEF v
<1>8. v \in StoreType /\ v.buf[b].data = b /\ v.buf[b].capacity = o.capacity
  BY <1>7 DEF OnlyBuffer, BasicBuffer
<1>9. OnlyBuffer(v, resize(v, b, o.size), b, BasicBuffer(v.buf[b].data, o.size, v.buf[b].capacity))
  BY <1>2, <1>8, ResizeWithin
<1> QED
  BY <1>4, <1>5, <1>6, <1>7, <1>8, <1>9 DEF copied

(* Moving a block hands it over and leaves an empty array. *)
LEMMA MoveBlock ==
  ASSUME NEW s \in StoreType, NEW b \in Buffers, NEW other \in Buffers, b # other,
         s.buf[other].data # other, s.buf[other].size <= s.buf[other].capacity
  PROVE  \E u, v :
           /\ OnlyBuffer(s, u, b, BasicBuffer(s.buf[other].data, s.buf[b].size, s.buf[other].capacity))
           /\ OnlyBuffer(u, v, other, BasicBuffer(other, s.buf[other].size, 0))
           /\ OnlyBuffer(v, move(s, b, other), b, BasicBuffer(s.buf[other].data, s.buf[other].size, s.buf[other].capacity))
<1> DEFINE o == s.buf[other]
           u == set(s, b, o.data, o.capacity)
           v == set(u, other, other, 0)
<1>1. o.size \in Nat /\ o.capacity \in Nat /\ o.data \in Nat /\ other \in Nat /\ 0 \in Nat
  BY StoreFields, BufferAssumption DEF Buffers
<1>2. move(s, b, other) = resize(v, b, o.size)
  BY DEF move
<1>3. OnlyBuffer(s, u, b, BasicBuffer(o.data, s.buf[b].size, o.capacity))
  BY <1>1, SetStore, Zenon
<1> HIDE DEF u
<1>4. u \in StoreType /\ u.buf[other] = o /\ u.buf[b] = BasicBuffer(o.data, s.buf[b].size, o.capacity)
  BY <1>3 DEF OnlyBuffer
<1>5. OnlyBuffer(u, v, other, BasicBuffer(other, u.buf[other].size, 0))
  BY <1>1, <1>4, SetStore, Zenon
<1> HIDE DEF v
<1>6. v \in StoreType /\ v.buf[b].data = o.data /\ v.buf[b].capacity = o.capacity
  BY <1>4, <1>5 DEF OnlyBuffer, BasicBuffer
<1>7. OnlyBuffer(v, resize(v, b, o.size), b, BasicBuffer(v.buf[b].data, o.size, v.buf[b].capacity))
  BY <1>1, <1>6, ResizeWithin
<1> QED
  BY <1>2, <1>3, <1>4, <1>5, <1>6, <1>7

(* A block has one user: whoever points to it is the same. *)
LEMMA BlockUser ==
  ASSUME NEW s, NEW st, Laid(s), Placed(s, st), NEW c \in Buffers, st[c] # "gone", s.buf[c].data # c
  PROVE  /\ st[c] = "live" /\ s.buf[c].data \in BlocksOf(s) /\ s.buf[c].data \notin Buffers
         /\ ~IsFreed(s, s.buf[c].data)
         /\ \A d \in Buffers : st[d] # "gone" /\ s.buf[d].data = s.buf[c].data => d = c
<1>1. /\ st[c] = "live" /\ s.buf[c].data \in BlocksOf(s) /\ ~IsFreed(s, s.buf[c].data)
      /\ \A d \in Buffers : st[d] # "gone" /\ s.buf[d].data = s.buf[c].data => d = c
  BY DEF Placed
<1> QED
  BY <1>1, MemoryCells

(***************************************************************************)
(* The constructor from a buffer, and the second half of an assignment: b  *)
(* has no block to lose when it takes over that of the other buffer.       *)
(***************************************************************************)
LEMMA MoveKeeps ==
  ASSUME NEW s, NEW st \in StatusType, NEW ct \in [Buffers -> Seq(Nat)],
         NEW b \in Buffers, NEW other \in Buffers, b # other,
         Good(s, st, ct), st[b] = "gone", st[other] = "live"
  PROVE  Good(move(s, b, other), [st EXCEPT ![b] = "live", ![other] = "moved"], [ct EXCEPT ![b] = ct[other]])
<1> DEFINE t == move(s, b, other)
           stt == [st EXCEPT ![b] = "live", ![other] = "moved"]
           ctt == [ct EXCEPT ![b] = ct[other]]
           o == s.buf[other]
<1>1. /\ Laid(s) /\ Placed(s, st) /\ NoLeak(s, st) /\ s \in StoreType
      /\ \A c \in Buffers : st[c] = "live" => Holds(s, c, ct[c])
  BY DEF Good, Laid
<1>2. /\ stt[b] = "live" /\ stt[other] = "moved" /\ \A c \in Buffers : c # b /\ c # other => stt[c] = st[c]
      /\ ctt[b] = ct[other] /\ \A c \in Buffers : c # b => ctt[c] = ct[c]
  BY DEF StatusType
<1>3. o.size \in Nat /\ o.capacity \in Nat /\ o.data \in Nat /\ InlineSize \in Nat /\ b \in Nat
  BY <1>1, MemoryCells, StoreFields
<1>4. /\ o.size <= o.capacity /\ o.capacity <= Len(s.mem[o.data]) /\ (o.data = other => o.capacity = InlineSize)
      /\ Len(ct[other]) = o.size /\ \A i \in 1 .. o.size : s.mem[o.data][i] = ct[other][i]
  BY <1>1 DEF Holds
<1> HIDE DEF stt, ctt
<1>5. CASE o.data = other
  <2> DEFINE copied == [i \in 1 .. InlineSize |-> IF i <= s.buf[other].size THEN s.mem[other][i] ELSE s.mem[b][i]]
  <2>1. PICK u, v : /\ OnlyMemory(s, u, b, copied)
                    /\ OnlyBuffer(u, v, b, BasicBuffer(b, s.buf[b].size, s.buf[other].capacity))
                    /\ OnlyBuffer(v, t, b, BasicBuffer(b, s.buf[other].size, s.buf[other].capacity))
    BY <1>1, <1>4, <1>5, MoveArray
  <2> HIDE DEF t, copied
  <2>2. /\ t \in StoreType /\ t.freed = s.freed /\ Len(t.mem) = Len(s.mem)
        /\ t.mem[b] = copied /\ \A e \in 1 .. Len(s.mem) : e # b => t.mem[e] = s.mem[e]
        /\ t.buf[b] = BasicBuffer(b, o.size, o.capacity) /\ \A c \in Buffers : c # b => t.buf[c] = s.buf[c]
    BY <2>1 DEF OnlyMemory, OnlyBuffer
  <2>3. t.buf[b].data = b /\ t.buf[b].size = o.size /\ t.buf[b].capacity = o.capacity
    BY <2>2 DEF BasicBuffer
  <2>4. Len(copied) = InlineSize /\ \A i \in 1 .. o.size : copied[i] = ct[other][i]
    <3>1. Len(copied) = InlineSize
      BY <1>3 DEF copied
    <3>2. \A i \in 1 .. o.size : i \in 1 .. InlineSize /\ i <= o.size
      BY <1>3, <1>4, <1>5
    <3>3. \A i \in 1 .. InlineSize : i <= o.size => copied[i] = s.mem[other][i]
      BY DEF copied
    <3> QED
      BY <1>4, <1>5, <3>1, <3>2, <3>3
  <2>5. BlocksOf(t) = BlocksOf(s) /\ \A x : IsFreed(t, x) <=> IsFreed(s, x)
    BY <2>2, Zenon DEF BlocksOf, IsFreed
  <2>6. Laid(t)
    <3>1. \A c \in Buffers : c \in 1 .. Len(s.mem) /\ Len(s.mem[c]) = InlineSize
      BY <1>1, MemoryCells
    <3>2. \A c \in Buffers : Len(t.mem[c]) = InlineSize
      BY <2>2, <2>4, <3>1
    <3> QED
      BY <1>1, <2>2, <2>5, <3>2 DEF Laid
  <2>7. Placed(t, stt)
    <3> SUFFICES ASSUME NEW c \in Buffers, stt[c] # "gone", t.buf[c].data # c
                 PROVE  /\ stt[c] = "live" /\ t.buf[c].data \in BlocksOf(t) /\ ~IsFreed(t, t.buf[c].data)
                        /\ \A d \in Buffers : stt[d] # "gone" /\ t.buf[d].data = t.buf[c].data => d = c
      BY DEF Placed
    <3>1. c # b /\ c # other /\ stt[c] = st[c] /\ t.buf[c] = s.buf[c]
      BY <1>2, <1>5, <2>2, <2>3
    <3>2. /\ st[c] = "live" /\ s.buf[c].data \in BlocksOf(s) /\ s.buf[c].data \notin Buffers
          /\ ~IsFreed(s, s.buf[c].data)
          /\ \A d \in Buffers : st[d] # "gone" /\ s.buf[d].data = s.buf[c].data => d = c
      BY <1>1, <3>1, BlockUser
    <3>3. ASSUME NEW d \in Buffers, stt[d] # "gone", t.buf[d].data = t.buf[c].data PROVE d = c
      <4>1. d # b /\ d # other
        BY <1>5, <2>2, <2>3, <3>1, <3>2, <3>3
      <4> QED
        BY <1>2, <2>2, <3>1, <3>2, <3>3, <4>1
    <3> QED
      BY <2>5, <3>1, <3>2, <3>3
  <2>8. NoLeak(t, stt)
    <3> SUFFICES ASSUME NEW q \in BlocksOf(s), ~IsFreed(s, q) PROVE InUse(t, stt, q)
      BY <2>5 DEF NoLeak
    <3>1. PICK c \in Buffers : st[c] # "gone" /\ s.buf[c].data = q
      BY <1>1 DEF NoLeak, InUse
    <3>2. c # b /\ stt[c] # "gone" /\ t.buf[c] = s.buf[c]
      BY <1>2, <2>2, <3>1
    <3> QED
      BY <3>1, <3>2 DEF InUse
  <2>9. ASSUME NEW c \in Buffers, stt[c] = "live" PROVE Holds(t, c, ctt[c])
    <3>1. CASE c = b
      <4>1. /\ o.size <= o.capacity /\ o.capacity = InlineSize /\ Len(t.mem[b]) = InlineSize
            /\ Len(ctt[b]) = o.size /\ \A i \in 1 .. o.size : t.mem[b][i] = ctt[b][i]
        BY <1>2, <1>4, <1>5, <2>2, <2>4
      <4> QED
        <5>1. /\ t.buf[b].size <= t.buf[b].capacity /\ t.buf[b].capacity <= Len(t.mem[t.buf[b].data])
              /\ (t.buf[b].data = b => t.buf[b].capacity = InlineSize)
              /\ Len(ctt[b]) = t.buf[b].size
              /\ \A i \in 1 .. t.buf[b].size : t.mem[t.buf[b].data][i] = ctt[b][i]
          <6>1. InlineSize \in Nat /\ o.capacity <= Len(t.mem[b])
            BY <1>3, <4>1
          <6> QED
            BY <2>3, <4>1, <6>1, Zenon
        <5> QED
          BY <3>1, <5>1, Zenon DEF Holds
    <3>2. CASE c # b
      <4>1. st[c] = "live" /\ c # other /\ t.buf[c] = s.buf[c] /\ ctt[c] = ct[c]
        BY <1>2, <2>2, <2>9, <3>2
      <4>2. Holds(s, c, ct[c])
        BY <1>1, <4>1
      <4>3. s.buf[c].data # b /\ s.buf[c].data \in 1 .. Len(s.mem)
        <5>1. CASE s.buf[c].data = c
          BY <1>1, <3>2, <5>1, MemoryCells
        <5>2. CASE s.buf[c].data # c
          <6>1. s.buf[c].data \in BlocksOf(s)
            BY <1>1, <4>1, <5>2, BlockUser
          <6> QED
            BY <1>1, <6>1, MemoryCells
        <5> QED
          BY <5>1, <5>2
      <4>4. t.mem[s.buf[c].data] = s.mem[s.buf[c].data]
        BY <2>2, <4>3
      <4> QED
        BY <4>1, <4>2, <4>4 DEF Holds
    <3> QED
      BY <3>1, <3>2
  <2>10. Good(t, stt, ctt)
    BY <2>6, <2>7, <2>8, <2>9 DEF Good
  <2> QED
    BY <2>10 DEF t, stt, ctt
<1>6. CASE o.data # other
  <2>1. PICK u, v : /\ OnlyBuffer(s, u, b, BasicBuffer(s.buf[other].data, s.buf[b].size, s.buf[other].capacity))
                    /\ OnlyBuffer(u, v, other, BasicBuffer(other, s.buf[other].size, 0))
                    /\ OnlyBuffer(v, t, b, BasicBuffer(s.buf[other].data, s.buf[other].size, s.buf[other].capacity))
    BY <1>1, <1>4, <1>6, MoveBlock
  <2> HIDE DEF t
  <2>2. /\ t \in StoreType /\ t.freed = s.freed /\ t.mem = s.mem
        /\ t.buf[b] = BasicBuffer(o.data, o.size, o.capacity) /\ t.buf[other] = BasicBuffer(other, o.size, 0)
        /\ \A c \in Buffers : c # b /\ c # other => t.buf[c] = s.buf[c]
    BY <2>1 DEF OnlyBuffer
  <2>3. /\ t.buf[b].data = o.data /\ t.buf[b].size = o.size /\ t.buf[b].capacity = o.capacity
        /\ t.buf[other].data = other
    BY <2>2 DEF BasicBuffer
  <2>4. /\ o.data \in BlocksOf(s) /\ o.data \notin Buffers /\ ~IsFreed(s, o.data)
        /\ \A d \in Buffers : st[d] # "gone" /\ s.buf[d].data = o.data => d = other
    BY <1>1, <1>6, BlockUser
  <2>5. BlocksOf(t) = BlocksOf(s) /\ \A x : IsFreed(t, x) <=> IsFreed(s, x)
    BY <2>2, Zenon DEF BlocksOf, IsFreed
  <2>6. Laid(t)
    BY <1>1, <2>2, <2>5 DEF Laid
  <2>7. Placed(t, stt)
    <3> SUFFICES ASSUME NEW c \in Buffers, stt[c] # "gone", t.buf[c].data # c
                 PROVE  /\ stt[c] = "live" /\ t.buf[c].data \in BlocksOf(t) /\ ~IsFreed(t, t.buf[c].data)
                        /\ \A d \in Buffers : stt[d] # "gone" /\ t.buf[d].data = t.buf[c].data => d = c
      BY DEF Placed
    <3>1. c # other
      BY <2>3
    <3>2. CASE c = b
      <4>1. ASSUME NEW d \in Buffers, stt[d] # "gone", t.buf[d].data = o.data PROVE d = b
        <5>1. d # other
          BY <2>3, <2>4, <4>1
        <5> QED
          BY <1>2, <2>2, <2>4, <4>1, <5>1
      <4> QED
        BY <1>2, <2>3, <2>4, <2>5, <3>2, <4>1
    <3>3. CASE c # b
      <4>1. stt[c] = st[c] /\ t.buf[c] = s.buf[c]
        BY <1>2, <2>2, <3>1, <3>3
      <4>2. /\ st[c] = "live" /\ s.buf[c].data \in BlocksOf(s) /\ s.buf[c].data \notin Buffers
            /\ ~IsFreed(s, s.buf[c].data)
            /\ \A d \in Buffers : st[d] # "gone" /\ s.buf[d].data = s.buf[c].data => d = c
        BY <1>1, <4>1, BlockUser
      <4>3. ASSUME NEW d \in Buffers, stt[d] # "gone", t.buf[d].data = t.buf[c].data PROVE d = c
        <5>1. d # other
          BY <2>3, <4>1, <4>2, <4>3
        <5>2. d # b
          BY <2>3, <3>1, <4>1, <4>2, <4>3
        <5> QED
          BY <1>2, <2>2, <4>1, <4>2, <4>3, <5>1, <5>2
      <4> QED
        BY <2>5, <4>1, <4>2, <4>3
    <3> QED
      BY <3>2, <3>3
  <2>8. NoLeak(t, stt)
    <3> SUFFICES ASSUME NEW q \in BlocksOf(s), ~IsFreed(s, q) PROVE InUse(t, stt, q)
      BY <2>5 DEF NoLeak
    <3>1. PICK c \in Buffers : st[c] # "gone" /\ s.buf[c].data = q
      BY <1>1 DEF NoLeak, InUse
    <3>2. CASE c = other
      BY <1>2, <2>3, <3>1, <3>2 DEF InUse
    <3>3. CASE c # other
      <4>1. c # b /\ stt[c] # "gone" /\ t.buf[c] = s.buf[c]
        BY <1>2, <2>2, <3>1, <3>3
      <4> QED
        BY <3>1, <4>1 DEF InUse
    <3> QED
      BY <3>2, <3>3
  <2>9. ASSUME NEW c \in Buffers, stt[c] = "live" PROVE Holds(t, c, ctt[c])
    <3>1. CASE c = b
      <4>1. t.buf[b].data # b
        BY <2>3, <2>4
      <4> QED
        BY <1>2, <1>3, <1>4, <2>2, <2>3, <3>1, <4>1 DEF Holds
    <3>2. CASE c # b
      <4>1. st[c] = "live" /\ t.buf[c] = s.buf[c] /\ ctt[c] = ct[c]
        BY <1>2, <2>2, <2>9, <3>2
      <4>2. Holds(s, c, ct[c])
        BY <1>1, <4>1
      <4> QED
        BY <2>2, <4>1, <4>2 DEF Holds
    <3> QED
      BY <3>1, <3>2
  <2>10. Good(t, stt, ctt)
    BY <2>6, <2>7, <2>8, <2>9 DEF Good
  <2> QED
    BY <2>10 DEF t, stt, ctt
<1> QED
  BY <1>5, <1>6

(* What grow changes: a new block with the old content, and the old block is freed. *)
LEMMA GrowStore ==
  ASSUME NEW s, Laid(s), NEW b \in Buffers, NEW n \in Nat, n > s.buf[b].capacity,
         s.buf[b].size <= s.buf[b].capacity, s.buf[b].data \in 1 .. Len(s.mem),
         s.buf[b].capacity <= Len(s.mem[s.buf[b].data])
  PROVE  \E block \in Seq(Nat) :
           LET t == grow(s, b, n) IN
           /\ t \in StoreType /\ t.mem = Append(s.mem, block)
           /\ n <= Len(block) /\ \A i \in 1 .. s.buf[b].size : block[i] = s.mem[s.buf[b].data][i]
           /\ t.buf[b].data = Len(s.mem) + 1 /\ t.buf[b].size = s.buf[b].size /\ t.buf[b].capacity = Len(block)
           /\ \A c \in Buffers : c # b => t.buf[c] = s.buf[c]
           /\ t.freed = IF s.buf[b].data = b THEN s.freed ELSE Append(s.freed, s.buf[b].data)
<1> DEFINE old == s.buf[b]
           more == old.capacity + old.capacity \div 2
           capacity == IF n > more THEN n ELSE more
           block == [i \in 1 .. capacity |-> IF i <= old.size THEN s.mem[old.data][i] ELSE Unwritten]
           m == Append(s.mem, block)
           u == [s EXCEPT !.mem = m]
           v == set(u, b, Len(m), capacity)
           t == grow(s, b, n)
<1>1. /\ s \in StoreType /\ s.mem \in Seq(Seq(Nat)) /\ Len(s.mem) \in Nat /\ s.freed \in Seq(Nat)
      /\ old.size \in Nat /\ old.capacity \in Nat /\ old.data \in Nat
  BY MemoryCells, StoreFields
<1>2. capacity \in Nat /\ n <= capacity /\ old.capacity < capacity
  <2>1. \A x \in Nat : x + x \div 2 \in Nat
    OBVIOUS
  <2>2. more \in Nat
    BY <1>1, <2>1
  <2> HIDE DEF more
  <2> QED
    BY <1>1, <2>2
<1>3. \A i \in 1 .. Len(s.mem[old.data]) : s.mem[old.data][i] \in Nat
  BY MemoryCells
<1>4. Len(s.mem[old.data]) \in Nat
  BY MemoryCells
<1>5. t = Free(v, b, old.data)
  <2>1. u = [s EXCEPT !.mem = Append(@, block)]
    OBVIOUS
  <2>2. u.mem = m
    BY <1>1 DEF StoreType
  <2> QED
    BY <2>1, <2>2 DEF grow
<1> HIDE DEF t, capacity
<1>6. \A i \in 1 .. capacity : i <= old.size => s.mem[old.data][i] \in Nat
  <2> DEFINE len == Len(s.mem[old.data])
  <2>1. old.size \in Nat /\ old.capacity \in Nat /\ old.size <= old.capacity /\ old.capacity <= len /\ len \in Nat
    BY <1>1, <1>4, Zenon
  <2> HIDE DEF len, old
  <2>2. \A i \in 1 .. capacity : i <= old.size => i \in 1 .. len
    BY <1>2, <2>1
  <2> QED
    BY <1>3, <2>2 DEF len
<1>7. block \in Seq(Nat) /\ Len(block) = capacity
  BY <1>2, <1>6 DEF Unwritten
<1>8. \A i \in 1 .. old.size : block[i] = s.mem[old.data][i]
  <2>1. \A i \in 1 .. old.size : i \in 1 .. capacity /\ i <= old.size
    BY <1>1, <1>2
  <2> QED
    BY <2>1
<1> HIDE DEF block
<1>9. m \in Seq(Seq(Nat)) /\ Len(m) = Len(s.mem) + 1
  BY <1>1, <1>7
<1> HIDE DEF m
<1>10. u \in StoreType /\ u.mem = m /\ u.buf = s.buf /\ u.freed = s.freed
  <2>1. u.mem = m /\ u.buf = s.buf /\ u.freed = s.freed
    BY <1>1 DEF StoreType
  <2>2. u \in StoreType
    BY <1>1, <1>9 DEF StoreType
  <2> QED
    BY <2>1, <2>2
<1> HIDE DEF u
<1>11. Len(m) \in Nat
  BY <1>1, <1>9
<1>12. OnlyBuffer(u, v, b, BasicBuffer(Len(m), u.buf[b].size, capacity))
  BY <1>2, <1>10, <1>11, SetStore, Zenon
<1> HIDE DEF v
<1>13. /\ v \in StoreType /\ v.mem = m /\ v.freed = s.freed
       /\ v.buf[b].data = Len(m) /\ v.buf[b].size = old.size /\ v.buf[b].capacity = capacity
       /\ \A c \in Buffers : c # b => v.buf[c] = s.buf[c]
  BY <1>10, <1>12 DEF OnlyBuffer, BasicBuffer
<1>14. t \in StoreType /\ t.mem = v.mem /\ t.buf = v.buf
       /\ t.freed = IF old.data = b THEN s.freed ELSE Append(s.freed, old.data)
  <2>1. CASE old.data = b
    BY <1>5, <1>13, <2>1 DEF Free
  <2>2. CASE old.data # b
    <3>1. t = [v EXCEPT !.freed = Append(v.freed, old.data)]
      BY <1>5, <2>2 DEF Free
    <3>2. Append(v.freed, old.data) \in Seq(Nat)
      BY <1>1, <1>13
    <3> QED
      BY <1>13, <2>2, <3>1, <3>2 DEF StoreType
  <2> QED
    BY <2>1, <2>2
<1>15. /\ t \in StoreType /\ t.mem = Append(s.mem, block)
       /\ n <= Len(block) /\ \A i \in 1 .. s.buf[b].size : block[i] = s.mem[s.buf[b].data][i]
       /\ t.buf[b].data = Len(s.mem) + 1 /\ t.buf[b].size = s.buf[b].size /\ t.buf[b].capacity = Len(block)
       /\ \A c \in Buffers : c # b => t.buf[c] = s.buf[c]
       /\ t.freed = IF s.buf[b].data = b THEN s.freed ELSE Append(s.freed, s.buf[b].data)
  BY <1>2, <1>7, <1>8, <1>9, <1>13, <1>14 DEF m
<1> QED
  BY <1>7, <1>15, Zenon DEF t

(* A live buffer points into the memory. *)
LEMMA LiveData ==
  ASSUME NEW s, NEW st, NEW ct, Good(s, st, ct), NEW b \in Buffers, st[b] = "live"
  PROVE  /\ Laid(s) /\ Placed(s, st) /\ NoLeak(s, st) /\ s \in StoreType /\ Holds(s, b, ct[b])
         /\ s.buf[b].data \in 1 .. Len(s.mem) /\ Len(s.mem) \in Nat
         /\ s.buf[b].data \in Nat /\ s.buf[b].size \in Nat /\ s.buf[b].capacity \in Nat
<1>1. Laid(s) /\ Placed(s, st) /\ NoLeak(s, st) /\ Holds(s, b, ct[b])
  BY DEF Good
<1>2. s \in StoreType /\ Len(s.mem) \in Nat /\ b \in 1 .. Len(s.mem) /\ \A p \in BlocksOf(s) : p \in 1 .. Len(s.mem)
  BY <1>1, MemoryCells
<1>3. s.buf[b].data = b \/ s.buf[b].data \in BlocksOf(s)
  BY <1>1, BlockUser
<1> QED
  BY <1>1, <1>2, <1>3, StoreFields

(* A buffer that grows keeps what it holds, and no other buffer is touched. *)
LEMMA GrowKeeps ==
  ASSUME NEW s, NEW st \in StatusType, NEW ct, NEW b \in Buffers, Good(s, st, ct), st[b] = "live",
         NEW n \in Nat, n > s.buf[b].capacity
  PROVE  /\ Good(grow(s, b, n), st, ct)
         /\ grow(s, b, n).buf[b].size = s.buf[b].size /\ n <= grow(s, b, n).buf[b].capacity
<1> DEFINE t == grow(s, b, n)
           old == s.buf[b]
           new == Len(s.mem) + 1
<1>1. /\ Laid(s) /\ Placed(s, st) /\ NoLeak(s, st) /\ s \in StoreType /\ Holds(s, b, ct[b])
      /\ old.data \in 1 .. Len(s.mem) /\ Len(s.mem) \in Nat
      /\ old.data \in Nat /\ old.size \in Nat /\ old.capacity \in Nat
  BY LiveData
<1>2. /\ old.size <= old.capacity /\ old.capacity <= Len(s.mem[old.data]) /\ Len(ct[b]) = old.size
      /\ \A i \in 1 .. old.size : s.mem[old.data][i] = ct[b][i]
  BY <1>1 DEF Holds
<1>3. PICK block \in Seq(Nat) :
        /\ t \in StoreType /\ t.mem = Append(s.mem, block)
        /\ n <= Len(block) /\ \A i \in 1 .. s.buf[b].size : block[i] = s.mem[s.buf[b].data][i]
        /\ t.buf[b].data = Len(s.mem) + 1 /\ t.buf[b].size = s.buf[b].size /\ t.buf[b].capacity = Len(block)
        /\ \A c \in Buffers : c # b => t.buf[c] = s.buf[c]
        /\ t.freed = IF s.buf[b].data = b THEN s.freed ELSE Append(s.freed, s.buf[b].data)
  <2>1. /\ Laid(s) /\ n > s.buf[b].capacity /\ s.buf[b].size <= s.buf[b].capacity
        /\ s.buf[b].data \in 1 .. Len(s.mem) /\ s.buf[b].capacity <= Len(s.mem[s.buf[b].data])
    BY <1>1, <1>2
  <2> HIDE DEF old, new
  <2> QED
    BY <2>1, GrowStore, SMTT(30)
<1> HIDE DEF t
<1>4. s.mem \in Seq(Seq(Nat)) /\ s.freed \in Seq(Nat) /\ Len(s.freed) \in Nat
  BY <1>1, StoreFields
<1>5. /\ Len(t.mem) = new /\ t.mem[new] = block /\ \A d \in 1 .. Len(s.mem) : t.mem[d] = s.mem[d]
  BY <1>3, <1>4
<1>6. \A x \in BlocksOf(s) : x \in BlocksOf(t) /\ x # new /\ x \notin Buffers /\ x \in 1 .. Len(s.mem)
  <2>1. NBuffers \in Nat
    BY BufferAssumption
  <2> QED
    BY <1>1, <1>5, <2>1 DEF BlocksOf, Buffers
<1>7. /\ new \in BlocksOf(t) /\ \A c \in Buffers : c # new /\ c \in 1 .. Len(s.mem)
      /\ \A x \in BlocksOf(t) : x = new \/ x \in BlocksOf(s)
  <2>1. NBuffers \in Nat /\ NBuffers <= Len(s.mem)
    BY <1>1, BufferAssumption DEF Laid
  <2> QED
    BY <1>1, <1>5, <2>1 DEF BlocksOf, Buffers
<1>8. \A x : IsFreed(t, x) <=> IsFreed(s, x) \/ (x = old.data /\ old.data # b)
  <2>1. CASE old.data = b
    BY <1>3, <2>1, Zenon DEF IsFreed
  <2>2. CASE old.data # b
    <3>1. t.freed = Append(s.freed, old.data)
      BY <1>3, <2>2
    <3>2. /\ Len(t.freed) = Len(s.freed) + 1 /\ t.freed[Len(s.freed) + 1] = old.data
          /\ \A i \in 1 .. Len(s.freed) : t.freed[i] = s.freed[i]
      BY <1>1, <1>4, <3>1
    <3>3. \A i \in 1 .. Len(t.freed) : i = Len(s.freed) + 1 \/ i \in 1 .. Len(s.freed)
      BY <1>4, <3>2
    <3>4. \A i \in 1 .. Len(s.freed) : i \in 1 .. Len(t.freed)
      BY <1>4, <3>2
    <3>5. Len(s.freed) + 1 \in 1 .. Len(t.freed)
      BY <1>4, <3>2
    <3> QED
      BY <2>2, <3>2, <3>3, <3>4, <3>5, Zenon DEF IsFreed
  <2> QED
    BY <2>1, <2>2
<1>9. Laid(t)
  <2>1. NBuffers <= Len(t.mem) /\ \A c \in Buffers : Len(t.mem[c]) = InlineSize
    <3>1. NBuffers <= Len(s.mem) /\ NBuffers \in Nat /\ \A c \in Buffers : Len(s.mem[c]) = InlineSize
      BY <1>1, BufferAssumption DEF Laid
    <3>2. NBuffers <= Len(t.mem)
      BY <1>1, <1>5, <3>1
    <3>3. \A c \in Buffers : t.mem[c] = s.mem[c]
      BY <1>5, <1>7, Zenon
    <3> QED
      BY <3>1, <3>2, <3>3, Zenon
  <2>2. CASE old.data = b
    BY <1>1, <1>3, <1>6, <2>1, <2>2 DEF Laid
  <2>3. CASE old.data # b
    <3>1. t.freed = Append(s.freed, old.data)
      BY <1>3, <2>3
    <3>2. /\ Len(t.freed) = Len(s.freed) + 1 /\ t.freed[Len(s.freed) + 1] = old.data
          /\ \A i \in 1 .. Len(s.freed) : t.freed[i] = s.freed[i]
      BY <1>1, <1>4, <3>1
    <3>3. \A i \in 1 .. Len(t.freed) : i = Len(s.freed) + 1 \/ i \in 1 .. Len(s.freed)
      BY <1>4, <3>2
    <3>4. old.data \in BlocksOf(s) /\ ~IsFreed(s, old.data)
      BY <1>1, <2>3, BlockUser
    <3>5. \A i \in 1 .. Len(t.freed) : t.freed[i] \in BlocksOf(t)
      BY <1>1, <1>6, <3>2, <3>3, <3>4 DEF Laid
    <3>6. \A i \in 1 .. Len(s.freed) : t.freed[i] # old.data
      BY <3>2, <3>4 DEF IsFreed
    <3>7. \A i, j \in 1 .. Len(t.freed) : t.freed[i] = t.freed[j] => i = j
      BY <1>1, <3>2, <3>3, <3>6 DEF Laid
    <3> QED
      BY <1>3, <2>1, <3>5, <3>7 DEF Laid
  <2> QED
    BY <2>2, <2>3
<1>10. Placed(t, st)
  <2> SUFFICES ASSUME NEW c \in Buffers, st[c] # "gone", t.buf[c].data # c
               PROVE  /\ st[c] = "live" /\ t.buf[c].data \in BlocksOf(t) /\ ~IsFreed(t, t.buf[c].data)
                      /\ \A d \in Buffers : st[d] # "gone" /\ t.buf[d].data = t.buf[c].data => d = c
    BY DEF Placed
  <2>1. \A d \in Buffers : d # b /\ st[d] # "gone" => t.buf[d].data # new
    <3> SUFFICES ASSUME NEW d \in Buffers, d # b, st[d] # "gone" PROVE t.buf[d].data # new
      OBVIOUS
    <3>1. t.buf[d] = s.buf[d]
      BY <1>3, Zenon
    <3>2. s.buf[d].data = d \/ s.buf[d].data \in BlocksOf(s)
      BY <1>1, BlockUser, Zenon
    <3>3. d # new /\ \A x \in BlocksOf(s) : x # new
      BY <1>6, <1>7, Zenon
    <3> QED
      BY <3>1, <3>2, <3>3, Zenon
  <2>2. CASE c = b
    <3>1. ~IsFreed(s, new)
      BY <1>1, <1>6 DEF IsFreed, Laid
    <3>2. new # old.data
      BY <1>1
    <3> QED
      BY <1>3, <1>7, <1>8, <2>1, <2>2, <3>1, <3>2
  <2>3. CASE c # b
    <3>1. t.buf[c] = s.buf[c]
      BY <1>3, <2>3
    <3>2. /\ st[c] = "live" /\ s.buf[c].data \in BlocksOf(s) /\ s.buf[c].data \notin Buffers
          /\ ~IsFreed(s, s.buf[c].data)
          /\ \A d \in Buffers : st[d] # "gone" /\ s.buf[d].data = s.buf[c].data => d = c
      BY <1>1, <3>1, BlockUser
    <3>3. s.buf[c].data # old.data /\ s.buf[c].data # new
      BY <1>6, <2>3, <3>2
    <3>4. ASSUME NEW d \in Buffers, st[d] # "gone", t.buf[d].data = t.buf[c].data PROVE d = c
      <4>1. d # b
        BY <1>3, <3>1, <3>3, <3>4
      <4> QED
        BY <1>3, <3>1, <3>2, <3>4, <4>1
    <3> QED
      BY <1>6, <1>8, <3>1, <3>2, <3>3, <3>4
  <2> QED
    BY <2>2, <2>3
<1>11. NoLeak(t, st)
  <2> SUFFICES ASSUME NEW q \in BlocksOf(t), ~IsFreed(t, q) PROVE InUse(t, st, q)
    BY DEF NoLeak
  <2>1. CASE q = new
    BY <1>3, <2>1 DEF InUse
  <2>2. CASE q # new
    <3>1. q \in BlocksOf(s) /\ ~IsFreed(s, q)
      BY <1>7, <1>8, <2>2
    <3>2. PICK c \in Buffers : st[c] # "gone" /\ s.buf[c].data = q
      BY <1>1, <3>1 DEF NoLeak, InUse
    <3>3. c # b
      BY <1>6, <1>8, <3>1, <3>2
    <3> QED
      BY <1>3, <3>2, <3>3 DEF InUse
  <2> QED
    BY <2>1, <2>2
<1>12. ASSUME NEW c \in Buffers, st[c] = "live" PROVE Holds(t, c, ct[c])
  <2>1. CASE c = b
    <3>1. Len(block) \in Nat /\ old.size <= Len(block) /\ new # b
      <4>1. Len(block) \in Nat
        BY <1>3
      <4>2. new # b
        BY <1>7, Zenon
      <4>3. n <= Len(block)
        BY <1>3, Zenon
      <4>4. old.size <= old.capacity /\ old.size \in Nat /\ old.capacity \in Nat /\ n > old.capacity
        BY <1>1, <1>2, Zenon
      <4> HIDE DEF old
      <4>5. old.size <= Len(block)
        BY <4>1, <4>3, <4>4
      <4> QED
        BY <4>1, <4>2, <4>5
    <3>2. t.mem[t.buf[b].data] = block /\ t.buf[b].capacity = Len(block) /\ t.buf[b].size = old.size /\ t.buf[b].data # b
      BY <1>3, <1>5, <3>1
    <3>3. \A i \in 1 .. old.size : block[i] = ct[b][i]
      BY <1>2, <1>3
    <3> QED
      BY <1>2, <2>1, <3>1, <3>2, <3>3 DEF Holds
  <2>2. CASE c # b
    <3>1. Holds(s, c, ct[c]) /\ s.buf[c].data \in 1 .. Len(s.mem)
      BY <1>12, LiveData
    <3>2. t.buf[c] = s.buf[c] /\ t.mem[s.buf[c].data] = s.mem[s.buf[c].data]
      BY <1>3, <1>5, <2>2, <3>1
    <3> QED
      BY <3>1, <3>2 DEF Holds
  <2> QED
    BY <2>1, <2>2
<1>13. Good(t, st, ct)
  BY <1>9, <1>10, <1>11, <1>12 DEF Good
<1>14. t.buf[b].size = s.buf[b].size /\ n <= t.buf[b].capacity
  BY <1>3
<1> QED
  BY <1>13, <1>14 DEF t

(* Two buffers do not share memory. *)
LEMMA Apart ==
  ASSUME NEW s, NEW st, Laid(s), Placed(s, st), NEW b \in Buffers, NEW c \in Buffers, b # c,
         st[b] # "gone", st[c] # "gone"
  PROVE  s.buf[b].data # s.buf[c].data
<1>1. CASE s.buf[b].data # b
  BY <1>1, BlockUser
<1>2. CASE s.buf[c].data # c
  BY <1>2, BlockUser
<1> QED
  BY <1>1, <1>2

(* Who owns a block depends on the pointers only. *)
LEMMA SamePointers ==
  ASSUME NEW s, NEW st, NEW t \in StoreType, Laid(s), Placed(s, st), NoLeak(s, st),
         t.freed = s.freed, Len(t.mem) = Len(s.mem), \A c \in Buffers : Len(t.mem[c]) = Len(s.mem[c]),
         \A c \in Buffers : t.buf[c].data = s.buf[c].data
  PROVE  Laid(t) /\ Placed(t, st) /\ NoLeak(t, st)
<1>1. BlocksOf(t) = BlocksOf(s) /\ \A x : IsFreed(t, x) <=> IsFreed(s, x)
  BY Zenon DEF BlocksOf, IsFreed
<1>2. Laid(t)
  BY <1>1 DEF Laid
<1>3. Placed(t, st)
  BY <1>1 DEF Placed
<1>4. NoLeak(t, st)
  BY <1>1 DEF NoLeak, InUse
<1> QED
  BY <1>2, <1>3, <1>4

(* The characters are copied behind those that the buffer holds. *)
Filled(s, b, chars) ==
  LET size == s.buf[b].size
      data == s.buf[b].data
      copied == [i \in 1 .. Len(s.mem[data]) |->
                   IF i \in size + 1 .. size + Len(chars) THEN chars[i - size] ELSE s.mem[data][i]]
  IN [s EXCEPT !.mem[data] = copied, !.buf[b].size = size + Len(chars)]

LEMMA FillKeeps ==
  ASSUME NEW s, NEW st \in StatusType, NEW ct \in [Buffers -> Seq(Nat)], NEW b \in Buffers,
         Good(s, st, ct), st[b] = "live", NEW chars \in Seq(Nat),
         s.buf[b].size + Len(chars) <= s.buf[b].capacity
  PROVE  Good(Filled(s, b, chars), st, [ct EXCEPT ![b] = @ \o chars])
<1> DEFINE size == s.buf[b].size
           capacity == s.buf[b].capacity
           d == s.buf[b].data
           old == s.mem[d]
           copied == [i \in 1 .. Len(old) |-> IF i \in size + 1 .. size + Len(chars) THEN chars[i - size] ELSE old[i]]
           u == [s EXCEPT !.mem[d] = copied]
           t == [u EXCEPT !.buf[b].size = size + Len(chars)]
           ctt == [ct EXCEPT ![b] = @ \o chars]
<1>1. /\ Laid(s) /\ Placed(s, st) /\ NoLeak(s, st) /\ s \in StoreType /\ Holds(s, b, ct[b])
      /\ d \in 1 .. Len(s.mem) /\ Len(s.mem) \in Nat
      /\ d \in Nat /\ size \in Nat /\ capacity \in Nat
  BY LiveData
<1>2. /\ size <= capacity /\ capacity <= Len(old) /\ (d = b => capacity = InlineSize) /\ Len(ct[b]) = size
      /\ \A i \in 1 .. size : old[i] = ct[b][i]
  BY <1>1 DEF Holds
<1>3. old \in Seq(Nat) /\ Len(old) \in Nat
  BY <1>1, MemoryCells
<1>4. Len(chars) \in Nat /\ ct[b] \in Seq(Nat) /\ size + Len(chars) \in Nat /\ size + Len(chars) <= capacity
  <2>1. Len(chars) \in Nat
    OBVIOUS
  <2>2. ct[b] \in Seq(Nat)
    OBVIOUS
  <2>3. size + Len(chars) <= capacity
    OBVIOUS
  <2> HIDE DEF size, capacity
  <2> QED
    BY <1>1, <2>1, <2>2, <2>3
<1>5. Filled(s, b, chars) = t
  BY DEF Filled
<1>6. /\ ctt[b] = ct[b] \o chars /\ \A c \in Buffers : c # b => ctt[c] = ct[c]
  OBVIOUS
<1> HIDE DEF ctt, old, size, capacity, d
<1>7. copied \in Seq(Nat) /\ Len(copied) = Len(old)
  <2>1. ASSUME NEW i \in 1 .. Len(old)
        PROVE  (IF i \in size + 1 .. size + Len(chars) THEN chars[i - size] ELSE old[i]) \in Nat
    <3>1. CASE i \in size + 1 .. size + Len(chars)
      <4>1. i - size \in 1 .. Len(chars)
        BY <1>1, <1>4, <3>1
      <4>2. chars[i - size] \in Nat
        BY <4>1
      <4> QED
        BY <3>1, <4>2, Zenon
    <3>2. CASE i \notin size + 1 .. size + Len(chars)
      BY <1>3, <3>2
    <3> QED
      BY <3>1, <3>2
  <2> QED
    BY <1>3, <2>1
<1>8. \A i \in 1 .. size : i \in 1 .. Len(old) /\ copied[i] = old[i]
  BY <1>1, <1>2, <1>3, <1>4
<1>9. \A i \in size + 1 .. size + Len(chars) : i \in 1 .. Len(old) /\ copied[i] = chars[i - size]
  BY <1>1, <1>2, <1>3, <1>4
<1> HIDE DEF copied
<1>10. OnlyMemory(s, u, d, copied)
  BY <1>1, <1>7, ReplaceMemory
<1> HIDE DEF u
<1>11. u \in StoreType /\ u.buf = s.buf
  BY <1>10 DEF OnlyMemory
<1>12. OnlyBuffer(u, t, b, BasicBuffer(d, size + Len(chars), capacity))
  BY <1>4, <1>11, SizeStore DEF d, capacity
<1> HIDE DEF t
<1>13. /\ t \in StoreType /\ t.freed = s.freed /\ Len(t.mem) = Len(s.mem) /\ t.mem[d] = copied
       /\ \A e \in 1 .. Len(s.mem) : e # d => t.mem[e] = s.mem[e]
       /\ t.buf[b] = BasicBuffer(d, size + Len(chars), capacity) /\ \A c \in Buffers : c # b => t.buf[c] = s.buf[c]
  BY <1>10, <1>12, Zenon DEF OnlyMemory, OnlyBuffer
<1>14. t.buf[b].data = d /\ t.buf[b].size = size + Len(chars) /\ t.buf[b].capacity = capacity
  BY <1>13 DEF BasicBuffer
<1>15. Laid(t) /\ Placed(t, st) /\ NoLeak(t, st)
  <2>1. \A c \in Buffers : t.buf[c].data = s.buf[c].data
    BY <1>13, <1>14, Zenon DEF d
  <2>2. \A c \in Buffers : c \in 1 .. Len(s.mem)
    BY <1>1, MemoryCells
  <2>3. \A c \in Buffers : Len(t.mem[c]) = Len(s.mem[c])
    BY <1>7, <1>13, <2>2, Zenon DEF old
  <2> QED
    BY <1>1, <1>13, <2>1, <2>3, SamePointers, Zenon
<1>16. ASSUME NEW c \in Buffers, st[c] = "live" PROVE Holds(t, c, ctt[c])
  <2>1. CASE c = b
    <3>1. Len(ctt[b]) = size + Len(chars) /\ \A i \in 1 .. size : ctt[b][i] = ct[b][i]
      <4>1. ct[b] \in Seq(Nat) /\ Len(ct[b]) = size /\ ctt[b] = ct[b] \o chars
        BY <1>2, <1>4, <1>6, Zenon
      <4>2. Len(ct[b] \o chars) = Len(ct[b]) + Len(chars) /\ \A i \in 1 .. Len(ct[b]) : (ct[b] \o chars)[i] = ct[b][i]
        BY <4>1, Joined, Zenon
      <4> QED
        BY <4>1, <4>2, Zenon
    <3>2. \A i \in size + 1 .. size + Len(chars) : ctt[b][i] = chars[i - size]
      <4>1. ct[b] \in Seq(Nat) /\ Len(ct[b]) = size /\ ctt[b] = ct[b] \o chars
        BY <1>2, <1>4, <1>6, Zenon
      <4>2. \A i \in Len(ct[b]) + 1 .. Len(ct[b]) + Len(chars) : (ct[b] \o chars)[i] = chars[i - Len(ct[b])]
        BY <4>1, Joined, Zenon
      <4> QED
        BY <4>1, <4>2, Zenon
    <3>3. \A i \in 1 .. size + Len(chars) : i \in 1 .. size \/ i \in size + 1 .. size + Len(chars)
      BY <1>1, <1>4
    <3>4. \A i \in 1 .. size + Len(chars) : copied[i] = ctt[b][i]
      <4> SUFFICES ASSUME NEW i \in 1 .. size + Len(chars) PROVE copied[i] = ctt[b][i]
        OBVIOUS
      <4>1. CASE i \in 1 .. size
        BY <1>2, <1>8, <3>1, <4>1, Zenon
      <4>2. CASE i \in size + 1 .. size + Len(chars)
        BY <1>9, <3>2, <4>2, Zenon
      <4> QED
        BY <3>3, <4>1, <4>2, Zenon
    <3>5. /\ t.buf[b].size <= t.buf[b].capacity /\ t.buf[b].capacity <= Len(t.mem[t.buf[b].data])
          /\ (t.buf[b].data = b => t.buf[b].capacity = InlineSize)
          /\ Len(ctt[b]) = t.buf[b].size /\ \A i \in 1 .. t.buf[b].size : t.mem[t.buf[b].data][i] = ctt[b][i]
      BY <1>2, <1>4, <1>7, <1>13, <1>14, <3>1, <3>4, Zenon
    <3> QED
      BY <2>1, <3>5, Zenon DEF Holds
  <2>2. CASE c # b
    <3>1. Holds(s, c, ct[c]) /\ s.buf[c].data \in 1 .. Len(s.mem)
      BY <1>16, LiveData, Zenon
    <3>2. s.buf[c].data # d
      BY <1>1, <1>16, <2>2, Apart DEF d
    <3>3. t.buf[c] = s.buf[c] /\ t.mem[s.buf[c].data] = s.mem[s.buf[c].data] /\ ctt[c] = ct[c]
      BY <1>6, <1>13, <2>2, <3>1, <3>2, Zenon
    <3> QED
      BY <3>1, <3>3 DEF Holds
  <2> QED
    BY <2>1, <2>2
<1>17. Good(t, st, ctt)
  BY <1>15, <1>16, Zenon DEF Good
<1> QED
  BY <1>5, <1>17 DEF ctt

(* What append does: a buffer that is too small grows first. *)
LEMMA AppendKeeps ==
  ASSUME NEW s, NEW st \in StatusType, NEW ct \in [Buffers -> Seq(Nat)], NEW b \in Buffers,
         Good(s, st, ct), st[b] = "live", NEW chars \in Seq(Nat)
  PROVE  Good(append(s, b, chars), st, [ct EXCEPT ![b] = @ \o chars])
<1> DEFINE n == s.buf[b].size + Len(chars)
           r == reserve(s, b, n)
<1>1. s.buf[b].size \in Nat /\ s.buf[b].capacity \in Nat /\ Len(chars) \in Nat /\ n \in Nat
  BY LiveData
<1>2. Good(r, st, ct) /\ r.buf[b].size = s.buf[b].size /\ n <= r.buf[b].capacity
  <2>1. CASE n > s.buf[b].capacity
    <3>1. r = grow(s, b, n)
      BY <2>1 DEF reserve
    <3> HIDE DEF n, r
    <3> QED
      BY <1>1, <2>1, <3>1, GrowKeeps
  <2>2. CASE ~ (n > s.buf[b].capacity)
    <3>1. r = s
      BY <2>2 DEF reserve
    <3>2. n <= s.buf[b].capacity
      BY <1>1, <2>2
    <3> QED
      BY <3>1, <3>2
  <2> QED
    BY <2>1, <2>2
<1>3. append(s, b, chars) = Filled(r, b, chars)
  BY <1>2 DEF append, Filled
<1>4. r.buf[b].size + Len(chars) <= r.buf[b].capacity
  BY <1>2
<1> HIDE DEF r, n
<1>5. Good(Filled(r, b, chars), st, [ct EXCEPT ![b] = @ \o chars])
  BY <1>2, <1>4, FillKeeps
<1> QED
  BY <1>3, <1>5

LEMMA ClearKeeps ==
  ASSUME NEW s, NEW st \in StatusType, NEW ct \in [Buffers -> Seq(Nat)], NEW b \in Buffers,
         Good(s, st, ct), st[b] = "live"
  PROVE  Good(clear(s, b), st, [ct EXCEPT ![b] = <<>>])
<1> DEFINE t == clear(s, b)
           d == s.buf[b].data
           capacity == s.buf[b].capacity
           ctt == [ct EXCEPT ![b] = <<>>]
<1>1. /\ Laid(s) /\ Placed(s, st) /\ NoLeak(s, st) /\ s \in StoreType /\ Holds(s, b, ct[b])
      /\ d \in Nat /\ capacity \in Nat
  BY LiveData
<1>2. capacity <= Len(s.mem[d]) /\ (d = b => capacity = InlineSize)
  BY <1>1 DEF Holds
<1>3. OnlyBuffer(s, t, b, BasicBuffer(d, 0, capacity))
  BY <1>1, SizeStore DEF clear
<1>4. ctt[b] = <<>> /\ \A c \in Buffers : c # b => ctt[c] = ct[c]
  OBVIOUS
<1> HIDE DEF t, d, capacity, ctt
<1>5. /\ t \in StoreType /\ t.freed = s.freed /\ t.mem = s.mem
      /\ t.buf[b].data = d /\ t.buf[b].size = 0 /\ t.buf[b].capacity = capacity
      /\ \A c \in Buffers : c # b => t.buf[c] = s.buf[c]
  BY <1>3 DEF OnlyBuffer, BasicBuffer
<1>6. \A c \in Buffers : t.buf[c].data = s.buf[c].data
  BY <1>5, Zenon DEF d
<1>7. Laid(t) /\ Placed(t, st) /\ NoLeak(t, st)
  BY <1>1, <1>5, <1>6, SamePointers, Zenon
<1>8. ASSUME NEW c \in Buffers, st[c] = "live" PROVE Holds(t, c, ctt[c])
  <2>1. CASE c = b
    BY <1>1, <1>2, <1>4, <1>5, <2>1 DEF Holds
  <2>2. CASE c # b
    <3>1. Holds(s, c, ct[c]) /\ t.buf[c] = s.buf[c] /\ ctt[c] = ct[c]
      BY <1>4, <1>5, <1>8, <2>2, LiveData, Zenon
    <3> QED
      BY <1>5, <3>1 DEF Holds
  <2> QED
    BY <2>1, <2>2
<1>9. Good(t, st, ctt)
  BY <1>7, <1>8, Zenon DEF Good
<1> QED
  BY <1>9 DEF t, ctt

(* What a buffer that does not exist yet contains does not matter. *)
LEMMA ResetKeeps ==
  ASSUME NEW s, NEW st \in StatusType, NEW ct, NEW b \in Buffers, NEW r \in BufferRecord,
         Good(s, st, ct), st[b] = "gone"
  PROVE  Good([s EXCEPT !.buf[b] = r], st, ct) /\ OnlyBuffer(s, [s EXCEPT !.buf[b] = r], b, r)
<1> DEFINE t == [s EXCEPT !.buf[b] = r]
<1>1. /\ Laid(s) /\ Placed(s, st) /\ NoLeak(s, st) /\ s \in StoreType
      /\ \A c \in Buffers : st[c] = "live" => Holds(s, c, ct[c])
  BY DEF Good, Laid
<1>2. OnlyBuffer(s, t, b, r)
  BY <1>1, ReplaceBuffer
<1> HIDE DEF t
<1>3. t \in StoreType /\ t.freed = s.freed /\ t.mem = s.mem /\ \A c \in Buffers : st[c] # "gone" => t.buf[c] = s.buf[c]
  BY <1>2 DEF OnlyBuffer
<1>4. BlocksOf(t) = BlocksOf(s) /\ \A x : IsFreed(t, x) <=> IsFreed(s, x)
  BY <1>3, Zenon DEF BlocksOf, IsFreed
<1>5. Laid(t)
  BY <1>1, <1>3, <1>4 DEF Laid
<1>6. Placed(t, st)
  BY <1>1, <1>3, <1>4 DEF Placed
<1>7. NoLeak(t, st)
  BY <1>1, <1>3, <1>4 DEF NoLeak, InUse
<1>8. \A c \in Buffers : st[c] = "live" => Holds(t, c, ct[c])
  <2> SUFFICES ASSUME NEW c \in Buffers, st[c] = "live" PROVE Holds(t, c, ct[c])
    OBVIOUS
  <2>1. Holds(s, c, ct[c]) /\ t.buf[c] = s.buf[c] /\ t.mem = s.mem
    BY <1>1, <1>3
  <2> QED
    BY <2>1, Zenon DEF Holds
<1>9. Good(t, st, ct)
  BY <1>5, <1>6, <1>7, <1>8 DEF Good
<1> QED
  BY <1>2, <1>9 DEF t

LEMMA ConstructKeeps ==
  ASSUME NEW s, NEW st \in StatusType, NEW ct \in [Buffers -> Seq(Nat)], NEW b \in Buffers,
         Good(s, st, ct), st[b] = "gone"
  PROVE  Good(Construct(s, b), [st EXCEPT ![b] = "live"], [ct EXCEPT ![b] = <<>>])
<1> DEFINE t == Construct(s, b)
           stt == [st EXCEPT ![b] = "live"]
           ctt == [ct EXCEPT ![b] = <<>>]
<1>1. NBuffers \in Nat /\ InlineSize \in Nat /\ b \in Nat
  BY BufferAssumption DEF Buffers
<1>2. NewBuffer(b) \in BufferRecord
  BY <1>1 DEF NewBuffer, BasicBuffer, BufferRecord
<1>3. t = [s EXCEPT !.buf[b] = NewBuffer(b)]
  BY DEF Construct
<1> HIDE DEF t
<1>4. Good(t, st, ct) /\ OnlyBuffer(s, t, b, NewBuffer(b))
  BY <1>2, <1>3, ResetKeeps
<1>5. t.buf[b].data = b /\ t.buf[b].size = 0 /\ t.buf[b].capacity = InlineSize
  BY <1>4 DEF OnlyBuffer, NewBuffer, BasicBuffer
<1>6. Laid(t) /\ Placed(t, st) /\ NoLeak(t, st) /\ \A c \in Buffers : st[c] = "live" => Holds(t, c, ct[c])
  BY <1>4 DEF Good
<1>7. stt[b] = "live" /\ \A c \in Buffers : c # b => stt[c] = st[c]
  BY DEF StatusType
<1>8. ctt[b] = <<>> /\ \A c \in Buffers : c # b => ctt[c] = ct[c]
  OBVIOUS
<1> HIDE DEF stt, ctt
<1>9. Placed(t, stt)
  <2> SUFFICES ASSUME NEW c \in Buffers, stt[c] # "gone", t.buf[c].data # c
               PROVE  /\ stt[c] = "live" /\ t.buf[c].data \in BlocksOf(t) /\ ~IsFreed(t, t.buf[c].data)
                      /\ \A d \in Buffers : stt[d] # "gone" /\ t.buf[d].data = t.buf[c].data => d = c
    BY DEF Placed
  <2>1. c # b /\ st[c] # "gone" /\ stt[c] = st[c]
    BY <1>5, <1>7, Zenon
  <2>2. /\ st[c] = "live" /\ t.buf[c].data \in BlocksOf(t) /\ t.buf[c].data \notin Buffers
        /\ ~IsFreed(t, t.buf[c].data)
        /\ \A d \in Buffers : st[d] # "gone" /\ t.buf[d].data = t.buf[c].data => d = c
    BY <1>6, <2>1, BlockUser
  <2>3. t.buf[c].data # b
    BY <2>2
  <2>4. ASSUME NEW d \in Buffers, stt[d] # "gone", t.buf[d].data = t.buf[c].data PROVE d = c
    <3>1. d # b
      BY <1>5, <2>3, <2>4, Zenon
    <3> QED
      BY <1>7, <2>2, <2>4, <3>1, Zenon
  <2> QED
    BY <2>1, <2>2, <2>4, Zenon
<1>10. NoLeak(t, stt)
  BY <1>6, <1>7 DEF NoLeak, InUse
<1>11. ASSUME NEW c \in Buffers, stt[c] = "live" PROVE Holds(t, c, ctt[c])
  <2>1. CASE c = b
    <3>1. Len(t.mem[b]) = InlineSize
      BY <1>6 DEF Laid
    <3> QED
      BY <1>1, <1>5, <1>8, <2>1, <3>1 DEF Holds
  <2>2. CASE c # b
    BY <1>6, <1>7, <1>8, <1>11, <2>2, Zenon
  <2> QED
    BY <2>1, <2>2
<1>12. Good(t, stt, ctt)
  BY <1>6, <1>9, <1>10, <1>11, Zenon DEF Good
<1> QED
  BY <1>12 DEF t, stt, ctt

LEMMA BufferInitial == BufferInit => BufferInv
<1> SUFFICES ASSUME BufferInit PROVE BufferInv
  OBVIOUS
<1> DEFINE m == store.mem
<1>1. InlineSize \in Nat /\ NBuffers \in Nat /\ \A b \in Buffers : b \in Nat
  BY BufferAssumption DEF Buffers
<1>2. /\ status = [b \in Buffers |-> "live"] /\ content = [b \in Buffers |-> <<>>] /\ written = 0
      /\ store = [buf |-> [b \in Buffers |-> NewBuffer(b)], mem |-> [b \in Buffers |-> Cells(InlineSize)], freed |-> <<>>]
  BY DEF BufferInit, NewStore
<1>3. /\ status \in StatusType /\ content \in [Buffers -> Seq(Nat)] /\ written \in Nat
      /\ \A b \in Buffers : status[b] = "live" /\ content[b] = <<>>
  BY <1>2 DEF StatusType
<1>4. /\ store.freed = <<>> /\ m = [b \in 1 .. NBuffers |-> Cells(InlineSize)]
      /\ store.buf = [b \in Buffers |-> NewBuffer(b)]
  BY <1>2 DEF Buffers
<1>5. Cells(InlineSize) \in Seq(Nat) /\ Len(Cells(InlineSize)) = InlineSize
  BY <1>1 DEF Cells, Unwritten
<1>6. m \in Seq(Seq(Nat)) /\ Len(m) = NBuffers /\ \A b \in Buffers : m[b] = Cells(InlineSize)
  BY <1>1, <1>4, <1>5 DEF Buffers
<1>7. store.buf \in [Buffers -> BufferRecord]
  BY <1>1, <1>4 DEF NewBuffer, BasicBuffer, BufferRecord
<1>8. store \in StoreType
  BY <1>2, <1>4, <1>6, <1>7 DEF StoreType
<1>9. \A b \in Buffers : store.buf[b].data = b /\ store.buf[b].size = 0 /\ store.buf[b].capacity = InlineSize
  BY <1>4 DEF NewBuffer, BasicBuffer
<1>10. Len(store.freed) = 0 /\ BlocksOf(store) = {}
  BY <1>1, <1>4, <1>6 DEF BlocksOf
<1> HIDE DEF m
<1>11. Laid(store)
  BY <1>1, <1>5, <1>6, <1>8, <1>10 DEF Laid, m
<1>12. Placed(store, status)
  BY <1>9 DEF Placed
<1>13. NoLeak(store, status)
  BY <1>10 DEF NoLeak
<1>14. \A b \in Buffers : Holds(store, b, content[b])
  <2> SUFFICES ASSUME NEW b \in Buffers PROVE Holds(store, b, content[b])
    OBVIOUS
  <2>1. /\ store.buf[b].data = b /\ store.buf[b].size = 0 /\ store.buf[b].capacity = InlineSize
        /\ content[b] = <<>> /\ Len(store.mem[b]) = InlineSize
    BY <1>3, <1>5, <1>6, <1>9, Zenon DEF m
  <2> QED
    BY <1>1, <2>1 DEF Holds
<1> QED
  BY <1>3, <1>11, <1>12, <1>13, <1>14 DEF BufferInv, Good

LEMMA BufferStep == BufferInv /\ [BufferNext]_bufferVars => BufferInv'
<1> SUFFICES ASSUME BufferInv, [BufferNext]_bufferVars PROVE BufferInv'
  OBVIOUS
<1>1. /\ status \in StatusType /\ content \in [Buffers -> Seq(Nat)] /\ written \in Nat
      /\ Good(store, status, content)
  BY DEF BufferInv
<1>2. SUFFICES /\ status' \in StatusType /\ content' \in [Buffers -> Seq(Nat)] /\ written' \in Nat
               /\ Good(store', status', content')
  BY DEF BufferInv, Good, Laid, Placed, NoLeak, Holds, BlocksOf, InUse, IsFreed, StoreType, StatusType, BufferRecord, Buffers
<1>3. CASE UNCHANGED bufferVars
  BY <1>1, <1>3 DEF bufferVars
<1>4. ASSUME NEW b \in Buffers, NEW n \in AppendSizes, AppendTo(b, n)
      PROVE  /\ status' \in StatusType /\ content' \in [Buffers -> Seq(Nat)] /\ written' \in Nat
             /\ Good(store', status', content')
  <2> DEFINE chars == [i \in 1 .. n |-> written + i]
  <2>1. n \in Nat
    BY BufferAssumption
  <2>2. chars \in Seq(Nat)
    BY <1>1, <2>1
  <2>3. /\ status[b] = "live" /\ store' = append(store, b, chars) /\ status' = status
        /\ content' = [content EXCEPT ![b] = @ \o chars] /\ written' = written + n
    BY <1>4 DEF AppendTo
  <2> HIDE DEF chars
  <2>4. content' \in [Buffers -> Seq(Nat)]
    BY <1>1, <2>2, <2>3
  <2>5. Good(append(store, b, chars), status, [content EXCEPT ![b] = @ \o chars])
    BY <1>1, <2>2, <2>3, AppendKeeps
  <2>6. written' \in Nat
    BY <1>1, <2>1, <2>3
  <2> QED
    BY <1>1, <2>3, <2>4, <2>5, <2>6
<1>5. ASSUME NEW b \in Buffers, Clear(b)
      PROVE  /\ status' \in StatusType /\ content' \in [Buffers -> Seq(Nat)] /\ written' \in Nat
             /\ Good(store', status', content')
  <2>1. /\ status[b] = "live" /\ store' = clear(store, b) /\ status' = status /\ written' = written
        /\ content' = [content EXCEPT ![b] = <<>>]
    BY <1>5 DEF Clear
  <2>2. Good(clear(store, b), status, [content EXCEPT ![b] = <<>>])
    BY <1>1, <2>1, ClearKeeps
  <2> QED
    BY <1>1, <2>1, <2>2
<1>6. ASSUME NEW b \in Buffers, ConstructEmpty(b)
      PROVE  /\ status' \in StatusType /\ content' \in [Buffers -> Seq(Nat)] /\ written' \in Nat
             /\ Good(store', status', content')
  <2>1. /\ status[b] = "gone" /\ store' = Construct(store, b) /\ status' = [status EXCEPT ![b] = "live"]
        /\ content' = [content EXCEPT ![b] = <<>>] /\ written' = written
    BY <1>6 DEF ConstructEmpty
  <2>2. Good(Construct(store, b), [status EXCEPT ![b] = "live"], [content EXCEPT ![b] = <<>>])
    BY <1>1, <2>1, ConstructKeeps
  <2>3. status' \in StatusType /\ content' \in [Buffers -> Seq(Nat)]
    BY <1>1, <2>1 DEF StatusType
  <2> QED
    BY <1>1, <2>1, <2>2, <2>3
<1>7. ASSUME NEW b \in Buffers, DestroyBuffer(b)
      PROVE  /\ status' \in StatusType /\ content' \in [Buffers -> Seq(Nat)] /\ written' \in Nat
             /\ Good(store', status', content')
  <2>1. /\ status[b] # "gone" /\ store' = deallocate(store, b) /\ status' = [status EXCEPT ![b] = "gone"]
        /\ content' = content /\ written' = written
    BY <1>7 DEF DestroyBuffer, Destroy
  <2>2. Good(deallocate(store, b), [status EXCEPT ![b] = "gone"], content)
    BY <1>1, <2>1, DestroyKeeps
  <2>3. status' \in StatusType
    BY <1>1, <2>1 DEF StatusType
  <2> QED
    BY <1>1, <2>1, <2>2, <2>3
<1>8. ASSUME NEW b \in Buffers, NEW other \in Buffers, TakeOver(b, other)
      PROVE  /\ status' = [status EXCEPT ![b] = "live", ![other] = "moved"] /\ status' \in StatusType
             /\ content' = [content EXCEPT ![b] = content[other]] /\ content' \in [Buffers -> Seq(Nat)]
             /\ written' \in Nat
  <2>1. /\ status' = [status EXCEPT ![b] = "live", ![other] = "moved"]
        /\ content' = [content EXCEPT ![b] = content[other]] /\ written' = written
    BY <1>8 DEF TakeOver
  <2>2. status' \in StatusType
    BY <1>1, <2>1 DEF StatusType
  <2> QED
    BY <1>1, <2>1, <2>2
<1>9. ASSUME NEW b \in Buffers, NEW other \in Buffers, AssignFrom(b, other)
      PROVE  /\ status' \in StatusType /\ content' \in [Buffers -> Seq(Nat)] /\ written' \in Nat
             /\ Good(store', status', content')
  <2> DEFINE freed == deallocate(store, b)
             without == [status EXCEPT ![b] = "gone"]
  <2>1. /\ b # other /\ status[b] # "gone" /\ status[other] = "live"
        /\ store' = move(freed, b, other) /\ TakeOver(b, other)
    BY <1>9 DEF AssignFrom, MoveAssign
  <2>2. Good(freed, without, content)
    BY <1>1, <2>1, DestroyKeeps
  <2>3. without \in StatusType /\ without[b] = "gone" /\ without[other] = "live"
    BY <1>1, <2>1 DEF StatusType
  <2>4. [without EXCEPT ![b] = "live", ![other] = "moved"] = [status EXCEPT ![b] = "live", ![other] = "moved"]
    BY <1>1, <2>1 DEF StatusType
  <2> HIDE DEF freed, without
  <2>5. Good(move(freed, b, other), [without EXCEPT ![b] = "live", ![other] = "moved"],
             [content EXCEPT ![b] = content[other]])
    BY <1>1, <2>1, <2>2, <2>3, MoveKeeps
  <2> QED
    BY <1>8, <2>1, <2>4, <2>5
<1>10. ASSUME NEW b \in Buffers, NEW other \in Buffers, ConstructFrom(b, other)
       PROVE  /\ status' \in StatusType /\ content' \in [Buffers -> Seq(Nat)] /\ written' \in Nat
              /\ Good(store', status', content')
  <2> DEFINE empty == BasicBuffer(b, 0, 0)
             reset == [store EXCEPT !.buf[b] = empty]
  <2>1. /\ b # other /\ status[b] = "gone" /\ status[other] = "live"
        /\ store' = move(reset, b, other) /\ TakeOver(b, other)
    BY <1>10 DEF ConstructFrom, MoveConstruct
  <2>2. empty \in BufferRecord
    BY BufferAssumption DEF BasicBuffer, BufferRecord, Buffers
  <2> HIDE DEF empty
  <2>3. Good(reset, status, content)
    BY <1>1, <2>1, <2>2, ResetKeeps
  <2> HIDE DEF reset
  <2>4. Good(move(reset, b, other), [status EXCEPT ![b] = "live", ![other] = "moved"],
             [content EXCEPT ![b] = content[other]])
    BY <1>1, <2>1, <2>3, MoveKeeps
  <2> QED
    BY <1>8, <2>1, <2>4
<1>11. CASE BufferNext
  BY <1>4, <1>5, <1>6, <1>7, <1>9, <1>10, <1>11, Zenon DEF BufferNext
<1> QED
  BY <1>3, <1>11

(***************************************************************************)
(* However many buffers there are, of whatever inline size, and in         *)
(* whatever order they are filled, cleared, moved and destroyed, a buffer  *)
(* holds what was put into it, and each block is freed once, when nobody   *)
(* uses it.                                                                *)
(***************************************************************************)
THEOREM BufferKeepsHolds == BufferSpec => []BufferKeeps
<1>1. BufferInv => BufferKeeps
  <2> SUFFICES ASSUME BufferInv PROVE BufferKeeps
    OBVIOUS
  <2>1. /\ Laid(store) /\ Placed(store, status) /\ NoLeak(store, status)
        /\ content \in [Buffers -> Seq(Nat)] /\ Good(store, status, content)
    BY DEF BufferInv, Good
  <2>2. ASSUME NEW b \in Buffers, status[b] = "live"
        PROVE  LET x == store.buf[b] IN
               /\ x.size <= x.capacity /\ x.capacity <= Len(store.mem[x.data])
               /\ SubSeq(store.mem[x.data], 1, x.size) = content[b]
    <3> DEFINE x == store.buf[b]
               cells == store.mem[x.data]
               held == content[b]
    <3>1. Holds(store, b, content[b]) /\ x.data \in 1 .. Len(store.mem) /\ x.size \in Nat /\ x.capacity \in Nat
      BY <2>1, <2>2, LiveData
    <3>2. cells \in Seq(Nat) /\ held \in Seq(Nat)
      BY <2>1, <3>1, MemoryCells
    <3>3. x.size <= x.capacity /\ x.capacity <= Len(cells) /\ Len(held) = x.size /\ \A i \in 1 .. x.size : cells[i] = held[i]
      BY <3>1 DEF Holds
    <3> HIDE DEF cells, held, x
    <3>4. x.size <= Len(cells)
      BY <3>1, <3>2, <3>3
    <3>5. SubSeq(cells, 1, x.size) = held
      BY <3>1, <3>2, <3>3, <3>4
    <3> QED
      BY <3>3, <3>5 DEF cells, held, x
  <2>3. ASSUME NEW p \in Blocks
        PROVE  \/ Frees(p) = {} /\ \E b \in Buffers : Owners(p) = {b}
               \/ Owners(p) = {} /\ \E i \in 1 .. Len(store.freed) : Frees(p) = {i}
    <3>1. p \in BlocksOf(store) /\ p \notin Buffers
      BY <2>1, MemoryCells DEF Blocks, BlocksOf
    <3>2. CASE InUse(store, status, p)
      <4>1. PICK b \in Buffers : status[b] # "gone" /\ store.buf[b].data = p
        BY <3>2 DEF InUse
      <4>2. store.buf[b].data # b
        BY <3>1, <4>1
      <4>3. /\ ~IsFreed(store, p)
            /\ \A d \in Buffers : status[d] # "gone" /\ store.buf[d].data = p => d = b
        BY <2>1, <4>1, <4>2, BlockUser
      <4>4. Frees(p) = {}
        BY <4>3 DEF Frees, IsFreed
      <4>5. Owners(p) = {b}
        BY <4>1, <4>3 DEF Owners
      <4> QED
        BY <4>4, <4>5
    <3>3. CASE ~InUse(store, status, p)
      <4>1. Owners(p) = {}
        BY <3>3 DEF Owners, InUse
      <4>2. IsFreed(store, p)
        BY <2>1, <3>1, <3>3 DEF NoLeak
      <4>3. PICK i \in 1 .. Len(store.freed) : store.freed[i] = p
        BY <4>2 DEF IsFreed
      <4>4. Frees(p) = {i}
        BY <2>1, <4>3 DEF Frees, Laid
      <4> QED
        BY <4>1, <4>3, <4>4
    <3> QED
      BY <3>2, <3>3
  <2> QED
    BY <2>2, <2>3 DEF BufferKeeps
<1> QED
  BY <1>1, BufferInitial, BufferStep, PTL DEF BufferSpec
-----------------------------------------------------------------------------
(***************************************************************************)
(* RpcStubs                                                                *)
(*                                                                         *)
(* The inductive invariant: a stream is well-formed, and complete where    *)
(* this library writes it; so a reader that is at the start of a message   *)
(* finds one, and one that is inside finds fields and the stop.  Between   *)
(* two ends of this library only the last call is under way, and the last  *)
(* token of a stream belongs to it or to its answer.                       *)
(***************************************************************************)
(* The tokens of a stream. *)
HeadTokens == [token : {"message"}, name : PeerNames \cup Method, type : TMessageType, seqid : Nat]
Tokens == HeadTokens \cup FieldTokens \cup {Stop}

(* A head begins a stream or comes after a stop, and nowhere else; and a stream may be complete. *)
WellFormed(s) ==
  /\ s \in Seq(Tokens)
  /\ s # <<>> => s[1].token = "message"
  /\ \A i \in 1 .. Len(s) - 1 : s[i].token = "stop" <=> s[i + 1].token = "message"

Complete(s) == s = <<>> \/ s[Len(s)].token = "stop"

(* Where a reader may be: before a message, in the message with its head, or at its end. *)
Before(s, at) == at \in 1 .. Len(s) + 1 /\ (at = 1 \/ s[at - 1].token = "stop")
Inside(s, head, at) ==
  /\ at \in 1 .. Len(s) + 1 /\ head \in 1 .. at - 1
  /\ s[head].token = "message" /\ \A i \in head + 1 .. at - 1 : s[i].token = "field"
Behind(s, head, at) ==
  /\ at \in 1 .. Len(s) + 1 /\ head \in 1 .. at - 2
  /\ s[head].token = "message" /\ s[at - 1].token = "stop" /\ \A i \in head + 1 .. at - 2 : s[i].token = "field"

(* The longer stream begins with the other one. *)
Continues(s, u) == Len(s) <= Len(u) /\ \A i \in 1 .. Len(s) : u[i] = s[i]

(* The longer stream is the other one and a message. *)
Follows(s, u, head, fields) ==
  /\ WellFormed(u) /\ Complete(u) /\ Continues(s, u)
  /\ Len(u) = Len(s) + Len(fields) + 2
  /\ u[Len(s) + 1] = head
  /\ \A i \in 1 .. Len(fields) : u[Len(s) + 1 + i] = fields[i]
  /\ \A i \in Len(s) + 2 .. Len(u) : u[i].token # "message"

StructOf(decl) == [value : [DOMAIN decl -> Values], isset : SUBSET DOMAIN decl]

Streams ==
  /\ peer \in Peers /\ WellFormed(request) /\ WellFormed(reply)
  /\ peer # "client" => Complete(request)
  /\ peer # "server" => Complete(reply)

(* The server has read the tokens of a call and nothing else. *)
ServerReads ==
  /\ server.phase \in {"head", "args", "skip", "handler", "unknown"}
  /\ server.phase = "head" => Before(request, server.at)
  /\ server.phase \in {"args", "skip"} => Inside(request, server.head, server.at)
  /\ server.phase \in {"handler", "unknown"} => Behind(request, server.head, server.at)
  /\ server.phase \in {"args", "handler"} =>
       /\ Called.name \in Method /\ server.args \in StructOf(ArgsOf(Called.name))
       /\ IsRead(ArgsOf(Called.name), server.args, request, server.head + 1, server.at - 1)
  /\ server.phase \in {"skip", "unknown"} => Called.name \notin Method

(* The calls that were answered lie behind the server. *)
Logged ==
  /\ log \in Seq([call : Nat, answer : Nat, got : {"returned", "exception"}, value : Values])
  /\ \A k \in 1 .. Len(log) :
       /\ log[k].call \in 1 .. server.at - 1 /\ (server.phase # "head" => log[k].call < server.head)
       /\ log[k].answer \in 1 .. Len(reply) /\ IsAnswered(k)
  /\ \A j, k \in 1 .. Len(log) : j < k => log[j].call < log[k].call /\ log[j].answer < log[k].answer
  /\ \A i \in 1 .. server.at - 1 : request[i].token = "message" =>
       (server.phase # "head" /\ i = server.head) \/ \E k \in 1 .. Len(log) : log[k].call = i
  /\ \A i \in 1 .. Len(reply) : reply[i].token = "message" => \E k \in 1 .. Len(log) : log[k].answer = i

ClientValues == {<<>>} \cup UNION {[DOMAIN PargsOf(m) -> Values] : m \in Method}
ClientResults == [value : [0 .. 0 -> Values] \cup [DOMAIN <<>> -> Values], isset : SUBSET (0 .. 0)]
ClientType ==
  [phase : {"idle", "reply", "exception", "result", "broken"}, at : Nat, head : Nat, skips : Nat, calls : Nat,
   method : Method \cup {"none"}, values : ClientValues,
   result : ClientResults,
   got : {"nothing", "returned", "exception"}, value : Values]

(* What the client found first: a message that fits its call, or another one. *)
Found == reply[client.head]
Fits == Found.type = "REPLY" /\ Found.name = client.method
ResultIsRead ==
  /\ client.result \in StructOf(PresultOf(client.method))
  /\ IsRead(PresultOf(client.method), client.result, reply, client.head + 1, client.at - 1)

(* The client reads the first message to its end, or skips it and finds another one. *)
ClientReads ==
  /\ client \in ClientType /\ client.at \in 1 .. Len(reply) + 1
  /\ client.phase # "idle" => client.calls > 0
  /\ client.calls > 0 => client.method \in Method
  /\ client.phase \in {"idle", "reply"} => Before(reply, client.at)
  /\ client.phase = "reply" => client.result = Blank(PresultOf(client.method))
  /\ client.phase \in {"reply", "exception", "result", "broken"} => client.got = "nothing"
  /\ client.phase \in {"exception", "result", "broken"} =>
       client.head \in 1 .. client.at - 1 /\ Found.token = "message"
  /\ client.phase = "exception" =>
       client.skips = 0 /\ Found.type = "EXCEPTION" /\ Inside(reply, client.head, client.at)
  /\ client.phase = "result" /\ Fits =>
       client.skips = 0 /\ Inside(reply, client.head, client.at) /\ ResultIsRead
  /\ client.phase = "result" /\ ~Fits =>
       /\ Found.type # "EXCEPTION"
       /\ Before(reply, client.at) \/ (client.skips > 0 /\ Inside(reply, client.head, client.at))
  /\ client.phase = "broken" => ~Fits /\ Found.type # "EXCEPTION"
  /\ client.phase = "idle" /\ client.calls > 0 =>
       /\ Behind(reply, client.head, client.at)
       /\ Fits \/ Found.type = "EXCEPTION"
       /\ Fits => ResultIsRead
       /\ client.got = "returned" <=> Fits /\ 0 \in client.result.isset
       /\ client.got = "returned" => client.value = client.result.value[0]

(* Between two ends of this library: the last call is the only one that is under way, ... *)
Arity(m) == IF m = "CanYouActivateMe" THEN 2 ELSE 1
CallAt(p) ==
  /\ p \in Nat \ {0} /\ client.values \in [1 .. Arity(client.method) -> Values]
  /\ request[p] = Message(client.method, "CALL", 0)
  /\ \A id \in 1 .. Arity(client.method) :
       request[p + id] = Field(id, PargsOf(client.method)[id], client.values[id])
  /\ Len(request) = p + Arity(client.method) + 1

(* ... and so is its answer. *)
AnswerAt(p) ==
  LET last == log[client.calls] IN
  /\ p = last.answer
  /\ reply[p] = Message(client.method, IF last.got = "returned" THEN "REPLY" ELSE "EXCEPTION", 0)
  /\ last.got = "returned" =>
       Len(reply) = p + 2 /\ reply[p + 1] = Field(0, ResultOf(client.method)[0], last.value)
  /\ last.got = "exception" => last.value = 0 /\ Len(reply) = p + 3

ServerRests == server.phase = "head" /\ server.at = Len(request) + 1 /\ Len(log) = client.calls

EndToEnd ==
  /\ client.phase # "broken"
  /\ client.phase = "idle" =>
       /\ ServerRests /\ client.at = Len(reply) + 1
       /\ client.calls > 0 => client.got = log[client.calls].got /\ client.value = log[client.calls].value
  /\ client.phase = "reply" =>
       \/ /\ Len(log) + 1 = client.calls /\ client.at = Len(reply) + 1
          /\ CallAt(IF server.phase = "head" THEN server.at ELSE server.head)
       \/ ServerRests /\ AnswerAt(client.at)
  /\ client.phase \in {"exception", "result"} => ServerRests /\ AnswerAt(client.head)

StubsInv ==
  /\ Streams
  /\ peer = "server" => server.phase = "head"
  /\ peer # "server" => ServerReads /\ Logged
  /\ peer # "client" => ClientReads
  /\ peer = "none" => EndToEnd

LEMMA TokenKinds ==
  ASSUME NEW t \in Tokens
  PROVE  /\ t.token \in {"message", "field", "stop"}
         /\ t.token = "message" => t \in HeadTokens
         /\ t.token = "field" => t \in FieldTokens
         /\ t.token = "stop" => t = Stop
         /\ Stop.token = "stop"
  BY DEF Tokens, HeadTokens, FieldTokens, Stop

LEMMA Heads ==
  ASSUME NEW name \in PeerNames \cup Method, NEW type \in TMessageType, NEW seqid \in Nat
  PROVE  /\ Message(name, type, seqid) \in Tokens /\ Message(name, type, seqid).token = "message"
         /\ Message(name, type, seqid).name = name /\ Message(name, type, seqid).type = type
         /\ Message(name, type, seqid).seqid = seqid
  BY DEF Message, Tokens, HeadTokens

LEMMA FieldFacts ==
  ASSUME NEW id \in Nat, NEW type \in TType, NEW value \in Values
  PROVE  /\ Field(id, type, value) \in FieldTokens /\ Field(id, type, value) \in Tokens
         /\ Field(id, type, value).token = "field" /\ Field(id, type, value).id = id
         /\ Field(id, type, value).type = type /\ Field(id, type, value).value = value
  BY DEF Field, FieldTokens, Tokens

(* A sequence in which one token follows, as the function it is. *)
LEMMA AppendStream ==
  ASSUME NEW s \in Seq(Tokens), NEW t \in Tokens
  PROVE  LET u == Append(s, t) IN
         /\ u \in Seq(Tokens) /\ Len(u) = Len(s) + 1 /\ u[Len(s) + 1] = t
         /\ \A i \in 1 .. Len(s) : u[i] = s[i]
         /\ Continues(s, u)
<1> DEFINE u == Append(s, t)
<1>1. u \in Seq(Tokens) /\ Len(u) = Len(s) + 1 /\ u[Len(s) + 1] = t
  OBVIOUS
<1>2. \A i \in 1 .. Len(s) : u[i] = s[i]
  OBVIOUS
<1>3. Len(s) \in Nat
  OBVIOUS
<1> HIDE DEF u
<1>4. Len(s) <= Len(u)
  BY <1>1, <1>3
<1> QED
  BY <1>1, <1>2, <1>4 DEF u, Continues

(* One more token of a peer. *)
LEMMA AppendWellFormed ==
  ASSUME NEW s, WellFormed(s), NEW t \in Tokens, Complete(s) <=> t.token = "message"
  PROVE  WellFormed(Append(s, t)) /\ Continues(s, Append(s, t)) /\ (Complete(Append(s, t)) <=> t.token = "stop")
<1> DEFINE u == Append(s, t)
<1>1. s \in Seq(Tokens) /\ Len(s) \in Nat /\ (s # <<>> => s[1].token = "message")
      /\ \A i \in 1 .. Len(s) - 1 : s[i].token = "stop" <=> s[i + 1].token = "message"
  BY DEF WellFormed
<1>2. /\ u \in Seq(Tokens) /\ Len(u) = Len(s) + 1 /\ u[Len(s) + 1] = t
      /\ \A i \in 1 .. Len(s) : u[i] = s[i]
      /\ Continues(s, u)
  BY <1>1, AppendStream
<1>3. u # <<>> /\ (s = <<>> <=> Len(s) = 0)
  <2>1. s = <<>> <=> Len(s) = 0
    BY <1>1
  <2>2. Len(u) # 0
    BY <1>1, <1>2
  <2> HIDE DEF u
  <2>3. u # <<>>
    BY <1>2, <2>2
  <2> QED
    BY <2>1, <2>3
<1> HIDE DEF u
<1>4. u[1].token = "message"
  <2>1. CASE s = <<>>
    BY <1>2, <1>3, <2>1 DEF Complete
  <2>2. CASE s # <<>>
    <3>1. 1 \in 1 .. Len(s)
      BY <1>1, <1>3, <2>2
    <3> QED
      BY <1>1, <1>2, <2>2, <3>1
  <2> QED
    BY <2>1, <2>2
<1>5. ASSUME NEW i \in 1 .. Len(u) - 1 PROVE u[i].token = "stop" <=> u[i + 1].token = "message"
  <2>1. i \in 1 .. Len(s) /\ Len(s) \in Nat
    BY <1>1, <1>2
  <2>2. CASE i = Len(s)
    <3>1. s # <<>> /\ u[i] = s[Len(s)] /\ u[i + 1] = t
      BY <1>2, <1>3, <2>1, <2>2
    <3> QED
      BY <3>1 DEF Complete
  <2>3. CASE i # Len(s)
    <3>1. i \in 1 .. Len(s) - 1 /\ i + 1 \in 1 .. Len(s)
      BY <2>1, <2>3
    <3> QED
      BY <1>1, <1>2, <2>1, <3>1
  <2> QED
    BY <2>2, <2>3
<1>6. Complete(u) <=> t.token = "stop"
  BY <1>2, <1>3 DEF Complete
<1> QED
  BY <1>2, <1>3, <1>4, <1>5, <1>6 DEF u, WellFormed

(* A whole message is its head, its fields and the stop. *)
LEMMA WholeTokens ==
  ASSUME NEW head \in Tokens, NEW fields \in Seq(Tokens)
  PROVE  LET w == Whole(head, fields) IN
         /\ w \in Seq(Tokens) /\ Len(w) = Len(fields) + 2 /\ w[1] = head /\ w[Len(fields) + 2] = Stop
         /\ \A i \in 1 .. Len(fields) : w[i + 1] = fields[i]
<1> DEFINE v == <<head>> \o fields
           w == v \o <<Stop>>
<1>1. Stop \in Tokens /\ Len(fields) \in Nat
  BY DEF Tokens
<1>2. v \in Seq(Tokens) /\ Len(v) = Len(fields) + 1
  OBVIOUS
<1>3. v[1] = head
  BY <1>1
<1>4. \A i \in 1 .. Len(fields) : v[i + 1] = fields[i]
  OBVIOUS
<1> HIDE DEF v
<1>5. w = Append(v, Stop)
  BY <1>1, <1>2
<1>6. w \in Seq(Tokens) /\ Len(w) = Len(v) + 1 /\ w[Len(v) + 1] = Stop /\ \A i \in 1 .. Len(v) : w[i] = v[i]
  BY <1>1, <1>2, <1>5, AppendStream
<1> HIDE DEF w
<1>7. \A i \in 1 .. Len(fields) : i + 1 \in 1 .. Len(v)
  BY <1>1, <1>2
<1>8. 1 \in 1 .. Len(v) /\ Len(v) + 1 = Len(fields) + 2
  BY <1>1, <1>2
<1>9. w[1] = head /\ \A i \in 1 .. Len(fields) : w[i + 1] = fields[i]
  BY <1>3, <1>4, <1>6, <1>7, <1>8
<1> QED
  BY <1>6, <1>8, <1>9 DEF w, v, Whole

LEMMA ConcatStream ==
  ASSUME NEW s \in Seq(Tokens), NEW w \in Seq(Tokens)
  PROVE  /\ s \o w \in Seq(Tokens) /\ Len(s \o w) = Len(s) + Len(w)
         /\ \A i \in 1 .. Len(s) : (s \o w)[i] = s[i]
         /\ \A i \in 1 .. Len(w) : (s \o w)[Len(s) + i] = w[i]
<1>1. s \o w \in Seq(Tokens) /\ Len(s \o w) = Len(s) + Len(w)
  OBVIOUS
<1>2. \A i \in 1 .. Len(s) : (s \o w)[i] = s[i]
  OBVIOUS
<1>3. \A i \in 1 .. Len(w) : (s \o w)[Len(s) + i] = w[i]
  OBVIOUS
<1> QED
  BY <1>1, <1>2, <1>3

LEMMA WholeStream ==
  ASSUME NEW s, WellFormed(s), Complete(s), NEW head \in HeadTokens, NEW fields \in Seq(FieldTokens)
  PROVE  Follows(s, s \o Whole(head, fields), head, fields)
<1> DEFINE w == Whole(head, fields)
           u == s \o w
           k == Len(s)
           n == Len(fields)
<1>1. /\ s \in Seq(Tokens) /\ (s # <<>> => s[1].token = "message")
      /\ \A i \in 1 .. Len(s) - 1 : s[i].token = "stop" <=> s[i + 1].token = "message"
  BY DEF WellFormed
<1>2. /\ head \in Tokens /\ head.token = "message" /\ fields \in Seq(Tokens)
      /\ \A i \in 1 .. n : fields[i] \in FieldTokens
  BY DEF Tokens, HeadTokens
<1>3. \A i \in 1 .. n : fields[i].token = "field"
  BY <1>2 DEF FieldTokens
<1>4. /\ w \in Seq(Tokens) /\ Len(w) = n + 2 /\ w[1] = head /\ w[n + 2] = Stop
      /\ \A i \in 1 .. n : w[i + 1] = fields[i]
  BY <1>2, WholeTokens
<1>5. k \in Nat /\ n \in Nat
  BY <1>1, <1>2
<1> HIDE DEF w
<1>6. /\ u \in Seq(Tokens) /\ Len(u) = k + Len(w)
      /\ \A i \in 1 .. k : u[i] = s[i]
      /\ \A i \in 1 .. Len(w) : u[k + i] = w[i]
  <2>1. s \in Seq(Tokens) /\ w \in Seq(Tokens)
    BY <1>1, <1>4
  <2> QED
    BY <2>1, ConcatStream, Zenon
<1>7. s = <<>> <=> k = 0
  BY <1>1
<1>8. u = <<>> <=> Len(u) = 0
  BY <1>6
<1> HIDE DEF u, k, n
<1>9. Len(u) = k + n + 2
  BY <1>4, <1>5, <1>6
<1>10. u[k + 1] = head /\ u[k + n + 2] = Stop
  <2>1. 1 \in 1 .. Len(w) /\ n + 2 \in 1 .. Len(w) /\ k + (n + 2) = k + n + 2
    BY <1>4, <1>5
  <2> QED
    BY <1>4, <1>6, <2>1
<1>11. \A i \in 1 .. n : u[k + 1 + i] = fields[i]
  <2> SUFFICES ASSUME NEW i \in 1 .. n PROVE u[k + 1 + i] = fields[i]
    OBVIOUS
  <2>1. i + 1 \in 1 .. Len(w) /\ k + (i + 1) = k + 1 + i
    BY <1>4, <1>5
  <2> QED
    BY <1>4, <1>6, <2>1
<1>12. Stop.token = "stop"
  BY DEF Stop
<1>13. \A i \in k + 2 .. Len(u) : u[i].token # "message" /\ (i # Len(u) => u[i].token # "stop")
  <2> SUFFICES ASSUME NEW i \in k + 2 .. Len(u)
               PROVE  u[i].token # "message" /\ (i # Len(u) => u[i].token # "stop")
    OBVIOUS
  <2>1. CASE i = k + n + 2
    BY <1>9, <1>10, <1>12, <2>1
  <2>2. CASE i # k + n + 2
    <3>1. i - k - 1 \in 1 .. n /\ k + 1 + (i - k - 1) = i
      BY <1>5, <1>9, <2>2
    <3>2. u[i] = fields[i - k - 1]
      BY <1>11, <3>1
    <3> QED
      BY <1>3, <3>1, <3>2
  <2> QED
    BY <2>1, <2>2
<1>14. u[1].token = "message"
  <2>1. CASE k = 0
    BY <1>2, <1>10, <2>1
  <2>2. CASE k # 0
    <3>1. 1 \in 1 .. k
      BY <1>5, <2>2
    <3> QED
      BY <1>1, <1>6, <1>7, <2>2, <3>1
  <2> QED
    BY <2>1, <2>2
<1>15. ASSUME NEW i \in 1 .. Len(u) - 1 PROVE u[i].token = "stop" <=> u[i + 1].token = "message"
  <2>1. CASE i < k
    <3>1. i \in 1 .. k /\ i + 1 \in 1 .. k /\ i \in 1 .. k - 1
      BY <1>5, <2>1
    <3> QED
      BY <1>1, <1>6, <3>1 DEF k
  <2>2. CASE i = k
    <3>1. k \in 1 .. k /\ k # 0
      BY <1>5, <2>2
    <3>2. s[k].token = "stop"
      BY <1>7, <3>1 DEF Complete, k
    <3> QED
      BY <1>2, <1>6, <1>10, <2>2, <3>1, <3>2
  <2>3. CASE i = k + 1
    <3>1. i + 1 \in k + 2 .. Len(u)
      BY <1>5, <1>9, <2>3
    <3> QED
      BY <1>2, <1>10, <1>13, <2>3, <3>1
  <2>4. CASE i > k + 1
    <3>1. i + 1 \in k + 2 .. Len(u) /\ i \in k + 2 .. Len(u) /\ i # Len(u)
      BY <1>5, <1>9, <2>4
    <3> QED
      BY <1>13, <3>1
  <2> QED
    BY <1>5, <1>9, <2>1, <2>2, <2>3, <2>4
<1>16. WellFormed(u)
  BY <1>6, <1>14, <1>15 DEF WellFormed
<1>17. Complete(u)
  BY <1>9, <1>10, <1>12 DEF Complete
<1>18. Continues(s, u)
  BY <1>5, <1>6, <1>9 DEF Continues, k
<1> QED
  BY <1>9, <1>10, <1>11, <1>13, <1>16, <1>17, <1>18 DEF u, w, k, n, Follows
-----------------------------------------------------------------------------
(* A reader finds the start of a message where it expects it ... *)
LEMMA ReadHead ==
  ASSUME NEW s, WellFormed(s), NEW at, Before(s, at), at <= Len(s)
  PROVE  s[at] \in HeadTokens /\ s[at].token = "message" /\ at \in 1 .. Len(s) /\ Inside(s, at, at + 1)
<1>1. s \in Seq(Tokens) /\ Len(s) \in Nat /\ (s # <<>> => s[1].token = "message")
      /\ \A i \in 1 .. Len(s) - 1 : s[i].token = "stop" <=> s[i + 1].token = "message"
  <2>1. s \in Seq(Tokens) /\ (s # <<>> => s[1].token = "message")
        /\ \A i \in 1 .. Len(s) - 1 : s[i].token = "stop" <=> s[i + 1].token = "message"
    BY Zenon DEF WellFormed
  <2> QED
    BY <2>1
<1>2. at \in 1 .. Len(s) /\ (at = 1 \/ s[at - 1].token = "stop")
  BY <1>1 DEF Before
<1>3. s[at] \in Tokens
  BY <1>1, <1>2
<1>4. s[at].token = "message"
  <2>1. CASE at = 1
    <3>1. s # <<>>
      BY <1>1, <1>2
    <3> QED
      BY <1>1, <2>1, <3>1
  <2>2. CASE at # 1
    <3>1. at - 1 \in 1 .. Len(s) - 1 /\ (at - 1) + 1 = at
      BY <1>1, <1>2, <2>2
    <3> QED
      BY <1>1, <1>2, <2>2, <3>1
  <2> QED
    BY <2>1, <2>2
<1>5. Inside(s, at, at + 1)
  <2>1. at + 1 \in 1 .. Len(s) + 1 /\ at \in 1 .. (at + 1) - 1 /\ \A i \in at + 1 .. (at + 1) - 1 : FALSE
    BY <1>1, <1>2
  <2> QED
    BY <1>4, <2>1 DEF Inside
<1> QED
  BY <1>2, <1>3, <1>4, <1>5, TokenKinds

(* ... and nothing but fields and a stop where it expects those. *)
LEMMA ReadOn ==
  ASSUME NEW s, WellFormed(s), NEW head, NEW at, Inside(s, head, at), at <= Len(s)
  PROVE  /\ s[at] \in Tokens /\ s[at].token \in {"field", "stop"} /\ at \in 1 .. Len(s)
         /\ s[at].token = "field" => s[at] \in FieldTokens /\ Inside(s, head, at + 1)
         /\ s[at].token = "stop" => Behind(s, head, at + 1) /\ Before(s, at + 1)
<1>1. s \in Seq(Tokens) /\ Len(s) \in Nat
      /\ \A i \in 1 .. Len(s) - 1 : s[i].token = "stop" <=> s[i + 1].token = "message"
  BY DEF WellFormed
<1>2. /\ at \in 1 .. Len(s) /\ head \in 1 .. at - 1
      /\ s[head].token = "message" /\ \A i \in head + 1 .. at - 1 : s[i].token = "field"
  BY <1>1 DEF Inside
<1>3. s[at] \in Tokens
  BY <1>1, <1>2
<1>4. at - 1 \in 1 .. Len(s) - 1 /\ (at - 1) + 1 = at
  BY <1>1, <1>2
<1>5. s[at - 1].token # "stop"
  <2>1. CASE head = at - 1
    BY <1>2, <2>1
  <2>2. CASE head # at - 1
    <3>1. at - 1 \in head + 1 .. at - 1
      BY <1>1, <1>2, <2>2
    <3> QED
      BY <1>2, <3>1
  <2> QED
    BY <2>1, <2>2
<1>6. s[at].token # "message"
  BY <1>1, <1>4, <1>5
<1>7. s[at].token \in {"field", "stop"} /\ (s[at].token = "field" => s[at] \in FieldTokens)
  BY <1>3, <1>6, TokenKinds
<1>8. /\ at + 1 \in 1 .. Len(s) + 1 /\ head \in 1 .. (at + 1) - 1 /\ head \in 1 .. (at + 1) - 2
      /\ (at + 1) - 1 = at /\ (at + 1) - 2 = at - 1
  BY <1>1, <1>2
<1>9. \A i \in head + 1 .. at : i = at \/ i \in head + 1 .. at - 1
  BY <1>1, <1>2
<1>10. s[at].token = "field" => Inside(s, head, at + 1)
  BY <1>2, <1>8, <1>9 DEF Inside
<1>11. s[at].token = "stop" => Behind(s, head, at + 1)
  BY <1>2, <1>8 DEF Behind
<1>12. s[at].token = "stop" => Before(s, at + 1)
  BY <1>8 DEF Before
<1> QED
  BY <1>2, <1>3, <1>7, <1>10, <1>11, <1>12

(* What a reader has read stays as it was. *)
LEMMA Grows ==
  ASSUME NEW s \in Seq(Tokens), NEW u \in Seq(Tokens), Continues(s, u)
  PROVE  /\ \A at : Before(s, at) => Before(u, at)
         /\ \A head, at : Inside(s, head, at) => Inside(u, head, at)
         /\ \A head, at : Behind(s, head, at) => Behind(u, head, at)
<1>1. Len(s) \in Nat /\ Len(u) \in Nat /\ Len(s) <= Len(u) /\ \A i \in 1 .. Len(s) : u[i] = s[i]
  BY DEF Continues
<1>2. ASSUME NEW at, Before(s, at) PROVE Before(u, at)
  <2>1. at \in 1 .. Len(s) + 1 /\ at \in 1 .. Len(u) + 1 /\ (at # 1 => at - 1 \in 1 .. Len(s))
    BY <1>1, <1>2 DEF Before
  <2> QED
    BY <1>1, <1>2, <2>1 DEF Before
<1>3. ASSUME NEW head, NEW at, Inside(s, head, at) PROVE Inside(u, head, at)
  <2>1. at \in 1 .. Len(u) + 1 /\ head \in 1 .. at - 1 /\ head \in 1 .. Len(s)
        /\ \A i \in head + 1 .. at - 1 : i \in 1 .. Len(s)
    BY <1>1, <1>3 DEF Inside
  <2> QED
    BY <1>1, <1>3, <2>1 DEF Inside
<1>4. ASSUME NEW head, NEW at, Behind(s, head, at) PROVE Behind(u, head, at)
  <2>1. at \in 1 .. Len(u) + 1 /\ head \in 1 .. at - 2 /\ head \in 1 .. Len(s) /\ at - 1 \in 1 .. Len(s)
        /\ \A i \in head + 1 .. at - 2 : i \in 1 .. Len(s)
    BY <1>1, <1>4 DEF Behind
  <2> QED
    BY <1>1, <1>4, <2>1 DEF Behind
<1> QED
  BY <1>2, <1>3, <1>4
-----------------------------------------------------------------------------
LEMMA Declared ==
  ASSUME NEW m \in Method
  PROVE  /\ Arity(m) \in 1 .. 2 /\ PargsOf(m) = ArgsOf(m) /\ DOMAIN ArgsOf(m) = 1 .. Arity(m)
         /\ \A id \in 1 .. Arity(m) : ArgsOf(m)[id] \in TType
         /\ PresultOf(m) = ResultOf(m) /\ DOMAIN ResultOf(m) = 0 .. 0 /\ ResultOf(m)[0] \in TType
<1>1. CASE m = "CanYouActivateMe"
  BY <1>1 DEF Arity, ArgsOf, PargsOf, ResultOf, PresultOf, CanYouActivateMe_args, CanYouActivateMe_pargs,
              CanYouActivateMe_result, CanYouActivateMe_presult, TType
<1>2. CASE m # "CanYouActivateMe"
  BY <1>2 DEF Arity, ArgsOf, PargsOf, ResultOf, PresultOf, SyncData_args, SyncData_pargs,
              SyncData_result, SyncData_presult, TType
<1> QED
  BY <1>1, <1>2

(* A struct of which nothing has been read yet. *)
LEMMA BlankRead ==
  ASSUME NEW decl, NEW s, NEW from \in Nat
  PROVE  Blank(decl) \in StructOf(decl) /\ IsRead(decl, Blank(decl), s, from, from - 1)
<1>1. Blank(decl).isset = {} /\ \A id \in DOMAIN decl : Blank(decl).value[id] = 0
  BY DEF Blank
<1>2. \A id, type : Matching(s, from, from - 1, id, type) = {}
  BY DEF Matching
<1>3. Blank(decl) \in StructOf(decl)
  BY StubsAssumption DEF Blank, StructOf
<1> QED
  BY <1>1, <1>2, <1>3 DEF IsRead

(* One more field. *)
LEMMA FieldRead ==
  ASSUME NEW decl, NEW st \in StructOf(decl), NEW s, NEW from \in Nat, NEW p \in Nat, from <= p,
         s[p] \in FieldTokens, IsRead(decl, st, s, from, p - 1)
  PROVE  LET r == ReadField(decl, st, s[p]) IN
         r \in StructOf(decl) /\ IsRead(decl, r, s, from, p)
<1> DEFINE f == s[p]
           r == ReadField(decl, st, f)
           Old(id) == Matching(s, from, p - 1, id, decl[id])
           New(id) == Matching(s, from, p, id, decl[id])
<1>1. f.token = "field" /\ f.value \in Values
  BY DEF FieldTokens
<1>2. /\ st = [value |-> st.value, isset |-> st.isset]
      /\ st.value \in [DOMAIN decl -> Values] /\ st.isset \subseteq DOMAIN decl
  BY DEF StructOf
<1>3. ASSUME NEW id \in DOMAIN decl PROVE New(id) = IF f.id = id /\ decl[id] = f.type THEN Old(id) \cup {p} ELSE Old(id)
  <2>1. \A i : i \in from .. p <=> i \in from .. p - 1 \/ i = p
    OBVIOUS
  <2> QED
    BY <1>1, <2>1 DEF Matching
<1>4. \A id \in DOMAIN decl : \A j \in Old(id) : j <= p /\ j # p
  BY DEF Matching
<1>5. ASSUME NEW id \in DOMAIN decl
      PROVE  /\ id \in st.isset <=> Old(id) # {}
             /\ Old(id) = {} => st.value[id] = 0
             /\ Old(id) # {} => \E i \in Old(id) : (\A j \in Old(id) : j <= i) /\ st.value[id] = s[i].value
  BY DEF IsRead
<1>6. CASE f.id \in DOMAIN decl /\ decl[f.id] = f.type
  <2>1. r = [value |-> [st.value EXCEPT ![f.id] = f.value], isset |-> st.isset \cup {f.id}]
    BY <1>2, <1>6 DEF ReadField
  <2>2. r \in StructOf(decl)
    BY <1>1, <1>2, <1>6, <2>1 DEF StructOf
  <2>3. /\ r.value[f.id] = f.value /\ f.id \in r.isset
        /\ \A id \in DOMAIN decl : id # f.id => r.value[id] = st.value[id] /\ (id \in r.isset <=> id \in st.isset)
    BY <1>2, <1>6, <2>1
  <2> HIDE DEF r, f, Old, New
  <2>4. ASSUME NEW id \in DOMAIN decl
        PROVE  /\ id \in r.isset <=> New(id) # {}
               /\ New(id) = {} => r.value[id] = 0
               /\ New(id) # {} => \E i \in New(id) : (\A j \in New(id) : j <= i) /\ r.value[id] = s[i].value
    <3>1. CASE id = f.id
      <4>1. New(id) = Old(id) \cup {p}
        BY <1>3, <1>6, <3>1
      <4>2. p \in New(id) /\ (\A j \in New(id) : j <= p)
        BY <1>4, <4>1
      <4>3. r.value[id] = s[p].value
        BY <2>3, <3>1 DEF f
      <4> QED
        BY <2>3, <3>1, <4>2, <4>3
    <3>2. CASE id # f.id
      <4>1. New(id) = Old(id)
        BY <1>3, <3>2
      <4> QED
        BY <1>5, <2>3, <3>2, <4>1
    <3> QED
      BY <3>1, <3>2
  <2> QED
    BY <2>2, <2>4 DEF IsRead, New, r, f
<1>7. CASE ~ (f.id \in DOMAIN decl /\ decl[f.id] = f.type)
  <2>1. r = st
    BY <1>7 DEF ReadField
  <2>2. \A id \in DOMAIN decl : New(id) = Old(id)
    BY <1>3, <1>7
  <2> HIDE DEF r, f, Old, New
  <2>3. ASSUME NEW id \in DOMAIN decl
        PROVE  /\ id \in r.isset <=> New(id) # {}
               /\ New(id) = {} => r.value[id] = 0
               /\ New(id) # {} => \E i \in New(id) : (\A j \in New(id) : j <= i) /\ r.value[id] = s[i].value
    BY <1>5, <2>1, <2>2
  <2> QED
    BY <2>1, <2>3 DEF IsRead, New, r, f
<1> QED
  BY <1>6, <1>7

(* The stop. *)
LEMMA StopRead ==
  ASSUME NEW decl, NEW st, NEW s, NEW from \in Nat, NEW p \in Nat, s[p].token # "field",
         IsRead(decl, st, s, from, p - 1)
  PROVE  IsRead(decl, st, s, from, p)
<1>1. \A i \in from .. p : i = p \/ i \in from .. p - 1
  OBVIOUS
<1>2. \A i \in from .. p - 1 : i \in from .. p
  OBVIOUS
<1>3. \A id, type : Matching(s, from, p, id, type) = Matching(s, from, p - 1, id, type)
  BY <1>1, <1>2 DEF Matching
<1> QED
  BY <1>3, Zenon DEF IsRead

(* What comes later in the stream is not read. *)
LEMMA ReadGrows ==
  ASSUME NEW decl, NEW st, NEW s \in Seq(Tokens), NEW u, NEW from \in Nat \ {0}, NEW to \in Nat, to <= Len(s),
         Continues(s, u), IsRead(decl, st, s, from, to)
  PROVE  IsRead(decl, st, u, from, to)
<1>1. \A i \in from .. to : i \in 1 .. Len(s)
  OBVIOUS
<1>2. \A i \in from .. to : u[i] = s[i]
  BY <1>1 DEF Continues
<1>3. \A id, type : Matching(u, from, to, id, type) = Matching(s, from, to, id, type)
  BY <1>2 DEF Matching
<1>4. \A id, type : \A i \in Matching(s, from, to, id, type) : u[i] = s[i]
  BY <1>2 DEF Matching
<1> SUFFICES ASSUME NEW id \in DOMAIN decl
             PROVE  LET at == Matching(u, from, to, id, decl[id]) IN
                    /\ id \in st.isset <=> at # {}
                    /\ at = {} => st.value[id] = 0
                    /\ at # {} => \E i \in at : (\A j \in at : j <= i) /\ st.value[id] = u[i].value
  BY DEF IsRead
<1> DEFINE at == Matching(s, from, to, id, decl[id])
<1>5. /\ id \in st.isset <=> at # {}
      /\ at = {} => st.value[id] = 0
      /\ at # {} => \E i \in at : (\A j \in at : j <= i) /\ st.value[id] = s[i].value
  BY DEF IsRead
<1>6. Matching(u, from, to, id, decl[id]) = at /\ \A i \in at : u[i] = s[i]
  BY <1>3, <1>4
<1> HIDE DEF at
<1>7. at # {} => \E i \in at : (\A j \in at : j <= i) /\ st.value[id] = u[i].value
  BY <1>5, <1>6
<1> QED
  BY <1>5, <1>6, <1>7
-----------------------------------------------------------------------------
LEMMA StubsInitially == StubsInit => StubsInv
<1> SUFFICES ASSUME StubsInit PROVE StubsInv
  OBVIOUS
<1> USE DEF StubsInit
<1>1. Len(request) = 0 /\ Len(reply) = 0 /\ Len(log) = 0
  OBVIOUS
<1>2. <<>> \in Seq(Tokens) /\ log \in Seq([call : Nat, answer : Nat, got : {"returned", "exception"}, value : Values])
  OBVIOUS
<1>3. WellFormed(<<>>) /\ Complete(<<>>) /\ Before(<<>>, 1)
  BY <1>2 DEF WellFormed, Complete, Before
<1>4. Streams
  BY <1>3 DEF Streams
<1>5. ServerReads
  BY <1>3 DEF ServerReads
<1>6. Logged
  BY <1>1, <1>2 DEF Logged
<1>7. /\ client = [phase |-> "idle", at |-> 1, head |-> 0, skips |-> 0, calls |-> 0, method |-> "none",
                   values |-> <<>>, result |-> client.result, got |-> "nothing", value |-> 0]
      /\ client.result = Blank(<<>>)
  BY Zenon
<1>8. client.result \in ClientResults
  <2>1. DOMAIN <<>> = {}
    OBVIOUS
  <2> QED
    BY <1>7, <2>1 DEF Blank, ClientResults
<1>9. client \in ClientType
  <2> HIDE DEF StubsInit
  <2> QED
    BY <1>7, <1>8, StubsAssumption DEF ClientType, ClientValues
<1>10. ClientReads
  BY <1>1, <1>3, <1>9 DEF ClientReads
<1>11. EndToEnd
  BY <1>1 DEF EndToEnd, ServerRests
<1> QED
  BY <1>4, <1>5, <1>6, <1>10, <1>11 DEF StubsInv

(* While the stream to the server grows, what the server has read stays as it was. *)
LEMMA RequestGrows ==
  ASSUME WellFormed(request), WellFormed(request'), Continues(request, request'), ServerReads, Logged,
         UNCHANGED <<reply, server, log>>
  PROVE  ServerReads' /\ Logged'
<1>1. request \in Seq(Tokens) /\ request' \in Seq(Tokens)
  BY Zenon DEF WellFormed
<1>2. \A i \in 1 .. Len(request) : request'[i] = request[i]
  BY DEF Continues
<1>3. Len(request) \in Nat
  BY <1>1
<1>4. /\ server.phase = "head" => Before(request', server.at)
      /\ server.phase \in {"args", "skip"} => Inside(request', server.head, server.at)
      /\ server.phase \in {"handler", "unknown"} => Behind(request', server.head, server.at)
  BY <1>1, Grows, Zenon DEF ServerReads
<1>5. /\ server.phase \in {"head", "args", "skip", "handler", "unknown"}
      /\ server.at \in 1 .. Len(request) + 1
      /\ server.phase # "head" => server.head \in 1 .. server.at - 1
  BY <1>3 DEF ServerReads, Before, Inside, Behind
<1>6. server.phase # "head" => Called' = Called
  BY <1>2, <1>3, <1>5 DEF Called
<1>7. ASSUME server.phase \in {"args", "handler"}
      PROVE  IsRead(ArgsOf(Called.name), server.args, request', server.head + 1, server.at - 1)
  <2>1. /\ IsRead(ArgsOf(Called.name), server.args, request, server.head + 1, server.at - 1)
    BY <1>7 DEF ServerReads
  <2>2. server.head + 1 \in Nat \ {0} /\ server.at - 1 \in Nat /\ server.at - 1 <= Len(request)
    BY <1>3, <1>5, <1>7
  <2> QED
    BY <1>1, <2>1, <2>2, ReadGrows, Zenon
<1>8. ServerReads'
  <2>1. /\ server.phase \in {"args", "handler"} => Called.name \in Method /\ server.args \in StructOf(ArgsOf(Called.name))
        /\ server.phase \in {"skip", "unknown"} => Called.name \notin Method
    BY Zenon DEF ServerReads
  <2>2. Called' = request'[server.head]
    BY DEF Called
  <2>3. server.phase # "head" => request'[server.head] = Called
    BY <1>6, <2>2
  <2> QED
    BY <1>4, <1>5, <1>7, <2>1, <2>2, <2>3 DEF ServerReads
<1>9. Logged'
  <2>1. \A k \in 1 .. Len(log) : log[k].call \in 1 .. Len(request)
    BY <1>3, <1>5 DEF Logged
  <2>2. \A k \in 1 .. Len(log) : IsAnswered(k)'
    BY <1>2, <2>1 DEF Logged, IsAnswered
  <2>3. \A i \in 1 .. server.at - 1 : request'[i] = request[i]
    BY <1>2, <1>3, <1>5
  <2> QED
    BY <2>2, <2>3 DEF Logged
<1> QED
  BY <1>8, <1>9

(* The same for the stream to the client. *)
LEMMA ReplyGrows ==
  ASSUME WellFormed(reply), WellFormed(reply'), Continues(reply, reply'), ClientReads, UNCHANGED client
  PROVE  ClientReads'
<1>1. reply \in Seq(Tokens) /\ reply' \in Seq(Tokens)
  BY Zenon DEF WellFormed
<1>2. Len(reply) \in Nat /\ Len(reply') \in Nat /\ Len(reply) <= Len(reply')
      /\ \A i \in 1 .. Len(reply) : reply'[i] = reply[i]
  BY <1>1 DEF Continues
<1>3. /\ \A at : Before(reply, at) => Before(reply', at)
      /\ \A head, at : Inside(reply, head, at) => Inside(reply', head, at)
      /\ \A head, at : Behind(reply, head, at) => Behind(reply', head, at)
  BY <1>1, Grows, Zenon
<1>4. client.at \in 1 .. Len(reply) + 1 /\ client.at \in 1 .. Len(reply') + 1
  BY <1>2 DEF ClientReads
<1>5. client.phase \in {"exception", "result", "broken"} \/ (client.phase = "idle" /\ client.calls > 0)
      => client.head \in 1 .. client.at - 1
  BY <1>2 DEF ClientReads, Behind
<1>6. ASSUME client.head \in 1 .. client.at - 1 PROVE Found' = Found /\ (Fits' <=> Fits)
  <2>1. client.head \in 1 .. Len(reply)
    BY <1>2, <1>4, <1>6
  <2> QED
    BY <1>2, <2>1 DEF Found, Fits
<1>7. ASSUME client.head \in 1 .. client.at - 1, ResultIsRead PROVE ResultIsRead'
  <2>1. client.head + 1 \in Nat \ {0} /\ client.at - 1 \in Nat /\ client.at - 1 <= Len(reply)
    BY <1>2, <1>4, <1>7
  <2>2. IsRead(PresultOf(client.method), client.result, reply, client.head + 1, client.at - 1)
        /\ client.result \in StructOf(PresultOf(client.method))
    BY <1>7 DEF ResultIsRead
  <2>3. IsRead(PresultOf(client.method), client.result, reply', client.head + 1, client.at - 1)
    BY <1>1, <2>1, <2>2, ReadGrows, Zenon
  <2> QED
    BY <2>2, <2>3 DEF ResultIsRead
<1>8. CASE client.phase \in {"exception", "result", "broken"} \/ (client.phase = "idle" /\ client.calls > 0)
  <2>1. Found' = Found /\ (Fits' <=> Fits) /\ (ResultIsRead => ResultIsRead')
    BY <1>5, <1>6, <1>7, <1>8
  <2> QED
    BY <1>3, <1>4, <1>8, <2>1 DEF ClientReads
<1>9. CASE ~ (client.phase \in {"exception", "result", "broken"} \/ (client.phase = "idle" /\ client.calls > 0))
  BY <1>3, <1>4, <1>9 DEF ClientReads
<1> QED
  BY <1>8, <1>9
-----------------------------------------------------------------------------
(* The server reads: only its position and its arguments change. *)
LEMMA ReadCallStep == StubsInv /\ ReadCall => StubsInv'
<1> SUFFICES ASSUME StubsInv, ReadCall PROVE StubsInv'
  OBVIOUS
<1>1. /\ peer # "server" /\ server.phase = "head" /\ server.at <= Len(request)
      /\ UNCHANGED <<peer, request, reply, client, log>>
  BY Zenon DEF ReadCall
<1>2. Streams /\ ServerReads /\ Logged
  BY <1>1 DEF StubsInv
<1>3. WellFormed(request) /\ request \in Seq(Tokens) /\ Before(request, server.at)
  BY <1>1, <1>2 DEF Streams, ServerReads, WellFormed
<1> DEFINE at == server.at
           t == request[at]
<1>4. t \in HeadTokens /\ t.token = "message" /\ at \in 1 .. Len(request) /\ Inside(request, at, at + 1)
  BY <1>1, <1>3, ReadHead, Zenon
<1>5. server' = [phase |-> dispatchCall(t.name), at |-> at + 1, head |-> at,
                 args |-> Blank(IF t.name \in Method THEN ArgsOf(t.name) ELSE <<>>)]
  BY <1>4 DEF ReadCall, Serving
<1>6. /\ server'.at = at + 1 /\ server'.head = at /\ server'.phase = dispatchCall(t.name)
      /\ server'.args = Blank(IF t.name \in Method THEN ArgsOf(t.name) ELSE <<>>)
      /\ Called' = t /\ server'.phase \in {"args", "skip"}
      /\ server'.phase = "args" <=> t.name \in Method
  BY <1>1, <1>5 DEF Called, dispatchCall
<1>7. at \in Nat \ {0} /\ at <= Len(request) /\ Len(request) \in Nat
  BY <1>3, <1>4
<1> HIDE DEF at, t
<1>8. ServerReads'
  <2>1. ASSUME t.name \in Method
        PROVE  /\ server'.args \in StructOf(ArgsOf(t.name))
               /\ IsRead(ArgsOf(t.name), server'.args, request, at + 1, at)
    <3>1. server'.args = Blank(ArgsOf(t.name)) /\ at + 1 \in Nat /\ (at + 1) - 1 = at
      BY <1>6, <1>7, <2>1
    <3>2. /\ Blank(ArgsOf(t.name)) \in StructOf(ArgsOf(t.name))
          /\ IsRead(ArgsOf(t.name), Blank(ArgsOf(t.name)), request, at + 1, (at + 1) - 1)
      BY <3>1, BlankRead, Zenon
    <3> QED
      BY <3>1, <3>2
  <2>2. Inside(request, at, at + 1) /\ (at + 1) - 1 = at
    BY <1>4, <1>7 DEF t
  <2>3. server'.at - 1 = at
    BY <1>6, <1>7
  <2> QED
    BY <1>1, <1>6, <2>1, <2>2, <2>3 DEF ServerReads
<1>9. Logged'
  <2>1. \A k \in 1 .. Len(log) : log[k].call \in 1 .. server'.at - 1 /\ log[k].call < server'.head
    BY <1>2, <1>6, <1>7 DEF Logged, at
  <2>2. \A k \in 1 .. Len(log) : IsAnswered(k)' /\ log[k].answer \in 1 .. Len(reply)
    BY <1>1, <1>2 DEF Logged, IsAnswered
  <2>3. ASSUME NEW i \in 1 .. server'.at - 1, request[i].token = "message"
        PROVE  (server'.phase # "head" /\ i = server'.head) \/ \E k \in 1 .. Len(log) : log[k].call = i
    <3>1. i = at \/ i \in 1 .. at - 1
      BY <1>6, <1>7
    <3>2. i \in 1 .. server.at - 1 => \E k \in 1 .. Len(log) : log[k].call = i
      BY <1>1, <1>2, <2>3 DEF Logged
    <3> QED
      BY <1>6, <3>1, <3>2 DEF at
  <2> QED
    BY <1>1, <1>2, <2>1, <2>2, <2>3 DEF Logged
<1>10. ASSUME peer = "none" PROVE EndToEnd'
  <2>1. ~ServerRests
    BY <1>1, <1>7 DEF ServerRests, at
  <2>2. client.phase = "reply" /\ Len(log) + 1 = client.calls /\ client.at = Len(reply) + 1 /\ CallAt(at)
    BY <1>1, <1>10, <2>1, <1>2 DEF StubsInv, EndToEnd, ClientReads, ClientType, at
  <2>3. CallAt(server.head)'
    BY <1>1, <1>6, <2>2 DEF CallAt
  <2> QED
    BY <1>1, <1>6, <2>2, <2>3 DEF EndToEnd
<1>11. peer # "client" => ClientReads'
  BY <1>1 DEF StubsInv, ClientReads, Found, Fits, ResultIsRead
<1> QED
  BY <1>1, <1>2, <1>8, <1>9, <1>10, <1>11 DEF StubsInv, Streams

(* What changes and what stays when the server reads on in the message with its head. *)
LEMMA ServerReadsOn ==
  ASSUME StubsInv, peer # "server", server.phase \in {"args", "skip"}, server.at <= Len(request),
         UNCHANGED <<peer, request, reply, client, log>>,
         server'.at = server.at + 1, server'.head = server.head,
         server'.phase \in {"args", "skip", "handler", "unknown"}
  PROVE  Streams' /\ Logged' /\ (peer # "client" => ClientReads') /\ (peer = "none" => EndToEnd')
<1>1. Streams /\ ServerReads /\ Logged
  BY DEF StubsInv
<1>2. WellFormed(request) /\ request \in Seq(Tokens) /\ Inside(request, server.head, server.at)
  BY <1>1 DEF Streams, ServerReads, WellFormed
<1>3. request[server.at].token \in {"field", "stop"} /\ server.at \in 1 .. Len(request)
  BY <1>2, ReadOn, Zenon
<1>4. server.at \in Nat \ {0} /\ server.at <= Len(request) /\ Len(request) \in Nat /\ server.head \in 1 .. server.at - 1
  BY <1>2, <1>3 DEF Inside
<1>5. Logged'
  <2>1. \A k \in 1 .. Len(log) : log[k].call \in 1 .. server'.at - 1 /\ log[k].call < server'.head
    <3>1. \A k \in 1 .. Len(log) : log[k].call \in 1 .. server.at - 1 /\ log[k].call < server.head
      BY <1>1 DEF Logged
    <3> QED
      BY <1>4, <3>1
  <2>2. \A k \in 1 .. Len(log) : IsAnswered(k)' /\ log[k].answer \in 1 .. Len(reply)
    BY <1>1 DEF Logged, IsAnswered
  <2>3. ASSUME NEW i \in 1 .. server'.at - 1, request[i].token = "message"
        PROVE  (server'.phase # "head" /\ i = server'.head) \/ \E k \in 1 .. Len(log) : log[k].call = i
    <3>1. i = server.at \/ i \in 1 .. server.at - 1
      BY <1>4
    <3>2. i # server.at
      BY <1>3, <2>3
    <3>3. i \in 1 .. server.at - 1 => (server.phase # "head" /\ i = server.head) \/ \E k \in 1 .. Len(log) : log[k].call = i
      BY <1>1, <2>3 DEF Logged
    <3> QED
      BY <3>1, <3>2, <3>3
  <2> QED
    BY <1>1, <2>1, <2>2, <2>3 DEF Logged
<1>6. ASSUME peer = "none" PROVE EndToEnd'
  <2>1. ~ServerRests
    BY DEF ServerRests
  <2>2. client.phase = "reply" /\ Len(log) + 1 = client.calls /\ client.at = Len(reply) + 1 /\ CallAt(server.head)
    BY <1>6, <2>1 DEF StubsInv, EndToEnd, ClientReads, ClientType
  <2>3. CallAt(server.head)'
    BY <2>2 DEF CallAt
  <2> QED
    BY <2>2, <2>3 DEF EndToEnd
<1>7. peer # "client" => ClientReads'
  BY DEF StubsInv, ClientReads, Found, Fits, ResultIsRead
<1> QED
  BY <1>1, <1>5, <1>6, <1>7 DEF Streams

LEMMA ReadArgStep == StubsInv /\ ReadArg => StubsInv'
<1> SUFFICES ASSUME StubsInv, ReadArg PROVE StubsInv'
  OBVIOUS
<1> DEFINE at == server.at
           t == request[at]
           decl == ArgsOf(Called.name)
<1>1. /\ peer # "server" /\ server.phase \in {"args", "skip"} /\ at <= Len(request) /\ t.token = "field"
      /\ server' = [phase |-> server.phase, at |-> at + 1, head |-> server.head,
                    args |-> IF server.phase = "args" THEN ReadField(decl, server.args, t) ELSE server.args]
      /\ UNCHANGED <<peer, request, reply, client, log>>
  BY Zenon DEF ReadArg, Serving
<1>2. Streams /\ ServerReads
  BY <1>1 DEF StubsInv
<1>3. WellFormed(request) /\ Inside(request, server.head, at)
  BY <1>1, <1>2 DEF Streams, ServerReads
<1>4. t \in FieldTokens /\ at \in 1 .. Len(request) /\ Inside(request, server.head, at + 1)
  BY <1>1, <1>3, ReadOn, Zenon
<1>5. /\ server'.at = at + 1 /\ server'.head = server.head /\ server'.phase = server.phase
      /\ server'.args = (IF server.phase = "args" THEN ReadField(decl, server.args, t) ELSE server.args)
      /\ Called' = Called
  BY <1>1 DEF Called
<1>6. at \in Nat \ {0} /\ server.head \in Nat /\ server.head + 1 <= at
  BY <1>3, <1>4 DEF Inside
<1>7. ServerReads'
  <2>1. ASSUME server.phase = "args"
        PROVE  /\ server'.args \in StructOf(decl)
               /\ IsRead(decl, server'.args, request, server.head + 1, at)
    <3>1. server.args \in StructOf(decl) /\ IsRead(decl, server.args, request, server.head + 1, at - 1)
      BY <1>2, <2>1 DEF ServerReads
    <3>2. server.head + 1 \in Nat /\ at \in Nat /\ server.head + 1 <= at
      BY <1>6
    <3> HIDE DEF decl
    <3>3. LET r == ReadField(decl, server.args, request[at]) IN
          r \in StructOf(decl) /\ IsRead(decl, r, request, server.head + 1, at)
      BY <1>4, <3>1, <3>2, FieldRead, Zenon
    <3> QED
      BY <1>5, <2>1, <3>3
  <2>2. server'.at - 1 = at
    BY <1>5, <1>6
  <2>3. /\ server.phase = "args" => Called.name \in Method
        /\ server.phase = "skip" => Called.name \notin Method
    BY <1>2 DEF ServerReads
  <2>4. Inside(request', server'.head, server'.at)
    BY <1>1, <1>4, <1>5
  <2> QED
    BY <1>1, <1>5, <2>1, <2>2, <2>3, <2>4 DEF ServerReads
<1>8. Streams' /\ Logged' /\ (peer # "client" => ClientReads') /\ (peer = "none" => EndToEnd')
  BY <1>1, <1>5, ServerReadsOn
<1> QED
  BY <1>1, <1>7, <1>8 DEF StubsInv

LEMMA EndArgsStep == StubsInv /\ EndArgs => StubsInv'
<1> SUFFICES ASSUME StubsInv, EndArgs PROVE StubsInv'
  OBVIOUS
<1> DEFINE at == server.at
           t == request[at]
           decl == ArgsOf(Called.name)
<1>1. /\ peer # "server" /\ server.phase \in {"args", "skip"} /\ at <= Len(request) /\ t.token # "field"
      /\ server' = [phase |-> IF t.token # "stop" THEN "broken" ELSE IF server.phase = "args" THEN "handler" ELSE "unknown",
                    at |-> at + 1, head |-> server.head, args |-> server.args]
      /\ UNCHANGED <<peer, request, reply, client, log>>
  BY Zenon DEF EndArgs, Serving
<1>2. Streams /\ ServerReads
  BY <1>1 DEF StubsInv
<1>3. WellFormed(request) /\ Inside(request, server.head, at)
  BY <1>1, <1>2 DEF Streams, ServerReads
<1>4. t.token = "stop" /\ at \in 1 .. Len(request) /\ Behind(request, server.head, at + 1)
  <2>1. t.token \in {"field", "stop"} /\ at \in 1 .. Len(request)
        /\ (t.token = "stop" => Behind(request, server.head, at + 1))
    BY <1>1, <1>3, ReadOn, Zenon
  <2> QED
    BY <1>1, <2>1
<1>5. /\ server'.at = at + 1 /\ server'.head = server.head
      /\ server'.phase = (IF server.phase = "args" THEN "handler" ELSE "unknown")
      /\ server'.args = server.args /\ Called' = Called
  BY <1>1, <1>4 DEF Called
<1>6. at \in Nat \ {0} /\ server.head \in Nat
  BY <1>3, <1>4 DEF Inside
<1>7. ServerReads'
  <2>1. ASSUME server.phase = "args"
        PROVE  server.args \in StructOf(decl) /\ IsRead(decl, server.args, request, server.head + 1, at)
    <3>1. server.args \in StructOf(decl) /\ IsRead(decl, server.args, request, server.head + 1, at - 1)
      BY <1>2, <2>1 DEF ServerReads
    <3>2. server.head + 1 \in Nat /\ at \in Nat
      BY <1>6
    <3> HIDE DEF decl
    <3> QED
      BY <1>1, <3>1, <3>2, StopRead, Zenon
  <2>2. server'.at - 1 = at
    BY <1>5, <1>6
  <2>3. /\ server.phase = "args" => Called.name \in Method
        /\ server.phase = "skip" => Called.name \notin Method
    BY <1>2 DEF ServerReads
  <2>4. Behind(request', server'.head, server'.at)
    BY <1>1, <1>4, <1>5
  <2> QED
    BY <1>1, <1>5, <2>1, <2>2, <2>3, <2>4 DEF ServerReads
<1>8. Streams' /\ Logged' /\ (peer # "client" => ClientReads') /\ (peer = "none" => EndToEnd')
  BY <1>1, <1>5, ServerReadsOn
<1> QED
  BY <1>1, <1>7, <1>8 DEF StubsInv
-----------------------------------------------------------------------------
(* One more entry of the log. *)
LEMMA AppendEntry ==
  ASSUME NEW S, NEW s \in Seq(S), NEW e \in S
  PROVE  /\ Append(s, e) \in Seq(S) /\ Len(Append(s, e)) = Len(s) + 1 /\ Append(s, e)[Len(s) + 1] = e
         /\ \A i \in 1 .. Len(s) : Append(s, e)[i] = s[i]
<1>1. Append(s, e) \in Seq(S) /\ Len(Append(s, e)) = Len(s) + 1 /\ Append(s, e)[Len(s) + 1] = e
  OBVIOUS
<1>2. \A i \in 1 .. Len(s) : Append(s, e)[i] = s[i]
  OBVIOUS
<1> QED
  BY <1>1, <1>2

LEMMA LastIsStop ==
  ASSUME NEW head \in Nat, NEW at \in Nat, NEW n \in Nat, NEW len \in Nat,
         head \in 1 .. at - 2, at \in 1 .. len + 1, len = head + n + 1, at - 1 - head \notin 1 .. n
  PROVE  at = len + 1
  OBVIOUS

(* What the server and the client answer and send are tokens. *)
LEMMA Answers ==
  ASSUME NEW m \in Method, NEW value \in Values
  PROVE  /\ WriteResult(m, value) \in Seq(FieldTokens) /\ Len(WriteResult(m, value)) = 1
         /\ WriteResult(m, value)[1] = Field(0, ResultOf(m)[0], value)
<1>1. Field(0, ResultOf(m)[0], value) \in FieldTokens
  BY Declared, FieldFacts
<1> QED
  BY <1>1 DEF WriteResult

LEMMA Exceptions ==
  ApplicationException \in Seq(FieldTokens) /\ Len(ApplicationException) = 2
<1>1. Field(1, "STRING", 0) \in FieldTokens /\ Field(2, "I32", 0) \in FieldTokens
  BY StubsAssumption, FieldFacts DEF TType
<1> QED
  BY <1>1 DEF ApplicationException

LEMMA Arguments ==
  ASSUME NEW m \in Method, NEW values \in [DOMAIN PargsOf(m) -> Values]
  PROVE  /\ WriteArgs(m, values) \in Seq(FieldTokens) /\ Len(WriteArgs(m, values)) = Arity(m)
         /\ \A id \in 1 .. Arity(m) : WriteArgs(m, values)[id] = Field(id, PargsOf(m)[id], values[id])
<1>1. /\ Arity(m) \in Nat /\ DOMAIN PargsOf(m) = 1 .. Arity(m)
      /\ \A id \in 1 .. Arity(m) : PargsOf(m)[id] \in TType
  BY Declared
<1>2. ASSUME NEW id \in 1 .. Arity(m) PROVE Field(id, PargsOf(m)[id], values[id]) \in FieldTokens
  <2>1. id \in Nat /\ PargsOf(m)[id] \in TType /\ values[id] \in Values
    BY <1>1
  <2> QED
    BY <2>1, FieldFacts
<1>3. WriteArgs(m, values) = [id \in 1 .. Arity(m) |-> Field(id, PargsOf(m)[id], values[id])]
  BY <1>1 DEF WriteArgs
<1>4. WriteArgs(m, values) \in [1 .. Arity(m) -> FieldTokens]
  BY <1>2, <1>3
<1>5. WriteArgs(m, values) \in Seq(FieldTokens)
  BY <1>1, <1>4
<1> HIDE DEF Arity
<1>6. Len(WriteArgs(m, values)) = Arity(m)
  <2>1. DOMAIN WriteArgs(m, values) = 1 .. Arity(m)
    BY <1>3
  <2> QED
    BY <1>1, <1>5, <2>1
<1> QED
  BY <1>3, <1>5, <1>6
-----------------------------------------------------------------------------
(***************************************************************************)
(* The server answers: the answer comes behind all others, with the entry  *)
(* of the log that belongs to it.                                          *)
(***************************************************************************)
LEMMA AnswerStep ==
  ASSUME StubsInv, server.phase \in {"handler", "unknown"},
         NEW got \in {"returned", "exception"}, NEW value \in Values, NEW fields \in Seq(FieldTokens),
         got = "returned" => server.phase = "handler" /\ fields = WriteResult(Called.name, value),
         got = "exception" => value = 0 /\ fields = ApplicationException,
         Answer(IF got = "returned" THEN "REPLY" ELSE "EXCEPTION", fields, got, value)
  PROVE  StubsInv'
<1> DEFINE type == IF got = "returned" THEN "REPLY" ELSE "EXCEPTION"
           call == Called
           head == Message(call.name, type, call.seqid)
           entry == [call |-> server.head, answer |-> Len(reply) + 1, got |-> got, value |-> value]
           Entries == [call : Nat, answer : Nat, got : {"returned", "exception"}, value : Values]
<1>1. /\ reply' = reply \o Whole(head, fields) /\ log' = Append(log, entry)
      /\ server' = [phase |-> "head", at |-> server.at, head |-> 0, args |-> Blank(<<>>)]
      /\ UNCHANGED <<peer, request, client>>
  BY Zenon DEF Answer
<1>2. peer # "server" /\ Streams /\ ServerReads /\ Logged
  BY DEF StubsInv
<1>3. WellFormed(request) /\ WellFormed(reply) /\ Complete(reply) /\ Behind(request, server.head, server.at)
  BY <1>2 DEF Streams, ServerReads
<1>4. request \in Seq(Tokens) /\ reply \in Seq(Tokens)
  BY <1>3, Zenon DEF WellFormed
<1>5. Len(request) \in Nat /\ Len(reply) \in Nat
  BY <1>4
<1>6. /\ server.at \in 1 .. Len(request) + 1 /\ server.head \in 1 .. server.at - 2 /\ server.head \in 1 .. Len(request)
      /\ call.token = "message" /\ request[server.at - 1].token = "stop"
      /\ \A i \in server.head + 1 .. server.at - 2 : request[i].token = "field"
  BY <1>3, <1>5 DEF Behind, Called
<1>7. call \in HeadTokens
  <2>1. call \in Tokens
    BY <1>4, <1>6 DEF Called
  <2> QED
    BY <1>6, <2>1, TokenKinds
<1>8. /\ head \in HeadTokens /\ type \in TMessageType
  <2>1. call.name \in PeerNames \cup Method /\ call.seqid \in Nat /\ type \in TMessageType
    BY <1>7 DEF HeadTokens, TMessageType
  <2> QED
    BY <2>1 DEF Message, HeadTokens
<1>9. /\ WellFormed(reply') /\ Complete(reply') /\ Continues(reply, reply')
      /\ Len(reply') = Len(reply) + Len(fields) + 2
      /\ reply'[Len(reply) + 1] = head
      /\ \A i \in 1 .. Len(fields) : reply'[Len(reply) + 1 + i] = fields[i]
      /\ \A i \in Len(reply) + 2 .. Len(reply') : reply'[i].token # "message"
  <2> HIDE DEF head
  <2>1. Follows(reply, reply', head, fields)
    BY <1>1, <1>3, <1>8, WholeStream, Zenon
  <2> QED
    BY <2>1, Zenon DEF Follows
<1>10. /\ server'.phase = "head" /\ server'.at = server.at
  BY <1>1
<1>11. entry \in Entries
  BY <1>5, <1>6
<1>12. log \in Seq(Entries)
  BY <1>2 DEF Logged
<1>13. /\ log' \in Seq(Entries) /\ Len(log') = Len(log) + 1 /\ log'[Len(log) + 1] = entry
       /\ \A k \in 1 .. Len(log) : log'[k] = log[k]
  <2> HIDE DEF entry, Entries
  <2>1. /\ Append(log, entry) \in Seq(Entries) /\ Len(Append(log, entry)) = Len(log) + 1
        /\ Append(log, entry)[Len(log) + 1] = entry
        /\ \A k \in 1 .. Len(log) : Append(log, entry)[k] = log[k]
    BY <1>11, <1>12, AppendEntry
  <2> QED
    BY <1>1, <2>1, Zenon
<1>14. Len(log) \in Nat
  BY <1>12
<1>15. entry.call = server.head /\ entry.answer = Len(reply) + 1 /\ entry.got = got /\ entry.value = value
  OBVIOUS
<1> HIDE DEF entry, Entries, type, head, call
<1>16. Streams'
  BY <1>1, <1>2, <1>3, <1>9 DEF Streams
<1>17. ServerReads'
  <2>1. Before(request, server.at)
    BY <1>5, <1>6 DEF Before
  <2> QED
    BY <1>1, <1>10, <2>1 DEF ServerReads
<1>18. Logged'
  <2>1. ASSUME NEW k \in 1 .. Len(log')
        PROVE  /\ log'[k].call \in 1 .. server.at - 1
               /\ log'[k].answer \in 1 .. Len(reply')
               /\ IsAnswered(k)'
    <3>1. CASE k = Len(log) + 1
      <4>1. log'[k] = entry
        BY <1>13, <3>1
      <4>2. log'[k].call \in 1 .. server.at - 1 /\ log'[k].answer \in 1 .. Len(reply')
        <5>1. Len(fields) \in Nat
          OBVIOUS
        <5>2. Len(reply') = Len(reply) + Len(fields) + 2 /\ log'[k].call = server.head /\ log'[k].answer = Len(reply) + 1
          BY <1>9, <1>15, <4>1
        <5> QED
          BY <1>5, <1>6, <5>1, <5>2
      <4>3. IsAnswered(k)'
        <5>1. request[log'[k].call] = call /\ reply'[log'[k].answer] = head /\ log'[k].got = got
          BY <1>9, <1>15, <4>1 DEF call, Called
        <5>2. got = "returned" => call.name \in Method
          BY <1>2 DEF ServerReads, call
        <5>3. head = Message(call.name, IF got = "returned" THEN "REPLY" ELSE "EXCEPTION", call.seqid)
          BY DEF head, type
        <5> QED
          BY <1>1, <5>1, <5>2, <5>3 DEF IsAnswered
      <4> QED
        BY <4>2, <4>3
    <3>2. CASE k # Len(log) + 1
      <4>1. k \in 1 .. Len(log) /\ log'[k] = log[k]
        BY <1>13, <1>14, <3>2
      <4>2. log[k].call \in 1 .. server.at - 1 /\ log[k].answer \in 1 .. Len(reply) /\ IsAnswered(k)
        BY <1>2, <4>1 DEF Logged
      <4>3. log[k].answer \in 1 .. Len(reply') /\ reply'[log[k].answer] = reply[log[k].answer]
        <5>1. Len(reply') \in Nat /\ Len(reply) <= Len(reply') /\ \A i \in 1 .. Len(reply) : reply'[i] = reply[i]
          <6>1. Len(fields) \in Nat
            OBVIOUS
          <6> QED
            BY <1>5, <1>9, <6>1 DEF Continues
        <5> QED
          BY <1>5, <4>2, <5>1
      <4> QED
        BY <1>1, <4>1, <4>2, <4>3 DEF IsAnswered
    <3> QED
      BY <3>1, <3>2
  <2>2. ASSUME NEW j \in 1 .. Len(log'), NEW k \in 1 .. Len(log'), j < k
        PROVE  log'[j].call < log'[k].call /\ log'[j].answer < log'[k].answer
    <3>1. j \in 1 .. Len(log) /\ log'[j] = log[j]
      BY <1>13, <1>14, <2>2
    <3>2. CASE k = Len(log) + 1
      <4>1. log'[k].call = server.head /\ log'[k].answer = Len(reply) + 1
        BY <1>13, <1>15, <3>2
      <4>2. log[j].call < server.head /\ log[j].answer \in 1 .. Len(reply)
        BY <1>2, <3>1 DEF Logged
      <4> QED
        BY <1>5, <3>1, <4>1, <4>2
    <3>3. CASE k # Len(log) + 1
      <4>1. k \in 1 .. Len(log) /\ log'[k] = log[k]
        BY <1>13, <1>14, <3>3
      <4> QED
        BY <1>2, <2>2, <3>1, <4>1 DEF Logged
    <3> QED
      BY <3>2, <3>3
  <2>3. ASSUME NEW i \in 1 .. server.at - 1, request[i].token = "message"
        PROVE  \E k \in 1 .. Len(log') : log'[k].call = i
    <3>1. i = server.head \/ \E k \in 1 .. Len(log) : log[k].call = i
      BY <1>2, <2>3 DEF Logged
    <3>2. CASE i = server.head
      <4>1. Len(log) + 1 \in 1 .. Len(log') /\ log'[Len(log) + 1].call = i
        BY <1>13, <1>14, <1>15, <3>2
      <4> QED
        BY <4>1
    <3>3. CASE \E k \in 1 .. Len(log) : log[k].call = i
      <4>1. PICK k \in 1 .. Len(log) : log[k].call = i
        BY <3>3
      <4>2. k \in 1 .. Len(log') /\ log'[k].call = i
        BY <1>13, <1>14, <4>1
      <4> QED
        BY <4>2
    <3> QED
      BY <3>1, <3>2, <3>3
  <2>4. ASSUME NEW i \in 1 .. Len(reply'), reply'[i].token = "message"
        PROVE  \E k \in 1 .. Len(log') : log'[k].answer = i
    <3>1. i \in 1 .. Len(reply) \/ i = Len(reply) + 1
      <4>1. Len(fields) \in Nat
        OBVIOUS
      <4>2. Len(reply') = Len(reply) + Len(fields) + 2 /\ i \notin Len(reply) + 2 .. Len(reply')
        BY <1>9, <2>4
      <4> QED
        BY <1>5, <4>1, <4>2
    <3>2. CASE i = Len(reply) + 1
      <4>1. Len(log) + 1 \in 1 .. Len(log') /\ log'[Len(log) + 1].answer = i
        BY <1>13, <1>14, <1>15, <3>2
      <4> QED
        BY <4>1
    <3>3. CASE i \in 1 .. Len(reply)
      <4>1. reply[i].token = "message"
        BY <1>9, <2>4, <3>3 DEF Continues
      <4>2. PICK k \in 1 .. Len(log) : log[k].answer = i
        BY <1>2, <3>3, <4>1 DEF Logged
      <4>3. k \in 1 .. Len(log') /\ log'[k].answer = i
        BY <1>13, <1>14, <4>2
      <4> QED
        BY <4>3
    <3> QED
      BY <3>1, <3>2, <3>3
  <2> QED
    BY <1>1, <1>10, <1>13, <2>1, <2>2, <2>3, <2>4 DEF Logged, Entries
<1>19. peer # "client" => ClientReads'
  BY <1>1, <1>3, <1>9, ReplyGrows DEF StubsInv
<1>20. ASSUME peer = "none" PROVE EndToEnd'
  <2>1. ~ServerRests
    BY DEF ServerRests
  <2>2. client.phase = "reply" /\ Len(log) + 1 = client.calls /\ client.at = Len(reply) + 1 /\ CallAt(server.head)
    BY <1>20, <2>1 DEF StubsInv, EndToEnd, ClientReads, ClientType
  <2>3. client.method \in Method
    BY <1>14, <1>20, <2>2 DEF StubsInv, ClientReads
  <2>4. /\ request[server.head] = Message(client.method, "CALL", 0)
        /\ \A id \in 1 .. Arity(client.method) : request[server.head + id].token = "field"
        /\ Len(request) = server.head + Arity(client.method) + 1
    <3>1. /\ request[server.head] = Message(client.method, "CALL", 0)
          /\ \A id \in 1 .. Arity(client.method) :
               request[server.head + id] = Field(id, PargsOf(client.method)[id], client.values[id])
          /\ Len(request) = server.head + Arity(client.method) + 1
      BY <2>2, Zenon DEF CallAt
    <3>2. \A id, type0, v : Field(id, type0, v).token = "field"
      BY DEF Field
    <3>3. ASSUME NEW id \in 1 .. Arity(client.method) PROVE request[server.head + id].token = "field"
      <4>1. request[server.head + id] = Field(id, PargsOf(client.method)[id], client.values[id])
        BY <3>1, Zenon
      <4> QED
        BY <3>2, <4>1
    <3> QED
      BY <3>1, <3>3, Zenon
  <2>5. server.at = Len(request) + 1
    <3> DEFINE n == Arity(client.method)
    <3>1. n \in 1 .. 2
      BY <2>3, Declared
    <3>2. server.head \in 1 .. server.at - 2 /\ server.at \in 1 .. Len(request) + 1 /\ Len(request) = server.head + n + 1
      BY <1>6, <2>4, Zenon
    <3>3. ASSUME NEW id \in 1 .. n PROVE server.head + id # server.at - 1
      <4>1. request[server.head + id].token # "stop"
        BY <2>4
      <4> QED
        BY <1>6, <4>1
    <3> HIDE DEF n
    <3>4. server.head \in Nat /\ server.at \in Nat /\ n \in Nat
      BY <1>5, <3>1, <3>2
    <3>5. CASE server.at - 1 - server.head \in 1 .. n
      <4>1. server.head + (server.at - 1 - server.head) # server.at - 1
        BY <3>3, <3>5
      <4> QED
        BY <3>4, <4>1
    <3>6. CASE server.at - 1 - server.head \notin 1 .. n
      BY <1>5, <3>2, <3>4, <3>6, LastIsStop, Zenon
    <3> QED
      BY <3>5, <3>6
  <2>6. call.name = client.method /\ call.seqid = 0
    <3>1. call = Message(client.method, "CALL", 0)
      BY <2>4, Zenon DEF call, Called
    <3> QED
      BY <3>1 DEF Message
  <2>7. ServerRests'
    BY <1>1, <1>10, <1>13, <2>2, <2>5 DEF ServerRests
  <2>8. AnswerAt(client.at)'
    <3>1. client.calls = Len(log) + 1 /\ log'[client.calls] = entry
      BY <1>13, <1>14, <2>2
    <3>2. reply'[client.at] = Message(client.method, IF got = "returned" THEN "REPLY" ELSE "EXCEPTION", 0)
      BY <1>9, <2>2, <2>6 DEF head, type
    <3>3. ASSUME got = "returned"
          PROVE  Len(reply') = client.at + 2 /\ reply'[client.at + 1] = Field(0, ResultOf(client.method)[0], value)
      <4>1. Len(fields) = 1 /\ fields[1] = Field(0, ResultOf(client.method)[0], value)
        BY <2>3, <2>6, <3>3, Answers DEF call
      <4>2. 1 \in 1 .. Len(fields) /\ Len(reply) + 1 + 1 = client.at + 1 /\ Len(reply) + 1 + 2 = client.at + 2
        BY <1>5, <2>2, <4>1
      <4>3. reply'[Len(reply) + 1 + 1] = fields[1]
        BY <1>9, <4>2
      <4> QED
        BY <1>5, <1>9, <2>2, <4>1, <4>2, <4>3
    <3>4. ASSUME got = "exception" PROVE value = 0 /\ Len(reply') = client.at + 3
      <4>1. Len(fields) = 2
        BY <3>4, Exceptions
      <4> QED
        BY <1>5, <1>9, <2>2, <3>4, <4>1
    <3>5. client' = client /\ log'[client.calls].got = got /\ log'[client.calls].value = value
          /\ log'[client.calls].answer = client.at
      BY <1>1, <1>15, <2>2, <3>1
    <3> QED
      BY <3>2, <3>3, <3>4, <3>5 DEF AnswerAt
  <2> QED
    BY <1>1, <2>2, <2>7, <2>8 DEF EndToEnd
<1> QED
  BY <1>1, <1>2, <1>16, <1>17, <1>18, <1>19, <1>20 DEF StubsInv

LEMMA ReturnStep == \A value \in Values : StubsInv /\ Return(value) => StubsInv'
<1> SUFFICES ASSUME NEW value \in Values, StubsInv, Return(value) PROVE StubsInv'
  OBVIOUS
<1>1. server.phase = "handler" /\ Answer("REPLY", WriteResult(Called.name, value), "returned", value)
  BY Zenon DEF Return
<1>2. Called.name \in Method
  BY <1>1 DEF StubsInv, ServerReads
<1> DEFINE fields == WriteResult(Called.name, value)
           got == "returned"
<1>3. fields \in Seq(FieldTokens)
  BY <1>2, Answers, Zenon
<1>4. Answer(IF got = "returned" THEN "REPLY" ELSE "EXCEPTION", fields, got, value)
  BY <1>1
<1> QED
  BY <1>1, <1>3, <1>4, AnswerStep

LEMMA RefuseStep == StubsInv /\ (Throw \/ Refuse) => StubsInv'
<1> SUFFICES ASSUME StubsInv, Throw \/ Refuse PROVE StubsInv'
  OBVIOUS
<1> DEFINE got == "exception"
           value == 0
<1>1. server.phase \in {"handler", "unknown"} /\ Answer("EXCEPTION", ApplicationException, "exception", 0)
  BY DEF Throw, Refuse
<1>2. Answer(IF got = "returned" THEN "REPLY" ELSE "EXCEPTION", ApplicationException, got, value)
  BY <1>1
<1>3. ApplicationException \in Seq(FieldTokens) /\ value \in Values
  BY Exceptions, StubsAssumption
<1> QED
  BY <1>1, <1>2, <1>3, AnswerStep

(* The client calls: the call comes behind all others. *)
LEMMA SendStep ==
  \A m \in Method : \A values \in [DOMAIN PargsOf(m) -> Values] : StubsInv /\ send_(m, values) => StubsInv'
<1> SUFFICES ASSUME NEW m \in Method, NEW values \in [DOMAIN PargsOf(m) -> Values], StubsInv, send_(m, values)
             PROVE  StubsInv'
  OBVIOUS
<1> DEFINE head == Message(m, "CALL", 0)
           fields == WriteArgs(m, values)
<1>1. /\ peer # "client" /\ client.phase = "idle"
      /\ request' = request \o Whole(head, fields)
      /\ client' = [phase |-> "reply", at |-> client.at, head |-> 0, skips |-> 0, calls |-> client.calls + 1,
                    method |-> m, values |-> values, result |-> Blank(PresultOf(m)), got |-> "nothing", value |-> 0]
      /\ UNCHANGED <<peer, reply, server, log>>
  BY Zenon DEF send_
<1>2. Streams /\ ClientReads
  BY <1>1 DEF StubsInv
<1>3. WellFormed(request) /\ Complete(request) /\ WellFormed(reply)
  BY <1>1, <1>2 DEF Streams
<1>4. /\ fields \in Seq(FieldTokens) /\ Len(fields) = Arity(m)
      /\ \A id \in 1 .. Arity(m) : fields[id] = Field(id, PargsOf(m)[id], values[id])
  BY Arguments, Zenon
<1>5. head \in HeadTokens
  BY DEF Message, HeadTokens, TMessageType
<1> HIDE DEF head, fields
<1>6. Follows(request, request', head, fields)
  BY <1>1, <1>3, <1>4, <1>5, WholeStream, Zenon
<1>7. /\ WellFormed(request') /\ Complete(request') /\ Continues(request, request')
      /\ Len(request') = Len(request) + Len(fields) + 2 /\ request'[Len(request) + 1] = head
      /\ \A i \in 1 .. Len(fields) : request'[Len(request) + 1 + i] = fields[i]
  BY <1>6, Zenon DEF Follows
<1>8. Streams'
  BY <1>1, <1>2, <1>7 DEF Streams
<1>9. peer # "server" => ServerReads' /\ Logged'
  <2> SUFFICES ASSUME peer # "server" PROVE ServerReads' /\ Logged'
    OBVIOUS
  <2>1. ServerReads /\ Logged
    BY DEF StubsInv
  <2> QED
    BY <1>1, <1>3, <1>7, <2>1, RequestGrows
<1>10. /\ client'.phase = "reply" /\ client'.at = client.at /\ client'.calls = client.calls + 1
       /\ client'.method = m /\ client'.values = values /\ client'.result = Blank(PresultOf(m)) /\ client'.got = "nothing"
  BY <1>1
<1>11. client.at \in 1 .. Len(reply) + 1 /\ client.calls \in Nat /\ Before(reply, client.at)
  BY <1>1, <1>2 DEF ClientReads, ClientType
<1>12. ClientReads'
  <2>1. Blank(PresultOf(m)) \in ClientResults
    <3>1. DOMAIN PresultOf(m) = 0 .. 0
      BY Declared
    <3> QED
      BY <3>1, StubsAssumption DEF Blank, ClientResults
  <2>2. client' \in ClientType
    <3>1. client.at \in Nat /\ client.calls + 1 \in Nat
      <4>1. Len(reply) \in Nat
        BY <1>3 DEF WellFormed
      <4> QED
        BY <1>11, <4>1
    <3>2. values \in ClientValues
      BY DEF ClientValues
    <3> HIDE DEF ClientType
    <3> QED
      BY <1>1, <2>1, <3>1, <3>2, StubsAssumption DEF ClientType
  <2>3. ClientType' = ClientType
    BY DEF ClientType
  <2>4. client.calls + 1 > 0
    BY <1>11
  <2> QED
    BY <1>1, <1>10, <1>11, <2>2, <2>3, <2>4 DEF ClientReads
<1>13. ASSUME peer = "none" PROVE EndToEnd'
  <2>1. ServerRests /\ client.at = Len(reply) + 1
    BY <1>1, <1>13 DEF StubsInv, EndToEnd
  <2>2. server.phase = "head" /\ server.at = Len(request) + 1 /\ Len(log) = client.calls
    BY <2>1 DEF ServerRests
  <2>3. /\ Arity(m) \in 1 .. 2 /\ DOMAIN PargsOf(m) = 1 .. Arity(m) /\ Len(request) \in Nat
    BY <1>3, Declared DEF WellFormed
  <2>4. CallAt(server.at)'
    <3>1. server.at \in Nat \ {0} /\ Len(request') = server.at + Arity(m) + 1
      BY <1>4, <1>7, <2>2, <2>3
    <3>2. request'[server.at] = Message(m, "CALL", 0)
      BY <1>7, <2>2 DEF head
    <3>3. \A id \in 1 .. Arity(m) : request'[server.at + id] = Field(id, PargsOf(m)[id], values[id])
      BY <1>4, <1>7, <2>2
    <3>4. values \in [1 .. Arity(m) -> Values]
      BY <2>3
    <3> QED
      BY <1>1, <1>10, <3>1, <3>2, <3>3, <3>4 DEF CallAt
  <2>5. Len(log) + 1 = client'.calls /\ client'.at = Len(reply) + 1
    BY <1>10, <2>1, <2>2
  <2> QED
    BY <1>1, <1>10, <2>2, <2>4, <2>5 DEF EndToEnd
<1> QED
  BY <1>1, <1>8, <1>9, <1>12, <1>13 DEF StubsInv
-----------------------------------------------------------------------------
(* A peer sends one token. *)
LEMMA PeerTokens ==
  ASSUME NEW s, WellFormed(s), peer \in {"client", "server"}, NEW types \in SUBSET TMessageType,
         NEW t \in NextTokens(s, types)
  PROVE  t \in Tokens /\ (Complete(s) <=> t.token = "message")
<1>1. CASE Complete(s)
  <2>1. PICK name \in PeerNames, type \in types : t = Message(name, type, PeerSeqid)
    BY <1>1 DEF NextTokens, Complete
  <2> QED
    BY <1>1, <2>1, Heads, StubsAssumption
<1>2. CASE ~Complete(s)
  <2>1. t \in PeerFields[peer] \cup {Stop}
    BY <1>2 DEF NextTokens, Complete
  <2>2. t \in FieldTokens \cup {Stop}
    BY <2>1, StubsAssumption
  <2> QED
    BY <1>2, <2>2 DEF Tokens, FieldTokens, Stop
<1> QED
  BY <1>1, <1>2

LEMMA PeerCallsStep == StubsInv /\ PeerCalls => StubsInv'
<1> SUFFICES ASSUME StubsInv, PeerCalls PROVE StubsInv'
  OBVIOUS
<1>1. PICK t \in NextTokens(request, {"CALL"}) : request' = Append(request, t)
  BY DEF PeerCalls
<1>2. peer = "client" /\ UNCHANGED <<peer, reply, server, client, log>>
  BY DEF PeerCalls
<1>3. Streams /\ ServerReads /\ Logged
  BY <1>2 DEF StubsInv
<1>4. WellFormed(request)
  BY <1>3 DEF Streams
<1>5. t \in Tokens /\ (Complete(request) <=> t.token = "message")
  BY <1>2, <1>4, PeerTokens DEF TMessageType
<1>6. WellFormed(request') /\ Continues(request, request')
  BY <1>1, <1>4, <1>5, AppendWellFormed
<1>7. ServerReads' /\ Logged'
  BY <1>2, <1>3, <1>4, <1>6, RequestGrows
<1>8. Streams'
  BY <1>2, <1>3, <1>6 DEF Streams
<1> QED
  BY <1>2, <1>7, <1>8 DEF StubsInv

LEMMA PeerAnswersStep == StubsInv /\ PeerAnswers => StubsInv'
<1> SUFFICES ASSUME StubsInv, PeerAnswers PROVE StubsInv'
  OBVIOUS
<1>1. PICK t \in NextTokens(reply, TMessageType) : reply' = Append(reply, t)
  BY DEF PeerAnswers
<1>2. peer = "server" /\ UNCHANGED <<peer, request, server, client, log>>
  BY DEF PeerAnswers
<1>3. Streams /\ ClientReads
  BY <1>2 DEF StubsInv
<1>4. WellFormed(reply)
  BY <1>3 DEF Streams
<1>5. t \in Tokens /\ (Complete(reply) <=> t.token = "message")
  BY <1>2, <1>4, PeerTokens
<1>6. WellFormed(reply') /\ Continues(reply, reply')
  BY <1>1, <1>4, <1>5, AppendWellFormed
<1>7. ClientReads'
  BY <1>2, <1>3, <1>4, <1>6, ReplyGrows
<1>8. Streams'
  BY <1>2, <1>3, <1>6 DEF Streams
<1>9. server.phase = "head"
  BY <1>2 DEF StubsInv
<1> QED
  BY <1>2, <1>7, <1>8, <1>9 DEF StubsInv
-----------------------------------------------------------------------------
(***************************************************************************)
(* The client reads.                                                       *)
(***************************************************************************)
(* The server's part and the streams are not touched. *)
LEMMA ClientStep ==
  ASSUME StubsInv, UNCHANGED <<peer, request, reply, server, log>>
  PROVE  /\ Streams' /\ (peer = "server" => server.phase = "head")'
         /\ (peer # "server" => ServerReads /\ Logged)'
<1>1. Streams' /\ (peer = "server" => server.phase = "head")'
  BY DEF StubsInv, Streams
<1>2. peer # "server" => ServerReads /\ Logged
  BY DEF StubsInv
<1>3. ServerReads => ServerReads'
  BY DEF ServerReads, Called
<1>4. Logged => Logged'
  <2>1. \A k : IsAnswered(k)' <=> IsAnswered(k)
    BY DEF IsAnswered
  <2> QED
    BY <2>1 DEF Logged
<1> QED
  BY <1>1, <1>2, <1>3, <1>4

LEMMA ReadReplyStep == StubsInv /\ ReadReply => StubsInv'
<1> SUFFICES ASSUME StubsInv, ReadReply PROVE StubsInv'
  OBVIOUS
<1> DEFINE at == client.at
           t == reply[at]
           next == IF t.token = "message" THEN recv_(client.method, t) ELSE [phase |-> "broken", skips |-> 0]
<1>1. /\ peer # "client" /\ client.phase = "reply" /\ at <= Len(reply)
      /\ client' = [client EXCEPT !.phase = next.phase, !.skips = next.skips, !.at = @ + 1, !.head = client.at]
      /\ UNCHANGED <<peer, request, reply, server, log>>
  BY Zenon DEF ReadReply
<1>2. Streams /\ ClientReads
  BY <1>1 DEF StubsInv
<1>3. /\ client \in ClientType /\ Before(reply, at) /\ client.result = Blank(PresultOf(client.method))
      /\ client.got = "nothing" /\ client.calls > 0 /\ client.method \in Method
  BY <1>1, <1>2 DEF ClientReads
<1>4. WellFormed(reply) /\ Len(reply) \in Nat
  BY <1>2 DEF Streams, WellFormed
<1>5. t \in HeadTokens /\ t.token = "message" /\ at \in 1 .. Len(reply) /\ Inside(reply, at, at + 1)
  BY <1>1, <1>3, <1>4, ReadHead, Zenon
<1>6. at \in Nat \ {0} /\ at + 1 \in 1 .. Len(reply) + 1 /\ at \in 1 .. (at + 1) - 1
  BY <1>4, <1>5
<1>7. next = recv_(client.method, t)
  BY <1>5
<1>8. /\ next.phase \in {"exception", "result"} /\ next.skips \in Nat
      /\ next.phase = "exception" <=> t.type = "EXCEPTION"
      /\ next.phase = "exception" => next.skips = 0
      /\ next.phase = "result" => (next.skips = 0 <=> t.type = "REPLY" /\ t.name = client.method)
  BY <1>7 DEF recv_
<1> HIDE DEF next
<1>9. /\ client' = [client EXCEPT !.phase = next.phase, !.skips = next.skips, !.at = at + 1, !.head = at]
  BY <1>1
<1>10. /\ client'.phase = next.phase /\ client'.skips = next.skips /\ client'.at = at + 1 /\ client'.head = at
       /\ client'.calls = client.calls /\ client'.method = client.method /\ client'.result = client.result
       /\ client'.got = client.got /\ client'.values = client.values
  BY <1>3, <1>9 DEF ClientType
<1>11. client' \in ClientType'
  <2> HIDE DEF at, t
  <2>1. client' = [phase |-> next.phase, at |-> at + 1, head |-> at, skips |-> next.skips, calls |-> client.calls,
                   method |-> client.method, values |-> client.values, result |-> client.result,
                   got |-> client.got, value |-> client.value]
    BY <1>3, <1>9 DEF ClientType
  <2>2. client' \in ClientType
    BY <1>3, <1>6, <1>8, <2>1 DEF ClientType
  <2> QED
    BY <2>2 DEF ClientType
<1>12. Found' = t /\ (Fits' <=> t.type = "REPLY" /\ t.name = client.method)
  BY <1>1, <1>10 DEF Found, Fits
<1> HIDE DEF at, t
<1>13. ResultIsRead'
  <2>1. Blank(PresultOf(client.method)) \in StructOf(PresultOf(client.method))
        /\ IsRead(PresultOf(client.method), Blank(PresultOf(client.method)), reply, at + 1, (at + 1) - 1)
    <3>1. at + 1 \in Nat
      BY <1>6
    <3> QED
      BY <3>1, BlankRead, Zenon
  <2> QED
    BY <1>1, <1>3, <1>10, <2>1 DEF ResultIsRead
<1>14. ClientReads'
  <2>1. Inside(reply', client'.head, client'.at)
    BY <1>1, <1>5, <1>10
  <2>2. client'.at \in 1 .. Len(reply') + 1 /\ client'.head \in 1 .. client'.at - 1
    BY <1>1, <1>6, <1>10
  <2>3. next.phase = "result" /\ ~Fits' => next.skips > 0
    BY <1>8, <1>12
  <2>4. next.phase = "result" /\ Fits' => next.skips = 0
    BY <1>8, <1>12
  <2> QED
    BY <1>3, <1>5, <1>8, <1>10, <1>11, <1>12, <1>13, <2>1, <2>2, <2>3, <2>4 DEF ClientReads
<1>15. ASSUME peer = "none" PROVE EndToEnd'
  <2>1. ServerRests /\ AnswerAt(at)
    BY <1>1, <1>4, <1>6, <1>15 DEF StubsInv, EndToEnd, at
  <2>2. ServerRests' /\ AnswerAt(client.head)'
    BY <1>1, <1>10, <2>1 DEF ServerRests, AnswerAt
  <2> QED
    BY <1>8, <1>10, <2>2 DEF EndToEnd
<1>16. /\ Streams' /\ (peer = "server" => server.phase = "head")'
       /\ (peer # "server" => ServerReads /\ Logged)'
  BY <1>1, ClientStep
<1> QED
  BY <1>1, <1>14, <1>15, <1>16 DEF StubsInv

LEMMA ReadResultStep == StubsInv /\ ReadResult => StubsInv'
<1> SUFFICES ASSUME StubsInv, ReadResult PROVE StubsInv'
  OBVIOUS
<1> DEFINE at == client.at
           t == reply[at]
           decl == PresultOf(client.method)
           result == IF client.phase = "result" /\ client.skips = 0 THEN ReadField(decl, client.result, t) ELSE client.result
<1>1. /\ peer # "client" /\ client.phase \in {"exception", "result"} /\ at <= Len(reply) /\ t.token = "field"
      /\ client' = [client EXCEPT !.at = at + 1, !.result = result]
      /\ UNCHANGED <<peer, request, reply, server, log>>
  BY DEF ReadResult
<1>2. Streams /\ ClientReads
  BY <1>1 DEF StubsInv
<1>3. /\ client \in ClientType /\ client.got = "nothing" /\ client.calls > 0 /\ client.method \in Method
      /\ client.head \in 1 .. at - 1 /\ Found.token = "message"
  BY <1>1, <1>2 DEF ClientReads
<1>4. WellFormed(reply) /\ Len(reply) \in Nat
  BY <1>2 DEF Streams, WellFormed
<1>5. Inside(reply, client.head, at) /\ (client.phase = "result" /\ ~Fits => client.skips > 0)
  <2>1. ~Before(reply, at)
    <3> SUFFICES ASSUME Before(reply, at) PROVE FALSE
      OBVIOUS
    <3>1. t.token = "message"
      BY <1>1, <1>4, ReadHead, Zenon
    <3> QED
      BY <1>1, <3>1
  <2> QED
    BY <1>1, <1>2, <2>1 DEF ClientReads
<1>6. t \in FieldTokens /\ at \in 1 .. Len(reply) /\ Inside(reply, client.head, at + 1)
  BY <1>1, <1>4, <1>5, ReadOn, Zenon
<1>7. at \in Nat \ {0} /\ at + 1 \in 1 .. Len(reply) + 1 /\ client.head \in 1 .. (at + 1) - 1 /\ client.head \in Nat
      /\ client.head + 1 <= at /\ client.head + 1 \in Nat /\ (at + 1) - 1 = at
  BY <1>3, <1>4, <1>6
<1>8. /\ client'.at = at + 1 /\ client'.result = result /\ client'.phase = client.phase /\ client'.head = client.head
      /\ client'.skips = client.skips
      /\ client'.calls = client.calls /\ client'.method = client.method
      /\ client'.got = client.got /\ client'.values = client.values
  BY <1>1, <1>3 DEF ClientType
<1>9. Found' = Found /\ (Fits' <=> Fits)
  BY <1>1, <1>8 DEF Found, Fits
<1>10. ASSUME client.phase = "result", Fits
       PROVE  result \in StructOf(decl) /\ IsRead(decl, result, reply, client.head + 1, at)
  <2>1. client.skips = 0 /\ client.result \in StructOf(decl)
        /\ IsRead(decl, client.result, reply, client.head + 1, at - 1)
    BY <1>2, <1>10 DEF ClientReads, ResultIsRead
  <2>2. result = ReadField(decl, client.result, t)
    BY <1>10, <2>1
  <2> HIDE DEF result, decl
  <2>3. LET r == ReadField(decl, client.result, reply[at]) IN
        r \in StructOf(decl) /\ IsRead(decl, r, reply, client.head + 1, at)
    BY <1>6, <1>7, <2>1, FieldRead, Zenon
  <2> QED
    BY <2>2, <2>3
<1>11. ASSUME ~(client.phase = "result" /\ Fits) PROVE result = client.result
  BY <1>1, <1>3, <1>5, <1>11 DEF ClientType
<1>12. client' \in ClientType'
  <2>1. DOMAIN decl = 0 .. 0
    BY <1>3, Declared
  <2>2. result \in ClientResults
    <3>1. CASE client.phase = "result" /\ Fits
      <4>1. result \in StructOf(decl)
        BY <1>10, <3>1
      <4> HIDE DEF result, decl
      <4> QED
        BY <2>1, <4>1 DEF StructOf, ClientResults
    <3>2. CASE ~(client.phase = "result" /\ Fits)
      <4>1. result = client.result
        BY <1>11, <3>2
      <4> HIDE DEF result
      <4> QED
        BY <1>3, <4>1 DEF ClientType
    <3> QED
      BY <3>1, <3>2
  <2> HIDE DEF result, at, t
  <2>3. client' = [phase |-> client.phase, at |-> at + 1, head |-> client.head, skips |-> client.skips,
                   calls |-> client.calls, method |-> client.method, values |-> client.values, result |-> result,
                   got |-> client.got, value |-> client.value]
    BY <1>1, <1>3 DEF ClientType
  <2>4. client' \in ClientType
    BY <1>3, <1>7, <2>2, <2>3 DEF ClientType
  <2> QED
    BY <2>4 DEF ClientType
<1> HIDE DEF result
<1>13. client.phase = "result" /\ Fits => ResultIsRead'
  BY <1>1, <1>7, <1>8, <1>10 DEF ResultIsRead
<1>14. ClientReads'
  <2>1. Inside(reply', client'.head, client'.at)
    BY <1>1, <1>6, <1>8
  <2>2. client'.at \in 1 .. Len(reply') + 1 /\ client'.head \in 1 .. client'.at - 1
    BY <1>1, <1>7, <1>8
  <2>3. /\ client.phase = "exception" => client.skips = 0 /\ Found.type = "EXCEPTION"
        /\ client.phase = "result" /\ Fits => client.skips = 0
        /\ client.phase = "result" /\ ~Fits => Found.type # "EXCEPTION"
    BY <1>2 DEF ClientReads
  <2> HIDE DEF at, t
  <2> QED
    BY <1>1, <1>3, <1>5, <1>8, <1>9, <1>12, <1>13, <2>1, <2>2, <2>3 DEF ClientReads
<1>15. ASSUME peer = "none" PROVE EndToEnd'
  <2>1. ServerRests /\ AnswerAt(client.head)
    BY <1>1, <1>15 DEF StubsInv, EndToEnd
  <2>2. ServerRests' /\ AnswerAt(client.head)'
    BY <1>1, <1>8, <2>1 DEF ServerRests, AnswerAt
  <2> QED
    BY <1>1, <1>8, <2>2 DEF EndToEnd
<1>16. /\ Streams' /\ (peer = "server" => server.phase = "head")'
       /\ (peer # "server" => ServerReads /\ Logged)'
  BY <1>1, ClientStep
<1> QED
  BY <1>1, <1>14, <1>15, <1>16 DEF StubsInv
(* The last answer is the last message, so the stop behind it is the end of the stream. *)
LEMMA LastAnswer ==
  ASSUME WellFormed(reply), Logged, Len(log) = client.calls, client.calls > 0,
         NEW at \in 1 .. Len(reply), reply[at].token = "stop", log[client.calls].answer < at
  PROVE  at = Len(reply)
<1> SUFFICES ASSUME at # Len(reply) PROVE FALSE
  OBVIOUS
<1>1. /\ Len(reply) \in Nat
      /\ \A i \in 1 .. Len(reply) - 1 : reply[i].token = "stop" <=> reply[i + 1].token = "message"
  BY DEF WellFormed
<1>2. at \in 1 .. Len(reply) - 1 /\ at + 1 \in 1 .. Len(reply)
  BY <1>1
<1>3. reply[at + 1].token = "message"
  BY <1>1, <1>2
<1>4. PICK k \in 1 .. Len(log) : log[k].answer = at + 1
  BY <1>2, <1>3 DEF Logged
<1>5. Len(log) \in Nat
  BY DEF Logged
<1>6. client.calls \in 1 .. Len(log) /\ (k = client.calls \/ k < client.calls)
  BY <1>4, <1>5
<1>7. log[client.calls].answer \in 1 .. Len(reply)
      /\ (k < client.calls => log[k].answer < log[client.calls].answer)
  BY <1>4, <1>6 DEF Logged
<1> QED
  BY <1>1, <1>2, <1>4, <1>6, <1>7

LEMMA Entry ==
  ASSUME Logged, NEW k \in 1 .. Len(log)
  PROVE  log[k].got \in {"returned", "exception"} /\ log[k].value \in Values
<1> DEFINE Entries == [call : Nat, answer : Nat, got : {"returned", "exception"}, value : Values]
<1>1. log \in Seq(Entries)
  BY Zenon DEF Logged
<1> HIDE DEF Entries
<1>2. log[k] \in Entries
  BY <1>1
<1> QED
  BY <1>2 DEF Entries

LEMMA EndResultStep == StubsInv /\ EndResult => StubsInv'
<1> SUFFICES ASSUME StubsInv, EndResult PROVE StubsInv'
  OBVIOUS
<1> DEFINE at == client.at
           t == reply[at]
           decl == PresultOf(client.method)
           returned == client.phase = "result" /\ 0 \in client.result.isset
           got == IF returned THEN "returned" ELSE "exception"
           value == IF returned THEN client.result.value[0] ELSE 0
<1>1. /\ peer # "client" /\ client.phase \in {"exception", "result"} /\ at <= Len(reply) /\ t.token # "field"
      /\ client' = IF t.token # "stop" THEN [client EXCEPT !.phase = "broken"]
                   ELSE IF client.skips > 0 THEN [client EXCEPT !.at = at + 1, !.skips = client.skips - 1]
                   ELSE [client EXCEPT !.phase = "idle", !.at = at + 1, !.got = got, !.value = value]
      /\ UNCHANGED <<peer, request, reply, server, log>>
  BY DEF EndResult
<1>2. Streams /\ ClientReads
  BY <1>1 DEF StubsInv
<1>3. /\ client \in ClientType /\ client.got = "nothing" /\ client.calls > 0 /\ client.method \in Method
      /\ client.head \in 1 .. at - 1 /\ Found.token = "message" /\ at \in 1 .. Len(reply) + 1
  BY <1>1, <1>2 DEF ClientReads
<1>4. WellFormed(reply) /\ Len(reply) \in Nat
  BY <1>2 DEF Streams, WellFormed
<1>5. at \in Nat \ {0} /\ at \in 1 .. Len(reply) /\ at + 1 \in 1 .. Len(reply) + 1 /\ (at + 1) - 1 = at
      /\ client.head \in 1 .. at - 1 /\ client.head \in 1 .. (at + 1) - 1 /\ client.head \in Nat
      /\ client.head + 1 \in Nat /\ client.head < at
  <2>1. at <= Len(reply) /\ client.head \in 1 .. at - 1 /\ at \in 1 .. Len(reply) + 1
    BY <1>1, <1>3, Zenon
  <2> HIDE DEF at
  <2> QED
    BY <1>4, <2>1
<1>6. ASSUME Inside(reply, client.head, at)
      PROVE  t.token = "stop" /\ Behind(reply, client.head, at + 1) /\ Before(reply, at + 1)
  <2>1. /\ t.token \in {"field", "stop"}
        /\ t.token = "stop" => Behind(reply, client.head, at + 1) /\ Before(reply, at + 1)
    BY <1>1, <1>4, <1>6, ReadOn, Zenon
  <2> QED
    BY <1>1, <2>1
<1>7. ASSUME Before(reply, at) PROVE t.token = "message"
  BY <1>1, <1>4, <1>7, ReadHead, Zenon
<1>8. Streams' /\ (peer = "server" => server.phase = "head")' /\ (peer # "server" => ServerReads /\ Logged)'
  BY <1>1, ClientStep
(* Between two ends of this library the client never has to skip. *)
<1>9. ASSUME peer = "none"
      PROVE  /\ ServerRests /\ AnswerAt(client.head) /\ Logged
             /\ Fits \/ client.phase = "exception"
             /\ Fits => log[client.calls].got = "returned"
             /\ ~Fits => log[client.calls].got = "exception"
  <2>1. ServerRests /\ AnswerAt(client.head) /\ Logged
    BY <1>1, <1>9 DEF StubsInv, EndToEnd
  <2>2. Found = Message(client.method, IF log[client.calls].got = "returned" THEN "REPLY" ELSE "EXCEPTION", 0)
    BY <2>1 DEF AnswerAt, Found
  <2>3. Found.name = client.method
        /\ Found.type = IF log[client.calls].got = "returned" THEN "REPLY" ELSE "EXCEPTION"
    BY <2>2 DEF Message
  <2>4. log[client.calls].got \in {"returned", "exception"}
    <3>1. client.calls \in 1 .. Len(log)
      BY <1>3, <2>1 DEF ServerRests, ClientType
    <3> QED
      BY <2>1, <3>1, Entry, Zenon
  <2>5. ~Fits => Found.type = "EXCEPTION"
    BY <2>3, <2>4 DEF Fits
  <2>6. client.phase = "result" /\ ~Fits => Found.type # "EXCEPTION"
    BY <1>2 DEF ClientReads
  <2> QED
    BY <1>1, <2>1, <2>3, <2>4, <2>5, <2>6 DEF Fits
<1>10. CASE client.phase = "result" /\ ~Fits
  <2>1. peer # "none"
    BY <1>9, <1>10
  <2>2. Found.type # "EXCEPTION" /\ (Before(reply, at) \/ (client.skips > 0 /\ Inside(reply, client.head, at)))
    BY <1>2, <1>10 DEF ClientReads
  <2>3. CASE t.token # "stop"
    <3>1. client' = [client EXCEPT !.phase = "broken"]
      BY <1>1, <2>3
    <3>2. /\ client'.phase = "broken" /\ client'.at = at /\ client'.head = client.head /\ client'.calls = client.calls
          /\ client'.method = client.method /\ client'.got = client.got /\ client' \in ClientType
      BY <1>3, <3>1 DEF ClientType
    <3>3. Found' = Found /\ (Fits' <=> Fits) /\ client' \in ClientType'
      BY <1>1, <3>2 DEF Found, Fits, ClientType
    <3> HIDE DEF at, t
    <3>4. ClientReads'
      BY <1>1, <1>3, <1>10, <2>2, <3>2, <3>3 DEF ClientReads
    <3> QED
      BY <1>1, <1>8, <2>1, <3>4 DEF StubsInv
  <2>4. CASE t.token = "stop"
    <3>1. Inside(reply, client.head, at) /\ client.skips > 0
      BY <1>7, <2>2, <2>4
    <3>2. client' = [client EXCEPT !.at = at + 1, !.skips = client.skips - 1]
      BY <1>1, <2>4, <3>1
    <3>3. client.skips - 1 \in Nat
      BY <1>3, <3>1 DEF ClientType
    <3> HIDE DEF at, t
    <3>4. /\ client'.phase = client.phase /\ client'.at = at + 1 /\ client'.head = client.head
          /\ client'.calls = client.calls /\ client'.method = client.method /\ client'.got = client.got
      BY <1>3, <3>2 DEF ClientType
    <3>5. client' \in ClientType
      <4>1. client' = [phase |-> client.phase, at |-> at + 1, head |-> client.head, skips |-> client.skips - 1,
                       calls |-> client.calls, method |-> client.method, values |-> client.values,
                       result |-> client.result, got |-> client.got, value |-> client.value]
        BY <1>3, <3>2 DEF ClientType
      <4>2. at + 1 \in Nat
        BY <1>5
      <4> QED
        BY <1>3, <3>3, <4>1, <4>2 DEF ClientType
    <3>6. Found' = Found /\ (Fits' <=> Fits) /\ client' \in ClientType'
      BY <1>1, <3>4, <3>5 DEF Found, Fits, ClientType
    <3>7. Before(reply', client'.at) /\ client'.at \in 1 .. Len(reply') + 1 /\ client'.head \in 1 .. client'.at - 1
      BY <1>1, <1>5, <1>6, <3>1, <3>4
    <3>8. ClientReads'
      BY <1>1, <1>3, <1>10, <2>2, <3>4, <3>6, <3>7 DEF ClientReads
    <3> QED
      BY <1>1, <1>8, <2>1, <3>8 DEF StubsInv
  <2> QED
    BY <2>3, <2>4
<1>11. CASE ~(client.phase = "result" /\ ~Fits)
  <2>1. client.skips = 0 /\ Inside(reply, client.head, at)
        /\ (client.phase = "exception" => Found.type = "EXCEPTION")
        /\ (client.phase = "result" => ResultIsRead)
    BY <1>1, <1>2, <1>11 DEF ClientReads
  <2>2. t.token = "stop" /\ Behind(reply, client.head, at + 1) /\ Before(reply, at + 1)
    BY <1>6, <2>1
  <2>3. client' = [client EXCEPT !.phase = "idle", !.at = at + 1, !.got = got, !.value = value]
    BY <1>1, <2>1, <2>2
  <2>4. client.phase = "result" <=> Fits
    BY <1>1, <1>11, <2>1 DEF Fits
  <2>5. got \in {"returned", "exception"} /\ value \in Values
        /\ (got = "returned" <=> Fits /\ 0 \in client.result.isset)
        /\ (got = "returned" => value = client.result.value[0])
        /\ (got = "exception" => value = 0)
    <3>1. DOMAIN decl = 0 .. 0
      BY <1>3, Declared
    <3>2. Fits => client.result.value \in [0 .. 0 -> Values]
      BY <2>1, <2>4, <3>1 DEF ResultIsRead, StructOf
    <3>3. Fits => client.result.value[0] \in Values
      BY <3>2
    <3> QED
      BY <2>4, <3>3, StubsAssumption
  <2> HIDE DEF got, value, returned, at, t
  <2>6. /\ client'.phase = "idle" /\ client'.at = at + 1 /\ client'.head = client.head
        /\ client'.calls = client.calls /\ client'.method = client.method /\ client'.result = client.result
        /\ client'.got = got /\ client'.value = value
    BY <1>3, <2>3 DEF ClientType
  <2>7. client' \in ClientType
    <3>1. client' = [phase |-> "idle", at |-> at + 1, head |-> client.head, skips |-> client.skips,
                     calls |-> client.calls, method |-> client.method, values |-> client.values,
                     result |-> client.result, got |-> got, value |-> value]
      BY <1>3, <2>3 DEF ClientType
    <3>2. at + 1 \in Nat
      BY <1>5
    <3> QED
      BY <1>3, <2>5, <3>1, <3>2 DEF ClientType
  <2>8. Found' = Found /\ (Fits' <=> Fits) /\ client' \in ClientType'
    BY <1>1, <2>6, <2>7 DEF Found, Fits, ClientType
  <2>9. Fits => ResultIsRead'
    <3> SUFFICES ASSUME Fits PROVE ResultIsRead'
      OBVIOUS
    <3>1. client.result \in StructOf(decl) /\ IsRead(decl, client.result, reply, client.head + 1, at - 1)
      BY <2>1, <2>4 DEF ResultIsRead, at
    <3>2. IsRead(decl, client.result, reply, client.head + 1, at)
      <4>1. reply[at].token # "field"
        BY <2>2 DEF t
      <4> HIDE DEF decl
      <4> QED
        BY <1>5, <3>1, <4>1, StopRead, Zenon
    <3> QED
      BY <1>1, <1>5, <2>6, <3>1, <3>2 DEF ResultIsRead
  <2>10. ClientReads'
    <3>1. /\ Before(reply', client'.at) /\ Behind(reply', client'.head, client'.at) /\ client'.at \in 1 .. Len(reply') + 1
      BY <1>1, <1>5, <2>2, <2>6
    <3>2. Fits \/ Found.type = "EXCEPTION"
      BY <1>1, <2>1, <2>4
    <3> QED
      BY <1>3, <2>5, <2>6, <2>8, <2>9, <3>1, <3>2 DEF ClientReads
  <2>11. ASSUME peer = "none" PROVE EndToEnd'
    <3> DEFINE last == log[client.calls]
    <3>1. /\ ServerRests /\ AnswerAt(client.head) /\ Logged
          /\ (Fits => last.got = "returned") /\ (~Fits => last.got = "exception")
      BY <1>9, <2>11
    <3>2. Len(log) = client.calls /\ last.answer = client.head
      BY <3>1 DEF ServerRests, AnswerAt
    <3>3. at = Len(reply)
      BY <1>3, <1>4, <1>5, <2>2, <3>1, <3>2, LastAnswer DEF t
    <3>4. CASE Fits
      <4>1. Len(reply) = client.head + 2 /\ reply[client.head + 1] = Field(0, ResultOf(client.method)[0], last.value)
        BY <3>1, <3>4 DEF AnswerAt
      <4>2. last.value \in Values
        <5>1. client.calls \in 1 .. Len(log)
          BY <1>3, <3>2 DEF ClientType
        <5> QED
          BY <3>1, <5>1, Entry, Zenon
      <4>3. decl = ResultOf(client.method) /\ DOMAIN decl = 0 .. 0 /\ decl[0] \in TType
        BY <1>3, Declared
      <4>4. /\ reply[client.head + 1].token = "field" /\ reply[client.head + 1].id = 0
            /\ reply[client.head + 1].type = decl[0] /\ reply[client.head + 1].value = last.value
        BY <4>1, <4>3 DEF Field
      <4>5. Matching(reply, client.head + 1, at - 1, 0, decl[0]) = {client.head + 1}
        <5>1. at - 1 = client.head + 1
          BY <1>5, <3>3, <4>1
        <5> QED
          BY <1>5, <4>4, <5>1 DEF Matching
      <4>6. IsRead(decl, client.result, reply, client.head + 1, at - 1)
        BY <2>1, <2>4, <3>4 DEF ResultIsRead, at
      <4>7. 0 \in client.result.isset /\ client.result.value[0] = last.value
        BY <4>3, <4>4, <4>5, <4>6 DEF IsRead
      <4>8. got = "returned" /\ value = last.value
        BY <2>5, <3>4, <4>7
      <4> QED
        BY <1>1, <1>4, <2>6, <3>1, <3>2, <3>3, <3>4, <4>8 DEF EndToEnd, ServerRests
    <3>5. CASE ~Fits
      <4>1. got = "exception" /\ value = 0
        BY <2>5, <3>5
      <4>2. last.got = "exception" /\ last.value = 0
        BY <3>1, <3>5 DEF AnswerAt
      <4> QED
        BY <1>1, <1>4, <2>6, <3>1, <3>2, <3>3, <4>1, <4>2 DEF EndToEnd, ServerRests
    <3> QED
      BY <3>4, <3>5
  <2> QED
    BY <1>1, <1>8, <2>10, <2>11 DEF StubsInv
<1> QED
  BY <1>10, <1>11
-----------------------------------------------------------------------------
LEMMA StubsStep == StubsInv /\ [StubsNext]_stubVars => StubsInv'
<1> SUFFICES ASSUME StubsInv, [StubsNext]_stubVars PROVE StubsInv'
  OBVIOUS
<1>1. CASE ReadCall \/ ReadArg \/ EndArgs
  BY <1>1, ReadCallStep, ReadArgStep, EndArgsStep, Zenon
<1>2. CASE Throw \/ Refuse
  BY <1>2, RefuseStep, Zenon
<1>3. CASE \E value \in Values : Return(value)
  BY <1>3, ReturnStep, Zenon
<1>4. CASE \E m \in Method : \E values \in [DOMAIN PargsOf(m) -> Values] : send_(m, values)
  BY <1>4, SendStep, Zenon
<1>5. CASE ReadReply \/ ReadResult \/ EndResult
  BY <1>5, ReadReplyStep, ReadResultStep, EndResultStep, Zenon
<1>6. CASE PeerCalls \/ PeerAnswers
  BY <1>6, PeerCallsStep, PeerAnswersStep, Zenon
<1>7. CASE UNCHANGED stubVars
  <2>1. UNCHANGED <<peer, request, reply, server, client, log>>
    BY <1>7 DEF stubVars
  <2>2. Streams' /\ (peer = "server" => server.phase = "head")' /\ (peer # "server" => ServerReads /\ Logged)'
    BY <2>1, ClientStep
  <2>3. (ClientReads => ClientReads') /\ (EndToEnd => EndToEnd')
    <3>1. ClientReads => ClientReads'
      BY <2>1 DEF ClientReads, Found, Fits, ResultIsRead, ClientType
    <3>2. EndToEnd => EndToEnd'
      BY <2>1 DEF EndToEnd, ServerRests, CallAt, AnswerAt
    <3> QED
      BY <3>1, <3>2
  <2> QED
    BY <2>1, <2>2, <2>3 DEF StubsInv
<1> QED
  BY <1>1, <1>2, <1>3, <1>4, <1>5, <1>6, <1>7 DEF StubsNext

(* The streams hold whole messages, and each reader is where its phase says, with what it has read so far. *)
THEOREM StubsHold == StubsSpec => []StubsInv
<1> QED
  BY StubsInitially, StubsStep, PTL DEF StubsSpec

(* Where the handler has an argument of the client, its field is in the request. *)
LEMMA SentArguments ==
  ASSUME StubsInv, server.phase = "handler", peer = "none"
  PROVE  /\ Called.name = client.method /\ server.args.value = client.values
         /\ server.args.isset = DOMAIN ArgsOf(client.method)
<1> DEFINE m == client.method
           n == Arity(m)
           p == server.head
<1>1. Streams /\ ServerReads /\ ClientReads /\ EndToEnd
  BY DEF StubsInv
<1>2. client.phase = "reply" /\ CallAt(p)
  BY <1>1 DEF EndToEnd, ServerRests, ClientReads, ClientType
<1>3. m \in Method
  BY <1>1, <1>2 DEF ClientReads
<1>4. /\ n \in 1 .. 2 /\ PargsOf(m) = ArgsOf(m) /\ DOMAIN ArgsOf(m) = 1 .. n
      /\ \A id \in 1 .. n : ArgsOf(m)[id] \in TType
  BY <1>3, Declared
<1>5. /\ p \in Nat \ {0} /\ client.values \in [1 .. n -> Values] /\ request[p] = Message(m, "CALL", 0)
      /\ \A id \in 1 .. n : request[p + id] = Field(id, ArgsOf(m)[id], client.values[id])
      /\ Len(request) = p + n + 1
  BY <1>2, <1>4 DEF CallAt
<1>6. Called.name = m
  <2>1. Called = Message(m, "CALL", 0)
    BY <1>5, Zenon DEF Called
  <2> QED
    BY <2>1 DEF Message
<1>7. /\ server.args \in StructOf(ArgsOf(m))
      /\ IsRead(ArgsOf(m), server.args, request, p + 1, server.at - 1)
      /\ Behind(request, p, server.at)
  BY <1>1, <1>6 DEF ServerReads
<1> HIDE DEF m, n, p
<1>8. ASSUME NEW id \in 1 .. n
      PROVE  /\ request[p + id].token = "field" /\ request[p + id].id = id
             /\ request[p + id].type = ArgsOf(m)[id] /\ request[p + id].value = client.values[id]
  <2>1. request[p + id] = Field(id, ArgsOf(m)[id], client.values[id])
    BY <1>5
  <2> QED
    BY <2>1 DEF Field
<1>9. server.at - 1 = p + n + 1
  <2>1. /\ server.at \in 1 .. Len(request) + 1 /\ p \in 1 .. server.at - 2 /\ request[server.at - 1].token = "stop"
    BY <1>7 DEF Behind
  <2>2. p \in Nat /\ server.at \in Nat /\ n \in Nat /\ Len(request) \in Nat
    BY <1>4, <1>5, <2>1
  <2>3. CASE server.at - 1 - p \in 1 .. n
    <3>1. request[p + (server.at - 1 - p)].token = "field"
      BY <1>8, <2>3
    <3>2. p + (server.at - 1 - p) = server.at - 1
      BY <2>2
    <3> QED
      BY <2>1, <3>1, <3>2
  <2>4. CASE server.at - 1 - p \notin 1 .. n
    <3>1. server.at = Len(request) + 1
      BY <1>5, <2>1, <2>2, <2>4, LastIsStop, Zenon
    <3> QED
      BY <1>5, <2>2, <3>1
  <2> QED
    BY <2>3, <2>4
<1>10. ASSUME NEW id \in 1 .. n
       PROVE  Matching(request, p + 1, server.at - 1, id, ArgsOf(m)[id]) = {p + id}
  <2>1. request[p + n + 1].token = "stop"
    BY <1>7, <1>9 DEF Behind
  <2>2. ASSUME NEW i \in p + 1 .. p + n + 1
        PROVE  (request[i].token = "field" /\ request[i].id = id /\ request[i].type = ArgsOf(m)[id]) <=> i = p + id
    <3>1. CASE i = p + n + 1
      BY <1>4, <1>5, <2>1, <3>1
    <3>2. CASE i # p + n + 1
      <4>1. i - p \in 1 .. n /\ p + (i - p) = i
        BY <1>4, <1>5, <3>2
      <4>2. request[i].token = "field" /\ request[i].id = i - p /\ request[i].type = ArgsOf(m)[i - p]
        BY <1>8, <4>1
      <4>3. i - p = id <=> i = p + id
        BY <1>4, <1>5
      <4> QED
        BY <4>2, <4>3
    <3> QED
      BY <3>1, <3>2
  <2>3. p + id \in p + 1 .. p + n + 1
    BY <1>4, <1>5
  <2> QED
    BY <1>9, <2>2, <2>3 DEF Matching
<1>11. ASSUME NEW id \in 1 .. n PROVE id \in server.args.isset /\ server.args.value[id] = client.values[id]
  <2>1. LET at == Matching(request, p + 1, server.at - 1, id, ArgsOf(m)[id]) IN
        /\ id \in server.args.isset <=> at # {}
        /\ at # {} => \E i \in at : (\A j \in at : j <= i) /\ server.args.value[id] = request[i].value
    BY <1>4, <1>7, Zenon DEF IsRead
  <2> QED
    BY <1>8, <1>10, <2>1
<1>12. server.args.value \in [1 .. n -> Values] /\ server.args.isset \subseteq 1 .. n
  BY <1>4, <1>7 DEF StructOf
<1>13. server.args.isset = 1 .. n
  BY <1>11, <1>12
<1>14. server.args.value = client.values
  <2>1. \A id \in 1 .. n : server.args.value[id] = client.values[id]
    BY <1>11
  <2>2. client.values \in [1 .. n -> Values] /\ server.args.value \in [1 .. n -> Values]
    BY <1>5, <1>12
  <2>3. server.args.value = [id \in 1 .. n |-> server.args.value[id]]
    BY <2>2
  <2>4. client.values = [id \in 1 .. n |-> client.values[id]]
    BY <2>2
  <2>5. [id \in 1 .. n |-> server.args.value[id]] = [id \in 1 .. n |-> client.values[id]]
    BY <2>1
  <2> QED
    BY <2>3, <2>4, <2>5
<1> QED
  BY <1>4, <1>6, <1>13, <1>14 DEF m

(***************************************************************************)
(* *_args::read: whatever a peer sends, the handler gets of every argument *)
(* the last value with its id and its type, and what this library's client *)
(* wrote when that is the peer.                                            *)
(***************************************************************************)
THEOREM ArgsAreReadHolds == StubsSpec => []ArgsAreRead
<1>1. StubsInv => ArgsAreRead
  <2> SUFFICES ASSUME StubsInv, server.phase = "handler"
               PROVE  /\ Called.name \in Method
                      /\ IsRead(ArgsOf(Called.name), server.args, request, server.head + 1, server.at - 1)
                      /\ peer = "none" => /\ Called.name = client.method /\ server.args.value = client.values
                                          /\ server.args.isset = DOMAIN ArgsOf(client.method)
    BY DEF ArgsAreRead
  <2>1. ServerReads
    BY DEF StubsInv
  <2>2. Called.name \in Method
        /\ IsRead(ArgsOf(Called.name), server.args, request, server.head + 1, server.at - 1)
    BY <2>1 DEF ServerReads
  <2> QED
    BY <2>2, SentArguments, Zenon
<1> QED
  BY <1>1, StubsHold, PTL

(***************************************************************************)
(* dispatchCall, process_*: the server keeps to the boundaries of the      *)
(* messages and answers every call once, in order, with its name and       *)
(* number; this library's client then has the handler's answer.            *)
(***************************************************************************)
THEOREM AnsweredOnceHolds == StubsSpec => []AnsweredOnce
<1>1. StubsInv => AnsweredOnce
  <2> SUFFICES ASSUME StubsInv, peer # "server" PROVE AnsweredOnce
    BY DEF AnsweredOnce
  <2>1. ServerReads /\ Logged
    BY DEF StubsInv
  <2>2. server.phase # "broken"
    BY <2>1 DEF ServerReads
  <2>3. /\ \A k \in 1 .. Len(log) : IsAnswered(k)
        /\ \A j, k \in 1 .. Len(log) : j < k => log[j].call < log[k].call /\ log[j].answer < log[k].answer
        /\ \A i \in 1 .. server.at - 1 : request[i].token = "message" =>
             (server.phase # "head" /\ i = server.head) \/ \E k \in 1 .. Len(log) : log[k].call = i
        /\ \A i \in 1 .. Len(reply) : reply[i].token = "message" => \E k \in 1 .. Len(log) : log[k].answer = i
    BY <2>1, Zenon DEF Logged
  <2>4. peer = "none" /\ client.phase = "idle" =>
         /\ Len(log) = client.calls /\ client.at = Len(reply) + 1
         /\ client.calls > 0 => client.got = log[client.calls].got /\ client.value = log[client.calls].value
    BY DEF StubsInv, EndToEnd, ServerRests
  <2> QED
    BY <2>2, <2>3, <2>4, Zenon DEF AnsweredOnce
<1> QED
  BY <1>1, StubsHold, PTL

(***************************************************************************)
(* recv_*: only a reply to the method that was called, with a result of    *)
(* its type, makes the call return.                                        *)
(***************************************************************************)
THEOREM OnlyRepliesReturnHolds == StubsSpec => []OnlyRepliesReturn
<1>1. StubsInv => OnlyRepliesReturn
  <2> SUFFICES ASSUME StubsInv, peer # "client", client.phase \in {"idle", "broken"}, client.calls > 0
               PROVE  OnlyRepliesReturn
    BY DEF OnlyRepliesReturn
  <2> DEFINE result == PresultOf(client.method)
             at == Matching(reply, client.head + 1, client.at - 1, 0, result[0])
  <2>1. Streams /\ ClientReads
    BY DEF StubsInv
  <2>2. client.method \in Method /\ WellFormed(reply)
    BY <2>1 DEF ClientReads, Streams
  <2>3. DOMAIN result = 0 .. 0
    BY <2>2, Declared
  <2>4. CASE client.phase = "broken"
    <3>1. Found.token = "message" /\ ~Fits /\ Found.type # "EXCEPTION" /\ client.got = "nothing"
      BY <2>1, <2>4 DEF ClientReads
    <3> HIDE DEF at
    <3> QED
      BY <2>4, <3>1 DEF OnlyRepliesReturn, Found, Fits, at
  <2>5. CASE client.phase = "idle"
    <3>1. /\ Behind(reply, client.head, client.at) /\ (Fits \/ Found.type = "EXCEPTION") /\ (Fits => ResultIsRead)
          /\ (client.got = "returned" <=> Fits /\ 0 \in client.result.isset)
          /\ (client.got = "returned" => client.value = client.result.value[0])
          /\ Before(reply, client.at)
      BY <2>1, <2>5 DEF ClientReads
    <3>2. Found.token = "message"
      BY <3>1 DEF Behind, Found
    <3>3. client.at <= Len(reply) => reply[client.at].token = "message"
      BY <2>2, <3>1, ReadHead, Zenon
    <3>4. ASSUME Fits
          PROVE  /\ 0 \in client.result.isset <=> at # {}
                 /\ at # {} => \E i \in at : (\A j \in at : j <= i) /\ client.result.value[0] = reply[i].value
      <4>1. IsRead(result, client.result, reply, client.head + 1, client.at - 1)
        BY <3>1, <3>4 DEF ResultIsRead
      <4> HIDE DEF result
      <4> QED
        BY <2>3, <4>1 DEF IsRead
    <3>5. client.got = "returned" => \E i \in at : (\A j \in at : j <= i) /\ client.value = reply[i].value
      <4> HIDE DEF at
      <4> QED
        BY <3>1, <3>4
    <3>6. client.got = "returned" <=> Fits /\ at # {}
      <4> HIDE DEF at
      <4> QED
        BY <3>1, <3>4
    <3> HIDE DEF at
    <3> QED
      BY <2>5, <3>1, <3>2, <3>3, <3>5, <3>6 DEF OnlyRepliesReturn, Found, Fits, at
  <2> QED
    BY <2>4, <2>5
<1> QED
  BY <1>1, StubsHold, PTL
=============================================================================
