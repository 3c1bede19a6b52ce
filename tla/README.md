# SinboHA in TLA+

SinboHA is a library that makes two processes an Active/Standby pair. This
directory models it (`src/src/SinbohaSolution/Sinboha/`) and the libraries it ships
with (`src/src/SinbohaSolution/spdlog/`), checks the models with TLC and proves the
main results with TLAPS. File names below are of these directories.

## 1. The system

| component | state | operations | talks to |
|---|---|---|---|
| `SinbohaStatusRep` (SinbohaImp.cpp) | `m_Status`, `m_ChangeTime`, `m_Callback` under `m_Lock`; atomic `m_PeerLiveTime` | `Query`, `IfAllowPeerActivate`, `TryActivate`, `Switch`, `BrainSplit`, `RecvData`, `RegisterCallback` | called by every other part |
| `SinbohaSync` (two of them: primary, secondary) | `m_Quit`, thread, client, `m_Lock`/`m_Cond` | `SyncHeartbeat` loop, `SyncData`, `Start`, `Stop` | its `SinbohaNetClient`, the repository |
| `SinbohaNetClient` | Thrift client and transport under `m_Lock` | `Initialize`, `ReInitialize`, `Release`, `CanYouActivateMe`, `SyncData` | the peer's RPC service over one TCP connection |
| `SinbohaNetService`, `SinbohaRPCHandler` | server, thread, `m_Quit` | `Start`, `Stop`, the two handlers | the repository |
| `SinbohaBrainSplit` | thread, `m_Quit`, timeout | `BrainSplitCheck` every 100 ms, `Start`, `Stop` | the repository |
| `SinbohaImp` | the five above, as a singleton | `Initialize`, `Release`, `Switch`, `SyncData`, ... | the application |
| gen-cpp | none | argument and result structs, client stubs, processor, generated by Thrift 0.10 | client and service |
| spdlog | registry of loggers, thread pool and queue, flusher thread, files | `log` and its like, factories, `set_level`, `set_default_logger`, `shutdown` | called by every part |
| fmt (bundled with spdlog) | memory buffers | format strings, number and text writers | called by spdlog |

How the pair decides. Each heartbeat thread sends its node's status and change
time to the peer on its link; the peer's `IfAllowPeerActivate` answers whether the
sender may be ACTIVE, and `TryActivate` makes it ACTIVE or STANDBY accordingly.
Every request received and every answer received is a sign of life; a node without
one for longer than `SwitchTimeout` makes itself ACTIVE.

What is hard:

* question, verdict and application are three steps of two processes with no lock
  between them, on two links at once, while the application may call `Switch` and
  the checker may take over;
* calls fail or time out, connections are replaced, and what is still under way
  arrives later;
* processes crash and come back as PENDING;
* times are cut to milliseconds on the wire and compared at full resolution;
* heartbeat and `SyncData` share one connection, on which replies are told apart by
  name only;
* callbacks run with the repository locked and `SyncData` with the syncer locked,
  while the peer counts the time since the last sign of life;
* the workers are started and stopped independently of each other, by any thread;
* logging threads, pool workers, flusher and shutdown wait for each other, and files
  cannot always be renamed or opened.

What makes it correct: one ACTIVE node unless something went wrong; after something
went wrong, one ACTIVE node again; takeover when the peer is gone and only then;
verdicts and acknowledgements that belong to the call they are taken for; no deadlock
between the locks; `Release` stops what `Initialize` started; and of the log, no
message lost or misplaced without a failure or an overflow that explains it.

## 2. Modules

| module | what it is |
|---|---|
| `StatusRep` | the methods of `SinbohaStatusRep` as operators on a record `[status, changeTime]` |
| `SinbohaPair`, `MCPair` | two nodes, their heartbeat threads, checkers, crashes, switches |
| `ActiveStandby` | abstract: what a pair promises its applications |
| `SinbohaChannel`, `MCChannel` | one syncer with its client, connection and the peer's server thread |
| `SinbohaLifecycle`, `MCLifecycle` | `Initialize` and `Release` over the four workers |
| `SinbohaTiming` | the times of `Initialize` as numbers: heartbeat, timeouts, locks that are kept |
| `RpcStubs` | the generated structs, client functions and processor at the two streams of a connection |
| `SpdlogRegistry`, `SpdlogQueue`, `SpdlogFile` | the registry, the circular queue and the rotating file as operators on records |
| `Spdlog`, `MCSpdlog` | these together, with threads, pool, flusher and shutdown |
| `SpdlogPattern` | patterns of log lines |
| `SpdlogTimes`, `SpdlogDaily` | the time caches of a formatter, the daily file |
| `FmtString`, `FmtWriter`, `FmtBuffer` | format strings, the writing of arguments, memory buffers |
| `Texts`, `MCTexts` | all inputs up to a length for `SpdlogPattern`, `FmtString`, `FmtWriter`; the machines of `RpcStubs`, `FmtBuffer`, `SpdlogTimes`, `SpdlogDaily` |
| `StatusRep_proofs`, `SinbohaPair_proofs`, `ActiveStandby_proofs`, `SinbohaChannel_proofs`, `SinbohaLifecycle_proofs`, `SinbohaTiming_proofs`, `Spdlog_proofs`, `Texts_proofs` | inductive invariants, lemmas and theorems (section 4) |

Operators whose name begins with `Fault` are wrong versions of the operator that
follows them. No specification uses them; put in its place they show that a
property depends on the code (PROJECT.json, "mutants").

### StatusRep

A repository is a record; `TryActivate`, `Switch`, `BrainSplit` map a repository and
the time to a new one, and are applied atomically because the methods hold `m_Lock`.
`AskOf` is what `Query` reads and the client sends: `ToMillis` is the
`duration_cast` of SinbohaNetClient.cpp:44, a rounding down to a multiple of
`TicksPerMs`. `IfAllowPeerActivate` lists the cases that return true; all others
return false, as in the code.

### SinbohaPair

| action | code |
|---|---|
| `Start(n)` | the singleton is made and `Initialize` starts the threads |
| `Ask(n, l)` | `SyncHeartbeat` on link `l`: wait over, `Query`, request sent (or refused, peer down) |
| `Answer(n, l)` | the peer's handler for that request: sign of life, verdict |
| `Apply(n, l)` | the call returned OK: sign of life, `TryActivate` |
| `Fail(n, l)` | the call failed for whatever reason; the connection is replaced, the request may still arrive |
| `AnswerLate(n)` | the peer handles such a request |
| `Silence(n)` | `SwitchTimeout` passes without a sign of life |
| `Check(n)`, `Split(n)` | the checker finds the time too old; it calls `BrainSplit` |
| `ManualSwitch(n)` | the application's `Switch` on an ACTIVE node (on another node it changes nothing) |
| `Crash(n)` | the process ends; its connections with it |

`clock` is the true time, advanced by the steps that stamp a change; node `n` reads
`clock + Skew[n]`. `m_PeerLiveTime` is abstracted to `silent[n]`, "older than the
timeout": it becomes true at any moment (at most as often as the budget says while
the peer is up, freely while it is down) and false with every store. `used`, `born`
and `yielded` are history variables for the properties. Construction and `Initialize`
are one step.

### ActiveStandby

The promise: roles DOWN, PENDING, ACTIVE, STANDBY and a leader or none. While there
is a leader nothing but an event from outside (`Disturb`) moves a role; without one
the nodes contend (`Contend`), one change at a time, and never back to PENDING.
`SinbohaPair` implements it with the mapping `Role` (the status of a node that is up),
`Leader` (the node the pair is settled on) and `Outside` (switches, silences, crashes).

### SinbohaChannel

The connection is a queue of requests and a queue of replies. `Receive` and
`ReceiveFails` say what the generated `recv_` functions do with the next reply: they
take it if it has the name of the call; with the other name they skip it and read
what follows as the result, which is either the header of the next reply (it parses
as a struct without the result field, the call fails and the reader is left in the
middle of that reply: `garbled`) or nothing until the timeout. In the middle of a
reply a call fails on the protocol byte; the model lets a garbled connection stay so
until it is replaced. Replies arrive whole. `old` holds data of former connections,
which the peer may handle later, in any order. `conn = "ended"` is a connection the
peer or the network closed: writing to it fails or goes unnoticed.

Thread positions follow the locks: `SyncDataLock` takes `SinbohaSync::m_Lock` and
keeps it over the call; `HbWake` needs it for an instant (the end of `wait_for`);
`HbCall` and `SyncDataSend` take the client's lock until the call returns. Between
`HbFail` and `HbReset` nobody holds it.

A handler answers OK or FAIL, or the callback throws and the generated processor
answers with an exception, which the reader of any call takes and throws
(`Thrown`). `RecvData` gives a datum to the callback of a STANDBY node and refuses it
otherwise; so "accepted" means that a STANDBY node took it and its callback, if one is
registered, did not throw (section 3 says where the header differs). A callback that
throws something else than a `std::exception` ends the connection, which is `End` with
the datum in `old`.

`SyncData` of a node that is not ACTIVE returns without any effect and is no step.
The peer's status turns freely here; how it turns is `SinbohaPair`'s matter.

### SinbohaLifecycle

Threads of the application call `Initialize` (with addresses that may be empty) and
`Release`, alone or at the same time. A call goes through the workers in order, or
backwards; inside a worker the steps are those between which a lock is free or a
thread can move: `Start` sets `m_Quit` and launches the thread, then assigns
`m_Future`, which waits for the thread it belonged to; `Stop` sets `m_Quit`, then
waits, with the lock (service) or without it (the others). Worker threads are at
their loop condition, in `wait_for` or at work; the service's thread is inside
`serve` before or after it listens. `stop` interrupts a server only if it listens.
`std::async` and `stop` may throw, and a callback may throw out of a worker, which
ends its thread.

### SinbohaTiming

One link each way, time in ticks. The positions of a heartbeat and what it waits for:

| position | code | leaves when |
|---|---|---|
| `start` | `unique_lock` before `wait_for` (SinbohaSync.cpp:118) | the syncer's lock is free |
| `wait` | the interval | it is over |
| `wake` | `wait_for` takes the lock again | the syncer's lock is free |
| `query` | `Query` | the repository's lock is free |
| `ask` | `CanYouActivateMe` takes the client's lock (SinbohaNetClient.cpp:46) | the client's lock is free |
| `sent`, `arrived`, `answered` | the call: request under way, at the peer's lock, reply under way | handled, read, or timed out |
| `verdict` | `TryActivate` | the repository's lock is free |
| `failed`, `reset` | `ReInitialize`: waits for the client's lock, connects | |

A repository's lock is kept by a callback (`busy`). `SyncData` takes the syncer's lock
(`data`, `locked`), then the client's (`call`), and keeps both until its reply, for which
it waits for the peer's repository and the peer's callback, or until its timeout. `age[n]`
is `now - m_PeerLiveTime`. Time passes (`Tick`) unless something is due.

The model assumes of its surroundings what the code does not enforce:

* calls of the nodes in `Steady` are answered within `RoundTrip` and the time spent
  waiting for the peer's lock, and that is less than the timeout; everything of the
  others may be lost;
* a request whose call timed out is handled or lost within `Delay` (`GivenUp`,
  `HandleLate`). The socket timeouts bound how long the caller waits, not how long the
  request may be under way: this is a property of the network and of the peer's
  operating system, and the deadline of a takeover depends on it;
* a thread that waits for a lock gets it before the next one that asks for it, and
  `CallbackTime` bounds the callbacks before it together. The standard mutex does not
  promise this, and without it no timeout would be long enough;
* one thread of each application calls `SyncData`. Each further one would add another
  call to each wait.

### RpcStubs

A stream is the sequence of all tokens that were sent on it: the head of a message
(name, type, number), the fields of its struct (id, type, value), the stop. A reader
takes one token per step and remembers its position. At one end, or at none, is a peer
of another version (`PeerCalls`, `PeerAnswers`), which sends whole messages with any
fields; the other parts are the code:

* server: `ReadCall` is `dispatchCall`, which looks the name up; `ReadArg` and `EndArgs`
  are `read` of the arguments, or the `skip` of those of an unknown method; `Return` and
  `Throw` are the rest of `process_CanYouActivateMe` and `process_SyncData`, `Refuse` is
  the exception for an unknown method.
* client: `send_`; `ReadReply` is `recv_` up to the type and the name of the message;
  `ReadResult` and `EndResult` are `read` of the exception, of the result, or of what is
  skipped.

`ReadField` is the rule of every generated `read`: a field with an unknown id or another
type is skipped, a later field overwrites an earlier one, `isset` tells what was read. A
reader that finds a token it cannot read is `"broken"`: the library throws then. `log`
is a history variable, with each call that was answered and its answer.

### Spdlog, SpdlogRegistry, SpdlogQueue, SpdlogFile

`SpdlogRegistry` has the map of loggers, the default logger, the levels and automatic
registration. `SpdlogQueue` is `circular_q`: `QueueSize + 1` slots, one of them free,
and a push into a full ring that skips the oldest item. `SpdlogFile` is the rotating
file with its size counter; opening, renaming, removing and writing may fail, with
what the code does then (a rename that fails truncates the file, an open that fails
leaves the sink closed with a size that asks for the next rotation, a write that fails
after a rotation leaves an empty log with a size that may ask for the next one). The
sink finds a log of any size: what earlier runs wrote counts for the size and is no
message of this one.

`Spdlog` puts them to work. Threads log through synchronous loggers, which write to
the file, and asynchronous ones, which post to the pool's queue and either wait for
room or overrun. A pool lives as long as somebody holds a `shared_ptr` to it; whoever
lets go last - the registry in `shutdown`, a thread that is posting, the flusher - runs
its destructor, which posts one terminate item per worker and joins them. The flusher
keeps the registry's mutex while it flushes, so calls of the registry wait for it.
`shutdown` begins with `StopFlusher`, waits for a round of the flusher to end
(`JoinFlusher`), drops the loggers and lets the pool go. A factory that finds the name
taken (`CreateFails`) has made the pool all the same. The default logger writes to the console and is in the model for the registry and the
levels only. `fifo`, `accepted`, `lost`, `failed`, `written`, `renamed`, `missed` and
`own` are history variables.

### SpdlogPattern

A pattern is compiled to formatters and pads as `pattern_formatter` does; a line is a
sequence of pieces, of which only the size of a field is kept.

### SpdlogTimes, SpdlogDaily

`SpdlogTimes` formats one message after the other, with times in any order. The three
caches are `cached_tm_` (by second), `cached_datetime_` and the UTC offset with its
refresh after `CacheRefresh` seconds, as in the Windows build. `SpdlogDaily` is the
daily sink: a file is opened and named by the time of a message, the next rotation is
computed from the clock, and a message may be written any time after it was logged. A
file that cannot be opened leaves the sink closed, and the next message tries again; a
write may fail.

### FmtString, FmtWriter, FmtBuffer

`FmtString` is `parse_format_string` with the handler that formats: positions, the
argument counter (`next_arg_id_`), the parts of a specification in their order, and
which of them an argument that is or is not a number may have. `int` has the width
`MaxInt`, and the unsigned arithmetic of `parse_nonnegative_int` is kept. `FmtWriter`
writes integers, bools, chars, strings and pointers with sign, prefix, precision,
padding and thousands separators, in `IntBits` bits. `FmtBuffer` is
`basic_memory_buffer`: an inline array, a block of the heap when that is full, and
moves that hand the block over or copy the array. Its actions are the calls of a program
that appends, clears, moves, destroys and constructs buffers in any order; `content` is
a history variable.

### Texts

A behaviour of `Texts` is about one of the algorithms or one of the machines above. The
algorithms have no state: an input grows by one element in every step, and the
invariants compare what the algorithm makes of it with a reference definition that does
not work the same way: a parsed format string is spelled again from its pieces, a
written number is read back. A machine takes its own steps.

## 3. Runs

| run | instance | result |
|---|---|---|
| `pair_safety` | 2 links; either a switch and a false silence, or a crash; clock to 5; symmetry of links and nodes | `TypeOK`, `OneIsAllowed`, `DualActiveNeedsDisturbance`, `SettledIsStable`, `ImplementsActiveStandby` hold |
| `pair_start` | 2 links, one of which may fail for ever; no disturbance but a silence while alone; clock to 5 | `Converges`, `FlappingIsBounded` hold |
| `pair_recovery` | 1 link; one of a switch, a false silence, a crash with its restart; clock to 16 | `Converges`, `Failover`, `FlappingIsBounded` hold |
| `channel_calls` | 2 callers, 2 data | `VerdictIsOwn`, `AckedIsAccepted`, `OvertakenIsNotAcked`, `LeftOverIsCleared`, `CallsReturn` hold |
| `lifecycle` | 1 thread with 3 calls and 1 with 1 call; secondary or both addresses empty; exceptions of `stop` and of the callback on the primary heartbeat | `ReleaseStopsAll`, `StartedRuns`, `NoOverwrite`, `OneThread`, `CallsReturn` hold |
| `timing` | heartbeat 1, network timeout 4, switch timeout 15, checker period 1, round trip 1, callback 1, delay 3; one steady link | `PeerIsHeard`, `TakeoverInTime` hold |
| `spdlog` | 1 logging thread beside 1 worker, the flusher, the registry calls and shutdown; 3 messages, queue of 2, 2 registry calls, 1 round of the flusher, files of 1 message, 2 old files; a log that is empty or full | `DefaultIsRegistered`, `LevelsFollow`, `CircularIsFifo`, `NothingVanishes`, `OrderIsKept`, `SinkIsSafe`, `FilesAreTheEnd`, `ShutdownReturns` hold |
| `texts` | inputs of up to 6 (pattern, format) or 1 (field) elements; a peer that sends 5 tokens, or 2 calls between the stubs; 2 buffers and 6 characters; 9 times; a daily file with days of 4 ticks and a clock to 14 | `ArgsAreRead`, `AnsweredOnce`, `OnlyRepliesReturn`, `PatternGrows`, `PaddedExactly`, `FormatIsStrict`, `FieldIsExact`, `BufferKeeps`, `TimeIsCurrent`, `RightDay` hold |
| `pair_same_ms` | 3 ticks per millisecond | `FirstStartedLeads` is violated |
| `pair_switch_undone` | 2 links, 1 switch | `SwitchHandsOver` is violated |
| `channel_stale_ok` | 1 caller, 2 data | `RefusedIsNotAcked` is violated |
| `lifecycle_release` | 1 thread, 2 calls | `ReleaseReturns` is violated |

Deadlock is checked in the runs of the pair, the channel and the timing; none stops.
It is not checked in `lifecycle` and `spdlog`, where the calls the application makes
come to an end, and in `texts`, where the inputs and the budgets do; `CallsReturn` and
`ShutdownReturns` say there that nobody is left waiting.

**Bounds.**

* Pair. `Budgets` bounds the disturbances and `MaxTime` the clock, which every change
  of status advances by one tick. In `pair_safety` five ticks allow both starts and
  three further changes, enough for a switch answered by a takeover or a crash followed
  by a restart; its properties are also proved without the bound. In the liveness runs
  the bound must not be met, or it would stop threads the code lets run:
  `FlappingIsBounded` says so, and is itself the statement that a disturbance sets off
  a bounded number of changes.
* Channel. Two data are enough for one call to leave a reply behind and for another to
  take it; the invariants are also proved for any number.
* Lifecycle. A start between the two halves of a stop needs four calls: `Initialize`, a
  `Release` that is still waiting for a worker, a second `Release` that overtakes it and
  stops the service, and the `Initialize` that follows. The second heartbeat is the same
  code as the first and is never started in this instance; its address is empty, which
  is the case in which it fails and `Initialize` goes on.
* Timing. The instance meets the bound of `HeardInTime` exactly: 15 is 1 + 5 + 9, and
  with a switch timeout of 14 TLC finds a living peer silent. The last sign of
  life of a dead node is then its last reply, which the survivor applies within
  `NetworkTimeout + CallbackTime`; with `Delay = 6`, where it is a late request, both
  properties hold as well, in twice as many states as the run has now (6.6 million).
  Ages stop growing once they are past every limit.
* Spdlog. A queue of two is full after two posts and overrun by the third; files of one
  message rotate at every write, and two old files are enough for one to be moved twice
  and then removed. The limit of `max_files` failed messages in `FilesAreTheEnd` cannot be
  raised: with one more TLC finds nothing left of what was written, with 1 old file and
  with 2. The invariants are also proved for any number of threads, workers,
  messages, slots and files.
* Texts. `MaxInt` is 15, so that two digits overflow; `IntBits` is 30 because TLC's
  integers have 32 bits. Five tokens of a peer are a message with three fields, or two
  messages of which one has a field; two calls are enough for an answer to be taken for
  another one. The inline array has 2 cells, so that 3 characters leave it, and two
  buffers hand a block over and back. The times are on both sides of a refresh and of a
  change of the time zone, and the clock of the daily file passes several rotations. What
  the machines promise is also proved without these bounds.

**Time in the liveness runs of the pair.** The instances have one tick per millisecond,
equal clocks and a tick between any two changes, so no two change times are equal. With
equal times at exactly a whole millisecond two STANDBY nodes refuse each other;
`OneIsAllowed` and the convergence results say nothing about that case.

**Links in the liveness runs of the pair.** Convergence after a switch or a crash is
checked with one link, a configuration `Initialize` allows (a secondary link that
cannot be started is only a warning). With two links and free timing a switch can be
followed by verdicts that overtake each other on the two links again and again, and
`FlappingIsBounded` fails for every bound that was tried; the code has no guard
against it, only timing. After a plain start the pair converges with two links.

**Fairness.**

* `SinbohaPair`: threads that can run do, and every call ends, if not by its reply then
  by the timeout the client sets on every socket (weak fairness of the checker and of
  `Ask`, `Apply` or `Fail` on each link); time passes, so a dead peer is found silent;
  and on one of the links a call between live nodes may fail any number of times but not
  always (strong fairness of `Answer` and `Apply` there), without which a partition would
  explain everything. The other link may fail for ever. Nothing is assumed of `Start`,
  crashes, switches or false silences.
* `SinbohaChannel`: threads run and a call ends by a reply or by the socket timeout,
  which the client sets on every socket. No fairness of the peer, the network or the
  locks is assumed; the number of `SyncData` calls is finite, so `CallsReturn` does not
  say that heartbeats survive callers that never pause.
* `SinbohaLifecycle`: every call that is under way and every thread of a worker runs;
  a server that is interrupted comes back from `serve`. Nobody has to call, no callback
  has to throw.
* `Spdlog`: threads, workers and the flusher run, and a shutdown that began goes on.
  Nobody has to log, to change the registry or to shut down.

**What the violations show.**

* `pair_same_ms`: two processes start within one millisecond. Each compares the
  peer's start time, cut to the millisecond, with its own at full resolution and
  finds the peer earlier; both become ACTIVE. The next heartbeats resolve it.
* `pair_switch_undone`: a Yes the node asked for while ACTIVE arrives after `Switch`
  returned OK, and the node is ACTIVE again before the peer ever was.
* `channel_stale_ok`: `SyncData` of d1 times out, its reply arrives late, `SyncData`
  of d2 reads it and returns OK, and the peer refuses d2. `AckedIsAccepted` is the
  part that holds: an OK is truthful unless an earlier call failed on the same
  connection; and `LeftOverIsCleared` says that the next heartbeat ends the episode.
* `lifecycle_release`: `Release` right after `Initialize` finds the server not yet
  listening; there is nothing to interrupt, the server then listens, and `Release`
  waits for its thread with `m_Lock` held. `CallsReturn` is the part that holds.

**Where a document and the code disagree and no run is about it.** The note on
`OnReceiveData` (SinboHA.h:64) says that the callback is not called on a node that is not
active. `RecvData` (SinbohaImp.cpp:347) does the opposite: it calls it on a STANDBY node
and returns FAIL on any other. The models follow the code, and so do `AckedIsAccepted`
and `OvertakenIsNotAcked`: "accepted" is "a STANDBY node took it". Read literally the
note would make every `SyncData` fail, since only an ACTIVE node sends and the pair is
not to have two; the line before it speaks of data "from the active end". The note is
taken for a slip of the header.

## 4. Proofs

For every number of links, skew, resolution and bound (assumptions
`TicksPerMsAssumption`: a positive number; `PairAssumption`: two different nodes,
skews and elapsed times natural numbers):

* `ExactlyOneAllowed` (StatusRep_proofs): if two nodes changed in different
  milliseconds, asking each other now exactly one is allowed. It rests on
  `ToMillisOrder`: comparing a rounded time with an unrounded one is right when the
  milliseconds differ.
* `TypeCorrect`: `Spec => []TypeOK`, one step per action.
* `AlwaysOneAllowed`: `Spec => []OneIsAllowed`, from the two above.
* `SettledStable`: `Spec => SettledIsStable`. `Settled` contains what is under way on
  the links (verdicts received, verdicts a pending question would get, a checker
  about to act), which makes it inductive between disturbances.
* `NoUndisturbedDualActive`: `Spec => []DualActiveNeedsDisturbance`. The property is
  not inductive: it says nothing of questions and verdicts under way. `ElderLeads`
  adds that before any disturbance no checker moves, a node alone has learned
  nothing, PENDING always goes with the start time, and the node that started in the
  earlier millisecond never holds or asks as STANDBY and never gets a No, while the
  other never holds or asks as ACTIVE and never gets a Yes.
* `PairImplements` (ActiveStandby_proofs): `Spec => ImplementsActiveStandby`. The initial
  states map to the initial state, and every action to one of the abstract steps or to
  a stutter; while the pair is settled this is `SettledStable` again, otherwise it is
  the case by case change of one node's role.

For all values of the times (`SinbohaTiming_proofs`):

* `HeardInTime`: if one link works, calls on it end before the network timeout, and
  `Heartbeat + 5 RoundTrip + 9 CallbackTime <= SwitchTimeout`, then
  `Spec => []PeerIsHeard`. The sum is the longest time between two signs of life: the way
  of a reply and of the next request, three waits for callbacks (before the verdict is
  applied, in `Query`, at the peer), the interval, and three times a `SyncData` of
  `RoundTrip + 2 CallbackTime` in front of a lock (before the interval, after it,
  before the request). `PeerIsHeard` bounds two ages and says nothing of why they
  go back. The invariant `HeardBy(q)`, for a node `q` whose link works, says where its
  heartbeat is and how long it can still take: `OnTime` bounds what is left of the step
  it is in, `PeerHears` bounds the peer's age by the cycle less what is left until the
  request is handled, and `SelfHears` bounds its own age by the cycle less what is left
  until the reply is received. `Tick` moves time from the remainder to the age; every
  other action moves the heartbeat on, and the sum of a cycle covers it.

* `SurvivorTakesOver`: `Spec => []TakeoverInTime`, with no condition on the times but a
  checker period above zero. The deadline counts from the last moment at which
  something of the dead node can still count: `NetworkTimeout + CallbackTime`, or `Delay`
  if it is longer. It is as good as the assumption that given-up requests are gone after
  `Delay`. The property speaks of the time since a crash and of the
  checker, not of what can still set the survivor's age back. The invariant `Watched`
  does: `LastSigns` bounds how long a request the dead node left behind, a reply it had
  sent, or a verdict that waits for the lock can still come, and hence by how much the
  age can lag behind the time since the crash; `LooksInTime` bounds what the checker
  waits for once it has seen the age.

For any callers and data (`SinbohaChannel_proofs`; `ChannelAssumption` only keeps the
names of threads and requests apart):

* `VerdictsAreOwn`: `Spec => []VerdictIsOwn`. With the types (`TypeOK`) it is inductive:
  it says of every reply and request in the connection what the next heartbeat may find.
* `AckedDataIsAccepted` and `AckedDataIsInOrder`: `Spec => []AckedIsAccepted` and
  `Spec => []OvertakenIsNotAcked`. Both speak of calls that have returned; the invariant
  adds the calls under way. Every datum belongs to one call, which sends it once
  (`OneCall`), and is either in the connection, in a former connection or accepted, in
  one place only (`OnePlace`); the call that waits is the last that sent (`LastSent`); an
  OK in the connection is true of its datum, and a call on a connection without earlier
  failures finds nothing there but its own request and reply (`Truthful`).

For any threads of the application and any number of calls (`SinbohaLifecycle_proofs`):

* `AtMostOneThread`: `Spec => []OneThread`, however calls overlap. `OneThread` counts
  threads and says nothing of why a second one cannot start. `Kept(w)` ties `m_Quit`,
  `m_Lock`, `m_Future` and the threads of a worker together at each position of `Start`
  and `Stop`: between the launch and the assignment the lock is held and the new thread
  is the only one; between the halves of a stop `m_Quit` is set; otherwise the thread of
  `m_Future` is the only one, and it lives unless `m_Quit` is set or a callback threw.
  The two exemptions of the property (`stop` threw, a start between the two halves of
  a stop) are the cases in which `Kept` breaks down.
* `ReleaseLeavesNothing`, `InitializeLeavesRunning`, `ParametersAreFree`:
  `Spec => []ReleaseStopsAll`, `[]StartedRuns`, `[]NoOverwrite`, for calls that do not
  overlap. `Sequential` adds the order: `Release` has stopped the workers above the one
  it is at (`Releasing`), `Initialize` has started those below it and those above are
  stopped (`Initializing`), the service is started first and stopped last
  (`ServiceFrames`), and so a call that returned leaves all or nothing (`Returned`).

For any loggers, threads, workers, levels, messages, queue and file sizes
(`Spdlog_proofs`). The assumptions are those of the code: at least one worker and
finitely many (`thread_pool` refuses 0), a queue of at least one item, levels from
`trace` to `off`, a default logger with an empty name; `max_size` and `max_files` may be
0. The invariant `Working` has one part per matter:

* `DefaultIsFound` and `RegisteredHaveTheLevel`: `Spec => []DefaultIsRegistered` and
  `Spec => []LevelsFollow`, from `Catalogue`: only loggers that were made are registered,
  so the level of a registered one is a level.
* `RingIsAQueue`: `Spec => []CircularIsFifo`. `Queue` says the items in the ring from head
  to tail are the sequence `fifo`; `PushFacts` and `PopFacts` compute the positions
  modulo the number of slots, for every number of slots, and `Callers` and `Flushing`
  say that what is posted is an item.
* `NoMessageVanishes`: `Spec => []NothingVanishes`. `Accounted` follows each message;
  `Holders` says that whoever posts holds the pool, so that nothing is posted once the
  destructor has begun; `Ending` says that the terminate items are the last in the queue,
  as many as were posted less the workers that are done, so that when all workers are
  done nothing is left behind them.
* `RotatingSinkIsSafe`: `Spec => []SinkIsSafe`. `Safe` adds that the size counter of an
  open file is at least its length.
* `WrittenInOrder`: `Spec => []OrderIsKept`. `Numbered` says a message is carried by one
  thread and taken once; `Lined` says, for a pool of one worker, that of two messages
  written, in hand or waiting the one that is ahead was taken first. With more workers
  the order is not kept, and the theorem does not say so.
* `FilesKeepTheEnd`: `Spec => []FilesAreTheEnd`. A write that fails after a rotation leaves
  an empty log, which the next message rotates; after more than `max_files` messages in
  a row that failed so, nothing of what was written is left, and the property says so.
  `missed` counts them. `Archived` cuts what was written into the pieces the files hold
  (`Pieces`) and adds what keeps a rotation from leaving nothing (`Kept`): an open sink
  has a file, and if `log.i` is empty and newer than all that is left, more than `i`
  messages were missed.
  `ShiftPieces`, `TruncatePieces` and `WritePieces` move the cuts with the renames, the
  truncation and a message.

For any fields of any peer, any buffers, times and days (`Texts_proofs`). The assumptions
are types, and what the code relies on: the constructors' 0 is a value and a peer's
fields are fields (`StubsAssumption`), sizes are natural numbers (`BufferAssumption`), the
clock is past the first refresh of 1970 (`TimesAssumption`), the time of rotation is a time
of day (`DailyAssumption`). A behaviour of `Texts` about a machine is a behaviour of that
machine.

* `ArgsAreReadHolds`, `AnsweredOnceHolds`, `OnlyRepliesReturnHolds`, from `StubsHold`. The
  properties speak of moments at which something was read; `StubsInv` says what holds
  while it is read. `Streams`: a head begins a stream or comes after a stop and nowhere
  else, and a stream this library writes ends with a stop, so whoever is at the start of
  a message finds one, and whoever is in it finds fields and the stop (`ReadHead`,
  `ReadOn`). `ServerReads` and `ClientReads` say where each reader is in its phase and that
  its struct holds the last matching fields up to there, which one more field preserves
  (`FieldRead`) and the growth of the stream does not touch (`ReadGrows`). `Logged` ties
  each answered call to the only message that answers it. `EndToEnd` adds, for two ends of
  this library, that the call under way is the last message of its stream and its answer
  the last of the other (`LastAnswer`), so the client never skips, never breaks, and takes
  the answer of its own call.
* `BufferKeepsHolds`. `BufferKeeps` says nothing of a buffer that was moved from, which may
  still be destroyed or assigned to, nor of where memory is. `Good` adds it: the inline
  arrays keep their size, and only blocks are freed, each once (`Laid`); a buffer points
  to its own array, or while it is live to a block that nobody else has and that is not
  freed (`Placed`); no block is lost (`NoLeak`); and a live buffer has the room it believes
  to have (`Holds`). It is about any store, because `deallocate`, `grow` and `move` are
  calls in the middle of others.
* `TimeIsCurrentHolds`. `CachesInv` keeps the time at which the offset was computed: it is
  at most the latest time of a message, and less than a refresh before the message's.
* `RightDayHolds`. `DailyInv` says that the next rotation is the end of the period of the
  file opened last (`NextRotation`, by arithmetic with the length of a day), unless a message that
  was held over a rotation opened it, and that it is later than the last message.

Only model-checked:

* liveness under fairness (`Converges`, `Failover`, `LeftOverIsCleared`, `CallsReturn`,
  `ShutdownReturns`), which is outside the prover;
* `FlappingIsBounded`, a statement about an instance and its bound;
* `PatternGrows`, `PaddedExactly`, `FormatIsStrict`, `FieldIsExact`: what `SpdlogPattern`,
  `FmtString` and `FmtWriter` compute is defined by recursion over the input, which the
  prover cannot do induction on.

## 5. Not modelled

* gen-cpp: the concurrent client and the server skeleton, which the library does not
  use. Replies that arrive in pieces are left out of `SinbohaChannel`.
* Callbacks: a callback registered after `Initialize`, and a callback that calls back
  into the library and so waits for a lock of its own thread.
* Data that a node sends after it stepped down: the repository does not say what
  should happen to it.
* spdlog: wide characters, console, syslog and other sinks, the rate limit of the error
  handler, a queue of 0 items, use of the default logger after it was dropped. A
  message that is held over a rotation and opens the daily file puts off the rotation
  after it; `RightDay` says nothing while that file is open. What a message before the
  rotation does to a daily sink whose last opening failed: it is written to no file,
  which is undefined.
* fmt: floating point, printf-style formatting, named arguments, ostreams, compile-time
  checks. Whether an argument has the type a specification asks for is in `FmtWriter`,
  not in `FmtString`.
* The log helper, the menu of the sample program, the singleton.

## 6. What is left

1. The callback pointer in `SinbohaStatusRep`: what the application was told against
   what the status is, with registration before and after `Initialize`.
2. `Release` and a second `Initialize` in `SinbohaPair`, where the repository survives.
3. Both links in `SinbohaTiming`, to find the periods under which two links cannot flap.
