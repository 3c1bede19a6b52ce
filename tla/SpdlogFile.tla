----------------------------- MODULE SpdlogFile -----------------------------
(***************************************************************************)
(* rotating_file_sink and the file_helper under it, as operators on a      *)
(* record: whether the file is open, current_size_, how many messages at   *)
(* the end of the file are still in its buffer, and the files log,         *)
(* log.1, ..., log.max_files, each a sequence of messages or Absent.       *)
(* Opening, renaming, removing and writing may fail.  All of it runs under *)
(* the mutex of base_sink.                                                 *)
(***************************************************************************)
EXTENDS Naturals, Sequences

CONSTANTS
  MaxSize,    \* max_size_
  MaxFiles    \* max_files_

ASSUME FileAssumption == MaxSize \in Nat /\ MaxFiles \in Nat

(* No file; 0 is no message. *)
Absent == <<0>>
Exists(f) == f # Absent

(***************************************************************************)
(* The sink opens log for appending and asks for its size.  What earlier   *)
(* runs left in log is no message of this one, but with max_size or more   *)
(* of it the first message rotates.                                        *)
(***************************************************************************)
NewSinks ==
  { [open |-> TRUE, size |-> size, buffered |-> 0,
     file |-> [k \in 0 .. MaxFiles |-> IF k = 0 THEN <<>> ELSE Absent]] : size \in 0 .. MaxSize }

(* file_helper::close writes what is buffered. *)
Close(s) == [s EXCEPT !.open = FALSE, !.buffered = 0]

(* file_helper::reopen: five attempts succeed or fail together. *)
Reopen(s, truncate) ==
  { [s EXCEPT !.open = FALSE],
    [s EXCEPT !.open = TRUE, !.file[0] = IF truncate \/ ~Exists(@) THEN <<>> ELSE @] }

(* Fault: the files are renamed from log to log.max_files. *)
FaultShift(file, j) ==
  [k \in 0 .. MaxFiles |-> IF k >= j /\ Exists(file[0]) THEN file[0]
                           ELSE IF k = 0 /\ j = 1 THEN Absent ELSE file[k]]

(***************************************************************************)
(* The renames of rotate_ for i = max_files down to j: log.(i-1) becomes   *)
(* log.i if it exists.                                                     *)
(***************************************************************************)
Shift(file, j) ==
  [k \in 0 .. MaxFiles |->
     IF k >= j /\ k > 0 /\ Exists(file[k - 1]) THEN file[k - 1]
     ELSE IF k + 1 >= j /\ k < MaxFiles THEN Absent
     ELSE file[k]]

(***************************************************************************)
(* rotate_.  Each rename is tried twice.  If log.(j-1) cannot become       *)
(* log.j, the renames below it are left out, log.j may have been removed   *)
(* already, log is truncated all the same, and the sink throws.            *)
(***************************************************************************)
RotateFails(s) ==
  UNION { LET shifted == [s EXCEPT !.file = Shift(@, j + 1)]
              removed == [shifted EXCEPT !.file[j] = Absent]
          IN UNION { { IF r.open THEN [r EXCEPT !.size = 0] ELSE r : r \in Reopen(t, TRUE) }
                     : t \in {shifted, removed} }
        : j \in { i \in 1 .. MaxFiles : Exists(Shift(s.file, i + 1)[i - 1]) } }

Rotate(s) == Reopen([s EXCEPT !.file = Shift(@, 1)], TRUE)

Write(s, m, size) ==
  [s EXCEPT !.size = size, !.file[0] = Append(@, m), !.buffered = @ + 1]

(***************************************************************************)
(* sink_it_: the outcomes of a message, and how it ended.  What is not     *)
(* written ends in an exception.                                           *)
(***************************************************************************)
Outcome(s, end) == [sink |-> s, end |-> end]

(* file_helper::write may fail after the size was set. *)
Put(s, m, size) ==
  { Outcome(Write(s, m, size), "written"), Outcome([s EXCEPT !.size = size], "write failed") }

(* Fault: the size is reset before the file is open again. *)
FaultSinkIt(s, m, n) ==
  IF s.size + n > MaxSize
  THEN UNION { IF r.open THEN Put(r, m, n) ELSE { Outcome(r, "open failed") }
               : r \in Rotate(Close([s EXCEPT !.size = 0])) }
  ELSE Put(s, m, s.size + n)

SinkIt(s, m, n) ==
  LET counted == [s EXCEPT !.size = @ + n] IN
  IF counted.size > MaxSize
  THEN { Outcome(r, "rename failed") : r \in RotateFails(Close(counted)) }
       \cup UNION { IF r.open THEN Put(r, m, n) ELSE { Outcome(r, "open failed") }
                    : r \in Rotate(Close(counted)) }
  ELSE Put(counted, m, counted.size)

(* file_helper::flush; on a closed file fflush(nullptr) flushes the other files. *)
FlushFile(s) == IF s.open THEN [s EXCEPT !.buffered = 0] ELSE s
=============================================================================
