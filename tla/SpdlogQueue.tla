----------------------------- MODULE SpdlogQueue -----------------------------
(***************************************************************************)
(* details::circular_q, the ring of max_items + 1 slots under the queue of *)
(* the thread pool, as operators on a record.  One slot stays free, so     *)
(* that head = tail means empty; a push into a full ring skips the oldest  *)
(* item and counts it.                                                     *)
(***************************************************************************)
EXTENDS Naturals, Sequences

(* A slot that holds nothing, or an item that was moved out. *)
Moved == [type |-> "moved"]

NewQueue(maxItems) ==
  [slots |-> maxItems + 1, head |-> 0, tail |-> 0,
   v |-> [i \in 0 .. maxItems |-> Moved], overrun |-> 0]

Ahead(q, i) == (i + 1) % q.slots

Empty(q) == q.tail = q.head
Full(q) == Ahead(q, q.tail) = q.head

(* Fault: the item before the tail is taken. *)
FaultOldest(q) == q.v[(q.tail + q.slots - 1) % q.slots]

Oldest(q) == q.v[q.head]

(* Fault: the oldest item is not skipped when the ring is full. *)
FaultPushBack(q, item) ==
  LET tail == Ahead(q, q.tail) IN
  [q EXCEPT !.v[q.tail] = item, !.tail = tail,
            !.overrun = IF tail = q.head THEN @ + 1 ELSE @]

PushBack(q, item) ==
  LET tail == Ahead(q, q.tail) IN
  [q EXCEPT !.v[q.tail] = item,
            !.tail = tail,
            !.head = IF tail = q.head THEN Ahead(q, @) ELSE @,
            !.overrun = IF tail = q.head THEN @ + 1 ELSE @]

PopFront(q) == [q EXCEPT !.v[q.head] = Moved, !.head = Ahead(q, @)]

(* What the ring holds, oldest first. *)
Count(q) == IF q.tail >= q.head THEN q.tail - q.head ELSE q.tail + q.slots - q.head
Items(q) == [i \in 1 .. Count(q) |-> q.v[(q.head + i - 1) % q.slots]]
=============================================================================
