------------------------------ MODULE FmtBuffer ------------------------------
(***************************************************************************)
(* fmt's basic_memory_buffer, in which log messages are formatted and in   *)
(* which an asynchronous one travels through the queue: an inline array    *)
(* first, a block of the heap when that is full, and moves that hand the   *)
(* block over or copy the array.                                           *)
(*                                                                         *)
(* A store holds the buffers 1 .. NBuffers, the memory - the inline array  *)
(* of buffer b is mem[b], later entries are blocks in the order they were  *)
(* allocated - and the blocks that were freed, in order.  The program      *)
(* calls the buffers in any order, as long as it does not use one that was *)
(* moved from or destroyed.                                                *)
(***************************************************************************)
EXTENDS Integers, Sequences

CONSTANTS
  InlineSize,    \* SIZE
  NBuffers,      \* the number of buffers
  AppendSizes,   \* how many characters a call of append may add
  MaxChars       \* bound on the characters that are appended in all

ASSUME BufferAssumption ==
  /\ InlineSize \in Nat /\ NBuffers \in Nat
  /\ AppendSizes \subseteq Nat /\ MaxChars \in Nat

VARIABLES
  store,     \* the buffers and the memory
  status,    \* status[b]: "live", "moved" or "gone"
  content,   \* content[b]: the characters that buffer b should hold, while it is live
  written    \* the number of the last character that was appended

bufferVars == <<store, status, content, written>>

Buffers == 1 .. NBuffers
Unwritten == 0
Cells(n) == [i \in 1 .. n |-> Unwritten]

(* basic_buffer: ptr_, as an index of the memory, size_ and capacity_. *)
BasicBuffer(data, size, capacity) == [data |-> data, size |-> size, capacity |-> capacity]

NewBuffer(b) == BasicBuffer(b, 0, InlineSize)
NewStore ==
  [buf |-> [b \in Buffers |-> NewBuffer(b)], mem |-> [b \in Buffers |-> Cells(InlineSize)], freed |-> <<>>]

set(s, b, data, capacity) == [s EXCEPT !.buf[b].data = data, !.buf[b].capacity = capacity]
clear(s, b) == [s EXCEPT !.buf[b].size = 0]
Free(s, b, data) == IF data = b THEN s ELSE [s EXCEPT !.freed = Append(@, data)]
deallocate(s, b) == Free(s, b, s.buf[b].data)

(* A block half as large again, or as large as is needed, gets the old content. *)
grow(s, b, size) ==
  LET old == s.buf[b]
      more == old.capacity + old.capacity \div 2
      capacity == IF size > more THEN size ELSE more
      block == [i \in 1 .. capacity |-> IF i <= old.size THEN s.mem[old.data][i] ELSE Unwritten]
      allocated == [s EXCEPT !.mem = Append(@, block)]
  IN Free(set(allocated, b, Len(allocated.mem), capacity), b, old.data)

reserve(s, b, capacity) == IF capacity > s.buf[b].capacity THEN grow(s, b, capacity) ELSE s
resize(s, b, size) == [reserve(s, b, size) EXCEPT !.buf[b].size = size]

append(s, b, chars) ==
  LET size == s.buf[b].size
      r == reserve(s, b, size + Len(chars))
      data == r.buf[b].data
      copied == [i \in 1 .. Len(r.mem[data]) |->
                   IF i \in size + 1 .. size + Len(chars) THEN chars[i - size] ELSE r.mem[data][i]]
  IN [r EXCEPT !.mem[data] = copied, !.buf[b].size = size + Len(chars)]

(* Fault: the other buffer keeps its pointer. *)
FaultMove(s, b, other) ==
  LET o == s.buf[other] IN
  resize(IF o.data = other THEN set([s EXCEPT !.mem[b] = s.mem[other]], b, b, o.capacity)
         ELSE set(s, b, o.data, o.capacity), b, o.size)

(* move: an array is copied; a block changes hands and leaves an empty array behind. *)
move(s, b, other) ==
  LET o == s.buf[other] IN
  resize(IF o.data = other
         THEN LET copied == [i \in 1 .. InlineSize |-> IF i <= o.size THEN s.mem[other][i] ELSE s.mem[b][i]]
              IN set([s EXCEPT !.mem[b] = copied], b, b, o.capacity)
         ELSE set(set(s, b, o.data, o.capacity), other, other, 0),
         b, o.size)

(* The constructors, the assignment and the destructor. *)
Construct(s, b) == [s EXCEPT !.buf[b] = NewBuffer(b)]
MoveConstruct(s, b, other) == move([s EXCEPT !.buf[b] = BasicBuffer(b, 0, 0)], b, other)
MoveAssign(s, b, other) == move(deallocate(s, b), b, other)
Destroy(s, b) == deallocate(s, b)
-----------------------------------------------------------------------------
BufferInit ==
  /\ store = NewStore
  /\ status = [b \in Buffers |-> "live"]
  /\ content = [b \in Buffers |-> <<>>]
  /\ written = 0

AppendTo(b, n) ==
  LET chars == [i \in 1 .. n |-> written + i] IN
  /\ status[b] = "live" /\ written + n <= MaxChars
  /\ store' = append(store, b, chars)
  /\ content' = [content EXCEPT ![b] = @ \o chars]
  /\ written' = written + n
  /\ UNCHANGED status

Clear(b) ==
  /\ status[b] = "live"
  /\ store' = clear(store, b)
  /\ content' = [content EXCEPT ![b] = <<>>]
  /\ UNCHANGED <<status, written>>

(* b has taken over what the other buffer held, which may then only be assigned to or destroyed. *)
TakeOver(b, other) ==
  /\ status' = [status EXCEPT ![b] = "live", ![other] = "moved"]
  /\ content' = [content EXCEPT ![b] = content[other]]
  /\ UNCHANGED written

AssignFrom(b, other) ==
  /\ b # other /\ status[b] # "gone" /\ status[other] = "live"
  /\ store' = MoveAssign(store, b, other)
  /\ TakeOver(b, other)

ConstructFrom(b, other) ==
  /\ b # other /\ status[b] = "gone" /\ status[other] = "live"
  /\ store' = MoveConstruct(store, b, other)
  /\ TakeOver(b, other)

ConstructEmpty(b) ==
  /\ status[b] = "gone"
  /\ store' = Construct(store, b)
  /\ status' = [status EXCEPT ![b] = "live"]
  /\ content' = [content EXCEPT ![b] = <<>>]
  /\ UNCHANGED written

DestroyBuffer(b) ==
  /\ status[b] # "gone"
  /\ store' = Destroy(store, b)
  /\ status' = [status EXCEPT ![b] = "gone"]
  /\ UNCHANGED <<content, written>>

BufferNext ==
  \E b \in Buffers :
    \/ \E n \in AppendSizes : AppendTo(b, n)
    \/ Clear(b) \/ ConstructEmpty(b) \/ DestroyBuffer(b)
    \/ \E other \in Buffers : AssignFrom(b, other) \/ ConstructFrom(b, other)

BufferSpec == BufferInit /\ [][BufferNext]_bufferVars
-----------------------------------------------------------------------------
(* The blocks of the heap, who would free a block, and how often it was freed. *)
Blocks == NBuffers + 1 .. Len(store.mem)
Owners(p) == {b \in Buffers : status[b] # "gone" /\ store.buf[b].data = p}
Frees(p) == {i \in 1 .. Len(store.freed) : store.freed[i] = p}

(***************************************************************************)
(* A buffer holds what was appended to it or moved into it, however it     *)
(* grew and moved; and every block of the heap belongs to one buffer and   *)
(* has not been freed, or to none and has been freed once.                 *)
(***************************************************************************)
BufferKeeps ==
  /\ \A b \in Buffers : status[b] = "live" =>
       LET x == store.buf[b] IN
       /\ x.size <= x.capacity /\ x.capacity <= Len(store.mem[x.data])
       /\ SubSeq(store.mem[x.data], 1, x.size) = content[b]
  /\ \A p \in Blocks :
       \/ Frees(p) = {} /\ \E b \in Buffers : Owners(p) = {b}
       \/ Owners(p) = {} /\ \E i \in 1 .. Len(store.freed) : Frees(p) = {i}
=============================================================================
