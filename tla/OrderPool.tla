------------------------------ MODULE OrderPool ------------------------------
(***************************************************************************)
(* OrderPool of order_pool.hpp: records in chunks that are only ever       *)
(* appended, addressed by slot numbers handed out in order.  A chunk is    *)
(* the block of memory it was allocated in, so that the model can tell     *)
(* whether a record stays where it is.                                     *)
(***************************************************************************)
EXTENDS Integers, Sequences

CONSTANTS
  kChunkSize,  \* records in a chunk (2^20 in the code)
  BlankRecord  \* OrderRecord{}

ASSUME ChunkAssumption == kChunkSize \in Nat \ {0}

\* chunks: block of each chunk; memory: what each block holds; size: slots
\* handed out.
NewPool == [chunks |-> <<>>, memory |-> <<>>, size |-> 0]

Block == [offset \in 0 .. kChunkSize - 1 |-> BlankRecord]

\* Slip: the new chunk goes to the front.
add_chunk_in_front(pool) ==
  [pool EXCEPT !.chunks = <<Len(pool.memory) + 1>> \o @, !.memory = Append(@, Block)]

add_chunk(pool) ==
  [pool EXCEPT !.chunks = Append(@, Len(pool.memory) + 1), !.memory = Append(@, Block)]

\* Chunks built aside and then appended, as many as n_slots need in all.
reserve_chunks(pool, n_slots) ==
  LET needed == (n_slots + kChunkSize - 1) \div kChunkSize
      fresh  == [c \in 1 .. needed - Len(pool.chunks) |-> Len(pool.memory) + c]
  IN IF Len(pool.chunks) >= needed THEN pool
     ELSE [pool EXCEPT !.chunks = @ \o fresh,
                       !.memory = @ \o [c \in DOMAIN fresh |-> Block]]

\* Where operator[] finds a slot.
Address(pool, slot) ==
  [block |-> pool.chunks[slot \div kChunkSize + 1], offset |-> slot % kChunkSize]

Record(pool, slot) ==
  LET at == Address(pool, slot) IN pool.memory[at.block][at.offset]

Written(pool, slot, rec) ==
  LET at == Address(pool, slot) IN [pool EXCEPT !.memory[at.block][at.offset] = rec]

\* Does the next allocate need a chunk first?
NeedsChunk(pool) == pool.size \div kChunkSize >= Len(pool.chunks)

\* The pool after allocate has handed out slot pool.size.
allocate(pool) ==
  LET grown == IF NeedsChunk(pool) THEN add_chunk(pool) ELSE pool
  IN Written([grown EXCEPT !.size = @ + 1], pool.size, BlankRecord)

=============================================================================
