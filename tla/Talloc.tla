------------------------------- MODULE Talloc -------------------------------
(***************************************************************************)
(* struct ggml_dyn_tallocr (ggml-alloc.c): plans where tensors go in       *)
(* chunks of memory that do not exist yet.  Sizes and offsets count units  *)
(* of the alignment, as every size is rounded up to it.                    *)
(*                                                                         *)
(* A chunk is its free blocks and the highest offset that was ever used.   *)
(* The code keeps the blocks sorted by offset; here they are a set.        *)
(***************************************************************************)
EXTENDS Integers, Sequences

CONSTANTS
  MaxChunkSize,  \* ggml_dyn_tallocr.max_chunk_size
  MaxChunks,     \* GGML_VBUFFER_MAX_CHUNKS
  Endless        \* SIZE_MAX / 2

ASSUME TallocAssumption ==
  /\ MaxChunkSize \in Nat \ {0} /\ MaxChunks \in Nat \ {0}
  /\ Endless \in Nat /\ Endless >= MaxChunkSize

NoChunk == 0

End(b) == b.offset + b.size
IsLast(b, chunk) == \A other \in chunk.free : other.offset <= b.offset

\* free blocks but the last of their chunk, that are large enough
Holes(chunk, size) == {b \in chunk.free : b.size >= size /\ ~IsLast(b, chunk)}
LastBlock(chunk, size) == {b \in chunk.free : b.size >= size /\ IsLast(b, chunk)}

\* the smallest hole; among equals the loop keeps the last one
BestHole(chunk, size) ==
  LET holes == Holes(chunk, size)
  IN CHOOSE b \in holes : \A other \in holes :
       b.size < other.size \/ (b.size = other.size /\ b.offset >= other.offset)

\* what of the memory the chunk has used so far stays unused; negative: growth
Reuse(chunk, b, size) == chunk.max_size - b.offset - size

\* the first chunk whose tail wastes least, or, if all grow, grows least
BestTail(chunks, size) ==
  LET fits == {c \in DOMAIN chunks : LastBlock(chunks[c], size) # {}}
      last(c) == CHOOSE b \in LastBlock(chunks[c], size) : TRUE
      reuse(c) == Reuse(chunks[c], last(c), size)
      better(c, d) ==
        \/ reuse(c) >= 0 /\ (reuse(d) < 0 \/ reuse(c) < reuse(d))
        \/ reuse(c) < 0 /\ reuse(c) > reuse(d)
      best == CHOOSE c \in fits : \A d \in fits \ {c} :
                better(c, d) \/ (reuse(c) = reuse(d) /\ c < d)
  IN IF fits = {} THEN {} ELSE {[chunk |-> best, block |-> last(best)]}

\* ggml_dyn_tallocr_new_chunk
NewChunk(chunks, size) ==
  [free |-> {[offset |-> 0,
              size |-> IF Len(chunks) = MaxChunks - 1 THEN Endless
                       ELSE IF size > MaxChunkSize THEN size ELSE MaxChunkSize]},
   max_size |-> 0]

\* the front of block b is given away
Take(chunk, b, size) ==
  [free |-> (chunk.free \ {b}) \cup
              (IF b.size = size THEN {} ELSE {[offset |-> b.offset + size, size |-> b.size - size]}),
   max_size |-> IF chunk.max_size >= b.offset + size THEN chunk.max_size ELSE b.offset + size]

\* where a tensor goes among the chunks there are: best_fit_size starts anew for
\* each chunk, so the last chunk with a hole is taken
Where(chunks, size) ==
  LET holed == {c \in DOMAIN chunks : Holes(chunks[c], size) # {}}
      latest == CHOOSE c \in holed : \A d \in holed : d <= c
  IN IF holed # {} THEN {[chunk |-> latest, block |-> BestHole(chunks[latest], size)]}
     ELSE BestTail(chunks, size)

\* ggml_dyn_tallocr_alloc; chunk NoChunk stands for its GGML_ABORT
Alloc(chunks, size) ==
  LET found == Where(chunks, size)
      grown == Append(chunks, NewChunk(chunks, size))
      place(cs, at) == [chunks |-> [cs EXCEPT ![at.chunk] = Take(@, at.block, size)],
                        addr |-> [chunk |-> at.chunk, offset |-> at.block.offset]]
  IN IF found # {} THEN place(chunks, CHOOSE at \in found : TRUE)
     ELSE IF Len(chunks) < MaxChunks
     THEN place(grown, [chunk |-> Len(grown),
                        block |-> CHOOSE b \in grown[Len(grown)].free : TRUE])
     ELSE [chunks |-> chunks, addr |-> [chunk |-> NoChunk, offset |-> 0]]

\* MUTANT: the next block is joined but not removed
MFreeJoined(chunks, addr, size) ==
  LET free == chunks[addr.chunk].free
      next == {b \in free : b.offset = addr.offset + size}
      more == IF next = {} THEN 0 ELSE (CHOOSE b \in next : TRUE).size
  IN [chunks EXCEPT ![addr.chunk].free = free \cup {[offset |-> addr.offset, size |-> size + more]}]
\* ggml_dyn_tallocr_free_bytes: the block is joined with its free neighbours
FreeBytes(chunks, addr, size) ==
  LET free == chunks[addr.chunk].free
      touching == {b \in free : End(b) = addr.offset \/ b.offset = addr.offset + size}
      joined == touching \cup {[offset |-> addr.offset, size |-> size]}
      first == CHOOSE b \in joined : \A other \in joined : b.offset <= other.offset
      last == CHOOSE b \in joined : \A other \in joined : b.offset >= other.offset
      block == [offset |-> first.offset, size |-> End(last) - first.offset]
  IN [chunks EXCEPT ![addr.chunk].free = (free \ touching) \cup {block}]
=============================================================================
