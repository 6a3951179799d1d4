------------------------- MODULE GraphAlloc_proofs -------------------------
(***************************************************************************)
(* The memory plan of a graph, for any graphs, sizes and chunks: nothing   *)
(* is given out twice or lost, and no tensor is overwritten before its     *)
(* last reader.  First what an allocation and a free do to the blocks of a *)
(* chunk (Talloc), then the plan of a graph (GraphAlloc).                  *)
(***************************************************************************)
EXTENDS GraphAlloc, FiniteSetTheorems, WellFoundedInduction, TLAPS

-----------------------------------------------------------------------------
(* Least and greatest elements.                                            *)

\* Among sets of subsets of a finite set there is one that contains no other: what
\* takes the place of induction over finite sets.
LEMMA MinimalSubset ==
  ASSUME NEW S, IsFiniteSet(S), NEW Family, Family \subseteq SUBSET S, Family # {}
  PROVE  \E U \in Family : \A V \in Family : V \subseteq U => V = U
<1>1. IsWellFoundedOn(StrictSubsetOrdering(S), FiniteSubsetsOf(S))
  BY FS_StrictSubsetOrderingWellFounded
<1>2. FiniteSubsetsOf(S) = SUBSET S
  BY FS_FiniteSubsetsOfFinite
<1>3. \E U \in Family : \A V \in Family : ~ (<<V, U>> \in StrictSubsetOrdering(S))
  BY <1>1, <1>2, WFMin
<1> QED
  BY <1>3 DEF StrictSubsetOrdering

\* Every set of naturals has a least element.
LEMMA LeastNatural ==
  ASSUME NEW T, T \subseteq Nat, T # {}
  PROVE  \E n \in T : \A m \in T : n <= m
<1>1. PICK n \in T : TRUE
  OBVIOUS
<1> DEFINE Below(k) == {m \in T : m <= k}
           Family == {Below(k) : k \in Below(n)}
<1>2. IsFiniteSet(Below(n))
  BY <1>1, FS_BoundedSetOfNaturals
<1>3. Family \subseteq SUBSET Below(n) /\ Family # {}
  <2>1. n \in Below(n)
    BY <1>1
  <2>2. ASSUME NEW k \in Below(n)
        PROVE  Below(k) \subseteq Below(n)
    <3> SUFFICES ASSUME NEW m \in Below(k) PROVE m \in T /\ m <= n
      OBVIOUS
    <3>1. m \in Nat /\ k \in Nat /\ n \in Nat /\ m <= k /\ k <= n
      BY <1>1
    <3> QED
      BY <3>1
  <2> HIDE DEF Below
  <2> QED
    BY <2>1, <2>2
<1>4. PICK U \in Family : \A V \in Family : V \subseteq U => V = U
  <2> HIDE DEF Family, Below
  <2> QED
    BY <1>2, <1>3, MinimalSubset
<1>5. PICK k \in Below(n) : U = Below(k)
  BY <1>4
<1>6. ASSUME NEW m \in T, m < k
      PROVE  FALSE
  <2>0. k \in T /\ m \in Nat /\ k \in Nat /\ n \in Nat /\ k <= n
    BY <1>1, <1>5
  <2>1. m \in Below(n) /\ k \in Below(k) /\ k \notin Below(m)
    BY <1>6, <2>0
  <2>2. Below(m) \subseteq Below(k)
    <3> SUFFICES ASSUME NEW i \in Below(m) PROVE i \in T /\ i <= k
      OBVIOUS
    <3> QED
      BY <1>6, <2>0
  <2> HIDE DEF Below
  <2> QED
    BY <1>4, <1>5, <2>1, <2>2
<1> QED
  <2>1. k \in T /\ \A m \in T : m \in Nat /\ k \in Nat
    BY <1>5
  <2> QED
    BY <1>6, <2>1

FreeBlock == [offset : Nat, size : Nat \ {0}]

\* A finite set of blocks has one that is behind all others.
LEMMA HighestBlock ==
  ASSUME NEW S, S \subseteq FreeBlock, IsFiniteSet(S), S # {}
  PROVE  \E b \in S : \A other \in S : other.offset <= b.offset
<1> DEFINE HasHighest(U) == \E b \in U : \A other \in U : other.offset <= b.offset
           Bad == {U \in SUBSET S : U # {} /\ ~HasHighest(U)}
<1> SUFFICES ASSUME Bad # {} PROVE FALSE
  OBVIOUS
<1>1. PICK U \in Bad : \A V \in Bad : V \subseteq U => V = U
  <2>1. Bad \subseteq SUBSET S
    OBVIOUS
  <2> HIDE DEF Bad
  <2> QED
    BY <2>1, MinimalSubset
<1>2. PICK x \in U : TRUE
  BY <1>1
<1>3. U \ {x} \notin Bad
  BY <1>1, <1>2
<1>4. x \in FreeBlock /\ \A other \in U : other.offset \in Nat
  BY <1>1, <1>2 DEF FreeBlock
<1>5. CASE U \ {x} = {}
  BY <1>1, <1>2, <1>4, <1>5
<1>6. CASE HasHighest(U \ {x})
  <2>1. PICK y \in U \ {x} : \A other \in U \ {x} : other.offset <= y.offset
    BY <1>6
  <2> QED
    BY <1>1, <1>2, <1>4, <2>1
<1> QED
  BY <1>1, <1>3, <1>5, <1>6

-----------------------------------------------------------------------------
(* Where a tensor goes.                                                    *)

Chunk == {c \in [free : SUBSET FreeBlock, max_size : Nat] : IsFiniteSet(c.free)}

\* The smallest hole is one.
LEMMA BestHoleIsHole ==
  ASSUME NEW chunk \in Chunk, NEW size \in Nat, Holes(chunk, size) # {}
  PROVE  BestHole(chunk, size) \in Holes(chunk, size)
<1> DEFINE holes == Holes(chunk, size)
           Sizes == {z \in Nat : \E b \in holes : b.size = z}
<1>1. holes \subseteq FreeBlock /\ IsFiniteSet(holes)
  <2>1. holes \subseteq chunk.free /\ chunk.free \subseteq FreeBlock /\ IsFiniteSet(chunk.free)
    BY DEF Holes, Chunk
  <2> QED
    BY <2>1, FS_Subset
<1>2. Sizes # {}
  BY <1>1 DEF FreeBlock
<1>3. PICK z \in Sizes : \A y \in Sizes : z <= y
  <2>1. Sizes \subseteq Nat
    OBVIOUS
  <2> HIDE DEF Sizes
  <2> QED
    BY <1>2, <2>1, LeastNatural
<1> DEFINE Small == {b \in holes : b.size = z}
<1>4. \E b \in Small : \A other \in Small : other.offset <= b.offset
  <2>1. Small # {} /\ Small \subseteq FreeBlock /\ Small \in SUBSET holes
    BY <1>1, <1>3
  <2>2. IsFiniteSet(Small)
    BY <1>1, <2>1, FS_Subset
  <2> HIDE DEF Small
  <2> QED
    BY <2>1, <2>2, HighestBlock
<1>5. PICK b \in Small : \A other \in Small : other.offset <= b.offset
  BY <1>4
<1>6. \A other \in holes :
        b.size < other.size \/ (b.size = other.size /\ b.offset >= other.offset)
  <2> TAKE other \in holes
  <2>1. other.size \in Nat /\ other.offset \in Nat /\ b.offset \in Nat /\ b.size = z /\ z \in Nat
    BY <1>1, <1>3, <1>5 DEF FreeBlock
  <2>2. z <= other.size
    BY <1>3, <2>1
  <2>3. other.size = z => other.offset <= b.offset
    BY <1>5
  <2> QED
    BY <2>1, <2>2, <2>3
<1> QED
  BY <1>5, <1>6 DEF BestHole

\* The best tail is the last block of a chunk, and large enough.
LEMMA BestTailFits ==
  ASSUME NEW chunks \in Seq(Chunk), NEW size \in Nat, NEW place \in BestTail(chunks, size)
  PROVE  place.chunk \in DOMAIN chunks /\ place.block \in LastBlock(chunks[place.chunk], size)
<1> DEFINE fits == {c \in DOMAIN chunks : LastBlock(chunks[c], size) # {}}
           last(c) == CHOOSE b \in LastBlock(chunks[c], size) : TRUE
           reuse(c) == Reuse(chunks[c], last(c), size)
           better(c, d) ==
             \/ reuse(c) >= 0 /\ (reuse(d) < 0 \/ reuse(c) < reuse(d))
             \/ reuse(c) < 0 /\ reuse(c) > reuse(d)
           Wins(c) == \A d \in fits \ {c} : better(c, d) \/ (reuse(c) = reuse(d) /\ c < d)
           best == CHOOSE c \in fits : Wins(c)
<1>1. fits # {} /\ place = [chunk |-> best, block |-> last(best)]
  BY DEF BestTail
<1>2. \A c \in fits : last(c) \in LastBlock(chunks[c], size)
  OBVIOUS
<1>3. fits \subseteq Nat
  <2>1. DOMAIN chunks \subseteq Nat
    OBVIOUS
  <2> QED
    BY <2>1
<1>4. \A c \in fits : reuse(c) \in Int
  <2> TAKE c \in fits
  <2>1. chunks[c] \in Chunk /\ last(c) \in chunks[c].free
    BY <1>2 DEF LastBlock
  <2>2. chunks[c].max_size \in Nat /\ last(c).offset \in Nat
    BY <2>1 DEF Chunk, FreeBlock
  <2> QED
    BY <2>2 DEF Reuse
<1>5. \E c \in fits : Wins(c)
  <2> HIDE DEF fits, reuse
  \* the least waste, or else the least growth, and the first chunk that has it
  <2> DEFINE Kept == {c \in fits : reuse(c) >= 0}
             Wastes == {w \in Nat : \E c \in Kept : reuse(c) = w}
             Growths == {w \in Nat : \E c \in fits : reuse(c) = 0 - w}
  <2>1. ASSUME NEW r \in Int, \E c \in fits : reuse(c) = r
        PROVE  \E c \in fits : reuse(c) = r /\ \A d \in fits : reuse(d) = r => c <= d
    <3> DEFINE Equal == {c \in fits : reuse(c) = r}
    <3>1. Equal # {} /\ Equal \subseteq Nat
      BY <1>3, <2>1
    <3>2. \E c \in Equal : \A d \in Equal : c <= d
      <4> HIDE DEF Equal
      <4> QED
        BY <3>1, LeastNatural
    <3> QED
      BY <3>2
  <2>2. ASSUME NEW r \in Int, \E c \in fits : reuse(c) = r,
               \A d \in fits : reuse(d) = r \/ (r >= 0 /\ (reuse(d) < 0 \/ r < reuse(d)))
                                 \/ (r < 0 /\ r > reuse(d))
        PROVE  \E c \in fits : Wins(c)
    <3>1. PICK c \in fits : reuse(c) = r /\ \A d \in fits : reuse(d) = r => c <= d
      BY <2>1, <2>2
    <3>2. ASSUME NEW d \in fits, d # c, reuse(d) = r
          PROVE  c < d
      BY <1>3, <3>1, <3>2
    <3> QED
      BY <2>2, <3>1, <3>2
  <2>3. CASE Kept # {}
    <3>1. Wastes # {} /\ Wastes \subseteq Nat
      BY <1>4, <2>3
    <3>2. PICK w \in Wastes : \A v \in Wastes : w <= v
      <4> HIDE DEF Wastes
      <4> QED
        BY <3>1, LeastNatural
    <3>3. \A d \in fits : reuse(d) = w \/ reuse(d) < 0 \/ w < reuse(d)
      <4> TAKE d \in fits
      <4>1. CASE reuse(d) < 0
        BY <4>1
      <4>2. CASE reuse(d) >= 0
        <5>1. reuse(d) \in Wastes
          BY <1>4, <4>2
        <5> QED
          BY <1>4, <3>1, <3>2, <5>1
      <4> QED
        BY <1>4, <4>1, <4>2
    <3> QED
      BY <2>2, <3>2, <3>3
  <2>4. CASE Kept = {}
    <3>1. Growths # {} /\ Growths \subseteq Nat
      <4>1. PICK c \in fits : TRUE
        BY <1>1 DEF fits
      <4>2. reuse(c) \in Int /\ ~(reuse(c) >= 0)
        BY <1>4, <2>4
      <4>3. 0 - reuse(c) \in Nat /\ reuse(c) = 0 - (0 - reuse(c))
        BY <4>2
      <4> QED
        BY <4>3
    <3>2. PICK w \in Growths : \A v \in Growths : w <= v
      <4> HIDE DEF Growths
      <4> QED
        BY <3>1, LeastNatural
    <3>3. PICK c \in fits : reuse(c) = 0 - w
      BY <3>2
    <3>4. reuse(c) \in Int /\ reuse(c) < 0
      BY <1>4, <2>4
    <3>5. \A d \in fits : reuse(d) = reuse(c) \/ reuse(c) > reuse(d)
      <4> TAKE d \in fits
      <4>1. reuse(d) \in Int /\ reuse(d) < 0
        BY <1>4, <2>4
      <4>2. 0 - reuse(d) \in Nat /\ reuse(d) = 0 - (0 - reuse(d))
        BY <4>1
      <4>3. 0 - reuse(d) \in Growths
        BY <4>2
      <4>4. w <= 0 - reuse(d)
        BY <3>2, <4>3
      <4> QED
        BY <3>2, <3>3, <4>1, <4>4
    <3> QED
      BY <2>2, <3>4, <3>5
  <2> QED
    BY <2>3, <2>4
<1>6. best \in fits
  BY <1>5
<1>7. best \in DOMAIN chunks /\ last(best) \in LastBlock(chunks[best], size)
  BY <1>2, <1>6
<1> HIDE DEF best, last
<1> QED
  BY <1>1, <1>7

\* What is found is a free block that is large enough.
LEMMA FoundFits ==
  ASSUME NEW chunks \in Seq(Chunk), NEW size \in Nat, NEW place \in Where(chunks, size)
  PROVE  /\ place.chunk \in DOMAIN chunks
         /\ place.block \in chunks[place.chunk].free /\ place.block.size >= size
<1> DEFINE holed == {c \in DOMAIN chunks : Holes(chunks[c], size) # {}}
           latest == CHOOSE c \in holed : \A d \in holed : d <= c
<1>1. CASE holed # {}
  <2> DEFINE Distances == {n \in Nat : \E c \in holed : Len(chunks) - c = n}
  <2>1. \A c \in holed : c \in 1 .. Len(chunks) /\ Len(chunks) - c \in Nat
    <3>1. DOMAIN chunks = 1 .. Len(chunks) /\ Len(chunks) \in Nat
      OBVIOUS
    <3> QED
      BY <3>1
  <2>2. Distances # {} /\ Distances \subseteq Nat
    BY <1>1, <2>1
  <2>3. PICK n \in Distances : \A m \in Distances : n <= m
    <3> HIDE DEF Distances
    <3> QED
      BY <2>2, LeastNatural
  <2>4. PICK c \in holed : Len(chunks) - c = n
    BY <2>3
  <2>5. \A d \in holed : d <= c
    <3> TAKE d \in holed
    <3>1. Len(chunks) - c <= Len(chunks) - d
      BY <2>1, <2>3, <2>4
    <3> QED
      BY <2>1, <2>4, <3>1
  <2>6. latest \in holed
    BY <2>4, <2>5
  <2>7. BestHole(chunks[latest], size) \in Holes(chunks[latest], size)
    <3>1. latest \in DOMAIN chunks /\ Holes(chunks[latest], size) # {}
      BY <2>6
    <3> HIDE DEF latest
    <3>2. chunks[latest] \in Chunk
      BY <3>1
    <3> QED
      BY <3>1, <3>2, BestHoleIsHole
  <2>8. place = [chunk |-> latest, block |-> BestHole(chunks[latest], size)]
    BY <1>1 DEF Where
  <2> QED
    BY <2>6, <2>7, <2>8 DEF Holes
<1>2. CASE holed = {}
  <2>1. place \in BestTail(chunks, size)
    BY <1>2 DEF Where
  <2>2. place.chunk \in DOMAIN chunks /\ place.block \in LastBlock(chunks[place.chunk], size)
    BY <2>1, BestTailFits
  <2> QED
    BY <2>2 DEF LastBlock
<1> QED
  BY <1>1, <1>2

-----------------------------------------------------------------------------
(* Blocks that fill a chunk.                                               *)

Apart(a, b) == End(a) <= b.offset \/ End(b) <= a.offset
Solid(B) == \A b \in B : b.offset \in Nat /\ b.size \in Nat \ {0}

\* The free blocks and the held ones lie side by side from offset 0 on, at least as
\* far as a chunk reaches, and no two free ones are neighbours.
Tiles(free, held) ==
  /\ free \subseteq FreeBlock /\ Solid(held)
  /\ \A a, b \in free : a # b => Apart(a, b) /\ End(a) # b.offset
  /\ \A a, b \in held : a # b => Apart(a, b)
  /\ \A a \in free, b \in held : Apart(a, b)
  /\ \A a \in free \cup held : a.offset = 0 \/ \E b \in free \cup held : End(b) = a.offset
  /\ \E a \in free \cup held : End(a) >= MaxChunkSize

LEMMA NewChunkTiles ==
  ASSUME NEW chunks \in Seq(Chunk), NEW size \in 1 .. Endless
  PROVE  /\ NewChunk(chunks, size) \in Chunk
         /\ Tiles(NewChunk(chunks, size).free, {})
         /\ \E b \in NewChunk(chunks, size).free :
              b.size >= size /\ NewChunk(chunks, size).free = {b}
<1> DEFINE z == IF Len(chunks) = MaxChunks - 1 THEN Endless
                ELSE IF size > MaxChunkSize THEN size ELSE MaxChunkSize
           b == [offset |-> 0, size |-> z]
<1>1. z \in Nat \ {0} /\ z >= size /\ z >= MaxChunkSize
  BY TallocAssumption
<1>2. NewChunk(chunks, size) = [free |-> {b}, max_size |-> 0]
  BY DEF NewChunk
<1>3. b \in FreeBlock /\ b.offset = 0 /\ b.size = z
  BY <1>1 DEF FreeBlock
<1> HIDE DEF b
<1>4. IsFiniteSet({b}) /\ {b} \subseteq FreeBlock
  BY <1>3, FS_Singleton
<1>5. NewChunk(chunks, size) \in Chunk
  <2>1. NewChunk(chunks, size) \in [free : SUBSET FreeBlock, max_size : Nat]
    BY <1>2, <1>4
  <2>2. IsFiniteSet(NewChunk(chunks, size).free)
    BY <1>2, <1>4
  <2> QED
    BY <2>1, <2>2 DEF Chunk
<1>6. End(b) = z
  BY <1>1, <1>3 DEF End
<1>7. Tiles({b}, {})
  BY <1>1, <1>3, <1>4, <1>6 DEF Tiles, Solid
<1> QED
  BY <1>1, <1>2, <1>3, <1>5, <1>7

\* r is what comes of giving the front of block b of chunk c away
Gives(chunks, size, c, b, r) ==
  /\ c \in DOMAIN chunks /\ b \in chunks[c].free /\ b.size >= size
  /\ r = [chunks |-> [chunks EXCEPT ![c] = Take(chunks[c], b, size)],
          addr |-> [chunk |-> c, offset |-> b.offset]]

Grown(chunks, size) == Append(chunks, NewChunk(chunks, size))

LEMMA AllocGives ==
  ASSUME NEW chunks \in Seq(Chunk), NEW size \in 1 .. Endless
  PROVE  \/ Alloc(chunks, size) = [chunks |-> chunks, addr |-> [chunk |-> NoChunk, offset |-> 0]]
         \/ \E c, b : Gives(chunks, size, c, b, Alloc(chunks, size))
         \/ /\ Len(chunks) < MaxChunks
            /\ \E b : Gives(Grown(chunks, size), size, Len(chunks) + 1, b, Alloc(chunks, size))
<1> DEFINE found == Where(chunks, size)
           place == CHOOSE p \in found : TRUE
           new == CHOOSE b \in Grown(chunks, size)[Len(Grown(chunks, size))].free : TRUE
<1>0. size \in Nat
  OBVIOUS
<1>1. CASE found # {}
  <2>1. place \in found
    BY <1>1
  <2>2. Alloc(chunks, size) =
          [chunks |-> [chunks EXCEPT ![place.chunk] = Take(chunks[place.chunk], place.block, size)],
           addr |-> [chunk |-> place.chunk, offset |-> place.block.offset]]
    BY <1>1 DEF Alloc
  <2> HIDE DEF place, found
  <2>3. /\ place.chunk \in DOMAIN chunks
        /\ place.block \in chunks[place.chunk].free /\ place.block.size >= size
    BY <1>0, <2>1, FoundFits DEF found
  <2> QED
    BY <2>2, <2>3 DEF Gives
<1>2. CASE found = {} /\ Len(chunks) < MaxChunks
  <2>1. Alloc(chunks, size) =
          [chunks |-> [Grown(chunks, size) EXCEPT ![Len(Grown(chunks, size))] =
                         Take(Grown(chunks, size)[Len(Grown(chunks, size))], new, size)],
           addr |-> [chunk |-> Len(Grown(chunks, size)), offset |-> new.offset]]
    BY <1>2 DEF Alloc, Grown
  <2>2. NewChunk(chunks, size) \in Chunk
        /\ \E b \in NewChunk(chunks, size).free :
             b.size >= size /\ NewChunk(chunks, size).free = {b}
    BY NewChunkTiles
  <2>3. /\ Len(Grown(chunks, size)) = Len(chunks) + 1
        /\ Grown(chunks, size)[Len(chunks) + 1] = NewChunk(chunks, size)
        /\ Len(chunks) + 1 \in DOMAIN Grown(chunks, size)
    BY <2>2 DEF Grown
  <2>4. new \in NewChunk(chunks, size).free /\ new.size >= size
    BY <2>2, <2>3
  <2> HIDE DEF new
  <2> QED
    BY <1>2, <2>1, <2>3, <2>4 DEF Gives
<1>3. CASE found = {} /\ ~ (Len(chunks) < MaxChunks)
  BY <1>3 DEF Alloc
<1> QED
  BY <1>1, <1>2, <1>3

\* The front of a free block is given away: the chunk stays filled.
LEMMA TakeTiles ==
  ASSUME NEW chunk \in Chunk, NEW held, Tiles(chunk.free, held), NEW b \in chunk.free,
         NEW size \in Nat \ {0}, size <= b.size,
         NEW new, new.offset = b.offset, new.size = size
  PROVE  /\ Take(chunk, b, size) \in Chunk
         /\ Tiles(Take(chunk, b, size).free, held \cup {new})
         /\ Take(chunk, b, size).max_size =
              IF chunk.max_size >= End(new) THEN chunk.max_size ELSE End(new)
         /\ \A x \in held : Apart(x, new)
<1> DEFINE rest == [offset |-> b.offset + size, size |-> b.size - size]
           Rest == IF b.size = size THEN {} ELSE {rest}
           free == chunk.free
           left == (free \ {b}) \cup Rest
<1>1. /\ free \subseteq FreeBlock /\ IsFiniteSet(free) /\ chunk.max_size \in Nat
      /\ b \in FreeBlock /\ b.offset \in Nat /\ b.size \in Nat \ {0}
  BY DEF Chunk, FreeBlock
<1>2. /\ End(new) = b.offset + size /\ End(b) = b.offset + b.size
      /\ new.offset \in Nat /\ new.size \in Nat \ {0} /\ End(new) \in Nat
  BY <1>1 DEF End
<1>3. \A r \in Rest : /\ r \in FreeBlock /\ r.offset = End(new) /\ End(r) = End(b)
                      /\ b.size # size /\ r = rest
  BY <1>1, <1>2 DEF FreeBlock, End
<1>4. Rest # {} \/ End(new) = End(b)
  BY <1>2
<1>5. IsFiniteSet(left)
  <2>1. IsFiniteSet(free \ {b})
    BY <1>1, FS_RemoveElement
  <2>2. IsFiniteSet(Rest)
    BY FS_EmptySet, FS_Singleton
  <2> QED
    BY <2>1, <2>2, FS_Union
<1>6. /\ Take(chunk, b, size).free = left
      /\ Take(chunk, b, size).max_size = IF chunk.max_size >= End(new) THEN chunk.max_size
                                         ELSE End(new)
      /\ Take(chunk, b, size) = [free |-> left, max_size |-> Take(chunk, b, size).max_size]
  BY <1>2 DEF Take
<1> HIDE DEF Rest
<1>7. left \subseteq FreeBlock
  BY <1>1, <1>3
<1>8. \A x \in (free \ {b}) \cup held :
        /\ Apart(x, b) /\ x.offset \in Nat /\ x.size \in Nat \ {0} /\ End(x) \in Nat
        /\ End(x) = x.offset + x.size
  BY <1>1 DEF Tiles, Apart, Solid, FreeBlock, End
<1>9. \A x \in (free \ {b}) \cup held :
        /\ Apart(x, new) /\ Apart(new, x)
        /\ \A r \in Rest : Apart(x, r) /\ Apart(r, x)
  BY <1>1, <1>2, <1>3, <1>8 DEF Apart
<1>10. \A r \in Rest : Apart(r, new) /\ Apart(new, r)
  BY <1>1, <1>2, <1>3 DEF Apart
<1>11. \A a, c \in left : a # c => Apart(a, c) /\ End(a) # c.offset
  <2> SUFFICES ASSUME NEW a \in left, NEW c \in left, a # c
               PROVE  Apart(a, c) /\ End(a) # c.offset
    OBVIOUS
  <2>1. CASE a \in free /\ c \in free
    BY <2>1 DEF Tiles
  <2>2. CASE a \in free \ {b} /\ c \in Rest
    \* a block that ended where the rest begins would lie over b
    <3>1. Apart(a, b) /\ a.size \in Nat \ {0} /\ End(a) = a.offset + a.size /\ a.offset \in Nat
      BY <1>8, <2>2
    <3>2. c.offset = b.offset + size /\ c.offset < End(b)
      BY <1>1, <1>2, <1>3, <2>2
    <3> QED
      BY <1>1, <1>2, <1>9, <2>2, <3>1, <3>2 DEF Apart
  <2>3. CASE a \in Rest /\ c \in free \ {b}
    BY <1>3, <1>9, <2>3 DEF Tiles
  <2> QED
    BY <1>3, <2>1, <2>2, <2>3
<1>12. \A a \in held \cup {new}, c \in held \cup {new} : a # c => Apart(a, c)
  BY <1>9 DEF Tiles
<1>13. \A a \in left, c \in held \cup {new} : Apart(a, c)
  BY <1>9, <1>10 DEF Tiles
<1>14. \A a \in left \cup (held \cup {new}) :
         a.offset = 0 \/ \E c \in left \cup (held \cup {new}) : End(c) = a.offset
  <2> SUFFICES ASSUME NEW a \in left \cup (held \cup {new}), a.offset # 0
               PROVE  \E c \in left \cup (held \cup {new}) : End(c) = a.offset
    OBVIOUS
  <2>1. CASE a \in Rest
    BY <1>3, <2>1
  <2>2. CASE a \notin Rest
    <3>1. PICK c \in free \cup held : End(c) = a.offset
      <4>1. CASE a = new
        BY <4>1 DEF Tiles
      <4>2. CASE a # new
        BY <2>2, <4>2 DEF Tiles
      <4> QED
        BY <4>1, <4>2
    <3> QED
      BY <1>3, <1>4, <3>1
  <2> QED
    BY <2>1, <2>2
<1>15. \E a \in left \cup (held \cup {new}) : End(a) >= MaxChunkSize
  <2>1. PICK a \in free \cup held : End(a) >= MaxChunkSize
    BY DEF Tiles
  <2> QED
    BY <1>3, <1>4, <2>1
<1>16. Solid(held \cup {new})
  BY <1>2 DEF Tiles, Solid
<1>17. Tiles(left, held \cup {new})
  BY <1>7, <1>11, <1>12, <1>13, <1>14, <1>15, <1>16 DEF Tiles
<1>18. Take(chunk, b, size) \in Chunk
  BY <1>1, <1>2, <1>5, <1>6, <1>7 DEF Chunk
<1> QED
  BY <1>6, <1>9, <1>17, <1>18

\* Two blocks that are apart, neither of them empty, begin and end at different places.
LEMMA ApartDiffer ==
  ASSUME NEW a, NEW b, Solid({a, b}), Apart(a, b)
  PROVE  a.offset # b.offset /\ End(a) # End(b)
BY DEF Apart, Solid, End

\* The free neighbours of x, and what they and x become.
Before(free, x) == {b \in free : End(b) = x.offset}
Behind(free, x) == {b \in free : b.offset = End(x)}
Joins(free, x, lo, hi) ==
  /\ lo \in Nat /\ hi \in Nat /\ lo <= x.offset /\ hi >= End(x)
  /\ Before(free, x) = {} => lo = x.offset
  /\ Behind(free, x) = {} => hi = End(x)
  /\ \A b \in Before(free, x) : lo = b.offset
  /\ \A b \in Behind(free, x) : hi = End(b)
Rest(free, x) == free \ (Before(free, x) \cup Behind(free, x))

\* There is at most one on each side.
LEMMA Neighbours ==
  ASSUME NEW free, NEW held, Tiles(free, held), NEW x \in held
  PROVE  /\ \A a, b \in Before(free, x) : a = b
         /\ \A a, b \in Behind(free, x) : a = b
         /\ \A b \in Before(free, x) : b.offset < x.offset /\ End(b) < End(x)
         /\ \A b \in Behind(free, x) : b.offset > x.offset /\ End(b) > End(x)
<1>1. \A b \in free \cup held : /\ b.offset \in Nat /\ b.size \in Nat \ {0}
                                /\ End(b) = b.offset + b.size /\ End(b) \in Nat
  BY DEF FreeBlock, Tiles, Solid, End
<1>2. \A a, b \in free : a # b => a.offset # b.offset /\ End(a) # End(b)
  <2> SUFFICES ASSUME NEW a \in free, NEW b \in free, a # b
               PROVE  a.offset # b.offset /\ End(a) # End(b)
    OBVIOUS
  <2>1. Solid({a, b}) /\ Apart(a, b)
    BY <1>1 DEF Tiles, Solid
  <2> QED
    BY <2>1, ApartDiffer
<1>3. \A b \in Before(free, x) : b.offset < x.offset /\ End(b) < End(x)
  BY <1>1 DEF Before
<1>4. \A b \in Behind(free, x) : b.offset > x.offset /\ End(b) > End(x)
  BY <1>1 DEF Behind
<1> QED
  BY <1>2, <1>3, <1>4 DEF Before, Behind

\* What is freed leaves the chunk filled.
LEMMA JoinTiles ==
  ASSUME NEW free, NEW held, Tiles(free, held), NEW x \in held,
         NEW lo, NEW hi, Joins(free, x, lo, hi),
         NEW block \in FreeBlock, block.offset = lo, End(block) = hi
  PROVE  Tiles(Rest(free, x) \cup {block}, held \ {x})
<1> DEFINE others == Rest(free, x) \cup (held \ {x})
<1>1. \A b \in free \cup held : /\ b.offset \in Nat /\ b.size \in Nat \ {0}
                                /\ End(b) = b.offset + b.size /\ End(b) \in Nat
  BY DEF FreeBlock, Tiles, Solid, End
<1>2. block.size \in Nat \ {0} /\ lo < hi /\ lo \in Nat /\ hi \in Nat
  BY DEF FreeBlock, End, Joins
\* what is left over lies on one side of it
<1>3. ASSUME NEW o \in others
      PROVE  End(o) <= lo \/ hi <= o.offset
  <2>1. Apart(o, x)
    BY DEF Tiles, Rest
  <2>2. \A b \in Before(free, x) \cup Behind(free, x) : Apart(o, b) \/ Apart(b, o)
    BY DEF Tiles, Rest, Before, Behind
  <2>3. o \in free \cup held
    BY DEF Rest
  <2>4. End(o) <= x.offset \/ End(x) <= o.offset
    BY <2>1 DEF Apart
  <2>5. End(o) <= x.offset => End(o) <= lo
    <3>1. CASE Before(free, x) = {}
      BY <3>1 DEF Joins
    <3>2. CASE Before(free, x) # {}
      <4>1. PICK l \in Before(free, x) : TRUE
        BY <3>2
      <4>2. lo = l.offset /\ End(l) = x.offset /\ l \in free
        BY <4>1 DEF Joins, Before
      <4>3. Apart(o, l) \/ Apart(l, o)
        BY <2>2, <4>1
      <4> QED
        BY <1>1, <2>3, <4>2, <4>3 DEF Apart
    <3> QED
      BY <3>1, <3>2
  <2>6. End(x) <= o.offset => hi <= o.offset
    <3>1. CASE Behind(free, x) = {}
      BY <3>1 DEF Joins
    <3>2. CASE Behind(free, x) # {}
      <4>1. PICK r \in Behind(free, x) : TRUE
        BY <3>2
      <4>2. hi = End(r) /\ r.offset = End(x) /\ r \in free
        BY <4>1 DEF Joins, Behind
      <4>3. Apart(o, r) \/ Apart(r, o)
        BY <2>2, <4>1
      <4> QED
        BY <1>1, <2>3, <4>2, <4>3 DEF Apart
    <3> QED
      BY <3>1, <3>2
  <2> QED
    BY <2>4, <2>5, <2>6
<1>4. \A o \in others : Apart(o, block) /\ Apart(block, o)
  BY <1>3 DEF Apart
\* its neighbours on both sides are held
<1>5. \A o \in Rest(free, x) : End(o) # lo /\ o.offset # hi
  <2> TAKE o \in Rest(free, x)
  <2>1. o \in free /\ End(o) # x.offset /\ o.offset # End(x)
    BY DEF Rest, Before, Behind
  <2>2. \A b \in free : End(o) # b.offset /\ End(b) # o.offset
    BY <1>1, <2>1 DEF Tiles
  <2> QED
    BY <2>1, <2>2 DEF Joins, Before, Behind
<1>6. lo = 0 \/ \E o \in others : End(o) = lo
  <2>1. CASE Before(free, x) = {}
    <3>1. lo = x.offset
      BY <2>1 DEF Joins
    <3>2. lo = 0 \/ \E o \in free \cup held : End(o) = lo
      BY <3>1 DEF Tiles
    <3>3. ASSUME NEW o \in free \cup held, End(o) = lo
          PROVE  o \in others
      <4>1. o \notin free /\ o # x
        BY <1>1, <2>1, <3>1, <3>3 DEF Before
      <4> QED
        BY <4>1
    <3> QED
      BY <3>2, <3>3
  <2>2. CASE Before(free, x) # {}
    <3>1. PICK l \in free : lo = l.offset /\ End(l) = x.offset
      BY <2>2 DEF Joins, Before
    <3>2. lo = 0 \/ \E o \in free \cup held : End(o) = lo
      BY <3>1 DEF Tiles
    <3>3. ASSUME NEW o \in free \cup held, End(o) = lo
          PROVE  o \in others
      <4>1. o # x
        BY <1>1, <3>1, <3>3
      <4>2. o \notin free
        BY <1>1, <3>1, <3>3 DEF Tiles
      <4> QED
        BY <4>1, <4>2
    <3> QED
      BY <3>2, <3>3
  <2> QED
    BY <2>1, <2>2
<1>7. \A b \in {x} \cup Before(free, x) \cup Behind(free, x) : End(b) > lo /\ End(b) <= hi
  <2>1. \A b \in {x} \cup Before(free, x) \cup Behind(free, x) : b \in free \cup held
    BY DEF Before, Behind
  <2>2. End(x) > lo /\ End(x) <= hi
    BY <1>1 DEF Joins
  <2>3. \A b \in Before(free, x) : End(b) > lo /\ End(b) <= hi
    BY <1>1, <2>1, <2>2 DEF Joins, Before
  <2>4. \A b \in Behind(free, x) : End(b) > lo /\ End(b) <= hi
    BY <1>1, <1>2, <2>1, <2>2 DEF Joins, Behind
  <2> QED
    BY <2>2, <2>3, <2>4
<1>8. ASSUME NEW o \in others, o.offset # 0
      PROVE  End(block) = o.offset \/ \E b \in others : End(b) = o.offset
  <2>1. PICK b \in free \cup held : End(b) = o.offset
    BY <1>8 DEF Tiles, Rest
  <2>2. CASE b \in others
    BY <2>1, <2>2
  <2>3. CASE b \in {x} \cup Before(free, x) \cup Behind(free, x)
    <3>1. o.offset > lo /\ o.offset <= hi
      BY <1>7, <2>1, <2>3
    <3>2. o.offset \in Nat /\ o.size \in Nat \ {0} /\ End(o) = o.offset + o.size
      BY <1>1 DEF Rest
    <3> QED
      BY <1>2, <1>3, <3>1, <3>2
  <2> QED
    BY <2>1, <2>2, <2>3 DEF Rest
<1>9. \E o \in Rest(free, x) \cup {block} \cup (held \ {x}) : End(o) >= MaxChunkSize
  <2>1. PICK b \in free \cup held : End(b) >= MaxChunkSize
    BY DEF Tiles
  <2>2. CASE b \in others
    BY <2>1, <2>2
  <2>3. CASE b \in {x} \cup Before(free, x) \cup Behind(free, x)
    <3>1. hi >= MaxChunkSize
      BY <1>1, <1>2, <1>7, <2>1, <2>3, TallocAssumption
    <3> QED
      BY <3>1
  <2> QED
    BY <2>1, <2>2, <2>3 DEF Rest
<1>10. Rest(free, x) \cup {block} \subseteq FreeBlock /\ Solid(held \ {x})
  BY DEF Tiles, Rest, Solid
<1>11. \A a, b \in Rest(free, x) \cup {block} : a # b => Apart(a, b) /\ End(a) # b.offset
  <2>1. \A a, b \in Rest(free, x) : a # b => Apart(a, b) /\ End(a) # b.offset
    BY DEF Tiles, Rest
  <2> QED
    BY <1>4, <1>5, <2>1
<1>12. \A a, b \in held \ {x} : a # b => Apart(a, b)
  BY DEF Tiles
<1>13. \A a \in Rest(free, x) \cup {block}, b \in held \ {x} : Apart(a, b)
  BY <1>4 DEF Tiles, Rest
<1>14. \A a \in (Rest(free, x) \cup {block}) \cup (held \ {x}) :
         \/ a.offset = 0
         \/ \E b \in (Rest(free, x) \cup {block}) \cup (held \ {x}) : End(b) = a.offset
  BY <1>6, <1>8
<1> HIDE DEF others
<1> QED
  BY <1>9, <1>10, <1>11, <1>12, <1>13, <1>14 DEF Tiles


\* In `after' the free blocks of chunk c are others, which fill it together with held.
Frees(chunks, c, held, after) == \E free :
  IsFiniteSet(free) /\ Tiles(free, held) /\ after = [chunks EXCEPT ![c].free = free]

\* ggml_dyn_tallocr_free_bytes joins them, in the chunk it is called for and no other.
LEMMA FreeTiles ==
  ASSUME NEW chunks \in Seq(Chunk), NEW c \in DOMAIN chunks,
         NEW held, Tiles(chunks[c].free, held), NEW x \in held,
         NEW addr, addr.chunk = c, addr.offset = x.offset
  PROVE  Frees(chunks, c, held \ {x}, FreeBytes(chunks, addr, x.size))
<1> DEFINE free == chunks[c].free
           own == [offset |-> addr.offset, size |-> x.size]
           touching == {b \in free : End(b) = addr.offset \/ b.offset = addr.offset + x.size}
           joined == touching \cup {own}
           first == CHOOSE b \in joined : \A other \in joined : b.offset <= other.offset
           last == CHOOSE b \in joined : \A other \in joined : b.offset >= other.offset
           block == [offset |-> first.offset, size |-> End(last) - first.offset]
<1>1. /\ IsFiniteSet(free) /\ x.offset \in Nat /\ x.size \in Nat \ {0}
      /\ own.offset = x.offset /\ own.size = x.size
      /\ End(x) = x.offset + x.size /\ End(x) \in Nat /\ End(own) = End(x)
  <2>1. chunks[c] \in Chunk
    OBVIOUS
  <2> QED
    BY <2>1 DEF Chunk, Tiles, Solid, End
<1>2. \A b \in free : b.offset \in Nat /\ End(b) \in Nat
  BY DEF Tiles, FreeBlock, End
<1>3. FreeBytes(chunks, addr, x.size) = [chunks EXCEPT ![c].free = (free \ touching) \cup {block}]
  BY DEF FreeBytes
<1>4. touching = Before(free, x) \cup Behind(free, x)
  BY <1>1 DEF Before, Behind
<1> HIDE DEF own, free, touching
<1>5. /\ \A a, b \in Before(free, x) : a = b
      /\ \A a, b \in Behind(free, x) : a = b
      /\ \A b \in Before(free, x) : b.offset < x.offset /\ End(b) < End(x)
      /\ \A b \in Behind(free, x) : b.offset > x.offset /\ End(b) > End(x)
  BY Neighbours DEF free
<1>6. \A b \in Before(free, x) \cup Behind(free, x) : b \in free
  BY DEF Before, Behind
<1>7. first \in joined /\ \A b \in joined : first.offset <= b.offset
  <2>1. \A b \in joined : b.offset \in Nat
    BY <1>1, <1>2, <1>6, <1>4
  <2>2. CASE Before(free, x) = {}
    BY <1>1, <1>5, <2>1, <2>2, <1>4
  <2>3. CASE Before(free, x) # {}
    <3>1. PICK l \in Before(free, x) : Before(free, x) = {l}
      BY <1>5, <2>3
    <3>2. \A b \in joined : l.offset <= b.offset
      BY <1>1, <1>5, <2>1, <3>1, <1>4
    <3> QED
      BY <3>1, <3>2, <1>4
  <2> QED
    BY <2>2, <2>3
<1>8. last \in joined /\ \A b \in joined : last.offset >= b.offset
  <2>1. \A b \in joined : b.offset \in Nat
    BY <1>1, <1>2, <1>6, <1>4
  <2>2. CASE Behind(free, x) = {}
    BY <1>1, <1>5, <2>1, <2>2, <1>4
  <2>3. CASE Behind(free, x) # {}
    <3>1. PICK r \in Behind(free, x) : Behind(free, x) = {r}
      BY <1>5, <2>3
    <3>2. \A b \in joined : r.offset >= b.offset
      BY <1>1, <1>5, <2>1, <3>1, <1>4
    <3> QED
      BY <3>1, <3>2, <1>4
  <2> QED
    BY <2>2, <2>3
<1> HIDE DEF first, last
<1>9. Joins(free, x, first.offset, End(last))
  <2>1. first.offset \in Nat /\ End(last) \in Nat
    BY <1>1, <1>2, <1>6, <1>7, <1>8, <1>4
  <2>2. first.offset <= x.offset
    BY <1>1, <1>7, <1>4
  <2>3. End(last) >= End(x)
    BY <1>1, <1>2, <1>5, <1>6, <1>8, <1>4
  <2>4. Before(free, x) = {} => first.offset = x.offset
    BY <1>1, <1>2, <1>5, <1>6, <1>7, <1>4
  <2>5. Behind(free, x) = {} => End(last) = End(x)
    BY <1>1, <1>2, <1>5, <1>6, <1>8, <1>4
  <2>6. \A b \in Before(free, x) : first.offset = b.offset
    BY <1>1, <1>2, <1>5, <1>6, <1>7, <1>4
  <2>7. \A b \in Behind(free, x) : End(last) = End(b)
    BY <1>1, <1>2, <1>5, <1>6, <1>8, <1>4
  <2> QED
    BY <2>1, <2>2, <2>3, <2>4, <2>5, <2>6, <2>7 DEF Joins
<1>10. block \in FreeBlock /\ block.offset = first.offset /\ End(block) = End(last)
  <2>1. End(last) - first.offset \in Nat \ {0} /\ first.offset \in Nat /\ End(last) \in Nat
    BY <1>1, <1>9 DEF Joins
  <2> QED
    BY <2>1 DEF FreeBlock, End
<1>11. Tiles(Rest(free, x) \cup {block}, held \ {x})
  <2> HIDE DEF block
  <2> QED
    BY <1>9, <1>10, JoinTiles DEF free
<1>12. IsFiniteSet(Rest(free, x) \cup {block})
  <2>1. IsFiniteSet(Rest(free, x))
    BY <1>1, FS_Difference DEF Rest
  <2> QED
    BY <2>1, FS_AddElement
<1>13. (free \ touching) \cup {block} = Rest(free, x) \cup {block}
  BY <1>4 DEF Rest
<1> QED
  BY <1>3, <1>11, <1>12, <1>13 DEF Frees

-----------------------------------------------------------------------------
(* What is known in the middle of a plan.  g is the graph, s what the      *)
(* allocator knows (st), D the tensors it has been through, P the uses     *)
(* (node, source) that are still to come.                                  *)

AllUses(g) == {u \in (DOMAIN g) \X (1 .. 2) : u[2] <= Len(g[u[1]].src)}
Source(g, u) == g[u[1]].src[u[2]]
ToCome(g, P, t) == Uses(g, t) \cap P

\* a view all of whose uses have been
Spent(g, P, v) == Uses(g, v) # {} /\ ToCome(g, P, v) = {}
OpenViews(g, P, b) == {v \in DOMAIN g : g[v].view = b /\ ~Spent(g, P, v)}

Addresses == [chunk : 0 .. MaxChunks, offset : Nat]
States(g) == [chunks : Seq(Chunk), own : SUBSET DOMAIN g, children : [DOMAIN g -> Int],
              views : [DOMAIN g -> Int], addr : [DOMAIN g -> Addresses]]

Held(g, s, c) == {Block(s.addr[t], g[t].size, t) : t \in {t \in s.own : s.addr[t].chunk = c}}

\* The counters count what is still to come.
Counts(g, P, s) == \A t \in DOMAIN g :
  /\ s.children[t] = Cardinality(ToCome(g, P, t))
  /\ s.views[t] = Cardinality(OpenViews(g, P, t))

\* Memory that is not held any more was read by all who read it.
GoneIsRead(g, D, s) == \A t \in D \ s.own : ~IsView(g, t) =>
  ~g[t].output /\ Readers(g, t) # {} /\ Readers(g, t) \subseteq D

\* The chunks are filled with what is free and what is held.
Filled(g, s) == \A c \in DOMAIN s.chunks : Tiles(s.chunks[c].free, Held(g, s, c))

\* Every tensor has an address within its chunk, except one the allocator had no
\* memory for.
Addressed(g, D, s) == \A t \in D : ~IsView(g, t) =>
  \/ s.addr[t].chunk = NoChunk /\ t \in s.own
  \/ /\ s.addr[t].chunk \in DOMAIN s.chunks
     /\ s.addr[t].offset + g[t].size <= s.chunks[s.addr[t].chunk].max_size

\* u may be written over t, and if it reads t, then not only a view of it.
Replaces(g, addr, t, u) ==
  /\ MayReplace(g, addr, t, u)
  /\ u \in Readers(g, t) => \E j \in DOMAIN g[u].src : g[u].src[j] = t

\* No tensor lies over one that is still to be read.
KeptApart(g, D, s) == \A t, u \in D :
  ~IsView(g, t) /\ ~IsView(g, u) /\ t < u /\ Overlap(g, s.addr, t, u)
    => Replaces(g, s.addr, t, u)

PlanInv(g, D, P, s) ==
  /\ s \in States(g) /\ Len(s.chunks) <= MaxChunks
  /\ s.own \subseteq D /\ \A t \in s.own : ~IsView(g, t)
  /\ Counts(g, P, s) /\ GoneIsRead(g, D, s) /\ Filled(g, s)
  /\ Addressed(g, D, s) /\ KeptApart(g, D, s)

NoneMissing(s) == \A t \in s.own : s.addr[t].chunk # NoChunk

-----------------------------------------------------------------------------
(* Graphs.                                                                 *)

LEMMA GraphTypes ==
  ASSUME NEW g, IsGraph(g), NEW t \in DOMAIN g
  PROVE  /\ DOMAIN g = 1 .. Len(g) /\ Len(g) \in Nat /\ t \in Nat \ {0}
         /\ g[t] \in Tensors
         /\ g[t].src \in Seq(Nat) /\ Len(g[t].src) \in 0 .. 2
         /\ DOMAIN g[t].src = 1 .. Len(g[t].src)
         /\ \A j \in DOMAIN g[t].src : g[t].src[j] \in 1 .. t - 1 /\ g[t].src[j] \in DOMAIN g
         /\ g[t].size \in Nat \ {0} /\ g[t].size \in 1 .. Endless
         /\ g[t].output \in BOOLEAN
         /\ g[t].view \in Nat
         /\ IsView(g, t) => g[t].view \in DOMAIN g /\ g[t].view < t /\ ~IsView(g, g[t].view)
<1>1. g \in Seq(Tensors)
  BY DEF IsGraph
<1>2. DOMAIN g = 1 .. Len(g) /\ Len(g) \in Nat /\ g[t] \in Tensors
  BY <1>1
<1>3. /\ g[t].src \in Seq(Nat) /\ g[t].view \in Nat /\ g[t].size \in 1 .. Endless
      /\ g[t].output \in BOOLEAN
  BY <1>2 DEF Tensors
<1>4. Len(g[t].src) \in Nat /\ DOMAIN g[t].src = 1 .. Len(g[t].src) /\ Len(g[t].src) <= 2
  BY <1>3 DEF IsGraph
<1>5. \A j \in DOMAIN g[t].src : g[t].src[j] \in 1 .. t - 1
  BY DEF IsGraph
<1>6. IsView(g, t) => g[t].view < t /\ ~IsView(g, g[t].view)
  BY DEF IsGraph
<1>7. t \in 1 .. Len(g)
  BY <1>2
<1>8. \A i \in 1 .. t - 1 : i \in DOMAIN g
  BY <1>2, <1>7
<1>9. IsView(g, t) => g[t].view \in 1 .. t - 1
  BY <1>3, <1>6, <1>7 DEF IsView
<1>10. g[t].size \in Nat \ {0} /\ t \in Nat \ {0} /\ Len(g[t].src) \in 0 .. 2
  <2>1. \A z \in 1 .. Endless : z \in Nat \ {0}
    BY TallocAssumption
  <2>2. t \in Nat \ {0}
    BY <1>2, <1>7
  <2>3. \A n \in Nat : n <= 2 => n \in 0 .. 2
    OBVIOUS
  <2> QED
    BY <1>3, <1>4, <2>1, <2>2, <2>3
<1>11. \A j \in DOMAIN g[t].src : g[t].src[j] \in DOMAIN g
  BY <1>5, <1>8
<1>12. IsView(g, t) => g[t].view \in DOMAIN g
  BY <1>8, <1>9
<1> QED
  BY <1>2, <1>3, <1>4, <1>5, <1>6, <1>10, <1>11, <1>12

\* The uses of a tensor, and its readers.
LEMMA UsesOf ==
  ASSUME NEW g, IsGraph(g)
  PROVE  /\ \A t, u : u \in Uses(g, t) <=> u \in AllUses(g) /\ Source(g, u) = t
         /\ \A u \in AllUses(g) : /\ u[1] \in DOMAIN g /\ u = <<u[1], u[2]>>
                                  /\ u[2] \in DOMAIN g[u[1]].src
                                  /\ Source(g, u) \in DOMAIN g /\ Source(g, u) < u[1]
         /\ \A n \in DOMAIN g : \A j \in DOMAIN g[n].src : <<n, j>> \in AllUses(g)
         /\ IsFiniteSet(AllUses(g)) /\ \A t : IsFiniteSet(Uses(g, t))
<1>1. \A t, u : u \in Uses(g, t) <=> u \in AllUses(g) /\ Source(g, u) = t
  BY DEF Uses, AllUses, Source
<1>2. ASSUME NEW u \in AllUses(g)
      PROVE  /\ u[1] \in DOMAIN g /\ u = <<u[1], u[2]>> /\ u[2] \in DOMAIN g[u[1]].src
             /\ Source(g, u) \in DOMAIN g /\ Source(g, u) < u[1]
  <2>1. u[1] \in DOMAIN g /\ u[2] \in 1 .. 2 /\ u = <<u[1], u[2]>> /\ u[2] <= Len(g[u[1]].src)
    BY DEF AllUses
  <2>2. u[2] \in DOMAIN g[u[1]].src
    BY <2>1, GraphTypes
  <2>3. Source(g, u) \in 1 .. u[1] - 1 /\ Source(g, u) \in DOMAIN g /\ u[1] \in Nat
    BY <2>1, <2>2, GraphTypes DEF Source
  <2> QED
    BY <2>1, <2>2, <2>3
<1>3. ASSUME NEW n \in DOMAIN g, NEW j \in DOMAIN g[n].src
      PROVE  <<n, j>> \in AllUses(g)
  <2>1. Len(g[n].src) \in 0 .. 2 /\ DOMAIN g[n].src = 1 .. Len(g[n].src)
    BY ONLY IsGraph(g), n \in DOMAIN g, GraphTypes
  <2>2. j \in 1 .. Len(g[n].src)
    BY <2>1
  <2>3. \A k \in 0 .. 2 : \A i \in 1 .. k : i \in 1 .. 2 /\ i <= k
    OBVIOUS
  <2>4. j \in 1 .. 2 /\ j <= Len(g[n].src)
    BY <2>1, <2>2, <2>3, Zenon
  <2> QED
    BY <2>4 DEF AllUses
<1>4. IsFiniteSet(AllUses(g))
  <2>1. g \in Seq(Tensors)
    BY DEF IsGraph
  <2>2. DOMAIN g = 1 .. Len(g) /\ Len(g) \in Nat
    BY <2>1
  <2>3. IsFiniteSet(DOMAIN g) /\ IsFiniteSet(1 .. 2)
    <3>1. 1 \in Int /\ 2 \in Int /\ Len(g) \in Int
      BY <2>2
    <3>2. IsFiniteSet(1 .. Len(g)) /\ IsFiniteSet(1 .. 2)
      BY <3>1, FS_Interval
    <3> QED
      BY <2>2, <3>2
  <2>4. IsFiniteSet((DOMAIN g) \X (1 .. 2))
    BY <2>3, FS_Product
  <2> QED
    BY <2>4, FS_Subset DEF AllUses
<1>5. ASSUME NEW t PROVE IsFiniteSet(Uses(g, t))
  <2>1. Uses(g, t) \in SUBSET AllUses(g)
    BY <1>1
  <2> QED
    BY <1>4, <2>1, FS_Subset
<1> QED
  BY <1>1, <1>2, <1>3, <1>4, <1>5

-----------------------------------------------------------------------------
(* Held memory.                                                            *)

LEMMA BlockFields ==
  ASSUME NEW a, NEW z, NEW t
  PROVE  /\ Block(a, z, t).chunk = a.chunk /\ Block(a, z, t).offset = a.offset
         /\ Block(a, z, t).size = z /\ Block(a, z, t).of = t
         /\ End(Block(a, z, t)) = a.offset + z
BY DEF Block, End

LEMMA HeldElements ==
  ASSUME NEW g, NEW s, NEW c
  PROVE  /\ \A b \in Held(g, s, c) :
              \E t \in s.own : s.addr[t].chunk = c /\ b = Block(s.addr[t], g[t].size, t)
         /\ \A t \in s.own : s.addr[t].chunk = c => Block(s.addr[t], g[t].size, t) \in Held(g, s, c)
BY DEF Held

\* a tensor gets memory
LEMMA HeldWith ==
  ASSUME NEW g, NEW s \in States(g), NEW t \in DOMAIN g, t \notin s.own,
         NEW a, NEW r, r.own = s.own \cup {t}, r.addr = [s.addr EXCEPT ![t] = a]
  PROVE  \A c : Held(g, r, c) = IF a.chunk = c THEN Held(g, s, c) \cup {Block(a, g[t].size, t)}
                                ELSE Held(g, s, c)
<1>1. r.addr[t] = a /\ \A u \in s.own : r.addr[u] = s.addr[u]
  BY DEF States
<1> QED
  BY <1>1 DEF Held

\* it loses it
LEMMA HeldWithout ==
  ASSUME NEW g, NEW s \in States(g), NEW t \in s.own,
         NEW r, r.own = s.own \ {t}, r.addr = s.addr
  PROVE  \A c : Held(g, r, c) = IF s.addr[t].chunk = c
                                THEN Held(g, s, c) \ {Block(s.addr[t], g[t].size, t)}
                                ELSE Held(g, s, c)
<1>1. \A u \in s.own \ {t} : Block(s.addr[u], g[u].size, u) # Block(s.addr[t], g[t].size, t)
  BY BlockFields
<1> QED
  BY <1>1 DEF Held

\* Two tensors that hold memory do not overlap.
LEMMA HeldAreApart ==
  ASSUME NEW g, IsGraph(g), NEW s \in States(g), Filled(g, s),
         NEW t \in s.own, NEW u \in s.own, t # u, s.addr[t].chunk \in DOMAIN s.chunks
  PROVE  ~Overlap(g, s.addr, t, u)
<1> SUFFICES ASSUME Overlap(g, s.addr, t, u) PROVE FALSE
  OBVIOUS
<1> DEFINE c == s.addr[t].chunk
           a == Block(s.addr[t], g[t].size, t)
           b == Block(s.addr[u], g[u].size, u)
<1>1. s.addr[u].chunk = c
  BY DEF Overlap
<1>2. a \in Held(g, s, c) /\ b \in Held(g, s, c)
  BY <1>1, HeldElements
<1>3. a # b
  BY BlockFields
<1>4. Apart(a, b)
  BY <1>2, <1>3 DEF Filled, Tiles
<1>5. /\ End(a) = s.addr[t].offset + g[t].size /\ End(b) = s.addr[u].offset + g[u].size
      /\ a.offset = s.addr[t].offset /\ b.offset = s.addr[u].offset
  BY BlockFields
<1>6. s.addr[t].offset \in Nat /\ s.addr[u].offset \in Nat
  BY DEF States, Addresses
<1>7. g[t].size \in Nat /\ g[u].size \in Nat
  BY GraphTypes DEF States
<1> QED
  BY <1>4, <1>5, <1>6, <1>7 DEF Apart, Overlap

\* Blocks in the same place fill a chunk alike.
LEMMA SwapTiles ==
  ASSUME NEW free, NEW held, Tiles(free, held), NEW x \in held,
         NEW new, new.offset = x.offset, new.size = x.size
  PROVE  Tiles(free, (held \ {x}) \cup {new})
<1>1. End(new) = End(x)
  BY DEF End
<1>2. \A b : (Apart(b, new) <=> Apart(b, x)) /\ (Apart(new, b) <=> Apart(x, b))
  BY <1>1 DEF Apart
<1>3. Solid((held \ {x}) \cup {new})
  BY DEF Tiles, Solid
<1>4. \A a, b \in (held \ {x}) \cup {new} : a # b => Apart(a, b)
  BY <1>2 DEF Tiles
<1>5. \A a \in free, b \in (held \ {x}) \cup {new} : Apart(a, b)
  BY <1>2 DEF Tiles
<1>6. \A a \in free \cup ((held \ {x}) \cup {new}) :
        a.offset = 0 \/ \E b \in free \cup ((held \ {x}) \cup {new}) : End(b) = a.offset
  <2> TAKE a \in free \cup ((held \ {x}) \cup {new})
  <2>1. \E y \in free \cup held : y.offset = a.offset
    OBVIOUS
  <2>2. a.offset = 0 \/ \E b \in free \cup held : End(b) = a.offset
    BY <2>1 DEF Tiles
  <2> QED
    BY <1>1, <2>2
<1>7. \E a \in free \cup ((held \ {x}) \cup {new}) : End(a) >= MaxChunkSize
  BY <1>1 DEF Tiles
<1> QED
  BY <1>3, <1>4, <1>5, <1>6, <1>7 DEF Tiles

-----------------------------------------------------------------------------
(* A tensor is placed.                                                     *)

\* Memory nobody holds may be written by the tensor that is placed now.
LEMMA GoneMayBeReplaced ==
  ASSUME NEW g, IsGraph(g), NEW t \in DOMAIN g, NEW D, D = 1 .. t - 1,
         NEW s, GoneIsRead(g, D, s), NEW u \in D \ s.own, ~IsView(g, u), NEW addr
  PROVE  Replaces(g, addr, u, t)
<1>1. ~g[u].output /\ Readers(g, u) # {} /\ Readers(g, u) \subseteq D
  BY DEF GoneIsRead
<1>2. t \in Nat \ {0} /\ u \in Nat \ {0} /\ u < t
  BY GraphTypes
<1>3. \A n \in Readers(g, u) : n < t
  BY <1>1, <1>2
<1>4. ~IsLeaf(g, t)
  \* a leaf comes before all readers
  <2>1. PICK n \in Readers(g, u) : n \in DOMAIN g /\ n \in 1 .. t /\ \E j \in DOMAIN g[n].src : TRUE
    <3>1. PICK n \in Readers(g, u) : TRUE
      BY <1>1
    <3>2. n \in 1 .. t - 1
      BY <1>1, <3>1
    <3> QED
      BY <1>2, <3>1, <3>2 DEF Readers
  <2>2. ~IsLeaf(g, n)
    BY <2>1 DEF IsLeaf
  <2> QED
    BY <2>1, <2>2 DEF IsGraph
<1>5. Written(g, u) < Written(g, t)
  BY <1>2, <1>4 DEF Written
<1> QED
  BY <1>1, <1>2, <1>3, <1>5 DEF Replaces, MayReplace

\* Tensor t is next, all tensors before it were gone through.
Placing(g, t, D, P, s) ==
  /\ IsGraph(g) /\ t \in DOMAIN g /\ D = 1 .. t - 1
  /\ PlanInv(g, D, P, s) /\ NoneMissing(s)

LEMMA PlacingFacts ==
  ASSUME NEW g, NEW t, NEW D, NEW P, NEW s, Placing(g, t, D, P, s)
  PROVE  /\ t \notin D /\ t \notin s.own /\ D \subseteq DOMAIN g
         /\ \A u \in D : u < t /\ u \in Nat /\ t \in Nat
         /\ D \cup {t} = 1 .. t
<1>1. DOMAIN g = 1 .. Len(g) /\ Len(g) \in Nat /\ t \in Nat \ {0} /\ t \in 1 .. Len(g)
  BY GraphTypes DEF Placing
<1>2. D = 1 .. t - 1 /\ s.own \subseteq D
  BY DEF Placing, PlanInv
<1> QED
  BY <1>1, <1>2

\* Where the tensors before lie apart, one more may come that lies apart from each.
LEMMA ApartWithNew ==
  ASSUME NEW g, NEW t, NEW D, NEW P, NEW s, Placing(g, t, D, P, s),
         NEW a, NEW r, r.addr = [s.addr EXCEPT ![t] = a],
         \A u \in D : ~IsView(g, u) /\ Overlap(g, r.addr, u, t) => Replaces(g, r.addr, u, t)
  PROVE  KeptApart(g, D \cup {t}, r)
<1>1. \A u \in D : r.addr[u] = s.addr[u]
  BY PlacingFacts DEF Placing, PlanInv, States
<1>2. \A u \in D : u < t /\ u \in Nat /\ t \in Nat
  BY PlacingFacts
<1>3. ASSUME NEW u \in D, NEW v \in D, ~IsView(g, u), ~IsView(g, v), u < v,
             Overlap(g, r.addr, u, v)
      PROVE  Replaces(g, r.addr, u, v)
  <2>1. Overlap(g, s.addr, u, v)
    BY <1>1, <1>3 DEF Overlap
  <2>2. Replaces(g, s.addr, u, v)
    BY <1>3, <2>1 DEF Placing, PlanInv, KeptApart
  <2> QED
    BY <1>1, <2>2 DEF Replaces, MayReplace
<1>4. ~(t < t) /\ \A u \in D : ~(t < u)
  <2>1. t \in Nat
    BY GraphTypes DEF Placing
  <2> QED
    BY <1>2, <2>1
<1> QED
  BY <1>3, <1>4 DEF KeptApart

Higher(end, max_size) == IF end > max_size THEN end ELSE max_size

\* of the chunks only c may have grown: up to where b ends
Raised(old, new, c, b) == \A d \in DOMAIN old :
  new[d].max_size = IF d = c THEN Higher(End(b), old[d].max_size) ELSE old[d].max_size

\* What t was given is apart from all that is held.
ApartFromHeld(g, s, new) ==
  \A u \in s.own : s.addr[u].chunk = new.chunk => Apart(Block(s.addr[u], g[u].size, u), new)

Placed(s, t, res) ==
  [chunks |-> res.chunks, own |-> s.own \cup {t}, children |-> s.children, views |-> s.views,
   addr |-> [s.addr EXCEPT ![t] = res.addr]]

\* the front of block b of chunk c is for t, and what then holds
PlacesAt(g, t, s, c, b, res) == Gives(s.chunks, g[t].size, c, b, res)
GoodPlace(g, t, D, P, s, c, res) ==
  /\ PlanInv(g, D \cup {t}, P, Placed(s, t, res))
  /\ NoneMissing(Placed(s, t, res))
  /\ ApartFromHeld(g, s, Block(res.addr, g[t].size, t))
  /\ res.addr.chunk = c /\ Len(res.chunks) = Len(s.chunks)
  /\ Raised(s.chunks, res.chunks, c, Block(res.addr, g[t].size, t))

LEMMA PlaceAt ==
  ASSUME NEW g, NEW t, NEW D, NEW P, NEW s, Placing(g, t, D, P, s), ~IsView(g, t),
         NEW c, NEW b, NEW res, PlacesAt(g, t, s, c, b, res)
  PROVE  GoodPlace(g, t, D, P, s, c, res)
<1> DEFINE size == g[t].size
           new == Block(res.addr, size, t)
           r == Placed(s, t, res)
<1>0. IsGraph(g) /\ t \in DOMAIN g /\ D = 1 .. t - 1 /\ PlanInv(g, D, P, s) /\ NoneMissing(s)
  BY DEF Placing
<1>1. /\ s \in States(g) /\ Len(s.chunks) <= MaxChunks /\ Filled(g, s)
      /\ s.own \subseteq D /\ \A u \in s.own : ~IsView(g, u)
  BY <1>0 DEF PlanInv
<1>2. size \in Nat \ {0}
  BY <1>0, GraphTypes
<1>3. /\ c \in DOMAIN s.chunks /\ b \in s.chunks[c].free /\ b.size >= size
      /\ res.chunks = [s.chunks EXCEPT ![c] = Take(s.chunks[c], b, size)]
      /\ res.addr = [chunk |-> c, offset |-> b.offset]
  BY DEF PlacesAt, Gives
<1>4. s.chunks \in Seq(Chunk) /\ s.chunks[c] \in Chunk /\ s.chunks[c].max_size \in Nat
  BY <1>1, <1>3 DEF States, Chunk
<1>5. b.offset \in Nat /\ b.size \in Nat
  BY <1>3, <1>4 DEF Chunk, FreeBlock
<1>6. c \in 1 .. MaxChunks
  <2>1. c \in 1 .. Len(s.chunks) /\ Len(s.chunks) \in Nat
    BY <1>3, <1>4
  <2> QED
    BY <1>1, <2>1, TallocAssumption
<1>7. res.addr \in Addresses /\ res.addr.chunk = c /\ res.addr.offset = b.offset
  BY <1>3, <1>5, <1>6 DEF Addresses
<1>8. new.chunk = c /\ new.offset = b.offset /\ new.size = size /\ End(new) = b.offset + size
  BY <1>7, BlockFields
<1>9. /\ Take(s.chunks[c], b, size) \in Chunk
      /\ Tiles(Take(s.chunks[c], b, size).free, Held(g, s, c) \cup {new})
      /\ Take(s.chunks[c], b, size).max_size =
           IF s.chunks[c].max_size >= End(new) THEN s.chunks[c].max_size ELSE End(new)
      /\ \A x \in Held(g, s, c) : Apart(x, new)
  <2> DEFINE chunk == s.chunks[c]
             held == Held(g, s, c)
  <2> HIDE DEF new, size
  <2>1. Tiles(chunk.free, held)
    BY <1>1, <1>3 DEF Filled
  <2>2. size <= b.size
    BY <1>2, <1>3, <1>5
  <2>3. chunk \in Chunk /\ b \in chunk.free
    BY <1>3, <1>4
  <2> HIDE DEF chunk, held
  <2>4. /\ Take(chunk, b, size) \in Chunk
        /\ Tiles(Take(chunk, b, size).free, held \cup {new})
        /\ \A x \in held : Apart(x, new)
    BY <1>2, <1>8, <2>1, <2>2, <2>3, TakeTiles
  <2>5. Take(chunk, b, size).max_size =
          IF chunk.max_size >= End(new) THEN chunk.max_size ELSE End(new)
    BY <1>8 DEF Take
  <2> QED
    BY <2>4, <2>5 DEF chunk, held
<1>10. /\ res.chunks \in Seq(Chunk) /\ Len(res.chunks) = Len(s.chunks)
       /\ DOMAIN res.chunks = DOMAIN s.chunks
       /\ res.chunks[c] = Take(s.chunks[c], b, size)
       /\ \A d \in DOMAIN s.chunks : d # c => res.chunks[d] = s.chunks[d]
  BY <1>3, <1>4, <1>9
<1>11. /\ r.own = s.own \cup {t} /\ r.addr = [s.addr EXCEPT ![t] = res.addr] /\ r.chunks = res.chunks
       /\ r.children = s.children /\ r.views = s.views
       /\ r \in States(g)
  <2>1. /\ r.own = s.own \cup {t} /\ r.addr = [s.addr EXCEPT ![t] = res.addr]
        /\ r.chunks = res.chunks /\ r.children = s.children /\ r.views = s.views
        /\ r = [chunks |-> r.chunks, own |-> r.own, children |-> r.children, views |-> r.views,
                addr |-> r.addr]
    BY DEF Placed
  <2>2. [s.addr EXCEPT ![t] = res.addr] \in [DOMAIN g -> Addresses]
    BY <1>0, <1>1, <1>7 DEF States
  <2>3. s.own \cup {t} \in SUBSET DOMAIN g /\ s.children \in [DOMAIN g -> Int] /\ s.views \in [DOMAIN g -> Int]
    BY <1>0, <1>1 DEF States
  <2> HIDE DEF r
  <2> QED
    BY <2>1, <2>2, <2>3, <1>10 DEF States
<1>12. t \notin s.own /\ t \notin D /\ D \subseteq DOMAIN g
  BY PlacingFacts
<1>13. \A d : Held(g, r, d) = IF d = c THEN Held(g, s, d) \cup {new} ELSE Held(g, s, d)
  <2> HIDE DEF r
  <2>1. \A d : Held(g, r, d) = IF res.addr.chunk = d THEN Held(g, s, d) \cup {new} ELSE Held(g, s, d)
    BY <1>0, <1>1, <1>11, <1>12, HeldWith
  <2> QED
    BY <1>7, <2>1
<1> HIDE DEF r
<1>14. r.addr[t] = res.addr /\ \A u \in D : r.addr[u] = s.addr[u]
  BY <1>0, <1>1, <1>11, <1>12 DEF States
<1>15. Filled(g, r)
  <2> SUFFICES ASSUME NEW d \in DOMAIN r.chunks PROVE Tiles(r.chunks[d].free, Held(g, r, d))
    BY DEF Filled
  <2>1. CASE d = c
    BY <1>9, <1>10, <1>11, <1>13, <2>1
  <2>2. CASE d # c
    BY <1>1, <1>10, <1>11, <1>13, <2>2 DEF Filled
  <2> QED
    BY <2>1, <2>2
<1>16. Raised(s.chunks, res.chunks, c, new)
  <2> SUFFICES ASSUME NEW d \in DOMAIN s.chunks
               PROVE  res.chunks[d].max_size = IF d = c THEN Higher(End(new), s.chunks[d].max_size)
                                               ELSE s.chunks[d].max_size
    BY DEF Raised
  <2>1. CASE d = c
    BY <1>2, <1>4, <1>5, <1>7, <1>8, <1>9, <1>10, <2>1 DEF Higher
  <2>2. CASE d # c
    BY <1>10, <2>2
  <2> QED
    BY <2>1, <2>2
<1>17. \A d \in DOMAIN s.chunks : r.chunks[d].max_size \in Nat /\ s.chunks[d].max_size \in Nat
         /\ r.chunks[d].max_size >= s.chunks[d].max_size
  <2> TAKE d \in DOMAIN s.chunks
  <2>1. s.chunks[d].max_size \in Nat /\ r.chunks[d].max_size \in Nat
    BY <1>4, <1>10, <1>11 DEF Chunk
  <2> QED
    BY <1>2, <1>5, <1>8, <1>11, <1>16, <2>1 DEF Raised, Higher
<1>18. Addressed(g, D \cup {t}, r)
  <2> SUFFICES ASSUME NEW u \in D \cup {t}, ~IsView(g, u)
               PROVE  \/ r.addr[u].chunk = NoChunk /\ u \in r.own
                      \/ /\ r.addr[u].chunk \in DOMAIN r.chunks
                         /\ r.addr[u].offset + g[u].size <= r.chunks[r.addr[u].chunk].max_size
    BY DEF Addressed
  <2>1. CASE u = t
    <3>1. r.addr[u].chunk = c /\ r.addr[u].offset = b.offset
      BY <1>7, <1>14, <2>1
    <3>2. r.chunks[c].max_size >= b.offset + size
      BY <1>2, <1>4, <1>5, <1>8, <1>9, <1>10, <1>11
    <3>3. b.offset + size \in Nat /\ r.chunks[c].max_size \in Nat
      BY <1>2, <1>3, <1>5, <1>17
    <3>4. b.offset + g[u].size <= r.chunks[c].max_size
      BY <2>1, <3>2, <3>3
    <3>5. c \in DOMAIN r.chunks
      BY <1>3, <1>10, <1>11
    <3> QED
      BY <3>1, <3>4, <3>5
  <2>2. CASE u \in D
    <3>1. \/ s.addr[u].chunk = NoChunk /\ u \in s.own
          \/ /\ s.addr[u].chunk \in DOMAIN s.chunks
             /\ s.addr[u].offset + g[u].size <= s.chunks[s.addr[u].chunk].max_size
      BY <1>0, <2>2 DEF PlanInv, Addressed
    <3>2. s.addr[u].offset \in Nat /\ g[u].size \in Nat /\ s.addr[u].offset + g[u].size \in Nat
      <4>1. u \in DOMAIN g
        BY <1>12, <2>2
      <4>2. s.addr[u].offset \in Nat /\ g[u].size \in Nat
        BY <1>0, <1>1, <4>1, GraphTypes DEF States, Addresses
      <4> QED
        BY <4>2
    <3>3. ASSUME s.addr[u].chunk \in DOMAIN s.chunks,
                 s.addr[u].offset + g[u].size <= s.chunks[s.addr[u].chunk].max_size
          PROVE  s.addr[u].offset + g[u].size <= r.chunks[s.addr[u].chunk].max_size
      BY <1>17, <3>2, <3>3
    <3> QED
      BY <1>10, <1>11, <1>14, <2>2, <3>1, <3>3
  <2> QED
    BY <2>1, <2>2
<1>19. KeptApart(g, D \cup {t}, r)
  <2>1. ASSUME NEW u \in D, ~IsView(g, u), Overlap(g, r.addr, u, t)
        PROVE  Replaces(g, r.addr, u, t)
    <3>1. CASE u \in s.own
      <4> DEFINE x == Block(s.addr[u], g[u].size, u)
      <4>1. s.addr[u].chunk = c
        BY <1>7, <1>14, <2>1 DEF Overlap
      <4>2. Apart(x, new)
        BY <1>9, <3>1, <4>1, HeldElements
      <4>3. x.offset = s.addr[u].offset /\ End(x) = s.addr[u].offset + g[u].size
        BY BlockFields
      <4>4. s.addr[u].offset \in Nat /\ g[u].size \in Nat
        BY <1>0, <1>1, <1>12, GraphTypes DEF States, Addresses
      <4>5. s.addr[u].offset < b.offset + size /\ b.offset < s.addr[u].offset + g[u].size
        BY <1>7, <1>14, <2>1 DEF Overlap
      <4> HIDE DEF x, new, size
      <4> QED
        BY <1>2, <1>5, <1>8, <4>2, <4>3, <4>4, <4>5 DEF Apart
    <3>2. CASE u \notin s.own
      BY <1>0, <2>1, <3>2, GoneMayBeReplaced DEF PlanInv
    <3> QED
      BY <3>1, <3>2
  <2> QED
    BY <1>11, <2>1, ApartWithNew
<1>20. GoneIsRead(g, D \cup {t}, r)
  BY <1>0, <1>11 DEF PlanInv, GoneIsRead
<1>21. Counts(g, P, r)
  BY <1>0, <1>11 DEF PlanInv, Counts
<1>22. r.own \subseteq D \cup {t} /\ \A u \in r.own : ~IsView(g, u)
  BY <1>1, <1>11
<1>23. PlanInv(g, D \cup {t}, P, r)
  BY <1>1, <1>10, <1>11, <1>15, <1>18, <1>19, <1>20, <1>21, <1>22 DEF PlanInv
<1>24. NoneMissing(r)
  <2>1. c # NoChunk
    BY <1>6 DEF NoChunk
  <2>2. \A u \in s.own : u \in D
    BY <1>1
  <2> QED
    BY <1>0, <1>7, <1>11, <1>14, <2>1, <2>2 DEF NoneMissing
<1>25. ApartFromHeld(g, s, new)
  BY <1>8, <1>9, HeldElements DEF ApartFromHeld
<1> QED
  BY <1>7, <1>10, <1>16, <1>23, <1>24, <1>25 DEF r, GoodPlace

WithChunks(s, chunks) ==
  [chunks |-> chunks, own |-> s.own, children |-> s.children, views |-> s.views, addr |-> s.addr]

\* A new chunk is free from one end to the other.
LEMMA GrowChunks ==
  ASSUME NEW g, NEW t, NEW D, NEW P, NEW s, Placing(g, t, D, P, s), ~IsView(g, t),
         Len(s.chunks) < MaxChunks
  PROVE  LET grown == Grown(s.chunks, g[t].size)
         IN /\ Placing(g, t, D, P, WithChunks(s, grown))
            /\ Len(grown) = Len(s.chunks) + 1 /\ grown[Len(s.chunks) + 1].max_size = 0
            /\ \A d \in DOMAIN s.chunks : grown[d] = s.chunks[d]
<1> DEFINE size == g[t].size
           fresh == NewChunk(s.chunks, size)
           grown == Grown(s.chunks, size)
           n == Len(s.chunks)
           r == WithChunks(s, grown)
<1>0. IsGraph(g) /\ t \in DOMAIN g /\ D = 1 .. t - 1 /\ PlanInv(g, D, P, s) /\ NoneMissing(s)
  BY DEF Placing
<1>1. /\ s \in States(g) /\ s.chunks \in Seq(Chunk) /\ n \in Nat /\ n <= MaxChunks
      /\ s.own \subseteq D /\ \A u \in s.own : ~IsView(g, u)
  BY <1>0 DEF PlanInv, States
<1>2. size \in 1 .. Endless
  BY <1>0, GraphTypes
<1>3. fresh \in Chunk /\ Tiles(fresh.free, {})
  BY <1>1, <1>2, NewChunkTiles
<1>4. fresh.max_size = 0
  BY DEF NewChunk
<1> HIDE DEF fresh
<1>5. /\ grown \in Seq(Chunk) /\ Len(grown) = n + 1 /\ DOMAIN grown = 1 .. n + 1
      /\ grown[n + 1] = fresh /\ \A d \in 1 .. n : grown[d] = s.chunks[d]
      /\ DOMAIN s.chunks = 1 .. n
  BY <1>1, <1>3 DEF Grown, fresh
<1>6. /\ r.own = s.own /\ r.addr = s.addr /\ r.chunks = grown
      /\ r.children = s.children /\ r.views = s.views
      /\ r = [chunks |-> r.chunks, own |-> r.own, children |-> r.children, views |-> r.views,
              addr |-> r.addr]
  BY DEF WithChunks
<1> HIDE DEF grown, r
<1>7. r \in States(g)
  BY <1>1, <1>5, <1>6 DEF States
<1>8. \A u \in s.own : s.addr[u].chunk \in DOMAIN s.chunks
  <2> TAKE u \in s.own
  <2>1. s.addr[u].chunk # NoChunk
    BY <1>0 DEF NoneMissing
  <2> QED
    BY <1>0, <1>1, <2>1 DEF PlanInv, Addressed
<1>9. \A d : Held(g, r, d) = Held(g, s, d)
  BY <1>6 DEF Held
<1>10. Held(g, r, n + 1) = {}
  <2>1. \A u \in s.own : s.addr[u].chunk # n + 1
    BY <1>1, <1>5, <1>8
  <2> QED
    BY <1>6, <2>1 DEF Held
<1>11. Filled(g, r)
  <2> SUFFICES ASSUME NEW d \in 1 .. n + 1 PROVE Tiles(r.chunks[d].free, Held(g, r, d))
    BY <1>5, <1>6 DEF Filled
  <2>1. CASE d = n + 1
    BY <1>3, <1>5, <1>6, <1>10, <2>1
  <2>2. CASE d # n + 1
    <3>1. d \in 1 .. n
      BY <1>1, <2>2
    <3>2. Tiles(s.chunks[d].free, Held(g, s, d))
      BY <1>0, <1>5, <3>1 DEF PlanInv, Filled
    <3> QED
      BY <1>5, <1>6, <1>9, <3>1, <3>2
  <2> QED
    BY <2>1, <2>2
<1>12. \A d \in DOMAIN s.chunks : d \in DOMAIN r.chunks /\ r.chunks[d] = s.chunks[d]
  <2>1. \A d \in 1 .. n : d \in 1 .. n + 1
    BY <1>1
  <2> QED
    BY <1>5, <1>6, <2>1
<1>13. Addressed(g, D, r)
  <2> SUFFICES ASSUME NEW u \in D, ~IsView(g, u)
               PROVE  \/ r.addr[u].chunk = NoChunk /\ u \in r.own
                      \/ /\ r.addr[u].chunk \in DOMAIN r.chunks
                         /\ r.addr[u].offset + g[u].size <= r.chunks[r.addr[u].chunk].max_size
    BY DEF Addressed
  <2>1. \/ s.addr[u].chunk = NoChunk /\ u \in s.own
        \/ /\ s.addr[u].chunk \in DOMAIN s.chunks
           /\ s.addr[u].offset + g[u].size <= s.chunks[s.addr[u].chunk].max_size
    BY <1>0 DEF PlanInv, Addressed
  <2> QED
    BY <1>6, <1>12, <2>1
<1>14. KeptApart(g, D, r) /\ GoneIsRead(g, D, r) /\ Counts(g, P, r)
  BY <1>0, <1>6 DEF PlanInv, KeptApart, GoneIsRead, Counts
<1>15. PlanInv(g, D, P, r)
  <2>1. Len(r.chunks) <= MaxChunks
    BY <1>1, <1>5, <1>6, TallocAssumption
  <2> QED
    BY <1>1, <1>6, <1>7, <1>11, <1>13, <1>14, <2>1 DEF PlanInv
<1>16. NoneMissing(r)
  BY <1>0, <1>6 DEF NoneMissing
<1> QED
  BY <1>0, <1>4, <1>5, <1>15, <1>16 DEF Placing, r, grown

\* res is new memory for t: what the contract says of a Give.
GivesOut(g, s, t, res) ==
  LET new == Block(res.addr, g[t].size, t)
      Had(c) == IF c \in DOMAIN s.chunks THEN s.chunks[c].max_size ELSE 0
      last == Len(s.chunks)
  IN /\ ApartFromHeld(g, s, new)
     /\ res.addr.chunk \in 1 .. last + 1
     /\ Len(res.chunks) = IF res.addr.chunk > last THEN res.addr.chunk ELSE last
     /\ \A c \in DOMAIN res.chunks : res.chunks[c].max_size =
          IF c = res.addr.chunk THEN Higher(End(new), Had(c)) ELSE Had(c)

LEMMA PlaceFresh ==
  ASSUME NEW g, NEW t, NEW D, NEW P, NEW s, Placing(g, t, D, P, s), ~IsView(g, t)
  PROVE  LET res == Alloc(s.chunks, g[t].size)
         IN /\ PlanInv(g, D \cup {t}, P, Placed(s, t, res))
            /\ \/ ~NoneMissing(Placed(s, t, res)) /\ res.chunks = s.chunks /\ res.addr = NoAddr
               \/ NoneMissing(Placed(s, t, res)) /\ GivesOut(g, s, t, res)
<1> DEFINE size == g[t].size
           res == Alloc(s.chunks, size)
           r == Placed(s, t, res)
           n == Len(s.chunks)
<1>0. IsGraph(g) /\ t \in DOMAIN g /\ D = 1 .. t - 1 /\ PlanInv(g, D, P, s) /\ NoneMissing(s)
  BY DEF Placing
<1>1. /\ s \in States(g) /\ s.chunks \in Seq(Chunk) /\ n \in Nat /\ n <= MaxChunks
      /\ s.own \subseteq D /\ \A u \in s.own : ~IsView(g, u)
      /\ DOMAIN s.chunks = 1 .. n
  BY <1>0 DEF PlanInv, States
<1>2. size \in 1 .. Endless
  BY <1>0, GraphTypes
<1>3. \/ res = [chunks |-> s.chunks, addr |-> [chunk |-> NoChunk, offset |-> 0]]
      \/ \E c, b : Gives(s.chunks, size, c, b, res)
      \/ n < MaxChunks /\ \E b : Gives(Grown(s.chunks, size), size, n + 1, b, res)
  BY <1>1, <1>2, AllocGives
<1> HIDE DEF res
<1>4. CASE \E c, b : Gives(s.chunks, size, c, b, res)
  <2>1. PICK c, b : Gives(s.chunks, size, c, b, res)
    BY <1>4
  <2>2. c \in 1 .. n
    BY <1>1, <2>1 DEF Gives
  <2>3. /\ PlanInv(g, D \cup {t}, P, r) /\ NoneMissing(r)
        /\ ApartFromHeld(g, s, Block(res.addr, g[t].size, t))
        /\ res.addr.chunk = c /\ Len(res.chunks) = n
        /\ Raised(s.chunks, res.chunks, c, Block(res.addr, g[t].size, t))
    <3>1. PlacesAt(g, t, s, c, b, res)
      BY <2>1 DEF PlacesAt
    <3>2. GoodPlace(g, t, D, P, s, c, res)
      BY <3>1, PlaceAt
    <3> QED
      BY <3>2 DEF GoodPlace
  <2>4. DOMAIN res.chunks = DOMAIN s.chunks
    <3>1. res.chunks = [s.chunks EXCEPT ![c] = Take(s.chunks[c], b, size)]
      BY <2>1 DEF Gives
    <3> QED
      BY <1>1, <3>1
  <2>5. c \in 1 .. n + 1 /\ ~(c > n)
    BY <1>1, <2>2
  <2>6. GivesOut(g, s, t, res)
    BY <2>3, <2>4, <2>5 DEF GivesOut, Raised
  <2> QED
    BY <2>3, <2>6 DEF res
<1>5. CASE n < MaxChunks /\ \E b : Gives(Grown(s.chunks, size), size, n + 1, b, res)
  <2> DEFINE grown == Grown(s.chunks, size)
             w == WithChunks(s, grown)
  <2>1. PICK b : Gives(grown, size, n + 1, b, res)
    BY <1>5
  <2>2. /\ Placing(g, t, D, P, w) /\ Len(grown) = n + 1 /\ grown[n + 1].max_size = 0
        /\ \A d \in DOMAIN s.chunks : grown[d] = s.chunks[d]
    BY <1>5, GrowChunks
  <2>3. w.chunks = grown /\ w.own = s.own /\ w.addr = s.addr /\ Placed(w, t, res) = r
    BY DEF WithChunks, Placed
  <2>7. grown \in Seq(Chunk) /\ DOMAIN grown = 1 .. n + 1
    <3>1. w \in States(g)
      BY <2>2 DEF Placing, PlanInv
    <3>2. grown \in Seq(Chunk)
      BY <2>3, <3>1 DEF States
    <3> QED
      BY <2>2, <3>2
  <2> HIDE DEF grown, w, r
  <2>4. /\ PlanInv(g, D \cup {t}, P, r) /\ NoneMissing(r)
        /\ ApartFromHeld(g, w, Block(res.addr, g[t].size, t))
        /\ res.addr.chunk = n + 1 /\ Len(res.chunks) = n + 1
        /\ Raised(grown, res.chunks, n + 1, Block(res.addr, g[t].size, t))
    <3>1. PlacesAt(g, t, w, n + 1, b, res)
      BY <2>1, <2>3 DEF PlacesAt
    <3>2. GoodPlace(g, t, D, P, w, n + 1, res)
      BY <2>2, <3>1, PlaceAt
    <3> QED
      BY <2>2, <2>3, <3>2 DEF GoodPlace
  <2>5. ApartFromHeld(g, s, Block(res.addr, g[t].size, t))
    BY <2>3, <2>4 DEF ApartFromHeld
  <2>6. DOMAIN res.chunks = 1 .. n + 1
    <3>1. res.chunks = [grown EXCEPT ![n + 1] = Take(grown[n + 1], b, size)]
      BY <2>1 DEF Gives
    <3> QED
      BY <2>7, <3>1
  <2>8. ASSUME NEW d \in 1 .. n + 1
        PROVE  grown[d].max_size = IF d \in DOMAIN s.chunks THEN s.chunks[d].max_size ELSE 0
    <3>1. CASE d \in 1 .. n
      BY <1>1, <2>2, <3>1
    <3>2. CASE d = n + 1
      BY <1>1, <2>2, <3>2
    <3> QED
      BY <1>1, <3>1, <3>2
  <2>9. n + 1 \in 1 .. n + 1 /\ n + 1 > n
    BY <1>1
  <2>10. GivesOut(g, s, t, res)
    BY <2>4, <2>5, <2>6, <2>7, <2>8, <2>9 DEF GivesOut, Raised
  <2> QED
    BY <2>4, <2>10 DEF res, r
<1>6. CASE res = [chunks |-> s.chunks, addr |-> [chunk |-> NoChunk, offset |-> 0]]
  <2>1. res.chunks = s.chunks /\ res.addr = NoAddr
    BY <1>6 DEF NoAddr
  <2>2. NoAddr \in Addresses /\ NoAddr.chunk = NoChunk
    BY TallocAssumption DEF NoAddr, NoChunk, Addresses
  <2>3. /\ r.own = s.own \cup {t} /\ r.addr = [s.addr EXCEPT ![t] = NoAddr]
        /\ r.chunks = s.chunks /\ r.children = s.children /\ r.views = s.views
        /\ r = [chunks |-> r.chunks, own |-> r.own, children |-> r.children, views |-> r.views,
                addr |-> r.addr]
    BY <2>1 DEF Placed
  <2>4. t \notin s.own /\ t \notin D /\ D \subseteq DOMAIN g
    BY PlacingFacts
  <2> HIDE DEF r
  <2>5. r.addr[t] = NoAddr /\ \A u \in D : r.addr[u] = s.addr[u]
    BY <1>0, <1>1, <2>3, <2>4 DEF States
  <2>6. r \in States(g)
    <3>1. [s.addr EXCEPT ![t] = NoAddr] \in [DOMAIN g -> Addresses]
      BY <1>0, <1>1, <2>2 DEF States
    <3>2. s.own \cup {t} \in SUBSET DOMAIN g /\ s.children \in [DOMAIN g -> Int] /\ s.views \in [DOMAIN g -> Int]
      BY <1>0, <1>1 DEF States
    <3> QED
      BY <1>1, <2>3, <3>1, <3>2 DEF States
  <2>7. \A d \in DOMAIN s.chunks : Held(g, r, d) = Held(g, s, d)
    <3>1. \A d \in DOMAIN s.chunks : d # NoChunk
      BY <1>1 DEF NoChunk
    <3>2. \A d : Held(g, r, d) = IF NoAddr.chunk = d THEN Held(g, s, d) \cup {Block(NoAddr, g[t].size, t)}
                                 ELSE Held(g, s, d)
      BY <1>0, <1>1, <2>3, <2>4, HeldWith
    <3> QED
      BY <2>2, <3>1, <3>2
  <2>8. Filled(g, r)
    BY <1>0, <2>3, <2>7 DEF PlanInv, Filled
  <2>9. Addressed(g, D \cup {t}, r)
    <3> SUFFICES ASSUME NEW u \in D \cup {t}, ~IsView(g, u)
                 PROVE  \/ r.addr[u].chunk = NoChunk /\ u \in r.own
                        \/ /\ r.addr[u].chunk \in DOMAIN r.chunks
                           /\ r.addr[u].offset + g[u].size <= r.chunks[r.addr[u].chunk].max_size
      BY DEF Addressed
    <3>1. CASE u = t
      BY <2>2, <2>3, <2>5, <3>1
    <3>2. CASE u \in D
      <4>1. \/ s.addr[u].chunk = NoChunk /\ u \in s.own
            \/ /\ s.addr[u].chunk \in DOMAIN s.chunks
               /\ s.addr[u].offset + g[u].size <= s.chunks[s.addr[u].chunk].max_size
        BY <1>0, <3>2 DEF PlanInv, Addressed
      <4> QED
        BY <2>3, <2>5, <3>2, <4>1
    <3> QED
      BY <3>1, <3>2
  <2>10. KeptApart(g, D \cup {t}, r)
    <3>1. ASSUME NEW u \in D, ~IsView(g, u), Overlap(g, r.addr, u, t)
          PROVE  Replaces(g, r.addr, u, t)
      <4>1. s.addr[u].chunk = NoChunk
        BY <2>2, <2>5, <3>1 DEF Overlap
      <4>2. u \notin s.own
        BY <1>0, <4>1 DEF NoneMissing
      <4> QED
        BY <1>0, <3>1, <4>2, GoneMayBeReplaced DEF PlanInv
    <3> QED
      BY <2>3, <3>1, ApartWithNew
  <2>11. GoneIsRead(g, D \cup {t}, r) /\ Counts(g, P, r)
    BY <1>0, <2>3 DEF PlanInv, GoneIsRead, Counts
  <2>12. PlanInv(g, D \cup {t}, P, r)
    <3>1. r.own \subseteq D \cup {t} /\ \A u \in r.own : ~IsView(g, u)
      BY <1>1, <2>3
    <3> QED
      BY <1>1, <2>3, <2>6, <2>8, <2>9, <2>10, <2>11, <3>1 DEF PlanInv
  <2>13. ~NoneMissing(r)
    BY <2>2, <2>3, <2>5 DEF NoneMissing
  <2> QED
    BY <2>1, <2>12, <2>13 DEF res, r
<1> QED
  BY <1>3, <1>4, <1>5, <1>6

\* A view is gone through: it has no memory of its own.
LEMMA PlaceView ==
  ASSUME NEW g, NEW t, NEW D, NEW P, NEW s, Placing(g, t, D, P, s), IsView(g, t)
  PROVE  PlanInv(g, D \cup {t}, P, s)
BY DEF Placing, PlanInv, GoneIsRead, Addressed, KeptApart

\* Uses by tensors that were not gone through are still to come.
Ahead(g, D, P) == \A u \in AllUses(g) : u[1] \in D \/ u \in P

\* When no view of p is left, the readers of p were there, or are about to use it.
LEMMA PastReaders ==
  ASSUME NEW g, IsGraph(g), NEW D, NEW P, Ahead(g, D, P), NEW p \in DOMAIN g, ~IsView(g, p),
         OpenViews(g, P, p) = {}, NEW n \in Readers(g, p)
  PROVE  n \in D \/ \E j : <<n, j>> \in ToCome(g, P, p)
<1>1. PICK j \in DOMAIN g[n].src : n \in DOMAIN g /\ Base(g, g[n].src[j]) = p
  BY DEF Readers
<1> DEFINE x == g[n].src[j]
           u == <<n, j>>
<1>2. u \in AllUses(g) /\ Source(g, u) = x /\ u[1] = n /\ x \in DOMAIN g
  BY <1>1, UsesOf, GraphTypes DEF Source
<1>3. u \in Uses(g, x)
  BY <1>2, UsesOf
<1>4. n \in D \/ u \in P
  BY <1>2 DEF Ahead
<1> HIDE DEF x, u
<1>5. CASE ~IsView(g, x)
  <2>1. x = p
    BY <1>1, <1>5 DEF Base, x
  <2> QED
    BY <1>3, <1>4, <2>1 DEF ToCome, u
<1>6. CASE IsView(g, x)
  <2>1. g[x].view = p
    BY <1>1, <1>6 DEF Base, x
  <2>2. Spent(g, P, x)
    BY <1>2, <2>1 DEF OpenViews
  <2>3. u \notin P
    BY <1>3, <2>2 DEF Spent, ToCome
  <2> QED
    BY <1>4, <2>3
<1> QED
  BY <1>5, <1>6

\* t may be computed in the place of p: the guards of Reusable.
MayTakeOver(g, t, s, j, p) ==
  /\ j \in DOMAIN g[t].src /\ p = g[t].src[j] /\ g[t].inplace
  /\ p \in s.own /\ ~g[p].output /\ g[p].size = g[t].size
  /\ s.children[p] = 1 /\ s.views[p] = 0

PassedOn(s, t, p) ==
  [chunks |-> s.chunks, own |-> (s.own \ {p}) \cup {t}, children |-> s.children, views |-> s.views,
   addr |-> [s.addr EXCEPT ![t] = s.addr[p]]]

\* Then t is the last that reads p.
LEMMA LastReader ==
  ASSUME NEW g, NEW t, NEW D, NEW P, NEW s, Placing(g, t, D, P, s), Ahead(g, D, P),
         NEW j, NEW p, MayTakeOver(g, t, s, j, p)
  PROVE  t \in Readers(g, p) /\ Readers(g, p) \subseteq D \cup {t}
<1>0. IsGraph(g) /\ t \in DOMAIN g /\ PlanInv(g, D, P, s) /\ t \notin D
  BY PlacingFacts DEF Placing
<1>1. /\ j \in DOMAIN g[t].src /\ p = g[t].src[j] /\ p \in s.own
      /\ s.children[p] = 1 /\ s.views[p] = 0
  BY DEF MayTakeOver
<1>2. p \in DOMAIN g /\ ~IsView(g, p)
  BY <1>0, <1>1, GraphTypes DEF PlanInv
<1> DEFINE u == <<t, j>>
<1>3. u \in AllUses(g) /\ Source(g, u) = p /\ u[1] = t
  BY <1>0, <1>1, UsesOf DEF Source
<1>4. u \in ToCome(g, P, p)
  BY <1>0, <1>3, UsesOf DEF ToCome, Ahead
<1>5. \A x \in ToCome(g, P, p) : x = u
  <2>1. IsFiniteSet(Uses(g, p))
    BY <1>0, UsesOf
  <2>2. IsFiniteSet(ToCome(g, P, p))
    BY <2>1, FS_Intersection DEF ToCome
  <2>3. Cardinality(ToCome(g, P, p)) = 1
    BY <1>0, <1>1, <1>2 DEF PlanInv, Counts
  <2>4. \E x : ToCome(g, P, p) = {x}
    BY <2>2, <2>3, FS_Singleton
  <2> HIDE DEF u
  <2> QED
    BY <1>4, <2>4
<1>6. OpenViews(g, P, p) = {}
  <2>1. OpenViews(g, P, p) \in SUBSET DOMAIN g
    BY DEF OpenViews
  <2>2. IsFiniteSet(DOMAIN g)
    <3>1. DOMAIN g = 1 .. Len(g) /\ Len(g) \in Nat /\ 1 \in Int /\ Len(g) \in Int
      BY <1>0, GraphTypes
    <3> QED
      BY <3>1, FS_Interval
  <2>3. IsFiniteSet(OpenViews(g, P, p))
    BY <2>1, <2>2, FS_Subset
  <2>4. Cardinality(OpenViews(g, P, p)) = 0
    BY <1>0, <1>1, <1>2 DEF PlanInv, Counts
  <2> QED
    BY <2>3, <2>4, FS_EmptySet
<1>7. t \in Readers(g, p)
  BY <1>0, <1>1, <1>2 DEF Readers, Base
<1>8. ASSUME NEW n \in Readers(g, p) PROVE n \in D \cup {t}
  <2>1. n \in D \/ \E i : <<n, i>> \in ToCome(g, P, p)
    BY <1>0, <1>2, <1>6, PastReaders
  <2>2. ASSUME NEW i, <<n, i>> \in ToCome(g, P, p) PROVE n = t
    BY <1>5, <2>2
  <2> QED
    BY <2>1, <2>2
<1> QED
  BY <1>7, <1>8

LEMMA PlaceOver ==
  ASSUME NEW g, NEW t, NEW D, NEW P, NEW s, Placing(g, t, D, P, s), Ahead(g, D, P), ~IsView(g, t),
         NEW j, NEW p, MayTakeOver(g, t, s, j, p)
  PROVE  PlanInv(g, D \cup {t}, P, PassedOn(s, t, p)) /\ NoneMissing(PassedOn(s, t, p))
<1> DEFINE r == PassedOn(s, t, p)
<1>0. /\ IsGraph(g) /\ t \in DOMAIN g /\ D = 1 .. t - 1 /\ PlanInv(g, D, P, s) /\ NoneMissing(s)
      /\ t \notin D /\ t \notin s.own /\ D \subseteq DOMAIN g /\ \A u \in D : u < t /\ u \in Nat /\ t \in Nat
  BY PlacingFacts DEF Placing
<1>1. /\ s \in States(g) /\ Len(s.chunks) <= MaxChunks /\ Filled(g, s)
      /\ s.own \subseteq D /\ \A u \in s.own : ~IsView(g, u)
  BY <1>0 DEF PlanInv
<1>2. /\ j \in DOMAIN g[t].src /\ p = g[t].src[j] /\ g[t].inplace
      /\ p \in s.own /\ ~g[p].output /\ g[p].size = g[t].size
  BY DEF MayTakeOver
<1>3. p \in D /\ p # t /\ ~IsView(g, p) /\ p \in DOMAIN g
  BY <1>0, <1>1, <1>2
<1>4. t \in Readers(g, p) /\ Readers(g, p) \subseteq D \cup {t}
  BY LastReader
<1>5. \A u \in s.own : s.addr[u].chunk \in DOMAIN s.chunks
  BY <1>0, <1>1 DEF PlanInv, NoneMissing, Addressed
<1>6. /\ r.own = (s.own \ {p}) \cup {t} /\ r.addr = [s.addr EXCEPT ![t] = s.addr[p]]
      /\ r.chunks = s.chunks /\ r.children = s.children /\ r.views = s.views
      /\ r = [chunks |-> r.chunks, own |-> r.own, children |-> r.children, views |-> r.views,
              addr |-> r.addr]
  BY DEF PassedOn
<1> HIDE DEF r
<1>7. r.addr[t] = s.addr[p] /\ \A u \in D : r.addr[u] = s.addr[u]
  BY <1>0, <1>1, <1>6 DEF States
<1>8. r \in States(g)
  <2>1. s.addr[p] \in Addresses
    BY <1>1, <1>3 DEF States
  <2>2. [s.addr EXCEPT ![t] = s.addr[p]] \in [DOMAIN g -> Addresses]
    BY <1>0, <1>1, <2>1 DEF States
  <2>3. /\ (s.own \ {p}) \cup {t} \in SUBSET DOMAIN g
        /\ s.children \in [DOMAIN g -> Int] /\ s.views \in [DOMAIN g -> Int] /\ s.chunks \in Seq(Chunk)
    BY <1>0, <1>1 DEF States
  <2> QED
    BY <1>6, <2>2, <2>3 DEF States
<1>9. \A c : Held(g, r, c) =
        IF s.addr[p].chunk = c
        THEN (Held(g, s, c) \ {Block(s.addr[p], g[p].size, p)}) \cup {Block(s.addr[p], g[t].size, t)}
        ELSE Held(g, s, c)
  <2> DEFINE w == [chunks |-> s.chunks, own |-> s.own \ {p}, children |-> s.children,
                   views |-> s.views, addr |-> s.addr]
  <2>1. w.own = s.own \ {p} /\ w.addr = s.addr /\ t \notin w.own
    BY <1>0
  <2>2. w \in States(g)
    BY <1>1 DEF States
  <2> HIDE DEF w
  <2>3. \A c : Held(g, w, c) = IF s.addr[p].chunk = c
                               THEN Held(g, s, c) \ {Block(s.addr[p], g[p].size, p)}
                               ELSE Held(g, s, c)
    BY <1>1, <1>2, <2>1, HeldWithout
  <2> DEFINE a == s.addr[p]
  <2>4. r.own = w.own \cup {t} /\ r.addr = [w.addr EXCEPT ![t] = a]
    BY <1>6, <2>1
  <2> HIDE DEF a
  <2>5. \A c : Held(g, r, c) = IF a.chunk = c THEN Held(g, w, c) \cup {Block(a, g[t].size, t)}
                               ELSE Held(g, w, c)
    BY <1>0, <2>1, <2>2, <2>4, HeldWith
  <2> QED
    BY <2>3, <2>5 DEF a
<1>10. Filled(g, r)
  <2> SUFFICES ASSUME NEW c \in DOMAIN s.chunks PROVE Tiles(s.chunks[c].free, Held(g, r, c))
    BY <1>6 DEF Filled
  <2>1. Tiles(s.chunks[c].free, Held(g, s, c))
    BY <1>1 DEF Filled
  <2>2. CASE s.addr[p].chunk # c
    BY <1>9, <2>1, <2>2
  <2>3. CASE s.addr[p].chunk = c
    <3> DEFINE x == Block(s.addr[p], g[p].size, p)
               new == Block(s.addr[p], g[t].size, t)
    <3>1. x \in Held(g, s, c)
      BY <1>2, <2>3, HeldElements
    <3>2. new.offset = x.offset /\ new.size = x.size
      BY <1>2, BlockFields
    <3>3. Held(g, r, c) = (Held(g, s, c) \ {x}) \cup {new}
      BY <1>9, <2>3
    <3> HIDE DEF x, new
    <3> QED
      BY <2>1, <3>1, <3>2, <3>3, SwapTiles
  <2> QED
    BY <2>2, <2>3
<1>11. Addressed(g, D \cup {t}, r)
  <2> SUFFICES ASSUME NEW u \in D \cup {t}, ~IsView(g, u)
               PROVE  /\ r.addr[u].chunk \in DOMAIN r.chunks
                      /\ r.addr[u].offset + g[u].size <= r.chunks[r.addr[u].chunk].max_size
    BY DEF Addressed
  <2>1. ASSUME NEW x \in D, ~IsView(g, x)
        PROVE  /\ s.addr[x].chunk \in DOMAIN s.chunks
               /\ s.addr[x].offset + g[x].size <= s.chunks[s.addr[x].chunk].max_size
    BY <1>0, <2>1 DEF PlanInv, Addressed, NoneMissing
  <2>2. CASE u = t
    BY <1>2, <1>3, <1>6, <1>7, <2>1, <2>2
  <2>3. CASE u \in D
    BY <1>6, <1>7, <2>1, <2>3
  <2> QED
    BY <2>2, <2>3
<1>12. KeptApart(g, D \cup {t}, r)
  <2>1. ASSUME NEW u \in D, ~IsView(g, u), Overlap(g, r.addr, u, t)
        PROVE  Replaces(g, r.addr, u, t)
    <3>1. CASE u = p
      <4>1. Written(g, p) < Written(g, t)
        <5>1. ~IsLeaf(g, t)
          BY <1>2 DEF IsLeaf
        <5>2. p < t /\ p \in Nat /\ t \in Nat /\ 0 < t
          BY <1>0, <1>3, GraphTypes
        <5> QED
          BY <5>1, <5>2 DEF Written
      <4>2. \A n \in Readers(g, p) : n < t \/ n = t
        BY <1>0, <1>4
      <4> QED
        BY <1>2, <1>3, <1>7, <3>1, <4>1, <4>2 DEF Replaces, MayReplace
    <3>2. CASE u \in s.own /\ u # p
      <4>1. Overlap(g, s.addr, u, p)
        BY <1>2, <1>3, <1>7, <2>1 DEF Overlap
      <4>2. s.addr[u].chunk \in DOMAIN s.chunks
        BY <1>5, <3>2
      <4> QED
        BY <1>0, <1>1, <1>2, <3>2, <4>1, <4>2, HeldAreApart
    <3>3. CASE u \notin s.own
      BY <1>0, <2>1, <3>3, GoneMayBeReplaced DEF PlanInv
    <3> QED
      BY <3>1, <3>2, <3>3
  <2> QED
    BY <1>6, <2>1, ApartWithNew
<1>13. GoneIsRead(g, D \cup {t}, r)
  <2> SUFFICES ASSUME NEW u \in (D \cup {t}) \ r.own, ~IsView(g, u)
               PROVE  ~g[u].output /\ Readers(g, u) # {} /\ Readers(g, u) \subseteq D \cup {t}
    BY DEF GoneIsRead
  <2>1. u \in D /\ (u = p \/ u \notin s.own)
    BY <1>6
  <2> QED
    BY <1>0, <1>2, <1>4, <2>1 DEF PlanInv, GoneIsRead
<1>14. Counts(g, P, r)
  BY <1>0, <1>6 DEF PlanInv, Counts
<1>15. PlanInv(g, D \cup {t}, P, r)
  <2>1. r.own \subseteq D \cup {t} /\ \A u \in r.own : ~IsView(g, u)
    BY <1>1, <1>6
  <2> QED
    BY <1>1, <1>6, <1>8, <1>10, <1>11, <1>12, <1>13, <1>14, <2>1 DEF PlanInv
<1>16. NoneMissing(r)
  <2>1. \A u \in s.own : u \in D
    BY <1>1
  <2> QED
    BY <1>0, <1>2, <1>6, <1>7, <2>1 DEF NoneMissing
<1> QED
  BY <1>15, <1>16 DEF r

\* The parents of the next tensor are views or have memory.
LEMMA ParentsArePlaced ==
  ASSUME NEW g, NEW t, NEW D, NEW P, Placing(g, t, D, P, st), NEW j \in DOMAIN g[t].src
  PROVE  AllocateNode(g, g[t].src[j]) = st
<1> DEFINE x == g[t].src[j]
<1>0. IsGraph(g) /\ t \in DOMAIN g /\ D = 1 .. t - 1 /\ PlanInv(g, D, P, st) /\ t \notin D
  BY PlacingFacts DEF Placing
<1>1. x \in D
  BY <1>0, GraphTypes
<1>2. IsView(g, x) \/ x \in st.own
  <2> SUFFICES ASSUME ~IsView(g, x), x \notin st.own PROVE FALSE
    OBVIOUS
  <2>1. Readers(g, x) \subseteq D
    BY <1>0, <1>1 DEF PlanInv, GoneIsRead
  <2>2. t \in Readers(g, x)
    BY <1>0 DEF Readers, Base
  <2> QED
    BY <1>0, <2>1, <2>2
<1> HIDE DEF x
<1>3. AllocateNode(g, x) = st
  BY <1>2 DEF AllocateNode
<1> QED
  BY <1>3 DEF x

\* What ggml_gallocr_allocate_node does for the next tensor: nothing, or it passes on
\* the memory of a parent, or it gives out new memory, or there is none.
PlacedOver(g, t, s, r) == \E j, p : MayTakeOver(g, t, s, j, p) /\ r = PassedOn(s, t, p)
PlacedFresh(g, t, s, r) == \E res : GivesOut(g, s, t, res) /\ r = Placed(s, t, res)

LEMMA NodeIsPlaced ==
  ASSUME NEW g, NEW t, NEW D, NEW P, Placing(g, t, D, P, st), Ahead(g, D, P)
  PROVE  LET r == AllocateNode(g, t)
         IN /\ PlanInv(g, D \cup {t}, P, r)
            /\ \/ IsView(g, t) /\ r = st
               \/ ~IsView(g, t) /\ NoneMissing(r) /\ PlacedOver(g, t, st, r)
               \/ ~IsView(g, t) /\ NoneMissing(r) /\ PlacedFresh(g, t, st, r)
               \/ ~IsView(g, t) /\ ~NoneMissing(r)
<1> DEFINE r == AllocateNode(g, t)
           js == Reusable(g, t)
           i == CHOOSE j \in js : \A k \in js : j <= k
           new == Alloc(st.chunks, g[t].size)
<1>0. /\ IsGraph(g) /\ t \in DOMAIN g /\ PlanInv(g, D, P, st) /\ t \notin st.own
  BY PlacingFacts DEF Placing
<1>1. CASE IsView(g, t)
  <2>1. r = st
    BY <1>1 DEF AllocateNode
  <2> QED
    BY <1>1, <2>1, PlaceView
<1>2. CASE ~IsView(g, t) /\ js # {}
  <2>1. \A j \in js : j \in Nat
    BY <1>0, GraphTypes DEF Reusable
  <2>2. i \in js
    <3>1. \E j \in js : \A k \in js : j <= k
      BY <1>2, <2>1, LeastNatural
    <3> QED
      BY <3>1
  <2> HIDE DEF i
  <2>3. MayTakeOver(g, t, st, i, g[t].src[i])
    BY <2>2 DEF Reusable, MayTakeOver
  <2>4. r = [st EXCEPT !.own = (@ \ {g[t].src[i]}) \cup {t}, !.addr[t] = st.addr[g[t].src[i]]]
    BY <1>0, <1>2 DEF AllocateNode, i
  <2>5. st \in States(g)
    BY <1>0 DEF PlanInv
  <2>6. r = PassedOn(st, t, g[t].src[i])
    BY <2>4, <2>5 DEF PassedOn, States
  <2> HIDE DEF r, js
  <2>7. PlanInv(g, D \cup {t}, P, r) /\ NoneMissing(r)
    <3> DEFINE p == g[t].src[i]
    <3>1. MayTakeOver(g, t, st, i, p) /\ r = PassedOn(st, t, p)
      BY <2>3, <2>6
    <3> HIDE DEF p
    <3> QED
      BY <1>2, <3>1, PlaceOver
  <2>8. PlacedOver(g, t, st, r)
    BY <2>3, <2>6 DEF PlacedOver
  <2> QED
    BY <1>2, <2>7, <2>8 DEF r
<1>3. CASE ~IsView(g, t) /\ js = {}
  <2>1. r = [st EXCEPT !.own = @ \cup {t}, !.addr[t] = new.addr, !.chunks = new.chunks]
    BY <1>0, <1>3 DEF AllocateNode
  <2>2. st \in States(g)
    BY <1>0 DEF PlanInv
  <2>3. r = Placed(st, t, new)
    <3> HIDE DEF new
    <3> QED
      BY <2>1, <2>2 DEF Placed, States
  <2> HIDE DEF r
  <2>4. /\ PlanInv(g, D \cup {t}, P, r)
        /\ \/ ~NoneMissing(r)
           \/ NoneMissing(r) /\ GivesOut(g, st, t, new)
    BY <1>3, <2>3, PlaceFresh
  <2> QED
    BY <1>3, <2>3, <2>4 DEF r, PlacedFresh
<1> QED
  BY <1>1, <1>2, <1>3

-----------------------------------------------------------------------------
(* A source was used.                                                      *)

\* Node t, which has its memory, has used its sources before source j.
Using(g, t, D, P, s, j) ==
  /\ IsGraph(g) /\ t \in DOMAIN g /\ D = 1 .. t
  /\ PlanInv(g, D, P, s) /\ NoneMissing(s)
  /\ Ahead(g, D, P) /\ j \in DOMAIN g[t].src /\ <<t, j>> \in P

\* the counters after a use of p, of which the uses P are left
Ticked(g, P, s, p) ==
  [chunks |-> s.chunks, own |-> s.own, children |-> [s.children EXCEPT ![p] = @ - 1],
   views |-> IF IsView(g, p) /\ ToCome(g, P, p) = {} THEN [s.views EXCEPT ![g[p].view] = @ - 1]
             ELSE s.views,
   addr |-> s.addr]

LEMMA ToComeIsFinite ==
  ASSUME NEW g, IsGraph(g), NEW P, NEW x
  PROVE  IsFiniteSet(ToCome(g, P, x)) /\ IsFiniteSet(OpenViews(g, P, x))
<1>1. IsFiniteSet(ToCome(g, P, x))
  <2>1. IsFiniteSet(Uses(g, x))
    BY UsesOf
  <2> QED
    BY <2>1, FS_Intersection DEF ToCome
<1>2. IsFiniteSet(DOMAIN g)
  <2>1. g \in Seq(Tensors)
    BY DEF IsGraph
  <2>2. DOMAIN g = 1 .. Len(g) /\ Len(g) \in Int /\ 1 \in Int
    BY <2>1
  <2> QED
    BY <2>2, FS_Interval
<1>3. OpenViews(g, P, x) \in SUBSET DOMAIN g
  BY DEF OpenViews
<1> QED
  BY <1>1, <1>2, <1>3, FS_Subset

LEMMA OneLess ==
  ASSUME NEW S, IsFiniteSet(S), NEW x \in S, NEW T, T = S \ {x}
  PROVE  Cardinality(T) = Cardinality(S) - 1
BY FS_RemoveElement

LEMMA CountersTick ==
  ASSUME NEW g, NEW t, NEW D, NEW P, NEW s, NEW j, Using(g, t, D, P, s, j),
         NEW p, p = g[t].src[j], NEW Q, Q = P \ {<<t, j>>}
  PROVE  PlanInv(g, D, Q, Ticked(g, Q, s, p)) /\ Ahead(g, D, Q)
<1> DEFINE u == <<t, j>>
           r == Ticked(g, Q, s, p)
           last == IsView(g, p) /\ ToCome(g, Q, p) = {}
<1>0. /\ IsGraph(g) /\ t \in DOMAIN g /\ t \in D /\ PlanInv(g, D, P, s) /\ NoneMissing(s)
      /\ Ahead(g, D, P) /\ j \in DOMAIN g[t].src /\ u \in P
  <2>1. t \in Nat \ {0}
    BY GraphTypes DEF Using
  <2> QED
    BY <2>1 DEF Using
<1>1. s \in States(g)
  BY <1>0 DEF PlanInv
<1>2. p \in DOMAIN g /\ (IsView(g, p) => g[p].view \in DOMAIN g)
  BY <1>0, GraphTypes
<1>3. u \in AllUses(g) /\ Source(g, u) = p
  BY <1>0, UsesOf DEF Source
<1>4. u \in ToCome(g, P, p)
  BY <1>0, <1>3, UsesOf DEF ToCome
<1>5. ToCome(g, Q, p) = ToCome(g, P, p) \ {u}
  BY DEF ToCome
<1>6. \A x \in DOMAIN g : x # p => ToCome(g, Q, x) = ToCome(g, P, x)
  <2> TAKE x \in DOMAIN g
  <2> HAVE x # p
  <2>1. u \notin Uses(g, x)
    BY <1>0, <1>3, UsesOf
  <2> QED
    BY <2>1 DEF ToCome
<1>7. Ahead(g, D, Q)
  <2>1. \A x \in AllUses(g) : x = u => x[1] = t
    OBVIOUS
  <2> HIDE DEF u
  <2> QED
    BY <1>0, <2>1 DEF Ahead, u
<1>8. ~Spent(g, P, p) /\ (Spent(g, Q, p) <=> ToCome(g, Q, p) = {})
  BY <1>4 DEF Spent, ToCome
<1>9. \A x \in DOMAIN g : x # p => (Spent(g, Q, x) <=> Spent(g, P, x))
  BY <1>6 DEF Spent
<1>10. \A b \in DOMAIN g :
         OpenViews(g, Q, b) = IF last /\ b = g[p].view THEN OpenViews(g, P, b) \ {p}
                              ELSE OpenViews(g, P, b)
  <2> TAKE b \in DOMAIN g
  <2>0. b # 0
    BY <1>0, GraphTypes
  <2> HIDE DEF u
  <2>1. CASE last /\ b = g[p].view
    BY <1>8, <1>9, <2>1 DEF OpenViews
  <2>2. CASE b # g[p].view
    BY <1>8, <1>9, <2>2 DEF OpenViews
  <2>3. CASE b = g[p].view /\ ToCome(g, Q, p) # {}
    BY <1>8, <1>9, <2>3 DEF OpenViews
  <2>4. b = g[p].view => IsView(g, p)
    BY <2>0 DEF IsView
  <2> QED
    BY <2>1, <2>2, <2>3, <2>4
<1>11. Cardinality(ToCome(g, Q, p)) = Cardinality(ToCome(g, P, p)) - 1
  <2>1. IsFiniteSet(ToCome(g, P, p))
    BY <1>0, ToComeIsFinite
  <2> HIDE DEF u
  <2> QED
    BY <1>4, <1>5, <2>1, OneLess
<1>12. last => Cardinality(OpenViews(g, Q, g[p].view)) = Cardinality(OpenViews(g, P, g[p].view)) - 1
  <2> HAVE last
  <2>1. p \in OpenViews(g, P, g[p].view)
    BY <1>2, <1>8 DEF OpenViews
  <2>2. OpenViews(g, Q, g[p].view) = OpenViews(g, P, g[p].view) \ {p}
    BY <1>2, <1>10
  <2>3. IsFiniteSet(OpenViews(g, P, g[p].view))
    BY <1>0, ToComeIsFinite
  <2> QED
    BY <2>1, <2>2, <2>3, OneLess
<1> HIDE DEF u, last
<1>13. /\ r.own = s.own /\ r.addr = s.addr /\ r.chunks = s.chunks
       /\ r.children = [s.children EXCEPT ![p] = @ - 1]
       /\ r.views = IF last THEN [s.views EXCEPT ![g[p].view] = @ - 1] ELSE s.views
       /\ r = [chunks |-> r.chunks, own |-> r.own, children |-> r.children, views |-> r.views,
               addr |-> r.addr]
  BY DEF Ticked, last
<1> HIDE DEF r
<1>14. s.children \in [DOMAIN g -> Int] /\ s.views \in [DOMAIN g -> Int]
  BY <1>1 DEF States
<1>15. r.children \in [DOMAIN g -> Int]
  BY <1>2, <1>13, <1>14
<1>16. r.views \in [DOMAIN g -> Int]
  BY <1>2, <1>13, <1>14 DEF last
<1>17. r \in States(g)
  BY <1>1, <1>13, <1>15, <1>16 DEF States
<1>18. Counts(g, Q, r)
  <2> SUFFICES ASSUME NEW x \in DOMAIN g
               PROVE  /\ r.children[x] = Cardinality(ToCome(g, Q, x))
                      /\ r.views[x] = Cardinality(OpenViews(g, Q, x))
    BY DEF Counts
  <2>1. s.children[x] = Cardinality(ToCome(g, P, x)) /\ s.views[x] = Cardinality(OpenViews(g, P, x))
    BY <1>0 DEF PlanInv, Counts
  <2>2. r.children[x] = Cardinality(ToCome(g, Q, x))
    <3>1. CASE x = p
      BY <1>11, <1>13, <1>14, <2>1, <3>1
    <3>2. CASE x # p
      BY <1>6, <1>13, <1>14, <2>1, <3>2
    <3> QED
      BY <3>1, <3>2
  <2>3. r.views[x] = Cardinality(OpenViews(g, Q, x))
    <3>1. CASE last /\ x = g[p].view
      <4>1. Cardinality(OpenViews(g, Q, x)) = Cardinality(OpenViews(g, P, x)) - 1
        BY <1>12, <3>1
      <4>2. r.views = [s.views EXCEPT ![x] = @ - 1]
        BY <1>13, <3>1
      <4> QED
        BY <1>14, <2>1, <4>1, <4>2
    <3>2. CASE last /\ x # g[p].view
      BY <1>10, <1>13, <1>14, <2>1, <3>2
    <3>3. CASE ~last
      BY <1>10, <1>13, <2>1, <3>3
    <3> QED
      BY <3>1, <3>2, <3>3
  <2> QED
    BY <2>2, <2>3
<1>19. Filled(g, r)
  <2>1. \A c : Held(g, r, c) = Held(g, s, c)
    BY <1>13 DEF Held
  <2> QED
    BY <1>0, <1>13, <2>1 DEF PlanInv, Filled
<1>20. GoneIsRead(g, D, r) /\ Addressed(g, D, r) /\ KeptApart(g, D, r)
  BY <1>0, <1>13 DEF PlanInv, GoneIsRead, Addressed, KeptApart
<1>21. PlanInv(g, D, Q, r)
  BY <1>0, <1>13, <1>17, <1>18, <1>19, <1>20 DEF PlanInv
<1> QED
  BY <1>7, <1>21 DEF r

\* Memory is taken back, or nothing happens to memory.
TakesBack(s, r) ==
  /\ r.own = s.own \/ \E b \in s.own : r.own = s.own \ {b}
  /\ r.addr = s.addr /\ Len(r.chunks) = Len(s.chunks)
  /\ \A c \in DOMAIN s.chunks : r.chunks[c].max_size = s.chunks[c].max_size

\* b loses its memory.
TakenBack(g, s, b) ==
  [chunks |-> FreeBytes(s.chunks, s.addr[b], g[b].size), own |-> s.own \ {b},
   children |-> s.children, views |-> s.views, addr |-> s.addr]

LEMMA FreeKeeps ==
  ASSUME NEW g, IsGraph(g), NEW D, NEW P, NEW s, PlanInv(g, D, P, s), NoneMissing(s),
         Ahead(g, D, P), D \subseteq DOMAIN g,
         NEW b \in s.own, s.children[b] = 0, s.views[b] = 0, ~g[b].output, Readers(g, b) # {}
  PROVE  LET r == TakenBack(g, s, b)
         IN PlanInv(g, D, P, r) /\ NoneMissing(r) /\ TakesBack(s, r)
<1> DEFINE r == TakenBack(g, s, b)
           a == s.addr[b]
           x == Block(a, g[b].size, b)
<1>1. /\ s \in States(g) /\ s.chunks \in Seq(Chunk) /\ Len(s.chunks) <= MaxChunks
      /\ s.own \subseteq D /\ \A u \in s.own : ~IsView(g, u)
  BY DEF PlanInv, States
<1>2. b \in DOMAIN g /\ b \in D /\ ~IsView(g, b)
  BY <1>1
<1>3. a.chunk \in DOMAIN s.chunks
  BY <1>2 DEF PlanInv, Addressed, NoneMissing
<1>4. x.offset = a.offset /\ x.size = g[b].size
  BY BlockFields
<1>5. x \in Held(g, s, a.chunk) /\ Tiles(s.chunks[a.chunk].free, Held(g, s, a.chunk))
  BY <1>3, HeldElements DEF PlanInv, Filled
<1> HIDE DEF a, x
<1>6. PICK free : /\ IsFiniteSet(free) /\ Tiles(free, Held(g, s, a.chunk) \ {x})
                  /\ FreeBytes(s.chunks, a, x.size) = [s.chunks EXCEPT ![a.chunk].free = free]
  <2> DEFINE c == a.chunk
             held == Held(g, s, c)
             chunks == s.chunks
  <2>1. chunks \in Seq(Chunk) /\ c \in DOMAIN chunks /\ Tiles(chunks[c].free, held) /\ x \in held
        /\ a.chunk = c /\ a.offset = x.offset
    BY <1>1, <1>3, <1>4, <1>5
  <2> HIDE DEF c, held, chunks
  <2>2. Frees(chunks, c, held \ {x}, FreeBytes(chunks, a, x.size))
    BY <2>1, FreeTiles
  <2> QED
    BY <2>2 DEF c, held, chunks, Frees
<1>7. /\ r.own = s.own \ {b} /\ r.addr = s.addr /\ r.children = s.children /\ r.views = s.views
      /\ r.chunks = [s.chunks EXCEPT ![a.chunk].free = free]
      /\ r = [chunks |-> r.chunks, own |-> r.own, children |-> r.children, views |-> r.views,
              addr |-> r.addr]
  BY <1>4, <1>6 DEF TakenBack, a
<1> HIDE DEF r
<1>8. \A c \in DOMAIN s.chunks :
        /\ s.chunks[c] \in [free : SUBSET FreeBlock, max_size : Nat] /\ IsFiniteSet(s.chunks[c].free)
  BY <1>1 DEF Chunk
<1>9. /\ DOMAIN r.chunks = DOMAIN s.chunks
      /\ \A c \in DOMAIN s.chunks : c # a.chunk => r.chunks[c] = s.chunks[c]
      /\ r.chunks[a.chunk] = [s.chunks[a.chunk] EXCEPT !.free = free]
  BY <1>1, <1>3, <1>7
<1>10. r.chunks[a.chunk].free = free /\ r.chunks[a.chunk].max_size = s.chunks[a.chunk].max_size
       /\ r.chunks[a.chunk] \in Chunk
  <2>1. free \subseteq FreeBlock
    BY <1>6 DEF Tiles
  <2> QED
    BY <1>3, <1>6, <1>8, <1>9, <2>1 DEF Chunk
<1>11. \A c \in DOMAIN s.chunks : r.chunks[c].max_size = s.chunks[c].max_size
  BY <1>9, <1>10
<1>12. r.chunks \in Seq(Chunk) /\ Len(r.chunks) = Len(s.chunks)
  <2>1. DOMAIN s.chunks = 1 .. Len(s.chunks) /\ Len(s.chunks) \in Nat
    BY <1>1
  <2>2. \A c \in 1 .. Len(s.chunks) : r.chunks[c] \in Chunk
    BY <1>1, <1>9, <1>10, <2>1
  <2>3. r.chunks \in [1 .. Len(s.chunks) -> Chunk]
    BY <1>7, <1>9, <2>1, <2>2
  <2>4. \A sq \in Seq(Chunk) : Len(sq) \in Nat /\ DOMAIN sq = 1 .. Len(sq)
    OBVIOUS
  <2>5. r.chunks \in Seq(Chunk)
    BY <2>1, <2>3
  <2>6. 1 .. Len(r.chunks) = 1 .. Len(s.chunks) /\ Len(r.chunks) \in Nat
    BY <1>9, <2>1, <2>4, <2>5
  <2>7. Len(r.chunks) = Len(s.chunks)
    BY <2>1, <2>6
  <2> QED
    BY <2>5, <2>7
<1>13. r \in States(g)
  BY <1>1, <1>7, <1>12 DEF States
<1>14. \A c : Held(g, r, c) = IF a.chunk = c THEN Held(g, s, c) \ {x} ELSE Held(g, s, c)
  <2>1. \A c : Held(g, r, c) = IF s.addr[b].chunk = c
                               THEN Held(g, s, c) \ {Block(s.addr[b], g[b].size, b)}
                               ELSE Held(g, s, c)
    BY <1>1, <1>7, HeldWithout
  <2> QED
    BY <2>1 DEF a, x
<1>15. Filled(g, r)
  <2> SUFFICES ASSUME NEW c \in DOMAIN s.chunks PROVE Tiles(r.chunks[c].free, Held(g, r, c))
    BY <1>9 DEF Filled
  <2>1. CASE c = a.chunk
    BY <1>6, <1>10, <1>14, <2>1
  <2>2. CASE c # a.chunk
    BY <1>9, <1>14, <2>2 DEF PlanInv, Filled
  <2> QED
    BY <2>1, <2>2
<1>16. Addressed(g, D, r)
  <2> SUFFICES ASSUME NEW u \in D, ~IsView(g, u)
               PROVE  /\ r.addr[u].chunk \in DOMAIN r.chunks
                      /\ r.addr[u].offset + g[u].size <= r.chunks[r.addr[u].chunk].max_size
    BY DEF Addressed
  <2>1. /\ s.addr[u].chunk \in DOMAIN s.chunks
        /\ s.addr[u].offset + g[u].size <= s.chunks[s.addr[u].chunk].max_size
    BY DEF PlanInv, Addressed, NoneMissing
  <2> QED
    BY <1>7, <1>9, <1>11, <2>1
<1>17. Readers(g, b) \subseteq D
  <2>1. ToCome(g, P, b) = {} /\ OpenViews(g, P, b) = {}
    <3>1. Cardinality(ToCome(g, P, b)) = 0 /\ Cardinality(OpenViews(g, P, b)) = 0
      BY <1>2 DEF PlanInv, Counts
    <3>2. IsFiniteSet(ToCome(g, P, b)) /\ IsFiniteSet(OpenViews(g, P, b))
      BY ToComeIsFinite
    <3> QED
      BY <3>1, <3>2, FS_EmptySet
  <2>2. ASSUME NEW n \in Readers(g, b) PROVE n \in D
    <3>1. n \in D \/ \E i : <<n, i>> \in ToCome(g, P, b)
      BY <1>2, <2>1, PastReaders
    <3> QED
      BY <2>1, <3>1
  <2> QED
    BY <2>2
<1>18. GoneIsRead(g, D, r)
  BY <1>7, <1>17 DEF PlanInv, GoneIsRead
<1>19. Counts(g, P, r) /\ KeptApart(g, D, r)
  BY <1>7 DEF PlanInv, Counts, KeptApart
<1>20. PlanInv(g, D, P, r) /\ NoneMissing(r)
  BY <1>1, <1>7, <1>12, <1>13, <1>15, <1>16, <1>18, <1>19 DEF PlanInv, NoneMissing
<1>21. TakesBack(s, r)
  BY <1>7, <1>11, <1>12 DEF TakesBack
<1> QED
  BY <1>20, <1>21 DEF r

\* one source of a node was used: ggml_gallocr_free_node included
LEMMA SourceIsUsed ==
  ASSUME NEW g, NEW t, NEW D, NEW P, NEW j, Using(g, t, D, P, st, j),
         NEW Q, Q = P \ {<<t, j>>}
  PROVE  LET r == UpdateParent(g, g[t].src[j])
         IN /\ PlanInv(g, D, Q, r) /\ NoneMissing(r) /\ Ahead(g, D, Q)
            /\ TakesBack(st, r)
<1> DEFINE p == g[t].src[j]
           r == UpdateParent(g, p)
           used == [st EXCEPT !.children[p] = @ - 1]
           unviewed == [used EXCEPT !.views[g[p].view] = @ - 1]
           w == Ticked(g, Q, st, p)
<1>0. /\ IsGraph(g) /\ t \in DOMAIN g /\ D = 1 .. t /\ PlanInv(g, D, P, st) /\ NoneMissing(st)
      /\ j \in DOMAIN g[t].src
  BY DEF Using
<1>1. PlanInv(g, D, Q, w) /\ Ahead(g, D, Q)
  BY CountersTick
<1>2. st \in States(g)
  BY <1>0 DEF PlanInv
<1>3. /\ w.own = st.own /\ w.addr = st.addr /\ w.chunks = st.chunks
      /\ w.children = [st.children EXCEPT ![p] = @ - 1]
      /\ w.views = IF IsView(g, p) /\ ToCome(g, Q, p) = {}
                   THEN [st.views EXCEPT ![g[p].view] = @ - 1] ELSE st.views
      /\ NoneMissing(w)
  BY <1>0 DEF Ticked, NoneMissing
<1>4. p \in DOMAIN g /\ (IsView(g, p) => g[p].view \in DOMAIN g /\ ~IsView(g, g[p].view))
  BY <1>0, GraphTypes
<1>5. D \subseteq DOMAIN g
  <2>1. DOMAIN g = 1 .. Len(g) /\ Len(g) \in Nat /\ t \in 1 .. Len(g)
    BY <1>0, GraphTypes
  <2> QED
    BY <1>0, <2>1
<1>6. w.children[p] = 0 <=> ToCome(g, Q, p) = {}
  <2>1. w.children[p] = Cardinality(ToCome(g, Q, p)) /\ IsFiniteSet(ToCome(g, Q, p))
    BY <1>0, <1>1, <1>4, ToComeIsFinite DEF PlanInv, Counts
  <2> HIDE DEF w, p
  <2> QED
    BY <2>1, FS_EmptySet
<1>7. used = [chunks |-> st.chunks, own |-> st.own, children |-> w.children, views |-> st.views,
              addr |-> st.addr]
  <2>1. w.children = [st.children EXCEPT ![p] = @ - 1]
    BY <1>3
  <2>2. used = [st EXCEPT !.children = [st.children EXCEPT ![p] = @ - 1]]
    OBVIOUS
  <2> HIDE DEF w, used, p
  <2>3. used = [st EXCEPT !.children = w.children]
    BY <2>1, <2>2
  <2> QED
    BY <1>2, <2>3 DEF States
<1>8. unviewed = [chunks |-> st.chunks, own |-> st.own, children |-> w.children,
                  views |-> [st.views EXCEPT ![g[p].view] = @ - 1], addr |-> st.addr]
  <2> HIDE DEF used
  <2> QED
    BY <1>7
<1>9. r = IF ~(used.children[p] = 0 /\ used.views[p] = 0) THEN used
          ELSE IF IsView(g, p)
          THEN IF unviewed.children[g[p].view] = 0 /\ unviewed.views[g[p].view] = 0
                  /\ g[p].view \in unviewed.own
               THEN FreeNode(g, unviewed, g[p].view) ELSE unviewed
          ELSE IF p \in used.own THEN FreeNode(g, used, p) ELSE used
  BY DEF UpdateParent
<1>10. w = [chunks |-> st.chunks, own |-> st.own, children |-> w.children, views |-> w.views,
            addr |-> st.addr]
  BY DEF Ticked
<1>11. ASSUME NEW b \in w.own, w.children[b] = 0, w.views[b] = 0, Readers(g, b) # {}
       PROVE  LET x == FreeNode(g, w, b)
              IN PlanInv(g, D, Q, x) /\ NoneMissing(x) /\ TakesBack(st, x)
  <2> DEFINE x == FreeNode(g, w, b)
  <2>1. CASE g[b].output
    <3>1. x = w
      BY <2>1 DEF FreeNode
    <3> HIDE DEF x, w
    <3> QED
      BY <1>1, <1>3, <3>1 DEF TakesBack, x
  <2>2. CASE ~g[b].output
    <3>1. x = [w EXCEPT !.own = @ \ {b}, !.chunks = FreeBytes(@, w.addr[b], g[b].size)]
      BY <2>2 DEF FreeNode
    <3> HIDE DEF w
    <3>2. x = TakenBack(g, w, b)
      BY <1>3, <1>10, <3>1 DEF TakenBack
    <3> HIDE DEF x
    <3>3. PlanInv(g, D, Q, x) /\ NoneMissing(x) /\ TakesBack(w, x)
      BY <1>0, <1>1, <1>3, <1>5, <1>11, <2>2, <3>2, FreeKeeps
    <3> QED
      BY <1>3, <3>3 DEF TakesBack, x
  <2> QED
    BY <2>1, <2>2
<1>12. t \in Readers(g, Base(g, p))
  BY <1>0 DEF Readers
<1>13. TakesBack(st, w)
  BY <1>3 DEF TakesBack
<1> HIDE DEF w, r, used, unviewed
<1>14. CASE ~(w.children[p] = 0 /\ st.views[p] = 0)
  <2>1. r = used
    BY <1>7, <1>9, <1>14
  <2>2. ~(IsView(g, p) /\ ToCome(g, Q, p) = {})
    <3> SUFFICES ASSUME IsView(g, p), w.children[p] = 0 PROVE st.views[p] = 0
      BY <1>6, <1>14
    <3>1. OpenViews(g, P, p) = {}
      <4>1. ASSUME NEW v \in DOMAIN g, g[v].view = p PROVE FALSE
        <5>1. p # 0
          BY <1>0, <1>4, GraphTypes
        <5>2. IsView(g, v)
          BY <4>1, <5>1 DEF IsView
        <5> QED
          BY <1>0, <4>1, <5>2, GraphTypes
      <4> HIDE DEF p
      <4> QED
        BY <4>1 DEF OpenViews
    <3>2. st.views[p] = Cardinality(OpenViews(g, P, p))
      BY <1>0, <1>4 DEF PlanInv, Counts
    <3> QED
      BY <3>1, <3>2, FS_EmptySet
  <2>3. w.views = st.views
    BY <1>3, <2>2
  <2>4. r = w
    BY <1>7, <1>10, <2>1, <2>3
  <2> QED
    BY <1>1, <1>3, <1>13, <2>4 DEF r
<1>15. CASE w.children[p] = 0 /\ st.views[p] = 0 /\ IsView(g, p)
  <2> DEFINE b == g[p].view
  <2>1. w.views = [st.views EXCEPT ![b] = @ - 1]
    BY <1>3, <1>6, <1>15
  <2>2. unviewed = w
    BY <1>8, <1>10, <2>1
  <2>3. r = IF w.children[b] = 0 /\ w.views[b] = 0 /\ b \in w.own THEN FreeNode(g, w, b) ELSE w
    BY <1>7, <1>9, <1>15, <2>2
  <2>4. Readers(g, b) # {}
    BY <1>12, <1>15 DEF Base
  <2> HIDE DEF b
  <2> QED
    BY <1>1, <1>3, <1>11, <1>13, <2>3, <2>4 DEF r
<1>16. CASE w.children[p] = 0 /\ st.views[p] = 0 /\ ~IsView(g, p)
  <2>1. w.views = st.views
    BY <1>3, <1>16
  <2>2. used = w
    BY <1>7, <1>10, <2>1
  <2>3. r = IF p \in w.own THEN FreeNode(g, w, p) ELSE w
    BY <1>7, <1>9, <1>16, <2>2
  <2>4. Readers(g, p) # {}
    BY <1>12, <1>16 DEF Base
  <2> HIDE DEF p
  <2> QED
    BY <1>1, <1>3, <1>11, <1>13, <1>16, <2>1, <2>3, <2>4 DEF r, p
<1> QED
  BY <1>14, <1>15, <1>16

-----------------------------------------------------------------------------
(* Where the plan is: tensor t, step k of it.                              *)

Position(g, t, k) ==
  /\ t \in 1 .. Len(g) + 1 /\ k \in Nat \ {0}
  /\ IF t \in DOMAIN g THEN k <= 2 * Len(g[t].src) + 1 ELSE k = 1

\* the tensors that were gone through, and the uses that are left
Through(g, t, k) == {n \in DOMAIN g : n < t \/ (n = t /\ k > Len(g[n].src) + 1)}
Left(g, t, k) ==
  {u \in AllUses(g) : u[1] > t \/ (u[1] = t /\ k <= Len(g[u[1]].src) + 1 + u[2])}

\* the position after this one
NextTensor(g, t, k) == IF k <= 2 * Len(g[t].src) THEN t ELSE t + 1
NextStep(g, t, k) == IF k <= 2 * Len(g[t].src) THEN k + 1 ELSE 1

LEMMA PositionStarts ==
  ASSUME NEW g, IsGraph(g)
  PROVE  Position(g, 1, 1) /\ Through(g, 1, 1) = {} /\ Left(g, 1, 1) = AllUses(g)
<1>1. g \in Seq(Tensors)
  BY DEF IsGraph
<1>2. DOMAIN g = 1 .. Len(g) /\ Len(g) \in Nat
  BY <1>1
<1>3. \A n \in DOMAIN g : n \in Nat \ {0} /\ Len(g[n].src) \in Nat
  BY GraphTypes
<1>4. Position(g, 1, 1)
  BY <1>2, <1>3 DEF Position
<1>5. Through(g, 1, 1) = {}
  BY <1>3 DEF Through
<1>6. ASSUME NEW u \in AllUses(g) PROVE u \in Left(g, 1, 1)
  <2>1. u[1] \in DOMAIN g /\ u[2] \in 1 .. 2
    BY DEF AllUses
  <2>2. u[1] \in Nat \ {0} /\ Len(g[u[1]].src) \in Nat
    BY <1>3, <2>1
  <2>3. u[1] > 1 \/ u[1] = 1
    BY <2>2
  <2>4. 1 <= Len(g[u[1]].src) + 1 + u[2]
    BY <2>1, <2>2
  <2> QED
    BY <2>3, <2>4 DEF Left
<1> QED
  BY <1>4, <1>5, <1>6 DEF Left

LEMMA PositionEnds ==
  ASSUME NEW g, IsGraph(g), NEW t, NEW k, Position(g, t, k), t > Len(g)
  PROVE  Through(g, t, k) = DOMAIN g
<1>1. g \in Seq(Tensors)
  BY DEF IsGraph
<1>2. DOMAIN g = 1 .. Len(g) /\ Len(g) \in Nat /\ t \in 1 .. Len(g) + 1
  BY <1>1 DEF Position
<1>3. \A n \in DOMAIN g : n < t
  BY <1>2
<1> QED
  BY <1>3 DEF Through

\* before the tensor was placed
LEMMA PositionBefore ==
  ASSUME NEW g, IsGraph(g), NEW t \in DOMAIN g, NEW k, Position(g, t, k),
         k <= Len(g[t].src) + 1
  PROVE  Through(g, t, k) = 1 .. t - 1 /\ Ahead(g, Through(g, t, k), Left(g, t, k))
<1>1. DOMAIN g = 1 .. Len(g) /\ Len(g) \in Nat /\ t \in 1 .. Len(g) /\ Len(g[t].src) \in Nat
  BY GraphTypes
<1>2. k \in Nat
  BY DEF Position
<1>3. ~(k > Len(g[t].src) + 1)
  BY <1>1, <1>2
<1>4. Through(g, t, k) = {n \in DOMAIN g : n < t}
  BY <1>3 DEF Through
<1>5. {n \in 1 .. Len(g) : n < t} = 1 .. t - 1
  BY <1>1
<1>6. ASSUME NEW u \in AllUses(g) PROVE u[1] < t \/ u \in Left(g, t, k)
  <2>1. u[1] \in DOMAIN g /\ u[2] \in 1 .. 2
    BY DEF AllUses
  <2>2. u[1] \in Nat
    BY <1>1, <2>1
  <2>3. u[1] < t \/ u[1] > t \/ u[1] = t
    BY <1>1, <2>2
  <2>4. k <= Len(g[t].src) + 1 + u[2]
    BY <1>1, <1>2, <2>1
  <2> QED
    BY <2>3, <2>4 DEF Left
<1>7. \A u \in AllUses(g) : u[1] \in DOMAIN g
  BY DEF AllUses
<1> QED
  BY <1>1, <1>4, <1>5, <1>6, <1>7 DEF Ahead

\* while it uses its sources
LEMMA PositionInUses ==
  ASSUME NEW g, IsGraph(g), NEW t \in DOMAIN g, NEW k, Position(g, t, k),
         ~(k <= Len(g[t].src) + 1), NEW j, j = k - Len(g[t].src) - 1
  PROVE  /\ Through(g, t, k) = 1 .. t /\ Ahead(g, Through(g, t, k), Left(g, t, k))
         /\ j \in DOMAIN g[t].src /\ <<t, j>> \in Left(g, t, k)
<1>1. /\ DOMAIN g = 1 .. Len(g) /\ Len(g) \in Nat /\ t \in 1 .. Len(g) /\ Len(g[t].src) \in Nat
      /\ DOMAIN g[t].src = 1 .. Len(g[t].src)
  BY GraphTypes
<1>2. k \in Nat /\ k <= 2 * Len(g[t].src) + 1
  BY DEF Position
<1>3. k > Len(g[t].src) + 1 /\ j \in 1 .. Len(g[t].src) /\ k = Len(g[t].src) + 1 + j
  <2> DEFINE len == Len(g[t].src)
  <2>1. len \in Nat
    BY <1>1
  <2>2. k \in Nat /\ ~(k <= len + 1) /\ j = k - len - 1 /\ k <= 2 * len + 1
    BY <1>2
  <2> HIDE DEF len
  <2>3. k > len + 1 /\ j \in 1 .. len /\ k = len + 1 + j
    <3>1. \A m, n \in Nat : ~(m <= n + 1) /\ m <= 2 * n + 1
            => m > n + 1 /\ m - n - 1 \in 1 .. n /\ m = n + 1 + (m - n - 1)
      OBVIOUS
    <3>2. k > len + 1 /\ k - len - 1 \in 1 .. len /\ k = len + 1 + (k - len - 1)
      BY <2>1, <2>2, <3>1
    <3> QED
      BY <2>2, <3>2
  <2> QED
    BY <2>3 DEF len
<1>4. Through(g, t, k) = {n \in DOMAIN g : n < t \/ n = t}
  BY <1>3 DEF Through
<1>5. {n \in 1 .. Len(g) : n < t \/ n = t} = 1 .. t
  BY <1>1
<1>6. ASSUME NEW u \in AllUses(g) PROVE u[1] < t \/ u[1] = t \/ u \in Left(g, t, k)
  <2>1. u[1] \in DOMAIN g
    BY DEF AllUses
  <2>2. u[1] \in Nat
    BY <1>1, <2>1
  <2>3. u[1] < t \/ u[1] > t \/ u[1] = t
    BY <1>1, <2>2
  <2> QED
    BY <2>3 DEF Left
<1>7. \A u \in AllUses(g) : u[1] \in DOMAIN g
  BY DEF AllUses
<1>8. <<t, j>> \in Left(g, t, k)
  <2> DEFINE u == <<t, j>>
  <2>1. u \in AllUses(g) /\ u[1] = t /\ u[2] = j
    BY <1>1, <1>3, UsesOf
  <2> HIDE DEF u
  <2>2. k <= Len(g[t].src) + 1 + j
    BY <1>1, <1>3
  <2>3. u \in Left(g, t, k)
    BY <2>1, <2>2 DEF Left
  <2> QED
    BY <2>3 DEF u
<1> QED
  BY <1>1, <1>3, <1>4, <1>5, <1>6, <1>7, <1>8 DEF Ahead

\* What a step of the plan gets on with.
Advances(g, t, k, D, P) ==
  /\ Position(g, NextTensor(g, t, k), NextStep(g, t, k))
  /\ Through(g, NextTensor(g, t, k), NextStep(g, t, k)) = D
  /\ Left(g, NextTensor(g, t, k), NextStep(g, t, k)) = P

LEMMA PositionNext ==
  ASSUME NEW g, IsGraph(g), NEW t \in DOMAIN g, NEW k, Position(g, t, k)
  PROVE  LET D == Through(g, t, k)
             P == Left(g, t, k)
             len == Len(g[t].src)
         IN /\ k <= len => Advances(g, t, k, D, P)
            /\ k = len + 1 => Advances(g, t, k, D \cup {t}, P)
            /\ ~(k <= len + 1) => Advances(g, t, k, D, P \ {<<t, k - len - 1>>})
<1> DEFINE len == Len(g[t].src)
           D == Through(g, t, k)
           P == Left(g, t, k)
<1>1. DOMAIN g = 1 .. Len(g) /\ Len(g) \in Nat /\ t \in 1 .. Len(g) /\ len \in 0 .. 2 /\ t \in Nat
  BY GraphTypes
<1>2. k \in Nat \ {0} /\ k <= 2 * len + 1
  BY DEF Position
<1>3. \A n \in DOMAIN g : n \in Nat /\ Len(g[n].src) \in 0 .. 2
  BY GraphTypes
<1>4. \A u \in AllUses(g) : /\ u[1] \in DOMAIN g /\ u[1] \in Nat /\ u[2] \in 1 .. 2
                            /\ u[2] <= Len(g[u[1]].src) /\ Len(g[u[1]].src) \in 0 .. 2
                            /\ u = <<u[1], u[2]>>
  BY <1>3 DEF AllUses
<1>5. CASE k <= 2 * len
  <2>1. NextTensor(g, t, k) = t /\ NextStep(g, t, k) = k + 1
    BY <1>5 DEF NextTensor, NextStep
  <2>2. Position(g, t, k + 1)
    BY <1>1, <1>2, <1>5 DEF Position
  <2>3. CASE k <= len
    <3>1. \A n \in DOMAIN g : (n < t \/ (n = t /\ k + 1 > Len(g[n].src) + 1))
                                <=> (n < t \/ (n = t /\ k > Len(g[n].src) + 1))
      BY <1>1, <1>2, <1>3, <2>3
    <3>2. \A u \in AllUses(g) :
            (u[1] > t \/ (u[1] = t /\ k + 1 <= Len(g[u[1]].src) + 1 + u[2]))
              <=> (u[1] > t \/ (u[1] = t /\ k <= Len(g[u[1]].src) + 1 + u[2]))
      BY <1>1, <1>2, <1>4, <2>3
    <3>3. Through(g, t, k + 1) = D /\ Left(g, t, k + 1) = P
      BY <3>1, <3>2 DEF Through, Left
    <3>4. Advances(g, t, k, D, P)
      BY <2>1, <2>2, <3>3 DEF Advances
    <3>5. k # len + 1 /\ k <= len + 1
      BY <1>1, <1>2, <2>3
    <3> QED
      BY <3>4, <3>5
  <2>4. CASE k = len + 1
    <3>1. \A n \in DOMAIN g : (n < t \/ (n = t /\ k + 1 > Len(g[n].src) + 1))
                                <=> ((n < t \/ (n = t /\ k > Len(g[n].src) + 1)) \/ n = t)
      BY <1>1, <1>2, <1>3, <2>4
    <3>2. \A u \in AllUses(g) :
            (u[1] > t \/ (u[1] = t /\ k + 1 <= Len(g[u[1]].src) + 1 + u[2]))
              <=> (u[1] > t \/ (u[1] = t /\ k <= Len(g[u[1]].src) + 1 + u[2]))
      BY <1>1, <1>2, <1>4, <2>4
    <3>3. Through(g, t, k + 1) = D \cup {t} /\ Left(g, t, k + 1) = P
      BY <3>1, <3>2 DEF Through, Left
    <3>4. Advances(g, t, k, D \cup {t}, P)
      BY <2>1, <2>2, <3>3 DEF Advances
    <3>5. ~(k <= len) /\ k <= len + 1
      BY <1>1, <1>2, <2>4
    <3> QED
      BY <3>4, <3>5
  <2>5. CASE ~(k <= len + 1)
    <3> DEFINE j == k - len - 1
    <3>1. \A n \in DOMAIN g : (n < t \/ (n = t /\ k + 1 > Len(g[n].src) + 1))
                                <=> (n < t \/ (n = t /\ k > Len(g[n].src) + 1))
      BY <1>1, <1>2, <1>3, <2>5
    <3>2. \A u \in AllUses(g) :
            (u[1] > t \/ (u[1] = t /\ k + 1 <= Len(g[u[1]].src) + 1 + u[2]))
              <=> (u[1] > t \/ (u[1] = t /\ k <= Len(g[u[1]].src) + 1 + u[2]))
                  /\ ~(u[1] = t /\ u[2] = j)
      BY <1>1, <1>2, <1>4, <2>5
    <3>3. \A u \in AllUses(g) : u = <<t, j>> <=> u[1] = t /\ u[2] = j
      BY <1>4
    <3> HIDE DEF j
    <3>4. Through(g, t, k + 1) = D /\ Left(g, t, k + 1) = P \ {<<t, j>>}
      BY <3>1, <3>2, <3>3 DEF Through, Left
    <3>5. Advances(g, t, k, D, P \ {<<t, j>>})
      BY <2>1, <2>2, <3>4 DEF Advances
    <3>6. ~(k <= len) /\ k # len + 1
      BY <1>1, <1>2, <2>5
    <3> QED
      BY <3>5, <3>6 DEF j
  <2>6. k <= len \/ k = len + 1 \/ ~(k <= len + 1)
    BY <1>1, <1>2
  <2> QED
    BY <2>3, <2>4, <2>5, <2>6
<1>6. CASE ~(k <= 2 * len)
  <2>0. k = 2 * len + 1
    BY <1>1, <1>2, <1>6
  <2>1. NextTensor(g, t, k) = t + 1 /\ NextStep(g, t, k) = 1
    BY <1>6 DEF NextTensor, NextStep
  <2>2. Position(g, t + 1, 1)
    BY <1>1, <1>3 DEF Position
  <2>3. \A n \in DOMAIN g : (n < t + 1 \/ (n = t + 1 /\ 1 > Len(g[n].src) + 1)) <=> (n < t \/ n = t)
    BY <1>1, <1>3
  <2>4. \A u \in AllUses(g) :
          (u[1] > t + 1 \/ (u[1] = t + 1 /\ 1 <= Len(g[u[1]].src) + 1 + u[2])) <=> u[1] > t
    BY <1>1, <1>4
  <2>5. CASE k = len + 1
    <3>1. len = 0
      BY <1>1, <2>0, <2>5
    <3>2. \A n \in DOMAIN g : (n < t \/ n = t) <=> ((n < t \/ (n = t /\ k > Len(g[n].src) + 1)) \/ n = t)
      OBVIOUS
    <3>3. \A u \in AllUses(g) :
            u[1] > t <=> (u[1] > t \/ (u[1] = t /\ k <= Len(g[u[1]].src) + 1 + u[2]))
      BY <1>1, <1>4, <3>1
    <3>4. Through(g, t + 1, 1) = D \cup {t}
      BY <2>3, <3>2 DEF Through
    <3>7. Left(g, t + 1, 1) = P
      BY <2>4, <3>3 DEF Left
    <3>5. Advances(g, t, k, D \cup {t}, P)
      BY <2>1, <2>2, <3>4, <3>7 DEF Advances
    <3>6. ~(k <= len) /\ k <= len + 1
      BY <1>1, <1>2, <2>5
    <3> QED
      BY <3>5, <3>6
  <2>6. CASE k # len + 1
    <3> DEFINE j == k - len - 1
    <3>1. ~(k <= len) /\ ~(k <= len + 1) /\ j = len
      BY <1>1, <2>0, <2>6
    <3>2. \A n \in DOMAIN g : (n < t \/ n = t) <=> (n < t \/ (n = t /\ k > Len(g[n].src) + 1))
      BY <1>1, <1>2, <1>3, <3>1
    <3>3. \A u \in AllUses(g) :
            u[1] > t <=> (u[1] > t \/ (u[1] = t /\ k <= Len(g[u[1]].src) + 1 + u[2]))
                         /\ ~(u[1] = t /\ u[2] = j)
      BY <1>1, <1>2, <1>4, <2>0, <3>1
    <3>4. \A u \in AllUses(g) : u = <<t, j>> <=> u[1] = t /\ u[2] = j
      BY <1>4
    <3> HIDE DEF j
    <3>5. Through(g, t + 1, 1) = D
      BY <2>3, <3>2 DEF Through
    <3>6. Left(g, t + 1, 1) = P \ {<<t, j>>}
      BY <2>4, <3>3, <3>4 DEF Left
    <3>7. Advances(g, t, k, D, P \ {<<t, j>>})
      BY <2>1, <2>2, <3>5, <3>6 DEF Advances
    <3> QED
      BY <3>1, <3>7, <2>6 DEF j
  <2> QED
    BY <2>5, <2>6
<1> QED
  BY <1>5, <1>6

-----------------------------------------------------------------------------
(* A plan from its first step to its last.                                 *)

LEMMA PlanStarts ==
  ASSUME NEW g, IsGraph(g)
  PROVE  PlanInv(g, {}, AllUses(g), Counted(g))
<1> DEFINE s == Counted(g)
           P == AllUses(g)
<1>1. /\ s.chunks = <<>> /\ s.own = {}
      /\ s.children = [t \in DOMAIN g |-> Cardinality(Uses(g, t))]
      /\ s.views = [t \in DOMAIN g |-> Cardinality({v \in DOMAIN g : g[v].view = t})]
      /\ s.addr = [t \in DOMAIN g |-> NoAddr]
      /\ s = [chunks |-> s.chunks, own |-> s.own, children |-> s.children, views |-> s.views,
              addr |-> s.addr]
  BY DEF Counted
<1> HIDE DEF s
<1>2. \A t \in DOMAIN g : ToCome(g, P, t) = Uses(g, t)
  BY UsesOf DEF ToCome
<1>3. \A t \in DOMAIN g : OpenViews(g, P, t) = {v \in DOMAIN g : g[v].view = t}
  <2>1. \A v \in DOMAIN g : ~Spent(g, P, v)
    BY <1>2 DEF Spent
  <2> QED
    BY <2>1 DEF OpenViews
<1>4. Counts(g, P, s)
  BY <1>1, <1>2, <1>3 DEF Counts
<1>5. NoAddr \in Addresses
  BY TallocAssumption DEF NoAddr, NoChunk, Addresses
<1>6. \A t \in DOMAIN g : Cardinality(ToCome(g, P, t)) \in Nat /\ Cardinality(OpenViews(g, P, t)) \in Nat
  <2> TAKE t \in DOMAIN g
  <2>1. IsFiniteSet(ToCome(g, P, t)) /\ IsFiniteSet(OpenViews(g, P, t))
    BY ToComeIsFinite
  <2> HIDE DEF P
  <2> QED
    BY <2>1, FS_CardinalityType
<1>7. s.children \in [DOMAIN g -> Int] /\ s.views \in [DOMAIN g -> Int]
  BY <1>1, <1>2, <1>3, <1>6
<1>8. s \in States(g)
  <2>1. s.chunks \in Seq(Chunk) /\ s.addr \in [DOMAIN g -> Addresses] /\ s.own \in SUBSET DOMAIN g
    BY <1>1, <1>5
  <2> QED
    BY <1>1, <1>7, <2>1 DEF States
<1>9. Len(s.chunks) <= MaxChunks /\ Filled(g, s)
  BY <1>1, TallocAssumption DEF Filled
<1>10. GoneIsRead(g, {}, s) /\ Addressed(g, {}, s) /\ KeptApart(g, {}, s)
  BY DEF GoneIsRead, Addressed, KeptApart
<1>11. PlanInv(g, {}, P, s)
  BY <1>1, <1>4, <1>8, <1>9, <1>10 DEF PlanInv
<1> QED
  BY <1>11 DEF s

\* The invariant of a call: what is known where it is.
PlanRuns == call # NoCall =>
  /\ IsGraph(call.graph) /\ Position(call.graph, at[1], at[2])
  /\ PlanInv(call.graph, Through(call.graph, at[1], at[2]), Left(call.graph, at[1], at[2]), st)

\* What a step of the plan does with memory.
PlanMoves(g, s, r) ==
  \/ r = s
  \/ /\ NoneMissing(r)
     /\ \E t \in (DOMAIN g) \ s.own : PlacedOver(g, t, s, r) \/ PlacedFresh(g, t, s, r)
  \/ TakesBack(s, r)
  \/ ~NoneMissing(r)

LEMMA PlanGoesOn ==
  ASSUME PlanRuns, PlanStep
  PROVE  PlanRuns' /\ PlanMoves(call.graph, st, st')
<1> DEFINE g == call.graph
           t == at[1]
           k == at[2]
           len == Len(g[t].src)
           D == Through(g, t, k)
           P == Left(g, t, k)
<1>1. /\ IsGraph(g) /\ Position(g, t, k) /\ PlanInv(g, D, P, st) /\ NoneMissing(st) /\ t <= Len(g)
      /\ call' = call
  BY DEF PlanRuns, PlanStep, NoneMissing, Aborted
<1>2. t \in DOMAIN g
  <2>1. g \in Seq(Tensors)
    BY <1>1 DEF IsGraph
  <2>2. DOMAIN g = 1 .. Len(g) /\ Len(g) \in Nat /\ t \in 1 .. Len(g) + 1
    BY <1>1, <2>1 DEF Position
  <2> QED
    BY <1>1, <2>2
<1>3. at' = IF k <= 2 * len THEN <<t, k + 1>> ELSE <<t + 1, 1>>
  BY DEF PlanStep
<1>4. at'[1] = NextTensor(g, t, k) /\ at'[2] = NextStep(g, t, k)
  BY <1>3 DEF NextTensor, NextStep
<1>5. st' = IF k <= len THEN AllocateNode(g, g[t].src[k])
            ELSE IF k = len + 1 THEN AllocateNode(g, t)
            ELSE UpdateParent(g, g[t].src[k - len - 1])
  BY DEF PlanStep
<1>6. /\ k \in Nat \ {0} /\ len \in Nat /\ DOMAIN g[t].src = 1 .. len /\ DOMAIN g = 1 .. Len(g)
      /\ Len(g) \in Nat
  BY <1>1, <1>2, GraphTypes DEF Position
<1>11. (k <= len \/ k = len + 1 \/ ~(k <= len + 1)) /\ (k = len + 1 => ~(k <= len))
  <2> HIDE DEF k, len
  <2> QED
    BY <1>6
<1>7. ASSUME NEW E, NEW Q, Advances(g, t, k, E, Q), PlanInv(g, E, Q, st') PROVE PlanRuns'
  BY <1>1, <1>4, <1>7 DEF Advances, PlanRuns
<1>8. CASE k <= len
  <2>1. D = 1 .. t - 1
    BY <1>1, <1>2, <1>6, <1>8, PositionBefore
  <2>2. Placing(g, t, D, P, st) /\ k \in DOMAIN g[t].src
    BY <1>1, <1>2, <1>6, <1>8, <2>1 DEF Placing
  <2>3. st' = st
    BY <1>5, <1>8, <2>2, ParentsArePlaced
  <2>4. Advances(g, t, k, D, P)
    BY <1>1, <1>2, <1>8, PositionNext
  <2> HIDE DEF g, t, k, D, P
  <2> QED
    BY <1>1, <1>7, <2>3, <2>4 DEF PlanMoves, g
<1>9. CASE k = len + 1
  <2>1. D = 1 .. t - 1 /\ Ahead(g, D, P)
    BY <1>1, <1>2, <1>6, <1>9, PositionBefore
  <2>2. Placing(g, t, D, P, st)
    BY <1>1, <1>2, <2>1 DEF Placing
  <2>3. st' = AllocateNode(g, t)
    BY <1>5, <1>9, <1>11
  <2>4. Advances(g, t, k, D \cup {t}, P)
    BY <1>1, <1>2, <1>9, PositionNext
  <2>5. t \notin st.own
    BY <2>2, PlacingFacts
  <2> HIDE DEF g, t, k, D, P
  <2>6. /\ PlanInv(g, D \cup {t}, P, st')
        /\ \/ st' = st
           \/ NoneMissing(st') /\ (PlacedOver(g, t, st, st') \/ PlacedFresh(g, t, st, st'))
           \/ ~NoneMissing(st')
    BY <2>1, <2>2, <2>3, NodeIsPlaced
  <2>7. PlanRuns'
    BY <1>7, <2>4, <2>6
  <2>8. PlanMoves(g, st, st')
    BY <1>2, <2>5, <2>6 DEF PlanMoves
  <2> QED
    BY <2>7, <2>8 DEF g
<1>10. CASE ~(k <= len + 1)
  <2> DEFINE j == k - len - 1
             Q == P \ {<<t, j>>}
  <2>1. D = 1 .. t /\ Ahead(g, D, P) /\ j \in DOMAIN g[t].src /\ <<t, j>> \in P
    BY <1>1, <1>2, <1>10, PositionInUses
  <2>2. Using(g, t, D, P, st, j)
    BY <1>1, <1>2, <2>1 DEF Using
  <2>3. st' = UpdateParent(g, g[t].src[j])
    BY <1>5, <1>6, <1>10
  <2>4. Advances(g, t, k, D, Q)
    BY <1>1, <1>2, <1>10, PositionNext
  <2> HIDE DEF g, t, k, D, P, j
  <2>5. PlanInv(g, D, Q, st') /\ TakesBack(st, st')
    BY <2>2, <2>3, SourceIsUsed
  <2>6. PlanRuns'
    BY <1>7, <2>4, <2>5
  <2> QED
    BY <2>5, <2>6 DEF PlanMoves, g
<1> QED
  BY <1>8, <1>9, <1>10, <1>11

\* At the end every tensor has its place.
LEMMA PlanEnds ==
  ASSUME PlanRuns, call # NoCall, at[1] > Len(call.graph), ~Aborted
  PROVE  /\ IsGraph(call.graph) /\ st \in States(call.graph)
         /\ KeptApart(call.graph, DOMAIN call.graph, st)
         /\ \A t \in DOMAIN call.graph : ~IsView(call.graph, t) =>
              /\ st.addr[t].chunk \in DOMAIN st.chunks
              /\ st.addr[t].offset + call.graph[t].size <= st.chunks[st.addr[t].chunk].max_size
<1> DEFINE g == call.graph
<1>1. IsGraph(g) /\ Position(g, at[1], at[2])
  BY DEF PlanRuns
<1>2. Through(g, at[1], at[2]) = DOMAIN g
  BY <1>1, PositionEnds
<1>3. PlanInv(g, DOMAIN g, Left(g, at[1], at[2]), st)
  BY <1>2 DEF PlanRuns
<1>4. NoneMissing(st)
  BY DEF Aborted, NoneMissing
<1> HIDE DEF g
<1>5. st \in States(g) /\ KeptApart(g, DOMAIN g, st) /\ Addressed(g, DOMAIN g, st)
  BY <1>3 DEF PlanInv
<1>6. \A t \in DOMAIN g : ~IsView(g, t) =>
        /\ st.addr[t].chunk \in DOMAIN st.chunks
        /\ st.addr[t].offset + g[t].size <= st.chunks[st.addr[t].chunk].max_size
  BY <1>4, <1>5 DEF Addressed, NoneMissing
<1> QED
  BY <1>1, <1>5, <1>6 DEF g

-----------------------------------------------------------------------------
(* The plan is used for another graph.                                     *)

\* The plan that is kept: its tensors lie apart, and within the buffer if there is one.
GoodPlan ==
  LET g == plan.graph
  IN /\ IsGraph(g) /\ plan.addr \in [DOMAIN g -> Addresses] /\ KeptApart(g, DOMAIN g, plan)
     /\ \A t \in DOMAIN g : ~IsView(g, t) =>
          /\ plan.addr[t].chunk # NoChunk
          /\ buffer # NoBuffer =>
               plan.addr[t].offset + g[t].size <= ChunkSize(buffer, plan.addr[t].chunk)

\* What two graphs of the same topology have in common.
LEMMA SameShape ==
  ASSUME NEW g, IsGraph(g), NEW h, SameTopology(g, h)
  PROVE  /\ IsGraph(h) /\ DOMAIN g = DOMAIN h
         /\ \A t \in DOMAIN g :
              /\ h[t].src = g[t].src /\ h[t].view = g[t].view /\ h[t].output = g[t].output
              /\ h[t].inplace = g[t].inplace
              /\ (IsView(h, t) <=> IsView(g, t)) /\ (IsLeaf(h, t) <=> IsLeaf(g, t))
              /\ Base(h, t) = Base(g, t)
         /\ \A t \in DOMAIN g : Readers(h, t) = Readers(g, t)
<1>1. IsGraph(h) /\ DOMAIN g = DOMAIN h
  BY DEF SameTopology
<1>2. ASSUME NEW t \in DOMAIN g
      PROVE  /\ h[t].src = g[t].src /\ h[t].view = g[t].view /\ h[t].output = g[t].output
             /\ h[t].inplace = g[t].inplace
  <2>1. g[t] \in Tensors
    BY GraphTypes
  <2>2. h[t] = [g[t] EXCEPT !.size = h[t].size]
    BY DEF SameTopology
  <2> DEFINE a == g[t]
             b == h[t]
             z == h[t].size
  <2>3. a \in Tensors /\ b = [a EXCEPT !.size = z]
    BY <2>1, <2>2
  <2> HIDE DEF a, b, z
  <2>4. b.src = a.src /\ b.view = a.view /\ b.output = a.output /\ b.inplace = a.inplace
    BY <2>3 DEF Tensors
  <2> QED
    BY <2>4 DEF a, b
<1>3. \A t \in DOMAIN g : /\ (IsView(h, t) <=> IsView(g, t)) /\ (IsLeaf(h, t) <=> IsLeaf(g, t))
                          /\ Base(h, t) = Base(g, t)
  BY <1>2 DEF IsView, IsLeaf, Base
<1>4. \A n \in DOMAIN g : \A j \in DOMAIN g[n].src : Base(h, h[n].src[j]) = Base(g, g[n].src[j])
  <2> TAKE n \in DOMAIN g
  <2> TAKE j \in DOMAIN g[n].src
  <2>1. g[n].src[j] \in DOMAIN g
    BY GraphTypes
  <2>2. h[n].src = g[n].src
    BY <1>2
  <2> QED
    BY <1>3, <2>1, <2>2
<1>5. ASSUME NEW t \in DOMAIN g PROVE Readers(h, t) = Readers(g, t)
  <2>1. \A n \in DOMAIN g : (\E j \in DOMAIN h[n].src : Base(h, h[n].src[j]) = t)
                              <=> (\E j \in DOMAIN g[n].src : Base(g, g[n].src[j]) = t)
    <3> TAKE n \in DOMAIN g
    <3>1. DOMAIN h[n].src = DOMAIN g[n].src
      BY <1>2
    <3>2. \A j \in DOMAIN g[n].src : Base(h, h[n].src[j]) = Base(g, g[n].src[j])
      BY <1>4
    <3> QED
      BY <3>1, <3>2
  <2> QED
    BY <1>1, <2>1 DEF Readers
<1> QED
  BY <1>1, <1>2, <1>3, <1>5

\* A tensor that is computed or read is checked by ggml_gallocr_needs_realloc.
LEMMA PlannedFits ==
  ASSUME IsGraph(plan.graph), NEW h, SameTopology(plan.graph, h), ~NeedsRealloc(h),
         NEW t \in Owners(h)
  PROVE  t \in DOMAIN h /\ ~IsView(h, t) /\ h[t].size <= plan.graph[t].size
<1> DEFINE g == plan.graph
           In(x) == ~IsView(h, x) => h[x].size <= g[x].size
<1>0. /\ IsGraph(g) /\ IsGraph(h) /\ DOMAIN g = DOMAIN h
      /\ \A x \in DOMAIN g : /\ h[x].src = g[x].src /\ (IsView(h, x) <=> IsView(g, x))
                             /\ h[x].size \in Nat /\ g[x].size \in Nat /\ x \in Nat
  <2>1. /\ IsGraph(h) /\ DOMAIN g = DOMAIN h
        /\ \A x \in DOMAIN g : h[x].src = g[x].src /\ (IsView(h, x) <=> IsView(g, x))
    BY SameShape
  <2>2. \A x \in DOMAIN g : h[x].size \in Nat /\ g[x].size \in Nat /\ x \in Nat
    BY <2>1, GraphTypes
  <2> QED
    BY <2>1, <2>2
<1>1. t \in DOMAIN h /\ ~IsView(h, t) /\ (IsLeaf(h, t) => Readers(h, t) # {})
  BY DEF Owners
<1>2. \A n \in {x \in DOMAIN h : ~IsLeaf(h, x)} :
        /\ Fits(h, n, n)
        /\ \A j \in DOMAIN h[n].src :
             Fits(h, h[n].src[j], IF j <= Len(g[n].src) THEN g[n].src[j] ELSE 0)
  BY DEF NeedsRealloc
<1>3. ASSUME NEW x \in DOMAIN h, Fits(h, x, x) PROVE In(x)
  <2> SUFFICES ASSUME ~IsView(h, x) PROVE h[x].size <= g[x].size
    OBVIOUS
  <2>1. PlannedSize(g, x) >= h[x].size /\ PlannedSize(g, x) = g[x].size
    BY <1>0, <1>3 DEF Fits, PlannedSize
  <2> QED
    BY <1>0, <2>1
<1>4. ASSUME NEW n \in DOMAIN h, ~IsLeaf(h, n)
      PROVE  In(n) /\ \A j \in DOMAIN h[n].src : h[n].src[j] \in DOMAIN h /\ In(h[n].src[j])
  <2>1. Fits(h, n, n)
    BY <1>2, <1>4
  <2>2. ASSUME NEW j \in DOMAIN h[n].src
        PROVE  h[n].src[j] \in DOMAIN h /\ In(h[n].src[j])
    <3>1. h[n].src[j] \in DOMAIN h /\ DOMAIN h[n].src = 1 .. Len(h[n].src) /\ Len(h[n].src) \in 0 .. 2
      BY <1>0, GraphTypes
    <3>2. h[n].src = g[n].src
      BY <1>0
    <3>3. j <= Len(g[n].src)
      BY <3>1, <3>2
    <3>4. Fits(h, h[n].src[j], g[n].src[j])
      BY <1>2, <1>4, <3>3
    <3> HIDE DEF g, In
    <3> QED
      BY <1>3, <3>1, <3>2, <3>4
  <2> HIDE DEF In
  <2> QED
    BY <1>3, <2>1, <2>2
<1> HIDE DEF g
<1>5. CASE ~IsLeaf(h, t)
  BY <1>1, <1>4, <1>5 DEF g
<1>6. CASE IsLeaf(h, t)
  <2>1. PICK n \in DOMAIN h : \E j \in DOMAIN h[n].src : Base(h, h[n].src[j]) = t
    BY <1>1, <1>6 DEF Readers
  <2>2. PICK j \in DOMAIN h[n].src : Base(h, h[n].src[j]) = t
    BY <2>1
  <2>3. ~IsLeaf(h, n)
    BY <2>2 DEF IsLeaf
  <2>4. h[n].src[j] \in DOMAIN h /\ In(h[n].src[j])
    BY <1>4, <2>3
  <2>5. CASE ~IsView(h, h[n].src[j])
    BY <1>1, <2>2, <2>4, <2>5 DEF Base, g
  <2>6. CASE IsView(h, h[n].src[j])
    <3> DEFINE Views == {v \in DOMAIN h : h[v].view = t}
    <3>1. Views # {} /\ Views \subseteq Nat
      BY <1>0, <2>2, <2>4, <2>6 DEF Base
    <3>2. PICK v \in Views : \A w \in Views : v <= w
      <4> HIDE DEF Views
      <4> QED
        BY <3>1, LeastNatural
    <3>3. v \in DOMAIN h /\ h[v].view = t /\ IsView(h, v)
      BY <1>0, <1>1, GraphTypes DEF IsView
    <3>4. ~IsLeaf(h, v) /\ Base(h, h[v].src[1]) = t
      BY <1>0, <3>3 DEF IsGraph
    <3>5. 1 \in DOMAIN h[v].src
      <4>1. h[v].src \in Seq(Nat)
        BY <1>0, <3>3, GraphTypes
      <4>2. h[v].src # <<>>
        BY <3>4 DEF IsLeaf
      <4> QED
        BY <4>1, <4>2
    <3>6. h[v].src[1] \in 1 .. v - 1 /\ h[v].src[1] \in DOMAIN h /\ v \in Nat
      BY <1>0, <3>3, <3>5, GraphTypes
    <3>7. h[v].src[1] = t
      <4>1. h[v].src[1] \notin Views
        BY <3>2, <3>6
      <4> QED
        BY <3>4, <3>6, <4>1 DEF Base
    <3>8. In(t)
      BY <1>4, <3>3, <3>4, <3>5, <3>7
    <3> QED
      BY <1>1, <3>8 DEF g
  <2> QED
    BY <2>5, <2>6
<1> QED
  BY <1>5, <1>6

\* Another graph is in its place.
LEMMA PlanServes ==
  ASSUME GoodPlan, NEW h, SameTopology(plan.graph, h), ~NeedsRealloc(h),
         buffer = NoBuffer \/ \A c \in DOMAIN buffer : buffer[c] \in Nat
  PROVE  /\ IsGraph(h) /\ DOMAIN h = DOMAIN plan.graph
         /\ \A t \in Owners(h) :
              /\ plan.addr[t].chunk # NoChunk
              /\ buffer # NoBuffer =>
                   plan.addr[t].offset + h[t].size <= ChunkSize(buffer, plan.addr[t].chunk)
         /\ \A t, u \in Owners(h) :
              t < u /\ Overlap(h, plan.addr, t, u) => MayReplace(h, plan.addr, t, u)
<1> DEFINE g == plan.graph
           addr == plan.addr
<1>0. IsGraph(g) /\ addr \in [DOMAIN g -> Addresses] /\ KeptApart(g, DOMAIN g, plan)
  BY DEF GoodPlan
<1>1. /\ IsGraph(h) /\ DOMAIN g = DOMAIN h
      /\ \A t \in DOMAIN g :
           /\ h[t].src = g[t].src /\ h[t].output = g[t].output /\ h[t].inplace = g[t].inplace
           /\ (IsView(h, t) <=> IsView(g, t)) /\ (IsLeaf(h, t) <=> IsLeaf(g, t))
           /\ Readers(h, t) = Readers(g, t)
  BY <1>0, SameShape
<1>2. \A t \in Owners(h) : t \in DOMAIN g /\ ~IsView(g, t) /\ h[t].size <= g[t].size
  BY <1>0, <1>1, PlannedFits
<1>3. \A t \in DOMAIN g : /\ g[t].size \in Nat /\ h[t].size \in Nat /\ addr[t].offset \in Nat
                          /\ t \in Nat
  BY <1>0, <1>1, GraphTypes DEF Addresses
<1>4. ASSUME NEW t \in Owners(h)
      PROVE  /\ addr[t].chunk # NoChunk
             /\ buffer # NoBuffer => addr[t].offset + h[t].size <= ChunkSize(buffer, addr[t].chunk)
  <2>1. /\ addr[t].chunk # NoChunk
        /\ buffer # NoBuffer => addr[t].offset + g[t].size <= ChunkSize(buffer, addr[t].chunk)
    BY <1>2 DEF GoodPlan
  <2> SUFFICES ASSUME buffer # NoBuffer
               PROVE  addr[t].offset + h[t].size <= ChunkSize(buffer, addr[t].chunk)
    BY <2>1
  <2> DEFINE room == ChunkSize(buffer, addr[t].chunk)
             o == addr[t].offset
             a == g[t].size
             b == h[t].size
  <2>2. o + a <= room /\ b <= a /\ o \in Nat /\ a \in Nat /\ b \in Nat
    BY <1>2, <1>3, <2>1
  <2>3. room \in Int
    <3> DEFINE c == addr[t].chunk
    <3> HIDE DEF c, addr
    <3>1. ChunkSize(buffer, c) \in Int
      BY DEF ChunkSize
    <3> QED
      BY <3>1 DEF c
  <2> HIDE DEF room, o, a, b
  <2>4. o + b <= room
    BY <2>2, <2>3
  <2> QED
    BY <2>4 DEF room, o, b
<1>5. ASSUME NEW t \in Owners(h), NEW u \in Owners(h), t < u, Overlap(h, addr, t, u)
      PROVE  MayReplace(h, addr, t, u)
  <2>1. t \in DOMAIN g /\ u \in DOMAIN g /\ ~IsView(g, t) /\ ~IsView(g, u)
    BY <1>2
  <2>2. Overlap(g, addr, t, u)
    <3>1. /\ addr[t].chunk = addr[u].chunk
          /\ addr[t].offset < addr[u].offset + h[u].size /\ addr[u].offset < addr[t].offset + h[t].size
      BY <1>5 DEF Overlap
    <3>2. /\ addr[t].offset < addr[u].offset + g[u].size /\ addr[u].offset < addr[t].offset + g[t].size
      BY <1>2, <1>3, <2>1, <3>1
    <3> QED
      BY <3>1, <3>2 DEF Overlap
  <2>3. MayReplace(g, addr, t, u) /\ (u \in Readers(g, t) => \E j \in DOMAIN g[u].src : g[u].src[j] = t)
    BY <1>0, <1>5, <2>1, <2>2 DEF KeptApart, Replaces
  <2>4. ~h[t].output /\ Written(h, t) < Written(h, u)
    BY <1>1, <2>1, <2>3 DEF MayReplace, Written
  <2>5. ASSUME NEW n \in Readers(g, t)
        PROVE  n < u \/ (n = u /\ h[u].inplace /\ addr[t] = addr[u] /\ h[t].size = h[u].size)
    <3>1. CASE n < u
      BY <3>1
    <3>2. CASE n = u /\ g[u].inplace /\ addr[t] = addr[u] /\ g[t].size = g[u].size
      <4>1. PICK j \in DOMAIN g[u].src : g[u].src[j] = t
        BY <2>3, <3>2
      <4>2. h[t].size = h[u].size
        BY <2>1, <3>2, <4>1 DEF SameTopology
      <4> QED
        BY <1>1, <2>1, <3>2, <4>2
    <3> QED
      BY <2>3, <3>1, <3>2 DEF MayReplace
  <2> QED
    BY <1>1, <2>1, <2>4, <2>5 DEF MayReplace
<1> QED
  BY <1>1, <1>4, <1>5

-----------------------------------------------------------------------------
(* The inductive invariant.                                                *)

\* The graph that was allocated last: NothingOverwritten without the types.
Kept ==
  LET g == data.graph
  IN /\ \A t \in Owners(g) : Inside(t)
     /\ \A t, u \in Owners(g) :
          t < u /\ Overlap(g, data.addr, t, u) => MayReplace(g, data.addr, t, u)

AllocInv == TypeOK /\ IsGraph(graph) /\ PlanRuns /\ GoodPlan /\ Kept

LEMMA EmptyGraph ==
  IsGraph(<<>>) /\ DOMAIN <<>> = {} /\ Owners(<<>>) = {} /\ Len(<<>>) = 0
BY DEF IsGraph, Owners

\* the start of a call, with any graph
LEMMA CallStarts ==
  ASSUME NEW g, IsGraph(g)
  PROVE  Position(g, 1, 1) /\ PlanInv(g, Through(g, 1, 1), Left(g, 1, 1), Counted(g))
BY PositionStarts, PlanStarts

LEMMA InitAlloc == Init => AllocInv
<1> SUFFICES ASSUME Init PROVE AllocInv
  OBVIOUS
<1>1. /\ graph = <<>> /\ call = NoCall /\ plan = Empty /\ buffer = NoBuffer /\ data = Empty
      /\ status = "ok"
  BY DEF Init
<1>2. call.graph = <<>> /\ plan.graph = <<>> /\ plan.addr = <<>> /\ data.graph = <<>>
  BY <1>1 DEF NoCall, Empty
<1>3. TypeOK
  BY <1>1, <1>2, EmptyGraph DEF TypeOK
<1>4. GoodPlan
  <2>1. <<>> \in [{} -> Addresses]
    BY EmptyGraph
  <2>2. KeptApart(<<>>, DOMAIN <<>>, plan)
    BY EmptyGraph DEF KeptApart
  <2> QED
    BY <1>2, <2>1, <2>2, EmptyGraph DEF GoodPlan
<1> QED
  BY <1>1, <1>2, <1>3, <1>4, EmptyGraph DEF AllocInv, PlanRuns, Kept

\* The graphs a call may be made for.
LEMMA AllowedGraphs ==
  ASSUME AllocInv, NEW g \in Allowed
  PROVE  /\ IsGraph(g) /\ call = NoCall
         /\ \/ plan = Empty /\ g # <<>>
            \/ plan # Empty /\ SameTopology(plan.graph, g)
<1>1. call = NoCall
  BY DEF Allowed
<1>2. CASE plan = Empty
  BY <1>1, <1>2 DEF Allowed, AllocInv
<1>3. CASE plan # Empty
  <2>1. SameTopology(plan.graph, g)
    BY <1>1, <1>3 DEF Allowed
  <2>2. IsGraph(g)
    BY <2>1 DEF SameTopology
  <2> QED
    BY <1>1, <1>3, <2>1, <2>2
<1> QED
  BY <1>2, <1>3

LEMMA BuildKeeps ==
  ASSUME AllocInv, NEW t, Build(t)
  PROVE  AllocInv'
<1>1. /\ IsGraph(graph') /\ call = NoCall
      /\ UNCHANGED <<planning, plan, buffer, data, status>>
  BY DEF Build
<1>2. /\ call' = call /\ at' = at /\ st' = st /\ plan' = plan /\ buffer' = buffer /\ data' = data
      /\ status' = status
  BY <1>1 DEF planning
<1>3. TypeOK' /\ PlanRuns'
  BY <1>1, <1>2 DEF AllocInv, TypeOK, PlanRuns
<1>4. GoodPlan'
  BY <1>2 DEF AllocInv, GoodPlan, ChunkSize
<1>5. Kept'
  BY <1>2 DEF AllocInv, Kept, Inside, ChunkSize
<1> QED
  BY <1>1, <1>3, <1>4, <1>5 DEF AllocInv

LEMMA BeginKeeps ==
  ASSUME AllocInv, NEW g \in Allowed, NEW alloc \in BOOLEAN, Begin(g, alloc)
  PROVE  AllocInv'
<1>1. /\ call' = [graph |-> g, alloc |-> alloc] /\ at' = <<1, 1>> /\ st' = Counted(g)
      /\ data' = Empty /\ graph' = <<>> /\ plan' = plan /\ buffer' = buffer /\ status' = status
  BY DEF Begin
<1>2. IsGraph(g) /\ call'.graph = g /\ data'.graph = <<>> /\ data'.addr = <<>>
  BY <1>1, AllowedGraphs DEF Empty
<1>3. PlanRuns' /\ at'[1] \in 1 .. Len(g) + 1
  <2>1. Position(g, 1, 1) /\ PlanInv(g, Through(g, 1, 1), Left(g, 1, 1), Counted(g))
    BY <1>2, CallStarts
  <2>2. at'[1] = 1 /\ at'[2] = 1
    BY <1>1
  <2>3. PlanRuns'
    BY <1>1, <1>2, <2>1, <2>2 DEF PlanRuns
  <2> QED
    BY <2>1, <2>2, <2>3 DEF Position
<1>4. TypeOK'
  BY <1>1, <1>2, <1>3, EmptyGraph DEF AllocInv, TypeOK
<1>5. GoodPlan'
  BY <1>1 DEF AllocInv, GoodPlan, ChunkSize
<1>6. Kept'
  BY <1>2, EmptyGraph DEF Kept
<1> QED
  BY <1>1, <1>3, <1>4, <1>5, <1>6, EmptyGraph DEF AllocInv

LEMMA PlanStepKeeps ==
  ASSUME AllocInv, PlanStep
  PROVE  AllocInv'
<1>1. /\ graph' = graph /\ call' = call /\ plan' = plan /\ buffer' = buffer /\ data' = data
      /\ status' = status /\ call # NoCall
  BY DEF PlanStep
<1>2. PlanRuns'
  BY PlanGoesOn DEF AllocInv
<1>3. at'[1] \in 1 .. Len(call.graph) + 1
  BY <1>1, <1>2 DEF PlanRuns, Position
<1>4. TypeOK'
  BY <1>1, <1>3 DEF AllocInv, TypeOK
<1>5. GoodPlan'
  BY <1>1 DEF AllocInv, GoodPlan, ChunkSize
<1>6. Kept'
  BY <1>1 DEF AllocInv, Kept, Inside, ChunkSize
<1> QED
  BY <1>1, <1>2, <1>4, <1>5, <1>6 DEF AllocInv

LEMMA AllocPlannedKeeps ==
  ASSUME AllocInv, NEW g \in Allowed, AllocPlanned(g)
  PROVE  AllocInv'
<1>1. /\ graph' = <<>> /\ call' = call /\ at' = at /\ st' = st /\ plan' = plan /\ buffer' = buffer
      /\ ~NeedsRealloc(g)
      /\ status' = IF buffer' = NoBuffer THEN "crashed" ELSE "ok"
      /\ data' = IF buffer' = NoBuffer THEN Empty ELSE [graph |-> g, addr |-> plan.addr]
  BY DEF AllocPlanned, InitTensors, planning
<1>2. IsGraph(g) /\ call = NoCall
  BY AllowedGraphs
<1>3. plan # Empty /\ SameTopology(plan.graph, g)
  <2> SUFFICES ASSUME plan = Empty PROVE FALSE
    BY AllowedGraphs
  <2>1. g # <<>>
    BY AllowedGraphs
  <2>2. Len(plan.graph) = Len(g) /\ plan.graph = <<>>
    BY <1>1 DEF NeedsRealloc, Empty
  <2>3. g \in Seq(Tensors)
    BY <1>2 DEF IsGraph
  <2> QED
    BY <2>1, <2>2, <2>3
<1>4. /\ DOMAIN g = DOMAIN plan.graph
      /\ \A t \in Owners(g) :
           /\ plan.addr[t].chunk # NoChunk
           /\ buffer # NoBuffer =>
                plan.addr[t].offset + g[t].size <= ChunkSize(buffer, plan.addr[t].chunk)
      /\ \A t, u \in Owners(g) :
           t < u /\ Overlap(g, plan.addr, t, u) => MayReplace(g, plan.addr, t, u)
  BY <1>1, <1>3, PlanServes DEF AllocInv, TypeOK
<1>5. GoodPlan'
  BY <1>1 DEF AllocInv, GoodPlan, ChunkSize
<1>6. PlanRuns'
  BY <1>1, <1>2 DEF PlanRuns
<1>7. CASE buffer = NoBuffer
  <2>1. data' = Empty /\ status' = "crashed"
    BY <1>1, <1>7
  <2>2. data'.graph = <<>> /\ data'.addr = <<>>
    BY <2>1 DEF Empty
  <2>3. TypeOK'
    BY <1>1, <1>2, <2>1, <2>2, EmptyGraph DEF AllocInv, TypeOK
  <2>4. Kept'
    BY <2>2, EmptyGraph DEF Kept
  <2> QED
    BY <1>1, <1>5, <1>6, <2>3, <2>4, EmptyGraph DEF AllocInv
<1>8. CASE buffer # NoBuffer
  <2>1. data' = [graph |-> g, addr |-> plan.addr] /\ status' = "ok"
    BY <1>1, <1>8
  <2>2. data'.graph = g /\ data'.addr = plan.addr
    BY <2>1
  <2>3. TypeOK'
    <3>1. \A t \in DOMAIN plan.graph : plan.addr[t].chunk \in 0 .. MaxChunks /\ plan.addr[t].offset \in Nat
      BY DEF AllocInv, TypeOK
    <3>2. DOMAIN plan.addr = DOMAIN plan.graph
      BY DEF AllocInv, TypeOK
    <3>3. \A x \in {plan, data}' :
            /\ DOMAIN x.addr = DOMAIN x.graph
            /\ \A t \in DOMAIN x.graph : x.addr[t].chunk \in 0 .. MaxChunks /\ x.addr[t].offset \in Nat
      BY <1>1, <1>4, <2>2, <3>1, <3>2
    <3>4. buffer' = NoBuffer \/ \A c \in DOMAIN buffer' : buffer'[c] \in Nat
      BY <1>1 DEF AllocInv, TypeOK
    <3>5. IsGraph(call.graph)
      BY DEF AllocInv, TypeOK
    <3> QED
      BY <1>1, <1>2, <1>8, <2>1, <2>2, <3>3, <3>4, <3>5 DEF TypeOK
  <2>4. Kept'
    BY <1>1, <1>4, <1>8, <2>2 DEF Kept, Inside, ChunkSize
  <2> QED
    BY <1>1, <1>5, <1>6, <2>3, <2>4, EmptyGraph DEF AllocInv
<1> QED
  BY <1>7, <1>8

LEMMA FinishKeeps ==
  ASSUME AllocInv, NEW enough \in BOOLEAN, Finish(enough)
  PROVE  AllocInv'
<1> DEFINE g == call.graph
           sizes == [c \in DOMAIN st.chunks |-> st.chunks[c].max_size]
<1>1. /\ call # NoCall /\ at[1] > Len(g) /\ ~Aborted
      /\ plan' = [graph |-> g, addr |-> st.addr] /\ call' = NoCall /\ graph' = graph
      /\ buffer' = NewBuffer(sizes, enough)
      /\ status' \in {"ok", "failed", "crashed"}
      /\ \/ data' = data
         \/ buffer' # NoBuffer /\ data' = [graph |-> g, addr |-> st.addr] /\ status' = "ok"
         \/ data' = Empty
  BY DEF Finish, InitTensors
<1>2. /\ IsGraph(g) /\ st \in States(g) /\ KeptApart(g, DOMAIN g, st)
      /\ \A t \in DOMAIN g : ~IsView(g, t) =>
           /\ st.addr[t].chunk \in DOMAIN st.chunks
           /\ st.addr[t].offset + g[t].size <= st.chunks[st.addr[t].chunk].max_size
  BY <1>1, PlanEnds DEF AllocInv
<1>3. data = Empty
  BY <1>1 DEF AllocInv, TypeOK
<1> HIDE DEF g
<1>4. st.addr \in [DOMAIN g -> Addresses] /\ st.chunks \in Seq(Chunk)
  BY <1>2 DEF States
<1>5. DOMAIN sizes = DOMAIN st.chunks /\ \A c \in DOMAIN st.chunks : sizes[c] = st.chunks[c].max_size /\ sizes[c] \in Nat
  BY <1>4 DEF Chunk
<1>6. plan'.graph = g /\ plan'.addr = st.addr
  BY <1>1
<1> HIDE DEF sizes
<1>7. /\ buffer' = NoBuffer \/ \A c \in DOMAIN sizes : sizes[c] <= ChunkSize(buffer', c)
      /\ buffer' = NoBuffer \/ \A c \in DOMAIN buffer' : buffer'[c] \in Nat
  <2>1. CASE buffer # NoBuffer /\ \A c \in DOMAIN sizes : sizes[c] <= ChunkSize(buffer, c)
    <3>1. buffer' = buffer
      BY <1>1, <2>1 DEF NewBuffer
    <3> QED
      BY <2>1, <3>1 DEF ChunkSize, AllocInv, TypeOK
  <2>2. CASE ~(buffer # NoBuffer /\ \A c \in DOMAIN sizes : sizes[c] <= ChunkSize(buffer, c))
    <3>1. buffer' = sizes \/ buffer' = NoBuffer
      BY <1>1, <2>2 DEF NewBuffer
    <3> QED
      BY <1>5, <3>1 DEF ChunkSize
  <2> QED
    BY <2>1, <2>2
<1>8. ASSUME NEW t \in DOMAIN g, ~IsView(g, t)
      PROVE  /\ st.addr[t].chunk # NoChunk
             /\ buffer' # NoBuffer =>
                  st.addr[t].offset + g[t].size <= ChunkSize(buffer', st.addr[t].chunk)
  <2> DEFINE c == st.addr[t].chunk
             room == ChunkSize(buffer', c)
             o == st.addr[t].offset
             z == g[t].size
             m == sizes[c]
  <2>1. c \in DOMAIN st.chunks /\ o + z <= m /\ m \in Nat /\ o \in Nat /\ z \in Nat
    BY <1>2, <1>4, <1>5, <1>8, GraphTypes DEF Addresses
  <2>2. c # NoChunk
    BY <1>4, <2>1 DEF NoChunk
  <2>3. ASSUME buffer' # NoBuffer PROVE o + z <= room
    <3>1. m <= room
      BY <1>5, <1>7, <2>1, <2>3
    <3>2. room \in Int
      <4>1. \A d \in DOMAIN buffer' : buffer'[d] \in Nat
        BY <1>7, <2>3
      <4> HIDE DEF c
      <4> QED
        BY <4>1 DEF ChunkSize
    <3> HIDE DEF room, o, z, m
    <3> QED
      BY <2>1, <3>1, <3>2
  <2> QED
    BY <2>2, <2>3
<1>9. GoodPlan'
  <2>1. KeptApart(g, DOMAIN g, plan')
    BY <1>2, <1>6 DEF KeptApart
  <2> QED
    BY <1>2, <1>4, <1>6, <1>8, <2>1 DEF GoodPlan
<1>10. \A t \in DOMAIN g : st.addr[t].chunk \in 0 .. MaxChunks /\ st.addr[t].offset \in Nat
  BY <1>4 DEF Addresses
<1>11. IsGraph(call'.graph) /\ PlanRuns'
  BY <1>1, EmptyGraph DEF NoCall, PlanRuns
<1>12. CASE data' = Empty
  <2>1. data'.graph = <<>> /\ data'.addr = <<>>
    BY <1>12 DEF Empty
  <2>2. Kept'
    BY <2>1, EmptyGraph DEF Kept
  <2>3. TypeOK'
    BY <1>1, <1>2, <1>4, <1>6, <1>7, <1>10, <1>11, <1>12, <2>1, EmptyGraph DEF TypeOK
  <2> QED
    BY <1>1, <1>9, <1>11, <2>2, <2>3 DEF AllocInv
<1>13. CASE buffer' # NoBuffer /\ data' = [graph |-> g, addr |-> st.addr] /\ status' = "ok"
  <2>1. data'.graph = g /\ data'.addr = st.addr
    BY <1>13
  <2>2. \A t \in Owners(g) : t \in DOMAIN g /\ ~IsView(g, t)
    BY DEF Owners
  <2>3. Kept'
    <3>1. \A t \in Owners(g) : Inside(t)'
      BY <1>8, <1>13, <2>1, <2>2 DEF Inside
    <3>2. \A t, u \in Owners(g) : t < u /\ Overlap(g, st.addr, t, u) => MayReplace(g, st.addr, t, u)
      BY <1>2, <2>2 DEF KeptApart, Replaces
    <3> QED
      BY <2>1, <3>1, <3>2 DEF Kept
  <2>4. TypeOK'
    BY <1>1, <1>2, <1>4, <1>6, <1>7, <1>10, <1>11, <1>13, <2>1 DEF TypeOK
  <2> QED
    BY <1>1, <1>9, <1>11, <2>3, <2>4 DEF AllocInv
<1> QED
  BY <1>1, <1>3, <1>12, <1>13

LEMMA NextAlloc == AllocInv /\ [Next]_vars => AllocInv'
<1> SUFFICES ASSUME AllocInv, [Next]_vars PROVE AllocInv'
  OBVIOUS
<1>1. CASE UNCHANGED vars
  <2>1. /\ graph' = graph /\ call' = call /\ at' = at /\ st' = st /\ plan' = plan
        /\ buffer' = buffer /\ data' = data /\ status' = status
    BY <1>1 DEF vars, planning
  <2>2. GoodPlan' /\ Kept'
    BY <2>1 DEF AllocInv, GoodPlan, Kept, Inside, ChunkSize
  <2>3. TypeOK' /\ PlanRuns' /\ IsGraph(graph')
    BY <2>1 DEF AllocInv, TypeOK, PlanRuns
  <2> QED
    BY <2>2, <2>3 DEF AllocInv
<1>2. CASE \E t \in NextTensors(graph) : Build(t)
  BY <1>2, BuildKeeps
<1>3. CASE \E g \in Allowed : AllocPlanned(g) \/ \E alloc \in BOOLEAN : Begin(g, alloc)
  BY <1>3, AllocPlannedKeeps, BeginKeeps
<1>4. CASE PlanStep
  BY <1>4, PlanStepKeeps
<1>5. CASE \E enough \in BOOLEAN : Finish(enough)
  BY <1>5, FinishKeeps
<1> QED
  BY <1>1, <1>2, <1>3, <1>4, <1>5 DEF Next

-----------------------------------------------------------------------------
(* The theorems.                                                           *)

\* The invariant that everything else follows from: the types, what is known in the
\* middle of a plan, and what is kept of it.
THEOREM AllocatorInvariant == Spec => []AllocInv
<1>1. AllocInv /\ [Next]_vars => AllocInv'
  BY NextAlloc
<1> QED
  BY <1>1, InitAlloc, PTL DEF Spec

\* For every graph that ggml_build_forward_expand can make, any sizes, and any number
\* and size of chunks: when the memory that was planned from the counters of children
\* and views is used, for the graph it was planned for or a later one that
\* ggml_gallocr_needs_realloc lets through, each tensor that has memory of its own lies in
\* the buffer, and none is overwritten before its last reader, or at all if it is itself an
\* output.  Nothing is said of an output that is a view: its base is freed.
THEOREM NothingOverwrittenHolds == Spec => []NothingOverwritten
<1>1. AllocInv => NothingOverwritten
  BY DEF AllocInv, Kept, NothingOverwritten
<1> QED
  BY <1>1, AllocatorInvariant, PTL

\* the blocks of a chunk are apart from each other, in cells too
LEMMA ApartCells ==
  ASSUME NEW a, NEW b, a.offset \in Nat, b.offset \in Nat, a.size \in Nat, b.size \in Nat,
         End(a) <= b.offset \/ End(b) <= a.offset
  PROVE  Cells(a) \cap Cells(b) = {}
<1>1. End(a) \in Nat /\ End(b) \in Nat
  BY DEF End
<1>2. \A x : ~(x \in a.offset .. End(a) - 1 /\ x \in b.offset .. End(b) - 1)
  BY <1>1
<1> QED
  BY <1>2 DEF Cells

\* While memory is planned, every cell of a chunk is in one free block or in one live
\* tensor, and neighbouring free blocks are one.
THEOREM EveryCellOnceHolds == Spec => []EveryCellOnce
<1>1. AllocInv => EveryCellOnce
  <2> SUFFICES ASSUME AllocInv, call # NoCall, NEW c \in DOMAIN st.chunks
               PROVE  LET free == st.chunks[c].free
                          blocks == {Block([chunk |-> c, offset |-> b.offset], b.size, 0) : b \in free}
                                    \cup {b \in Live : b.chunk = c}
                      IN /\ \A a, b \in blocks : a # b => Cells(a) \cap Cells(b) = {}
                         /\ \A a \in blocks : a.offset = 0 \/ \E b \in blocks : End(b) = a.offset
                         /\ \E a \in blocks : End(a) >= MaxChunkSize
                         /\ \A a, b \in free : End(a) # b.offset
    BY DEF EveryCellOnce
  <2> DEFINE g == call.graph
             free == st.chunks[c].free
             held == Held(g, st, c)
             As(b) == Block([chunk |-> c, offset |-> b.offset], b.size, 0)
             blocks == {As(b) : b \in free} \cup {b \in Live : b.chunk = c}
  <2>1. Tiles(free, held)
    BY DEF AllocInv, PlanRuns, PlanInv, Filled
  <2>2. {b \in Live : b.chunk = c} = held
    <3>1. Live = {Block(st.addr[t], g[t].size, t) : t \in st.own}
      BY DEF Live
    <3>2. \A t \in st.own : Block(st.addr[t], g[t].size, t).chunk = st.addr[t].chunk
      BY BlockFields
    <3> QED
      BY <3>1, <3>2 DEF Held
  <2>3. \A b \in free : As(b).offset = b.offset /\ As(b).size = b.size /\ End(As(b)) = End(b)
    BY DEF Block, End
  <2> HIDE DEF g, free, held, As
  <2>4. blocks = {As(b) : b \in free} \cup held
    BY <2>2
  <2> HIDE DEF blocks
  <2>5. \A a \in blocks : (\E x \in free : a = As(x)) \/ a \in held
    BY <2>4
  <2>6. \A b \in free \cup held : b.offset \in Nat /\ b.size \in Nat \ {0}
    BY <2>1 DEF Tiles, Solid, FreeBlock
  <2>7. ASSUME NEW a \in blocks, NEW b \in blocks, a # b PROVE Cells(a) \cap Cells(b) = {}
    <3>1. /\ a.offset \in Nat /\ b.offset \in Nat /\ a.size \in Nat /\ b.size \in Nat
      BY <2>3, <2>5, <2>6
    <3>2. \A x \in free, y \in free : x # y => End(x) <= y.offset \/ End(y) <= x.offset
      BY <2>1 DEF Tiles, Apart
    <3>3. \A x \in free, y \in held : End(x) <= y.offset \/ End(y) <= x.offset
      BY <2>1 DEF Tiles, Apart
    <3>4. \A x \in held, y \in held : x # y => End(x) <= y.offset \/ End(y) <= x.offset
      BY <2>1 DEF Tiles, Apart
    <3>5. CASE a \in held /\ b \in held
      BY <2>7, <3>1, <3>4, <3>5, ApartCells
    <3>6. CASE a \in held /\ \E y \in free : b = As(y)
      BY <2>3, <3>1, <3>3, <3>6, ApartCells
    <3>7. CASE b \in held /\ \E x \in free : a = As(x)
      BY <2>3, <3>1, <3>3, <3>7, ApartCells
    <3>8. CASE (\E x \in free : a = As(x)) /\ (\E y \in free : b = As(y))
      <4>1. PICK x \in free, y \in free : a = As(x) /\ b = As(y)
        BY <3>8
      <4>2. x # y
        BY <2>7, <4>1
      <4>3. End(x) <= y.offset \/ End(y) <= x.offset
        BY <3>2, <4>2
      <4>4. End(a) <= b.offset \/ End(b) <= a.offset
        BY <2>3, <4>1, <4>3
      <4> QED
        BY <3>1, <4>4, ApartCells
    <3> QED
      BY <2>5, <3>5, <3>6, <3>7, <3>8
  <2>8. ASSUME NEW a \in blocks PROVE a.offset = 0 \/ \E b \in blocks : End(b) = a.offset
    <3>1. PICK x \in free \cup held : x.offset = a.offset
      BY <2>3, <2>5
    <3>2. x.offset = 0 \/ \E y \in free \cup held : End(y) = x.offset
      BY <2>1 DEF Tiles
    <3>3. \A y \in free \cup held : \E b \in blocks : End(b) = End(y)
      BY <2>3, <2>4
    <3> QED
      BY <3>1, <3>2, <3>3
  <2>9. \E a \in blocks : End(a) >= MaxChunkSize
    <3>1. PICK x \in free \cup held : End(x) >= MaxChunkSize
      BY <2>1 DEF Tiles
    <3>2. \E b \in blocks : End(b) = End(x)
      BY <2>3, <2>4
    <3> QED
      BY <3>1, <3>2
  <2>10. ASSUME NEW a \in free, NEW b \in free PROVE End(a) # b.offset
    <3>1. CASE a # b
      BY <2>1, <3>1 DEF Tiles
    <3>2. CASE a = b
      BY <2>6, <3>2 DEF End
    <3> QED
      BY <3>1, <3>2
  <2> QED
    BY <2>7, <2>8, <2>9, <2>10 DEF blocks, As, free
<1> QED
  BY <1>1, AllocatorInvariant, PTL

-----------------------------------------------------------------------------
(* What the planner does is what AllocatorContract promises.               *)

LiveOf(g, s) == {Block(s.addr[t], g[t].size, t) : t \in s.own}
SizesOf(s) == [c \in DOMAIN s.chunks |-> s.chunks[c].max_size]

\* what the contract says of memory new that is given out
SizeIn(a, c) == IF c \in DOMAIN a THEN a[c] ELSE 0
Gave(L, a, M, b, new) ==
  /\ new \in M \ L /\ M = L \cup {new}
  /\ \A other \in L : ~(/\ new.chunk = other.chunk
                        /\ new.offset < other.offset + other.size
                        /\ other.offset < new.offset + new.size)
  /\ new.chunk \in 1 .. Len(a) + 1
  /\ Len(b) = IF new.chunk > Len(a) THEN new.chunk ELSE Len(a)
  /\ \A c \in DOMAIN b :
       LET end == new.offset + new.size
       IN b[c] = IF c = new.chunk /\ end > SizeIn(a, c) THEN end ELSE SizeIn(a, c)

LEMMA SizesAre ==
  ASSUME NEW g, NEW s \in States(g)
  PROVE  /\ SizesOf(s) \in Seq(Nat) /\ Len(SizesOf(s)) = Len(s.chunks)
         /\ DOMAIN SizesOf(s) = DOMAIN s.chunks /\ s.chunks \in Seq(Chunk)
         /\ \A c \in DOMAIN s.chunks : SizesOf(s)[c] = s.chunks[c].max_size /\ s.chunks[c].max_size \in Nat
<1>1. s.chunks \in Seq(Chunk)
  BY DEF States
<1>2. DOMAIN s.chunks = 1 .. Len(s.chunks) /\ Len(s.chunks) \in Nat
  BY <1>1
<1>3. \A c \in DOMAIN s.chunks : s.chunks[c].max_size \in Nat
  BY <1>1 DEF Chunk
<1>4. SizesOf(s) \in [1 .. Len(s.chunks) -> Nat]
  BY <1>2, <1>3 DEF SizesOf
<1>5. \A c \in DOMAIN s.chunks : SizesOf(s)[c] = s.chunks[c].max_size
  BY DEF SizesOf
<1> HIDE DEF SizesOf
<1>6. SizesOf(s) \in Seq(Nat) /\ DOMAIN SizesOf(s) = 1 .. Len(s.chunks)
  BY <1>2, <1>4
<1>7. Len(SizesOf(s)) = Len(s.chunks)
  BY <1>2, <1>6
<1> QED
  BY <1>1, <1>2, <1>3, <1>5, <1>6, <1>7

LEMMA FreshIsGiven ==
  ASSUME NEW g, IsGraph(g), NEW s \in States(g), NEW r \in States(g),
         NEW t \in (DOMAIN g) \ s.own, PlacedFresh(g, t, s, r)
  PROVE  \E new : Gave(LiveOf(g, s), SizesOf(s), LiveOf(g, r), SizesOf(r), new)
<1>1. PICK res : GivesOut(g, s, t, res) /\ r = Placed(s, t, res)
  BY DEF PlacedFresh
<1> DEFINE new == Block(res.addr, g[t].size, t)
           L == LiveOf(g, s)
           M == LiveOf(g, r)
           a == SizesOf(s)
           b == SizesOf(r)
<1>2. r.own = s.own \cup {t} /\ r.addr = [s.addr EXCEPT ![t] = res.addr] /\ r.chunks = res.chunks
  BY <1>1 DEF Placed
<1>3. r.addr[t] = res.addr /\ \A u \in s.own : r.addr[u] = s.addr[u]
  BY <1>2 DEF States
<1>4. M = L \cup {new}
  BY <1>2, <1>3 DEF LiveOf
<1>5. new \notin L
  BY BlockFields DEF LiveOf
<1>6. /\ new.chunk = res.addr.chunk /\ new.offset = res.addr.offset /\ new.size = g[t].size
      /\ End(new) = new.offset + new.size
  BY BlockFields
<1>7. new.offset \in Nat /\ new.size \in Nat
  BY <1>3, <1>6, GraphTypes DEF States, Addresses
<1>8. ASSUME NEW other \in L
      PROVE  ~(/\ new.chunk = other.chunk
               /\ new.offset < other.offset + other.size
               /\ other.offset < new.offset + new.size)
  <2>1. PICK u \in s.own : other = Block(s.addr[u], g[u].size, u)
    BY DEF LiveOf
  <2>2. /\ other.chunk = s.addr[u].chunk /\ other.offset = s.addr[u].offset /\ other.size = g[u].size
        /\ End(other) = other.offset + other.size
    BY <2>1, BlockFields
  <2>3. u \in DOMAIN g /\ other.offset \in Nat /\ other.size \in Nat
    BY <2>2, GraphTypes DEF States, Addresses
  <2>4. new.chunk = other.chunk => Apart(other, new)
    BY <1>1, <2>1, <2>2 DEF GivesOut, ApartFromHeld
  <2> HIDE DEF new
  <2> QED
    BY <1>6, <1>7, <2>2, <2>3, <2>4 DEF Apart
<1>9. /\ Len(a) = Len(s.chunks) /\ Len(b) = Len(r.chunks) /\ DOMAIN b = DOMAIN r.chunks
      /\ \A c \in DOMAIN r.chunks : b[c] = r.chunks[c].max_size
      /\ DOMAIN a = DOMAIN s.chunks /\ \A c \in DOMAIN s.chunks : a[c] = s.chunks[c].max_size /\ a[c] \in Nat
  BY SizesAre
<1> HIDE DEF new, L, M, a, b
<1>10. new.chunk \in 1 .. Len(a) + 1 /\ Len(b) = IF new.chunk > Len(a) THEN new.chunk ELSE Len(a)
  BY <1>1, <1>2, <1>6, <1>9 DEF GivesOut
<1>11. ASSUME NEW c \in DOMAIN b
       PROVE  LET end == new.offset + new.size
              IN b[c] = IF c = new.chunk /\ end > SizeIn(a, c) THEN end ELSE SizeIn(a, c)
  <2> DEFINE Had == IF c \in DOMAIN s.chunks THEN s.chunks[c].max_size ELSE 0
  <2>1. res.chunks[c].max_size = IF c = res.addr.chunk THEN Higher(End(new), Had) ELSE Had
    BY <1>1, <1>2, <1>9 DEF GivesOut, new
  <2>2. SizeIn(a, c) = Had /\ Had \in Nat
    BY <1>9 DEF SizeIn
  <2> HIDE DEF Had
  <2>3. b[c] = IF c = new.chunk THEN Higher(End(new), Had) ELSE Had
    BY <1>2, <1>6, <1>9, <2>1
  <2> QED
    BY <1>6, <1>7, <2>2, <2>3 DEF Higher
<1>12. Gave(L, a, M, b, new)
  BY <1>4, <1>5, <1>8, <1>10, <1>11 DEF Gave
<1> QED
  BY <1>12 DEF L, M, a, b

\* memory is passed on
LEMMA OverIsPassedOn ==
  ASSUME NEW g, NEW s \in States(g), NEW r, NEW t \in (DOMAIN g) \ s.own, PlacedOver(g, t, s, r)
  PROVE  /\ SizesOf(r) = SizesOf(s)
         /\ \E x \in LiveOf(g, s) \ LiveOf(g, r) : \E new \in LiveOf(g, r) \ LiveOf(g, s) :
              /\ new.chunk = x.chunk /\ new.offset = x.offset /\ new.size = x.size
              /\ LiveOf(g, r) = (LiveOf(g, s) \ {x}) \cup {new}
<1>1. PICK j, p : MayTakeOver(g, t, s, j, p) /\ r = PassedOn(s, t, p)
  BY DEF PlacedOver
<1> DEFINE x == Block(s.addr[p], g[p].size, p)
           new == Block(s.addr[p], g[t].size, t)
<1>2. p \in s.own /\ p # t /\ g[p].size = g[t].size
  BY <1>1 DEF MayTakeOver
<1>3. /\ r.own = (s.own \ {p}) \cup {t} /\ r.addr = [s.addr EXCEPT ![t] = s.addr[p]]
      /\ r.chunks = s.chunks
  BY <1>1 DEF PassedOn
<1>4. r.addr[t] = s.addr[p] /\ \A u \in s.own : r.addr[u] = s.addr[u]
  BY <1>3 DEF States
<1>5. new.chunk = x.chunk /\ new.offset = x.offset /\ new.size = x.size
  BY <1>2, BlockFields
<1>6. \A u \in s.own : u # p => Block(s.addr[u], g[u].size, u) # x
  BY BlockFields
<1>7. LiveOf(g, r) = (LiveOf(g, s) \ {x}) \cup {new}
  BY <1>2, <1>3, <1>4, <1>6 DEF LiveOf
<1>8. new \notin LiveOf(g, s) /\ x # new
  BY <1>2, BlockFields DEF LiveOf
<1>9. x \in LiveOf(g, s)
  BY <1>2 DEF LiveOf
<1>10. SizesOf(r) = SizesOf(s)
  BY <1>3 DEF SizesOf
<1> HIDE DEF x, new
<1> QED
  BY <1>5, <1>7, <1>8, <1>9, <1>10

\* memory is taken back
LEMMA TakenBackOnce ==
  ASSUME NEW g, NEW s \in States(g), NEW r \in States(g), TakesBack(s, r)
  PROVE  /\ SizesOf(r) = SizesOf(s)
         /\ \/ LiveOf(g, r) = LiveOf(g, s)
            \/ \E x \in LiveOf(g, s) \ LiveOf(g, r) : LiveOf(g, r) = LiveOf(g, s) \ {x}
<1>1. SizesOf(r) = SizesOf(s)
  <2>1. /\ DOMAIN s.chunks = 1 .. Len(s.chunks) /\ DOMAIN r.chunks = 1 .. Len(r.chunks)
    BY DEF States
  <2>2. DOMAIN r.chunks = DOMAIN s.chunks
    BY <2>1 DEF TakesBack
  <2>3. \A c \in DOMAIN s.chunks : r.chunks[c].max_size = s.chunks[c].max_size
    BY DEF TakesBack
  <2> QED
    BY <2>2, <2>3 DEF SizesOf
<1>2. CASE r.own = s.own
  <2>1. LiveOf(g, r) = LiveOf(g, s)
    BY <1>2 DEF LiveOf, TakesBack
  <2> QED
    BY <1>1, <2>1
<1>3. CASE r.own # s.own
  <2>1. PICK b \in s.own : r.own = s.own \ {b}
    BY <1>3 DEF TakesBack
  <2> DEFINE x == Block(s.addr[b], g[b].size, b)
  <2>2. \A u \in s.own : u # b => Block(s.addr[u], g[u].size, u) # x
    BY BlockFields
  <2>3. r.addr = s.addr
    BY DEF TakesBack
  <2>4. LiveOf(g, r) = LiveOf(g, s) \ {x} /\ x \in LiveOf(g, s)
    BY <2>1, <2>2, <2>3 DEF LiveOf
  <2> HIDE DEF x
  <2> QED
    BY <1>1, <2>4
<1> QED
  BY <1>2, <1>3

LEMMA LiveInCall ==
  /\ call = NoCall => Live = {}
  /\ call # NoCall => Live = LiveOf(call.graph, st)
BY DEF Live, LiveOf

\* Live memory and the sizes of the chunks, as the contract sees them.
Sizes == IF call = NoCall THEN <<>> ELSE [c \in DOMAIN st.chunks |-> st.chunks[c].max_size]

LEMMA ContractInit == Init => Allocator!Init
BY DEF Init, Allocator!Init, Live

LEMMA ContractStep ==
  ASSUME AllocInv, AllocInv', ~Aborted', [Next]_vars
  PROVE  [Allocator!Next]_(Allocator!vars)
<1>1. ASSUME Live' = Live, Sizes' = Sizes PROVE UNCHANGED Allocator!vars
  BY <1>1 DEF Allocator!vars, Sizes
<1>2. ASSUME Live' = {}, Sizes' = <<>> PROVE Allocator!Next
  BY <1>2 DEF Allocator!Next, Allocator!Restart, Sizes
<1>3. CASE call' = call /\ st' = st
  <2>1. Live' = Live /\ Sizes' = Sizes
    BY <1>3 DEF Live, Sizes
  <2> QED
    BY <1>1, <2>1
<1>4. CASE \E g \in Allowed : \E alloc \in BOOLEAN : Begin(g, alloc)
  <2>1. PICK g \in Allowed : \E alloc \in BOOLEAN : Begin(g, alloc)
    BY <1>4
  <2>2. st'.own = {} /\ st'.chunks = <<>>
    BY <2>1 DEF Begin, Counted
  <2>3. Live' = {}
    BY <2>2 DEF Live
  <2>4. Sizes' = <<>>
    BY <2>2 DEF Sizes
  <2> QED
    BY <1>2, <2>3, <2>4
<1>5. CASE \E enough \in BOOLEAN : Finish(enough)
  <2>1. call' = NoCall
    BY <1>5 DEF Finish
  <2>2. Live' = {} /\ Sizes' = <<>>
    BY <2>1 DEF Live, Sizes
  <2> QED
    BY <1>2, <2>2
<1>6. CASE PlanStep
  <2> DEFINE g == call.graph
             L == LiveOf(g, st)
             M == LiveOf(g, st')
             a == SizesOf(st)
             b == SizesOf(st')
  <2>1. call # NoCall /\ call' = call
    BY <1>6 DEF PlanStep
  <2>2. IsGraph(g) /\ st \in States(g) /\ st' \in States(g)
    BY <2>1 DEF AllocInv, PlanRuns, PlanInv
  <2>3. Live = L /\ Live' = M
    BY <2>1 DEF Live, LiveOf
  <2>4. Sizes = a /\ Sizes' = b
    BY <2>1 DEF Sizes, SizesOf
  <2>5. PlanMoves(g, st, st')
    BY <1>6, PlanGoesOn DEF AllocInv
  <2>6. NoneMissing(st')
    BY DEF Aborted, NoneMissing
  <2> HIDE DEF g
  <2>7. CASE \E t \in (DOMAIN g) \ st.own : PlacedFresh(g, t, st, st')
    <3>1. PICK new : Gave(L, a, M, b, new)
      BY <2>2, <2>7, FreshIsGiven
    <3> HIDE DEF L, M, a, b
    <3>2. Gave(Live, Sizes, Live', Sizes', new)
      BY <2>3, <2>4, <3>1
    <3>3. Allocator!Give(new) /\ new \in Live' \ Live
      BY <3>2 DEF Gave, SizeIn, Sizes, Allocator!Give, Allocator!Overlaps, Allocator!Size
    <3> QED
      BY <3>3 DEF Allocator!Next
  <2>8. CASE \E t \in (DOMAIN g) \ st.own : PlacedOver(g, t, st, st')
    <3>1. /\ b = a
          /\ \E x \in L \ M : \E new \in M \ L :
               /\ new.chunk = x.chunk /\ new.offset = x.offset /\ new.size = x.size
               /\ M = (L \ {x}) \cup {new}
      BY <2>2, <2>8, OverIsPassedOn
    <3> HIDE DEF L, M, a, b
    <3>2. PICK x \in Live \ Live', new \in Live' \ Live :
            /\ new.chunk = x.chunk /\ new.offset = x.offset /\ new.size = x.size
            /\ Live' = (Live \ {x}) \cup {new}
      BY <2>3, <3>1
    <3>3. Sizes' = Sizes
      BY <2>4, <3>1
    <3>4. Allocator!PassOn(x, new)
      BY <3>2, <3>3 DEF Allocator!PassOn, Sizes
    <3> QED
      BY <3>2, <3>4 DEF Allocator!Next
  <2>9. CASE TakesBack(st, st')
    <3>1. b = a /\ (M = L \/ \E x \in L \ M : M = L \ {x})
      BY <2>2, <2>9, TakenBackOnce
    <3> HIDE DEF L, M, a, b
    <3>2. Sizes' = Sizes
      BY <2>4, <3>1
    <3>3. CASE M = L
      BY <1>1, <2>3, <3>2, <3>3
    <3>4. CASE \E x \in L \ M : M = L \ {x}
      <4>1. PICK x \in Live \ Live' : Live' = Live \ {x}
        BY <2>3, <3>4
      <4>2. Allocator!TakeBack(x)
        BY <3>2, <4>1 DEF Allocator!TakeBack, Sizes
      <4> QED
        BY <4>1, <4>2 DEF Allocator!Next
    <3> QED
      BY <3>1, <3>3, <3>4
  <2>10. CASE st' = st
    BY <1>3, <2>1, <2>10
  <2> QED
    BY <2>5, <2>6, <2>7, <2>8, <2>9, <2>10 DEF PlanMoves
<1>7. CASE \E t \in NextTensors(graph) : Build(t)
  <2>1. call' = call /\ st' = st
    BY <1>7 DEF Build, planning
  <2> QED
    BY <1>3, <2>1
<1>8. CASE \E g \in Allowed : AllocPlanned(g)
  <2>1. call' = call /\ st' = st
    BY <1>8 DEF AllocPlanned, planning
  <2> QED
    BY <1>3, <2>1
<1>9. CASE UNCHANGED vars
  <2>1. call' = call /\ st' = st
    BY <1>9 DEF vars, planning
  <2> QED
    BY <1>3, <2>1
<1> QED
  BY <1>4, <1>5, <1>6, <1>7, <1>8, <1>9 DEF Next

\* As long as ggml_dyn_tallocr_alloc does not abort because all chunks are full, each
\* step of the planner gives out memory that no live tensor has, or takes one back
\* once, or passes it on to a tensor of the same size, and the chunks grow exactly to
\* the highest end that was in use.
THEOREM PlannerKeepsContract == Spec /\ []~Aborted => ImplementsAllocator
<1>1. AllocInv /\ AllocInv' /\ ~Aborted' /\ [Next]_vars => [Allocator!Next]_(Allocator!vars)
  BY ContractStep
<1> QED
  BY <1>1, ContractInit, AllocatorInvariant, PTL DEF Spec, ImplementsAllocator, Allocator!Spec

\* A planner that keeps the contract gives no memory twice, whatever the tensors, the chunks
\* and the order of its calls.
NothingShared == \A a, b \in Live : a # b => ~ Allocator!Overlaps(a, b)

LEMMA NothingSharedStays ==
  ASSUME NothingShared, [Allocator!Next]_(Allocator!vars)
  PROVE  NothingShared'
<1>1. \A a, b : Allocator!Overlaps(a, b) <=> Allocator!Overlaps(b, a)
  BY DEF Allocator!Overlaps
<1>2. ASSUME NEW b \in Live' \ Live, Allocator!Give(b)
      PROVE  NothingShared'
  BY <1>1, <1>2 DEF Allocator!Give, NothingShared, Allocator!Overlaps
<1>3. ASSUME NEW b \in Live \ Live', Allocator!TakeBack(b)
      PROVE  NothingShared'
  BY <1>3 DEF Allocator!TakeBack, NothingShared, Allocator!Overlaps
<1>4. ASSUME NEW b \in Live \ Live', NEW new \in Live' \ Live, Allocator!PassOn(b, new)
      PROVE  NothingShared'
  <2>1. \A other : Allocator!Overlaps(new, other) <=> Allocator!Overlaps(b, other)
    BY <1>4 DEF Allocator!PassOn, Allocator!Overlaps
  <2> QED
    BY <1>1, <1>4, <2>1 DEF Allocator!PassOn, NothingShared, Allocator!Overlaps
<1>5. CASE Allocator!Restart
  BY <1>5 DEF Allocator!Restart, NothingShared
<1>6. CASE UNCHANGED Allocator!vars
  BY <1>6 DEF Allocator!vars, NothingShared, Allocator!Overlaps
<1> QED
  BY <1>2, <1>3, <1>4, <1>5, <1>6 DEF Allocator!Next

\* No two live tensors of a plan have memory in common: what AllocatorContract is for.
THEOREM NothingSharedHolds == Spec /\ []~Aborted => []NothingShared
<1>1. Init => NothingShared
  BY DEF Init, NothingShared, Live
<1>2. AllocInv /\ AllocInv' /\ ~Aborted' /\ NothingShared /\ [Next]_vars => NothingShared'
  BY ContractStep, NothingSharedStays
<1> QED
  BY <1>1, <1>2, AllocatorInvariant, PTL DEF Spec
=============================================================================
