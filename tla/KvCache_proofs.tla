--------------------------- MODULE KvCache_proofs ---------------------------
(***************************************************************************)
(* The KV cache, for any number of cells, sequences, batches and windows:  *)
(* what it keeps twice agrees, the keys are where the positions say, a     *)
(* batch that fits finds its slots, and a decode adds its tokens, no more. *)
(***************************************************************************)
EXTENDS KvCache, FiniteSetTheorems, SequenceTheorems, WellFoundedInduction, TLAPS

-----------------------------------------------------------------------------
(* Folds.                                                                  *)

\* Among sets of subsets of a finite set there is one that contains no other.
LEMMA SmallestSubset ==
  ASSUME NEW S, IsFiniteSet(S), NEW Family, Family \subseteq SUBSET S, Family # {}
  PROVE  \E U \in Family : \A V \in Family : V \subseteq U => V = U
<1>1. FiniteSubsetsOf(S) = SUBSET S
  BY FS_FiniteSubsetsOfFinite
<1>2. \E U \in Family : \A V \in Family : ~ (<<V, U>> \in StrictSubsetOrdering(S))
  BY <1>1, FS_StrictSubsetOrderingWellFounded, WFMin
<1> QED
  BY <1>2 DEF StrictSubsetOrdering

\* What a fold over S says of the sets on its way: pick takes the elements out one by
\* one, f gives the result for each set.
Folds(S, base, pick, G, f) == \A U \in SUBSET S :
  f[U] = IF U = {} THEN base ELSE G[<<pick[U], f[U \ {pick[U]}]>>]

\* There is such a fold, for any step G.
LEMMA FoldExists ==
  ASSUME NEW S, IsFiniteSet(S), NEW X, NEW base \in X, NEW G \in [S \X X -> X],
         NEW pick, \A U \in SUBSET S : U # {} => pick[U] \in U
  PROVE  \E f \in [SUBSET S -> X] : Folds(S, base, pick, G, f)
<1> DEFINE P == SUBSET S
           Result(f, U) == IF U = {} THEN base ELSE G[<<pick[U], f[U \ {pick[U]}]>>]
           Closed(D) == \A U \in D : U # {} => U \ {pick[U]} \in D
           Up(D) == \E f \in [D -> X] : \A U \in D : f[U] = Result(f, U)
           Open == {R \in SUBSET P : Closed(P \ R) /\ Up(P \ R)}
<1>1. P \in Open
  <2>1. [U \in {} |-> base] \in [{} -> X]
    OBVIOUS
  <2>2. P \ P = {} /\ P \in SUBSET P
    OBVIOUS
  <2> QED
    BY <2>1, <2>2
<1>2. PICK R \in Open : \A V \in Open : V \subseteq R => V = R
  <2>1. IsFiniteSet(P)
    BY FS_SUBSET
  <2>2. Open \subseteq SUBSET P /\ Open # {}
    BY <1>1
  <2> HIDE DEF Open, P
  <2> QED
    BY <2>1, <2>2, SmallestSubset
<1>3. R = {}
  <2> SUFFICES ASSUME R # {} PROVE FALSE
    OBVIOUS
  <2>1. R \subseteq SUBSET S
    BY <1>2
  <2>2. PICK U \in R : \A V \in R : V \subseteq U => V = U
    BY <2>1, SmallestSubset
  <2> DEFINE D == P \ R
             E == P \ (R \ {U})
  <2>3. U \in P /\ U \notin D /\ E = D \cup {U}
    BY <2>1, <2>2
  <2>4. U # {} => pick[U] \in U /\ U \ {pick[U]} \in D
    BY <2>1, <2>2
  <2>5. Closed(D)
    BY <1>2
  <2>6. PICK f \in [D -> X] : \A V \in D : f[V] = Result(f, V)
    BY <1>2
  <2> HIDE DEF D, E
  <2> DEFINE g == [V \in E |-> IF V = U THEN Result(f, U) ELSE f[V]]
  <2>7. Result(f, U) \in X
    <3>1. CASE U = {}
      BY <3>1
    <3>2. CASE U # {}
      <4>1. pick[U] \in S /\ f[U \ {pick[U]}] \in X
        BY <2>3, <2>4, <2>6, <3>2
      <4> QED
        BY <3>2, <4>1
    <3> QED
      BY <3>1, <3>2
  <2>8. g \in [E -> X]
    BY <2>3, <2>6, <2>7
  <2>9. ASSUME NEW V \in E PROVE g[V] = Result(g, V)
    <3>1. V # {} => V \ {pick[V]} \in D /\ V \ {pick[V]} # U
      <4>1. CASE V = U
        BY <2>3, <2>4, <4>1
      <4>2. CASE V \in D
        <5>1. V # {} => V \ {pick[V]} \in D
          BY <2>5, <4>2
        <5> QED
          BY <2>3, <5>1
      <4> QED
        BY <2>3, <2>9, <4>1, <4>2
    <3>2. V # {} => g[V \ {pick[V]}] = f[V \ {pick[V]}]
      BY <2>3, <3>1
    <3>3. g[V] = Result(f, V)
      BY <2>3, <2>6, <2>9
    <3> QED
      BY <3>2, <3>3
  <2>10. Closed(E)
    BY <2>3, <2>4, <2>5
  <2>11. Up(E)
    BY <2>8, <2>9
  <2> HIDE DEF Closed, Up
  <2>12. R \ {U} \in Open
    BY <2>1, <2>10, <2>11 DEF E
  <2>13. R \ {U} = R
    BY <1>2, <2>12
  <2> QED
    BY <2>2, <2>13
<1>4. Up(P)
  <2>1. P \ R = P
    BY <1>3
  <2> HIDE DEF Up, Closed
  <2> QED
    BY <1>2, <2>1
<1> QED
  BY <1>4 DEF Folds

\* What holds of the base and is kept by every step holds of the result.
Picks(S, pick) == IsFiniteSet(S) /\ \A U \in SUBSET S : U # {} => pick[U] \in U
KeptBy(S, pick, f, Reach) ==
  /\ <<{}, f[{}]>> \in Reach
  /\ \A U \in SUBSET S : U # {} /\ <<U \ {pick[U]}, f[U \ {pick[U]}]>> \in Reach
                          => <<U, f[U]>> \in Reach
Reached(S, f, Reach) == \A U \in SUBSET S : <<U, f[U]>> \in Reach

LEMMA FoldReaches ==
  ASSUME NEW S, NEW pick, Picks(S, pick), NEW f, NEW Reach, KeptBy(S, pick, f, Reach)
  PROVE  Reached(S, f, Reach)
<1> DEFINE Bad == {U \in SUBSET S : <<U, f[U]>> \notin Reach}
<1> USE DEF Picks, KeptBy
<1> SUFFICES ASSUME Bad # {} PROVE FALSE
  BY DEF Reached
<1>1. PICK U \in Bad : \A V \in Bad : V \subseteq U => V = U
  <2>1. Bad \subseteq SUBSET S
    OBVIOUS
  <2> HIDE DEF Bad
  <2> QED
    BY <2>1, SmallestSubset
<1>2. U # {} /\ pick[U] \in U
  BY <1>1
<1>3. U \ {pick[U]} \in SUBSET S /\ U \ {pick[U]} # U /\ U \ {pick[U]} \subseteq U
  BY <1>1, <1>2
<1>4. U \ {pick[U]} \notin Bad
  <2> HIDE DEF Bad
  <2> QED
    BY <1>1, <1>3
<1> QED
  BY <1>1, <1>2, <1>3, <1>4

-----------------------------------------------------------------------------
(* One cell.                                                               *)

Cells ==
  [pos : [Cell -> Pos \cup {None}], seq : [Cell -> SUBSET Seqs], shift : [Cell -> Int],
   used : SUBSET Cell, seq_pos : [Seqs -> [Pos -> Nat]], has_shift : BOOLEAN,
   head : 0 .. use.size]

\* What the cells keep twice agrees, when copies have counted so much twice.
Holding(c, s, p) == {i \in Cell : c.pos[i] = p /\ s \in c.seq[i]}
CountsBut(c, extra) ==
  /\ extra \in [Seqs -> [Pos -> Nat]]
  /\ \A s \in Seqs, p \in Pos : c.seq_pos[s][p] = extra[s][p] + Cardinality(Holding(c, s, p))
Counts(c) == CountsBut(c, surplus)
Sound(c) == c \in Cells /\ c.used = {i \in Cell : c.pos[i] # None} /\ Counts(c)
Whole(c) == \A i \in Cell : c.pos[i] = None <=> c.seq[i] = {}

\* d is c, but for the cell i.
Differs(c, d, i, p, ss, shift) ==
  /\ d.pos = [c.pos EXCEPT ![i] = p] /\ d.seq = [c.seq EXCEPT ![i] = ss]
  /\ d.shift = [c.shift EXCEPT ![i] = shift] /\ d.head = c.head

\* The cell i counts for position q of the sequence s.
Bit(c, i, s, q) == IF c.pos[i] = q /\ s \in c.seq[i] THEN 1 ELSE 0

LEMMA CellTypes ==
  ASSUME use \in Uses
  PROVE  /\ use.size \in Nat \ {0} /\ use.last \in Nat /\ use.swa \in Nat
         /\ Cell \subseteq Nat /\ IsFiniteSet(Cell) /\ 0 \in Cell
         /\ Pos \subseteq Nat /\ IsFiniteSet(Pos) /\ None \notin Pos /\ None \in Int
         /\ Seqs \subseteq Nat /\ IsFiniteSet(Seqs)
<1>1. use.size \in Nat \ {0} /\ use.last \in Nat /\ use.swa \in Nat
  BY KvAssumption
<1>2. use.size - 1 \in Int /\ use.last \in Int /\ 0 \in Int
  BY <1>1
<1>3. IsFiniteSet(Cell) /\ IsFiniteSet(Pos)
  BY <1>2, FS_Interval DEF Cell, Pos
<1> QED
  BY <1>1, <1>3, KvAssumption DEF Cell, Pos, None

\* The counters keep agreeing when they follow the change of one cell.
LEMMA OneCell ==
  ASSUME use \in Uses, NEW c, Sound(c), NEW i \in Cell, NEW d,
         NEW p, NEW ss, NEW shift, Differs(c, d, i, p, ss, shift),
         \A s \in Seqs, q \in Pos :
           d.seq_pos[s][q] = c.seq_pos[s][q] - Bit(c, i, s, q) + Bit(d, i, s, q)
  PROVE  \A s \in Seqs, q \in Pos :
           /\ d.seq_pos[s][q] = surplus[s][q] + Cardinality(Holding(d, s, q))
           /\ d.seq_pos[s][q] \in Nat
<1> SUFFICES ASSUME NEW s \in Seqs, NEW q \in Pos
             PROVE  /\ d.seq_pos[s][q] = surplus[s][q] + Cardinality(Holding(d, s, q))
                    /\ d.seq_pos[s][q] \in Nat
  OBVIOUS
<1> DEFINE rest == Holding(c, s, q) \ {i}
<1>0. c.pos \in [Cell -> Pos \cup {None}] /\ c.seq \in [Cell -> SUBSET Seqs]
  BY DEF Sound, Cells
<1>1. rest = Holding(d, s, q) \ {i} /\ i \notin rest
  BY <1>0 DEF Holding, Differs
<1>2. IsFiniteSet(rest) /\ Cardinality(rest) \in Nat
  <2>1. rest \subseteq Cell
    BY DEF Holding
  <2> QED
    BY <2>1, CellTypes, FS_Subset, FS_CardinalityType
<1>3. Cardinality(rest \cup {i}) = Cardinality(rest) + 1
  BY <1>1, <1>2, FS_AddElement
<1>4. Holding(c, s, q) = IF Bit(c, i, s, q) = 1 THEN rest \cup {i} ELSE rest
  BY DEF Holding, Bit
<1>5. Holding(d, s, q) = IF Bit(d, i, s, q) = 1 THEN rest \cup {i} ELSE rest
  BY <1>1 DEF Holding, Bit
<1>6. Bit(c, i, s, q) \in {0, 1} /\ Bit(d, i, s, q) \in {0, 1}
  BY DEF Bit
<1>7. /\ c.seq_pos[s][q] = surplus[s][q] + Cardinality(Holding(c, s, q))
      /\ surplus[s][q] \in Nat
  BY DEF Sound, Counts, CountsBut
<1> HIDE DEF rest
<1> QED
  BY <1>2, <1>3, <1>4, <1>5, <1>6, <1>7

\* Cells whose counters may be anything.
Loose ==
  [pos : [Cell -> Pos \cup {None}], seq : [Cell -> SUBSET Seqs], shift : [Cell -> Int],
   used : SUBSET Cell, seq_pos : [Seqs -> [Pos -> Int]], has_shift : BOOLEAN,
   head : 0 .. use.size]
Step(c, ss, p, k, s, q) == c.seq_pos[s][q] + (IF s \in ss /\ q = p THEN k ELSE 0)

LEMMA CountAdds ==
  ASSUME NEW c \in Loose, NEW ss, NEW p, NEW k \in Int, NEW d, d = Count(c, ss, p, k)
  PROVE  /\ d \in Loose
         /\ d.pos = c.pos /\ d.seq = c.seq /\ d.shift = c.shift /\ d.used = c.used
         /\ d.has_shift = c.has_shift /\ d.head = c.head
         /\ \A s \in Seqs, q \in Pos : d.seq_pos[s][q] = Step(c, ss, p, k, s, q)
<1> DEFINE new == [s \in Seqs |->
             IF s \in ss THEN [c.seq_pos[s] EXCEPT ![p] = @ + k] ELSE c.seq_pos[s]]
<1>1. d = [c EXCEPT !.seq_pos = new]
  BY DEF Count
<1>2. c.seq_pos \in [Seqs -> [Pos -> Int]]
  BY DEF Loose
<1>3. new \in [Seqs -> [Pos -> Int]]
  <2> SUFFICES ASSUME NEW s \in Seqs PROVE new[s] \in [Pos -> Int]
    OBVIOUS
  <2>1. c.seq_pos[s] \in [Pos -> Int]
    BY <1>2
  <2> DEFINE row == c.seq_pos[s]
  <2>2. [row EXCEPT ![p] = row[p] + k] \in [Pos -> Int]
    <3> HIDE DEF row
    <3>1. \A q \in Pos : row[q] + k \in Int
      BY <2>1 DEF row
    <3> QED
      BY <2>1, <3>1 DEF row
  <2> QED
    BY <2>1, <2>2
<1>4. \A s \in Seqs, q \in Pos : new[s][q] = Step(c, ss, p, k, s, q)
  <2> SUFFICES ASSUME NEW s \in Seqs, NEW q \in Pos
               PROVE  new[s][q] = Step(c, ss, p, k, s, q)
    OBVIOUS
  <2>1. c.seq_pos[s] \in [Pos -> Int] /\ c.seq_pos[s][q] \in Int
    BY <1>2
  <2> QED
    BY <2>1 DEF Step
<1> HIDE DEF new
<1> QED
  BY <1>1, <1>3, <1>4 DEF Loose

\* A change of one cell that the counters follow.
Follows(c, d, i, p, ss, shift) ==
  /\ i \in Cell /\ d \in Loose /\ p \in Pos \cup {None} /\ Differs(c, d, i, p, ss, shift)
  /\ p = None => d.used = c.used \ {i}
  /\ p # None => d.used = c.used \cup {i}
  /\ \A s \in Seqs, q \in Pos :
       d.seq_pos[s][q] = c.seq_pos[s][q] - Bit(c, i, s, q) + Bit(d, i, s, q)

LEMMA StaysSound ==
  ASSUME use \in Uses, NEW c, Sound(c), NEW i, NEW d, NEW p, NEW ss, NEW shift,
         Follows(c, d, i, p, ss, shift)
  PROVE  Sound(d) /\ (Whole(c) /\ (p = None <=> ss = {}) => Whole(d))
<1>0. /\ i \in Cell /\ d \in Loose /\ p \in Pos \cup {None} /\ Differs(c, d, i, p, ss, shift)
      /\ p = None => d.used = c.used \ {i}
      /\ p # None => d.used = c.used \cup {i}
      /\ \A s \in Seqs, q \in Pos :
           d.seq_pos[s][q] = c.seq_pos[s][q] - Bit(c, i, s, q) + Bit(d, i, s, q)
  BY DEF Follows
<1>1. \A s \in Seqs, q \in Pos : /\ d.seq_pos[s][q] = surplus[s][q] + Cardinality(Holding(d, s, q))
                                 /\ d.seq_pos[s][q] \in Nat
  BY <1>0, OneCell
<1>2. Counts(d)
  BY <1>1 DEF Counts, CountsBut, Sound
<1>3. d.seq_pos \in [Seqs -> [Pos -> Nat]]
  <2>1. d.seq_pos \in [Seqs -> [Pos -> Int]]
    BY <1>0 DEF Loose
  <2>2. ASSUME NEW s \in Seqs PROVE d.seq_pos[s] \in [Pos -> Nat]
    <3>1. d.seq_pos[s] \in [Pos -> Int] /\ \A q \in Pos : d.seq_pos[s][q] \in Nat
      BY <1>1, <2>1
    <3> QED
      BY <3>1
  <2> QED
    BY <2>1, <2>2
<1>4. d \in Cells
  BY <1>0, <1>3 DEF Loose, Cells
<1>5. c.pos \in [Cell -> Pos \cup {None}] /\ c.seq \in [Cell -> SUBSET Seqs]
  BY DEF Sound, Cells
<1>6. d.used = {j \in Cell : d.pos[j] # None}
  BY <1>0, <1>5 DEF Sound, Differs
<1>7. Whole(c) /\ (p = None <=> ss = {}) => Whole(d)
  BY <1>0, <1>5 DEF Whole, Differs
<1> QED
  BY <1>2, <1>4, <1>6, <1>7 DEF Sound

LEMMA SoundIsLoose == ASSUME NEW c, Sound(c) PROVE c \in Loose
<1>1. c.seq_pos \in [Seqs -> [Pos -> Int]]
  <2>1. c.seq_pos \in [Seqs -> [Pos -> Nat]]
    BY DEF Sound, Cells
  <2> QED
    BY <2>1
<1> QED
  BY <1>1 DEF Sound, Cells, Loose

\* Assignments to one cell.
Assign(e, i, p, ss, shift, used, h) ==
  [e EXCEPT !.pos[i] = p, !.seq[i] = ss, !.shift[i] = shift, !.used = used, !.has_shift = h]

LEMMA Assigned ==
  ASSUME use \in Uses, NEW e \in Loose, NEW i \in Cell, NEW p \in Pos \cup {None},
         NEW ss \in SUBSET Seqs, NEW shift \in Int, NEW used \in SUBSET Cell, NEW h \in BOOLEAN,
         NEW d, d = Assign(e, i, p, ss, shift, used, h)
  PROVE  /\ d \in Loose /\ Differs(e, d, i, p, ss, shift)
         /\ d.used = used /\ d.has_shift = h /\ d.seq_pos = e.seq_pos
<1>1. /\ e.pos \in [Cell -> Pos \cup {None}] /\ e.seq \in [Cell -> SUBSET Seqs]
      /\ e.shift \in [Cell -> Int]
  BY DEF Loose
<1> DEFINE pos == [e.pos EXCEPT ![i] = p]
           seq == [e.seq EXCEPT ![i] = ss]
           shifts == [e.shift EXCEPT ![i] = shift]
<1>2. /\ pos \in [Cell -> Pos \cup {None}] /\ seq \in [Cell -> SUBSET Seqs]
      /\ shifts \in [Cell -> Int]
  BY <1>1
<1>3. d = [e EXCEPT !.pos = pos, !.seq = seq, !.shift = shifts, !.used = used, !.has_shift = h]
  BY DEF Loose, Assign
<1>4. /\ d.pos = pos /\ d.seq = seq /\ d.shift = shifts /\ d.used = used /\ d.has_shift = h
      /\ d.seq_pos = e.seq_pos /\ d.head = e.head
  <2> HIDE DEF pos, seq, shifts
  <2> QED
    BY <1>3 DEF Loose
<1>5. d \in Loose
  <2> HIDE DEF pos, seq, shifts
  <2> QED
    BY <1>2, <1>3 DEF Loose
<1> QED
  BY <1>4, <1>5 DEF Differs

\* rm
LEMMA RmErases ==
  ASSUME use \in Uses, NEW c, Sound(c), NEW i \in Cell, NEW d, d = Rm(c, i)
  PROVE  /\ Sound(d) /\ Differs(c, d, i, None, {}, 0) /\ d.has_shift = c.has_shift
         /\ Whole(c) => Whole(d)
<1> DEFINE e == Count(c, c.seq[i], c.pos[i], -1)
<1>1. c \in Loose
  BY SoundIsLoose
<1>2. /\ e \in Loose
      /\ e.pos = c.pos /\ e.seq = c.seq /\ e.shift = c.shift /\ e.used = c.used
      /\ e.has_shift = c.has_shift /\ e.head = c.head
      /\ \A s \in Seqs, q \in Pos : e.seq_pos[s][q] = Step(c, c.seq[i], c.pos[i], -1, s, q)
  BY <1>1, CountAdds
<1>3. d = Assign(e, i, None, {}, 0, e.used \ {i}, e.has_shift)
  BY <1>2 DEF Rm, Erase, Assign, Loose
<1> HIDE DEF e
<1>4. /\ d \in Loose /\ Differs(c, d, i, None, {}, 0)
      /\ d.used = c.used \ {i} /\ d.seq_pos = e.seq_pos /\ d.has_shift = c.has_shift
  <2>1. /\ None \in Pos \cup {None} /\ {} \in SUBSET Seqs /\ 0 \in Int
        /\ e.used \ {i} \in SUBSET Cell /\ e.has_shift \in BOOLEAN
    BY <1>2 DEF Loose
  <2>2. /\ d \in Loose /\ Differs(e, d, i, None, {}, 0) /\ d.used = e.used \ {i}
        /\ d.has_shift = e.has_shift /\ d.seq_pos = e.seq_pos
    BY <1>2, <1>3, <2>1, Assigned
  <2> QED
    BY <1>2, <2>2 DEF Differs
<1>5. ASSUME NEW s \in Seqs, NEW q \in Pos
      PROVE  d.seq_pos[s][q] = c.seq_pos[s][q] - Bit(c, i, s, q) + Bit(d, i, s, q)
  <2>1. c.seq_pos[s][q] \in Int
    BY <1>1 DEF Loose
  <2>2. Bit(d, i, s, q) = 0
    BY <1>1, <1>4 DEF Bit, Differs, Loose
  <2>3. Step(c, c.seq[i], c.pos[i], -1, s, q) = c.seq_pos[s][q] - Bit(c, i, s, q)
    BY <2>1 DEF Step, Bit
  <2> QED
    BY <1>2, <1>4, <2>1, <2>2, <2>3 DEF Bit
<1>6. Follows(c, d, i, None, {}, 0)
  BY <1>4, <1>5 DEF Follows
<1>7. Sound(d) /\ (Whole(c) /\ (None = None <=> {} = {}) => Whole(d))
  BY <1>6, StaysSound
<1> QED
  BY <1>4, <1>7

\* e is c with the sequences of gone counted out at one position, and those of come
\* counted in at another.
Recounts(c, e, gone, from, come, to) ==
  /\ e \in Loose
  /\ e.pos = c.pos /\ e.seq = c.seq /\ e.shift = c.shift /\ e.used = c.used
  /\ e.has_shift = c.has_shift /\ e.head = c.head
  /\ \A s \in Seqs, q \in Pos :
       e.seq_pos[s][q] = c.seq_pos[s][q] - (IF s \in gone /\ q = from THEN 1 ELSE 0)
                                         + (IF s \in come /\ q = to THEN 1 ELSE 0)

LEMMA CountedOut ==
  ASSUME NEW c \in Loose, NEW gone, NEW from, NEW to
  PROVE  Recounts(c, Count(c, gone, from, -1), gone, from, {}, to)
<1> DEFINE e == Count(c, gone, from, -1)
<1>1. /\ e \in Loose
      /\ e.pos = c.pos /\ e.seq = c.seq /\ e.shift = c.shift /\ e.used = c.used
      /\ e.has_shift = c.has_shift /\ e.head = c.head
      /\ \A s \in Seqs, q \in Pos : e.seq_pos[s][q] = Step(c, gone, from, -1, s, q)
  BY CountAdds
<1>2. \A s \in Seqs, q \in Pos : c.seq_pos[s][q] \in Int
  BY DEF Loose
<1> HIDE DEF e
<1>3. Recounts(c, e, gone, from, {}, to)
  BY <1>1, <1>2 DEF Recounts, Step
<1> QED
  BY <1>3 DEF e

LEMMA CountedIn ==
  ASSUME NEW c \in Loose, NEW from, NEW come, NEW to
  PROVE  Recounts(c, Count(c, come, to, 1), {}, from, come, to)
<1> DEFINE e == Count(c, come, to, 1)
<1>1. /\ e \in Loose
      /\ e.pos = c.pos /\ e.seq = c.seq /\ e.shift = c.shift /\ e.used = c.used
      /\ e.has_shift = c.has_shift /\ e.head = c.head
      /\ \A s \in Seqs, q \in Pos : e.seq_pos[s][q] = Step(c, come, to, 1, s, q)
  BY CountAdds
<1>2. \A s \in Seqs, q \in Pos : c.seq_pos[s][q] \in Int
  BY DEF Loose
<1> HIDE DEF e
<1>3. Recounts(c, e, {}, from, come, to)
  BY <1>1, <1>2 DEF Recounts, Step
<1> QED
  BY <1>3 DEF e

LEMMA CountedOver ==
  ASSUME NEW c \in Loose, NEW gone, NEW from, NEW come, NEW to
  PROVE  Recounts(c, Count(Count(c, gone, from, -1), come, to, 1), gone, from, come, to)
<1> DEFINE e == Count(c, gone, from, -1)
           f == Count(e, come, to, 1)
<1>1. Recounts(c, e, gone, from, {}, to)
  BY CountedOut
<1>2. Recounts(e, f, {}, from, come, to)
  BY <1>1, CountedIn DEF Recounts
<1>3. \A s \in Seqs, q \in Pos : c.seq_pos[s][q] \in Int
  BY DEF Loose
<1> HIDE DEF e, f
<1>4. Recounts(c, f, gone, from, come, to)
  BY <1>1, <1>2, <1>3 DEF Recounts
<1> QED
  BY <1>4 DEF e, f

\* The counters follow a cell from c.seq[i] at its position to ss at p, when the change
\* from e to d, which the counters of e already know, is assignments to it.
Moves(c, e, gone, come, d, i, p, ss, shift, used, h) ==
  /\ i \in Cell /\ p \in Pos \cup {None} /\ ss \in SUBSET Seqs /\ shift \in Int /\ h \in BOOLEAN
  /\ Recounts(c, e, gone, c.pos[i], come, p)
  /\ gone \subseteq c.seq[i] /\ come \subseteq ss /\ ss \ come = c.seq[i] \ gone
  /\ ss # come => p = c.pos[i]
  /\ p = None => used = c.used \ {i}
  /\ p # None => used = c.used \cup {i}
  /\ d = Assign(e, i, p, ss, shift, used, h)

LEMMA Recounted ==
  ASSUME use \in Uses, NEW c, Sound(c), NEW e, NEW gone, NEW come, NEW d, NEW i, NEW p,
         NEW ss, NEW shift, NEW used, NEW h,
         Moves(c, e, gone, come, d, i, p, ss, shift, used, h)
  PROVE  /\ Sound(d) /\ Differs(c, d, i, p, ss, shift) /\ d.has_shift = h
         /\ Whole(c) /\ (p = None <=> ss = {}) => Whole(d)
<1>0. /\ i \in Cell /\ p \in Pos \cup {None} /\ ss \in SUBSET Seqs /\ shift \in Int
      /\ h \in BOOLEAN /\ Recounts(c, e, gone, c.pos[i], come, p)
      /\ gone \subseteq c.seq[i] /\ come \subseteq ss /\ ss \ come = c.seq[i] \ gone
      /\ ss # come => p = c.pos[i]
      /\ p = None => used = c.used \ {i}
      /\ p # None => used = c.used \cup {i}
      /\ d = Assign(e, i, p, ss, shift, used, h)
  BY DEF Moves
<1>1. used \in SUBSET Cell /\ e \in Loose
  BY <1>0 DEF Sound, Cells, Recounts
<1>2. /\ d \in Loose /\ Differs(e, d, i, p, ss, shift) /\ d.used = used
      /\ d.has_shift = h /\ d.seq_pos = e.seq_pos
  BY <1>0, <1>1, Assigned
<1>3. Differs(c, d, i, p, ss, shift)
  BY <1>0, <1>2 DEF Differs, Recounts
<1>4. c.pos \in [Cell -> Pos \cup {None}] /\ c.seq \in [Cell -> SUBSET Seqs]
  BY DEF Sound, Cells
<1>5. ASSUME NEW s \in Seqs, NEW q \in Pos
      PROVE  d.seq_pos[s][q] = c.seq_pos[s][q] - Bit(c, i, s, q) + Bit(d, i, s, q)
  <2>1. c.seq_pos[s][q] \in Int
    BY SoundIsLoose DEF Loose
  <2>2. d.seq_pos[s][q] = c.seq_pos[s][q]
                          - (IF s \in gone /\ q = c.pos[i] THEN 1 ELSE 0)
                          + (IF s \in come /\ q = p THEN 1 ELSE 0)
    BY <1>0, <1>2 DEF Recounts
  <2>3. d.pos[i] = p /\ d.seq[i] = ss
    BY <1>0, <1>3, <1>4 DEF Differs
  <2>4. CASE s \in come
    BY <1>0, <2>1, <2>2, <2>3, <2>4 DEF Bit
  <2>5. CASE s \notin come
    BY <1>0, <2>1, <2>2, <2>3, <2>5 DEF Bit
  <2> QED
    BY <2>4, <2>5
<1>6. Follows(c, d, i, p, ss, shift)
  BY <1>0, <1>2, <1>3, <1>5 DEF Follows
<1>7. Sound(d) /\ (Whole(c) /\ (p = None <=> ss = {}) => Whole(d))
  BY <1>6, StaysSound
<1> QED
  BY <1>2, <1>3, <1>7

\* An assignment to one field of a cell leaves what the others have.
LEMMA AssignOne ==
  ASSUME NEW e \in Loose, NEW i \in Cell, NEW x
  PROVE  /\ [e EXCEPT !.seq[i] = x] = Assign(e, i, e.pos[i], x, e.shift[i], e.used, e.has_shift)
         /\ [e EXCEPT !.pos[i] = x] = Assign(e, i, x, e.seq[i], e.shift[i], e.used, e.has_shift)
<1> DEFINE pos == [e.pos EXCEPT ![i] = e.pos[i]]
           seq == [e.seq EXCEPT ![i] = e.seq[i]]
           shift == [e.shift EXCEPT ![i] = e.shift[i]]
           pos2 == [e.pos EXCEPT ![i] = x]
           seq2 == [e.seq EXCEPT ![i] = x]
<1>1. pos = e.pos /\ seq = e.seq /\ shift = e.shift
  BY DEF Loose
<1>2. /\ Assign(e, i, e.pos[i], x, e.shift[i], e.used, e.has_shift)
         = [e EXCEPT !.pos = pos, !.seq = seq2, !.shift = shift, !.used = e.used,
                     !.has_shift = e.has_shift]
      /\ [e EXCEPT !.seq[i] = x] = [e EXCEPT !.seq = seq2]
  BY DEF Loose, Assign
<1>3. /\ Assign(e, i, x, e.seq[i], e.shift[i], e.used, e.has_shift)
         = [e EXCEPT !.pos = pos2, !.seq = seq, !.shift = shift, !.used = e.used,
                     !.has_shift = e.has_shift]
      /\ [e EXCEPT !.pos[i] = x] = [e EXCEPT !.pos = pos2]
  BY DEF Loose, Assign
<1> HIDE DEF pos, seq, shift, pos2, seq2
<1>4. /\ [e EXCEPT !.pos = pos, !.seq = seq2, !.shift = shift, !.used = e.used,
                   !.has_shift = e.has_shift] = [e EXCEPT !.seq = seq2]
      /\ [e EXCEPT !.pos = pos2, !.seq = seq, !.shift = shift, !.used = e.used,
                   !.has_shift = e.has_shift] = [e EXCEPT !.pos = pos2]
  BY <1>1 DEF Loose
<1> QED
  BY <1>2, <1>3, <1>4

-----------------------------------------------------------------------------
(* Taking sequences out of cells.                                          *)

Good(c) == Sound(c) /\ Whole(c)
\* The same, when copies have counted so much twice.
GoodBut(c, extra) ==
  c \in Cells /\ c.used = {i \in Cell : c.pos[i] # None} /\ CountsBut(c, extra) /\ Whole(c)

\* d is c after cells of U lost sequences: such a cell is as it was, or empty.
Thinned(c, d, U) ==
  /\ Good(d) /\ d.head = c.head /\ d.has_shift = c.has_shift
  /\ \A j \in Cell : /\ d.seq[j] \subseteq c.seq[j]
                     /\ \/ d.pos[j] = c.pos[j] /\ d.shift[j] = c.shift[j]
                        \/ d.pos[j] = None /\ d.shift[j] = 0
                     /\ j \notin U => /\ d.pos[j] = c.pos[j] /\ d.seq[j] = c.seq[j]
                                      /\ d.shift[j] = c.shift[j]

LEMMA ThinOne ==
  ASSUME NEW c, Sound(c), NEW i \in Cell, NEW d, Good(d), NEW p, NEW ss, NEW shift,
         Differs(c, d, i, p, ss, shift), d.has_shift = c.has_shift, ss \subseteq c.seq[i],
         \/ p = c.pos[i] /\ shift = c.shift[i]
         \/ p = None /\ shift = 0
  PROVE  Thinned(c, d, {i})
<1>1. /\ c.pos \in [Cell -> Pos \cup {None}] /\ c.seq \in [Cell -> SUBSET Seqs]
      /\ c.shift \in [Cell -> Int]
  BY DEF Sound, Cells
<1>2. d.pos[i] = p /\ d.seq[i] = ss /\ d.shift[i] = shift
  BY <1>1 DEF Differs
<1>3. \A j \in Cell \ {i} : /\ d.pos[j] = c.pos[j] /\ d.seq[j] = c.seq[j]
                            /\ d.shift[j] = c.shift[j]
  BY <1>1 DEF Differs
<1>4. d.head = c.head
  BY DEF Differs
<1> QED
  BY <1>2, <1>3, <1>4 DEF Thinned

LEMMA ThinMore ==
  ASSUME NEW c, NEW d, NEW e, NEW U, NEW V, Thinned(c, d, U), Thinned(d, e, V)
  PROVE  Thinned(c, e, U \cup V)
BY DEF Thinned

LEMMA ThinNone == ASSUME NEW c, Good(c), NEW U PROVE Thinned(c, c, U)
BY DEF Thinned

\* rm
LEMMA RmThins ==
  ASSUME use \in Uses, NEW c, Good(c), NEW i \in Cell
  PROVE  Thinned(c, Rm(c, i), {i}) /\ Rm(c, i).seq[i] = {}
<1>1. Sound(c) /\ Whole(c)
  BY DEF Good
<1> DEFINE d == Rm(c, i)
<1>2. Sound(d) /\ Whole(d) /\ Differs(c, d, i, None, {}, 0) /\ d.has_shift = c.has_shift
  BY <1>1, RmErases
<1> HIDE DEF d
<1>3. Thinned(c, d, {i})
  BY <1>1, <1>2, ThinOne DEF Good
<1>4. d.seq[i] = {}
  BY <1>1, <1>2 DEF Differs, Sound, Cells
<1> QED
  BY <1>3, <1>4 DEF d

\* What a cell that is not empty has.
LEMMA CellOf ==
  ASSUME use \in Uses, NEW c, Good(c), NEW i \in Cell
  PROVE  /\ c.pos[i] \in Pos \cup {None} /\ c.seq[i] \in SUBSET Seqs /\ c.shift[i] \in Int
         /\ c.has_shift \in BOOLEAN /\ c.used \in SUBSET Cell
         /\ c.pos[i] = None <=> c.seq[i] = {}
         /\ c.pos[i] # None <=> i \in c.used
         /\ c.pos[i] # None => c.pos[i] \in Pos
BY DEF Good, Sound, Whole, Cells

\* Some sequences leave a cell that others keep.
LEMMA SomeLeave ==
  ASSUME use \in Uses, NEW c, Good(c), NEW i \in Cell, NEW gone, NEW ss, ss # {},
         gone \subseteq c.seq[i], ss = c.seq[i] \ gone,
         NEW d, d = [Count(c, gone, c.pos[i], -1) EXCEPT !.seq[i] = ss]
  PROVE  Thinned(c, d, {i})
<1> DEFINE e == Count(c, gone, c.pos[i], -1)
<1>1. Sound(c) /\ Whole(c) /\ c \in Loose
  BY SoundIsLoose DEF Good
<1>2. c.pos[i] \in Pos /\ i \in c.used /\ c.shift[i] \in Int
      /\ ss \in SUBSET Seqs /\ c.has_shift \in BOOLEAN
  BY CellOf
<1>3. Recounts(c, e, gone, c.pos[i], {}, c.pos[i])
  BY <1>1, CountedOut
<1>4. d = Assign(e, i, c.pos[i], ss, c.shift[i], c.used, c.has_shift)
  <2>1. d = [e EXCEPT !.seq[i] = ss]
    OBVIOUS
  <2> HIDE DEF e
  <2>2. d = Assign(e, i, e.pos[i], ss, e.shift[i], e.used, e.has_shift)
    BY <1>3, <2>1, AssignOne DEF Recounts
  <2> QED
    BY <1>3, <2>2 DEF Recounts
<1>5. c.pos[i] # None
  BY <1>2, CellTypes
<1>6. c.used = c.used \cup {i}
  BY <1>2
<1>7. ss \ {} = c.seq[i] \ gone /\ {} \subseteq ss
  OBVIOUS
<1> HIDE DEF e
<1>8. Moves(c, e, gone, {}, d, i, c.pos[i], ss, c.shift[i], c.used, c.has_shift)
  BY <1>2, <1>3, <1>4, <1>5, <1>6, <1>7 DEF Moves
<1>9. /\ Sound(d) /\ Differs(c, d, i, c.pos[i], ss, c.shift[i]) /\ d.has_shift = c.has_shift
      /\ Whole(c) /\ (c.pos[i] = None <=> ss = {}) => Whole(d)
  <2>1. use \in Uses
    OBVIOUS
  <2> QED
    BY ONLY <1>1, <1>8, <2>1, Recounted
<1>10. ss \subseteq c.seq[i]
  OBVIOUS
<1> QED
  BY <1>1, <1>5, <1>9, <1>10, ThinOne DEF Good

\* seq_rm and seq_keep of a cell
LEMMA CellSeqRmThins ==
  ASSUME use \in Uses, NEW c, Good(c), NEW i \in Cell, NEW s \in Seqs, s \in c.seq[i]
  PROVE  Thinned(c, CellSeqRm(c, i, s), {i}) /\ s \notin CellSeqRm(c, i, s).seq[i]
<1>1. CASE c.seq[i] = {s}
  BY <1>1, RmThins DEF CellSeqRm
<1>2. CASE c.seq[i] # {s}
  <2> DEFINE d == CellSeqRm(c, i, s)
             ss == c.seq[i] \ {s}
  <2>1. ss # {} /\ {s} \subseteq c.seq[i]
    BY <1>2
  <2>2. Count(c, {s}, c.pos[i], -1).seq = c.seq
    BY CountAdds, SoundIsLoose DEF Good
  <2>3. d = [Count(c, {s}, c.pos[i], -1) EXCEPT !.seq[i] = ss]
    BY <1>2, <2>2 DEF CellSeqRm
  <2>4. ss = c.seq[i] \ {s}
    OBVIOUS
  <2> HIDE DEF d, ss
  <2>6. d.seq[i] = ss
    <3> DEFINE e == Count(c, {s}, c.pos[i], -1)
    <3>1. e \in Loose
      BY CountAdds, SoundIsLoose DEF Good
    <3> HIDE DEF e
    <3> QED
      BY <2>3, <3>1 DEF e, Loose
  <2>5. Thinned(c, d, {i})
    <3>1. use \in Uses /\ Good(c) /\ i \in Cell
      OBVIOUS
    <3> QED
      BY ONLY <2>1, <2>3, <2>4, <3>1, SomeLeave
  <2> QED
    BY <2>4, <2>5, <2>6 DEF d
<1> QED
  BY <1>1, <1>2

LEMMA CellSeqKeepThins ==
  ASSUME use \in Uses, NEW c, Good(c), NEW i \in Cell, NEW s \in Seqs
  PROVE  Thinned(c, CellSeqKeep(c, i, s), {i})
<1>1. CASE s \in c.seq[i]
  <2> DEFINE gone == c.seq[i] \ {s}
             d == CellSeqKeep(c, i, s)
  <2>1. d = [Count(c, gone, c.pos[i], -1) EXCEPT !.seq[i] = {s}]
    BY <1>1 DEF CellSeqKeep
  <2>2. gone \subseteq c.seq[i] /\ {s} = c.seq[i] \ gone /\ {s} # {}
    BY <1>1
  <2> HIDE DEF d, gone
  <2>3. Thinned(c, d, {i})
    <3>1. use \in Uses /\ Good(c) /\ i \in Cell
      OBVIOUS
    <3> QED
      BY ONLY <2>1, <2>2, <3>1, SomeLeave
  <2> QED
    BY <2>3 DEF d
<1>2. CASE s \notin c.seq[i] /\ c.seq[i] # {}
  BY <1>2, RmThins DEF CellSeqKeep
<1>3. CASE s \notin c.seq[i] /\ c.seq[i] = {}
  BY <1>3, ThinNone DEF CellSeqKeep
<1> QED
  BY <1>1, <1>2, <1>3

-----------------------------------------------------------------------------
(* The other changes of a cell.                                            *)

\* Assignments to more than one field.
LEMMA AssignShifted ==
  ASSUME NEW e \in Loose, NEW i \in Cell, NEW x, NEW y
  PROVE  [e EXCEPT !.pos[i] = x, !.shift[i] = y, !.has_shift = TRUE]
         = Assign(e, i, x, e.seq[i], y, e.used, TRUE)
<1> DEFINE pos == [e.pos EXCEPT ![i] = x]
           seq == [e.seq EXCEPT ![i] = e.seq[i]]
           shift == [e.shift EXCEPT ![i] = y]
<1>1. seq = e.seq
  BY DEF Loose
<1>2. /\ Assign(e, i, x, e.seq[i], y, e.used, TRUE)
         = [e EXCEPT !.pos = pos, !.seq = seq, !.shift = shift, !.used = e.used, !.has_shift = TRUE]
      /\ [e EXCEPT !.pos[i] = x, !.shift[i] = y, !.has_shift = TRUE]
         = [e EXCEPT !.pos = pos, !.shift = shift, !.has_shift = TRUE]
  BY DEF Loose, Assign
<1> HIDE DEF pos, seq, shift
<1>3. [e EXCEPT !.pos = pos, !.seq = seq, !.shift = shift, !.used = e.used, !.has_shift = TRUE]
      = [e EXCEPT !.pos = pos, !.shift = shift, !.has_shift = TRUE]
  BY <1>1 DEF Loose
<1> QED
  BY <1>2, <1>3

LEMMA AssignPlaced ==
  ASSUME NEW e \in Loose, NEW i \in Cell, NEW x, NEW used
  PROVE  [e EXCEPT !.pos[i] = x, !.used = used]
         = Assign(e, i, x, e.seq[i], e.shift[i], used, e.has_shift)
<1> DEFINE pos == [e.pos EXCEPT ![i] = x]
           seq == [e.seq EXCEPT ![i] = e.seq[i]]
           shift == [e.shift EXCEPT ![i] = e.shift[i]]
<1>1. seq = e.seq /\ shift = e.shift
  BY DEF Loose
<1>2. /\ Assign(e, i, x, e.seq[i], e.shift[i], used, e.has_shift)
         = [e EXCEPT !.pos = pos, !.seq = seq, !.shift = shift, !.used = used,
                  !.has_shift = e.has_shift]
      /\ [e EXCEPT !.pos[i] = x, !.used = used]
         = [e EXCEPT !.pos = pos, !.used = used]
  BY DEF Loose, Assign
<1> HIDE DEF pos, seq, shift
<1>3. [e EXCEPT !.pos = pos, !.seq = seq, !.shift = shift, !.used = used,
                  !.has_shift = e.has_shift]
      = [e EXCEPT !.pos = pos, !.used = used]
  BY <1>1 DEF Loose
<1> QED
  BY <1>2, <1>3

LEMMA AssignRestored ==
  ASSUME NEW e \in Loose, NEW i \in Cell, NEW x, NEW z, NEW used
  PROVE  [e EXCEPT !.pos[i] = x, !.seq[i] = z, !.used = used]
         = Assign(e, i, x, z, e.shift[i], used, e.has_shift)
<1> DEFINE pos == [e.pos EXCEPT ![i] = x]
           seq == [e.seq EXCEPT ![i] = z]
           shift == [e.shift EXCEPT ![i] = e.shift[i]]
<1>1. shift = e.shift
  BY DEF Loose
<1>2. /\ Assign(e, i, x, z, e.shift[i], used, e.has_shift)
         = [e EXCEPT !.pos = pos, !.seq = seq, !.shift = shift, !.used = used,
                  !.has_shift = e.has_shift]
      /\ [e EXCEPT !.pos[i] = x, !.seq[i] = z, !.used = used]
         = [e EXCEPT !.pos = pos, !.seq = seq, !.used = used]
  BY DEF Loose, Assign
<1> HIDE DEF pos, seq, shift
<1>3. [e EXCEPT !.pos = pos, !.seq = seq, !.shift = shift, !.used = used,
                  !.has_shift = e.has_shift]
      = [e EXCEPT !.pos = pos, !.seq = seq, !.used = used]
  BY <1>1 DEF Loose
<1> QED
  BY <1>2, <1>3

LEMMA AssignMoved ==
  ASSUME NEW e \in Loose, NEW i \in Cell, NEW y
  PROVE  [e EXCEPT !.has_shift = TRUE, !.shift[i] = y]
         = Assign(e, i, e.pos[i], e.seq[i], y, e.used, TRUE)
<1> DEFINE pos == [e.pos EXCEPT ![i] = e.pos[i]]
           seq == [e.seq EXCEPT ![i] = e.seq[i]]
           shift == [e.shift EXCEPT ![i] = y]
<1>1. pos = e.pos /\ seq = e.seq
  BY DEF Loose
<1>2. /\ Assign(e, i, e.pos[i], e.seq[i], y, e.used, TRUE)
         = [e EXCEPT !.pos = pos, !.seq = seq, !.shift = shift, !.used = e.used, !.has_shift = TRUE]
      /\ [e EXCEPT !.has_shift = TRUE, !.shift[i] = y]
         = [e EXCEPT !.has_shift = TRUE, !.shift = shift]
  BY DEF Loose, Assign
<1> HIDE DEF pos, seq, shift
<1>3. [e EXCEPT !.pos = pos, !.seq = seq, !.shift = shift, !.used = e.used, !.has_shift = TRUE]
      = [e EXCEPT !.has_shift = TRUE, !.shift = shift]
  BY <1>1 DEF Loose
<1> QED
  BY <1>2, <1>3

\* seq_add of a cell
LEMMA CellSeqAddJoins ==
  ASSUME use \in Uses, NEW c, Sound(c), NEW i \in Cell, c.pos[i] # None,
         NEW s \in Seqs, s \notin c.seq[i], NEW ss, ss = c.seq[i] \cup {s},
         NEW d, d = CellSeqAdd(c, i, s)
  PROVE  /\ Sound(d) /\ Differs(c, d, i, c.pos[i], ss, c.shift[i])
         /\ d.has_shift = c.has_shift
         /\ Whole(c) => Whole(d)
<1> DEFINE e == Count(c, {s}, c.pos[i], 1)
<1>1. c \in Loose
  BY SoundIsLoose
<1>2. /\ c.pos[i] \in Pos /\ c.pos[i] \in Pos \cup {None} /\ i \in c.used /\ c.shift[i] \in Int
      /\ ss \in SUBSET Seqs /\ c.has_shift \in BOOLEAN /\ c.seq[i] \in SUBSET Seqs
  BY DEF Sound, Cells
<1>3. Recounts(c, e, {}, c.pos[i], {s}, c.pos[i])
  BY <1>1, CountedIn
<1>4. d = Assign(e, i, c.pos[i], ss, c.shift[i], c.used, c.has_shift)
  <2>1. d = [e EXCEPT !.seq[i] = ss]
    BY <1>3 DEF CellSeqAdd, Recounts
  <2> HIDE DEF e
  <2>0. e \in Loose /\ i \in Cell
    BY <1>3 DEF Recounts
  <2>2. d = Assign(e, i, e.pos[i], ss, e.shift[i], e.used, e.has_shift)
    BY ONLY <2>0, <2>1, AssignOne
  <2> QED
    BY <1>3, <2>2 DEF Recounts
<1>5. c.used = c.used \cup {i}
  BY <1>2
<1>6. ss \ {s} = c.seq[i] \ {} /\ {s} \subseteq ss /\ {} \subseteq c.seq[i] /\ ss # {}
  OBVIOUS
<1> HIDE DEF e
<1>7. Moves(c, e, {}, {s}, d, i, c.pos[i], ss, c.shift[i], c.used, c.has_shift)
  BY <1>2, <1>3, <1>4, <1>5, <1>6 DEF Moves
<1>8. /\ Sound(d) /\ Differs(c, d, i, c.pos[i], ss, c.shift[i]) /\ d.has_shift = c.has_shift
      /\ Whole(c) /\ (c.pos[i] = None <=> ss = {}) => Whole(d)
  <2>1. use \in Uses /\ Sound(c)
    OBVIOUS
  <2> QED
    BY ONLY <1>7, <2>1, Recounted
<1> QED
  BY <1>6, <1>8

\* pos_set of an empty cell
LEMMA PosSetPlaces ==
  ASSUME use \in Uses, NEW c, Sound(c), NEW i \in Cell, c.seq[i] = {}, NEW p \in Pos,
         NEW d, d = PosSet(c, i, p)
  PROVE  Sound(d) /\ Differs(c, d, i, p, {}, c.shift[i]) /\ d.has_shift = c.has_shift
<1>1. c \in Loose
  BY SoundIsLoose
<1>2. /\ p \in Pos \cup {None} /\ p # None /\ c.shift[i] \in Int
      /\ {} \in SUBSET Seqs /\ c.has_shift \in BOOLEAN
  BY CellTypes DEF Sound, Cells
<1>3. Recounts(c, c, {}, c.pos[i], {}, p)
  <2>1. \A s \in Seqs, q \in Pos : c.seq_pos[s][q] \in Int
    BY <1>1 DEF Loose
  <2> QED
    BY <1>1, <2>1 DEF Recounts
<1> DEFINE used == c.used \cup {i}
<1>4. d = Assign(c, i, p, {}, c.shift[i], used, c.has_shift)
  <2>1. d = [c EXCEPT !.pos[i] = p, !.used = used]
    BY DEF PosSet
  <2> HIDE DEF used
  <2>0. i \in Cell
    OBVIOUS
  <2>2. d = Assign(c, i, p, c.seq[i], c.shift[i], used, c.has_shift)
    BY ONLY <1>1, <2>0, <2>1, AssignPlaced
  <2> QED
    BY <2>2
<1>5. used = c.used \cup {i}
  OBVIOUS
<1> HIDE DEF used
<1>6. Moves(c, c, {}, {}, d, i, p, {}, c.shift[i], used, c.has_shift)
  BY <1>2, <1>3, <1>4, <1>5 DEF Moves
<1>7. Sound(d) /\ Differs(c, d, i, p, {}, c.shift[i]) /\ d.has_shift = c.has_shift
  <2>1. use \in Uses /\ Sound(c)
    OBVIOUS
  <2> QED
    BY ONLY <1>6, <2>1, Recounted
<1> QED
  BY <1>7

\* Only the cell i changes.
Touched(c, d, i) ==
  /\ Good(d) /\ d.head = c.head
  /\ \A j \in Cell \ {i} : d.pos[j] = c.pos[j] /\ d.seq[j] = c.seq[j] /\ d.shift[j] = c.shift[j]

LEMMA TouchedBy ==
  ASSUME NEW c \in Loose, NEW i \in Cell, NEW d, Good(d), NEW p, NEW ss, NEW shift,
         Differs(c, d, i, p, ss, shift)
  PROVE  Touched(c, d, i) /\ d.pos[i] = p /\ d.seq[i] = ss /\ d.shift[i] = shift
<1>1. /\ c.pos \in [Cell -> Pos \cup {None}] /\ c.seq \in [Cell -> SUBSET Seqs]
      /\ c.shift \in [Cell -> Int]
  BY DEF Loose
<1>2. \A j \in Cell \ {i} : d.pos[j] = c.pos[j] /\ d.seq[j] = c.seq[j] /\ d.shift[j] = c.shift[j]
  BY <1>1 DEF Differs
<1>3. d.pos[i] = p /\ d.seq[i] = ss /\ d.shift[i] = shift /\ d.head = c.head
  BY <1>1 DEF Differs
<1> QED
  BY <1>2, <1>3 DEF Touched

\* Nothing is counted anew.
LEMMA CountedAsBefore ==
  ASSUME NEW c \in Loose, NEW p, NEW q
  PROVE  Recounts(c, c, {}, p, {}, q)
<1>1. \A s \in Seqs, r \in Pos : c.seq_pos[s][r] \in Int
  BY DEF Loose
<1> QED
  BY <1>1 DEF Recounts

\* pos_add moves a cell, its key to follow, or erases it.
LEMMA PosAddMoves ==
  ASSUME use \in Uses, NEW c, Good(c), NEW i \in Cell, c.pos[i] # None, NEW delta \in Int,
         c.pos[i] + delta <= use.last, NEW d, d = PosAdd(c, i, delta)
  PROVE  /\ Touched(c, d, i) /\ d.seq[i] \subseteq c.seq[i]
         /\ \/ d.pos[i] # None /\ d.pos[i] = c.pos[i] + delta /\ d.shift[i] = c.shift[i] + delta
            \/ d.pos[i] = None /\ d.shift[i] = 0
<1> DEFINE p == c.pos[i] + delta
           moved == [c EXCEPT !.has_shift = TRUE, !.shift[i] = @ + delta]
           to == c.shift[i] + delta
           yes == TRUE
<1>1. Sound(c) /\ Whole(c) /\ c \in Loose
  BY SoundIsLoose DEF Good
<1>2. /\ c.pos[i] \in Pos /\ c.pos[i] \in Pos \cup {None} /\ i \in c.used /\ c.shift[i] \in Int
      /\ c.seq[i] \in SUBSET Seqs /\ c.seq[i] # {} /\ to \in Int
  BY CellOf
<1>3. c.pos[i] \in Int /\ p \in Int /\ (p >= 0 => p \in Pos /\ p # None)
  BY <1>2, CellTypes DEF Pos, None
<1>4. moved = Assign(c, i, c.pos[i], c.seq[i], to, c.used, yes)
  <2>1. moved = [c EXCEPT !.has_shift = TRUE, !.shift[i] = to]
    BY <1>1 DEF Loose
  <2>2. i \in Cell
    OBVIOUS
  <2> HIDE DEF moved, to
  <2>3. moved = Assign(c, i, c.pos[i], c.seq[i], to, c.used, TRUE)
    BY ONLY <1>1, <2>1, <2>2, AssignMoved
  <2> QED
    BY <2>3
<1> HIDE DEF moved, p, to
<1>5. /\ Sound(moved) /\ Whole(moved) /\ Differs(c, moved, i, c.pos[i], c.seq[i], to)
      /\ moved.has_shift = yes
  <2>1. Recounts(c, c, {}, c.pos[i], {}, c.pos[i])
    BY <1>1, CountedAsBefore
  <2>2. c.used = c.used \cup {i}
    BY <1>2
  <2>3. Moves(c, c, {}, {}, moved, i, c.pos[i], c.seq[i], to, c.used, yes)
    BY <1>2, <1>4, <2>1, <2>2 DEF Moves
  <2>4. use \in Uses /\ (c.pos[i] = None <=> c.seq[i] = {})
    BY <1>2, CellOf
  <2> HIDE DEF yes
  <2> QED
    BY ONLY <1>1, <2>3, <2>4, Recounted
<1>6. moved \in Loose
  BY <1>5, SoundIsLoose
<1>7. moved.pos[i] = c.pos[i] /\ moved.seq[i] = c.seq[i] /\ moved.shift[i] = to
      /\ Touched(c, moved, i)
  BY <1>1, <1>5, TouchedBy DEF Good
<1>8. CASE p < 0
  <2>1. d = Rm(moved, i)
    BY <1>8 DEF PosAdd, moved, p
  <2>2. Sound(d) /\ Whole(d) /\ Differs(moved, d, i, None, {}, 0)
    BY <1>5, <2>1, RmErases
  <2>3. Touched(moved, d, i) /\ d.pos[i] = None /\ d.seq[i] = {} /\ d.shift[i] = 0
    BY <1>6, <2>2, TouchedBy DEF Good
  <2> QED
    BY <1>7, <2>3 DEF Touched
<1>9. CASE p >= 0
  <2> DEFINE e == Count(Count(moved, c.seq[i], c.pos[i], -1), c.seq[i], p, 1)
  <2>1. Recounts(moved, e, c.seq[i], c.pos[i], c.seq[i], p)
    BY <1>6, CountedOver
  <2>2. ~ p < 0
    BY <1>3, <1>9
  <2>3. d = [e EXCEPT !.pos[i] = p]
    BY <2>2 DEF PosAdd, p, moved
  <2> HIDE DEF e
  <2>4. e \in Loose /\ i \in Cell
    BY <2>1 DEF Recounts
  <2>5. d = Assign(e, i, p, e.seq[i], e.shift[i], e.used, e.has_shift)
    BY ONLY <2>3, <2>4, AssignOne
  <2>6. d = Assign(e, i, p, c.seq[i], to, moved.used, yes)
    BY <1>5, <1>7, <2>1, <2>5 DEF Recounts
  <2>7. moved.used = moved.used \cup {i}
    BY <1>2, <1>5, <1>7 DEF Sound
  <2>8. Moves(moved, e, c.seq[i], c.seq[i], d, i, p, c.seq[i], to, moved.used, yes)
    BY <1>2, <1>3, <1>7, <1>9, <2>1, <2>6, <2>7 DEF Moves
  <2>9. use \in Uses /\ (p = None <=> c.seq[i] = {})
    BY <1>2, <1>3, <1>9
  <2> HIDE DEF yes
  <2>10. Sound(d) /\ Whole(d) /\ Differs(moved, d, i, p, c.seq[i], to)
    BY ONLY <1>5, <2>8, <2>9, Recounted
  <2>11. Touched(moved, d, i) /\ d.pos[i] = p /\ d.seq[i] = c.seq[i] /\ d.shift[i] = to
    BY <1>6, <2>10, TouchedBy DEF Good
  <2> QED
    BY <1>3, <1>7, <1>9, <2>11 DEF Touched, p, to
<1> QED
  BY <1>3, <1>8, <1>9

\* pos_div moves a cell towards the beginning.
LEMMA PosDivMoves ==
  ASSUME use \in Uses, NEW c, Good(c), NEW i \in Cell, c.pos[i] # None, NEW by \in Nat \ {0},
         NEW d, d = PosDiv(c, i, by)
  PROVE  Touched(c, d, i) /\ d.seq[i] = c.seq[i] /\ d.pos[i] # None
<1> DEFINE p == c.pos[i] \div by
           e == Count(Count(c, c.seq[i], c.pos[i], -1), c.seq[i], p, 1)
           to == c.shift[i] + (c.pos[i] - p)
           yes == TRUE
<1>1. Sound(c) /\ Whole(c) /\ c \in Loose
  BY SoundIsLoose DEF Good
<1>2. /\ c.pos[i] \in Pos /\ i \in c.used /\ c.shift[i] \in Int
      /\ c.seq[i] \in SUBSET Seqs /\ c.seq[i] # {}
  BY CellOf
<1>3. p \in Pos /\ p # None /\ p \in Pos \cup {None} /\ to \in Int
  <2>1. c.pos[i] \in Nat /\ c.pos[i] <= use.last /\ use.last \in Nat
    BY <1>2, CellTypes DEF Pos
  <2>2. p \in Nat /\ p <= c.pos[i]
    BY <2>1
  <2>3. p \in 0 .. use.last
    BY <2>1, <2>2
  <2> HIDE DEF p
  <2> QED
    BY <1>2, <2>1, <2>2, <2>3 DEF Pos, None
<1>4. Recounts(c, e, c.seq[i], c.pos[i], c.seq[i], p)
  BY <1>1, CountedOver
<1>5. d = [e EXCEPT !.pos[i] = p, !.shift[i] = to, !.has_shift = TRUE]
  <2>1. e.shift = c.shift /\ e \in Loose
    BY <1>4 DEF Recounts
  <2>2. d = [e EXCEPT !.pos[i] = p, !.shift[i] = e.shift[i] + (c.pos[i] - p), !.has_shift = TRUE]
    BY DEF PosDiv
  <2> HIDE DEF e, p
  <2> QED
    BY <2>1, <2>2
<1> HIDE DEF e, p, to
<1>6. e \in Loose /\ i \in Cell
  BY <1>4 DEF Recounts
<1>7. d = Assign(e, i, p, e.seq[i], to, e.used, TRUE)
  BY ONLY <1>5, <1>6, AssignShifted
<1>8. d = Assign(e, i, p, c.seq[i], to, c.used, yes)
  BY <1>4, <1>7 DEF Recounts
<1>9. c.used = c.used \cup {i}
  BY <1>2
<1>10. Moves(c, e, c.seq[i], c.seq[i], d, i, p, c.seq[i], to, c.used, yes)
  BY <1>2, <1>3, <1>4, <1>8, <1>9 DEF Moves
<1>11. use \in Uses /\ (p = None <=> c.seq[i] = {})
  BY <1>2, <1>3
<1> HIDE DEF yes
<1>12. Sound(d) /\ Whole(d) /\ Differs(c, d, i, p, c.seq[i], to)
  BY ONLY <1>1, <1>10, <1>11, Recounted
<1> QED
  BY <1>1, <1>3, <1>12, TouchedBy DEF Good

\* A cell as it is put back by prepare: the position and the sequences of old.
PutBack(c, i, old) ==
  LET gone == IF c.pos[i] = None THEN c ELSE Count(c, c.seq[i], c.pos[i], -1)
      back == [gone EXCEPT !.pos[i] = old.pos[i], !.seq[i] = old.seq[i],
                 !.used = IF old.pos[i] = None THEN @ \ {i} ELSE @ \cup {i}]
  IN IF old.pos[i] = None THEN back ELSE Count(back, old.seq[i], old.pos[i], 1)

LEMMA PutBackRestores ==
  ASSUME use \in Uses, NEW c, Good(c), NEW i \in Cell, NEW old, Good(old),
         NEW d, d = PutBack(c, i, old)
  PROVE  /\ Touched(c, d, i) /\ d.pos[i] = old.pos[i] /\ d.seq[i] = old.seq[i]
         /\ d.shift[i] = c.shift[i]
<1> DEFINE p == old.pos[i]
           ss == old.seq[i]
           gone == IF c.pos[i] = None THEN c ELSE Count(c, c.seq[i], c.pos[i], -1)
           used == IF p = None THEN gone.used \ {i} ELSE gone.used \cup {i}
           back == [gone EXCEPT !.pos[i] = p, !.seq[i] = ss, !.used = used]
<1>1. Sound(c) /\ Whole(c) /\ c \in Loose
  BY SoundIsLoose DEF Good
<1>2. /\ c.pos[i] \in Pos \cup {None} /\ c.seq[i] \in SUBSET Seqs /\ c.shift[i] \in Int
      /\ c.used \in SUBSET Cell /\ c.has_shift \in BOOLEAN /\ (c.pos[i] = None <=> c.seq[i] = {})
  BY CellOf
<1>3. p \in Pos \cup {None} /\ ss \in SUBSET Seqs /\ (p = None <=> ss = {})
  BY CellOf
<1>4. Recounts(c, gone, c.seq[i], c.pos[i], {}, p)
  <2>1. CASE c.pos[i] = None
    <3>1. Recounts(c, c, {}, c.pos[i], {}, p)
      BY <1>1, CountedAsBefore
    <3>2. c.seq[i] = {} /\ gone = c
      BY <1>2, <2>1
    <3> HIDE DEF gone, p
    <3> QED
      BY <3>1, <3>2
  <2>2. CASE c.pos[i] # None
    <3>1. gone = Count(c, c.seq[i], c.pos[i], -1)
      BY <2>2
    <3> HIDE DEF gone, p
    <3> QED
      BY <1>1, <3>1, CountedOut
  <2> QED
    BY <2>1, <2>2
<1>5. d = IF p = None THEN back ELSE Count(back, ss, p, 1)
  BY DEF PutBack
<1>6. used = IF p = None THEN c.used \ {i} ELSE c.used \cup {i}
  <2> HIDE DEF gone, p
  <2> QED
    BY <1>4 DEF Recounts
<1>7. back = [gone EXCEPT !.pos[i] = p, !.seq[i] = ss, !.used = used]
  OBVIOUS
<1> HIDE DEF p, ss, gone, used, back
<1>8. gone \in Loose /\ i \in Cell /\ used \in SUBSET Cell
  BY <1>2, <1>4, <1>6 DEF Recounts
<1>9. back = Assign(gone, i, p, ss, gone.shift[i], used, gone.has_shift)
  BY ONLY <1>7, <1>8, AssignRestored
<1>10. gone.shift[i] \in Int /\ gone.has_shift \in BOOLEAN
  BY <1>8 DEF Loose
<1>11. /\ back \in Loose /\ Differs(gone, back, i, p, ss, gone.shift[i])
       /\ back.used = used /\ back.seq_pos = gone.seq_pos
  BY <1>3, <1>8, <1>9, <1>10, Assigned
<1>12. Recounts(back, d, {}, p, ss, p)
  <2>1. CASE p = None
    <3>1. Recounts(back, back, {}, p, {}, p)
      BY <1>11, CountedAsBefore
    <3> QED
      BY <1>3, <1>5, <2>1, <3>1
  <2>2. CASE p # None
    <3>1. d = Count(back, ss, p, 1)
      BY <1>5, <2>2
    <3> QED
      BY <1>11, <3>1, CountedIn
  <2> QED
    BY <2>1, <2>2
<1>13. d \in Loose /\ Differs(c, d, i, p, ss, c.shift[i]) /\ d.used = used
  BY <1>4, <1>11, <1>12 DEF Recounts, Differs
<1>14. ASSUME NEW s \in Seqs, NEW q \in Pos
       PROVE  d.seq_pos[s][q] = c.seq_pos[s][q] - Bit(c, i, s, q) + Bit(d, i, s, q)
  <2>1. c.seq_pos[s][q] \in Int
    BY <1>1 DEF Loose
  <2>2. d.pos[i] = p /\ d.seq[i] = ss
    <3>1. c.pos \in [Cell -> Pos \cup {None}] /\ c.seq \in [Cell -> SUBSET Seqs]
      BY <1>1 DEF Loose
    <3> QED
      BY <1>13, <3>1 DEF Differs
  <2>3. gone.seq_pos[s][q] = c.seq_pos[s][q] - Bit(c, i, s, q)
    BY <1>4, <2>1 DEF Recounts, Bit
  <2>4. d.seq_pos[s][q] = back.seq_pos[s][q] + Bit(d, i, s, q)
    <3>1. back.seq_pos[s][q] \in Int
      BY <1>11 DEF Loose
    <3> QED
      BY <1>12, <2>2, <3>1 DEF Recounts, Bit
  <2> QED
    BY <1>11, <2>3, <2>4
<1>15. Follows(c, d, i, p, ss, c.shift[i])
  BY <1>3, <1>6, <1>8, <1>13, <1>14 DEF Follows
<1>16. Good(d)
  BY <1>1, <1>3, <1>15, StaysSound DEF Good
<1>17. Touched(c, d, i) /\ d.pos[i] = p /\ d.seq[i] = ss /\ d.shift[i] = c.shift[i]
  BY <1>1, <1>13, <1>16, TouchedBy
<1> QED
  BY <1>17 DEF p, ss

-----------------------------------------------------------------------------
(* Folds over cells.                                                       *)

\* Every step of a fold keeps what Reach says of a set and the result so far.
Keeps(S, X, base, pick, G, Reach) ==
  /\ Picks(S, pick) /\ DOMAIN G = S \X X
  /\ Reach \subseteq (SUBSET S) \X X /\ <<{}, base>> \in Reach
  /\ \A U \in SUBSET S, d \in X :
       U # {} /\ <<U \ {pick[U]}, d>> \in Reach => <<U, G[<<pick[U], d>>]>> \in Reach

Solved(S, base, pick, G, f) ==
  f = [U \in SUBSET S |-> IF U = {} THEN base ELSE G[<<pick[U], f[U \ {pick[U]}]>>]]

\* Then the recursion has a solution, of which Reach holds.
LEMMA FoldRuns ==
  ASSUME NEW S, NEW X, NEW base, NEW G, NEW pick, NEW Reach,
         Keeps(S, X, base, pick, G, Reach)
  PROVE  \E f : Solved(S, base, pick, G, f) /\ Reached(S, f, Reach)
<1>0. /\ IsFiniteSet(S) /\ DOMAIN G = S \X X
      /\ \A U \in SUBSET S : U # {} => pick[U] \in U
      /\ Reach \subseteq (SUBSET S) \X X /\ <<{}, base>> \in Reach
      /\ \A U \in SUBSET S, d \in X :
           U # {} /\ <<U \ {pick[U]}, d>> \in Reach => <<U, G[<<pick[U], d>>]>> \in Reach
  BY DEF Keeps, Picks
<1> DEFINE H == [q \in S \X X |-> IF G[q] \in X THEN G[q] ELSE base]
<1>1. base \in X
  BY <1>0
<1>2. H \in [S \X X -> X]
  BY <1>1
<1>3. \A i \in S, d \in X : H[<<i, d>>] = IF G[<<i, d>>] \in X THEN G[<<i, d>>] ELSE base
  OBVIOUS
<1> HIDE DEF H
<1>4. PICK f \in [SUBSET S -> X] : Folds(S, base, pick, H, f)
  BY <1>0, <1>1, <1>2, FoldExists
<1>5. \A U \in SUBSET S : f[U] = IF U = {} THEN base ELSE H[<<pick[U], f[U \ {pick[U]}]>>]
  BY <1>4 DEF Folds
<1>6. ASSUME NEW U \in SUBSET S, U # {}, <<U \ {pick[U]}, f[U \ {pick[U]}]>> \in Reach
      PROVE  /\ <<U, G[<<pick[U], f[U \ {pick[U]}]>>]>> \in Reach
             /\ f[U] = G[<<pick[U], f[U \ {pick[U]}]>>]
  <2>1. f[U \ {pick[U]}] \in X /\ pick[U] \in S
    BY <1>0, <1>6
  <2>2. <<U, G[<<pick[U], f[U \ {pick[U]}]>>]>> \in Reach
    BY <1>0, <1>6, <2>1
  <2>3. G[<<pick[U], f[U \ {pick[U]}]>>] \in X
    BY <1>0, <2>2
  <2> QED
    BY <1>3, <1>5, <1>6, <2>1, <2>2, <2>3
<1>7. <<{}, f[{}]>> \in Reach
  BY <1>0, <1>5
<1>8. \A U \in SUBSET S : U # {} /\ <<U \ {pick[U]}, f[U \ {pick[U]}]>> \in Reach
                            => <<U, f[U]>> \in Reach
  BY <1>6
<1>9. \A U \in SUBSET S : <<U, f[U]>> \in Reach
  <2>1. Picks(S, pick) /\ KeptBy(S, pick, f, Reach)
    BY <1>7, <1>8 DEF Keeps, KeptBy
  <2>2. Reached(S, f, Reach)
    BY ONLY <2>1, FoldReaches
  <2> QED
    BY <2>2 DEF Reached
<1>10. ASSUME NEW U \in SUBSET S
       PROVE  f[U] = IF U = {} THEN base ELSE G[<<pick[U], f[U \ {pick[U]}]>>]
  <2>1. CASE U = {}
    BY <1>5, <2>1
  <2>2. CASE U # {}
    <3>1. U \ {pick[U]} \in SUBSET S
      OBVIOUS
    <3>2. <<U \ {pick[U]}, f[U \ {pick[U]}]>> \in Reach
      BY <1>9, <3>1
    <3> QED
      BY <1>6, <2>2, <3>2
  <2> QED
    BY <2>1, <2>2
<1>11. f = [U \in SUBSET S |-> IF U = {} THEN base ELSE G[<<pick[U], f[U \ {pick[U]}]>>]]
  BY <1>4, <1>10
<1> QED
  BY <1>9, <1>11 DEF Solved, Reached

Without(d, U, s) == \A j \in U : s \notin d.seq[j]

\* seq_rm of cells that hold the sequence
LEMMA SeqRmFold ==
  ASSUME use \in Uses, NEW c, Good(c), NEW S \in SUBSET Cell, NEW s \in Seqs,
         \A i \in S : s \in c.seq[i]
  PROVE  LET d == FoldSet(LAMBDA i, d : CellSeqRm(d, i, s), c, S) IN Thinned(c, d, S) /\ Without(d, S, s)
<1> DEFINE pick == [U \in SUBSET S |-> CHOOSE x \in U : TRUE]
           Reach == {q \in (SUBSET S) \X Cells : Thinned(c, q[2], q[1]) /\ Without(q[2], q[1], s)}
           G == [q \in S \X Cells |-> CellSeqRm(q[2], q[1], s)]
           Recursion(h) == h = [U \in SUBSET S |->
             IF U = {} THEN c ELSE CellSeqRm(h[U \ {CHOOSE x \in U : TRUE}], (CHOOSE x \in U : TRUE), s)]
           h == CHOOSE h : Recursion(h)
<1>1. Picks(S, pick)
  BY CellTypes, FS_Subset DEF Picks
<1>2. \A U \in SUBSET S : U # {} => pick[U] \in U
  BY <1>1 DEF Picks
<1>3. \A U \in SUBSET S : \A d : <<U, d>> \in Reach <=> Thinned(c, d, U) /\ Without(d, U, s)
  BY DEF Thinned, Good, Sound
<1>4. <<{}, c>> \in Reach
  BY <1>3, ThinNone DEF Without
<1>5. ASSUME NEW U \in SUBSET S, NEW d, U # {}, <<U \ {pick[U]}, d>> \in Reach
      PROVE  <<U, CellSeqRm(d, pick[U], s)>> \in Reach
  <2>1. Thinned(c, d, U \ {pick[U]}) /\ Without(d, U \ {pick[U]}, s)
    BY <1>3, <1>5
  <2>2. pick[U] \in Cell /\ pick[U] \in S /\ (U \ {pick[U]}) \cup {pick[U]} = U
    BY <1>2, <1>5
  <2> DEFINE i == pick[U]
             e == CellSeqRm(d, i, s)
  <2> HIDE DEF pick, i, e
  <2>3. Good(d) /\ s \in d.seq[i] /\ i \in Cell
    BY <2>1, <2>2 DEF Thinned, i
  <2>4. Thinned(d, e, {i}) /\ s \notin e.seq[i]
    BY <2>3, CellSeqRmThins DEF e
  <2>5. Thinned(c, e, (U \ {pick[U]}) \cup {i})
    BY ONLY <2>1, <2>4, ThinMore
  <2>6. Without(e, U, s)
    BY <2>1, <2>2, <2>4 DEF Without, Thinned, i
  <2> QED
    BY <1>3, <2>2, <2>5, <2>6 DEF i, e
<1>6. \E f : Recursion(f)
  <2>1. \A x \in S, d \in Cells : G[<<x, d>>] = CellSeqRm(d, x, s)
    OBVIOUS
  <2>2. Keeps(S, Cells, c, pick, G, Reach)
    <3>1. \A U \in SUBSET S, d \in Cells :
            U # {} /\ <<U \ {pick[U]}, d>> \in Reach => <<U, G[<<pick[U], d>>]>> \in Reach
      BY <1>2, <1>5, <2>1
    <3>2. DOMAIN G = S \X Cells /\ Reach \subseteq (SUBSET S) \X Cells
      OBVIOUS
    <3> HIDE DEF pick, Reach, G
    <3> QED
      BY <1>1, <1>4, <3>1, <3>2 DEF Keeps
  <2>3. Reach \subseteq (SUBSET S) \X Cells
    OBVIOUS
  <2> HIDE DEF pick, Reach, G
  <2>4. PICK f : Solved(S, c, pick, G, f) /\ Reached(S, f, Reach)
    BY ONLY <2>2, FoldRuns
  <2>5. ASSUME NEW U \in SUBSET S, U # {}
        PROVE  G[<<pick[U], f[U \ {pick[U]}]>>] = CellSeqRm(f[U \ {pick[U]}], pick[U], s)
    <3>1. U \ {pick[U]} \in SUBSET S /\ pick[U] \in S
      BY <1>2, <2>5
    <3>2. f[U \ {pick[U]}] \in Cells
      BY <2>3, <2>4, <3>1 DEF Reached
    <3> QED
      BY <2>1, <3>1, <3>2
  <2>6. f = [U \in SUBSET S |-> IF U = {} THEN c ELSE CellSeqRm(f[U \ {pick[U]}], pick[U], s)]
    BY <2>4, <2>5 DEF Solved
  <2>7. \A U \in SUBSET S : pick[U] = CHOOSE x \in U : TRUE
    BY DEF pick
  <2>8. f = [U \in SUBSET S |-> IF U = {} THEN c ELSE CellSeqRm(f[U \ {CHOOSE x \in U : TRUE}], (CHOOSE x \in U : TRUE), s)]
    BY ONLY <2>6, <2>7
  <2> QED
    BY <2>8
<1>7. FoldSet(LAMBDA i, d : CellSeqRm(d, i, s), c, S) = h[S]
  BY DEF FoldSet, MapThenFoldSet
<1>8. \A U \in SUBSET S : h[U] = IF U = {} THEN c ELSE CellSeqRm(h[U \ {pick[U]}], pick[U], s)
  <2>1. Recursion(h)
    BY <1>6
  <2> HIDE DEF h
  <2> QED
    BY <2>1
<1> HIDE DEF Recursion, h, pick, Reach
<1>9. Reached(S, h, Reach)
  <2>1. KeptBy(S, pick, h, Reach)
    BY <1>4, <1>5, <1>8 DEF KeptBy
  <2> QED
    BY ONLY <1>1, <2>1, FoldReaches
<1>10. Thinned(c, h[S], S) /\ Without(h[S], S, s)
  BY <1>3, <1>9 DEF Reached
<1> QED
  BY <1>7, <1>10

\* rm of cells
LEMMA RmFold ==
  ASSUME use \in Uses, NEW c, Good(c), NEW S \in SUBSET Cell
  PROVE  Thinned(c, FoldSet(LAMBDA i, d : Rm(d, i), c, S), S)
<1> DEFINE pick == [U \in SUBSET S |-> CHOOSE x \in U : TRUE]
           Reach == {q \in (SUBSET S) \X Cells : Thinned(c, q[2], q[1])}
           G == [q \in S \X Cells |-> Rm(q[2], q[1])]
           Recursion(h) == h = [U \in SUBSET S |->
             IF U = {} THEN c ELSE Rm(h[U \ {CHOOSE x \in U : TRUE}], (CHOOSE x \in U : TRUE))]
           h == CHOOSE h : Recursion(h)
<1>1. Picks(S, pick)
  BY CellTypes, FS_Subset DEF Picks
<1>2. \A U \in SUBSET S : U # {} => pick[U] \in U
  BY <1>1 DEF Picks
<1>3. \A U \in SUBSET S : \A d : <<U, d>> \in Reach <=> Thinned(c, d, U)
  BY DEF Thinned, Good, Sound
<1>4. <<{}, c>> \in Reach
  BY <1>3, ThinNone
<1>5. ASSUME NEW U \in SUBSET S, NEW d, U # {}, <<U \ {pick[U]}, d>> \in Reach
      PROVE  <<U, Rm(d, pick[U])>> \in Reach
  <2>1. Thinned(c, d, U \ {pick[U]})
    BY <1>3, <1>5
  <2>2. pick[U] \in Cell /\ pick[U] \in S /\ (U \ {pick[U]}) \cup {pick[U]} = U
    BY <1>2, <1>5
  <2> HIDE DEF pick
  <2>3. Good(d)
    BY <2>1, <2>2 DEF Thinned
  <2>4. Thinned(d, Rm(d, pick[U]), {pick[U]})
    BY <2>2, <2>3, RmThins
  <2>5. Thinned(c, Rm(d, pick[U]), (U \ {pick[U]}) \cup {pick[U]})
    BY ONLY <2>1, <2>4, ThinMore
  <2> QED
    BY <1>3, <2>2, <2>5
<1>6. \E f : Recursion(f)
  <2>1. \A i \in S, d \in Cells : G[<<i, d>>] = Rm(d, i)
    OBVIOUS
  <2>2. Keeps(S, Cells, c, pick, G, Reach)
    <3>1. \A U \in SUBSET S, d \in Cells :
            U # {} /\ <<U \ {pick[U]}, d>> \in Reach => <<U, G[<<pick[U], d>>]>> \in Reach
      BY <1>2, <1>5, <2>1
    <3>2. DOMAIN G = S \X Cells /\ Reach \subseteq (SUBSET S) \X Cells
      OBVIOUS
    <3> HIDE DEF pick, Reach, G
    <3> QED
      BY <1>1, <1>4, <3>1, <3>2 DEF Keeps
  <2>3. Reach \subseteq (SUBSET S) \X Cells
    OBVIOUS
  <2> HIDE DEF pick, Reach, G
  <2>4. PICK f : Solved(S, c, pick, G, f) /\ Reached(S, f, Reach)
    BY ONLY <2>2, FoldRuns
  <2>5. ASSUME NEW U \in SUBSET S, U # {}
        PROVE  G[<<pick[U], f[U \ {pick[U]}]>>] = Rm(f[U \ {pick[U]}], pick[U])
    <3>1. U \ {pick[U]} \in SUBSET S /\ pick[U] \in S
      BY <1>2, <2>5
    <3>2. f[U \ {pick[U]}] \in Cells
      BY <2>3, <2>4, <3>1 DEF Reached
    <3> QED
      BY <2>1, <3>1, <3>2
  <2>6. f = [U \in SUBSET S |-> IF U = {} THEN c ELSE Rm(f[U \ {pick[U]}], pick[U])]
    BY <2>4, <2>5 DEF Solved
  <2>7. \A U \in SUBSET S : pick[U] = CHOOSE x \in U : TRUE
    BY DEF pick
  <2>8. f = [U \in SUBSET S |-> IF U = {} THEN c ELSE Rm(f[U \ {CHOOSE x \in U : TRUE}], (CHOOSE x \in U : TRUE))]
    BY ONLY <2>6, <2>7
  <2> QED
    BY <2>8
<1>7. FoldSet(LAMBDA i, d : Rm(d, i), c, S) = h[S]
  BY DEF FoldSet, MapThenFoldSet
<1>8. \A U \in SUBSET S : h[U] = IF U = {} THEN c ELSE Rm(h[U \ {pick[U]}], pick[U])
  <2>1. Recursion(h)
    BY <1>6
  <2> HIDE DEF h
  <2> QED
    BY <2>1
<1> HIDE DEF Recursion, h, pick, Reach
<1>9. Reached(S, h, Reach)
  <2>1. KeptBy(S, pick, h, Reach)
    BY <1>4, <1>5, <1>8 DEF KeptBy
  <2> QED
    BY ONLY <1>1, <2>1, FoldReaches
<1>10. Thinned(c, h[S], S)
  BY <1>3, <1>9 DEF Reached
<1> QED
  BY <1>7, <1>10

\* seq_keep of cells
LEMMA SeqKeepFold ==
  ASSUME use \in Uses, NEW c, Good(c), NEW S \in SUBSET Cell, NEW s \in Seqs
  PROVE  Thinned(c, FoldSet(LAMBDA i, d : CellSeqKeep(d, i, s), c, S), S)
<1> DEFINE pick == [U \in SUBSET S |-> CHOOSE x \in U : TRUE]
           Reach == {q \in (SUBSET S) \X Cells : Thinned(c, q[2], q[1])}
           G == [q \in S \X Cells |-> CellSeqKeep(q[2], q[1], s)]
           Recursion(h) == h = [U \in SUBSET S |->
             IF U = {} THEN c ELSE CellSeqKeep(h[U \ {CHOOSE x \in U : TRUE}], (CHOOSE x \in U : TRUE), s)]
           h == CHOOSE h : Recursion(h)
<1>1. Picks(S, pick)
  BY CellTypes, FS_Subset DEF Picks
<1>2. \A U \in SUBSET S : U # {} => pick[U] \in U
  BY <1>1 DEF Picks
<1>3. \A U \in SUBSET S : \A d : <<U, d>> \in Reach <=> Thinned(c, d, U)
  BY DEF Thinned, Good, Sound
<1>4. <<{}, c>> \in Reach
  BY <1>3, ThinNone
<1>5. ASSUME NEW U \in SUBSET S, NEW d, U # {}, <<U \ {pick[U]}, d>> \in Reach
      PROVE  <<U, CellSeqKeep(d, pick[U], s)>> \in Reach
  <2>1. Thinned(c, d, U \ {pick[U]})
    BY <1>3, <1>5
  <2>2. pick[U] \in Cell /\ pick[U] \in S /\ (U \ {pick[U]}) \cup {pick[U]} = U
    BY <1>2, <1>5
  <2> HIDE DEF pick
  <2>3. Good(d)
    BY <2>1, <2>2 DEF Thinned
  <2>4. Thinned(d, CellSeqKeep(d, pick[U], s), {pick[U]})
    BY <2>2, <2>3, CellSeqKeepThins
  <2>5. Thinned(c, CellSeqKeep(d, pick[U], s), (U \ {pick[U]}) \cup {pick[U]})
    BY ONLY <2>1, <2>4, ThinMore
  <2> QED
    BY <1>3, <2>2, <2>5
<1>6. \E f : Recursion(f)
  <2>1. \A i \in S, d \in Cells : G[<<i, d>>] = CellSeqKeep(d, i, s)
    OBVIOUS
  <2>2. Keeps(S, Cells, c, pick, G, Reach)
    <3>1. \A U \in SUBSET S, d \in Cells :
            U # {} /\ <<U \ {pick[U]}, d>> \in Reach => <<U, G[<<pick[U], d>>]>> \in Reach
      BY <1>2, <1>5, <2>1
    <3>2. DOMAIN G = S \X Cells /\ Reach \subseteq (SUBSET S) \X Cells
      OBVIOUS
    <3> HIDE DEF pick, Reach, G
    <3> QED
      BY <1>1, <1>4, <3>1, <3>2 DEF Keeps
  <2>3. Reach \subseteq (SUBSET S) \X Cells
    OBVIOUS
  <2> HIDE DEF pick, Reach, G
  <2>4. PICK f : Solved(S, c, pick, G, f) /\ Reached(S, f, Reach)
    BY ONLY <2>2, FoldRuns
  <2>5. ASSUME NEW U \in SUBSET S, U # {}
        PROVE  G[<<pick[U], f[U \ {pick[U]}]>>] = CellSeqKeep(f[U \ {pick[U]}], pick[U], s)
    <3>1. U \ {pick[U]} \in SUBSET S /\ pick[U] \in S
      BY <1>2, <2>5
    <3>2. f[U \ {pick[U]}] \in Cells
      BY <2>3, <2>4, <3>1 DEF Reached
    <3> QED
      BY <2>1, <3>1, <3>2
  <2>6. f = [U \in SUBSET S |-> IF U = {} THEN c ELSE CellSeqKeep(f[U \ {pick[U]}], pick[U], s)]
    BY <2>4, <2>5 DEF Solved
  <2>7. \A U \in SUBSET S : pick[U] = CHOOSE x \in U : TRUE
    BY DEF pick
  <2>8. f = [U \in SUBSET S |-> IF U = {} THEN c ELSE CellSeqKeep(f[U \ {CHOOSE x \in U : TRUE}], (CHOOSE x \in U : TRUE), s)]
    BY ONLY <2>6, <2>7
  <2> QED
    BY <2>8
<1>7. FoldSet(LAMBDA i, d : CellSeqKeep(d, i, s), c, S) = h[S]
  BY DEF FoldSet, MapThenFoldSet
<1>8. \A U \in SUBSET S : h[U] = IF U = {} THEN c ELSE CellSeqKeep(h[U \ {pick[U]}], pick[U], s)
  <2>1. Recursion(h)
    BY <1>6
  <2> HIDE DEF h
  <2> QED
    BY <2>1
<1> HIDE DEF Recursion, h, pick, Reach
<1>9. Reached(S, h, Reach)
  <2>1. KeptBy(S, pick, h, Reach)
    BY <1>4, <1>5, <1>8 DEF KeptBy
  <2> QED
    BY ONLY <1>1, <2>1, FoldReaches
<1>10. Thinned(c, h[S], S)
  BY <1>3, <1>9 DEF Reached
<1> QED
  BY <1>7, <1>10

\* d is c after the cells of U got the sequence s as well.
At(c, U, p) == {j \in U : c.pos[j] = p}
Joined(c, d, U, s) ==
  /\ d \in Cells /\ d.head = c.head /\ d.used = c.used
  /\ \A j \in Cell : /\ d.pos[j] = c.pos[j] /\ d.shift[j] = c.shift[j]
                     /\ d.seq[j] = IF j \in U THEN c.seq[j] \cup {s} ELSE c.seq[j]
  /\ \A t \in Seqs, p \in Pos : d.seq_pos[t][p] =
       c.seq_pos[t][p] + (IF t = s THEN Cardinality(At(c, U, p)) ELSE 0)

\* seq_add of a cell, whether or not it is the sequence's
LEMMA CellSeqAddCounts ==
  ASSUME use \in Uses, NEW c \in Cells, NEW i \in Cell, NEW s \in Seqs,
         NEW d, d = CellSeqAdd(c, i, s)
  PROVE  /\ d \in Cells /\ d.pos = c.pos /\ d.shift = c.shift /\ d.used = c.used
         /\ d.head = c.head /\ d.seq = [c.seq EXCEPT ![i] = c.seq[i] \cup {s}]
         /\ \A t \in Seqs, p \in Pos : d.seq_pos[t][p] = Step(c, {s}, c.pos[i], 1, t, p)
<1> DEFINE e == Count(c, {s}, c.pos[i], 1)
<1>1. c \in Loose /\ c.seq_pos \in [Seqs -> [Pos -> Nat]] /\ c.seq \in [Cell -> SUBSET Seqs]
  <2>1. c.seq_pos \in [Seqs -> [Pos -> Nat]]
    BY DEF Cells
  <2>2. c.seq_pos \in [Seqs -> [Pos -> Int]]
    BY <2>1
  <2> QED
    BY <2>1, <2>2 DEF Cells, Loose
<1>2. /\ e \in Loose /\ e.pos = c.pos /\ e.seq = c.seq /\ e.shift = c.shift /\ e.used = c.used
      /\ e.has_shift = c.has_shift /\ e.head = c.head
      /\ \A t \in Seqs, p \in Pos : e.seq_pos[t][p] = Step(c, {s}, c.pos[i], 1, t, p)
  BY <1>1, CountAdds
<1>3. e.seq_pos \in [Seqs -> [Pos -> Nat]]
  <2>1. e.seq_pos \in [Seqs -> [Pos -> Int]]
    BY <1>2 DEF Loose
  <2>2. ASSUME NEW t \in Seqs PROVE e.seq_pos[t] \in [Pos -> Nat]
    <3>1. e.seq_pos[t] \in [Pos -> Int] /\ \A p \in Pos : e.seq_pos[t][p] \in Nat
      <4>1. e.seq_pos[t] \in [Pos -> Int]
        BY <2>1
      <4>2. ASSUME NEW p \in Pos PROVE e.seq_pos[t][p] \in Nat
        <5>1. c.seq_pos[t][p] \in Nat
          BY <1>1
        <5> HIDE DEF e
        <5>2. e.seq_pos[t][p] = c.seq_pos[t][p] + (IF t \in {s} /\ p = c.pos[i] THEN 1 ELSE 0)
          BY <1>2 DEF Step
        <5> QED
          BY <5>1, <5>2
      <4> QED
        BY <4>1, <4>2
    <3> QED
      BY <3>1
  <2> QED
    BY <2>1, <2>2
<1> HIDE DEF e
<1> DEFINE seq == [c.seq EXCEPT ![i] = c.seq[i] \cup {s}]
<1>4. seq \in [Cell -> SUBSET Seqs]
  BY <1>1
<1>5. d = [e EXCEPT !.seq = seq]
  BY <1>2 DEF CellSeqAdd, e
<1> HIDE DEF seq
<1>6. e \in Cells
  BY <1>2, <1>3 DEF Loose, Cells
<1>7. /\ d \in Cells /\ d.pos = e.pos /\ d.shift = e.shift /\ d.used = e.used
      /\ d.head = e.head /\ d.seq = seq /\ d.seq_pos = e.seq_pos
  BY <1>4, <1>5, <1>6 DEF Cells
<1> QED
  BY <1>2, <1>7 DEF seq

\* seq_cp of cells
LEMMA SeqCpFold ==
  ASSUME use \in Uses, NEW c \in Cells, NEW dst \in Seqs, NEW S \in SUBSET Cell
  PROVE  Joined(c, FoldSet(LAMBDA i, d : CellSeqAdd(d, i, dst), c, S), S, dst)
<1> DEFINE pick == [U \in SUBSET S |-> CHOOSE x \in U : TRUE]
           Reach == {q \in (SUBSET S) \X Cells : Joined(c, q[2], q[1], dst)}
           G == [q \in S \X Cells |-> CellSeqAdd(q[2], q[1], dst)]
           Recursion(h) == h = [U \in SUBSET S |->
             IF U = {} THEN c ELSE CellSeqAdd(h[U \ {CHOOSE x \in U : TRUE}], (CHOOSE x \in U : TRUE), dst)]
           h == CHOOSE h : Recursion(h)
<1>1. Picks(S, pick)
  BY CellTypes, FS_Subset DEF Picks
<1>2. \A U \in SUBSET S : U # {} => pick[U] \in U
  BY <1>1 DEF Picks
<1>3. \A U \in SUBSET S : \A d : <<U, d>> \in Reach <=> Joined(c, d, U, dst)
  BY DEF Joined
<1>4. <<{}, c>> \in Reach
  <2>1. \A p : Cardinality(At(c, {}, p)) = 0
    BY FS_EmptySet DEF At
  <2>2. \A t \in Seqs, p \in Pos : c.seq_pos[t][p] = c.seq_pos[t][p] + 0
    BY DEF Cells
  <2>3. Joined(c, c, {}, dst)
    BY <2>1, <2>2 DEF Joined
  <2> QED
    BY <1>3, <2>3
<1>5. ASSUME NEW U \in SUBSET S, NEW d, U # {}, <<U \ {pick[U]}, d>> \in Reach
      PROVE  <<U, CellSeqAdd(d, pick[U], dst)>> \in Reach
  <2>1. Joined(c, d, U \ {pick[U]}, dst)
    BY <1>3, <1>5
  <2>2. pick[U] \in Cell /\ pick[U] \in S /\ pick[U] \in U
    BY <1>2, <1>5
  <2> DEFINE i == pick[U]
             e == CellSeqAdd(d, i, dst)
             ss == d.seq[i] \cup {dst}
  <2> HIDE DEF pick, i, e, ss
  <2>3. i \in Cell /\ i \in U /\ d \in Cells /\ d.pos[i] = c.pos[i] /\ c.pos[i] \in Pos \cup {None}
    BY <2>1, <2>2 DEF Joined, Cells, i
  <2>4. /\ e \in Cells /\ e.pos = d.pos /\ e.shift = d.shift /\ e.used = d.used
        /\ e.head = d.head /\ e.seq = [d.seq EXCEPT ![i] = ss]
        /\ \A t \in Seqs, p \in Pos : e.seq_pos[t][p] = Step(d, {dst}, d.pos[i], 1, t, p)
    BY <2>3, CellSeqAddCounts DEF e, ss
  <2>5. ASSUME NEW j \in Cell
        PROVE  /\ e.pos[j] = c.pos[j] /\ e.shift[j] = c.shift[j]
               /\ e.seq[j] = IF j \in U THEN c.seq[j] \cup {dst} ELSE c.seq[j]
    <3>1. /\ d.pos[j] = c.pos[j] /\ d.shift[j] = c.shift[j]
          /\ d.seq[j] = IF j \in U \ {i} THEN c.seq[j] \cup {dst} ELSE c.seq[j]
      BY <2>1 DEF Joined, i
    <3>2. e.seq[j] = IF j = i THEN ss ELSE d.seq[j]
      BY <2>3, <2>4 DEF Cells
    <3> QED
      BY <2>3, <2>4, <3>1, <3>2 DEF ss
  <2>6. ASSUME NEW t \in Seqs, NEW p \in Pos
        PROVE  e.seq_pos[t][p] = c.seq_pos[t][p] + (IF t = dst THEN Cardinality(At(c, U, p)) ELSE 0)
    <3>1. d.seq_pos[t][p] = c.seq_pos[t][p] + (IF t = dst THEN Cardinality(At(c, U \ {i}, p)) ELSE 0)
      BY <2>1 DEF Joined, i
    <3>2. e.seq_pos[t][p] = d.seq_pos[t][p] + (IF t = dst /\ p = c.pos[i] THEN 1 ELSE 0)
      BY <2>3, <2>4 DEF Step
    <3>3. IsFiniteSet(At(c, U \ {i}, p)) /\ Cardinality(At(c, U \ {i}, p)) \in Nat
      <4>1. At(c, U \ {i}, p) \subseteq Cell
        BY DEF At
      <4> QED
        BY <4>1, CellTypes, FS_Subset, FS_CardinalityType
    <3>4. At(c, U, p) = IF p = c.pos[i] THEN At(c, U \ {i}, p) \cup {i} ELSE At(c, U \ {i}, p)
      BY <2>3 DEF At
    <3>5. i \notin At(c, U \ {i}, p)
      BY DEF At
    <3>6. Cardinality(At(c, U, p)) =
            Cardinality(At(c, U \ {i}, p)) + (IF p = c.pos[i] THEN 1 ELSE 0)
      <4> DEFINE A == At(c, U \ {i}, p)
      <4> HIDE DEF A
      <4>1. Cardinality(A \cup {i}) = Cardinality(A) + 1 /\ Cardinality(A) \in Nat
        BY <3>3, <3>5, FS_AddElement DEF A
      <4> QED
        BY <3>4, <4>1 DEF A
    <3>7. c.seq_pos[t][p] \in Nat
      BY DEF Cells
    <3> QED
      BY <3>1, <3>2, <3>3, <3>6, <3>7
  <2>7. Joined(c, e, U, dst)
    <3>1. e \in Cells /\ e.head = c.head /\ e.used = c.used
      BY <2>1, <2>4 DEF Joined
    <3> QED
      BY <2>5, <2>6, <3>1 DEF Joined
  <2> QED
    BY <1>3, <2>7 DEF e, i
<1>6. \E f : Recursion(f)
  <2>1. \A i \in S, d \in Cells : G[<<i, d>>] = CellSeqAdd(d, i, dst)
    OBVIOUS
  <2>2. Keeps(S, Cells, c, pick, G, Reach)
    <3>1. \A U \in SUBSET S, d \in Cells :
            U # {} /\ <<U \ {pick[U]}, d>> \in Reach => <<U, G[<<pick[U], d>>]>> \in Reach
      BY <1>2, <1>5, <2>1
    <3>2. DOMAIN G = S \X Cells /\ Reach \subseteq (SUBSET S) \X Cells
      OBVIOUS
    <3> HIDE DEF pick, Reach, G
    <3> QED
      BY <1>1, <1>4, <3>1, <3>2 DEF Keeps
  <2>3. Reach \subseteq (SUBSET S) \X Cells
    OBVIOUS
  <2> HIDE DEF pick, Reach, G
  <2>4. PICK f : Solved(S, c, pick, G, f) /\ Reached(S, f, Reach)
    BY ONLY <2>2, FoldRuns
  <2>5. ASSUME NEW U \in SUBSET S, U # {}
        PROVE  G[<<pick[U], f[U \ {pick[U]}]>>] = CellSeqAdd(f[U \ {pick[U]}], pick[U], dst)
    <3>1. U \ {pick[U]} \in SUBSET S /\ pick[U] \in S
      BY <1>2, <2>5
    <3>2. f[U \ {pick[U]}] \in Cells
      BY <2>3, <2>4, <3>1 DEF Reached
    <3> QED
      BY <2>1, <3>1, <3>2
  <2>6. f = [U \in SUBSET S |-> IF U = {} THEN c ELSE CellSeqAdd(f[U \ {pick[U]}], pick[U], dst)]
    BY <2>4, <2>5 DEF Solved
  <2>7. \A U \in SUBSET S : pick[U] = CHOOSE x \in U : TRUE
    BY DEF pick
  <2>8. f = [U \in SUBSET S |-> IF U = {} THEN c ELSE CellSeqAdd(f[U \ {CHOOSE x \in U : TRUE}], (CHOOSE x \in U : TRUE), dst)]
    BY ONLY <2>6, <2>7
  <2> QED
    BY <2>8
<1>7. FoldSet(LAMBDA i, d : CellSeqAdd(d, i, dst), c, S) = h[S]
  BY DEF FoldSet, MapThenFoldSet
<1>8. \A U \in SUBSET S : h[U] = IF U = {} THEN c ELSE CellSeqAdd(h[U \ {pick[U]}], pick[U], dst)
  <2>1. Recursion(h)
    BY <1>6
  <2> HIDE DEF h
  <2> QED
    BY <2>1
<1> HIDE DEF Recursion, h, pick, Reach
<1>9. Reached(S, h, Reach)
  <2>1. KeptBy(S, pick, h, Reach)
    BY <1>4, <1>5, <1>8 DEF KeptBy
  <2> QED
    BY ONLY <1>1, <2>1, FoldReaches
<1>10. Joined(c, h[S], S, dst)
  BY <1>3, <1>9 DEF Reached
<1> QED
  BY <1>7, <1>10

\* d is c after the cells of U moved by delta, their keys to follow, or were erased.
Shifted(c, d, U, delta) ==
  /\ Good(d) /\ d.head = c.head
  /\ \A j \in Cell \ U : d.pos[j] = c.pos[j] /\ d.seq[j] = c.seq[j] /\ d.shift[j] = c.shift[j]
  /\ \A j \in Cell \cap U :
       \/ d.pos[j] # None /\ d.pos[j] = c.pos[j] + delta /\ d.shift[j] = c.shift[j] + delta
       \/ d.pos[j] = None /\ d.shift[j] = 0

\* seq_add
LEMMA SeqAddFold ==
  ASSUME use \in Uses, NEW c, Good(c), NEW delta \in Int, NEW S \in SUBSET Cell,
         \A i \in S : c.pos[i] # None /\ c.pos[i] + delta <= use.last
  PROVE  Shifted(c, FoldSet(LAMBDA i, e : PosAdd(e, i, delta), c, S), S, delta)
<1> DEFINE pick == [U \in SUBSET S |-> CHOOSE x \in U : TRUE]
           Reach == {q \in (SUBSET S) \X Cells : Shifted(c, q[2], q[1], delta)}
           G == [q \in S \X Cells |-> PosAdd(q[2], q[1], delta)]
           Recursion(h) == h = [U \in SUBSET S |->
             IF U = {} THEN c ELSE PosAdd(h[U \ {CHOOSE x \in U : TRUE}], (CHOOSE x \in U : TRUE), delta)]
           h == CHOOSE h : Recursion(h)
<1>1. Picks(S, pick)
  BY CellTypes, FS_Subset DEF Picks
<1>2. \A U \in SUBSET S : U # {} => pick[U] \in U
  BY <1>1 DEF Picks
<1>3. \A U \in SUBSET S : \A d : <<U, d>> \in Reach <=> Shifted(c, d, U, delta)
  BY DEF Shifted, Good, Sound
<1>4. <<{}, c>> \in Reach
  <2>1. Shifted(c, c, {}, delta)
    BY DEF Shifted
  <2> QED
    BY <1>3, <2>1
<1>5. ASSUME NEW U \in SUBSET S, NEW d, U # {}, <<U \ {pick[U]}, d>> \in Reach
      PROVE  <<U, PosAdd(d, pick[U], delta)>> \in Reach
  <2>1. Shifted(c, d, U \ {pick[U]}, delta)
    BY <1>3, <1>5
  <2>2. pick[U] \in Cell /\ pick[U] \in S /\ pick[U] \in U
    BY <1>2, <1>5
  <2> DEFINE i == pick[U]
             e == PosAdd(d, i, delta)
  <2> HIDE DEF pick, i, e
  <2>3. /\ i \in Cell /\ Good(d) /\ d.pos[i] # None /\ d.pos[i] + delta <= use.last
        /\ d.pos[i] = c.pos[i] /\ d.shift[i] = c.shift[i]
    BY <2>1, <2>2 DEF Shifted, i
  <2>4. /\ Touched(d, e, i)
        /\ \/ e.pos[i] # None /\ e.pos[i] = d.pos[i] + delta /\ e.shift[i] = d.shift[i] + delta
           \/ e.pos[i] = None /\ e.shift[i] = 0
    BY <2>3, PosAddMoves DEF e
  <2>5. Shifted(c, e, U, delta)
    <3>1. Good(e) /\ e.head = c.head
      BY <2>1, <2>4 DEF Touched, Shifted
    <3>2. \A j \in Cell \ U : e.pos[j] = c.pos[j] /\ e.seq[j] = c.seq[j] /\ e.shift[j] = c.shift[j]
      BY <2>1, <2>2, <2>4 DEF Touched, Shifted, i
    <3>3. ASSUME NEW j \in Cell \cap U
          PROVE  \/ e.pos[j] # None /\ e.pos[j] = c.pos[j] + delta /\ e.shift[j] = c.shift[j] + delta
                 \/ e.pos[j] = None /\ e.shift[j] = 0
      <4>1. CASE j = i
        BY <2>3, <2>4, <4>1
      <4>2. CASE j # i
        <5>1. e.pos[j] = d.pos[j] /\ e.shift[j] = d.shift[j] /\ j \in Cell \cap (U \ {pick[U]})
          BY <2>4, <4>2 DEF Touched, i
        <5> QED
          BY <2>1, <5>1 DEF Shifted
      <4> QED
        BY <4>1, <4>2
    <3>4. \A j \in Cell \cap U :
            \/ e.pos[j] # None /\ e.pos[j] = c.pos[j] + delta /\ e.shift[j] = c.shift[j] + delta
            \/ e.pos[j] = None /\ e.shift[j] = 0
      BY <3>3
    <3> QED
      BY ONLY <3>1, <3>2, <3>4 DEF Shifted
  <2> QED
    BY <1>3, <2>5 DEF e, i
<1>6. \E f : Recursion(f)
  <2>1. \A i \in S, d \in Cells : G[<<i, d>>] = PosAdd(d, i, delta)
    OBVIOUS
  <2>2. Keeps(S, Cells, c, pick, G, Reach)
    <3>1. \A U \in SUBSET S, d \in Cells :
            U # {} /\ <<U \ {pick[U]}, d>> \in Reach => <<U, G[<<pick[U], d>>]>> \in Reach
      BY <1>2, <1>5, <2>1
    <3>2. DOMAIN G = S \X Cells /\ Reach \subseteq (SUBSET S) \X Cells
      OBVIOUS
    <3> HIDE DEF pick, Reach, G
    <3> QED
      BY <1>1, <1>4, <3>1, <3>2 DEF Keeps
  <2>3. Reach \subseteq (SUBSET S) \X Cells
    OBVIOUS
  <2> HIDE DEF pick, Reach, G
  <2>4. PICK f : Solved(S, c, pick, G, f) /\ Reached(S, f, Reach)
    BY ONLY <2>2, FoldRuns
  <2>5. ASSUME NEW U \in SUBSET S, U # {}
        PROVE  G[<<pick[U], f[U \ {pick[U]}]>>] = PosAdd(f[U \ {pick[U]}], pick[U], delta)
    <3>1. U \ {pick[U]} \in SUBSET S /\ pick[U] \in S
      BY <1>2, <2>5
    <3>2. f[U \ {pick[U]}] \in Cells
      BY <2>3, <2>4, <3>1 DEF Reached
    <3> QED
      BY <2>1, <3>1, <3>2
  <2>6. f = [U \in SUBSET S |-> IF U = {} THEN c ELSE PosAdd(f[U \ {pick[U]}], pick[U], delta)]
    BY <2>4, <2>5 DEF Solved
  <2>7. \A U \in SUBSET S : pick[U] = CHOOSE x \in U : TRUE
    BY DEF pick
  <2>8. f = [U \in SUBSET S |-> IF U = {} THEN c ELSE PosAdd(f[U \ {CHOOSE x \in U : TRUE}], (CHOOSE x \in U : TRUE), delta)]
    BY ONLY <2>6, <2>7
  <2> QED
    BY <2>8
<1>7. FoldSet(LAMBDA i, e : PosAdd(e, i, delta), c, S) = h[S]
  BY DEF FoldSet, MapThenFoldSet
<1>8. \A U \in SUBSET S : h[U] = IF U = {} THEN c ELSE PosAdd(h[U \ {pick[U]}], pick[U], delta)
  <2>1. Recursion(h)
    BY <1>6
  <2> HIDE DEF h
  <2> QED
    BY <2>1
<1> HIDE DEF Recursion, h, pick, Reach
<1>9. Reached(S, h, Reach)
  <2>1. KeptBy(S, pick, h, Reach)
    BY <1>4, <1>5, <1>8 DEF KeptBy
  <2> QED
    BY ONLY <1>1, <2>1, FoldReaches
<1>10. Shifted(c, h[S], S, delta)
  BY <1>3, <1>9 DEF Reached
<1> QED
  BY <1>7, <1>10

\* d is c after the cells of U moved.
Moved(c, d, U) ==
  /\ Good(d) /\ d.head = c.head
  /\ \A j \in Cell \ U : d.pos[j] = c.pos[j] /\ d.seq[j] = c.seq[j] /\ d.shift[j] = c.shift[j]

\* seq_div
LEMMA SeqDivFold ==
  ASSUME use \in Uses, NEW c, Good(c), NEW by \in Nat \ {0}, NEW S \in SUBSET Cell,
         \A i \in S : c.pos[i] # None
  PROVE  Moved(c, FoldSet(LAMBDA i, d : PosDiv(d, i, by), c, S), S)
<1> DEFINE pick == [U \in SUBSET S |-> CHOOSE x \in U : TRUE]
           Reach == {q \in (SUBSET S) \X Cells : Moved(c, q[2], q[1])}
           G == [q \in S \X Cells |-> PosDiv(q[2], q[1], by)]
           Recursion(h) == h = [U \in SUBSET S |->
             IF U = {} THEN c ELSE PosDiv(h[U \ {CHOOSE x \in U : TRUE}], (CHOOSE x \in U : TRUE), by)]
           h == CHOOSE h : Recursion(h)
<1>1. Picks(S, pick)
  BY CellTypes, FS_Subset DEF Picks
<1>2. \A U \in SUBSET S : U # {} => pick[U] \in U
  BY <1>1 DEF Picks
<1>3. \A U \in SUBSET S : \A d : <<U, d>> \in Reach <=> Moved(c, d, U)
  BY DEF Moved, Good, Sound
<1>4. <<{}, c>> \in Reach
  BY <1>3 DEF Moved
<1>5. ASSUME NEW U \in SUBSET S, NEW d, U # {}, <<U \ {pick[U]}, d>> \in Reach
      PROVE  <<U, PosDiv(d, pick[U], by)>> \in Reach
  <2>1. Moved(c, d, U \ {pick[U]})
    BY <1>3, <1>5
  <2>2. pick[U] \in Cell /\ pick[U] \in S /\ pick[U] \in U
    BY <1>2, <1>5
  <2> DEFINE i == pick[U]
             e == PosDiv(d, i, by)
  <2> HIDE DEF pick, i, e
  <2>3. i \in Cell /\ Good(d) /\ d.pos[i] # None
    BY <2>1, <2>2 DEF Moved, i
  <2>4. Touched(d, e, i)
    BY <2>3, PosDivMoves DEF e
  <2>5. Moved(c, e, U)
    BY <2>1, <2>2, <2>4 DEF Touched, Moved, i
  <2> QED
    BY <1>3, <2>5 DEF e, i
<1>6. \E f : Recursion(f)
  <2>1. \A i \in S, d \in Cells : G[<<i, d>>] = PosDiv(d, i, by)
    OBVIOUS
  <2>2. Keeps(S, Cells, c, pick, G, Reach)
    <3>1. \A U \in SUBSET S, d \in Cells :
            U # {} /\ <<U \ {pick[U]}, d>> \in Reach => <<U, G[<<pick[U], d>>]>> \in Reach
      BY <1>2, <1>5, <2>1
    <3>2. DOMAIN G = S \X Cells /\ Reach \subseteq (SUBSET S) \X Cells
      OBVIOUS
    <3> HIDE DEF pick, Reach, G
    <3> QED
      BY <1>1, <1>4, <3>1, <3>2 DEF Keeps
  <2>3. Reach \subseteq (SUBSET S) \X Cells
    OBVIOUS
  <2> HIDE DEF pick, Reach, G
  <2>4. PICK f : Solved(S, c, pick, G, f) /\ Reached(S, f, Reach)
    BY ONLY <2>2, FoldRuns
  <2>5. ASSUME NEW U \in SUBSET S, U # {}
        PROVE  G[<<pick[U], f[U \ {pick[U]}]>>] = PosDiv(f[U \ {pick[U]}], pick[U], by)
    <3>1. U \ {pick[U]} \in SUBSET S /\ pick[U] \in S
      BY <1>2, <2>5
    <3>2. f[U \ {pick[U]}] \in Cells
      BY <2>3, <2>4, <3>1 DEF Reached
    <3> QED
      BY <2>1, <3>1, <3>2
  <2>6. f = [U \in SUBSET S |-> IF U = {} THEN c ELSE PosDiv(f[U \ {pick[U]}], pick[U], by)]
    BY <2>4, <2>5 DEF Solved
  <2>7. \A U \in SUBSET S : pick[U] = CHOOSE x \in U : TRUE
    BY DEF pick
  <2>8. f = [U \in SUBSET S |-> IF U = {} THEN c ELSE PosDiv(f[U \ {CHOOSE x \in U : TRUE}], (CHOOSE x \in U : TRUE), by)]
    BY ONLY <2>6, <2>7
  <2> QED
    BY <2>8
<1>7. FoldSet(LAMBDA i, d : PosDiv(d, i, by), c, S) = h[S]
  BY DEF FoldSet, MapThenFoldSet
<1>8. \A U \in SUBSET S : h[U] = IF U = {} THEN c ELSE PosDiv(h[U \ {pick[U]}], pick[U], by)
  <2>1. Recursion(h)
    BY <1>6
  <2> HIDE DEF h
  <2> QED
    BY <2>1
<1> HIDE DEF Recursion, h, pick, Reach
<1>9. Reached(S, h, Reach)
  <2>1. KeptBy(S, pick, h, Reach)
    BY <1>4, <1>5, <1>8 DEF KeptBy
  <2> QED
    BY ONLY <1>1, <2>1, FoldReaches
<1>10. Moved(c, h[S], S)
  BY <1>3, <1>9 DEF Reached
<1> QED
  BY <1>7, <1>10

-----------------------------------------------------------------------------
(* Placing tokens.                                                         *)

\* d is c but for the sequences U of the cell i.
Placed(c, d, i, U) == Sound(d) /\ Differs(c, d, i, c.pos[i], U, c.shift[i])

\* the sequences of a token
LEMMA EmplaceFold ==
  ASSUME use \in Uses, NEW c, Sound(c), NEW i \in Cell, c.pos[i] # None, c.seq[i] = {},
         NEW S \in SUBSET Seqs
  PROVE  Placed(c, FoldSet(LAMBDA s, d : CellSeqAdd(d, i, s), c, S), i, S)
<1> DEFINE pick == [U \in SUBSET S |-> CHOOSE x \in U : TRUE]
           Reach == {q \in (SUBSET S) \X Cells : Placed(c, q[2], i, q[1])}
           G == [q \in S \X Cells |-> CellSeqAdd(q[2], i, q[1])]
           Recursion(h) == h = [U \in SUBSET S |->
             IF U = {} THEN c ELSE CellSeqAdd(h[U \ {CHOOSE x \in U : TRUE}], i, (CHOOSE x \in U : TRUE))]
           h == CHOOSE h : Recursion(h)
<1>1. Picks(S, pick)
  BY CellTypes, FS_Subset DEF Picks
<1>2. \A U \in SUBSET S : U # {} => pick[U] \in U
  BY <1>1 DEF Picks
<1>3. \A U \in SUBSET S : \A d : <<U, d>> \in Reach <=> Placed(c, d, i, U)
  BY DEF Placed, Sound
<1>4. <<{}, c>> \in Reach
  <2>1. c \in Loose
    BY SoundIsLoose
  <2>2. Differs(c, c, i, c.pos[i], {}, c.shift[i])
    BY <2>1 DEF Differs, Loose
  <2>3. Placed(c, c, i, {})
    BY <2>2 DEF Placed
  <2> QED
    BY <1>3, <2>3
<1>5. ASSUME NEW U \in SUBSET S, NEW d, U # {}, <<U \ {pick[U]}, d>> \in Reach
      PROVE  <<U, CellSeqAdd(d, i, pick[U])>> \in Reach
  <2>1. Placed(c, d, i, U \ {pick[U]})
    BY <1>3, <1>5
  <2>2. pick[U] \in Seqs /\ pick[U] \notin U \ {pick[U]} /\ U = (U \ {pick[U]}) \cup {pick[U]}
    BY <1>2, <1>5
  <2> DEFINE s == pick[U]
             e == CellSeqAdd(d, i, s)
             W == U \ {pick[U]}
             ss == d.seq[i] \cup {s}
  <2>3. c \in Loose /\ d \in Loose
    BY <2>1, SoundIsLoose DEF Placed
  <2>4. d.pos[i] = c.pos[i] /\ d.seq[i] = W /\ d.shift[i] = c.shift[i]
    BY <2>1, <2>3 DEF Placed, Differs, Loose
  <2> HIDE DEF pick, s, e, W, ss
  <2>5. Sound(d) /\ d.pos[i] # None /\ s \in Seqs /\ s \notin d.seq[i]
    BY <2>1, <2>2, <2>4 DEF Placed, s, W
  <2>6. Sound(e) /\ Differs(d, e, i, d.pos[i], ss, d.shift[i])
    BY <2>5, CellSeqAddJoins DEF e, ss
  <2>7. ss = U
    BY <2>2, <2>4 DEF ss, s, W
  <2>8. Differs(c, e, i, c.pos[i], U, c.shift[i])
    BY <2>1, <2>3, <2>4, <2>6, <2>7 DEF Placed, Differs, Loose
  <2>9. Placed(c, e, i, U)
    BY <2>6, <2>8 DEF Placed
  <2> QED
    BY <1>3, <2>9 DEF e, s
<1>6. \E f : Recursion(f)
  <2>1. \A x \in S, d \in Cells : G[<<x, d>>] = CellSeqAdd(d, i, x)
    OBVIOUS
  <2>2. Keeps(S, Cells, c, pick, G, Reach)
    <3>1. \A U \in SUBSET S, d \in Cells :
            U # {} /\ <<U \ {pick[U]}, d>> \in Reach => <<U, G[<<pick[U], d>>]>> \in Reach
      BY <1>2, <1>5, <2>1
    <3>2. DOMAIN G = S \X Cells /\ Reach \subseteq (SUBSET S) \X Cells
      OBVIOUS
    <3> HIDE DEF pick, Reach, G
    <3> QED
      BY <1>1, <1>4, <3>1, <3>2 DEF Keeps
  <2>3. Reach \subseteq (SUBSET S) \X Cells
    OBVIOUS
  <2> HIDE DEF pick, Reach, G
  <2>4. PICK f : Solved(S, c, pick, G, f) /\ Reached(S, f, Reach)
    BY ONLY <2>2, FoldRuns
  <2>5. ASSUME NEW U \in SUBSET S, U # {}
        PROVE  G[<<pick[U], f[U \ {pick[U]}]>>] = CellSeqAdd(f[U \ {pick[U]}], i, pick[U])
    <3>1. U \ {pick[U]} \in SUBSET S /\ pick[U] \in S
      BY <1>2, <2>5
    <3>2. f[U \ {pick[U]}] \in Cells
      BY <2>3, <2>4, <3>1 DEF Reached
    <3> QED
      BY <2>1, <3>1, <3>2
  <2>6. f = [U \in SUBSET S |-> IF U = {} THEN c ELSE CellSeqAdd(f[U \ {pick[U]}], i, pick[U])]
    BY <2>4, <2>5 DEF Solved
  <2>7. \A U \in SUBSET S : pick[U] = CHOOSE x \in U : TRUE
    BY DEF pick
  <2>8. f = [U \in SUBSET S |-> IF U = {} THEN c ELSE CellSeqAdd(f[U \ {CHOOSE x \in U : TRUE}], i, (CHOOSE x \in U : TRUE))]
    BY ONLY <2>6, <2>7
  <2> QED
    BY <2>8
<1>7. FoldSet(LAMBDA s, d : CellSeqAdd(d, i, s), c, S) = h[S]
  BY DEF FoldSet, MapThenFoldSet
<1>8. \A U \in SUBSET S : h[U] = IF U = {} THEN c ELSE CellSeqAdd(h[U \ {pick[U]}], i, pick[U])
  <2>1. Recursion(h)
    BY <1>6
  <2> HIDE DEF h
  <2> QED
    BY <2>1
<1> HIDE DEF Recursion, h, pick, Reach
<1>9. Reached(S, h, Reach)
  <2>1. KeptBy(S, pick, h, Reach)
    BY <1>4, <1>5, <1>8 DEF KeptBy
  <2> QED
    BY ONLY <1>1, <2>1, FoldReaches
<1>10. Placed(c, h[S], i, S)
  BY <1>3, <1>9 DEF Reached
<1> QED
  BY <1>7, <1>10

Tokens1 == [pos : Pos, seqs : (SUBSET Seqs) \ {{}}]

\* A token placed in a cell.
LEMMA EmplacePlaces ==
  ASSUME use \in Uses, NEW c, Good(c), NEW i \in Cell, NEW token \in Tokens1,
         NEW d, d = Emplace(c, i, token)
  PROVE  /\ Touched(c, d, i) /\ d.pos[i] = token.pos /\ d.seq[i] = token.seqs
         /\ d.shift[i] = IF c.pos[i] = None THEN c.shift[i] ELSE 0
<1> DEFINE clean == IF c.pos[i] = None THEN c ELSE Rm(c, i)
           bare == PosSet(clean, i, token.pos)
           shift == IF c.pos[i] = None THEN c.shift[i] ELSE 0
<1>0. token.pos \in Pos /\ token.seqs \in SUBSET Seqs /\ token.seqs # {}
  BY DEF Tokens1
<1>1. Good(clean) /\ Touched(c, clean, i) /\ clean.pos[i] = None /\ clean.seq[i] = {}
      /\ clean.shift[i] = shift
  <2>1. CASE c.pos[i] = None
    <3>1. c.seq[i] = {}
      BY <2>1, CellOf
    <3> QED
      BY <2>1, <3>1 DEF Touched
  <2>2. CASE c.pos[i] # None
    <3>1. clean = Rm(c, i) /\ shift = 0 /\ Sound(c) /\ Whole(c) /\ c \in Loose
      BY <2>2, SoundIsLoose DEF Good
    <3> HIDE DEF clean, shift
    <3>2. Sound(clean) /\ Whole(clean) /\ Differs(c, clean, i, None, {}, 0)
      BY <3>1, RmErases
    <3> QED
      BY <3>1, <3>2, TouchedBy DEF Good
  <2> QED
    BY <2>1, <2>2
<1>2. d = FoldSet(LAMBDA s, e : CellSeqAdd(e, i, s), bare, token.seqs)
  BY DEF Emplace
<1>3. bare = PosSet(clean, i, token.pos)
  OBVIOUS
<1> HIDE DEF clean, bare, shift
<1>4. Sound(bare) /\ Differs(clean, bare, i, token.pos, {}, clean.shift[i])
  BY <1>0, <1>1, <1>3, PosSetPlaces DEF Good
<1>5. clean \in Loose /\ bare \in Loose
  BY <1>1, <1>4, SoundIsLoose DEF Good
<1>6. bare.pos[i] = token.pos /\ bare.seq[i] = {} /\ bare.shift[i] = shift
  BY <1>1, <1>4, <1>5 DEF Differs, Loose
<1>7. token.pos # None
  BY <1>0, CellTypes
<1>8. Placed(bare, d, i, token.seqs)
  BY <1>0, <1>2, <1>4, <1>6, <1>7, EmplaceFold
<1>9. Sound(d) /\ Differs(clean, d, i, token.pos, token.seqs, shift)
  BY <1>1, <1>4, <1>5, <1>6, <1>8 DEF Placed, Differs, Loose
<1>10. \A j \in Cell \ {i} : d.pos[j] = clean.pos[j] /\ d.seq[j] = clean.seq[j]
  BY <1>5, <1>9 DEF Differs, Loose
<1>11. d.pos[i] = token.pos /\ d.seq[i] = token.seqs
  BY <1>5, <1>9 DEF Differs, Loose
<1>12. Whole(d)
  <2>1. \A j \in Cell \ {i} : clean.pos[j] = None <=> clean.seq[j] = {}
    BY <1>1 DEF Good, Whole
  <2> QED
    BY <1>0, <1>7, <1>10, <1>11, <2>1 DEF Whole
<1>13. Good(d)
  BY <1>9, <1>12 DEF Good
<1>14. /\ Touched(clean, d, i) /\ d.pos[i] = token.pos /\ d.seq[i] = token.seqs
       /\ d.shift[i] = shift
  BY <1>5, <1>9, <1>13, TouchedBy
<1> QED
  BY <1>1, <1>14 DEF Touched, shift

-----------------------------------------------------------------------------
(* The smallest and the largest of a set.                                  *)

LEMMA MinIs ==
  ASSUME NEW S, S \subseteq Nat, S # {}
  PROVE  Min(S) \in S /\ \A x \in S : Min(S) <= x
<1>1. PICK m \in S : \A x \in S : ~ (<<x, m>> \in OpToRel(<, Nat))
  BY NatLessThanWellFounded, WFMin
<1>2. \A x \in S : m <= x
  <2> SUFFICES ASSUME NEW x \in S PROVE m <= x
    OBVIOUS
  <2>1. x \in Nat /\ m \in Nat
    OBVIOUS
  <2>2. ~ x < m
    BY <1>1, <2>1 DEF OpToRel
  <2> QED
    BY <2>1, <2>2
<1> QED
  BY <1>2 DEF Min

LEMMA MaxIs ==
  ASSUME NEW S, S \subseteq Int, IsFiniteSet(S), S # {}
  PROVE  Max(S) \in S /\ \A x \in S : Max(S) >= x
<1> DEFINE Above(y) == {x \in S : x >= y}
           Family == {Above(y) : y \in S}
<1>1. Family \subseteq SUBSET S /\ Family # {}
  OBVIOUS
<1>2. PICK U \in Family : \A V \in Family : V \subseteq U => V = U
  <2>1. IsFiniteSet(S)
    OBVIOUS
  <2> HIDE DEF Family
  <2> QED
    BY ONLY <1>1, <2>1, SmallestSubset
<1>3. PICK m \in S : U = Above(m)
  BY <1>2
<1>4. \A x \in S : m >= x
  <2> SUFFICES ASSUME NEW x \in S PROVE m >= x
    OBVIOUS
  <2>1. x \in Int /\ m \in Int
    OBVIOUS
  <2>2. CASE x > m
    <3>1. \A y \in Int : y >= x => y >= m
      BY <2>1, <2>2
    <3>2. m >= m /\ ~ m >= x
      BY <2>1, <2>2
    <3>3. Above(x) \subseteq U /\ Above(x) \in Family /\ m \in U /\ m \notin Above(x)
      BY <1>3, <3>1, <3>2
    <3> QED
      BY <1>2, <3>3
  <2> QED
    BY <2>1, <2>2
<1> QED
  BY <1>4 DEF Max

-----------------------------------------------------------------------------
(* The calls on all cells.                                                 *)

\* Cells stay as they were or become empty, but for their sequences and the head.
Fewer(c, d) ==
  /\ Good(d)
  /\ \A j \in Cell : \/ d.pos[j] = c.pos[j] /\ d.shift[j] = c.shift[j]
                     \/ d.pos[j] = None /\ d.shift[j] = 0

LEMMA HeadMoved ==
  ASSUME use \in Uses, NEW c, Good(c), NEW h \in 0 .. use.size,
         NEW d, d = [c EXCEPT !.head = h]
  PROVE  /\ Good(d) /\ d.pos = c.pos /\ d.seq = c.seq /\ d.shift = c.shift
         /\ d.used = c.used /\ d.has_shift = c.has_shift /\ d.head = h
<1>1. c \in Cells
  BY DEF Good, Sound
<1>2. /\ d \in Cells /\ d.pos = c.pos /\ d.seq = c.seq /\ d.shift = c.shift
      /\ d.used = c.used /\ d.has_shift = c.has_shift /\ d.head = h /\ d.seq_pos = c.seq_pos
  BY <1>1 DEF Cells
<1>3. Counts(d)
  BY <1>2 DEF Good, Sound, Counts, CountsBut, Holding
<1> QED
  BY <1>2, <1>3 DEF Good, Sound, Whole

LEMMA FreedFirst ==
  ASSUME use \in Uses, NEW c, NEW d, Freed(c, d) # {}
  PROVE  Min(Freed(c, d)) \in Cell /\ Min(Freed(c, d)) \in 0 .. use.size
<1>1. Freed(c, d) \subseteq Cell /\ Cell \subseteq Nat /\ use.size \in Nat
  BY CellTypes DEF Freed
<1>2. Min(Freed(c, d)) \in Cell
  BY <1>1, MinIs
<1> QED
  BY <1>1, <1>2 DEF Cell

LEMMA RewoundKeeps ==
  ASSUME use \in Uses, NEW c, Good(c), NEW d, NEW U, Thinned(c, d, U)
  PROVE  LET e == Rewound(c, d)
         IN /\ Fewer(c, e) /\ e.has_shift = c.has_shift
            /\ \A j \in Cell : e.seq[j] \subseteq c.seq[j]
            /\ \A j \in Cell \ U : e.pos[j] = c.pos[j] /\ e.seq[j] = c.seq[j]
<1> DEFINE e == Rewound(c, d)
<1>1. Good(d) /\ d.has_shift = c.has_shift
  BY DEF Thinned
<1>2. /\ Good(e) /\ e.pos = d.pos /\ e.seq = d.seq /\ e.shift = d.shift
      /\ e.has_shift = d.has_shift
  <2>1. CASE Freed(c, d) # {} /\ Min(Freed(c, d)) < c.head
    <3>1. Min(Freed(c, d)) \in 0 .. use.size
      BY <2>1, FreedFirst
    <3>2. e = [d EXCEPT !.head = Min(Freed(c, d))]
      BY <2>1 DEF Rewound
    <3> HIDE DEF e
    <3> QED
      BY <1>1, <3>1, <3>2, HeadMoved
  <2>2. CASE ~ (Freed(c, d) # {} /\ Min(Freed(c, d)) < c.head)
    BY <1>1, <2>2 DEF Rewound
  <2> QED
    BY <2>1, <2>2
<1> HIDE DEF e
<1>3. Fewer(c, e)
  BY <1>2 DEF Fewer, Thinned
<1>4. /\ \A j \in Cell : e.seq[j] \subseteq c.seq[j]
      /\ \A j \in Cell \ U : e.pos[j] = c.pos[j] /\ e.seq[j] = c.seq[j]
  BY <1>2 DEF Thinned
<1> QED
  BY <1>1, <1>2, <1>3, <1>4 DEF e

\* The cells that hold a position of the sequence are not empty.
LEMMA HasPositions ==
  ASSUME use \in Uses, NEW c, Good(c), NEW s, NEW p0 \in Nat, NEW p1, NEW i \in Has(c, s, p0, p1)
  PROVE  i \in Cell /\ s \in c.seq[i] /\ c.pos[i] # None
BY CellOf, CellTypes DEF Has, PosIn, None

\* seq_rm, for one sequence and for any
LEMMA SeqRmKeeps ==
  ASSUME use \in Uses, NEW c, Good(c), NEW s \in Seqs, NEW p0, NEW p1
  PROVE  LET e == SeqRm(c, s, p0, p1)
         IN /\ Fewer(c, e) /\ e.has_shift = c.has_shift
            /\ \A j \in Cell : e.seq[j] \subseteq c.seq[j]
            /\ Without(e, Has(c, s, p0, p1), s)
            /\ \A j \in Cell \ Has(c, s, p0, p1) : e.pos[j] = c.pos[j] /\ e.seq[j] = c.seq[j]
<1> DEFINE S == Has(c, s, p0, p1)
           d == FoldSet(LAMBDA i, d : CellSeqRm(d, i, s), c, S)
<1>1. S \in SUBSET Cell /\ \A i \in S : s \in c.seq[i]
  BY DEF Has
<1>2. SeqRm(c, s, p0, p1) = Rewound(c, d)
  BY DEF SeqRm
<1>3. Thinned(c, d, S) /\ Without(d, S, s)
  <2> HIDE DEF S
  <2> QED
    BY <1>1, SeqRmFold
<1> HIDE DEF d, S
<1> DEFINE e == Rewound(c, d)
<1>4. e.seq = d.seq
  <2>1. d \in Cells
    BY <1>3 DEF Thinned, Good, Sound
  <2> QED
    BY <2>1 DEF Rewound, Cells
<1>5. Without(e, S, s)
  BY <1>3, <1>4 DEF Without
<1> QED
  BY <1>2, <1>3, <1>5, RewoundKeeps DEF S

LEMMA AnyRmKeeps ==
  ASSUME use \in Uses, NEW c, Good(c), NEW p0, NEW p1
  PROVE  LET e == AnyRm(c, p0, p1) IN Fewer(c, e) /\ e.has_shift = c.has_shift
<1> DEFINE S == {i \in Cell : PosIn(c, i, p0, p1)}
           d == FoldSet(LAMBDA i, d : Rm(d, i), c, S)
<1>1. S \in SUBSET Cell
  OBVIOUS
<1>2. AnyRm(c, p0, p1) = Rewound(c, d)
  BY DEF AnyRm
<1>3. Thinned(c, d, S)
  <2> HIDE DEF S
  <2> QED
    BY <1>1, RmFold
<1> HIDE DEF d, S
<1> QED
  BY <1>2, <1>3, RewoundKeeps

LEMMA SeqKeepKeeps ==
  ASSUME use \in Uses, NEW c, Good(c), NEW s \in Seqs
  PROVE  LET e == SeqKeep(c, s) IN Fewer(c, e) /\ e.has_shift = c.has_shift
<1> DEFINE d == FoldSet(LAMBDA i, d : CellSeqKeep(d, i, s), c, Cell)
<1>1. Cell \in SUBSET Cell
  OBVIOUS
<1>2. SeqKeep(c, s) = Rewound(c, d)
  BY DEF SeqKeep
<1>3. Thinned(c, d, Cell)
  BY <1>1, SeqKeepFold
<1> HIDE DEF d
<1> QED
  BY <1>2, <1>3, RewoundKeeps

\* seq_cp: what the destination has already is counted twice.
Twice(c, U, dst, p) == {i \in U : dst \in c.seq[i] /\ c.pos[i] = p}
GrowsBy(c, U, dst, extra) ==
  /\ extra \in [Seqs -> [Pos -> Nat]]
  /\ \A t \in Seqs, p \in Pos :
       extra[t][p] = surplus[t][p] + (IF t = dst THEN Cardinality(Twice(c, U, dst, p)) ELSE 0)

LEMMA SeqCpKeeps ==
  ASSUME use \in Uses, NEW c, Good(c), NEW src \in Seqs, NEW dst \in Seqs, src # dst,
         NEW p0 \in Nat, NEW p1, NEW extra, GrowsBy(c, Has(c, src, p0, p1), dst, extra)
  PROVE  LET d == SeqCp(c, src, dst, p0, p1)
         IN /\ GoodBut(d, extra)
            /\ \A j \in Cell : d.pos[j] = c.pos[j] /\ d.shift[j] = c.shift[j]
<1> DEFINE S == Has(c, src, p0, p1)
           d == FoldSet(LAMBDA i, d : CellSeqAdd(d, i, dst), c, S)
<1>1. S \in SUBSET Cell /\ \A i \in S : c.pos[i] # None
  BY HasPositions DEF Has
<1>2. SeqCp(c, src, dst, p0, p1) = d
  BY DEF SeqCp
<1>3. /\ c \in Cells /\ c.used = {i \in Cell : c.pos[i] # None} /\ CountsBut(c, surplus) /\ Whole(c)
      /\ c.seq \in [Cell -> SUBSET Seqs]
  BY DEF Good, Sound, Counts, Cells
<1>4. \A t \in Seqs, p \in Pos :
        extra[t][p] = surplus[t][p] + (IF t = dst THEN Cardinality(Twice(c, S, dst, p)) ELSE 0)
  BY DEF GrowsBy
<1> HIDE DEF S
<1>5. Joined(c, d, S, dst)
  BY <1>1, <1>3, SeqCpFold
<1> HIDE DEF d
<1>6. /\ d \in Cells /\ d.used = c.used
      /\ \A j \in Cell : /\ d.pos[j] = c.pos[j] /\ d.shift[j] = c.shift[j]
                         /\ d.seq[j] = IF j \in S THEN c.seq[j] \cup {dst} ELSE c.seq[j]
  BY <1>5 DEF Joined
<1>7. d.used = {i \in Cell : d.pos[i] # None} /\ Whole(d)
  BY <1>1, <1>3, <1>6 DEF Whole
<1>8. ASSUME NEW t \in Seqs, NEW p \in Pos
      PROVE  d.seq_pos[t][p] = extra[t][p] + Cardinality(Holding(d, t, p))
  <2>1. /\ c.seq_pos[t][p] = surplus[t][p] + Cardinality(Holding(c, t, p))
        /\ surplus[t][p] \in Nat
    BY <1>3 DEF CountsBut
  <2>2. d.seq_pos[t][p] = c.seq_pos[t][p] + (IF t = dst THEN Cardinality(At(c, S, p)) ELSE 0)
    BY <1>5 DEF Joined
  <2>3. /\ IsFiniteSet(Holding(c, t, p)) /\ Cardinality(Holding(c, t, p)) \in Nat
        /\ IsFiniteSet(At(c, S, p)) /\ Cardinality(At(c, S, p)) \in Nat
        /\ IsFiniteSet(Twice(c, S, dst, p)) /\ Cardinality(Twice(c, S, dst, p)) \in Nat
    <3>1. Holding(c, t, p) \subseteq Cell /\ At(c, S, p) \subseteq Cell /\ Twice(c, S, dst, p) \subseteq Cell
      BY <1>1 DEF Holding, At, Twice
    <3> QED
      BY <3>1, CellTypes, FS_Subset, FS_CardinalityType
  <2>4. CASE t = dst
    <3>1. Holding(d, t, p) = Holding(c, t, p) \cup At(c, S, p)
      BY <1>1, <1>6, <2>4 DEF Holding, At
    <3>2. Twice(c, S, dst, p) = Holding(c, t, p) \cap At(c, S, p)
      BY <1>1, <2>4 DEF Holding, At, Twice
    <3>3. Cardinality(Holding(d, t, p)) =
            Cardinality(Holding(c, t, p)) + Cardinality(At(c, S, p)) - Cardinality(Twice(c, S, dst, p))
      BY <2>3, <3>1, <3>2, FS_Union
    <3>4. extra[t][p] = surplus[t][p] + Cardinality(Twice(c, S, dst, p))
      BY <1>4, <2>4
    <3> QED
      BY <2>1, <2>2, <2>3, <2>4, <3>3, <3>4
  <2>5. CASE t # dst
    <3>1. Holding(d, t, p) = Holding(c, t, p)
      BY <1>6, <2>5 DEF Holding
    <3>2. extra[t][p] = surplus[t][p] + 0
      BY <1>4, <2>5
    <3> QED
      BY <2>1, <2>2, <2>3, <2>5, <3>1, <3>2
  <2> QED
    BY <2>4, <2>5
<1>9. CountsBut(d, extra)
  BY <1>8 DEF CountsBut, GrowsBy
<1> QED
  BY <1>2, <1>6, <1>7, <1>9 DEF GoodBut

\* Where a cell moves its key follows.
KeysFollow(c, d) ==
  \A j \in Cell :
    /\ d.pos[j] # None => c.pos[j] # None /\ d.pos[j] - d.shift[j] = c.pos[j] - c.shift[j]
    /\ d.pos[j] = None => d.shift[j] = 0 \/ (c.pos[j] = None /\ d.shift[j] = c.shift[j])

LEMMA SeqAddKeeps ==
  ASSUME use \in Uses, NEW c, Good(c), NEW s \in Seqs, NEW p0 \in Nat, NEW p1, NEW delta \in Int,
         \A i \in Has(c, s, p0, p1) : c.pos[i] + delta <= use.last
  PROVE  LET e == SeqAdd(c, s, p0, p1, delta) IN Good(e) /\ KeysFollow(c, e)
<1> DEFINE S == Has(c, s, p0, p1)
           d == FoldSet(LAMBDA i, e : PosAdd(e, i, delta), c, S)
           h == IF Freed(c, d) = {} THEN 0 ELSE Min(Freed(c, d))
           e == [d EXCEPT !.head = h]
<1>1. S \in SUBSET Cell /\ \A i \in S : c.pos[i] # None /\ c.pos[i] + delta <= use.last
  BY HasPositions DEF Has
<1>2. SeqAdd(c, s, p0, p1, delta) = e
  BY DEF SeqAdd
<1>3. Shifted(c, d, S, delta)
  <2> HIDE DEF S
  <2> QED
    BY <1>1, SeqAddFold
<1> HIDE DEF S, d
<1>4. h \in 0 .. use.size
  BY FreedFirst, CellTypes
<1>5. e = [d EXCEPT !.head = h]
  OBVIOUS
<1> HIDE DEF h, e
<1>6. Good(e) /\ e.pos = d.pos /\ e.shift = d.shift
  BY <1>3, <1>4, <1>5, HeadMoved DEF Shifted
<1>7. ASSUME NEW j \in Cell
      PROVE  /\ d.pos[j] # None => c.pos[j] # None /\ d.pos[j] - d.shift[j] = c.pos[j] - c.shift[j]
             /\ d.pos[j] = None => d.shift[j] = 0 \/ (c.pos[j] = None /\ d.shift[j] = c.shift[j])
  <2>0. c.pos[j] \in Int /\ c.shift[j] \in Int
    BY CellOf, CellTypes
  <2>1. CASE j \in S
    <3>1. \/ d.pos[j] # None /\ d.pos[j] = c.pos[j] + delta /\ d.shift[j] = c.shift[j] + delta
          \/ d.pos[j] = None /\ d.shift[j] = 0
      BY <1>3, <2>1 DEF Shifted
    <3>2. c.pos[j] # None
      BY <1>1, <2>1
    <3>3. CASE d.pos[j] # None /\ d.pos[j] = c.pos[j] + delta /\ d.shift[j] = c.shift[j] + delta
      BY <2>0, <3>2, <3>3
    <3>4. CASE d.pos[j] = None /\ d.shift[j] = 0
      BY <3>4
    <3> QED
      BY <3>1, <3>3, <3>4
  <2>2. CASE j \notin S
    BY <1>3, <2>0, <2>2 DEF Shifted
  <2> QED
    BY <2>1, <2>2
<1> QED
  BY <1>2, <1>6, <1>7 DEF KeysFollow

-----------------------------------------------------------------------------
(* A ubatch.                                                               *)

\* Folds over sequences start at the last index, or at the first.
LEMMA PicksMax ==
  ASSUME NEW S, S \subseteq Int, IsFiniteSet(S), NEW pick, pick = [U \in SUBSET S |-> Max(U)]
  PROVE  Picks(S, pick)
<1> SUFFICES ASSUME NEW U \in SUBSET S, U # {} PROVE pick[U] \in U
  BY DEF Picks
<1>1. U \subseteq Int /\ IsFiniteSet(U)
  BY FS_Subset
<1>2. Max(U) \in U
  BY <1>1, MaxIs
<1> QED
  BY <1>2

LEMMA PicksMin ==
  ASSUME NEW S, S \subseteq Nat, IsFiniteSet(S), NEW pick, pick = [U \in SUBSET S |-> Min(U)]
  PROVE  Picks(S, pick)
<1> SUFFICES ASSUME NEW U \in SUBSET S, U # {} PROVE pick[U] \in U
  BY DEF Picks
<1>1. Min(U) \in U
  BY MinIs
<1> QED
  BY <1>1

LEMMA DomainOf ==
  ASSUME NEW T, NEW q \in Seq(T)
  PROVE  /\ DOMAIN q = 1 .. Len(q) /\ Len(q) \in Nat /\ DOMAIN q \subseteq Nat
         /\ IsFiniteSet(DOMAIN q) /\ \A k \in DOMAIN q : q[k] \in T
<1>1. DOMAIN q = 1 .. Len(q) /\ Len(q) \in Nat /\ \A k \in DOMAIN q : q[k] \in T
  OBVIOUS
<1>2. IsFiniteSet(1 .. Len(q))
  BY <1>1, FS_Interval
<1> QED
  BY <1>1, <1>2

\* d is c after the tokens in U were placed: a cell is as it was, or has the last of them.
FilledCell(c, d, idxs, ubatch, U, j) ==
  \/ /\ \A k \in U : idxs[k] # j
     /\ d.pos[j] = c.pos[j] /\ d.seq[j] = c.seq[j] /\ d.shift[j] = c.shift[j]
  \/ /\ \E k \in U : idxs[k] = j /\ d.pos[j] = ubatch[k].pos /\ d.seq[j] = ubatch[k].seqs
     /\ d.shift[j] = 0 \/ d.shift[j] = c.shift[j]
Filled(c, d, idxs, ubatch, U) ==
  Good(d) /\ d.head = c.head /\ \A j \in Cell : FilledCell(c, d, idxs, ubatch, U, j)

Fits(idxs, ubatch) ==
  idxs \in Seq(Cell) /\ ubatch \in Seq(Tokens1) /\ Len(idxs) = Len(ubatch) /\ idxs # <<>>

LEMMA FillOne ==
  ASSUME use \in Uses, NEW c, Good(c), NEW idxs, NEW ubatch, Fits(idxs, ubatch), NEW W, NEW d,
         Filled(c, d, idxs, ubatch, W), NEW k \in DOMAIN idxs,
         NEW e, e = Emplace(d, idxs[k], ubatch[k])
  PROVE  Filled(c, e, idxs, ubatch, W \cup {k})
<1>1. idxs[k] \in Cell /\ ubatch[k] \in Tokens1
  BY DomainOf DEF Fits
<1>2. Good(d)
  BY DEF Filled
<1>3. /\ Touched(d, e, idxs[k]) /\ e.pos[idxs[k]] = ubatch[k].pos
      /\ e.seq[idxs[k]] = ubatch[k].seqs
      /\ e.shift[idxs[k]] = IF d.pos[idxs[k]] = None THEN d.shift[idxs[k]] ELSE 0
  BY <1>1, <1>2, EmplacePlaces
<1>4. ASSUME NEW j \in Cell PROVE FilledCell(c, e, idxs, ubatch, W \cup {k}, j)
  <2>0. FilledCell(c, d, idxs, ubatch, W, j)
    BY DEF Filled
  <2>1. CASE j = idxs[k]
    <3>1. e.shift[j] = 0 \/ e.shift[j] = c.shift[j]
      BY <1>3, <2>0, <2>1 DEF FilledCell
    <3> QED
      BY <1>3, <2>1, <3>1 DEF FilledCell
  <2>2. CASE j # idxs[k]
    <3>1. e.pos[j] = d.pos[j] /\ e.seq[j] = d.seq[j] /\ e.shift[j] = d.shift[j]
      BY <1>3, <2>2 DEF Touched
    <3> QED
      BY <2>0, <2>2, <3>1 DEF FilledCell
  <2> QED
    BY <2>1, <2>2
<1>5. Good(e) /\ e.head = c.head
  BY <1>3 DEF Touched, Filled
<1> QED
  BY <1>4, <1>5 DEF Filled

Place(c, idxs, ubatch, at) ==
  FoldLeft(LAMBDA d, k : Emplace(d, idxs[k], ubatch[k]), c, at)

\* apply_ubatch places the tokens
LEMMA PlaceFold ==
  ASSUME use \in Uses, NEW c, Good(c), NEW idxs, NEW ubatch, Fits(idxs, ubatch),
         NEW at, at = [k \in DOMAIN idxs |-> k]
  PROVE  Filled(c, Place(c, idxs, ubatch, at), idxs, ubatch, DOMAIN at)
<1> DEFINE pick == [U \in SUBSET (DOMAIN at) |-> Max(U)]
           Reach == {q \in (SUBSET (DOMAIN at)) \X Cells : Filled(c, q[2], idxs, ubatch, q[1])}
           G == [q \in (DOMAIN at) \X Cells |-> Emplace(q[2], idxs[at[q[1]]], ubatch[at[q[1]]])]
           Recursion(h) == h = [U \in SUBSET (DOMAIN at) |->
             IF U = {} THEN c ELSE Emplace(h[U \ {Max(U)}], idxs[at[Max(U)]], ubatch[at[Max(U)]])]
           h == CHOOSE h : Recursion(h)
<1>1. Picks((DOMAIN at), pick)
  <2>1. DOMAIN at = DOMAIN idxs
    OBVIOUS
  <2>2. (DOMAIN at) \subseteq Int /\ IsFiniteSet(DOMAIN at)
    BY <2>1, DomainOf DEF Fits
  <2> QED
    BY <2>2, PicksMax
<1>2. \A U \in SUBSET (DOMAIN at) : U # {} => pick[U] \in U
  BY <1>1 DEF Picks
<1>3. \A U \in SUBSET (DOMAIN at) : \A d : <<U, d>> \in Reach <=> Filled(c, d, idxs, ubatch, U)
  BY DEF Filled, Good, Sound
<1>4. <<{}, c>> \in Reach
  <2>1. Filled(c, c, idxs, ubatch, {})
    BY DEF Filled, FilledCell
  <2> QED
    BY <1>3, <2>1
<1>5. ASSUME NEW U \in SUBSET (DOMAIN at), NEW d, U # {}, <<U \ {pick[U]}, d>> \in Reach
      PROVE  <<U, Emplace(d, idxs[at[pick[U]]], ubatch[at[pick[U]]])>> \in Reach
  <2>1. Filled(c, d, idxs, ubatch, U \ {pick[U]})
    BY <1>3, <1>5
  <2>2. pick[U] \in DOMAIN idxs /\ at[pick[U]] = pick[U] /\ (U \ {pick[U]}) \cup {pick[U]} = U
    BY <1>2, <1>5
  <2> DEFINE k == pick[U]
             e == Emplace(d, idxs[k], ubatch[k])
  <2> HIDE DEF pick, k, e
  <2>3. Filled(c, e, idxs, ubatch, (U \ {pick[U]}) \cup {k})
    BY <2>1, <2>2, FillOne DEF e, k
  <2> QED
    BY <1>3, <2>2, <2>3 DEF e, k
<1>6. \E f : Recursion(f)
  <2>1. \A x \in (DOMAIN at), d \in Cells : G[<<x, d>>] = Emplace(d, idxs[at[x]], ubatch[at[x]])
    OBVIOUS
  <2>2. Keeps((DOMAIN at), Cells, c, pick, G, Reach)
    <3>1. \A U \in SUBSET (DOMAIN at), d \in Cells :
            U # {} /\ <<U \ {pick[U]}, d>> \in Reach => <<U, G[<<pick[U], d>>]>> \in Reach
      BY ONLY <1>2, <1>5, <2>1
    <3>2. DOMAIN G = (DOMAIN at) \X Cells /\ Reach \subseteq (SUBSET (DOMAIN at)) \X Cells
      OBVIOUS
    <3> HIDE DEF pick, Reach, G
    <3> QED
      BY <1>1, <1>4, <3>1, <3>2 DEF Keeps
  <2>3. Reach \subseteq (SUBSET (DOMAIN at)) \X Cells
    OBVIOUS
  <2> HIDE DEF pick, Reach, G
  <2>4. PICK f : Solved((DOMAIN at), c, pick, G, f) /\ Reached((DOMAIN at), f, Reach)
    BY ONLY <2>2, FoldRuns
  <2>5. ASSUME NEW U \in SUBSET (DOMAIN at), U # {}
        PROVE  G[<<pick[U], f[U \ {pick[U]}]>>] = Emplace(f[U \ {pick[U]}], idxs[at[pick[U]]], ubatch[at[pick[U]]])
    <3>1. U \ {pick[U]} \in SUBSET (DOMAIN at) /\ pick[U] \in (DOMAIN at)
      BY <1>2, <2>5
    <3>2. f[U \ {pick[U]}] \in Cells
      BY <2>3, <2>4, <3>1 DEF Reached
    <3> QED
      BY <2>1, <3>1, <3>2
  <2>6. f = [U \in SUBSET (DOMAIN at) |-> IF U = {} THEN c ELSE Emplace(f[U \ {pick[U]}], idxs[at[pick[U]]], ubatch[at[pick[U]]])]
    BY <2>4, <2>5 DEF Solved
  <2>7. \A U \in SUBSET (DOMAIN at) : pick[U] = Max(U)
    BY DEF pick
  <2>8. f = [U \in SUBSET (DOMAIN at) |-> IF U = {} THEN c ELSE Emplace(f[U \ {Max(U)}], idxs[at[Max(U)]], ubatch[at[Max(U)]])]
    BY ONLY <2>6, <2>7
  <2> QED
    BY <2>8
<1>7. Place(c, idxs, ubatch, at) = h[(DOMAIN at)]
  BY DEF Place, FoldLeft, MapThenFoldSet
<1>8. \A U \in SUBSET (DOMAIN at) : h[U] = IF U = {} THEN c ELSE Emplace(h[U \ {pick[U]}], idxs[at[pick[U]]], ubatch[at[pick[U]]])
  <2>1. Recursion(h)
    BY <1>6
  <2> HIDE DEF h
  <2> QED
    BY <2>1
<1> HIDE DEF Recursion, h, pick, Reach
<1>9. Reached((DOMAIN at), h, Reach)
  <2>1. KeptBy((DOMAIN at), pick, h, Reach)
    BY ONLY <1>4, <1>5, <1>8 DEF KeptBy
  <2> QED
    BY ONLY <1>1, <2>1, FoldReaches
<1>10. Filled(c, h[(DOMAIN at)], idxs, ubatch, (DOMAIN at))
  BY <1>3, <1>9 DEF Reached
<1> QED
  BY <1>7, <1>10

\* d is c after ranges were removed for the sequences in U.
Purged(c, d, U) ==
  Fewer(c, d) /\ (\A j \in Cell : d.seq[j] \subseteq c.seq[j]) /\ (U = {} => d = c)

LEMMA FewerMore ==
  ASSUME NEW c, NEW d, NEW e, Fewer(c, d), Fewer(d, e)
  PROVE  Fewer(c, e)
BY DEF Fewer

Lost(c, idxs, s) == {c.pos[idxs[k]] : k \in {k \in DOMAIN idxs : c.seq[idxs[k]] = {s}}}

Purge(c, idxs, e, S) ==
  FoldSet(LAMBDA s, d : SeqRm(d, s, 0, Max(Lost(c, idxs, s)) + 1), e, S)

\* apply_ubatch removes what came before a lost position
LEMMA PurgeFold ==
  ASSUME use \in Uses, NEW c, NEW idxs, NEW e, Good(e), NEW S \in SUBSET Seqs
  PROVE  Purged(e, Purge(c, idxs, e, S), S)
<1> DEFINE pick == [U \in SUBSET S |-> CHOOSE x \in U : TRUE]
           Reach == {q \in (SUBSET S) \X Cells : Purged(e, q[2], q[1])}
           G == [q \in S \X Cells |-> SeqRm(q[2], q[1], 0, Max(Lost(c, idxs, q[1])) + 1)]
           Recursion(h) == h = [U \in SUBSET S |->
             IF U = {} THEN e ELSE SeqRm(h[U \ {CHOOSE x \in U : TRUE}], (CHOOSE x \in U : TRUE), 0, Max(Lost(c, idxs, (CHOOSE x \in U : TRUE))) + 1)]
           h == CHOOSE h : Recursion(h)
<1>1. Picks(S, pick)
  BY CellTypes, FS_Subset DEF Picks
<1>2. \A U \in SUBSET S : U # {} => pick[U] \in U
  BY <1>1 DEF Picks
<1>3. \A U \in SUBSET S : \A d : <<U, d>> \in Reach <=> Purged(e, d, U)
  BY DEF Purged, Fewer, Good, Sound
<1>4. <<{}, e>> \in Reach
  <2>1. Purged(e, e, {})
    BY DEF Purged, Fewer
  <2> QED
    BY <1>3, <2>1
<1>5. ASSUME NEW U \in SUBSET S, NEW d, U # {}, <<U \ {pick[U]}, d>> \in Reach
      PROVE  <<U, SeqRm(d, pick[U], 0, Max(Lost(c, idxs, pick[U])) + 1)>> \in Reach
  <2>1. Purged(e, d, U \ {pick[U]})
    BY <1>3, <1>5
  <2>2. pick[U] \in Seqs
    BY <1>2, <1>5
  <2> DEFINE s == pick[U]
             g == SeqRm(d, s, 0, Max(Lost(c, idxs, s)) + 1)
  <2> HIDE DEF pick, s, g
  <2>3. Good(d) /\ s \in Seqs
    BY <2>1, <2>2 DEF Purged, Fewer, s
  <2>4. Fewer(d, g) /\ \A j \in Cell : g.seq[j] \subseteq d.seq[j]
    BY <2>3, SeqRmKeeps DEF g
  <2>5. Fewer(e, g)
    BY <2>1, <2>4, FewerMore DEF Purged
  <2>6. Purged(e, g, U)
    BY <1>5, <2>1, <2>4, <2>5 DEF Purged
  <2> QED
    BY <1>3, <2>6 DEF g, s
<1>6. \E f : Recursion(f)
  <2>1. \A x \in S, d \in Cells : G[<<x, d>>] = SeqRm(d, x, 0, Max(Lost(c, idxs, x)) + 1)
    OBVIOUS
  <2>2. Keeps(S, Cells, e, pick, G, Reach)
    <3>1. \A U \in SUBSET S, d \in Cells :
            U # {} /\ <<U \ {pick[U]}, d>> \in Reach => <<U, G[<<pick[U], d>>]>> \in Reach
      BY ONLY <1>2, <1>5, <2>1
    <3>2. DOMAIN G = S \X Cells /\ Reach \subseteq (SUBSET S) \X Cells
      OBVIOUS
    <3> HIDE DEF pick, Reach, G
    <3> QED
      BY <1>1, <1>4, <3>1, <3>2 DEF Keeps
  <2>3. Reach \subseteq (SUBSET S) \X Cells
    OBVIOUS
  <2> HIDE DEF pick, Reach, G
  <2>4. PICK f : Solved(S, e, pick, G, f) /\ Reached(S, f, Reach)
    BY ONLY <2>2, FoldRuns
  <2>5. ASSUME NEW U \in SUBSET S, U # {}
        PROVE  G[<<pick[U], f[U \ {pick[U]}]>>] = SeqRm(f[U \ {pick[U]}], pick[U], 0, Max(Lost(c, idxs, pick[U])) + 1)
    <3>1. U \ {pick[U]} \in SUBSET S /\ pick[U] \in S
      BY <1>2, <2>5
    <3>2. f[U \ {pick[U]}] \in Cells
      BY <2>3, <2>4, <3>1 DEF Reached
    <3> QED
      BY <2>1, <3>1, <3>2
  <2>6. f = [U \in SUBSET S |-> IF U = {} THEN e ELSE SeqRm(f[U \ {pick[U]}], pick[U], 0, Max(Lost(c, idxs, pick[U])) + 1)]
    BY <2>4, <2>5 DEF Solved
  <2>7. \A U \in SUBSET S : pick[U] = CHOOSE x \in U : TRUE
    BY DEF pick
  <2>8. f = [U \in SUBSET S |-> IF U = {} THEN e ELSE SeqRm(f[U \ {CHOOSE x \in U : TRUE}], (CHOOSE x \in U : TRUE), 0, Max(Lost(c, idxs, (CHOOSE x \in U : TRUE))) + 1)]
    BY ONLY <2>6, <2>7
  <2> QED
    BY <2>8
<1>7. Purge(c, idxs, e, S) = h[S]
  BY DEF Purge, FoldSet, MapThenFoldSet
<1>8. \A U \in SUBSET S : h[U] = IF U = {} THEN e ELSE SeqRm(h[U \ {pick[U]}], pick[U], 0, Max(Lost(c, idxs, pick[U])) + 1)
  <2>1. Recursion(h)
    BY <1>6
  <2> HIDE DEF h
  <2> QED
    BY <2>1
<1> HIDE DEF Recursion, h, pick, Reach
<1>9. Reached(S, h, Reach)
  <2>1. KeptBy(S, pick, h, Reach)
    BY ONLY <1>4, <1>5, <1>8 DEF KeptBy
  <2> QED
    BY ONLY <1>1, <2>1, FoldReaches
<1>10. Purged(e, h[S], S)
  BY <1>3, <1>9 DEF Reached
<1> QED
  BY <1>7, <1>10

First(tokens, s) == {tokens[k].pos : k \in {k \in DOMAIN tokens : Min(tokens[k].seqs) = s}}

\* No sequence of U has its first token at or before the cell.
Unhit(c, tokens, U, j) == \A s \in U : j \notin Has(c, s, Min(First(tokens, s)), use.last + 1)
\* What the sequences in U held alone from their first token on is gone, and no more.
Dropped(c, d, tokens, U) ==
  /\ Fewer(c, d) /\ \A j \in Cell : d.seq[j] \subseteq c.seq[j]
  /\ \A s \in U, j \in Cell :
       c.seq[j] = {s} /\ PosIn(c, j, Min(First(tokens, s)), use.last + 1) => d.pos[j] = None
  /\ \A j \in Cell : Unhit(c, tokens, U, j) => d.pos[j] = c.pos[j] /\ d.seq[j] = c.seq[j]

Drop(c, tokens, S) ==
  FoldSet(LAMBDA s, d : SeqRm(d, s, Min(First(tokens, s)), use.last + 1), c, S)

\* what is removed when a ubatch failed
LEMMA DropFold ==
  ASSUME use \in Uses, NEW tokens, NEW c, Good(c), NEW S \in SUBSET Seqs
  PROVE  Dropped(c, Drop(c, tokens, S), tokens, S)
<1> DEFINE pick == [U \in SUBSET S |-> CHOOSE x \in U : TRUE]
           Reach == {q \in (SUBSET S) \X Cells : Dropped(c, q[2], tokens, q[1])}
           G == [q \in S \X Cells |-> SeqRm(q[2], q[1], Min(First(tokens, q[1])), use.last + 1)]
           Recursion(h) == h = [U \in SUBSET S |->
             IF U = {} THEN c ELSE SeqRm(h[U \ {CHOOSE x \in U : TRUE}], (CHOOSE x \in U : TRUE), Min(First(tokens, (CHOOSE x \in U : TRUE))), use.last + 1)]
           h == CHOOSE h : Recursion(h)
<1>1. Picks(S, pick)
  BY CellTypes, FS_Subset DEF Picks
<1>2. \A U \in SUBSET S : U # {} => pick[U] \in U
  BY <1>1 DEF Picks
<1>3. \A U \in SUBSET S : \A d : <<U, d>> \in Reach <=> Dropped(c, d, tokens, U)
  BY DEF Dropped, Fewer, Good, Sound
<1>4. <<{}, c>> \in Reach
  <2>1. Dropped(c, c, tokens, {})
    BY DEF Dropped, Fewer
  <2> QED
    BY <1>3, <2>1
<1>5. ASSUME NEW U \in SUBSET S, NEW d, U # {}, <<U \ {pick[U]}, d>> \in Reach
      PROVE  <<U, SeqRm(d, pick[U], Min(First(tokens, pick[U])), use.last + 1)>> \in Reach
  <2>1. Dropped(c, d, tokens, U \ {pick[U]})
    BY <1>3, <1>5
  <2>2. pick[U] \in Seqs
    BY <1>2, <1>5
  <2> DEFINE s == pick[U]
             from == Min(First(tokens, s))
             g == SeqRm(d, s, from, use.last + 1)
  <2> HIDE DEF pick, s, g, from
  <2>3. Good(d) /\ s \in Seqs
    BY <2>1, <2>2 DEF Dropped, Fewer, s
  <2>4. /\ Fewer(d, g) /\ \A j \in Cell : g.seq[j] \subseteq d.seq[j]
        /\ Without(g, Has(d, s, from, use.last + 1), s)
        /\ \A j \in Cell \ Has(d, s, from, use.last + 1) : g.pos[j] = d.pos[j] /\ g.seq[j] = d.seq[j]
    BY <2>3, SeqRmKeeps DEF g
  <2>5. Fewer(c, g)
    BY <2>1, <2>4, FewerMore DEF Dropped
  <2>6. ASSUME NEW t \in U, NEW j \in Cell, c.seq[j] = {t},
               PosIn(c, j, Min(First(tokens, t)), use.last + 1)
        PROVE  g.pos[j] = None
    <3>1. CASE d.pos[j] = None
      BY <2>4, <3>1 DEF Fewer
    <3>2. CASE d.pos[j] # None
      <4>1. d.pos[j] = c.pos[j] /\ d.seq[j] \subseteq {t} /\ d.seq[j] # {}
        BY <2>1, <2>3, <2>6, <3>2, CellOf DEF Dropped, Fewer
      <4>2. t = s
        BY <2>1, <2>6, <3>2 DEF Dropped, s
      <4>3. j \in Has(d, s, from, use.last + 1)
        BY <2>6, <4>1, <4>2 DEF Has, PosIn, from
      <4>4. g.seq[j] = {}
        BY <2>4, <4>1, <4>2, <4>3 DEF Without
      <4> QED
        BY <2>4, <4>4, CellOf DEF Fewer
    <3> QED
      BY <3>1, <3>2
  <2>7. \A j \in Cell : g.seq[j] \subseteq c.seq[j]
    BY <2>1, <2>4 DEF Dropped
  <2>9. ASSUME NEW j \in Cell, Unhit(c, tokens, U, j)
        PROVE  g.pos[j] = c.pos[j] /\ g.seq[j] = c.seq[j]
    <3>1. Unhit(c, tokens, U \ {s}, j)
      BY <2>9 DEF Unhit
    <3>2. d.pos[j] = c.pos[j] /\ d.seq[j] = c.seq[j]
      BY <2>1, <3>1 DEF Dropped, s
    <3>3. s \in U
      BY <1>2, <1>5 DEF s
    <3>4. j \notin Has(c, s, from, use.last + 1)
      BY <2>9, <3>3 DEF Unhit, from
    <3>5. j \notin Has(d, s, from, use.last + 1)
      BY <3>2, <3>4 DEF Has, PosIn
    <3> QED
      BY <2>4, <3>2, <3>5
  <2>8. Dropped(c, g, tokens, U)
    BY <2>5, <2>6, <2>7, <2>9 DEF Dropped
  <2> QED
    BY <1>3, <2>8 DEF g, from, s
<1>6. \E f : Recursion(f)
  <2>1. \A x \in S, d \in Cells : G[<<x, d>>] = SeqRm(d, x, Min(First(tokens, x)), use.last + 1)
    OBVIOUS
  <2>2. Keeps(S, Cells, c, pick, G, Reach)
    <3>1. \A U \in SUBSET S, d \in Cells :
            U # {} /\ <<U \ {pick[U]}, d>> \in Reach => <<U, G[<<pick[U], d>>]>> \in Reach
      BY ONLY <1>2, <1>5, <2>1
    <3>2. DOMAIN G = S \X Cells /\ Reach \subseteq (SUBSET S) \X Cells
      OBVIOUS
    <3> HIDE DEF pick, Reach, G
    <3> QED
      BY <1>1, <1>4, <3>1, <3>2 DEF Keeps
  <2>3. Reach \subseteq (SUBSET S) \X Cells
    OBVIOUS
  <2> HIDE DEF pick, Reach, G
  <2>4. PICK f : Solved(S, c, pick, G, f) /\ Reached(S, f, Reach)
    BY ONLY <2>2, FoldRuns
  <2>5. ASSUME NEW U \in SUBSET S, U # {}
        PROVE  G[<<pick[U], f[U \ {pick[U]}]>>] = SeqRm(f[U \ {pick[U]}], pick[U], Min(First(tokens, pick[U])), use.last + 1)
    <3>1. U \ {pick[U]} \in SUBSET S /\ pick[U] \in S
      BY <1>2, <2>5
    <3>2. f[U \ {pick[U]}] \in Cells
      BY <2>3, <2>4, <3>1 DEF Reached
    <3> QED
      BY <2>1, <3>1, <3>2
  <2>6. f = [U \in SUBSET S |-> IF U = {} THEN c ELSE SeqRm(f[U \ {pick[U]}], pick[U], Min(First(tokens, pick[U])), use.last + 1)]
    BY <2>4, <2>5 DEF Solved
  <2>7. \A U \in SUBSET S : pick[U] = CHOOSE x \in U : TRUE
    BY DEF pick
  <2>8. f = [U \in SUBSET S |-> IF U = {} THEN c ELSE SeqRm(f[U \ {CHOOSE x \in U : TRUE}], (CHOOSE x \in U : TRUE), Min(First(tokens, (CHOOSE x \in U : TRUE))), use.last + 1)]
    BY ONLY <2>6, <2>7
  <2> QED
    BY <2>8
<1>7. Drop(c, tokens, S) = h[S]
  BY DEF Drop, FoldSet, MapThenFoldSet
<1>8. \A U \in SUBSET S : h[U] = IF U = {} THEN c ELSE SeqRm(h[U \ {pick[U]}], pick[U], Min(First(tokens, pick[U])), use.last + 1)
  <2>1. Recursion(h)
    BY <1>6
  <2> HIDE DEF h
  <2> QED
    BY <2>1
<1> HIDE DEF Recursion, h, pick, Reach
<1>9. Reached(S, h, Reach)
  <2>1. KeptBy(S, pick, h, Reach)
    BY ONLY <1>4, <1>5, <1>8 DEF KeptBy
  <2> QED
    BY ONLY <1>1, <2>1, FoldReaches
<1>10. Dropped(c, h[S], tokens, S)
  BY <1>3, <1>9 DEF Reached
<1> QED
  BY <1>7, <1>10

\* What apply_ubatch does to a cell: outside the slot it is as it was or empty, inside it
\* has a token or is empty.
AppliedCell(c, d, idxs, ubatch, j) ==
  \/ d.pos[j] = None /\ d.shift[j] = 0
  \/ j \notin Range(idxs) /\ d.pos[j] = c.pos[j] /\ d.shift[j] = c.shift[j]
  \/ /\ \E k \in DOMAIN idxs : /\ idxs[k] = j /\ d.pos[j] = ubatch[k].pos
                               /\ d.seq[j] \subseteq ubatch[k].seqs
     /\ d.shift[j] = 0 \/ d.shift[j] = c.shift[j]
Applied(c, d, idxs, ubatch) ==
  /\ Good(d)
  /\ \A j \in Cell : AppliedCell(c, d, idxs, ubatch, j)
  /\ (\A k \in DOMAIN idxs : c.pos[idxs[k]] = None)
       => \A j \in Cell : FilledCell(c, d, idxs, ubatch, DOMAIN idxs, j)

LEMMA ApplyKeeps ==
  ASSUME use \in Uses, NEW c, Good(c), NEW idxs, NEW ubatch, Fits(idxs, ubatch)
  PROVE  Applied(c, ApplyUbatch(c, idxs, ubatch), idxs, ubatch)
<1> DEFINE at == [k \in DOMAIN idxs |-> k]
           e == Place(c, idxs, ubatch, at)
           S == {s \in Seqs : Lost(c, idxs, s) # {}}
           g == Purge(c, idxs, e, S)
           h == Last(idxs) + 1
           d == [g EXCEPT !.head = h]
<1>1. ApplyUbatch(c, idxs, ubatch) = d
  BY DEF ApplyUbatch, FoldLeftDomain, Place, Purge, Lost
<1>2. DOMAIN at = DOMAIN idxs
  OBVIOUS
<1>3. Filled(c, e, idxs, ubatch, DOMAIN idxs)
  <2>1. at = [k \in DOMAIN idxs |-> k]
    OBVIOUS
  <2>0. use \in Uses /\ Good(c) /\ Fits(idxs, ubatch)
    OBVIOUS
  <2> HIDE DEF at
  <2>2. Filled(c, e, idxs, ubatch, DOMAIN at)
    BY ONLY <2>0, <2>1, PlaceFold
  <2> QED
    BY <1>2, <2>2
<1>4. Purged(e, g, S)
  <2>1. S \in SUBSET Seqs
    OBVIOUS
  <2>2. Good(e)
    BY <1>3 DEF Filled
  <2>3. use \in Uses
    OBVIOUS
  <2> HIDE DEF S, e
  <2> QED
    BY ONLY <2>1, <2>2, <2>3, PurgeFold
<1>5. h \in 0 .. use.size
  <2>1. Len(idxs) \in DOMAIN idxs /\ idxs[Len(idxs)] \in Cell
    BY DEF Fits
  <2>2. Last(idxs) \in Cell
    BY <2>1 DEF Last
  <2> QED
    BY <2>2, CellTypes DEF Cell
<1>6. S # {} => \E k \in DOMAIN idxs : c.pos[idxs[k]] # None
  <2> SUFFICES ASSUME NEW s \in Seqs, Lost(c, idxs, s) # {}
               PROVE  \E k \in DOMAIN idxs : c.pos[idxs[k]] # None
    OBVIOUS
  <2>1. PICK k \in DOMAIN idxs : c.seq[idxs[k]] = {s}
    BY DEF Lost
  <2>2. idxs[k] \in Cell
    BY DEF Fits
  <2> QED
    BY <2>1, <2>2, CellOf
<1>7. d = [g EXCEPT !.head = h]
  OBVIOUS
<1> HIDE DEF at, e, g, h, d
<1>8. Good(d) /\ d.pos = g.pos /\ d.seq = g.seq /\ d.shift = g.shift
  BY <1>4, <1>5, <1>7, HeadMoved DEF Purged, Fewer
<1>9. ASSUME NEW j \in Cell PROVE AppliedCell(c, d, idxs, ubatch, j)
  <2>1. FilledCell(c, e, idxs, ubatch, DOMAIN idxs, j)
    BY <1>3 DEF Filled
  <2>2. /\ d.seq[j] \subseteq e.seq[j]
        /\ \/ d.pos[j] = e.pos[j] /\ d.shift[j] = e.shift[j]
           \/ d.pos[j] = None /\ d.shift[j] = 0
    BY <1>4, <1>8 DEF Purged, Fewer
  <2>3. j \in Range(idxs) <=> \E k \in DOMAIN idxs : idxs[k] = j
    BY DEF Range
  <2> QED
    BY <2>1, <2>2, <2>3 DEF FilledCell, AppliedCell
<1>10. ASSUME \A k \in DOMAIN idxs : c.pos[idxs[k]] = None, NEW j \in Cell
       PROVE  FilledCell(c, d, idxs, ubatch, DOMAIN idxs, j)
  <2>1. g = e
    BY <1>4, <1>6, <1>10 DEF Purged
  <2>2. FilledCell(c, e, idxs, ubatch, DOMAIN idxs, j)
    BY <1>3 DEF Filled
  <2> QED
    BY <1>8, <2>1, <2>2 DEF FilledCell
<1>11. Applied(c, d, idxs, ubatch)
  BY <1>8, <1>9, <1>10 DEF Applied
<1> QED
  BY <1>1, <1>11

-----------------------------------------------------------------------------
(* Taking back what was placed.                                            *)

PutAll(c, old, S) == FoldSet(LAMBDA i, d : PutBack(d, i, old), c, S)

\* d is c after the cells of U were put back as they are in old, but for the shifts.
Restored(c, d, old, U) ==
  /\ Good(d)
  /\ \A j \in Cell : /\ d.shift[j] = c.shift[j]
                     /\ j \in U => d.pos[j] = old.pos[j] /\ d.seq[j] = old.seq[j]
                     /\ j \notin U => d.pos[j] = c.pos[j] /\ d.seq[j] = c.seq[j]

LEMMA PutFold ==
  ASSUME use \in Uses, NEW c, Good(c), NEW old, Good(old), NEW S \in SUBSET Cell
  PROVE  Restored(c, PutAll(c, old, S), old, S)
<1> DEFINE pick == [U \in SUBSET S |-> CHOOSE x \in U : TRUE]
           Reach == {q \in (SUBSET S) \X Cells : Restored(c, q[2], old, q[1])}
           G == [q \in S \X Cells |-> PutBack(q[2], q[1], old)]
           Recursion(h) == h = [U \in SUBSET S |->
             IF U = {} THEN c ELSE PutBack(h[U \ {CHOOSE x \in U : TRUE}], (CHOOSE x \in U : TRUE), old)]
           h == CHOOSE h : Recursion(h)
<1>1. Picks(S, pick)
  BY CellTypes, FS_Subset DEF Picks
<1>2. \A U \in SUBSET S : U # {} => pick[U] \in U
  BY <1>1 DEF Picks
<1>3. \A U \in SUBSET S : \A d : <<U, d>> \in Reach <=> Restored(c, d, old, U)
  BY DEF Restored, Good, Sound
<1>4. <<{}, c>> \in Reach
  <2>1. Restored(c, c, old, {})
    BY DEF Restored
  <2> QED
    BY <1>3, <2>1
<1>5. ASSUME NEW U \in SUBSET S, NEW d, U # {}, <<U \ {pick[U]}, d>> \in Reach
      PROVE  <<U, PutBack(d, pick[U], old)>> \in Reach
  <2>1. Restored(c, d, old, U \ {pick[U]})
    BY <1>3, <1>5
  <2>2. pick[U] \in Cell /\ pick[U] \in U
    BY <1>2, <1>5
  <2> DEFINE i == pick[U]
             e == PutBack(d, i, old)
  <2> HIDE DEF pick, i, e
  <2>3. Good(d) /\ i \in Cell
    BY <2>1, <2>2 DEF Restored, i
  <2>4. /\ Touched(d, e, i) /\ e.pos[i] = old.pos[i] /\ e.seq[i] = old.seq[i]
        /\ e.shift[i] = d.shift[i]
    BY <2>3, PutBackRestores DEF e
  <2>5. ASSUME NEW j \in Cell
        PROVE  /\ e.shift[j] = c.shift[j]
               /\ j \in U => e.pos[j] = old.pos[j] /\ e.seq[j] = old.seq[j]
               /\ j \notin U => e.pos[j] = c.pos[j] /\ e.seq[j] = c.seq[j]
    <3>1. CASE j = i
      BY <2>1, <2>2, <2>4, <3>1 DEF Restored, i
    <3>2. CASE j # i
      <4>1. e.pos[j] = d.pos[j] /\ e.seq[j] = d.seq[j] /\ e.shift[j] = d.shift[j]
            /\ (j \in U <=> j \in U \ {pick[U]})
        BY <2>4, <3>2 DEF Touched, i
      <4> QED
        BY <2>1, <4>1 DEF Restored
    <3> QED
      BY <3>1, <3>2
  <2>6. Restored(c, e, old, U)
    BY <2>4, <2>5 DEF Restored, Touched
  <2> QED
    BY <1>3, <2>6 DEF e, i
<1>6. \E f : Recursion(f)
  <2>1. \A x \in S, d \in Cells : G[<<x, d>>] = PutBack(d, x, old)
    OBVIOUS
  <2>2. Keeps(S, Cells, c, pick, G, Reach)
    <3>1. \A U \in SUBSET S, d \in Cells :
            U # {} /\ <<U \ {pick[U]}, d>> \in Reach => <<U, G[<<pick[U], d>>]>> \in Reach
      BY ONLY <1>2, <1>5, <2>1
    <3>2. DOMAIN G = S \X Cells /\ Reach \subseteq (SUBSET S) \X Cells
      OBVIOUS
    <3> HIDE DEF pick, Reach, G
    <3> QED
      BY <1>1, <1>4, <3>1, <3>2 DEF Keeps
  <2>3. Reach \subseteq (SUBSET S) \X Cells
    OBVIOUS
  <2> HIDE DEF pick, Reach, G
  <2>4. PICK f : Solved(S, c, pick, G, f) /\ Reached(S, f, Reach)
    BY ONLY <2>2, FoldRuns
  <2>5. ASSUME NEW U \in SUBSET S, U # {}
        PROVE  G[<<pick[U], f[U \ {pick[U]}]>>] = PutBack(f[U \ {pick[U]}], pick[U], old)
    <3>1. U \ {pick[U]} \in SUBSET S /\ pick[U] \in S
      BY <1>2, <2>5
    <3>2. f[U \ {pick[U]}] \in Cells
      BY <2>3, <2>4, <3>1 DEF Reached
    <3> QED
      BY <2>1, <3>1, <3>2
  <2>6. f = [U \in SUBSET S |-> IF U = {} THEN c ELSE PutBack(f[U \ {pick[U]}], pick[U], old)]
    BY <2>4, <2>5 DEF Solved
  <2>7. \A U \in SUBSET S : pick[U] = CHOOSE x \in U : TRUE
    BY DEF pick
  <2>8. f = [U \in SUBSET S |-> IF U = {} THEN c ELSE PutBack(f[U \ {CHOOSE x \in U : TRUE}], (CHOOSE x \in U : TRUE), old)]
    BY ONLY <2>6, <2>7
  <2> QED
    BY <2>8
<1>7. PutAll(c, old, S) = h[S]
  BY DEF PutAll, FoldSet, MapThenFoldSet
<1>8. \A U \in SUBSET S : h[U] = IF U = {} THEN c ELSE PutBack(h[U \ {pick[U]}], pick[U], old)
  <2>1. Recursion(h)
    BY <1>6
  <2> HIDE DEF h
  <2> QED
    BY <2>1
<1> HIDE DEF Recursion, h, pick, Reach
<1>9. Reached(S, h, Reach)
  <2>1. KeptBy(S, pick, h, Reach)
    BY ONLY <1>4, <1>5, <1>8 DEF KeptBy
  <2> QED
    BY ONLY <1>1, <2>1, FoldReaches
<1>10. Restored(c, h[S], old, S)
  BY <1>3, <1>9 DEF Reached
<1> QED
  BY <1>7, <1>10

LEMMA RestoreKeeps ==
  ASSUME use \in Uses, NEW c, Good(c), NEW old, Good(old), NEW idxs \in Seq(Cell)
  PROVE  Restored(c, Restore(c, idxs, old), old, Range(idxs))
<1> DEFINE e == PutAll(c, old, Range(idxs))
           d == [e EXCEPT !.head = old.head]
<1>1. Restore(c, idxs, old) = d
  BY DEF Restore, PutAll, PutBack
<1>2. Range(idxs) \in SUBSET Cell
  BY DEF Range
<1>3. Restored(c, e, old, Range(idxs))
  BY <1>2, PutFold
<1>4. old.head \in 0 .. use.size
  BY DEF Good, Sound, Cells
<1>5. d = [e EXCEPT !.head = old.head]
  OBVIOUS
<1> HIDE DEF d, e
<1>6. Good(d) /\ d.pos = e.pos /\ d.seq = e.seq /\ d.shift = e.shift
  BY <1>3, <1>4, <1>5, HeadMoved DEF Restored
<1> QED
  BY <1>1, <1>3, <1>6 DEF Restored

-----------------------------------------------------------------------------
(* Slots.                                                                  *)


Usable(c) == {i \in Cell : CanUse(c, i)}

\* What is found are the usable cells of the part U of the row, each once.
FoundIn(c, row, U, found) ==
  /\ found \in Seq(Cell) /\ IsInjective(found)
  /\ \A i \in Cell : i \in Range(found) <=> CanUse(c, i) /\ \E x \in U : row[x] = i

LEMMA FoundNext ==
  ASSUME NEW c, NEW row \in Seq(Cell), IsInjective(row), NEW W \in SUBSET DOMAIN row,
         NEW found, FoundIn(c, row, W, found), NEW x \in DOMAIN row, x \notin W
  PROVE  FoundIn(c, row, W \cup {x},
                 IF CanUse(c, row[x]) THEN Append(found, row[x]) ELSE found)
<1>1. row[x] \in Cell /\ \A y \in W : row[y] # row[x]
  BY DEF IsInjective
<1>2. found \in Seq(Cell) /\ IsInjective(found)
  BY DEF FoundIn
<1>3. row[x] \notin Range(found)
  BY <1>1 DEF FoundIn
<1>4. CASE CanUse(c, row[x])
  <2> DEFINE more == Append(found, row[x])
  <2>1. /\ more \in Seq(Cell) /\ Len(more) = Len(found) + 1 /\ Len(found) \in Nat
        /\ DOMAIN more = 1 .. Len(found) + 1 /\ DOMAIN found = 1 .. Len(found)
        /\ more[Len(found) + 1] = row[x] /\ \A k \in 1 .. Len(found) : more[k] = found[k]
    BY <1>1, <1>2
  <2> HIDE DEF more
  <2>2. \A k \in DOMAIN found : found[k] # row[x]
    BY <1>3 DEF Range
  <2>3. \A k \in DOMAIN more : k \in DOMAIN found \/ k = Len(found) + 1
    BY <2>1
  <2>4. IsInjective(more)
    BY <1>2, <2>1, <2>2, <2>3 DEF IsInjective
  <2>5. \A i \in Cell : i \in Range(more) <=> i \in Range(found) \/ i = row[x]
    <3>1. ASSUME NEW i \in Range(found) PROVE i \in Range(more)
      <4>1. PICK k \in DOMAIN found : found[k] = i
        BY DEF Range
      <4>2. k \in DOMAIN more /\ more[k] = i
        BY <2>1, <4>1
      <4> QED
        BY <4>2 DEF Range
    <3>2. row[x] \in Range(more)
      <4>1. Len(found) + 1 \in DOMAIN more
        BY <2>1
      <4> QED
        BY <2>1, <4>1 DEF Range
    <3>3. ASSUME NEW i \in Range(more) PROVE i \in Range(found) \/ i = row[x]
      <4>1. PICK k \in DOMAIN more : more[k] = i
        BY DEF Range
      <4> QED
        BY <2>1, <2>3, <4>1 DEF Range
    <3> QED
      BY <3>1, <3>2, <3>3
  <2>6. FoundIn(c, row, W \cup {x}, more)
    BY <1>4, <2>1, <2>4, <2>5 DEF FoundIn
  <2> QED
    BY <1>4, <2>6 DEF more
<1>5. CASE ~ CanUse(c, row[x])
  <2>1. FoundIn(c, row, W \cup {x}, found)
    BY <1>5 DEF FoundIn
  <2> QED
    BY <1>5, <2>1
<1> QED
  BY <1>4, <1>5

LEMMA UsableFold ==
  ASSUME NEW c, NEW row \in Seq(Cell), IsInjective(row)
  PROVE  FoundIn(c, row, DOMAIN row, UsableOf(c, row))
<1> DEFINE pick == [U \in SUBSET (DOMAIN row) |-> Max(U)]
           Reach == {q \in (SUBSET (DOMAIN row)) \X Seq(Cell) : FoundIn(c, row, q[1], q[2])}
           G == [q \in (DOMAIN row) \X Seq(Cell) |-> IF CanUse(c, row[q[1]]) THEN Append(q[2], row[q[1]]) ELSE q[2]]
           Recursion(h) == h = [U \in SUBSET (DOMAIN row) |->
             IF U = {} THEN <<>> ELSE IF CanUse(c, row[Max(U)]) THEN Append(h[U \ {Max(U)}], row[Max(U)]) ELSE h[U \ {Max(U)}]]
           h == CHOOSE h : Recursion(h)
<1>1. Picks((DOMAIN row), pick)
  <2>1. (DOMAIN row) \subseteq Int /\ IsFiniteSet(DOMAIN row)
    BY DomainOf
  <2> QED
    BY <2>1, PicksMax
<1>2. \A U \in SUBSET (DOMAIN row) : U # {} => pick[U] \in U
  BY <1>1 DEF Picks
<1>3. \A U \in SUBSET (DOMAIN row) : \A d : <<U, d>> \in Reach <=> FoundIn(c, row, U, d)
  BY DEF FoundIn
<1>4. <<{}, <<>>>> \in Reach
  <2>1. <<>> \in Seq(Cell) /\ DOMAIN <<>> = {}
    OBVIOUS
  <2>2. FoundIn(c, row, {}, <<>>)
    BY <2>1 DEF FoundIn, IsInjective, Range
  <2> QED
    BY <1>3, <2>2
<1>5. ASSUME NEW U \in SUBSET (DOMAIN row), NEW d, U # {}, <<U \ {pick[U]}, d>> \in Reach
      PROVE  <<U, IF CanUse(c, row[pick[U]]) THEN Append(d, row[pick[U]]) ELSE d>> \in Reach
  <2>1. FoundIn(c, row, U \ {pick[U]}, d)
    BY <1>3, <1>5
  <2>2. /\ pick[U] \in DOMAIN row /\ pick[U] \notin U \ {pick[U]}
        /\ (U \ {pick[U]}) \cup {pick[U]} = U /\ U \ {pick[U]} \in SUBSET DOMAIN row
    BY <1>2, <1>5
  <2> HIDE DEF pick
  <2>3. FoundIn(c, row, (U \ {pick[U]}) \cup {pick[U]},
                IF CanUse(c, row[pick[U]]) THEN Append(d, row[pick[U]]) ELSE d)
    BY <2>1, <2>2, FoundNext
  <2> QED
    BY <1>3, <2>2, <2>3
<1>6. \E f : Recursion(f)
  <2>1. \A x \in (DOMAIN row), d \in Seq(Cell) : G[<<x, d>>] = IF CanUse(c, row[x]) THEN Append(d, row[x]) ELSE d
    OBVIOUS
  <2>2. Keeps((DOMAIN row), Seq(Cell), <<>>, pick, G, Reach)
    <3>1. \A U \in SUBSET (DOMAIN row), d \in Seq(Cell) :
            U # {} /\ <<U \ {pick[U]}, d>> \in Reach => <<U, G[<<pick[U], d>>]>> \in Reach
      BY ONLY <1>2, <1>5, <2>1
    <3>2. DOMAIN G = (DOMAIN row) \X Seq(Cell) /\ Reach \subseteq (SUBSET (DOMAIN row)) \X Seq(Cell)
      OBVIOUS
    <3> HIDE DEF pick, Reach, G
    <3> QED
      BY <1>1, <1>4, <3>1, <3>2 DEF Keeps
  <2>3. Reach \subseteq (SUBSET (DOMAIN row)) \X Seq(Cell)
    OBVIOUS
  <2> HIDE DEF pick, Reach, G
  <2>4. PICK f : Solved((DOMAIN row), <<>>, pick, G, f) /\ Reached((DOMAIN row), f, Reach)
    BY ONLY <2>2, FoldRuns
  <2>5. ASSUME NEW U \in SUBSET (DOMAIN row), U # {}
        PROVE  G[<<pick[U], f[U \ {pick[U]}]>>] = IF CanUse(c, row[pick[U]]) THEN Append(f[U \ {pick[U]}], row[pick[U]]) ELSE f[U \ {pick[U]}]
    <3>1. U \ {pick[U]} \in SUBSET (DOMAIN row) /\ pick[U] \in (DOMAIN row)
      BY <1>2, <2>5
    <3>2. f[U \ {pick[U]}] \in Seq(Cell)
      BY <2>3, <2>4, <3>1 DEF Reached
    <3> QED
      BY <2>1, <3>1, <3>2
  <2>6. f = [U \in SUBSET (DOMAIN row) |-> IF U = {} THEN <<>> ELSE IF CanUse(c, row[pick[U]]) THEN Append(f[U \ {pick[U]}], row[pick[U]]) ELSE f[U \ {pick[U]}]]
    BY <2>4, <2>5 DEF Solved
  <2>7. \A U \in SUBSET (DOMAIN row) : pick[U] = Max(U)
    BY DEF pick
  <2>8. f = [U \in SUBSET (DOMAIN row) |-> IF U = {} THEN <<>> ELSE IF CanUse(c, row[Max(U)]) THEN Append(f[U \ {Max(U)}], row[Max(U)]) ELSE f[U \ {Max(U)}]]
    BY ONLY <2>6, <2>7
  <2> QED
    BY <2>8
<1>7. UsableOf(c, row) = h[(DOMAIN row)]
  BY DEF UsableOf, FoldLeft, MapThenFoldSet
<1>8. \A U \in SUBSET (DOMAIN row) : h[U] = IF U = {} THEN <<>> ELSE IF CanUse(c, row[pick[U]]) THEN Append(h[U \ {pick[U]}], row[pick[U]]) ELSE h[U \ {pick[U]}]
  <2>1. Recursion(h)
    BY <1>6
  <2> HIDE DEF h
  <2> QED
    BY <2>1
<1> HIDE DEF Recursion, h, pick, Reach
<1>9. Reached((DOMAIN row), h, Reach)
  <2>1. KeptBy((DOMAIN row), pick, h, Reach)
    BY ONLY <1>4, <1>5, <1>8 DEF KeptBy
  <2> QED
    BY ONLY <1>1, <2>1, FoldReaches
<1>10. FoundIn(c, row, (DOMAIN row), h[(DOMAIN row)])
  BY <1>3, <1>9 DEF Reached
<1> QED
  BY <1>7, <1>10

-----------------------------------------------------------------------------
(* find_slot.                                                              *)

LEMMA GoesRound ==
  ASSUME NEW n \in Nat \ {0}, NEW a \in 0 .. 2 * n - 1
  PROVE  a % n = IF a < n THEN a ELSE a - n
  OBVIOUS

\* The ring of the cells from any start on has every cell once.
LEMMA RowGoesRound ==
  ASSUME use \in Uses, NEW start \in 0 .. use.size
  PROVE  LET row == [k \in 1 .. use.size |-> (start + k - 1) % use.size]
         IN /\ row \in Seq(Cell) /\ IsInjective(row)
            /\ \A i \in Cell : \E x \in DOMAIN row : row[x] = i
<1> DEFINE n == use.size
           row == [k \in 1 .. n |-> (start + k - 1) % n]
<1>1. n \in Nat \ {0}
  BY CellTypes
<1>2. Cell = 0 .. n - 1
  BY DEF Cell
<1>3. \A k \in 1 .. n : row[k] = IF start + k - 1 < n THEN start + k - 1 ELSE start + k - 1 - n
  <2> SUFFICES ASSUME NEW k \in 1 .. n
               PROVE  row[k] = IF start + k - 1 < n THEN start + k - 1 ELSE start + k - 1 - n
    OBVIOUS
  <2>1. start + k - 1 \in 0 .. 2 * n - 1
    BY <1>1
  <2> DEFINE a == start + k - 1
  <2>2. row[k] = a % n
    OBVIOUS
  <2> HIDE DEF n, a, row
  <2>3. a \in 0 .. 2 * n - 1
    BY <2>1 DEF a
  <2>4. a % n = IF a < n THEN a ELSE a - n
    BY ONLY <1>1, <2>3, GoesRound
  <2>5. row[k] = IF a < n THEN a ELSE a - n
    BY ONLY <2>2, <2>4
  <2>6. a = start + k - 1
    BY DEF a
  <2>7. a \in Int /\ n \in Int /\ start + k - 1 \in Int
    BY <1>1, <2>3
  <2> QED
    BY ONLY <2>5, <2>6, <2>7
<1>4. DOMAIN row = 1 .. n
  OBVIOUS
<1> HIDE DEF row
<1>5. row \in Seq(Cell)
  <2>1. \A k \in 1 .. n : row[k] \in Cell
    BY <1>1, <1>2, <1>3
  <2>2. row = [k \in 1 .. n |-> row[k]]
    BY <1>4 DEF row
  <2> HIDE DEF n
  <2> QED
    BY <1>1, <2>1, <2>2
<1>6. IsInjective(row)
  BY <1>1, <1>3, <1>4 DEF IsInjective
<1>7. ASSUME NEW i \in Cell PROVE \E x \in DOMAIN row : row[x] = i
  <2>1. CASE i >= start
    <3>1. i - start + 1 \in 1 .. n
      BY <1>1, <1>2, <2>1
    <3>2. row[i - start + 1] = i
      BY <1>1, <1>2, <1>3, <2>1, <3>1
    <3> QED
      BY <1>4, <3>1, <3>2
  <2>2. CASE i < start
    <3>1. i - start + 1 + n \in 1 .. n
      BY <1>1, <1>2, <2>2
    <3>2. row[i - start + 1 + n] = i
      BY <1>1, <1>2, <1>3, <2>2, <3>1
    <3> QED
      BY <1>4, <3>1, <3>2
  <2> QED
    BY <1>1, <1>2, <2>1, <2>2
<1> QED
  BY <1>5, <1>6, <1>7 DEF row

\* A sequence has as many members as it is long, when none is there twice.
LEMMA RangeSize ==
  ASSUME NEW T, NEW q \in Seq(T)
  PROVE  /\ IsFiniteSet(Range(q)) /\ Cardinality(Range(q)) <= Len(q)
         /\ IsInjective(q) => Cardinality(Range(q)) = Len(q)
<1>1. DOMAIN q = 1 .. Len(q) /\ Len(q) \in Nat /\ IsFiniteSet(DOMAIN q)
  BY DomainOf
<1>2. Cardinality(DOMAIN q) = Len(q)
  BY <1>1, FS_Interval
<1>3. q \in [DOMAIN q -> Range(q)]
  BY <1>1 DEF Range
<1>4. q \in Surjection(DOMAIN q, Range(q))
  BY <1>3 DEF Surjection, Range
<1>5. IsInjective(q) => q \in Injection(DOMAIN q, Range(q))
  BY <1>3 DEF Injection, IsInjective
<1> QED
  BY <1>1, <1>2, <1>4, <1>5, FS_Surjection

\* What find_slot found, or that there are too few cells.
Found(c, n, idxs) ==
  \/ idxs = <<>> /\ Cardinality(Usable(c)) < n
  \/ /\ idxs \in Seq(Cell) /\ Len(idxs) = n /\ IsInjective(idxs)
     /\ \A k \in DOMAIN idxs : CanUse(c, idxs[k])
     /\ Cardinality(Usable(c)) >= n

LEMMA FindSlotFinds ==
  ASSUME use \in Uses, NEW c, Good(c), NEW n \in Nat \ {0}
  PROVE  Found(c, n, FindSlot(c, n))
<1> DEFINE start == IF c.head > Cardinality(c.used) + 2 * n THEN 0 ELSE c.head
           row == [k \in 1 .. use.size |-> (start + k - 1) % use.size]
           usable == UsableOf(c, row)
           idxs == SubSeq(usable, 1, n)
<1>1. start \in 0 .. use.size
  <2>1. c.head \in 0 .. use.size /\ use.size \in Nat
    BY CellTypes DEF Good, Sound, Cells
  <2> QED
    BY <2>1
<1>2. row = [k \in 1 .. use.size |-> (start + k - 1) % use.size]
  OBVIOUS
<1> HIDE DEF start
<1>3. row \in Seq(Cell) /\ IsInjective(row) /\ \A i \in Cell : \E x \in DOMAIN row : row[x] = i
  BY <1>1, RowGoesRound
<1>4. FindSlot(c, n) = IF Len(usable) < n THEN <<>> ELSE idxs
  BY DEF FindSlot, start
<1> HIDE DEF row
<1>5. FoundIn(c, row, DOMAIN row, usable)
  BY <1>3, UsableFold
<1> HIDE DEF usable
<1>6. usable \in Seq(Cell) /\ IsInjective(usable) /\ Len(usable) \in Nat
  BY <1>5 DEF FoundIn
<1>7. Range(usable) = Usable(c)
  <2>1. Range(usable) \subseteq Cell
    BY <1>6 DEF Range
  <2>2. \A i \in Cell : i \in Range(usable) <=> CanUse(c, i)
    BY <1>3, <1>5 DEF FoundIn
  <2> QED
    BY <2>1, <2>2 DEF Usable
<1>8. Cardinality(Usable(c)) = Len(usable)
  BY <1>6, <1>7, RangeSize
<1>9. CASE Len(usable) < n
  BY <1>4, <1>8, <1>9 DEF Found
<1>10. CASE ~ (Len(usable) < n)
  <2>1. idxs \in Seq(Cell) /\ Len(idxs) = n /\ DOMAIN idxs = 1 .. n
    BY <1>6, <1>10
  <2>2. \A k \in 1 .. n : idxs[k] = usable[k] /\ k \in DOMAIN usable
    BY <1>6, <1>10
  <2> HIDE DEF idxs
  <2>3. IsInjective(idxs)
    BY <1>6, <2>1, <2>2 DEF IsInjective
  <2>4. \A k \in DOMAIN idxs : CanUse(c, idxs[k])
    <3> SUFFICES ASSUME NEW k \in 1 .. n PROVE CanUse(c, idxs[k])
      BY <2>1
    <3>1. usable[k] \in Range(usable)
      BY <2>2 DEF Range
    <3> QED
      BY <1>7, <2>2, <3>1 DEF Usable
  <2>5. Found(c, n, idxs)
    BY <1>6, <1>8, <1>10, <2>1, <2>3, <2>4 DEF Found
  <2> QED
    BY <1>4, <1>10, <2>5
<1> QED
  BY <1>9, <1>10

-----------------------------------------------------------------------------
(* The ubatches of a batch.                                                *)

\* A token whose position may be beyond the last one.
FreeToken == [pos : Nat, seqs : (SUBSET Seqs) \ {{}}]
Numbers == [p : [Seqs -> Nat], tokens : Seq(FreeToken)]
Numbered1(r, ss) ==
  [p |-> [s \in Seqs |-> IF s \in ss THEN r.p[Min(ss)] + 1 ELSE r.p[s]],
   tokens |-> Append(r.tokens, [pos |-> r.p[Min(ss)], seqs |-> ss])]
From(c) == [p |-> [s \in Seqs |-> SeqPosMax(c, s) + 1], tokens |-> <<>>]
Singles(batch) == \A k \in DOMAIN batch : \E s \in Seqs : batch[k] = {s}
\* The positions of a sequence rise from base on.
Rising(base, r) ==
  /\ \A s \in Seqs : base[s] <= r.p[s]
  /\ \A k \in DOMAIN r.tokens : \A s \in r.tokens[k].seqs :
       base[s] <= r.tokens[k].pos /\ r.tokens[k].pos < r.p[s]
  /\ \A a, b \in DOMAIN r.tokens : a < b =>
       \A s \in r.tokens[a].seqs \cap r.tokens[b].seqs : r.tokens[a].pos < r.tokens[b].pos
\* The first tokens, with the sequences that the batch gives them.
Numbered(c, batch, U, r) ==
  /\ r \in Numbers
  /\ \A m \in Nat : U = 1 .. m =>
       Len(r.tokens) = m /\ \A k \in 1 .. m : r.tokens[k].seqs = batch[k]
  /\ Singles(batch) => Rising(From(c).p, r)

LEMMA SeqPosMaxIs ==
  ASSUME use \in Uses, NEW c, Good(c), NEW s \in Seqs
  PROVE  SeqPosMax(c, s) \in Int /\ SeqPosMax(c, s) >= -1
<1>1. CASE Positions(c, s) = {}
  BY <1>1 DEF SeqPosMax
<1>2. CASE Positions(c, s) # {}
  <2>1. Positions(c, s) \in SUBSET Pos
    BY DEF Positions
  <2>2. Positions(c, s) \subseteq Int /\ Positions(c, s) \subseteq Nat /\ IsFiniteSet(Positions(c, s))
    BY <2>1, CellTypes, FS_Subset
  <2>3. Max(Positions(c, s)) \in Positions(c, s)
    BY <1>2, <2>2, MaxIs
  <2> QED
    BY <1>2, <2>2, <2>3 DEF SeqPosMax
<1> QED
  BY <1>1, <1>2

\* 1 .. m without its largest member.
LEMMA LastOut ==
  ASSUME NEW m \in Nat, 1 .. m # {}
  PROVE  m - 1 \in Nat /\ m \in 1 .. m /\ Max(1 .. m) = m /\ (1 .. m) \ {m} = 1 .. m - 1
<1>1. m >= 1
  OBVIOUS
<1>2. Max(1 .. m) \in 1 .. m /\ \A x \in 1 .. m : Max(1 .. m) >= x
  <2>1. 1 .. m \subseteq Int /\ IsFiniteSet(1 .. m)
    BY FS_Interval
  <2> QED
    BY <2>1, MaxIs
<1> QED
  BY <1>1, <1>2

LEMMA RisingMore ==
  ASSUME use \in Uses, NEW r \in Numbers, NEW base \in [Seqs -> Nat], Rising(base, r), NEW s \in Seqs
  PROVE  Rising(base, Numbered1(r, {s}))
<1> DEFINE p == r.p[s]
           token == [pos |-> p, seqs |-> {s}]
           n == Len(r.tokens)
           tokens == Append(r.tokens, token)
           q == [t \in Seqs |-> IF t = s THEN p + 1 ELSE r.p[t]]
           e == Numbered1(r, {s})
<1>1. r.p \in [Seqs -> Nat] /\ r.tokens \in Seq(FreeToken)
  BY DEF Numbers
<1>2. Min({s}) = s
  <2>1. {s} \subseteq Nat /\ {s} # {}
    BY CellTypes
  <2>2. Min({s}) \in {s}
    BY <2>1, MinIs
  <2> QED
    BY <2>2
<1>3. e = [p |-> q, tokens |-> tokens]
  BY <1>2 DEF Numbered1
<1>4. p \in Nat /\ base[s] <= p
  BY <1>1 DEF Rising
<1>5. token.pos = p /\ token.seqs = {s}
  OBVIOUS
<1> HIDE DEF token
<1>6. /\ n \in Nat /\ DOMAIN r.tokens = 1 .. n /\ DOMAIN tokens = 1 .. n + 1
      /\ tokens[n + 1] = token /\ \A k \in 1 .. n : tokens[k] = r.tokens[k]
  BY <1>1
<1>7. \A k \in 1 .. n : r.tokens[k].pos \in Nat /\ r.tokens[k].seqs \subseteq Seqs
  <2> SUFFICES ASSUME NEW k \in 1 .. n
               PROVE  r.tokens[k].pos \in Nat /\ r.tokens[k].seqs \subseteq Seqs
    OBVIOUS
  <2> DEFINE t == r.tokens[k]
  <2>1. t \in FreeToken
    BY <1>1, <1>6
  <2> HIDE DEF t
  <2>2. t.pos \in Nat /\ t.seqs \subseteq Seqs
    BY <2>1 DEF FreeToken
  <2> QED
    BY <2>2 DEF t
<1> HIDE DEF n, tokens
<1>8. \A t \in Seqs : q[t] \in Nat /\ r.p[t] \in Nat /\ r.p[t] <= q[t] /\ base[t] \in Nat /\ base[t] <= q[t]
  BY <1>1, <1>4 DEF Rising
<1>9. q[s] = p + 1
  OBVIOUS
<1> HIDE DEF p, q, e
<1>10. ASSUME NEW k \in 1 .. n + 1, NEW t \in tokens[k].seqs
       PROVE  base[t] <= tokens[k].pos /\ tokens[k].pos < q[t]
  <2>1. CASE k \in 1 .. n
    <3>1. t \in Seqs /\ base[t] <= tokens[k].pos /\ tokens[k].pos < r.p[t] /\ tokens[k].pos \in Nat
      BY <1>6, <1>7, <1>10, <2>1 DEF Rising
    <3> QED
      BY <1>8, <3>1
  <2>2. CASE k = n + 1
    BY <1>4, <1>5, <1>6, <1>9, <1>10, <2>2
  <2> QED
    BY <1>6, <2>1, <2>2
<1>11. ASSUME NEW a \in 1 .. n + 1, NEW b \in 1 .. n + 1, a < b, NEW t \in tokens[a].seqs \cap tokens[b].seqs
       PROVE  tokens[a].pos < tokens[b].pos
  <2>1. a \in 1 .. n
    BY <1>6, <1>11
  <2>2. CASE b \in 1 .. n
    BY <1>6, <1>11, <2>1, <2>2 DEF Rising
  <2>3. CASE b = n + 1
    <3>1. t = s /\ tokens[b].pos = p
      BY <1>5, <1>6, <1>11, <2>3
    <3>2. tokens[a].pos < r.p[t]
      BY <1>6, <1>11, <2>1 DEF Rising
    <3> QED
      BY <3>1, <3>2 DEF p
  <2> QED
    BY <1>6, <2>2, <2>3
<1>12. Rising(base, [p |-> q, tokens |-> tokens])
  BY <1>6, <1>8, <1>10, <1>11 DEF Rising
<1> QED
  BY <1>3, <1>12 DEF e

LEMMA NumberedMore ==
  ASSUME NEW c, Good(c), NEW batch \in Seq((SUBSET Seqs) \ {{}}), use \in Uses,
         NEW U \in SUBSET DOMAIN batch, U # {}, NEW r, NEW x \in U, x = Max(U),
         Numbered(c, batch, U \ {x}, r)
  PROVE  Numbered(c, batch, U, Numbered1(r, batch[x]))
<1> DEFINE ss == batch[x]
           p == r.p[Min(ss)]
           token == [pos |-> p, seqs |-> ss]
           e == Numbered1(r, ss)
<1>1. ss \in SUBSET Seqs /\ ss # {} /\ ss \subseteq Nat
  BY DomainOf, CellTypes
<1> HIDE DEF ss
<1>2. Min(ss) \in Seqs
  BY <1>1, MinIs
<1>3. r \in Numbers
  BY DEF Numbered
<1>4. p \in Nat
  BY <1>2, <1>3 DEF Numbers
<1>5. token \in FreeToken
  BY <1>1, <1>4 DEF FreeToken
<1>6. e = [p |-> [s \in Seqs |-> IF s \in ss THEN p + 1 ELSE r.p[s]], tokens |-> Append(r.tokens, token)]
  BY DEF Numbered1
<1> HIDE DEF p
<1>7. e \in Numbers
  BY <1>3, <1>4, <1>5, <1>6 DEF Numbers
<1>8. token.seqs = ss
  OBVIOUS
<1>9. e.tokens = Append(r.tokens, token) /\ r.tokens \in Seq(FreeToken)
  BY <1>3, <1>6 DEF Numbers
<1> HIDE DEF token, e
<1>10. ASSUME NEW m \in Nat, U = 1 .. m
       PROVE  Len(e.tokens) = m /\ \A k \in 1 .. m : e.tokens[k].seqs = batch[k]
  <2>1. m - 1 \in Nat /\ x = m /\ U \ {x} = 1 .. m - 1
    BY <1>10, LastOut
  <2>2. Len(r.tokens) = m - 1 /\ \A k \in 1 .. m - 1 : r.tokens[k].seqs = batch[k]
    BY <2>1 DEF Numbered
  <2>3. Len(e.tokens) = m /\ e.tokens[m] = token /\ \A k \in 1 .. m - 1 : e.tokens[k] = r.tokens[k]
    BY <1>9, <2>1, <2>2
  <2>4. \A k \in 1 .. m : k = m \/ k \in 1 .. m - 1
    BY <2>1
  <2> QED
    BY <1>8, <2>1, <2>2, <2>3, <2>4 DEF ss
<1>11. ASSUME Singles(batch) PROVE Rising(From(c).p, Numbered1(r, batch[x]))
  <2>1. PICK s \in Seqs : batch[x] = {s}
    BY <1>11 DEF Singles
  <2>2. From(c).p \in [Seqs -> Nat]
    BY SeqPosMaxIs DEF From
  <2>3. Rising(From(c).p, r)
    BY <1>11 DEF Numbered
  <2>4. Rising(From(c).p, Numbered1(r, {s}))
    BY <1>3, <2>2, <2>3, RisingMore
  <2> QED
    BY <2>1, <2>4
<1> QED
  BY <1>7, <1>10, <1>11 DEF Numbered, e, ss

Numbering(c, batch) == FoldLeft(LAMBDA r, ss : Numbered1(r, ss), From(c), batch)

\* What the tokens of a batch are.
LEMMA NumberingFold ==
  ASSUME use \in Uses, NEW c, Good(c), NEW batch \in Seq((SUBSET Seqs) \ {{}})
  PROVE  Numbered(c, batch, DOMAIN batch, Numbering(c, batch))
<1> DEFINE pick == [U \in SUBSET (DOMAIN batch) |-> Max(U)]
           Reach == {q \in (SUBSET (DOMAIN batch)) \X Numbers : Numbered(c, batch, q[1], q[2])}
           G == [q \in (DOMAIN batch) \X Numbers |-> Numbered1(q[2], batch[q[1]])]
           Recursion(h) == h = [U \in SUBSET (DOMAIN batch) |->
             IF U = {} THEN From(c) ELSE Numbered1(h[U \ {Max(U)}], batch[Max(U)])]
           h == CHOOSE h : Recursion(h)
<1>1. Picks((DOMAIN batch), pick)
  <2>1. (DOMAIN batch) \subseteq Int /\ IsFiniteSet(DOMAIN batch)
    BY DomainOf
  <2> QED
    BY <2>1, PicksMax
<1>2. \A U \in SUBSET (DOMAIN batch) : U # {} => pick[U] \in U
  BY <1>1 DEF Picks
<1>3. \A U \in SUBSET (DOMAIN batch) : \A d : <<U, d>> \in Reach <=> Numbered(c, batch, U, d)
  BY DEF Numbered
<1>4. <<{}, From(c)>> \in Reach
  <2>1. \A s \in Seqs : SeqPosMax(c, s) + 1 \in Nat
    BY SeqPosMaxIs
  <2>2. From(c) \in Numbers
    BY <2>1 DEF From, Numbers
  <2>3. \A m \in Nat : {} = 1 .. m => m = 0
    OBVIOUS
  <2>4. From(c).tokens = <<>>
    BY DEF From
  <2>6. Rising(From(c).p, From(c))
    <3>1. \A s \in Seqs : From(c).p[s] \in Nat
      BY <2>2 DEF Numbers
    <3> QED
      BY <2>4, <3>1 DEF Rising
  <2>5. Numbered(c, batch, {}, From(c))
    BY <2>2, <2>3, <2>4, <2>6 DEF Numbered
  <2> QED
    BY <1>3, <2>5
<1>5. ASSUME NEW U \in SUBSET (DOMAIN batch), NEW d, U # {}, <<U \ {pick[U]}, d>> \in Reach
      PROVE  <<U, Numbered1(d, batch[pick[U]])>> \in Reach
  <2>1. Numbered(c, batch, U \ {pick[U]}, d)
    BY <1>3, <1>5
  <2>2. pick[U] \in U /\ pick[U] = Max(U)
    BY <1>2, <1>5
  <2> HIDE DEF pick
  <2>3. Numbered(c, batch, U, Numbered1(d, batch[pick[U]]))
    BY <1>5, <2>1, <2>2, NumberedMore
  <2> QED
    BY <1>3, <2>3
<1>6. \E f : Recursion(f)
  <2>1. \A x \in (DOMAIN batch), d \in Numbers : G[<<x, d>>] = Numbered1(d, batch[x])
    OBVIOUS
  <2>2. Keeps((DOMAIN batch), Numbers, From(c), pick, G, Reach)
    <3>1. \A U \in SUBSET (DOMAIN batch), d \in Numbers :
            U # {} /\ <<U \ {pick[U]}, d>> \in Reach => <<U, G[<<pick[U], d>>]>> \in Reach
      BY ONLY <1>2, <1>5, <2>1
    <3>2. DOMAIN G = (DOMAIN batch) \X Numbers /\ Reach \subseteq (SUBSET (DOMAIN batch)) \X Numbers
      OBVIOUS
    <3> HIDE DEF pick, Reach, G
    <3> QED
      BY <1>1, <1>4, <3>1, <3>2 DEF Keeps
  <2>3. Reach \subseteq (SUBSET (DOMAIN batch)) \X Numbers
    OBVIOUS
  <2> HIDE DEF pick, Reach, G
  <2>4. PICK f : Solved((DOMAIN batch), From(c), pick, G, f) /\ Reached((DOMAIN batch), f, Reach)
    BY ONLY <2>2, FoldRuns
  <2>5. ASSUME NEW U \in SUBSET (DOMAIN batch), U # {}
        PROVE  G[<<pick[U], f[U \ {pick[U]}]>>] = Numbered1(f[U \ {pick[U]}], batch[pick[U]])
    <3>1. U \ {pick[U]} \in SUBSET (DOMAIN batch) /\ pick[U] \in (DOMAIN batch)
      BY <1>2, <2>5
    <3>2. f[U \ {pick[U]}] \in Numbers
      BY <2>3, <2>4, <3>1 DEF Reached
    <3> QED
      BY <2>1, <3>1, <3>2
  <2>6. f = [U \in SUBSET (DOMAIN batch) |-> IF U = {} THEN From(c) ELSE Numbered1(f[U \ {pick[U]}], batch[pick[U]])]
    BY <2>4, <2>5 DEF Solved
  <2>7. \A U \in SUBSET (DOMAIN batch) : pick[U] = Max(U)
    BY DEF pick
  <2>8. f = [U \in SUBSET (DOMAIN batch) |-> IF U = {} THEN From(c) ELSE Numbered1(f[U \ {Max(U)}], batch[Max(U)])]
    BY ONLY <2>6, <2>7
  <2> QED
    BY <2>8
<1>7. Numbering(c, batch) = h[(DOMAIN batch)]
  BY DEF Numbering, FoldLeft, MapThenFoldSet
<1>8. \A U \in SUBSET (DOMAIN batch) : h[U] = IF U = {} THEN From(c) ELSE Numbered1(h[U \ {pick[U]}], batch[pick[U]])
  <2>1. Recursion(h)
    BY <1>6
  <2> HIDE DEF h
  <2> QED
    BY <2>1
<1> HIDE DEF Recursion, h, pick, Reach
<1>9. Reached((DOMAIN batch), h, Reach)
  <2>1. KeptBy((DOMAIN batch), pick, h, Reach)
    BY ONLY <1>4, <1>5, <1>8 DEF KeptBy
  <2> QED
    BY ONLY <1>1, <2>1, FoldReaches
<1>10. Numbered(c, batch, (DOMAIN batch), h[(DOMAIN batch)])
  BY <1>3, <1>9 DEF Reached
<1> QED
  BY <1>7, <1>10

\* The tokens of each sequence come behind its cells, one behind the other.
Follow(c, tokens) ==
  /\ \A k \in DOMAIN tokens : \A s \in tokens[k].seqs : SeqPosMax(c, s) < tokens[k].pos
  /\ \A a, b \in DOMAIN tokens : a < b =>
       \A s \in tokens[a].seqs \cap tokens[b].seqs : tokens[a].pos < tokens[b].pos

\* The tokens of a batch that is accepted, or of one that is not yet.
LEMMA TokensAre ==
  ASSUME use \in Uses, NEW c, Good(c), NEW batch \in Seq((SUBSET Seqs) \ {{}}), Accepted(c, batch)
  PROVE  LET tokens == Tokens(c, batch)
         IN /\ tokens \in Seq(Tokens1) /\ Len(tokens) = Len(batch)
            /\ \A k \in DOMAIN tokens : tokens[k].seqs = batch[k]
            /\ Singles(batch) => Follow(c, tokens)
<1> DEFINE tokens == Tokens(c, batch)
           of(s) == {tokens[k].pos : k \in {k \in DOMAIN tokens : s \in tokens[k].seqs}}
<1>1. tokens = Numbering(c, batch).tokens
  BY DEF Tokens, Numbering, From, Numbered1
<1>2. Numbered(c, batch, DOMAIN batch, Numbering(c, batch))
  BY NumberingFold
<1>3. DOMAIN batch = 1 .. Len(batch) /\ Len(batch) \in Nat
  BY DomainOf
<1>4. \A s \in Seqs : of(s) # {} => Max(of(s)) <= use.last
  BY DEF Accepted
<1> HIDE DEF tokens
<1>5. tokens \in Seq(FreeToken)
  BY <1>1, <1>2 DEF Numbered, Numbers
<1>6. Len(tokens) = Len(batch) /\ \A k \in 1 .. Len(batch) : tokens[k].seqs = batch[k]
  BY <1>1, <1>2, <1>3 DEF Numbered
<1>7. DOMAIN tokens = 1 .. Len(tokens) /\ IsFiniteSet(DOMAIN tokens)
  BY <1>5, DomainOf
<1>8. ASSUME NEW k \in DOMAIN tokens PROVE tokens[k] \in Tokens1
  <2>1. tokens[k] \in FreeToken
    BY <1>5, <1>7
  <2>2. PICK s \in Seqs : s \in tokens[k].seqs
    BY <2>1 DEF FreeToken
  <2> DEFINE T == {j \in DOMAIN tokens : s \in tokens[j].seqs}
             f == [j \in T |-> tokens[j].pos]
  <2>3. of(s) = Range(f) /\ f \in Surjection(T, Range(f))
    BY DEF Range, Surjection
  <2>4. IsFiniteSet(T)
    BY <1>7, FS_Subset
  <2>5. IsFiniteSet(of(s))
    BY ONLY <2>3, <2>4, FS_Surjection
  <2>6. of(s) \subseteq Nat /\ of(s) \subseteq Int
    <3>1. ASSUME NEW j \in DOMAIN tokens PROVE tokens[j].pos \in Nat
      <4>1. tokens[j] \in FreeToken
        BY <1>5, <1>7
      <4> QED
        BY <4>1 DEF FreeToken
    <3> QED
      BY <3>1
  <2>7. tokens[k].pos \in of(s)
    BY <2>2
  <2> HIDE DEF of
  <2>8. Max(of(s)) \in of(s) /\ \A x \in of(s) : Max(of(s)) >= x
    BY <2>5, <2>6, <2>7, MaxIs
  <2>9. Max(of(s)) <= use.last
    BY <1>4, <2>7
  <2>10. tokens[k].pos \in Pos
    BY <2>6, <2>7, <2>8, <2>9, CellTypes DEF Pos
  <2> QED
    BY <2>1, <2>10 DEF FreeToken, Tokens1
<1>9. tokens \in Seq(Tokens1)
  BY <1>5, <1>7, <1>8
<1>10. ASSUME Singles(batch) PROVE Follow(c, tokens)
  <2>1. Rising(From(c).p, Numbering(c, batch))
    BY <1>2, <1>10 DEF Numbered
  <2>2. \A k \in DOMAIN tokens : \A s \in tokens[k].seqs : From(c).p[s] <= tokens[k].pos
    BY <1>1, <2>1 DEF Rising
  <2>3. \A a, b \in DOMAIN tokens : a < b =>
          \A s \in tokens[a].seqs \cap tokens[b].seqs : tokens[a].pos < tokens[b].pos
    BY <1>1, <2>1 DEF Rising
  <2>4. ASSUME NEW k \in DOMAIN tokens, NEW s \in tokens[k].seqs
        PROVE  SeqPosMax(c, s) < tokens[k].pos
    <3>1. tokens[k].pos \in Nat /\ s \in Seqs
      BY <1>8, CellTypes DEF Tokens1
    <3>2. From(c).p[s] = SeqPosMax(c, s) + 1 /\ SeqPosMax(c, s) \in Int
      BY <3>1, SeqPosMaxIs DEF From
    <3>3. From(c).p[s] <= tokens[k].pos
      BY <2>2
    <3> QED
      BY <3>1, <3>2, <3>3
  <2> QED
    BY <2>3, <2>4 DEF Follow
<1> QED
  BY <1>6, <1>7, <1>9, <1>10 DEF tokens

LEMMA Quotient ==
  ASSUME NEW a \in Nat, NEW n \in Nat \ {0}
  PROVE  a \div n \in Nat /\ (a \div n) * n <= a /\ a < (a \div n) * n + n
  OBVIOUS

LEMMA TimesMore ==
  ASSUME NEW a \in Nat, NEW b \in Nat, NEW n \in Nat, a <= b
  PROVE  a * n \in Nat /\ b * n \in Nat /\ a * n <= b * n
  OBVIOUS

\* ubatches are a batch in parts: total says how many tokens the first parts have.
Parts(ubatches, total, tokens) ==
  /\ ubatches \in Seq(Seq(Tokens1))
  /\ total \in [0 .. Len(ubatches) -> Nat]
  /\ total[0] = 0 /\ total[Len(ubatches)] = Len(tokens)
  /\ \A k \in 0 .. Len(ubatches) : total[k] <= Len(tokens)
  /\ \A k \in DOMAIN ubatches :
       /\ ubatches[k] # <<>> /\ total[k] = total[k - 1] + Len(ubatches[k])
       /\ \A x \in DOMAIN ubatches[k] :
            total[k - 1] + x \in DOMAIN tokens /\ ubatches[k][x] = tokens[total[k - 1] + x]
  /\ \A k, l \in 0 .. Len(ubatches) : k <= l => total[k] <= total[l]

Ends(tokens) == [k \in 0 .. Len(Split(tokens)) |->
                   IF k * NUbatch <= Len(tokens) THEN k * NUbatch ELSE Len(tokens)]

LEMMA SplitIs ==
  ASSUME NEW tokens \in Seq(Tokens1)
  PROVE  Parts(Split(tokens), Ends(tokens), tokens)
<1> DEFINE L == Len(tokens)
           n == NUbatch
           q == (L + n - 1) \div n
           ends == Ends(tokens)
           end(k) == IF k * n <= L THEN k * n ELSE L
           ubatches == Split(tokens)
<1>1. L \in Nat /\ n \in Nat \ {0} /\ DOMAIN tokens = 1 .. L
  BY DomainOf, KvAssumption
<1>2. q \in Nat /\ q * n <= L + n - 1 /\ L + n - 1 < q * n + n
  <2>1. L + n - 1 \in Nat
    BY <1>1
  <2> QED
    BY <1>1, <2>1, Quotient
<1>3. ubatches = [k \in 1 .. q |-> SubSeq(tokens, (k - 1) * n + 1, Min({k * n, L}))]
  BY DEF Split
<1> HIDE DEF q, ubatches
<1>4. Len(ubatches) = q /\ DOMAIN ubatches = 1 .. q
  BY <1>2, <1>3
<1>5. ends = [k \in 0 .. q |-> end(k)]
  BY <1>4 DEF Ends, ubatches
<1> HIDE DEF ends
<1>6. ASSUME NEW k \in 1 .. q
      PROVE  /\ k * n \in Nat /\ (k - 1) * n \in Nat /\ (k - 1) * n < L
             /\ (k - 1) * n = k * n - n /\ Min({k * n, L}) = end(k)
  <2>1. k * n \in Nat /\ k * n <= q * n
    BY <1>1, <1>2, TimesMore
  <2>2. (k - 1) * n = k * n - n
    BY <1>1
  <2>3. (k - 1) * n \in Nat
    <3>1. k - 1 \in Nat /\ k \in Nat /\ k - 1 <= k /\ n \in Nat
      BY <1>1, <1>2
    <3> QED
      BY <3>1, TimesMore
  <2>4. Min({k * n, L}) \in {k * n, L} /\ \A x \in {k * n, L} : Min({k * n, L}) <= x
    <3>1. {k * n, L} \subseteq Nat /\ {k * n, L} # {}
      BY <1>1, <2>1
    <3> QED
      BY <3>1, MinIs
  <2> QED
    BY <1>1, <1>2, <2>1, <2>2, <2>3, <2>4
<1>7. ASSUME NEW k \in 1 .. q
      PROVE  /\ ubatches[k] \in Seq(Tokens1) /\ ubatches[k] # <<>>
             /\ end(k) \in Nat /\ end(k - 1) \in Nat
             /\ end(k) = end(k - 1) + Len(ubatches[k])
             /\ \A x \in DOMAIN ubatches[k] :
                  end(k - 1) + x \in DOMAIN tokens /\ ubatches[k][x] = tokens[end(k - 1) + x]
  <2> DEFINE a == (k - 1) * n
             b == k * n
             e == end(k)
             f == end(k - 1)
             part == SubSeq(tokens, a + 1, e)
  <2>1. ubatches[k] = part
    BY <1>3, <1>6
  <2>2. /\ a \in Nat /\ b \in Nat /\ a < L /\ a = b - n
        /\ e = (IF b <= L THEN b ELSE L) /\ f = (IF a <= L THEN a ELSE L)
    BY <1>6
  <2>3. L \in Nat /\ n \in Nat \ {0}
    BY <1>1
  <2> HIDE DEF a, b, e, f, L, n
  <2>4. e \in Nat /\ e <= L /\ a < e /\ f = a
    BY <2>2, <2>3
  <2>5. \A x \in a + 1 .. e : tokens[x] \in Tokens1
    <3>1. \A x \in a + 1 .. e : x \in 1 .. L
      BY <2>2, <2>3, <2>4
    <3>2. DOMAIN tokens = 1 .. L
      BY <1>1
    <3>3. \A x \in DOMAIN tokens : tokens[x] \in Tokens1
      BY DomainOf
    <3> QED
      BY <3>1, <3>2, <3>3
  <2>6. /\ part \in Seq(Tokens1) /\ Len(part) = e - a
        /\ \A x \in 1 .. e - a : part[x] = tokens[a + x]
    <3>1. a + 1 \in Int /\ e \in Int /\ e - (a + 1) + 1 = e - a /\ a + 1 <= e
      BY <2>2, <2>4
    <3>2. \A x \in 1 .. e - a : a + 1 + x - 1 = a + x
      BY <2>2
    <3> QED
      BY <2>5, <3>1, <3>2, SubSeqProperties
  <2> HIDE DEF part
  <2>7. DOMAIN part = 1 .. e - a /\ part # <<>> /\ e = f + Len(part) /\ f \in Nat
    BY <2>2, <2>4, <2>6
  <2>8. \A x \in 1 .. e - a : a + x \in DOMAIN tokens
    BY <1>1, <2>2, <2>3, <2>4
  <2> QED
    BY <2>1, <2>4, <2>6, <2>7, <2>8 DEF e, f
<1>8. \A k \in 0 .. q : end(k) \in Nat
  <2> SUFFICES ASSUME NEW k \in 0 .. q PROVE end(k) \in Nat
    OBVIOUS
  <2>1. CASE k = 0
    BY <1>1, <2>1
  <2>2. CASE k # 0
    <3>1. k \in 1 .. q
      BY <1>2, <2>2
    <3> QED
      BY <1>7, <3>1
  <2> QED
    BY <2>1, <2>2
<1>9. end(0) = 0 /\ end(q) = L
  <2>1. 0 * n = 0
    BY <1>1
  <2>2. q * n \in Nat
    BY <1>1, <1>2, TimesMore
  <2> DEFINE w == q * n
             z == 0 * n
  <2>3. end(0) = (IF z <= L THEN z ELSE L) /\ end(q) = (IF w <= L THEN w ELSE L)
    OBVIOUS
  <2>4. z = 0 /\ w \in Nat /\ L + n - 1 < w + n /\ L \in Nat /\ n \in Nat
    BY <1>1, <1>2, <2>1, <2>2
  <2> HIDE DEF w, z, end, L, n
  <2> QED
    BY <2>3, <2>4
<1> HIDE DEF end
<1>10. ends \in [0 .. q -> Nat] /\ \A k \in 0 .. q : ends[k] = end(k)
  BY <1>5, <1>8
<1>11. 0 \in 0 .. q /\ q \in 0 .. q /\ \A k \in 1 .. q : k \in 0 .. q /\ k - 1 \in 0 .. q
  BY <1>2
<1>12. ubatches \in Seq(Seq(Tokens1))
  <2>1. ubatches = [k \in 1 .. q |-> ubatches[k]]
    BY <1>3
  <2>2. \A k \in 1 .. q : ubatches[k] \in Seq(Tokens1)
    BY <1>7
  <2> QED
    BY ONLY <1>2, <2>1, <2>2
<1>13. Parts(ubatches, ends, tokens)
  <2>1. \A k \in 0 .. q : end(k) <= L
    BY <1>1, <1>8 DEF end
  <2>2. ASSUME NEW k \in 0 .. q, NEW l \in 0 .. q, k <= l PROVE end(k) <= end(l)
    <3> DEFINE a == k * n
               b == l * n
    <3>1. k \in Nat /\ l \in Nat /\ n \in Nat
      BY <1>1, <1>2
    <3>2. a \in Nat /\ b \in Nat /\ a <= b
      BY <2>2, <3>1, TimesMore
    <3>3. end(k) = (IF a <= L THEN a ELSE L) /\ end(l) = (IF b <= L THEN b ELSE L) /\ L \in Nat
      BY <1>1 DEF end
    <3> HIDE DEF a, b, L
    <3> QED
      BY ONLY <3>2, <3>3
  <2>3. \A k \in 1 .. q : ends[k - 1] = end(k - 1) /\ ends[k] = end(k)
    BY <1>10, <1>11
  <2>4. \A k \in DOMAIN ubatches :
         /\ ubatches[k] # <<>> /\ ends[k] = ends[k - 1] + Len(ubatches[k])
         /\ \A x \in DOMAIN ubatches[k] :
              ends[k - 1] + x \in DOMAIN tokens /\ ubatches[k][x] = tokens[ends[k - 1] + x]
    BY <1>4, <1>7, <2>3
  <2>5. \A k, l \in 0 .. Len(ubatches) : k <= l => ends[k] <= ends[l]
    BY <1>4, <1>10, <2>2
  <2> QED
    BY <1>4, <1>9, <1>10, <1>11, <1>12, <2>1, <2>4, <2>5 DEF Parts
<1> QED
  BY <1>13 DEF ubatches, ends

-----------------------------------------------------------------------------
(* prepare: the slots, one after the other.                                *)

Trials == [fits : BOOLEAN, cells : Cells, slots : Seq(Seq(Cell)), old : Seq(Cells)]
TryOne(r, ubatch) ==
  IF ~ r.fits \/ FindSlot(r.cells, Len(ubatch)) = <<>> THEN [r EXCEPT !.fits = FALSE]
  ELSE [r EXCEPT !.cells = ApplyUbatch(r.cells, FindSlot(r.cells, Len(ubatch)), ubatch),
                 !.slots = Append(@, FindSlot(r.cells, Len(ubatch))),
                 !.old = Append(@, r.cells)]
Untried(c) == [fits |-> TRUE, cells |-> c, slots |-> <<>>, old |-> <<>>]
Trying(c, ubatches) ==
  FoldLeft(LAMBDA r, ubatch : TryOne(r, ubatch), Untried(c), ubatches)

\* The cells before the kth ubatch was placed.
Before(r, k) == IF k <= Len(r.old) THEN r.old[k] ELSE r.cells
\* idxs is the slot of a ubatch that took the cells from b to d.
Link(b, d, idxs, ubatch) ==
  /\ Good(b) /\ Fits(idxs, ubatch) /\ IsInjective(idxs)
  /\ \A x \in DOMAIN idxs : CanUse(b, idxs[x])
  /\ Applied(b, d, idxs, ubatch)
Chain(c, r, ubatches) ==
  /\ Good(r.cells) /\ Len(r.old) = Len(r.slots) /\ Before(r, 1) = c
  /\ \A k \in 1 .. Len(r.slots) : Link(Before(r, k), Before(r, k + 1), r.slots[k], ubatches[k])
\* The first m ubatches have slots, or the first of them that found none ended it.
Tried(c, r, ubatches, m) ==
  /\ Chain(c, r, ubatches)
  /\ r.fits => Len(r.slots) = m
  /\ ~ r.fits => /\ Len(r.slots) < m
                 /\ Cardinality(Usable(r.cells)) < Len(ubatches[Len(r.slots) + 1])
TriedAll(c, ubatches, U, r) ==
  r \in Trials /\ Good(r.cells) /\ \A m \in Nat : U = 1 .. m => Tried(c, r, ubatches, m)

\* One slot more.
Longer(r, d, idxs) ==
  [r EXCEPT !.cells = d, !.slots = Append(r.slots, idxs), !.old = Append(r.old, r.cells)]

LEMMA LongerTypes ==
  ASSUME NEW r \in Trials, NEW d \in Cells, NEW idxs \in Seq(Cell)
  PROVE  LET e == Longer(r, d, idxs)
         IN /\ e \in Trials /\ e.cells = d /\ e.slots = Append(r.slots, idxs)
            /\ e.old = Append(r.old, r.cells) /\ e.fits = r.fits
<1> DEFINE old == Append(r.old, r.cells)
           slots == Append(r.slots, idxs)
<1>1. old \in Seq(Cells) /\ slots \in Seq(Seq(Cell))
  BY DEF Trials
<1>2. Longer(r, d, idxs) = [r EXCEPT !.cells = d, !.slots = slots, !.old = old]
  BY DEF Longer
<1> HIDE DEF old, slots
<1>3. LET e == Longer(r, d, idxs)
      IN e \in Trials /\ e.cells = d /\ e.slots = slots /\ e.old = old /\ e.fits = r.fits
  BY <1>1, <1>2 DEF Trials
<1> QED
  BY <1>3 DEF old, slots

LEMMA LinkMore ==
  ASSUME NEW r \in Trials, NEW c, NEW ubatches, Chain(c, r, ubatches), NEW d \in Cells, NEW idxs \in Seq(Cell),
         Link(r.cells, d, idxs, ubatches[Len(r.slots) + 1])
  PROVE  Chain(c, Longer(r, d, idxs), ubatches) /\ Len(Longer(r, d, idxs).slots) = Len(r.slots) + 1
<1> DEFINE n == Len(r.slots)
           old == Append(r.old, r.cells)
           slots == Append(r.slots, idxs)
           e == Longer(r, d, idxs)
<1>1. r.cells \in Cells /\ r.slots \in Seq(Seq(Cell)) /\ r.old \in Seq(Cells) /\ r.fits \in BOOLEAN
  BY DEF Trials
<1>2. e \in Trials /\ e.cells = d /\ e.slots = slots /\ e.old = old /\ e.fits = r.fits
  BY LongerTypes
<1>3. n \in Nat /\ Len(r.old) = n
  BY <1>1 DEF Chain
<1>4. /\ Len(old) = n + 1 /\ old[n + 1] = r.cells /\ \A k \in 1 .. n : old[k] = r.old[k]
      /\ Len(slots) = n + 1 /\ slots[n + 1] = idxs /\ \A k \in 1 .. n : slots[k] = r.slots[k]
  BY <1>1, <1>3
<1>5. e.old = old /\ e.slots = slots
  BY <1>2
<1> HIDE DEF n, old, slots, e
<1>6. \A k \in 1 .. n + 1 : Before(e, k) = Before(r, k)
  BY <1>3, <1>4, <1>5 DEF Before
<1>7. Before(e, n + 2) = d /\ Before(r, n + 1) = r.cells
  BY <1>2, <1>3, <1>4, <1>5 DEF Before
<1>8. ASSUME NEW k \in 1 .. n + 1 PROVE Link(Before(e, k), Before(e, k + 1), e.slots[k], ubatches[k])
  <2>1. CASE k \in 1 .. n
    <3>1. k \in 1 .. n + 1 /\ k + 1 \in 1 .. n + 1 /\ e.slots[k] = r.slots[k]
      BY <1>3, <1>4, <1>5, <2>1
    <3>2. Before(e, k) = Before(r, k) /\ Before(e, k + 1) = Before(r, k + 1)
      BY <1>6, <3>1
    <3> QED
      BY <2>1, <3>1, <3>2 DEF Chain, n
  <2>2. CASE k = n + 1
    <3>1. Before(e, k) = r.cells /\ Before(e, k + 1) = d /\ e.slots[k] = idxs
      <4>1. k + 1 = n + 2
        BY <1>3, <2>2
      <4> QED
        BY <1>4, <1>5, <1>6, <1>7, <2>2, <4>1
    <3>2. Link(r.cells, d, idxs, ubatches[k])
      BY <2>2 DEF n
    <3> QED
      BY <3>1, <3>2
  <2> QED
    BY <1>3, <2>1, <2>2
<1>9. Before(e, 1) = c /\ Good(e.cells)
  <2>1. 1 \in 1 .. n + 1
    BY <1>3
  <2> QED
    BY <1>2, <1>6, <2>1 DEF Chain, Link, Applied
<1>10. Chain(c, e, ubatches)
  BY <1>4, <1>5, <1>8, <1>9 DEF Chain
<1> QED
  BY <1>2, <1>4, <1>5, <1>10 DEF n, e

LEMMA TryTypes ==
  ASSUME use \in Uses, NEW r \in Trials, Good(r.cells), NEW ubatch \in Seq(Tokens1) \ {<<>>}
  PROVE  TryOne(r, ubatch) \in Trials /\ Good(TryOne(r, ubatch).cells)
<1> DEFINE n == Len(ubatch)
           idxs == FindSlot(r.cells, n)
           e == TryOne(r, ubatch)
<1>1. ubatch \in Seq(Tokens1) /\ ubatch # <<>> /\ n \in Nat \ {0}
  OBVIOUS
<1>2. Found(r.cells, n, idxs)
  <2> HIDE DEF n
  <2> QED
    BY <1>1, FindSlotFinds
<1>3. CASE ~ r.fits \/ idxs = <<>>
  <2>1. e = [r EXCEPT !.fits = FALSE]
    BY <1>3 DEF TryOne
  <2>2. e \in Trials /\ e.cells = r.cells
    BY <2>1 DEF Trials
  <2> QED
    BY <2>2
<1>4. CASE r.fits /\ idxs # <<>>
  <2> DEFINE d == ApplyUbatch(r.cells, idxs, ubatch)
  <2>1. e = Longer(r, d, idxs)
    BY <1>4 DEF TryOne, Longer
  <2>2. idxs \in Seq(Cell) /\ Len(idxs) = n
    BY <1>2, <1>4 DEF Found
  <2>3. Fits(idxs, ubatch)
    BY <1>1, <1>4, <2>2 DEF Fits
  <2>4. Applied(r.cells, d, idxs, ubatch)
    BY <2>3, ApplyKeeps
  <2> HIDE DEF idxs, d, e
  <2>5. Good(d) /\ d \in Cells
    BY <2>4 DEF Applied, Good, Sound
  <2>6. e \in Trials /\ e.cells = d
    BY <2>1, <2>2, <2>5, LongerTypes
  <2> QED
    BY <2>5, <2>6 DEF e
<1> QED
  BY <1>3, <1>4

LEMMA TryMore ==
  ASSUME use \in Uses, NEW c, NEW ubatches \in Seq(Seq(Tokens1) \ {<<>>}), NEW m \in Nat, m + 1 \in DOMAIN ubatches,
         NEW r \in Trials, Tried(c, r, ubatches, m)
  PROVE  Tried(c, TryOne(r, ubatches[m + 1]), ubatches, m + 1)
<1> DEFINE ubatch == ubatches[m + 1]
           n == Len(ubatch)
           idxs == FindSlot(r.cells, n)
           e == TryOne(r, ubatch)
<1>1. ubatch \in Seq(Tokens1) /\ ubatch # <<>> /\ n \in Nat \ {0}
  <2>1. ubatch \in Seq(Tokens1) \ {<<>>}
    OBVIOUS
  <2> HIDE DEF ubatch
  <2> QED
    BY <2>1
<1>2. Good(r.cells) /\ Chain(c, r, ubatches) /\ Len(r.slots) \in Nat
  BY DEF Tried, Chain, Trials
<1>3. Found(r.cells, n, idxs)
  <2> HIDE DEF n
  <2> QED
    BY <1>1, <1>2, FindSlotFinds
<1>4. CASE ~ r.fits
  <2>1. e = [r EXCEPT !.fits = FALSE]
    BY <1>4 DEF TryOne
  <2>2. e = r
    BY <1>4, <2>1 DEF Trials
  <2> QED
    BY <1>2, <1>4, <2>2 DEF Tried
<1>5. CASE r.fits /\ idxs = <<>>
  <2>1. e = [r EXCEPT !.fits = FALSE]
    BY <1>5 DEF TryOne
  <2>2. ~ e.fits /\ e.cells = r.cells /\ e.slots = r.slots /\ e.old = r.old
    BY <2>1 DEF Trials
  <2>3. Len(r.slots) = m /\ Cardinality(Usable(r.cells)) < n
    BY <1>1, <1>3, <1>5 DEF Tried, Found
  <2> HIDE DEF e
  <2>4. Chain(c, e, ubatches)
    BY <1>2, <2>2 DEF Chain, Before
  <2>5. Tried(c, e, ubatches, m + 1)
    BY <2>2, <2>3, <2>4 DEF Tried
  <2> QED
    BY <2>5 DEF e
<1>6. CASE r.fits /\ idxs # <<>>
  <2> DEFINE d == ApplyUbatch(r.cells, idxs, ubatch)
  <2>1. e = Longer(r, d, idxs)
    BY <1>6 DEF TryOne, Longer
  <2>2. /\ idxs \in Seq(Cell) /\ Len(idxs) = n /\ IsInjective(idxs)
        /\ \A k \in DOMAIN idxs : CanUse(r.cells, idxs[k])
    BY <1>3, <1>6 DEF Found
  <2>3. Fits(idxs, ubatch)
    BY <1>1, <1>6, <2>2 DEF Fits
  <2>4. Applied(r.cells, d, idxs, ubatch)
    BY <1>2, <2>3, ApplyKeeps
  <2>5. Link(r.cells, d, idxs, ubatch) /\ d \in Cells /\ Len(r.slots) = m
    BY <1>2, <1>6, <2>2, <2>3, <2>4 DEF Link, Applied, Good, Sound, Tried
  <2> HIDE DEF idxs, d, e
  <2>6. Link(r.cells, d, idxs, ubatches[Len(r.slots) + 1])
    BY <2>5
  <2>7. Chain(c, e, ubatches) /\ Len(e.slots) = Len(r.slots) + 1 /\ e.fits = r.fits
    <3>1. e.fits = r.fits
      BY <2>1, <2>2, <2>5, LongerTypes
    <3>2. Chain(c, e, ubatches) /\ Len(e.slots) = Len(r.slots) + 1
      BY <1>2, <2>1, <2>2, <2>5, <2>6, LinkMore
    <3> QED
      BY <3>1, <3>2
  <2>8. Tried(c, e, ubatches, m + 1)
    BY <1>6, <2>5, <2>7 DEF Tried
  <2> QED
    BY <2>8 DEF e
<1> QED
  BY <1>4, <1>5, <1>6

\* The trials of all ubatches.
LEMMA TryingFold ==
  ASSUME use \in Uses, NEW c, Good(c), NEW ubatches \in Seq(Seq(Tokens1) \ {<<>>})
  PROVE  TriedAll(c, ubatches, DOMAIN ubatches, Trying(c, ubatches))
<1> DEFINE pick == [U \in SUBSET (DOMAIN ubatches) |-> Max(U)]
           Reach == {q \in (SUBSET (DOMAIN ubatches)) \X Trials : TriedAll(c, ubatches, q[1], q[2])}
           G == [q \in (DOMAIN ubatches) \X Trials |-> TryOne(q[2], ubatches[q[1]])]
           Recursion(h) == h = [U \in SUBSET (DOMAIN ubatches) |->
             IF U = {} THEN Untried(c) ELSE TryOne(h[U \ {Max(U)}], ubatches[Max(U)])]
           h == CHOOSE h : Recursion(h)
<1>1. Picks((DOMAIN ubatches), pick)
  <2>1. (DOMAIN ubatches) \subseteq Int /\ IsFiniteSet(DOMAIN ubatches)
    BY DomainOf
  <2> QED
    BY <2>1, PicksMax
<1>2. \A U \in SUBSET (DOMAIN ubatches) : U # {} => pick[U] \in U
  BY <1>1 DEF Picks
<1>3. \A U \in SUBSET (DOMAIN ubatches) : \A d : <<U, d>> \in Reach <=> TriedAll(c, ubatches, U, d)
  BY DEF TriedAll
<1>4. <<{}, Untried(c)>> \in Reach
  <2> DEFINE r == Untried(c)
  <2>1. r.fits /\ r.cells = c /\ r.slots = <<>> /\ r.old = <<>>
    BY DEF Untried
  <2>2. r \in Trials
    BY DEF Untried, Trials, Good, Sound
  <2> HIDE DEF r
  <2>3. Len(r.old) = 0 /\ Len(r.slots) = 0 /\ 1 .. 0 = {}
    BY <2>1
  <2>4. Chain(c, r, ubatches)
    BY <2>1, <2>3 DEF Chain, Before
  <2>5. \A m \in Nat : {} = 1 .. m => m = 0
    OBVIOUS
  <2>6. Tried(c, r, ubatches, 0)
    BY <2>1, <2>3, <2>4 DEF Tried
  <2>7. TriedAll(c, ubatches, {}, r)
    BY <2>1, <2>2, <2>5, <2>6 DEF TriedAll
  <2> QED
    BY <1>3, <2>7 DEF r
<1>5. ASSUME NEW U \in SUBSET (DOMAIN ubatches), NEW d, U # {}, <<U \ {pick[U]}, d>> \in Reach
      PROVE  <<U, TryOne(d, ubatches[pick[U]])>> \in Reach
  <2>1. TriedAll(c, ubatches, U \ {pick[U]}, d)
    BY <1>3, <1>5
  <2>2. pick[U] \in U /\ pick[U] = Max(U) /\ pick[U] \in DOMAIN ubatches
    BY <1>2, <1>5
  <2> DEFINE e == TryOne(d, ubatches[pick[U]])
  <2>3. ubatches[pick[U]] \in Seq(Tokens1) \ {<<>>}
    BY <2>2, DomainOf
  <2>4. e \in Trials /\ Good(e.cells)
    BY <2>1, <2>3, TryTypes DEF TriedAll
  <2>5. ASSUME NEW m \in Nat, U = 1 .. m PROVE Tried(c, e, ubatches, m)
    <3>1. m - 1 \in Nat /\ pick[U] = m /\ U \ {pick[U]} = 1 .. m - 1
      BY <1>5, <2>2, <2>5, LastOut
    <3>2. Tried(c, d, ubatches, m - 1) /\ d \in Trials
      BY <2>1, <3>1 DEF TriedAll
    <3> DEFINE l == m - 1
    <3>3. l \in Nat /\ l + 1 = m /\ l + 1 \in DOMAIN ubatches
      BY <2>2, <3>1
    <3> HIDE DEF l, e
    <3>4. Tried(c, TryOne(d, ubatches[l + 1]), ubatches, l + 1)
      BY <3>2, <3>3, TryMore DEF l
    <3> QED
      BY <3>1, <3>3, <3>4 DEF e
  <2> HIDE DEF e
  <2>6. TriedAll(c, ubatches, U, e)
    BY <2>4, <2>5 DEF TriedAll
  <2> QED
    BY <1>3, <2>6 DEF e
<1>6. \E f : Recursion(f)
  <2>1. \A x \in (DOMAIN ubatches), d \in Trials : G[<<x, d>>] = TryOne(d, ubatches[x])
    OBVIOUS
  <2>2. Keeps((DOMAIN ubatches), Trials, Untried(c), pick, G, Reach)
    <3>1. \A U \in SUBSET (DOMAIN ubatches), d \in Trials :
            U # {} /\ <<U \ {pick[U]}, d>> \in Reach => <<U, G[<<pick[U], d>>]>> \in Reach
      BY ONLY <1>2, <1>5, <2>1
    <3>2. DOMAIN G = (DOMAIN ubatches) \X Trials /\ Reach \subseteq (SUBSET (DOMAIN ubatches)) \X Trials
      OBVIOUS
    <3> HIDE DEF pick, Reach, G
    <3> QED
      BY <1>1, <1>4, <3>1, <3>2 DEF Keeps
  <2>3. Reach \subseteq (SUBSET (DOMAIN ubatches)) \X Trials
    OBVIOUS
  <2> HIDE DEF pick, Reach, G
  <2>4. PICK f : Solved((DOMAIN ubatches), Untried(c), pick, G, f) /\ Reached((DOMAIN ubatches), f, Reach)
    BY ONLY <2>2, FoldRuns
  <2>5. ASSUME NEW U \in SUBSET (DOMAIN ubatches), U # {}
        PROVE  G[<<pick[U], f[U \ {pick[U]}]>>] = TryOne(f[U \ {pick[U]}], ubatches[pick[U]])
    <3>1. U \ {pick[U]} \in SUBSET (DOMAIN ubatches) /\ pick[U] \in (DOMAIN ubatches)
      BY <1>2, <2>5
    <3>2. f[U \ {pick[U]}] \in Trials
      BY <2>3, <2>4, <3>1 DEF Reached
    <3> QED
      BY <2>1, <3>1, <3>2
  <2>6. f = [U \in SUBSET (DOMAIN ubatches) |-> IF U = {} THEN Untried(c) ELSE TryOne(f[U \ {pick[U]}], ubatches[pick[U]])]
    BY <2>4, <2>5 DEF Solved
  <2>7. \A U \in SUBSET (DOMAIN ubatches) : pick[U] = Max(U)
    BY DEF pick
  <2>8. f = [U \in SUBSET (DOMAIN ubatches) |-> IF U = {} THEN Untried(c) ELSE TryOne(f[U \ {Max(U)}], ubatches[Max(U)])]
    BY ONLY <2>6, <2>7
  <2> QED
    BY <2>8
<1>7. Trying(c, ubatches) = h[(DOMAIN ubatches)]
  BY DEF Trying, FoldLeft, MapThenFoldSet
<1>8. \A U \in SUBSET (DOMAIN ubatches) : h[U] = IF U = {} THEN Untried(c) ELSE TryOne(h[U \ {pick[U]}], ubatches[pick[U]])
  <2>1. Recursion(h)
    BY <1>6
  <2> HIDE DEF h
  <2> QED
    BY <2>1
<1> HIDE DEF Recursion, h, pick, Reach
<1>9. Reached((DOMAIN ubatches), h, Reach)
  <2>1. KeptBy((DOMAIN ubatches), pick, h, Reach)
    BY ONLY <1>4, <1>5, <1>8 DEF KeptBy
  <2> QED
    BY ONLY <1>1, <2>1, FoldReaches
<1>10. TriedAll(c, ubatches, (DOMAIN ubatches), h[(DOMAIN ubatches)])
  BY <1>3, <1>9 DEF Reached
<1> QED
  BY <1>7, <1>10

\* Without a window only the empty cells can be used.
LEMMA UnusedIsEmpty ==
  ASSUME use \in Uses, use.swa = 0, NEW c, NEW i, CanUse(c, i)
  PROVE  c.pos[i] = None
BY DEF CanUse, IsMaskedSwa

\* The cells when all placements from the kth on are taken back.
Untaken(r, k, d) ==
  \A j \in Cell :
    /\ d.shift[j] = r.cells.shift[j]
    /\ d.pos[j] = Before(r, k).pos[j] \/ d.pos[j] = None
    /\ use.swa = 0 => d.pos[j] = Before(r, k).pos[j] /\ d.seq[j] = Before(r, k).seq[j]
TakenBack(r, U, d) ==
  Good(d) /\ \A k \in Nat : U = k .. Len(r.slots) => Untaken(r, k, d)
TakeBack(r, at) == FoldRight(LAMBDA k, d : Restore(d, r.slots[k], r.old[k]), at, r.cells)

LEMMA TakeBackOne ==
  ASSUME use \in Uses, NEW c, NEW ubatches, NEW r \in Trials, Chain(c, r, ubatches),
         NEW k \in DOMAIN r.slots, NEW d, Good(d)
  PROVE  LET e == Restore(d, r.slots[k], r.old[k])
         IN Good(e) /\ (Untaken(r, k + 1, d) => Untaken(r, k, e))
<1> DEFINE idxs == r.slots[k]
           b == Before(r, k)
           n == Before(r, k + 1)
           e == Restore(d, idxs, b)
<1>1. DOMAIN r.slots = 1 .. Len(r.slots) /\ Len(r.slots) \in Nat /\ idxs \in Seq(Cell)
  <2>1. r.slots \in Seq(Seq(Cell))
    BY DEF Trials
  <2> QED
    BY <2>1, DomainOf
<1>2. r.old[k] = b
  BY <1>1 DEF Before, Chain
<1>3. Link(b, n, idxs, ubatches[k])
  BY <1>1 DEF Chain
<1> HIDE DEF idxs, b, n, e
<1>4. Good(b) /\ Applied(b, n, idxs, ubatches[k])
  BY <1>3 DEF Link
<1>5. Restored(d, e, b, Range(idxs))
  BY <1>1, <1>4, RestoreKeeps DEF e
<1>6. ASSUME Untaken(r, k + 1, d), NEW j \in Cell
      PROVE  /\ e.shift[j] = r.cells.shift[j]
             /\ e.pos[j] = b.pos[j] \/ e.pos[j] = None
             /\ use.swa = 0 => e.pos[j] = b.pos[j] /\ e.seq[j] = b.seq[j]
  <2>1. /\ d.shift[j] = r.cells.shift[j]
        /\ d.pos[j] = n.pos[j] \/ d.pos[j] = None
        /\ use.swa = 0 => d.pos[j] = n.pos[j] /\ d.seq[j] = n.seq[j]
    BY <1>6 DEF Untaken, n
  <2>2. e.shift[j] = d.shift[j]
    BY <1>5 DEF Restored
  <2>3. CASE j \in Range(idxs)
    BY <1>5, <2>1, <2>2, <2>3 DEF Restored
  <2>4. CASE j \notin Range(idxs)
    <3>1. e.pos[j] = d.pos[j] /\ e.seq[j] = d.seq[j]
      BY <1>5, <2>4 DEF Restored
    <3>2. \A x \in DOMAIN idxs : idxs[x] # j
      BY <2>4 DEF Range
    <3>3. AppliedCell(b, n, idxs, ubatches[k], j)
      BY <1>4 DEF Applied
    <3>4. n.pos[j] = b.pos[j] \/ n.pos[j] = None
      BY <3>2, <3>3 DEF AppliedCell
    <3>5. ASSUME use.swa = 0 PROVE n.pos[j] = b.pos[j] /\ n.seq[j] = b.seq[j]
      <4>1. \A x \in DOMAIN idxs : b.pos[idxs[x]] = None
        BY <1>3, <3>5, UnusedIsEmpty DEF Link
      <4>2. FilledCell(b, n, idxs, ubatches[k], DOMAIN idxs, j)
        BY <1>4, <4>1 DEF Applied
      <4> QED
        BY <3>2, <4>2 DEF FilledCell
    <3> QED
      BY <2>1, <2>2, <3>1, <3>4, <3>5
  <2> QED
    BY <2>3, <2>4
<1>7. Good(e) /\ (Untaken(r, k + 1, d) => Untaken(r, k, e))
  BY <1>5, <1>6 DEF Restored, Untaken, b
<1> QED
  BY <1>2, <1>7 DEF e, idxs

\* All placements taken back.
LEMMA TakeBackFold ==
  ASSUME use \in Uses, NEW c, NEW ubatches, NEW r \in Trials, Chain(c, r, ubatches),
         NEW at, at = [k \in DOMAIN r.slots |-> k]
  PROVE  TakenBack(r, DOMAIN r.slots, TakeBack(r, at))
<1> DEFINE pick == [U \in SUBSET (DOMAIN at) |-> Min(U)]
           Reach == {q \in (SUBSET (DOMAIN at)) \X Cells : TakenBack(r, q[1], q[2])}
           G == [q \in (DOMAIN at) \X Cells |-> Restore(q[2], r.slots[at[q[1]]], r.old[at[q[1]]])]
           Recursion(h) == h = [U \in SUBSET (DOMAIN at) |->
             IF U = {} THEN r.cells ELSE Restore(h[U \ {Min(U)}], r.slots[at[Min(U)]], r.old[at[Min(U)]])]
           h == CHOOSE h : Recursion(h)
<1>1. Picks((DOMAIN at), pick)
  <2>1. DOMAIN at \subseteq Nat /\ IsFiniteSet(DOMAIN at)
    <3>1. r.slots \in Seq(Seq(Cell)) /\ DOMAIN at = DOMAIN r.slots
      BY DEF Trials
    <3> QED
      BY <3>1, DomainOf
  <2> QED
    BY <2>1, PicksMin
<1>2. \A U \in SUBSET (DOMAIN at) : U # {} => pick[U] \in U
  BY <1>1 DEF Picks
<1>3. \A U \in SUBSET (DOMAIN at) : \A d : <<U, d>> \in Reach <=> TakenBack(r, U, d)
  BY DEF TakenBack, Good, Sound
<1>4. <<{}, r.cells>> \in Reach
  <2>1. Good(r.cells) /\ Len(r.old) = Len(r.slots) /\ Len(r.slots) \in Nat
    BY DEF Chain, Trials
  <2>2. ASSUME NEW k \in Nat, {} = k .. Len(r.slots) PROVE Untaken(r, k, r.cells)
    <3>1. ~ (k <= Len(r.old))
      BY <2>1, <2>2
    <3>2. Before(r, k) = r.cells
      BY <3>1 DEF Before
    <3> QED
      BY <3>2 DEF Untaken
  <2>3. TakenBack(r, {}, r.cells)
    BY <2>1, <2>2 DEF TakenBack
  <2> QED
    BY <1>3, <2>3
<1>5. ASSUME NEW U \in SUBSET (DOMAIN at), NEW d, U # {}, <<U \ {pick[U]}, d>> \in Reach
      PROVE  <<U, Restore(d, r.slots[at[pick[U]]], r.old[at[pick[U]]])>> \in Reach
  <2>1. TakenBack(r, U \ {pick[U]}, d)
    BY <1>3, <1>5
  <2>2. pick[U] \in U /\ pick[U] = Min(U) /\ pick[U] \in DOMAIN r.slots /\ at[pick[U]] = pick[U]
    BY <1>2, <1>5
  <2> DEFINE e == Restore(d, r.slots[pick[U]], r.old[pick[U]])
  <2> HIDE DEF pick
  <2>3. Good(e) /\ (Untaken(r, pick[U] + 1, d) => Untaken(r, pick[U], e))
    <3>1. use \in Uses /\ r \in Trials /\ Chain(c, r, ubatches) /\ Good(d)
      BY <2>1 DEF TakenBack
    <3> QED
      BY ONLY <2>2, <3>1, TakeBackOne
  <2>4. Len(r.slots) \in Nat /\ DOMAIN r.slots = 1 .. Len(r.slots)
    BY DEF Trials
  <2>5. ASSUME NEW k \in Nat, U = k .. Len(r.slots) PROVE Untaken(r, k, e)
    <3>1. k \in U /\ \A x \in U : k <= x
      BY <1>5, <2>4, <2>5
    <3>2. pick[U] = k
      <4>1. U \subseteq Nat /\ U # {}
        BY <1>5, <2>5
      <4>2. Min(U) \in U /\ \A x \in U : Min(U) <= x
        BY <4>1, MinIs
      <4>3. Min(U) <= k /\ k <= Min(U) /\ Min(U) \in Nat
        BY <3>1, <4>1, <4>2
      <4> QED
        BY <2>2, <4>3
    <3>3. U \ {pick[U]} = k + 1 .. Len(r.slots) /\ k + 1 \in Nat
      BY <2>4, <2>5, <3>2
    <3>4. Untaken(r, k + 1, d)
      BY <2>1, <3>3 DEF TakenBack
    <3> QED
      BY <2>3, <3>2, <3>4
  <2> HIDE DEF e
  <2>6. TakenBack(r, U, e)
    BY <2>3, <2>5 DEF TakenBack
  <2> QED
    BY <1>3, <2>2, <2>6 DEF e
<1>6. \E f : Recursion(f)
  <2>1. \A x \in (DOMAIN at), d \in Cells : G[<<x, d>>] = Restore(d, r.slots[at[x]], r.old[at[x]])
    OBVIOUS
  <2>2. Keeps((DOMAIN at), Cells, r.cells, pick, G, Reach)
    <3>1. \A U \in SUBSET (DOMAIN at), d \in Cells :
            U # {} /\ <<U \ {pick[U]}, d>> \in Reach => <<U, G[<<pick[U], d>>]>> \in Reach
      BY ONLY <1>2, <1>5, <2>1
    <3>2. DOMAIN G = (DOMAIN at) \X Cells /\ Reach \subseteq (SUBSET (DOMAIN at)) \X Cells
      OBVIOUS
    <3> HIDE DEF pick, Reach, G
    <3> QED
      BY <1>1, <1>4, <3>1, <3>2 DEF Keeps
  <2>3. Reach \subseteq (SUBSET (DOMAIN at)) \X Cells
    OBVIOUS
  <2> HIDE DEF pick, Reach, G
  <2>4. PICK f : Solved((DOMAIN at), r.cells, pick, G, f) /\ Reached((DOMAIN at), f, Reach)
    BY ONLY <2>2, FoldRuns
  <2>5. ASSUME NEW U \in SUBSET (DOMAIN at), U # {}
        PROVE  G[<<pick[U], f[U \ {pick[U]}]>>] = Restore(f[U \ {pick[U]}], r.slots[at[pick[U]]], r.old[at[pick[U]]])
    <3>1. U \ {pick[U]} \in SUBSET (DOMAIN at) /\ pick[U] \in (DOMAIN at)
      BY <1>2, <2>5
    <3>2. f[U \ {pick[U]}] \in Cells
      BY <2>3, <2>4, <3>1 DEF Reached
    <3> QED
      BY <2>1, <3>1, <3>2
  <2>6. f = [U \in SUBSET (DOMAIN at) |-> IF U = {} THEN r.cells ELSE Restore(f[U \ {pick[U]}], r.slots[at[pick[U]]], r.old[at[pick[U]]])]
    BY <2>4, <2>5 DEF Solved
  <2>7. \A U \in SUBSET (DOMAIN at) : pick[U] = Min(U)
    BY DEF pick
  <2>8. f = [U \in SUBSET (DOMAIN at) |-> IF U = {} THEN r.cells ELSE Restore(f[U \ {Min(U)}], r.slots[at[Min(U)]], r.old[at[Min(U)]])]
    BY ONLY <2>6, <2>7
  <2> QED
    BY <2>8
<1>7. TakeBack(r, at) = h[(DOMAIN at)]
  BY DEF TakeBack, FoldRight, MapThenFoldSet
<1>8. \A U \in SUBSET (DOMAIN at) : h[U] = IF U = {} THEN r.cells ELSE Restore(h[U \ {pick[U]}], r.slots[at[pick[U]]], r.old[at[pick[U]]])
  <2>1. Recursion(h)
    BY <1>6
  <2> HIDE DEF h
  <2> QED
    BY <2>1
<1> HIDE DEF Recursion, h, pick, Reach
<1>9. Reached((DOMAIN at), h, Reach)
  <2>1. KeptBy((DOMAIN at), pick, h, Reach)
    BY ONLY <1>4, <1>5, <1>8 DEF KeptBy
  <2> QED
    BY ONLY <1>1, <2>1, FoldReaches
<1>10. TakenBack(r, (DOMAIN at), h[(DOMAIN at)])
  BY <1>3, <1>9 DEF Reached
<1> QED
  <2>1. DOMAIN at = DOMAIN r.slots
    OBVIOUS
  <2> QED
    BY <1>7, <1>10, <2>1

LEMMA Climbs ==
  ASSUME NEW n \in Nat, NEW S, 1 \in S, \A k \in 1 .. n : k \in S => k + 1 \in S
  PROVE  1 .. n + 1 \subseteq S
<1> DEFINE Bad == {k \in 1 .. n + 1 : k \notin S}
           m == Min(Bad)
<1> SUFFICES ASSUME Bad # {} PROVE FALSE
  OBVIOUS
<1>1. Bad \subseteq Nat
  OBVIOUS
<1>2. m \in Bad /\ \A x \in Bad : m <= x
  BY <1>1, MinIs
<1> HIDE DEF m
<1>3. m - 1 \in 1 .. n /\ m - 1 \notin Bad /\ m - 1 + 1 = m
  BY <1>2
<1> QED
  BY <1>2, <1>3

LEMMA LinkOf ==
  ASSUME NEW r \in Trials, NEW c, NEW ubatches, Chain(c, r, ubatches), NEW k \in 1 .. Len(r.slots)
  PROVE  /\ Link(Before(r, k), Before(r, k + 1), r.slots[k], ubatches[k])
         /\ k \in DOMAIN r.slots /\ r.slots[k] \in Seq(Cell)
BY DomainOf DEF Chain, Trials

LEMMA ChainEnds ==
  ASSUME NEW r \in Trials, NEW c, NEW ubatches, Chain(c, r, ubatches)
  PROVE  /\ Len(r.slots) \in Nat /\ 1 \in 1 .. Len(r.slots) + 1
         /\ Len(r.slots) + 1 \in 1 .. Len(r.slots) + 1
         /\ Before(r, 1) = c /\ Before(r, Len(r.slots) + 1) = r.cells
BY DEF Chain, Before, Trials

\* An empty cell's key waits for no shift, and with a window no key does.
Calm(c) == \A j \in Cell : /\ c.pos[j] = None => c.shift[j] = 0
                           /\ use.swa > 0 => c.shift[j] = 0

LEMMA LinkCalm ==
  ASSUME use \in Uses, NEW b, NEW d, NEW idxs, NEW ubatch, Link(b, d, idxs, ubatch), Calm(b)
  PROVE  Calm(d) /\ \A j \in Cell : d.shift[j] = b.shift[j]
<1> SUFFICES ASSUME NEW j \in Cell
             PROVE  /\ d.shift[j] = b.shift[j] /\ (use.swa > 0 => d.shift[j] = 0)
                    /\ d.pos[j] = None => d.shift[j] = 0
  BY DEF Calm
<1>1. b.pos[j] = None => b.shift[j] = 0
  BY DEF Calm
<1>2. CASE use.swa > 0
  <2>1. b.shift[j] = 0
    BY <1>2 DEF Calm
  <2>2. AppliedCell(b, d, idxs, ubatch, j)
    BY DEF Link, Applied
  <2> QED
    BY <2>1, <2>2 DEF AppliedCell
<1>3. CASE use.swa = 0
  <2>1. \A x \in DOMAIN idxs : b.pos[idxs[x]] = None
    BY <1>3, UnusedIsEmpty DEF Link
  <2>2. FilledCell(b, d, idxs, ubatch, DOMAIN idxs, j)
    BY <2>1 DEF Link, Applied
  <2> QED
    BY <1>1, <1>3, <2>1, <2>2 DEF FilledCell
<1> QED
  BY <1>2, <1>3, CellTypes

\* To look for slots moves no key.
LEMMA ChainCalm ==
  ASSUME use \in Uses, NEW r \in Trials, NEW c, NEW ubatches, Chain(c, r, ubatches), Calm(c)
  PROVE  \A j \in Cell : r.cells.shift[j] = c.shift[j]
<1> DEFINE n == Len(r.slots)
           still(k) == Calm(Before(r, k)) /\ \A j \in Cell : Before(r, k).shift[j] = c.shift[j]
           S == {k \in 1 .. n + 1 : still(k)}
<1>1. n \in Nat /\ 1 \in 1 .. n + 1 /\ n + 1 \in 1 .. n + 1 /\ Before(r, 1) = c /\ Before(r, n + 1) = r.cells
  BY ChainEnds
<1>2. 1 \in S
  BY <1>1
<1>3. ASSUME NEW k \in 1 .. n, k \in S PROVE k + 1 \in S
  <2>1. Link(Before(r, k), Before(r, k + 1), r.slots[k], ubatches[k])
    BY LinkOf
  <2>2. still(k) /\ k + 1 \in 1 .. n + 1
    BY <1>1, <1>3
  <2>3. Calm(Before(r, k + 1)) /\ \A j \in Cell : Before(r, k + 1).shift[j] = Before(r, k).shift[j]
    BY <2>1, <2>2, LinkCalm
  <2> QED
    BY <2>2, <2>3
<1> HIDE DEF S, n
<1>4. n + 1 \in S
  BY <1>1, <1>2, <1>3, Climbs
<1> QED
  BY <1>1, <1>4 DEF S

\* The first k slots: without a window they share no cell, and their cells were empty.
Apart(c, r, k) ==
  /\ \A l \in 1 .. k : \A x \in DOMAIN r.slots[l] :
       c.pos[r.slots[l][x]] = None /\ Before(r, k + 1).pos[r.slots[l][x]] # None
  /\ \A j \in Cell : (\A l \in 1 .. k : j \notin Range(r.slots[l])) => Before(r, k + 1).pos[j] = c.pos[j]
  /\ \A l, m \in 1 .. k : l # m => Range(r.slots[l]) \cap Range(r.slots[m]) = {}

LEMMA ApartMore ==
  ASSUME use \in Uses, use.swa = 0, NEW r \in Trials, NEW c, NEW ubatches, Chain(c, r, ubatches),
         NEW k \in 1 .. Len(r.slots), NEW i, i = k - 1, Apart(c, r, i)
  PROVE  Apart(c, r, k)
<1> DEFINE b == Before(r, k)
           d == Before(r, k + 1)
           idxs == r.slots[k]
<1>1. Link(b, d, idxs, ubatches[k]) /\ k \in DOMAIN r.slots /\ idxs \in Seq(Cell)
  BY LinkOf
<1>2. Before(r, i + 1) = b /\ i \in Nat /\ k \in Nat /\ i + 1 = k
  BY ChainEnds
<1> HIDE DEF b, idxs
<1>3. \A x \in DOMAIN idxs : idxs[x] \in Cell /\ b.pos[idxs[x]] = None
  BY <1>1, DomainOf, UnusedIsEmpty DEF Link
<1>4. \A j \in Cell : FilledCell(b, d, idxs, ubatches[k], DOMAIN idxs, j)
  BY <1>1, <1>3 DEF Link, Applied
<1>5. \A l \in 1 .. i : l \in 1 .. k /\ l # k
  BY <1>2
<1>6. \A l \in 1 .. k : l \in 1 .. i \/ l = k
  BY <1>2
<1>7. \A l \in 1 .. i : \A x \in DOMAIN r.slots[l] :
        c.pos[r.slots[l][x]] = None /\ b.pos[r.slots[l][x]] # None
  BY <1>2 DEF Apart
<1>8. \A l \in 1 .. i : Range(r.slots[l]) \cap Range(idxs) = {}
  BY <1>3, <1>7 DEF Range
<1>9. \A x \in DOMAIN idxs : d.pos[idxs[x]] # None
  <2> SUFFICES ASSUME NEW x \in DOMAIN idxs PROVE d.pos[idxs[x]] # None
    OBVIOUS
  <2>1. FilledCell(b, d, idxs, ubatches[k], DOMAIN idxs, idxs[x])
    BY <1>3, <1>4
  <2>2. PICK y \in DOMAIN idxs : d.pos[idxs[x]] = ubatches[k][y].pos
    BY <2>1 DEF FilledCell
  <2>3. ubatches[k][y] \in Tokens1
    BY <1>1, DomainOf DEF Link, Fits
  <2> QED
    BY <2>2, <2>3, CellTypes DEF Tokens1
<1>10. ASSUME NEW l \in 1 .. k, NEW x \in DOMAIN r.slots[l]
       PROVE  c.pos[r.slots[l][x]] = None /\ d.pos[r.slots[l][x]] # None
  <2>1. CASE l = k
    <3>1. idxs[x] \in Cell /\ b.pos[idxs[x]] = None /\ d.pos[idxs[x]] # None /\ x \in DOMAIN idxs
      BY <1>3, <1>9, <1>10, <2>1 DEF idxs
    <3>2. \A m \in 1 .. i : idxs[x] \notin Range(r.slots[m])
      BY <1>8, <3>1 DEF Range
    <3>3. b.pos[idxs[x]] = c.pos[idxs[x]]
      BY <1>2, <3>1, <3>2 DEF Apart
    <3> QED
      BY <2>1, <3>1, <3>3 DEF idxs
  <2>2. CASE l \in 1 .. i
    <3> DEFINE j == r.slots[l][x]
    <3>1. c.pos[j] = None /\ b.pos[j] # None
      BY <1>7, <2>2
    <3>2. j \in Cell
      <4>1. l \in 1 .. Len(r.slots)
        BY <1>2, <2>2, ChainEnds
      <4>2. r.slots[l] \in Seq(Cell)
        BY <4>1, LinkOf
      <4> QED
        BY <4>2, DomainOf
    <3> HIDE DEF j
    <3>3. FilledCell(b, d, idxs, ubatches[k], DOMAIN idxs, j)
      BY <1>4, <3>2
    <3>4. d.pos[j] = b.pos[j]
      BY <1>3, <3>1, <3>3 DEF FilledCell
    <3> QED
      BY <3>1, <3>4 DEF j
  <2> QED
    BY <1>6, <2>1, <2>2
<1>11. ASSUME NEW j \in Cell, \A l \in 1 .. k : j \notin Range(r.slots[l])
       PROVE  d.pos[j] = c.pos[j]
  <2>1. b.pos[j] = c.pos[j]
    BY <1>2, <1>5, <1>11 DEF Apart
  <2>2. \A x \in DOMAIN idxs : idxs[x] # j
    <3>1. k \in 1 .. k
      BY <1>2
    <3>2. j \notin Range(idxs)
      BY <1>11, <3>1 DEF idxs
    <3> QED
      BY <3>2 DEF Range
  <2> QED
    BY <1>4, <2>1, <2>2 DEF FilledCell
<1>12. ASSUME NEW l \in 1 .. k, NEW m \in 1 .. k, l # m
       PROVE  Range(r.slots[l]) \cap Range(r.slots[m]) = {}
  <2>1. CASE l \in 1 .. i /\ m \in 1 .. i
    BY <1>12, <2>1 DEF Apart
  <2>2. CASE l = k
    BY <1>6, <1>8, <1>12, <2>2 DEF idxs
  <2>3. CASE m = k
    BY <1>6, <1>8, <1>12, <2>3 DEF idxs
  <2> QED
    BY <1>6, <2>1, <2>2, <2>3
<1> QED
  BY <1>10, <1>11, <1>12 DEF Apart

LEMMA ChainApart ==
  ASSUME use \in Uses, use.swa = 0, NEW r \in Trials, NEW c, NEW ubatches, Chain(c, r, ubatches)
  PROVE  Apart(c, r, Len(r.slots))
<1> DEFINE n == Len(r.slots)
           S == {k \in 1 .. n + 1 : Apart(c, r, k - 1)}
<1>1. n \in Nat /\ 1 \in 1 .. n + 1 /\ n + 1 \in 1 .. n + 1 /\ Before(r, 1) = c /\ n + 1 - 1 = n
  BY ChainEnds
<1>2. 1 \in S
  <2>1. 1 - 1 = 0 /\ 1 .. 0 = {} /\ 0 + 1 = 1
    OBVIOUS
  <2>2. Apart(c, r, 0)
    BY <1>1, <2>1 DEF Apart
  <2> QED
    BY <1>1, <2>1, <2>2
<1>3. ASSUME NEW k \in 1 .. n, k \in S PROVE k + 1 \in S
  <2>1. Apart(c, r, k - 1)
    BY <1>3
  <2>2. Apart(c, r, k)
    BY <2>1, ApartMore
  <2>3. k + 1 \in 1 .. n + 1 /\ k + 1 - 1 = k
    BY <1>1
  <2> QED
    BY <2>2, <2>3
<1> HIDE DEF S, n
<1>4. n + 1 \in S
  BY <1>1, <1>2, <1>3, Climbs
<1> QED
  BY <1>1, <1>4 DEF S, n

Empties(c) == {i \in Cell : c.pos[i] = None}

\* A slot takes as many cells as the ubatch has tokens, and without a window empty ones.
LEMMA LinkEmpties ==
  ASSUME use \in Uses, NEW b, NEW d, NEW idxs, NEW ubatch, Link(b, d, idxs, ubatch)
  PROVE  /\ Cardinality(Empties(b)) \in Nat /\ Cardinality(Empties(d)) \in Nat
         /\ Cardinality(Empties(d)) + Len(ubatch) >= Cardinality(Empties(b))
         /\ use.swa = 0 => Cardinality(Empties(d)) + Len(ubatch) = Cardinality(Empties(b))
<1> DEFINE B == Empties(b)
           D == Empties(d)
           R == Range(idxs)
<1>1. idxs \in Seq(Cell) /\ Len(idxs) = Len(ubatch) /\ IsInjective(idxs) /\ Len(idxs) \in Nat
  BY DEF Link, Fits
<1>2. IsFiniteSet(R) /\ Cardinality(R) = Len(ubatch)
  BY <1>1, RangeSize
<1>3. IsFiniteSet(B) /\ IsFiniteSet(D)
  BY CellTypes, FS_Subset DEF Empties
<1>4. B \ R \subseteq D
  <2> SUFFICES ASSUME NEW j \in B, j \notin R PROVE j \in D
    OBVIOUS
  <2>1. j \in Cell /\ b.pos[j] = None /\ \A x \in DOMAIN idxs : idxs[x] # j
    BY DEF Empties, Range
  <2>2. AppliedCell(b, d, idxs, ubatch, j)
    BY <2>1 DEF Link, Applied
  <2> QED
    BY <2>1, <2>2 DEF AppliedCell, Empties
<1>5. ASSUME use.swa = 0 PROVE D = B \ R /\ R \subseteq B
  <2>1. \A x \in DOMAIN idxs : idxs[x] \in Cell /\ b.pos[idxs[x]] = None
    BY <1>1, <1>5, DomainOf, UnusedIsEmpty DEF Link
  <2>2. R \subseteq B
    BY <2>1 DEF Empties, Range
  <2>3. ASSUME NEW j \in D PROVE j \in B /\ j \notin R
    <3>1. j \in Cell /\ d.pos[j] = None
      BY DEF Empties
    <3>2. FilledCell(b, d, idxs, ubatch, DOMAIN idxs, j)
      BY <2>1, <3>1 DEF Link, Applied
    <3>3. \A k \in DOMAIN idxs : ubatch[k].pos # None
      <4> SUFFICES ASSUME NEW k \in DOMAIN idxs PROVE ubatch[k].pos # None
        OBVIOUS
      <4>1. ubatch[k] \in Tokens1
        BY <1>1, DomainOf DEF Link, Fits
      <4> QED
        BY <4>1, CellTypes DEF Tokens1
    <3> QED
      BY <3>1, <3>2, <3>3 DEF FilledCell, Empties, Range
  <2> QED
    BY <1>4, <2>2, <2>3
<1> HIDE DEF B, D, R
<1>6. /\ Cardinality(B) \in Nat /\ Cardinality(D) \in Nat /\ Cardinality(R) \in Nat
      /\ IsFiniteSet(B \ R) /\ Cardinality(B \ R) \in Nat
      /\ Cardinality(B \ R) = Cardinality(B) - Cardinality(B \cap R)
  BY <1>2, <1>3, FS_CardinalityType, FS_Difference
<1>7. Cardinality(B \cap R) \in Nat /\ Cardinality(B \cap R) <= Cardinality(R)
  <2>1. B \cap R \in SUBSET R
    OBVIOUS
  <2> QED
    BY <1>2, <2>1, FS_Subset, FS_CardinalityType
<1>8. Cardinality(B \ R) <= Cardinality(D)
  BY <1>3, <1>4, FS_Subset
<1>9. Cardinality(D) + Len(ubatch) >= Cardinality(B)
  BY <1>2, <1>6, <1>7, <1>8
<1>10. ASSUME use.swa = 0 PROVE Cardinality(D) + Len(ubatch) = Cardinality(B)
  <2>1. D = B \ R /\ B \cap R = R
    BY <1>5, <1>10
  <2>2. Cardinality(D) = Cardinality(B) - Cardinality(B \cap R)
    BY ONLY <1>6, <2>1
  <2>3. Cardinality(B \cap R) = Len(ubatch)
    BY ONLY <1>2, <2>1
  <2> QED
    BY ONLY <1>6, <2>2, <2>3
<1> QED
  BY <1>6, <1>9, <1>10 DEF B, D

\* How many cells are empty after some of the ubatches.
LEMMA ChainEmpties ==
  ASSUME use \in Uses, NEW r \in Trials, NEW c, NEW ubatches, Chain(c, r, ubatches), Good(c),
         NEW total, NEW tokens, Parts(ubatches, total, tokens), Len(r.slots) <= Len(ubatches)
  PROVE  LET n == Len(r.slots)
         IN /\ Cardinality(Empties(c)) \in Nat /\ Cardinality(Empties(r.cells)) \in Nat
            /\ Cardinality(Empties(r.cells)) + total[n] >= Cardinality(Empties(c))
            /\ use.swa = 0 => Cardinality(Empties(r.cells)) + total[n] = Cardinality(Empties(c))
<1> DEFINE n == Len(r.slots)
           E(k) == Cardinality(Empties(Before(r, k)))
           e == Cardinality(Empties(c))
           left(k) == /\ E(k) \in Nat /\ E(k) + total[k - 1] >= e
                      /\ use.swa = 0 => E(k) + total[k - 1] = e
           S == {k \in 1 .. n + 1 : left(k)}
<1>1. n \in Nat /\ 1 \in 1 .. n + 1 /\ n + 1 \in 1 .. n + 1 /\ Before(r, 1) = c /\ Before(r, n + 1) = r.cells
  BY ChainEnds
<1>2. e \in Nat
  <2>1. IsFiniteSet(Empties(c))
    BY CellTypes, FS_Subset DEF Empties
  <2> QED
    BY <2>1, FS_CardinalityType
<1>3. 1 \in S
  <2>1. total[1 - 1] = 0
    BY DEF Parts
  <2>2. E(1) = e
    BY <1>1
  <2> HIDE DEF E, e
  <2> QED
    BY <1>1, <1>2, <2>1, <2>2
<1>4. ASSUME NEW k \in 1 .. n, k \in S PROVE k + 1 \in S
  <2>1. Link(Before(r, k), Before(r, k + 1), r.slots[k], ubatches[k])
    BY LinkOf
  <2>2. left(k) /\ k + 1 \in 1 .. n + 1 /\ k + 1 - 1 = k
    BY <1>1, <1>4
  <2>3. k \in DOMAIN ubatches /\ k \in 0 .. Len(ubatches) /\ k - 1 \in 0 .. Len(ubatches)
    <3>1. DOMAIN ubatches = 1 .. Len(ubatches) /\ Len(ubatches) \in Nat
      BY DomainOf DEF Parts
    <3> QED
      BY <1>1, <3>1
  <2>4. total[k] = total[k - 1] + Len(ubatches[k]) /\ total[k] \in Nat /\ total[k - 1] \in Nat
    BY <2>3 DEF Parts
  <2>5. Len(ubatches[k]) \in Nat
    <3>1. ubatches[k] \in Seq(Tokens1)
      BY <2>3, DomainOf DEF Parts
    <3> QED
      BY <3>1
  <2>6. /\ E(k + 1) \in Nat /\ E(k + 1) + Len(ubatches[k]) >= E(k)
        /\ use.swa = 0 => E(k + 1) + Len(ubatches[k]) = E(k)
    BY <2>1, LinkEmpties
  <2> HIDE DEF E, e
  <2>7. left(k + 1)
    <3>1. E(k) \in Nat /\ E(k) + total[k - 1] >= e /\ (use.swa = 0 => E(k) + total[k - 1] = e)
      BY <2>2
    <3>2. E(k + 1) + total[k] >= e
      BY ONLY <1>2, <2>4, <2>5, <2>6, <3>1
    <3>3. ASSUME use.swa = 0 PROVE E(k + 1) + total[k] = e
      BY ONLY <1>2, <2>4, <2>5, <2>6, <3>1, <3>3
    <3>4. total[k + 1 - 1] = total[k]
      BY <2>2
    <3> QED
      BY <2>6, <3>2, <3>3, <3>4
  <2> QED
    BY <2>2, <2>7
<1> HIDE DEF S, n
<1>5. n + 1 \in S
  BY <1>1, <1>3, <1>4, Climbs
<1>6. left(n + 1)
  BY <1>5 DEF S
<1>7. n + 1 - 1 = n
  BY <1>1
<1> QED
  BY <1>1, <1>2, <1>6, <1>7 DEF n

\* What prepare returns.
Slotted(c, ubatches, p) ==
  /\ Good(p.cells) /\ p.fits \in BOOLEAN
  /\ \A j \in Cell : p.cells.pos[j] = c.pos[j] \/ p.cells.pos[j] = None
  /\ use.swa = 0 => \A j \in Cell : p.cells.pos[j] = c.pos[j] /\ p.cells.seq[j] = c.seq[j]
  /\ Calm(c) => \A j \in Cell : p.cells.shift[j] = c.shift[j]
  /\ p.fits => \A k \in DOMAIN ubatches : Fits(p.slots[k], ubatches[k]) /\ IsInjective(p.slots[k])
  /\ p.fits /\ use.swa = 0 =>
       /\ \A k \in DOMAIN ubatches : \A x \in DOMAIN p.slots[k] : c.pos[p.slots[k][x]] = None
       /\ \A k, l \in DOMAIN ubatches : k # l => Range(p.slots[k]) \cap Range(p.slots[l]) = {}

LEMMA PrepareSlots ==
  ASSUME use \in Uses, NEW c, Good(c), NEW ubatches \in Seq(Seq(Tokens1) \ {<<>>})
  PROVE  Slotted(c, ubatches, Prepare(c, ubatches))
<1> DEFINE r == Trying(c, ubatches)
           at == [k \in DOMAIN r.slots |-> k]
           d == TakeBack(r, at)
           p == Prepare(c, ubatches)
           n == Len(r.slots)
<1>1. p = [fits |-> r.fits, slots |-> r.slots, cells |-> d]
  BY DEF Prepare, Trying, TryOne, Untried, TakeBack
<1>2. TriedAll(c, ubatches, DOMAIN ubatches, r)
  BY TryingFold
<1>3. at = [k \in DOMAIN r.slots |-> k]
  OBVIOUS
<1> HIDE DEF r, at, p
<1>4. DOMAIN ubatches = 1 .. Len(ubatches) /\ Len(ubatches) \in Nat
  BY DomainOf
<1>5. r \in Trials /\ Chain(c, r, ubatches) /\ (r.fits => n = Len(ubatches))
  BY <1>2, <1>4 DEF TriedAll, Tried
<1>6. n \in Nat /\ 1 \in 1 .. n + 1 /\ DOMAIN r.slots = 1 .. n /\ Before(r, 1) = c
  BY <1>5, ChainEnds DEF Trials
<1>7. TakenBack(r, DOMAIN r.slots, d)
  <2>1. use \in Uses
    OBVIOUS
  <2> QED
    BY ONLY <1>3, <1>5, <2>1, TakeBackFold
<1> HIDE DEF d, n
<1>8. Good(d) /\ Untaken(r, 1, d)
  BY <1>6, <1>7 DEF TakenBack, n
<1>9. \A j \in Cell : /\ d.shift[j] = r.cells.shift[j] /\ (d.pos[j] = c.pos[j] \/ d.pos[j] = None)
                      /\ use.swa = 0 => d.pos[j] = c.pos[j] /\ d.seq[j] = c.seq[j]
  BY <1>6, <1>8 DEF Untaken
<1>10. Calm(c) => \A j \in Cell : d.shift[j] = c.shift[j]
  BY <1>5, <1>9, ChainCalm
<1>11. ASSUME r.fits, NEW k \in DOMAIN ubatches
       PROVE  Fits(r.slots[k], ubatches[k]) /\ IsInjective(r.slots[k])
  <2>1. k \in 1 .. Len(r.slots)
    BY <1>4, <1>5, <1>11 DEF n
  <2> QED
    BY <1>5, <2>1, LinkOf DEF Link
<1>12. ASSUME r.fits, use.swa = 0
       PROVE  /\ \A k \in DOMAIN ubatches : \A x \in DOMAIN r.slots[k] : c.pos[r.slots[k][x]] = None
              /\ \A k, l \in DOMAIN ubatches : k # l => Range(r.slots[k]) \cap Range(r.slots[l]) = {}
  <2>1. Apart(c, r, n)
    BY <1>5, <1>12, ChainApart DEF n
  <2> QED
    BY <1>4, <1>5, <1>12, <2>1 DEF Apart
<1>13. p.fits = r.fits /\ p.slots = r.slots /\ p.cells = d /\ r.fits \in BOOLEAN
  BY <1>1, <1>5 DEF Trials
<1>14. Slotted(c, ubatches, p)
  <2>1. p.fits => \A k \in DOMAIN ubatches : Fits(p.slots[k], ubatches[k]) /\ IsInjective(p.slots[k])
    BY <1>11, <1>13
  <2>2. p.fits /\ use.swa = 0 =>
          \A k \in DOMAIN ubatches : \A x \in DOMAIN p.slots[k] : c.pos[p.slots[k][x]] = None
    BY <1>12, <1>13
  <2>3. p.fits /\ use.swa = 0 =>
          \A k, l \in DOMAIN ubatches : k # l => Range(p.slots[k]) \cap Range(p.slots[l]) = {}
    BY <1>12, <1>13
  <2>4. Good(p.cells) /\ p.fits \in BOOLEAN
    BY <1>8, <1>13
  <2>5. \A j \in Cell : p.cells.pos[j] = c.pos[j] \/ p.cells.pos[j] = None
    BY <1>9, <1>13
  <2>6. use.swa = 0 => \A j \in Cell : p.cells.pos[j] = c.pos[j] /\ p.cells.seq[j] = c.seq[j]
    BY <1>9, <1>13
  <2>7. Calm(c) => \A j \in Cell : p.cells.shift[j] = c.shift[j]
    BY <1>10, <1>13
  <2> QED
    BY ONLY <2>1, <2>2, <2>3, <2>4, <2>5, <2>6, <2>7 DEF Slotted
<1> QED
  BY <1>14 DEF p

\* Slots are found when there are enough empty cells, and without a window only then.
LEMMA PrepareFits ==
  ASSUME use \in Uses, NEW c, Good(c), NEW ubatches \in Seq(Seq(Tokens1) \ {<<>>}), NEW total, NEW tokens \in Seq(Tokens1),
         Parts(ubatches, total, tokens)
  PROVE  /\ Len(tokens) <= Cardinality(Empties(c)) => Prepare(c, ubatches).fits
         /\ Prepare(c, ubatches).fits /\ use.swa = 0 => Len(tokens) <= Cardinality(Empties(c))
<1> DEFINE r == Trying(c, ubatches)
           n == Len(r.slots)
           m == Len(ubatches)
           L == Len(tokens)
           e == Cardinality(Empties(c))
           f == Cardinality(Empties(r.cells))
<1>1. Prepare(c, ubatches).fits = r.fits
  BY DEF Prepare, Trying, TryOne, Untried
<1>2. TriedAll(c, ubatches, DOMAIN ubatches, r)
  BY TryingFold
<1> HIDE DEF r
<1>3. DOMAIN ubatches = 1 .. m /\ m \in Nat /\ L \in Nat
  BY DomainOf
<1>4. r \in Trials /\ Tried(c, r, ubatches, m) /\ Chain(c, r, ubatches) /\ n \in Nat /\ n <= m
  <2>1. r \in Trials /\ Tried(c, r, ubatches, m)
    BY <1>2, <1>3 DEF TriedAll
  <2> QED
    BY <1>3, <2>1, ChainEnds DEF Tried
<1>5. /\ e \in Nat /\ f \in Nat /\ f + total[n] >= e /\ (use.swa = 0 => f + total[n] = e)
  BY <1>4, ChainEmpties
<1>6. total[n] \in Nat /\ total[m] = L
  BY <1>3, <1>4 DEF Parts
<1>7. ASSUME ~ r.fits PROVE ~ (L <= e)
  <2>1. n < m /\ Cardinality(Usable(r.cells)) < Len(ubatches[n + 1])
    BY <1>4, <1>7 DEF Tried
  <2>2. n + 1 \in DOMAIN ubatches /\ n + 1 \in 0 .. m /\ n + 1 - 1 = n
    BY <1>3, <1>4, <2>1
  <2>3. total[n + 1] = total[n] + Len(ubatches[n + 1]) /\ total[n + 1] <= L /\ total[n + 1] \in Nat
    <3> DEFINE k == n + 1
    <3> HIDE DEF k
    <3>1. k \in DOMAIN ubatches /\ k \in 0 .. m /\ k - 1 = n
      BY <2>2 DEF k
    <3>2. total[k] = total[k - 1] + Len(ubatches[k]) /\ total[k] <= L /\ total[k] \in Nat
      BY <3>1 DEF Parts
    <3> QED
      BY <3>1, <3>2 DEF k
  <2>4. f <= Cardinality(Usable(r.cells)) /\ Cardinality(Usable(r.cells)) \in Nat
    <3>1. Empties(r.cells) \in SUBSET Usable(r.cells) /\ IsFiniteSet(Usable(r.cells))
      BY CellTypes, FS_Subset DEF Empties, Usable, CanUse
    <3> QED
      BY <3>1, FS_Subset, FS_CardinalityType
  <2>5. Len(ubatches[n + 1]) \in Nat
    BY <2>2, DomainOf
  <2> HIDE DEF e, f, L, m, n
  <2> QED
    BY <1>3, <1>5, <1>6, <2>1, <2>3, <2>4, <2>5
<1>8. ASSUME r.fits, use.swa = 0 PROVE L <= e
  <2>1. n = m
    BY <1>4, <1>8 DEF Tried
  <2> HIDE DEF e, f, L, m, n
  <2> QED
    BY <1>3, <1>5, <1>6, <1>8, <2>1
<1> QED
  BY <1>1, <1>7, <1>8

-----------------------------------------------------------------------------
(* The calls between two decodes.                                          *)

LEMMA SeqDivKeeps ==
  ASSUME use \in Uses, NEW c, Good(c), NEW s \in Seqs, NEW p0 \in Nat, NEW p1
  PROVE  Good(SeqDiv(c, s, p0, p1, 2))
<1> DEFINE S == Has(c, s, p0, p1)
<1>1. S \in SUBSET Cell /\ \A i \in S : c.pos[i] # None
  BY HasPositions DEF Has
<1>2. 2 \in Nat \ {0} /\ SeqDiv(c, s, p0, p1, 2) = FoldSet(LAMBDA i, d : PosDiv(d, i, 2), c, S)
  BY DEF SeqDiv
<1> HIDE DEF S
<1> QED
  BY <1>1, <1>2, SeqDivFold DEF Moved

LEMMA ResetIsGood ==
  ASSUME use \in Uses
  PROVE  GoodBut(Reset, NoTokens) /\ \A j \in Cell : Reset.pos[j] = None /\ Reset.shift[j] = 0
<1>1. Reset \in Cells
  BY CellTypes DEF Reset, Cells, NoTokens
<1>2. \A j \in Cell : Reset.pos[j] = None /\ Reset.seq[j] = {} /\ Reset.shift[j] = 0
  BY DEF Reset
<1>3. CountsBut(Reset, NoTokens)
  <2> SUFFICES ASSUME NEW s \in Seqs, NEW p \in Pos
               PROVE  Reset.seq_pos[s][p] = NoTokens[s][p] + Cardinality(Holding(Reset, s, p))
    BY DEF CountsBut, NoTokens
  <2>1. Holding(Reset, s, p) = {}
    BY <1>2 DEF Holding
  <2>2. Reset.seq_pos[s][p] = 0 /\ NoTokens[s][p] = 0
    BY DEF Reset, NoTokens
  <2> QED
    BY <2>1, <2>2, FS_EmptySet
<1>4. Reset.used = {}
  BY DEF Reset
<1> QED
  BY <1>1, <1>2, <1>3, <1>4 DEF GoodBut, Whole

\* No token is of two sequences.  (When the graph of such a token fails, only its first
\* sequence gives it up.)
Alone(u) == \A batch \in u.batches : \A k \in DOMAIN batch : \E s \in Seqs : batch[k] = {s}
\* Moreover the use moves no key by division, and none of a window.  (The copy that
\* prepare takes back has no shifts.)
Plain(u) == Alone(u) /\ "div" \notin u.edits /\ (u.swa > 0 => "add" \notin u.edits)

\* The keys are those of the positions, but for the ones that a failed shift has spoilt.
Keyed(c, keys) ==
  \A i \in Cell : c.pos[i] # None /\ keys[i] # Spoilt => keys[i] + c.shift[i] = c.pos[i]
Fine(c, keys) == Keyed(c, keys) /\ Calm(c)

\* The tokens come behind what the cells hold of their sequences, and one ubatch behind
\* the other.
Behind(c, tokens) == \A x \in DOMAIN tokens : \A s \in tokens[x].seqs :
  \A i \in Cell : s \in c.seq[i] => c.pos[i] < tokens[x].pos
Sooner(tokens, others) == \A x \in DOMAIN tokens, y \in DOMAIN others :
  \A s \in tokens[x].seqs \cap others[y].seqs : tokens[x].pos < others[y].pos
InTurn(c, ubatches) ==
  /\ \A k \in DOMAIN ubatches : Behind(c, ubatches[k])
  /\ \A k, l \in DOMAIN ubatches : k < l => Sooner(ubatches[k], ubatches[l])

\* The ubatches that wait for their graphs.
Queue(work) ==
  /\ work \in Seq([idxs : Seq(Cell), tokens : Seq(Tokens1)])
  /\ \A k \in DOMAIN work : Fits(work[k].idxs, work[k].tokens) /\ IsInjective(work[k].idxs)
Waits(c, work) ==
  /\ \A k \in DOMAIN work : \A x \in DOMAIN work[k].tokens :
       \E s \in Seqs : work[k].tokens[x].seqs = {s}
  /\ use.swa = 0 =>
       /\ \A k \in DOMAIN work : \A x \in DOMAIN work[k].idxs : c.pos[work[k].idxs[x]] = None
       /\ \A k, l \in DOMAIN work : k # l => Range(work[k].idxs) \cap Range(work[l].idxs) = {}

Ahead(c, work) ==
  /\ \A k \in DOMAIN work : Behind(c, work[k].tokens)
  /\ \A k, l \in DOMAIN work : k < l => Sooner(work[k].tokens, work[l].tokens)

Goes(c, keys, work, answer) ==
  /\ keys \in [Cell -> Int] /\ Queue(work)
  /\ answer \in {"", "ok", "no slot", "failed"}
  /\ Plain(use) => Fine(c, keys)
  /\ Alone(use) => Waits(c, work) /\ (use.swa = 0 => Ahead(c, work))
State(c, keys, work, answer) == Good(c) /\ Goes(c, keys, work, answer)

UsedOf(c, keys) == [i \in Cell |-> Used(c, i, keys[i])]

LEMMA NoWork == ASSUME NEW c PROVE Queue(<<>>) /\ Waits(c, <<>>) /\ Ahead(c, <<>>)
<1>1. <<>> \in Seq([idxs : Seq(Cell), tokens : Seq(Tokens1)]) /\ DOMAIN <<>> = {}
  OBVIOUS
<1> QED
  BY <1>1 DEF Queue, Waits, Ahead

\* The cells d come from c by a call that the keys follow.
EditedTo(c, d) ==
  /\ d \in Cells
  /\ Plain(use) => /\ KeysFollow(c, d)
                   /\ use.swa > 0 => \A j \in Cell : d.shift[j] = 0 \/ d.shift[j] = c.shift[j]

LEMMA FewerIsEdited ==
  ASSUME use \in Uses, NEW c, NEW d, Good(c), Fewer(c, d)
  PROVE  EditedTo(c, d)
<1>1. \A j \in Cell : /\ c.pos[j] \in Pos \cup {None} /\ c.shift[j] \in Int
                      /\ \/ d.pos[j] = c.pos[j] /\ d.shift[j] = c.shift[j]
                         \/ d.pos[j] = None /\ d.shift[j] = 0
  BY CellTypes DEF Fewer, Good, Sound, Cells
<1> QED
  BY <1>1 DEF Fewer, Good, Sound, EditedTo, KeysFollow

LEMMA UsedTypes ==
  ASSUME NEW c, NEW keys \in [Cell -> Int]
  PROVE  /\ UsedOf(c, keys) \in [Cell -> Int]
         /\ \A i \in Cell : c.pos[i] # None => UsedOf(c, keys)[i] = keys[i]
BY DEF UsedOf, Used, None

LEMMA EditedStays ==
  ASSUME use \in Uses, NEW c, NEW keys, NEW answer, State(c, keys, <<>>, answer), NEW d, EditedTo(c, d)
  PROVE  Goes(d, UsedOf(d, keys), <<>>, "")
<1>1. keys \in [Cell -> Int] /\ Good(c) /\ d \in Cells
  BY DEF State, Goes, EditedTo
<1>2. /\ UsedOf(d, keys) \in [Cell -> Int]
      /\ \A i \in Cell : d.pos[i] # None => UsedOf(d, keys)[i] = keys[i]
  BY <1>1, UsedTypes
<1>3. ASSUME Plain(use) PROVE Fine(d, UsedOf(d, keys))
  <2>1. Keyed(c, keys) /\ Calm(c) /\ KeysFollow(c, d)
    BY <1>3 DEF State, Goes, Fine, EditedTo
  <2>2. Keyed(d, UsedOf(d, keys))
    <3> SUFFICES ASSUME NEW i \in Cell, d.pos[i] # None, keys[i] # Spoilt
                 PROVE  keys[i] + d.shift[i] = d.pos[i]
      BY <1>2 DEF Keyed
    <3>1. c.pos[i] # None /\ d.pos[i] - d.shift[i] = c.pos[i] - c.shift[i]
      BY <2>1 DEF KeysFollow
    <3>2. keys[i] + c.shift[i] = c.pos[i]
      BY <2>1, <3>1 DEF Keyed
    <3>3. /\ keys[i] \in Int /\ c.shift[i] \in Int /\ d.shift[i] \in Int
          /\ c.pos[i] \in Int /\ d.pos[i] \in Int
      BY <1>1, CellTypes DEF Good, Sound, Cells
    <3> QED
      BY <3>1, <3>2, <3>3
  <2>3. Calm(d)
    BY <1>3, <2>1 DEF Calm, KeysFollow, EditedTo
  <2> QED
    BY <2>2, <2>3 DEF Fine
<1> QED
  BY <1>2, <1>3, NoWork DEF Goes

\* How often copies may have counted a position twice.
Surpluses == [Seqs -> [Pos -> 0 .. use.twice]]

LEMMA NoTokensTwice == ASSUME use.twice \in Nat PROVE NoTokens \in Surpluses
<1>1. 0 \in 0 .. use.twice
  OBVIOUS
<1>2. [p \in Pos |-> 0] \in [Pos -> 0 .. use.twice]
  BY <1>1
<1> QED
  BY <1>2 DEF NoTokens, Surpluses

LEMMA EditStepKeeps ==
  ASSUME use \in Uses, State(kv, K, todo, ret), surplus \in Surpluses, EditStep
  PROVE  /\ use' = use /\ Goes(kv', K', todo', ret')
         /\ GoodBut(kv', surplus') /\ surplus' \in Surpluses
<1> DEFINE Next1 == /\ use' = use /\ Goes(kv', K', todo', ret')
                    /\ GoodBut(kv', surplus') /\ surplus' \in Surpluses
<1>1. Good(kv)
  BY DEF State
<1>2. ASSUME NEW kind, NEW c, EditedTo(kv, c), Edit(kind, c), GoodBut(c, surplus'),
             surplus' \in Surpluses
      PROVE  Next1
  <2>1. State(kv, K, <<>>, ret)
    BY <1>2 DEF Edit
  <2>2. Goes(c, UsedOf(c, K), <<>>, "")
    BY <1>2, <2>1, EditedStays
  <2>3. kv' = c /\ K' = UsedOf(c, K) /\ todo' = <<>> /\ ret' = "" /\ use' = use
    BY <1>2 DEF Edit, UsedOf
  <2> QED
    BY <1>2, <2>2, <2>3
<1>3. \A r \in use.ranges : r[1] \in Nat /\ r[2] \in Nat
  BY KvAssumption
<1>4. ASSUME UNCHANGED surplus, NEW kind, NEW c, EditedTo(kv, c), Edit(kind, c), Good(c)
      PROVE  Next1
  <2>1. GoodBut(c, surplus') /\ surplus' \in Surpluses
    BY <1>4 DEF Good, Sound, Counts, GoodBut
  <2> QED
    BY <1>2, <1>4, <2>1
<1>12. use.twice \in Nat
  BY KvAssumption
<1> HIDE DEF Next1
<1>5. ASSUME UNCHANGED surplus, NEW r \in use.ranges, Edit("rm", AnyRm(kv, r[1], r[2]))
      PROVE  Next1
  <2>1. Fewer(kv, AnyRm(kv, r[1], r[2]))
    BY <1>1, AnyRmKeeps
  <2> QED
    BY <1>1, <1>4, <1>5, <2>1, FewerIsEdited DEF Fewer
<1>6. ASSUME UNCHANGED surplus, NEW s \in Seqs, NEW r \in use.ranges, Edit("rm", SeqRm(kv, s, r[1], r[2]))
      PROVE  Next1
  <2>1. Fewer(kv, SeqRm(kv, s, r[1], r[2]))
    BY <1>1, SeqRmKeeps
  <2> QED
    BY <1>1, <1>4, <1>6, <2>1, FewerIsEdited DEF Fewer
<1>7. ASSUME NEW s \in Seqs, NEW r \in use.ranges, NEW d \in Seqs, s # d, Copy(s, d, r[1], r[2])
      PROVE  Next1
  <2> DEFINE e == SeqCp(kv, s, d, r[1], r[2])
             U == Has(kv, s, r[1], r[2])
             again == CountedAgain(s, d, r[1], r[2])
  <2>1. /\ surplus' = again /\ Edit("cp", e) /\ \A p \in Pos : surplus'[d][p] <= use.twice
    BY <1>7 DEF Copy
  <2>2. \A p \in Pos : Cardinality(Twice(kv, U, d, p)) \in Nat
    <3> SUFFICES ASSUME NEW p \in Pos PROVE Cardinality(Twice(kv, U, d, p)) \in Nat
      OBVIOUS
    <3>1. Twice(kv, U, d, p) \subseteq Cell
      BY DEF Twice, Has
    <3> QED
      BY <3>1, CellTypes, FS_Subset, FS_CardinalityType
  <2>3. again = [surplus EXCEPT ![d] = [p \in Pos |-> surplus[d][p] + Cardinality(Twice(kv, U, d, p))]]
    BY DEF CountedAgain, Twice
  <2> HIDE DEF again, U
  <2>4. surplus \in [Seqs -> [Pos -> Nat]] /\ \A t \in Seqs : surplus[t] \in [Pos -> Nat]
    BY <1>1 DEF Good, Sound, Counts, CountsBut
  <2>5. ASSUME NEW t \in Seqs
        PROVE  /\ again[t] \in [Pos -> Nat]
               /\ \A p \in Pos : again[t][p] = surplus[t][p] +
                    (IF t = d THEN Cardinality(Twice(kv, U, d, p)) ELSE 0)
    <3>1. CASE t = d
      <4>1. again[t] = [p \in Pos |-> surplus[d][p] + Cardinality(Twice(kv, U, d, p))]
        BY <2>3, <2>4, <3>1
      <4> QED
        BY <2>2, <2>4, <3>1, <4>1
    <3>2. CASE t # d
      <4>1. again[t] = surplus[t]
        BY <2>3, <2>4, <3>2
      <4>2. \A p \in Pos : surplus[t][p] \in Nat
        BY <2>4
      <4> QED
        BY <2>4, <3>2, <4>1, <4>2
    <3> QED
      BY <3>1, <3>2
  <2>6. again \in [Seqs -> [Pos -> Nat]]
    <3>1. again = [t \in Seqs |-> again[t]]
      BY <2>3, <2>4
    <3> QED
      BY <2>5, <3>1
  <2>7. again \in Surpluses
    <3>1. ASSUME NEW t \in Seqs, NEW p \in Pos PROVE again[t][p] \in 0 .. use.twice
      <4>1. again[t][p] \in Nat
        BY <2>6
      <4>2. CASE t = d
        BY <2>1, <4>1, <4>2, <1>12
      <4>3. CASE t # d
        <5>1. again[t][p] = surplus[t][p] + 0 /\ surplus[t][p] \in 0 .. use.twice
          BY <2>5, <4>3 DEF Surpluses
        <5> QED
          BY <5>1, <1>12
      <4> QED
        BY <4>2, <4>3
    <3>2. ASSUME NEW t \in Seqs PROVE again[t] \in [Pos -> 0 .. use.twice]
      BY <2>6, <3>1
    <3> QED
      BY <2>6, <3>2 DEF Surpluses
  <2>8. GoodBut(e, again) /\ \A j \in Cell : e.pos[j] = kv.pos[j] /\ e.shift[j] = kv.shift[j]
    <3>1. r[1] \in Nat /\ use \in Uses /\ s # d
      BY <1>3, <1>7
    <3>2. GrowsBy(kv, Has(kv, s, r[1], r[2]), d, again)
      BY <2>5, <2>6 DEF GrowsBy, U
    <3> QED
      BY ONLY <1>1, <3>1, <3>2, SeqCpKeeps, s \in Seqs, d \in Seqs
  <2> HIDE DEF e
  <2>9. EditedTo(kv, e)
    <3>1. e \in Cells /\ \A j \in Cell : /\ e.pos[j] = kv.pos[j] /\ e.shift[j] = kv.shift[j]
                                        /\ kv.pos[j] \in Int /\ kv.shift[j] \in Int
      BY <1>1, <2>8, CellTypes DEF GoodBut, Good, Sound, Cells
    <3>2. Plain(use) => Calm(kv)
      BY DEF State, Goes, Fine
    <3> QED
      BY <3>1, <3>2 DEF EditedTo, KeysFollow, Calm
  <2> QED
    BY <1>2, <2>1, <2>7, <2>8, <2>9
<1>8. ASSUME UNCHANGED surplus, NEW s \in Seqs, NEW r \in use.ranges, NEW delta \in {-1, 1},
             \A i \in Has(kv, s, r[1], r[2]) : kv.pos[i] + delta <= use.last,
             Edit("add", SeqAdd(kv, s, r[1], r[2], delta))
      PROVE  Next1
  <2>1. LET e == SeqAdd(kv, s, r[1], r[2], delta) IN Good(e) /\ KeysFollow(kv, e)
    BY <1>1, <1>3, <1>8, SeqAddKeeps
  <2>2. Plain(use) => ~ (use.swa > 0)
    BY <1>8 DEF Plain, Edit
  <2>3. EditedTo(kv, SeqAdd(kv, s, r[1], r[2], delta)) /\ Good(SeqAdd(kv, s, r[1], r[2], delta))
    BY <2>1, <2>2 DEF EditedTo, Good, Sound
  <2> QED
    BY <1>4, <1>8, <2>3
<1>9. ASSUME UNCHANGED surplus, NEW s \in Seqs, NEW r \in use.ranges, Edit("div", SeqDiv(kv, s, r[1], r[2], 2))
      PROVE  Next1
  <2>1. Good(SeqDiv(kv, s, r[1], r[2], 2))
    BY <1>1, <1>3, SeqDivKeeps
  <2>2. ~ Plain(use)
    BY <1>9 DEF Plain, Edit
  <2>3. EditedTo(kv, SeqDiv(kv, s, r[1], r[2], 2))
    BY <2>1, <2>2 DEF EditedTo, Good, Sound
  <2> QED
    BY <1>4, <1>9, <2>1, <2>3
<1>10. ASSUME UNCHANGED surplus, NEW s \in Seqs, Edit("keep", SeqKeep(kv, s))
       PROVE  Next1
  <2>1. Fewer(kv, SeqKeep(kv, s))
    BY <1>1, SeqKeepKeeps
  <2> QED
    BY <1>1, <1>4, <1>10, <2>1, FewerIsEdited DEF Fewer
<1>11. CASE Edit("clear", Reset) /\ surplus' = NoTokens
  <2>1. GoodBut(Reset, NoTokens) /\ EditedTo(kv, Reset)
    BY ResetIsGood DEF EditedTo, KeysFollow, GoodBut
  <2>2. NoTokens \in Surpluses
    BY <1>12, NoTokensTwice
  <2>3. GoodBut(Reset, surplus') /\ surplus' \in Surpluses /\ Edit("clear", Reset)
    BY <1>11, <2>1, <2>2
  <2> QED
    BY <1>2, <2>1, <2>3 DEF Next1
<1> QED
  BY <1>5, <1>6, <1>7, <1>8, <1>9, <1>10, <1>11 DEF EditStep, Next1

-----------------------------------------------------------------------------
(* llama_decode.                                                           *)

\* Every token of the ubatches is of one sequence.
Single(ubatches) ==
  \A k \in DOMAIN ubatches : \A x \in DOMAIN ubatches[k] : \E s \in Seqs : ubatches[k][x].seqs = {s}

\* No cell of a sequence is behind its end.
LEMMA EndsThere ==
  ASSUME use \in Uses, NEW c, Good(c), NEW i \in Cell, NEW s \in c.seq[i]
  PROVE  s \in Seqs /\ c.pos[i] \in Int /\ c.pos[i] <= SeqPosMax(c, s)
<1> DEFINE p == c.pos[i]
<1>1. c \in Cells /\ Counts(c) /\ Whole(c)
  BY DEF Good, Sound
<1>2. s \in Seqs /\ p \in Pos /\ p \in Int
  BY <1>1, CellTypes DEF Cells, Whole
<1>3. i \in Holding(c, s, p)
  BY DEF Holding
<1>4. Cardinality(Holding(c, s, p)) \in Nat /\ Cardinality(Holding(c, s, p)) # 0
  <2>1. Holding(c, s, p) \subseteq Cell
    BY DEF Holding
  <2>2. IsFiniteSet(Holding(c, s, p))
    BY <2>1, CellTypes, FS_Subset
  <2> QED
    BY <1>3, <2>2, FS_EmptySet, FS_CardinalityType
<1>5. c.seq_pos[s][p] > 0
  <2>1. c.seq_pos[s][p] = surplus[s][p] + Cardinality(Holding(c, s, p)) /\ surplus[s][p] \in Nat
    BY <1>1, <1>2 DEF Counts, CountsBut
  <2> QED
    BY <1>4, <2>1
<1>6. p \in Positions(c, s)
  BY <1>2, <1>5 DEF Positions
<1>7. Positions(c, s) \subseteq Int /\ IsFiniteSet(Positions(c, s)) /\ Positions(c, s) # {}
  <2>1. Positions(c, s) \subseteq Pos
    BY DEF Positions
  <2> QED
    BY <1>6, <2>1, CellTypes, FS_Subset
<1>8. Max(Positions(c, s)) \in Int /\ Max(Positions(c, s)) >= p
  BY <1>6, <1>7, MaxIs
<1>9. SeqPosMax(c, s) = Max(Positions(c, s))
  BY <1>7 DEF SeqPosMax
<1> QED
  BY <1>2, <1>8, <1>9

\* The parts of a batch come in turn.
LEMMA PartsInTurn ==
  ASSUME use \in Uses, NEW c, Good(c), NEW tokens \in Seq(Tokens1), Follow(c, tokens),
         NEW ubatches, NEW total, Parts(ubatches, total, tokens)
  PROVE  InTurn(c, ubatches)
<1>1. DOMAIN ubatches = 1 .. Len(ubatches) /\ Len(ubatches) \in Nat
  BY DomainOf DEF Parts
<1>2. \A y \in DOMAIN tokens : tokens[y].pos \in Int /\ tokens[y].seqs \subseteq Seqs
  <2> SUFFICES ASSUME NEW y \in DOMAIN tokens PROVE tokens[y].pos \in Int /\ tokens[y].seqs \subseteq Seqs
    OBVIOUS
  <2>1. tokens[y] \in Tokens1
    BY DomainOf
  <2> QED
    BY <2>1, CellTypes DEF Tokens1
<1>3. ASSUME NEW k \in DOMAIN ubatches, NEW x \in DOMAIN ubatches[k]
      PROVE  total[k - 1] + x \in DOMAIN tokens /\ ubatches[k][x] = tokens[total[k - 1] + x]
  BY <1>3 DEF Parts
<1>4. ASSUME NEW k \in DOMAIN ubatches
      PROVE  /\ total[k - 1] \in Nat /\ total[k] \in Nat /\ total[k] = total[k - 1] + Len(ubatches[k])
             /\ DOMAIN ubatches[k] = 1 .. Len(ubatches[k]) /\ Len(ubatches[k]) \in Nat
  <2>1. k \in 0 .. Len(ubatches) /\ k - 1 \in 0 .. Len(ubatches)
    BY <1>1
  <2>2. ubatches[k] \in Seq(Tokens1)
    BY DomainOf DEF Parts
  <2>3. total[k - 1] \in Nat /\ total[k] \in Nat
    BY <2>1 DEF Parts
  <2> QED
    BY <2>2, <2>3, DomainOf DEF Parts
<1>5. ASSUME NEW k \in DOMAIN ubatches PROVE Behind(c, ubatches[k])
  <2> SUFFICES ASSUME NEW x \in DOMAIN ubatches[k], NEW s \in ubatches[k][x].seqs,
                      NEW i \in Cell, s \in c.seq[i]
               PROVE  c.pos[i] < ubatches[k][x].pos
    BY DEF Behind
  <2> DEFINE y == total[k - 1] + x
  <2>1. y \in DOMAIN tokens /\ ubatches[k][x] = tokens[y]
    BY <1>3
  <2> HIDE DEF y
  <2>2. SeqPosMax(c, s) < tokens[y].pos
    BY <2>1 DEF Follow
  <2>3. c.pos[i] \in Int /\ c.pos[i] <= SeqPosMax(c, s) /\ s \in Seqs
    BY EndsThere
  <2>4. SeqPosMax(c, s) \in Int /\ tokens[y].pos \in Int
    BY <1>2, <2>1, <2>3, SeqPosMaxIs
  <2> QED
    BY <2>1, <2>2, <2>3, <2>4
<1>6. ASSUME NEW k \in DOMAIN ubatches, NEW l \in DOMAIN ubatches, k < l
      PROVE  Sooner(ubatches[k], ubatches[l])
  <2> SUFFICES ASSUME NEW x \in DOMAIN ubatches[k], NEW y \in DOMAIN ubatches[l],
                      NEW s \in ubatches[k][x].seqs \cap ubatches[l][y].seqs
               PROVE  ubatches[k][x].pos < ubatches[l][y].pos
    BY DEF Sooner
  <2> DEFINE a == total[k - 1] + x
             b == total[l - 1] + y
  <2>1. a \in DOMAIN tokens /\ ubatches[k][x] = tokens[a]
    BY <1>3
  <2>2. b \in DOMAIN tokens /\ ubatches[l][y] = tokens[b]
    BY <1>3
  <2>3. total[k] <= total[l - 1]
    <3>1. k \in 0 .. Len(ubatches) /\ l - 1 \in 0 .. Len(ubatches) /\ k <= l - 1
      BY <1>1, <1>6
    <3> QED
      BY <3>1 DEF Parts
  <2>4. a < b
    <3>1. x \in 1 .. Len(ubatches[k]) /\ y \in 1 .. Len(ubatches[l])
      BY <1>4
    <3>2. total[l - 1] \in Nat /\ Len(ubatches[l]) \in Nat
      BY <1>4
    <3> QED
      BY <1>4, <2>3, <3>1, <3>2
  <2> HIDE DEF a, b
  <2>5. s \in tokens[a].seqs \cap tokens[b].seqs
    BY <2>1, <2>2
  <2>6. tokens[a].pos < tokens[b].pos
    BY <2>1, <2>2, <2>4, <2>5 DEF Follow
  <2> QED
    BY <2>1, <2>2, <2>6
<1> QED
  BY <1>5, <1>6 DEF InTurn

LEMMA BatchSplits ==
  ASSUME use \in Uses, NEW c, Good(c), NEW batch \in use.batches, Accepted(c, batch)
  PROVE  /\ Tokens(c, batch) \in Seq(Tokens1) /\ Len(Tokens(c, batch)) = Len(batch)
         /\ Split(Tokens(c, batch)) \in Seq(Seq(Tokens1) \ {<<>>})
         /\ Parts(Split(Tokens(c, batch)), Ends(Tokens(c, batch)), Tokens(c, batch))
         /\ Alone(use) => Single(Split(Tokens(c, batch))) /\ InTurn(c, Split(Tokens(c, batch)))
<1> DEFINE tokens == Tokens(c, batch)
           ubatches == Split(tokens)
<1>1. batch \in Seq((SUBSET Seqs) \ {{}})
  BY KvAssumption
<1>2. /\ tokens \in Seq(Tokens1) /\ Len(tokens) = Len(batch)
      /\ \A k \in DOMAIN tokens : tokens[k].seqs = batch[k]
      /\ Singles(batch) => Follow(c, tokens)
  BY <1>1, TokensAre
<1> HIDE DEF tokens
<1>3. Parts(ubatches, Ends(tokens), tokens)
  BY <1>2, SplitIs
<1> HIDE DEF ubatches
<1>4. ubatches \in Seq(Seq(Tokens1)) /\ DOMAIN ubatches = 1 .. Len(ubatches)
  BY <1>3, DomainOf DEF Parts
<1>5. \A k \in DOMAIN ubatches : ubatches[k] \in Seq(Tokens1) \ {<<>>}
  BY <1>3, <1>4, DomainOf DEF Parts
<1>6. ubatches \in Seq(Seq(Tokens1) \ {<<>>})
  <2> DEFINE T == Seq(Tokens1)
             U == Seq(Tokens1) \ {<<>>}
  <2>1. ubatches \in Seq(T) /\ \A k \in DOMAIN ubatches : ubatches[k] \in U
    BY <1>4, <1>5
  <2> HIDE DEF T, U
  <2>2. ubatches \in Seq(U)
    BY <2>1
  <2> QED
    BY <2>2 DEF U
<1>7. ASSUME Alone(use), NEW k \in DOMAIN ubatches, NEW x \in DOMAIN ubatches[k]
      PROVE  \E s \in Seqs : ubatches[k][x].seqs = {s}
  <2>1. \E y \in DOMAIN tokens : ubatches[k][x] = tokens[y]
    BY <1>3 DEF Parts
  <2>3. PICK y \in DOMAIN tokens : ubatches[k][x] = tokens[y]
    BY <2>1
  <2>2. y \in DOMAIN batch
    BY <1>1, <1>2, DomainOf
  <2> QED
    BY <1>2, <1>7, <2>2, <2>3 DEF Alone
<1>8. Alone(use) => Singles(batch)
  BY DEF Alone, Singles
<1>9. Alone(use) => InTurn(c, ubatches)
  BY <1>2, <1>3, <1>8, PartsInTurn
<1> QED
  BY <1>2, <1>3, <1>6, <1>7, <1>9 DEF tokens, ubatches, Single

\* The cells and their keys.
Both(m) ==
  /\ Good(m.cells) /\ m.keys \in [Cell -> Int] /\ m = [cells |-> m.cells, keys |-> m.keys]
  /\ Plain(use) => Fine(m.cells, m.keys)
Unmoved(c, d) == d.pos = c.pos /\ d.seq = c.seq

LEMMA UpdateKeeps ==
  ASSUME use \in Uses, NEW m, Both(m), NEW outcome \in Outcomes
  PROVE  Both(Update(m, outcome)) /\ Unmoved(m.cells, Update(m, outcome).cells)
<1> DEFINE c == m.cells
           d == [c EXCEPT !.shift = [i \in Cell |-> 0], !.has_shift = FALSE]
           keys == [i \in Cell |-> IF m.keys[i] = Spoilt THEN Spoilt ELSE m.keys[i] + c.shift[i]]
           spoilt == [i \in Cell |-> IF c.shift[i] # 0 THEN Spoilt ELSE m.keys[i]]
<1>1. Good(c) /\ c \in Cells /\ m.keys \in [Cell -> Int] /\ (Plain(use) => Fine(c, m.keys))
  BY DEF Both, Good, Sound
<1>2. CASE ~ (c.has_shift /\ outcome \in {"done", "half"})
  <2>1. Update(m, outcome) = m
    BY <1>2 DEF Update, Outcomes
  <2> QED
    BY <2>1 DEF Unmoved
<1>3. CASE c.has_shift /\ outcome = "done"
  <2>1. Update(m, outcome) = [cells |-> d, keys |-> keys]
    BY <1>3 DEF Update
  <2>2. /\ keys \in [Cell -> Int]
        /\ \A i \in Cell : keys[i] # Spoilt => m.keys[i] # Spoilt /\ keys[i] = m.keys[i] + c.shift[i]
    BY <1>1 DEF Cells, Spoilt
  <2> HIDE DEF c, keys
  <2>3. /\ d \in Cells /\ d.pos = c.pos /\ d.seq = c.seq /\ d.used = c.used /\ d.seq_pos = c.seq_pos
        /\ \A j \in Cell : d.shift[j] = 0
    <3> DEFINE none == [i \in Cell |-> 0]
    <3>1. none \in [Cell -> Int] /\ \A j \in Cell : none[j] = 0
      OBVIOUS
    <3>2. d = [c EXCEPT !.shift = none, !.has_shift = FALSE]
      OBVIOUS
    <3> HIDE DEF none, d
    <3>3. d.shift = none /\ d.pos = c.pos /\ d.seq = c.seq /\ d.used = c.used /\ d.seq_pos = c.seq_pos
      BY <1>1, <3>2 DEF Cells
    <3>4. d \in Cells
      BY <1>1, <3>1, <3>2 DEF Cells
    <3> QED
      BY <3>1, <3>3, <3>4
  <2> HIDE DEF d
  <2>4. Counts(d)
    BY <1>1, <2>3 DEF Good, Sound, Counts, CountsBut, Holding
  <2>5. Good(d)
    BY <1>1, <2>3, <2>4 DEF Good, Sound, Whole
  <2>6. ASSUME Plain(use) PROVE Fine(d, keys)
    <3>1. Calm(d)
      BY <2>3 DEF Calm
    <3>2. Keyed(d, keys)
      <4> SUFFICES ASSUME NEW i \in Cell, d.pos[i] # None, keys[i] # Spoilt
                   PROVE  keys[i] + d.shift[i] = d.pos[i]
        BY DEF Keyed
      <4>1. m.keys[i] + c.shift[i] = c.pos[i]
        BY <1>1, <2>2, <2>3, <2>6 DEF Fine, Keyed
      <4>2. keys[i] = c.pos[i] /\ d.pos[i] = c.pos[i] /\ d.shift[i] = 0
        BY <2>2, <2>3, <4>1
      <4>3. keys[i] \in Int
        BY <2>2
      <4> QED
        BY <4>2, <4>3
    <3> QED
      BY <3>1, <3>2 DEF Fine
  <2>7. Both([cells |-> d, keys |-> keys])
    BY <2>2, <2>5, <2>6 DEF Both
  <2> QED
    BY <2>1, <2>3, <2>7 DEF Unmoved, c
<1>4. CASE c.has_shift /\ outcome = "half"
  <2>1. Update(m, outcome) = [cells |-> c, keys |-> spoilt]
    BY <1>4 DEF Update, Both
  <2>2. /\ spoilt \in [Cell -> Int]
        /\ \A i \in Cell : spoilt[i] # Spoilt => spoilt[i] = m.keys[i]
    BY <1>1 DEF Cells, Spoilt
  <2> HIDE DEF c, spoilt
  <2>3. Plain(use) => Fine(c, spoilt)
    BY <1>1, <2>2 DEF Fine, Keyed
  <2>4. Both([cells |-> c, keys |-> spoilt])
    BY <1>1, <2>2, <2>3 DEF Both
  <2> QED
    BY <2>1, <2>4 DEF Unmoved, c
<1> QED
  BY <1>2, <1>3, <1>4

\* To look for slots leaves the keys where they are.
LEMMA SlottedKeeps ==
  ASSUME use \in Uses, NEW m, Both(m), NEW ubatches, NEW p, Slotted(m.cells, ubatches, p)
  PROVE  Both([cells |-> p.cells, keys |-> m.keys])
<1> DEFINE c == m.cells
           d == p.cells
<1>1. Good(d) /\ m.keys \in [Cell -> Int] /\ (Plain(use) => Fine(c, m.keys))
  BY DEF Both, Slotted
<1>2. ASSUME Plain(use) PROVE Fine(d, m.keys)
  <2>1. Keyed(c, m.keys) /\ Calm(c)
    BY <1>1, <1>2 DEF Fine
  <2>2. \A j \in Cell : d.shift[j] = c.shift[j] /\ (d.pos[j] = c.pos[j] \/ d.pos[j] = None)
    BY <2>1 DEF Slotted
  <2>3. use.swa = 0 => \A j \in Cell : d.pos[j] = c.pos[j]
    BY DEF Slotted
  <2>4. Keyed(d, m.keys)
    BY <2>1, <2>2 DEF Keyed
  <2>5. use.swa = 0 \/ use.swa > 0
    BY CellTypes
  <2>6. Calm(d)
    BY <2>1, <2>2, <2>3, <2>5 DEF Calm
  <2> QED
    BY <2>4, <2>6 DEF Fine
<1> QED
  BY <1>1, <1>2 DEF Both

LEMMA FineStays ==
  ASSUME NEW c, NEW keys, Both([cells |-> c, keys |-> keys])
  PROVE  /\ Good(c) /\ UsedOf(c, keys) \in [Cell -> Int]
         /\ Plain(use) => Fine(c, UsedOf(c, keys))
<1>1. Good(c) /\ keys \in [Cell -> Int] /\ (Plain(use) => Fine(c, keys))
  BY DEF Both
<1>2. /\ UsedOf(c, keys) \in [Cell -> Int]
      /\ \A i \in Cell : c.pos[i] # None => UsedOf(c, keys)[i] = keys[i]
  BY <1>1, UsedTypes
<1> QED
  BY <1>1, <1>2 DEF Fine, Keyed

Works(ubatches, slots) == [k \in DOMAIN ubatches |-> [idxs |-> slots[k], tokens |-> ubatches[k]]]

LEMMA WorkWaits ==
  ASSUME use \in Uses, NEW c, NEW ubatches \in Seq(Seq(Tokens1) \ {<<>>}), NEW p,
         Slotted(c, ubatches, p), p.fits, Alone(use) => Single(ubatches)
  PROVE  /\ Queue(Works(ubatches, p.slots))
         /\ Alone(use) => Waits(p.cells, Works(ubatches, p.slots))
<1> DEFINE work == Works(ubatches, p.slots)
<1>1. DOMAIN ubatches = 1 .. Len(ubatches) /\ Len(ubatches) \in Nat
  BY DomainOf
<1>2. /\ DOMAIN work = DOMAIN ubatches
      /\ \A k \in DOMAIN ubatches : work[k] = [idxs |-> p.slots[k], tokens |-> ubatches[k]]
  BY DEF Works
<1>3. \A k \in DOMAIN ubatches : work[k].idxs = p.slots[k] /\ work[k].tokens = ubatches[k]
  <2> SUFFICES ASSUME NEW k \in DOMAIN ubatches
               PROVE  work[k].idxs = p.slots[k] /\ work[k].tokens = ubatches[k]
    OBVIOUS
  <2>1. work[k] = [idxs |-> p.slots[k], tokens |-> ubatches[k]]
    BY <1>2
  <2> HIDE DEF work
  <2> QED
    BY ONLY <2>1
<1>4. \A k \in DOMAIN ubatches : Fits(p.slots[k], ubatches[k]) /\ IsInjective(p.slots[k])
  BY DEF Slotted
<1>5. work = [k \in 1 .. Len(ubatches) |-> work[k]]
  BY <1>1 DEF Works
<1> HIDE DEF work
<1>6. \A k \in 1 .. Len(ubatches) : work[k] \in [idxs : Seq(Cell), tokens : Seq(Tokens1)]
  BY <1>1, <1>2, <1>4 DEF Fits
<1>7. work \in Seq([idxs : Seq(Cell), tokens : Seq(Tokens1)])
  <2> DEFINE T == [idxs : Seq(Cell), tokens : Seq(Tokens1)]
             n == Len(ubatches)
  <2>1. n \in Nat /\ work = [k \in 1 .. n |-> work[k]] /\ \A k \in 1 .. n : work[k] \in T
    BY <1>1, <1>5, <1>6
  <2> HIDE DEF T, n
  <2>2. work \in Seq(T)
    BY ONLY <2>1
  <2> QED
    BY <2>2 DEF T
<1>8. Queue(work)
  BY <1>2, <1>3, <1>4, <1>7 DEF Queue
<1>9. ASSUME Alone(use) PROVE Waits(p.cells, work)
  <2>1. \A k \in DOMAIN work : \A x \in DOMAIN work[k].tokens : \E s \in Seqs : work[k].tokens[x].seqs = {s}
    <3> SUFFICES ASSUME NEW k \in DOMAIN work, NEW x \in DOMAIN work[k].tokens
                 PROVE  \E s \in Seqs : work[k].tokens[x].seqs = {s}
      OBVIOUS
    <3>1. k \in DOMAIN ubatches
      BY <1>2
    <3>2. work[k].tokens = ubatches[k]
      BY <1>3, <3>1
    <3>3. x \in DOMAIN ubatches[k]
      BY <3>2
    <3>4. \E s \in Seqs : ubatches[k][x].seqs = {s}
      BY <1>9, <3>1, <3>3 DEF Single
    <3> QED
      BY <3>2, <3>4
  <2>2. ASSUME use.swa = 0
        PROVE  /\ \A k \in DOMAIN work : \A x \in DOMAIN work[k].idxs : p.cells.pos[work[k].idxs[x]] = None
               /\ \A k, l \in DOMAIN work : k # l => Range(work[k].idxs) \cap Range(work[l].idxs) = {}
    <3>1. \A j \in Cell : p.cells.pos[j] = c.pos[j]
      BY <2>2 DEF Slotted
    <3>2. ASSUME NEW k \in DOMAIN ubatches, NEW x \in DOMAIN p.slots[k] PROVE p.cells.pos[p.slots[k][x]] = None
      <4>1. p.slots[k][x] \in Cell
        BY <1>4, DomainOf DEF Fits
      <4>2. c.pos[p.slots[k][x]] = None
        BY <2>2 DEF Slotted
      <4> QED
        BY <3>1, <4>1, <4>2
    <3>3. \A k, l \in DOMAIN ubatches : k # l => Range(p.slots[k]) \cap Range(p.slots[l]) = {}
      BY <2>2 DEF Slotted
    <3>4. ASSUME NEW k \in DOMAIN work, NEW x \in DOMAIN work[k].idxs
          PROVE  p.cells.pos[work[k].idxs[x]] = None
      <4>1. k \in DOMAIN ubatches
        BY <1>2
      <4>2. work[k].idxs = p.slots[k]
        BY <1>3, <4>1
      <4>3. x \in DOMAIN p.slots[k]
        BY <4>2
      <4>4. p.cells.pos[p.slots[k][x]] = None
        BY <3>2, <4>1, <4>3
      <4> QED
        BY <4>2, <4>4
    <3>5. ASSUME NEW k \in DOMAIN work, NEW l \in DOMAIN work, k # l
          PROVE  Range(work[k].idxs) \cap Range(work[l].idxs) = {}
      <4>1. k \in DOMAIN ubatches /\ l \in DOMAIN ubatches
        BY <1>2
      <4>2. work[k].idxs = p.slots[k] /\ work[l].idxs = p.slots[l]
        BY <1>3, <4>1
      <4> QED
        BY <3>3, <3>5, <4>1, <4>2
    <3> QED
      BY <3>4, <3>5
  <2> QED
    BY <2>1, <2>2 DEF Waits
<1> QED
  BY <1>8, <1>9 DEF work

Alike(c, d) == \A j \in Cell : d.pos[j] = c.pos[j] /\ d.seq[j] = c.seq[j]

LEMMA WorkAhead ==
  ASSUME NEW c, NEW d, Alike(c, d), NEW ubatches, NEW slots, InTurn(c, ubatches)
  PROVE  Ahead(d, Works(ubatches, slots))
<1> DEFINE work == Works(ubatches, slots)
<1>1. /\ DOMAIN work = DOMAIN ubatches
      /\ \A k \in DOMAIN ubatches : work[k] = [idxs |-> slots[k], tokens |-> ubatches[k]]
  BY DEF Works
<1>2. \A k \in DOMAIN ubatches : work[k].tokens = ubatches[k]
  <2> SUFFICES ASSUME NEW k \in DOMAIN ubatches PROVE work[k].tokens = ubatches[k]
    OBVIOUS
  <2>1. work[k] = [idxs |-> slots[k], tokens |-> ubatches[k]]
    BY <1>1
  <2> HIDE DEF work
  <2> QED
    BY ONLY <2>1
<1> HIDE DEF work
<1>3. ASSUME NEW k \in DOMAIN ubatches PROVE Behind(d, ubatches[k])
  BY DEF InTurn, Behind, Alike
<1>4. \A k \in DOMAIN work : Behind(d, work[k].tokens)
  BY <1>1, <1>2, <1>3
<1>5. \A k, l \in DOMAIN work : k < l => Sooner(work[k].tokens, work[l].tokens)
  BY <1>1, <1>2 DEF InTurn
<1> QED
  BY <1>4, <1>5 DEF work, Ahead

\* What the searches and shifts of a decode leave of the cells, without a window.
LEMMA AlikeOnes ==
  ASSUME NEW c, NEW d
  PROVE  /\ Unmoved(c, d) => Alike(c, d)
         /\ \A ubatches, p : Slotted(c, ubatches, p) /\ use.swa = 0 => Alike(c, p.cells)
         /\ \A e : Alike(c, d) /\ Alike(d, e) => Alike(c, e)
BY DEF Alike, Unmoved, Slotted

LEMMA DecodeKeeps ==
  ASSUME use \in Uses, State(kv, K, todo, ret), NEW batch \in use.batches,
         NEW first \in Outcomes, NEW second \in Outcomes, Decode(batch, first, second)
  PROVE  use' = use /\ State(kv', K', todo', ret') /\ (use.swa = 0 => Alike(kv, kv'))
<1> DEFINE ubatches == Split(Tokens(kv, batch))
           m0 == [cells |-> kv, keys |-> K]
           m1 == Update(m0, first)
           p1 == Prepare(m1.cells, ubatches)
           again == ~p1.fits /\ m1.cells.has_shift
           n1 == [m1 EXCEPT !.cells = p1.cells]
           m2 == Update(n1, second)
           p2 == Prepare(m2.cells, ubatches)
           m == IF again THEN m2 ELSE m1
           p == IF again THEN p2 ELSE p1
<1>1. /\ kv' = p.cells /\ K' = UsedOf(p.cells, m.keys) /\ use' = use
      /\ ret' = (IF p.fits THEN "" ELSE "no slot")
      /\ todo' = (IF ~p.fits THEN <<>> ELSE Works(ubatches, p.slots))
  <2>1. /\ use' = use
        /\ \E x \in {m1} : \E y \in {Prepare(x.cells, ubatches)} :
             IF ~y.fits /\ x.cells.has_shift
             THEN \E z \in {Update([x EXCEPT !.cells = y.cells], second)} :
                    Planned(z, Prepare(z.cells, ubatches), ubatches)
             ELSE Planned(x, y, ubatches)
    BY Zenon DEF Decode
  <2> HIDE DEF m1, ubatches
  <2>2. IF again THEN Planned(m2, p2, ubatches) ELSE Planned(m1, p1, ubatches)
    BY <2>1, Zenon
  <2>3. Planned(m, p, ubatches)
    BY <2>2, Zenon
  <2>4. use' = use
    BY <2>1, Zenon
  <2> HIDE DEF n1, m2, p2, m, p
  <2> QED
    BY <2>3, <2>4 DEF Planned, UsedOf, Works
<1>2. Good(kv) /\ Accepted(kv, batch)
  <2>1. Accepted(kv, batch)
    BY Zenon DEF Decode
  <2> QED
    BY <2>1 DEF State
<1>3. /\ ubatches \in Seq(Seq(Tokens1) \ {<<>>})
      /\ Alone(use) => Single(ubatches) /\ InTurn(kv, ubatches)
  BY <1>2, BatchSplits
<1>4. Both(m0) /\ m0.cells = kv
  BY DEF State, Goes, Both
<1>5. Both(m1) /\ Unmoved(kv, m1.cells)
  BY <1>4, UpdateKeeps
<1> HIDE DEF ubatches, m0, m1
<1>6. Slotted(m1.cells, ubatches, p1)
  BY <1>3, <1>5, PrepareSlots DEF Both
<1>7. n1 = [cells |-> p1.cells, keys |-> m1.keys] /\ n1.cells = p1.cells
  BY <1>5 DEF Both
<1> HIDE DEF p1, n1
<1>8. Both(n1)
  BY <1>5, <1>6, <1>7, SlottedKeeps
<1>9. Both(m2) /\ Unmoved(p1.cells, m2.cells)
  BY <1>7, <1>8, UpdateKeeps
<1> HIDE DEF m2
<1>10. Slotted(m2.cells, ubatches, p2)
  BY <1>3, <1>9, PrepareSlots DEF Both
<1> HIDE DEF p2
<1>11. Both(m) /\ Slotted(m.cells, ubatches, p)
  <2>1. CASE again
    BY <1>9, <1>10, <2>1
  <2>2. CASE ~ again
    BY <1>5, <1>6, <2>2
  <2> QED
    BY <2>1, <2>2
<1>16. use.swa = 0 => Alike(kv, p.cells)
  <2> SUFFICES ASSUME use.swa = 0 PROVE Alike(kv, p.cells)
    OBVIOUS
  <2>1. Alike(kv, m1.cells) /\ Alike(m1.cells, p1.cells)
    BY <1>5, <1>6, AlikeOnes
  <2>2. Alike(p1.cells, m2.cells) /\ Alike(m2.cells, p2.cells)
    BY <1>9, <1>10, AlikeOnes
  <2>3. Alike(kv, p1.cells)
    BY <2>1 DEF Alike
  <2>4. Alike(kv, p2.cells)
    BY <2>2, <2>3 DEF Alike
  <2> QED
    BY <2>3, <2>4
<1> HIDE DEF again, m, p
<1>12. Both([cells |-> p.cells, keys |-> m.keys])
  BY <1>11, SlottedKeeps
<1>13. /\ Good(p.cells) /\ UsedOf(p.cells, m.keys) \in [Cell -> Int]
       /\ Plain(use) => Fine(p.cells, UsedOf(p.cells, m.keys))
  BY <1>12, FineStays
<1>14. CASE p.fits
  <2>1. Queue(Works(ubatches, p.slots)) /\ (Alone(use) => Waits(p.cells, Works(ubatches, p.slots)))
    BY <1>3, <1>11, <1>14, WorkWaits
  <2>3. Alone(use) /\ use.swa = 0 => Ahead(p.cells, Works(ubatches, p.slots))
    BY <1>3, <1>16, WorkAhead
  <2>2. State(p.cells, UsedOf(p.cells, m.keys), Works(ubatches, p.slots), "")
    BY <1>13, <2>1, <2>3 DEF State, Goes
  <2> QED
    BY <1>1, <1>14, <1>16, <2>2
<1>15. CASE ~ p.fits
  <2>1. State(p.cells, UsedOf(p.cells, m.keys), <<>>, "no slot")
    BY <1>13, NoWork DEF State, Goes
  <2> QED
    BY <1>1, <1>15, <1>16, <2>1
<1> QED
  BY <1>14, <1>15

LEMMA HeadOf ==
  ASSUME NEW work, Queue(work), work # <<>>
  PROVE  /\ Fits(Head(work).idxs, Head(work).tokens) /\ IsInjective(Head(work).idxs)
         /\ Queue(Tail(work))
         /\ 1 \in DOMAIN work /\ Head(work) = work[1]
         /\ \A k \in DOMAIN Tail(work) : k + 1 \in DOMAIN work /\ k + 1 # 1 /\ Tail(work)[k] = work[k + 1]
<1> DEFINE T == [idxs : Seq(Cell), tokens : Seq(Tokens1)]
<1>1. work \in Seq(T) /\ work # <<>>
  BY DEF Queue
<1>2. \A k \in DOMAIN work : Fits(work[k].idxs, work[k].tokens) /\ IsInjective(work[k].idxs)
  BY DEF Queue
<1> HIDE DEF T
<1>3. /\ 1 \in DOMAIN work /\ Head(work) = work[1] /\ Tail(work) \in Seq(T)
      /\ \A k \in DOMAIN Tail(work) : k + 1 \in DOMAIN work /\ k + 1 # 1 /\ Tail(work)[k] = work[k + 1]
  BY ONLY <1>1
<1>4. ASSUME NEW k \in DOMAIN Tail(work)
      PROVE  Fits(Tail(work)[k].idxs, Tail(work)[k].tokens) /\ IsInjective(Tail(work)[k].idxs)
  <2>1. k + 1 \in DOMAIN work /\ Tail(work)[k] = work[k + 1]
    BY <1>3
  <2> QED
    BY <1>2, <2>1
<1>5. Queue(Tail(work))
  BY <1>3, <1>4 DEF Queue, T
<1>6. Fits(Head(work).idxs, Head(work).tokens) /\ IsInjective(Head(work).idxs)
  BY <1>2, <1>3
<1> QED
  BY <1>3, <1>5, <1>6

\* The keys after a ubatch got its slot, before its graph is computed.
LEMMA AppliedFine ==
  ASSUME use \in Uses, NEW c, NEW keys, Fine(c, keys), NEW idxs, NEW tokens, Fits(idxs, tokens),
         NEW d, Applied(c, d, idxs, tokens),
         use.swa = 0 => \A x \in DOMAIN idxs : c.pos[idxs[x]] = None
  PROVE  /\ Calm(d)
         /\ \A j \in Cell : d.pos[j] # None =>
              /\ j \in Range(idxs) => d.shift[j] = 0
              /\ j \notin Range(idxs) /\ keys[j] # Spoilt => keys[j] + d.shift[j] = d.pos[j]
<1>1. Keyed(c, keys) /\ Calm(c)
  BY DEF Fine
<1>2. use.swa = 0 \/ use.swa > 0
  BY CellTypes
<1>3. ASSUME NEW j \in Cell
      PROVE  /\ d.pos[j] = None => d.shift[j] = 0
             /\ use.swa > 0 => d.shift[j] = 0
             /\ d.pos[j] # None => /\ j \in Range(idxs) => d.shift[j] = 0
                                   /\ j \notin Range(idxs) /\ keys[j] # Spoilt
                                      => keys[j] + d.shift[j] = d.pos[j]
  <2>1. c.pos[j] = None => c.shift[j] = 0
    BY <1>1 DEF Calm
  <2>2. c.pos[j] # None /\ keys[j] # Spoilt => keys[j] + c.shift[j] = c.pos[j]
    BY <1>1 DEF Keyed
  <2>3. j \in Range(idxs) <=> \E k \in DOMAIN idxs : idxs[k] = j
    BY DEF Range
  <2>4. CASE use.swa > 0
    <3>1. c.shift[j] = 0
      BY <1>1, <2>4 DEF Calm
    <3>2. AppliedCell(c, d, idxs, tokens, j)
      BY DEF Applied
    <3> QED
      BY <2>2, <2>3, <3>1, <3>2 DEF AppliedCell
  <2>5. CASE use.swa = 0
    <3>1. FilledCell(c, d, idxs, tokens, DOMAIN idxs, j)
      BY <2>5 DEF Applied
    <3>2. j \in Range(idxs) => c.pos[j] = None
      BY <2>3, <2>5
    <3>3. ASSUME j \notin Range(idxs)
          PROVE  d.pos[j] = c.pos[j] /\ d.shift[j] = c.shift[j]
      BY <2>3, <3>1, <3>3 DEF FilledCell
    <3>4. j \in Range(idxs) => d.shift[j] = 0
      BY <2>1, <3>1, <3>2 DEF FilledCell
    <3>5. ~ (use.swa > 0)
      BY <2>5
    <3> QED
      BY <2>1, <2>2, <3>3, <3>4, <3>5
  <2> QED
    BY <1>2, <2>4, <2>5
<1> QED
  BY <1>3 DEF Calm

\* When the graph of tokens of one sequence each failed, none of them is left.
LEMMA DropDrops ==
  ASSUME use \in Uses, NEW b, NEW idxs, NEW tokens, Fits(idxs, tokens), NEW c, Applied(b, c, idxs, tokens),
         \A x \in DOMAIN tokens : \E s \in Seqs : tokens[x].seqs = {s},
         NEW S, \A s \in Seqs : First(tokens, s) # {} => s \in S,
         NEW d, Dropped(c, d, tokens, S)
  PROVE  \A j \in Range(idxs) : d.pos[j] = None
<1> SUFFICES ASSUME NEW j \in Range(idxs), c.pos[j] # None PROVE d.pos[j] = None
  <2>1. Range(idxs) \subseteq Cell
    BY DomainOf DEF Range, Fits
  <2> QED
    BY <2>1 DEF Dropped, Fewer
<1>1. j \in Cell
  BY DomainOf DEF Range, Fits
<1>2. PICK k \in DOMAIN idxs : c.pos[j] = tokens[k].pos /\ c.seq[j] \subseteq tokens[k].seqs
  BY <1>1 DEF Applied, AppliedCell
<1>3. k \in DOMAIN tokens /\ tokens[k] \in Tokens1
  BY DomainOf DEF Fits
<1>4. PICK s \in Seqs : tokens[k].seqs = {s}
  BY <1>3
<1>5. Good(c)
  BY DEF Applied
<1>6. c.seq[j] # {}
  BY <1>1, <1>5 DEF Good, Whole
<1>7. c.seq[j] = {s}
  BY <1>2, <1>4, <1>6
<1>8. Min({s}) = s
  <2>1. {s} \subseteq Nat /\ {s} # {}
    BY CellTypes
  <2>2. Min({s}) \in {s}
    BY <2>1, MinIs
  <2> QED
    BY <2>2
<1>9. tokens[k].pos \in First(tokens, s)
  BY <1>3, <1>4, <1>8 DEF First
<1>10. First(tokens, s) \subseteq Nat
  <2> SUFFICES ASSUME NEW x \in DOMAIN tokens PROVE tokens[x].pos \in Nat
    BY DEF First
  <2>1. tokens[x] \in Tokens1
    BY DomainOf DEF Fits
  <2> QED
    BY <2>1, CellTypes DEF Tokens1
<1>11. Min(First(tokens, s)) \in Nat /\ Min(First(tokens, s)) <= tokens[k].pos
  BY <1>9, <1>10, MinIs
<1>12. c.pos[j] \in Pos /\ c.pos[j] \in Nat /\ c.pos[j] <= use.last
  BY <1>2, <1>3, CellTypes DEF Tokens1, Pos
<1>13. PosIn(c, j, Min(First(tokens, s)), use.last + 1)
  BY <1>2, <1>11, <1>12, CellTypes DEF PosIn
<1> QED
  BY <1>1, <1>7, <1>9, <1>13 DEF Dropped

\* After a ubatch got its slot: the cells, and the others that still wait.
Given(work, c) ==
  /\ Applied(kv, c, Head(work).idxs, Head(work).tokens)
  /\ c = ApplyUbatch(kv, Head(work).idxs, Head(work).tokens)

LEMMA TailWaits ==
  ASSUME use \in Uses, NEW work, Queue(work), work # <<>>, Waits(kv, work), NEW c, Given(work, c)
  PROVE  Waits(c, Tail(work))
<1> DEFINE rest == Tail(work)
<1>1. \A k \in DOMAIN rest : k + 1 \in DOMAIN work /\ k + 1 # 1 /\ rest[k] = work[k + 1]
  BY HeadOf
<1>2. 1 \in DOMAIN work /\ Head(work) = work[1] /\ Queue(rest)
  BY HeadOf
<1> HIDE DEF rest
<1>3. ASSUME NEW k \in DOMAIN rest, NEW x \in DOMAIN rest[k].tokens
      PROVE  \E s \in Seqs : rest[k].tokens[x].seqs = {s}
  <2>1. k + 1 \in DOMAIN work /\ x \in DOMAIN work[k + 1].tokens
    BY <1>1, <1>3
  <2>2. \E s \in Seqs : work[k + 1].tokens[x].seqs = {s}
    BY <2>1 DEF Waits
  <2> QED
    BY <1>1, <2>2
<1>4. ASSUME use.swa = 0, NEW k \in DOMAIN rest, NEW x \in DOMAIN rest[k].idxs
      PROVE  c.pos[rest[k].idxs[x]] = None
  <2> DEFINE j == rest[k].idxs[x]
             l == k + 1
  <2>1. l \in DOMAIN work /\ l # 1 /\ rest[k] = work[l] /\ x \in DOMAIN work[l].idxs
    BY <1>1, <1>4
  <2>2. kv.pos[work[l].idxs[x]] = None /\ Range(work[l].idxs) \cap Range(work[1].idxs) = {}
    BY <1>2, <1>4, <2>1 DEF Waits
  <2>3. j = work[l].idxs[x]
    BY <2>1
  <2> HIDE DEF l
  <2>4. j \in Range(work[l].idxs) /\ kv.pos[j] = None
    BY <2>1, <2>2, <2>3 DEF Range
  <2>5. j \in Cell
    <3>1. Fits(rest[k].idxs, rest[k].tokens)
      BY <1>2 DEF Queue
    <3> QED
      BY <1>4, <3>1, DomainOf DEF Fits
  <2>6. \A y \in DOMAIN work[1].idxs : kv.pos[work[1].idxs[y]] = None
    BY <1>2, <1>4 DEF Waits
  <2> HIDE DEF j
  <2>7. FilledCell(kv, c, work[1].idxs, work[1].tokens, DOMAIN work[1].idxs, j)
    BY <1>2, <2>5, <2>6 DEF Given, Applied
  <2>8. j \notin Range(work[1].idxs)
    BY <2>2, <2>4
  <2>9. \A y \in DOMAIN work[1].idxs : work[1].idxs[y] # j
    BY <2>8 DEF Range
  <2>10. c.pos[j] = kv.pos[j]
    BY <2>7, <2>9 DEF FilledCell
  <2> QED
    BY <2>4, <2>10 DEF j
<1>5. ASSUME use.swa = 0, NEW k \in DOMAIN rest, NEW l \in DOMAIN rest, k # l
      PROVE  Range(rest[k].idxs) \cap Range(rest[l].idxs) = {}
  <2>1. k \in Nat /\ l \in Nat
    BY <1>2, DomainOf DEF Queue
  <2>2. k + 1 # l + 1
    BY <1>5, <2>1
  <2>3. k + 1 \in DOMAIN work /\ l + 1 \in DOMAIN work /\ rest[k] = work[k + 1] /\ rest[l] = work[l + 1]
    BY <1>1
  <2>4. Range(work[k + 1].idxs) \cap Range(work[l + 1].idxs) = {}
    BY <1>5, <2>2, <2>3 DEF Waits
  <2> QED
    BY <2>3, <2>4
<1>6. Waits(c, rest)
  BY <1>3, <1>4, <1>5 DEF Waits
<1> QED
  BY <1>6 DEF rest

LEMMA TailAhead ==
  ASSUME use \in Uses, use.swa = 0, NEW work, Queue(work), work # <<>>, Waits(kv, work),
         Ahead(kv, work), NEW c, Given(work, c)
  PROVE  Ahead(c, Tail(work))
<1> DEFINE rest == Tail(work)
           idxs == work[1].idxs
           tokens == work[1].tokens
<1>1. \A k \in DOMAIN rest : k + 1 \in DOMAIN work /\ k + 1 # 1 /\ rest[k] = work[k + 1]
  BY HeadOf
<1>2. 1 \in DOMAIN work /\ Head(work) = work[1] /\ Queue(rest)
  BY HeadOf
<1>3. DOMAIN rest \subseteq Nat /\ DOMAIN work \subseteq Nat
  BY <1>2, DomainOf DEF Queue
<1>4. DOMAIN tokens = DOMAIN idxs
  <2>1. Fits(idxs, tokens)
    BY <1>2, HeadOf
  <2> QED
    BY <2>1, DomainOf DEF Fits
<1> HIDE DEF rest
<1>5. ASSUME NEW i \in Cell PROVE FilledCell(kv, c, idxs, tokens, DOMAIN idxs, i)
  <2>1. \A y \in DOMAIN idxs : kv.pos[idxs[y]] = None
    BY <1>2 DEF Waits
  <2> QED
    BY <1>2, <2>1 DEF Given, Applied
<1>6. ASSUME NEW k \in DOMAIN rest PROVE Behind(c, rest[k].tokens)
  <2> SUFFICES ASSUME NEW x \in DOMAIN rest[k].tokens, NEW s \in rest[k].tokens[x].seqs,
                      NEW i \in Cell, s \in c.seq[i]
               PROVE  c.pos[i] < rest[k].tokens[x].pos
    BY DEF Behind
  <2> DEFINE others == rest[k].tokens
             l == k + 1
  <2>1. l \in DOMAIN work /\ others = work[l].tokens /\ 1 < l
    BY <1>1, <1>3
  <2> HIDE DEF others, l
  <2>2. Behind(kv, others) /\ Sooner(tokens, others)
    BY <1>2, <2>1 DEF Ahead
  <2>3. x \in DOMAIN others /\ s \in others[x].seqs
    BY DEF others
  <2>4. CASE c.pos[i] = kv.pos[i] /\ c.seq[i] = kv.seq[i]
    BY <2>2, <2>3, <2>4 DEF Behind, others
  <2>5. ASSUME NEW y \in DOMAIN idxs, c.pos[i] = tokens[y].pos, c.seq[i] = tokens[y].seqs
        PROVE  c.pos[i] < others[x].pos
    BY <1>4, <2>2, <2>3, <2>5 DEF Sooner
  <2>6. FilledCell(kv, c, idxs, tokens, DOMAIN idxs, i)
    BY <1>5
  <2> QED
    BY <2>4, <2>5, <2>6 DEF FilledCell, others
<1>7. ASSUME NEW k \in DOMAIN rest, NEW l \in DOMAIN rest, k < l
      PROVE  Sooner(rest[k].tokens, rest[l].tokens)
  <2>1. k + 1 \in DOMAIN work /\ l + 1 \in DOMAIN work /\ k + 1 < l + 1
    BY <1>1, <1>3, <1>7
  <2>2. rest[k] = work[k + 1] /\ rest[l] = work[l + 1]
    BY <1>1
  <2>3. Sooner(work[k + 1].tokens, work[l + 1].tokens)
    BY <2>1 DEF Ahead
  <2> QED
    BY <2>2, <2>3
<1>8. Ahead(c, rest)
  BY <1>6, <1>7 DEF Ahead
<1> QED
  BY <1>8 DEF rest

LEMMA ProcessKeeps ==
  ASSUME use \in Uses, State(kv, K, todo, ret), NEW works, Process(works)
  PROVE  use' = use /\ State(kv', K', todo', ret')
<1> DEFINE idxs == Head(todo).idxs
           tokens == Head(todo).tokens
           c == ApplyUbatch(kv, idxs, tokens)
           S == {s \in Seqs : First(tokens, s) # {}}
           d == Drop(c, tokens, S)
<1>1. Queue(todo) /\ todo # <<>> /\ Good(kv) /\ K \in [Cell -> Int] /\ use' = use
  BY DEF State, Goes, Process
<1>2. Fits(idxs, tokens) /\ Queue(Tail(todo))
  BY <1>1, HeadOf
<1>3. Applied(kv, c, idxs, tokens)
  BY <1>1, <1>2, ApplyKeeps
<1>4. Given(todo, c)
  BY <1>3 DEF Given
<1>5. \A x \in DOMAIN idxs : idxs[x] \in Cell
  BY <1>2, DomainOf DEF Fits
<1>6. Good(c) /\ \A j \in Cell : c.pos[j] \in Int
  BY <1>3, CellTypes DEF Applied, Good, Sound, Cells
<1>7. ASSUME Alone(use)
      PROVE  /\ Waits(kv, todo)
             /\ \A x \in DOMAIN tokens : \E s \in Seqs : tokens[x].seqs = {s}
             /\ use.swa = 0 => \A x \in DOMAIN idxs : kv.pos[idxs[x]] = None
  <2>1. Waits(kv, todo)
    BY <1>7 DEF State, Goes
  <2>2. 1 \in DOMAIN todo /\ idxs = todo[1].idxs /\ tokens = todo[1].tokens
    BY <1>1, HeadOf
  <2> HIDE DEF idxs, tokens
  <2> QED
    BY <2>1, <2>2 DEF Waits
<1>8. CASE works
  <2> DEFINE keys == [i \in Cell |-> Used(c, i, IF i \in Range(idxs) THEN c.pos[i] ELSE K[i])]
  <2>1. kv' = c /\ K' = keys /\ todo' = Tail(todo) /\ ret' = (IF Len(todo) = 1 THEN "ok" ELSE "")
    BY <1>8 DEF Process
  <2> HIDE DEF idxs, tokens, c
  <2>2. keys \in [Cell -> Int]
    BY <1>1, <1>6, CellTypes DEF Used
  <2>9. ASSUME Alone(use) PROVE Waits(c, Tail(todo)) /\ (use.swa = 0 => Ahead(c, Tail(todo)))
    <3>1. Waits(c, Tail(todo))
      BY <1>1, <1>4, <1>7, <2>9, TailWaits
    <3>2. use.swa = 0 => Ahead(c, Tail(todo))
      BY <1>1, <1>4, <1>7, <2>9, TailAhead DEF State, Goes
    <3> QED
      BY <3>1, <3>2
  <2>3. ASSUME Plain(use) PROVE Fine(c, keys)
    <3>0. Alone(use) /\ Fine(kv, K)
      BY <2>3 DEF Plain, State, Goes
    <3>2. /\ Calm(c)
          /\ \A j \in Cell : c.pos[j] # None =>
               /\ j \in Range(idxs) => c.shift[j] = 0
               /\ j \notin Range(idxs) /\ K[j] # Spoilt => K[j] + c.shift[j] = c.pos[j]
      BY <1>2, <1>3, <1>7, <3>0, AppliedFine
    <3>3. Keyed(c, keys)
      <4> SUFFICES ASSUME NEW j \in Cell, c.pos[j] # None, keys[j] # Spoilt
                   PROVE  keys[j] + c.shift[j] = c.pos[j]
        BY DEF Keyed
      <4>1. CASE j \in Range(idxs)
        <5>1. keys[j] = c.pos[j] /\ c.shift[j] = 0
          BY <3>2, <4>1 DEF Used
        <5> QED
          BY <1>6, <5>1
      <4>2. CASE j \notin Range(idxs)
        <5>1. keys[j] = K[j]
          BY <4>2 DEF Used
        <5> QED
          BY <3>2, <4>2, <5>1
      <4> QED
        BY <4>1, <4>2
    <3> QED
      BY <3>2, <3>3 DEF Fine
  <2> HIDE DEF keys
  <2>4. State(c, keys, Tail(todo), IF Len(todo) = 1 THEN "ok" ELSE "")
    BY <1>2, <1>6, <2>2, <2>3, <2>9 DEF State, Goes
  <2> QED
    BY <1>1, <2>1, <2>4
<1>9. CASE ~ works
  <2> DEFINE keys == [i \in Cell |-> IF i \in Range(idxs) THEN None ELSE Used(d, i, K[i])]
  <2>1. kv' = d
    BY <1>9 DEF Process, Drop, First
  <2>2. K' = keys /\ todo' = <<>> /\ ret' = "failed"
    BY <1>9, <2>1 DEF Process
  <2>3. Dropped(c, d, tokens, S)
    <3>1. S \in SUBSET Seqs /\ use \in Uses
      OBVIOUS
    <3> HIDE DEF S, tokens, c
    <3> QED
      BY ONLY <1>6, <3>1, DropFold
  <2>4. S = {s \in Seqs : First(tokens, s) # {}}
    OBVIOUS
  <2> HIDE DEF idxs, tokens, c, d, S
  <2>5. keys \in [Cell -> Int]
    BY <1>1, CellTypes DEF Used
  <2>6. Good(d)
    BY <2>3 DEF Dropped, Fewer
  <2>7. ASSUME Plain(use) PROVE Fine(d, keys)
    <3>0. Alone(use) /\ Fine(kv, K)
      BY <2>7 DEF Plain, State, Goes
    <3>1. /\ Calm(c)
          /\ \A j \in Cell : c.pos[j] # None =>
               /\ j \in Range(idxs) => c.shift[j] = 0
               /\ j \notin Range(idxs) /\ K[j] # Spoilt => K[j] + c.shift[j] = c.pos[j]
      BY <1>2, <1>3, <1>7, <3>0, AppliedFine
    <3>2. \A j \in Range(idxs) : d.pos[j] = None
      <4>1. \A s \in Seqs : First(tokens, s) # {} => s \in S
        BY <2>4
      <4>2. \A x \in DOMAIN tokens : \E s \in Seqs : tokens[x].seqs = {s}
        BY <1>7, <3>0
      <4>3. use \in Uses
        OBVIOUS
      <4> QED
        BY ONLY <1>2, <1>3, <2>3, <4>1, <4>2, <4>3, DropDrops
    <3>3. \A j \in Cell : \/ d.pos[j] = c.pos[j] /\ d.shift[j] = c.shift[j]
                          \/ d.pos[j] = None /\ d.shift[j] = 0
      BY <2>3 DEF Dropped, Fewer
    <3>4. Calm(d)
      BY <3>1, <3>3 DEF Calm
    <3>5. Keyed(d, keys)
      <4> SUFFICES ASSUME NEW j \in Cell, d.pos[j] # None, keys[j] # Spoilt
                   PROVE  keys[j] + d.shift[j] = d.pos[j]
        BY DEF Keyed
      <4>1. j \notin Range(idxs)
        BY <3>2
      <4>2. keys[j] = K[j]
        BY <4>1 DEF Used
      <4> QED
        BY <3>1, <3>3, <4>1, <4>2
    <3> QED
      BY <3>4, <3>5 DEF Fine
  <2> HIDE DEF keys
  <2>8. State(d, keys, <<>>, "failed")
    BY <2>5, <2>6, <2>7, NoWork DEF State, Goes
  <2> QED
    BY <1>1, <2>1, <2>2, <2>8
<1>10. works \/ ~ works
  OBVIOUS
<1> QED
  BY <1>8, <1>9, <1>10

-----------------------------------------------------------------------------
(* What the cells hold.                                                    *)

HeldAs(c, t) == {i \in Cell : c.pos[i] = t[1] /\ c.seq[i] = t[2]}
ContentOf(c) == [t \in Token |-> Cardinality(HeldAs(c, t))]
GivenAs(tokens, t) == {k \in DOMAIN tokens : tokens[k].pos = t[1] /\ tokens[k].seqs = t[2]}

LEMMA AlikeContent == ASSUME NEW c, NEW d, Alike(c, d) PROVE ContentOf(d) = ContentOf(c)
<1>1. \A t \in Token : HeldAs(d, t) = HeldAs(c, t)
  BY DEF HeldAs, Alike
<1> QED
  BY <1>1 DEF ContentOf

\* d is c with the tokens in the empty cells of their slot.
SlotFilled(c, d, idxs, tokens) ==
  /\ Fits(idxs, tokens) /\ IsInjective(idxs)
  /\ \A x \in DOMAIN idxs : c.pos[idxs[x]] = None
  /\ \A j \in Cell : FilledCell(c, d, idxs, tokens, DOMAIN idxs, j)

LEMMA FillAdds ==
  ASSUME use \in Uses, NEW c, NEW d, NEW idxs, NEW tokens, SlotFilled(c, d, idxs, tokens),
         NEW t \in Token
  PROVE  Cardinality(HeldAs(d, t)) = Cardinality(HeldAs(c, t)) + Cardinality(GivenAs(tokens, t))
<1> DEFINE A == HeldAs(c, t)
           B == GivenAs(tokens, t)
           C == {j \in Cell : \E k \in B : idxs[k] = j}
           f == [k \in B |-> idxs[k]]
<1>0. /\ Fits(idxs, tokens) /\ IsInjective(idxs)
      /\ \A x \in DOMAIN idxs : c.pos[idxs[x]] = None
      /\ \A j \in Cell : FilledCell(c, d, idxs, tokens, DOMAIN idxs, j)
  BY DEF SlotFilled
<1>1. /\ DOMAIN idxs = DOMAIN tokens /\ IsFiniteSet(DOMAIN tokens)
      /\ \A k \in DOMAIN idxs : idxs[k] \in Cell
  BY <1>0, DomainOf DEF Fits
<1>2. t[1] # None
  BY CellTypes DEF Token
<1>3. \A k \in B : k \in DOMAIN idxs /\ idxs[k] \in Cell /\ tokens[k].pos = t[1] /\ tokens[k].seqs = t[2]
  BY <1>1 DEF GivenAs
<1>4. \A k, l \in DOMAIN idxs : idxs[k] = idxs[l] => k = l
  BY <1>0 DEF IsInjective
<1>5. HeldAs(d, t) = A \cup C
  <2> SUFFICES ASSUME NEW j \in Cell PROVE j \in HeldAs(d, t) <=> j \in A \/ j \in C
    BY DEF HeldAs
  <2>1. FilledCell(c, d, idxs, tokens, DOMAIN idxs, j)
    BY <1>0
  <2>2. CASE \A k \in DOMAIN idxs : idxs[k] # j
    <3>1. d.pos[j] = c.pos[j] /\ d.seq[j] = c.seq[j]
      BY <2>1, <2>2 DEF FilledCell
    <3>2. j \notin C
      BY <1>3, <2>2
    <3> QED
      BY <3>1, <3>2 DEF HeldAs
  <2>3. ASSUME NEW k \in DOMAIN idxs, idxs[k] = j
        PROVE  j \in HeldAs(d, t) <=> j \in A \/ j \in C
    <3>1. PICK l \in DOMAIN idxs : idxs[l] = j /\ d.pos[j] = tokens[l].pos /\ d.seq[j] = tokens[l].seqs
      BY <2>1, <2>3 DEF FilledCell
    <3>2. l = k
      BY <1>4, <2>3, <3>1
    <3>3. j \notin A
      BY <1>0, <1>2, <2>3 DEF HeldAs
    <3>4. j \in C <=> k \in B
      BY <1>3, <1>4, <2>3
    <3>5. k \in B <=> tokens[k].pos = t[1] /\ tokens[k].seqs = t[2]
      BY <1>1 DEF GivenAs
    <3>6. j \in HeldAs(d, t) <=> d.pos[j] = t[1] /\ d.seq[j] = t[2]
      BY DEF HeldAs
    <3> HIDE DEF A, B, C
    <3> QED
      BY <3>1, <3>2, <3>3, <3>4, <3>5, <3>6
  <2> QED
    BY <2>2, <2>3
<1>6. A \cap C = {}
  <2> SUFFICES ASSUME NEW j \in A, j \in C PROVE FALSE
    OBVIOUS
  <2>1. PICK k \in B : idxs[k] = j
    OBVIOUS
  <2>2. c.pos[j] = None
    BY <1>0, <1>3, <2>1
  <2>3. c.pos[j] = t[1]
    BY DEF HeldAs
  <2> QED
    BY <1>2, <2>2, <2>3
<1>7. IsFiniteSet(A) /\ IsFiniteSet(B) /\ IsFiniteSet(C)
  <2>1. A \subseteq Cell /\ C \subseteq Cell /\ B \subseteq DOMAIN tokens
    BY DEF HeldAs, GivenAs
  <2> HIDE DEF A, B, C
  <2> QED
    BY <1>1, <2>1, CellTypes, FS_Subset
<1>8. Cardinality(C) = Cardinality(B)
  <2>1. f \in [B -> C]
    BY <1>3
  <2>2. \A k, l \in B : f[k] = f[l] => k = l
    BY <1>3, <1>4
  <2>3. \A j \in C : \E k \in B : f[k] = j
    OBVIOUS
  <2> HIDE DEF f, B, C
  <2>4. f \in Injection(B, C) /\ f \in Surjection(B, C)
    BY <2>1, <2>2, <2>3 DEF Injection, Surjection, IsInjective
  <2> QED
    BY <1>7, <2>4, FS_Injection
<1> HIDE DEF A, B, C
<1>9. Cardinality(A \cup C) = Cardinality(A) + Cardinality(C) - Cardinality(A \cap C)
  BY <1>7, FS_Union
<1>10. Cardinality(A \cap C) = 0 /\ Cardinality(A) \in Nat /\ Cardinality(C) \in Nat
  BY <1>6, <1>7, FS_EmptySet, FS_CardinalityType
<1> QED
  BY <1>5, <1>8, <1>9, <1>10 DEF A, B

\* A ubatch that fails takes nothing with it that was there before.
LEMMA FailureLeaves ==
  ASSUME use \in Uses, NEW b, Good(b), NEW idxs, NEW tokens, Fits(idxs, tokens),
         NEW c, Applied(b, c, idxs, tokens), \A x \in DOMAIN idxs : b.pos[idxs[x]] = None,
         \A x \in DOMAIN tokens : \E s \in Seqs : tokens[x].seqs = {s},
         Behind(b, tokens),
         NEW S, S = {s \in Seqs : First(tokens, s) # {}},
         NEW d, Dropped(c, d, tokens, S)
  PROVE  Alike(b, d)
<1> SUFFICES ASSUME NEW j \in Cell PROVE d.pos[j] = b.pos[j] /\ d.seq[j] = b.seq[j]
  BY DEF Alike
<1>1. Good(d) /\ Whole(b) /\ Whole(d)
  BY DEF Dropped, Fewer, Good
<1>2. CASE j \in Range(idxs)
  <2>1. d.pos[j] = None
    <3>1. \A s \in Seqs : First(tokens, s) # {} => s \in S
      OBVIOUS
    <3> QED
      BY <1>2, <3>1, DropDrops
  <2>2. b.pos[j] = None
    BY <1>2 DEF Range
  <2> QED
    BY <1>1, <2>1, <2>2 DEF Whole
<1>3. CASE j \notin Range(idxs)
  <2>1. FilledCell(b, c, idxs, tokens, DOMAIN idxs, j)
    BY DEF Applied
  <2>2. c.pos[j] = b.pos[j] /\ c.seq[j] = b.seq[j]
    BY <1>3, <2>1 DEF FilledCell, Range
  <2>3. Unhit(c, tokens, S, j)
    <3> SUFFICES ASSUME NEW s \in S, j \in Has(c, s, Min(First(tokens, s)), use.last + 1)
                 PROVE  FALSE
      BY DEF Unhit
    <3>1. s \in c.seq[j] /\ c.pos[j] >= Min(First(tokens, s))
      BY DEF Has, PosIn
    <3>2. s \in Seqs /\ First(tokens, s) # {}
      OBVIOUS
    <3>3. First(tokens, s) \subseteq Nat
      <4> SUFFICES ASSUME NEW x \in DOMAIN tokens PROVE tokens[x].pos \in Nat
        BY DEF First
      <4>1. tokens[x] \in Tokens1
        BY DomainOf DEF Fits
      <4> QED
        BY <4>1, CellTypes DEF Tokens1
    <3>4. Min(First(tokens, s)) \in First(tokens, s) /\ Min(First(tokens, s)) \in Nat
      BY <3>2, <3>3, MinIs
    <3>5. PICK k \in DOMAIN tokens : Min(tokens[k].seqs) = s /\ tokens[k].pos = Min(First(tokens, s))
      BY <3>4 DEF First
    <3>6. PICK r \in Seqs : tokens[k].seqs = {r}
      OBVIOUS
    <3>7. Min({r}) = r
      <4>1. {r} \subseteq Nat /\ {r} # {}
        BY CellTypes
      <4>2. Min({r}) \in {r}
        BY <4>1, MinIs
      <4> QED
        BY <4>2
    <3>8. s \in tokens[k].seqs
      BY <3>5, <3>6, <3>7
    <3>9. b.pos[j] < tokens[k].pos
      BY <2>2, <3>1, <3>8 DEF Behind
    <3>10. b.pos[j] \in Int
      BY CellTypes DEF Good, Sound, Cells
    <3> QED
      BY <2>2, <3>1, <3>4, <3>5, <3>9, <3>10
  <2> QED
    BY <2>2, <2>3 DEF Dropped
<1> QED
  BY <1>2, <1>3

\* The graph of a ubatch: its tokens are added, or nothing changes.
LEMMA ProcessAdds ==
  ASSUME use \in Uses, State(kv, K, todo, ret), Alone(use), use.swa = 0, NEW works, Process(works)
  PROVE  \/ /\ ret' # "failed" /\ ret' # "no slot"
            /\ \A t \in Token : Cardinality(HeldAs(kv', t)) =
                   Cardinality(HeldAs(kv, t)) + Cardinality(GivenAs(Head(todo).tokens, t))
         \/ ret' = "failed" /\ Alike(kv, kv')
<1> DEFINE idxs == Head(todo).idxs
           tokens == Head(todo).tokens
           c == ApplyUbatch(kv, idxs, tokens)
           S == {s \in Seqs : First(tokens, s) # {}}
           d == Drop(c, tokens, S)
<1>1. Queue(todo) /\ todo # <<>> /\ Good(kv) /\ Waits(kv, todo) /\ Ahead(kv, todo)
  BY DEF State, Goes, Process
<1>2. Fits(idxs, tokens) /\ IsInjective(idxs)
  BY <1>1, HeadOf
<1>3. Applied(kv, c, idxs, tokens)
  BY <1>1, <1>2, ApplyKeeps
<1>4. 1 \in DOMAIN todo /\ idxs = todo[1].idxs /\ tokens = todo[1].tokens
  BY <1>1, HeadOf
<1>5. CASE works
  <2>1. kv' = c /\ ret' # "failed" /\ ret' # "no slot"
    BY <1>5 DEF Process
  <2> HIDE DEF idxs, tokens, c
  <2>2. \A x \in DOMAIN idxs : kv.pos[idxs[x]] = None
    BY <1>1, <1>4 DEF Waits
  <2>3. \A j \in Cell : FilledCell(kv, c, idxs, tokens, DOMAIN idxs, j)
    BY <1>3, <2>2 DEF Applied
  <2>4. ASSUME NEW t \in Token
        PROVE  Cardinality(HeldAs(c, t)) = Cardinality(HeldAs(kv, t)) + Cardinality(GivenAs(tokens, t))
    <3>1. use \in Uses /\ t \in Token /\ SlotFilled(kv, c, idxs, tokens)
      BY <1>2, <2>2, <2>3 DEF SlotFilled
    <3> QED
      BY ONLY <3>1, FillAdds
  <2> QED
    BY <2>1, <2>4 DEF tokens
<1>6. CASE ~ works
  <2>1. kv' = d /\ ret' = "failed"
    BY <1>6 DEF Process, Drop, First
  <2>2. Dropped(c, d, tokens, S)
    <3>1. S \in SUBSET Seqs /\ use \in Uses /\ Good(c)
      BY <1>3 DEF Applied
    <3> HIDE DEF S, tokens, c
    <3> QED
      BY ONLY <3>1, DropFold
  <2>3. S = {s \in Seqs : First(tokens, s) # {}}
    OBVIOUS
  <2> HIDE DEF idxs, tokens, c, d, S
  <2>4. \A x \in DOMAIN idxs : kv.pos[idxs[x]] = None
    BY <1>1, <1>4 DEF Waits
  <2>5. \A x \in DOMAIN tokens : \E s \in Seqs : tokens[x].seqs = {s}
    BY <1>1, <1>4 DEF Waits
  <2>6. Behind(kv, tokens)
    BY <1>1, <1>4 DEF Ahead
  <2>7. use \in Uses /\ Good(kv)
    BY <1>1
  <2>8. Alike(kv, d)
    BY ONLY <1>2, <1>3, <2>2, <2>3, <2>4, <2>5, <2>6, <2>7, FailureLeaves
  <2> QED
    BY <2>1, <2>8
<1>7. works \/ ~ works
  OBVIOUS
<1> QED
  BY <1>5, <1>6, <1>7

-----------------------------------------------------------------------------
(* The inductive invariant and the theorems.                               *)

KvInv == use \in Uses /\ State(kv, K, todo, ret) /\ surplus \in Surpluses

\* What is so of the next cells in this use is so of them next.
LEMMA Later ==
  ASSUME use \in Uses, use' = use, Goes(kv', K', todo', ret'), GoodBut(kv', surplus'),
         surplus' \in Surpluses
  PROVE  KvInv'
<1>1. Cell' = Cell /\ Pos' = Pos
  BY DEF Cell, Pos
<1>2. Tokens1' = Tokens1
  BY <1>1 DEF Tokens1
<1>3. Good(kv)'
  BY <1>1 DEF GoodBut, Good, Sound, Whole, Counts, CountsBut, Holding, Cells
<1>4. Queue(todo)'
  BY <1>1, <1>2 DEF Goes, Queue, Fits
<1>5. (K \in [Cell -> Int])' /\ (ret \in {"", "ok", "no slot", "failed"})'
  BY <1>1 DEF Goes
<1>6. Plain(use)' => Fine(kv, K)'
  <2> SUFFICES ASSUME Plain(use)' PROVE Fine(kv, K)'
    OBVIOUS
  <2>1. Plain(use)
    BY DEF Plain, Alone
  <2>2. Fine(kv', K')
    BY <2>1 DEF Goes
  <2> QED
    BY <1>1, <2>2 DEF Fine, Keyed, Calm
<1>9. Alone(use)' => Waits(kv, todo)' /\ (use.swa = 0 => Ahead(kv, todo))'
  <2> SUFFICES ASSUME Alone(use)' PROVE Waits(kv, todo)' /\ (use.swa = 0 => Ahead(kv, todo))'
    OBVIOUS
  <2>1. Alone(use)
    BY DEF Alone
  <2>2. Waits(kv', todo') /\ (use.swa = 0 => Ahead(kv', todo'))
    BY <2>1 DEF Goes
  <2> QED
    BY <1>1, <2>2 DEF Waits, Ahead, Behind, Sooner
<1>7. State(kv, K, todo, ret)'
  BY <1>3, <1>4, <1>5, <1>6, <1>9 DEF State, Goes
<1>8. (use \in Uses)' /\ (surplus \in Surpluses)'
  BY <1>1 DEF Surpluses
<1> QED
  BY <1>7, <1>8 DEF KvInv

LEMMA KvInitial == Init => KvInv
<1> SUFFICES ASSUME Init PROVE KvInv
  OBVIOUS
<1>1. use \in Uses /\ kv = Reset /\ K = [i \in Cell |-> None] /\ todo = <<>> /\ ret = ""
      /\ surplus = NoTokens
  BY DEF Init
<1>2. Good(kv) /\ \A j \in Cell : kv.pos[j] = None /\ kv.shift[j] = 0
  BY <1>1, ResetIsGood DEF GoodBut, Good, Sound, Counts
<1>5. surplus \in Surpluses
  <2>1. use.twice \in Nat
    BY <1>1, KvAssumption
  <2> QED
    BY <1>1, <2>1, NoTokensTwice
<1>3. K \in [Cell -> Int]
  BY <1>1, CellTypes
<1>4. Fine(kv, K)
  BY <1>2 DEF Fine, Keyed, Calm
<1> QED
  BY <1>1, <1>2, <1>3, <1>4, <1>5, NoWork DEF KvInv, State, Goes

LEMMA KvNext == KvInv /\ [Next]_vars => KvInv'
<1> SUFFICES ASSUME KvInv, [Next]_vars PROVE KvInv'
  OBVIOUS
<1>1. use \in Uses /\ State(kv, K, todo, ret) /\ surplus \in Surpluses
  BY DEF KvInv
<1>2. ASSUME use' = use, UNCHANGED surplus, State(kv', K', todo', ret') PROVE KvInv'
  <2>1. Goes(kv', K', todo', ret') /\ GoodBut(kv', surplus') /\ surplus' \in Surpluses
    BY <1>1, <1>2 DEF State, Good, Sound, Counts, GoodBut
  <2> QED
    BY <1>1, <1>2, <2>1, Later
<1>3. CASE EditStep
  BY <1>1, <1>3, EditStepKeeps, Later
<1>4. ASSUME NEW batch \in use.batches, NEW first \in Outcomes, NEW second \in Outcomes,
             Decode(batch, first, second)
      PROVE  KvInv'
  <2>1. UNCHANGED surplus
    BY <1>4 DEF Decode
  <2> QED
    BY <1>1, <1>2, <1>4, <2>1, DecodeKeeps
<1>5. ASSUME NEW works \in BOOLEAN, Process(works) PROVE KvInv'
  <2>1. UNCHANGED surplus
    BY <1>5 DEF Process
  <2> QED
    BY <1>1, <1>2, <1>5, <2>1, ProcessKeeps
<1>6. CASE UNCHANGED vars
  BY <1>1, <1>2, <1>6 DEF vars
<1> QED
  BY <1>3, <1>4, <1>5, <1>6 DEF Next

\* In every state the cells and what is counted next to them belong together, and in a
\* plain use each key that no failed shift has spoilt is that of its position, but for a
\* shift that is pending.
THEOREM KvCorrect == Spec => []KvInv
<1> QED
  BY KvInitial, KvNext, PTL DEF Spec

\* used is what the cells say after any decode, failure and edit, and so is seq_pos, but for
\* what copies onto cells that were the destination's already have counted twice.
THEOREM CountersAgreeHolds == Spec => []CountersAgree
<1>1. KvInv => CountersAgree
  <2> SUFFICES ASSUME KvInv PROVE CountersAgree
    OBVIOUS
  <2>1. use \in Uses /\ Good(kv) /\ K \in [Cell -> Int] /\ ret \in {"", "ok", "no slot", "failed"}
    BY DEF KvInv, State, Goes
  <2>2. kv \in Cells /\ kv.used = {i \in Cell : kv.pos[i] # None} /\ Whole(kv)
    BY <2>1 DEF Good, Sound
  <2>3. /\ kv.pos \in [Cell -> Pos \cup {None}] /\ kv.seq \in [Cell -> SUBSET Seqs]
        /\ kv.used \subseteq Cell /\ kv.head \in 0 .. use.size
    BY <2>2 DEF Cells
  <2>4. ASSUME NEW s \in Seqs, NEW p \in Pos
        PROVE  /\ kv.seq_pos[s][p] \in Nat /\ surplus[s][p] \in 0 .. use.twice
               /\ kv.seq_pos[s][p] = surplus[s][p] +
                    Cardinality({i \in Cell : kv.pos[i] = p /\ s \in kv.seq[i]})
    <3>1. kv.seq_pos[s][p] \in Nat
      BY <2>2 DEF Cells
    <3>2. surplus[s][p] \in 0 .. use.twice
      BY DEF KvInv, Surpluses
    <3> QED
      BY <2>1, <3>1, <3>2 DEF Good, Sound, Counts, CountsBut, Holding
  <2>5. TypeOK
    BY <2>1, <2>3, <2>4 DEF TypeOK
  <2> QED
    BY <2>2, <2>4, <2>5 DEF CountersAgree, Whole
<1> QED
  BY <1>1, KvCorrect, PTL

\* In a plain use the keys and the pending shifts are in step with the positions, whatever
\* is decoded, fails or is edited; except for the keys that a shift which failed half way
\* has spoilt, until their cells are computed again.
THEOREM KeyMatchesPositionHolds == Spec => [](Plain(use) => KeyMatchesPosition)
<1>1. KvInv => (Plain(use) => KeyMatchesPosition)
  BY DEF KvInv, State, Goes, Fine, Keyed, KeyMatchesPosition
<1> QED
  BY <1>1, KvCorrect, PTL

\* A batch that fits into the empty cells gets its slots, and without a window no other.
THEOREM FindsSlotWhenItFitsHolds == Spec => []FindsSlotWhenItFits
<1>1. KvInv => FindsSlotWhenItFits
  <2> SUFFICES ASSUME KvInv, NEW batch \in use.batches, Accepted(kv, batch)
               PROVE  LET fits == Prepare(kv, Split(Tokens(kv, batch))).fits
                          empty == Len(batch) <= Cardinality(Empties(kv))
                      IN (empty => fits) /\ (fits /\ use.swa = 0 => empty)
    BY DEF FindsSlotWhenItFits, Empties
  <2>1. use \in Uses /\ Good(kv)
    BY DEF KvInv, State
  <2> DEFINE tokens == Tokens(kv, batch)
             ubatches == Split(tokens)
             total == Ends(tokens)
  <2>2. /\ tokens \in Seq(Tokens1) /\ Len(tokens) = Len(batch)
        /\ ubatches \in Seq(Seq(Tokens1) \ {<<>>}) /\ Parts(ubatches, total, tokens)
    BY <2>1, BatchSplits
  <2> HIDE DEF tokens, ubatches, total
  <2>3. /\ Len(tokens) <= Cardinality(Empties(kv)) => Prepare(kv, ubatches).fits
        /\ Prepare(kv, ubatches).fits /\ use.swa = 0 => Len(tokens) <= Cardinality(Empties(kv))
    BY <2>1, <2>2, PrepareFits
  <2> QED
    BY <2>2, <2>3 DEF tokens, ubatches
<1> QED
  BY <1>1, KvCorrect, PTL

\* When no token is of two sequences, llama_decode adds to a cache without a window what it
\* processes and nothing else, and leaves it as it was when there is no slot or a graph fails.
THEOREM DecodeAddsItsTokensHolds == Spec /\ []Alone(use) => DecodeAddsItsTokens
<1> DEFINE B == BagOf(Head(todo).tokens)
           Step1 == (todo = <<>> /\ todo' # <<>>) \/ ret' \in {"no slot", "failed"} => Content' = Content
           Step2 == todo # <<>> /\ ret' # "failed" => Content' = [t \in Token |-> Content[t] + B[t]]
<1>1. KvInv /\ Alone(use) /\ [Next]_vars => [use.swa = 0 => Step1 /\ Step2]_vars
  <2> SUFFICES ASSUME KvInv, Alone(use), Next, use.swa = 0 PROVE Step1 /\ Step2
    OBVIOUS
  <2>1. use \in Uses /\ State(kv, K, todo, ret)
    BY DEF KvInv
  <2>2. Content = ContentOf(kv) /\ \A t \in Token : B[t] = Cardinality(GivenAs(Head(todo).tokens, t))
    BY DEF Content, ContentOf, HeldAs, BagOf, GivenAs
  <2>3. use' = use => Content' = ContentOf(kv')
    BY DEF Content, ContentOf, HeldAs, Token, Pos, Cell
  <2>4. CASE EditStep
    <3>1. todo = <<>> /\ todo' = <<>> /\ ret' = ""
      BY <2>4 DEF EditStep, Copy, Edit
    <3> QED
      BY <3>1
  <2>5. ASSUME NEW batch \in use.batches, NEW first \in Outcomes, NEW second \in Outcomes,
               Decode(batch, first, second)
        PROVE  Step1 /\ Step2
    <3>1. use' = use /\ Alike(kv, kv') /\ todo = <<>>
      BY <2>1, <2>5, DecodeKeeps DEF Decode
    <3>2. Content' = Content
      BY <2>2, <2>3, <3>1, AlikeContent
    <3> QED
      BY <3>1, <3>2
  <2>6. ASSUME NEW works \in BOOLEAN, Process(works)
        PROVE  Step1 /\ Step2
    <3>1. use' = use /\ todo # <<>>
      BY <2>6 DEF Process
    <3>2. CASE ret' = "failed" /\ Alike(kv, kv')
      <4>1. Content' = Content
        BY <2>2, <2>3, <3>1, <3>2, AlikeContent
      <4> QED
        BY <3>1, <3>2, <4>1
    <3>3. CASE /\ ret' # "failed" /\ ret' # "no slot"
               /\ \A t \in Token : Cardinality(HeldAs(kv', t)) =
                    Cardinality(HeldAs(kv, t)) + Cardinality(GivenAs(Head(todo).tokens, t))
      <4>1. \A t \in Token : Content[t] = Cardinality(HeldAs(kv, t))
        BY <2>2 DEF ContentOf
      <4>2. Content' = [t \in Token |-> Cardinality(HeldAs(kv', t))]
        BY <2>3, <3>1 DEF ContentOf
      <4> HIDE DEF B
      <4>3. Content' = [t \in Token |-> Content[t] + B[t]]
        BY <2>2, <3>3, <4>1, <4>2
      <4> QED
        BY <3>1, <3>3, <4>3
    <3> QED
      BY <2>1, <2>6, <3>2, <3>3, ProcessAdds
  <2> QED
    BY <2>4, <2>5, <2>6 DEF Next
<1> QED
  BY <1>1, KvCorrect, PTL DEF Spec, DecodeAddsItsTokens

=============================================================================
