---------------------------- MODULE Batch_proofs ----------------------------
(***************************************************************************)
(* The batch, for any tokens, sequences and sizes: what is accepted goes   *)
(* on where the memory ends, a cut takes every token once and in the order *)
(* of its sequence, and every output is found in its row.                  *)
(***************************************************************************)
EXTENDS Batch, FiniteSetTheorems, SequenceTheorems, WellFoundedInduction, TLAPS

-----------------------------------------------------------------------------
(* Numbers, sets and sequences.                                            *)

\* Among sets of subsets of a finite set there is one that contains no other.
LEMMA SmallestSubset ==
  ASSUME NEW S, IsFiniteSet(S), NEW Family, Family \subseteq SUBSET S, Family # {}
  PROVE  \E U \in Family : \A V \in Family : V \subseteq U => V = U
<1>1. FiniteSubsetsOf(S) = SUBSET S
  BY FS_FiniteSubsetsOfFinite
<1>2. \E U \in Family : \A V \in Family : ~ (<<V, U>> \in StrictSubsetOrdering(S))
  BY <1>1, FS_StrictSubsetOrderingWellFounded, WFMin
<1> QED
  BY <1>2 DEF StrictSubsetOrdering

LEMMA MinIs ==
  ASSUME NEW S, S \subseteq Nat, S # {}
  PROVE  Min(S) \in S /\ \A x \in S : Min(S) <= x
<1>1. PICK m \in S : \A x \in S : ~ (<<x, m>> \in OpToRel(<, Nat))
  BY NatLessThanWellFounded, WFMin
<1>2. \A x \in S : m <= x
  <2> SUFFICES ASSUME NEW x \in S PROVE m <= x
    OBVIOUS
  <2>1. x \in Nat /\ m \in Nat
    OBVIOUS
  <2>2. ~ x < m
    BY <1>1, <2>1 DEF OpToRel
  <2> QED
    BY <2>1, <2>2
<1> QED
  BY <1>2 DEF Min

LEMMA MaxIs ==
  ASSUME NEW S, S \subseteq Int, IsFiniteSet(S), S # {}
  PROVE  Max(S) \in S /\ \A x \in S : Max(S) >= x
<1> DEFINE Above(y) == {x \in S : x >= y}
           Family == {Above(y) : y \in S}
<1>1. Family \subseteq SUBSET S /\ Family # {}
  OBVIOUS
<1>2. PICK U \in Family : \A V \in Family : V \subseteq U => V = U
  <2>1. IsFiniteSet(S)
    OBVIOUS
  <2> HIDE DEF Family
  <2> QED
    BY ONLY <1>1, <2>1, SmallestSubset
<1>3. PICK m \in S : U = Above(m)
  BY <1>2
<1>4. \A x \in S : m >= x
  <2> SUFFICES ASSUME NEW x \in S PROVE m >= x
    OBVIOUS
  <2>1. x \in Int /\ m \in Int
    OBVIOUS
  <2>2. CASE x > m
    <3>1. \A y \in Int : y >= x => y >= m
      BY <2>1, <2>2
    <3>2. m >= m /\ ~ m >= x
      BY <2>1, <2>2
    <3>3. Above(x) \subseteq U /\ Above(x) \in Family /\ m \in U /\ m \notin Above(x)
      BY <1>3, <3>1, <3>2
    <3> QED
      BY <1>2, <3>3
  <2> QED
    BY <2>1, <2>2
<1> QED
  BY <1>4 DEF Max

LEMMA DomainOf ==
  ASSUME NEW T, NEW q \in Seq(T)
  PROVE  /\ DOMAIN q = 1 .. Len(q) /\ Len(q) \in Nat /\ DOMAIN q \subseteq Nat
         /\ IsFiniteSet(DOMAIN q) /\ \A k \in DOMAIN q : q[k] \in T
<1>1. DOMAIN q = 1 .. Len(q) /\ Len(q) \in Nat /\ \A k \in DOMAIN q : q[k] \in T
  OBVIOUS
<1>2. IsFiniteSet(1 .. Len(q))
  BY <1>1, FS_Interval
<1> QED
  BY <1>1, <1>2

\* What takes the place of induction: a set that is climbed is all.
LEMMA Climbs ==
  ASSUME NEW n \in Nat, NEW S, 0 \in S, \A k \in 1 .. n : k - 1 \in S => k \in S
  PROVE  \A k \in 0 .. n : k \in S
<1> DEFINE Bad == {k \in 0 .. n : k \notin S}
           m == Min(Bad)
<1> SUFFICES ASSUME Bad # {} PROVE FALSE
  OBVIOUS
<1>1. Bad \subseteq Nat
  OBVIOUS
<1>2. m \in Bad /\ \A x \in Bad : m <= x
  BY <1>1, MinIs
<1> HIDE DEF m
<1>3. m \in 1 .. n
  BY <1>2
<1>4. m - 1 \in 0 .. n /\ m - 1 < m
  BY <1>3
<1>5. m - 1 \in S
  BY <1>2, <1>4
<1> QED
  BY <1>2, <1>3, <1>5

\* f goes from base in the steps of G.
Steps(n, base, G, f) == f = [k \in 0 .. n |-> IF k = 0 THEN base ELSE G[<<k, f[k - 1]>>]]

LEMMA StepsExist ==
  ASSUME NEW n \in Nat, NEW X, NEW base \in X, NEW G \in [(1 .. n) \X X -> X]
  PROVE  \E f \in [0 .. n -> X] : Steps(n, base, G, f)
<1> DEFINE Up(m) == \E f \in [0 .. m -> X] : Steps(m, base, G, f)
           S == {m \in 0 .. n : Up(m)}
<1>1. 0 \in S
  <2> DEFINE f == [k \in 0 .. 0 |-> base]
  <2>1. f \in [0 .. 0 -> X] /\ Steps(0, base, G, f)
    BY DEF Steps
  <2> QED
    BY <2>1
<1>2. ASSUME NEW m \in 1 .. n, m - 1 \in S PROVE m \in S
  <2>1. PICK f \in [0 .. m - 1 -> X] : Steps(m - 1, base, G, f)
    BY <1>2
  <2>2. \A k \in 0 .. m - 1 : f[k] = IF k = 0 THEN base ELSE G[<<k, f[k - 1]>>]
    BY <2>1 DEF Steps
  <2>3. m - 1 \in 0 .. m - 1 /\ 0 .. m = (0 .. m - 1) \cup {m} /\ m \notin 0 .. m - 1
    OBVIOUS
  <2>4. G[<<m, f[m - 1]>>] \in X
    BY <2>3
  <2> DEFINE g == [k \in 0 .. m |-> IF k = m THEN G[<<m, f[m - 1]>>] ELSE f[k]]
  <2>5. g \in [0 .. m -> X]
    BY <2>3, <2>4
  <2>6. ASSUME NEW k \in 0 .. m PROVE g[k] = IF k = 0 THEN base ELSE G[<<k, g[k - 1]>>]
    <3>1. CASE k = m
      <4>1. g[m] = G[<<m, f[m - 1]>>] /\ g[m - 1] = f[m - 1] /\ m # 0
        BY <2>3
      <4> HIDE DEF g
      <4> QED
        BY <3>1, <4>1
    <3>2. CASE k # m
      <4>1. k \in 0 .. m - 1 /\ (k # 0 => k - 1 \in 0 .. m - 1)
        BY <3>2
      <4>2. g[k] = f[k] /\ (k # 0 => g[k - 1] = f[k - 1])
        BY <2>3, <4>1
      <4> HIDE DEF g
      <4> QED
        BY <2>2, <4>1, <4>2
    <3> QED
      BY <3>1, <3>2
  <2>7. Steps(m, base, G, g)
    BY <2>6 DEF Steps
  <2> QED
    BY <2>5, <2>7
<1>3. n \in S
  <2> HIDE DEF S
  <2> QED
    BY <1>1, <1>2, Climbs
<1> QED
  BY <1>3

LEMMA AppendIs ==
  ASSUME NEW T, NEW q \in Seq(T), NEW x \in T
  PROVE  /\ Append(q, x) \in Seq(T) /\ Len(Append(q, x)) = Len(q) + 1 /\ Len(q) \in Nat
         /\ DOMAIN Append(q, x) = 1 .. Len(q) + 1 /\ DOMAIN q = 1 .. Len(q)
         /\ Append(q, x)[Len(q) + 1] = x /\ \A k \in DOMAIN q : Append(q, x)[k] = q[k]
         /\ Len(q) + 1 \in DOMAIN Append(q, x) /\ \A k \in DOMAIN q : k \in DOMAIN Append(q, x)
         /\ \A k \in DOMAIN Append(q, x) : k \in DOMAIN q \/ k = Len(q) + 1
         /\ Range(Append(q, x)) = Range(q) \cup {x}
<1> DEFINE p == Append(q, x)
<1>1. /\ p \in Seq(T) /\ Len(p) = Len(q) + 1 /\ Len(q) \in Nat
      /\ DOMAIN p = 1 .. Len(q) + 1 /\ DOMAIN q = 1 .. Len(q)
      /\ p[Len(q) + 1] = x /\ \A k \in DOMAIN q : p[k] = q[k]
  OBVIOUS
<1> HIDE DEF p
<1>2. /\ Len(q) + 1 \in DOMAIN p /\ \A k \in DOMAIN q : k \in DOMAIN p
      /\ \A k \in DOMAIN p : k \in DOMAIN q \/ k = Len(q) + 1
  BY <1>1
<1>3. Range(p) = Range(q) \cup {x}
  BY <1>1, <1>2 DEF Range
<1> QED
  BY <1>1, <1>2, <1>3 DEF p

-----------------------------------------------------------------------------
(* What is kept of a sequence.                                             *)

\* r is what S has of the first n members, in their order.
Selects(seq, S, n, r) ==
  /\ r \in Seq(Nat)
  /\ \A x : x \in Range(r) <=> x \in S /\ \E i \in 1 .. n : seq[i] = x
  /\ \A a, b \in DOMAIN r : a < b => \E i, j \in 1 .. n : i < j /\ seq[i] = r[a] /\ seq[j] = r[b]

LEMMA SelectsMore ==
  ASSUME NEW seq \in Seq(Nat), NEW S, NEW k \in 1 .. Len(seq), NEW r, Selects(seq, S, k - 1, r)
  PROVE  Selects(seq, S, k, IF seq[k] \in S THEN Append(r, seq[k]) ELSE r)
<1>1. seq[k] \in Nat /\ k \in Nat /\ 1 .. k = (1 .. k - 1) \cup {k} /\ \A i \in 1 .. k - 1 : i < k
  OBVIOUS
<1>2. /\ r \in Seq(Nat)
      /\ \A x : x \in Range(r) <=> x \in S /\ \E i \in 1 .. k - 1 : seq[i] = x
      /\ \A a, b \in DOMAIN r : a < b =>
           \E i, j \in 1 .. k - 1 : i < j /\ seq[i] = r[a] /\ seq[j] = r[b]
  BY DEF Selects
<1>3. CASE seq[k] \in S
  <2> DEFINE p == Append(r, seq[k])
             n == Len(r)
  <2>1. /\ p \in Seq(Nat) /\ n \in Nat /\ p[n + 1] = seq[k] /\ Range(p) = Range(r) \cup {seq[k]}
        /\ \A a \in DOMAIN r : p[a] = r[a]
        /\ \A a \in DOMAIN p : a \in DOMAIN r \/ a = n + 1
        /\ DOMAIN p = 1 .. n + 1 /\ DOMAIN r = 1 .. n
    BY <1>1, <1>2, AppendIs
  <2> HIDE DEF p, n
  <2>2. \A x : x \in Range(p) <=> x \in S /\ \E i \in 1 .. k : seq[i] = x
    BY <1>1, <1>2, <1>3, <2>1
  <2>3. ASSUME NEW a \in DOMAIN p, NEW b \in DOMAIN p, a < b
        PROVE  \E i, j \in 1 .. k : i < j /\ seq[i] = p[a] /\ seq[j] = p[b]
    <3>1. a \in DOMAIN r
      BY <2>1, <2>3
    <3>2. CASE b \in DOMAIN r
      <4>1. PICK i, j \in 1 .. k - 1 : i < j /\ seq[i] = r[a] /\ seq[j] = r[b]
        BY <1>2, <2>3, <3>1, <3>2
      <4> QED
        BY <1>1, <2>1, <3>1, <3>2, <4>1
    <3>3. CASE b = n + 1
      <4>1. r[a] \in Range(r)
        BY <3>1 DEF Range
      <4>2. PICK i \in 1 .. k - 1 : seq[i] = r[a]
        BY <1>2, <4>1
      <4>3. i < k /\ i \in 1 .. k /\ k \in 1 .. k
        BY <1>1
      <4> QED
        BY <2>1, <3>1, <3>3, <4>2, <4>3
    <3> QED
      BY <2>1, <3>2, <3>3
  <2>4. Selects(seq, S, k, p)
    BY <2>1, <2>2, <2>3 DEF Selects
  <2> QED
    BY <1>3, <2>4 DEF p
<1>4. CASE seq[k] \notin S
  <2>1. \A x : x \in Range(r) <=> x \in S /\ \E i \in 1 .. k : seq[i] = x
    BY <1>1, <1>2, <1>4
  <2>2. \A a, b \in DOMAIN r : a < b => \E i, j \in 1 .. k : i < j /\ seq[i] = r[a] /\ seq[j] = r[b]
    BY <1>1, <1>2
  <2>3. Selects(seq, S, k, r)
    BY <1>2, <2>1, <2>2 DEF Selects
  <2> QED
    BY <1>4, <2>3
<1> QED
  BY <1>3, <1>4

LEMMA KeptSelects ==
  ASSUME NEW seq \in Seq(Nat), NEW S
  PROVE  Selects(seq, S, Len(seq), Kept(seq, S))
<1> DEFINE n == Len(seq)
           G == [q \in (1 .. n) \X Seq(Nat) |->
                   IF seq[q[1]] \in S THEN Append(q[2], seq[q[1]]) ELSE q[2]]
           Rec(f) == f = [i \in 0 .. n |-> IF i = 0 THEN <<>>
                            ELSE IF seq[i] \in S THEN Append(f[i - 1], seq[i]) ELSE f[i - 1]]
           h == CHOOSE f : Rec(f)
<1>1. n \in Nat /\ \A i \in 1 .. n : seq[i] \in Nat
  OBVIOUS
<1>2. \E f : Rec(f)
  <2>1. G \in [(1 .. n) \X Seq(Nat) -> Seq(Nat)]
    BY <1>1
  <2>2. \A i \in 1 .. n, d \in Seq(Nat) : G[<<i, d>>] = IF seq[i] \in S THEN Append(d, seq[i]) ELSE d
    OBVIOUS
  <2>3. <<>> \in Seq(Nat)
    OBVIOUS
  <2> HIDE DEF G, n
  <2>4. PICK f \in [0 .. n -> Seq(Nat)] : Steps(n, <<>>, G, f)
    BY <1>1, <2>1, <2>3, StepsExist
  <2>5. ASSUME NEW i \in 0 .. n, i # 0
        PROVE  G[<<i, f[i - 1]>>] = IF seq[i] \in S THEN Append(f[i - 1], seq[i]) ELSE f[i - 1]
    <3>1. i \in 1 .. n /\ i - 1 \in 0 .. n
      BY <1>1, <2>5
    <3> QED
      BY <2>2, <3>1
  <2>6. Rec(f)
    BY <2>4, <2>5 DEF Steps
  <2> QED
    BY <2>6
<1>3. Rec(h)
  BY <1>2
<1>4. Kept(seq, S) = h[n]
  BY DEF Kept
<1> HIDE DEF h
<1>5. /\ h[0] = <<>>
      /\ \A i \in 1 .. n : h[i] = IF seq[i] \in S THEN Append(h[i - 1], seq[i]) ELSE h[i - 1]
  <2>1. 0 \in 0 .. n /\ \A i \in 1 .. n : i \in 0 .. n /\ i # 0
    BY <1>1
  <2> HIDE DEF n
  <2> QED
    BY <1>3, <2>1
<1> DEFINE A == {i \in 0 .. n : Selects(seq, S, i, h[i])}
<1>6. 0 \in A
  <2>1. <<>> \in Seq(Nat) /\ DOMAIN <<>> = {} /\ 1 .. 0 = {}
    OBVIOUS
  <2>2. Selects(seq, S, 0, <<>>)
    BY <2>1 DEF Selects, Range
  <2> QED
    BY <1>1, <1>5, <2>2
<1>7. ASSUME NEW i \in 1 .. n, i - 1 \in A PROVE i \in A
  BY <1>1, <1>5, <1>7, SelectsMore
<1> HIDE DEF A, Rec
<1>8. \A i \in 0 .. n : i \in A
  BY <1>1, <1>6, <1>7, Climbs
<1> QED
  BY <1>1, <1>4, <1>8 DEF A

-----------------------------------------------------------------------------
(* Sequences one behind the other.                                         *)

Joined(seqs, T, n, f) ==
  f = [i \in 0 .. n |-> IF i = 0 THEN <<>> ELSE f[i - 1] \o seqs[i]] /\ f \in [0 .. n -> Seq(T)]

LEMMA FlattenIs ==
  ASSUME NEW T, NEW seqs \in Seq(Seq(T))
  PROVE  \E f : Joined(seqs, T, Len(seqs), f) /\ FlattenSeq(seqs) = f[Len(seqs)]
<1> DEFINE n == Len(seqs)
           X == Seq(T)
           G == [q \in (1 .. n) \X X |-> q[2] \o seqs[q[1]]]
           Rec(h) == h = [i \in 1 .. n |-> IF i = 1 THEN seqs[i] ELSE h[i - 1] \o seqs[i]]
           h == CHOOSE h : Rec(h)
<1>1. n \in Nat /\ \A i \in 1 .. n : seqs[i] \in X
  OBVIOUS
<1>2. PICK f \in [0 .. n -> X] : f = [i \in 0 .. n |-> IF i = 0 THEN <<>> ELSE f[i - 1] \o seqs[i]]
  <2>1. \A d, e \in X : d \o e \in X
    OBVIOUS
  <2>0. <<>> \in X
    OBVIOUS
  <2>2. \A i \in 1 .. n, d \in X : G[<<i, d>>] = d \o seqs[i]
    OBVIOUS
  <2> HIDE DEF n, X
  <2>3. G \in [(1 .. n) \X X -> X]
    BY <1>1, <2>1
  <2> HIDE DEF G
  <2>4. PICK f \in [0 .. n -> X] : Steps(n, <<>>, G, f)
    BY <1>1, <2>0, <2>3, StepsExist
  <2>5. ASSUME NEW i \in 0 .. n, i # 0 PROVE G[<<i, f[i - 1]>>] = f[i - 1] \o seqs[i]
    <3>1. i \in 1 .. n /\ i - 1 \in 0 .. n
      BY <1>1, <2>5
    <3> QED
      BY <2>2, <3>1
  <2>6. f = [i \in 0 .. n |-> IF i = 0 THEN <<>> ELSE f[i - 1] \o seqs[i]]
    BY <2>4, <2>5 DEF Steps
  <2> QED
    BY <2>6
<1>3. \A i \in 1 .. n : f[i] = f[i - 1] \o seqs[i]
  <2>1. \A i \in 1 .. n : i \in 0 .. n /\ i # 0
    BY <1>1
  <2> HIDE DEF n, X
  <2> QED
    BY <1>2, <2>1
<1>4. f[0] = <<>>
  BY <1>1, <1>2
<1>5. CASE n = 0
  <2>1. seqs = <<>>
    BY <1>5
  <2> QED
    BY <1>2, <1>4, <1>5, <2>1 DEF FlattenSeq, Joined
<1>6. CASE n # 0
  <2> DEFINE g == [i \in 1 .. n |-> f[i]]
  <2>1. f[1] = seqs[1]
    <3>1. 1 \in 1 .. n /\ 1 - 1 = 0
      BY <1>1, <1>6
    <3> HIDE DEF n
    <3>2. f[1] = <<>> \o seqs[1] /\ seqs[1] \in Seq(T)
      BY <1>1, <1>3, <1>4, <3>1
    <3> QED
      BY <3>2
  <2>2. ASSUME NEW i \in 1 .. n PROVE g[i] = IF i = 1 THEN seqs[i] ELSE g[i - 1] \o seqs[i]
    <3>1. i # 1 => i - 1 \in 1 .. n
      BY <1>1
    <3> QED
      BY <1>3, <2>1, <3>1
  <2>3. Rec(g)
    BY <2>2
  <2>4. Rec(h)
    BY <2>3
  <2>5. FlattenSeq(seqs) = h[n]
    BY <1>6 DEF FlattenSeq
  <2> HIDE DEF h, g
  <2>6. h[1] = seqs[1] /\ \A i \in 1 .. n : i # 1 => h[i] = h[i - 1] \o seqs[i]
    <3>1. 1 \in 1 .. n
      BY <1>1, <1>6
    <3> HIDE DEF n
    <3> QED
      BY <2>4, <3>1
  <2> DEFINE A == {i \in 0 .. n : i = 0 \/ h[i] = f[i]}
  <2>7. 0 \in A
    BY <1>1
  <2>8. ASSUME NEW i \in 1 .. n, i - 1 \in A PROVE i \in A
    <3>1. i \in 0 .. n /\ i # 0 /\ (i # 1 => i - 1 # 0)
      BY <1>1, <2>8
    <3>2. i - 1 = 0 \/ h[i - 1] = f[i - 1]
      BY <2>8
    <3> HIDE DEF n
    <3>3. h[i] = f[i]
      BY <1>3, <2>1, <2>6, <3>1, <3>2
    <3> QED
      BY <3>1, <3>3
  <2> HIDE DEF A, Rec
  <2>9. \A i \in 0 .. n : i \in A
    BY <1>1, <2>7, <2>8, Climbs
  <2>10. h[n] = f[n]
    BY <1>1, <1>6, <2>9 DEF A
  <2> QED
    BY <1>2, <2>5, <2>10 DEF Joined
<1> QED
  BY <1>5, <1>6

-----------------------------------------------------------------------------
(* The tokens left, and the first of them.                                 *)

Token1 == [pos : Int, seqs : (SUBSET Seqs) \ {{}}, out : BOOLEAN]
Tokens1(tokens) == tokens \in Seq(Token1)

Rises(q) == \A a, b \in DOMAIN q : a < b => q[a] < q[b]
\* q is the set S in order.
Lists(q, S) == q \in Seq(Nat) /\ Range(q) = S /\ Rises(q)

LEMMA TokenIs ==
  ASSUME Tokens1(batch), NEW k \in Idx
  PROVE  /\ k \in Nat /\ k \in 1 .. Len(batch) /\ batch[k].pos \in Int /\ batch[k].out \in BOOLEAN
         /\ SeqSet(k) \subseteq Seqs /\ SeqSet(k) # {} /\ SeqSet(k) \subseteq Nat /\ IsFiniteSet(SeqSet(k))
<1>1. k \in Nat /\ k \in 1 .. Len(batch) /\ batch[k] \in Token1
  BY DomainOf DEF Tokens1, Idx
<1>2. batch[k].pos \in Int /\ batch[k].out \in BOOLEAN /\ batch[k].seqs \in (SUBSET Seqs) \ {{}}
  BY <1>1 DEF Token1
<1> QED
  BY <1>1, <1>2, BatchAssumption, FS_Subset DEF SeqSet

LEMMA SelectsList ==
  ASSUME NEW q \in Seq(Nat), Rises(q), NEW S, NEW p, Selects(q, S, Len(q), p)
  PROVE  Lists(p, Range(q) \cap S)
<1>1. /\ p \in Seq(Nat)
      /\ \A x : x \in Range(p) <=> x \in S /\ \E i \in 1 .. Len(q) : q[i] = x
      /\ \A a, b \in DOMAIN p : a < b => \E i, j \in 1 .. Len(q) : i < j /\ q[i] = p[a] /\ q[j] = p[b]
  BY DEF Selects
<1>2. DOMAIN q = 1 .. Len(q)
  OBVIOUS
<1>3. Rises(p)
  <2> SUFFICES ASSUME NEW a \in DOMAIN p, NEW b \in DOMAIN p, a < b PROVE p[a] < p[b]
    BY DEF Rises
  <2>1. PICK i, j \in 1 .. Len(q) : i < j /\ q[i] = p[a] /\ q[j] = p[b]
    BY <1>1
  <2> QED
    BY <1>2, <2>1 DEF Rises
<1>4. Range(p) = Range(q) \cap S
  BY <1>1, <1>2 DEF Range
<1> QED
  BY <1>1, <1>3, <1>4 DEF Lists

LEMMA UnusedIs ==
  ASSUME Tokens1(batch)
  PROVE  Lists(Unused, Idx \ used)
<1> DEFINE all == [k \in Idx |-> k]
<1>1. Idx = 1 .. Len(batch) /\ Len(batch) \in Nat
  BY DomainOf DEF Tokens1, Idx
<1>2. all \in Seq(Nat) /\ DOMAIN all = Idx /\ Len(all) = Len(batch) /\ \A k \in Idx : all[k] = k
  <2> DEFINE n == Len(batch)
  <2>1. all = [k \in 1 .. n |-> k] /\ n \in Nat /\ \A k \in 1 .. n : k \in Nat
    BY <1>1
  <2> HIDE DEF n
  <2>2. [k \in 1 .. n |-> k] \in Seq(Nat) /\ Len([k \in 1 .. n |-> k]) = n
    BY <2>1
  <2> QED
    BY <2>1, <2>2 DEF n
<1>3. Range(all) = Idx /\ Rises(all)
  BY <1>2 DEF Range, Rises
<1>4. Unused = Kept(all, Idx \ used)
  BY DEF Unused
<1> HIDE DEF all
<1>5. Lists(Unused, Range(all) \cap (Idx \ used))
  BY <1>2, <1>3, <1>4, KeptSelects, SelectsList
<1>6. Range(all) \cap (Idx \ used) = Idx \ used
  BY <1>3
<1> QED
  BY <1>5, <1>6

LEMMA OfIs ==
  ASSUME Tokens1(batch), NEW ss
  PROVE  Lists(Of(ss), {k \in Idx \ used : SeqSet(k) = ss})
<1> DEFINE S == {k \in Idx : SeqSet(k) = ss}
<1>1. Unused \in Seq(Nat) /\ Rises(Unused) /\ Range(Unused) = Idx \ used
  BY UnusedIs DEF Lists
<1>2. Of(ss) = Kept(Unused, S)
  BY DEF Of
<1> HIDE DEF S
<1>3. Lists(Of(ss), Range(Unused) \cap S)
  BY <1>1, <1>2, KeptSelects, SelectsList
<1>4. Range(Unused) \cap S = {k \in Idx \ used : SeqSet(k) = ss}
  BY <1>1 DEF S
<1> QED
  BY <1>3, <1>4

\* p is the beginning of q.
Begins(p, q) == /\ p \in Seq(Nat) /\ q \in Seq(Nat) /\ Len(p) <= Len(q)
                /\ \A i \in DOMAIN p : p[i] = q[i]

LEMMA SubSeqBegins ==
  ASSUME NEW q \in Seq(Nat), NEW n \in Nat, n <= Len(q)
  PROVE  Begins(SubSeq(q, 1, n), q) /\ Len(SubSeq(q, 1, n)) = n
<1>1. \A i \in 1 .. n : q[i] \in Nat
  OBVIOUS
<1>2. /\ SubSeq(q, 1, n) \in Seq(Nat) /\ Len(SubSeq(q, 1, n)) = n
      /\ \A i \in 1 .. n : SubSeq(q, 1, n)[i] = q[i]
  <2>1. CASE n = 0
    BY <2>1, SubSeqProperties
  <2>2. CASE n # 0
    <3>1. 1 \in Int /\ n \in Int /\ n - 1 + 1 = n
      OBVIOUS
    <3> QED
      BY <1>1, <3>1, SubSeqProperties
  <2> QED
    BY <2>1, <2>2
<1> QED
  BY <1>2, DomainOf DEF Begins

LEMMA FirstOfBegins ==
  ASSUME NEW q \in Seq(Nat), NEW n \in Nat
  PROVE  Begins(FirstOf(q, n), q) /\ Len(FirstOf(q, n)) <= n
<1> DEFINE m == Min({n, Len(q)})
<1>1. Len(q) \in Nat /\ {n, Len(q)} \subseteq Nat /\ {n, Len(q)} # {}
  OBVIOUS
<1>2. m \in {n, Len(q)} /\ m <= n /\ m <= Len(q)
  BY <1>1, MinIs
<1>3. m \in Nat
  BY <1>1, <1>2
<1>4. FirstOf(q, n) = SubSeq(q, 1, m)
  BY DEF FirstOf
<1> HIDE DEF m
<1> QED
  BY <1>2, <1>3, <1>4, SubSeqBegins

LEMMA BeginsLower ==
  ASSUME NEW S, NEW q, Lists(q, S), NEW p, Begins(p, q)
  PROVE  /\ p \in Seq(Nat) /\ Rises(p) /\ Range(p) \subseteq S
         /\ \A x \in Range(p), y \in S \ Range(p) : x < y
<1>1. /\ p \in Seq(Nat) /\ q \in Seq(Nat) /\ Range(q) = S /\ Rises(q)
      /\ \A i \in DOMAIN p : i \in DOMAIN q /\ p[i] = q[i]
      /\ DOMAIN p = 1 .. Len(p) /\ DOMAIN q = 1 .. Len(q) /\ Len(p) \in Nat /\ Len(q) \in Nat
  <2>1. p \in Seq(Nat) /\ q \in Seq(Nat) /\ Len(p) <= Len(q) /\ \A i \in DOMAIN p : p[i] = q[i]
    BY DEF Begins
  <2>2. \A i \in DOMAIN p : i \in DOMAIN q
    BY <2>1
  <2> QED
    BY <2>1, <2>2, DomainOf DEF Lists
<1>2. Rises(p)
  BY <1>1 DEF Rises
<1>3. Range(p) \subseteq S
  BY <1>1 DEF Range
<1>4. ASSUME NEW x \in Range(p), NEW y \in S \ Range(p) PROVE x < y
  <2>1. PICK i \in DOMAIN p : p[i] = x
    BY DEF Range
  <2>2. PICK j \in DOMAIN q : q[j] = y
    BY <1>1 DEF Range
  <2>3. j \notin DOMAIN p
    BY <1>1, <2>2 DEF Range
  <2>4. i < j
    BY <1>1, <2>1, <2>2, <2>3
  <2> QED
    BY <1>1, <2>1, <2>2, <2>4 DEF Rises
<1> QED
  BY <1>1, <1>2, <1>3, <1>4

-----------------------------------------------------------------------------
(* The tokens of the ubatches in their order.                              *)

LEMMA ConcatIs ==
  ASSUME NEW p \in Seq(Nat), NEW q \in Seq(Nat)
  PROVE  /\ p \o q \in Seq(Nat) /\ Len(p \o q) = Len(p) + Len(q)
         /\ \A i \in DOMAIN p : i \in DOMAIN (p \o q) /\ (p \o q)[i] = p[i]
         /\ \A i \in DOMAIN q : Len(p) + i \in DOMAIN (p \o q) /\ (p \o q)[Len(p) + i] = q[i]
         /\ \A i \in DOMAIN (p \o q) : i \in DOMAIN p \/ \E j \in DOMAIN q : i = Len(p) + j
         /\ Range(p \o q) = Range(p) \cup Range(q)
<1> DEFINE r == p \o q
<1>1. /\ r \in Seq(Nat) /\ Len(r) = Len(p) + Len(q)
      /\ \A i \in 1 .. Len(p) : r[i] = p[i]
      /\ \A i \in 1 .. Len(q) : r[Len(p) + i] = q[i]
  BY ConcatProperties
<1>2. /\ DOMAIN p = 1 .. Len(p) /\ Len(p) \in Nat /\ DOMAIN q = 1 .. Len(q) /\ Len(q) \in Nat
      /\ DOMAIN r = 1 .. Len(r)
  BY <1>1, DomainOf
<1> HIDE DEF r
<1>3. \A i \in DOMAIN p : i \in DOMAIN r /\ r[i] = p[i]
  BY <1>1, <1>2
<1>4. \A i \in DOMAIN q : Len(p) + i \in DOMAIN r /\ r[Len(p) + i] = q[i]
  BY <1>1, <1>2
<1>5. \A i \in DOMAIN r : i \in DOMAIN p \/ \E j \in DOMAIN q : i = Len(p) + j
  <2> SUFFICES ASSUME NEW i \in DOMAIN r, i \notin DOMAIN p PROVE \E j \in DOMAIN q : i = Len(p) + j
    OBVIOUS
  <2>1. i - Len(p) \in DOMAIN q /\ i = Len(p) + (i - Len(p))
    BY <1>1, <1>2
  <2> QED
    BY <2>1
<1>6. Range(r) = Range(p) \cup Range(q)
  BY <1>3, <1>4, <1>5 DEF Range
<1> QED
  BY <1>1, <1>3, <1>4, <1>5, <1>6 DEF r

Ubatch1 == [idxs : Seq(Nat), n_seqs : Nat]

LEMMA FlatNone == Flat(<<>>) = <<>>
<1>1. [k \in DOMAIN <<>> |-> <<>>[k].idxs] = <<>>
  OBVIOUS
<1>2. \E f : Joined(<<>>, Nat, Len(<<>>), f) /\ FlattenSeq(<<>>) = f[Len(<<>>)]
  <2>1. <<>> \in Seq(Seq(Nat))
    OBVIOUS
  <2> QED
    BY <2>1, FlattenIs
<1> QED
  BY <1>1, <1>2 DEF Flat, Joined

LEMMA FlatMore ==
  ASSUME NEW us \in Seq(Ubatch1), NEW u \in Ubatch1
  PROVE  Flat(us) \in Seq(Nat) /\ Flat(Append(us, u)) = Flat(us) \o u.idxs
<1> DEFINE n == Len(us)
           p == [k \in DOMAIN us |-> us[k].idxs]
           q == [k \in DOMAIN Append(us, u) |-> Append(us, u)[k].idxs]
<1>1. /\ n \in Nat /\ DOMAIN us = 1 .. n /\ DOMAIN Append(us, u) = 1 .. n + 1
      /\ \A k \in 1 .. n : us[k] \in Ubatch1 /\ Append(us, u)[k] = us[k]
      /\ Append(us, u)[n + 1] = u
  OBVIOUS
<1>2. \A v \in Ubatch1 : v.idxs \in Seq(Nat)
  BY DEF Ubatch1
<1>3. p \in Seq(Seq(Nat)) /\ Len(p) = n
  BY <1>1, <1>2
<1>4. q \in Seq(Seq(Nat)) /\ Len(q) = n + 1 /\ q[n + 1] = u.idxs /\ \A k \in 1 .. n : q[k] = p[k]
  <2>1. \A k \in 1 .. n + 1 : k \in 1 .. n \/ k = n + 1
    BY <1>1
  <2>2. \A k \in 1 .. n : k \in 1 .. n + 1
    BY <1>1
  <2>3. n + 1 \in 1 .. n + 1
    BY <1>1
  <2>4. \A k \in 1 .. n + 1 : Append(us, u)[k] \in Ubatch1
    BY <1>1, <2>1
  <2>5. \A k \in 1 .. n + 1 : q[k] \in Seq(Nat)
    BY <1>1, <1>2, <2>4
  <2>6. q \in [1 .. n + 1 -> Seq(Nat)] /\ n + 1 \in Nat
    BY <1>1, <2>5
  <2>7. q[n + 1] = u.idxs /\ \A k \in 1 .. n : q[k] = p[k]
    BY <1>1, <2>2, <2>3
  <2> HIDE DEF q, n
  <2>8. q \in Seq(Seq(Nat)) /\ Len(q) = n + 1
    <3> DEFINE T == Seq(Nat)
               m == n + 1
    <3>1. q \in [1 .. m -> T] /\ m \in Nat
      BY <2>6
    <3> HIDE DEF T, m
    <3> QED
      BY <3>1 DEF T, m
  <2> QED
    BY <2>7, <2>8
<1>5. Flat(us) = FlattenSeq(p) /\ Flat(Append(us, u)) = FlattenSeq(q)
  BY DEF Flat
<1> HIDE DEF p, q, n
<1>6. PICK f : Joined(p, Nat, n, f) /\ FlattenSeq(p) = f[n]
  BY <1>3, FlattenIs
<1>7. PICK g : Joined(q, Nat, n + 1, g) /\ FlattenSeq(q) = g[n + 1]
  BY <1>4, FlattenIs
<1>8. f[0] = <<>> /\ \A i \in 1 .. n : f[i] = f[i - 1] \o p[i]
  <2>1. f = [i \in 0 .. n |-> IF i = 0 THEN <<>> ELSE f[i - 1] \o p[i]]
    BY <1>6 DEF Joined
  <2>2. \A i \in 1 .. n : i \in 0 .. n /\ i # 0
    BY <1>1
  <2> QED
    BY <1>1, <2>1, <2>2
<1>9. g[0] = <<>> /\ \A i \in 1 .. n + 1 : g[i] = g[i - 1] \o q[i]
  <2>1. g = [i \in 0 .. n + 1 |-> IF i = 0 THEN <<>> ELSE g[i - 1] \o q[i]]
    BY <1>7 DEF Joined
  <2>2. \A i \in 1 .. n + 1 : i \in 0 .. n + 1 /\ i # 0
    BY <1>1
  <2> QED
    BY <1>1, <2>1, <2>2
<1> DEFINE A == {i \in 0 .. n : f[i] = g[i]}
<1>10. 0 \in A
  BY <1>1, <1>8, <1>9
<1>11. ASSUME NEW i \in 1 .. n, i - 1 \in A PROVE i \in A
  <2>1. i \in 0 .. n /\ i \in 1 .. n + 1
    BY <1>1
  <2>2. f[i - 1] = g[i - 1]
    BY <1>11
  <2> QED
    BY <1>4, <1>8, <1>9, <2>1, <2>2
<1> HIDE DEF A
<1>12. f[n] = g[n]
  <2>1. \A i \in 0 .. n : i \in A
    BY <1>1, <1>10, <1>11, Climbs
  <2> QED
    BY <1>1, <2>1 DEF A
<1>13. g[n + 1] = g[n] \o u.idxs
  <2> DEFINE m == n + 1
  <2>1. m \in 1 .. n + 1 /\ m - 1 = n
    BY <1>1
  <2>2. q[m] = u.idxs
    BY <1>4
  <2>3. \A i \in 1 .. n + 1 : g[i] = g[i - 1] \o q[i]
    BY <1>9
  <2>4. m = n + 1
    OBVIOUS
  <2> HIDE DEF m
  <2>5. g[m] = g[m - 1] \o q[m]
    BY ONLY <2>1, <2>3
  <2> QED
    BY ONLY <2>1, <2>2, <2>4, <2>5
<1>14. f[n] \in Seq(Nat)
  BY <1>1, <1>6 DEF Joined
<1> QED
  BY <1>5, <1>6, <1>7, <1>12, <1>13, <1>14

-----------------------------------------------------------------------------
(* What every cut gives.                                                   *)

Once(q) == \A a, b \in DOMAIN q : q[a] = q[b] => a = b
Meets(x, y) == SeqSet(x) \cap SeqSet(y) # {}
\* tokens of a common sequence are in their order, and none of S comes after one of T
InOrder(q) == \A a, b \in DOMAIN q : a < b /\ Meets(q[a], q[b]) => q[a] < q[b]
Ahead(S, T) == \A x \in S, y \in T : Meets(x, y) => x < y

Fresh(u) == /\ u \in Ubatch1 /\ Range(u.idxs) \subseteq Idx \ used /\ Once(u.idxs)
            /\ u.idxs # <<>> => u.n_seqs # 0
Keeps(q) == InOrder(q) /\ Ahead(Range(q), (Idx \ used) \ Range(q))

LEMMA RisesOnce ==
  ASSUME NEW q \in Seq(Nat), Rises(q)
  PROVE  Once(q) /\ InOrder(q)
<1>1. InOrder(q)
  BY DEF Rises, InOrder
<1>2. Once(q)
  <2> SUFFICES ASSUME NEW a \in DOMAIN q, NEW b \in DOMAIN q, q[a] = q[b], a # b PROVE FALSE
    BY DEF Once
  <2>1. a \in Nat /\ b \in Nat /\ q[a] \in Nat /\ q[b] \in Nat
    BY DomainOf
  <2>2. a < b \/ b < a
    BY <2>1
  <2> QED
    BY <2>1, <2>2 DEF Rises
<1> QED
  BY <1>1, <1>2

LEMMA SingleSet ==
  ASSUME Tokens1(batch), ~ HasCpl, NEW k \in Idx
  PROVE  \E s \in Seqs : SeqSet(k) = {s}
<1>1. SeqSet(k) \subseteq Seqs /\ SeqSet(k) # {} /\ IsFiniteSet(SeqSet(k))
  BY TokenIs
<1>2. Cardinality(SeqSet(k)) \in Nat /\ Cardinality(SeqSet(k)) # 0
  BY <1>1, FS_CardinalityType, FS_EmptySet
<1>3. ~ Cardinality(SeqSet(k)) > 1
  BY DEF HasCpl
<1>4. Cardinality(SeqSet(k)) = 1
  BY <1>2, <1>3
<1>5. PICK s : SeqSet(k) = {s}
  BY <1>1, <1>4, FS_Singleton
<1> QED
  BY <1>1, <1>5

LEMMA MeetsSame ==
  ASSUME Tokens1(batch), ~ HasCpl, NEW x \in Idx, NEW y \in Idx
  PROVE  Meets(x, y) <=> SeqSet(x) = SeqSet(y)
BY SingleSet DEF Meets

LEMMA SimpleIs ==
  ASSUME Tokens1(batch), n_ubatch \in Nat
  PROVE  /\ Fresh(SplitSimple) /\ Keeps(SplitSimple.idxs)
         /\ Len(SplitSimple.idxs) <= n_ubatch
<1> DEFINE p == FirstOf(Unused, n_ubatch)
<1>1. SplitSimple.idxs = p /\ SplitSimple.n_seqs = Len(p) /\ SplitSimple = [idxs |-> p, n_seqs |-> Len(p)]
  BY DEF SplitSimple
<1>2. Lists(Unused, Idx \ used)
  BY UnusedIs
<1>3. Unused \in Seq(Nat)
  BY <1>2 DEF Lists
<1>4. Begins(p, Unused) /\ Len(p) <= n_ubatch
  BY <1>3, FirstOfBegins
<1> HIDE DEF p
<1>5. /\ p \in Seq(Nat) /\ Rises(p) /\ Range(p) \subseteq Idx \ used
      /\ \A x \in Range(p), y \in (Idx \ used) \ Range(p) : x < y
  BY <1>2, <1>4, BeginsLower
<1>6. Once(p) /\ InOrder(p)
  BY <1>5, RisesOnce
<1>7. p # <<>> => Len(p) # 0
  BY <1>5
<1>8. [idxs |-> p, n_seqs |-> Len(p)] \in Ubatch1
  BY <1>5 DEF Ubatch1
<1>9. Fresh(SplitSimple)
  BY <1>1, <1>5, <1>6, <1>7, <1>8 DEF Fresh
<1>10. Keeps(p)
  BY <1>5, <1>6 DEF Keeps, Ahead
<1> QED
  BY <1>1, <1>4, <1>9, <1>10

\* the chain of split_seq over the first k tokens
Chain(k, r) ==
  /\ r \in Seq(Nat) /\ Rises(r) /\ Range(r) \subseteq (1 .. k) \ used
  /\ r = <<>> => 1 .. k \subseteq used
  /\ ~ HasCpl => \A y \in (1 .. k) \ used : SeqSet(y) = SeqSet(Last(r)) <=> y \in Range(r)

ChainTakes(k, before) ==
  k \notin used /\ (before = <<>> \/ SeqSet(k) \subseteq SeqSet(Last(before)))

LEMMA ChainMore ==
  ASSUME Tokens1(batch), NEW k \in Idx, NEW r, Chain(k - 1, r)
  PROVE  Chain(k, IF ChainTakes(k, r) THEN Append(r, k) ELSE r)
<1>1. k \in Nat /\ 1 .. k = (1 .. k - 1) \cup {k} /\ k \notin 1 .. k - 1 /\ \A i \in 1 .. k - 1 : i < k
  BY TokenIs
<1>2. 1 .. k \subseteq Idx
  <2>1. Idx = 1 .. Len(batch) /\ Len(batch) \in Nat
    BY DomainOf DEF Tokens1, Idx
  <2> QED
    BY <1>1, <2>1
<1>3. /\ r \in Seq(Nat) /\ Rises(r) /\ Range(r) \subseteq (1 .. k - 1) \ used
      /\ r = <<>> => 1 .. k - 1 \subseteq used
      /\ ~ HasCpl => \A y \in (1 .. k - 1) \ used : SeqSet(y) = SeqSet(Last(r)) <=> y \in Range(r)
  BY DEF Chain
<1>4. r # <<>> => Last(r) \in Range(r)
  <2> SUFFICES ASSUME r # <<>> PROVE Last(r) \in Range(r)
    OBVIOUS
  <2>1. Len(r) \in DOMAIN r
    BY <1>3
  <2> QED
    BY <2>1 DEF Last, Range
<1>5. CASE ChainTakes(k, r)
  <2> DEFINE p == Append(r, k)
             n == Len(r)
  <2>1. /\ p \in Seq(Nat) /\ n \in Nat /\ Len(p) = n + 1 /\ p[n + 1] = k /\ Range(p) = Range(r) \cup {k}
        /\ \A a \in DOMAIN r : p[a] = r[a]
        /\ \A a \in DOMAIN p : a \in DOMAIN r \/ a = n + 1
        /\ DOMAIN p = 1 .. n + 1 /\ DOMAIN r = 1 .. n
    BY <1>1, <1>3, AppendIs
  <2> HIDE DEF p, n
  <2>2. k \notin used /\ (r = <<>> \/ SeqSet(k) \subseteq SeqSet(Last(r)))
    BY <1>5 DEF ChainTakes
  <2>3. Rises(p)
    <3> SUFFICES ASSUME NEW a \in DOMAIN p, NEW b \in DOMAIN p, a < b PROVE p[a] < p[b]
      BY DEF Rises
    <3>1. a \in DOMAIN r
      BY <2>1
    <3>2. r[a] \in 1 .. k - 1
      BY <1>3, <3>1 DEF Range
    <3>3. CASE b \in DOMAIN r
      BY <1>3, <2>1, <3>1, <3>3 DEF Rises
    <3>4. CASE b = n + 1
      BY <1>1, <2>1, <3>1, <3>2, <3>4
    <3> QED
      BY <2>1, <3>3, <3>4
  <2>4. Range(p) \subseteq (1 .. k) \ used
    BY <1>1, <1>3, <2>1, <2>2
  <2>5. p # <<>> /\ Last(p) = k
    BY <2>1 DEF Last
  <2>6. ASSUME ~ HasCpl, NEW y \in (1 .. k) \ used
        PROVE  SeqSet(y) = SeqSet(Last(p)) <=> y \in Range(p)
    <3>1. CASE y = k
      BY <2>1, <2>5, <3>1
    <3>2. CASE y # k
      <4>1. y \in (1 .. k - 1) \ used /\ r # <<>>
        BY <1>1, <1>3, <3>2
      <4>2. Last(r) \in Idx
        BY <1>1, <1>2, <1>3, <1>4, <4>1
      <4>3. SeqSet(k) = SeqSet(Last(r))
        BY <2>2, <2>6, <4>1, <4>2, SingleSet
      <4> QED
        BY <1>3, <2>1, <2>5, <2>6, <3>2, <4>1, <4>3
    <3> QED
      BY <3>1, <3>2
  <2>7. Chain(k, p)
    BY <2>1, <2>3, <2>4, <2>5, <2>6 DEF Chain
  <2> QED
    BY <1>5, <2>7 DEF p
<1>6. CASE ~ ChainTakes(k, r)
  <2>1. k \in used \/ (r # <<>> /\ ~ SeqSet(k) \subseteq SeqSet(Last(r)))
    BY <1>6 DEF ChainTakes
  <2>2. Range(r) \subseteq (1 .. k) \ used /\ (r = <<>> => 1 .. k \subseteq used)
    BY <1>1, <1>3, <2>1
  <2>3. ASSUME ~ HasCpl, NEW y \in (1 .. k) \ used
        PROVE  SeqSet(y) = SeqSet(Last(r)) <=> y \in Range(r)
    BY <1>1, <1>3, <2>1, <2>3
  <2>4. Chain(k, r)
    BY <1>3, <2>2, <2>3 DEF Chain
  <2> QED
    BY <1>6, <2>4
<1> QED
  BY <1>5, <1>6

LEMMA SeqIs ==
  ASSUME Tokens1(batch), n_ubatch \in Nat
  PROVE  /\ Fresh(SplitSeq) /\ (~ HasCpl => Keeps(SplitSeq.idxs))
         /\ Len(SplitSeq.idxs) <= n_ubatch
<1> DEFINE n == Len(batch)
           X == Seq(Nat)
           G == [q \in (1 .. n) \X X |-> IF ChainTakes(q[1], q[2]) THEN Append(q[2], q[1]) ELSE q[2]]
           Rec(f) == f = [k \in 0 .. n |-> IF k = 0 THEN <<>>
                            ELSE LET before == f[k - 1]
                                     takes == /\ k \notin used
                                              /\ before = <<>> \/ SeqSet(k) \subseteq SeqSet(Last(before))
                                 IN IF takes THEN Append(before, k) ELSE before]
           h == CHOOSE f : Rec(f)
           p == FirstOf(h[n], n_ubatch)
<1>1. n \in Nat /\ Idx = 1 .. n
  BY DomainOf DEF Tokens1, Idx
<1>2. \E f : Rec(f)
  <2>1. \A k \in 1 .. n, d \in X : Append(d, k) \in X
    OBVIOUS
  <2>2. \A k \in 1 .. n, d \in X : G[<<k, d>>] = IF ChainTakes(k, d) THEN Append(d, k) ELSE d
    OBVIOUS
  <2>3. <<>> \in X
    OBVIOUS
  <2> HIDE DEF n, X
  <2>4. G \in [(1 .. n) \X X -> X]
    BY <2>1
  <2> HIDE DEF G
  <2>5. PICK f \in [0 .. n -> X] : Steps(n, <<>>, G, f)
    BY <1>1, <2>3, <2>4, StepsExist
  <2>6. ASSUME NEW k \in 0 .. n, k # 0
        PROVE  G[<<k, f[k - 1]>>] = IF ChainTakes(k, f[k - 1]) THEN Append(f[k - 1], k) ELSE f[k - 1]
    <3>1. k \in 1 .. n /\ k - 1 \in 0 .. n
      BY <1>1, <2>6
    <3> QED
      BY <2>2, <3>1
  <2>7. Rec(f)
    BY <2>5, <2>6 DEF Steps, ChainTakes
  <2> QED
    BY <2>7
<1>3. Rec(h)
  BY <1>2
<1>4. SplitSeq = [idxs |-> p, n_seqs |-> 1]
  BY DEF SplitSeq
<1>5. SplitSeq.idxs = p
  BY <1>4
<1> HIDE DEF h
<1>6. /\ h[0] = <<>>
      /\ \A k \in 1 .. n : h[k] = IF ChainTakes(k, h[k - 1]) THEN Append(h[k - 1], k) ELSE h[k - 1]
  <2>1. 0 \in 0 .. n /\ \A k \in 1 .. n : k \in 0 .. n /\ k # 0
    BY <1>1
  <2> HIDE DEF n
  <2> QED
    BY <1>3, <2>1 DEF ChainTakes
<1> HIDE DEF Rec
<1> DEFINE A == {k \in 0 .. n : Chain(k, h[k])}
<1>7. 0 \in A
  <2>1. <<>> \in Seq(Nat) /\ DOMAIN <<>> = {} /\ 1 .. 0 = {}
    OBVIOUS
  <2>2. Chain(0, <<>>)
    BY <2>1 DEF Chain, Range, Rises
  <2> QED
    BY <1>1, <1>6, <2>2
<1>8. ASSUME NEW k \in 1 .. n, k - 1 \in A PROVE k \in A
  <2>1. Chain(k - 1, h[k - 1]) /\ k \in Idx /\ k \in 0 .. n
    BY <1>1, <1>8
  <2> QED
    BY <1>6, <2>1, ChainMore
<1> HIDE DEF A
<1>9. Chain(n, h[n])
  <2>1. \A k \in 0 .. n : k \in A
    BY <1>1, <1>7, <1>8, Climbs
  <2> QED
    BY <1>1, <2>1 DEF A
<1> DEFINE q == h[n]
<1>10. /\ q \in Seq(Nat) /\ Rises(q) /\ Range(q) \subseteq Idx \ used
       /\ ~ HasCpl => \A y \in Idx \ used : SeqSet(y) = SeqSet(Last(q)) <=> y \in Range(q)
  BY <1>1, <1>9 DEF Chain
<1>11. Lists(q, Range(q))
  BY <1>10 DEF Lists
<1>12. Begins(p, q) /\ Len(p) <= n_ubatch
  BY <1>10, FirstOfBegins
<1> HIDE DEF p, q
<1>13. /\ p \in Seq(Nat) /\ Rises(p) /\ Range(p) \subseteq Range(q)
       /\ \A x \in Range(p), y \in Range(q) \ Range(p) : x < y
  BY <1>11, <1>12, BeginsLower
<1>14. Once(p) /\ InOrder(p)
  BY <1>13, RisesOnce
<1>15. [idxs |-> p, n_seqs |-> 1] \in Ubatch1 /\ [idxs |-> p, n_seqs |-> 1].n_seqs # 0
  BY <1>13 DEF Ubatch1
<1>16. Fresh(SplitSeq)
  BY <1>4, <1>5, <1>10, <1>13, <1>14, <1>15 DEF Fresh
<1>17. ASSUME ~ HasCpl PROVE Keeps(p)
  <2> SUFFICES ASSUME NEW x \in Range(p), NEW y \in (Idx \ used) \ Range(p), Meets(x, y) PROVE x < y
    BY <1>14 DEF Keeps, Ahead
  <2>1. x \in Range(q) /\ x \in Idx \ used
    BY <1>10, <1>13
  <2>2. SeqSet(x) = SeqSet(y)
    BY <1>17, <2>1, MeetsSame
  <2>3. y \in Range(q)
    BY <1>10, <1>17, <2>1, <2>2
  <2> QED
    BY <1>13, <2>3
<1> QED
  BY <1>5, <1>12, <1>16, <1>17

-----------------------------------------------------------------------------
(* The sequence sets of split_equal.                                       *)

\* r are sequence sets of unused tokens among the first k, no two of a common sequence.
Sets(sequential, k, r) ==
  /\ r \in Seq(SUBSET Seqs)
  /\ \A i \in DOMAIN r : \E y \in (1 .. k) \ used : r[i] = SeqSet(y)
  /\ \A i, j \in DOMAIN r : i # j => r[i] \cap r[j] = {}
  /\ sequential = TRUE => \A i \in DOMAIN r : i > 1 => Min(r[i]) = Min(r[i - 1]) + 1

SetTaken(sequential, k, before) ==
  /\ k \notin used /\ Len(before) <= n_ubatch
  /\ \A i \in DOMAIN before : before[i] \cap SeqSet(k) = {}
  /\ sequential /\ before # <<>> => Min(SeqSet(k)) = Min(Last(before)) + 1

LEMMA SetsMore ==
  ASSUME Tokens1(batch), NEW sequential \in BOOLEAN, NEW k \in Idx, NEW r, Sets(sequential, k - 1, r)
  PROVE  Sets(sequential, k, IF SetTaken(sequential, k, r) THEN Append(r, SeqSet(k)) ELSE r)
<1>1. k \in Nat /\ 1 .. k = (1 .. k - 1) \cup {k} /\ SeqSet(k) \in SUBSET Seqs
  BY TokenIs
<1>2. /\ r \in Seq(SUBSET Seqs)
      /\ \A i \in DOMAIN r : \E y \in (1 .. k - 1) \ used : r[i] = SeqSet(y)
      /\ \A i, j \in DOMAIN r : i # j => r[i] \cap r[j] = {}
      /\ sequential = TRUE => \A i \in DOMAIN r : i > 1 => Min(r[i]) = Min(r[i - 1]) + 1
  BY DEF Sets
<1>3. \A i \in DOMAIN r : \E y \in (1 .. k) \ used : r[i] = SeqSet(y)
  BY <1>1, <1>2
<1>4. Sets(sequential, k, r)
  BY <1>2, <1>3 DEF Sets
<1>5. CASE SetTaken(sequential, k, r)
  <2> DEFINE p == Append(r, SeqSet(k))
             n == Len(r)
  <2>1. /\ p \in Seq(SUBSET Seqs) /\ n \in Nat /\ Len(p) = n + 1 /\ p[n + 1] = SeqSet(k)
        /\ \A a \in DOMAIN r : p[a] = r[a]
        /\ \A a \in DOMAIN p : a \in DOMAIN r \/ a = n + 1
        /\ DOMAIN p = 1 .. n + 1 /\ DOMAIN r = 1 .. n
    BY <1>1, <1>2, AppendIs
  <2>2. /\ k \notin used
        /\ \A i \in DOMAIN r : r[i] \cap SeqSet(k) = {}
        /\ sequential = TRUE /\ r # <<>> => Min(SeqSet(k)) = Min(r[n]) + 1
    <3>1. sequential = TRUE => sequential
      OBVIOUS
    <3> QED
      BY <1>5, <3>1 DEF SetTaken, Last
  <2> HIDE DEF p
  <2>0. n = 0 <=> r = <<>>
    BY <1>2
  <2> HIDE DEF n
  <2>3. \A i \in DOMAIN p : \E y \in (1 .. k) \ used : p[i] = SeqSet(y)
    <3>1. k \in (1 .. k) \ used
      BY <1>1, <2>2
    <3> QED
      BY <1>3, <2>1, <3>1
  <2>4. \A i, j \in DOMAIN p : i # j => p[i] \cap p[j] = {}
    <3> SUFFICES ASSUME NEW i \in DOMAIN p, NEW j \in DOMAIN p, i # j PROVE p[i] \cap p[j] = {}
      OBVIOUS
    <3>1. CASE i \in DOMAIN r /\ j \in DOMAIN r
      BY <1>2, <2>1, <3>1
    <3>2. CASE i = n + 1 /\ j \in DOMAIN r
      BY <2>1, <2>2, <3>2
    <3>3. CASE i \in DOMAIN r /\ j = n + 1
      BY <2>1, <2>2, <3>3
    <3> QED
      BY <2>1, <3>1, <3>2, <3>3
  <2>5. ASSUME sequential = TRUE, NEW i \in DOMAIN p, i > 1 PROVE Min(p[i]) = Min(p[i - 1]) + 1
    <3>1. i - 1 \in DOMAIN r
      BY <2>1, <2>5
    <3>2. CASE i \in DOMAIN r
      BY <1>2, <2>1, <2>5, <3>1, <3>2
    <3>3. CASE i = n + 1
      <4>1. i - 1 = n /\ n # 0
        BY <2>1, <3>1, <3>3
      <4> QED
        BY <2>0, <2>1, <2>2, <2>5, <3>1, <3>3, <4>1
    <3> QED
      BY <2>1, <3>2, <3>3
  <2>6. Sets(sequential, k, p)
    BY <2>1, <2>3, <2>4, <2>5 DEF Sets
  <2> QED
    BY <1>5, <2>6 DEF p
<1> QED
  BY <1>4, <1>5

LEMMA CurSetsAre ==
  ASSUME Tokens1(batch), NEW sequential \in BOOLEAN
  PROVE  Sets(sequential, Len(batch), CurSeqSets(sequential))
<1> DEFINE n == Len(batch)
           X == Seq(SUBSET Seqs)
           G == [q \in (1 .. n) \X X |->
                   IF SetTaken(sequential, q[1], q[2]) THEN Append(q[2], SeqSet(q[1])) ELSE q[2]]
           Rec(f) == f = [k \in 0 .. n |-> IF k = 0 THEN <<>>
                            ELSE LET before == f[k - 1]
                                     takes == /\ k \notin used /\ Len(before) <= n_ubatch
                                              /\ \A i \in DOMAIN before : before[i] \cap SeqSet(k) = {}
                                              /\ sequential /\ before # <<>> =>
                                                   Min(SeqSet(k)) = Min(Last(before)) + 1
                                 IN IF takes THEN Append(before, SeqSet(k)) ELSE before]
           h == CHOOSE f : Rec(f)
<1>1. n \in Nat /\ Idx = 1 .. n
  BY DomainOf DEF Tokens1, Idx
<1>2. \E f : Rec(f)
  <2>1. \A k \in 1 .. n, d \in X : Append(d, SeqSet(k)) \in X
    <3>1. \A k \in 1 .. n : SeqSet(k) \in SUBSET Seqs
      BY <1>1, TokenIs
    <3> QED
      BY <3>1
  <2>2. \A k \in 1 .. n, d \in X :
          G[<<k, d>>] = IF SetTaken(sequential, k, d) THEN Append(d, SeqSet(k)) ELSE d
    OBVIOUS
  <2>3. <<>> \in X
    OBVIOUS
  <2> HIDE DEF n, X
  <2>4. G \in [(1 .. n) \X X -> X]
    BY <2>1
  <2> HIDE DEF G
  <2>5. PICK f \in [0 .. n -> X] : Steps(n, <<>>, G, f)
    BY <1>1, <2>3, <2>4, StepsExist
  <2>6. ASSUME NEW k \in 0 .. n, k # 0
        PROVE  G[<<k, f[k - 1]>>] =
                 IF SetTaken(sequential, k, f[k - 1]) THEN Append(f[k - 1], SeqSet(k)) ELSE f[k - 1]
    <3>1. k \in 1 .. n /\ k - 1 \in 0 .. n
      BY <1>1, <2>6
    <3> QED
      BY <2>2, <3>1
  <2>7. Rec(f)
    BY <2>5, <2>6 DEF Steps, SetTaken
  <2> QED
    BY <2>7
<1>3. Rec(h)
  BY <1>2
<1>4. CurSeqSets(sequential) = h[n]
  BY DEF CurSeqSets
<1> HIDE DEF h
<1>6. /\ h[0] = <<>>
      /\ \A k \in 1 .. n : h[k] = IF SetTaken(sequential, k, h[k - 1])
                                  THEN Append(h[k - 1], SeqSet(k)) ELSE h[k - 1]
  <2>1. 0 \in 0 .. n /\ \A k \in 1 .. n : k \in 0 .. n /\ k # 0
    BY <1>1
  <2> HIDE DEF n
  <2> QED
    BY <1>3, <2>1 DEF SetTaken
<1> HIDE DEF Rec
<1> DEFINE A == {k \in 0 .. n : Sets(sequential, k, h[k])}
<1>7. 0 \in A
  <2>1. <<>> \in Seq(SUBSET Seqs) /\ DOMAIN <<>> = {}
    OBVIOUS
  <2>2. Sets(sequential, 0, <<>>)
    BY <2>1 DEF Sets
  <2> QED
    BY <1>1, <1>6, <2>2
<1>8. ASSUME NEW k \in 1 .. n, k - 1 \in A PROVE k \in A
  <2>1. Sets(sequential, k - 1, h[k - 1]) /\ k \in Idx /\ k \in 0 .. n
    BY <1>1, <1>8
  <2> QED
    BY <1>6, <2>1, SetsMore
<1> HIDE DEF A
<1>9. Sets(sequential, n, h[n])
  <2>1. \A k \in 0 .. n : k \in A
    BY <1>1, <1>7, <1>8, Climbs
  <2> QED
    BY <1>1, <2>1 DEF A
<1> QED
  BY <1>4, <1>9

\* There are no more of them than sequences.
LEMMA CurSetsFew ==
  ASSUME Tokens1(batch), NEW sequential \in BOOLEAN
  PROVE  Len(CurSeqSets(sequential)) <= Cardinality(Seqs)
<1> DEFINE q == CurSeqSets(sequential)
           n == Len(q)
           f == [i \in 1 .. n |-> Min(q[i])]
<1>1. /\ q \in Seq(SUBSET Seqs)
      /\ \A i \in DOMAIN q : \E y \in (1 .. Len(batch)) \ used : q[i] = SeqSet(y)
      /\ \A i, j \in DOMAIN q : i # j => q[i] \cap q[j] = {}
  BY CurSetsAre DEF Sets
<1>2. n \in Nat /\ DOMAIN q = 1 .. n
  BY <1>1
<1>3. Idx = 1 .. Len(batch)
  BY DomainOf DEF Tokens1, Idx
<1> HIDE DEF q, n
<1>4. \A i \in 1 .. n : Min(q[i]) \in q[i] /\ q[i] \subseteq Seqs
  <2> SUFFICES ASSUME NEW i \in 1 .. n PROVE Min(q[i]) \in q[i] /\ q[i] \subseteq Seqs
    OBVIOUS
  <2>1. PICK y \in Idx : q[i] = SeqSet(y)
    BY <1>1, <1>2, <1>3
  <2> QED
    BY <2>1, TokenIs, MinIs
<1>5. f \in [1 .. n -> Seqs] /\ \A i, j \in 1 .. n : f[i] = f[j] => i = j
  BY <1>1, <1>2, <1>4
<1> HIDE DEF f
<1>6. f \in Injection(1 .. n, Seqs)
  BY <1>5 DEF Injection, IsInjective
<1>7. Cardinality(1 .. n) <= Cardinality(Seqs)
  BY <1>6, BatchAssumption, FS_Injection
<1>8. Cardinality(1 .. n) = n
  <2>1. Cardinality(1 .. n) = IF 1 > n THEN 0 ELSE n - 1 + 1
    BY <1>2, FS_Interval
  <2> QED
    BY <1>2, <2>1
<1> QED
  BY <1>7, <1>8 DEF n, q

-----------------------------------------------------------------------------
(* Parts of the same length, one behind the other.                         *)

\* q is the first n parts, each of m members.
Evenly(parts, m, n, q) ==
  /\ q \in Seq(Nat) /\ Len(q) = n * m
  /\ \A j \in 1 .. n, x \in 1 .. m :
       (j - 1) * m + x \in DOMAIN q /\ q[(j - 1) * m + x] = parts[j][x]
  /\ \A a \in DOMAIN q : \E j \in 1 .. n, x \in 1 .. m : a = (j - 1) * m + x

LEMMA NextMultiple ==
  ASSUME NEW i \in Nat, NEW m \in Nat, i # 0
  PROVE  i * m = (i - 1) * m + m /\ (i - 1) * m \in Nat
<1>1. PICK d \in Nat : i = d + 1
  <2>1. i - 1 \in Nat /\ i = i - 1 + 1
    OBVIOUS
  <2> QED
    BY <2>1
<1>2. (d + 1) * m = d * m + m /\ d * m \in Nat
  OBVIOUS
<1>3. i - 1 = d
  BY <1>1
<1> QED
  BY ONLY <1>1, <1>2, <1>3

LEMMA EvenlyMore ==
  ASSUME NEW parts \in Seq(Seq(Nat)), NEW m \in Nat, \A j \in DOMAIN parts : Len(parts[j]) = m,
         NEW i \in DOMAIN parts, NEW q, Evenly(parts, m, i - 1, q)
  PROVE  Evenly(parts, m, i, q \o parts[i])
<1> DEFINE p == parts[i]
           r == q \o p
           c == (i - 1) * m
<1>1. i \in Nat /\ i # 0 /\ p \in Seq(Nat) /\ Len(p) = m /\ i \in 1 .. i
  BY DomainOf
<1>2. /\ q \in Seq(Nat) /\ Len(q) = c
      /\ \A j \in 1 .. i - 1, x \in 1 .. m :
           (j - 1) * m + x \in DOMAIN q /\ q[(j - 1) * m + x] = parts[j][x]
      /\ \A a \in DOMAIN q : \E j \in 1 .. i - 1, x \in 1 .. m : a = (j - 1) * m + x
  BY DEF Evenly
<1>3. i * m = c + m /\ c \in Nat
  BY <1>1, NextMultiple
<1> DEFINE z == i * m
<1>4. z = c + m
  BY <1>3
<1>5. /\ r \in Seq(Nat) /\ Len(r) = Len(q) + Len(p)
      /\ \A a \in DOMAIN q : a \in DOMAIN r /\ r[a] = q[a]
      /\ \A a \in DOMAIN p : Len(q) + a \in DOMAIN r /\ r[Len(q) + a] = p[a]
      /\ \A a \in DOMAIN r : a \in DOMAIN q \/ \E b \in DOMAIN p : a = Len(q) + b
  BY <1>1, <1>2, ConcatIs
<1>6. DOMAIN p = 1 .. m /\ 1 .. i = (1 .. i - 1) \cup {i}
  BY <1>1, DomainOf
<1>7. ASSUME NEW j \in 1 .. i, NEW x \in 1 .. m
      PROVE  (j - 1) * m + x \in DOMAIN r /\ r[(j - 1) * m + x] = parts[j][x]
  <2>1. CASE j \in 1 .. i - 1
    <3> DEFINE a == (j - 1) * m + x
    <3>1. a \in DOMAIN q /\ q[a] = parts[j][x]
      BY <1>2, <2>1
    <3> HIDE DEF a, r
    <3>2. a \in DOMAIN r /\ r[a] = parts[j][x]
      BY <1>5, <3>1
    <3> QED
      BY <3>2 DEF a
  <2>2. CASE j = i
    <3>1. (j - 1) * m + x = c + x
      BY <2>2
    <3>2. x \in DOMAIN p /\ p = parts[j]
      BY <1>6, <2>2
    <3> HIDE DEF c, r, p
    <3>3. c + x \in DOMAIN r /\ r[c + x] = p[x]
      BY <1>2, <1>5, <3>2
    <3> QED
      BY ONLY <3>1, <3>2, <3>3
  <2> QED
    BY <1>6, <2>1, <2>2
<1>8. ASSUME NEW a \in DOMAIN r
      PROVE  \E j \in 1 .. i, x \in 1 .. m : a = (j - 1) * m + x
  <2>1. CASE a \in DOMAIN q
    BY <1>2, <1>6, <2>1
  <2>2. CASE a \notin DOMAIN q
    <3> HIDE DEF r, p, c
    <3>1. PICK b \in 1 .. m : a = c + b
      BY <1>2, <1>5, <1>6, <2>2
    <3>2. a = (i - 1) * m + b
      BY ONLY <3>1 DEF c
    <3> QED
      BY <1>1, <3>2
  <2> QED
    BY <2>1, <2>2
<1>9. Len(r) = z
  <2> HIDE DEF z, c, r, p
  <2> QED
    BY <1>1, <1>2, <1>4, <1>5
<1>10. r \in Seq(Nat)
  BY <1>5
<1> HIDE DEF r, c, p
<1> QED
  BY <1>7, <1>8, <1>9, <1>10 DEF Evenly, r, p

LEMMA FlattenEven ==
  ASSUME NEW parts \in Seq(Seq(Nat)), NEW m \in Nat, \A j \in DOMAIN parts : Len(parts[j]) = m
  PROVE  Evenly(parts, m, Len(parts), FlattenSeq(parts))
<1> DEFINE n == Len(parts)
<1>1. n \in Nat /\ DOMAIN parts = 1 .. n
  OBVIOUS
<1>2. PICK f : Joined(parts, Nat, n, f) /\ FlattenSeq(parts) = f[n]
  BY FlattenIs
<1> HIDE DEF n
<1>3. f[0] = <<>> /\ \A i \in 1 .. n : f[i] = f[i - 1] \o parts[i]
  <2>1. f = [i \in 0 .. n |-> IF i = 0 THEN <<>> ELSE f[i - 1] \o parts[i]]
    BY <1>2 DEF Joined
  <2>2. \A i \in 1 .. n : i \in 0 .. n /\ i # 0
    BY <1>1
  <2> QED
    BY <1>1, <2>1, <2>2
<1> DEFINE A == {i \in 0 .. n : Evenly(parts, m, i, f[i])}
<1>4. 0 \in A
  <2>1. <<>> \in Seq(Nat) /\ DOMAIN <<>> = {} /\ 1 .. 0 = {} /\ Len(<<>>) = 0 /\ 0 * m = 0
    OBVIOUS
  <2>2. Evenly(parts, m, 0, <<>>)
    BY <2>1 DEF Evenly
  <2> QED
    BY <1>1, <1>3, <2>2
<1>5. ASSUME NEW i \in 1 .. n, i - 1 \in A PROVE i \in A
  <2>1. Evenly(parts, m, i - 1, f[i - 1]) /\ i \in DOMAIN parts /\ i \in 0 .. n
    BY <1>1, <1>5
  <2>2. Evenly(parts, m, i, f[i - 1] \o parts[i])
    BY <2>1, EvenlyMore
  <2> QED
    BY <1>3, <2>1, <2>2
<1> HIDE DEF A
<1>6. \A i \in 0 .. n : i \in A
  BY <1>1, <1>4, <1>5, Climbs
<1> QED
  BY <1>1, <1>2, <1>6 DEF A, n

LEMMA DivMult ==
  ASSUME NEW n \in Nat, n # 0, NEW m \in Nat
  PROVE  (n * m) % n = 0 /\ (n * m) \div n = m
<1>1. n * m \in Nat /\ n > 0
  OBVIOUS
<1> DEFINE a == n * m
<1>2. a \div n \in Nat /\ a % n \in 0 .. n - 1 /\ a = n * (a \div n) + (a % n)
  BY <1>1
<1> DEFINE d == a \div n
           e == a % n
<1>3. n * m = n * d + e /\ e >= 0 /\ e < n /\ d \in Nat /\ e \in Nat
  BY <1>2
<1> HIDE DEF d, e, a
<1>4. d = m
  <2>1. CASE d < m
    <3>1. PICK k \in Nat : m = d + 1 + k
      <4>1. m - d - 1 \in Nat /\ m = d + 1 + (m - d - 1)
        BY <1>3, <2>1
      <4> QED
        BY <4>1
    <3>2. n * (d + 1 + k) = n * d + n + n * k /\ n * k \in Nat
      BY <1>3
    <3> QED
      BY <1>1, <1>3, <3>1, <3>2
  <2>2. CASE d > m
    <3>1. PICK k \in Nat : d = m + 1 + k
      <4>1. d - m - 1 \in Nat /\ d = m + 1 + (d - m - 1)
        BY <1>3, <2>2
      <4> QED
        BY <4>1
    <3>2. n * (m + 1 + k) = n * m + n + n * k /\ n * k \in Nat
      BY <1>3
    <3> QED
      BY <1>1, <1>3, <3>1, <3>2
  <2> QED
    BY <1>3, <2>1, <2>2
<1>5. e = 0
  BY <1>3, <1>4
<1> QED
  BY <1>4, <1>5 DEF a, d, e

LEMMA DivFits ==
  ASSUME NEW n \in Nat, n # 0, NEW b \in Nat, n <= b
  PROVE  b \div n \in Nat /\ b \div n >= 1 /\ n * (b \div n) <= b
<1>1. b \div n \in Nat /\ b = n * (b \div n) + (b % n) /\ b % n \in 0 .. n - 1
  OBVIOUS
<1>2. CASE b \div n = 0
  BY <1>1, <1>2
<1>3. CASE b \div n # 0
  BY <1>1, <1>3
<1> QED
  BY <1>2, <1>3

LEMMA TimesLess ==
  ASSUME NEW n \in Nat, NEW m \in Nat, NEW d \in Nat, m <= d
  PROVE  n * m <= n * d
<1>1. PICK k \in Nat : d = m + k
  <2>1. d - m \in Nat /\ d = m + (d - m)
    OBVIOUS
  <2> QED
    BY <2>1
<1>2. n * (m + k) = n * m + n * k /\ n * k \in Nat /\ n * m \in Nat
  OBVIOUS
<1> QED
  BY <1>1, <1>2

LEMMA PartIs ==
  ASSUME NEW parts \in Seq(Seq(Nat)), NEW m \in Nat, \A j \in DOMAIN parts : Len(parts[j]) = m,
         parts # <<>>, NEW u, u.idxs = FlattenSeq(parts), u.n_seqs = Len(parts)
  PROVE  /\ Len(u.idxs) % u.n_seqs = 0
         /\ \A j \in 1 .. u.n_seqs : Part(u, j) = parts[j]
<1> DEFINE n == Len(parts)
           q == u.idxs
<1>1. n \in Nat /\ n # 0 /\ DOMAIN parts = 1 .. n /\ \A j \in 1 .. n : parts[j] \in Seq(Nat)
  OBVIOUS
<1>2. Evenly(parts, m, n, q)
  BY FlattenEven
<1> HIDE DEF n, q
<1>3. /\ q \in Seq(Nat) /\ Len(q) = n * m
      /\ \A j \in 1 .. n, x \in 1 .. m : q[(j - 1) * m + x] = parts[j][x]
  BY <1>2 DEF Evenly
<1>4. Len(q) % n = 0 /\ Len(q) \div n = m
  BY <1>1, <1>3, DivMult
<1>5. ASSUME NEW j \in 1 .. n PROVE Part(u, j) = parts[j]
  <2> DEFINE c == (j - 1) * m
             r == SubSeq(q, c + 1, j * m)
  <2>1. j * m = c + m /\ c \in Nat
    BY <1>1, NextMultiple
  <2>2. Part(u, j) = r
    BY <1>1, <1>4 DEF Part, q, n
  <2>3. r = SubSeq(q, c + 1, c + m)
    BY <2>1
  <2>4. \A x \in 1 .. m : q[c + x] = parts[j][x]
    BY <1>3
  <2>5. parts[j] \in Seq(Nat) /\ Len(parts[j]) = m /\ \A x \in 1 .. m : parts[j][x] \in Nat
    <3>1. parts[j] \in Seq(Nat) /\ Len(parts[j]) = m
      BY <1>1
    <3> QED
      BY <3>1, DomainOf
  <2>6. c \in Nat
    BY <2>1
  <2> HIDE DEF r, c
  <2>7. \A i \in c + 1 .. c + m : q[i] \in Nat
    <3> SUFFICES ASSUME NEW i \in c + 1 .. c + m PROVE q[i] \in Nat
      OBVIOUS
    <3>1. PICK x \in 1 .. m : i = c + x
      <4>1. i - c \in 1 .. m /\ i = c + (i - c)
        BY <2>6
      <4> QED
        BY <4>1
    <3> QED
      BY <2>4, <2>5, <3>1
  <2>8. c + 1 \in Int /\ c + m \in Int
    BY <2>6
  <2> DEFINE lo == c + 1
             hi == c + m
  <2>a. lo \in Int /\ hi \in Int /\ \A i \in lo .. hi : q[i] \in Nat
    BY <2>7, <2>8
  <2>b. r = SubSeq(q, lo, hi)
    BY <2>3
  <2>c. lo = c + 1 /\ hi = c + m
    OBVIOUS
  <2> HIDE DEF lo, hi
  <2>9. /\ r \in Seq(Nat)
        /\ Len(r) = IF lo <= hi THEN hi - lo + 1 ELSE 0
        /\ \A x \in 1 .. hi - lo + 1 : r[x] = q[lo + x - 1]
    BY ONLY <2>a, <2>b, SubSeqProperties
  <2>10. Len(r) = m
    BY <2>6, <2>9, <2>c
  <2>11. ASSUME NEW x \in 1 .. m PROVE r[x] = q[c + x]
    <3>1. x \in 1 .. hi - lo + 1 /\ lo + x - 1 = c + x
      BY <2>6, <2>c
    <3>2. r[x] = q[lo + x - 1]
      BY <2>9, <3>1
    <3> QED
      BY <3>1, <3>2
  <2>12. r = parts[j]
    <3>1. \A x \in 1 .. Len(r) : r[x] = parts[j][x]
      BY <2>4, <2>10, <2>11
    <3> QED
      BY <2>5, <2>9, <2>10, <3>1, SeqEqual
  <2> QED
    BY <2>2, <2>12
<1> QED
  BY <1>4, <1>5 DEF n, q

-----------------------------------------------------------------------------
(* The cut of equal parts.                                                 *)

\* parts are the beginnings, m tokens each, of what is left of the sets.
PartsOf(sets, parts, m) ==
  /\ parts \in Seq(Seq(Nat)) /\ Len(parts) = Len(sets) /\ m \in Nat
  /\ \A j \in DOMAIN parts : Len(parts[j]) = m /\ Begins(parts[j], Of(sets[j]))

SplitParts(sequential) ==
  LET sets == CurSeqSets(sequential)
      n_seq_tokens == Min({Len(Of(ss)) : ss \in Range(sets)}
                            \cup {Max({1, n_ubatch \div Len(sets)})})
  IN [j \in DOMAIN sets |-> SubSeq(Of(sets[j]), 1, n_seq_tokens)]

LEMMA SplitPartsAre ==
  ASSUME Tokens1(batch), n_ubatch \in Nat, NEW sequential \in BOOLEAN, CurSeqSets(sequential) # <<>>
  PROVE  \E m \in Nat : /\ PartsOf(CurSeqSets(sequential), SplitParts(sequential), m)
                        /\ m <= Max({1, n_ubatch \div Len(CurSeqSets(sequential))})
<1> DEFINE sets == CurSeqSets(sequential)
           n == Len(sets)
           d == Max({1, n_ubatch \div n})
           S == {Len(Of(ss)) : ss \in Range(sets)} \cup {d}
           m == Min(S)
           parts == [j \in DOMAIN sets |-> SubSeq(Of(sets[j]), 1, m)]
<1>0. SplitParts(sequential) = parts
  BY DEF SplitParts
<1>1. sets \in Seq(SUBSET Seqs)
  BY CurSetsAre DEF Sets
<1>2. n \in Nat /\ n # 0 /\ DOMAIN sets = 1 .. n
  BY <1>1
<1>3. \A ss : Of(ss) \in Seq(Nat) /\ Len(Of(ss)) \in Nat
  BY OfIs, DomainOf DEF Lists
<1> HIDE DEF sets, n
<1>4. d \in Nat
  <2>1. n_ubatch \div n \in Nat
    BY <1>2
  <2>2. {1, n_ubatch \div n} \subseteq Int /\ IsFiniteSet({1, n_ubatch \div n}) /\ {1, n_ubatch \div n} # {}
    <3> DEFINE b == n_ubatch \div n
    <3>1. b \in Nat
      BY <2>1
    <3> HIDE DEF b
    <3>2. {1, b} = {1} \cup {b} /\ {1, b} \subseteq Int /\ {1, b} # {}
      BY <3>1
    <3>3. IsFiniteSet({1})
      BY FS_Singleton
    <3>4. IsFiniteSet({1} \cup {b})
      BY <3>3, FS_AddElement
    <3>5. {1, b} \subseteq Int /\ IsFiniteSet({1, b}) /\ {1, b} # {}
      BY <3>2, <3>4
    <3> QED
      BY <3>5 DEF b
  <2>3. d \in {1, n_ubatch \div n}
    BY <2>2, MaxIs
  <2> QED
    BY <2>1, <2>3
<1> HIDE DEF d
<1>5. S \subseteq Nat /\ S # {} /\ d \in S
  BY <1>3, <1>4
<1>6. m \in S /\ \A x \in S : m <= x
  BY <1>5, MinIs
<1>7. m \in Nat /\ m <= d
  BY <1>5, <1>6
<1>8. \A j \in 1 .. n : m <= Len(Of(sets[j]))
  <2>1. \A j \in 1 .. n : Len(Of(sets[j])) \in S
    BY <1>2 DEF Range
  <2> HIDE DEF S, m
  <2> QED
    BY <1>6, <2>1
<1> HIDE DEF m, S
<1>9. ASSUME NEW j \in 1 .. n PROVE Len(parts[j]) = m /\ Begins(parts[j], Of(sets[j]))
  <2>1. parts[j] = SubSeq(Of(sets[j]), 1, m)
    BY <1>2
  <2>2. Of(sets[j]) \in Seq(Nat) /\ m <= Len(Of(sets[j]))
    BY <1>3, <1>8
  <2> HIDE DEF parts
  <2> QED
    BY <1>7, <2>1, <2>2, SubSeqBegins
<1>10. parts \in Seq(Seq(Nat)) /\ Len(parts) = n
  <2> DEFINE X == Seq(Nat)
  <2>1. \A j \in 1 .. n : parts[j] \in X
    BY <1>9 DEF Begins
  <2>2. parts \in [1 .. n -> X]
    BY <1>2, <2>1
  <2> HIDE DEF parts, X
  <2>3. parts \in Seq(X) /\ Len(parts) = n
    BY <1>2, <2>2
  <2> QED
    BY <2>3 DEF X
<1> HIDE DEF parts
<1>11. PartsOf(sets, parts, m)
  <2>1. DOMAIN parts = 1 .. n
    BY <1>10
  <2> QED
    BY <1>7, <1>9, <1>10, <2>1 DEF PartsOf, n
<1> QED
  BY <1>0, <1>7, <1>11 DEF sets, n, d

\* p is m unused tokens of one sequence set, the first of those that are left.
PartOf(p, m, ss) ==
  /\ p \in Seq(Nat) /\ Len(p) = m /\ Rises(p)
  /\ \A a \in DOMAIN p : p[a] \in Idx \ used /\ SeqSet(p[a]) = ss
  /\ \A x \in Range(p), y \in Idx \ used : SeqSet(y) = ss /\ y \notin Range(p) => x < y

LEMMA PartsBegin ==
  ASSUME Tokens1(batch), NEW sets, NEW parts, NEW m, PartsOf(sets, parts, m)
  PROVE  \A j \in 1 .. Len(parts) : PartOf(parts[j], m, sets[j])
<1> SUFFICES ASSUME NEW j \in 1 .. Len(parts) PROVE PartOf(parts[j], m, sets[j])
  OBVIOUS
<1> DEFINE p == parts[j]
           S == {k \in Idx \ used : SeqSet(k) = sets[j]}
<1>1. parts \in Seq(Seq(Nat)) /\ \A i \in DOMAIN parts : Len(parts[i]) = m /\ Begins(parts[i], Of(sets[i]))
  BY DEF PartsOf
<1>2. Len(p) = m /\ Begins(p, Of(sets[j]))
  BY <1>1
<1>3. Lists(Of(sets[j]), S)
  BY OfIs
<1> HIDE DEF p, S
<1>4. /\ p \in Seq(Nat) /\ Rises(p) /\ Range(p) \subseteq S
      /\ \A x \in Range(p), y \in S \ Range(p) : x < y
  BY <1>2, <1>3, BeginsLower
<1>5. \A a \in DOMAIN p : p[a] \in S
  BY <1>4 DEF Range
<1> QED
  BY <1>2, <1>4, <1>5 DEF PartOf, p, S

\* Where the tokens of such parts are.
InParts(sets, parts, m, q) ==
  /\ q \in Seq(Nat) /\ Len(q) = Len(sets) * m
  /\ \A a \in DOMAIN q : \E j \in 1 .. Len(sets), x \in 1 .. m :
       /\ a = (j - 1) * m + x /\ x \in DOMAIN parts[j] /\ q[a] = parts[j][x]
  /\ \A j \in 1 .. Len(sets), x \in 1 .. m : parts[j][x] \in Range(q)

LEMMA PartsHold ==
  ASSUME Tokens1(batch), NEW sets, NEW parts, NEW m, PartsOf(sets, parts, m)
  PROVE  InParts(sets, parts, m, FlattenSeq(parts))
<1> DEFINE q == FlattenSeq(parts)
           n == Len(sets)
<1>1. parts \in Seq(Seq(Nat)) /\ Len(parts) = n /\ m \in Nat /\ \A j \in DOMAIN parts : Len(parts[j]) = m
  BY DEF PartsOf
<1>2. Evenly(parts, m, n, q)
  BY <1>1, FlattenEven
<1> HIDE DEF q, n
<1>3. /\ q \in Seq(Nat) /\ Len(q) = n * m
      /\ \A j \in 1 .. n, x \in 1 .. m : (j - 1) * m + x \in DOMAIN q /\ q[(j - 1) * m + x] = parts[j][x]
      /\ \A a \in DOMAIN q : \E j \in 1 .. n, x \in 1 .. m : a = (j - 1) * m + x
  BY <1>2 DEF Evenly
<1>4. \A j \in 1 .. n : DOMAIN parts[j] = 1 .. m
  <2> SUFFICES ASSUME NEW j \in 1 .. n PROVE DOMAIN parts[j] = 1 .. m
    OBVIOUS
  <2>1. j \in DOMAIN parts /\ parts[j] \in Seq(Nat)
    BY <1>1
  <2>2. Len(parts[j]) = m
    BY <1>1, <2>1
  <2> QED
    BY <2>1, <2>2, DomainOf
<1>5. ASSUME NEW a \in DOMAIN q
      PROVE  \E j \in 1 .. n, x \in 1 .. m : a = (j - 1) * m + x /\ x \in DOMAIN parts[j] /\ q[a] = parts[j][x]
  <2>1. PICK j \in 1 .. n, x \in 1 .. m : a = (j - 1) * m + x
    BY <1>3
  <2>2. q[(j - 1) * m + x] = parts[j][x] /\ x \in DOMAIN parts[j]
    BY <1>3, <1>4
  <2> QED
    BY ONLY <2>1, <2>2
<1>6. ASSUME NEW j \in 1 .. n, NEW x \in 1 .. m PROVE parts[j][x] \in Range(q)
  <2> DEFINE a == (j - 1) * m + x
  <2>1. a \in DOMAIN q /\ q[a] = parts[j][x]
    BY <1>3
  <2> HIDE DEF a
  <2> QED
    BY <2>1 DEF Range
<1> QED
  BY <1>3, <1>5, <1>6 DEF InParts, q, n

LEMMA PartsInOrder ==
  ASSUME Tokens1(batch), NEW sequential, NEW sets, Sets(sequential, Len(batch), sets),
         NEW parts, NEW m \in Nat, NEW q, InParts(sets, parts, m, q),
         \A j \in 1 .. Len(sets) : PartOf(parts[j], m, sets[j])
  PROVE  Range(q) \subseteq Idx \ used /\ Once(q) /\ InOrder(q) /\ (~ HasCpl => Keeps(q))
<1> DEFINE n == Len(sets)
<1>1. /\ q \in Seq(Nat)
      /\ \A a \in DOMAIN q : \E j \in 1 .. n, x \in 1 .. m :
           a = (j - 1) * m + x /\ x \in DOMAIN parts[j] /\ q[a] = parts[j][x]
      /\ \A j \in 1 .. n, x \in 1 .. m : parts[j][x] \in Range(q)
  BY DEF InParts
<1>2. \A j \in 1 .. n :
        /\ parts[j] \in Seq(Nat) /\ Len(parts[j]) = m /\ Rises(parts[j])
        /\ \A a \in DOMAIN parts[j] : parts[j][a] \in Idx \ used /\ SeqSet(parts[j][a]) = sets[j]
        /\ \A x \in Range(parts[j]), y \in Idx \ used :
             SeqSet(y) = sets[j] /\ y \notin Range(parts[j]) => x < y
  BY DEF PartOf
<1>3. n \in Nat /\ \A i, j \in 1 .. n : i # j => sets[i] \cap sets[j] = {}
  <2>1. sets \in Seq(SUBSET Seqs) /\ \A i, j \in DOMAIN sets : i # j => sets[i] \cap sets[j] = {}
    BY DEF Sets
  <2> QED
    BY <2>1
<1> HIDE DEF n
<1>4. ASSUME NEW a \in DOMAIN q PROVE q[a] \in Idx \ used
  <2>1. PICK j \in 1 .. n, x \in 1 .. m : x \in DOMAIN parts[j] /\ q[a] = parts[j][x]
    BY <1>1
  <2> QED
    BY <1>2, <2>1
<1>5. Range(q) \subseteq Idx \ used
  BY <1>4 DEF Range
<1>6. ASSUME NEW a \in DOMAIN q, NEW b \in DOMAIN q, Meets(q[a], q[b])
      PROVE  \E j \in 1 .. n, x, y \in 1 .. m :
               /\ a = (j - 1) * m + x /\ x \in DOMAIN parts[j] /\ q[a] = parts[j][x]
               /\ b = (j - 1) * m + y /\ y \in DOMAIN parts[j] /\ q[b] = parts[j][y]
  <2>1. PICK j \in 1 .. n, x \in 1 .. m :
          a = (j - 1) * m + x /\ x \in DOMAIN parts[j] /\ q[a] = parts[j][x]
    BY <1>1
  <2>2. PICK l \in 1 .. n, y \in 1 .. m :
          b = (l - 1) * m + y /\ y \in DOMAIN parts[l] /\ q[b] = parts[l][y]
    BY <1>1
  <2>3. SeqSet(q[a]) = sets[j] /\ SeqSet(q[b]) = sets[l]
    BY <1>2, <2>1, <2>2
  <2>4. j = l
    BY <1>3, <1>6, <2>3 DEF Meets
  <2> QED
    BY ONLY <2>1, <2>2, <2>4
<1>7. Once(q)
  <2> SUFFICES ASSUME NEW a \in DOMAIN q, NEW b \in DOMAIN q, q[a] = q[b] PROVE a = b
    BY DEF Once
  <2>1. SeqSet(q[a]) # {}
    BY <1>4, TokenIs
  <2>2. Meets(q[a], q[b])
    BY <2>1 DEF Meets
  <2>3. PICK j \in 1 .. n, x, y \in 1 .. m :
               /\ a = (j - 1) * m + x /\ x \in DOMAIN parts[j] /\ q[a] = parts[j][x]
               /\ b = (j - 1) * m + y /\ y \in DOMAIN parts[j] /\ q[b] = parts[j][y]
    BY <1>6, <2>2
  <2>4. Once(parts[j])
    BY <1>2, RisesOnce
  <2>5. x = y
    BY <2>3, <2>4 DEF Once
  <2> QED
    BY ONLY <2>3, <2>5
<1>8. InOrder(q)
  <2> SUFFICES ASSUME NEW a \in DOMAIN q, NEW b \in DOMAIN q, a < b, Meets(q[a], q[b]) PROVE q[a] < q[b]
    BY DEF InOrder
  <2>1. PICK j \in 1 .. n, x, y \in 1 .. m :
               /\ a = (j - 1) * m + x /\ x \in DOMAIN parts[j] /\ q[a] = parts[j][x]
               /\ b = (j - 1) * m + y /\ y \in DOMAIN parts[j] /\ q[b] = parts[j][y]
    BY <1>6
  <2>2. x < y
    <3> DEFINE c == (j - 1) * m
    <3>1. c \in Int
      BY <1>3
    <3>2. a = c + x /\ b = c + y
      BY <2>1
    <3> HIDE DEF c
    <3> QED
      BY <3>1, <3>2
  <2> QED
    BY <1>2, <2>1, <2>2 DEF Rises
<1>9. ASSUME ~ HasCpl PROVE Keeps(q)
  <2> SUFFICES ASSUME NEW u \in Range(q), NEW y \in (Idx \ used) \ Range(q), Meets(u, y) PROVE u < y
    BY <1>8 DEF Keeps, Ahead
  <2>1. PICK a \in DOMAIN q : q[a] = u
    BY DEF Range
  <2>2. PICK j \in 1 .. n, x \in 1 .. m : x \in DOMAIN parts[j] /\ q[a] = parts[j][x]
    BY <1>1
  <2>3. SeqSet(u) = sets[j] /\ u \in Idx /\ u \in Range(parts[j])
    BY <1>2, <2>1, <2>2 DEF Range
  <2>4. SeqSet(y) = sets[j]
    BY <1>9, <2>3, MeetsSame
  <2>5. y \notin Range(parts[j])
    <3>1. DOMAIN parts[j] = 1 .. m
      BY <1>2, DomainOf
    <3> QED
      BY <1>1, <3>1 DEF Range
  <2> QED
    BY <1>2, <2>3, <2>4, <2>5
<1> QED
  BY <1>5, <1>7, <1>8, <1>9

EvenParts(u, sequential) ==
  /\ Len(u.idxs) % u.n_seqs = 0
  /\ \A j \in 1 .. u.n_seqs :
       LET p == Part(u, j)
       IN /\ \A a, b \in DOMAIN p : SeqSet(p[a]) = SeqSet(p[b]) /\ (a < b => p[a] < p[b])
          /\ \A i \in 1 .. j - 1 : SeqSet(p[1]) \cap SeqSet(Part(u, i)[1]) = {}
          /\ sequential = TRUE /\ j > 1 => SeqSet(p[1]) = {Min(SeqSet(Part(u, j - 1)[1])) + 1}

LEMMA PartsEven ==
  ASSUME Tokens1(batch), NEW sequential \in BOOLEAN, sequential = TRUE => ~ HasCpl,
         NEW sets, Sets(sequential, Len(batch), sets), sets # <<>>,
         NEW parts, NEW m \in Nat, PartsOf(sets, parts, m), m # 0,
         NEW u, u.idxs = FlattenSeq(parts), u.n_seqs = Len(sets)
  PROVE  EvenParts(u, sequential)
<1> DEFINE n == Len(sets)
<1>1. /\ sets \in Seq(SUBSET Seqs) /\ n \in Nat /\ DOMAIN sets = 1 .. n /\ n # 0
      /\ \A i, j \in 1 .. n : i # j => sets[i] \cap sets[j] = {}
      /\ \A i \in 1 .. n : \E y \in (1 .. Len(batch)) \ used : sets[i] = SeqSet(y)
      /\ sequential = TRUE => \A i \in 1 .. n : i > 1 => Min(sets[i]) = Min(sets[i - 1]) + 1
  <2>1. sets \in Seq(SUBSET Seqs)
    BY DEF Sets
  <2>2. n \in Nat /\ DOMAIN sets = 1 .. n /\ n # 0
    BY <2>1
  <2> HIDE DEF n
  <2> QED
    BY <2>1, <2>2 DEF Sets
<1>2. \A j \in 1 .. n : PartOf(parts[j], m, sets[j])
  <2>1. Len(parts) = n
    BY DEF PartsOf
  <2> QED
    BY <2>1, PartsBegin
<1>3. Len(u.idxs) % n = 0 /\ \A j \in 1 .. n : Part(u, j) = parts[j]
  <2>1. /\ parts \in Seq(Seq(Nat)) /\ Len(parts) = n
        /\ \A j \in DOMAIN parts : Len(parts[j]) = m
    BY DEF PartsOf
  <2>2. parts # <<>>
    BY <1>1, <2>1
  <2>3. u.n_seqs = Len(parts)
    BY <2>1
  <2> HIDE DEF n
  <2>4. Len(u.idxs) % u.n_seqs = 0 /\ \A j \in 1 .. u.n_seqs : Part(u, j) = parts[j]
    BY <2>1, <2>2, <2>3, PartIs
  <2> QED
    BY <2>1, <2>3, <2>4
<1>4. u.n_seqs = n
  OBVIOUS
<1> HIDE DEF n
<1>5. \A j \in 1 .. n : SeqSet(parts[j][1]) = sets[j]
  <2> SUFFICES ASSUME NEW j \in 1 .. n PROVE SeqSet(parts[j][1]) = sets[j]
    OBVIOUS
  <2>1. PartOf(parts[j], m, sets[j])
    BY <1>2
  <2>2. DOMAIN parts[j] = 1 .. m /\ 1 \in 1 .. m
    <3>1. parts[j] \in Seq(Nat) /\ Len(parts[j]) = m
      BY <2>1 DEF PartOf
    <3> QED
      BY <3>1, DomainOf
  <2> QED
    BY <2>1, <2>2 DEF PartOf
<1>6. ASSUME NEW j \in 1 .. n
      PROVE  /\ \A a, b \in DOMAIN parts[j] :
                  /\ SeqSet(parts[j][a]) = SeqSet(parts[j][b])
                  /\ (a < b => parts[j][a] < parts[j][b])
             /\ \A i \in 1 .. j - 1 : SeqSet(parts[j][1]) \cap SeqSet(parts[i][1]) = {}
             /\ sequential = TRUE /\ j > 1 => SeqSet(parts[j][1]) = {Min(SeqSet(parts[j - 1][1])) + 1}
  <2>1. \A a, b \in DOMAIN parts[j] :
                  /\ SeqSet(parts[j][a]) = SeqSet(parts[j][b])
                  /\ (a < b => parts[j][a] < parts[j][b])
    BY <1>2, <1>6 DEF PartOf, Rises
  <2>2. \A i \in 1 .. j - 1 : SeqSet(parts[j][1]) \cap SeqSet(parts[i][1]) = {}
    <3> SUFFICES ASSUME NEW i \in 1 .. j - 1 PROVE SeqSet(parts[j][1]) \cap SeqSet(parts[i][1]) = {}
      OBVIOUS
    <3>1. i \in 1 .. n /\ i # j
      BY <1>1
    <3> QED
      BY <1>1, <1>5, <3>1
  <2>3. ASSUME sequential = TRUE, j > 1 PROVE SeqSet(parts[j][1]) = {Min(SeqSet(parts[j - 1][1])) + 1}
    <3>1. j - 1 \in 1 .. n
      BY <1>1, <2>3
    <3>2. Min(sets[j]) = Min(sets[j - 1]) + 1
      BY <1>1, <2>3
    <3>3. PICK y \in 1 .. Len(batch) : sets[j] = SeqSet(y)
      BY <1>1
    <3>4. y \in Idx
      BY DomainOf DEF Tokens1, Idx
    <3>5. PICK t : sets[j] = {t}
      BY <2>3, <3>3, <3>4, SingleSet
    <3>6. Min(sets[j]) \in sets[j]
      BY <3>3, <3>4, TokenIs, MinIs
    <3>7. sets[j] = {Min(sets[j])}
      BY ONLY <3>5, <3>6
    <3> QED
      BY <1>5, <3>1, <3>2, <3>7
  <2> QED
    BY <2>1, <2>2, <2>3
<1>7. ASSUME NEW j \in 1 .. n, NEW i \in 1 .. j - 1 PROVE Part(u, i) = parts[i]
  <2>1. i \in 1 .. n
    BY <1>1
  <2> QED
    BY <1>3, <2>1
<1>8. ASSUME NEW j \in 1 .. n, j > 1 PROVE Part(u, j - 1) = parts[j - 1]
  <2>1. j - 1 \in 1 .. n
    BY <1>1, <1>8
  <2> QED
    BY <1>3, <2>1
<1>9. ASSUME NEW j \in 1 .. n
      PROVE  LET p == Part(u, j)
             IN /\ \A a, b \in DOMAIN p : SeqSet(p[a]) = SeqSet(p[b]) /\ (a < b => p[a] < p[b])
                /\ \A i \in 1 .. j - 1 : SeqSet(p[1]) \cap SeqSet(Part(u, i)[1]) = {}
                /\ sequential = TRUE /\ j > 1 => SeqSet(p[1]) = {Min(SeqSet(Part(u, j - 1)[1])) + 1}
  <2>1. Part(u, j) = parts[j]
    BY <1>3
  <2>2. \A i \in 1 .. j - 1 : SeqSet(parts[j][1]) \cap SeqSet(Part(u, i)[1]) = {}
    BY <1>6, <1>7
  <2>3. sequential = TRUE /\ j > 1 => SeqSet(parts[j][1]) = {Min(SeqSet(Part(u, j - 1)[1])) + 1}
    BY <1>6, <1>8
  <2>4. \A a, b \in DOMAIN parts[j] :
                  /\ SeqSet(parts[j][a]) = SeqSet(parts[j][b])
                  /\ (a < b => parts[j][a] < parts[j][b])
    BY <1>6
  <2> QED
    BY ONLY <2>1, <2>2, <2>3, <2>4
<1> QED
  BY <1>3, <1>4, <1>9 DEF EvenParts

LEMMA PartsFit ==
  ASSUME NEW n \in Nat, n # 0, NEW b \in Nat, n <= b, NEW m \in Nat, m <= Max({1, b \div n})
  PROVE  n * m <= b
<1> DEFINE d == b \div n
<1>1. d \in Nat /\ d >= 1 /\ n * d <= b
  BY DivFits
<1>2. m <= Max({1, d})
  OBVIOUS
<1> HIDE DEF d
<1>3. Max({1, d}) = d
  <2>1. {1, d} = {1} \cup {d} /\ {1, d} \subseteq Int /\ {1, d} # {}
    BY <1>1
  <2>2. IsFiniteSet({1})
    BY FS_Singleton
  <2>3. IsFiniteSet({1} \cup {d})
    BY <2>2, FS_AddElement
  <2>4. IsFiniteSet({1, d})
    BY <2>1, <2>3
  <2>5. Max({1, d}) \in {1, d} /\ \A x \in {1, d} : Max({1, d}) >= x
    BY <2>1, <2>4, MaxIs
  <2> QED
    BY <1>1, <2>5
<1>4. n * m <= n * d
  BY <1>1, <1>2, <1>3, TimesLess
<1> DEFINE v == n * m
           w == n * d
<1>5. v \in Nat /\ w \in Nat /\ v <= w /\ w <= b
  BY <1>1, <1>4
<1> HIDE DEF v, w
<1>6. v <= b
  BY <1>5
<1> QED
  BY <1>6 DEF v

LEMMA EqualIs ==
  ASSUME Tokens1(batch), n_ubatch \in Nat, NEW sequential \in BOOLEAN
  PROVE  /\ Fresh(SplitEqual(sequential))
         /\ ~ HasCpl => Keeps(SplitEqual(sequential).idxs)
         /\ Cardinality(Seqs) <= n_ubatch => Len(SplitEqual(sequential).idxs) <= n_ubatch
         /\ SplitEqual(sequential).idxs # <<>> => EvenParts(SplitEqual(sequential), sequential)
<1> DEFINE sets == CurSeqSets(sequential)
           parts == SplitParts(sequential)
           u == SplitEqual(sequential)
           q == FlattenSeq(parts)
<1>1. u = IF (sequential /\ HasCpl) \/ sets = <<>> THEN [idxs |-> <<>>, n_seqs |-> 0]
          ELSE [idxs |-> q, n_seqs |-> Len(sets)]
  BY DEF SplitEqual, SplitParts
<1>2. CASE (sequential /\ HasCpl) \/ sets = <<>>
  <2>1. u = [idxs |-> <<>>, n_seqs |-> 0]
    BY <1>1, <1>2
  <2> HIDE DEF u
  <2>2. u.idxs = <<>>
    BY <2>1
  <2>3. <<>> \in Seq(Nat) /\ Len(<<>>) = 0 /\ DOMAIN <<>> = {}
    OBVIOUS
  <2>4. u \in Ubatch1
    BY <2>1, <2>3 DEF Ubatch1
  <2>5. Fresh(u)
    BY <2>2, <2>3, <2>4 DEF Fresh, Range, Once
  <2>6. Keeps(u.idxs)
    BY <2>2, <2>3 DEF Keeps, InOrder, Ahead, Range
  <2>7. Len(u.idxs) <= n_ubatch
    BY <2>2, <2>3
  <2> QED
    BY <2>2, <2>5, <2>6, <2>7 DEF u
<1>3. CASE ~ ((sequential /\ HasCpl) \/ sets = <<>>)
  <2>1. u = [idxs |-> q, n_seqs |-> Len(sets)] /\ sets # <<>>
    BY <1>1, <1>3
  <2>2. sequential = TRUE => ~ HasCpl
    BY <1>3
  <2>3. PICK m \in Nat : PartsOf(sets, parts, m) /\ m <= Max({1, n_ubatch \div Len(sets)})
    BY <2>1, SplitPartsAre
  <2>4. Sets(sequential, Len(batch), sets) /\ Len(sets) <= Cardinality(Seqs)
    BY CurSetsAre, CurSetsFew
  <2>5. Len(sets) \in Nat /\ Len(sets) # 0 /\ Len(parts) = Len(sets)
    <3>1. sets \in Seq(SUBSET Seqs) /\ Len(parts) = Len(sets)
      BY <2>3, <2>4 DEF Sets, PartsOf
    <3> QED
      BY <2>1, <3>1
  <2> HIDE DEF u, sets, parts
  <2>6. u.idxs = q /\ u.n_seqs = Len(sets)
    BY <2>1
  <2>7. InParts(sets, parts, m, q)
    BY <2>3, PartsHold
  <2> HIDE DEF q
  <2>8. \A j \in 1 .. Len(sets) : PartOf(parts[j], m, sets[j])
    BY <2>3, <2>5, PartsBegin
  <2>9. Range(q) \subseteq Idx \ used /\ Once(q) /\ (~ HasCpl => Keeps(q))
    BY <2>4, <2>7, <2>8, PartsInOrder
  <2>10. q \in Seq(Nat) /\ Len(q) = Len(sets) * m
    BY <2>7 DEF InParts
  <2>11. u \in Ubatch1
    BY <2>1, <2>5, <2>10 DEF Ubatch1
  <2>12. Fresh(u)
    BY <2>5, <2>6, <2>9, <2>11 DEF Fresh
  <2>13. ASSUME Cardinality(Seqs) <= n_ubatch PROVE Len(q) <= n_ubatch
    <3>1. Cardinality(Seqs) \in Nat
      BY BatchAssumption, FS_CardinalityType
    <3>2. Len(sets) <= n_ubatch
      BY <2>4, <2>5, <2>13, <3>1
    <3>3. Len(sets) * m <= n_ubatch
      BY <2>3, <2>5, <3>2, PartsFit
    <3> QED
      BY <2>10, <3>3
  <2>14. ASSUME q # <<>> PROVE EvenParts(u, sequential)
    <3>1. m # 0
      <4>1. Len(sets) * 0 = 0
        BY <2>5
      <4> QED
        BY <2>10, <2>14, <4>1
    <3>2. u.idxs = FlattenSeq(parts)
      BY <2>6 DEF q
    <3> QED
      BY <2>1, <2>2, <2>3, <2>4, <2>6, <3>1, <3>2, PartsEven
  <2> QED
    BY <2>6, <2>9, <2>12, <2>13, <2>14 DEF u
<1> QED
  BY <1>2, <1>3

\* The next ubatch, in any mode.
LEMMA NextUbatchIs ==
  ASSUME Tokens1(batch), n_ubatch \in Nat, mode \in Modes
  PROVE  /\ Fresh(NextUbatch)
         /\ (HasCpl => mode = "simple") => Keeps(NextUbatch.idxs)
         /\ Cardinality(Seqs) <= n_ubatch => Len(NextUbatch.idxs) <= n_ubatch
         /\ NextUbatch.idxs # <<>> =>
              /\ mode = "equal" => EvenParts(NextUbatch, FALSE)
              /\ mode = "sequential" => EvenParts(NextUbatch, TRUE)
<1>1. CASE mode = "simple"
  <2>1. NextUbatch = SplitSimple
    BY <1>1 DEF NextUbatch
  <2> QED
    BY <1>1, <2>1, SimpleIs
<1>2. CASE mode = "equal"
  <2>1. NextUbatch = SplitEqual(FALSE)
    BY <1>2 DEF NextUbatch
  <2> QED
    BY <1>2, <2>1, EqualIs
<1>3. CASE mode = "sequential"
  <2>1. NextUbatch = SplitEqual(TRUE)
    BY <1>3 DEF NextUbatch
  <2> QED
    BY <1>3, <2>1, EqualIs
<1>4. CASE mode = "seq"
  <2>1. NextUbatch = SplitSeq
    BY <1>4 DEF NextUbatch
  <2> QED
    BY <1>4, <2>1, SeqIs
<1> QED
  BY <1>1, <1>2, <1>3, <1>4 DEF Modes

-----------------------------------------------------------------------------
(* Positions.                                                              *)

Token0 == [pos : Nat \cup {-1}, seqs : (SUBSET Seqs) \ {{}}, out : BOOLEAN]

LEMMA MemoryIs ==
  ASSUME mem \in Memories
  PROVE  /\ \A s \in Seqs : mem[s][1] \in Int /\ mem[s][2] \in Int
         /\ \A input \in Inputs(mem) : input \in Seq(Token0) /\ input # <<>>
<1>1. mem \in [Seqs -> {<<-1, -1>>} \cup (Nat \X Nat)]
  BY BatchAssumption
<1>2. ASSUME NEW s \in Seqs PROVE mem[s][1] \in Int /\ mem[s][2] \in Int
  <2>1. mem[s] \in {<<-1, -1>>} \cup (Nat \X Nat)
    BY <1>1
  <2>2. CASE mem[s] = <<-1, -1>>
    BY <2>2
  <2>3. CASE mem[s] \in Nat \X Nat
    BY <2>3
  <2> QED
    BY <2>1, <2>2, <2>3
<1>3. \A input \in Inputs(mem) : input \in Seq(Token0) /\ input # <<>>
  BY BatchAssumption DEF Token0
<1> QED
  BY <1>2, <1>3

LEMMA PositionedIs ==
  ASSUME mem \in Memories, NEW tokens \in Seq(Token0)
  PROVE  Tokens1(Positioned(tokens)) /\ Len(Positioned(tokens)) = Len(tokens)
<1> DEFINE n == Len(tokens)
           X == [Seqs -> Int]
           base == [s \in Seqs |-> mem[s][2] + 1]
           G == [q \in (1 .. n) \X X |->
                   [s \in Seqs |-> IF s \in tokens[q[1]].seqs THEN q[2][Min(tokens[q[1]].seqs)] + 1
                                   ELSE q[2][s]]]
           Rec(f) == f = [k \in 0 .. n |->
                           IF k = 0 THEN [s \in Seqs |-> mem[s][2] + 1]
                           ELSE LET before == f[k - 1]
                                    seqs == tokens[k].seqs
                                IN [s \in Seqs |-> IF s \in seqs THEN before[Min(seqs)] + 1 ELSE before[s]]]
           h == CHOOSE f : Rec(f)
           r == [k \in DOMAIN tokens |-> [tokens[k] EXCEPT !.pos = h[k - 1][Min(tokens[k].seqs)]]]
<1>1. n \in Nat /\ DOMAIN tokens = 1 .. n /\ \A k \in 1 .. n : tokens[k] \in Token0
  OBVIOUS
<1>2. \A k \in 1 .. n : Min(tokens[k].seqs) \in Seqs
  <2> SUFFICES ASSUME NEW k \in 1 .. n PROVE Min(tokens[k].seqs) \in Seqs
    OBVIOUS
  <2>1. tokens[k].seqs \in (SUBSET Seqs) \ {{}}
    BY <1>1 DEF Token0
  <2>2. tokens[k].seqs \subseteq Nat /\ tokens[k].seqs # {}
    BY <2>1, BatchAssumption
  <2> QED
    BY <2>1, <2>2, MinIs
<1>3. base \in X
  BY MemoryIs
<1>4. Positioned(tokens) = r
  BY DEF Positioned
<1>5. \A k \in 1 .. n, d \in X :
        G[<<k, d>>] = [s \in Seqs |-> IF s \in tokens[k].seqs THEN d[Min(tokens[k].seqs)] + 1 ELSE d[s]]
  OBVIOUS
<1>6. G \in [(1 .. n) \X X -> X]
  <2>1. ASSUME NEW k \in 1 .. n, NEW d \in X
        PROVE  [s \in Seqs |-> IF s \in tokens[k].seqs THEN d[Min(tokens[k].seqs)] + 1 ELSE d[s]] \in X
    <3>1. d[Min(tokens[k].seqs)] \in Int /\ \A s \in Seqs : d[s] \in Int
      BY <1>2
    <3> QED
      BY <3>1
  <2>2. \A k \in 1 .. n, d \in X : G[<<k, d>>] \in X
    BY <1>5, <2>1
  <2> HIDE DEF n, X
  <2>3. \A q \in (1 .. n) \X X : \E k \in 1 .. n, d \in X : q = <<k, d>>
    OBVIOUS
  <2>4. \A q \in (1 .. n) \X X : G[q] \in X
    BY <2>2, <2>3
  <2>5. DOMAIN G = (1 .. n) \X X /\ G = [q \in (1 .. n) \X X |-> G[q]]
    OBVIOUS
  <2> HIDE DEF G
  <2> QED
    BY <2>4, <2>5
<1>7. PICK f \in [0 .. n -> X] : Rec(f)
  <2> HIDE DEF G, base, X, n
  <2>1. PICK f \in [0 .. n -> X] : Steps(n, base, G, f)
    BY <1>1, <1>3, <1>6, StepsExist
  <2>2. ASSUME NEW k \in 0 .. n, k # 0
        PROVE  G[<<k, f[k - 1]>>] = [s \in Seqs |-> IF s \in tokens[k].seqs
                                       THEN f[k - 1][Min(tokens[k].seqs)] + 1 ELSE f[k - 1][s]]
    <3>1. k \in 1 .. n /\ k - 1 \in 0 .. n
      BY <1>1, <2>2
    <3> QED
      BY <1>5, <3>1
  <2>3. f = [k \in 0 .. n |-> IF k = 0 THEN base ELSE G[<<k, f[k - 1]>>]]
    BY <2>1 DEF Steps
  <2>4. Rec(f)
    BY <2>2, <2>3 DEF base
  <2> QED
    BY <2>4
<1>8. Rec(h)
  BY <1>7
<1> HIDE DEF h
<1>9. /\ h[0] = base
      /\ \A k \in 1 .. n : h[k] = [s \in Seqs |-> IF s \in tokens[k].seqs
                                     THEN h[k - 1][Min(tokens[k].seqs)] + 1 ELSE h[k - 1][s]]
  <2>1. 0 \in 0 .. n /\ \A k \in 1 .. n : k \in 0 .. n /\ k # 0
    BY <1>1
  <2> HIDE DEF n
  <2> QED
    BY <1>8, <2>1
<1> HIDE DEF Rec, G, base
<1> DEFINE A == {k \in 0 .. n : h[k] \in X}
<1>10. 0 \in A
  BY <1>1, <1>3, <1>9
<1>11. ASSUME NEW k \in 1 .. n, k - 1 \in A PROVE k \in A
  <2> DEFINE d == h[k - 1]
  <2>1. d \in X /\ k \in 0 .. n
    BY <1>1, <1>11
  <2>2. h[k] = [s \in Seqs |-> IF s \in tokens[k].seqs THEN d[Min(tokens[k].seqs)] + 1 ELSE d[s]]
    BY <1>9
  <2> HIDE DEF d
  <2>3. d[Min(tokens[k].seqs)] \in Int /\ \A s \in Seqs : d[s] \in Int
    BY <1>2, <2>1
  <2> QED
    BY <2>1, <2>2, <2>3
<1>12. \A k \in 1 .. n : h[k - 1] \in X
  <2>1. \A k \in 1 .. n : k - 1 \in 0 .. n
    BY <1>1
  <2> HIDE DEF A
  <2>2. \A k \in 0 .. n : k \in A
    BY <1>1, <1>10, <1>11, Climbs
  <2> QED
    BY <2>1, <2>2 DEF A
<1>13. ASSUME NEW k \in 1 .. n PROVE r[k] \in Token1
  <2> DEFINE v == h[k - 1][Min(tokens[k].seqs)]
  <2>1. v \in Int
    BY <1>2, <1>12
  <2>2. r[k] = [tokens[k] EXCEPT !.pos = v]
    BY <1>1
  <2>3. tokens[k] \in Token0
    BY <1>1
  <2> HIDE DEF v, r
  <2> QED
    BY <2>1, <2>2, <2>3 DEF Token0, Token1
<1>14. r \in Seq(Token1) /\ Len(r) = n
  <2>1. r \in [1 .. n -> Token1]
    BY <1>1, <1>13
  <2> HIDE DEF r, n
  <2> QED
    BY <1>1, <2>1
<1> QED
  BY <1>4, <1>14 DEF Tokens1

LEMMA MinOfInts ==
  ASSUME NEW S, S \subseteq Int, IsFiniteSet(S), S # {}
  PROVE  Min(S) \in S /\ \A x \in S : Min(S) <= x
<1> DEFINE Below(y) == {x \in S : x <= y}
           Family == {Below(y) : y \in S}
<1>1. Family \subseteq SUBSET S /\ Family # {}
  OBVIOUS
<1>2. PICK U \in Family : \A V \in Family : V \subseteq U => V = U
  <2>1. IsFiniteSet(S)
    OBVIOUS
  <2> HIDE DEF Family
  <2> QED
    BY ONLY <1>1, <2>1, SmallestSubset
<1>3. PICK m \in S : U = Below(m)
  BY <1>2
<1>4. \A x \in S : m <= x
  <2> SUFFICES ASSUME NEW x \in S PROVE m <= x
    OBVIOUS
  <2>1. x \in Int /\ m \in Int
    OBVIOUS
  <2>2. CASE x < m
    <3>1. \A y \in Int : y <= x => y <= m
      BY <2>1, <2>2
    <3>2. m <= m /\ ~ m <= x
      BY <2>1, <2>2
    <3>3. Below(x) \subseteq U /\ Below(x) \in Family /\ m \in U /\ m \notin Below(x)
      BY <1>3, <3>1, <3>2
    <3> QED
      BY <1>2, <3>3
  <2> QED
    BY <2>1, <2>2
<1> QED
  BY <1>4 DEF Min

LEMMA IntervalIs ==
  ASSUME NEW a \in Int, NEW b \in Int, NEW S, S = a .. b, S # {}
  PROVE  S = Min(S) .. Max(S)
<1>1. a <= b /\ a \in S /\ b \in S /\ S \subseteq Int
  OBVIOUS
<1>2. IsFiniteSet(S)
  BY FS_Interval
<1>3. Min(S) \in S /\ \A x \in S : Min(S) <= x
  BY <1>1, <1>2, MinOfInts
<1>4. Max(S) \in S /\ \A x \in S : Max(S) >= x
  BY <1>1, <1>2, MaxIs
<1>5. Min(S) = a /\ Max(S) = b
  BY <1>1, <1>3, <1>4
<1> QED
  BY <1>5

\* As many members as there are numbers from the least to the greatest: all of them.
LEMMA NoGaps ==
  ASSUME NEW S, S \subseteq Int, IsFiniteSet(S), S # {}, Max(S) - Min(S) + 1 <= Cardinality(S)
  PROVE  S = Min(S) .. Max(S) /\ Min(S) \in S /\ Max(S) \in S
<1> DEFINE a == Min(S)
           b == Max(S)
<1>1. a \in S /\ (\A x \in S : a <= x) /\ b \in S /\ \A x \in S : b >= x
  BY MinOfInts, MaxIs
<1> HIDE DEF a, b
<1>2. a \in Int /\ b \in Int /\ a <= b /\ S \subseteq a .. b
  BY <1>1
<1>3. IsFiniteSet(a .. b) /\ Cardinality(a .. b) = IF a > b THEN 0 ELSE b - a + 1
  BY <1>2, FS_Interval
<1>4. Cardinality(a .. b) = b - a + 1
  BY <1>2, <1>3
<1>5. /\ Cardinality(S) <= Cardinality(a .. b)
      /\ Cardinality(a .. b) = Cardinality(S) => a .. b = S
  BY <1>2, <1>3, FS_Subset
<1>6. Cardinality(S) \in Nat
  BY FS_CardinalityType
<1>7. b - a + 1 <= Cardinality(S)
  BY DEF a, b
<1>8. Cardinality(a .. b) = Cardinality(S)
  BY <1>2, <1>4, <1>5, <1>6, <1>7
<1> QED
  BY <1>1, <1>5, <1>8 DEF a, b

LEMMA SeqPosIs ==
  ASSUME NEW tokens, Tokens1(tokens), NEW s
  PROVE  SeqPos(tokens, s) \subseteq Int /\ IsFiniteSet(SeqPos(tokens, s))
<1> DEFINE D == {k \in DOMAIN tokens : s \in tokens[k].seqs}
           f == [k \in D |-> tokens[k].pos]
           P == SeqPos(tokens, s)
<1>1. IsFiniteSet(DOMAIN tokens) /\ \A k \in DOMAIN tokens : tokens[k] \in Token1
  BY DomainOf DEF Tokens1
<1>2. IsFiniteSet(D)
  BY <1>1, FS_Subset
<1>3. \A k \in D : tokens[k].pos \in Int
  BY <1>1 DEF Token1
<1>4. P = {f[k] : k \in D}
  BY DEF SeqPos
<1>5. f \in Surjection(D, P)
  BY <1>4 DEF Surjection
<1>6. IsFiniteSet(P)
  <2> HIDE DEF P, D, f
  <2> QED
    BY <1>2, <1>5, FS_Surjection
<1>7. P \subseteq Int
  BY <1>3, <1>4
<1> QED
  BY <1>6, <1>7

\* The positions of a sequence with those of the memory.
AllPos(tokens, s) == SeqPos(tokens, s) \cup Held(s)

LEMMA ConsecutiveContinues ==
  ASSUME NEW tokens, Tokens1(tokens), mem \in Memories, NEW s \in Seqs, Consecutive(tokens, s),
         AllPos(tokens, s) # {}
  PROVE  AllPos(tokens, s) = Min(AllPos(tokens, s)) .. Max(AllPos(tokens, s))
<1> DEFINE P == SeqPos(tokens, s)
           S == AllPos(tokens, s)
           a == mem[s][1]
           b == mem[s][2]
           c == Min(P)
           d == Max(P)
<1>1. a \in Int /\ b \in Int
  BY MemoryIs
<1>2. S = P \cup (IF b < 0 THEN {} ELSE a .. b)
  BY DEF AllPos, Held
<1>3. P # {} => (b >= 0 => c = b + 1) /\ d - c + 1 <= Cardinality(P)
  BY DEF Consecutive
<1>4. P \subseteq Int /\ IsFiniteSet(P)
  BY SeqPosIs
<1>5. S # {}
  OBVIOUS
<1> HIDE DEF P, S, a, b, c, d
<1>6. P # {} => P = c .. d /\ c \in Int /\ d \in Int /\ c <= d
  <2> SUFFICES ASSUME P # {} PROVE P = c .. d /\ c \in Int /\ d \in Int /\ c <= d
    OBVIOUS
  <2>1. P = c .. d /\ c \in P /\ d \in P
    BY <1>3, <1>4, NoGaps DEF c, d
  <2>2. c \in Int /\ d \in Int
    BY ONLY <1>4, <2>1
  <2>3. d \in c .. d
    BY ONLY <2>1
  <2>4. c <= d
    BY ONLY <2>2, <2>3
  <2> QED
    BY ONLY <2>1, <2>2, <2>4
<1>7. \E x, y \in Int : S = x .. y
  <2>1. CASE P = {}
    <3>1. S = a .. b
      BY <1>2, <1>5, <2>1
    <3> QED
      BY <1>1, <3>1
  <2>2. CASE P # {} /\ b < 0
    <3>1. S = c .. d /\ c \in Int /\ d \in Int
      BY <1>2, <1>6, <2>2
    <3> QED
      BY <3>1
  <2>3. CASE P # {} /\ ~ b < 0
    <3>1. S = (c .. d) \cup (a .. b) /\ c = b + 1 /\ c \in Int /\ d \in Int /\ c <= d
      BY <1>1, <1>2, <1>3, <1>6, <2>3
    <3>2. CASE a <= b
      <4>1. S = a .. d
        BY <1>1, <3>1, <3>2
      <4> QED
        BY <1>1, <3>1, <4>1
    <3>3. CASE ~ a <= b
      <4>1. S = c .. d
        BY <1>1, <3>1, <3>3
      <4> QED
        BY <3>1, <4>1
    <3> QED
      BY <3>2, <3>3
  <2> QED
    BY <2>1, <2>2, <2>3
<1>8. S = Min(S) .. Max(S)
  BY <1>5, <1>7, IntervalIs
<1> QED
  BY <1>8 DEF S

\* What is accepted of a sequence is none of what the memory holds.
LEMMA ConsecutiveIsNew ==
  ASSUME NEW tokens, Tokens1(tokens), mem \in Memories, NEW s \in Seqs, Consecutive(tokens, s)
  PROVE  SeqPos(tokens, s) \cap Held(s) = {}
<1> DEFINE P == SeqPos(tokens, s)
           a == mem[s][1]
           b == mem[s][2]
<1>1. a \in Int /\ b \in Int
  BY MemoryIs
<1>2. P # {} => (b >= 0 => Min(P) = b + 1) /\ Max(P) - Min(P) + 1 <= Cardinality(P)
  BY DEF Consecutive
<1>3. P \subseteq Int /\ IsFiniteSet(P)
  BY SeqPosIs
<1>4. Held(s) = IF b < 0 THEN {} ELSE a .. b
  BY DEF Held
<1> HIDE DEF P, a, b
<1>5. CASE P # {} /\ b >= 0
  <2> DEFINE c == Min(P)
             d == Max(P)
  <2>1. c = b + 1 /\ d - c + 1 <= Cardinality(P)
    BY <1>2, <1>5
  <2>2. P = c .. d
    BY <1>3, <1>5, <2>1, NoGaps
  <2> HIDE DEF c, d
  <2> QED
    BY <1>1, <1>4, <2>1, <2>2 DEF P
<1>6. CASE P = {} \/ b < 0
  BY <1>4, <1>6 DEF P
<1> QED
  BY <1>1, <1>5, <1>6

-----------------------------------------------------------------------------
(* Rows and swaps.                                                         *)

Swapped(q, a, b) == [q EXCEPT ![a] = q[b], ![b] = q[a]]

LEMMA SwappedIs ==
  ASSUME NEW q \in Seq(Nat), Once(q), NEW a \in DOMAIN q, NEW b \in DOMAIN q
  PROVE  /\ Swapped(q, a, b) \in Seq(Nat) /\ Len(Swapped(q, a, b)) = Len(q)
         /\ Range(Swapped(q, a, b)) = Range(q) /\ Once(Swapped(q, a, b))
<1> DEFINE r == Swapped(q, a, b)
           n == Len(q)
<1>1. n \in Nat /\ DOMAIN q = 1 .. n /\ (\A i \in 1 .. n : q[i] \in Nat) /\ q = [i \in 1 .. n |-> q[i]]
  OBVIOUS
<1>2. DOMAIN r = 1 .. n /\ r = [i \in 1 .. n |-> IF i = b THEN q[a] ELSE IF i = a THEN q[b] ELSE q[i]]
  BY <1>1 DEF Swapped
<1>3. \A i \in 1 .. n : r[i] = IF i = b THEN q[a] ELSE IF i = a THEN q[b] ELSE q[i]
  BY <1>2
<1>4. a \in 1 .. n /\ b \in 1 .. n
  BY <1>1
<1> HIDE DEF r, n
<1>5. \A i \in 1 .. n : r[i] \in Nat
  BY <1>1, <1>3, <1>4
<1>6. r \in Seq(Nat) /\ Len(r) = n
  <2>1. r = [i \in 1 .. n |-> r[i]]
    BY <1>2, <1>3
  <2>2. r \in [1 .. n -> Nat]
    BY <1>5, <2>1
  <2>3. n \in Nat
    BY <1>1
  <2>4. r \in Seq(Nat)
    BY ONLY <2>2, <2>3
  <2>5. Len(r) = n
    BY ONLY <1>2, <2>3, <2>4, DomainOf
  <2> QED
    BY <2>4, <2>5
<1>7. Range(r) = Range(q)
  <2>1. \A i \in 1 .. n : \E j \in 1 .. n : r[i] = q[j]
    BY <1>3, <1>4
  <2>2. \A j \in 1 .. n : \E i \in 1 .. n : r[i] = q[j]
    <3> SUFFICES ASSUME NEW j \in 1 .. n PROVE \E i \in 1 .. n : r[i] = q[j]
      OBVIOUS
    <3>1. CASE j = a
      <4>1. r[b] = q[j]
        BY <1>3, <1>4, <3>1
      <4> QED
        BY <1>4, <4>1
    <3>2. CASE j = b /\ j # a
      <4>1. r[a] = q[j]
        BY <1>3, <1>4, <3>2
      <4> QED
        BY <1>4, <4>1
    <3>3. CASE j # a /\ j # b
      <4>1. r[j] = q[j]
        BY <1>3, <3>3
      <4> QED
        BY <4>1
    <3> QED
      BY <3>1, <3>2, <3>3
  <2> QED
    BY <1>1, <1>2, <2>1, <2>2 DEF Range
<1>8. Once(r)
  <2> SUFFICES ASSUME NEW i \in 1 .. n, NEW j \in 1 .. n, r[i] = r[j] PROVE i = j
    BY <1>2 DEF Once
  <2>1. \A x, y \in 1 .. n : q[x] = q[y] => x = y
    BY <1>1 DEF Once
  <2> DEFINE at(x) == IF x = b THEN a ELSE IF x = a THEN b ELSE x
  <2>2. r[i] = q[at(i)] /\ r[j] = q[at(j)] /\ at(i) \in 1 .. n /\ at(j) \in 1 .. n
    BY <1>3, <1>4
  <2>3. at(i) = at(j)
    BY <2>1, <2>2
  <2> QED
    BY <2>3
<1> QED
  BY <1>6, <1>7, <1>8 DEF r, n

Pairs == Nat \X Nat

\* The swaps sw, one after the other, make ids of q.
Runs(q, sw, ids, f) ==
  /\ f \in [0 .. Len(sw) -> Seq(Nat)]
  /\ f[0] = q /\ f[Len(sw)] = ids
  /\ \A i \in 1 .. Len(sw) : f[i] = Swapped(f[i - 1], sw[i][1], sw[i][2])
Applied(q, sw, ids) == \E f : Runs(q, sw, ids, f)

LEMMA AppliedNone ==
  ASSUME NEW q \in Seq(Nat)
  PROVE  Applied(q, <<>>, q) /\ \A ids : Applied(q, <<>>, ids) => ids = q
<1>1. Len(<<>>) = 0 /\ 1 .. 0 = {}
  OBVIOUS
<1> DEFINE f == [i \in 0 .. 0 |-> q]
<1>2. Runs(q, <<>>, q, f)
  BY <1>1 DEF Runs
<1>3. \A ids : Applied(q, <<>>, ids) => ids = q
  BY <1>1 DEF Applied, Runs
<1> QED
  BY <1>2, <1>3 DEF Applied

LEMMA AppliedMore ==
  ASSUME NEW q, NEW sw \in Seq(Pairs), NEW ids, Applied(q, sw, ids),
         NEW a \in Nat, NEW b \in Nat, Swapped(ids, a, b) \in Seq(Nat)
  PROVE  Applied(q, Append(sw, <<a, b>>), Swapped(ids, a, b))
<1> DEFINE p == Append(sw, <<a, b>>)
           n == Len(sw)
           v == Swapped(ids, a, b)
<1>1. PICK f : Runs(q, sw, ids, f)
  BY DEF Applied
<1>2. <<a, b>> \in Pairs
  BY DEF Pairs
<1>3. /\ n \in Nat /\ Len(p) = n + 1 /\ p[n + 1] = <<a, b>> /\ \A i \in 1 .. n : p[i] = sw[i]
  <2>1. /\ p \in Seq(Pairs) /\ Len(p) = Len(sw) + 1 /\ Len(sw) \in Nat
        /\ DOMAIN sw = 1 .. Len(sw)
        /\ p[Len(sw) + 1] = <<a, b>> /\ \A k \in DOMAIN sw : p[k] = sw[k]
    BY <1>2, AppendIs
  <2> QED
    BY <2>1
<1>4. /\ f \in [0 .. n -> Seq(Nat)] /\ f[0] = q /\ f[n] = ids
      /\ \A i \in 1 .. n : f[i] = Swapped(f[i - 1], sw[i][1], sw[i][2])
  BY <1>1 DEF Runs
<1> DEFINE g == [i \in 0 .. n + 1 |-> IF i = n + 1 THEN v ELSE f[i]]
<1>5. v \in Seq(Nat)
  OBVIOUS
<1> HIDE DEF v, p, n
<1>6. n + 1 \in 0 .. n + 1 /\ 0 \in 0 .. n + 1 /\ 0 # n + 1
  BY <1>3
<1>7. g \in [0 .. n + 1 -> Seq(Nat)]
  <2>1. \A i \in 0 .. n + 1 : i # n + 1 => i \in 0 .. n
    BY <1>3
  <2> QED
    BY <1>4, <1>5, <2>1
<1>8. g[0] = q /\ g[n + 1] = v
  BY <1>4, <1>6
<1>9. ASSUME NEW i \in 1 .. n + 1 PROVE g[i] = Swapped(g[i - 1], p[i][1], p[i][2])
  <2>1. CASE i \in 1 .. n
    <3>1. i \in 0 .. n + 1 /\ i - 1 \in 0 .. n + 1 /\ i # n + 1 /\ i - 1 # n + 1
      BY <1>3, <2>1
    <3>2. g[i] = f[i] /\ g[i - 1] = f[i - 1]
      BY <3>1
    <3> HIDE DEF g
    <3> QED
      BY <1>3, <1>4, <2>1, <3>2
  <2>2. CASE i = n + 1
    <3>1. i - 1 = n /\ n \in 0 .. n + 1 /\ n # n + 1
      BY <1>3, <2>2
    <3>2. g[n] = ids
      BY <1>4, <3>1
    <3>3. p[i][1] = a /\ p[i][2] = b
      BY <1>3, <2>2
    <3> HIDE DEF g
    <3>4. g[i] = v /\ g[i - 1] = ids
      BY <1>8, <2>2, <3>1, <3>2
    <3> QED
      BY <3>3, <3>4 DEF v
  <2> QED
    BY <1>3, <2>1, <2>2
<1> HIDE DEF g
<1>10. Runs(q, p, v, g)
  BY <1>3, <1>7, <1>8, <1>9 DEF Runs
<1> QED
  BY <1>10 DEF Applied, p, v

\* The selection sort of q on its way: the same members, and the swaps that brought them there.
Sorting(q) ==
  {st \in [ids : Seq(Nat), swaps : Seq(Pairs)] :
     /\ Len(st.ids) = Len(q) /\ Range(st.ids) = Range(q) /\ Once(st.ids)
     /\ Applied(q, st.swaps, st.ids)}

SortNext(i, before) ==
  LET ids == before.ids
      j == CHOOSE j \in i .. Len(ids) : \A k \in i .. Len(ids) : ids[j] <= ids[k]
  IN IF j = i THEN before
     ELSE [ids |-> [ids EXCEPT ![i] = ids[j], ![j] = ids[i]],
           swaps |-> Append(before.swaps, <<i, j>>)]

LEMMA SortMore ==
  ASSUME NEW q \in Seq(Nat), NEW i \in 1 .. Len(q), NEW st \in Sorting(q)
  PROVE  SortNext(i, st) \in Sorting(q)
<1> DEFINE ids == st.ids
           sw == st.swaps
           n == Len(ids)
           j == CHOOSE j \in i .. n : \A k \in i .. n : ids[j] <= ids[k]
           v == Swapped(ids, i, j)
           p == Append(sw, <<i, j>>)
           new == [ids |-> v, swaps |-> p]
<1>1. /\ ids \in Seq(Nat) /\ sw \in Seq(Pairs) /\ n = Len(q) /\ Range(ids) = Range(q) /\ Once(ids)
      /\ Applied(q, sw, ids)
  BY DEF Sorting
<1>2. SortNext(i, st) = IF j = i THEN st ELSE new
  BY DEF SortNext, Swapped
<1>3. n \in Nat /\ DOMAIN ids = 1 .. n /\ i \in 1 .. n /\ \A k \in 1 .. n : ids[k] \in Nat
  BY <1>1, DomainOf
<1>4. j \in i .. n
  <2> DEFINE S == {ids[k] : k \in i .. n}
             m == Min(S)
  <2>1. \A k \in i .. n : k \in 1 .. n
    BY <1>3
  <2>0. i \in i .. n
    BY <1>3
  <2>2. S \subseteq Nat /\ S # {}
    <3> HIDE DEF ids, n
    <3>1. \A k \in i .. n : ids[k] \in Nat
      BY ONLY <1>3, <2>1
    <3> QED
      BY ONLY <2>0, <3>1
  <2>3. m \in S /\ \A x \in S : m <= x
    BY <2>2, MinIs
  <2> HIDE DEF m
  <2>4. \E l \in i .. n : \A k \in i .. n : ids[l] <= ids[k]
    BY <2>3
  <2> HIDE DEF ids, n
  <2> QED
    BY <2>4
<1> HIDE DEF j, ids, sw, n
<1>5. j \in DOMAIN ids /\ i \in DOMAIN ids /\ i \in Nat /\ j \in Nat
  BY <1>3, <1>4
<1>6. v \in Seq(Nat) /\ Len(v) = n /\ Range(v) = Range(ids) /\ Once(v)
  BY <1>1, <1>5, SwappedIs DEF n
<1>7. Applied(q, p, v)
  BY <1>1, <1>5, <1>6, AppliedMore
<1>8. p \in Seq(Pairs)
  <2>1. <<i, j>> \in Pairs
    BY <1>5 DEF Pairs
  <2> QED
    BY <1>1, <2>1, AppendIs
<1> HIDE DEF v, p
<1>9. new.ids = v /\ new.swaps = p /\ new \in [ids : Seq(Nat), swaps : Seq(Pairs)]
  BY <1>6, <1>8
<1> HIDE DEF new
<1>10. new \in Sorting(q)
  BY <1>1, <1>6, <1>7, <1>9 DEF Sorting
<1> QED
  BY <1>2, <1>10

LEMMA SortedIs ==
  ASSUME NEW q \in Seq(Nat), Once(q)
  PROVE  Sorted(q) \in Sorting(q)
<1> DEFINE n == Len(q)
           X == Sorting(q)
           base == [ids |-> q, swaps |-> <<>>]
           G == [x \in (1 .. n) \X X |-> SortNext(x[1], x[2])]
           Rec(f) == f = [i \in 0 .. n |->
                           IF i = 0 THEN [ids |-> q, swaps |-> <<>>]
                           ELSE LET before == f[i - 1]
                                    ids == before.ids
                                    j == CHOOSE j \in i .. Len(ids) : \A k \in i .. Len(ids) : ids[j] <= ids[k]
                                IN IF j = i THEN before
                                   ELSE [ids |-> [ids EXCEPT ![i] = ids[j], ![j] = ids[i]],
                                         swaps |-> Append(before.swaps, <<i, j>>)]]
           h == CHOOSE f : Rec(f)
<1>1. n \in Nat
  OBVIOUS
<1>2. base \in X
  <2>1. base.ids = q /\ base.swaps = <<>>
    OBVIOUS
  <2>2. base \in [ids : Seq(Nat), swaps : Seq(Pairs)]
    OBVIOUS
  <2> HIDE DEF base
  <2> QED
    BY <2>1, <2>2, AppliedNone DEF Sorting
<1>3. \A i \in 1 .. n, d \in X : G[<<i, d>>] = SortNext(i, d) /\ SortNext(i, d) \in X
  BY SortMore
<1>4. G \in [(1 .. n) \X X -> X]
  <2> HIDE DEF X, n
  <2>1. \A x \in (1 .. n) \X X : \E i \in 1 .. n, d \in X : x = <<i, d>>
    OBVIOUS
  <2>2. \A x \in (1 .. n) \X X : G[x] \in X
    BY <1>3, <2>1
  <2>3. DOMAIN G = (1 .. n) \X X /\ G = [x \in (1 .. n) \X X |-> G[x]]
    OBVIOUS
  <2> HIDE DEF G
  <2> QED
    BY <2>2, <2>3
<1>5. PICK f \in [0 .. n -> X] : Rec(f)
  <2> HIDE DEF G, base, X, n
  <2>1. PICK f \in [0 .. n -> X] : Steps(n, base, G, f)
    BY <1>1, <1>2, <1>4, StepsExist
  <2>2. ASSUME NEW i \in 0 .. n, i # 0 PROVE G[<<i, f[i - 1]>>] = SortNext(i, f[i - 1])
    <3>1. i \in 1 .. n /\ i - 1 \in 0 .. n
      BY <1>1, <2>2
    <3> QED
      BY <1>3, <3>1
  <2>3. f = [i \in 0 .. n |-> IF i = 0 THEN base ELSE G[<<i, f[i - 1]>>]]
    BY <2>1 DEF Steps
  <2>4. f = [i \in 0 .. n |-> IF i = 0 THEN base ELSE SortNext(i, f[i - 1])]
    BY <2>2, <2>3
  <2>5. Rec(f)
    BY <2>4 DEF base, SortNext
  <2> QED
    BY <2>5
<1>6. Rec(h)
  <2> HIDE DEF Rec, X, n
  <2> QED
    BY ONLY <1>5
<1>7. Sorted(q) = h[n]
  BY DEF Sorted
<1> HIDE DEF h
<1>8. h[0] = base /\ \A i \in 1 .. n : h[i] = SortNext(i, h[i - 1])
  <2>1. 0 \in 0 .. n /\ \A i \in 1 .. n : i \in 0 .. n /\ i # 0
    BY <1>1
  <2> HIDE DEF n
  <2>2. h = [i \in 0 .. n |-> IF i = 0 THEN base ELSE SortNext(i, h[i - 1])]
    BY <1>6 DEF SortNext
  <2> HIDE DEF base, Rec
  <2> QED
    BY <2>1, <2>2
<1> HIDE DEF Rec, G, base, X
<1> DEFINE A == {i \in 0 .. n : h[i] \in X}
<1>9. 0 \in A
  BY <1>1, <1>2, <1>8
<1>10. ASSUME NEW i \in 1 .. n, i - 1 \in A PROVE i \in A
  <2>1. h[i - 1] \in X /\ i \in 0 .. n
    BY <1>1, <1>10
  <2> QED
    BY <1>3, <1>8, <2>1
<1> HIDE DEF A
<1>11. \A i \in 0 .. n : i \in A
  BY <1>1, <1>9, <1>10, Climbs
<1> QED
  BY <1>1, <1>7, <1>11 DEF A, X

LEMMA ReorderIs ==
  ASSUME NEW ids, Applied(rows, swaps, ids), swaps \in Seq(Pairs), Reorder
  PROVE  rows' = ids
<1> DEFINE n == Len(swaps)
           Rec(h) == h = [i \in 0 .. n |->
                           IF i = 0 THEN rows
                           ELSE LET before == h[i - 1]
                                    a == swaps[i][1]
                                    b == swaps[i][2]
                                IN [before EXCEPT ![a] = before[b], ![b] = before[a]]]
           h == CHOOSE h : Rec(h)
<1>1. PICK f : Runs(rows, swaps, ids, f)
  BY DEF Applied
<1>2. rows' = h[n]
  BY DEF Reorder
<1>3. n \in Nat
  OBVIOUS
<1> HIDE DEF n
<1>4. /\ f \in [0 .. n -> Seq(Nat)] /\ f[0] = rows /\ f[n] = ids
      /\ \A i \in 1 .. n : f[i] = Swapped(f[i - 1], swaps[i][1], swaps[i][2])
  BY <1>1 DEF Runs, n
<1>5. Rec(f)
  <2>1. ASSUME NEW i \in 0 .. n
        PROVE  f[i] = IF i = 0 THEN rows ELSE Swapped(f[i - 1], swaps[i][1], swaps[i][2])
    <3>1. i # 0 => i \in 1 .. n
      BY <1>3
    <3> QED
      BY <1>4, <3>1
  <2>2. f = [i \in 0 .. n |-> f[i]]
    BY <1>4
  <2>3. f = [i \in 0 .. n |-> IF i = 0 THEN rows ELSE Swapped(f[i - 1], swaps[i][1], swaps[i][2])]
    BY <2>1, <2>2
  <2> QED
    BY <2>3 DEF Swapped
<1>6. Rec(h)
  <2> HIDE DEF Rec
  <2> QED
    BY ONLY <1>5
<1> HIDE DEF h
<1>7. h[0] = rows /\ \A i \in 1 .. n : h[i] = Swapped(h[i - 1], swaps[i][1], swaps[i][2])
  <2>1. h = [i \in 0 .. n |-> IF i = 0 THEN rows ELSE Swapped(h[i - 1], swaps[i][1], swaps[i][2])]
    BY <1>6 DEF Swapped
  <2>2. 0 \in 0 .. n /\ \A i \in 1 .. n : i \in 0 .. n /\ i # 0
    BY <1>3
  <2> HIDE DEF Rec
  <2> QED
    BY <2>1, <2>2
<1> DEFINE A == {i \in 0 .. n : h[i] = f[i]}
<1>8. 0 \in A
  BY <1>3, <1>4, <1>7
<1>9. ASSUME NEW i \in 1 .. n, i - 1 \in A PROVE i \in A
  <2>1. h[i - 1] = f[i - 1] /\ i \in 0 .. n
    BY <1>3, <1>9
  <2> QED
    BY <1>4, <1>7, <2>1
<1> HIDE DEF A, Rec
<1>10. \A i \in 0 .. n : i \in A
  BY <1>3, <1>8, <1>9, Climbs
<1> QED
  BY <1>2, <1>3, <1>4, <1>10 DEF A

-----------------------------------------------------------------------------
(* The invariant.                                                          *)

StateOK ==
  /\ mem \in Memories /\ Tokens1(batch) /\ mode \in Modes /\ n_ubatch \in UbatchSizes \cup {1}
  /\ phase \in {"idle", "splitting", "rejected", "stuck", "cut", "decoded"}
  /\ phase # "idle" => batch # <<>> /\ n_ubatch \in UbatchSizes
  /\ phase \notin {"idle", "rejected"} => \A s \in Seqs : Consecutive(batch, s)

\* The ubatches are a cut of the tokens that are used.
CutOK ==
  /\ ubatches \in Seq(Ubatch1)
  /\ \A u \in Range(ubatches) : u.idxs # <<>> /\ u.n_seqs # 0 /\ Range(u.idxs) \subseteq Idx
  /\ used = Range(Flat(ubatches)) /\ used \subseteq Idx /\ Once(Flat(ubatches))
  /\ phase \in {"idle", "rejected"} => ubatches = <<>>
  /\ phase \in {"cut", "decoded"} => used = Idx

\* No token that is used comes after one that is left and has a sequence in common.
OrderOK ==
  (HasCpl => mode = "simple") => InOrder(Flat(ubatches)) /\ Ahead(used, Idx \ used)

EvenOK ==
  \A u \in Range(ubatches) :
    (mode = "equal" => EvenParts(u, FALSE)) /\ (mode = "sequential" => EvenParts(u, TRUE))

\* ids is the order of the rows once the swaps are applied.
OutputsAre(ids) ==
  /\ ids \in Seq(Nat) /\ Once(ids) /\ Range(ids) = {k \in Idx : batch[k].out}
  /\ rows \in Seq(Nat) /\ Len(rows) = Len(ids) /\ Range(rows) = Range(ids)
  /\ swaps \in Seq(Pairs) /\ Applied(rows, swaps, ids)
  /\ output_ids = [k \in Idx |-> IF k \in Range(ids) THEN CHOOSE r \in DOMAIN ids : ids[r] = k ELSE -1]

OutputsOK ==
  /\ phase # "decoded" =>
       rows = <<>> /\ swaps = <<>> /\ \A k \in DOMAIN output_ids : output_ids[k] = -1
  /\ phase = "decoded" => \E ids : OutputsAre(ids)

BatchInv == StateOK /\ CutOK /\ OrderOK /\ EvenOK /\ OutputsOK

LEMMA NothingCut ==
  ASSUME ubatches = <<>>, used = {}, NEW p, p = phase, p \notin {"cut", "decoded"}
  PROVE  CutOK /\ OrderOK /\ EvenOK
<1>1. <<>> \in Seq(Ubatch1) /\ Range(<<>>) = {} /\ DOMAIN <<>> = {}
  BY DEF Range
<1>2. Flat(ubatches) = <<>>
  BY FlatNone
<1>3. Once(<<>>) /\ InOrder(<<>>)
  BY <1>1 DEF Once, InOrder
<1>4. CutOK
  BY <1>1, <1>2, <1>3 DEF CutOK
<1>5. OrderOK
  BY <1>2, <1>3 DEF OrderOK, Ahead
<1>6. EvenOK
  BY <1>1 DEF EvenOK
<1> QED
  BY <1>4, <1>5, <1>6

LEMMA BatchInit == Init => BatchInv
<1> SUFFICES ASSUME Init PROVE BatchInv
  OBVIOUS
<1> USE DEF Init
<1>1. <<>> \in Seq(Token1) /\ DOMAIN <<>> = {}
  OBVIOUS
<1>2. StateOK
  BY <1>1 DEF StateOK, Tokens1, Modes
<1>3. CutOK /\ OrderOK /\ EvenOK
  BY NothingCut
<1>4. OutputsOK
  BY <1>1 DEF OutputsOK
<1> QED
  BY <1>2, <1>3, <1>4 DEF BatchInv

LEMMA NothingCutNext ==
  ASSUME ubatches' = <<>>, used' = {}, phase' \notin {"cut", "decoded"}
  PROVE  CutOK' /\ OrderOK' /\ EvenOK'
<1>1. <<>> \in Seq(Ubatch1) /\ Range(<<>>) = {} /\ DOMAIN <<>> = {}
  BY DEF Range
<1>2. Flat(ubatches)' = <<>>
  BY FlatNone DEF Flat
<1>3. Once(<<>>) /\ \A a, b \in DOMAIN <<>> : a < b /\ Meets(<<>>[a], <<>>[b])' => <<>>[a] < <<>>[b]
  BY <1>1 DEF Once
<1>4. CutOK'
  BY <1>1, <1>2, <1>3 DEF CutOK
<1>5. OrderOK'
  BY <1>1, <1>2, <1>3 DEF OrderOK, Ahead, InOrder
<1>6. EvenOK'
  BY <1>1 DEF EvenOK
<1> QED
  BY <1>4, <1>5, <1>6

LEMMA SubmitInv ==
  ASSUME BatchInv, phase = "idle", NEW input \in Inputs(mem), NEW how \in Modes,
         NEW size \in UbatchSizes, Submit(input, how, size)
  PROVE  BatchInv'
<1> DEFINE tokens == IF input[1].pos = NoPos THEN Positioned(input) ELSE input
<1>1. /\ batch' = tokens /\ phase' = IF Accepted(tokens) THEN "splitting" ELSE "rejected"
      /\ n_ubatch' = size /\ mode' = how /\ output_ids' = [k \in DOMAIN input |-> -1]
      /\ mem' = mem /\ ubatches' = ubatches /\ used' = used /\ rows' = rows /\ swaps' = swaps
  BY DEF Submit
<1>2. mem \in Memories /\ ubatches = <<>> /\ used = Range(Flat(ubatches)) /\ rows = <<>> /\ swaps = <<>>
  BY DEF BatchInv, StateOK, CutOK, OutputsOK
<1>3. input \in Seq(Token0) /\ input # <<>>
  BY <1>2, MemoryIs
<1>4. Tokens1(tokens) /\ tokens # <<>>
  <2>1. Tokens1(Positioned(input)) /\ Len(Positioned(input)) = Len(input)
    BY <1>2, <1>3, PositionedIs
  <2>2. Len(input) # 0
    BY <1>3
  <2>3. Positioned(input) # <<>>
    BY <2>1, <2>2 DEF Tokens1
  <2>4. Tokens1(input)
    <3>1. Token0 \subseteq Token1
      BY DEF Token0, Token1
    <3>2. input \in Seq(Token1)
      BY <1>3, <3>1
    <3> QED
      BY <3>2 DEF Tokens1
  <2> QED
    BY <1>3, <2>1, <2>3, <2>4
<1> HIDE DEF tokens
<1>5. used = {}
  BY <1>2, FlatNone DEF Range
<1>6. StateOK'
  <2>1. phase' = "splitting" => \A s \in Seqs : Consecutive(tokens, s)
    BY <1>1 DEF Accepted
  <2>2. \A s \in Seqs : Consecutive(tokens, s) <=> Consecutive(batch, s)'
    BY <1>1 DEF Consecutive, SeqPos
  <2>3. Tokens1(batch)' /\ batch' # <<>>
    BY <1>1, <1>4 DEF Tokens1
  <2> QED
    BY <1>1, <1>2, <2>1, <2>2, <2>3 DEF StateOK
<1>7. CutOK' /\ OrderOK' /\ EvenOK'
  BY <1>1, <1>2, <1>5, NothingCutNext
<1>8. OutputsOK'
  BY <1>1, <1>2 DEF OutputsOK
<1> QED
  BY <1>6, <1>7, <1>8 DEF BatchInv

LEMMA SplitInv ==
  ASSUME BatchInv, Split
  PROVE  BatchInv'
<1> DEFINE u == NextUbatch
           q == u.idxs
           flat == Flat(ubatches)
<1>1. /\ phase = "splitting" /\ q # <<>> /\ ubatches' = Append(ubatches, u)
      /\ used' = used \cup Range(q)
      /\ batch' = batch /\ mem' = mem /\ n_ubatch' = n_ubatch /\ mode' = mode /\ phase' = phase
      /\ rows' = rows /\ output_ids' = output_ids /\ swaps' = swaps
  BY DEF Split
<1>2. StateOK /\ CutOK /\ OrderOK /\ EvenOK /\ OutputsOK
  BY DEF BatchInv
<1>3. Tokens1(batch) /\ n_ubatch \in Nat /\ mode \in Modes
  BY <1>2, BatchAssumption DEF StateOK
<1>4. /\ Fresh(u) /\ ((HasCpl => mode = "simple") => Keeps(q))
      /\ (mode = "equal" => EvenParts(u, FALSE)) /\ (mode = "sequential" => EvenParts(u, TRUE))
  BY <1>1, <1>3, NextUbatchIs
<1> HIDE DEF u
<1>5. u \in Ubatch1 /\ Range(q) \subseteq Idx \ used /\ Once(q) /\ u.n_seqs # 0
  BY <1>1, <1>4 DEF Fresh
<1>6. /\ ubatches \in Seq(Ubatch1) /\ used = Range(flat) /\ used \subseteq Idx /\ Once(flat)
      /\ \A v \in Range(ubatches) : v.idxs # <<>> /\ v.n_seqs # 0 /\ Range(v.idxs) \subseteq Idx
  BY <1>2 DEF CutOK
<1>7. q \in Seq(Nat)
  BY <1>5 DEF Ubatch1
<1>8. flat \in Seq(Nat) /\ Flat(ubatches') = flat \o q
  BY <1>1, <1>5, <1>6, FlatMore
<1> HIDE DEF q, flat
<1> DEFINE r == flat \o q
<1>9. /\ r \in Seq(Nat) /\ Range(r) = Range(flat) \cup Range(q)
      /\ \A i \in DOMAIN flat : r[i] = flat[i]
      /\ \A i \in DOMAIN q : r[Len(flat) + i] = q[i]
      /\ \A i \in DOMAIN r : i \in DOMAIN flat \/ \E j \in DOMAIN q : i = Len(flat) + j
      /\ DOMAIN flat = 1 .. Len(flat) /\ Len(flat) \in Nat /\ DOMAIN q \subseteq Nat
      /\ \A j \in DOMAIN q : j > 0
  <2>1. DOMAIN flat = 1 .. Len(flat) /\ Len(flat) \in Nat /\ DOMAIN q = 1 .. Len(q) /\ Len(q) \in Nat
    BY <1>7, <1>8, DomainOf
  <2>2. DOMAIN q \subseteq Nat /\ \A j \in DOMAIN q : j > 0
    BY <2>1
  <2>3. /\ r \in Seq(Nat) /\ Range(r) = Range(flat) \cup Range(q)
        /\ \A i \in DOMAIN flat : r[i] = flat[i]
        /\ \A i \in DOMAIN q : r[Len(flat) + i] = q[i]
        /\ \A i \in DOMAIN r : i \in DOMAIN flat \/ \E j \in DOMAIN q : i = Len(flat) + j
    BY <1>7, <1>8, ConcatIs
  <2> QED
    BY <2>1, <2>2, <2>3
<1> HIDE DEF r
<1>10. /\ \A i \in DOMAIN flat : flat[i] \in used
       /\ \A i \in DOMAIN q : q[i] \in Idx \ used
  BY <1>5, <1>6 DEF Range
<1>11. StateOK'
  BY <1>1, <1>2 DEF StateOK, Consecutive
<1>12. Once(r)
  <2> SUFFICES ASSUME NEW a \in DOMAIN r, NEW b \in DOMAIN r, r[a] = r[b] PROVE a = b
    BY DEF Once
  <2>1. CASE a \in DOMAIN flat /\ b \in DOMAIN flat
    BY <1>6, <1>9, <2>1 DEF Once
  <2>2. CASE a \in DOMAIN flat /\ b \notin DOMAIN flat
    BY <1>9, <1>10, <2>2
  <2>3. CASE a \notin DOMAIN flat /\ b \in DOMAIN flat
    BY <1>9, <1>10, <2>3
  <2>4. CASE a \notin DOMAIN flat /\ b \notin DOMAIN flat
    <3>1. PICK i \in DOMAIN q : a = Len(flat) + i
      BY <1>9, <2>4
    <3>2. PICK j \in DOMAIN q : b = Len(flat) + j
      BY <1>9, <2>4
    <3>3. q[i] = q[j]
      BY <1>9, <3>1, <3>2
    <3>4. i = j
      BY <1>5, <3>3 DEF Once
    <3> QED
      BY ONLY <3>1, <3>2, <3>4
  <2> QED
    BY <2>1, <2>2, <2>3, <2>4
<1>13. Range(ubatches') = Range(ubatches) \cup {u}
  BY <1>1, <1>5, <1>6, AppendIs
<1>14. CutOK'
  <2>1. ubatches' \in Seq(Ubatch1)
    BY <1>1, <1>5, <1>6
  <2>2. Idx' = Idx
    BY <1>1 DEF Idx
  <2>3. Flat(ubatches)' = r
    BY <1>8 DEF r
  <2>4. u.idxs = q
    BY DEF q
  <2>5. \A v \in Range(ubatches') : v.idxs # <<>> /\ v.n_seqs # 0 /\ Range(v.idxs) \subseteq Idx
    BY <1>1, <1>5, <1>6, <1>13, <2>4
  <2>6. used' = Range(r) /\ used' \subseteq Idx
    BY <1>1, <1>5, <1>6, <1>9
  <2> QED
    BY <1>1, <1>12, <2>1, <2>2, <2>3, <2>5, <2>6 DEF CutOK
<1>15. ASSUME HasCpl => mode = "simple"
       PROVE  InOrder(r) /\ Ahead(used', Idx \ used')
  <2>1. InOrder(flat) /\ Ahead(used, Idx \ used) /\ InOrder(q) /\ Ahead(Range(q), (Idx \ used) \ Range(q))
    BY <1>2, <1>4, <1>15 DEF OrderOK, Keeps, flat, q
  <2>3. Ahead(used', Idx \ used')
    <3> SUFFICES ASSUME NEW x \in used', NEW y \in Idx \ used', Meets(x, y) PROVE x < y
      BY DEF Ahead
    <3>1. y \in Idx \ used /\ y \in (Idx \ used) \ Range(q) /\ (x \in used \/ x \in Range(q))
      BY <1>1
    <3> QED
      BY <2>1, <3>1 DEF Ahead
  <2>4. InOrder(r)
    <3> SUFFICES ASSUME NEW a \in DOMAIN r, NEW b \in DOMAIN r, a < b, Meets(r[a], r[b]) PROVE r[a] < r[b]
      BY DEF InOrder
    <3>1. CASE a \in DOMAIN flat /\ b \in DOMAIN flat
      BY <1>9, <2>1, <3>1 DEF InOrder
    <3>2. CASE a \in DOMAIN flat /\ b \notin DOMAIN flat
      <4>1. r[a] \in used /\ r[b] \in Idx \ used
        BY <1>9, <1>10, <3>2
      <4> QED
        BY <2>1, <4>1 DEF Ahead
    <3>3. CASE a \notin DOMAIN flat
      <4>1. PICK i \in DOMAIN q : a = Len(flat) + i
        BY <1>9, <3>3
      <4>2. b \notin DOMAIN flat
        BY <1>9, <4>1
      <4>3. PICK j \in DOMAIN q : b = Len(flat) + j
        BY <1>9, <4>2
      <4>4. i < j
        BY <1>9, <4>1, <4>3
      <4> QED
        BY <1>9, <2>1, <4>1, <4>3, <4>4 DEF InOrder
    <3> QED
      BY <3>1, <3>2, <3>3
  <2> QED
    BY <2>3, <2>4
<1>18. OrderOK'
  <2> DEFINE w == Flat(ubatches')
  <2>1. w = r
    BY <1>8 DEF r
  <2>2. HasCpl' = HasCpl /\ mode' = mode
    BY <1>1 DEF HasCpl, Idx, SeqSet
  <2>3. (HasCpl => mode = "simple") => InOrder(w) /\ Ahead(used', Idx \ used')
    BY <1>15, <2>1
  <2>4. InOrder(w) => InOrder(Flat(ubatches))'
    BY <1>1 DEF InOrder, Meets, SeqSet
  <2>5. Ahead(used', Idx \ used') => Ahead(used, Idx \ used)'
    BY <1>1 DEF Ahead, Meets, SeqSet, Idx
  <2> HIDE DEF w
  <2> QED
    BY <2>2, <2>3, <2>4, <2>5 DEF OrderOK
<1>16. EvenOK'
  <2>1. \A v, w : EvenParts(v, w)' = EvenParts(v, w)
    BY <1>1 DEF EvenParts, SeqSet
  <2> QED
    BY <1>1, <1>2, <1>4, <1>13, <2>1 DEF EvenOK
<1>17. OutputsOK'
  BY <1>1, <1>2 DEF OutputsOK
<1> QED
  BY <1>11, <1>14, <1>16, <1>17, <1>18 DEF BatchInv

LEMMA SameCut ==
  ASSUME OrderOK, EvenOK, batch' = batch, mode' = mode, ubatches' = ubatches, used' = used
  PROVE  OrderOK' /\ EvenOK'
<1>1. Idx' = Idx /\ HasCpl' = HasCpl
  BY DEF Idx, HasCpl, SeqSet
<1>2. InOrder(Flat(ubatches))' <=> InOrder(Flat(ubatches))
  BY DEF InOrder, Meets, SeqSet, Flat
<1>3. Ahead(used, Idx \ used)' <=> Ahead(used, Idx \ used)
  BY <1>1 DEF Ahead, Meets, SeqSet
<1>4. \A v, w : EvenParts(v, w)' = EvenParts(v, w)
  BY DEF EvenParts, SeqSet
<1>5. OrderOK'
  BY <1>1, <1>2, <1>3 DEF OrderOK
<1>6. EvenOK'
  BY <1>4 DEF EvenOK
<1> QED
  BY <1>5, <1>6

LEMMA FinishInv ==
  ASSUME BatchInv, Finish
  PROVE  BatchInv'
<1>1. /\ phase = "splitting" /\ phase' = IF used = Idx THEN "cut" ELSE "stuck"
      /\ batch' = batch /\ mem' = mem /\ n_ubatch' = n_ubatch /\ mode' = mode /\ ubatches' = ubatches
      /\ used' = used /\ rows' = rows /\ output_ids' = output_ids /\ swaps' = swaps
  BY DEF Finish
<1>2. StateOK /\ CutOK /\ OrderOK /\ EvenOK /\ OutputsOK
  BY DEF BatchInv
<1>3. StateOK'
  BY <1>1, <1>2 DEF StateOK, Consecutive
<1>4. CutOK'
  BY <1>1, <1>2 DEF CutOK, Idx
<1>5. OrderOK' /\ EvenOK'
  BY <1>1, <1>2, SameCut
<1>6. OutputsOK'
  BY <1>1, <1>2 DEF OutputsOK
<1> QED
  BY <1>3, <1>4, <1>5, <1>6 DEF BatchInv

LEMMA AgainInv ==
  ASSUME BatchInv, Again
  PROVE  BatchInv'
<1>1. /\ phase = "cut" /\ phase' = "splitting" /\ mode' = "equal" /\ ubatches' = <<>> /\ used' = {}
      /\ batch' = batch /\ mem' = mem /\ n_ubatch' = n_ubatch
      /\ rows' = rows /\ output_ids' = output_ids /\ swaps' = swaps
  BY DEF Again
<1>2. StateOK /\ OutputsOK
  BY DEF BatchInv
<1>3. StateOK'
  BY <1>1, <1>2 DEF StateOK, Consecutive, Modes
<1>4. CutOK' /\ OrderOK' /\ EvenOK'
  BY <1>1, NothingCutNext
<1>5. OutputsOK'
  BY <1>1, <1>2 DEF OutputsOK
<1> QED
  BY <1>3, <1>4, <1>5 DEF BatchInv

LEMMA ClearInv ==
  ASSUME BatchInv, Clear
  PROVE  BatchInv'
<1>1. /\ batch' = <<>> /\ n_ubatch' = 1 /\ mode' = "simple" /\ phase' = "idle"
      /\ ubatches' = <<>> /\ used' = {} /\ rows' = <<>> /\ output_ids' = <<>> /\ swaps' = <<>>
      /\ mem' = mem
  BY DEF Clear
<1>2. mem \in Memories
  BY DEF BatchInv, StateOK
<1>3. <<>> \in Seq(Token1) /\ DOMAIN <<>> = {}
  OBVIOUS
<1>4. StateOK'
  BY <1>1, <1>2, <1>3 DEF StateOK, Modes, Tokens1
<1>5. CutOK' /\ OrderOK' /\ EvenOK'
  BY <1>1, NothingCutNext
<1>6. OutputsOK'
  BY <1>1, <1>3 DEF OutputsOK
<1> QED
  BY <1>4, <1>5, <1>6 DEF BatchInv

LEMMA DecodeInv ==
  ASSUME BatchInv, Decode
  PROVE  BatchInv'
<1> DEFINE outs == {k \in Idx : batch[k].out}
           flat == Flat(ubatches)
           out_ids == Kept(flat, outs)
           sorted == Sorted(out_ids)
           ids == sorted.ids
<1>1. /\ phase = "cut" /\ phase' = "decoded" /\ rows' = out_ids /\ swaps' = sorted.swaps
      /\ output_ids' = [k \in Idx |->
           IF k \in Range(ids) THEN CHOOSE r \in DOMAIN ids : ids[r] = k ELSE -1]
      /\ batch' = batch /\ mem' = mem /\ n_ubatch' = n_ubatch /\ mode' = mode
      /\ ubatches' = ubatches /\ used' = used
  BY DEF Decode
<1>2. StateOK /\ CutOK /\ OrderOK /\ EvenOK
  BY DEF BatchInv
<1>3. /\ ubatches \in Seq(Ubatch1) /\ used = Range(flat) /\ Once(flat) /\ used = Idx
  BY <1>1, <1>2 DEF CutOK
<1>4. flat \in Seq(Nat)
  <2>1. [idxs |-> <<>>, n_seqs |-> 0] \in Ubatch1
    BY DEF Ubatch1
  <2> QED
    BY <1>3, <2>1, FlatMore
<1>5. Selects(flat, outs, Len(flat), out_ids)
  BY <1>4, KeptSelects
<1>6. outs' = outs /\ Idx' = Idx
  BY <1>1 DEF Idx
<1>7. outs \subseteq Idx
  OBVIOUS
<1> HIDE DEF out_ids, outs, flat
<1>8. /\ out_ids \in Seq(Nat)
      /\ \A x : x \in Range(out_ids) <=> x \in outs /\ \E i \in 1 .. Len(flat) : flat[i] = x
      /\ \A a, b \in DOMAIN out_ids : a < b =>
           \E i, j \in 1 .. Len(flat) : i < j /\ flat[i] = out_ids[a] /\ flat[j] = out_ids[b]
  BY <1>5 DEF Selects
<1>9. DOMAIN flat = 1 .. Len(flat) /\ Len(flat) \in Nat
  BY <1>4, DomainOf
<1>10. Range(out_ids) = outs
  BY <1>3, <1>7, <1>8, <1>9 DEF Range
<1>11. Once(out_ids)
  <2> SUFFICES ASSUME NEW a \in DOMAIN out_ids, NEW b \in DOMAIN out_ids, a < b PROVE out_ids[a] # out_ids[b]
    <3>1. \A a, b \in DOMAIN out_ids : a \in Nat /\ b \in Nat
      BY <1>8, DomainOf
    <3>2. \A a, b \in DOMAIN out_ids : a # b => a < b \/ b < a
      BY <3>1
    <3> QED
      BY <3>2 DEF Once
  <2>1. PICK i, j \in 1 .. Len(flat) : i < j /\ flat[i] = out_ids[a] /\ flat[j] = out_ids[b]
    BY <1>8
  <2>2. i # j
    BY <1>9, <2>1
  <2> QED
    BY <1>3, <1>9, <2>1, <2>2 DEF Once
<1>12. sorted \in Sorting(out_ids)
  BY <1>8, <1>11, SortedIs
<1> HIDE DEF sorted
<1>13. /\ ids \in Seq(Nat) /\ sorted.swaps \in Seq(Pairs) /\ Len(ids) = Len(out_ids)
       /\ Range(ids) = Range(out_ids) /\ Once(ids) /\ Applied(out_ids, sorted.swaps, ids)
  BY <1>12 DEF Sorting
<1> DEFINE sw == sorted.swaps
<1>14. sw \in Seq(Pairs) /\ Applied(out_ids, sw, ids) /\ swaps' = sw
  BY <1>1, <1>13
<1> HIDE DEF ids, sw
<1>15. \E p : OutputsAre(p)'
  <2> DEFINE Good(p) ==
        /\ p \in Seq(Nat) /\ Once(p) /\ Range(p) = outs'
        /\ rows' \in Seq(Nat) /\ Len(rows') = Len(p) /\ Range(rows') = Range(p)
        /\ swaps' \in Seq(Pairs) /\ Applied(rows', swaps', p)
        /\ output_ids' = [k \in Idx' |-> IF k \in Range(p) THEN CHOOSE r \in DOMAIN p : p[r] = k ELSE -1]
  <2>1. Good(ids)
    BY <1>1, <1>6, <1>8, <1>10, <1>13, <1>14
  <2>2. \E p : Good(p)
    BY <2>1
  <2> QED
    BY <2>2 DEF OutputsAre, outs
<1>16. OutputsOK'
  BY <1>1, <1>15 DEF OutputsOK
<1>17. StateOK'
  BY <1>1, <1>2 DEF StateOK, Consecutive
<1>18. CutOK'
  BY <1>1, <1>2 DEF CutOK, Idx
<1>19. OrderOK' /\ EvenOK'
  BY <1>1, <1>2, SameCut
<1> QED
  BY <1>16, <1>17, <1>18, <1>19 DEF BatchInv

LEMMA ReorderInv ==
  ASSUME BatchInv, Reorder
  PROVE  BatchInv'
<1>1. /\ phase = "decoded" /\ swaps' = <<>>
      /\ batch' = batch /\ mem' = mem /\ n_ubatch' = n_ubatch /\ mode' = mode /\ phase' = phase
      /\ ubatches' = ubatches /\ used' = used /\ output_ids' = output_ids
  BY DEF Reorder
<1>2. StateOK /\ CutOK /\ OrderOK /\ EvenOK
  BY DEF BatchInv
<1>3. PICK ids : OutputsAre(ids)
  BY <1>1 DEF BatchInv, OutputsOK
<1>4. /\ ids \in Seq(Nat) /\ Once(ids) /\ Range(ids) = {k \in Idx : batch[k].out}
      /\ swaps \in Seq(Pairs) /\ Applied(rows, swaps, ids)
      /\ output_ids = [k \in Idx |-> IF k \in Range(ids) THEN CHOOSE r \in DOMAIN ids : ids[r] = k ELSE -1]
  BY <1>3 DEF OutputsAre
<1>5. rows' = ids
  BY <1>4, ReorderIs
<1>6. Applied(rows', swaps', ids) /\ swaps' \in Seq(Pairs)
  BY <1>1, <1>4, <1>5, AppliedNone
<1>7. OutputsAre(ids)'
  BY <1>1, <1>4, <1>5, <1>6 DEF OutputsAre, Idx
<1>8. OutputsOK'
  BY <1>1, <1>7 DEF OutputsOK
<1>9. StateOK'
  BY <1>1, <1>2 DEF StateOK, Consecutive
<1>10. CutOK'
  BY <1>1, <1>2 DEF CutOK, Idx
<1>11. OrderOK' /\ EvenOK'
  BY <1>1, <1>2, SameCut
<1> QED
  BY <1>8, <1>9, <1>10, <1>11 DEF BatchInv

-----------------------------------------------------------------------------
(* The theorems.                                                           *)

LEMMA BatchStep == BatchInv /\ [Next]_vars => BatchInv'
<1> SUFFICES ASSUME BatchInv, [Next]_vars PROVE BatchInv'
  OBVIOUS
<1>1. ASSUME phase = "idle", NEW input \in Inputs(mem), NEW how \in Modes, NEW size \in UbatchSizes,
             Submit(input, how, size)
      PROVE  BatchInv'
  BY <1>1, SubmitInv
<1>2. CASE Split
  BY <1>2, SplitInv
<1>3. CASE Finish
  BY <1>3, FinishInv
<1>4. CASE Again
  BY <1>4, AgainInv
<1>5. CASE Decode
  BY <1>5, DecodeInv
<1>6. CASE Reorder
  BY <1>6, ReorderInv
<1>7. CASE Clear
  BY <1>7, ClearInv
<1>8. CASE UNCHANGED vars
  <2>1. /\ batch' = batch /\ mem' = mem /\ n_ubatch' = n_ubatch /\ mode' = mode /\ phase' = phase
        /\ ubatches' = ubatches /\ used' = used /\ rows' = rows /\ output_ids' = output_ids
        /\ swaps' = swaps
    BY <1>8 DEF vars
  <2>2. StateOK /\ CutOK /\ OrderOK /\ EvenOK /\ OutputsOK
    BY DEF BatchInv
  <2>3. StateOK'
    BY <2>1, <2>2 DEF StateOK, Consecutive
  <2>4. CutOK'
    BY <2>1, <2>2 DEF CutOK, Idx
  <2>5. OrderOK' /\ EvenOK'
    BY <2>1, <2>2, SameCut
  <2>6. OutputsOK'
    BY <2>1, <2>2 DEF OutputsOK, OutputsAre, Idx
  <2> QED
    BY <2>3, <2>4, <2>5, <2>6 DEF BatchInv
<1> QED
  BY <1>1, <1>2, <1>3, <1>4, <1>5, <1>6, <1>7, <1>8 DEF Next

\* The invariant holds with any batches, memories and sizes.
THEOREM BatchCorrect == Spec => []BatchInv
BY BatchInit, BatchStep, PTL DEF Spec

\* init accepts only what goes on where the memory ends: no position that it holds, and no
\* gap (llama_batch_allocr::init).
THEOREM AcceptedContinuesMemoryHolds == Spec => []AcceptedContinuesMemory
<1>1. BatchInv => AcceptedContinuesMemory
  <2> SUFFICES ASSUME BatchInv, phase \notin {"idle", "rejected"}, NEW s \in Seqs
               PROVE  /\ SeqPos(batch, s) \cap Held(s) = {}
                      /\ AllPos(batch, s) # {} =>
                           AllPos(batch, s) = Min(AllPos(batch, s)) .. Max(AllPos(batch, s))
    BY DEF AcceptedContinuesMemory, AllPos
  <2>1. Tokens1(batch) /\ mem \in Memories /\ Consecutive(batch, s)
    BY DEF BatchInv, StateOK
  <2> QED
    BY <2>1, ConsecutiveContinues, ConsecutiveIsNew
<1> QED
  BY <1>1, BatchCorrect, PTL

\* Once the rows are reordered each token with an output has its own row, the others none
\* (the end of llama_context::decode, output_reorder).
THEOREM RowsFoundHolds == Spec => []RowsFound
<1>1. BatchInv => RowsFound
  <2> SUFFICES ASSUME BatchInv, phase = "decoded", swaps = <<>>, NEW k \in Idx
               PROVE  IF batch[k].out THEN output_ids[k] # -1 /\ rows[output_ids[k]] = k
                      ELSE output_ids[k] = -1
    BY DEF RowsFound
  <2>1. PICK ids : OutputsAre(ids)
    BY DEF BatchInv, OutputsOK
  <2>2. /\ ids \in Seq(Nat) /\ Range(ids) = {x \in Idx : batch[x].out} /\ rows \in Seq(Nat)
        /\ Applied(rows, <<>>, ids)
        /\ output_ids = [x \in Idx |-> IF x \in Range(ids) THEN CHOOSE r \in DOMAIN ids : ids[r] = x ELSE -1]
    BY <2>1 DEF OutputsAre
  <2>3. rows = ids
    BY <2>2, AppliedNone
  <2>4. CASE batch[k].out
    <3>1. k \in Range(ids)
      BY <2>2, <2>4
    <3>2. \E r \in DOMAIN ids : ids[r] = k
      BY <3>1 DEF Range
    <3>3. output_ids[k] \in DOMAIN ids /\ ids[output_ids[k]] = k
      BY <2>2, <3>1, <3>2
    <3>4. output_ids[k] \in Nat
      BY <2>2, <3>3, DomainOf
    <3> QED
      BY <2>3, <2>4, <3>3, <3>4
  <2>5. CASE ~ batch[k].out
    <3>1. k \notin Range(ids)
      BY <2>2, <2>5
    <3> QED
      BY <2>2, <2>5, <3>1
  <2> QED
    BY <2>4, <2>5
<1> QED
  BY <1>1, BatchCorrect, PTL

LEMMA InvType == BatchInv => TypeOK
<1> SUFFICES ASSUME BatchInv PROVE TypeOK
  OBVIOUS
<1>1. StateOK /\ CutOK /\ OutputsOK
  BY DEF BatchInv
<1>2. /\ phase \in {"idle", "splitting", "rejected", "stuck", "cut", "decoded"}
      /\ mode \in Modes /\ n_ubatch \in UbatchSizes \cup {1}
  BY <1>1 DEF StateOK
<1>3. used = Range(Flat(ubatches)) /\ ubatches \in Seq(Ubatch1)
  BY <1>1 DEF CutOK
<1>4. ASSUME NEW k \in DOMAIN ubatches
      PROVE  /\ ubatches[k].idxs # <<>> /\ Range(ubatches[k].idxs) \subseteq Idx
             /\ ubatches[k].n_seqs \in Nat \ {0}
  <2>1. ubatches[k] \in Range(ubatches) /\ ubatches[k] \in Ubatch1
    BY <1>3, DomainOf DEF Range
  <2> QED
    BY <1>1, <2>1 DEF CutOK, Ubatch1
<1>5. Range(rows) \subseteq Idx /\ Range(output_ids) \subseteq {-1} \cup DOMAIN rows
  <2>1. CASE phase # "decoded"
    <3>1. rows = <<>> /\ \A k \in DOMAIN output_ids : output_ids[k] = -1
      BY <1>1, <2>1 DEF OutputsOK
    <3>2. Range(rows) = {}
      BY <3>1 DEF Range
    <3>3. Range(output_ids) \subseteq {-1}
      BY <3>1 DEF Range
    <3> QED
      BY ONLY <3>2, <3>3
  <2>2. CASE phase = "decoded"
    <3>1. PICK ids : OutputsAre(ids)
      BY <1>1, <2>2 DEF OutputsOK
    <3>2. /\ ids \in Seq(Nat) /\ Range(ids) = {x \in Idx : batch[x].out} /\ rows \in Seq(Nat)
          /\ Len(rows) = Len(ids) /\ Range(rows) = Range(ids)
          /\ output_ids = [x \in Idx |->
               IF x \in Range(ids) THEN CHOOSE r \in DOMAIN ids : ids[r] = x ELSE -1]
      BY <3>1 DEF OutputsAre
    <3>3. DOMAIN rows = DOMAIN ids
      BY <3>2, DomainOf
    <3>4. ASSUME NEW x \in Idx PROVE output_ids[x] \in {-1} \cup DOMAIN rows
      <4>1. CASE x \in Range(ids)
        <5>1. \E r \in DOMAIN ids : ids[r] = x
          BY <4>1 DEF Range
        <5> QED
          BY <3>2, <3>3, <4>1, <5>1
      <4>2. CASE x \notin Range(ids)
        BY <3>2, <4>2
      <4> QED
        BY <4>1, <4>2
    <3>5. DOMAIN output_ids = Idx
      BY <3>2
    <3>6. Range(output_ids) \subseteq {-1} \cup DOMAIN rows
      BY <3>4, <3>5 DEF Range
    <3>7. Range(rows) \subseteq Idx
      BY ONLY <3>2
    <3> QED
      BY ONLY <3>6, <3>7
  <2> QED
    BY <2>1, <2>2
<1> QED
  BY <1>2, <1>3, <1>4, <1>5 DEF TypeOK

\* A token is computed after those of its sequence that come before it (split_simple,
\* split_equal, split_seq).
THEOREM NoFutureFirstHolds == Spec => []NoFutureFirst
<1>1. BatchInv => NoFutureFirst
  <2> SUFFICES ASSUME BatchInv PROVE NoFutureFirst
    OBVIOUS
  <2>1. (HasCpl => mode = "simple") => InOrder(Flat(ubatches))
    BY DEF BatchInv, OrderOK
  <2> QED
    BY <2>1, InvType DEF NoFutureFirst, InOrder, Meets
<1> QED
  BY <1>1, BatchCorrect, PTL

\* A ubatch of split_equal is n_seqs runs of one length, each of one sequence set.
THEOREM EqualPartsHolds == Spec => []EqualParts
<1>1. BatchInv => EqualParts
  <2> SUFFICES ASSUME BatchInv PROVE EqualParts
    OBVIOUS
  <2>1. EvenOK
    BY DEF BatchInv
  <2>2. CASE mode = "equal"
    BY <2>1, <2>2 DEF EvenOK, EvenParts, EqualParts
  <2>3. CASE mode = "sequential"
    BY <2>1, <2>3 DEF EvenOK, EvenParts, EqualParts
  <2>4. CASE mode \notin {"equal", "sequential"}
    BY <2>4 DEF EqualParts
  <2> QED
    BY <2>2, <2>3, <2>4
<1> QED
  BY <1>1, BatchCorrect, PTL

LEMMA FewMembers ==
  ASSUME NEW q \in Seq(Nat)
  PROVE  Cardinality(Range(q)) <= Len(q) /\ IsFiniteSet(Range(q))
<1>1. DOMAIN q = 1 .. Len(q) /\ Len(q) \in Nat /\ IsFiniteSet(DOMAIN q)
  BY DomainOf
<1>2. q \in Surjection(DOMAIN q, Range(q))
  BY <1>1 DEF Surjection, Range
<1>3. IsFiniteSet(Range(q)) /\ Cardinality(Range(q)) <= Cardinality(DOMAIN q)
  BY <1>1, <1>2, FS_Surjection
<1>4. Cardinality(1 .. Len(q)) = IF 1 > Len(q) THEN 0 ELSE Len(q) - 1 + 1
  BY <1>1, FS_Interval
<1> QED
  BY <1>1, <1>3, <1>4

LEMMA SplitTakes ==
  ASSUME \A size \in UbatchSizes : Cardinality(Seqs) <= size, BatchInv, Split
  PROVE  Contract!Next
<1> DEFINE u == NextUbatch
           q == u.idxs
           S == Range(q)
           left1 == Idx \ used
<1>1. /\ phase = "splitting" /\ q # <<>> /\ used' = used \cup S
      /\ batch' = batch /\ n_ubatch' = n_ubatch /\ phase' = phase
  BY DEF Split
<1>2. StateOK
  BY DEF BatchInv
<1>3. Tokens1(batch) /\ n_ubatch \in Nat /\ mode \in Modes /\ n_ubatch \in UbatchSizes
  BY <1>1, <1>2, BatchAssumption DEF StateOK
<1>4. Fresh(u) /\ Len(q) <= n_ubatch
  BY <1>3, NextUbatchIs
<1> HIDE DEF u
<1>5. q \in Seq(Nat) /\ S \subseteq Idx \ used
  BY <1>4 DEF Fresh, Ubatch1
<1> HIDE DEF q
<1>6. S # {}
  <2>1. 1 \in DOMAIN q
    BY <1>1, <1>5
  <2> QED
    BY <2>1 DEF Range
<1>7. Cardinality(S) <= n_ubatch
  <2>1. Cardinality(S) <= Len(q) /\ IsFiniteSet(S)
    BY <1>5, FewMembers
  <2>2. Cardinality(S) \in Nat /\ Len(q) \in Nat
    BY <1>5, <2>1, FS_CardinalityType
  <2> QED
    BY <1>3, <1>4, <2>1, <2>2
<1> HIDE DEF S
<1>8. left1' = left1 \ S /\ left1 \ left1' = S /\ S \subseteq left1
  BY <1>1, <1>5 DEF Idx
<1> DEFINE taken == left1 \ left1'
<1>9. taken # {} /\ taken \subseteq left1 /\ Cardinality(taken) <= n_ubatch /\ left1' = left1 \ taken
  BY <1>6, <1>7, <1>8
<1> DEFINE L == IF phase = "splitting" THEN Idx \ used ELSE {}
<1>10. L = left1 /\ L' = left1'
  BY <1>1
<1>11. L \ L' = taken
  BY <1>10
<1> HIDE DEF left1
<1>12. /\ L \ L' # {} /\ L \ L' \subseteq L /\ Cardinality(L \ L') <= n_ubatch
       /\ L' = L \ (L \ L')
  BY ONLY <1>9, <1>10, <1>11
<1>13. Contract!Take(L \ L')
  <2> DEFINE T == L \ L'
  <2>1. T # {} /\ T \subseteq L /\ Cardinality(T) <= n_ubatch /\ L' = L \ T
    BY <1>12
  <2> HIDE DEF T
  <2>2. Contract!Cardinality(T) = Cardinality(T)
    BY DEF Contract!Cardinality, Cardinality
  <2>3. Contract!Take(T)
    BY <1>1, <2>1, <2>2 DEF Contract!Take
  <2> QED
    BY <2>3 DEF T
<1> QED
  BY <1>13 DEF Contract!Next

LEMMA ContractStep ==
  ASSUME \A size \in UbatchSizes : Cardinality(Seqs) <= size
  PROVE  BatchInv /\ BatchInv' /\ [Next]_vars => [Contract!Next]_(Contract!vars)
<1> SUFFICES ASSUME BatchInv, BatchInv', [Next]_vars PROVE [Contract!Next]_(Contract!vars)
  OBVIOUS
<1>0. /\ used \subseteq Idx /\ (phase # "idle" => batch # <<>>) /\ Tokens1(batch)
      /\ (phase \in {"cut", "decoded"} => used = Idx) /\ (phase = "idle" => used = {})
  <2>1. phase = "idle" => used = {}
    BY FlatNone DEF BatchInv, CutOK, Range
  <2> QED
    BY <2>1 DEF BatchInv, CutOK, StateOK
<1>a. batch # <<>> => Idx # {}
  <2>1. batch # <<>> => 1 \in DOMAIN batch
    BY <1>0 DEF Tokens1
  <2> QED
    BY <2>1 DEF Idx
<1>1. ASSUME phase = "idle", NEW input \in Inputs(mem), NEW how \in Modes, NEW size \in UbatchSizes,
             Submit(input, how, size)
      PROVE  [Contract!Next]_(Contract!vars)
  <2>1. used' = {} /\ phase' \in {"splitting", "rejected"} /\ batch' # <<>> /\ Tokens1(batch)'
    BY <1>0, <1>1 DEF Submit, BatchInv, StateOK
  <2>2. Idx' # {}
    <3>1. batch' # <<>> => 1 \in DOMAIN batch'
      BY <2>1 DEF Tokens1
    <3> QED
      BY <2>1, <3>1 DEF Idx
  <2>3. CASE phase' = "splitting"
    <3>1. (Idx \ used)' # {}
      BY <2>1, <2>2
    <3> QED
      BY <1>1, <2>3, <3>1 DEF Contract!Next, Contract!Begin
  <2>4. CASE phase' = "rejected"
    BY <1>1, <2>4 DEF Contract!vars
  <2> QED
    BY <2>1, <2>3, <2>4
<1>2. CASE Split
  BY <1>2, SplitTakes
<1>3. CASE Finish
  <2>1. /\ phase = "splitting" /\ phase' = IF used = Idx THEN "cut" ELSE "stuck"
    BY <1>3 DEF Finish
  <2>2. Idx \ used = {} <=> used = Idx
    BY <1>0
  <2> QED
    BY <2>1, <2>2 DEF Contract!Next, Contract!End
<1>4. CASE Again
  <2>1. phase = "cut" /\ phase' = "splitting" /\ used' = {} /\ batch' = batch
    BY <1>4 DEF Again
  <2>2. (Idx \ used)' # {}
    BY <1>0, <1>a, <2>1 DEF Idx
  <2> QED
    BY <2>1, <2>2 DEF Contract!Next, Contract!Begin
<1>5. CASE Decode
  <2>1. phase = "cut" /\ phase' = "decoded"
    BY <1>5 DEF Decode
  <2> QED
    BY <2>1 DEF Contract!vars
<1>6. CASE Reorder
  <2>1. phase = "decoded" /\ phase' = "decoded"
    BY <1>6 DEF Reorder
  <2> QED
    BY <2>1 DEF Contract!vars
<1>7. CASE Clear
  <2>1. phase \in {"rejected", "stuck", "decoded"} /\ phase' = "idle"
    BY <1>7 DEF Clear
  <2> QED
    BY <2>1 DEF Contract!Next, Contract!Forget, Contract!vars
<1>8. CASE UNCHANGED vars
  BY <1>8 DEF vars, Contract!vars, Idx
<1> QED
  BY <1>1, <1>2, <1>3, <1>4, <1>5, <1>6, <1>7, <1>8 DEF Next

\* When a ubatch has room for a token of every sequence, each cut gives ubatches of at most
\* n_ubatch tokens that are still unused, until none is left (llama_memory_i::init_batch).
THEOREM CutKeepsContract ==
  ASSUME \A size \in UbatchSizes : Cardinality(Seqs) <= size
  PROVE  Spec => ImplementsContract
<1>1. Init => Contract!Init
  BY DEF Init, Contract!Init
<1>2. BatchInv /\ BatchInv' /\ [Next]_vars => [Contract!Next]_(Contract!vars)
  BY ContractStep
<1> QED
  BY <1>1, <1>2, BatchCorrect, PTL DEF Spec, ImplementsContract, Contract!Spec
=============================================================================
