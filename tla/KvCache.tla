------------------------------ MODULE KvCache ------------------------------
(***************************************************************************)
(* The KV cache that remembers a conversation for the model                *)
(* (llama-kv-cache.cpp, llama-kv-cells.h), one stream, and the part of     *)
(* llama_context::decode that fills it.                                    *)
(*                                                                         *)
(* A cell holds the keys and values of a token at one position, for the    *)
(* sequences that share it.  Next to the cells the code keeps what it      *)
(* could compute from them: used, seq_pos and has_shift.  K[i] stands for  *)
(* the data, in any one layer: the position the key in cell i is rotated   *)
(* to, None when the cell's token was never computed, and Spoilt when a    *)
(* shift rotated it and is still pending.                                  *)
(***************************************************************************)
EXTENDS Integers, Sequences, FiniteSets, FiniteSetsExt, SequencesExt

CONSTANTS
  Seqs,       \* sequence ids, numbers
  NUbatch,    \* n_ubatch
  Uses        \* what programs do with the cache: records of
              \*   size: the cells
              \*   swa: the attention window n_swa, 0: none
              \*   batches: what is decoded, sequences of the tokens' sequence sets
              \*   edits, ranges: the calls between ("rm", "cp", "keep", "add",
              \*     "div", "clear") and the ranges [p0, p1) they are given
              \*   last: bound: the last position
              \*   twice: bound: how often copies may count a position again

ASSUME KvAssumption ==
  /\ NUbatch \in Nat \ {0}
  /\ Seqs \subseteq Nat /\ IsFiniteSet(Seqs)
  /\ \A u \in Uses :
       /\ u.size \in Nat \ {0} /\ u.swa \in Nat /\ u.last \in Nat /\ u.twice \in Nat
       /\ u.batches \subseteq Seq((SUBSET Seqs) \ {{}}) \ {<<>>} /\ u.ranges \subseteq Nat \X Nat

None == -1
Spoilt == -2

VARIABLES
  use,      \* one of Uses
  kv,       \* llama_kv_cells and the head of the ring
  K,        \* per cell: the position its key was computed for
  todo,     \* ubatches of the running llama_decode, each with its slot
  ret,      \* what llama_decode returned: "ok", "no slot", "failed", ""
  surplus   \* auxiliary: how often copies counted a position of a sequence in a
            \* cell that was the sequence's already

vars == <<use, kv, K, todo, ret, surplus>>

Cell == 0 .. use.size - 1
Pos == 0 .. use.last
NoTokens == [s \in Seqs |-> [p \in Pos |-> 0]]
Reset == [pos |-> [i \in Cell |-> None], seq |-> [i \in Cell |-> {}],
          shift |-> [i \in Cell |-> 0], used |-> {}, seq_pos |-> NoTokens,
          has_shift |-> FALSE, head |-> 0]

Init ==
  /\ use \in Uses /\ kv = Reset /\ K = [i \in Cell |-> None] /\ todo = <<>> /\ ret = ""
  /\ surplus = NoTokens

-----------------------------------------------------------------------------
(* llama_kv_cells: one cell *)

\* seq_pos_inc and seq_pos_dec of the sequences in ss
Count(c, ss, p, d) ==
  [c EXCEPT !.seq_pos = [s \in Seqs |->
     IF s \in ss THEN [c.seq_pos[s] EXCEPT ![p] = @ + d] ELSE c.seq_pos[s]]]
\* what is left of a cell without sequences or position
Erase(c, i) == [c EXCEPT !.pos[i] = None, !.seq[i] = {}, !.shift[i] = 0,
                         !.used = @ \ {i}]
Rm(c, i) == Erase(Count(c, c.seq[i], c.pos[i], -1), i)
CellSeqRm(c, i, s) ==
  IF c.seq[i] = {s} THEN Rm(c, i)
  ELSE [Count(c, {s}, c.pos[i], -1) EXCEPT !.seq[i] = @ \ {s}]
CellSeqKeep(c, i, s) ==
  IF s \in c.seq[i]
  THEN [Count(c, c.seq[i] \ {s}, c.pos[i], -1) EXCEPT !.seq[i] = {s}]
  ELSE IF c.seq[i] # {} THEN Rm(c, i) ELSE c
CellSeqAdd(c, i, s) == [Count(c, {s}, c.pos[i], 1) EXCEPT !.seq[i] = @ \cup {s}]
PosSet(c, i, p) == [c EXCEPT !.pos[i] = p, !.used = @ \cup {i}]
PosAdd(c, i, d) ==
  LET p == c.pos[i] + d
      moved == [c EXCEPT !.has_shift = TRUE, !.shift[i] = @ + d]
  IN IF p < 0 THEN Rm(moved, i)
     ELSE [Count(Count(moved, c.seq[i], c.pos[i], -1), c.seq[i], p, 1)
             EXCEPT !.pos[i] = p]
PosDiv(c, i, d) ==
  LET p == c.pos[i] \div d
  IN [Count(Count(c, c.seq[i], c.pos[i], -1), c.seq[i], p, 1)
        EXCEPT !.pos[i] = p, !.shift[i] = @ + (c.pos[i] - p), !.has_shift = TRUE]

PosIn(c, i, p0, p1) == c.pos[i] >= p0 /\ c.pos[i] < p1
Positions(c, s) == {p \in Pos : c.seq_pos[s][p] > 0}
SeqPosMax(c, s) == IF Positions(c, s) = {} THEN -1 ELSE Max(Positions(c, s))
SeqPosMin(c, s) == IF Positions(c, s) = {} THEN -1 ELSE Min(Positions(c, s))

-----------------------------------------------------------------------------
(* llama_kv_cache: all cells *)

Has(c, s, p0, p1) == {i \in Cell : PosIn(c, i, p0, p1) /\ s \in c.seq[i]}
Freed(c, d) == {i \in Cell : c.pos[i] # None /\ d.pos[i] = None}
\* "If we freed up a slot, set head to it so searching can start there."
Rewound(c, d) ==
  IF Freed(c, d) # {} /\ Min(Freed(c, d)) < c.head
  THEN [d EXCEPT !.head = Min(Freed(c, d))] ELSE d

SeqRm(c, s, p0, p1) ==
  Rewound(c, FoldSet(LAMBDA i, d : CellSeqRm(d, i, s), c, Has(c, s, p0, p1)))
AnyRm(c, p0, p1) ==
  Rewound(c, FoldSet(LAMBDA i, d : Rm(d, i), c,
                     {i \in Cell : PosIn(c, i, p0, p1)}))
SeqKeep(c, s) == Rewound(c, FoldSet(LAMBDA i, d : CellSeqKeep(d, i, s), c, Cell))
SeqCp(c, src, dst, p0, p1) ==
  IF src = dst THEN c
  ELSE FoldSet(LAMBDA i, d : CellSeqAdd(d, i, dst), c, Has(c, src, p0, p1))
SeqAdd(c, s, p0, p1, delta) ==
  LET d == FoldSet(LAMBDA i, e : PosAdd(e, i, delta), c, Has(c, s, p0, p1))
  IN [d EXCEPT !.head = IF Freed(c, d) = {} THEN 0 ELSE Min(Freed(c, d))]
SeqDiv(c, s, p0, p1, by) ==
  FoldSet(LAMBDA i, d : PosDiv(d, i, by), c, Has(c, s, p0, p1))

-----------------------------------------------------------------------------
(* Slots *)

IsMaskedSwa(p0, p1) == use.swa > 0 /\ p1 - p0 >= use.swa

\* MUTANT: masked for the position after the next.
CanUseEarly(c, i) ==
  \/ c.pos[i] = None
  \/ \E s \in Seqs : c.seq[i] = {s} /\ IsMaskedSwa(c.pos[i], SeqPosMax(c, s) + 2)
CanUse(c, i) ==
  \/ c.pos[i] = None
  \/ \E s \in Seqs : /\ c.seq[i] = {s}
                     /\ IsMaskedSwa(c.pos[i], SeqPosMax(c, s) + 1)

\* the cells of a row that can be used, in their order
UsableOf(c, row) ==
  FoldLeft(LAMBDA found, i : IF CanUse(c, i) THEN Append(found, i) ELSE found, <<>>, row)

\* MUTANT: the search ends at the last cell.
FindSlotNoWrap(c, n) ==
  LET start == IF c.head > Cardinality(c.used) + 2 * n THEN 0 ELSE c.head
      usable == UsableOf(c, [k \in 1 .. use.size - start |-> start + k - 1])
  IN IF Len(usable) < n THEN <<>> ELSE SubSeq(usable, 1, n)

\* find_slot: the first n usable cells of the ring, <<>> when there are fewer
FindSlot(c, n) ==
  LET start == IF c.head > Cardinality(c.used) + 2 * n THEN 0 ELSE c.head
      usable == UsableOf(c, [k \in 1 .. use.size |-> (start + k - 1) % use.size])
  IN IF Len(usable) < n THEN <<>> ELSE SubSeq(usable, 1, n)

\* a token of a ubatch: position and sequences
Emplace(c, i, token) ==
  LET bare == PosSet(IF c.pos[i] = None THEN c ELSE Rm(c, i), i, token.pos)
  IN FoldSet(LAMBDA s, d : CellSeqAdd(d, i, s), bare, token.seqs)

\* apply_ubatch.  A sequence that lost a masked position loses all before it.
ApplyUbatch(c, idxs, ubatch) ==
  LET lost(s) == {c.pos[idxs[k]] : k \in {k \in DOMAIN idxs : c.seq[idxs[k]] = {s}}}
      placed == FoldLeftDomain(LAMBDA d, k : Emplace(d, idxs[k], ubatch[k]), c, idxs)
      purged == FoldSet(LAMBDA s, d : SeqRm(d, s, 0, Max(lost(s)) + 1),
                        placed, {s \in Seqs : lost(s) # {}})
  IN [purged EXCEPT !.head = Last(idxs) + 1]

\* MUTANT: a cell that becomes empty again stays counted as used.
RestoreForgetsUsed(c, idxs, old) ==
  LET one(d, i) ==
        LET gone == IF d.pos[i] = None THEN d ELSE Count(d, d.seq[i], d.pos[i], -1)
            back == [gone EXCEPT !.pos[i] = old.pos[i], !.seq[i] = old.seq[i]]
        IN IF old.pos[i] = None THEN back ELSE Count(back, old.seq[i], old.pos[i], 1)
  IN [FoldSet(LAMBDA i, d : one(d, i), c, Range(idxs)) EXCEPT !.head = old.head]

\* cells.set with the copy that cells.cp made of the slot (shifts are not copied)
Restore(c, idxs, old) ==
  LET one(d, i) ==
        LET gone == IF d.pos[i] = None THEN d ELSE Count(d, d.seq[i], d.pos[i], -1)
            back == [gone EXCEPT !.pos[i] = old.pos[i], !.seq[i] = old.seq[i],
                       !.used = IF old.pos[i] = None THEN @ \ {i} ELSE @ \cup {i}]
        IN IF old.pos[i] = None THEN back ELSE Count(back, old.seq[i], old.pos[i], 1)
  IN [FoldSet(LAMBDA i, d : one(d, i), c, Range(idxs)) EXCEPT !.head = old.head]

\* MUTANT: when no slot is found, what was placed so far stays.
PrepareKeeps(c, ubatches) ==
  LET step(r, ubatch) ==
        LET idxs == FindSlot(r.cells, Len(ubatch))
        IN IF ~r.fits \/ idxs = <<>> THEN [r EXCEPT !.fits = FALSE]
           ELSE [r EXCEPT !.cells = ApplyUbatch(r.cells, idxs, ubatch),
                          !.slots = Append(@, idxs)]
      r == FoldLeft(step, [fits |-> TRUE, cells |-> c, slots |-> <<>>], ubatches)
  IN [r EXCEPT !.cells = IF r.fits THEN c ELSE @]

\* prepare: slots for all ubatches, found by placing them, and the cells as they
\* are when what was placed is taken back
Prepare(c, ubatches) ==
  LET step(r, ubatch) ==
        LET idxs == FindSlot(r.cells, Len(ubatch))
        IN IF ~r.fits \/ idxs = <<>> THEN [r EXCEPT !.fits = FALSE]
           ELSE [r EXCEPT !.cells = ApplyUbatch(r.cells, idxs, ubatch),
                          !.slots = Append(@, idxs), !.old = Append(@, r.cells)]
      r == FoldLeft(step, [fits |-> TRUE, cells |-> c, slots |-> <<>>, old |-> <<>>],
                    ubatches)
  IN [fits |-> r.fits, slots |-> r.slots,
      cells |-> FoldRight(LAMBDA k, d : Restore(d, r.slots[k], r.old[k]),
                          [k \in DOMAIN r.slots |-> k], r.cells)]

-----------------------------------------------------------------------------
(* llama_decode *)

\* positions of a batch without pos: each sequence goes on where it ended
Tokens(c, batch) ==
  LET next == [p |-> [s \in Seqs |-> SeqPosMax(c, s) + 1], tokens |-> <<>>]
      add(r, ss) ==
        LET p == r.p[Min(ss)]
        IN [p |-> [s \in Seqs |-> IF s \in ss THEN p + 1 ELSE r.p[s]],
            tokens |-> Append(r.tokens, [pos |-> p, seqs |-> ss])]
  IN FoldLeft(add, next, batch).tokens

\* llama_batch_allocr::init accepts it: sequences that share a token span the
\* same positions in the cache, and go on without a gap
Accepted(c, batch) ==
  LET tokens == Tokens(c, batch)
      of(s) == {tokens[k].pos : k \in {k \in DOMAIN tokens : s \in tokens[k].seqs}}
  IN /\ \A ss \in Range(batch), s, t \in Seqs : {s, t} \subseteq ss =>
          SeqPosMax(c, s) = SeqPosMax(c, t) /\ SeqPosMin(c, s) = SeqPosMin(c, t)
     /\ \A s \in Seqs : of(s) # {} =>
          /\ SeqPosMax(c, s) >= 0 => Min(of(s)) = SeqPosMax(c, s) + 1
          /\ of(s) = Min(of(s)) .. Max(of(s))
          /\ Max(of(s)) <= use.last

\* split_simple until the batch is used up
Split(tokens) ==
  [k \in 1 .. (Len(tokens) + NUbatch - 1) \div NUbatch |->
     SubSeq(tokens, (k - 1) * NUbatch + 1, Min({k * NUbatch, Len(tokens)}))]

\* what an empty cell still holds is of no interest
Used(c, i, key) == IF c.pos[i] = None THEN None ELSE key

\* memory_update: the graph of the pending K-shift rotates the keys in place, a layer
\* after the other.  It is "done", or it "failed" before it came to this layer, or came
\* "half" the way and rotated this layer; in both cases the shift stays pending, and
\* the next attempt rotates the layer (again).  Spoilt keys stay spoilt.
Outcomes == {"done", "failed", "half"}
\* MUTANT: the shift is taken as applied although its graph failed.
UpdateForgets(m, outcome) ==
  IF ~m.cells.has_shift THEN m
  ELSE [cells |-> [m.cells EXCEPT !.shift = [i \in Cell |-> 0], !.has_shift = FALSE],
        keys |-> [i \in Cell |-> IF outcome = "done" THEN m.keys[i] + m.cells.shift[i]
                                 ELSE m.keys[i]]]
Update(m, outcome) ==
  CASE outcome = "done" /\ m.cells.has_shift ->
         [cells |-> [m.cells EXCEPT !.shift = [i \in Cell |-> 0], !.has_shift = FALSE],
          keys |-> [i \in Cell |-> IF m.keys[i] = Spoilt THEN Spoilt
                                   ELSE m.keys[i] + m.cells.shift[i]]]
    [] outcome = "half" /\ m.cells.has_shift ->
         [m EXCEPT !.keys = [i \in Cell |-> IF m.cells.shift[i] # 0 THEN Spoilt ELSE m.keys[i]]]
    [] OTHER -> m

\* what init_batch leaves, when p is what prepare returned
Planned(m, p, ubatches) ==
  /\ kv' = p.cells
  /\ K' = [i \in Cell |-> Used(p.cells, i, m.keys[i])]
  /\ ret' = IF p.fits THEN "" ELSE "no slot"
  /\ todo' = IF ~p.fits THEN <<>>
             ELSE [k \in DOMAIN ubatches |-> [idxs |-> p.slots[k], tokens |-> ubatches[k]]]

\* The K-shift and init_batch, both once more when there was no slot and the
\* shift is still pending.
Decode(batch, first, second) ==
  /\ todo = <<>> /\ Accepted(kv, batch)
  /\ first = "done" \/ kv.has_shift
  /\ second = "done" \/ first # "done"
  /\ UNCHANGED <<use, surplus>>
  /\ LET ubatches == Split(Tokens(kv, batch))
     IN \E m1 \in {Update([cells |-> kv, keys |-> K], first)} :
        \E p1 \in {Prepare(m1.cells, ubatches)} :
          IF ~p1.fits /\ m1.cells.has_shift
          THEN \E m2 \in {Update([m1 EXCEPT !.cells = p1.cells], second)} :
                 Planned(m2, Prepare(m2.cells, ubatches), ubatches)
          ELSE Planned(m1, p1, ubatches)

\* a ubatch: apply, then its graph, which may fail or be aborted
Process(works) ==
  /\ todo # <<>> /\ UNCHANGED <<use, surplus>>
  /\ LET idxs == Head(todo).idxs
         tokens == Head(todo).tokens
         c == ApplyUbatch(kv, idxs, tokens)
         first(s) == {tokens[k].pos : k \in {k \in DOMAIN tokens : Min(tokens[k].seqs) = s}}
     IN IF works
        THEN /\ kv' = c
             /\ K' = [i \in Cell |-> Used(c, i, IF i \in Range(idxs) THEN c.pos[i] ELSE K[i])]
             /\ todo' = Tail(todo)
             /\ ret' = IF Len(todo) = 1 THEN "ok" ELSE ""
        ELSE /\ kv' = FoldSet(LAMBDA s, d : SeqRm(d, s, Min(first(s)), use.last + 1),
                              c, {s \in Seqs : first(s) # {}})
             /\ K' = [i \in Cell |-> IF i \in Range(idxs) THEN None ELSE Used(kv', i, K[i])]
             /\ todo' = <<>> /\ ret' = "failed"

-----------------------------------------------------------------------------
(* The calls between two decodes: llama_memory_seq_... and llama_memory_clear *)

Edit(kind, c) ==
  /\ todo = <<>> /\ kind \in use.edits
  /\ kv' = c /\ K' = [i \in Cell |-> Used(c, i, K[i])]
  /\ ret' = "" /\ UNCHANGED <<use, todo>>

\* Nothing asks whether a cell is dst's already, but an assertion of debug builds
\* (llama-kv-cells.h:312): seq_pos then counts its position once more.
CountedAgain(src, dst, p0, p1) ==
  [surplus EXCEPT ![dst] = [p \in Pos |->
     @[p] + Cardinality({i \in Has(kv, src, p0, p1) : dst \in kv.seq[i] /\ kv.pos[i] = p})]]
Copy(src, dst, p0, p1) ==
  /\ surplus' = CountedAgain(src, dst, p0, p1)
  /\ \A p \in Pos : surplus'[dst][p] <= use.twice
  /\ Edit("cp", SeqCp(kv, src, dst, p0, p1))

EditStep ==
  \/ Edit("clear", Reset) /\ surplus' = NoTokens
  \/ \E s \in Seqs, d \in Seqs, r \in use.ranges : s # d /\ Copy(s, d, r[1], r[2])
  \/ /\ UNCHANGED surplus
     /\ \/ \E r \in use.ranges : Edit("rm", AnyRm(kv, r[1], r[2]))
        \/ \E s \in Seqs, r \in use.ranges :
             \/ Edit("rm", SeqRm(kv, s, r[1], r[2]))
             \/ \E delta \in {-1, 1} :
                  /\ \A i \in Has(kv, s, r[1], r[2]) : kv.pos[i] + delta <= use.last
                  /\ Edit("add", SeqAdd(kv, s, r[1], r[2], delta))
             \/ Edit("div", SeqDiv(kv, s, r[1], r[2], 2))
        \/ \E s \in Seqs : Edit("keep", SeqKeep(kv, s))

Next ==
  \/ EditStep
  \/ \E batch \in use.batches, first, second \in Outcomes : Decode(batch, first, second)
  \/ \E works \in BOOLEAN : Process(works)

Spec == Init /\ [][Next]_vars

-----------------------------------------------------------------------------
(* Properties *)

Token == Pos \X ((SUBSET Seqs) \ {{}})
Content == [t \in Token |->
  Cardinality({i \in Cell : kv.pos[i] = t[1] /\ kv.seq[i] = t[2]})]
BagOf(tokens) == [t \in Token |->
  Cardinality({k \in DOMAIN tokens : tokens[k].pos = t[1] /\ tokens[k].seqs = t[2]})]

TypeOK ==
  /\ use \in Uses
  /\ kv.pos \in [Cell -> Pos \cup {None}] /\ kv.seq \in [Cell -> SUBSET Seqs]
  /\ kv.used \subseteq Cell /\ kv.head \in 0 .. use.size
  /\ \A s \in Seqs, p \in Pos : kv.seq_pos[s][p] \in Nat /\ surplus[s][p] \in 0 .. use.twice
  /\ K \in [Cell -> Int]
  /\ ret \in {"", "ok", "no slot", "failed"}

\* The type invariant, and what the cells keep twice agrees: used is the cells
\* with a position, which are those with a sequence, and seq_pos[s][p] is "how many
\* times the position p is currently present for sequence s" (llama-kv-cells.h:491),
\* plus how often a copy met it there already.  So it is exact as long as no copy
\* overlaps, and what an overlapping copy adds stays until the cache is cleared.
CountersAgree ==
  /\ TypeOK
  /\ kv.used = {i \in Cell : kv.pos[i] # None}
  /\ \A i \in Cell : kv.pos[i] = None <=> kv.seq[i] = {}
  /\ \A s \in Seqs, p \in Pos :
       kv.seq_pos[s][p] =
         surplus[s][p] + Cardinality({i \in Cell : kv.pos[i] = p /\ s \in kv.seq[i]})

\* "this array accumulates any applied shifts to the pos array since the last
\* reset_shift() call" (llama-kv-cells.h:469): the key of a cell is rotated to
\* its position, but for the shift that is still to be applied, whatever edits,
\* failed shifts and retries there were; except where a shift that failed half way
\* has spoilt it, until the cell is computed again.  pos_div counts the shift with
\* the other sign, so nothing is said of uses that divide.
KeyMatchesPosition ==
  "div" \notin use.edits =>
    \A i \in Cell : kv.pos[i] # None /\ K[i] # Spoilt => K[i] + kv.shift[i] = kv.pos[i]

\* Wherever head is, a batch that fits into the empty cells finds its slots, and
\* without a window no other does.
FindsSlotWhenItFits ==
  \A batch \in use.batches : todo = <<>> /\ Accepted(kv, batch) =>
    LET fits == Prepare(kv, Split(Tokens(kv, batch))).fits
        empty == Len(batch) <= Cardinality({i \in Cell : kv.pos[i] = None})
    IN (empty => fits) /\ (fits /\ use.swa = 0 => empty)

\* llama_decode adds to the memory what it processes and nothing else, whether
\* or not it finds slots ("the memory state is restored to the state before this
\* call", llama.h:925), and when a ubatch fails "remove all positions of that
\* ubatch from the memory module" (llama-context.cpp:1583).
DecodeAddsItsTokens ==
  [][use.swa = 0 =>
     /\ (todo = <<>> /\ todo' # <<>>) \/ ret' \in {"no slot", "failed"} => Content' = Content
     /\ todo # <<>> /\ ret' # "failed" =>
          Content' = [t \in Token |-> Content[t] + BagOf(Head(todo).tokens)[t]]]_vars

\* What the next token of a sequence attends to: the positions that cells hold for
\* it, all of them or those in the window.
Present(c, s) == {c.pos[i] : i \in {i \in Cell : s \in c.seq[i]}}
Attended(s) == {p \in Present(kv, s) : ~IsMaskedSwa(p, SeqPosMax(kv, s) + 1)}

\* What a decode overwrites, no sequence will look at again, and it is all there
\* when prepare has looked for slots: "restore the cells to their original state"
\* (llama-kv-cache.cpp:608).
AttendedSurvives ==
  [][\/ todo # <<>> /\ ret' # "failed"
     \/ todo = <<>> /\ todo' # <<>>
     \/ ret' = "no slot"
     => \A s \in Seqs : Attended(s) \subseteq Present(kv', s)]_vars
=============================================================================
