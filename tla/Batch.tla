-------------------------------- MODULE Batch --------------------------------
(***************************************************************************)
(* llama_batch_allocr (llama-batch.cpp): a batch is checked, cut into      *)
(* ubatches in one of four ways, and the rows of the output, which come in *)
(* the order of the ubatches, are brought back into the order of the batch *)
(* (the end of llama_context::decode and output_reorder).                  *)
(*                                                                         *)
(* A token is its position (NoPos when the caller leaves positions to      *)
(* llama_decode), its sequences and whether it has an output.              *)
(***************************************************************************)
EXTENDS Integers, Sequences, FiniteSets, FiniteSetsExt, SequencesExt

CONSTANTS
  Seqs,        \* sequence ids, numbers
  Memories,    \* what the memory may hold: [Seqs -> <<seq_pos_min, seq_pos_max>>]
  Inputs(_),   \* batches submitted with a memory: sequences of tokens
  UbatchSizes  \* n_ubatch

ASSUME BatchAssumption ==
  /\ Seqs \subseteq Nat /\ IsFiniteSet(Seqs) /\ UbatchSizes \subseteq Nat \ {0}
  /\ \A m \in Memories :
       /\ m \in [Seqs -> {<<-1, -1>>} \cup (Nat \X Nat)]
       /\ \A input \in Inputs(m) :
            /\ input \in Seq([pos : Nat \cup {-1}, seqs : (SUBSET Seqs) \ {{}}, out : BOOLEAN])
            /\ input # <<>>

VARIABLES
  batch,     \* the tokens, <<>> before the first batch
  mem,       \* seq_pos_min and seq_pos_max of the memory, per sequence
  n_ubatch,
  mode,      \* how it is cut
  phase,     \* "idle", "splitting", "rejected", "stuck", "cut", "decoded"
  ubatches,  \* the ubatches so far: [idxs, n_seqs]
  used,      \* the tokens that are in one
  rows,      \* the token whose logits are in each row of the output
  output_ids,\* the row of a token, -1: none
  swaps      \* swaps of rows that are still to be applied

vars == <<batch, mem, n_ubatch, mode, phase, ubatches, used, rows, output_ids, swaps>>

Modes == {"simple", "equal", "sequential", "seq"}
Idx == DOMAIN batch
Flat(us) == FlattenSeq([k \in DOMAIN us |-> us[k].idxs])
NoPos == -1

Init ==
  /\ batch = <<>> /\ mem \in Memories /\ n_ubatch = 1 /\ mode = "simple" /\ phase = "idle"
  /\ ubatches = <<>> /\ used = {} /\ rows = <<>> /\ output_ids = <<>> /\ swaps = <<>>

-----------------------------------------------------------------------------
(* llama_batch_allocr::init *)

\* positions for a batch that has none: each sequence goes on where it ended
Positioned(tokens) ==
  LET next[k \in 0 .. Len(tokens)] ==
        IF k = 0 THEN [s \in Seqs |-> mem[s][2] + 1]
        ELSE LET before == next[k - 1]
                 seqs == tokens[k].seqs
             IN [s \in Seqs |-> IF s \in seqs THEN before[Min(seqs)] + 1 ELSE before[s]]
  IN [k \in DOMAIN tokens |-> [tokens[k] EXCEPT !.pos = next[k - 1][Min(tokens[k].seqs)]]]

SeqPos(tokens, s) == {tokens[k].pos : k \in {k \in DOMAIN tokens : s \in tokens[k].seqs}}

\* MUTANT: the batch need not begin where the memory ends
MConsecutive(tokens, s) ==
  LET ps == SeqPos(tokens, s) IN ps # {} => Max(ps) - Min(ps) + 1 <= Cardinality(ps)

\* the positions of a sequence follow those in the memory, without a gap
Consecutive(tokens, s) ==
  LET ps == SeqPos(tokens, s)
  IN ps # {} =>
       /\ mem[s][2] >= 0 => Min(ps) = mem[s][2] + 1
       /\ Max(ps) - Min(ps) + 1 <= Cardinality(ps)

\* sequences of one token are in the memory over the same range
NotDiverged(tokens) ==
  \A k \in DOMAIN tokens : \A s, t \in tokens[k].seqs : mem[s] = mem[t]

\* The last check of init: the sets of each sequence's tokens have an element in
\* common, and no position is below cur_seq_pos, which stays -1.
LastChecks(tokens) ==
  \A s \in Seqs :
    LET mine == {k \in DOMAIN tokens : s \in tokens[k].seqs}
        cur_seq_pos == -1
    IN /\ {t \in Seqs : \A k \in mine : t \in tokens[k].seqs} # {}
       /\ \A k \in mine : tokens[k].pos >= cur_seq_pos

Accepted(tokens) ==
  /\ \A s \in Seqs : Consecutive(tokens, s)
  /\ NotDiverged(tokens)
  /\ LastChecks(tokens)

\* llama_decode with a batch that has positions or not, and split_reset
Submit(input, how, size) ==
  /\ LET tokens == IF input[1].pos = NoPos THEN Positioned(input) ELSE input
     IN /\ batch' = tokens
        /\ phase' = IF Accepted(tokens) THEN "splitting" ELSE "rejected"
  /\ n_ubatch' = size /\ mode' = how
  /\ output_ids' = [k \in DOMAIN input |-> -1]
  /\ UNCHANGED <<mem, ubatches, used, rows, swaps>>

-----------------------------------------------------------------------------
(* The four ways to cut; each gives the next ubatch, <<>> when there is none *)

\* the members of a sequence that are in S, in their order
Kept(seq, S) ==
  LET kept[i \in 0 .. Len(seq)] ==
        IF i = 0 THEN <<>>
        ELSE IF seq[i] \in S THEN Append(kept[i - 1], seq[i]) ELSE kept[i - 1]
  IN kept[Len(seq)]

Unused == Kept([k \in Idx |-> k], Idx \ used)
\* MUTANT: one token too many
MFirstOf(seq, n) == SubSeq(seq, 1, Min({n + 1, Len(seq)}))
FirstOf(seq, n) == SubSeq(seq, 1, Min({n, Len(seq)}))
SeqSet(k) == batch[k].seqs
\* the tokens left of one sequence set
Of(ss) == Kept(Unused, {k \in Idx : SeqSet(k) = ss})

SplitSimple == [idxs |-> FirstOf(Unused, n_ubatch), n_seqs |-> Len(FirstOf(Unused, n_ubatch))]

HasCpl == \E k \in Idx : Cardinality(SeqSet(k)) > 1

\* the sequence sets of the next ubatch of split_equal, at most one too many
CurSeqSets(sequential) ==
  LET sets[k \in 0 .. Len(batch)] ==
        IF k = 0 THEN <<>>
        ELSE LET before == sets[k - 1]
                 takes == /\ k \notin used /\ Len(before) <= n_ubatch
                          /\ \A i \in DOMAIN before : before[i] \cap SeqSet(k) = {}
                          /\ sequential /\ before # <<>> =>
                               Min(SeqSet(k)) = Min(Last(before)) + 1
             IN IF takes THEN Append(before, SeqSet(k)) ELSE before
  IN sets[Len(batch)]

\* MUTANT: the longest set decides how many tokens are taken of each
MSplitEqual(sequential) ==
  LET sets == CurSeqSets(sequential)
      parts == [j \in DOMAIN sets |-> FirstOf(Of(sets[j]), Max({1, n_ubatch \div Len(sets)}))]
  IN IF (sequential /\ HasCpl) \/ sets = <<>> THEN [idxs |-> <<>>, n_seqs |-> 0]
     ELSE [idxs |-> FlattenSeq(parts), n_seqs |-> Len(sets)]
\* MUTANT: the last tokens of each set
MSplitLast(sequential) ==
  LET sets == CurSeqSets(sequential)
      parts == [j \in DOMAIN sets |-> <<Last(Of(sets[j]))>>]
  IN IF (sequential /\ HasCpl) \/ sets = <<>> THEN [idxs |-> <<>>, n_seqs |-> 0]
     ELSE [idxs |-> FlattenSeq(parts), n_seqs |-> Len(sets)]

\* one token of each set, then more as long as all sets have one and they fit
SplitEqual(sequential) ==
  LET sets == CurSeqSets(sequential)
      n_seq_tokens == Min({Len(Of(ss)) : ss \in Range(sets)}
                            \cup {Max({1, n_ubatch \div Len(sets)})})
      parts == [j \in DOMAIN sets |-> SubSeq(Of(sets[j]), 1, n_seq_tokens)]
  IN IF (sequential /\ HasCpl) \/ sets = <<>> THEN [idxs |-> <<>>, n_seqs |-> 0]
     ELSE [idxs |-> FlattenSeq(parts), n_seqs |-> Len(sets)]

\* the first token left, then those whose set is part of the last one's
SplitSeq ==
  LET chain[k \in 0 .. Len(batch)] ==
        IF k = 0 THEN <<>>
        ELSE LET before == chain[k - 1]
                 takes == /\ k \notin used
                          /\ before = <<>> \/ SeqSet(k) \subseteq SeqSet(Last(before))
             IN IF takes THEN Append(before, k) ELSE before
  IN [idxs |-> FirstOf(chain[Len(batch)], n_ubatch), n_seqs |-> 1]

NextUbatch ==
  CASE mode = "simple" -> SplitSimple
    [] mode = "equal" -> SplitEqual(FALSE)
    [] mode = "sequential" -> SplitEqual(TRUE)
    [] mode = "seq" -> SplitSeq

\* one turn of the loop of init_batch
Split ==
  /\ phase = "splitting"
  /\ LET ubatch == NextUbatch
     IN /\ ubatch.idxs # <<>>
        /\ ubatches' = Append(ubatches, ubatch)
        /\ used' = used \cup Range(ubatch.idxs)
  /\ UNCHANGED <<batch, mem, n_ubatch, mode, phase, rows, output_ids, swaps>>

\* the end of that loop: a cut that leaves tokens over is no cut
Finish ==
  /\ phase = "splitting" /\ NextUbatch.idxs = <<>>
  /\ phase' = IF used = Idx THEN "cut" ELSE "stuck"
  /\ UNCHANGED <<batch, mem, n_ubatch, mode, ubatches, used, rows, output_ids, swaps>>

\* llama_kv_cache_iswa::init_batch: no slots for the simple cut, so an equal one
Again ==
  /\ phase = "cut" /\ mode = "simple"
  /\ phase' = "splitting" /\ mode' = "equal" /\ ubatches' = <<>> /\ used' = {}
  /\ UNCHANGED <<batch, mem, n_ubatch, rows, output_ids, swaps>>

-----------------------------------------------------------------------------
(* The outputs *)

\* selection sort of out_ids, and the swaps it did, as numbers of rows from 1
Sorted(out_ids) ==
  LET after[i \in 0 .. Len(out_ids)] ==
        IF i = 0 THEN [ids |-> out_ids, swaps |-> <<>>]
        ELSE LET before == after[i - 1]
                 ids == before.ids
                 j == CHOOSE j \in i .. Len(ids) : \A k \in i .. Len(ids) : ids[j] <= ids[k]
             IN IF j = i THEN before
                ELSE [ids |-> [ids EXCEPT ![i] = ids[j], ![j] = ids[i]],
                      swaps |-> Append(before.swaps, <<i, j>>)]
  IN after[Len(out_ids)]

\* all ubatches are computed: their outputs are in the rows one after the other
Decode ==
  /\ phase = "cut" /\ phase' = "decoded"
  /\ LET out_ids == Kept(Flat(ubatches), {k \in Idx : batch[k].out})
         sorted == Sorted(out_ids)
     IN /\ rows' = out_ids
        /\ swaps' = sorted.swaps
        /\ output_ids' = [k \in Idx |->
             IF k \in Range(sorted.ids) THEN CHOOSE r \in DOMAIN sorted.ids : sorted.ids[r] = k
             ELSE -1]
  /\ UNCHANGED <<batch, mem, n_ubatch, mode, ubatches, used>>

\* MUTANT: the swaps are applied from the last to the first
MReorder ==
  /\ phase = "decoded" /\ swaps # <<>>
  /\ LET after[i \in 0 .. Len(swaps)] ==
           IF i = 0 THEN rows
           ELSE LET swap == swaps[Len(swaps) + 1 - i]
                IN [after[i - 1] EXCEPT ![swap[1]] = after[i - 1][swap[2]],
                                        ![swap[2]] = after[i - 1][swap[1]]]
     IN rows' = after[Len(swaps)]
  /\ swaps' = <<>>
  /\ UNCHANGED <<batch, mem, n_ubatch, mode, phase, ubatches, used, output_ids>>

\* output_reorder, at the first access to the logits
Reorder ==
  /\ phase = "decoded" /\ swaps # <<>>
  /\ LET after[i \in 0 .. Len(swaps)] ==
           IF i = 0 THEN rows
           ELSE LET before == after[i - 1]
                    a == swaps[i][1]
                    b == swaps[i][2]
                IN [before EXCEPT ![a] = before[b], ![b] = before[a]]
     IN rows' = after[Len(swaps)]
  /\ swaps' = <<>>
  /\ UNCHANGED <<batch, mem, n_ubatch, mode, phase, ubatches, used, output_ids>>

\* the next batch: init begins with clear
Clear ==
  /\ phase \in {"rejected", "stuck", "decoded"}
  /\ batch' = <<>> /\ n_ubatch' = 1 /\ mode' = "simple" /\ phase' = "idle"
  /\ ubatches' = <<>> /\ used' = {} /\ rows' = <<>> /\ output_ids' = <<>> /\ swaps' = <<>>
  /\ UNCHANGED mem

Next ==
  \/ /\ phase = "idle"
     /\ \E input \in Inputs(mem), how \in Modes, size \in UbatchSizes :
          Submit(input, how, size)
  \/ Split
  \/ Finish
  \/ Again
  \/ Decode
  \/ Reorder
  \/ Clear

Spec == Init /\ [][Next]_vars

-----------------------------------------------------------------------------
(* Properties *)

TypeOK ==
  /\ phase \in {"idle", "splitting", "rejected", "stuck", "cut", "decoded"}
  /\ mode \in Modes /\ n_ubatch \in UbatchSizes \cup {1}
  /\ \A k \in DOMAIN ubatches :
       /\ ubatches[k].idxs # <<>> /\ Range(ubatches[k].idxs) \subseteq Idx
       /\ ubatches[k].n_seqs \in Nat \ {0}
  /\ Range(rows) \subseteq Idx
  /\ used = Range(Flat(ubatches))
  /\ Range(output_ids) \subseteq {-1} \cup DOMAIN rows

\* A cut is what init_batch relies on: ubatches of at most n_ubatch tokens that
\* are still unused, until none is left.
Contract == INSTANCE BatchContract WITH
  left <- IF phase = "splitting" THEN Idx \ used ELSE {},
  n <- IF phase = "splitting" THEN n_ubatch ELSE 1,
  result <- CASE phase = "splitting" -> ""
              [] phase \in {"cut", "decoded"} -> "split"
              [] OTHER -> "none"
ImplementsContract == Contract!Spec

\* What the graphs of recurrent and split caches rely on: the tokens of a ubatch
\* of split_equal are n_seqs runs of the same length, each of one sequence set in
\* the order of the batch, no two of a common sequence; the sequential cut has
\* consecutive sequence ids.
Part(u, j) ==
  LET len == Len(u.idxs) \div u.n_seqs
  IN SubSeq(u.idxs, (j - 1) * len + 1, j * len)
EqualParts ==
  mode \in {"equal", "sequential"} =>
    \A u \in Range(ubatches) :
      /\ Len(u.idxs) % u.n_seqs = 0
      /\ \A j \in 1 .. u.n_seqs :
           LET p == Part(u, j)
           IN /\ \A a, b \in DOMAIN p : SeqSet(p[a]) = SeqSet(p[b]) /\ (a < b => p[a] < p[b])
              /\ \A i \in 1 .. j - 1 : SeqSet(p[1]) \cap SeqSet(Part(u, i)[1]) = {}
              /\ mode = "sequential" /\ j > 1 =>
                   SeqSet(p[1]) = {Min(SeqSet(Part(u, j - 1)[1])) + 1}

\* The type invariant, and a token is computed after those of its sequence that
\* come before it, whose keys it needs, when no token has several sequences; the
\* simple cut keeps the order of every batch.
NoFutureFirst ==
  /\ TypeOK
  /\ phase # "idle" /\ (HasCpl => mode = "simple") =>
       LET order == Flat(ubatches)
       IN \A a, b \in DOMAIN order :
            a < b /\ SeqSet(order[a]) \cap SeqSet(order[b]) # {} => order[a] < order[b]

\* After the rows are reordered the row of a token holds its logits, and no
\* other token has a row.
RowsFound ==
  phase = "decoded" /\ swaps = <<>> =>
    \A k \in Idx :
      IF batch[k].out THEN output_ids[k] # -1 /\ rows[output_ids[k]] = k
      ELSE output_ids[k] = -1

\* What is accepted goes on where the memory of each sequence ends: it computes none
\* of the positions again that the memory holds, and leaves no gap.  This is about the
\* set of the positions.  In which order the tokens of a sequence come, and whether
\* sequences that share a token share all of them, is not covered: init lets both
\* through, against its own comments (llama-batch.cpp:337, 343; see LastChecks).
Held(s) == IF mem[s][2] < 0 THEN {} ELSE mem[s][1] .. mem[s][2]
AcceptedContinuesMemory ==
  phase \notin {"idle", "rejected"} => \A s \in Seqs :
    LET new == SeqPos(batch, s)
        ps == new \cup Held(s)
    IN /\ new \cap Held(s) = {}
       /\ ps # {} => ps = Min(ps) .. Max(ps)
=============================================================================
