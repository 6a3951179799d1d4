------------------------------ MODULE MCBatch ------------------------------
EXTENDS Batch
MCSeqs == {0, 1, 2}
Nothing == [s \in Seqs |-> <<-1, -1>>]
\* empty; two sequences alike and one that goes back further; one that is empty
MCMemories ==
  {Nothing} \cup {[s \in Seqs |-> IF s = 0 THEN m ELSE <<1, 1>>] : m \in {<<0, 1>>, <<-1, -1>>}}
UpTo(n, S) == UNION {[1 .. m -> S] : m \in 1 .. n}
SeqSets(m) == SUBSET Seqs \ {{}}
\* into an empty memory: llama_decode chooses the positions; outputs: the odd
\* tokens or all
CutInputs(m) ==
  {[k \in DOMAIN b |-> [pos |-> NoPos, seqs |-> b[k], out |-> all \/ k % 2 = 1]] :
     b \in UpTo(4, SeqSets(m)), all \in BOOLEAN}
\* otherwise positions of the caller's, or his own
PosInputs(m) == UpTo(2, [pos : 0 .. 3, seqs : SeqSets(m), out : {TRUE}])
                \cup UpTo(2, [pos : {NoPos}, seqs : SeqSets(m), out : {TRUE}])
MCInputs(m) == IF m = Nothing THEN CutInputs(m) ELSE PosInputs(m)
=============================================================================
