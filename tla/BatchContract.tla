--------------------------- MODULE BatchContract ---------------------------
(***************************************************************************)
(* What llama_memory_i::init_batch relies on: a batch is cut into ubatches *)
(* of at most n tokens, each token goes into exactly one of them, and in   *)
(* the end all are used or no ubatch is.  A cut may be given up and begun  *)
(* again.                                                                  *)
(***************************************************************************)
EXTENDS Naturals, FiniteSets

VARIABLES
  left,   \* the tokens that are in no ubatch yet
  n,      \* the ubatches' size
  result  \* "", "split" or "none"

vars == <<left, n, result>>

Init == left = {} /\ n = 1 /\ result = "none"

Begin(tokens, size) ==
  /\ result # "" /\ tokens # {}
  /\ left' = tokens /\ n' = size /\ result' = ""

Take(ubatch) ==
  /\ result = "" /\ ubatch # {} /\ ubatch \subseteq left
  /\ Cardinality(ubatch) <= n
  /\ left' = left \ ubatch /\ UNCHANGED <<n, result>>

End ==
  /\ result = "" /\ left' = {} /\ n' = 1
  /\ result' = IF left = {} THEN "split" ELSE "none"

\* the batch is over
Forget == result = "split" /\ result' = "none" /\ UNCHANGED <<left, n>>

Next ==
  \/ Forget
  \/ Begin(left', n')
  \/ Take(left \ left')
  \/ End

Spec == Init /\ [][Next]_vars
=============================================================================
