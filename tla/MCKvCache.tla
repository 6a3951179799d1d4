----------------------------- MODULE MCKvCache -----------------------------
EXTENDS KvCache
MCSeqs == {0, 1}
\* a cache without a window whose ranges are removed, copied and shifted, one that
\* is divided, one whose copies meet what they copied before, and one with a window,
\* whose sequences are not copied
MCUses == {
  [size |-> 3, swa |-> 0, batches |-> {<<{0}, {1}, {0}>>},
   edits |-> {"rm", "cp", "add"}, ranges |-> {<<0, 2>>}, last |-> 2, twice |-> 0],
  [size |-> 3, swa |-> 0, batches |-> {<<{0}>>, <<{0}, {1}, {0}>>},
   edits |-> {"div", "cp", "clear"}, ranges |-> {<<0, 1>>, <<1, 3>>}, last |-> 2,
   twice |-> 0],
  [size |-> 2, swa |-> 0, batches |-> {<<{0}>>},
   edits |-> {"rm", "cp", "add", "clear"}, ranges |-> {<<0, 2>>}, last |-> 1, twice |-> 1],
  [size |-> 6, swa |-> 2, batches |-> {<<{0}>>, <<{0}, {0}, {0}>>, <<{1}, {1}>>},
   edits |-> {"keep", "clear"}, ranges |-> {<<0, 5>>}, last |-> 4, twice |-> 0]}
=============================================================================
