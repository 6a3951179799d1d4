-------------------------- MODULE AllocatorContract --------------------------
(***************************************************************************)
(* What the plan of a graph's memory promises: memory is given out only    *)
(* where no live tensor lies, taken back once, and the chunks are as large *)
(* as the highest end that was ever in use, no larger.                     *)
(***************************************************************************)
EXTENDS Integers, Sequences

VARIABLES
  live,   \* the memory that is given out: [chunk, offset, size, of]: of a tensor
  sizes   \* how much of each chunk was ever in use

vars == <<live, sizes>>

Size(s, c) == IF c \in DOMAIN s THEN s[c] ELSE 0
Overlaps(a, b) ==
  a.chunk = b.chunk /\ a.offset < b.offset + b.size /\ b.offset < a.offset + a.size

Init == live = {} /\ sizes = <<>>

\* b is given out
Give(b) ==
  /\ \A other \in live : ~Overlaps(b, other)
  /\ live' = live \cup {b}
  /\ b.chunk \in 1 .. Len(sizes) + 1
  /\ Len(sizes') = IF b.chunk > Len(sizes) THEN b.chunk ELSE Len(sizes)
  /\ \A c \in DOMAIN sizes' :
       LET end == b.offset + b.size
       IN sizes'[c] = IF c = b.chunk /\ end > Size(sizes, c) THEN end ELSE Size(sizes, c)

\* a tensor is computed in the place of one that is not needed after it
PassOn(b, new) ==
  /\ new.chunk = b.chunk /\ new.offset = b.offset /\ new.size = b.size
  /\ live' = (live \ {b}) \cup {new} /\ UNCHANGED sizes

TakeBack(b) == live' = live \ {b} /\ UNCHANGED sizes

\* a plan is finished, the next one begins with nothing
Restart == live' = {} /\ sizes' = <<>>

Next ==
  \/ \E b \in live' \ live : Give(b)
  \/ \E b \in live \ live' : TakeBack(b) \/ \E new \in live' \ live : PassOn(b, new)
  \/ Restart

Spec == Init /\ [][Next]_vars
=============================================================================
