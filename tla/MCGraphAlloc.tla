---------------------------- MODULE MCGraphAlloc ----------------------------
EXTENDS GraphAlloc
CONSTANT OutputAt  \* the tensor that may be an output

Tensor(src, view, inplace, size, output) ==
  [src |-> src, view |-> view, inplace |-> inplace, size |-> size, output |-> output]

\* after one leaf: a view, an operation that can work in place on its first source,
\* one that cannot, of either size
TensorsAfter(g) ==
  LET n == Len(g)
      srcs == {<<p>> : p \in 1 .. n} \cup
              {s \in (1 .. n) \X (1 .. n) : s[1] > s[2] \/ n = 1}
      out == IF n + 1 = OutputAt THEN BOOLEAN ELSE {FALSE}
  IN IF n = 0 THEN {Tensor(<<>>, 0, FALSE, 2, FALSE)}
     ELSE {Tensor(<<p>>, Base(g, p), FALSE, g[p].size, o) : p \in 1 .. n, o \in out}
          \cup {Tensor(s, 0, TRUE, g[s[1]].size, o) : s \in srcs, o \in out}
          \cup {Tensor(s, 0, FALSE, z, o) : s \in srcs, o \in out, z \in {1, 2}}

\* a fifth tensor joins the last one with the leaf
MCNextTensors(g) ==
  IF Len(g) < 4 THEN TensorsAfter(g)
  ELSE {Tensor(<<4, 1>>, 0, inplace, 2, FALSE) : inplace \in BOOLEAN}

\* the same graph for a smaller or a larger batch
Resized(g) == {g} \cup {[t \in DOMAIN g |-> [g[t] EXCEPT !.size = z]] : z \in {1, 2}}
=============================================================================
