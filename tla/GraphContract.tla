---------------------------- MODULE GraphContract ----------------------------
(***************************************************************************)
(* What ggml_graph_compute promises its caller, whatever the threads do: a *)
(* node is worked on only when everything before it is finished, and the   *)
(* call returns with all of the graph computed, or, aborted, with a        *)
(* prefix of whole nodes.                                                  *)
(*                                                                         *)
(* A graph is a sequence of nodes, a node a sequence of stages with a      *)
(* barrier between two of them.  A stage is Slices, one part per thread,   *)
(* or the number of chunks the threads claim from current_chunk.  The      *)
(* empty node stands for the ones ggml_graph_compute_thread skips.         *)
(***************************************************************************)
EXTENDS Naturals

CONSTANTS Graphs, MaxThreads

Slices == 0                                        \* the other kind of stage
Width(stage, n) == IF stage = Slices THEN n ELSE stage

Stages(g) == UNION {{i} \X DOMAIN g[i] : i \in DOMAIN g}
Before(a, b) == a[1] < b[1] \/ (a[1] = b[1] /\ a[2] < b[2])
PartsOf(g, n, stages) ==                           \* a part is <<stage, number>>
  UNION {{x} \X (0 .. Width(g[x[1]][x[2]], n) - 1) : x \in stages}
AllParts(g, n) == PartsOf(g, n, Stages(g))
PartsBefore(g, n, x) == PartsOf(g, n, {y \in Stages(g) : Before(y, x)})
WholeNodes(g, n) ==                                \* what an abort may leave
  {PartsOf(g, n, {x \in Stages(g) : x[1] <= i}) : i \in DOMAIN g}

VARIABLES
  graph, threads,   \* the graph of the current call and its threads
  done,             \* the parts computed
  status            \* "running", or what the last call returned

vars == <<graph, threads, done, status>>

Init == /\ graph = <<>> /\ threads = 0 /\ done = {} /\ status = "success"

Start ==
  /\ status # "running"
  /\ graph' \in Graphs /\ threads' \in 1 .. MaxThreads
  /\ done' = {} /\ status' = "running"

Compute ==
  /\ status = "running"
  /\ \E part \in AllParts(graph, threads) \ done :
       /\ PartsBefore(graph, threads, part[1]) \subseteq done
       /\ done' = done \cup {part}
  /\ UNCHANGED <<graph, threads, status>>

Return ==
  /\ status = "running"
  /\ \/ status' = "success" /\ done = AllParts(graph, threads)
     \/ status' = "aborted" /\ done \in WholeNodes(graph, threads)
  /\ UNCHANGED <<graph, threads, done>>

Spec == Init /\ [][Start \/ Compute \/ Return]_vars
=============================================================================
