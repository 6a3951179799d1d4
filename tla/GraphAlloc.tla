----------------------------- MODULE GraphAlloc -----------------------------
(***************************************************************************)
(* The graph allocator (ggml_gallocr, ggml-alloc.c) with one buffer, as    *)
(* llama.cpp uses it on the CPU: a graph is gone through in the order of   *)
(* its nodes, memory is planned for each tensor and freed after its last   *)
(* use; the plan is kept for the graphs that follow.  A step is one call   *)
(* of ggml_gallocr_allocate_node, or one source of a node that was used.   *)
(*                                                                         *)
(* A graph is a sequence of tensors, leafs first, then nodes in the order  *)
(* in which they are computed.  A tensor is its sources (numbers of        *)
(* earlier tensors), the tensor it is a view of or 0, whether its          *)
(* operation can work in place, its size in units of the alignment, and    *)
(* the OUTPUT flag.  Tensors of the same size have the same layout, so     *)
(* free_extra_space has nothing to free; the branch for a parent that is a *)
(* view cannot be reached, as views are never `allocated'.  A chunk may    *)
(* have any number of free blocks; the code asserts less than              *)
(* MAX_FREE_BLOCKS, 256, before it adds one (ggml-alloc.c:134).            *)
(***************************************************************************)
EXTENDS Talloc, FiniteSets

CONSTANTS
  MaxTensors,     \* bound: tensors of a graph
  NextTensors(_), \* tensors that may be added to a graph
  After(_)        \* graphs of other sizes that may be allocated when a graph was planned

VARIABLES
  graph,   \* the first graph, while it is built
  call,    \* reserve_n_impl while it runs: the graph, and who called
  at,      \* where the call is: the tensor, and the step of it
  st,      \* the hash table and the chunks while memory is planned
  plan,    \* node_allocs and leaf_allocs: the graph they were made for, and where
  buffer,  \* sizes of the chunks of the buffer, NoBuffer
  data,    \* the graph that was allocated last, and where its tensors are
  status   \* "ok", "failed": a buffer could not be allocated, "crashed"

planning == <<call, at, st>>
vars == <<graph, call, at, st, plan, buffer, data, status>>

NoBuffer == <<-1>>
NoAddr == [chunk |-> NoChunk, offset |-> 0]
Empty == [graph |-> <<>>, addr |-> <<>>]
NoCall == [graph |-> <<>>, alloc |-> FALSE]

IsView(g, t) == g[t].view # 0
IsLeaf(g, t) == g[t].src = <<>>
Base(g, t) == IF IsView(g, t) THEN g[t].view ELSE t
Uses(g, t) ==
  {u \in (DOMAIN g) \X (1 .. 2) : u[2] <= Len(g[u[1]].src) /\ g[u[1]].src[u[2]] = t}

\* What ggml_build_forward_expand builds: leafs come first, sources before the nodes
\* they are for.  A view is of a tensor that is none, and made from it or from
\* another view of it.
Tensors == [src : Seq(Nat), view : Nat, inplace : BOOLEAN, size : 1 .. Endless,
            output : BOOLEAN]
IsGraph(g) ==
  /\ g \in Seq(Tensors)
  /\ \A t \in DOMAIN g :
       /\ Len(g[t].src) <= 2 /\ \A j \in DOMAIN g[t].src : g[t].src[j] \in 1 .. t - 1
       /\ IsLeaf(g, t) => \A u \in 1 .. t : IsLeaf(g, u)
       /\ IsView(g, t) => /\ g[t].view < t /\ ~IsView(g, g[t].view)
                         /\ ~IsLeaf(g, t) /\ Base(g, g[t].src[1]) = g[t].view

\* The same graph with tensors of other sizes: what can work in place still can.
SameTopology(g, h) ==
  /\ IsGraph(h) /\ DOMAIN g = DOMAIN h
  /\ \A t \in DOMAIN g :
       /\ h[t] = [g[t] EXCEPT !.size = h[t].size]
       /\ g[t].inplace => \A j \in DOMAIN g[t].src :
            g[g[t].src[j]].size = g[t].size => h[g[t].src[j]].size = h[t].size

-----------------------------------------------------------------------------
(* ggml_gallocr_alloc_graph_impl.  A state of it: chunks, the counts of     *)
(* children and views that are still to come, the tensors that own memory,  *)
(* and the address of each tensor.                                          *)

Counted(g) ==
  [chunks |-> <<>>, own |-> {},
   children |-> [t \in DOMAIN g |-> Cardinality(Uses(g, t))],
   views |-> [t \in DOMAIN g |-> Cardinality({v \in DOMAIN g : g[v].view = t})],
   addr |-> [t \in DOMAIN g |-> NoAddr]]

Init ==
  /\ graph = <<>> /\ call = NoCall /\ at = <<1, 1>> /\ st = Counted(<<>>)
  /\ plan = Empty /\ buffer = NoBuffer /\ data = Empty /\ status = "ok"

\* MUTANT: a parent with more children is taken over
MReusable(g, t) ==
  {j \in DOMAIN g[t].src :
     LET p == g[t].src[j]
     IN g[t].inplace /\ p \in st.own /\ ~g[p].output /\ g[p].size = g[t].size /\ st.views[p] = 0}
\* parents whose memory the node may take over, by number of source
Reusable(g, t) ==
  {j \in DOMAIN g[t].src :
     LET p == g[t].src[j]
     IN /\ g[t].inplace /\ p \in st.own
        /\ ~g[p].output /\ g[p].size = g[t].size
        /\ st.children[p] = 1 /\ st.views[p] = 0}

\* ggml_gallocr_allocate_node; with chunk NoChunk the program has aborted
AllocateNode(g, t) ==
  LET js == Reusable(g, t)
      parent == g[t].src[CHOOSE j \in js : \A i \in js : j <= i]
      new == Alloc(st.chunks, g[t].size)
  IN IF t \in st.own \/ IsView(g, t) THEN st
     ELSE IF js # {} THEN [st EXCEPT !.own = (@ \ {parent}) \cup {t}, !.addr[t] = st.addr[parent]]
     ELSE [st EXCEPT !.own = @ \cup {t}, !.addr[t] = new.addr, !.chunks = new.chunks]

\* MUTANT: the tensor stays allocated
MFreeNode(g, s, t) ==
  IF g[t].output THEN s
  ELSE [s EXCEPT !.chunks = FreeBytes(@, s.addr[t], g[t].size)]
\* ggml_gallocr_free_node
FreeNode(g, s, t) ==
  IF g[t].output THEN s
  ELSE [s EXCEPT !.own = @ \ {t}, !.chunks = FreeBytes(@, s.addr[t], g[t].size)]

\* one source of a node was used
UpdateParent(g, p) ==
  LET used == [st EXCEPT !.children[p] = @ - 1]
      unviewed == [used EXCEPT !.views[g[p].view] = @ - 1]
      idle(s, t) == s.children[t] = 0 /\ s.views[t] = 0
  IN IF ~idle(used, p) THEN used
     ELSE IF IsView(g, p)
     THEN IF idle(unviewed, g[p].view) /\ g[p].view \in unviewed.own
          THEN FreeNode(g, unviewed, g[p].view) ELSE unviewed
     ELSE IF p \in used.own THEN FreeNode(g, used, p) ELSE used

\* the program does not survive a tensor without an address
Aborted == \E t \in st.own : st.addr[t].chunk = NoChunk

\* One step of the plan.  The tensors in their order, leafs first: the parents of a
\* node are allocated, then the node, then it has used its parents.
PlanStep ==
  /\ call # NoCall /\ at[1] <= Len(call.graph) /\ ~Aborted
  /\ LET g == call.graph
         t == at[1]
         parents == Len(g[t].src)
     IN /\ st' = IF at[2] <= parents THEN AllocateNode(g, g[t].src[at[2]])
                 ELSE IF at[2] = parents + 1 THEN AllocateNode(g, t)
                 ELSE UpdateParent(g, g[t].src[at[2] - parents - 1])
        /\ at' = IF at[2] <= 2 * parents THEN <<t, at[2] + 1>> ELSE <<t + 1, 1>>
  /\ UNCHANGED <<graph, call, plan, buffer, data, status>>

-----------------------------------------------------------------------------
(* ggml_gallocr_reserve and ggml_gallocr_alloc_graph *)

ChunkSize(b, c) == IF b # NoBuffer /\ c \in DOMAIN b THEN b[c] ELSE 0

\* size_max of tensor t in the plan for graph g, 0 for a view
PlannedSize(g, t) == IF IsView(g, t) THEN 0 ELSE g[t].size

\* ggml_gallocr_node_needs_realloc, whose TRUE means that t of g fits in the
\* place of u in the plan (-1: no place)
Fits(g, t, u) ==
  \/ IsView(g, t)
  \/ u # 0 /\ ~IsView(plan.graph, u) /\ PlannedSize(plan.graph, u) >= g[t].size

\* ggml_gallocr_needs_realloc
NeedsRealloc(g) ==
  LET nodes(h) == {t \in DOMAIN h : ~IsLeaf(h, t)}
      source(h, t, j) == IF j <= Len(h[t].src) THEN h[t].src[j] ELSE 0
  IN ~ /\ Len(plan.graph) = Len(g) /\ nodes(plan.graph) = nodes(g)
       /\ \A t \in nodes(g) :
            /\ Fits(g, t, t)
            /\ \A j \in DOMAIN g[t].src : Fits(g, g[t].src[j], source(plan.graph, t, j))

\* ggml_build_forward_expand
Build(t) ==
  /\ call = NoCall /\ plan = Empty /\ Len(graph) < MaxTensors /\ IsGraph(Append(graph, t))
  /\ graph' = Append(graph, t) /\ UNCHANGED <<planning, plan, buffer, data, status>>

\* ggml_gallocr_reserve_n_impl begins: the allocators and the hash table are reset.
\* It is called by reserve, or by alloc_graph when the plan does not fit the graph.
Begin(g, alloc) ==
  /\ status # "crashed"
  /\ alloc => NeedsRealloc(g)
  /\ call' = [graph |-> g, alloc |-> alloc]
  /\ at' = <<1, 1>> /\ st' = Counted(g) /\ data' = Empty /\ graph' = <<>>
  /\ UNCHANGED <<plan, buffer, status>>

\* The tensors of g get their addresses; without a buffer ggml_vbuffer_tensor_alloc
\* follows a null pointer.
InitTensors(g, addr) ==
  /\ status' = IF buffer' = NoBuffer THEN "crashed" ELSE "ok"
  /\ data' = IF buffer' = NoBuffer THEN Empty ELSE [graph |-> g, addr |-> addr]

\* the buffer, if it has to grow; NoBuffer if it could not be allocated
NewBuffer(sizes, enough) ==
  IF buffer # NoBuffer /\ \A c \in DOMAIN sizes : sizes[c] <= ChunkSize(buffer, c) THEN buffer
  ELSE IF enough THEN sizes ELSE NoBuffer

\* the end of ggml_gallocr_reserve_n_impl, and what its caller does then
Finish(enough) ==
  /\ call # NoCall /\ at[1] > Len(call.graph) /\ ~Aborted
  /\ plan' = [graph |-> call.graph, addr |-> st.addr]
  /\ buffer' = NewBuffer([c \in DOMAIN st.chunks |-> st.chunks[c].max_size], enough)
  /\ IF buffer' = NoBuffer THEN status' = "failed" /\ UNCHANGED data
     ELSE IF call.alloc THEN InitTensors(call.graph, st.addr)
     ELSE status' = "ok" /\ UNCHANGED data
  /\ call' = NoCall /\ UNCHANGED <<graph, at, st>>

\* ggml_gallocr_alloc_graph when the plan fits
AllocPlanned(g) ==
  /\ status # "crashed" /\ ~NeedsRealloc(g)
  /\ graph' = <<>> /\ UNCHANGED <<planning, plan, buffer>>
  /\ InitTensors(g, plan.addr)

\* between two calls: the graph that was built, then what follows it
Allowed ==
  IF call # NoCall THEN {}
  ELSE IF plan = Empty THEN {graph} \ {<<>>}
  ELSE {g \in After(plan.graph) : SameTopology(plan.graph, g)}

Next ==
  \/ \E t \in NextTensors(graph) : Build(t)
  \/ \E g \in Allowed : AllocPlanned(g) \/ \E alloc \in BOOLEAN : Begin(g, alloc)
  \/ PlanStep
  \/ \E enough \in BOOLEAN : Finish(enough)

Spec == Init /\ [][Next]_vars

-----------------------------------------------------------------------------
(* Properties *)

TypeOK ==
  /\ status \in {"ok", "failed", "crashed"}
  /\ data # Empty => status = "ok" /\ buffer # NoBuffer
  /\ buffer = NoBuffer \/ \A c \in DOMAIN buffer : buffer[c] \in Nat
  /\ call # NoCall => data = Empty /\ at[1] \in 1 .. Len(call.graph) + 1
  /\ IsGraph(call.graph) /\ IsGraph(data.graph)
  /\ \A x \in {plan, data} :
       /\ DOMAIN x.addr = DOMAIN x.graph
       /\ \A t \in DOMAIN x.graph : x.addr[t].chunk \in 0 .. MaxChunks /\ x.addr[t].offset \in Nat

\* What is said of the use of a tensor, without the counters of the allocator: the
\* nodes that read it or a view of it, and when its memory is first written.
Readers(g, t) == {n \in DOMAIN g : \E j \in DOMAIN g[n].src : Base(g, g[n].src[j]) = t}
Owners(g) == {t \in DOMAIN g : ~IsView(g, t) /\ (IsLeaf(g, t) => Readers(g, t) # {})}
Written(g, t) == IF IsLeaf(g, t) THEN 0 ELSE t

\* t and u lie on common memory
Overlap(g, addr, t, u) ==
  /\ addr[t].chunk = addr[u].chunk
  /\ addr[t].offset < addr[u].offset + g[u].size /\ addr[u].offset < addr[t].offset + g[t].size

\* u may be written over t: t is no output, its readers come before u, or u itself
\* is the last and works in place on exactly the memory of t.
MayReplace(g, addr, t, u) ==
  /\ ~g[t].output /\ Written(g, t) < Written(g, u)
  /\ \A n \in Readers(g, t) :
       \/ n < u
       \/ n = u /\ g[u].inplace /\ addr[t] = addr[u] /\ g[t].size = g[u].size

\* Every tensor that a node computes or reads has memory in the buffer there is,
\* also when the buffer was made for an earlier graph.
Inside(t) ==
  /\ data.addr[t].chunk # NoChunk
  /\ data.addr[t].offset + data.graph[t].size <= ChunkSize(buffer, data.addr[t].chunk)

\* The type invariant, and, for the tensors that have memory of their own in the graph
\* that was allocated last: they lie in the buffer, and none is overwritten before its
\* last reader, or at all if it is itself an output.  The memory is planned ahead from
\* counters, so this is never looked at again when the graph is computed.
\* An output that is a view is not protected: after its last reader FreeNode frees the
\* memory of its base (ggml-alloc.c:808) and a later tensor may be written over it,
\* although output tensors are "never freed and never overwritten" (ggml-alloc.h:44).
NothingOverwritten ==
  LET g == data.graph
  IN /\ TypeOK
     /\ \A t \in Owners(g) : Inside(t)
     /\ \A t, u \in Owners(g) :
          t < u /\ Overlap(g, data.addr, t, u) => MayReplace(g, data.addr, t, u)

Cells(b) == b.offset .. End(b) - 1

Block(addr, size, t) == [chunk |-> addr.chunk, offset |-> addr.offset, size |-> size, of |-> t]

\* the memory that was given out and not freed
Live ==
  {Block(st.addr[t], call.graph[t].size, t) : t \in IF call = NoCall THEN {} ELSE st.own}

\* While memory is planned, every cell of a chunk is in one free block or in one
\* live tensor: nothing is lost or given out twice, and neighbouring free blocks
\* are one, so that what was freed in pieces can be used for one tensor again.
EveryCellOnce ==
  \A c \in DOMAIN st.chunks :
    LET free == st.chunks[c].free
        blocks == {Block([chunk |-> c, offset |-> b.offset], b.size, 0) : b \in free}
                  \cup {b \in Live : b.chunk = c}
    IN call # NoCall =>
         /\ \A a, b \in blocks : a # b => Cells(a) \cap Cells(b) = {}
         /\ \A a \in blocks : a.offset = 0 \/ \E b \in blocks : End(b) = a.offset
         /\ \E a \in blocks : End(a) >= MaxChunkSize
         /\ \A a, b \in free : End(a) # b.offset

\* What the planner is to do: AllocatorContract.
Allocator == INSTANCE AllocatorContract WITH
  live <- Live,
  sizes <- IF call = NoCall THEN <<>> ELSE [c \in DOMAIN st.chunks |-> st.chunks[c].max_size]

\* Each step of the planner gives out memory that no live tensor has, or takes one
\* back once, or passes it on; it never aborts, and the buffer it asks for is large
\* enough for every moment of the graph and no larger.
ImplementsAllocator == Allocator!Spec
=============================================================================
