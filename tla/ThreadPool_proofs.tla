-------------------------- MODULE ThreadPool_proofs --------------------------
(***************************************************************************)
(* The thread pool, for any number of threads, any graphs and any number   *)
(* of them.                                                                *)
(***************************************************************************)
EXTENDS ThreadPool, FiniteSetTheorems, SequenceTheorems, TLAPS

-----------------------------------------------------------------------------
(* Where a thread is.                                                      *)

Inside == {"begin", "node", "set", "work", "claim", "node_done",
           "barrier", "enter", "last", "release", "spin"}
AtRest == {"idle", "kick", "stop", "join", "freed"}
End == <<0, 0>>

\* The thread waits at a barrier that is open already.
Released(t) == state[t].pc = "spin" /\ state[t].bar[2] # tp.n_barrier_passed
Waiting(t) == state[t].pc = "spin" /\ state[t].bar[2] = tp.n_barrier_passed
AtEnd(t) == Released(t) /\ state[t].at = End

\* Nobody computes: the barrier at the end of the graph is open.
Over == state[0].pc \in AtRest \/ AtEnd(0)

\* The threads of the graph, and those of them that have noticed it.
Members == 0 .. tp.n_graph[2] - 1
Noticed(t) == t = 0 \/ state[t].last_graph = tp.n_graph

-----------------------------------------------------------------------------
(* The way through a graph, as a sequence of places: looking for the next  *)
(* node, in a stage, before a barrier.  g is the graph, a the abort.       *)

Place(kind, at) == [kind |-> kind, at |-> at]
Search(i) == Place("search", <<i, 0>>)

\* the loop over the nodes goes on to the next one
Skips(g, a, j) == j \in DOMAIN g /\ g[j] = <<>> /\ a # j

\* the barrier behind a stage
BarrierOf(g, x) == IF x[1] = Len(g) /\ x[2] = Len(g[x[1]]) THEN End ELSE x

\* the barrier that a thread comes to from a node that is not skipped
NextBarrier(g, a, j) ==
  IF j > Len(g) \/ a = j THEN End
  ELSE IF g[j][1] # Contract!Slices THEN <<j, 0>> ELSE BarrierOf(g, <<j, 1>>)

\* a search that begins at node i comes to node j
Finds(g, a, i, j) ==
  i <= j /\ ~Skips(g, a, j) /\ \A k \in i .. j - 1 : Skips(g, a, k)

\* ... and from there into the stage x, or to the barrier b
FindsStage(g, a, i, x) ==
  /\ Finds(g, a, i, x[1]) /\ x[1] \in DOMAIN g /\ a # x[1]
  /\ x[2] = 1 /\ g[x[1]][1] = Contract!Slices
FindsBarrier(g, a, i, b) ==
  \E j \in 1 .. Len(g) + 1 : Finds(g, a, i, j) /\ NextBarrier(g, a, j) = b

\* Two threads at p and q are on the way to the same barrier.
Agree(g, a, p, q) ==
  /\ p.kind = "search" /\ q.kind = "search" =>
       \A k \in p.at[1] .. q.at[1] - 1 : Skips(g, a, k)
  /\ p.kind = "search" /\ q.kind = "stage" => FindsStage(g, a, p.at[1], q.at)
  /\ p.kind = "search" /\ q.kind = "barrier" => FindsBarrier(g, a, p.at[1], q.at)
  /\ p.kind = "stage" /\ q.kind = "stage" => p.at = q.at
  /\ p.kind = "stage" /\ q.kind = "barrier" => BarrierOf(g, p.at) = q.at
  /\ p.kind = "barrier" /\ q.kind = "barrier" => p.at = q.at

\* The places a graph has.
Places(g) ==
  {Search(i) : i \in 1 .. Len(g) + 1}
  \cup {Place("stage", x) : x \in Contract!Stages(g)}
  \cup {Place("barrier", b) : b \in {End}
          \cup {x \in Contract!Stages(g) : BarrierOf(g, x) # End}
          \cup {<<i, 0>> : i \in {j \in DOMAIN g : /\ g[j] # <<>>
                                                   /\ g[j][1] # Contract!Slices}}}

\* Behind a barrier that is not the last one.
Behind(g, b) == IF b[2] = Len(g[b[1]]) THEN Search(b[1] + 1)
                                       ELSE Place("stage", <<b[1], b[2] + 1>>)

\* The place of a thread of the graph.  One that has not noticed it will begin at the
\* first node; one whose barrier is open is behind it.
PlaceAt(pc, at) ==
  Place(IF pc = "node" THEN "search"
        ELSE IF pc \in {"work", "claim", "node_done"} THEN "stage" ELSE "barrier", at)
PlaceOf(t) ==
  IF ~Noticed(t) \/ state[t].pc \in {"signal", "begin"} THEN Search(1)
  ELSE IF Released(t) THEN Behind(tp.cgraph, state[t].at)
  ELSE PlaceAt(state[t].pc, state[t].at)

\* What else a thread's pc says of where it is.
WellAt(t, g, pc, at) ==
  /\ pc = "node_done" => at[2] = Len(g[at[1]])
  /\ pc = "claim" => g[at[1]][at[2]] # Contract!Slices
  /\ pc = "set" => t = 0 /\ at # End /\ Behind(g, at).kind = "stage"
  /\ pc = "spin" => Place("barrier", at) \in Places(g)

-----------------------------------------------------------------------------
(* The inductive invariant, without what is computed.                      *)

CallerPcs == Inside \cup AtRest \cup {"signal"}
WorkerPcs == Inside \cup {"loop", "stop?", "pause", "paused", "poll", "polled", "lock",
                          "asleep", "exited"}

PoolRecord ==
  [n_graph : Nat \X (0 .. NThreads), cgraph : Graphs \cup {<<>>}, n_barrier : Nat,
   n_barrier_passed : Nat, current_chunk : Nat, stop : BOOLEAN, pause : BOOLEAN,
   abort : Nat, ec : {"success", "aborted"}, mutex : BOOLEAN]
ThreadRecord ==
  [pc : CallerPcs \cup WorkerPcs, last_graph : Nat \X (0 .. NThreads),
   cgraph : Graphs \cup {<<>>}, nth : 0 .. NThreads, at : Nat \X Nat, chunk : Nat,
   bar : Nat \X Nat]

PoolShape == tp \in PoolRecord
ThreadShape ==
  /\ state \in [Thread -> ThreadRecord]
  /\ state[0].pc \in CallerPcs
  /\ \A t \in Worker : state[t].pc \in WorkerPcs

\* Graphs are counted, and noticed in their order.
Counted ==
  /\ tp.n_graph[1] <= MaxGraphs
  /\ state[0].pc = "kick" => /\ tp.n_graph[1] < MaxGraphs /\ state[0].nth \in 1 .. NThreads
                             /\ done = {} /\ tp.abort = 0 /\ tp.cgraph \in Graphs
  /\ \A t \in Worker :
       \/ state[t].last_graph = tp.n_graph
       \/ state[t].last_graph[1] < tp.n_graph[1]

\* Between two graphs no worker is inside the computation, but for the way out.
RestIsQuiet ==
  Over => \A t \in Worker :
            /\ state[t].pc \in Inside => AtEnd(t)
            /\ t \in Members => Noticed(t)

\* During a graph its threads are inside from when they notice it to the end; other
\* threads may be on the way out of an earlier one.
GraphHasMembers ==
  ~Over =>
    /\ 0 \in Members /\ state[0].nth = tp.n_graph[2] /\ tp.cgraph \in Graphs
    /\ \A t \in Worker :
         IF t \in Members /\ Noticed(t)
         THEN state[t].pc \in Inside /\ ~AtEnd(t)
         ELSE state[t].pc \in Inside => AtEnd(t)
    /\ \A t \in Members : state[t].pc \in Inside \ {"begin"} /\ Noticed(t) =>
         state[t].cgraph = tp.cgraph /\ state[t].nth = tp.n_graph[2]

\* The barrier has counted those who wait; who comes last finds all others waiting.
Crowd == {t \in Thread : Waiting(t)}
BarrierCounts ==
  /\ \A t \in Thread :
       /\ state[t].pc = "spin" => state[t].bar[2] <= tp.n_barrier_passed
       /\ state[t].pc \in {"enter", "last", "release"} \/ Waiting(t) =>
            state[t].bar = <<tp.n_graph[2], tp.n_barrier_passed>> /\ tp.n_graph[2] > 1
       /\ state[t].pc \in {"last", "release"} => Crowd = Members \ {t}
       /\ state[t].pc = "last" => tp.n_barrier = tp.n_graph[2]
       /\ state[t].pc = "release" => tp.n_barrier = 0
  /\ (\A t \in Thread : state[t].pc \notin {"last", "release"}) =>
       tp.n_barrier = Cardinality(Crowd)

\* All threads of the graph are on the way to the same barrier.
OnTheWay ==
  ~Over =>
    /\ tp.abort \in 0 .. Len(tp.cgraph) + 1
    /\ \A t \in Members : PlaceOf(t) \in Places(tp.cgraph)
    /\ \A t, u \in Members : Agree(tp.cgraph, tp.abort, PlaceOf(t), PlaceOf(u))
    /\ \A t \in Members : Noticed(t) => WellAt(t, tp.cgraph, state[t].pc, state[t].at)

PoolInv == PoolShape /\ ThreadShape /\ Counted /\ RestIsQuiet /\ GraphHasMembers
           /\ BarrierCounts /\ OnTheWay

-----------------------------------------------------------------------------
(* Shapes                                                                  *)

Shape == PoolShape /\ ThreadShape

LEMMA ShapeInit == Init => Shape
BY PoolAssumption DEF Init, Shape, PoolShape, ThreadShape, PoolRecord, ThreadRecord,
   CallerPcs, WorkerPcs, Inside, AtRest, Thread, Worker

LEMMA PcSets ==
  /\ Inside \subseteq CallerPcs /\ Inside \subseteq WorkerPcs /\ AtRest \subseteq CallerPcs
  /\ "signal" \in CallerPcs
  /\ {"loop", "stop?", "pause", "paused", "poll", "polled", "lock", "asleep", "exited"}
       \subseteq WorkerPcs
BY DEF CallerPcs, WorkerPcs

LEMMA PcChange ==
  ASSUME NEW r \in ThreadRecord, NEW pc \in CallerPcs \cup WorkerPcs
  PROVE  /\ [r EXCEPT !.pc = pc] \in ThreadRecord
         /\ [r EXCEPT !.pc = pc].pc = pc
<1> DEFINE pcs == CallerPcs \cup WorkerPcs
<1>1. pc \in pcs
  OBVIOUS
<1> HIDE DEF pcs
<1> QED
  BY <1>1 DEF ThreadRecord

\* A step of one thread.
LEMMA StepShape ==
  ASSUME ThreadShape, NEW t \in Thread, NEW r \in ThreadRecord,
         state' = [state EXCEPT ![t] = r],
         t = 0 => r.pc \in CallerPcs, t # 0 => r.pc \in WorkerPcs
  PROVE  /\ ThreadShape'
         /\ state'[t] = r
         /\ \A u \in Thread \ {t} : state'[u] = state[u]
<1>1. Thread # {} /\ 0 \in Thread /\ Worker = Thread \ {0}
  BY PoolAssumption DEF Thread, Worker
<1> QED
  BY <1>1 DEF ThreadShape

LEMMA GotoShape ==
  ASSUME ThreadShape, NEW t \in Thread, NEW pc, Goto(t, pc),
         t = 0 => pc \in CallerPcs, t # 0 => pc \in WorkerPcs
  PROVE  ThreadShape'
<1> DEFINE r == [state[t] EXCEPT !.pc = pc]
<1>1. state' = [state EXCEPT ![t] = r]
  BY DEF Goto
<1>2. r \in ThreadRecord /\ r.pc = pc
  BY PcChange DEF ThreadShape
<1> HIDE DEF r
<1> QED
  BY <1>1, <1>2, StepShape

LEMMA BroadcastShape ==
  ASSUME ThreadShape, NEW pc \in CallerPcs,
         \/ state' = Broadcast(state) \/ state' = [Broadcast(state) EXCEPT ![0].pc = pc]
  PROVE  ThreadShape'
<1>0. Thread # {} /\ 0 \in Thread /\ Worker = Thread \ {0}
  BY PoolAssumption DEF Thread, Worker
<1>1. "loop" \in WorkerPcs /\ "lock" \in WorkerPcs
  BY DEF WorkerPcs
<1>2. state[0].pc \notin {"paused", "asleep"}
  BY DEF ThreadShape, CallerPcs, Inside, AtRest
<1> DEFINE b == Broadcast(state)
           woken(t, to) == [state[t] EXCEPT !.pc = to]
<1>3. \A t \in Thread : /\ woken(t, "loop") \in ThreadRecord
                        /\ woken(t, "lock") \in ThreadRecord
                        /\ woken(t, "loop").pc = "loop"
                        /\ woken(t, "lock").pc = "lock"
  BY <1>1, PcChange DEF ThreadShape
<1>4. b = [t \in Thread |-> IF state[t].pc = "paused" THEN woken(t, "loop")
                            ELSE IF state[t].pc = "asleep" THEN woken(t, "lock")
                            ELSE state[t]]
  BY DEF Broadcast
<1>5. \/ state' = b
      \/ state' = [b EXCEPT ![0] = [b[0] EXCEPT !.pc = pc]]
  OBVIOUS
<1> HIDE DEF b, woken
<1>6. b \in [Thread -> ThreadRecord] /\ b[0] = state[0]
  BY <1>0, <1>2, <1>3, <1>4 DEF ThreadShape
<1>7. \A t \in Worker : b[t].pc \in WorkerPcs
  BY <1>0, <1>1, <1>3, <1>4 DEF ThreadShape
<1> DEFINE r == [b[0] EXCEPT !.pc = pc]
<1>8. r \in ThreadRecord /\ r.pc \in CallerPcs
  BY <1>0, <1>6, PcChange
<1>9. state' = b \/ state' = [b EXCEPT ![0] = r]
  BY <1>5
<1> HIDE DEF r
<1> QED
  BY <1>0, <1>6, <1>7, <1>8, <1>9 DEF ThreadShape

LEMMA ShapeCaller ==
  Shape /\ (Calls \/ Kick \/ KickSignal \/ FreeSignal \/ FreeJoin \/ Finished) => Shape'
<1> SUFFICES ASSUME Shape, Calls \/ Kick \/ KickSignal \/ FreeSignal \/ FreeJoin \/ Finished
             PROVE  Shape'
  OBVIOUS
<1> USE PcSets DEF Shape
<1>0. 0 \in Thread /\ Thread \in SUBSET Nat /\ 1 .. NThreads \subseteq 0 .. NThreads
  BY PoolAssumption DEF Thread
<1>1. CASE \E g \in Graphs, n \in 1 .. NThreads : Compute(g, n)
  <2> PICK g \in Graphs, n \in 1 .. NThreads : Compute(g, n)
    BY <1>1
  <2>1. PoolShape'
    BY DEF Compute, PoolShape, PoolRecord
  <2> DEFINE q == [state[0] EXCEPT !.pc = "kick"]
             r == [q EXCEPT !.nth = n]
  <2>2. q \in ThreadRecord /\ q.pc = "kick"
    BY <1>0, PcChange DEF ThreadShape, AtRest
  <2>3. state' = [state EXCEPT ![0] = r]
    BY <1>0 DEF Compute, ThreadShape
  <2> HIDE DEF q
  <2>4. r \in ThreadRecord /\ r.pc = "kick"
    BY <1>0, <2>2 DEF ThreadRecord
  <2> HIDE DEF r
  <2>5. ThreadShape'
    BY <1>0, <2>3, <2>4, StepShape DEF AtRest
  <2> QED
    BY <2>1, <2>5
<1>2. CASE \E on \in BOOLEAN : Pause(on)
  <2> PICK on \in BOOLEAN : Pause(on)
    BY <1>2
  <2>1. PoolShape'
    BY DEF Pause, PoolShape, PoolRecord
  <2>2. state' = Broadcast(state)
    BY DEF Pause
  <2> QED
    BY <2>1, <2>2, BroadcastShape
<1>3. CASE FreeStop
  <2>1. PoolShape'
    BY <1>3 DEF FreeStop, PoolShape, PoolRecord
  <2> QED
    BY <1>0, <1>3, <2>1, GotoShape DEF FreeStop, AtRest
<1>4. CASE Kick
  <2>1. state[0].nth \in 0 .. NThreads /\ tp.n_graph \in Nat \X (0 .. NThreads)
    BY <1>0 DEF ThreadShape, ThreadRecord, PoolShape, PoolRecord
  <2>2. <<tp.n_graph[1] + 1, state[0].nth>> \in Nat \X (0 .. NThreads)
    BY <2>1
  <2>3. PoolShape'
    BY <1>4, <2>2 DEF Kick, PoolShape, PoolRecord
  <2> QED
    BY <1>0, <1>4, <2>3, GotoShape DEF Kick
<1>5. CASE KickSignal
  <2>1. PoolShape'
    BY <1>5 DEF KickSignal, PoolShape, PoolRecord
  <2> QED
    BY <1>5, <2>1, BroadcastShape DEF KickSignal, Inside
<1>6. CASE FreeSignal
  <2>1. PoolShape'
    BY <1>6 DEF FreeSignal, PoolShape, PoolRecord
  <2> QED
    BY <1>6, <2>1, BroadcastShape DEF FreeSignal, AtRest
<1>7. CASE FreeJoin
  BY <1>0, <1>7, GotoShape DEF FreeJoin, AtRest, PoolShape
<1>8. CASE Finished
  BY <1>8 DEF Finished, vars, PoolShape, ThreadShape
<1> QED
  BY <1>1, <1>2, <1>3, <1>4, <1>5, <1>6, <1>7, <1>8 DEF Calls

\* What a step of a thread leaves behind: its pc, place and chunk; it keeps the rest.
Becomes(t, pc, at, chunk) ==
  /\ \A u \in Thread \ {t} : state'[u] = state[u]
  /\ state'[t].pc = pc /\ state'[t].at = at /\ state'[t].chunk = chunk
KeepsRest(t) ==
  /\ state'[t].last_graph = state[t].last_graph /\ state'[t].cgraph = state[t].cgraph
  /\ state'[t].nth = state[t].nth /\ state'[t].bar = state[t].bar
PcsOf(t) == IF t = 0 THEN CallerPcs ELSE WorkerPcs

LEMMA GotoEffect ==
  ASSUME ThreadShape, NEW t \in Thread, NEW pc \in PcsOf(t), Goto(t, pc)
  PROVE  ThreadShape' /\ Becomes(t, pc, state[t].at, state[t].chunk) /\ KeepsRest(t)
<1> DEFINE r == [state[t] EXCEPT !.pc = pc]
<1>1. state' = [state EXCEPT ![t] = r]
  BY DEF Goto
<1>2. r \in ThreadRecord /\ r.pc = pc
  BY PcChange DEF ThreadShape, PcsOf
<1>3. /\ r.at = state[t].at /\ r.chunk = state[t].chunk /\ r.last_graph = state[t].last_graph
      /\ r.cgraph = state[t].cgraph /\ r.nth = state[t].nth /\ r.bar = state[t].bar
  BY DEF ThreadShape, ThreadRecord
<1> HIDE DEF r
<1> QED
  BY <1>1, <1>2, <1>3, StepShape DEF PcsOf, Becomes, KeepsRest

LEMMA MoveEffect ==
  ASSUME ThreadShape, NEW t \in Thread, NEW pc \in PcsOf(t), NEW at \in Nat \X Nat,
         NEW chunk \in Nat,
         \/ state' = [state EXCEPT ![t].pc = pc, ![t].at = at, ![t].chunk = chunk]
         \/ state' = [state EXCEPT ![t].at = at, ![t].chunk = chunk, ![t].pc = pc]
         \/ /\ state' = [state EXCEPT ![t].chunk = chunk, ![t].pc = pc]
            /\ at = state[t].at
         \/ /\ state' = [state EXCEPT ![t].pc = pc, ![t].at = at]
            /\ chunk = state[t].chunk
  PROVE  ThreadShape' /\ Becomes(t, pc, at, chunk) /\ KeepsRest(t)
<1> DEFINE q == [state[t] EXCEPT !.pc = pc]
           p == [q EXCEPT !.at = at]
           r == [p EXCEPT !.chunk = chunk]
<1>0. state \in [Thread -> ThreadRecord]
  BY DEF ThreadShape
<1>1. state' = [state EXCEPT ![t] = r]
  <2>1. CASE state' = [state EXCEPT ![t].pc = pc, ![t].at = at, ![t].chunk = chunk]
    BY <1>0, <2>1
  <2>2. CASE state' = [state EXCEPT ![t].at = at, ![t].chunk = chunk, ![t].pc = pc]
    BY <1>0, <2>2 DEF ThreadRecord
  <2>3. CASE /\ state' = [state EXCEPT ![t].chunk = chunk, ![t].pc = pc]
             /\ at = state[t].at
    BY <1>0, <2>3 DEF ThreadRecord
  <2>4. CASE /\ state' = [state EXCEPT ![t].pc = pc, ![t].at = at]
             /\ chunk = state[t].chunk
    BY <1>0, <2>4 DEF ThreadRecord
  <2> QED
    BY <2>1, <2>2, <2>3, <2>4
<1>2. q \in ThreadRecord /\ q.pc = pc
  BY PcChange DEF ThreadShape, PcsOf
<1>3. /\ q.last_graph = state[t].last_graph
      /\ q.cgraph = state[t].cgraph /\ q.nth = state[t].nth /\ q.bar = state[t].bar
  BY DEF ThreadShape, ThreadRecord
<1> HIDE DEF q
<1>4. /\ r \in ThreadRecord /\ r.pc = pc /\ r.at = at /\ r.chunk = chunk
      /\ r.last_graph = state[t].last_graph
      /\ r.cgraph = state[t].cgraph /\ r.nth = state[t].nth /\ r.bar = state[t].bar
  BY <1>2, <1>3 DEF ThreadRecord
<1> HIDE DEF r
<1> QED
  BY <1>1, <1>4, StepShape DEF PcsOf, Becomes, KeepsRest

LEMMA BeginEffect ==
  ASSUME Shape, NEW t \in Thread, Begin(t)
  PROVE  /\ Shape' /\ tp' = tp /\ done' = done
         /\ Becomes(t, "node", <<1, 0>>, state[t].chunk)
         /\ state'[t].last_graph = state[t].last_graph /\ state'[t].bar = state[t].bar
         /\ state'[t].cgraph = tp.cgraph /\ state'[t].nth = tp.n_graph[2]
<1> DEFINE q == [state[t] EXCEPT !.pc = "node"]
           r == [q EXCEPT !.at = <<1, 0>>, !.cgraph = tp.cgraph, !.nth = tp.n_graph[2]]
<1>1. "node" \in CallerPcs /\ "node" \in WorkerPcs
  BY PcSets DEF Inside
<1>2. state' = [state EXCEPT ![t] = r]
  BY DEF Begin, Shape, ThreadShape
<1>3. q \in ThreadRecord /\ q.pc = "node"
  BY <1>1, PcChange DEF Shape, ThreadShape
<1>4. /\ q.last_graph = state[t].last_graph /\ q.chunk = state[t].chunk
      /\ q.bar = state[t].bar
  BY DEF Shape, ThreadShape, ThreadRecord
<1>5. tp.cgraph \in Graphs \cup {<<>>} /\ tp.n_graph[2] \in 0 .. NThreads
  BY DEF Shape, PoolShape, PoolRecord
<1> HIDE DEF q
<1>6. /\ r \in ThreadRecord /\ r.pc = "node" /\ r.at = <<1, 0>>
      /\ r.cgraph = tp.cgraph /\ r.nth = tp.n_graph[2] /\ r.chunk = state[t].chunk
      /\ r.last_graph = state[t].last_graph /\ r.bar = state[t].bar
  BY <1>3, <1>4, <1>5 DEF ThreadRecord
<1> HIDE DEF r
<1>7. tp' = tp /\ done' = done
  BY DEF Begin
<1> QED
  BY <1>1, <1>2, <1>6, <1>7, StepShape DEF Becomes, Shape, PoolShape

LEMMA NoteEffect ==
  ASSUME Shape, NEW t \in Worker, NEW other \in WorkerPcs, NoteGraph(t, other)
  PROVE  /\ ThreadShape'
         /\ Becomes(t, IF t < tp.n_graph[2] THEN "begin" ELSE other,
                    state[t].at, state[t].chunk)
         /\ state'[t].last_graph = tp.n_graph /\ state'[t].cgraph = state[t].cgraph
         /\ state'[t].nth = state[t].nth /\ state'[t].bar = state[t].bar
<1> DEFINE pc == IF t < tp.n_graph[2] THEN "begin" ELSE other
           q == [state[t] EXCEPT !.pc = pc]
           r == [q EXCEPT !.last_graph = tp.n_graph]
<1>0. t \in Thread /\ t # 0
  BY DEF Worker
<1>1. pc \in WorkerPcs
  BY PcSets DEF Inside
<1>2. state' = [state EXCEPT ![t] = r]
  BY <1>0 DEF NoteGraph, Shape, ThreadShape, ThreadRecord
<1> HIDE DEF pc
<1>3. q \in ThreadRecord /\ q.pc = pc
  BY <1>0, <1>1, PcChange DEF Shape, ThreadShape
<1>4. /\ q.at = state[t].at /\ q.chunk = state[t].chunk /\ q.cgraph = state[t].cgraph
      /\ q.nth = state[t].nth /\ q.bar = state[t].bar
  BY <1>0 DEF Shape, ThreadShape, ThreadRecord
<1>5. tp.n_graph \in Nat \X (0 .. NThreads)
  BY DEF Shape, PoolShape, PoolRecord
<1> HIDE DEF q
<1>6. /\ r \in ThreadRecord /\ r.pc = pc /\ r.at = state[t].at
      /\ r.cgraph = state[t].cgraph /\ r.nth = state[t].nth /\ r.chunk = state[t].chunk
      /\ r.last_graph = tp.n_graph /\ r.bar = state[t].bar
  BY <1>3, <1>4, <1>5 DEF ThreadRecord
<1> HIDE DEF r
<1>7. Becomes(t, pc, state[t].at, state[t].chunk)
  BY <1>0, <1>1, <1>2, <1>6, StepShape DEF Becomes, Shape
<1> QED
  BY <1>0, <1>1, <1>2, <1>6, <1>7, StepShape DEF Shape, pc

LEMMA StageEndPc ==
  ASSUME NEW t \in Thread, NEW s
  PROVE  StageEnd(t, s) \in {"set", "barrier", "node_done"} /\ StageEnd(t, s) \in PcsOf(t)
<1>1. StageEnd(t, s) \in {"set", "barrier", "node_done"}
  BY DEF StageEnd, StageBarrier
<1> QED
  BY <1>1, PcSets DEF PcsOf, Inside

LEMMA ThreadFacts ==
  ASSUME ThreadShape, NEW t \in Thread
  PROVE  /\ t \in Nat /\ state[t] \in ThreadRecord /\ state[t].chunk \in Nat
         /\ state[t].at \in Nat \X Nat /\ state[t].at[1] \in Nat /\ state[t].at[2] \in Nat
         /\ state[t].at = <<state[t].at[1], state[t].at[2]>>
         /\ state[t].bar \in Nat \X Nat /\ state[t].nth \in 0 .. NThreads
<1>1. t \in Nat
  BY PoolAssumption DEF Thread
<1>2. state[t] \in ThreadRecord
  BY DEF ThreadShape
<1> QED
  BY <1>1, <1>2 DEF ThreadRecord

LEMMA NextNodeEffect ==
  ASSUME Shape, NEW t \in Thread, NextNode(t)
  PROVE  /\ Shape' /\ tp' = tp /\ done' = done /\ KeepsRest(t)
         /\ LET i == state[t].at[1]
            IN IF i > Len(state[t].cgraph) \/ tp.abort = i THEN Becomes(t, "barrier", End, t)
               ELSE IF Node(t) = <<>> THEN Becomes(t, "node", <<i + 1, 0>>, t)
               ELSE IF Claimed(t, 1) THEN Becomes(t, StageBarrier(t, 1), <<i, 0>>, t)
               ELSE Becomes(t, "work", <<i, 1>>, t)
<1> DEFINE i == state[t].at[1]
           over == i > Len(state[t].cgraph) \/ tp.abort = i
<1>1. i \in Nat /\ t \in Nat /\ ThreadShape
  BY ThreadFacts DEF Shape
<1>2. {"barrier", "node", "work", StageBarrier(t, 1)} \subseteq PcsOf(t)
  BY PcSets DEF PcsOf, Inside, StageBarrier
<1>3. tp' = tp /\ done' = done
  BY DEF NextNode
<1>4. CASE over
  <2>1. state' = [state EXCEPT ![t].pc = "barrier", ![t].at = End, ![t].chunk = t]
    BY <1>4 DEF NextNode, End
  <2>2. ThreadShape' /\ Becomes(t, "barrier", End, t) /\ KeepsRest(t)
    BY <1>1, <1>2, <2>1, MoveEffect DEF End
  <2> QED
    BY <1>3, <1>4, <2>2 DEF Shape, PoolShape
<1>5. CASE ~over /\ Node(t) = <<>>
  <2>1. state' = [state EXCEPT ![t].pc = "node", ![t].at = <<i + 1, 0>>, ![t].chunk = t]
    BY <1>5 DEF NextNode
  <2>2. <<i + 1, 0>> \in Nat \X Nat
    BY <1>1
  <2> HIDE DEF i
  <2>3. ThreadShape' /\ Becomes(t, "node", <<i + 1, 0>>, t) /\ KeepsRest(t)
    BY <1>1, <1>2, <2>1, <2>2, MoveEffect
  <2> QED
    BY <1>3, <1>5, <2>3 DEF Shape, PoolShape, i
<1>6. CASE ~over /\ Node(t) # <<>> /\ Claimed(t, 1)
  <2>1. state' = [state EXCEPT ![t].pc = StageBarrier(t, 1), ![t].at = <<i, 0>>,
                               ![t].chunk = t]
    BY <1>6 DEF NextNode
  <2>2. <<i, 0>> \in Nat \X Nat
    BY <1>1
  <2> HIDE DEF i
  <2>3. ThreadShape' /\ Becomes(t, StageBarrier(t, 1), <<i, 0>>, t) /\ KeepsRest(t)
    BY <1>1, <1>2, <2>1, <2>2, MoveEffect
  <2> QED
    BY <1>3, <1>6, <2>3 DEF Shape, PoolShape, i
<1>7. CASE ~over /\ Node(t) # <<>> /\ ~Claimed(t, 1)
  <2>1. state' = [state EXCEPT ![t].pc = "work", ![t].at = <<i, 1>>, ![t].chunk = t]
    BY <1>7 DEF NextNode
  <2>2. <<i, 1>> \in Nat \X Nat
    BY <1>1
  <2> HIDE DEF i
  <2>3. ThreadShape' /\ Becomes(t, "work", <<i, 1>>, t) /\ KeepsRest(t)
    BY <1>1, <1>2, <2>1, <2>2, MoveEffect
  <2> QED
    BY <1>3, <1>7, <2>3 DEF Shape, PoolShape, i
<1> QED
  BY <1>4, <1>5, <1>6, <1>7

LEMMA PastEffect ==
  ASSUME ThreadShape, NEW t \in Thread, Past(t)
  PROVE  /\ ThreadShape' /\ KeepsRest(t)
         /\ LET i == state[t].at[1]
                s == state[t].at[2]
            IN IF i = 0 THEN Becomes(t, IF t = 0 THEN "idle" ELSE "loop",
                                     state[t].at, state[t].chunk)
               ELSE IF s = Len(Node(t)) THEN Becomes(t, "node", <<i + 1, 0>>, state[t].chunk)
               ELSE Becomes(t, IF t < Contract!Width(Node(t)[s + 1], state[t].nth)
                               THEN "work" ELSE StageEnd(t, s + 1), <<i, s + 1>>, t)
<1> DEFINE i == state[t].at[1]
           s == state[t].at[2]
           out == IF t = 0 THEN "idle" ELSE "loop"
           in == IF t < Contract!Width(Node(t)[s + 1], state[t].nth)
                 THEN "work" ELSE StageEnd(t, s + 1)
<1>1. /\ i \in Nat /\ s \in Nat /\ t \in Nat /\ state[t].chunk \in Nat
      /\ <<i + 1, 0>> \in Nat \X Nat /\ <<i, s + 1>> \in Nat \X Nat
  BY ThreadFacts
<1>2. "node" \in PcsOf(t) /\ "work" \in PcsOf(t) /\ out \in PcsOf(t)
  BY PcSets DEF PcsOf, Inside, AtRest
<1>3. in \in PcsOf(t)
  BY <1>2, StageEndPc
<1>4. CASE i = 0
  <2>1. Goto(t, out)
    BY <1>4 DEF Past
  <2> HIDE DEF out
  <2>2. ThreadShape' /\ Becomes(t, out, state[t].at, state[t].chunk) /\ KeepsRest(t)
    BY <1>2, <2>1, GotoEffect
  <2> QED
    BY <1>4, <2>2 DEF out
<1>5. CASE i # 0 /\ s = Len(Node(t))
  <2>1. state' = [state EXCEPT ![t].pc = "node", ![t].at = <<i + 1, 0>>]
    BY <1>5 DEF Past
  <2> HIDE DEF i
  <2>2. ThreadShape' /\ Becomes(t, "node", <<i + 1, 0>>, state[t].chunk) /\ KeepsRest(t)
    BY <1>1, <1>2, <2>1, MoveEffect
  <2> QED
    BY <1>5, <2>2 DEF i
<1>6. CASE i # 0 /\ s # Len(Node(t))
  <2>1. state' = [state EXCEPT ![t].at = <<i, s + 1>>, ![t].chunk = t, ![t].pc = in]
    BY <1>6 DEF Past
  <2> HIDE DEF i, s, in
  <2>2. ThreadShape' /\ Becomes(t, in, <<i, s + 1>>, t) /\ KeepsRest(t)
    BY <1>1, <1>3, <2>1, MoveEffect
  <2> QED
    BY <1>6, <2>2 DEF i, s, in
<1> QED
  BY <1>4, <1>5, <1>6

\* What a computing step leaves of the pool: all that the invariant reads but
\* the barrier's counter and the chunk counter.
PoolKeeps ==
  /\ tp'.n_graph = tp.n_graph /\ tp'.cgraph = tp.cgraph
  /\ tp'.n_barrier_passed = tp.n_barrier_passed

LEMMA SetChunkEffect ==
  ASSUME Shape, NEW t \in Thread, SetChunk(t)
  PROVE  /\ Shape' /\ PoolKeeps /\ done' = done /\ KeepsRest(t)
         /\ tp'.n_barrier = tp.n_barrier /\ tp'.abort = tp.abort /\ tp'.ec = tp.ec
         /\ tp'.current_chunk = state[t].nth
         /\ Becomes(t, "barrier", state[t].at, state[t].chunk)
<1>1. "barrier" \in PcsOf(t)
  BY PcSets DEF PcsOf, Inside
<1>2. state[t].nth \in Nat
  BY PoolAssumption, ThreadFacts DEF Shape
<1>3. /\ PoolShape' /\ PoolKeeps /\ tp'.current_chunk = state[t].nth
      /\ tp'.n_barrier = tp.n_barrier /\ tp'.abort = tp.abort /\ tp'.ec = tp.ec
  BY <1>2 DEF SetChunk, Shape, PoolShape, PoolRecord, PoolKeeps
<1> QED
  BY <1>1, <1>3, GotoEffect DEF SetChunk, Shape

LEMMA WorkEffect ==
  ASSUME Shape, NEW t \in Thread, Work(t)
  PROVE  /\ Shape' /\ tp' = tp /\ KeepsRest(t)
         /\ done' = done \cup {<<state[t].at, state[t].chunk>>}
         /\ \/ /\ Claimed(t, state[t].at[2])
               /\ Becomes(t, "claim", state[t].at, state[t].chunk)
            \/ /\ Parts(t) <= state[t].nth
               /\ Becomes(t, StageEnd(t, state[t].at[2]), state[t].at, state[t].chunk)
<1>1. "claim" \in PcsOf(t)
  BY PcSets DEF PcsOf, Inside
<1>2. tp' = tp /\ done' = done \cup {<<state[t].at, state[t].chunk>>}
  BY DEF Work
<1>3. CASE Claimed(t, state[t].at[2]) /\ Goto(t, "claim")
  BY <1>1, <1>2, <1>3, GotoEffect DEF Shape, PoolShape
<1>4. CASE Parts(t) <= state[t].nth /\ Goto(t, StageEnd(t, state[t].at[2]))
  BY <1>2, <1>4, GotoEffect, StageEndPc DEF Shape, PoolShape
<1> QED
  BY <1>3, <1>4 DEF Work

LEMMA ClaimEffect ==
  ASSUME Shape, NEW t \in Thread, Claim(t)
  PROVE  /\ Shape' /\ PoolKeeps /\ done' = done /\ KeepsRest(t)
         /\ tp'.n_barrier = tp.n_barrier /\ tp'.abort = tp.abort /\ tp'.ec = tp.ec
         /\ tp'.current_chunk = tp.current_chunk + 1
         /\ Becomes(t, IF tp.current_chunk < Parts(t) THEN "work"
                       ELSE StageEnd(t, state[t].at[2]), state[t].at, tp.current_chunk)
<1> DEFINE pc == IF tp.current_chunk < Parts(t) THEN "work" ELSE StageEnd(t, state[t].at[2])
<1>1. "work" \in PcsOf(t)
  BY PcSets DEF PcsOf, Inside
<1>2. pc \in PcsOf(t)
  BY <1>1, StageEndPc
<1>3. tp.current_chunk \in Nat
  BY DEF Shape, PoolShape, PoolRecord
<1>4. /\ PoolShape' /\ PoolKeeps /\ tp'.current_chunk = tp.current_chunk + 1
      /\ tp'.n_barrier = tp.n_barrier /\ tp'.abort = tp.abort /\ tp'.ec = tp.ec
  BY DEF Claim, Shape, PoolShape, PoolRecord, PoolKeeps
<1>5. state' = [state EXCEPT ![t].chunk = tp.current_chunk, ![t].pc = pc]
  BY DEF Claim
<1>6. state[t].at \in Nat \X Nat /\ done' = done
  BY ThreadFacts DEF Shape, Claim
<1> HIDE DEF pc
<1>7. ThreadShape' /\ Becomes(t, pc, state[t].at, tp.current_chunk) /\ KeepsRest(t)
  BY <1>2, <1>3, <1>5, <1>6, MoveEffect DEF Shape
<1> QED
  BY <1>4, <1>6, <1>7 DEF Shape, pc

LEMMA NodeDoneEffect ==
  ASSUME Shape, NEW t \in Thread, NodeDone(t)
  PROVE  /\ Shape' /\ PoolKeeps /\ done' = done /\ KeepsRest(t)
         /\ tp'.n_barrier = tp.n_barrier /\ tp'.current_chunk = tp.current_chunk
         /\ \/ tp'.abort = tp.abort /\ tp'.ec = tp.ec
            \/ t = 0 /\ tp'.abort = state[t].at[1] + 1 /\ tp'.ec = "aborted"
         /\ Becomes(t, "barrier", IF state[t].at[1] < Len(state[t].cgraph)
                                  THEN state[t].at ELSE End, state[t].chunk)
<1> DEFINE at == IF state[t].at[1] < Len(state[t].cgraph) THEN state[t].at ELSE End
<1>1. "barrier" \in PcsOf(t)
  BY PcSets DEF PcsOf, Inside
<1>2. at \in Nat \X Nat /\ state[t].chunk \in Nat /\ state[t].at[1] + 1 \in Nat
  BY ThreadFacts DEF Shape, End
<1>3. /\ PoolShape' /\ PoolKeeps
      /\ tp'.n_barrier = tp.n_barrier /\ tp'.current_chunk = tp.current_chunk
      /\ \/ tp'.abort = tp.abort /\ tp'.ec = tp.ec
         \/ t = 0 /\ tp'.abort = state[t].at[1] + 1 /\ tp'.ec = "aborted"
  <2>1. CASE UNCHANGED tp
    BY <2>1 DEF Shape, PoolShape, PoolKeeps
  <2>2. CASE t = 0 /\ tp' = [tp EXCEPT !.abort = state[t].at[1] + 1, !.ec = "aborted"]
    BY <1>2, <2>2 DEF Shape, PoolShape, PoolRecord, PoolKeeps
  <2> QED
    BY <2>1, <2>2 DEF NodeDone
<1>4. state' = [state EXCEPT ![t].pc = "barrier", ![t].at = at] /\ done' = done
  BY DEF NodeDone, Shape, ThreadShape, ThreadRecord, End
<1> HIDE DEF at
<1>5. ThreadShape' /\ Becomes(t, "barrier", at, state[t].chunk) /\ KeepsRest(t)
  BY <1>1, <1>2, <1>4, MoveEffect DEF Shape
<1> QED
  BY <1>3, <1>4, <1>5 DEF Shape, at

LEMMA BarrierReadEffect ==
  ASSUME Shape, NEW t \in Thread, BarrierRead(t), tp.n_graph[2] # 1
  PROVE  /\ Shape' /\ tp' = tp /\ done' = done
         /\ Becomes(t, "enter", state[t].at, state[t].chunk)
         /\ state'[t].last_graph = state[t].last_graph /\ state'[t].cgraph = state[t].cgraph
         /\ state'[t].nth = state[t].nth
         /\ state'[t].bar = <<tp.n_graph[2], tp.n_barrier_passed>>
<1> DEFINE bar == <<tp.n_graph[2], tp.n_barrier_passed>>
           q == [state[t] EXCEPT !.pc = "enter"]
           r == [q EXCEPT !.bar = bar]
<1>1. "enter" \in CallerPcs /\ "enter" \in WorkerPcs
  BY PcSets DEF Inside
<1>2. state' = [state EXCEPT ![t] = r]
  BY DEF BarrierRead, Shape, ThreadShape
<1>3. q \in ThreadRecord /\ q.pc = "enter"
  BY <1>1, PcChange DEF Shape, ThreadShape
<1>4. /\ q.last_graph = state[t].last_graph /\ q.chunk = state[t].chunk
      /\ q.at = state[t].at /\ q.cgraph = state[t].cgraph /\ q.nth = state[t].nth
  BY DEF Shape, ThreadShape, ThreadRecord
<1>5. tp.n_graph[2] \in Nat /\ tp.n_barrier_passed \in Nat
  BY PoolAssumption DEF Shape, PoolShape, PoolRecord
<1>6. bar \in Nat \X Nat
  BY <1>5
<1> HIDE DEF q, bar
<1>7. /\ r \in ThreadRecord /\ r.pc = "enter" /\ r.at = state[t].at /\ r.bar = bar
      /\ r.cgraph = state[t].cgraph /\ r.nth = state[t].nth /\ r.chunk = state[t].chunk
      /\ r.last_graph = state[t].last_graph
  BY <1>3, <1>4, <1>6 DEF ThreadRecord
<1> HIDE DEF r
<1>8. tp' = tp /\ done' = done
  BY DEF BarrierRead
<1> QED
  BY <1>1, <1>2, <1>7, <1>8, StepShape DEF Becomes, Shape, PoolShape, bar

LEMMA BarrierEnterEffect ==
  ASSUME Shape, NEW t \in Thread, BarrierEnter(t)
  PROVE  /\ Shape' /\ PoolKeeps /\ done' = done /\ KeepsRest(t)
         /\ tp'.n_barrier = tp.n_barrier + 1 /\ tp'.abort = tp.abort /\ tp'.ec = tp.ec
         /\ tp'.current_chunk = tp.current_chunk
         /\ Becomes(t, IF tp.n_barrier = state[t].bar[1] - 1 THEN "last" ELSE "spin",
                    state[t].at, state[t].chunk)
<1> DEFINE pc == IF tp.n_barrier = state[t].bar[1] - 1 THEN "last" ELSE "spin"
<1>1. pc \in PcsOf(t)
  BY PcSets DEF PcsOf, Inside
<1>2. /\ PoolShape' /\ PoolKeeps
      /\ tp'.n_barrier = tp.n_barrier + 1 /\ tp'.abort = tp.abort /\ tp'.ec = tp.ec
      /\ tp'.current_chunk = tp.current_chunk
  BY DEF BarrierEnter, Shape, PoolShape, PoolRecord, PoolKeeps
<1>3. Goto(t, pc) /\ done' = done
  BY DEF BarrierEnter
<1> HIDE DEF pc
<1>4. ThreadShape' /\ Becomes(t, pc, state[t].at, state[t].chunk) /\ KeepsRest(t)
  BY <1>1, <1>3, GotoEffect DEF Shape
<1> QED
  BY <1>2, <1>3, <1>4 DEF Shape, pc

LEMMA BarrierResetEffect ==
  ASSUME Shape, NEW t \in Thread, BarrierReset(t)
  PROVE  /\ Shape' /\ PoolKeeps /\ done' = done /\ KeepsRest(t)
         /\ tp'.n_barrier = 0 /\ tp'.abort = tp.abort /\ tp'.ec = tp.ec
         /\ tp'.current_chunk = tp.current_chunk
         /\ Becomes(t, "release", state[t].at, state[t].chunk)
<1>1. "release" \in PcsOf(t)
  BY PcSets DEF PcsOf, Inside
<1>2. /\ PoolShape' /\ PoolKeeps
      /\ tp'.n_barrier = 0 /\ tp'.abort = tp.abort /\ tp'.ec = tp.ec
      /\ tp'.current_chunk = tp.current_chunk
  BY DEF BarrierReset, Shape, PoolShape, PoolRecord, PoolKeeps
<1> QED
  BY <1>1, <1>2, GotoEffect DEF Shape, BarrierReset

LEMMA BarrierReleaseEffect ==
  ASSUME Shape, NEW t \in Thread, BarrierRelease(t)
  PROVE  /\ PoolShape' /\ Past(t) /\ done' = done
         /\ tp'.n_graph = tp.n_graph /\ tp'.cgraph = tp.cgraph
         /\ tp'.n_barrier_passed = tp.n_barrier_passed + 1
         /\ tp'.n_barrier = tp.n_barrier /\ tp'.abort = tp.abort /\ tp'.ec = tp.ec
         /\ tp'.current_chunk = tp.current_chunk
BY DEF BarrierRelease, Shape, PoolShape, PoolRecord

LEMMA ComputeShape ==
  ASSUME Shape, NEW t \in Thread, ComputeStep(t)
  PROVE  Shape'
<1>1. CASE Begin(t)
  BY <1>1, BeginEffect
<1>2. CASE NextNode(t)
  BY <1>2, NextNodeEffect
<1>3. CASE SetChunk(t)
  BY <1>3, SetChunkEffect
<1>4. CASE Work(t)
  BY <1>4, WorkEffect
<1>5. CASE Claim(t)
  BY <1>5, ClaimEffect
<1>6. CASE NodeDone(t)
  BY <1>6, NodeDoneEffect
<1>7. CASE BarrierRead(t) /\ tp.n_graph[2] # 1
  BY <1>7, BarrierReadEffect
<1>8. CASE BarrierRead(t) /\ tp.n_graph[2] = 1
  BY <1>8, PastEffect DEF BarrierRead, Shape, PoolShape
<1>9. CASE BarrierEnter(t)
  BY <1>9, BarrierEnterEffect
<1>10. CASE BarrierReset(t)
  BY <1>10, BarrierResetEffect
<1>11. CASE BarrierRelease(t)
  BY <1>11, BarrierReleaseEffect, PastEffect DEF Shape
<1>12. CASE BarrierLeave(t)
  BY <1>12, PastEffect DEF BarrierLeave, Shape, PoolShape
<1> QED
  BY <1>1, <1>2, <1>3, <1>4, <1>5, <1>6, <1>7, <1>8, <1>9, <1>10, <1>11, <1>12
     DEF ComputeStep

-----------------------------------------------------------------------------
(* Agreement                                                               *)

LEMMA StageFacts ==
  ASSUME NEW g \in Seq(Seq(Nat)), NEW x
  PROVE  /\ x \in Contract!Stages(g) <=>
              /\ x = <<x[1], x[2]>> /\ x[1] \in 1 .. Len(g)
              /\ x[2] \in 1 .. Len(g[x[1]])
         /\ x \in Contract!Stages(g) => g[x[1]] # <<>> /\ x[1] \in Nat /\ x[2] \in Nat
<1>1. DOMAIN g = 1 .. Len(g) /\ \A i \in 1 .. Len(g) : g[i] \in Seq(Nat)
  OBVIOUS
<1>2. \A i \in 1 .. Len(g) : DOMAIN g[i] = 1 .. Len(g[i]) /\ Len(g[i]) \in Nat
  BY <1>1
<1>3. x \in Contract!Stages(g) <=> \E i \in 1 .. Len(g) : x \in {i} \X (1 .. Len(g[i]))
  BY <1>1, <1>2 DEF Contract!Stages
<1>4. \A i \in 1 .. Len(g) : 1 .. Len(g[i]) # {} => g[i] # <<>>
  BY <1>1, <1>2
<1> QED
  BY <1>3, <1>4

LEMMA PlaceFacts ==
  ASSUME NEW g \in Seq(Seq(Nat)), NEW p \in Places(g)
  PROVE  /\ p = Place(p.kind, p.at) /\ p.kind \in {"search", "stage", "barrier"}
         /\ p.kind = "search" => p.at[1] \in 1 .. Len(g) + 1 /\ p = Search(p.at[1])
         /\ p.kind = "stage" => p.at \in Contract!Stages(g)
         /\ p.kind = "barrier" =>
              \/ p.at = End
              \/ p.at \in Contract!Stages(g) /\ BarrierOf(g, p.at) # End
              \/ \E i \in 1 .. Len(g) : /\ p.at = <<i, 0>> /\ g[i] # <<>>
                                        /\ g[i][1] # Contract!Slices
<1>1. DOMAIN g = 1 .. Len(g)
  OBVIOUS
<1> QED
  BY <1>1 DEF Places, Place, Search

LEMMA InPlaces ==
  ASSUME NEW g \in Seq(Seq(Nat))
  PROVE  /\ \A i \in 1 .. Len(g) + 1 : Search(i) \in Places(g)
         /\ \A x \in Contract!Stages(g) : /\ Place("stage", x) \in Places(g)
                                          /\ Place("barrier", BarrierOf(g, x)) \in Places(g)
         /\ Place("barrier", End) \in Places(g)
         /\ \A i \in 1 .. Len(g) : g[i] # <<>> /\ g[i][1] # Contract!Slices =>
              Place("barrier", <<i, 0>>) \in Places(g)
<1>1. DOMAIN g = 1 .. Len(g)
  OBVIOUS
<1> QED
  BY <1>1 DEF Places, BarrierOf

LEMMA AgreeSelf ==
  ASSUME NEW g \in Seq(Seq(Nat)), NEW a \in Nat, NEW p \in Places(g)
  PROVE  Agree(g, a, p, p)
BY PlaceFacts DEF Agree

\* Places that a thread's next place agrees with, when it did with the last one.
Both(g, a, p, q) == Agree(g, a, p, q) /\ Agree(g, a, q, p)

LEMMA AgreeSkip ==
  ASSUME NEW g \in Seq(Seq(Nat)), NEW a \in Nat, NEW i \in 1 .. Len(g) + 1,
         Skips(g, a, i), NEW q \in Places(g), Both(g, a, Search(i), q)
  PROVE  i + 1 \in 1 .. Len(g) + 1 /\ Both(g, a, Search(i + 1), q)
<1> DEFINE p == Search(i)
           r == Search(i + 1)
<1>1. i \in 1 .. Len(g) /\ i + 1 \in 1 .. Len(g) + 1
  BY DEF Skips
<1>2. p.kind = "search" /\ p.at[1] = i /\ r.kind = "search" /\ r.at[1] = i + 1
  BY DEF Search, Place
<1>3. CASE q.kind = "search"
  <2>1. q.at[1] \in 1 .. Len(g) + 1
    BY <1>3, PlaceFacts
  <2>2. (\A k \in i .. q.at[1] - 1 : Skips(g, a, k)) /\ (\A k \in q.at[1] .. i - 1 : Skips(g, a, k))
    BY <1>2, <1>3 DEF Both, Agree
  <2>3. \A k \in q.at[1] .. i : Skips(g, a, k)
    BY <1>1, <2>1, <2>2
  <2>4. (\A k \in i + 1 .. q.at[1] - 1 : Skips(g, a, k))
        /\ (\A k \in q.at[1] .. i + 1 - 1 : Skips(g, a, k))
    BY <1>1, <2>1, <2>2, <2>3
  <2> QED
    BY <1>1, <1>2, <1>3, <2>4 DEF Both, Agree
<1>4. \A j \in Nat : Finds(g, a, i, j) => Finds(g, a, i + 1, j)
  BY <1>1 DEF Finds
<1>5. CASE q.kind = "stage"
  <2>1. q.at[1] \in Nat
    BY <1>5, PlaceFacts, StageFacts
  <2> QED
    BY <1>1, <1>2, <1>4, <1>5, <2>1 DEF Both, Agree, FindsStage
<1>6. CASE q.kind = "barrier"
  BY <1>1, <1>2, <1>4, <1>6 DEF Both, Agree, FindsBarrier
<1> QED
  BY <1>3, <1>5, <1>6, PlaceFacts

\* The search of a thread that finds node i is at i; one that another thread is
\* at, or beyond, ends there.
LEMMA FoundHere ==
  ASSUME NEW g \in Seq(Seq(Nat)), NEW a \in Nat, NEW i \in 1 .. Len(g) + 1,
         ~Skips(g, a, i)
  PROVE  /\ \A j \in Nat : Finds(g, a, i, j) <=> j = i
         /\ \A k \in 1 .. Len(g) + 1 :
              (/\ \A l \in i .. k - 1 : Skips(g, a, l)
               /\ \A l \in k .. i - 1 : Skips(g, a, l)) => Finds(g, a, k, i)
BY DEF Finds

LEMMA AgreeStage ==
  ASSUME NEW g \in Seq(Seq(Nat)), NEW a \in Nat, NEW i \in 1 .. Len(g),
         a # i, g[i] # <<>>, g[i][1] = Contract!Slices,
         NEW q \in Places(g), Both(g, a, Search(i), q)
  PROVE  <<i, 1>> \in Contract!Stages(g) /\ Both(g, a, Place("stage", <<i, 1>>), q)
<1> DEFINE p == Search(i)
           r == Place("stage", <<i, 1>>)
<1>1. p.kind = "search" /\ p.at[1] = i /\ r.kind = "stage" /\ r.at = <<i, 1>>
  BY DEF Search, Place
<1>2. ~Skips(g, a, i) /\ i \in 1 .. Len(g) + 1 /\ i \in DOMAIN g
  BY DEF Skips
<1>3. g[i] \in Seq(Nat) /\ Len(g[i]) \in Nat /\ Len(g[i]) # 0
  BY <1>2
<1>4. <<i, 1>> \in Contract!Stages(g)
  <2> DEFINE x == <<i, 1>>
  <2>1. x[1] = i /\ x[2] = 1 /\ x = <<x[1], x[2]>> /\ 1 \in 1 .. Len(g[i])
    BY <1>3
  <2> HIDE DEF x
  <2>2. x \in Contract!Stages(g)
    BY <2>1, StageFacts
  <2> QED
    BY <2>2 DEF x
<1>5. CASE q.kind = "search"
  <2>1. q.at[1] \in 1 .. Len(g) + 1
    BY <1>5, PlaceFacts
  <2>2. Finds(g, a, q.at[1], i)
    BY <1>1, <1>2, <1>5, <2>1, FoundHere DEF Both, Agree
  <2>3. FindsStage(g, a, q.at[1], <<i, 1>>)
    BY <1>2, <2>2 DEF FindsStage
  <2> QED
    BY <1>1, <1>4, <1>5, <2>3 DEF Both, Agree
<1>6. CASE q.kind = "stage"
  <2>1. q.at = <<q.at[1], q.at[2]>> /\ q.at[1] \in Nat
    BY <1>6, PlaceFacts, StageFacts
  <2>2. FindsStage(g, a, i, q.at)
    BY <1>1, <1>6 DEF Both, Agree
  <2>3. q.at = <<i, 1>>
    BY <1>2, <2>1, <2>2, FoundHere DEF FindsStage
  <2> QED
    BY <1>1, <1>4, <1>6, <2>3 DEF Both, Agree
<1>7. CASE q.kind = "barrier"
  <2>1. FindsBarrier(g, a, i, q.at)
    BY <1>1, <1>7 DEF Both, Agree
  <2>2. NextBarrier(g, a, i) = q.at
    BY <1>2, <2>1, FoundHere DEF FindsBarrier
  <2>3. BarrierOf(g, <<i, 1>>) = q.at
    BY <2>2 DEF NextBarrier
  <2> QED
    BY <1>1, <1>4, <1>7, <2>3 DEF Both, Agree
<1> QED
  BY <1>5, <1>6, <1>7, PlaceFacts

LEMMA AgreeBarrier ==
  ASSUME NEW g \in Seq(Seq(Nat)), NEW a \in Nat, NEW i \in 1 .. Len(g) + 1,
         ~Skips(g, a, i), i \in DOMAIN g /\ a # i => g[i][1] # Contract!Slices,
         NEW q \in Places(g), Both(g, a, Search(i), q)
  PROVE  /\ NextBarrier(g, a, i) = IF i > Len(g) \/ a = i THEN End ELSE <<i, 0>>
         /\ Place("barrier", NextBarrier(g, a, i)) \in Places(g)
         /\ Both(g, a, Place("barrier", NextBarrier(g, a, i)), q)
<1> DEFINE p == Search(i)
           b == NextBarrier(g, a, i)
           r == Place("barrier", b)
<1>1. p.kind = "search" /\ p.at[1] = i /\ r.kind = "barrier" /\ r.at = b
  BY DEF Search, Place
<1>2. DOMAIN g = 1 .. Len(g)
  OBVIOUS
<1>3. b = IF i > Len(g) \/ a = i THEN End ELSE <<i, 0>>
  BY <1>2 DEF NextBarrier
<1>4. r \in Places(g)
  <2>1. CASE i > Len(g) \/ a = i
    BY <1>3, <2>1, InPlaces
  <2>2. CASE ~(i > Len(g) \/ a = i)
    <3>1. i \in 1 .. Len(g) /\ b = <<i, 0>> /\ g[i] # <<>> /\ g[i][1] # Contract!Slices
      BY <1>2, <1>3, <2>2 DEF Skips
    <3> HIDE DEF b
    <3> QED
      BY <3>1, InPlaces
  <2> QED
    BY <2>1, <2>2
<1> HIDE DEF b
<1>5. CASE q.kind = "search"
  <2>1. q.at[1] \in 1 .. Len(g) + 1
    BY <1>5, PlaceFacts
  <2>2. Finds(g, a, q.at[1], i)
    BY <1>1, <1>5, <2>1, FoundHere DEF Both, Agree
  <2>3. FindsBarrier(g, a, q.at[1], b)
    BY <2>2 DEF FindsBarrier, b
  <2> QED
    BY <1>1, <1>3, <1>4, <1>5, <2>3 DEF Both, Agree, b
<1>6. CASE q.kind = "stage"
  <2>1. q.at[1] \in Nat
    BY <1>6, PlaceFacts, StageFacts
  <2>2. FindsStage(g, a, i, q.at)
    BY <1>1, <1>6 DEF Both, Agree
  <2>3. q.at[1] = i
    BY <2>1, <2>2, FoundHere DEF FindsStage
  <2> QED
    BY <2>2, <2>3 DEF FindsStage
<1>7. CASE q.kind = "barrier"
  <2>1. FindsBarrier(g, a, i, q.at)
    BY <1>1, <1>7 DEF Both, Agree
  <2>2. b = q.at
    BY <2>1, FoundHere DEF FindsBarrier, b
  <2> QED
    BY <1>1, <1>3, <1>4, <1>7, <2>2 DEF Both, Agree, b
<1> QED
  BY <1>5, <1>6, <1>7, PlaceFacts

LEMMA AgreeStageDone ==
  ASSUME NEW g \in Seq(Seq(Nat)), NEW a \in Nat, NEW x \in Contract!Stages(g),
         NEW q \in Places(g), Both(g, a, Place("stage", x), q)
  PROVE  Both(g, a, Place("barrier", BarrierOf(g, x)), q)
<1> DEFINE p == Place("stage", x)
           b == BarrierOf(g, x)
           r == Place("barrier", b)
<1>1. p.kind = "stage" /\ p.at = x /\ r.kind = "barrier" /\ r.at = b
  BY DEF Place
<1>2. DOMAIN g = 1 .. Len(g)
  OBVIOUS
<1>3. CASE q.kind = "search"
  <2>1. FindsStage(g, a, q.at[1], x)
    BY <1>1, <1>3 DEF Both, Agree
  <2>2. x = <<x[1], 1>> /\ x[1] \in 1 .. Len(g) /\ x[1] \in 1 .. Len(g) + 1
    BY <2>1, StageFacts DEF FindsStage
  <2>5. x[1] \in Nat /\ Len(g) \in Nat /\ ~(x[1] > Len(g) \/ a = x[1])
    BY <2>1, <2>2 DEF FindsStage
  <2>6. NextBarrier(g, a, x[1]) = BarrierOf(g, <<x[1], 1>>)
    BY <2>1, <2>5 DEF NextBarrier, FindsStage
  <2>3. NextBarrier(g, a, x[1]) = b
    BY <2>2, <2>6
  <2>4. FindsBarrier(g, a, q.at[1], b)
    BY <2>1, <2>2, <2>3 DEF FindsBarrier, FindsStage
  <2> QED
    BY <1>1, <1>3, <2>4 DEF Both, Agree
<1>4. CASE q.kind = "stage"
  BY <1>1, <1>4 DEF Both, Agree
<1>5. CASE q.kind = "barrier"
  BY <1>1, <1>5 DEF Both, Agree
<1> QED
  BY <1>3, <1>4, <1>5, PlaceFacts

\* Thread 0 has finished the last stage x of a node when it aborts the graph: the
\* others still search for that node, or are at it.
LEMMA AgreeAbort ==
  ASSUME NEW g \in Seq(Seq(Nat)), NEW a \in Nat, NEW x \in Contract!Stages(g),
         NEW q \in Places(g), Both(g, a, Place("stage", x), q),
         NEW r \in Places(g), Both(g, a, Place("stage", x), r)
  PROVE  Both(g, x[1] + 1, q, r)
<1> DEFINE p == Place("stage", x)
           b == BarrierOf(g, x)
           c == x[1] + 1
<1>0. x = <<x[1], x[2]>> /\ x[1] \in 1 .. Len(g) /\ g[x[1]] # <<>> /\ x[1] \in DOMAIN g
  BY StageFacts
<1>1. p.kind = "stage" /\ p.at = x
  BY DEF Place
<1>2. ASSUME NEW s \in Places(g), Both(g, a, p, s), s.kind = "search"
      PROVE  /\ s.at[1] \in 1 .. Len(g) + 1 /\ s.at[1] <= x[1]
             /\ \A k \in s.at[1] .. x[1] - 1 : Skips(g, c, k)
             /\ FindsStage(g, c, s.at[1], x)
             /\ FindsBarrier(g, c, s.at[1], b)
  <2>1. FindsStage(g, a, s.at[1], x)
    BY <1>1, <1>2 DEF Both, Agree
  <2>2. s.at[1] \in 1 .. Len(g) + 1
    BY <1>2, PlaceFacts
  <2>3. x[2] = 1 /\ g[x[1]][1] = Contract!Slices /\ s.at[1] <= x[1]
        /\ \A k \in s.at[1] .. x[1] - 1 : Skips(g, a, k)
    BY <2>1 DEF FindsStage, Finds
  <2>4. \A k \in s.at[1] .. x[1] - 1 : Skips(g, c, k)
    BY <1>0, <2>2, <2>3 DEF Skips
  <2>5. Finds(g, c, s.at[1], x[1])
    BY <1>0, <2>3, <2>4 DEF Finds, Skips
  <2>6. FindsStage(g, c, s.at[1], x)
    BY <1>0, <2>3, <2>5 DEF FindsStage
  <2>9. x[1] \in Nat /\ Len(g) \in Nat /\ ~(x[1] > Len(g) \/ c = x[1])
    BY <1>0
  <2>10. NextBarrier(g, c, x[1]) = BarrierOf(g, <<x[1], 1>>)
    BY <2>3, <2>9 DEF NextBarrier
  <2>7. NextBarrier(g, c, x[1]) = b
    BY <1>0, <2>3, <2>10
  <2>8. FindsBarrier(g, c, s.at[1], b)
    BY <1>0, <2>5, <2>7 DEF FindsBarrier
  <2> QED
    BY <2>2, <2>3, <2>4, <2>6, <2>8
<1>3. ASSUME NEW s \in Places(g), Both(g, a, p, s)
      PROVE  /\ s.kind = "stage" => s.at = x
             /\ s.kind = "barrier" => s.at = b
  BY <1>1, <1>3 DEF Both, Agree
<1>4. ASSUME NEW s \in Places(g), Both(g, a, p, s), NEW u \in Places(g), Both(g, a, p, u)
      PROVE  Agree(g, c, s, u)
  <2>1. CASE s.kind = "search"
    <3>1. u.kind = "search" => \A k \in s.at[1] .. u.at[1] - 1 : Skips(g, c, k)
      <4> SUFFICES ASSUME u.kind = "search", NEW k \in s.at[1] .. u.at[1] - 1
                   PROVE  Skips(g, c, k)
        OBVIOUS
      <4>3. /\ s.at[1] \in 1 .. Len(g) + 1
            /\ \A l \in s.at[1] .. x[1] - 1 : Skips(g, c, l)
        BY <1>2, <1>4, <2>1
      <4>4. u.at[1] \in 1 .. Len(g) + 1 /\ u.at[1] <= x[1]
        BY <1>2, <1>4
      <4>1. x[1] \in Nat /\ Len(g) \in Nat
        BY <1>0
      <4>5. s.at[1] \in Nat /\ u.at[1] \in Nat
        BY <4>1, <4>3, <4>4
      <4>2. k \in s.at[1] .. x[1] - 1
        BY <4>1, <4>4, <4>5
      <4> QED
        BY <4>2, <4>3
    <3> QED
      BY <1>2, <1>3, <1>4, <2>1, <3>1 DEF Agree
  <2>2. CASE s.kind = "stage"
    BY <1>3, <1>4, <2>2 DEF Agree
  <2>3. CASE s.kind = "barrier"
    BY <1>3, <1>4, <2>3 DEF Agree
  <2> QED
    BY <1>4, <2>1, <2>2, <2>3, PlaceFacts
<1> QED
  BY <1>4 DEF Both

LEMMA BehindIsPlace ==
  ASSUME NEW g \in Seq(Seq(Nat)), NEW p \in Places(g), p.kind = "barrier", p.at # End
  PROVE  /\ Behind(g, p.at) \in Places(g)
         /\ p.at[1] \in 1 .. Len(g) /\ p.at[2] \in 0 .. Len(g[p.at[1]])
         /\ p.at[2] # Len(g[p.at[1]]) =>
              <<p.at[1], p.at[2] + 1>> \in Contract!Stages(g)
<1>1. DOMAIN g = 1 .. Len(g) /\ \A i \in 1 .. Len(g) : g[i] \in Seq(Nat) /\ Len(g[i]) \in Nat
  OBVIOUS
<1>2. /\ p.at = <<p.at[1], p.at[2]>> /\ p.at[1] \in 1 .. Len(g)
      /\ p.at[2] \in 0 .. Len(g[p.at[1]])
  <2>1. CASE p.at \in Contract!Stages(g)
    <3>1. p.at = <<p.at[1], p.at[2]>> /\ p.at[1] \in 1 .. Len(g)
          /\ p.at[2] \in 1 .. Len(g[p.at[1]])
      BY <2>1, StageFacts
    <3>2. 1 .. Len(g[p.at[1]]) \subseteq 0 .. Len(g[p.at[1]])
      BY <1>1, <3>1
    <3> QED
      BY <3>1, <3>2
  <2>2. CASE \E i \in 1 .. Len(g) : p.at = <<i, 0>>
    <3>1. PICK i \in 1 .. Len(g) : p.at = <<i, 0>>
      BY <2>2
    <3>2. 0 \in 0 .. Len(g[i])
      BY <1>1
    <3> QED
      BY <3>1, <3>2
  <2> QED
    BY <2>1, <2>2, PlaceFacts
<1>3. p.at[2] # Len(g[p.at[1]]) => <<p.at[1], p.at[2] + 1>> \in Contract!Stages(g)
  <2> SUFFICES ASSUME p.at[2] # Len(g[p.at[1]])
               PROVE  <<p.at[1], p.at[2] + 1>> \in Contract!Stages(g)
    OBVIOUS
  <2>1. p.at[2] + 1 \in 1 .. Len(g[p.at[1]])
    BY <1>1, <1>2
  <2> QED
    BY <1>2, <2>1, StageFacts
<1>4. p.at[1] + 1 \in 1 .. Len(g) + 1
  <2> DEFINE n == p.at[1]
  <2>1. n \in 1 .. Len(g) /\ Len(g) \in Nat
    BY <1>2
  <2> HIDE DEF n
  <2>2. n + 1 \in 1 .. Len(g) + 1
    BY <2>1
  <2> QED
    BY <2>2 DEF n
<1> QED
  BY <1>2, <1>3, <1>4, InPlaces DEF Behind

-----------------------------------------------------------------------------
(* The invariant is inductive                                              *)

LEMMA PoolInvInit == Init => PoolInv
<1> SUFFICES ASSUME Init PROVE PoolInv
  OBVIOUS
<1>1. PoolShape /\ ThreadShape
  BY ShapeInit DEF Shape
<1>2. 0 \in Thread /\ Worker = Thread \ {0}
  BY PoolAssumption DEF Thread, Worker
<1>3. /\ tp.n_graph = <<0, 0>> /\ tp.n_barrier = 0 /\ state[0].pc = "idle"
      /\ \A t \in Worker : state[t].pc = "loop" /\ state[t].last_graph = tp.n_graph
  BY <1>2 DEF Init
<1>4. Over /\ Members = {} /\ \A t \in Thread : state[t].pc \notin Inside
  BY <1>2, <1>3 DEF Over, AtRest, Members, Inside
<1>5. \A t \in Thread : state[t].pc \notin {"enter", "last", "release", "spin"}
  BY <1>4 DEF Inside
<1>6. Crowd = {}
  BY <1>5 DEF Crowd, Waiting
<1>7. Cardinality(Crowd) = 0
  BY <1>6, FS_EmptySet
<1>8. Counted
  BY <1>3, PoolAssumption DEF Counted
<1>9. RestIsQuiet /\ GraphHasMembers /\ OnTheWay
  BY <1>2, <1>4 DEF RestIsQuiet, GraphHasMembers, OnTheWay
<1>10. BarrierCounts
  BY <1>3, <1>5, <1>7 DEF BarrierCounts, Waiting
<1> QED
  BY <1>1, <1>8, <1>9, <1>10 DEF PoolInv

\* A thread inside the computation that is not on its way out of an earlier graph
\* works on this one.
LEMMA InGraph ==
  ASSUME PoolInv, NEW t \in Thread, state[t].pc \in Inside, ~AtEnd(t)
  PROVE  /\ ~Over /\ t \in Members /\ Noticed(t)
         /\ tp.cgraph \in Graphs /\ tp.cgraph \in Seq(Seq(Nat))
         /\ state[t].pc # "begin" => state[t].cgraph = tp.cgraph /\ state[t].nth = tp.n_graph[2]
<1>1. 0 \in Thread /\ Worker = Thread \ {0}
  BY PoolAssumption DEF Thread, Worker
<1>2. ~Over
  BY <1>1 DEF PoolInv, RestIsQuiet, Over, AtRest, Inside
<1>3. t \in Members /\ Noticed(t) /\ tp.cgraph \in Graphs
  BY <1>1, <1>2 DEF PoolInv, GraphHasMembers, Noticed
<1> QED
  BY <1>2, <1>3, GraphsAssumption DEF PoolInv, GraphHasMembers

\* A step that concerns neither a thread of the graph nor the barrier.
PoolStays ==
  /\ PoolKeeps /\ tp'.n_barrier = tp.n_barrier /\ tp'.abort = tp.abort /\ done' = done
  /\ tp'.ec = tp.ec /\ tp'.current_chunk = tp.current_chunk
Outer ==
  /\ PoolStays
  /\ \A t \in Thread :
       /\ state'[t].cgraph = state[t].cgraph /\ state'[t].nth = state[t].nth
       /\ state'[t].at = state[t].at /\ state'[t].bar = state[t].bar
       /\ state'[t].chunk = state[t].chunk
       /\ \/ state'[t].pc = state[t].pc
          \/ t = 0 /\ {state[t].pc, state'[t].pc} \subseteq AtRest \ {"kick"}
          \/ t = 0 /\ state[t].pc = "signal" /\ state'[t].pc = "begin"
          \/ t # 0 /\ state[t].pc \notin Inside /\ state'[t].pc \notin Inside
       /\ \/ state'[t].last_graph = state[t].last_graph
          \/ t \notin Members /\ state'[t].last_graph = tp.n_graph

LEMMA OuterKeeps ==
  ASSUME PoolInv, Shape', Outer
  PROVE  PoolInv'
<1>0. 0 \in Thread /\ Worker = Thread \ {0}
  BY PoolAssumption DEF Thread, Worker
<1>1. Members' = Members
  BY DEF Members, Outer, PoolStays, PoolKeeps
<1>2. \A t \in Thread : {state[t].pc, state'[t].pc} \cap {"spin", "enter", "last", "release"} # {}
                       => state'[t].pc = state[t].pc
  BY DEF Outer, AtRest, Inside
<1>3. \A t \in Thread : /\ Released(t)' <=> Released(t)
                        /\ Waiting(t)' <=> Waiting(t)
                        /\ AtEnd(t)' <=> AtEnd(t)
  BY <1>2 DEF Released, Waiting, AtEnd, Outer, PoolStays, PoolKeeps
<1>4. Over' <=> Over
  BY <1>0, <1>3 DEF Over, Outer, AtRest, AtEnd, Released
<1>5. \A t \in Members : t \in Thread => (Noticed(t)' <=> Noticed(t))
  BY DEF Noticed, Outer, PoolStays, PoolKeeps
<1>6. \A t \in Worker : state'[t].pc \in Inside <=> state[t].pc \in Inside
  BY <1>0 DEF Outer
<1>7. Counted'
  BY <1>0 DEF PoolInv, Counted, Outer, PoolStays, PoolKeeps
<1>8. RestIsQuiet'
  BY <1>0, <1>1, <1>3, <1>4, <1>5, <1>6 DEF PoolInv, RestIsQuiet
<1>9. Members \subseteq Thread
  BY PoolAssumption DEF Members, Thread, PoolInv, PoolShape, PoolRecord
<1>10. ~Over => \A t \in Members : Noticed(t) =>
                 \/ state'[t].pc = state[t].pc
                 \/ t = 0 /\ state[t].pc = "signal" /\ state'[t].pc = "begin"
  BY <1>0, <1>9 DEF PoolInv, GraphHasMembers, Outer, Over
<1>16. ~Over => \A t \in Members : state'[t].pc \in Inside \ {"begin"} /\ Noticed(t) =>
                 state'[t].pc = state[t].pc
  BY <1>10
<1>17. Over \/ GraphHasMembers'
  BY <1>0, <1>1, <1>3, <1>4, <1>5, <1>6, <1>9, <1>16
     DEF PoolInv, GraphHasMembers, Outer, PoolStays, PoolKeeps
<1>11. GraphHasMembers'
  BY <1>4, <1>17 DEF GraphHasMembers
<1>12. Crowd' = Crowd
  BY <1>3 DEF Crowd
<1>19. /\ tp'.n_graph = tp.n_graph /\ tp'.n_barrier = tp.n_barrier
       /\ tp'.n_barrier_passed = tp.n_barrier_passed
       /\ \A t \in Thread : state'[t].bar = state[t].bar
  BY DEF Outer, PoolStays, PoolKeeps
<1>13. BarrierCounts'
  BY <1>1, <1>2, <1>3, <1>12, <1>19 DEF PoolInv, BarrierCounts
<1>14. ~Over => \A t \in Members : PlaceOf(t)' = PlaceOf(t)
  BY <1>3, <1>5, <1>9, <1>10 DEF PlaceOf, Outer, PoolStays, PoolKeeps
<1>18. ~Over => \A t \in Members : Noticed(t) => WellAt(t, tp.cgraph, state'[t].pc, state'[t].at)
  BY <1>9, <1>10 DEF PoolInv, OnTheWay, WellAt, Outer
<1>15. OnTheWay'
  BY <1>1, <1>4, <1>5, <1>9, <1>14, <1>18 DEF PoolInv, OnTheWay, Outer, PoolStays, PoolKeeps
<1> QED
  BY <1>7, <1>8, <1>11, <1>13, <1>15 DEF PoolInv, Shape

LEMMA AtRestApart == AtRest \cap Inside = {} /\ "signal" \notin AtRest \cup Inside
BY DEF AtRest, Inside

\* The caller's steps outside the computation but for the start of a graph.
LEMMA CallerOuter ==
  ASSUME PoolInv, Shape',
         \/ \E on \in BOOLEAN : Pause(on)
         \/ KickSignal \/ FreeStop \/ FreeSignal \/ FreeJoin \/ Finished
  PROVE  Outer
<1>0. 0 \in Thread /\ Worker = Thread \ {0} /\ state \in [Thread -> ThreadRecord]
  BY PoolAssumption DEF Thread, Worker, PoolInv, ThreadShape
<1>1. ASSUME NEW pc,
             \/ {state[0].pc, pc} \subseteq AtRest \ {"kick"}
             \/ state[0].pc = "signal" /\ pc = "begin",
             \/ state' = Broadcast(state)
             \/ state' = [Broadcast(state) EXCEPT ![0].pc = pc],
             PoolStays
      PROVE  Outer
  <2> DEFINE b == Broadcast(state)
  <2>1. ASSUME NEW t \in Thread
        PROVE  /\ b[t].cgraph = state[t].cgraph /\ b[t].nth = state[t].nth
               /\ b[t].at = state[t].at /\ b[t].bar = state[t].bar
               /\ b[t].chunk = state[t].chunk
               /\ b[t].last_graph = state[t].last_graph
               /\ \/ b[t].pc = state[t].pc
                  \/ t # 0 /\ {b[t].pc, state[t].pc} \cap Inside = {}
    <3>1. CASE state[t].pc = "paused"
      <4>1. t # 0
        BY <1>1, <3>1 DEF AtRest
      <4> QED
        BY <1>0, <3>1, <4>1 DEF Broadcast, Inside, ThreadRecord
    <3>2. CASE state[t].pc = "asleep"
      <4>1. t # 0
        BY <1>1, <3>2 DEF AtRest
      <4> QED
        BY <1>0, <3>2, <4>1 DEF Broadcast, Inside, ThreadRecord
    <3>3. CASE state[t].pc \notin {"paused", "asleep"}
      BY <3>3 DEF Broadcast
    <3> QED
      BY <3>1, <3>2, <3>3
  <2>2. DOMAIN b = Thread
    BY DEF Broadcast
  <2> DEFINE q == [b[0] EXCEPT !.pc = pc]
  <2>3. state' = b \/ state' = [b EXCEPT ![0] = q]
    BY <1>1
  <2>4. b[0] = state[0]
    BY <1>0, <1>1 DEF Broadcast, AtRest
  <2>5. /\ q.cgraph = state[0].cgraph /\ q.nth = state[0].nth
        /\ q.at = state[0].at /\ q.bar = state[0].bar /\ q.chunk = state[0].chunk
        /\ q.last_graph = state[0].last_graph /\ q.pc = pc
    BY <1>0, <2>4 DEF ThreadRecord
  <2> HIDE DEF b, q
  <2>6. CASE state' = b
    BY <1>1, <2>1, <2>6 DEF Outer
  <2>7. CASE state' = [b EXCEPT ![0] = q]
    <3>1. state'[0] = q /\ \A t \in Thread \ {0} : state'[t] = b[t]
      BY <1>0, <2>2, <2>7
    <3> QED
      BY <1>1, <2>1, <2>5, <3>1 DEF Outer
  <2> QED
    BY <2>3, <2>6, <2>7
<1>2. ASSUME NEW pc \in AtRest \ {"kick"}, Goto(0, pc), state[0].pc \in AtRest \ {"kick"},
             PoolStays
      PROVE  Outer
  <2>1. pc \in PcsOf(0)
    BY PcSets DEF PcsOf
  <2>2. Becomes(0, pc, state[0].at, state[0].chunk) /\ KeepsRest(0)
    BY <1>0, <1>2, <2>1, GotoEffect DEF PoolInv
  <2> QED
    BY <1>0, <1>2, <2>2 DEF Becomes, KeepsRest, Outer
<1>3. CASE \E on \in BOOLEAN : Pause(on)
  <2> PICK on \in BOOLEAN : Pause(on)
    BY <1>3
  <2>1. /\ PoolStays
        /\ state' = Broadcast(state) /\ state[0].pc = "idle"
    BY DEF Pause, PoolInv, PoolShape, PoolRecord, PoolStays, PoolKeeps
  <2>2. "idle" \in AtRest \ {"kick"}
    BY DEF AtRest
  <2> QED
    BY <1>1, <2>1, <2>2
<1>4. CASE FreeStop
  <2>1. /\ PoolStays
        /\ Goto(0, "stop") /\ state[0].pc = "idle"
    BY <1>4 DEF FreeStop, PoolInv, PoolShape, PoolRecord, PoolStays, PoolKeeps
  <2>2. {"idle", "stop"} \subseteq AtRest \ {"kick"}
    BY DEF AtRest
  <2> QED
    BY <1>2, <2>1, <2>2
<1>5. CASE FreeSignal
  <2>1. /\ PoolStays
        /\ state' = [Broadcast(state) EXCEPT ![0].pc = "join"] /\ state[0].pc = "stop"
    BY <1>5 DEF FreeSignal, PoolInv, PoolShape, PoolRecord, PoolStays, PoolKeeps
  <2>2. {"join", "stop"} \subseteq AtRest \ {"kick"}
    BY DEF AtRest
  <2> QED
    BY <1>1, <2>1, <2>2
<1>6. CASE FreeJoin
  <2>1. /\ PoolStays
        /\ Goto(0, "freed") /\ state[0].pc = "join"
    BY <1>6 DEF FreeJoin, PoolStays, PoolKeeps
  <2>2. {"join", "freed"} \subseteq AtRest \ {"kick"}
    BY DEF AtRest
  <2> QED
    BY <1>2, <2>1, <2>2
<1>8. CASE KickSignal
  <2>1. /\ PoolStays
        /\ state' = [Broadcast(state) EXCEPT ![0].pc = "begin"] /\ state[0].pc = "signal"
    BY <1>8 DEF KickSignal, PoolInv, PoolShape, PoolRecord, PoolStays, PoolKeeps
  <2> QED
    BY <1>1, <2>1
<1>7. CASE Finished
  <2>1. Outer
    BY <1>7 DEF Finished, vars, Outer, PoolStays, PoolKeeps
  <2> QED
    BY <2>1
<1> QED
  BY <1>3, <1>4, <1>5, <1>6, <1>7, <1>8

LEMMA CallerKeeps ==
  ASSUME PoolInv, Shape',
         \/ \E on \in BOOLEAN : Pause(on)
         \/ KickSignal \/ FreeStop \/ FreeSignal \/ FreeJoin \/ Finished
  PROVE  PoolInv'
BY CallerOuter, OuterKeeps

\* A worker looks for a graph, and finds one or does not.
LEMMA WorkerOuter ==
  ASSUME PoolInv, Shape', NEW t \in Worker,
         Loop(t) \/ PauseWait(t) \/ Poll(t) \/ CheckForWork(t) \/ SpuriousWakeup(t),
         state'[t].pc # "begin"
  PROVE  Outer
<1>0. t \in Thread /\ t # 0 /\ t \in Nat /\ t >= 1
  BY PoolAssumption DEF Worker, Thread
<1> DEFINE out == {"loop", "stop?", "pause", "paused", "poll", "polled", "lock", "asleep", "exited"}
<1>1. out \subseteq WorkerPcs /\ out \cap Inside = {} /\ "begin" \in Inside
  BY PcSets DEF Inside
<1>2. state[t].pc \in out /\ tp' = tp /\ done' = done
  BY DEF Loop, PauseWait, Poll, CheckForWork, SpuriousWakeup
<1>3. \/ \E pc \in out : Goto(t, pc)
      \/ \E pc \in out : NoteGraph(t, pc)
  BY DEF Loop, PauseWait, Poll, CheckForWork, SpuriousWakeup
<1> HIDE DEF out
<1>4. CASE \E pc \in out : Goto(t, pc)
  <2> PICK pc \in out : Goto(t, pc)
    BY <1>4
  <2>1. Becomes(t, pc, state[t].at, state[t].chunk) /\ KeepsRest(t)
    BY <1>0, <1>1, GotoEffect DEF PoolInv, PcsOf
  <2> QED
    BY <1>0, <1>1, <1>2, <2>1 DEF Outer, PoolStays, PoolKeeps, Becomes, KeepsRest
<1>5. CASE \E pc \in out : NoteGraph(t, pc)
  <2> PICK pc \in out : NoteGraph(t, pc)
    BY <1>5
  <2>1. /\ Becomes(t, IF t < tp.n_graph[2] THEN "begin" ELSE pc, state[t].at, state[t].chunk)
        /\ state'[t].last_graph = tp.n_graph /\ state'[t].cgraph = state[t].cgraph
        /\ state'[t].nth = state[t].nth /\ state'[t].bar = state[t].bar
    BY <1>0, <1>1, NoteEffect DEF PoolInv, Shape
  <2>2. ~(t < tp.n_graph[2]) /\ state'[t].pc = pc
    BY <2>1 DEF Becomes
  <2>3. tp.n_graph[2] \in Nat
    BY PoolAssumption DEF PoolInv, PoolShape, PoolRecord
  <2>4. t \notin Members
    BY <1>0, <2>2, <2>3 DEF Members
  <2> QED
    BY <1>0, <1>1, <1>2, <2>1, <2>2, <2>4 DEF Outer, PoolStays, PoolKeeps, Becomes
<1> QED
  BY <1>3, <1>4, <1>5

LEMMA WorkerKeeps ==
  ASSUME PoolInv, Shape', NEW t \in Worker,
         Loop(t) \/ PauseWait(t) \/ Poll(t) \/ CheckForWork(t) \/ SpuriousWakeup(t),
         state'[t].pc # "begin"
  PROVE  PoolInv'
BY WorkerOuter, OuterKeeps

\* The caller starts a graph.
LEMMA ComputeKeeps ==
  ASSUME PoolInv, Shape', NEW g \in Graphs, NEW n \in 1 .. NThreads, Compute(g, n)
  PROVE  PoolInv'
<1>0. 0 \in Thread /\ Worker = Thread \ {0} /\ state \in [Thread -> ThreadRecord]
  BY PoolAssumption DEF Thread, Worker, PoolInv, ThreadShape
<1>1. /\ tp'.n_graph = tp.n_graph /\ tp'.cgraph = g /\ tp'.n_barrier = tp.n_barrier
      /\ tp'.n_barrier_passed = tp.n_barrier_passed /\ tp'.abort = 0 /\ done' = {}
      /\ tp.n_graph[1] < MaxGraphs /\ state[0].pc = "idle"
  BY DEF Compute, PoolInv, PoolShape, PoolRecord
<1>2. \A t \in Worker : state'[t] = state[t]
  BY <1>0 DEF Compute
<1>3. state'[0].pc = "kick" /\ state'[0].nth = n
  BY <1>0 DEF Compute, ThreadRecord
<1>4. Over /\ Over'
  BY <1>1, <1>3 DEF Over, AtRest
<1>5. Members' = Members
  BY <1>1 DEF Members
<1>6. \A t \in Worker : /\ Released(t)' <=> Released(t)
                        /\ Waiting(t)' <=> Waiting(t)
                        /\ AtEnd(t)' <=> AtEnd(t)
                        /\ Noticed(t)' <=> Noticed(t)
  BY <1>1, <1>2 DEF Released, Waiting, AtEnd, Noticed
<1>7. Counted'
  BY <1>0, <1>1, <1>2, <1>3 DEF PoolInv, Counted
<1>8. RestIsQuiet'
  BY <1>2, <1>4, <1>5, <1>6 DEF PoolInv, RestIsQuiet
<1>9. Crowd' = Crowd
  BY <1>0, <1>1, <1>3, <1>6 DEF Crowd, Waiting
<1>10. BarrierCounts'
  BY <1>0, <1>1, <1>2, <1>3, <1>5, <1>6, <1>9 DEF PoolInv, BarrierCounts, Waiting
<1> QED
  BY <1>4, <1>7, <1>8, <1>10 DEF PoolInv, Shape, GraphHasMembers, OnTheWay

LEMMA KickKeeps ==
  ASSUME PoolInv, Shape', Kick
  PROVE  PoolInv'
<1>0. 0 \in Thread /\ Worker = Thread \ {0} /\ \A t \in Thread : t \in Nat
  BY PoolAssumption DEF Thread, Worker
<1> DEFINE n == state[0].nth
<1>1. /\ tp'.n_graph = <<tp.n_graph[1] + 1, n>> /\ tp'.cgraph = tp.cgraph
      /\ tp'.n_barrier = tp.n_barrier /\ tp'.n_barrier_passed = tp.n_barrier_passed
      /\ tp'.abort = tp.abort /\ state[0].pc = "kick" /\ Goto(0, "signal")
  BY DEF Kick, PoolInv, PoolShape, PoolRecord
<1>2. Becomes(0, "signal", state[0].at, state[0].chunk) /\ KeepsRest(0)
  BY <1>0, <1>1, PcSets, GotoEffect DEF PoolInv, PcsOf
<1>3. state'[0].pc = "signal" /\ state'[0].nth = n /\ \A t \in Worker : state'[t] = state[t]
  BY <1>0, <1>2 DEF Becomes, KeepsRest
<1>4. /\ tp.n_graph[1] \in Nat /\ tp.n_graph[1] < MaxGraphs /\ n \in 1 .. NThreads
      /\ tp.abort = 0 /\ tp.cgraph \in Graphs
  BY <1>1 DEF PoolInv, Counted, PoolShape, PoolRecord
<1>5. Over /\ ~Over' /\ state'[0].pc \notin Inside
  BY <1>1, <1>3 DEF Over, AtRest, AtEnd, Released, Inside
<1>6. Members' = 0 .. n - 1 /\ 0 \in Members' /\ Members' \subseteq Thread
  BY <1>1, <1>4, PoolAssumption DEF Members, Thread
<1>7. \A t \in Worker :
        /\ Released(t)' <=> Released(t)
        /\ Waiting(t)' <=> Waiting(t)
        /\ AtEnd(t)' <=> AtEnd(t)
        /\ state[t].pc \in Inside => AtEnd(t)
  BY <1>1, <1>3, <1>5 DEF Released, Waiting, AtEnd, PoolInv, RestIsQuiet
<1>8. \A t \in Worker : state'[t].last_graph[1] < tp'.n_graph[1] /\ state'[t].last_graph # tp'.n_graph
  <2> TAKE t \in Worker
  <2>1. state[t].last_graph = tp.n_graph \/ state[t].last_graph[1] < tp.n_graph[1]
    BY DEF PoolInv, Counted
  <2>2. state[t].last_graph \in Nat \X (0 .. NThreads)
    BY <1>0 DEF PoolInv, ThreadShape, ThreadRecord
  <2>3. state[t].last_graph[1] \in Nat /\ state[t].last_graph[1] <= tp.n_graph[1]
    BY <1>4, <2>1, <2>2
  <2>4. tp'.n_graph[1] = tp.n_graph[1] + 1
    BY <1>1
  <2> QED
    BY <1>3, <1>4, <2>3, <2>4
<1>9. \A t \in Worker : ~Noticed(t)'
  BY <1>0, <1>8 DEF Noticed
<1>10. Counted'
  BY <1>1, <1>3, <1>4, <1>8, PoolAssumption DEF Counted
<1>11. RestIsQuiet'
  BY <1>5 DEF RestIsQuiet
<1>12. GraphHasMembers'
  <2>1. \A t \in Members' : Noticed(t)' => t = 0
    BY <1>0, <1>6, <1>9
  <2> QED
    BY <1>1, <1>3, <1>4, <1>5, <1>6, <1>7, <1>9, <2>1 DEF GraphHasMembers
<1>13. \A t \in Thread : ~Waiting(t) /\ ~Waiting(t)'
  BY <1>0, <1>1, <1>3, <1>7 DEF Waiting, AtEnd, Released, Inside
<1>14. BarrierCounts'
  <2>1. \A t \in Thread : /\ state[t].pc \notin {"enter", "last", "release"}
                          /\ state'[t].pc \notin {"enter", "last", "release"}
    BY <1>0, <1>1, <1>3, <1>7 DEF AtEnd, Released, Inside
  <2>2. Crowd' = Crowd
    BY <1>13 DEF Crowd
  <2> QED
    BY <1>0, <1>1, <1>3, <1>13, <2>1, <2>2 DEF PoolInv, BarrierCounts
<1>15. OnTheWay'
  <2> DEFINE g == tp.cgraph
  <2>1. g \in Seq(Seq(Nat)) /\ Search(1) \in Places(g) /\ 0 \in 0 .. Len(g) + 1
    <3>1. g \in Seq(Seq(Nat))
      BY <1>4, GraphsAssumption
    <3>2. 1 \in 1 .. Len(g) + 1 /\ 0 \in 0 .. Len(g) + 1
      BY <3>1
    <3> QED
      BY <3>1, <3>2, InPlaces
  <2>2. Agree(g, 0, Search(1), Search(1))
    BY <2>1, AgreeSelf
  <2>3. \A t \in Members' : PlaceOf(t)' = Search(1)
    <3> TAKE t \in Members'
    <3>1. CASE t = 0
      BY <1>3, <3>1 DEF PlaceOf
    <3>2. CASE t # 0
      <4>1. t \in Worker
        BY <1>0, <1>6, <3>2
      <4> QED
        BY <1>9, <4>1 DEF PlaceOf
    <3> QED
      BY <3>1, <3>2
  <2>4. \A t \in Members' : Noticed(t)' => t = 0
    BY <1>0, <1>6, <1>9
  <2> HIDE DEF g
  <2>5. tp'.cgraph = g /\ tp'.abort = 0
    BY <1>1, <1>4 DEF g
  <2>6. \A t \in Members' : Noticed(t)' => WellAt(t, g, state'[t].pc, state'[t].at)
    BY <1>3, <2>4 DEF WellAt
  <2> QED
    BY <2>1, <2>2, <2>3, <2>5, <2>6 DEF OnTheWay
<1> QED
  BY <1>10, <1>11, <1>12, <1>14, <1>15 DEF PoolInv, Shape

\* A worker notices the graph.
LEMMA NoticeStep ==
  ASSUME PoolInv, Shape', NEW t \in Worker, Poll(t) \/ CheckForWork(t),
         state'[t].pc = "begin"
  PROVE  /\ tp' = tp /\ done' = done /\ state[t].pc \in {"polled", "lock"}
         /\ tp.n_graph # state[t].last_graph
         /\ Becomes(t, "begin", state[t].at, state[t].chunk)
         /\ state'[t].last_graph = tp.n_graph /\ state'[t].cgraph = state[t].cgraph
         /\ state'[t].nth = state[t].nth /\ state'[t].bar = state[t].bar
         /\ t \in Members /\ ~Noticed(t) /\ Noticed(t)' /\ ~Over /\ ~Over'
<1>0. t \in Thread /\ t # 0 /\ t \in Nat /\ 0 \in Thread /\ Worker = Thread \ {0}
  BY PoolAssumption DEF Worker, Thread
<1>1. tp' = tp /\ done' = done /\ state[t].pc \in {"polled", "lock"} /\ "lock" \in WorkerPcs
  <2>1. CASE Poll(t)
    <3>1. state[t].pc # "poll"
      <4> SUFFICES ASSUME state[t].pc = "poll" PROVE FALSE
        OBVIOUS
      <4>1. \E pc \in {"lock", "polled"} : Goto(t, pc)
        BY <2>1 DEF Poll
      <4>2. PICK pc \in {"lock", "polled"} : Goto(t, pc)
        BY <4>1
      <4>3. Becomes(t, pc, state[t].at, state[t].chunk)
        BY <1>0, <4>2, PcSets, GotoEffect DEF PoolInv, PcsOf
      <4> QED
        BY <4>3 DEF Becomes
    <3> QED
      BY <2>1, <3>1, PcSets DEF Poll
  <2>2. CASE CheckForWork(t)
    BY <2>2, PcSets DEF CheckForWork
  <2> QED
    BY <2>1, <2>2
<1>2. /\ tp.n_graph # state[t].last_graph
      /\ \E pc \in {"lock", "loop"} : NoteGraph(t, pc)
  <2>1. ASSUME NEW pc \in WorkerPcs, pc # "begin", Goto(t, pc)
        PROVE  FALSE
    <3>1. Becomes(t, pc, state[t].at, state[t].chunk)
      BY <1>0, <2>1, GotoEffect DEF PoolInv, PcsOf
    <3> QED
      BY <2>1, <3>1 DEF Becomes
  <2>2. {"poll", "polled", "lock", "loop", "asleep"} \subseteq WorkerPcs
    BY PcSets
  <2>3. CASE Poll(t)
    BY <2>1, <2>2, <2>3 DEF Poll
  <2>4. CASE CheckForWork(t)
    BY <2>1, <2>2, <2>4 DEF CheckForWork
  <2> QED
    BY <2>3, <2>4
<1>3. PICK pc \in {"lock", "loop"} : NoteGraph(t, pc)
  BY <1>2
<1>4. /\ Becomes(t, IF t < tp.n_graph[2] THEN "begin" ELSE pc, state[t].at, state[t].chunk)
      /\ state'[t].last_graph = tp.n_graph /\ state'[t].cgraph = state[t].cgraph
      /\ state'[t].nth = state[t].nth /\ state'[t].bar = state[t].bar
  BY <1>3, PcSets, NoteEffect DEF PoolInv, Shape
<1>5. t \in Members /\ \A u \in Thread \ {t} : state'[u] = state[u]
  <2>1. tp.n_graph[2] \in Nat /\ t < tp.n_graph[2]
    BY <1>4, PoolAssumption DEF Becomes, PoolInv, PoolShape, PoolRecord
  <2> QED
    BY <1>0, <1>4, <2>1 DEF Members, Becomes
<1>6. ~Noticed(t) /\ Noticed(t)'
  BY <1>0, <1>1, <1>2, <1>4 DEF Noticed
<1>7. ~Over
  BY <1>5, <1>6 DEF PoolInv, RestIsQuiet
<1>8. ~Over'
  BY <1>0, <1>1, <1>5, <1>7 DEF Over, AtEnd, Released
<1> QED
  BY <1>1, <1>2, <1>4, <1>5, <1>6, <1>7, <1>8 DEF Becomes

LEMMA NoticeKeeps ==
  ASSUME PoolInv, Shape', NEW t \in Worker, Poll(t) \/ CheckForWork(t),
         state'[t].pc = "begin"
  PROVE  PoolInv'
<1>0. t \in Thread /\ t # 0 /\ t \in Nat /\ 0 \in Thread /\ Worker = Thread \ {0}
  BY PoolAssumption DEF Worker, Thread
<1>1. tp' = tp /\ done' = done /\ state[t].pc \in {"polled", "lock"}
  BY NoticeStep
<1>2. tp.n_graph # state[t].last_graph
  BY NoticeStep
<1>4. /\ Becomes(t, "begin", state[t].at, state[t].chunk)
      /\ state'[t].last_graph = tp.n_graph /\ state'[t].cgraph = state[t].cgraph
      /\ state'[t].nth = state[t].nth /\ state'[t].bar = state[t].bar
  BY NoticeStep
<1>5. t \in Members /\ \A u \in Thread \ {t} : state'[u] = state[u]
  BY <1>4, NoticeStep DEF Becomes
<1>6. ~Noticed(t) /\ Noticed(t)'
  BY NoticeStep
<1>7. ~Over
  BY NoticeStep
<1>8. ~Over'
  BY NoticeStep
<1>9. Members' = Members /\ Members \subseteq Thread
  BY <1>1, PoolAssumption DEF Members, Thread, PoolInv, PoolShape, PoolRecord
<1>10. \A u \in Thread \ {t} :
         /\ Released(u)' <=> Released(u)
         /\ Waiting(u)' <=> Waiting(u)
         /\ AtEnd(u)' <=> AtEnd(u)
         /\ Noticed(u)' <=> Noticed(u)
         /\ PlaceOf(u)' = PlaceOf(u)
  BY <1>1, <1>5 DEF Released, Waiting, AtEnd, Noticed, PlaceOf
<1>11. ~Waiting(t) /\ ~Waiting(t)' /\ ~AtEnd(t)'
  BY <1>1 DEF Waiting, AtEnd, Released
<1>12. Counted'
  BY <1>0, <1>1, <1>4, <1>5 DEF PoolInv, Counted
<1>13. RestIsQuiet'
  BY <1>8 DEF RestIsQuiet
<1>14. GraphHasMembers'
  <2>1. "begin" \in Inside
    BY DEF Inside
  <2> QED
    BY <1>0, <1>1, <1>5, <1>6, <1>7, <1>9, <1>10, <1>11, <2>1 DEF PoolInv, GraphHasMembers
<1>15. Crowd' = Crowd
  BY <1>10, <1>11 DEF Crowd
<1>16. BarrierCounts'
  BY <1>0, <1>1, <1>5, <1>9, <1>10, <1>11, <1>15 DEF PoolInv, BarrierCounts
<1>17. OnTheWay'
  <2>1. PlaceOf(t)' = PlaceOf(t)
    BY <1>6 DEF PlaceOf
  <2>2. \A u \in Members : PlaceOf(u)' = PlaceOf(u)
    BY <1>9, <1>10, <2>1
  <2>3. WellAt(t, tp.cgraph, state'[t].pc, state'[t].at)
    BY DEF WellAt
  <2> QED
    BY <1>1, <1>5, <1>7, <1>9, <1>10, <2>2, <2>3 DEF PoolInv, OnTheWay
<1> QED
  BY <1>12, <1>13, <1>14, <1>16, <1>17 DEF PoolInv, Shape

\* A step of a thread on its way through the graph, outside the barrier.
LocalMove(t) ==
  /\ PoolKeeps /\ tp'.n_barrier = tp.n_barrier
  /\ \A u \in Thread \ {t} : state'[u] = state[u]
  /\ state[t].pc \in Inside \ {"last", "release"} /\ ~Waiting(t) /\ ~AtEnd(t)
  /\ state'[t].pc \in Inside \ {"begin", "last", "release", "spin"}
  /\ state'[t].last_graph = state[t].last_graph
  /\ state'[t].cgraph = tp.cgraph /\ state'[t].nth = tp.n_graph[2]
  /\ state'[t].pc = "enter" =>
       state'[t].bar = <<tp.n_graph[2], tp.n_barrier_passed>> /\ tp.n_graph[2] > 1

\* It comes to a place on the way to the same barrier.
Arrives(t, p) ==
  /\ tp'.abort \in 0 .. Len(tp.cgraph) + 1
  /\ p \in Places(tp.cgraph)
  /\ \A u \in Members \ {t} : Both(tp.cgraph, tp'.abort, p, PlaceOf(u))
  /\ \/ tp'.abort = tp.abort
     \/ \A u, v \in Members \ {t} : Agree(tp.cgraph, tp'.abort, PlaceOf(u), PlaceOf(v))

LEMMA LocalKeeps ==
  ASSUME PoolInv, Shape', NEW t \in Thread, LocalMove(t),
         Arrives(t, PlaceAt(state'[t].pc, state'[t].at)),
         WellAt(t, tp.cgraph, state'[t].pc, state'[t].at)
  PROVE  PoolInv'
<1>0. 0 \in Thread /\ Worker = Thread \ {0} /\ "kick" \notin Inside
  BY PoolAssumption DEF Thread, Worker, Inside
<1>1. /\ ~Over /\ t \in Members /\ Noticed(t)
      /\ tp.cgraph \in Graphs /\ tp.cgraph \in Seq(Seq(Nat))
  BY InGraph DEF LocalMove
<1>2. Members' = Members /\ Members \subseteq Thread
  BY PoolAssumption DEF LocalMove, PoolKeeps, Members, Thread, PoolInv, PoolShape, PoolRecord
<1>3. \A u \in Thread \ {t} : /\ Released(u)' <=> Released(u)
                              /\ Waiting(u)' <=> Waiting(u)
                              /\ AtEnd(u)' <=> AtEnd(u)
                              /\ Noticed(u)' <=> Noticed(u)
                              /\ PlaceOf(u)' = PlaceOf(u)
  BY DEF Released, Waiting, AtEnd, Noticed, PlaceOf, LocalMove, PoolKeeps
<1>4. /\ ~Waiting(t)
      /\ ~Waiting(t)'
      /\ ~Released(t)'
      /\ ~AtEnd(t)'
      /\ Noticed(t)'
  BY <1>1 DEF Waiting, AtEnd, Released, Noticed, LocalMove, PoolKeeps
<1>5. ~Over'
  BY <1>0, <1>1, <1>3, <1>4, AtRestApart DEF Over, LocalMove
<1>6. Counted'
  <2>1. state'[0].pc # "kick"
    BY <1>0, <1>1 DEF LocalMove, Over, AtRest
  <2>2. \A u \in Worker : state'[u].last_graph = state[u].last_graph
    BY <1>0 DEF LocalMove
  <2> QED
    BY <2>1, <2>2 DEF PoolInv, Counted, LocalMove, PoolKeeps
<1>7. RestIsQuiet'
  BY <1>5 DEF RestIsQuiet
<1>8. GraphHasMembers'
  BY <1>0, <1>1, <1>2, <1>3, <1>4 DEF PoolInv, GraphHasMembers, LocalMove, PoolKeeps
<1>9. Crowd' = Crowd
  BY <1>3, <1>4 DEF Crowd
<1>10. BarrierCounts'
  BY <1>2, <1>3, <1>4, <1>9 DEF PoolInv, BarrierCounts, LocalMove, PoolKeeps
<1>11. PlaceOf(t)' = PlaceAt(state'[t].pc, state'[t].at)
  <2>1. state'[t].pc \notin {"signal", "begin"}
    BY AtRestApart DEF LocalMove
  <2> QED
    BY <1>4, <2>1 DEF PlaceOf
<1>12. OnTheWay'
  <2> DEFINE p == PlaceAt(state'[t].pc, state'[t].at)
             g == tp.cgraph
             a == tp'.abort
  <2>1. a \in Nat /\ p \in Places(g) /\ a \in 0 .. Len(g) + 1
    BY <1>1 DEF Arrives
  <2>2. Agree(g, a, p, p)
    BY <1>1, <2>1, AgreeSelf
  <2>3. \A u \in Members \ {t} : Both(g, a, p, PlaceOf(u))
    BY DEF Arrives
  <2>4. \A u, v \in Members \ {t} : Agree(g, a, PlaceOf(u), PlaceOf(v))
    BY <1>1 DEF Arrives, PoolInv, OnTheWay
  <2>5. \A u \in Members : PlaceOf(u)' = IF u = t THEN p ELSE PlaceOf(u)
    BY <1>2, <1>3, <1>11
  <2>6. \A u \in Members \ {t} : PlaceOf(u) \in Places(g) /\ (Noticed(u) => WellAt(u, g, state[u].pc, state[u].at))
    BY <1>1 DEF PoolInv, OnTheWay
  <2>7. tp'.cgraph = g /\ \A u \in Members \ {t} : state'[u] = state[u]
    BY <1>2 DEF LocalMove, PoolKeeps
  <2>8. WellAt(t, g, state'[t].pc, state'[t].at)
    OBVIOUS
  <2> HIDE DEF p, g, a
  <2>9. \A u, v \in Members : Agree(g, a, PlaceOf(u)', PlaceOf(v)')
    BY <2>2, <2>3, <2>4, <2>5 DEF Both
  <2>10. \A u \in Members : PlaceOf(u)' \in Places(g)
    BY <2>1, <2>5, <2>6
  <2>11. \A u \in Members : Noticed(u)' => WellAt(u, g, state'[u].pc, state'[u].at)
    BY <1>2, <1>3, <2>6, <2>7, <2>8
  <2>12. a = tp'.abort
    BY DEF a
  <2> QED
    BY <1>2, <2>1, <2>7, <2>9, <2>10, <2>11, <2>12 DEF OnTheWay
<1> QED
  BY <1>6, <1>7, <1>8, <1>10, <1>12 DEF PoolInv, Shape

\* Where a thread is in a graph that it works on.
LEMMA InPlace ==
  ASSUME PoolInv, NEW t \in Thread, state[t].pc \in Inside, ~AtEnd(t)
  PROVE  /\ PlaceOf(t) \in Places(tp.cgraph) /\ WellAt(t, tp.cgraph, state[t].pc, state[t].at)
         /\ \A u \in Members : /\ PlaceOf(u) \in Places(tp.cgraph)
                               /\ Both(tp.cgraph, tp.abort, PlaceOf(t), PlaceOf(u))
         /\ tp.abort \in Nat /\ tp.abort \in 0 .. Len(tp.cgraph) + 1
         /\ PlaceOf(t) = IF state[t].pc = "begin" THEN Search(1)
                         ELSE IF Released(t) THEN Behind(tp.cgraph, state[t].at)
                         ELSE PlaceAt(state[t].pc, state[t].at)
<1>1. ~Over /\ t \in Members /\ Noticed(t)
  BY InGraph
<1>2. tp.abort \in Nat
  BY DEF PoolInv, PoolShape, PoolRecord
<1>3. state[t].pc # "signal"
  BY AtRestApart
<1> QED
  BY <1>1, <1>2, <1>3 DEF PoolInv, OnTheWay, Both, PlaceOf

\* The step that stays where it is, and the one that goes on by agreement.
LEMMA ArriveSame ==
  ASSUME PoolInv, NEW t \in Thread, state[t].pc \in Inside, ~AtEnd(t), tp'.abort = tp.abort
  PROVE  Arrives(t, PlaceOf(t))
BY InPlace DEF Arrives

LEMMA ArriveOn ==
  ASSUME PoolInv, NEW t \in Thread, state[t].pc \in Inside, ~AtEnd(t), tp'.abort = tp.abort,
         NEW p \in Places(tp.cgraph),
         \A q \in Places(tp.cgraph) : Both(tp.cgraph, tp.abort, PlaceOf(t), q) =>
           Both(tp.cgraph, tp.abort, p, q)
  PROVE  Arrives(t, p)
BY InPlace DEF Arrives

LEMMA AgreeKinds ==
  ASSUME NEW i \in Nat, NEW x
  PROVE  /\ PlaceAt("node", <<i, 0>>) = Search(i)
         /\ \A pc \in {"work", "claim", "node_done"} : PlaceAt(pc, x) = Place("stage", x)
         /\ \A pc \in {"set", "barrier", "enter", "last", "release", "spin"} :
              PlaceAt(pc, x) = Place("barrier", x)
         /\ \A kind, at : Place(kind, at).kind = kind /\ Place(kind, at).at = at
BY DEF PlaceAt, Place, Search

\* The end of a stage: its barrier, where thread 0 may set the chunk counter first,
\* or the end of the node.
LEMMA StageEndPlace ==
  ASSUME NEW g \in Seq(Seq(Nat)), NEW t \in Thread, NEW x \in Contract!Stages(g),
         Node(t) = g[x[1]], NEW pc, pc = StageEnd(t, x[2])
  PROVE  /\ pc \in Inside \ {"begin", "enter", "last", "release", "spin"}
         /\ PlaceAt(pc, x) \in Places(g) /\ WellAt(t, g, pc, x)
         /\ \A a \in Nat, q \in Places(g) :
              Both(g, a, Place("stage", x), q) => Both(g, a, PlaceAt(pc, x), q)
<1>1. /\ x = <<x[1], x[2]>> /\ x[1] \in 1 .. Len(g) /\ x[1] \in Nat /\ x[2] \in Nat
      /\ x[2] \in 1 .. Len(g[x[1]]) /\ Len(g[x[1]]) \in Nat
  <2>1. /\ x = <<x[1], x[2]>> /\ x[1] \in 1 .. Len(g) /\ x[2] \in 1 .. Len(g[x[1]])
        /\ x[1] \in Nat /\ x[2] \in Nat
    BY StageFacts
  <2>2. g[x[1]] \in Seq(Nat)
    BY <2>1
  <2> QED
    BY <2>1, <2>2
<1>2. CASE x[2] < Len(Node(t))
  <2>1. pc = StageBarrier(t, x[2] + 1) /\ x[2] # Len(g[x[1]])
    BY <1>1, <1>2 DEF StageEnd
  <2>2. BarrierOf(g, x) = x /\ x # End
    BY <1>1, <2>1 DEF BarrierOf, End
  <2>3. PlaceAt(pc, x) = Place("barrier", BarrierOf(g, x))
    BY <2>1, <2>2, AgreeKinds DEF StageBarrier
  <2>4. Behind(g, x).kind = "stage"
    BY <2>1 DEF Behind, Place
  <2>5. WellAt(t, g, pc, x)
    BY <2>1, <2>2, <2>4 DEF WellAt, StageBarrier
  <2> QED
    BY <2>1, <2>3, <2>5, InPlaces, AgreeStageDone DEF StageBarrier, Inside
<1>3. CASE ~(x[2] < Len(Node(t)))
  <2>1. pc = "node_done" /\ x[2] = Len(g[x[1]])
    BY <1>1, <1>3 DEF StageEnd
  <2>2. PlaceAt(pc, x) = Place("stage", x)
    BY <2>1, AgreeKinds
  <2> QED
    BY <2>1, <2>2, InPlaces DEF WellAt, Inside
<1> QED
  BY <1>2, <1>3

\* The way out of a barrier that is not the last one.
LEMMA PastPlace ==
  ASSUME Shape, NEW t \in Thread, Past(t), NEW g \in Seq(Seq(Nat)), state[t].cgraph = g,
         Place("barrier", state[t].at) \in Places(g), state[t].at # End
  PROVE  /\ ThreadShape' /\ KeepsRest(t)
         /\ \A u \in Thread \ {t} : state'[u] = state[u]
         /\ state'[t].pc \in Inside \ {"begin", "enter", "last", "release", "spin"}
         /\ PlaceAt(state'[t].pc, state'[t].at) \in Places(g)
         /\ WellAt(t, g, state'[t].pc, state'[t].at)
         /\ Behind(g, state[t].at) \in Places(g)
         /\ \A a \in Nat, q \in Places(g) :
              Both(g, a, Behind(g, state[t].at), q)
                => Both(g, a, PlaceAt(state'[t].pc, state'[t].at), q)
<1> DEFINE b == state[t].at
           i == b[1]
           s == b[2]
           x == <<i, s + 1>>
           in == IF t < Contract!Width(Node(t)[s + 1], state[t].nth)
                 THEN "work" ELSE StageEnd(t, s + 1)
           p == Place("barrier", b)
<1>1. i \in Nat /\ s \in Nat /\ ThreadShape
  BY ThreadFacts DEF Shape
<1>2. p.kind = "barrier" /\ p.at = b
  BY DEF Place
<1>3. /\ Behind(g, b) \in Places(g) /\ i \in 1 .. Len(g)
      /\ s # Len(g[i]) => x \in Contract!Stages(g)
  BY <1>2, BehindIsPlace
<1>4. Node(t) = g[i] /\ i # 0
  BY <1>3 DEF Node
<1>5. CASE s = Len(g[i])
  <2>1. Becomes(t, "node", <<i + 1, 0>>, state[t].chunk) /\ ThreadShape' /\ KeepsRest(t)
    BY <1>1, <1>4, <1>5, PastEffect
  <2>2. PlaceAt(state'[t].pc, state'[t].at) = Search(i + 1)
    BY <1>1, <2>1, AgreeKinds DEF Becomes
  <2>3. Behind(g, b) = Search(i + 1)
    BY <1>5 DEF Behind
  <2> QED
    BY <1>3, <2>1, <2>2, <2>3 DEF Becomes, WellAt, Inside
<1>6. CASE s # Len(g[i])
  <2>1. Becomes(t, in, x, t) /\ ThreadShape' /\ KeepsRest(t)
    BY <1>1, <1>4, <1>6, PastEffect
  <2>2. Behind(g, b) = Place("stage", x)
    BY <1>6 DEF Behind
  <2>3. x[1] = i /\ x[2] = s + 1 /\ x \in Contract!Stages(g)
    BY <1>3, <1>6
  <2>4. CASE in = "work"
    <3>1. PlaceAt(in, x) = Place("stage", x)
      BY <2>4, AgreeKinds
    <3> QED
      BY <1>3, <2>1, <2>2, <2>4, <3>1 DEF Becomes, WellAt, Inside
  <2>5. CASE in = StageEnd(t, s + 1)
    <3> HIDE DEF x, in
    <3>1. /\ in \in Inside \ {"begin", "enter", "last", "release", "spin"}
          /\ PlaceAt(in, x) \in Places(g) /\ WellAt(t, g, in, x)
          /\ \A a \in Nat, q \in Places(g) :
               Both(g, a, Place("stage", x), q) => Both(g, a, PlaceAt(in, x), q)
      BY <1>4, <2>3, <2>5, StageEndPlace
    <3> QED
      BY <1>3, <2>1, <2>2, <3>1 DEF Becomes
  <2> QED
    BY <2>4, <2>5
<1> QED
  BY <1>5, <1>6

LEMMA BeginKeeps ==
  ASSUME PoolInv, NEW t \in Thread, Begin(t)
  PROVE  PoolInv'
<1>1. /\ Shape' /\ tp' = tp /\ Becomes(t, "node", <<1, 0>>, state[t].chunk)
      /\ state'[t].last_graph = state[t].last_graph
      /\ state'[t].cgraph = tp.cgraph /\ state'[t].nth = tp.n_graph[2]
  BY BeginEffect DEF PoolInv, Shape
<1>2. state[t].pc = "begin" /\ ~Waiting(t) /\ ~AtEnd(t)
  BY DEF Begin, Waiting, AtEnd, Released
<1>3. LocalMove(t)
  BY <1>1, <1>2 DEF LocalMove, PoolKeeps, Becomes, Inside
<1>4. PlaceAt("node", <<1, 0>>) = PlaceOf(t)
  BY <1>2, InPlace, AgreeKinds DEF Inside
<1>5. Arrives(t, PlaceOf(t))
  BY <1>1, <1>2, ArriveSame DEF Inside
<1>6. WellAt(t, tp.cgraph, "node", <<1, 0>>)
  BY DEF WellAt
<1> QED
  BY <1>1, <1>3, <1>4, <1>5, <1>6, LocalKeeps DEF Becomes

\* What the local steps of a thread have in common.
LEMMA LocalStep ==
  ASSUME PoolInv, Shape', NEW t \in Thread, NEW pc, NEW at, NEW chunk, Becomes(t, pc, at, chunk),
         state[t].pc \in {"node", "set", "work", "claim", "node_done"},
         pc \in {"node", "set", "work", "claim", "node_done", "barrier"},
         KeepsRest(t), PoolKeeps, tp'.n_barrier = tp.n_barrier,
         Arrives(t, PlaceAt(pc, at)), WellAt(t, tp.cgraph, pc, at)
  PROVE  PoolInv'
<1>1. state[t].pc \in Inside \ {"begin", "last", "release"} /\ ~Waiting(t) /\ ~AtEnd(t)
  BY DEF Waiting, AtEnd, Released, Inside
<1>2. state[t].cgraph = tp.cgraph /\ state[t].nth = tp.n_graph[2]
  BY <1>1, InGraph
<1>3. LocalMove(t)
  BY <1>1, <1>2 DEF LocalMove, Becomes, KeepsRest, Inside
<1> QED
  BY <1>3, LocalKeeps DEF Becomes

\* Where such a thread is.
LEMMA LocalPlace ==
  ASSUME PoolInv, NEW t \in Thread,
         state[t].pc \in {"node", "set", "work", "claim", "node_done", "barrier"}
  PROVE  /\ tp.cgraph \in Graphs /\ tp.cgraph \in Seq(Seq(Nat)) /\ t \in Members /\ ~Over
         /\ state[t].cgraph = tp.cgraph /\ state[t].nth = tp.n_graph[2]
         /\ tp.abort \in Nat /\ tp.abort \in 0 .. Len(tp.cgraph) + 1
         /\ PlaceOf(t) = PlaceAt(state[t].pc, state[t].at)
         /\ PlaceOf(t) \in Places(tp.cgraph)
         /\ WellAt(t, tp.cgraph, state[t].pc, state[t].at)
         /\ state[t].pc \in Inside /\ ~AtEnd(t)
         /\ state[t].pc \in {"work", "claim", "node_done"} =>
              /\ PlaceOf(t) = Place("stage", state[t].at)
              /\ state[t].at \in Contract!Stages(tp.cgraph)
              /\ Node(t) = tp.cgraph[state[t].at[1]]
         /\ state[t].pc = "node" =>
              /\ state[t].at[1] \in 1 .. Len(tp.cgraph) + 1
              /\ state[t].at = <<state[t].at[1], 0>>
              /\ PlaceOf(t) = Search(state[t].at[1])
<1>1. state[t].pc \in Inside /\ ~AtEnd(t) /\ ~Released(t) /\ state[t].pc # "begin"
  BY DEF AtEnd, Released, Inside
<1>2. /\ tp.cgraph \in Graphs /\ tp.cgraph \in Seq(Seq(Nat)) /\ t \in Members /\ ~Over
      /\ state[t].cgraph = tp.cgraph /\ state[t].nth = tp.n_graph[2]
  BY <1>1, InGraph
<1>3. /\ PlaceOf(t) = PlaceAt(state[t].pc, state[t].at)
      /\ PlaceOf(t) \in Places(tp.cgraph)
      /\ WellAt(t, tp.cgraph, state[t].pc, state[t].at)
      /\ tp.abort \in Nat /\ tp.abort \in 0 .. Len(tp.cgraph) + 1
  BY <1>1, InPlace
<1>4. state[t].pc \in {"work", "claim", "node_done"} =>
        /\ PlaceOf(t) = Place("stage", state[t].at)
        /\ state[t].at \in Contract!Stages(tp.cgraph)
        /\ Node(t) = tp.cgraph[state[t].at[1]]
  <2> SUFFICES ASSUME state[t].pc \in {"work", "claim", "node_done"}
               PROVE  /\ PlaceOf(t) = Place("stage", state[t].at)
                      /\ state[t].at \in Contract!Stages(tp.cgraph)
                      /\ Node(t) = tp.cgraph[state[t].at[1]]
    OBVIOUS
  <2>1. PlaceOf(t) = Place("stage", state[t].at)
    BY <1>3 DEF PlaceAt
  <2>2. PlaceOf(t).kind = "stage" /\ PlaceOf(t).at = state[t].at
    BY <2>1 DEF Place
  <2>3. state[t].at \in Contract!Stages(tp.cgraph)
    BY <1>2, <1>3, <2>2, PlaceFacts
  <2> QED
    BY <1>2, <2>1, <2>3 DEF Node
<1>5. state[t].pc = "node" =>
        /\ state[t].at[1] \in 1 .. Len(tp.cgraph) + 1
        /\ state[t].at = <<state[t].at[1], 0>>
        /\ PlaceOf(t) = Search(state[t].at[1])
  <2> SUFFICES ASSUME state[t].pc = "node"
               PROVE  /\ state[t].at[1] \in 1 .. Len(tp.cgraph) + 1
                      /\ state[t].at = <<state[t].at[1], 0>>
                      /\ PlaceOf(t) = Search(state[t].at[1])
    OBVIOUS
  <2>1. PlaceOf(t).kind = "search" /\ PlaceOf(t).at = state[t].at
    BY <1>3 DEF PlaceAt, Place
  <2>2. state[t].at[1] \in 1 .. Len(tp.cgraph) + 1 /\ PlaceOf(t) = Search(state[t].at[1])
    BY <1>2, <1>3, <2>1, PlaceFacts
  <2>3. state[t].at = <<state[t].at[1], 0>>
    BY <2>1, <2>2 DEF Search, Place
  <2> QED
    BY <2>2, <2>3
<1> QED
  BY <1>1, <1>2, <1>3, <1>4, <1>5

LEMMA NextNodeKeeps ==
  ASSUME PoolInv, NEW t \in Thread, NextNode(t)
  PROVE  PoolInv'
<1> DEFINE i == state[t].at[1]
           g == tp.cgraph
           a == tp.abort
           over == i > Len(g) \/ a = i
<1>1. /\ state[t].pc = "node" /\ Shape' /\ tp' = tp /\ KeepsRest(t) /\ PoolKeeps
      /\ tp'.n_barrier = tp.n_barrier /\ tp'.abort = tp.abort
  BY NextNodeEffect DEF PoolInv, Shape, NextNode, PoolKeeps
<1>2. /\ g \in Seq(Seq(Nat)) /\ state[t].cgraph = g /\ a \in Nat /\ i \in 1 .. Len(g) + 1
      /\ PlaceOf(t) = Search(i) /\ state[t].pc \in Inside /\ ~AtEnd(t)
  BY <1>1, LocalPlace
<1>3. Len(g) \in Nat /\ DOMAIN g = 1 .. Len(g) /\ Node(t) = g[i] /\ i \in Nat
  BY <1>2 DEF Node
<1>4. IF over THEN Becomes(t, "barrier", End, t)
      ELSE IF g[i] = <<>> THEN Becomes(t, "node", <<i + 1, 0>>, t)
      ELSE IF g[i][1] # Contract!Slices THEN Becomes(t, StageBarrier(t, 1), <<i, 0>>, t)
      ELSE Becomes(t, "work", <<i, 1>>, t)
  BY <1>2, <1>3, NextNodeEffect DEF PoolInv, Shape, Claimed
<1>5. ASSUME NEW p \in Places(g),
             \A q \in Places(g) : Both(g, a, Search(i), q) => Both(g, a, p, q)
      PROVE  Arrives(t, p)
  BY <1>1, <1>2, <1>5, ArriveOn
<1> HIDE DEF i, g, a
<1>6. CASE over
  <2>1. ~Skips(g, a, i) /\ ~(i \in DOMAIN g /\ a # i)
    BY <1>2, <1>3, <1>6 DEF Skips
  <2>2. \A q \in Places(g) : Both(g, a, Search(i), q) =>
          /\ NextBarrier(g, a, i) = End
          /\ Place("barrier", NextBarrier(g, a, i)) \in Places(g)
          /\ Both(g, a, Place("barrier", NextBarrier(g, a, i)), q)
    BY <1>2, <1>6, <2>1, AgreeBarrier
  <2>3. Place("barrier", End) \in Places(g)
    BY <1>2, InPlaces
  <2>4. Arrives(t, Place("barrier", End))
    BY <1>5, <2>2, <2>3
  <2>5. PlaceAt("barrier", End) = Place("barrier", End) /\ WellAt(t, tp.cgraph, "barrier", End)
    BY AgreeKinds DEF WellAt
  <2> QED
    BY <1>1, <1>4, <1>6, <2>4, <2>5, LocalStep
<1>7. CASE ~over /\ g[i] = <<>>
  <2>1. Skips(g, a, i)
    BY <1>2, <1>3, <1>7 DEF Skips
  <2>2. \A q \in Places(g) : Both(g, a, Search(i), q) => Both(g, a, Search(i + 1), q)
    BY <1>2, <2>1, AgreeSkip
  <2>3. i + 1 \in 1 .. Len(g) + 1 /\ i + 1 \in Nat
    BY <1>2, <1>3, <1>7
  <2>4. Search(i + 1) \in Places(g)
    BY <1>2, <2>3, InPlaces
  <2>5. Arrives(t, Search(i + 1))
    BY <1>5, <2>2, <2>4
  <2>6. PlaceAt("node", <<i + 1, 0>>) = Search(i + 1)
        /\ WellAt(t, tp.cgraph, "node", <<i + 1, 0>>)
    BY <2>3, AgreeKinds DEF WellAt
  <2> QED
    BY <1>1, <1>4, <1>7, <2>5, <2>6, LocalStep
<1>8. CASE ~over /\ g[i] # <<>> /\ g[i][1] # Contract!Slices
  <2> DEFINE pc == StageBarrier(t, 1)
  <2>1. ~Skips(g, a, i) /\ (i \in DOMAIN g /\ a # i => g[i][1] # Contract!Slices)
    BY <1>2, <1>3, <1>8 DEF Skips
  <2>2. \A q \in Places(g) : Both(g, a, Search(i), q) =>
          /\ NextBarrier(g, a, i) = <<i, 0>>
          /\ Both(g, a, Place("barrier", NextBarrier(g, a, i)), q)
    BY <1>2, <1>8, <2>1, AgreeBarrier
  <2>10. i \in 1 .. Len(g)
    BY <1>2, <1>3, <1>8
  <2>3. Place("barrier", <<i, 0>>) \in Places(g)
    BY <1>2, <1>8, <2>10, InPlaces
  <2>4. Arrives(t, Place("barrier", <<i, 0>>))
    BY <1>5, <2>2, <2>3
  <2>5. pc \in {"set", "barrier"} /\ (pc = "set" => t = 0)
    BY DEF StageBarrier
  <2>6. Behind(g, <<i, 0>>).kind = "stage" /\ <<i, 0>> # End
    <3>1. g[i] \in Seq(Nat)
      BY <1>2, <1>3, <1>8
    <3>2. Len(g[i]) # 0
      BY <1>8, <3>1
    <3>3. <<i, 0>>[1] = i /\ <<i, 0>>[2] = 0 /\ i # 0
      BY <1>2
    <3> QED
      BY <3>2, <3>3 DEF Behind, Place, End
  <2>7. WellAt(t, tp.cgraph, pc, <<i, 0>>)
    BY <2>5, <2>6 DEF WellAt, g
  <2>8. PlaceAt(pc, <<i, 0>>) = Place("barrier", <<i, 0>>)
    BY <2>5, AgreeKinds
  <2>9. Becomes(t, pc, <<i, 0>>, t)
    BY <1>4, <1>8
  <2> HIDE DEF pc
  <2> QED
    BY <1>1, <2>4, <2>5, <2>7, <2>8, <2>9, LocalStep
<1>9. CASE ~over /\ g[i] # <<>> /\ g[i][1] = Contract!Slices
  <2>1. i \in 1 .. Len(g) /\ a # i
    BY <1>2, <1>3, <1>9
  <2>2. \A q \in Places(g) : Both(g, a, Search(i), q) =>
          /\ <<i, 1>> \in Contract!Stages(g)
          /\ Both(g, a, Place("stage", <<i, 1>>), q)
    BY <1>2, <1>9, <2>1, AgreeStage
  <2>3. <<i, 1>> \in Contract!Stages(g)
    <3>1. Search(i) \in Places(g)
      BY <1>2, InPlaces
    <3> QED
      BY <1>2, <2>2, <3>1, AgreeSelf DEF Both
  <2>4. Place("stage", <<i, 1>>) \in Places(g)
    BY <1>2, <2>3, InPlaces
  <2>5. Arrives(t, Place("stage", <<i, 1>>))
    BY <1>5, <2>2, <2>4
  <2>6. PlaceAt("work", <<i, 1>>) = Place("stage", <<i, 1>>)
        /\ WellAt(t, tp.cgraph, "work", <<i, 1>>)
    BY AgreeKinds DEF WellAt
  <2> QED
    BY <1>1, <1>4, <1>9, <2>5, <2>6, LocalStep
<1> QED
  BY <1>6, <1>7, <1>8, <1>9

LEMMA SetChunkKeeps ==
  ASSUME PoolInv, NEW t \in Thread, SetChunk(t)
  PROVE  PoolInv'
<1>1. /\ Shape' /\ PoolKeeps /\ KeepsRest(t) /\ state[t].pc = "set"
      /\ tp'.n_barrier = tp.n_barrier /\ tp'.abort = tp.abort
      /\ Becomes(t, "barrier", state[t].at, state[t].chunk)
  BY SetChunkEffect DEF SetChunk, PoolInv, Shape
<1>2. Arrives(t, PlaceOf(t)) /\ PlaceOf(t) = PlaceAt("barrier", state[t].at)
  <2>1. PlaceOf(t) = PlaceAt("set", state[t].at) /\ state[t].pc \in Inside /\ ~AtEnd(t)
    BY <1>1, LocalPlace
  <2>2. PlaceAt("set", state[t].at) = PlaceAt("barrier", state[t].at)
    BY DEF PlaceAt
  <2> QED
    BY <1>1, <2>1, <2>2, ArriveSame
<1>3. WellAt(t, tp.cgraph, "barrier", state[t].at)
  BY DEF WellAt
<1> QED
  BY <1>1, <1>2, <1>3, LocalStep

\* A thread stays at its stage, or comes to the end of it.
LEMMA StageStep ==
  ASSUME PoolInv, Shape', NEW t \in Thread, NEW pc, NEW chunk,
         Becomes(t, pc, state[t].at, chunk),
         state[t].pc \in {"work", "claim"}, KeepsRest(t), PoolKeeps,
         tp'.n_barrier = tp.n_barrier, tp'.abort = tp.abort,
         \/ pc = "work"
         \/ pc = "claim" /\ Claimed(t, state[t].at[2])
         \/ pc = StageEnd(t, state[t].at[2])
  PROVE  PoolInv'
<1> DEFINE x == state[t].at
           g == tp.cgraph
<1>1. /\ g \in Seq(Seq(Nat)) /\ x \in Contract!Stages(g) /\ Node(t) = g[x[1]]
      /\ PlaceOf(t) = Place("stage", x) /\ tp.abort \in Nat
      /\ state[t].pc \in Inside /\ ~AtEnd(t)
  BY LocalPlace
<1>2. CASE pc = "work" \/ (pc = "claim" /\ Claimed(t, x[2]))
  <2>3. PlaceAt(pc, x) = Place("stage", x)
    BY <1>2 DEF PlaceAt
  <2>1. Arrives(t, PlaceOf(t)) /\ PlaceOf(t) = PlaceAt(pc, x)
    BY <1>1, <2>3, ArriveSame
  <2>2. WellAt(t, g, pc, x)
    BY <1>1, <1>2 DEF WellAt, Claimed
  <2> QED
    BY <1>2, <2>1, <2>2, LocalStep
<1>3. CASE pc = StageEnd(t, x[2])
  <2>1. /\ PlaceAt(pc, x) \in Places(g) /\ WellAt(t, g, pc, x)
        /\ \A q \in Places(g) :
             Both(g, tp.abort, Place("stage", x), q) => Both(g, tp.abort, PlaceAt(pc, x), q)
    BY <1>1, <1>3, StageEndPlace
  <2>2. Arrives(t, PlaceAt(pc, x))
    BY <1>1, <2>1, ArriveOn
  <2>3. pc \in {"set", "barrier", "node_done"}
    BY <1>3, StageEndPc
  <2> QED
    BY <2>1, <2>2, <2>3, LocalStep
<1> QED
  BY <1>2, <1>3

LEMMA WorkKeeps ==
  ASSUME PoolInv, NEW t \in Thread, Work(t)
  PROVE  PoolInv'
<1>1. /\ Shape' /\ tp' = tp /\ KeepsRest(t)
      /\ \/ /\ Claimed(t, state[t].at[2])
            /\ Becomes(t, "claim", state[t].at, state[t].chunk)
         \/ Becomes(t, StageEnd(t, state[t].at[2]), state[t].at, state[t].chunk)
  BY WorkEffect DEF PoolInv, Shape
<1>2. state[t].pc = "work" /\ PoolKeeps
  BY <1>1 DEF Work, PoolKeeps
<1> QED
  BY <1>1, <1>2, StageStep

LEMMA ClaimKeeps ==
  ASSUME PoolInv, NEW t \in Thread, Claim(t)
  PROVE  PoolInv'
<1>1. /\ Shape' /\ PoolKeeps /\ KeepsRest(t)
      /\ tp'.n_barrier = tp.n_barrier /\ tp'.abort = tp.abort
      /\ \E pc \in {"work", StageEnd(t, state[t].at[2])} :
           Becomes(t, pc, state[t].at, tp.current_chunk)
  BY ClaimEffect DEF PoolInv, Shape
<1>2. state[t].pc = "claim"
  BY DEF Claim
<1> QED
  BY <1>1, <1>2, StageStep

LEMMA NodeDoneKeeps ==
  ASSUME PoolInv, NEW t \in Thread, NodeDone(t)
  PROVE  PoolInv'
<1> DEFINE x == state[t].at
           g == tp.cgraph
           b == BarrierOf(g, x)
           c == x[1] + 1
           p == Place("barrier", b)
<1>1. /\ Shape' /\ PoolKeeps /\ KeepsRest(t) /\ state[t].pc = "node_done"
      /\ tp'.n_barrier = tp.n_barrier
      /\ tp'.abort = tp.abort \/ tp'.abort = c
      /\ Becomes(t, "barrier", IF x[1] < Len(state[t].cgraph) THEN x ELSE End, state[t].chunk)
  BY NodeDoneEffect DEF NodeDone, PoolInv, Shape
<1>2. /\ g \in Seq(Seq(Nat)) /\ x \in Contract!Stages(g) /\ tp.abort \in Nat
      /\ PlaceOf(t) = Place("stage", x) /\ x[2] = Len(g[x[1]]) /\ state[t].cgraph = g
      /\ state[t].pc \in Inside /\ ~AtEnd(t)
  BY <1>1, LocalPlace DEF WellAt
<1>3. /\ x[1] \in 1 .. Len(g) /\ Len(g) \in Nat /\ c \in Nat /\ c \in 0 .. Len(g) + 1
  <2>1. x[1] \in 1 .. Len(g) /\ Len(g) \in Nat
    BY <1>2, StageFacts
  <2> DEFINE n == x[1]
  <2> HIDE DEF n
  <2>2. n + 1 \in Nat /\ n + 1 \in 0 .. Len(g) + 1
    BY <2>1 DEF n
  <2> QED
    BY <2>1, <2>2 DEF n
<1>4. b = IF x[1] < Len(state[t].cgraph) THEN x ELSE End
  BY <1>2, <1>3 DEF BarrierOf
<1>5. p \in Places(g) /\ Place("stage", x) \in Places(g) /\ p = PlaceAt("barrier", b)
  BY <1>2, InPlaces, AgreeKinds
<1>6. Arrives(t, p)
  <2>1. CASE tp'.abort = tp.abort
    <3>1. \A q \in Places(g) : Both(g, tp.abort, Place("stage", x), q) => Both(g, tp.abort, p, q)
      BY <1>2, AgreeStageDone
    <3> QED
      BY <1>2, <1>5, <2>1, <3>1, ArriveOn
  <2>2. CASE tp'.abort = c
    <3> DEFINE s == Place("stage", x)
    <3>1. \A u \in Members : PlaceOf(u) \in Places(g) /\ Both(g, tp.abort, s, PlaceOf(u))
      BY <1>2, InPlace
    <3>2. Both(g, tp.abort, s, s)
      BY <1>2, <1>5, AgreeSelf DEF Both
    <3>3. ASSUME NEW u \in Members, NEW v \in Members
          PROVE  Both(g, c, PlaceOf(u), PlaceOf(v)) /\ Both(g, c, s, PlaceOf(u))
      BY <1>2, <1>5, <3>1, <3>2, AgreeAbort
    <3>4. \A u \in Members : Both(g, c, p, PlaceOf(u))
      BY <1>2, <1>3, <3>1, <3>3, AgreeStageDone
    <3> HIDE DEF s, c, p, g, b, x
    <3>5. \A u, v \in Members : Agree(g, c, PlaceOf(u), PlaceOf(v))
      BY <3>3 DEF Both
    <3>6. tp'.abort = c /\ g = tp.cgraph
      BY <2>2 DEF g
    <3>7. \A u \in Members \ {t} : Both(tp.cgraph, tp'.abort, p, PlaceOf(u))
      BY <3>4, <3>6
    <3>8. \A u, v \in Members \ {t} : Agree(tp.cgraph, tp'.abort, PlaceOf(u), PlaceOf(v))
      BY <3>5, <3>6
    <3> QED
      BY <1>3, <1>5, <3>6, <3>7, <3>8 DEF Arrives
  <2> QED
    BY <1>1, <2>1, <2>2
<1>7. WellAt(t, g, "barrier", b)
  BY DEF WellAt
<1> QED
  BY <1>1, <1>4, <1>5, <1>6, <1>7, LocalStep

-----------------------------------------------------------------------------
(* The barrier                                                             *)

\* The barrier's crowd, as long as one thread of the graph is not in it.
LEMMA CrowdFacts ==
  ASSUME PoolInv, NEW t \in Thread, state[t].pc \in Inside, ~AtEnd(t), ~Waiting(t)
  PROVE  /\ Crowd \subseteq Members \ {t} /\ Members \subseteq Thread
         /\ IsFiniteSet(Crowd) /\ IsFiniteSet(Members \ {t})
         /\ Cardinality(Members \ {t}) = tp.n_graph[2] - 1
         /\ Cardinality(Crowd) \in Nat /\ Cardinality(Crowd) <= tp.n_graph[2] - 1
         /\ Cardinality(Crowd) = tp.n_graph[2] - 1 => Crowd = Members \ {t}
         /\ Cardinality(Crowd \cup {t}) = Cardinality(Crowd) + 1
         /\ tp.n_graph[2] \in Nat
<1>1. tp.n_graph[2] \in 0 .. NThreads /\ tp.n_graph[2] \in Nat /\ NThreads \in Nat
  BY PoolAssumption DEF PoolInv, PoolShape, PoolRecord
<1>2. t \in Members
  BY InGraph
<1>3. \A u \in Crowd : u \in Members \ {t}
  <2> TAKE u \in Crowd
  <2>1. u \in Thread /\ Waiting(u) /\ u # t
    BY DEF Crowd
  <2>2. state[u].pc \in Inside /\ ~AtEnd(u)
    BY <2>1 DEF Waiting, AtEnd, Released, Inside
  <2> QED
    BY <2>1, <2>2, InGraph
<1>4. IsFiniteSet(Members) /\ Cardinality(Members) = tp.n_graph[2]
  <2> DEFINE n == tp.n_graph[2]
  <2>1. Members = 0 .. n - 1 /\ n \in Nat
    BY <1>1 DEF Members
  <2> HIDE DEF n
  <2>2. n - 1 \in Int /\ 0 \in Int /\ n >= 1
    BY <1>2, <2>1
  <2>3. IsFiniteSet(0 .. n - 1) /\ Cardinality(0 .. n - 1) = IF 0 > n - 1 THEN 0 ELSE n - 1 - 0 + 1
    BY <2>2, FS_Interval
  <2>4. Cardinality(0 .. n - 1) = n
    BY <2>1, <2>2, <2>3
  <2> QED
    BY <2>1, <2>3, <2>4 DEF n
<1>5. IsFiniteSet(Members \ {t}) /\ Cardinality(Members \ {t}) = tp.n_graph[2] - 1
  BY <1>2, <1>4, FS_RemoveElement
<1>6. IsFiniteSet(Crowd) /\ Cardinality(Crowd) \in Nat
      /\ Cardinality(Crowd) <= tp.n_graph[2] - 1
      /\ (Cardinality(Crowd) = tp.n_graph[2] - 1 => Crowd = Members \ {t})
  <2>1. Crowd \subseteq Members \ {t}
    BY <1>3
  <2> QED
    BY <1>5, <2>1, FS_Subset, FS_CardinalityType
<1>7. Cardinality(Crowd \cup {t}) = Cardinality(Crowd) + 1
  BY <1>3, <1>6, FS_AddElement
<1>8. Members \subseteq Thread
  BY <1>1 DEF Members, Thread
<1> QED
  BY <1>1, <1>3, <1>5, <1>6, <1>7, <1>8

\* While a thread that is not in the crowd has not closed it, nobody has.
LEMMA NobodyCloses ==
  ASSUME PoolInv, NEW t \in Thread, state[t].pc \in Inside \ {"last", "release"},
         ~AtEnd(t), ~Waiting(t)
  PROVE  /\ \A u \in Thread : state[u].pc \notin {"last", "release"}
         /\ tp.n_barrier = Cardinality(Crowd)
<1>1. t \in Members
  BY InGraph
<1>2. t \notin Crowd
  BY DEF Crowd
<1>3. \A u \in Thread : state[u].pc \notin {"last", "release"}
  BY <1>1, <1>2 DEF PoolInv, BarrierCounts
<1> QED
  BY <1>3 DEF PoolInv, BarrierCounts

LEMMA BarrierStay ==
  ASSUME PoolInv, Shape', NEW t \in Thread, NEW pc, NEW chunk, PoolKeeps, tp'.abort = tp.abort,
         Becomes(t, pc, state[t].at, chunk), KeepsRest(t),
         state[t].pc \in {"enter", "last"}, pc \in {"last", "spin", "release"}, BarrierCounts'
  PROVE  PoolInv'
<1>0. 0 \in Thread /\ Worker = Thread \ {0}
  BY PoolAssumption DEF Thread, Worker
<1>1. /\ state[t].pc \in Inside /\ ~AtEnd(t) /\ state[t].pc # "begin" /\ ~Released(t)
      /\ state[t].bar = <<tp.n_graph[2], tp.n_barrier_passed>>
  BY DEF AtEnd, Released, Inside, PoolInv, BarrierCounts
<1>2. /\ ~Over /\ t \in Members /\ Noticed(t)
      /\ state[t].cgraph = tp.cgraph /\ state[t].nth = tp.n_graph[2]
  BY <1>1, InGraph
<1>3. Members' = Members /\ Members \subseteq Thread
  BY PoolAssumption DEF PoolKeeps, Members, Thread, PoolInv, PoolShape, PoolRecord
<1>4. \A u \in Thread \ {t} : /\ Released(u)' <=> Released(u)
                              /\ AtEnd(u)' <=> AtEnd(u)
                              /\ Noticed(u)' <=> Noticed(u)
                              /\ PlaceOf(u)' = PlaceOf(u)
  BY DEF Released, AtEnd, Noticed, PlaceOf, Becomes, PoolKeeps
<1>5. /\ ~Released(t)'
      /\ ~AtEnd(t)'
      /\ Noticed(t)'
      /\ state'[t].pc \in Inside \ {"begin"}
  BY <1>1, <1>2 DEF AtEnd, Released, Noticed, Becomes, KeepsRest, PoolKeeps, Inside
<1>6. ~Over'
  BY <1>0, <1>2, <1>4, <1>5, AtRestApart DEF Over, Becomes
<1>7. Counted'
  <2>1. state'[0].pc # "kick"
    BY <1>0, <1>2, <1>5 DEF Becomes, Over, AtRest, Inside
  <2>2. \A u \in Worker : state'[u].last_graph = state[u].last_graph
    BY <1>0 DEF Becomes, KeepsRest
  <2> QED
    BY <2>1, <2>2 DEF PoolInv, Counted, PoolKeeps
<1>8. RestIsQuiet'
  BY <1>6 DEF RestIsQuiet
<1>9. GraphHasMembers'
  BY <1>0, <1>2, <1>3, <1>4, <1>5
     DEF PoolInv, GraphHasMembers, PoolKeeps, Becomes, KeepsRest
<1>10. PlaceOf(t)' = PlaceOf(t) /\ PlaceOf(t) = Place("barrier", state[t].at)
  <2>1. PlaceOf(t)' = PlaceAt(pc, state[t].at)
    <3>1. state'[t].pc \notin {"signal", "begin"}
      BY <1>5, AtRestApart
    <3> QED
      BY <1>5, <3>1 DEF PlaceOf, Becomes
  <2>2. PlaceOf(t) = PlaceAt(state[t].pc, state[t].at)
    BY <1>1, InPlace
  <2> QED
    BY <2>1, <2>2 DEF PlaceAt
<1>11. OnTheWay'
  <2>1. \A u \in Members : PlaceOf(u)' = PlaceOf(u)
    BY <1>3, <1>4, <1>10
  <2>2. WellAt(t, tp.cgraph, state'[t].pc, state'[t].at)
    <3>1. PlaceOf(t) \in Places(tp.cgraph)
      BY <1>1, InPlace
    <3> QED
      BY <1>10, <3>1 DEF WellAt, Becomes
  <2>3. \A u \in Members \ {t} : Noticed(u)' => WellAt(u, tp.cgraph, state'[u].pc, state'[u].at)
    BY <1>2, <1>3, <1>4 DEF PoolInv, OnTheWay, Becomes
  <2> QED
    BY <1>2, <1>3, <2>1, <2>2, <2>3 DEF PoolInv, OnTheWay, PoolKeeps
<1> QED
  BY <1>7, <1>8, <1>9, <1>11 DEF PoolInv, Shape

LEMMA BarrierEnterKeeps ==
  ASSUME PoolInv, NEW t \in Thread, BarrierEnter(t)
  PROVE  PoolInv'
<1> DEFINE pc == IF tp.n_barrier = state[t].bar[1] - 1 THEN "last" ELSE "spin"
<1>1. /\ Shape' /\ PoolKeeps /\ KeepsRest(t) /\ state[t].pc = "enter"
      /\ tp'.n_barrier = tp.n_barrier + 1 /\ tp'.abort = tp.abort
      /\ Becomes(t, pc, state[t].at, state[t].chunk)
  BY BarrierEnterEffect DEF PoolInv, Shape, BarrierEnter
<1>2. /\ state[t].pc \in Inside \ {"last", "release"} /\ ~AtEnd(t) /\ ~Waiting(t)
      /\ state[t].bar = <<tp.n_graph[2], tp.n_barrier_passed>> /\ tp.n_graph[2] > 1
  BY <1>1 DEF AtEnd, Released, Waiting, Inside, PoolInv, BarrierCounts
<1>3. /\ \A u \in Thread : state[u].pc \notin {"last", "release"}
      /\ tp.n_barrier = Cardinality(Crowd)
  BY <1>2, NobodyCloses
<1>4. Members' = Members
  BY <1>1 DEF PoolKeeps, Members
<1>5. \A u \in Thread \ {t} : Waiting(u)' <=> Waiting(u)
  BY <1>1 DEF Waiting, PoolKeeps, Becomes
<1>6. Waiting(t)' <=> pc = "spin"
  BY <1>1, <1>2 DEF Waiting, PoolKeeps, Becomes, KeepsRest
<1>7. tp.n_barrier_passed \in Nat
  BY DEF PoolInv, PoolShape, PoolRecord
<1>8. \A u \in Thread : /\ state'[u].pc = "spin" => state'[u].bar[2] <= tp'.n_barrier_passed
                        /\ state'[u].pc \in {"enter", "last", "release"} \/ Waiting(u)' =>
                             state'[u].bar = <<tp'.n_graph[2], tp'.n_barrier_passed>> /\ tp'.n_graph[2] > 1
  <2> TAKE u \in Thread
  <2>1. CASE u = t
    BY <1>1, <1>2, <1>7, <2>1 DEF KeepsRest, PoolKeeps
  <2>2. CASE u # t
    BY <1>1, <1>5, <2>2 DEF PoolInv, BarrierCounts, Becomes, PoolKeeps
  <2> QED
    BY <2>1, <2>2
<1>9. BarrierCounts'
  <2>1. CASE pc = "last"
    <3>1. Crowd' = Crowd
      BY <1>2, <1>5, <1>6, <2>1 DEF Crowd
    <3>2. Cardinality(Crowd) = tp.n_graph[2] - 1 /\ tp.n_barrier + 1 = tp.n_graph[2]
      <4>1. tp.n_barrier = tp.n_graph[2] - 1
        BY <1>2, <2>1
      <4>2. tp.n_graph[2] \in Nat
        BY <1>2, CrowdFacts
      <4> QED
        BY <1>3, <4>1, <4>2
    <3>3. Crowd = Members \ {t}
      BY <1>2, <3>2, CrowdFacts
    <3>4. state'[t].pc = "last" /\ \A u \in Thread \ {t} : state'[u].pc \notin {"last", "release"}
      BY <1>1, <1>3, <2>1 DEF Becomes
    <3> QED
      BY <1>1, <1>4, <1>8, <3>1, <3>2, <3>3, <3>4 DEF BarrierCounts, PoolKeeps
  <2>2. CASE pc = "spin"
    <3>1. Crowd' = Crowd \cup {t}
      BY <1>2, <1>5, <1>6, <2>2 DEF Crowd
    <3>2. tp'.n_barrier = Cardinality(Crowd')
      BY <1>1, <1>2, <1>3, <3>1, CrowdFacts
    <3>3. \A u \in Thread : state'[u].pc \notin {"last", "release"}
      BY <1>1, <1>3, <2>2 DEF Becomes
    <3> QED
      BY <1>8, <3>2, <3>3 DEF BarrierCounts
  <2> QED
    BY <2>1, <2>2
<1> QED
  BY <1>1, <1>9, BarrierStay

LEMMA BarrierResetKeeps ==
  ASSUME PoolInv, NEW t \in Thread, BarrierReset(t)
  PROVE  PoolInv'
<1>1. /\ Shape' /\ PoolKeeps /\ KeepsRest(t) /\ state[t].pc = "last"
      /\ tp'.n_barrier = 0 /\ tp'.abort = tp.abort
      /\ Becomes(t, "release", state[t].at, state[t].chunk)
  BY BarrierResetEffect DEF PoolInv, Shape, BarrierReset
<1>2. Crowd = Members \ {t}
  BY <1>1 DEF PoolInv, BarrierCounts
<1>3. /\ Members' = Members
      /\ \A u \in Thread : Waiting(u)' <=> Waiting(u)
  BY <1>1 DEF PoolKeeps, Members, Waiting, Becomes, KeepsRest
<1>4. Crowd' = Crowd
  BY <1>3 DEF Crowd
<1>5. t \in Members
  <2>1. state[t].pc \in Inside /\ ~AtEnd(t)
    BY <1>1 DEF Inside, AtEnd, Released
  <2> QED
    BY <2>1, InGraph
<1>6. \A u \in Thread \ {t} : state[u].pc \notin {"last", "release"}
  <2> TAKE u \in Thread \ {t}
  <2> SUFFICES ASSUME state[u].pc \in {"last", "release"} PROVE FALSE
    OBVIOUS
  <2>1. Crowd = Members \ {u}
    BY DEF PoolInv, BarrierCounts
  <2> QED
    BY <1>2, <1>5, <2>1
<1>7. BarrierCounts'
  BY <1>1, <1>2, <1>3, <1>4, <1>6 DEF PoolInv, BarrierCounts, PoolKeeps, Becomes, KeepsRest
<1> QED
  BY <1>1, <1>7, BarrierStay

\* Who opens the barrier finds all others waiting at it.
LEMMA AllWait ==
  ASSUME PoolInv, NEW t \in Thread, state[t].pc = "release"
  PROVE  /\ ~Over /\ t \in Members /\ Noticed(t) /\ Members \subseteq Thread
         /\ tp.cgraph \in Graphs /\ tp.cgraph \in Seq(Seq(Nat))
         /\ state[t].cgraph = tp.cgraph /\ state[t].nth = tp.n_graph[2]
         /\ Place("barrier", state[t].at) \in Places(tp.cgraph)
         /\ \A u \in Members \ {t} : /\ Waiting(u) /\ Noticed(u) /\ state[u].at = state[t].at
                                    /\ state[u].cgraph = tp.cgraph
                                    /\ state[u].nth = tp.n_graph[2]
         /\ \A u \in Thread \ Members : state[u].pc \in Inside => AtEnd(u)
<1>0. 0 \in Thread /\ Worker = Thread \ {0}
  BY PoolAssumption DEF Thread, Worker
<1>1. /\ state[t].pc \in Inside /\ ~AtEnd(t) /\ ~Waiting(t) /\ ~Released(t)
      /\ state[t].pc # "begin"
  BY DEF AtEnd, Released, Waiting, Inside
<1>2. /\ ~Over /\ t \in Members /\ Noticed(t)
      /\ tp.cgraph \in Graphs /\ tp.cgraph \in Seq(Seq(Nat))
      /\ state[t].cgraph = tp.cgraph /\ state[t].nth = tp.n_graph[2]
  BY <1>1, InGraph
<1>3. PlaceOf(t) = Place("barrier", state[t].at) /\ PlaceOf(t) \in Places(tp.cgraph)
  <2>1. PlaceOf(t) = PlaceAt("release", state[t].at)
    BY <1>1, InPlace
  <2> QED
    BY <1>1, <2>1, InPlace DEF PlaceAt
<1>4. Members \subseteq Thread
  BY <1>1, CrowdFacts
<1>5. ASSUME NEW u \in Members \ {t}
      PROVE  /\ Waiting(u) /\ Noticed(u) /\ state[u].at = state[t].at
             /\ state[u].cgraph = tp.cgraph
             /\ state[u].nth = tp.n_graph[2]
  <2>1. u \in Crowd
    BY DEF PoolInv, BarrierCounts
  <2>2. u \in Thread /\ Waiting(u)
    BY <2>1 DEF Crowd
  <2>3. state[u].pc \in Inside /\ ~AtEnd(u) /\ state[u].pc = "spin" /\ ~Released(u)
    BY <2>2 DEF Waiting, AtEnd, Released, Inside
  <2>4. /\ Noticed(u) /\ state[u].cgraph = tp.cgraph /\ state[u].nth = tp.n_graph[2]
        /\ u \in Members
    BY <2>2, <2>3, InGraph
  <2>5. PlaceOf(u) = PlaceAt("spin", state[u].at)
    BY <2>2, <2>3, InPlace
  <2>6. PlaceOf(u) = Place("barrier", state[u].at)
    BY <2>5 DEF PlaceAt
  <2>7. Agree(tp.cgraph, tp.abort, PlaceOf(t), PlaceOf(u))
    BY <1>2, <2>4 DEF PoolInv, OnTheWay
  <2>8. state[u].at = state[t].at
    BY <1>3, <2>6, <2>7 DEF Agree, Place
  <2> QED
    BY <2>2, <2>4, <2>8
<1>6. \A u \in Thread \ Members : state[u].pc \in Inside => AtEnd(u)
  BY InGraph
<1> QED
  BY <1>2, <1>3, <1>4, <1>5, <1>6

\* The barrier opens before the end of the graph.
LEMMA OpenKeeps ==
  ASSUME PoolInv, NEW t \in Thread, BarrierRelease(t), state[t].at # End
  PROVE  PoolInv'
<1> DEFINE b == state[t].at
           g == tp.cgraph
           p == PlaceAt(state'[t].pc, state'[t].at)
<1>0. 0 \in Thread /\ Worker = Thread \ {0}
  BY PoolAssumption DEF Thread, Worker
<1>1. /\ PoolShape' /\ Past(t) /\ state[t].pc = "release"
      /\ tp'.n_graph = tp.n_graph /\ tp'.cgraph = g
      /\ tp'.n_barrier_passed = tp.n_barrier_passed + 1
      /\ tp'.n_barrier = tp.n_barrier /\ tp'.abort = tp.abort
  BY BarrierReleaseEffect DEF BarrierRelease, PoolInv, Shape
<1>2. /\ ~Over /\ t \in Members /\ Noticed(t) /\ Members \subseteq Thread
      /\ tp.cgraph \in Graphs /\ g \in Seq(Seq(Nat))
      /\ state[t].cgraph = g /\ state[t].nth = tp.n_graph[2]
      /\ Place("barrier", b) \in Places(g)
      /\ \A u \in Members \ {t} : /\ Waiting(u) /\ Noticed(u) /\ state[u].at = b
                                 /\ state[u].cgraph = tp.cgraph
                                 /\ state[u].nth = tp.n_graph[2]
      /\ \A u \in Thread \ Members : state[u].pc \in Inside => AtEnd(u)
  BY <1>1, AllWait
<1>3. /\ ThreadShape' /\ KeepsRest(t)
      /\ \A u \in Thread \ {t} : state'[u] = state[u]
      /\ state'[t].pc \in Inside \ {"begin", "enter", "last", "release", "spin"}
      /\ p \in Places(g)
      /\ WellAt(t, g, state'[t].pc, state'[t].at)
      /\ Behind(g, b) \in Places(g)
      /\ \A a \in Nat, q \in Places(g) : Both(g, a, Behind(g, b), q) => Both(g, a, p, q)
  BY <1>1, <1>2, PastPlace DEF PoolInv, Shape
<1>4. Members' = Members
  BY <1>1 DEF Members
<1>5. tp.n_barrier_passed \in Nat
  BY DEF PoolInv, PoolShape, PoolRecord
<1>6. \A u \in Thread : state[u].pc = "spin" => state[u].bar[2] # tp.n_barrier_passed + 1
                                               /\ state[u].bar[2] <= tp.n_barrier_passed + 1
  <2> TAKE u \in Thread
  <2> SUFFICES ASSUME state[u].pc = "spin"
               PROVE  /\ state[u].bar[2] # tp.n_barrier_passed + 1
                      /\ state[u].bar[2] <= tp.n_barrier_passed + 1
    OBVIOUS
  <2>1. state[u].bar[2] <= tp.n_barrier_passed
    BY DEF PoolInv, BarrierCounts
  <2>2. state[u].bar[2] \in Nat
    <3>1. state[u].bar \in Nat \X Nat
      BY ThreadFacts DEF PoolInv
    <3> QED
      BY <3>1
  <2> QED
    BY <1>5, <2>1, <2>2
<1>7. \A u \in Thread \ {t} : /\ Noticed(u)' <=> Noticed(u)
                              /\ ~Waiting(u)'
                              /\ Released(u)' <=> state[u].pc = "spin"
                              /\ AtEnd(u)' <=> state[u].pc = "spin" /\ state[u].at = End
  BY <1>1, <1>3, <1>6 DEF Noticed, Waiting, Released, AtEnd
<1>8. /\ Noticed(t)'
      /\ ~Waiting(t)'
      /\ ~Released(t)'
      /\ ~AtEnd(t)'
  BY <1>1, <1>2, <1>3 DEF Noticed, Waiting, Released, AtEnd, KeepsRest
<1>9. \A u \in Members \ {t} : state[u].pc = "spin" /\ state[u].at # End /\ state[u].pc \in Inside
  BY <1>2 DEF Waiting, Inside
<1>10. \A u \in Thread \ Members : state[u].pc \in Inside => state[u].pc = "spin" /\ state[u].at = End
  BY <1>2 DEF AtEnd, Released
<1>11. 0 \in Members
  BY <1>2 DEF PoolInv, GraphHasMembers
<1>12. ~Over'
  <2>1. CASE t = 0
    BY <1>3, <1>8, <2>1, AtRestApart DEF Over
  <2>2. CASE t # 0
    BY <1>0, <1>3, <1>7, <1>9, <1>11, <2>2, AtRestApart DEF Over
  <2> QED
    BY <2>1, <2>2
<1>13. Counted'
  <2>1. state'[0].pc # "kick"
    BY <1>0, <1>3, <1>12 DEF Over, AtRest
  <2>2. \A u \in Worker : state'[u].last_graph = state[u].last_graph
    BY <1>0, <1>3 DEF KeepsRest
  <2> QED
    BY <1>1, <2>1, <2>2 DEF PoolInv, Counted
<1>14. RestIsQuiet'
  BY <1>12 DEF RestIsQuiet
<1>15. GraphHasMembers'
  <2>1. state'[t].cgraph = g /\ state'[t].nth = tp.n_graph[2]
    BY <1>2, <1>3 DEF KeepsRest
  <2>2. state'[0].nth = tp'.n_graph[2]
    BY <1>0, <1>1, <1>2, <1>3, <2>1 DEF PoolInv, GraphHasMembers
  <2>3. ASSUME NEW u \in Worker
        PROVE  IF u \in Members' /\ Noticed(u)'
               THEN state'[u].pc \in Inside /\ ~AtEnd(u)'
               ELSE state'[u].pc \in Inside => AtEnd(u)'
    <3>1. CASE u = t
      BY <1>2, <1>3, <1>4, <1>8, <3>1
    <3>2. CASE u # t /\ u \in Members
      BY <1>0, <1>2, <1>3, <1>4, <1>7, <1>9, <3>2
    <3>3. CASE u # t /\ u \notin Members
      BY <1>0, <1>3, <1>4, <1>7, <1>10, <3>3
    <3> QED
      BY <3>1, <3>2, <3>3
  <2>4. \A u \in Members : state'[u].cgraph = g /\ state'[u].nth = tp.n_graph[2]
    BY <1>2, <1>3, <2>1
  <2> QED
    BY <1>1, <1>2, <1>4, <1>11, <2>2, <2>3, <2>4 DEF GraphHasMembers
<1>16. Crowd' = {}
  BY <1>7, <1>8 DEF Crowd
<1>17. \A u \in Thread : state'[u].pc \notin {"enter", "last", "release"}
  <2> TAKE u \in Thread
  <2>1. CASE u = t
    BY <1>3, <2>1
  <2>2. CASE u # t /\ u \in Members
    BY <1>3, <1>9, <2>2
  <2>3. CASE u # t /\ u \notin Members
    BY <1>3, <1>10, <2>3 DEF Inside
  <2> QED
    BY <2>1, <2>2, <2>3
<1>18. BarrierCounts'
  <2>1. tp.n_barrier = 0
    BY <1>1 DEF PoolInv, BarrierCounts
  <2>2. Cardinality(Crowd') = 0
    BY <1>16, FS_EmptySet
  <2>3. \A u \in Thread : state'[u].pc = "spin" => state'[u].bar[2] <= tp'.n_barrier_passed
    BY <1>1, <1>3, <1>6
  <2>4. \A u \in Thread : ~Waiting(u)'
    BY <1>7, <1>8
  <2> QED
    BY <1>1, <1>17, <2>1, <2>2, <2>3, <2>4 DEF BarrierCounts
<1>19. OnTheWay'
  <2> DEFINE r == Behind(g, b)
             a == tp.abort
  <2>1. PlaceOf(t)' = p
    <3>1. state'[t].pc \notin {"signal", "begin"}
      BY <1>3, AtRestApart
    <3> QED
      BY <1>8, <3>1 DEF PlaceOf
  <2>2. \A u \in Members \ {t} : PlaceOf(u)' = r
    <3> TAKE u \in Members \ {t}
    <3>1. state'[u].pc = "spin" /\ Released(u)' /\ Noticed(u)' /\ state'[u].at = b
      BY <1>2, <1>3, <1>7, <1>9
    <3> QED
      BY <1>1, <3>1 DEF PlaceOf
  <2>3. a \in Nat /\ a \in 0 .. Len(g) + 1
    BY <1>2 DEF PoolInv, OnTheWay, PoolShape, PoolRecord
  <2>4. Agree(g, a, r, r) /\ Agree(g, a, p, p)
    BY <1>2, <1>3, <2>3, AgreeSelf
  <2>5. Both(g, a, p, r)
    BY <1>3, <2>3, <2>4 DEF Both
  <2>6. \A u \in Members : WellAt(u, g, state'[u].pc, state'[u].at)
    <3> TAKE u \in Members
    <3>1. CASE u = t
      BY <1>3, <3>1
    <3>2. CASE u # t
      BY <1>2, <1>3, <1>9, <3>2 DEF WellAt
    <3> QED
      BY <3>1, <3>2
  <2>7. tp'.abort = a /\ tp'.cgraph = g
    BY <1>1
  <2> HIDE DEF p, r, a, g
  <2>8. \A u, v \in Members : Agree(g, a, PlaceOf(u)', PlaceOf(v)')
    BY <2>1, <2>2, <2>4, <2>5 DEF Both
  <2>9. \A u \in Members : PlaceOf(u)' \in Places(g)
    BY <1>3, <2>1, <2>2 DEF r
  <2> QED
    BY <1>4, <2>3, <2>6, <2>7, <2>8, <2>9 DEF OnTheWay
<1> QED
  BY <1>1, <1>3, <1>13, <1>14, <1>15, <1>18, <1>19 DEF PoolInv

\* The barrier opens at the end of the graph.
LEMMA FinishKeeps ==
  ASSUME PoolInv, PoolShape', NEW t \in Members, t \in Thread, ~Over, Noticed(t),
         state[t].at = End,
         Past(t), tp'.n_graph = tp.n_graph, tp'.n_barrier = 0,
         state[t].pc # "spin",
         \A u \in Members \ {t} : u \in Thread /\ Noticed(u) /\ state[u].pc = "spin"
                                   /\ state[u].at = End,
         \A u \in Thread \ Members : state[u].pc \in Inside => AtEnd(u),
         \A u \in Thread \ {t} : state[u].pc = "spin" =>
           state[u].bar[2] # tp'.n_barrier_passed /\ state[u].bar[2] <= tp'.n_barrier_passed
  PROVE  PoolInv'
<1>0. 0 \in Thread /\ Worker = Thread \ {0}
  BY PoolAssumption DEF Thread, Worker
<1> DEFINE out == IF t = 0 THEN "idle" ELSE "loop"
<1>13. state[t].at[1] = 0 /\ ThreadShape
  BY DEF End, PoolInv
<1>1. ThreadShape' /\ KeepsRest(t) /\ Becomes(t, out, state[t].at, state[t].chunk)
  BY <1>13, PastEffect
<1>2. out \notin Inside /\ out # "kick" /\ (t = 0 => out \in AtRest)
  BY DEF Inside, AtRest
<1>3. /\ \A u \in Thread \ {t} : state'[u] = state[u]
      /\ state'[t].pc = out /\ state'[t].last_graph = state[t].last_graph
  BY <1>1 DEF Becomes, KeepsRest
<1> HIDE DEF out
<1>4. Members' = Members
  BY DEF Members
<1>5. \A u \in Thread \ {t} : /\ Noticed(u)' <=> Noticed(u)
                              /\ ~Waiting(u)'
                              /\ AtEnd(u)' <=> state[u].pc = "spin" /\ state[u].at = End
  BY <1>3 DEF Noticed, Waiting, AtEnd, Released
<1>6. ~Waiting(t)' /\ state'[t].pc # "spin"
  BY <1>2, <1>3 DEF Waiting, Inside
<1>7. \A u \in Thread \ {t} : state[u].pc \in Inside => state[u].pc = "spin" /\ state[u].at = End
  BY DEF AtEnd, Released
<1>8. 0 \in Members
  BY DEF PoolInv, GraphHasMembers
<1>9. Over'
  <2>1. CASE t = 0
    BY <1>2, <1>3, <2>1 DEF Over
  <2>2. CASE t # 0
    BY <1>0, <1>5, <1>8, <2>2 DEF Over
  <2> QED
    BY <2>1, <2>2
<1>10. Counted'
  <2>1. state'[0].pc # "kick"
    <3>1. CASE t = 0
      BY <1>2, <1>3, <3>1
    <3>2. CASE t # 0
      BY <1>0, <1>3, <1>8, <3>2
    <3> QED
      BY <3>1, <3>2
  <2>2. \A u \in Worker : state'[u].last_graph = state[u].last_graph
    BY <1>0, <1>3
  <2> QED
    BY <2>1, <2>2 DEF PoolInv, Counted
<1>11. RestIsQuiet'
  <2>1. Noticed(t)'
    BY <1>3 DEF Noticed
  <2> QED
    BY <1>0, <1>2, <1>3, <1>4, <1>5, <1>7, <2>1 DEF RestIsQuiet
<1>12. BarrierCounts'
  <2>1. Crowd' = {}
    BY <1>5, <1>6 DEF Crowd
  <2>2. Cardinality(Crowd') = 0
    BY <2>1, FS_EmptySet
  <2>3. \A u \in Thread : /\ state'[u].pc \notin {"enter", "last", "release"}
                          /\ ~Waiting(u)'
                          /\ state'[u].pc = "spin" => state'[u].bar[2] <= tp'.n_barrier_passed
    <3> TAKE u \in Thread
    <3>1. CASE u = t
      BY <1>2, <1>3, <1>6, <3>1 DEF Inside
    <3>2. CASE u # t
      BY <1>3, <1>5, <1>7, <3>2 DEF Inside
    <3> QED
      BY <3>1, <3>2
  <2> QED
    BY <2>2, <2>3 DEF BarrierCounts
<1> QED
  BY <1>1, <1>9, <1>10, <1>11, <1>12 DEF PoolInv, GraphHasMembers, OnTheWay

LEMMA BarrierReleaseKeeps ==
  ASSUME PoolInv, NEW t \in Thread, BarrierRelease(t)
  PROVE  PoolInv'
<1>1. CASE state[t].at # End
  BY <1>1, OpenKeeps
<1>2. CASE state[t].at = End
  <2>1. /\ PoolShape' /\ Past(t) /\ state[t].pc = "release"
        /\ tp'.n_graph = tp.n_graph
        /\ tp'.n_barrier_passed = tp.n_barrier_passed + 1
        /\ tp'.n_barrier = tp.n_barrier
    BY BarrierReleaseEffect DEF BarrierRelease, PoolInv, Shape
  <2>2. /\ ~Over /\ t \in Members /\ Noticed(t) /\ Members \subseteq Thread
        /\ \A u \in Members \ {t} : Waiting(u) /\ Noticed(u) /\ state[u].at = End
        /\ \A u \in Thread \ Members : state[u].pc \in Inside => AtEnd(u)
    BY <1>2, <2>1, AllWait
  <2>3. tp'.n_barrier = 0
    BY <2>1 DEF PoolInv, BarrierCounts
  <2>4. ASSUME NEW u \in Thread, state[u].pc = "spin"
        PROVE  /\ state[u].bar[2] # tp'.n_barrier_passed
               /\ state[u].bar[2] <= tp'.n_barrier_passed
    <3>1. state[u].bar[2] <= tp.n_barrier_passed
      BY <2>4 DEF PoolInv, BarrierCounts
    <3>2. state[u].bar \in Nat \X Nat /\ tp.n_barrier_passed \in Nat
      BY ThreadFacts DEF PoolInv, PoolShape, PoolRecord
    <3>3. state[u].bar[2] \in Nat
      BY <3>2
    <3> QED
      BY <2>1, <3>1, <3>2, <3>3
  <2>5. \A u \in Members \ {t} : u \in Thread /\ Noticed(u) /\ state[u].pc = "spin"
                                  /\ state[u].at = End
    BY <2>2 DEF Waiting
  <2> QED
    BY <1>2, <2>1, <2>2, <2>3, <2>4, <2>5, FinishKeeps
<1> QED
  BY <1>1, <1>2

LEMMA BarrierReadKeeps ==
  ASSUME PoolInv, NEW t \in Thread, BarrierRead(t)
  PROVE  PoolInv'
<1>1. /\ state[t].pc = "barrier" /\ tp' = tp /\ PoolShape' /\ PoolKeeps
      /\ tp'.n_barrier = tp.n_barrier /\ tp'.abort = tp.abort
  BY DEF BarrierRead, PoolInv, PoolShape, PoolKeeps
<1>2. /\ tp.cgraph \in Seq(Seq(Nat)) /\ t \in Members /\ ~Over
      /\ state[t].cgraph = tp.cgraph /\ state[t].nth = tp.n_graph[2]
      /\ PlaceOf(t) = PlaceAt("barrier", state[t].at) /\ PlaceOf(t) \in Places(tp.cgraph)
      /\ state[t].pc \in Inside /\ ~AtEnd(t)
  BY <1>1, LocalPlace
<1>3. ~Waiting(t) /\ ~Released(t) /\ Noticed(t)
  BY <1>1, <1>2, InGraph DEF Waiting, Released
<1>4. /\ tp.n_graph[2] \in Nat /\ tp.n_graph[2] >= 1
      /\ \A u \in Thread : u \in Nat
  BY <1>2, PoolAssumption DEF Members, Thread, PoolInv, PoolShape, PoolRecord
<1>5. CASE tp.n_graph[2] # 1
  <2>1. /\ Shape'
        /\ Becomes(t, "enter", state[t].at, state[t].chunk)
        /\ state'[t].last_graph = state[t].last_graph /\ state'[t].cgraph = state[t].cgraph
        /\ state'[t].nth = state[t].nth
        /\ state'[t].bar = <<tp.n_graph[2], tp.n_barrier_passed>>
    BY <1>5, BarrierReadEffect DEF PoolInv, Shape
  <2>2. LocalMove(t)
    BY <1>1, <1>2, <1>3, <1>4, <1>5, <2>1 DEF LocalMove, Becomes, Inside
  <2>3. Arrives(t, PlaceOf(t))
    BY <1>1, <1>2, ArriveSame
  <2>4. PlaceOf(t) = PlaceAt("enter", state[t].at)
    BY <1>2 DEF PlaceAt
  <2>5. WellAt(t, tp.cgraph, "enter", state[t].at)
    BY DEF WellAt
  <2> QED
    BY <2>1, <2>2, <2>3, <2>4, <2>5, LocalKeeps DEF Becomes
<1>6. CASE tp.n_graph[2] = 1
  <2>1. Past(t)
    BY <1>6 DEF BarrierRead
  <2>2. Members = {t}
    BY <1>2, <1>6 DEF Members
  <2>3. CASE state[t].at = End
    <3>1. \A u \in Thread \ Members : state[u].pc \in Inside => AtEnd(u)
      BY InGraph
    <3>2. \A u \in Thread \ {t} : state[u].pc = "spin" => AtEnd(u)
      BY <2>2, <3>1 DEF Inside
    <3>3. \A u \in Thread \ {t} : state[u].pc = "spin" =>
            state[u].bar[2] # tp'.n_barrier_passed /\ state[u].bar[2] <= tp'.n_barrier_passed
      BY <1>1, <3>2 DEF AtEnd, Released, PoolInv, BarrierCounts
    <3>4. tp'.n_barrier = 0
      <4>1. state[t].pc \in Inside \ {"last", "release"}
        BY <1>1, <1>2
      <4>2. tp.n_barrier = Cardinality(Crowd) /\ Crowd \subseteq Members \ {t}
        BY <1>2, <1>3, <4>1, NobodyCloses, CrowdFacts
      <4>3. Crowd = {}
        BY <2>2, <4>2
      <4> QED
        BY <1>1, <4>2, <4>3, FS_EmptySet
    <3> QED
      BY <1>1, <1>2, <1>3, <2>1, <2>2, <2>3, <3>1, <3>3, <3>4, FinishKeeps
  <2>4. CASE state[t].at # End
    <3> DEFINE p == PlaceAt(state'[t].pc, state'[t].at)
    <3>1. Place("barrier", state[t].at) \in Places(tp.cgraph)
      BY <1>2 DEF PlaceAt
    <3>2. /\ ThreadShape' /\ KeepsRest(t)
          /\ \A u \in Thread \ {t} : state'[u] = state[u]
          /\ state'[t].pc \in Inside \ {"begin", "enter", "last", "release", "spin"}
          /\ p \in Places(tp.cgraph)
          /\ WellAt(t, tp.cgraph, state'[t].pc, state'[t].at)
      BY <1>2, <2>1, <2>4, <3>1, PastPlace DEF PoolInv, Shape
    <3>3. LocalMove(t)
      BY <1>1, <1>2, <1>3, <3>2 DEF LocalMove, KeepsRest
    <3>4. Arrives(t, p)
      BY <1>1, <1>2, <2>2, <3>2, InPlace DEF Arrives
    <3> QED
      BY <1>1, <3>2, <3>3, <3>4, LocalKeeps DEF Shape
  <2> QED
    BY <2>3, <2>4
<1> QED
  BY <1>5, <1>6

LEMMA BarrierLeaveKeeps ==
  ASSUME PoolInv, NEW t \in Thread, BarrierLeave(t)
  PROVE  PoolInv'
<1>0. 0 \in Thread /\ Worker = Thread \ {0}
  BY PoolAssumption DEF Thread, Worker
<1>1. /\ Released(t) /\ ~Waiting(t) /\ Past(t) /\ tp' = tp /\ PoolKeeps /\ PoolShape'
      /\ state[t].pc = "spin" /\ state[t].pc \in Inside
      /\ tp'.n_barrier = tp.n_barrier /\ tp'.abort = tp.abort
  BY DEF BarrierLeave, Released, Waiting, PoolKeeps, PoolInv, PoolShape, Inside
<1>2. CASE state[t].at # End
  <2> DEFINE p == PlaceAt(state'[t].pc, state'[t].at)
             g == tp.cgraph
  <2>1. ~AtEnd(t)
    BY <1>2 DEF AtEnd
  <2>2. /\ g \in Seq(Seq(Nat)) /\ state[t].cgraph = g /\ state[t].nth = tp.n_graph[2]
    BY <1>1, <2>1, InGraph
  <2>3. PlaceOf(t) = Behind(g, state[t].at) /\ Place("barrier", state[t].at) \in Places(g)
        /\ tp.abort \in Nat
    BY <1>1, <2>1, InPlace DEF WellAt
  <2>4. /\ ThreadShape' /\ KeepsRest(t)
        /\ \A u \in Thread \ {t} : state'[u] = state[u]
        /\ state'[t].pc \in Inside \ {"begin", "enter", "last", "release", "spin"}
        /\ p \in Places(g)
        /\ WellAt(t, g, state'[t].pc, state'[t].at)
        /\ \A a \in Nat, q \in Places(g) : Both(g, a, Behind(g, state[t].at), q) => Both(g, a, p, q)
    BY <1>1, <1>2, <2>2, <2>3, PastPlace DEF PoolInv, Shape
  <2>5. LocalMove(t)
    BY <1>1, <2>1, <2>2, <2>4 DEF LocalMove, KeepsRest
  <2>6. Arrives(t, p)
    BY <1>1, <2>1, <2>3, <2>4, ArriveOn
  <2> QED
    BY <1>1, <2>4, <2>5, <2>6, LocalKeeps DEF Shape
<1>3. CASE state[t].at = End
  <2> DEFINE out == IF t = 0 THEN "idle" ELSE "loop"
  <2>0. state[t].at[1] = 0 /\ ThreadShape
    BY <1>3 DEF End, PoolInv
  <2>1. ThreadShape' /\ KeepsRest(t) /\ Becomes(t, out, state[t].at, state[t].chunk)
    BY <1>1, <2>0, PastEffect
  <2>2. out \notin Inside /\ out # "kick" /\ (t = 0 => out \in AtRest)
    BY DEF Inside, AtRest
  <2>3. /\ \A u \in Thread \ {t} : state'[u] = state[u]
        /\ state'[t].pc = out /\ state'[t].last_graph = state[t].last_graph
    BY <2>1 DEF Becomes, KeepsRest
  <2> HIDE DEF out
  <2>4. AtEnd(t)
    BY <1>1, <1>3 DEF AtEnd
  <2>5. Members' = Members /\ Members \subseteq Thread
    BY <1>1, PoolAssumption DEF Members, Thread, PoolInv, PoolShape, PoolRecord
  <2>6. \A u \in Thread \ {t} : /\ Noticed(u)' <=> Noticed(u)
                                /\ Waiting(u)' <=> Waiting(u)
                                /\ Released(u)' <=> Released(u)
                                /\ AtEnd(u)' <=> AtEnd(u)
                                /\ PlaceOf(u)' = PlaceOf(u)
    BY <1>1, <2>3 DEF Noticed, Waiting, AtEnd, Released, PlaceOf
  <2>7. /\ Noticed(t)' <=> Noticed(t)
        /\ ~Waiting(t)'
        /\ state'[t].pc \notin {"spin", "enter", "last", "release"}
    BY <1>1, <2>2, <2>3 DEF Noticed, Waiting, Inside
  <2>8. Over' <=> Over
    <3>1. CASE t = 0
      BY <2>2, <2>3, <2>4, <3>1 DEF Over
    <3>2. CASE t # 0
      BY <1>0, <2>3, <2>6, <3>2 DEF Over
    <3> QED
      BY <3>1, <3>2
  <2>9. ~Over => t # 0 /\ (t \in Members => ~Noticed(t))
    <3> SUFFICES ASSUME ~Over PROVE t # 0 /\ (t \in Members => ~Noticed(t))
      OBVIOUS
    <3>1. t # 0
      BY <2>4 DEF Over
    <3> QED
      BY <1>0, <2>4, <3>1 DEF PoolInv, GraphHasMembers
  <2>10. Counted'
    <3>1. state'[0].pc = "kick" => state[0].pc = "kick" /\ state'[0] = state[0]
      BY <1>0, <2>2, <2>3
    <3>2. \A u \in Worker : state'[u].last_graph = state[u].last_graph
      BY <1>0, <2>3
    <3>3. done' = done
      BY DEF BarrierLeave
    <3> QED
      BY <1>1, <3>1, <3>2, <3>3 DEF PoolInv, Counted
  <2>11. RestIsQuiet'
    BY <1>0, <2>2, <2>3, <2>5, <2>6, <2>7, <2>8 DEF PoolInv, RestIsQuiet
  <2>12. GraphHasMembers'
    <3> SUFFICES ASSUME ~Over PROVE GraphHasMembers'
      BY <2>8 DEF GraphHasMembers
    <3>1. state'[0] = state[0] /\ t # 0
      BY <1>0, <2>3, <2>9
    <3>2. \A u \in Worker :
            IF u \in Members /\ Noticed(u)'
            THEN state'[u].pc \in Inside /\ ~AtEnd(u)'
            ELSE state'[u].pc \in Inside => AtEnd(u)'
      BY <1>0, <2>2, <2>3, <2>6, <2>7, <2>9 DEF PoolInv, GraphHasMembers
    <3>3. \A u \in Members : state'[u].pc \in Inside \ {"begin"} /\ Noticed(u)' =>
            state'[u].cgraph = tp.cgraph /\ state'[u].nth = tp.n_graph[2]
      BY <2>2, <2>3, <2>5, <2>6 DEF PoolInv, GraphHasMembers
    <3> QED
      BY <1>1, <2>5, <3>1, <3>2, <3>3 DEF PoolInv, GraphHasMembers
  <2>13. BarrierCounts'
    <3>1. Crowd' = Crowd
      BY <1>1, <2>6, <2>7 DEF Crowd
    <3> QED
      BY <1>1, <2>3, <2>5, <2>6, <2>7, <3>1 DEF PoolInv, BarrierCounts
  <2>14. OnTheWay'
    <3> SUFFICES ASSUME ~Over PROVE OnTheWay'
      BY <2>8 DEF OnTheWay
    <3>1. \A u \in Members : PlaceOf(u)' = PlaceOf(u)
      <4> TAKE u \in Members
      <4>1. CASE u = t
        BY <2>7, <2>9, <4>1 DEF PlaceOf
      <4>2. CASE u # t
        BY <2>5, <2>6, <4>2
      <4> QED
        BY <4>1, <4>2
    <3>2. \A u \in Members : Noticed(u)' => WellAt(u, tp.cgraph, state'[u].pc, state'[u].at)
      BY <2>3, <2>5, <2>6, <2>7, <2>9 DEF PoolInv, OnTheWay
    <3> QED
      BY <1>1, <2>5, <3>1, <3>2 DEF PoolInv, OnTheWay
  <2> QED
    BY <1>1, <2>1, <2>10, <2>11, <2>12, <2>13, <2>14 DEF PoolInv
<1> QED
  BY <1>2, <1>3

-----------------------------------------------------------------------------
(* Nobody computes between two graphs                                      *)

LEMMA ComputeStepKeeps ==
  ASSUME PoolInv, NEW t \in Thread, ComputeStep(t)
  PROVE  PoolInv'
BY BeginKeeps, NextNodeKeeps, SetChunkKeeps, WorkKeeps, ClaimKeeps, NodeDoneKeeps,
   BarrierReadKeeps, BarrierEnterKeeps, BarrierResetKeeps, BarrierReleaseKeeps,
   BarrierLeaveKeeps DEF ComputeStep

LEMMA WorkerShape ==
  ASSUME Shape, NEW t \in Worker,
         Loop(t) \/ PauseWait(t) \/ Poll(t) \/ CheckForWork(t) \/ SpuriousWakeup(t)
  PROVE  Shape'
<1>1. t \in Thread /\ t # 0 /\ ThreadShape
  BY DEF Worker, Shape
<1>2. PoolShape'
  BY DEF Loop, PauseWait, Poll, CheckForWork, SpuriousWakeup, Shape, PoolShape
<1>3. {"loop", "stop?", "pause", "paused", "poll", "polled", "lock", "asleep", "exited"}
        \subseteq WorkerPcs
  BY PcSets
<1>4. \/ \E pc \in WorkerPcs : Goto(t, pc)
      \/ \E pc \in WorkerPcs : NoteGraph(t, pc)
  BY <1>3 DEF Loop, PauseWait, Poll, CheckForWork, SpuriousWakeup
<1>5. ThreadShape'
  BY <1>1, <1>4, GotoEffect, NoteEffect DEF PcsOf
<1> QED
  BY <1>2, <1>5 DEF Shape

LEMMA PoolInvNext == PoolInv /\ [Next]_vars => PoolInv'
<1> SUFFICES ASSUME PoolInv, [Next]_vars PROVE PoolInv'
  OBVIOUS
<1>0. Shape /\ 0 \in Thread
  BY PoolAssumption DEF PoolInv, Shape, Thread
<1>1. CASE Calls
  <2>1. Shape'
    BY <1>0, <1>1, ShapeCaller
  <2> QED
    BY <1>1, <2>1, ComputeKeeps, CallerKeeps DEF Calls
<1>2. CASE Kick \/ KickSignal \/ FreeSignal \/ FreeJoin \/ Finished
  <2>1. Shape'
    BY <1>0, <1>2, ShapeCaller
  <2> QED
    BY <1>2, <2>1, KickKeeps, CallerKeeps
<1>3. CASE \E t \in Thread : ComputeStep(t)
  BY <1>3, ComputeStepKeeps
<1>4. CASE \E t \in Worker :
             Loop(t) \/ PauseWait(t) \/ Poll(t) \/ CheckForWork(t) \/ SpuriousWakeup(t)
  <2> PICK t \in Worker :
             Loop(t) \/ PauseWait(t) \/ Poll(t) \/ CheckForWork(t) \/ SpuriousWakeup(t)
    BY <1>4
  <2>1. Shape'
    BY <1>0, WorkerShape
  <2>2. CASE state'[t].pc # "begin"
    BY <2>1, <2>2, WorkerKeeps
  <2>3. CASE state'[t].pc = "begin"
    <3>1. Poll(t) \/ CheckForWork(t)
      <4> SUFFICES ASSUME Loop(t) \/ PauseWait(t) \/ SpuriousWakeup(t) PROVE FALSE
        OBVIOUS
      <4>1. PICK pc \in {"loop", "stop?", "pause", "paused", "exited", "poll", "lock"} : Goto(t, pc)
        BY DEF Loop, PauseWait, SpuriousWakeup
      <4>2. Becomes(t, pc, state[t].at, state[t].chunk)
        BY <1>0, <4>1, PcSets, GotoEffect DEF Shape, PcsOf, Worker
      <4> QED
        BY <2>3, <4>2 DEF Becomes
    <3> QED
      BY <2>1, <2>3, <3>1, NoticeKeeps
  <2> QED
    BY <2>2, <2>3
<1>5. CASE UNCHANGED vars
  <2>1. tp' = tp /\ state' = state /\ done' = done
    BY <1>5 DEF vars
  <2>2. Shape'
    BY <1>0, <2>1 DEF Shape, PoolShape, ThreadShape
  <2>3. Outer
    BY <2>1 DEF Outer, PoolStays, PoolKeeps
  <2> QED
    BY <2>2, <2>3, OuterKeeps
<1> QED
  BY <1>0, <1>1, <1>2, <1>3, <1>4, <1>5 DEF Next, InCall, WorkerStep, Worker

\* The invariant holds of the pool at all times.
THEOREM PoolCorrect == Spec => []PoolInv
<1>1. Init => PoolInv
  BY PoolInvInit
<1>2. PoolInv /\ [Next]_vars => PoolInv'
  BY PoolInvNext
<1> QED
  BY <1>1, <1>2, PTL DEF Spec

LEMMA PoolInvTypes == PoolInv => TypeOK
<1> SUFFICES ASSUME PoolInv PROVE TypeOK
  OBVIOUS
<1>1. tp \in PoolRecord /\ NThreads \in Nat /\ MaxGraphs \in Nat
  BY PoolAssumption DEF PoolInv, PoolShape
<1>2. tp.n_graph \in (0 .. MaxGraphs) \X (0 .. NThreads)
  <2>1. tp.n_graph \in Nat \X (0 .. NThreads) /\ tp.n_graph[1] <= MaxGraphs
    BY <1>1 DEF PoolInv, Counted, PoolRecord
  <2>2. tp.n_graph = <<tp.n_graph[1], tp.n_graph[2]>> /\ tp.n_graph[1] \in 0 .. MaxGraphs
        /\ tp.n_graph[2] \in 0 .. NThreads
    BY <1>1, <2>1
  <2> QED
    BY <2>2
<1>3. tp.n_barrier \in 0 .. NThreads
  <2>1. tp.n_graph[2] \in 0 .. NThreads /\ tp.n_barrier \in Nat
    BY <1>1 DEF PoolRecord
  <2>2. CASE \E t \in Thread : state[t].pc \in {"last", "release"}
    BY <1>1, <2>1, <2>2 DEF PoolInv, BarrierCounts
  <2>3. CASE \A t \in Thread : state[t].pc \notin {"last", "release"}
    <3>1. tp.n_barrier = Cardinality(Crowd) /\ Crowd \subseteq Thread
      BY <2>3 DEF PoolInv, BarrierCounts, Crowd
    <3>2. IsFiniteSet(Thread) /\ Cardinality(Thread) = NThreads
      <4>1. NThreads - 1 \in Int /\ 0 \in Int /\ NThreads >= 1
        BY PoolAssumption
      <4>2. IsFiniteSet(Thread)
            /\ Cardinality(Thread) = IF 0 > NThreads - 1 THEN 0 ELSE NThreads - 1 - 0 + 1
        BY <4>1, FS_Interval DEF Thread
      <4>3. (IF 0 > NThreads - 1 THEN 0 ELSE NThreads - 1 - 0 + 1) = NThreads
        BY <1>1, <4>1
      <4> QED
        BY <4>2, <4>3
    <3>3. Cardinality(Crowd) <= NThreads
      BY <3>1, <3>2, FS_Subset
    <3> QED
      BY <1>1, <2>1, <3>1, <3>3
  <2> QED
    BY <2>2, <2>3
<1>4. /\ tp.cgraph \in Graphs \cup {<<>>}
      /\ tp.n_barrier_passed \in Nat /\ tp.current_chunk \in Nat /\ tp.abort \in Nat
      /\ tp.ec \in {"success", "aborted"}
  BY <1>1 DEF PoolRecord
<1>5. {tp.stop, tp.pause, tp.mutex} \subseteq BOOLEAN
  <2>1. tp.stop \in BOOLEAN /\ tp.pause \in BOOLEAN /\ tp.mutex \in BOOLEAN
    BY <1>1 DEF PoolRecord
  <2> QED
    BY <2>1, Zenon
<1>6. ASSUME NEW t \in Thread
      PROVE  /\ state[t].pc \in
                  {"begin", "node", "set", "work", "claim", "node_done", "barrier",
                   "enter", "last", "release", "spin"}
                  \cup (IF t = 0 THEN {"idle", "kick", "signal", "stop", "join", "freed"}
                        ELSE {"loop", "stop?", "pause", "paused", "poll", "polled",
                              "lock", "asleep", "exited"})
             /\ state[t].nth \in 0 .. NThreads
  <2>1. state[t].nth \in 0 .. NThreads
    BY ThreadFacts DEF PoolInv
  <2>2. CASE t = 0
    <3>1. state[0].pc \in CallerPcs
      BY DEF PoolInv, ThreadShape
    <3> QED
      BY <2>1, <2>2, <3>1 DEF CallerPcs, Inside, AtRest
  <2>3. CASE t # 0
    <3>1. state[t].pc \in WorkerPcs
      BY <2>3 DEF PoolInv, ThreadShape, Worker
    <3> QED
      BY <2>1, <2>3, <3>1 DEF WorkerPcs, Inside
  <2> QED
    BY <2>2, <2>3
<1> QED
  BY <1>2, <1>3, <1>4, <1>5, <1>6 DEF TypeOK

\* The pool has its type, and nobody is inside the computation from the end of
\* a graph until the next kickoff.
THEOREM QuietAtResetHolds == Spec => []QuietAtReset
<1>1. PoolInv => QuietAtReset
  <2> SUFFICES ASSUME PoolInv PROVE QuietAtReset
    OBVIOUS
  <2>1. TypeOK
    BY PoolInvTypes
  <2>2. ASSUME state[0].pc \in {"idle", "kick", "stop", "join", "freed"}, NEW t \in Worker,
               Computing(t)
        PROVE  FALSE
    <3>1. Over
      BY <2>2 DEF Over, AtRest
    <3>2. state[t].pc \in Inside
      BY <2>2 DEF Computing, Inside
    <3>3. AtEnd(t)
      BY <3>1, <3>2 DEF PoolInv, RestIsQuiet
    <3> QED
      BY <2>2, <3>3 DEF Computing, AtEnd, Released, End
  <2> QED
    BY <2>1, <2>2 DEF QuietAtReset
<1> QED
  BY <1>1, PoolCorrect, PTL

-----------------------------------------------------------------------------
(* From here on: what the threads compute.  Every part once, its inputs    *)
(* first, and what ggml_graph_compute promises its caller (GraphContract). *)

-----------------------------------------------------------------------------
(* The ledger of a graph g for n threads: begun[t] is the stages thread t  *)
(* has begun, working[t] the part it computes now (if any), open is the    *)
(* stages whose chunks are being handed out, chunk the next one.           *)

ClaimedStage(g, y) == g[y[1]][y[2]] # Contract!Slices

Ledger(g, n, begun, working, open, parts, chunk) ==
  /\ parts \subseteq Contract!AllParts(g, n)
  /\ \A t \in 0 .. n - 1 : \A p \in working[t] :
       /\ p \in Contract!AllParts(g, n) \ parts
       /\ p[1] \in begun[t]
       /\ p[2] = t \/ p[2] \in n .. chunk - 1
       /\ \A u \in (0 .. n - 1) \ {t} : p \notin working[u]
  /\ \A y \in Contract!Stages(g), t \in 0 .. n - 1 :
       y \notin begun[t] => <<y, t>> \notin parts
  /\ \A p \in parts : p[2] >= n =>
       /\ \E t \in 0 .. n - 1 : p[1] \in begun[t]
       /\ p[1] \in open => p[2] < chunk
  /\ \A p \in Contract!AllParts(g, n) \ parts :
       \/ \E t \in 0 .. n - 1 : p \in working[t]
       \/ p[2] < n /\ p[1] \notin begun[p[2]]
       \/ p[2] >= n /\ p[1] \in open /\ p[2] >= chunk
       \/ p[2] >= n /\ p[1] \notin open /\ \A t \in 0 .. n - 1 : p[1] \notin begun[t]
  /\ \A y \in open : ClaimedStage(g, y) =>
       /\ chunk >= n
       /\ (\A t \in 0 .. n - 1 : y \notin begun[t]) => chunk = n

-----------------------------------------------------------------------------
(* What of it the threads' places say.                                     *)

\* the last node that is computed
LastNode(g, a) == IF a \in 1 .. Len(g) THEN a - 1 ELSE Len(g)

\* A thread at the place p has the stage y behind it.
Beyond(g, a, p, y) ==
  IF p.kind = "search" THEN y[1] < p.at[1]
  ELSE IF p.at = End THEN y[1] <= LastNode(g, a)
  ELSE Contract!Before(y, p.at) \/ (p.kind = "barrier" /\ y = p.at)

\* The abort is ahead of p.
InTime(a, p) ==
  \/ a = 0 \/ p.at = End
  \/ p.at[1] < a
  \/ p.kind = "search" /\ p.at[1] = a

OnStage(t) == state[t].pc \in {"work", "claim", "node_done"}
Begun(t) == {y \in Contract!Stages(tp.cgraph) :
               Beyond(tp.cgraph, tp.abort, PlaceOf(t), y) \/ (OnStage(t) /\ state[t].at = y)}
Working(t) == IF state[t].pc = "work" THEN {<<state[t].at, state[t].chunk>>} ELSE {}
OpenTo(t) == IF PlaceOf(t).kind = "stage" /\ state[t].pc # "node_done"
             THEN {PlaceOf(t).at} ELSE {}
Opened == UNION {OpenTo(t) : t \in Members}

PartsLedger ==
  Ledger(tp.cgraph, tp.n_graph[2], [t \in Members |-> Begun(t)],
         [t \in Members |-> Working(t)], Opened, done, tp.current_chunk)

\* Thread 0 sets current_chunk before it enters the barrier in front of a stage
\* whose chunks are claimed.
ChunkIsSet ==
  /\ state[0].pc = "set" => ClaimedStage(tp.cgraph, Behind(tp.cgraph, state[0].at).at)
  /\ /\ state[0].pc \in {"barrier", "enter", "last", "release", "spin"} /\ ~Released(0)
     /\ state[0].at # End /\ Behind(tp.cgraph, state[0].at).kind = "stage"
     /\ ClaimedStage(tp.cgraph, Behind(tp.cgraph, state[0].at).at)
     => tp.current_chunk = tp.n_graph[2]

Aborts ==
  /\ tp.abort # 1 /\ tp.ec = IF tp.abort = 0 THEN "success" ELSE "aborted"
  /\ \A t \in Members : InTime(tp.abort, PlaceOf(t))

\* What the caller is going to return.
Result ==
  \/ tp.ec = "success" /\ done = Contract!AllParts(tp.cgraph, state[0].nth)
  \/ tp.ec = "aborted" /\ done \in Contract!WholeNodes(tp.cgraph, state[0].nth)

PartsInv ==
  /\ state[0].pc = "kick" => tp.ec = "success"
  /\ AtEnd(0) => Result
  /\ ~Over => Aborts /\ ChunkIsSet /\ PartsLedger

-----------------------------------------------------------------------------
(* The ledger                                                              *)

LEMMA PartFacts ==
  ASSUME NEW g \in Seq(Seq(Nat)), NEW n \in Nat, NEW stages \in SUBSET Contract!Stages(g), NEW p
  PROVE  /\ p \in Contract!PartsOf(g, n, stages) <=>
              /\ p = <<p[1], p[2]>> /\ p[1] \in stages
              /\ p[2] \in 0 .. Contract!Width(g[p[1][1]][p[1][2]], n) - 1
         /\ p \in Contract!AllParts(g, n) <=>
              /\ p = <<p[1], p[2]>> /\ p[1] \in Contract!Stages(g)
              /\ p[2] \in 0 .. Contract!Width(g[p[1][1]][p[1][2]], n) - 1
BY DEF Contract!PartsOf, Contract!AllParts

LEMMA WidthFacts ==
  ASSUME NEW g \in Seq(Seq(Nat)), NEW n \in Nat, NEW y \in Contract!Stages(g)
  PROVE  /\ g[y[1]][y[2]] \in Nat /\ Contract!Width(g[y[1]][y[2]], n) \in Nat
         /\ n > 0 => Contract!Width(g[y[1]][y[2]], n) > 0
         /\ ~ClaimedStage(g, y) => Contract!Width(g[y[1]][y[2]], n) = n
<1>1. y[1] \in 1 .. Len(g) /\ y[2] \in 1 .. Len(g[y[1]])
  BY StageFacts
<1>2. g[y[1]] \in Seq(Nat)
  BY <1>1
<1>3. g[y[1]][y[2]] \in Nat
  BY <1>1, <1>2
<1> QED
  BY <1>3 DEF Contract!Width, Contract!Slices, ClaimedStage

LEMMA AllPartFacts ==
  ASSUME NEW g \in Seq(Seq(Nat)), NEW n \in Nat, NEW p \in Contract!AllParts(g, n)
  PROVE  /\ p = <<p[1], p[2]>> /\ p[1] \in Contract!Stages(g) /\ p[2] \in Nat
         /\ p[2] < Contract!Width(g[p[1][1]][p[1][2]], n)
         /\ ~ClaimedStage(g, p[1]) => p[2] < n
<1>1. /\ p = <<p[1], p[2]>> /\ p[1] \in Contract!Stages(g)
      /\ p[2] \in 0 .. Contract!Width(g[p[1][1]][p[1][2]], n) - 1
  BY PartFacts
<1>2. /\ Contract!Width(g[p[1][1]][p[1][2]], n) \in Nat
      /\ ~ClaimedStage(g, p[1]) => Contract!Width(g[p[1][1]][p[1][2]], n) = n
  BY <1>1, WidthFacts
<1> QED
  BY <1>1, <1>2

LEMMA IsPart ==
  ASSUME NEW g \in Seq(Seq(Nat)), NEW n \in Nat, NEW y \in Contract!Stages(g), NEW c \in Nat,
         c < Contract!Width(g[y[1]][y[2]], n)
  PROVE  <<y, c>> \in Contract!AllParts(g, n)
<1> DEFINE p == <<y, c>>
<1>1. p[1] = y /\ p[2] = c /\ p = <<p[1], p[2]>>
  OBVIOUS
<1> HIDE DEF p
<1>2. p[2] \in 0 .. Contract!Width(g[p[1][1]][p[1][2]], n) - 1
  BY <1>1, WidthFacts
<1>3. p \in Contract!AllParts(g, n)
  BY <1>1, <1>2, PartFacts
<1> QED
  BY <1>3 DEF p

\* Nothing is begun.
LEMMA LedgerBegins ==
  ASSUME NEW g \in Seq(Seq(Nat)), NEW n \in Nat, NEW begun, NEW working, NEW chunk,
         \A t \in 0 .. n - 1 : begun[t] = {} /\ working[t] = {}
  PROVE  Ledger(g, n, begun, working, {}, {}, chunk)
<1>1. \A p \in Contract!AllParts(g, n) : p[2] \in Nat
  BY AllPartFacts
<1> QED
  BY <1>1 DEF Ledger

\* A stage is opened.  One whose chunks are claimed nobody has begun.
LEMMA LedgerOpens ==
  ASSUME NEW g \in Seq(Seq(Nat)), NEW n \in Nat, NEW begun, NEW working, NEW open, NEW parts,
         NEW chunk \in Nat, Ledger(g, n, begun, working, open, parts, chunk),
         NEW y \in Contract!Stages(g),
         ClaimedStage(g, y) => chunk = n /\ \A t \in 0 .. n - 1 : y \notin begun[t]
  PROVE  Ledger(g, n, begun, working, open \cup {y}, parts, chunk)
<1>1. \A p \in Contract!AllParts(g, n) : p[2] \in Nat
  BY AllPartFacts
<1>2. \A p \in Contract!AllParts(g, n) : ~ClaimedStage(g, p[1]) => p[2] < n
  BY AllPartFacts
<1>3. parts \subseteq Contract!AllParts(g, n)
  BY DEF Ledger
<1>4. \A p \in parts : p[2] >= n =>
        /\ \E t \in 0 .. n - 1 : p[1] \in begun[t]
        /\ p[1] \in open \cup {y} => p[2] < chunk
  BY <1>1, <1>2, <1>3 DEF Ledger
<1>5. ASSUME NEW p \in Contract!AllParts(g, n) \ parts
      PROVE  \/ \E t \in 0 .. n - 1 : p \in working[t]
             \/ p[2] < n /\ p[1] \notin begun[p[2]]
             \/ p[2] >= n /\ p[1] \in open \cup {y} /\ p[2] >= chunk
             \/ p[2] >= n /\ p[1] \notin open \cup {y} /\ \A t \in 0 .. n - 1 : p[1] \notin begun[t]
  <2>1. CASE p[1] # y
    BY <1>5, <2>1 DEF Ledger
  <2>2. CASE p[1] = y
    <3>1. \/ \E t \in 0 .. n - 1 : p \in working[t]
          \/ p[2] < n /\ p[1] \notin begun[p[2]]
          \/ p[2] >= n
      BY <1>5 DEF Ledger
    <3>2. CASE p[2] >= n
      <4>1. ClaimedStage(g, y)
        BY <1>1, <1>2, <1>5, <2>2, <3>2
      <4> QED
        BY <2>2, <3>2, <4>1
    <3> QED
      BY <3>1, <3>2
  <2> QED
    BY <2>1, <2>2
<1>6. \A z \in open \cup {y} : ClaimedStage(g, z) =>
        /\ chunk >= n
        /\ (\A t \in 0 .. n - 1 : z \notin begun[t]) => chunk = n
  BY DEF Ledger
<1> QED
  BY <1>3, <1>4, <1>5, <1>6 DEF Ledger

\* Thread t begins the open stage y; when it has no part of it, it may be the last to leave.
Starts(g, n, t, y, begun, working, open, begunNow, workingNow, openNow) ==
  /\ y \in Contract!Stages(g) /\ y \in open /\ y \notin begun[t] /\ working[t] = {}
  /\ \A u \in (0 .. n - 1) \ {t} : begunNow[u] = begun[u] /\ workingNow[u] = working[u]
  /\ begunNow[t] = begun[t] \cup {y}
  /\ openNow \subseteq open /\ open \ openNow \subseteq {y}
  /\ IF t < Contract!Width(g[y[1]][y[2]], n)
     THEN workingNow[t] = {<<y, t>>} /\ openNow = open
     ELSE workingNow[t] = {}

LEMMA LedgerStarts ==
  ASSUME NEW g \in Seq(Seq(Nat)), NEW n \in Nat, NEW begun, NEW working, NEW open, NEW parts,
         NEW chunk \in Nat, Ledger(g, n, begun, working, open, parts, chunk),
         NEW t \in 0 .. n - 1, NEW y, NEW begunNow, NEW workingNow, NEW openNow,
         Starts(g, n, t, y, begun, working, open, begunNow, workingNow, openNow)
  PROVE  Ledger(g, n, begunNow, workingNow, openNow, parts, chunk)
<1>0. /\ y \in Contract!Stages(g) /\ y \in open /\ y \notin begun[t] /\ working[t] = {}
      /\ \A u \in (0 .. n - 1) \ {t} : begunNow[u] = begun[u] /\ workingNow[u] = working[u]
      /\ begunNow[t] = begun[t] \cup {y}
      /\ openNow \subseteq open /\ open \ openNow \subseteq {y}
      /\ IF t < Contract!Width(g[y[1]][y[2]], n)
         THEN workingNow[t] = {<<y, t>>} /\ openNow = open
         ELSE workingNow[t] = {}
  BY DEF Starts
<1> USE <1>0
<1> DEFINE w == Contract!Width(g[y[1]][y[2]], n)
           All == Contract!AllParts(g, n)
<1>1. \A p \in All : /\ p = <<p[1], p[2]>> /\ p[1] \in Contract!Stages(g) /\ p[2] \in Nat
                     /\ p[1] = y => p[2] < w
  BY AllPartFacts
<1>2. w \in Nat
  BY WidthFacts
<1>3. t < w => <<y, t>> \in All
  BY IsPart
<1>4. \A p \in workingNow[t] : p = <<y, t>> /\ t < w
  OBVIOUS
<1>5. <<y, t>>[1] = y /\ <<y, t>>[2] = t
  OBVIOUS
<1>6. parts \subseteq All
  BY DEF Ledger
<1> HIDE DEF w, All
<1>7. ASSUME NEW u \in 0 .. n - 1, NEW p \in workingNow[u]
      PROVE  /\ p \in All \ parts
             /\ p[1] \in begunNow[u]
             /\ p[2] = u \/ p[2] \in n .. chunk - 1
             /\ \A v \in (0 .. n - 1) \ {u} : p \notin workingNow[v]
  <2>1. CASE u = t
    <3>1. p = <<y, t>> /\ t < w
      BY <1>4, <1>7, <2>1
    <3>2. <<y, t>> \notin parts
      BY DEF Ledger
    <3>3. ASSUME NEW v \in (0 .. n - 1) \ {t}, p \in working[v]
          PROVE  FALSE
      <4>1. p[2] = v \/ p[2] \in n .. chunk - 1
        BY <3>3 DEF Ledger
      <4> QED
        BY <1>5, <3>1, <3>3, <4>1
    <3> QED
      BY <1>3, <1>5, <2>1, <3>1, <3>2, <3>3
  <2>2. CASE u # t
    <3>1. p \in working[u] /\ begunNow[u] = begun[u]
      BY <1>7, <2>2
    <3>2. /\ p \in All \ parts /\ p[1] \in begun[u]
          /\ p[2] = u \/ p[2] \in n .. chunk - 1
          /\ \A v \in (0 .. n - 1) \ {u} : p \notin working[v]
      BY <3>1 DEF Ledger, All
    <3>3. p \notin workingNow[t]
      BY <1>4, <1>5, <2>2, <3>2
    <3> QED
      BY <3>1, <3>2, <3>3
  <2> QED
    BY <2>1, <2>2
<1>8. \A z \in Contract!Stages(g), u \in 0 .. n - 1 : z \notin begunNow[u] => <<z, u>> \notin parts
  <2>1. \A u \in 0 .. n - 1 : begun[u] \subseteq begunNow[u]
    OBVIOUS
  <2> QED
    BY <2>1 DEF Ledger
<1>9. \A p \in parts : p[2] >= n =>
        /\ \E u \in 0 .. n - 1 : p[1] \in begunNow[u]
        /\ p[1] \in openNow => p[2] < chunk
  <2>1. \A u \in 0 .. n - 1 : begun[u] \subseteq begunNow[u]
    OBVIOUS
  <2> QED
    BY <2>1 DEF Ledger
<1>10. ASSUME NEW p \in All \ parts
       PROVE  \/ \E u \in 0 .. n - 1 : p \in workingNow[u]
              \/ p[2] < n /\ p[1] \notin begunNow[p[2]]
              \/ p[2] >= n /\ p[1] \in openNow /\ p[2] >= chunk
              \/ p[2] >= n /\ p[1] \notin openNow /\ \A u \in 0 .. n - 1 : p[1] \notin begunNow[u]
  <2>1. CASE \E u \in 0 .. n - 1 : p \in working[u]
    <3> PICK u \in 0 .. n - 1 : p \in working[u]
      BY <2>1
    <3>1. u # t
      OBVIOUS
    <3> QED
      BY <3>1
  <2>2. CASE p[2] < n /\ p[1] \notin begun[p[2]]
    <3>1. p[2] \in 0 .. n - 1
      BY <1>1, <1>10, <2>2
    <3>2. CASE p[2] = t /\ p[1] = y
      <4>1. p = <<y, t>> /\ t < w
        BY <1>1, <1>10, <3>2
      <4> QED
        BY <4>1 DEF w
    <3>3. CASE ~(p[2] = t /\ p[1] = y)
      BY <2>2, <3>1, <3>3
    <3> QED
      BY <3>2, <3>3
  <2>3. ASSUME p[1] = y, p[2] >= n
        PROVE  openNow = open
    <3>1. t < w
      BY <1>1, <1>2, <1>10, <2>3
    <3> QED
      BY <3>1 DEF w
  <2>4. CASE p[2] >= n /\ p[1] \in open /\ p[2] >= chunk
    BY <2>3, <2>4
  <2>5. CASE p[2] >= n /\ p[1] \notin open /\ \A u \in 0 .. n - 1 : p[1] \notin begun[u]
    BY <2>5
  <2> QED
    BY <1>10, <2>1, <2>2, <2>4, <2>5 DEF Ledger, All
<1>11. \A z \in openNow : ClaimedStage(g, z) =>
         /\ chunk >= n
         /\ (\A u \in 0 .. n - 1 : z \notin begunNow[u]) => chunk = n
  <2>1. \A u \in 0 .. n - 1 : begun[u] \subseteq begunNow[u]
    OBVIOUS
  <2> QED
    BY <2>1 DEF Ledger
<1> QED
  BY <1>6, <1>7, <1>8, <1>9, <1>10, <1>11 DEF Ledger, All

\* Thread t has computed the part p of the stage y.  It may be the last to leave a stage
\* that has no part for anybody else.
Computes(g, n, t, p, working, open, workingNow, openNow) ==
  /\ working[t] = {p} /\ workingNow[t] = {}
  /\ \A u \in (0 .. n - 1) \ {t} : workingNow[u] = working[u]
  /\ openNow \subseteq open /\ open \ openNow \subseteq {p[1]}
  /\ openNow # open => Contract!Width(g[p[1][1]][p[1][2]], n) <= n

LEMMA LedgerComputes ==
  ASSUME NEW g \in Seq(Seq(Nat)), NEW n \in Nat, NEW begun, NEW working, NEW open, NEW parts,
         NEW chunk \in Nat, Ledger(g, n, begun, working, open, parts, chunk),
         NEW t \in 0 .. n - 1, NEW p, NEW workingNow, NEW openNow,
         Computes(g, n, t, p, working, open, workingNow, openNow)
  PROVE  /\ Ledger(g, n, begun, workingNow, openNow, parts \cup {p}, chunk)
         /\ p \in Contract!AllParts(g, n) \ parts
<1>0. /\ working[t] = {p} /\ workingNow[t] = {}
      /\ \A u \in (0 .. n - 1) \ {t} : workingNow[u] = working[u]
      /\ openNow \subseteq open /\ open \ openNow \subseteq {p[1]}
      /\ openNow # open => Contract!Width(g[p[1][1]][p[1][2]], n) <= n
  BY DEF Computes
<1> USE <1>0
<1> DEFINE All == Contract!AllParts(g, n)
<1>1. \A q \in All : /\ q = <<q[1], q[2]>> /\ q[1] \in Contract!Stages(g) /\ q[2] \in Nat
                     /\ q[2] < Contract!Width(g[q[1][1]][q[1][2]], n)
                     /\ Contract!Width(g[q[1][1]][q[1][2]], n) \in Nat
  BY AllPartFacts, WidthFacts
<1>2. /\ p \in All \ parts /\ p[1] \in begun[t]
      /\ p[2] = t \/ p[2] \in n .. chunk - 1
      /\ \A u \in (0 .. n - 1) \ {t} : p \notin working[u]
  BY DEF Ledger
<1>3. openNow # open => \A q \in All : q[1] = p[1] => q[2] < n
  BY <1>1, <1>2
<1>4. parts \subseteq All
  BY DEF Ledger
<1> HIDE DEF All
<1>5. ASSUME NEW u \in 0 .. n - 1, NEW q \in workingNow[u]
      PROVE  /\ q \in All \ (parts \cup {p})
             /\ q[1] \in begun[u]
             /\ q[2] = u \/ q[2] \in n .. chunk - 1
             /\ \A v \in (0 .. n - 1) \ {u} : q \notin workingNow[v]
  <2>1. u # t /\ q \in working[u]
    BY <1>5
  <2>2. /\ q \in All \ parts /\ q[1] \in begun[u]
        /\ q[2] = u \/ q[2] \in n .. chunk - 1
        /\ \A v \in (0 .. n - 1) \ {u} : q \notin working[v]
    BY <2>1 DEF Ledger, All
  <2>3. q # p
    BY <1>2, <2>1
  <2> QED
    BY <2>1, <2>2, <2>3
<1>6. \A z \in Contract!Stages(g), u \in 0 .. n - 1 :
        z \notin begun[u] => <<z, u>> \notin parts \cup {p}
  <2> SUFFICES ASSUME NEW z \in Contract!Stages(g), NEW u \in 0 .. n - 1, z \notin begun[u]
               PROVE  <<z, u>> \notin parts \cup {p}
    OBVIOUS
  <2>1. <<z, u>> \notin parts
    BY DEF Ledger
  <2>2. <<z, u>> # p
    BY <1>2
  <2> QED
    BY <2>1, <2>2
<1>7. \A q \in parts \cup {p} : q[2] >= n =>
        /\ \E u \in 0 .. n - 1 : q[1] \in begun[u]
        /\ q[1] \in openNow => q[2] < chunk
  <2>1. \A q \in parts : q[2] >= n =>
          /\ \E u \in 0 .. n - 1 : q[1] \in begun[u]
          /\ q[1] \in openNow => q[2] < chunk
    BY DEF Ledger
  <2>2. p[2] >= n => p[2] < chunk
    BY <1>2
  <2> QED
    BY <1>2, <2>1, <2>2
<1>8. ASSUME NEW q \in All \ (parts \cup {p})
      PROVE  \/ \E u \in 0 .. n - 1 : q \in workingNow[u]
             \/ q[2] < n /\ q[1] \notin begun[q[2]]
             \/ q[2] >= n /\ q[1] \in openNow /\ q[2] >= chunk
             \/ q[2] >= n /\ q[1] \notin openNow /\ \A u \in 0 .. n - 1 : q[1] \notin begun[u]
  <2>1. CASE \E u \in 0 .. n - 1 : q \in working[u]
    <3> PICK u \in 0 .. n - 1 : q \in working[u]
      BY <2>1
    <3>1. u # t
      BY <1>8
    <3> QED
      BY <3>1
  <2>2. q[1] = p[1] /\ q[2] >= n => openNow = open
    BY <1>1, <1>3, <1>8
  <2>3. \/ \E u \in 0 .. n - 1 : q \in working[u]
        \/ q[2] < n /\ q[1] \notin begun[q[2]]
        \/ q[2] >= n /\ q[1] \in open /\ q[2] >= chunk
        \/ q[2] >= n /\ q[1] \notin open /\ \A u \in 0 .. n - 1 : q[1] \notin begun[u]
    BY <1>8 DEF Ledger, All
  <2> QED
    BY <2>1, <2>2, <2>3
<1>9. \A z \in openNow : ClaimedStage(g, z) =>
        /\ chunk >= n
        /\ (\A u \in 0 .. n - 1 : z \notin begun[u]) => chunk = n
  BY DEF Ledger
<1> QED
  BY <1>2, <1>4, <1>5, <1>6, <1>7, <1>8, <1>9 DEF Ledger, All

\* Thread t claims the next chunk of y, the only open stage.  When there is none, it may be
\* the last to leave.
Claims(g, n, t, y, chunk, begun, working, open, workingNow, openNow) ==
  /\ y \in Contract!Stages(g) /\ y \in begun[t] /\ open = {y} /\ openNow \subseteq open
  /\ ClaimedStage(g, y) /\ working[t] = {}
  /\ \A u \in (0 .. n - 1) \ {t} : workingNow[u] = working[u]
  /\ IF chunk < Contract!Width(g[y[1]][y[2]], n)
     THEN workingNow[t] = {<<y, chunk>>} /\ openNow = open
     ELSE workingNow[t] = {}

LEMMA LedgerClaims ==
  ASSUME NEW g \in Seq(Seq(Nat)), NEW n \in Nat, NEW begun, NEW working, NEW open, NEW parts,
         NEW chunk \in Nat, Ledger(g, n, begun, working, open, parts, chunk),
         NEW t \in 0 .. n - 1, NEW y, NEW workingNow, NEW openNow,
         Claims(g, n, t, y, chunk, begun, working, open, workingNow, openNow)
  PROVE  Ledger(g, n, begun, workingNow, openNow, parts, chunk + 1)
<1>0. /\ y \in Contract!Stages(g) /\ y \in begun[t] /\ open = {y} /\ openNow \subseteq open
      /\ ClaimedStage(g, y) /\ working[t] = {}
      /\ \A u \in (0 .. n - 1) \ {t} : workingNow[u] = working[u]
      /\ IF chunk < Contract!Width(g[y[1]][y[2]], n)
         THEN workingNow[t] = {<<y, chunk>>} /\ openNow = open
         ELSE workingNow[t] = {}
  BY DEF Claims
<1> USE <1>0
<1> DEFINE w == Contract!Width(g[y[1]][y[2]], n)
           All == Contract!AllParts(g, n)
<1>1. \A q \in All : /\ q = <<q[1], q[2]>> /\ q[1] \in Contract!Stages(g) /\ q[2] \in Nat
                     /\ q[1] = y => q[2] < w
  BY AllPartFacts
<1>2. w \in Nat
  BY WidthFacts
<1>3. chunk < w => <<y, chunk>> \in All
  BY IsPart
<1>4. chunk >= n
  BY DEF Ledger
<1>5. <<y, chunk>>[1] = y /\ <<y, chunk>>[2] = chunk
  OBVIOUS
<1>6. parts \subseteq All
  BY DEF Ledger
<1>7. <<y, chunk>> \notin parts
  <2> SUFFICES ASSUME NEW p \in parts, p = <<y, chunk>>
               PROVE  FALSE
    OBVIOUS
  <2>1. p[1] \in open /\ p[2] = chunk /\ chunk >= n
    BY <1>4, <1>5
  <2>2. p[2] >= n /\ p[1] \in open => p[2] < chunk
    BY DEF Ledger
  <2> QED
    BY <2>1, <2>2
<1>8. \A p \in workingNow[t] : p = <<y, chunk>> /\ chunk < w
  OBVIOUS
<1> HIDE DEF w, All
<1>9. \A u \in 0 .. n - 1 : \A p \in working[u] :
        /\ p \in All \ parts /\ p[1] \in begun[u]
        /\ p[2] = u \/ p[2] \in n .. chunk - 1
        /\ \A v \in (0 .. n - 1) \ {u} : p \notin working[v]
  BY DEF Ledger, All
<1>10. ASSUME NEW u \in 0 .. n - 1, NEW p \in workingNow[u]
       PROVE  /\ p \in All \ parts
              /\ p[1] \in begun[u]
              /\ p[2] = u \/ p[2] \in n .. (chunk + 1) - 1
              /\ \A v \in (0 .. n - 1) \ {u} : p \notin workingNow[v]
  <2>1. ASSUME NEW v \in 0 .. n - 1, NEW q \in working[v]
        PROVE  q # <<y, chunk>> /\ (q[2] = v \/ q[2] \in n .. (chunk + 1) - 1)
    <3>1. q[2] = v \/ q[2] \in n .. chunk - 1
      BY <1>9
    <3>2. q[2] # chunk
      BY <1>4, <3>1
    <3>3. q[2] = v \/ q[2] \in n .. (chunk + 1) - 1
      BY <3>1
    <3> QED
      BY <1>5, <3>2, <3>3
  <2>2. CASE u = t
    <3>1. p = <<y, chunk>> /\ chunk < w
      BY <1>8, <1>10, <2>2
    <3>2. chunk \in n .. (chunk + 1) - 1
      BY <1>4
    <3>3. \A v \in (0 .. n - 1) \ {t} : p \notin workingNow[v]
      BY <2>1, <3>1
    <3> QED
      BY <1>3, <1>5, <1>7, <2>2, <3>1, <3>2, <3>3
  <2>3. CASE u # t
    <3>1. p \in working[u]
      BY <1>10, <2>3
    <3>2. p \notin workingNow[t]
      BY <1>8, <2>1, <3>1
    <3>3. \A v \in (0 .. n - 1) \ {u} : p \notin workingNow[v]
      BY <1>9, <3>1, <3>2
    <3> QED
      BY <1>9, <2>1, <3>1, <3>3
  <2> QED
    BY <2>2, <2>3
<1>11. \A z \in Contract!Stages(g), u \in 0 .. n - 1 : z \notin begun[u] => <<z, u>> \notin parts
  BY DEF Ledger
<1>12. \A p \in parts : p[2] >= n =>
         /\ \E u \in 0 .. n - 1 : p[1] \in begun[u]
         /\ p[1] \in openNow => p[2] < chunk + 1
  <2> SUFFICES ASSUME NEW p \in parts, p[2] >= n
               PROVE  /\ \E u \in 0 .. n - 1 : p[1] \in begun[u]
                      /\ p[1] \in openNow => p[2] < chunk + 1
    OBVIOUS
  <2>1. /\ \E u \in 0 .. n - 1 : p[1] \in begun[u]
        /\ p[1] \in open => p[2] < chunk
    BY DEF Ledger
  <2>2. p[2] \in Nat
    BY <1>1, <1>6
  <2>3. p[1] \in open => p[2] < chunk + 1
    BY <2>1, <2>2
  <2> QED
    BY <2>1, <2>3
<1>13. ASSUME NEW p \in All \ parts
       PROVE  \/ \E u \in 0 .. n - 1 : p \in workingNow[u]
              \/ p[2] < n /\ p[1] \notin begun[p[2]]
              \/ p[2] >= n /\ p[1] \in openNow /\ p[2] >= chunk + 1
              \/ p[2] >= n /\ p[1] \notin openNow /\ \A u \in 0 .. n - 1 : p[1] \notin begun[u]
  <2>1. CASE \E u \in 0 .. n - 1 : p \in working[u]
    <3> PICK u \in 0 .. n - 1 : p \in working[u]
      BY <2>1
    <3>1. u # t
      OBVIOUS
    <3> QED
      BY <3>1
  <2>2. CASE p[2] >= n /\ p[1] \in open /\ p[2] >= chunk
    <3>1. p[1] = y /\ p[2] < w /\ p[2] \in Nat /\ p = <<p[1], p[2]>>
      BY <1>1, <1>13, <2>2
    <3>2. chunk < w
      BY <1>2, <2>2, <3>1
    <3>3. workingNow[t] = {<<y, chunk>>} /\ openNow = open
      BY <3>2 DEF w
    <3>4. CASE p[2] = chunk
      <4>1. p \in workingNow[t]
        BY <3>1, <3>3, <3>4
      <4> QED
        BY <4>1
    <3>5. CASE p[2] # chunk
      <4> HIDE <1>0
      <4> DEFINE c == p[2]
      <4>1. c \in Nat /\ c >= chunk /\ c # chunk
        BY <2>2, <3>1, <3>5
      <4> HIDE DEF c
      <4>2. c >= chunk + 1
        BY <4>1
      <4> QED
        BY <2>2, <3>3, <4>2 DEF c
    <3> QED
      BY <3>4, <3>5
  <2>3. CASE p[2] < n /\ p[1] \notin begun[p[2]]
    BY <2>3
  <2>4. CASE p[2] >= n /\ p[1] \notin open /\ \A u \in 0 .. n - 1 : p[1] \notin begun[u]
    BY <2>4
  <2> QED
    BY <1>13, <2>1, <2>2, <2>3, <2>4 DEF Ledger, All
<1>14. \A z \in openNow : ClaimedStage(g, z) =>
         /\ chunk + 1 >= n
         /\ (\A u \in 0 .. n - 1 : z \notin begun[u]) => chunk + 1 = n
  BY <1>4
<1> QED
  BY <1>6, <1>10, <1>11, <1>12, <1>13, <1>14 DEF Ledger, All

\* Thread 0 sets the counter for the next stage: no stage is open that uses it.
LEMMA LedgerSets ==
  ASSUME NEW g \in Seq(Seq(Nat)), NEW n \in Nat, NEW begun, NEW working, NEW open, NEW parts,
         NEW chunk \in Nat, Ledger(g, n, begun, working, open, parts, chunk),
         open \subseteq Contract!Stages(g), \A y \in open : ~ClaimedStage(g, y),
         \A t \in 0 .. n - 1 : \A p \in working[t] : p[1] \in open
  PROVE  Ledger(g, n, begun, working, open, parts, n)
<1>1. \A p \in Contract!AllParts(g, n) : p[2] \in Nat /\ (p[1] \in open => p[2] < n)
  BY AllPartFacts
<1>2. parts \subseteq Contract!AllParts(g, n)
  BY DEF Ledger
<1>3. ASSUME NEW t \in 0 .. n - 1, NEW p \in working[t]
      PROVE  /\ p \in Contract!AllParts(g, n) \ parts
             /\ p[1] \in begun[t] /\ p[2] = t
             /\ \A u \in (0 .. n - 1) \ {t} : p \notin working[u]
  <2>1. /\ p \in Contract!AllParts(g, n) \ parts /\ p[1] \in begun[t]
        /\ p[2] = t \/ p[2] \in n .. chunk - 1
        /\ \A u \in (0 .. n - 1) \ {t} : p \notin working[u]
    BY DEF Ledger
  <2>2. p[1] \in open
    OBVIOUS
  <2>3. p[2] \in Nat /\ p[2] < n
    BY <2>1, <2>2, AllPartFacts
  <2> QED
    BY <2>1, <2>3
<1>4. \A p \in parts : p[2] >= n =>
        /\ \E t \in 0 .. n - 1 : p[1] \in begun[t]
        /\ p[1] \in open => p[2] < n
  <2> SUFFICES ASSUME NEW p \in parts, p[2] >= n
               PROVE  /\ \E t \in 0 .. n - 1 : p[1] \in begun[t]
                      /\ p[1] \in open => p[2] < n
    OBVIOUS
  <2>1. \E t \in 0 .. n - 1 : p[1] \in begun[t]
    BY DEF Ledger
  <2> QED
    BY <1>1, <1>2, <2>1
<1>5. \A p \in Contract!AllParts(g, n) \ parts :
        \/ \E t \in 0 .. n - 1 : p \in working[t]
        \/ p[2] < n /\ p[1] \notin begun[p[2]]
        \/ p[2] >= n /\ p[1] \in open /\ p[2] >= n
        \/ p[2] >= n /\ p[1] \notin open /\ \A t \in 0 .. n - 1 : p[1] \notin begun[t]
  BY DEF Ledger
<1> QED
  BY <1>2, <1>3, <1>4, <1>5 DEF Ledger

\* Stages that every thread has begun, that none works on and that are not open are done.
LeftBehind(n, begun, working, open, stages) ==
  /\ open \cap stages = {}
  /\ \A t \in 0 .. n - 1 : stages \subseteq begun[t]
  /\ \A t \in 0 .. n - 1 : \A p \in working[t] : p[1] \notin stages

LEMMA LedgerFull ==
  ASSUME NEW g \in Seq(Seq(Nat)), NEW n \in Nat, n > 0, NEW begun, NEW working, NEW open,
         NEW parts, NEW chunk \in Nat, Ledger(g, n, begun, working, open, parts, chunk),
         NEW stages \in SUBSET Contract!Stages(g), LeftBehind(n, begun, working, open, stages)
  PROVE  Contract!PartsOf(g, n, stages) \subseteq parts
<1> USE DEF LeftBehind
<1> SUFFICES ASSUME NEW p \in Contract!PartsOf(g, n, stages), p \notin parts
             PROVE  FALSE
  OBVIOUS
<1>1. p \in Contract!AllParts(g, n) /\ p[1] \in stages
  BY PartFacts
<1>2. p[2] \in Nat
  BY <1>1, AllPartFacts
<1>3. 0 \in 0 .. n - 1 /\ (p[2] < n => p[2] \in 0 .. n - 1)
  BY <1>2
<1>4. \/ \E t \in 0 .. n - 1 : p \in working[t]
      \/ p[2] < n /\ p[1] \notin begun[p[2]]
      \/ p[1] \in open
      \/ \A t \in 0 .. n - 1 : p[1] \notin begun[t]
  BY <1>1 DEF Ledger
<1> QED
  BY <1>1, <1>3, <1>4

\* ... and when these are all that was begun, nothing else is.
LEMMA LedgerTotal ==
  ASSUME NEW g \in Seq(Seq(Nat)), NEW n \in Nat, n > 0, NEW begun, NEW working,
         NEW parts, NEW chunk \in Nat, Ledger(g, n, begun, working, {}, parts, chunk),
         NEW stages \in SUBSET Contract!Stages(g),
         \A t \in 0 .. n - 1 : begun[t] = stages /\ working[t] = {}
  PROVE  parts = Contract!PartsOf(g, n, stages)
<1>0. LeftBehind(n, begun, working, {}, stages)
  BY DEF LeftBehind
<1>1. Contract!PartsOf(g, n, stages) \subseteq parts
  BY <1>0, LedgerFull
<1>2. ASSUME NEW p \in parts
      PROVE  p \in Contract!PartsOf(g, n, stages)
  <2>1. p \in Contract!AllParts(g, n)
    BY DEF Ledger
  <2>2. /\ p = <<p[1], p[2]>> /\ p[1] \in Contract!Stages(g) /\ p[2] \in Nat
        /\ p[2] \in 0 .. Contract!Width(g[p[1][1]][p[1][2]], n) - 1
    BY <2>1, AllPartFacts, PartFacts
  <2>3. CASE p[2] < n
    <3>1. p[2] \in 0 .. n - 1
      BY <2>2, <2>3
    <3>2. p[1] \notin begun[p[2]] => <<p[1], p[2]>> \notin parts
      BY <2>2, <3>1 DEF Ledger
    <3>3. p[1] \in stages
      BY <2>2, <3>1, <3>2
    <3> QED
      BY <2>2, <3>3, PartFacts
  <2>4. CASE p[2] >= n
    <3>1. \E t \in 0 .. n - 1 : p[1] \in begun[t]
      BY <2>4 DEF Ledger
    <3>2. p[1] \in stages
      BY <3>1
    <3> QED
      BY <2>2, <3>2, PartFacts
  <2> QED
    BY <2>2, <2>3, <2>4
<1> QED
  BY <1>1, <1>2

-----------------------------------------------------------------------------
(* Places and stages                                                       *)

\* A thread in the stage y tells of every other thread at q: the stages before y are
\* behind it, and it is in no other stage.
LEMMA StageSync ==
  ASSUME NEW g \in Seq(Seq(Nat)), NEW a \in Nat, NEW y \in Contract!Stages(g),
         NEW q \in Places(g), Both(g, a, Place("stage", y), q), InTime(a, Place("stage", y)),
         NEW z \in Contract!Stages(g), Contract!Before(z, y)
  PROVE  Beyond(g, a, q, z) /\ q # Place("stage", z)
<1> DEFINE p == Place("stage", y)
<1>1. p.kind = "stage" /\ p.at = y /\ \A x : Place("stage", x).at = x /\ Place("stage", x).kind = "stage"
  BY DEF Place
<1>2. /\ y = <<y[1], y[2]>> /\ y[1] \in 1 .. Len(g) /\ y[2] \in 1 .. Len(g[y[1]])
      /\ z = <<z[1], z[2]>> /\ z[1] \in 1 .. Len(g) /\ z[2] \in 1 .. Len(g[z[1]])
      /\ g[z[1]] # <<>> /\ y[1] \in Nat /\ y[2] \in Nat /\ z[1] \in Nat /\ z[2] \in Nat
  BY StageFacts
<1>3. y # z /\ z[1] <= y[1]
  <2>1. z[1] < y[1] \/ (z[1] = y[1] /\ z[2] < y[2])
    BY DEF Contract!Before
  <2>2. y # z
    BY <1>2, <2>1
  <2>3. z[1] <= y[1]
    BY <1>2, <2>1
  <2> QED
    BY <2>2, <2>3
<1>4. CASE q.kind = "search"
  <2>1. FindsStage(g, a, q.at[1], y)
    BY <1>1, <1>4 DEF Both, Agree
  <2>2. q.at[1] \in 1 .. Len(g) + 1
    BY <1>4, PlaceFacts
  <2>3. y[2] = 1 /\ \A k \in q.at[1] .. y[1] - 1 : g[k] = <<>>
    BY <2>1 DEF FindsStage, Finds, Skips
  <2>4. z[1] < y[1]
    BY <1>2, <2>3 DEF Contract!Before
  <2>6. z[1] \notin q.at[1] .. y[1] - 1
    BY <1>2, <2>3
  <2>7. q.at[1] \in Nat
    BY <2>2
  <2> DEFINE j == q.at[1]
  <2>8. j \in Nat /\ z[1] \notin j .. y[1] - 1
    BY <2>6, <2>7
  <2> HIDE DEF j
  <2>5. z[1] < j
    BY <1>2, <2>4, <2>8
  <2> QED
    BY <1>1, <1>4, <2>5 DEF Beyond, j
<1>5. CASE q.kind = "stage"
  <2>1. q.at = y
    BY <1>1, <1>5 DEF Both, Agree
  <2> QED
    BY <1>1, <1>2, <1>3, <1>5, <2>1 DEF Beyond, End
<1>6. CASE q.kind = "barrier"
  <2>1. q.at = BarrierOf(g, y)
    BY <1>1, <1>6 DEF Both, Agree
  <2>2. CASE q.at = End
    <3>1. y[1] = Len(g)
      BY <1>2, <2>1, <2>2 DEF BarrierOf, End
    <3>2. a = 0 \/ y[1] < a
      BY <1>1, <1>2 DEF InTime, End
    <3>3. LastNode(g, a) = Len(g)
      BY <1>2, <3>1, <3>2 DEF LastNode
    <3> QED
      BY <1>1, <1>2, <1>6, <2>2, <3>3 DEF Beyond
  <2>3. CASE q.at # End
    <3>1. q.at = y
      BY <2>1, <2>3 DEF BarrierOf
    <3> QED
      BY <1>1, <1>6, <2>3, <3>1 DEF Beyond
  <2> QED
    BY <2>2, <2>3
<1> QED
  BY <1>4, <1>5, <1>6, PlaceFacts

\* A search leaves no stage behind that it had not left before.
LEMMA BeyondSearch ==
  ASSUME NEW g \in Seq(Seq(Nat)), NEW a \in Nat, NEW i \in 1 .. Len(g) + 1,
         InTime(a, Search(i)), NEW p,
         \/ Skips(g, a, i) /\ p = Search(i + 1)
         \/ i <= Len(g) /\ a # i /\ p = Place("barrier", <<i, 0>>)
         \/ i <= Len(g) /\ a # i /\ p = Place("stage", <<i, 1>>)
         \/ (i > Len(g) \/ a = i) /\ p = Place("barrier", End)
  PROVE  /\ InTime(a, p)
         /\ \A z \in Contract!Stages(g) : Beyond(g, a, p, z) <=> Beyond(g, a, Search(i), z)
<1>1. \A k, x : Place(k, x).kind = k /\ Place(k, x).at = x
  BY DEF Place
<1>2. /\ Search(i).kind = "search" /\ Search(i).at = <<i, 0>> /\ <<i, 0>>[1] = i /\ <<i, 0>>[2] = 0
      /\ <<i, 1>>[1] = i /\ <<i, 1>>[2] = 1 /\ <<i, 0>> # End /\ <<i, 1>> # End
      /\ Search(i + 1).kind = "search" /\ Search(i + 1).at = <<i + 1, 0>>
      /\ <<i + 1, 0>>[1] = i + 1 /\ <<i + 1, 0>> # End
  BY <1>1 DEF Search, End
<1>3. a = 0 \/ i <= a
  BY <1>2 DEF InTime
<1>4. \A z \in Contract!Stages(g) :
        /\ z[1] \in 1 .. Len(g) /\ z[1] \in Nat /\ z[2] \in Nat /\ z[2] >= 1 /\ g[z[1]] # <<>>
        /\ z = <<z[1], z[2]>>
        /\ Beyond(g, a, Search(i), z) <=> z[1] < i
  BY <1>2, StageFacts DEF Beyond
<1>5. CASE Skips(g, a, i) /\ p = Search(i + 1)
  <2>1. g[i] = <<>> /\ a # i
    BY <1>5 DEF Skips
  <2>2. \A z \in Contract!Stages(g) : Beyond(g, a, p, z) <=> z[1] < i + 1
    BY <1>2, <1>5 DEF Beyond
  <2>3. \A z \in Contract!Stages(g) : z[1] # i
    BY <1>4, <2>1
  <2>4. InTime(a, p)
    BY <1>2, <1>3, <1>5, <2>1 DEF InTime
  <2>5. ASSUME NEW z \in Contract!Stages(g)
        PROVE  z[1] < i + 1 <=> z[1] < i
    <3>1. z[1] \in Nat /\ z[1] # i
      BY <1>4, <2>3
    <3> QED
      BY <3>1
  <2>6. \A z \in Contract!Stages(g) : Beyond(g, a, Search(i), z) <=> z[1] < i
    BY <1>4
  <2> QED
    BY <2>2, <2>4, <2>5, <2>6
<1>6. CASE i <= Len(g) /\ a # i /\ (p = Place("barrier", <<i, 0>>) \/ p = Place("stage", <<i, 1>>))
  <2>1. p.at[1] = i /\ p.at[2] \in {0, 1} /\ p.at # End /\ p.kind \in {"barrier", "stage"}
        /\ (p.kind = "barrier" => p.at[2] = 0)
    BY <1>1, <1>2, <1>6
  <2>2. InTime(a, p)
    BY <1>3, <1>6, <2>1 DEF InTime
  <2>3. ASSUME NEW z \in Contract!Stages(g)
        PROVE  Beyond(g, a, p, z) <=> z[1] < i
    <3>1. Contract!Before(z, p.at) <=> z[1] < i
      BY <1>4, <2>1 DEF Contract!Before
    <3>2. ~(p.kind = "barrier" /\ z = p.at)
      BY <1>4, <2>1
    <3> QED
      BY <2>1, <3>1, <3>2 DEF Beyond
  <2> QED
    BY <1>4, <2>2, <2>3
<1>7. CASE (i > Len(g) \/ a = i) /\ p = Place("barrier", End)
  <2>1. InTime(a, p)
    BY <1>1, <1>7 DEF InTime
  <2>2. \A z \in Contract!Stages(g) : Beyond(g, a, p, z) <=> z[1] <= LastNode(g, a)
    BY <1>1, <1>7 DEF Beyond
  <2>3. CASE a \in 1 .. Len(g)
    <3>1. a = i /\ LastNode(g, a) = i - 1
      BY <1>3, <1>7, <2>3 DEF LastNode
    <3> QED
      BY <1>4, <2>1, <2>2, <3>1
  <2>4. CASE a \notin 1 .. Len(g)
    <3>1. i = Len(g) + 1 /\ LastNode(g, a) = Len(g)
      BY <1>3, <1>7, <2>4 DEF LastNode
    <3> QED
      BY <1>4, <2>1, <2>2, <3>1
  <2> QED
    BY <2>3, <2>4
<1> QED
  BY <1>5, <1>6, <1>7

\* ... nor does passing a barrier.
LEMMA BeyondBehind ==
  ASSUME NEW g \in Seq(Seq(Nat)), NEW a \in Nat, NEW p \in Places(g), p.kind = "barrier",
         p.at # End, InTime(a, p)
  PROVE  /\ InTime(a, Behind(g, p.at))
         /\ \A z \in Contract!Stages(g) : Beyond(g, a, Behind(g, p.at), z) <=> Beyond(g, a, p, z)
<1> DEFINE i == p.at[1]
           s == p.at[2]
<1>1. i \in 1 .. Len(g) /\ s \in 0 .. Len(g[i])
  BY BehindIsPlace
<1>2. p.at = <<i, s>>
  BY <1>1, PlaceFacts, StageFacts
<1>3. a = 0 \/ i < a
  BY DEF InTime
<1>4. /\ Search(i + 1).kind = "search" /\ Search(i + 1).at[1] = i + 1
      /\ Place("stage", <<i, s + 1>>).kind = "stage" /\ Place("stage", <<i, s + 1>>).at[1] = i
      /\ Place("stage", <<i, s + 1>>).at[2] = s + 1 /\ Place("stage", <<i, s + 1>>).at # End
  BY <1>1 DEF Search, Place, End
<1>5. \A z \in Contract!Stages(g) :
        /\ z[1] \in Nat /\ z[2] \in Nat /\ z = <<z[1], z[2]>> /\ z[2] <= Len(g[z[1]])
        /\ Beyond(g, a, p, z) <=> z[1] < i \/ (z[1] = i /\ z[2] <= s)
  <2> SUFFICES ASSUME NEW z \in Contract!Stages(g)
               PROVE  /\ z[1] \in Nat /\ z[2] \in Nat /\ z = <<z[1], z[2]>> /\ z[2] <= Len(g[z[1]])
                      /\ Beyond(g, a, p, z) <=> z[1] < i \/ (z[1] = i /\ z[2] <= s)
    OBVIOUS
  <2>1. z[1] \in Nat /\ z[2] \in Nat /\ z = <<z[1], z[2]>> /\ z[2] <= Len(g[z[1]])
    BY StageFacts
  <2>2. Beyond(g, a, p, z) <=> Contract!Before(z, p.at) \/ z = p.at
    BY DEF Beyond
  <2>3. z = p.at <=> z[1] = i /\ z[2] = s
    BY <1>2, <2>1
  <2> HIDE DEF i, s
  <2>4. Contract!Before(z, p.at) <=> z[1] < i \/ (z[1] = i /\ z[2] < s)
    BY DEF Contract!Before, i, s
  <2>5. s \in Nat
    BY <1>1
  <2> QED
    BY <2>1, <2>2, <2>3, <2>4, <2>5
<1>6. CASE s = Len(g[i])
  <2>1. Behind(g, p.at) = Search(i + 1)
    BY <1>6 DEF Behind
  <2>3. \A z \in Contract!Stages(g) : Beyond(g, a, Search(i + 1), z) <=> z[1] < i + 1
    BY <1>4 DEF Beyond
  <2> HIDE DEF i, s
  <2>5. a = 0 \/ i + 1 < a \/ i + 1 = a
    BY <1>1, <1>3
  <2>2. InTime(a, Search(i + 1))
    BY <1>4, <2>5 DEF InTime
  <2>4. \A z \in Contract!Stages(g) : z[1] < i + 1 <=> z[1] < i \/ (z[1] = i /\ z[2] <= s)
    BY <1>1, <1>5, <1>6
  <2> QED
    BY <1>5, <2>1, <2>2, <2>3, <2>4
<1>7. CASE s # Len(g[i])
  <2>1. Behind(g, p.at) = Place("stage", <<i, s + 1>>)
    BY <1>7 DEF Behind
  <2>2. InTime(a, Place("stage", <<i, s + 1>>))
    BY <1>1, <1>3, <1>4 DEF InTime
  <2>3. \A z \in Contract!Stages(g) :
          Beyond(g, a, Place("stage", <<i, s + 1>>), z)
            <=> z[1] < i \/ (z[1] = i /\ z[2] < s + 1)
    BY <1>4 DEF Beyond, Contract!Before
  <2> HIDE DEF i, s
  <2>4. \A z \in Contract!Stages(g) : z[2] < s + 1 <=> z[2] <= s
    BY <1>1, <1>5
  <2> QED
    BY <1>5, <2>1, <2>2, <2>3, <2>4
<1> QED
  BY <1>6, <1>7

\* The end of a stage leaves that stage behind.
LEMMA BeyondStage ==
  ASSUME NEW g \in Seq(Seq(Nat)), NEW a \in Nat, NEW y \in Contract!Stages(g),
         InTime(a, Place("stage", y))
  PROVE  /\ InTime(a, Place("barrier", BarrierOf(g, y)))
         /\ \A z \in Contract!Stages(g) :
              Beyond(g, a, Place("barrier", BarrierOf(g, y)), z)
                <=> Beyond(g, a, Place("stage", y), z) \/ z = y
<1>1. \A k, x : Place(k, x).kind = k /\ Place(k, x).at = x
  BY DEF Place
<1>2. \A z \in Contract!Stages(g) :
        /\ z = <<z[1], z[2]>> /\ z[1] \in 1 .. Len(g) /\ z[2] \in 1 .. Len(g[z[1]])
        /\ z[1] \in Nat /\ z[2] \in Nat /\ Len(g[z[1]]) \in Nat
  BY StageFacts
<1>3. y # End
  BY <1>2 DEF End
<1>4. a = 0 \/ y[1] < a
  BY <1>1, <1>3 DEF InTime
<1>5. \A z \in Contract!Stages(g) : Beyond(g, a, Place("stage", y), z) <=> Contract!Before(z, y)
  BY <1>1, <1>3 DEF Beyond
<1>6. CASE BarrierOf(g, y) = End
  <2>1. y[1] = Len(g) /\ y[2] = Len(g[y[1]])
    BY <1>3, <1>6 DEF BarrierOf
  <2>2. LastNode(g, a) = Len(g)
    BY <1>4, <2>1 DEF LastNode
  <2>3. \A z \in Contract!Stages(g) : Beyond(g, a, Place("barrier", End), z)
    BY <1>1, <1>2, <2>2 DEF Beyond
  <2>4. \A z \in Contract!Stages(g) : Contract!Before(z, y) \/ z = y
    BY <1>2, <2>1 DEF Contract!Before
  <2>5. InTime(a, Place("barrier", End))
    BY <1>1 DEF InTime
  <2> QED
    BY <1>5, <1>6, <2>3, <2>4, <2>5
<1>7. CASE BarrierOf(g, y) # End
  <2>1. BarrierOf(g, y) = y
    BY <1>7 DEF BarrierOf
  <2>2. InTime(a, Place("barrier", y))
    BY <1>1, <1>4 DEF InTime
  <2>3. \A z \in Contract!Stages(g) :
          Beyond(g, a, Place("barrier", y), z) <=> Contract!Before(z, y) \/ z = y
    BY <1>1, <1>3 DEF Beyond
  <2> QED
    BY <1>5, <2>1, <2>2, <2>3
<1> QED
  BY <1>6, <1>7

\* Thread 0 aborts the graph behind the stage x: no other thread is affected.
LEMMA BeyondAbort ==
  ASSUME NEW g \in Seq(Seq(Nat)), NEW a \in Nat, NEW x \in Contract!Stages(g),
         InTime(a, Place("stage", x)), NEW q \in Places(g), Both(g, a, Place("stage", x), q),
         InTime(a, q)
  PROVE  /\ InTime(x[1] + 1, q)
         /\ \A z \in Contract!Stages(g) : Beyond(g, x[1] + 1, q, z) <=> Beyond(g, a, q, z)
<1>1. \A k, y : Place(k, y).kind = k /\ Place(k, y).at = y
  BY DEF Place
<1>2. x = <<x[1], x[2]>> /\ x[1] \in 1 .. Len(g) /\ x[1] \in Nat /\ x # End
  BY StageFacts DEF End
<1>3. a = 0 \/ x[1] < a
  BY <1>1, <1>2 DEF InTime
<1>4. CASE q.kind = "search"
  <2>1. q.at[1] \in 1 .. Len(g) + 1
    BY <1>4, PlaceFacts
  <2>2. FindsStage(g, a, q.at[1], x)
    BY <1>1, <1>4 DEF Both, Agree
  <2>3. q.at[1] < x[1] + 1
    BY <1>2, <2>1, <2>2 DEF FindsStage, Finds
  <2> QED
    BY <1>4, <2>3 DEF InTime, Beyond
<1>5. CASE q.kind = "stage"
  <2>1. q.at = x
    BY <1>1, <1>5 DEF Both, Agree
  <2> QED
    BY <1>2, <1>5, <2>1 DEF InTime, Beyond
<1>6. CASE q.kind = "barrier"
  <2>1. q.at = BarrierOf(g, x)
    BY <1>1, <1>6 DEF Both, Agree
  <2>2. CASE q.at = End
    <3>1. x[1] = Len(g)
      BY <1>2, <2>1, <2>2 DEF BarrierOf
    <3>2. LastNode(g, a) = Len(g) /\ LastNode(g, x[1] + 1) = Len(g)
      BY <1>2, <1>3, <3>1 DEF LastNode
    <3> QED
      BY <1>6, <2>2, <3>2 DEF InTime, Beyond
  <2>3. CASE q.at # End
    <3>1. q.at = x
      BY <2>1, <2>3 DEF BarrierOf
    <3> QED
      BY <1>2, <1>6, <3>1 DEF InTime, Beyond
  <2> QED
    BY <2>2, <2>3
<1> QED
  BY <1>4, <1>5, <1>6, PlaceFacts

-----------------------------------------------------------------------------
(* The ledger and the threads                                              *)

LEMMA CrewFacts ==
  ASSUME PoolInv, ~Over
  PROVE  /\ tp.cgraph \in Graphs /\ tp.cgraph \in Seq(Seq(Nat))
         /\ tp.n_graph[2] \in Nat /\ tp.n_graph[2] > 0 /\ tp.current_chunk \in Nat
         /\ Members = 0 .. tp.n_graph[2] - 1 /\ 0 \in Members /\ Members \subseteq Thread
         /\ tp.abort \in Nat /\ state[0].nth = tp.n_graph[2]
         /\ \A t, u \in Members : /\ PlaceOf(t) \in Places(tp.cgraph)
                                   /\ Both(tp.cgraph, tp.abort, PlaceOf(t), PlaceOf(u))
<1>1. /\ tp.cgraph \in Graphs /\ 0 \in Members /\ state[0].nth = tp.n_graph[2]
  BY DEF PoolInv, GraphHasMembers
<1>2. tp.cgraph \in Seq(Seq(Nat))
  BY <1>1, GraphsAssumption
<1>3. tp.n_graph[2] \in 0 .. NThreads /\ tp.current_chunk \in Nat /\ tp.abort \in Nat
  BY DEF PoolInv, PoolShape, PoolRecord
<1>4. Members \subseteq Thread /\ tp.n_graph[2] > 0 /\ tp.n_graph[2] \in Nat
  BY <1>1, <1>3, PoolAssumption DEF Members, Thread
<1>5. \A t, u \in Members : /\ PlaceOf(t) \in Places(tp.cgraph)
                            /\ Both(tp.cgraph, tp.abort, PlaceOf(t), PlaceOf(u))
  BY DEF PoolInv, OnTheWay, Both
<1> QED
  BY <1>1, <1>2, <1>3, <1>4, <1>5 DEF Members

\* A thread on a stage.
LEMMA StageThread ==
  ASSUME PoolInv, NEW t \in Thread, OnStage(t)
  PROVE  /\ ~Over /\ t \in Members /\ Noticed(t)
         /\ PlaceOf(t) = Place("stage", state[t].at)
         /\ state[t].at \in Contract!Stages(tp.cgraph)
         /\ state[t].cgraph = tp.cgraph /\ state[t].nth = tp.n_graph[2]
         /\ Node(t) = tp.cgraph[state[t].at[1]]
         /\ state[t].pc \in {"work", "claim"} => OpenTo(t) = {state[t].at}
<1>1. state[t].pc \in {"work", "claim", "node_done"}
  BY DEF OnStage
<1>2. /\ ~Over /\ t \in Members /\ state[t].pc \in Inside /\ ~AtEnd(t)
      /\ PlaceOf(t) = Place("stage", state[t].at)
      /\ state[t].at \in Contract!Stages(tp.cgraph)
      /\ state[t].cgraph = tp.cgraph /\ state[t].nth = tp.n_graph[2]
      /\ Node(t) = tp.cgraph[state[t].at[1]]
  BY <1>1, LocalPlace
<1>3. Noticed(t)
  BY <1>2, InGraph
<1>4. state[t].pc \in {"work", "claim"} => OpenTo(t) = {state[t].at}
  BY <1>2 DEF OpenTo, Place
<1> QED
  BY <1>2, <1>3, <1>4

\* What is open is one stage at most.
LEMMA OpenFacts ==
  ASSUME PoolInv, ~Over
  PROVE  /\ Opened \subseteq Contract!Stages(tp.cgraph)
         /\ \A t \in Members : OpenTo(t) \subseteq Opened /\ Begun(t) \subseteq Contract!Stages(tp.cgraph)
         /\ \A y \in Opened : /\ Opened = {y}
                               /\ \E t \in Members : PlaceOf(t) = Place("stage", y)
<1>1. \A t \in Members : \A y \in OpenTo(t) :
        y \in Contract!Stages(tp.cgraph) /\ PlaceOf(t) = Place("stage", y)
  <2> SUFFICES ASSUME NEW t \in Members, NEW y \in OpenTo(t)
               PROVE  y \in Contract!Stages(tp.cgraph) /\ PlaceOf(t) = Place("stage", y)
    OBVIOUS
  <2>1. PlaceOf(t).kind = "stage" /\ y = PlaceOf(t).at
    BY DEF OpenTo
  <2> QED
    BY <2>1, CrewFacts, PlaceFacts
<1>2. \A t, u \in Members : \A y \in OpenTo(t), z \in OpenTo(u) : y = z
  <2> SUFFICES ASSUME NEW t \in Members, NEW u \in Members, NEW y \in OpenTo(t), NEW z \in OpenTo(u)
               PROVE  y = z
    OBVIOUS
  <2>1. PlaceOf(t).kind = "stage" /\ y = PlaceOf(t).at /\ PlaceOf(u).kind = "stage" /\ z = PlaceOf(u).at
    BY DEF OpenTo
  <2>2. Both(tp.cgraph, tp.abort, PlaceOf(t), PlaceOf(u))
    BY CrewFacts
  <2> QED
    BY <2>1, <2>2 DEF Both, Agree
<1> QED
  BY <1>1, <1>2 DEF Opened, Begun

LEMMA PartsOnce == PoolInv /\ PartsInv => EachPartOnce
<1> SUFFICES ASSUME PoolInv, PartsInv, NEW t \in Thread, state[t].pc = "work"
             PROVE  /\ <<state[t].at, state[t].chunk>> \notin done
                    /\ \A u \in Thread \ {t} : state[u].pc = "work" =>
                         <<state[u].at, state[u].chunk>> # <<state[t].at, state[t].chunk>>
  BY DEF EachPartOnce
<1> DEFINE p == <<state[t].at, state[t].chunk>>
           working == [u \in Members |-> Working(u)]
<1>1. ~Over /\ t \in Members /\ \A u \in Thread : state[u].pc = "work" => u \in Members
  BY StageThread DEF OnStage
<1>2. Members = 0 .. tp.n_graph[2] - 1
  BY <1>1, CrewFacts
<1>3. \A u \in Members : working[u] = Working(u)
  OBVIOUS
<1>4. p \in working[t]
  BY <1>1, <1>3 DEF Working
<1> HIDE DEF working, p
<1>5. p \notin done /\ \A u \in Members \ {t} : p \notin working[u]
  BY <1>1, <1>2, <1>4 DEF PartsInv, PartsLedger, Ledger, working
<1>6. \A u \in Thread \ {t} : state[u].pc = "work" => <<state[u].at, state[u].chunk>> # p
  BY <1>1, <1>3, <1>5 DEF Working
<1> QED
  BY <1>5, <1>6 DEF p

LEMMA InputsBefore == PoolInv /\ PartsInv => InputsReady
<1> SUFFICES ASSUME PoolInv, PartsInv, NEW t \in Thread, state[t].pc = "work"
             PROVE  Contract!PartsBefore(tp.cgraph, tp.n_graph[2], state[t].at) \subseteq done
  BY DEF InputsReady
<1> DEFINE g == tp.cgraph
           n == tp.n_graph[2]
           y == state[t].at
           stages == {z \in Contract!Stages(g) : Contract!Before(z, y)}
           working == [u \in Members |-> Working(u)]
           begun == [u \in Members |-> Begun(u)]
<1>1. /\ ~Over /\ t \in Members /\ PlaceOf(t) = Place("stage", y) /\ y \in Contract!Stages(g)
  BY StageThread DEF OnStage
<1>2. /\ g \in Seq(Seq(Nat)) /\ n \in Nat /\ n > 0 /\ tp.current_chunk \in Nat
      /\ Members = 0 .. n - 1 /\ Members \subseteq Thread /\ tp.abort \in Nat
      /\ \A u \in Members : /\ PlaceOf(u) \in Places(g)
                            /\ Both(g, tp.abort, PlaceOf(t), PlaceOf(u))
  BY <1>1, CrewFacts
<1>3. InTime(tp.abort, PlaceOf(t)) /\ PartsLedger
  BY <1>1 DEF PartsInv, Aborts
<1>4. \A u \in Members, z \in stages :
        Beyond(g, tp.abort, PlaceOf(u), z) /\ PlaceOf(u) # Place("stage", z)
  <2> HIDE DEF g, y
  <2> QED
    BY <1>1, <1>2, <1>3, StageSync
<1>5. \A u \in Members : stages \subseteq begun[u]
  BY <1>4 DEF Begun
<1>6. ASSUME NEW u \in Members, NEW p \in working[u]
      PROVE  p[1] \notin stages
  <2>1. state[u].pc = "work" /\ p[1] = state[u].at
    BY <1>6 DEF Working
  <2>2. PlaceOf(u) = Place("stage", p[1])
    BY <1>2, <2>1, StageThread DEF OnStage
  <2> QED
    BY <1>4, <2>2
<1>7. Opened \cap stages = {}
  BY <1>1, <1>4, OpenFacts
<1>8. Ledger(g, n, begun, working, Opened, done, tp.current_chunk)
  BY <1>3 DEF PartsLedger
<1>9. Contract!PartsBefore(g, n, y) = Contract!PartsOf(g, n, stages)
  BY DEF Contract!PartsBefore
<1>10. stages \in SUBSET Contract!Stages(g)
  OBVIOUS
<1> HIDE DEF g, n, y, stages, working, begun
<1>12. /\ \A u \in 0 .. n - 1 : stages \subseteq begun[u]
       /\ \A u \in 0 .. n - 1 : \A p \in working[u] : p[1] \notin stages
  BY <1>2, <1>5, <1>6
<1>14. LeftBehind(n, begun, working, Opened, stages)
  BY <1>7, <1>12 DEF LeftBehind
<1>13. g \in Seq(Seq(Nat)) /\ n \in Nat /\ n > 0 /\ tp.current_chunk \in Nat
  BY <1>2
<1>11. Contract!PartsOf(g, n, stages) \subseteq done
  BY <1>8, <1>10, <1>13, <1>14, LedgerFull
<1> QED
  BY <1>9, <1>11 DEF g, n, y

\* When all threads are at the barrier at the end, the result is as promised.
LEMMA ResultAtEnd ==
  ASSUME PoolInv, PartsInv, ~Over, \A t \in Members : PlaceOf(t) = Place("barrier", End)
  PROVE  Result
<1> DEFINE g == tp.cgraph
           n == tp.n_graph[2]
           a == tp.abort
           stages == {z \in Contract!Stages(g) : z[1] <= LastNode(g, a)}
           working == [u \in Members |-> Working(u)]
           begun == [u \in Members |-> Begun(u)]
<1>1. Place("barrier", End).kind = "barrier" /\ Place("barrier", End).at = End
      /\ \A y : Place("stage", y).kind = "stage"
  BY DEF Place
<1>2. /\ g \in Seq(Seq(Nat)) /\ n \in Nat /\ n > 0 /\ tp.current_chunk \in Nat
      /\ Members = 0 .. n - 1 /\ Members \subseteq Thread /\ a \in Nat /\ state[0].nth = n
  BY CrewFacts
<1>3. /\ a # 1 /\ tp.ec = IF a = 0 THEN "success" ELSE "aborted"
      /\ a \in 0 .. Len(g) + 1
      /\ PartsLedger
  BY DEF PartsInv, Aborts, PoolInv, OnTheWay
<1>4. \A t \in Members : ~OnStage(t)
  BY <1>1, <1>2, StageThread
<1>5. \A t \in Members : begun[t] = stages
  BY <1>1, <1>4 DEF Begun, Beyond
<1>6. \A t \in Members : working[t] = {}
  BY <1>4 DEF Working, OnStage
<1>7. Opened = {}
  BY <1>1 DEF Opened, OpenTo
<1>8. Ledger(g, n, begun, working, {}, done, tp.current_chunk)
  BY <1>3, <1>7 DEF PartsLedger
<1>9. stages \in SUBSET Contract!Stages(g)
  OBVIOUS
<1>10. \A z \in Contract!Stages(g) : z[1] \in 1 .. Len(g)
  BY <1>2, StageFacts
<1>11. /\ a \notin 2 .. Len(g) => stages = Contract!Stages(g)
       /\ a \in 2 .. Len(g) => stages = {z \in Contract!Stages(g) : z[1] <= a - 1}
  BY <1>2, <1>3, <1>10 DEF LastNode
<1>12. stages = {z \in Contract!Stages(g) : z[1] <= Len(g)} \/ a \in 2 .. Len(g)
  BY <1>10, <1>11
<1>13. DOMAIN g = 1 .. Len(g) /\ (a # 0 => Len(g) \in DOMAIN g)
  BY <1>2, <1>3
<1> HIDE DEF stages, working, begun
<1>14. done = Contract!PartsOf(g, n, stages)
  <2> HIDE DEF g, n, a
  <2>1. \A t \in 0 .. n - 1 : begun[t] = stages /\ working[t] = {}
    BY <1>2, <1>5, <1>6
  <2>2. g \in Seq(Seq(Nat)) /\ n \in Nat /\ n > 0 /\ tp.current_chunk \in Nat
    BY <1>2
  <2> QED
    BY <1>8, <1>9, <2>1, <2>2, LedgerTotal
<1>15. CASE a = 0
  <2>1. done = Contract!AllParts(g, n)
    BY <1>11, <1>14, <1>15 DEF Contract!AllParts
  <2> QED
    BY <1>2, <1>3, <1>15, <2>1 DEF Result
<1>16. CASE a # 0
  <2>1. done \in Contract!WholeNodes(g, n)
    <3>1. CASE a \in 2 .. Len(g)
      <4>1. a - 1 \in DOMAIN g
        BY <1>13, <3>1
      <4> QED
        BY <1>11, <1>14, <3>1, <4>1 DEF Contract!WholeNodes
    <3>2. CASE a \notin 2 .. Len(g)
      BY <1>12, <1>13, <1>14, <1>16, <3>2 DEF Contract!WholeNodes
    <3> QED
      BY <3>1, <3>2
  <2> QED
    BY <1>2, <1>3, <1>16, <2>1 DEF Result
<1> QED
  BY <1>15, <1>16

-----------------------------------------------------------------------------
(* Steps of a thread of the graph                                          *)

LEMMA StillIn ==
  ASSUME PoolInv', NEW t \in Thread, state'[t].pc \in Inside, ~AtEnd(t)'
  PROVE  ~Over'
<1>1. 0 \in Thread /\ Worker = Thread \ {0}
  BY PoolAssumption DEF Thread, Worker
<1>2. CASE t = 0
  BY <1>2, AtRestApart DEF Over
<1>3. CASE t # 0
  BY <1>1, <1>3 DEF PoolInv, RestIsQuiet
<1> QED
  BY <1>2, <1>3

LEMMA PartsKept ==
  ASSUME ~Over', Aborts', ChunkIsSet', PartsLedger'
  PROVE  PartsInv'
BY DEF PartsInv, Over, AtRest

\* The others stay where they are, with what they have begun.
LEMMA OthersStay ==
  ASSUME NEW t, Members \subseteq Thread, PoolKeeps, \A u \in Thread \ {t} : state'[u] = state[u]
  PROVE  /\ Members' = Members
         /\ \A u \in Members \ {t} :
              /\ PlaceOf(u)' = PlaceOf(u)
              /\ Working(u)' = Working(u)
              /\ OpenTo(u)' = OpenTo(u)
              /\ tp'.abort = tp.abort => Begun(u)' = Begun(u)
<1>1. Members' = Members
  BY DEF Members, PoolKeeps
<1> SUFFICES ASSUME NEW u \in Members \ {t}
             PROVE  /\ PlaceOf(u)' = PlaceOf(u)
                    /\ Working(u)' = Working(u)
                    /\ OpenTo(u)' = OpenTo(u)
                    /\ tp'.abort = tp.abort => Begun(u)' = Begun(u)
  BY <1>1
<1>2. state'[u] = state[u]
  OBVIOUS
<1>3. PlaceOf(u)' = PlaceOf(u)
  BY <1>2 DEF PlaceOf, Noticed, Released, PoolKeeps
<1>4. Working(u)' = Working(u)
  BY <1>2 DEF Working
<1>5. OpenTo(u)' = OpenTo(u)
  BY <1>2, <1>3 DEF OpenTo
<1>6. tp'.abort = tp.abort => Begun(u)' = Begun(u)
  BY <1>2, <1>3 DEF Begun, OnStage, PoolKeeps
<1> QED
  BY <1>3, <1>4, <1>5, <1>6

LEMMA ChunkStays ==
  ASSUME ChunkIsSet, PoolKeeps, tp'.current_chunk = tp.current_chunk, state'[0] = state[0]
  PROVE  ChunkIsSet'
BY DEF ChunkIsSet, PoolKeeps, Released

LEMMA LedgerStays ==
  ASSUME PartsLedger, tp'.n_graph = tp.n_graph, tp'.cgraph = tp.cgraph,
         tp'.current_chunk = tp.current_chunk, done' = done,
         \A u \in Members : /\ Begun(u)' = Begun(u)
                            /\ Working(u)' = Working(u)
                            /\ OpenTo(u)' = OpenTo(u)
  PROVE  PartsLedger'
<1>1. Members' = Members
  BY DEF Members
<1>2. Opened' = Opened
  BY <1>1 DEF Opened
<1>3. [u \in Members |-> Begun(u)]' = [u \in Members |-> Begun(u)]
  BY <1>1
<1>4. [u \in Members |-> Working(u)]' = [u \in Members |-> Working(u)]
  BY <1>1
<1> QED
  BY <1>2, <1>3, <1>4 DEF PartsLedger

\* What is open when thread t moves.
LEMMA OpenedMoves ==
  ASSUME NEW t \in Members, Members' = Members, \A u \in Members \ {t} : OpenTo(u)' = OpenTo(u)
  PROVE  /\ OpenTo(t)' = OpenTo(t) => Opened' = Opened
         /\ OpenTo(t) = {} => Opened' = Opened \cup OpenTo(t)'
         /\ OpenTo(t)' = {} => /\ Opened' \subseteq Opened
                               /\ Opened \ Opened' \subseteq OpenTo(t)
BY DEF Opened

LEMMA PlaceNow ==
  ASSUME NEW t, Noticed(t)', ~Released(t)', state'[t].pc \notin {"signal", "begin"}
  PROVE  PlaceOf(t)' = PlaceAt(state'[t].pc, state'[t].at)
BY DEF PlaceOf

\* The thread walks on, and begins nothing.
LEMMA Walks ==
  ASSUME PoolInv, PartsInv, NEW t \in Thread, ~Over, ~Over', t \in Members,
         PoolKeeps, tp'.abort = tp.abort, tp'.ec = tp.ec, tp'.current_chunk = tp.current_chunk,
         done' = done, \A u \in Thread \ {t} : state'[u] = state[u],
         ~OnStage(t), ~OnStage(t)', OpenTo(t)' = OpenTo(t),
         InTime(tp.abort, PlaceOf(t)'),
         \A z \in Contract!Stages(tp.cgraph) :
           Beyond(tp.cgraph, tp.abort, PlaceOf(t)', z) <=> Beyond(tp.cgraph, tp.abort, PlaceOf(t), z),
         t = 0 => ChunkIsSet'
  PROVE  PartsInv'
<1>1. Members \subseteq Thread /\ 0 \in Thread
  BY CrewFacts
<1>2. Aborts /\ ChunkIsSet /\ PartsLedger
  BY DEF PartsInv
<1>3. /\ Members' = Members
      /\ \A u \in Members \ {t} : /\ PlaceOf(u)' = PlaceOf(u)
                                  /\ Working(u)' = Working(u)
                                  /\ OpenTo(u)' = OpenTo(u)
                                  /\ Begun(u)' = Begun(u)
  BY <1>1, OthersStay
<1>4. Begun(t)' = Begun(t)
  BY DEF Begun, PoolKeeps
<1>5. Working(t)' = Working(t)
  BY DEF Working, OnStage
<1>6. \A u \in Members : /\ Begun(u)' = Begun(u)
                         /\ Working(u)' = Working(u)
                         /\ OpenTo(u)' = OpenTo(u)
  BY <1>3, <1>4, <1>5
<1>7. PartsLedger'
  BY <1>2, <1>6, LedgerStays DEF PoolKeeps
<1>8. Aborts'
  BY <1>2, <1>3 DEF Aborts
<1>9. ChunkIsSet'
  BY <1>1, <1>2, ChunkStays
<1> QED
  BY <1>7, <1>8, <1>9, PartsKept

\* A step that leaves the thread at its place, outside the stages.
LEMMA Rests ==
  ASSUME PoolInv, PartsInv, PoolInv', NEW t \in Thread, state[t].pc \in Inside, ~AtEnd(t),
         state'[t].pc \in Inside, ~AtEnd(t)', PlaceOf(t)' = PlaceOf(t),
         \/ PlaceOf(t).kind # "stage"
         \/ state'[t].pc # "node_done" /\ state[t].pc # "node_done",
         PoolKeeps, tp'.abort = tp.abort, tp'.ec = tp.ec, tp'.current_chunk = tp.current_chunk,
         done' = done, \A u \in Thread \ {t} : state'[u] = state[u],
         ~OnStage(t), ~OnStage(t)', t = 0 => ChunkIsSet'
  PROVE  PartsInv'
<1>1. ~Over /\ t \in Members
  BY InGraph
<1>2. ~Over'
  BY StillIn
<1>3. OpenTo(t)' = OpenTo(t)
  BY DEF OpenTo
<1>4. InTime(tp.abort, PlaceOf(t)')
  BY <1>1 DEF PartsInv, Aborts
<1> QED
  BY <1>1, <1>2, <1>3, <1>4, Walks

LEMMA BeginParts ==
  ASSUME PoolInv, PartsInv, PoolInv', NEW t \in Thread, Begin(t)
  PROVE  PartsInv'
<1>1. /\ tp' = tp /\ done' = done /\ Becomes(t, "node", <<1, 0>>, state[t].chunk)
      /\ state'[t].last_graph = state[t].last_graph /\ state[t].pc = "begin"
  BY BeginEffect DEF Begin, PoolInv, Shape
<1>2. /\ state'[t].pc = "node" /\ state'[t].at = <<1, 0>>
      /\ \A u \in Thread \ {t} : state'[u] = state[u]
  BY <1>1 DEF Becomes
<1>3. /\ state[t].pc \in Inside /\ state'[t].pc \in Inside
      /\ ~AtEnd(t) /\ ~AtEnd(t)' /\ ~OnStage(t) /\ ~OnStage(t)'
  BY <1>1, <1>2 DEF Inside, AtEnd, Released, OnStage
<1>4. PlaceOf(t) = Search(1)
  BY <1>1 DEF PlaceOf
<1>5. Noticed(t)'
  BY <1>1, <1>3, InGraph DEF Noticed
<1>6. PlaceOf(t)' = Search(1)
  BY <1>2, <1>5, PlaceNow DEF Released, PlaceAt, Search
<1>7. t = 0 => ChunkIsSet'
  BY <1>2 DEF ChunkIsSet
<1>8. PoolKeeps /\ tp'.abort = tp.abort /\ tp'.ec = tp.ec /\ tp'.current_chunk = tp.current_chunk
  BY <1>1 DEF PoolKeeps
<1>9. PlaceOf(t).kind # "stage"
  BY <1>4 DEF Search, Place
<1> QED
  BY <1>1, <1>2, <1>3, <1>4, <1>6, <1>7, <1>8, <1>9, Rests

LEMMA NoticeParts ==
  ASSUME PoolInv, PartsInv, PoolInv', NEW t \in Worker, Poll(t) \/ CheckForWork(t),
         state'[t].pc = "begin"
  PROVE  PartsInv'
<1>1. /\ tp' = tp /\ done' = done /\ state[t].pc \in {"polled", "lock"}
      /\ Becomes(t, "begin", state[t].at, state[t].chunk)
      /\ t \in Members /\ ~Noticed(t) /\ ~Over /\ ~Over'
  BY NoticeStep DEF PoolInv, Shape
<1>2. t \in Thread /\ t # 0 /\ \A u \in Thread \ {t} : state'[u] = state[u]
  BY <1>1 DEF Becomes, Worker
<1>3. ~OnStage(t) /\ ~OnStage(t)'
  BY <1>1 DEF OnStage
<1>4. PlaceOf(t) = Search(1) /\ PlaceOf(t)' = Search(1)
  BY <1>1 DEF PlaceOf
<1>5. OpenTo(t)' = OpenTo(t)
  BY <1>4 DEF OpenTo, Search, Place
<1>6. InTime(tp.abort, PlaceOf(t)')
  BY <1>1, <1>4 DEF PartsInv, Aborts
<1>7. PoolKeeps /\ tp'.abort = tp.abort /\ tp'.ec = tp.ec /\ tp'.current_chunk = tp.current_chunk
  BY <1>1 DEF PoolKeeps
<1> QED
  BY <1>1, <1>2, <1>3, <1>4, <1>5, <1>6, <1>7, Walks

LEMMA BarrierEnterParts ==
  ASSUME PoolInv, PartsInv, PoolInv', NEW t \in Thread, BarrierEnter(t)
  PROVE  PartsInv'
<1> DEFINE pc == IF tp.n_barrier = state[t].bar[1] - 1 THEN "last" ELSE "spin"
<1>1. /\ PoolKeeps /\ done' = done /\ KeepsRest(t) /\ state[t].pc = "enter"
      /\ tp'.abort = tp.abort /\ tp'.ec = tp.ec /\ tp'.current_chunk = tp.current_chunk
      /\ Becomes(t, pc, state[t].at, state[t].chunk)
  BY BarrierEnterEffect DEF BarrierEnter, PoolInv, Shape
<1>2. pc \in {"last", "spin"}
  OBVIOUS
<1> HIDE DEF pc
<1>3. /\ state'[t].pc = pc /\ state'[t].at = state[t].at /\ state'[t].bar = state[t].bar
      /\ state'[t].last_graph = state[t].last_graph
      /\ \A u \in Thread \ {t} : state'[u] = state[u]
  BY <1>1 DEF Becomes, KeepsRest
<1>4. state[t].bar[2] = tp.n_barrier_passed
  BY <1>1 DEF PoolInv, BarrierCounts
<1>5. ~Released(t) /\ ~Released(t)'
  BY <1>1, <1>3, <1>4 DEF Released, PoolKeeps
<1>6. /\ state[t].pc \in Inside /\ state'[t].pc \in Inside
      /\ ~AtEnd(t) /\ ~AtEnd(t)' /\ ~OnStage(t) /\ ~OnStage(t)'
  BY <1>1, <1>2, <1>3, <1>5 DEF Inside, AtEnd, OnStage
<1>7. Noticed(t) /\ Noticed(t)'
  BY <1>1, <1>3, <1>6, InGraph DEF Noticed, PoolKeeps
<1>8. /\ PlaceOf(t) = Place("barrier", state[t].at)
      /\ PlaceOf(t)' = Place("barrier", state[t].at)
  BY <1>1, <1>2, <1>3, <1>5, <1>7 DEF PlaceOf, PlaceAt
<1>9. t = 0 => ChunkIsSet'
  <2>1. ChunkIsSet
    BY <1>6, InGraph DEF PartsInv
  <2> QED
    BY <1>1, <1>2, <1>3, <1>5, <2>1 DEF ChunkIsSet, PoolKeeps
<1>10. PlaceOf(t).kind # "stage"
  BY <1>8 DEF Place
<1> QED
  BY <1>1, <1>3, <1>6, <1>8, <1>9, <1>10, Rests

LEMMA BarrierResetParts ==
  ASSUME PoolInv, PartsInv, PoolInv', NEW t \in Thread, BarrierReset(t)
  PROVE  PartsInv'
<1>1. /\ PoolKeeps /\ done' = done /\ KeepsRest(t) /\ state[t].pc = "last"
      /\ tp'.abort = tp.abort /\ tp'.ec = tp.ec /\ tp'.current_chunk = tp.current_chunk
      /\ Becomes(t, "release", state[t].at, state[t].chunk)
  BY BarrierResetEffect DEF BarrierReset, PoolInv, Shape
<1>3. /\ state'[t].pc = "release" /\ state'[t].at = state[t].at
      /\ state'[t].last_graph = state[t].last_graph
      /\ \A u \in Thread \ {t} : state'[u] = state[u]
  BY <1>1 DEF Becomes, KeepsRest
<1>5. ~Released(t) /\ ~Released(t)'
  BY <1>1, <1>3 DEF Released
<1>6. /\ state[t].pc \in Inside /\ state'[t].pc \in Inside
      /\ ~AtEnd(t) /\ ~AtEnd(t)' /\ ~OnStage(t) /\ ~OnStage(t)'
  BY <1>1, <1>3 DEF Inside, AtEnd, Released, OnStage
<1>7. Noticed(t) /\ Noticed(t)'
  BY <1>1, <1>3, <1>6, InGraph DEF Noticed, PoolKeeps
<1>8. /\ PlaceOf(t) = Place("barrier", state[t].at)
      /\ PlaceOf(t)' = Place("barrier", state[t].at)
  BY <1>1, <1>3, <1>5, <1>7 DEF PlaceOf, PlaceAt
<1>9. t = 0 => ChunkIsSet'
  <2>1. ChunkIsSet
    BY <1>6, InGraph DEF PartsInv
  <2> QED
    BY <1>1, <1>3, <1>5, <2>1 DEF ChunkIsSet, PoolKeeps
<1>10. PlaceOf(t).kind # "stage"
  BY <1>8 DEF Place
<1> QED
  BY <1>1, <1>3, <1>6, <1>8, <1>9, <1>10, Rests

LEMMA BarrierWaitsParts ==
  ASSUME PoolInv, PartsInv, PoolInv', NEW t \in Thread, BarrierRead(t), tp.n_graph[2] # 1
  PROVE  PartsInv'
<1>1. /\ tp' = tp /\ done' = done /\ state[t].pc = "barrier"
      /\ Becomes(t, "enter", state[t].at, state[t].chunk)
      /\ state'[t].last_graph = state[t].last_graph
  BY BarrierReadEffect DEF BarrierRead, PoolInv, Shape
<1>3. /\ state'[t].pc = "enter" /\ state'[t].at = state[t].at
      /\ \A u \in Thread \ {t} : state'[u] = state[u]
  BY <1>1 DEF Becomes
<1>5. ~Released(t) /\ ~Released(t)'
  BY <1>1, <1>3 DEF Released
<1>6. /\ state[t].pc \in Inside /\ state'[t].pc \in Inside
      /\ ~AtEnd(t) /\ ~AtEnd(t)' /\ ~OnStage(t) /\ ~OnStage(t)'
  BY <1>1, <1>3 DEF Inside, AtEnd, Released, OnStage
<1>7. Noticed(t) /\ Noticed(t)'
  BY <1>1, <1>3, <1>6, InGraph DEF Noticed
<1>8. /\ PlaceOf(t) = Place("barrier", state[t].at)
      /\ PlaceOf(t)' = Place("barrier", state[t].at)
  BY <1>1, <1>3, <1>5, <1>7 DEF PlaceOf, PlaceAt
<1>9. t = 0 => ChunkIsSet'
  <2>1. ChunkIsSet
    BY <1>6, InGraph DEF PartsInv
  <2> QED
    BY <1>1, <1>3, <1>5, <2>1 DEF ChunkIsSet
<1>10. PlaceOf(t).kind # "stage"
  BY <1>8 DEF Place
<1>11. PoolKeeps /\ tp'.abort = tp.abort /\ tp'.ec = tp.ec /\ tp'.current_chunk = tp.current_chunk
  BY <1>1 DEF PoolKeeps
<1> QED
  BY <1>1, <1>3, <1>6, <1>8, <1>9, <1>10, <1>11, Rests

-----------------------------------------------------------------------------
(* Steps into a stage, in it and out of it                                 *)

\* What a thread in the stage y has begun.
BegunIn(g, a, y) ==
  {z \in Contract!Stages(g) : Beyond(g, a, Place("stage", y), z) \/ z = y}

\* A thread that comes to a part of the stage y, or goes for another.
LEMMA StageHeld ==
  ASSUME NEW g \in Seq(Seq(Nat)), NEW a \in Nat, NEW y \in Contract!Stages(g), NEW t \in Thread,
         InTime(a, Place("stage", y)), Noticed(t)', tp'.cgraph = g, tp'.abort = a,
         state'[t].at = y, state'[t].pc \in {"work", "claim"}
  PROVE  /\ PlaceOf(t)' = Place("stage", y) /\ OpenTo(t)' = {y}
         /\ Working(t)' = IF state'[t].pc = "work" THEN {<<y, state'[t].chunk>>} ELSE {}
         /\ Begun(t)' = BegunIn(g, a, y)
         /\ InTime(a, PlaceOf(t)') /\ (t = 0 => ChunkIsSet')
<1>1. ~Released(t)'
  BY DEF Released
<1>2. PlaceOf(t)' = Place("stage", y)
  BY <1>1, PlaceNow DEF PlaceAt
<1>3. OpenTo(t)' = {y}
  BY <1>2 DEF OpenTo, Place
<1>4. OnStage(t)'
  BY DEF OnStage
<1>5. Begun(t)' = BegunIn(g, a, y)
  BY <1>2, <1>4 DEF Begun, BegunIn
<1>6. t = 0 => ChunkIsSet'
  BY DEF ChunkIsSet
<1> QED
  BY <1>2, <1>3, <1>5, <1>6 DEF Working

\* A thread that has done with the stage y.
LEMMA StageLeft ==
  ASSUME NEW g \in Seq(Seq(Nat)), NEW a \in Nat, NEW y \in Contract!Stages(g), NEW t \in Thread,
         InTime(a, Place("stage", y)), Noticed(t)', tp'.cgraph = g, tp'.abort = a,
         Node(t) = g[y[1]], state'[t].at = y, state'[t].pc = StageEnd(t, y[2])
  PROVE  /\ OpenTo(t)' = {} /\ Working(t)' = {}
         /\ Begun(t)' = BegunIn(g, a, y)
         /\ InTime(a, PlaceOf(t)') /\ (t = 0 => ChunkIsSet')
<1>1. /\ y = <<y[1], y[2]>> /\ y[1] \in 1 .. Len(g) /\ y[2] \in 1 .. Len(g[y[1]]) /\ y[1] \in Nat
  BY StageFacts
<1>2. state'[t].pc \in {"set", "barrier", "node_done"}
  BY StageEndPc
<1>3. ~Released(t)' /\ Working(t)' = {}
  BY <1>2 DEF Released, Working
<1>4. PlaceOf(t)' = PlaceAt(state'[t].pc, y)
  BY <1>2, <1>3, PlaceNow
<1>5. CASE y[2] = Len(g[y[1]])
  <2>1. state'[t].pc = "node_done"
    BY <1>5 DEF StageEnd
  <2>2. PlaceOf(t)' = Place("stage", y)
    BY <1>4, <2>1 DEF PlaceAt
  <2>3. OnStage(t)' /\ OpenTo(t)' = {}
    BY <2>1 DEF OnStage, OpenTo
  <2>4. Begun(t)' = BegunIn(g, a, y)
    BY <2>2, <2>3 DEF Begun, BegunIn
  <2>5. t = 0 => ChunkIsSet'
    BY <2>1 DEF ChunkIsSet
  <2> QED
    BY <1>3, <2>2, <2>3, <2>4, <2>5
<1>6. CASE y[2] # Len(g[y[1]])
  <2>1. state'[t].pc = StageBarrier(t, y[2] + 1)
    BY <1>1, <1>6 DEF StageEnd
  <2>2. state'[t].pc = IF t = 0 /\ ClaimedStage(g, <<y[1], y[2] + 1>>) THEN "set" ELSE "barrier"
    BY <2>1 DEF StageBarrier, Claimed, ClaimedStage
  <2>3. PlaceOf(t)' = Place("barrier", y) /\ BarrierOf(g, y) = y
    BY <1>4, <1>6, <2>2 DEF PlaceAt, BarrierOf
  <2>4. ~OnStage(t)' /\ OpenTo(t)' = {}
    BY <2>2, <2>3 DEF OnStage, OpenTo, Place
  <2>5. Begun(t)' = BegunIn(g, a, y)
    BY <2>3, <2>4, BeyondStage DEF Begun, BegunIn
  <2>6. InTime(a, PlaceOf(t)')
    BY <2>3, BeyondStage
  <2>7. Behind(g, y) = Place("stage", <<y[1], y[2] + 1>>)
    BY <1>6 DEF Behind
  <2>8. Behind(g, y).at = <<y[1], y[2] + 1>>
    BY <2>7 DEF Place
  <2>9. t = 0 => ChunkIsSet'
    BY <2>2, <2>8 DEF ChunkIsSet
  <2> QED
    BY <1>3, <2>4, <2>5, <2>6, <2>9
<1> QED
  BY <1>5, <1>6

\* The thread begins the open stage y.
LEMMA StartsLedger ==
  ASSUME PoolInv, ~Over, NEW t \in Members, NEW y \in Contract!Stages(tp.cgraph), NEW open,
         Ledger(tp.cgraph, tp.n_graph[2], [u \in Members |-> Begun(u)],
                [u \in Members |-> Working(u)], open, done, tp.current_chunk),
         y \in open, y \notin Begun(t), Working(t) = {},
         tp'.n_graph = tp.n_graph, tp'.cgraph = tp.cgraph,
         tp'.current_chunk = tp.current_chunk, done' = done,
         \A u \in Members \ {t} : Begun(u)' = Begun(u) /\ Working(u)' = Working(u),
         Begun(t)' = Begun(t) \cup {y}, Opened' \subseteq open, open \ Opened' \subseteq {y},
         IF t < Contract!Width(tp.cgraph[y[1]][y[2]], tp.n_graph[2])
         THEN Working(t)' = {<<y, t>>} /\ Opened' = open
         ELSE Working(t)' = {}
  PROVE  PartsLedger'
<1> DEFINE g == tp.cgraph
           n == tp.n_graph[2]
           begun == [u \in Members |-> Begun(u)]
           working == [u \in Members |-> Working(u)]
           begunNow == [u \in Members |-> Begun(u)']
           workingNow == [u \in Members |-> Working(u)']
<1>1. /\ g \in Seq(Seq(Nat)) /\ n \in Nat /\ tp.current_chunk \in Nat /\ Members = 0 .. n - 1
  BY CrewFacts
<1>2. Members' = Members
  BY DEF Members
<1>3. /\ begun[t] = Begun(t) /\ working[t] = {}
      /\ begunNow[t] = begun[t] \cup {y} /\ workingNow[t] = Working(t)'
      /\ \A u \in Members \ {t} : begunNow[u] = begun[u] /\ workingNow[u] = working[u]
  OBVIOUS
<1>4. /\ [u \in Members |-> Begun(u)]' = begunNow
      /\ [u \in Members |-> Working(u)]' = workingNow
  BY <1>2
<1>5. PartsLedger' <=> Ledger(g, n, begunNow, workingNow, Opened', done, tp.current_chunk)
  BY <1>4 DEF PartsLedger
<1> HIDE DEF begun, working, begunNow, workingNow
<1>6. Ledger(g, n, begun, working, open, done, tp.current_chunk)
  BY DEF begun, working
<1> HIDE DEF g, n
<1> DEFINE openNow == Opened'
<1>7. /\ t \in 0 .. n - 1 /\ y \notin begun[t] /\ openNow \in SUBSET open
      /\ \A u \in (0 .. n - 1) \ {t} : begunNow[u] = begun[u] /\ workingNow[u] = working[u]
      /\ y \in Contract!Stages(g) /\ open \ openNow \subseteq {y}
      /\ IF t < Contract!Width(g[y[1]][y[2]], n)
         THEN workingNow[t] = {<<y, t>>} /\ openNow = open
         ELSE workingNow[t] = {}
  BY <1>1, <1>3 DEF g, n
<1> HIDE DEF openNow
<1> DEFINE chunk == tp.current_chunk
<1>9. /\ g \in Seq(Seq(Nat)) /\ n \in Nat /\ chunk \in Nat
      /\ Ledger(g, n, begun, working, open, done, chunk)
      /\ begunNow[t] = begun[t] \cup {y} /\ working[t] = {}
  BY <1>1, <1>3, <1>6
<1> HIDE DEF chunk
<1>8. Ledger(g, n, begunNow, workingNow, openNow, done, chunk)
  <2>1. Starts(g, n, t, y, begun, working, open, begunNow, workingNow, openNow)
    BY <1>7, <1>9 DEF Starts
  <2> QED
    BY <1>7, <1>9, <2>1, LedgerStarts
<1> QED
  BY <1>5, <1>8 DEF openNow, chunk

\* Nobody has begun a stage that a thread on the way there has not.
LEMMA StageAhead ==
  ASSUME NEW g \in Seq(Seq(Nat)), NEW a \in Nat, NEW y \in Contract!Stages(g)
  PROVE  ~Beyond(g, a, Place("stage", y), y) /\ ~Beyond(g, a, Search(y[1]), y)
<1>1. y[1] \in Nat /\ y[2] \in Nat /\ y[1] \in 1 .. Len(g)
  BY StageFacts
<1>2. Place("stage", y).kind = "stage" /\ Place("stage", y).at = y
      /\ Search(y[1]).kind = "search" /\ Search(y[1]).at[1] = y[1]
  BY DEF Place, Search
<1>3. y # End
  BY <1>1 DEF End
<1> QED
  BY <1>1, <1>2, <1>3 DEF Beyond, Contract!Before

\* Looking for the next node: the walk.
LEMMA NextNodeWalks ==
  ASSUME PoolInv, PartsInv, PoolInv', NEW t \in Thread, NextNode(t), state'[t].pc # "work"
  PROVE  PartsInv'
<1> DEFINE g == tp.cgraph
           i == state[t].at[1]
<1>1. /\ tp' = tp /\ done' = done /\ KeepsRest(t) /\ state[t].pc = "node"
      /\ LET j == state[t].at[1]
         IN IF j > Len(state[t].cgraph) \/ tp.abort = j THEN Becomes(t, "barrier", End, t)
            ELSE IF Node(t) = <<>> THEN Becomes(t, "node", <<j + 1, 0>>, t)
            ELSE IF Claimed(t, 1) THEN Becomes(t, StageBarrier(t, 1), <<j, 0>>, t)
            ELSE Becomes(t, "work", <<j, 1>>, t)
  BY NextNodeEffect DEF NextNode, PoolInv, Shape
<1>2. /\ g \in Seq(Seq(Nat)) /\ t \in Members /\ ~Over /\ state[t].cgraph = g
      /\ tp.abort \in Nat /\ i \in 1 .. Len(g) + 1 /\ PlaceOf(t) = Search(i)
      /\ state[t].pc \in Inside /\ ~AtEnd(t)
  BY <1>1, LocalPlace
<1>3. Node(t) = g[i] /\ \A s : Claimed(t, s) <=> g[i][s] # Contract!Slices
  BY <1>2 DEF Node, Claimed
<1> DEFINE over == i > Len(g) \/ tp.abort = i
           first == state'[t].pc = StageBarrier(t, 1) /\ state'[t].at = <<i, 0>>
<1>4. /\ \A u \in Thread \ {t} : state'[u] = state[u]
      /\ \/ over /\ state'[t].pc = "barrier" /\ state'[t].at = End
         \/ ~over /\ g[i] = <<>> /\ state'[t].pc = "node" /\ state'[t].at = <<i + 1, 0>>
         \/ ~over /\ g[i] # <<>> /\ first
  BY <1>1, <1>2, <1>3 DEF Becomes
<1>5. first => state'[t].pc = IF t = 0 /\ ClaimedStage(g, <<i, 1>>) THEN "set" ELSE "barrier"
  BY <1>3 DEF StageBarrier, ClaimedStage
<1>6. /\ state'[t].pc \in {"node", "barrier", "set"} /\ state'[t].pc \in Inside
      /\ ~Released(t)' /\ ~AtEnd(t)' /\ ~OnStage(t) /\ ~OnStage(t)'
  BY <1>1, <1>4, <1>5 DEF Inside, Released, AtEnd, OnStage
<1>7. Noticed(t)'
  BY <1>1, <1>2, InGraph DEF Noticed, KeepsRest
<1>8. PlaceOf(t)' = PlaceAt(state'[t].pc, state'[t].at)
  BY <1>6, <1>7, PlaceNow
<1>9. \/ over /\ PlaceOf(t)' = Place("barrier", End)
      \/ Skips(g, tp.abort, i) /\ PlaceOf(t)' = Search(i + 1)
      \/ ~over /\ PlaceOf(t)' = Place("barrier", <<i, 0>>)
  <2>1. ~over => i \in DOMAIN g
    BY <1>2
  <2> QED
    BY <1>4, <1>5, <1>8, <2>1 DEF PlaceAt, Skips, Search
<1>10. i \in Nat /\ (~over => i <= Len(g) /\ tp.abort # i)
  BY <1>2
<1>11. InTime(tp.abort, Search(i))
  BY <1>2 DEF PartsInv, Aborts
<1>12. /\ InTime(tp.abort, PlaceOf(t)')
       /\ \A z \in Contract!Stages(g) :
            Beyond(g, tp.abort, PlaceOf(t)', z) <=> Beyond(g, tp.abort, PlaceOf(t), z)
  <2> DEFINE p == PlaceOf(t)'
             a == tp.abort
  <2>1. /\ g \in Seq(Seq(Nat)) /\ a \in Nat /\ i \in 1 .. Len(g) + 1 /\ InTime(a, Search(i))
        /\ \/ Skips(g, a, i) /\ p = Search(i + 1)
           \/ i <= Len(g) /\ a # i /\ p = Place("barrier", <<i, 0>>)
           \/ (i > Len(g) \/ a = i) /\ p = Place("barrier", End)
    BY <1>2, <1>9, <1>10, <1>11
  <2>2. PlaceOf(t) = Search(i)
    BY <1>2
  <2> HIDE DEF p, a, g, i
  <2>3. InTime(a, p) /\ \A z \in Contract!Stages(g) : Beyond(g, a, p, z) <=> Beyond(g, a, Search(i), z)
    BY <2>1, BeyondSearch
  <2> QED
    BY <2>2, <2>3 DEF p, a
<1>13. OpenTo(t)' = OpenTo(t)
  BY <1>2, <1>9 DEF OpenTo, Place, Search
<1>14. t = 0 => ChunkIsSet'
  <2> SUFFICES ASSUME t = 0 PROVE ChunkIsSet'
    OBVIOUS
  <2>1. CASE first /\ ~over /\ g[i] # <<>>
    <3>1. Behind(g, <<i, 0>>) = Place("stage", <<i, 1>>)
      <4>1. i \in 1 .. Len(g)
        BY <1>2, <2>1
      <4>2. g[i] \in Seq(Nat)
        BY <1>2, <4>1
      <4>3. Len(g[i]) # 0
        BY <2>1, <4>2
      <4> QED
        BY <4>3 DEF Behind
    <3>2. Behind(g, <<i, 0>>).at = <<i, 1>>
      BY <3>1 DEF Place
    <3> QED
      BY <1>1, <1>5, <2>1, <3>2 DEF ChunkIsSet
  <2>2. CASE state'[t].pc = "barrier" /\ state'[t].at = End
    BY <2>2 DEF ChunkIsSet
  <2>3. CASE state'[t].pc = "node"
    BY <2>3 DEF ChunkIsSet
  <2> QED
    BY <1>4, <2>1, <2>2, <2>3
<1>15. ~Over'
  BY <1>6, StillIn
<1>16. PoolKeeps /\ tp'.abort = tp.abort /\ tp'.ec = tp.ec /\ tp'.current_chunk = tp.current_chunk
  BY <1>1 DEF PoolKeeps
<1> QED
  BY <1>1, <1>2, <1>4, <1>6, <1>12, <1>13, <1>14, <1>15, <1>16, Walks

\* ... and the first stage of a node, when it is sliced.
LEMMA NextNodeStarts ==
  ASSUME PoolInv, PartsInv, PoolInv', NEW t \in Thread, NextNode(t), state'[t].pc = "work"
  PROVE  PartsInv'
<1> DEFINE g == tp.cgraph
           n == tp.n_graph[2]
           a == tp.abort
           i == state[t].at[1]
           y == <<i, 1>>
<1>1. /\ tp' = tp /\ done' = done /\ KeepsRest(t) /\ state[t].pc = "node"
      /\ LET j == state[t].at[1]
         IN IF j > Len(state[t].cgraph) \/ tp.abort = j THEN Becomes(t, "barrier", End, t)
            ELSE IF Node(t) = <<>> THEN Becomes(t, "node", <<j + 1, 0>>, t)
            ELSE IF Claimed(t, 1) THEN Becomes(t, StageBarrier(t, 1), <<j, 0>>, t)
            ELSE Becomes(t, "work", <<j, 1>>, t)
  BY NextNodeEffect DEF NextNode, PoolInv, Shape
<1>2. /\ g \in Seq(Seq(Nat)) /\ t \in Members /\ ~Over /\ state[t].cgraph = g
      /\ a \in Nat /\ i \in 1 .. Len(g) + 1 /\ PlaceOf(t) = Search(i)
      /\ state[t].pc \in Inside /\ ~AtEnd(t)
  BY <1>1, LocalPlace
<1>3. /\ i <= Len(g) /\ a # i /\ g[i] # <<>> /\ ~ClaimedStage(g, y)
      /\ Becomes(t, "work", y, t)
  <2>1. StageBarrier(t, 1) # "work"
    BY DEF StageBarrier
  <2>2. \A at, c : \A pc \in {"barrier", "node", StageBarrier(t, 1)} : ~Becomes(t, pc, at, c)
    BY <2>1 DEF Becomes
  <2>3. /\ ~(i > Len(g) \/ a = i) /\ Node(t) # <<>> /\ ~Claimed(t, 1)
        /\ Becomes(t, "work", y, t)
    BY <1>1, <1>2, <2>2
  <2>4. Node(t) = g[i] /\ (Claimed(t, 1) <=> ClaimedStage(g, y))
    BY <1>2 DEF Node, Claimed, ClaimedStage
  <2> QED
    BY <1>2, <2>3, <2>4
<1>4. y \in Contract!Stages(g) /\ y[1] = i
  <2>1. i \in 1 .. Len(g)
    BY <1>2, <1>3
  <2>2. g[i] \in Seq(Nat)
    BY <1>2, <2>1
  <2>3. 1 \in 1 .. Len(g[i])
    BY <1>3, <2>2
  <2> QED
    BY <1>2, <2>1, <2>3, StageFacts
<1>5. /\ state'[t].pc = "work" /\ state'[t].at = y /\ state'[t].chunk = t
      /\ \A u \in Thread \ {t} : state'[u] = state[u]
  BY <1>3 DEF Becomes
<1>6. Noticed(t)'
  BY <1>1, <1>2, InGraph DEF Noticed, KeepsRest
<1>7. Aborts /\ ChunkIsSet /\ PartsLedger /\ InTime(a, Search(i))
  BY <1>2 DEF PartsInv, Aborts
<1> HIDE DEF y
<1>8. /\ InTime(a, Place("stage", y))
      /\ \A z \in Contract!Stages(g) :
           Beyond(g, a, Place("stage", y), z) <=> Beyond(g, a, Search(i), z)
  <2>1. i <= Len(g) /\ a # i /\ Place("stage", y) = Place("stage", <<i, 1>>)
    BY <1>3 DEF y
  <2> HIDE DEF g, a, i
  <2> QED
    BY <1>2, <1>7, <2>1, BeyondSearch
<1>9. /\ OpenTo(t)' = {y} /\ Working(t)' = {<<y, t>>}
      /\ Begun(t)' = BegunIn(g, a, y)
      /\ InTime(a, PlaceOf(t)') /\ (t = 0 => ChunkIsSet')
  <2>1. tp'.cgraph = g /\ tp'.abort = a
    BY <1>1
  <2> QED
    BY <1>2, <1>4, <1>5, <1>6, <1>8, <2>1, StageHeld
<1>10. /\ OpenTo(t) = {} /\ Working(t) = {} /\ ~OnStage(t)
  BY <1>1, <1>2 DEF OpenTo, Working, OnStage, Search, Place
<1>11. Begun(t) = {z \in Contract!Stages(g) : Beyond(g, a, Search(i), z)}
  BY <1>2, <1>10 DEF Begun
<1>12. y \notin Begun(t) /\ Begun(t)' = Begun(t) \cup {y}
  <2>1. ~Beyond(g, a, Search(i), y)
    BY <1>2, <1>4, StageAhead
  <2> QED
    BY <1>4, <1>8, <1>9, <1>11, <2>1 DEF BegunIn
<1>13. /\ Members' = Members /\ Members \subseteq Thread /\ 0 \in Thread
       /\ \A u \in Members \ {t} : /\ PlaceOf(u)' = PlaceOf(u)
                                   /\ Working(u)' = Working(u)
                                   /\ OpenTo(u)' = OpenTo(u)
                                   /\ Begun(u)' = Begun(u)
  BY <1>1, <1>2, <1>5, CrewFacts, OthersStay DEF PoolKeeps
<1>14. Opened' = Opened \cup {y}
  BY <1>2, <1>9, <1>10, <1>13, OpenedMoves
<1>15. n \in Nat /\ Members = 0 .. n - 1 /\ tp.current_chunk \in Nat
  BY <1>2, CrewFacts
<1>16. t < Contract!Width(g[y[1]][y[2]], n)
  <2>1. t \in 0 .. n - 1 /\ ~ClaimedStage(g, y)
    BY <1>2, <1>3, <1>15
  <2> HIDE DEF g, n
  <2>2. Contract!Width(g[y[1]][y[2]], n) = n
    BY <1>2, <1>4, <1>15, <2>1, WidthFacts
  <2>3. t < n
    BY <1>15, <2>1
  <2> QED
    BY <2>2, <2>3
<1>17. Ledger(g, n, [u \in Members |-> Begun(u)], [u \in Members |-> Working(u)],
              Opened \cup {y}, done, tp.current_chunk)
  BY <1>2, <1>3, <1>4, <1>7, <1>15, LedgerOpens DEF PartsLedger
<1>18. PartsLedger'
  <2> DEFINE open == Opened \cup {y}
  <2>1. y \in open /\ Opened' \subseteq open /\ open \ Opened' \subseteq {y} /\ Opened' = open
    BY <1>14
  <2>2. /\ tp'.n_graph = tp.n_graph /\ tp'.cgraph = tp.cgraph
        /\ tp'.current_chunk = tp.current_chunk
    BY <1>1
  <2> HIDE DEF open
  <2>3. Ledger(tp.cgraph, tp.n_graph[2], [u \in Members |-> Begun(u)],
               [u \in Members |-> Working(u)], open, done, tp.current_chunk)
    BY <1>17 DEF open
  <2> QED
    BY <1>1, <1>2, <1>4, <1>9, <1>10, <1>12, <1>13, <1>16, <2>1, <2>2, <2>3, StartsLedger
<1>19. Aborts'
  BY <1>1, <1>7, <1>9, <1>13 DEF Aborts
<1>20. ChunkIsSet'
  BY <1>1, <1>5, <1>7, <1>9, <1>13, ChunkStays DEF PoolKeeps
<1>21. ~Over'
  BY <1>5, StillIn DEF Inside, AtEnd, Released
<1> QED
  BY <1>18, <1>19, <1>20, <1>21, PartsKept

\* While chunks are handed out, none will be behind the next barrier (GraphsAssumption).
LEMMA NoChunksAhead ==
  ASSUME PoolInv, ~Over, NEW y \in Opened, ClaimedStage(tp.cgraph, y),
         NEW u \in Members, NEW b, PlaceOf(u) = Place("barrier", b), b # End,
         Behind(tp.cgraph, b).kind = "stage"
  PROVE  ~ClaimedStage(tp.cgraph, Behind(tp.cgraph, b).at)
<1> DEFINE g == tp.cgraph
<1>1. g \in Graphs /\ g \in Seq(Seq(Nat))
  BY CrewFacts
<1>2. PICK v \in Members : PlaceOf(v) = Place("stage", y)
  BY OpenFacts
<1>3. y \in Contract!Stages(g)
  BY OpenFacts
<1>4. Both(g, tp.abort, PlaceOf(v), PlaceOf(u))
  BY CrewFacts
<1>5. BarrierOf(g, y) = b
  BY <1>2, <1>4 DEF Both, Agree, Place
<1>6. y = b
  BY <1>5 DEF BarrierOf
<1>7. b[2] # Len(g[b[1]]) /\ Behind(g, b).at = <<b[1], b[2] + 1>>
  BY DEF Behind, Search, Place
<1>8. b[1] \in 1 .. Len(g) /\ b[2] \in 1 .. Len(g[b[1]])
  BY <1>1, <1>3, <1>6, StageFacts
<1>9. b[1] \in DOMAIN g /\ g[b[1]] \in Seq(Nat)
  BY <1>1, <1>8
<1>10. b[2] \in 1 .. Len(g[b[1]]) - 1
  BY <1>7, <1>8, <1>9
<1>11. Contract!Slices \in {g[b[1]][b[2]], g[b[1]][b[2] + 1]}
  BY <1>1, <1>9, <1>10, GraphsAssumption
<1> QED
  BY <1>6, <1>7, <1>11 DEF ClaimedStage

\* The caller sets current_chunk: what is open is sliced.
LEMMA SetChunkParts ==
  ASSUME PoolInv, PartsInv, PoolInv', NEW t \in Thread, SetChunk(t)
  PROVE  PartsInv'
<1> DEFINE g == tp.cgraph
           n == tp.n_graph[2]
           b == state[t].at
<1>1. /\ PoolKeeps /\ done' = done /\ KeepsRest(t) /\ state[t].pc = "set"
      /\ tp'.abort = tp.abort /\ tp'.ec = tp.ec /\ tp'.current_chunk = state[t].nth
      /\ Becomes(t, "barrier", b, state[t].chunk)
  BY SetChunkEffect DEF SetChunk, PoolInv, Shape
<1>2. /\ g \in Seq(Seq(Nat)) /\ g \in Graphs /\ t \in Members /\ ~Over
      /\ state[t].nth = n /\ PlaceOf(t) = Place("barrier", b) /\ PlaceOf(t) \in Places(g)
      /\ t = 0 /\ b # End /\ Behind(g, b).kind = "stage"
      /\ state[t].pc \in Inside /\ ~AtEnd(t)
  BY <1>1, LocalPlace DEF PlaceAt, WellAt
<1>3. /\ state'[t].pc = "barrier" /\ state'[t].at = b
      /\ \A u \in Thread \ {t} : state'[u] = state[u]
  BY <1>1 DEF Becomes
<1>4. Noticed(t)'
  BY <1>2 DEF Noticed
<1>5. PlaceOf(t)' = Place("barrier", b)
  BY <1>3, <1>4, PlaceNow DEF Released, PlaceAt
<1>6. Aborts /\ ChunkIsSet /\ PartsLedger
  BY <1>2 DEF PartsInv
<1>7. ClaimedStage(g, Behind(g, b).at)
  BY <1>1, <1>2, <1>6 DEF ChunkIsSet
<1>9. \A y \in Opened : ~ClaimedStage(g, y)
  BY <1>2, <1>7, NoChunksAhead
<1>10. /\ Opened \subseteq Contract!Stages(g) /\ n \in Nat /\ tp.current_chunk \in Nat
       /\ Members = 0 .. n - 1 /\ Members \subseteq Thread
       /\ \A u \in Members : OpenTo(u) \subseteq Opened
  BY <1>2, CrewFacts, OpenFacts
<1> DEFINE begun == [u \in Members |-> Begun(u)]
           working == [u \in Members |-> Working(u)]
<1>11. \A u \in Members : \A p \in working[u] : p[1] \in Opened
  <2> SUFFICES ASSUME NEW u \in Members, NEW p \in working[u]
               PROVE  p[1] \in Opened
    OBVIOUS
  <2>1. state[u].pc = "work" /\ p[1] = state[u].at
    BY DEF Working
  <2>2. OpenTo(u) = {p[1]}
    BY <1>10, <2>1, StageThread DEF OnStage
  <2> QED
    BY <1>10, <2>2
<1>12. Ledger(g, n, begun, working, Opened, done, tp.current_chunk)
  BY <1>6 DEF PartsLedger
<1>13. /\ Members' = Members
       /\ \A u \in Members \ {t} : /\ PlaceOf(u)' = PlaceOf(u)
                                   /\ Working(u)' = Working(u)
                                   /\ OpenTo(u)' = OpenTo(u)
                                   /\ Begun(u)' = Begun(u)
  BY <1>1, <1>3, <1>10, OthersStay
<1>14. Begun(t)' = Begun(t) /\ Working(t)' = Working(t) /\ OpenTo(t)' = OpenTo(t)
  BY <1>1, <1>2, <1>3, <1>5 DEF Begun, Working, OpenTo, OnStage, PoolKeeps, Place
<1>15. /\ [u \in Members |-> Begun(u)]' = begun
       /\ [u \in Members |-> Working(u)]' = working
       /\ Opened' = Opened
  BY <1>2, <1>13, <1>14, OpenedMoves
<1>16. PartsLedger' <=> Ledger(g, n, begun, working, Opened, done, n)
  BY <1>1, <1>2, <1>15 DEF PartsLedger, PoolKeeps
<1> HIDE DEF begun, working
<1>17. PartsLedger'
  <2> HIDE DEF g, n
  <2>1. \A u \in 0 .. n - 1 : \A p \in working[u] : p[1] \in Opened
    BY <1>10, <1>11
  <2> QED
    BY <1>2, <1>9, <1>10, <1>12, <1>16, <2>1, LedgerSets
<1>18. Aborts'
  BY <1>1, <1>2, <1>5, <1>6, <1>13 DEF Aborts, PoolKeeps
<1>19. ChunkIsSet'
  BY <1>1, <1>2, <1>3 DEF ChunkIsSet, PoolKeeps
<1>20. ~Over'
  BY <1>3, StillIn DEF Inside, AtEnd, Released
<1> QED
  BY <1>17, <1>18, <1>19, <1>20, PartsKept

\* A part is computed.
LEMMA WorkParts ==
  ASSUME PoolInv, PartsInv, PoolInv', NEW t \in Thread, Work(t)
  PROVE  PartsInv'
<1> DEFINE g == tp.cgraph
           n == tp.n_graph[2]
           a == tp.abort
           y == state[t].at
           p == <<y, state[t].chunk>>
           w == Contract!Width(g[y[1]][y[2]], n)
<1>1. /\ tp' = tp /\ KeepsRest(t) /\ done' = done \cup {p} /\ state[t].pc = "work"
      /\ \/ Becomes(t, "claim", y, state[t].chunk)
         \/ Parts(t) <= state[t].nth /\ Becomes(t, StageEnd(t, y[2]), y, state[t].chunk)
  BY WorkEffect DEF Work, PoolInv, Shape
<1>2. /\ ~Over /\ t \in Members /\ Noticed(t) /\ PlaceOf(t) = Place("stage", y)
      /\ y \in Contract!Stages(g) /\ state[t].nth = n /\ Node(t) = g[y[1]] /\ OpenTo(t) = {y}
  BY <1>1, StageThread DEF OnStage
<1>3. /\ g \in Seq(Seq(Nat)) /\ n \in Nat /\ tp.current_chunk \in Nat /\ a \in Nat
      /\ Members = 0 .. n - 1 /\ Members \subseteq Thread /\ 0 \in Members
  BY <1>2, CrewFacts
<1>4. Aborts /\ ChunkIsSet /\ PartsLedger /\ InTime(a, Place("stage", y))
  BY <1>2 DEF PartsInv, Aborts
<1>5. /\ state'[t].at = y /\ Noticed(t)' /\ \A u \in Thread \ {t} : state'[u] = state[u]
      /\ \/ state'[t].pc = "claim"
         \/ w <= n /\ state'[t].pc = StageEnd(t, y[2])
  BY <1>1, <1>2 DEF Becomes, KeepsRest, Noticed, Parts
<1>6. Working(t) = {p} /\ Begun(t) = BegunIn(g, a, y)
  BY <1>1, <1>2 DEF Working, Begun, BegunIn, OnStage
<1>7. tp'.cgraph = g /\ tp'.abort = a
  BY <1>1
<1>8. /\ Working(t)' = {} /\ Begun(t)' = Begun(t)
      /\ InTime(a, PlaceOf(t)') /\ (t = 0 => ChunkIsSet')
      /\ OpenTo(t)' = {y} \/ (w <= n /\ OpenTo(t)' = {})
  <2>1. CASE state'[t].pc = "claim"
    <3>1. /\ y \in Contract!Stages(g) /\ InTime(a, Place("stage", y)) /\ Noticed(t)'
          /\ tp'.cgraph = g /\ tp'.abort = a /\ state'[t].at = y /\ state'[t].pc \in {"work", "claim"}
          /\ g \in Seq(Seq(Nat)) /\ a \in Nat
      BY <1>2, <1>3, <1>4, <1>5, <1>7, <2>1
    <3> HIDE DEF y, g, a
    <3>2. /\ OpenTo(t)' = {y}
          /\ Working(t)' = IF state'[t].pc = "work" THEN {<<y, state'[t].chunk>>} ELSE {}
          /\ Begun(t)' = BegunIn(g, a, y)
          /\ InTime(a, PlaceOf(t)') /\ (t = 0 => ChunkIsSet')
      BY <3>1, StageHeld
    <3> QED
      BY <1>6, <2>1, <3>2
  <2>2. CASE w <= n /\ state'[t].pc = StageEnd(t, y[2])
    <3>1. /\ y \in Contract!Stages(g) /\ InTime(a, Place("stage", y)) /\ Noticed(t)'
          /\ tp'.cgraph = g /\ tp'.abort = a /\ state'[t].at = y /\ state'[t].pc = StageEnd(t, y[2])
          /\ g \in Seq(Seq(Nat)) /\ a \in Nat /\ Node(t) = g[y[1]]
      BY <1>2, <1>3, <1>4, <1>5, <1>7, <2>2
    <3> HIDE DEF y, g, a
    <3>2. /\ OpenTo(t)' = {} /\ Working(t)' = {}
          /\ Begun(t)' = BegunIn(g, a, y)
          /\ InTime(a, PlaceOf(t)') /\ (t = 0 => ChunkIsSet')
      BY <3>1, StageLeft
    <3> QED
      BY <1>6, <2>2, <3>2
  <2> QED
    BY <1>5, <2>1, <2>2
<1>9. /\ Members' = Members
      /\ \A u \in Members \ {t} : /\ PlaceOf(u)' = PlaceOf(u)
                                  /\ Working(u)' = Working(u)
                                  /\ OpenTo(u)' = OpenTo(u)
                                  /\ Begun(u)' = Begun(u)
  BY <1>1, <1>3, <1>5, OthersStay DEF PoolKeeps
<1>10. Opened' \subseteq Opened /\ Opened \ Opened' \subseteq {y} /\ (Opened' # Opened => w <= n)
  BY <1>2, <1>8, <1>9, OpenedMoves
<1> DEFINE begun == [u \in Members |-> Begun(u)]
           working == [u \in Members |-> Working(u)]
           workingNow == [u \in Members |-> Working(u)']
           openNow == Opened'
<1>11. /\ [u \in Members |-> Begun(u)]' = begun
       /\ [u \in Members |-> Working(u)]' = workingNow
  BY <1>8, <1>9
<1>12. PartsLedger' <=> Ledger(g, n, begun, workingNow, openNow, done \cup {p}, tp.current_chunk)
  BY <1>1, <1>11 DEF PartsLedger
<1>13. /\ working[t] = {p} /\ workingNow[t] = {}
       /\ \A u \in Members \ {t} : workingNow[u] = working[u]
  BY <1>2, <1>6, <1>8, <1>9
<1>14. Ledger(g, n, begun, working, Opened, done, tp.current_chunk)
  BY <1>4 DEF PartsLedger
<1>15. p[1] = y
  OBVIOUS
<1> HIDE DEF begun, working, workingNow, openNow, p
<1>16. Computes(g, n, t, p, working, Opened, workingNow, openNow)
  BY <1>3, <1>10, <1>13, <1>15 DEF Computes, openNow
<1>17. PartsLedger'
  <2> HIDE DEF g, n
  <2> QED
    BY <1>2, <1>3, <1>12, <1>14, <1>16, LedgerComputes
<1>18. Aborts'
  BY <1>1, <1>4, <1>8, <1>9 DEF Aborts
<1>19. ChunkIsSet'
  BY <1>1, <1>3, <1>4, <1>5, <1>8, ChunkStays DEF PoolKeeps
<1>20. ~Over'
  <2>1. state'[t].pc \in {"claim", "set", "barrier", "node_done"}
    BY <1>5, StageEndPc
  <2> QED
    BY <2>1, StillIn DEF Inside, AtEnd, Released
<1> QED
  BY <1>17, <1>18, <1>19, <1>20, PartsKept

\* A chunk is claimed.
LEMMA ClaimParts ==
  ASSUME PoolInv, PartsInv, PoolInv', NEW t \in Thread, Claim(t)
  PROVE  PartsInv'
<1> DEFINE g == tp.cgraph
           n == tp.n_graph[2]
           a == tp.abort
           y == state[t].at
           chunk == tp.current_chunk
           w == Contract!Width(g[y[1]][y[2]], n)
<1>1. /\ PoolKeeps /\ KeepsRest(t) /\ done' = done /\ state[t].pc = "claim"
      /\ tp'.abort = tp.abort /\ tp'.ec = tp.ec /\ tp'.current_chunk = chunk + 1
      /\ Becomes(t, IF chunk < Parts(t) THEN "work" ELSE StageEnd(t, y[2]), y, chunk)
  BY ClaimEffect DEF Claim, PoolInv, Shape
<1>2. /\ ~Over /\ t \in Members /\ Noticed(t) /\ PlaceOf(t) = Place("stage", y)
      /\ y \in Contract!Stages(g) /\ state[t].nth = n /\ Node(t) = g[y[1]] /\ OpenTo(t) = {y}
  BY <1>1, StageThread DEF OnStage
<1>3. /\ g \in Seq(Seq(Nat)) /\ n \in Nat /\ chunk \in Nat /\ a \in Nat
      /\ Members = 0 .. n - 1 /\ Members \subseteq Thread /\ 0 \in Members
  BY <1>2, CrewFacts
<1>4. Aborts /\ ChunkIsSet /\ PartsLedger /\ InTime(a, Place("stage", y))
  BY <1>2 DEF PartsInv, Aborts
<1>5. ClaimedStage(g, y) /\ Opened = {y}
  <2>1. WellAt(t, g, state[t].pc, y)
    BY <1>1, LocalPlace
  <2>2. y \in Opened
    BY <1>2, OpenFacts
  <2> QED
    BY <1>1, <1>2, <2>1, <2>2, OpenFacts DEF WellAt, ClaimedStage
<1>6. /\ state'[t].at = y /\ state'[t].chunk = chunk /\ Noticed(t)'
      /\ \A u \in Thread \ {t} : state'[u] = state[u]
      /\ state'[t].pc = IF chunk < w THEN "work" ELSE StageEnd(t, y[2])
  BY <1>1, <1>2 DEF Becomes, KeepsRest, Noticed, Parts, PoolKeeps
<1>7. Working(t) = {} /\ Begun(t) = BegunIn(g, a, y)
  BY <1>1, <1>2 DEF Working, Begun, BegunIn, OnStage
<1>8. tp'.cgraph = g /\ tp'.abort = a /\ tp'.n_graph = tp.n_graph
  BY <1>1 DEF PoolKeeps
<1>9. /\ Begun(t)' = Begun(t) /\ InTime(a, PlaceOf(t)') /\ (t = 0 => ChunkIsSet')
      /\ IF chunk < w THEN OpenTo(t)' = {y} /\ Working(t)' = {<<y, chunk>>}
         ELSE OpenTo(t)' = {} /\ Working(t)' = {}
  <2>1. CASE chunk < w
    <3>1. /\ y \in Contract!Stages(g) /\ InTime(a, Place("stage", y)) /\ Noticed(t)'
          /\ tp'.cgraph = g /\ tp'.abort = a /\ state'[t].at = y /\ state'[t].pc \in {"work", "claim"}
          /\ g \in Seq(Seq(Nat)) /\ a \in Nat
      BY <1>2, <1>3, <1>4, <1>6, <1>8, <2>1
    <3> HIDE DEF y, g, a
    <3>2. /\ OpenTo(t)' = {y}
          /\ Working(t)' = IF state'[t].pc = "work" THEN {<<y, state'[t].chunk>>} ELSE {}
          /\ Begun(t)' = BegunIn(g, a, y)
          /\ InTime(a, PlaceOf(t)') /\ (t = 0 => ChunkIsSet')
      BY <3>1, StageHeld
    <3> QED
      BY <1>6, <1>7, <2>1, <3>2
  <2>2. CASE ~(chunk < w)
    <3>1. /\ y \in Contract!Stages(g) /\ InTime(a, Place("stage", y)) /\ Noticed(t)'
          /\ tp'.cgraph = g /\ tp'.abort = a /\ state'[t].at = y /\ state'[t].pc = StageEnd(t, y[2])
          /\ g \in Seq(Seq(Nat)) /\ a \in Nat /\ Node(t) = g[y[1]]
      BY <1>2, <1>3, <1>4, <1>6, <1>8, <2>2
    <3> HIDE DEF y, g, a
    <3>2. /\ OpenTo(t)' = {} /\ Working(t)' = {}
          /\ Begun(t)' = BegunIn(g, a, y)
          /\ InTime(a, PlaceOf(t)') /\ (t = 0 => ChunkIsSet')
      BY <3>1, StageLeft
    <3> QED
      BY <1>7, <2>2, <3>2
  <2> QED
    BY <2>1, <2>2
<1>10. /\ Members' = Members
       /\ \A u \in Members \ {t} : /\ PlaceOf(u)' = PlaceOf(u)
                                   /\ Working(u)' = Working(u)
                                   /\ OpenTo(u)' = OpenTo(u)
                                   /\ Begun(u)' = Begun(u)
  BY <1>1, <1>3, <1>6, OthersStay
<1>11. Opened' \subseteq Opened /\ (chunk < w => Opened' = Opened)
  BY <1>2, <1>9, <1>10, OpenedMoves
<1> DEFINE begun == [u \in Members |-> Begun(u)]
           working == [u \in Members |-> Working(u)]
           workingNow == [u \in Members |-> Working(u)']
           openNow == Opened'
<1>12. /\ [u \in Members |-> Begun(u)]' = begun
       /\ [u \in Members |-> Working(u)]' = workingNow
  BY <1>9, <1>10
<1>13. PartsLedger' <=> Ledger(g, n, begun, workingNow, openNow, done, chunk + 1)
  BY <1>1, <1>8, <1>12 DEF PartsLedger
<1>14. /\ working[t] = {} /\ workingNow[t] = Working(t)' /\ y \in begun[t]
       /\ \A u \in Members \ {t} : workingNow[u] = working[u]
  BY <1>2, <1>7, <1>10 DEF BegunIn
<1>15. Ledger(g, n, begun, working, Opened, done, chunk)
  BY <1>4 DEF PartsLedger
<1> HIDE DEF begun, working, workingNow, openNow
<1>16. Claims(g, n, t, y, chunk, begun, working, Opened, workingNow, openNow)
  BY <1>2, <1>3, <1>5, <1>9, <1>11, <1>14 DEF Claims, openNow
<1>17. PartsLedger'
  <2> HIDE DEF g, n, chunk
  <2> QED
    BY <1>2, <1>3, <1>13, <1>15, <1>16, LedgerClaims
<1>18. Aborts'
  BY <1>1, <1>4, <1>8, <1>9, <1>10 DEF Aborts
<1>19. ChunkIsSet'
  <2>1. CASE t = 0
    BY <1>9, <2>1
  <2>2. CASE t # 0
    <3>1. state'[0] = state[0] /\ (Released(0)' <=> Released(0))
      BY <1>1, <1>3, <1>6, <2>2 DEF Released, PoolKeeps
    <3> DEFINE b == state[0].at
    <3>2. ASSUME state[0].pc \in {"barrier", "enter", "last", "release", "spin"}, ~Released(0),
                 b # End, Behind(g, b).kind = "stage"
          PROVE  ~ClaimedStage(g, Behind(g, b).at)
      <4>1. PlaceOf(0) = Place("barrier", b)
        BY <3>2 DEF PlaceOf, PlaceAt, Noticed
      <4> QED
        BY <1>2, <1>3, <1>5, <3>2, <4>1, NoChunksAhead
    <3> QED
      BY <1>4, <1>8, <3>1, <3>2 DEF ChunkIsSet
  <2> QED
    BY <2>1, <2>2
<1>20. ~Over'
  <2>1. state'[t].pc \in {"work", "set", "barrier", "node_done"}
    BY <1>6, StageEndPc
  <2> QED
    BY <2>1, StillIn DEF Inside, AtEnd, Released
<1> QED
  BY <1>17, <1>18, <1>19, <1>20, PartsKept

\* A node is finished: the barrier behind it, and the abort ahead of everybody.
LEMMA NodeDoneParts ==
  ASSUME PoolInv, PartsInv, PoolInv', NEW t \in Thread, NodeDone(t)
  PROVE  PartsInv'
<1> DEFINE g == tp.cgraph
           a == tp.abort
           now == tp'.abort
           y == state[t].at
           q == Place("barrier", BarrierOf(g, y))
<1>1. /\ PoolKeeps /\ KeepsRest(t) /\ done' = done /\ state[t].pc = "node_done"
      /\ tp'.current_chunk = tp.current_chunk
      /\ \/ tp'.abort = tp.abort /\ tp'.ec = tp.ec
         \/ t = 0 /\ tp'.abort = y[1] + 1 /\ tp'.ec = "aborted"
      /\ Becomes(t, "barrier", IF y[1] < Len(state[t].cgraph) THEN y ELSE End, state[t].chunk)
  BY NodeDoneEffect DEF NodeDone, PoolInv, Shape
<1>2. /\ ~Over /\ t \in Members /\ Noticed(t) /\ PlaceOf(t) = Place("stage", y)
      /\ y \in Contract!Stages(g) /\ state[t].cgraph = g
  BY <1>1, StageThread DEF OnStage
<1>3. y[2] = Len(g[y[1]]) /\ PlaceOf(t) \in Places(g)
  BY <1>1, LocalPlace DEF WellAt
<1>4. /\ g \in Seq(Seq(Nat)) /\ a \in Nat /\ Members \subseteq Thread /\ 0 \in Members
      /\ \A u \in Members : PlaceOf(u) \in Places(g) /\ Both(g, a, PlaceOf(t), PlaceOf(u))
  BY <1>2, CrewFacts
<1>5. Aborts /\ ChunkIsSet /\ PartsLedger /\ \A u \in Members : InTime(a, PlaceOf(u))
  BY <1>2 DEF PartsInv, Aborts
<1>6. y[1] \in 1 .. Len(g) /\ y[1] \in Nat
  BY <1>2, <1>4, StageFacts
<1>7. BarrierOf(g, y) = IF y[1] < Len(g) THEN y ELSE End
  <2>1. y[1] < Len(g) <=> y[1] # Len(g)
    BY <1>4, <1>6
  <2> QED
    BY <1>3, <2>1 DEF BarrierOf
<1>8. /\ state'[t].pc = "barrier" /\ state'[t].at = BarrierOf(g, y) /\ Noticed(t)'
      /\ \A u \in Thread \ {t} : state'[u] = state[u]
  BY <1>1, <1>2, <1>7 DEF Becomes, KeepsRest, Noticed, PoolKeeps
<1>9. PlaceOf(t)' = q
  BY <1>8, PlaceNow DEF Released, PlaceAt
<1>10. /\ InTime(a, q)
       /\ \A z \in Contract!Stages(g) :
            Beyond(g, a, q, z) <=> Beyond(g, a, Place("stage", y), z) \/ z = y
  <2> HIDE DEF g, a, y
  <2> QED
    BY <1>2, <1>4, <1>5, BeyondStage
<1>11. q \in Places(g) /\ Both(g, a, Place("stage", y), q)
  <2>1. Both(g, a, Place("stage", y), Place("stage", y))
    BY <1>2, <1>4
  <2>2. Both(g, a, q, Place("stage", y))
    <3> HIDE DEF g, a, y
    <3> QED
      BY <1>2, <1>3, <1>4, <2>1, AgreeStageDone
  <2> QED
    BY <1>2, <1>4, <2>2, InPlaces DEF Both
<1>12. ASSUME NEW r \in Places(g), Both(g, a, Place("stage", y), r), InTime(a, r)
       PROVE  /\ InTime(now, r)
              /\ \A z \in Contract!Stages(g) : Beyond(g, now, r, z) <=> Beyond(g, a, r, z)
  <2>1. CASE now = a
    BY <1>12, <2>1
  <2>2. CASE now # a
    <3>1. now = y[1] + 1 /\ InTime(a, Place("stage", y))
      BY <1>1, <1>2, <1>5, <2>2
    <3> HIDE DEF g, a, y, now
    <3> QED
      BY <1>2, <1>4, <1>12, <3>1, BeyondAbort
  <2> QED
    BY <2>1, <2>2
<1>13. /\ Members' = Members
       /\ \A u \in Members \ {t} : /\ PlaceOf(u)' = PlaceOf(u)
                                   /\ Working(u)' = Working(u)
                                   /\ OpenTo(u)' = OpenTo(u)
  BY <1>1, <1>4, <1>8, OthersStay
<1>14. ASSUME NEW u \in Members \ {t}
       PROVE  Begun(u)' = Begun(u) /\ InTime(now, PlaceOf(u)')
  <2>1. /\ InTime(now, PlaceOf(u))
        /\ \A z \in Contract!Stages(g) : Beyond(g, now, PlaceOf(u), z) <=> Beyond(g, a, PlaceOf(u), z)
    BY <1>2, <1>4, <1>5, <1>12
  <2>2. state'[u] = state[u] /\ PlaceOf(u)' = PlaceOf(u) /\ tp'.cgraph = g
    BY <1>1, <1>4, <1>8, <1>13 DEF PoolKeeps
  <2> QED
    BY <2>1, <2>2 DEF Begun, OnStage
<1>15. /\ InTime(now, PlaceOf(t)')
       /\ \A z \in Contract!Stages(g) : Beyond(g, now, PlaceOf(t)', z)
                                          <=> Beyond(g, a, Place("stage", y), z) \/ z = y
  BY <1>9, <1>10, <1>11, <1>12
<1>16. Begun(t)' = Begun(t)
  <2>1. Begun(t) = BegunIn(g, a, y)
    BY <1>1, <1>2 DEF Begun, BegunIn, OnStage
  <2>2. Begun(t)' = {z \in Contract!Stages(g) : Beyond(g, now, PlaceOf(t)', z)}
    BY <1>1, <1>8 DEF Begun, OnStage, PoolKeeps
  <2> QED
    BY <1>15, <2>1, <2>2 DEF BegunIn
<1>17. Working(t)' = Working(t) /\ OpenTo(t)' = OpenTo(t)
  BY <1>1, <1>8, <1>9 DEF Working, OpenTo, Place
<1>18. PartsLedger'
  BY <1>1, <1>5, <1>13, <1>14, <1>16, <1>17, LedgerStays DEF PoolKeeps
<1>19. Aborts'
  <2>1. \A u \in Members' : InTime(now, PlaceOf(u)')
    BY <1>13, <1>14, <1>15
  <2>2. now # 1 /\ tp'.ec = IF now = 0 THEN "success" ELSE "aborted"
    <3>1. CASE tp'.abort = tp.abort /\ tp'.ec = tp.ec
      BY <1>5, <3>1 DEF Aborts
    <3>2. CASE tp'.abort = y[1] + 1 /\ tp'.ec = "aborted"
      <4>1. now # 1 /\ now # 0
        BY <1>6, <3>2
      <4> QED
        BY <3>2, <4>1
    <3> QED
      BY <1>1, <3>1, <3>2
  <2> QED
    BY <2>1, <2>2 DEF Aborts
<1>20. ChunkIsSet'
  <2>1. CASE t = 0
    <3>1. state'[0].at = End \/ Behind(g, state'[0].at).kind # "stage"
      BY <1>3, <1>7, <1>8, <2>1 DEF Behind, Search, Place
    <3> QED
      BY <1>1, <1>8, <2>1, <3>1 DEF ChunkIsSet, PoolKeeps
  <2>2. CASE t # 0
    BY <1>1, <1>4, <1>5, <1>8, <2>2, ChunkStays
  <2> QED
    BY <2>1, <2>2
<1>21. ~Over'
  BY <1>8, StillIn DEF Inside, AtEnd, Released
<1> QED
  BY <1>18, <1>19, <1>20, <1>21, PartsKept

-----------------------------------------------------------------------------
(* Past the barrier                                                        *)

\* What is kept of the pool.
PoolRests ==
  /\ tp'.n_graph = tp.n_graph /\ tp'.cgraph = tp.cgraph /\ tp'.abort = tp.abort
  /\ tp'.ec = tp.ec /\ tp'.current_chunk = tp.current_chunk /\ done' = done

\* Thread t passes the barrier b, and what is behind it is open to it.
LEMMA PassParts ==
  ASSUME PoolInv, PartsInv, PoolInv', NEW t \in Members, ~Over, Noticed(t), Past(t), PoolRests,
         state[t].pc \in {"barrier", "release", "spin"}, NEW b, b = state[t].at, b # End,
         Place("barrier", b) \in Places(tp.cgraph),
         state[t].cgraph = tp.cgraph, state[t].nth = tp.n_graph[2],
         Begun(t) = {z \in Contract!Stages(tp.cgraph) :
                       Beyond(tp.cgraph, tp.abort, Behind(tp.cgraph, b), z)},
         InTime(tp.abort, Behind(tp.cgraph, b)),
         \A u \in Members \ {t} : /\ Begun(u)' = Begun(u)
                                  /\ Working(u)' = Working(u)
                                  /\ InTime(tp.abort, PlaceOf(u)'),
         t # 0 => ChunkIsSet',
         NEW open,
         Ledger(tp.cgraph, tp.n_graph[2], [u \in Members |-> Begun(u)],
                [u \in Members |-> Working(u)], open, done, tp.current_chunk),
         \A u \in Members \ {t} : OpenTo(u)' \subseteq open,
         IF Behind(tp.cgraph, b).kind = "stage"
         THEN Behind(tp.cgraph, b).at \in open /\ open \ {Behind(tp.cgraph, b).at} \subseteq Opened'
         ELSE open \subseteq Opened'
  PROVE  PartsInv'
<1> DEFINE g == tp.cgraph
           n == tp.n_graph[2]
           a == tp.abort
           y == <<b[1], b[2] + 1>>
           w == Contract!Width(g[y[1]][y[2]], n)
<1>1. /\ g \in Seq(Seq(Nat)) /\ a \in Nat /\ n \in Nat /\ Members = 0 .. n - 1 /\ n > 0
      /\ Members \subseteq Thread /\ 0 \in Members /\ t \in Thread
  BY CrewFacts
<1>2. /\ b[1] \in 1 .. Len(g) /\ b[2] \in 0 .. Len(g[b[1]])
      /\ b[2] # Len(g[b[1]]) => y \in Contract!Stages(g)
  <2>1. Place("barrier", b).kind = "barrier" /\ Place("barrier", b).at = b
    BY DEF Place
  <2> HIDE DEF g
  <2> QED
    BY <1>1, <2>1, BehindIsPlace DEF g
<1>3. Node(t) = g[b[1]] /\ b[1] # 0
  BY <1>1, <1>2 DEF Node
<1>4. /\ KeepsRest(t)
      /\ IF b[2] = Len(Node(t)) THEN Becomes(t, "node", <<b[1] + 1, 0>>, state[t].chunk)
         ELSE Becomes(t, IF t < Contract!Width(Node(t)[b[2] + 1], state[t].nth)
                         THEN "work" ELSE StageEnd(t, b[2] + 1), y, t)
  BY <1>1, <1>3, PastEffect DEF PoolInv
<1>5. Noticed(t)'
  BY <1>4 DEF Noticed, KeepsRest, PoolRests
<1>6. tp'.cgraph = g /\ tp'.abort = a /\ Members' = Members
  BY DEF PoolRests, Members
<1>7. Aborts
  BY DEF PartsInv
<1>8. Working(t) = {}
  BY DEF Working
<1>9. CASE b[2] = Len(g[b[1]])
  <2> DEFINE q == Search(b[1] + 1)
  <2>1. Behind(g, b) = q /\ q.kind = "search" /\ q = Place("search", <<b[1] + 1, 0>>)
    BY <1>9 DEF Behind, Search, Place
  <2>2. state'[t].pc = "node" /\ state'[t].at = <<b[1] + 1, 0>>
    BY <1>3, <1>4, <1>9 DEF Becomes
  <2>3. PlaceOf(t)' = q
    BY <1>5, <2>1, <2>2, PlaceNow DEF PlaceAt, Released
  <2>4. /\ Begun(t)' = Begun(t) /\ Working(t)' = Working(t) /\ OpenTo(t)' = {}
        /\ (t = 0 => ChunkIsSet')
    BY <1>6, <1>8, <2>1, <2>2, <2>3 DEF Begun, Working, OpenTo, OnStage, ChunkIsSet
  <2>5. Opened' = open
    <3>1. \A u \in Members : OpenTo(u)' \subseteq open
      BY <2>4
    <3>2. Opened' \subseteq open
      BY <1>6, <3>1 DEF Opened
    <3> QED
      BY <2>1, <3>2
  <2>6. /\ [u \in Members |-> Begun(u)]' = [u \in Members |-> Begun(u)]
        /\ [u \in Members |-> Working(u)]' = [u \in Members |-> Working(u)]
    BY <1>6, <2>4
  <2>7. PartsLedger'
    BY <2>5, <2>6 DEF PartsLedger, PoolRests
  <2>8. Aborts'
    BY <1>6, <1>7, <2>1, <2>3 DEF Aborts, PoolRests
  <2>9. ~Over'
    BY <1>1, <2>2, StillIn DEF Inside, AtEnd, Released
  <2> QED
    BY <2>4, <2>7, <2>8, <2>9, PartsKept
<1>10. CASE b[2] # Len(g[b[1]])
  <2>1. Behind(g, b) = Place("stage", y)
    BY <1>10 DEF Behind
  <2>2. y \in Contract!Stages(g) /\ y[1] = b[1] /\ y[2] = b[2] + 1 /\ Node(t) = g[y[1]]
    BY <1>2, <1>3, <1>10
  <2>3. /\ state'[t].pc = IF t < w THEN "work" ELSE StageEnd(t, y[2])
        /\ state'[t].at = y /\ state'[t].chunk = t
    BY <1>3, <1>4, <1>10, <2>2 DEF Becomes
  <2> HIDE DEF y
  <2>4. Behind(g, b).kind = "stage" /\ Behind(g, b).at = y
    BY <2>1 DEF Place
  <2>5. /\ Begun(t) = {z \in Contract!Stages(g) : Beyond(g, a, Place("stage", y), z)}
        /\ InTime(a, Place("stage", y))
        /\ y \in open /\ open \ {y} \subseteq Opened'
    BY <2>1, <2>4
  <2>6. /\ Begun(t)' = BegunIn(g, a, y)
        /\ InTime(a, PlaceOf(t)') /\ (t = 0 => ChunkIsSet')
        /\ IF t < w THEN OpenTo(t)' = {y} /\ Working(t)' = {<<y, t>>}
           ELSE OpenTo(t)' = {} /\ Working(t)' = {}
    <3>0. /\ y \in Contract!Stages(g) /\ InTime(a, Place("stage", y)) /\ Noticed(t)' /\ t \in Thread
          /\ tp'.cgraph = g /\ tp'.abort = a /\ state'[t].at = y /\ state'[t].chunk = t
          /\ g \in Seq(Seq(Nat)) /\ a \in Nat /\ Node(t) = g[y[1]]
          /\ state'[t].pc = IF t < w THEN "work" ELSE StageEnd(t, y[2])
      BY <1>1, <1>5, <1>6, <2>2, <2>3, <2>5
    <3> HIDE DEF g, a, w
    <3>1. CASE t < w
      <4>1. state'[t].pc \in {"work", "claim"} /\ state'[t].pc = "work"
        BY <3>0, <3>1
      <4>2. /\ OpenTo(t)' = {y}
            /\ Working(t)' = IF state'[t].pc = "work" THEN {<<y, state'[t].chunk>>} ELSE {}
            /\ Begun(t)' = BegunIn(g, a, y)
            /\ InTime(a, PlaceOf(t)') /\ (t = 0 => ChunkIsSet')
        BY <3>0, <4>1, StageHeld
      <4> QED
        BY <3>0, <3>1, <4>1, <4>2
    <3>2. CASE ~(t < w)
      <4>1. state'[t].pc = StageEnd(t, y[2])
        BY <3>0, <3>2
      <4>2. /\ OpenTo(t)' = {} /\ Working(t)' = {}
            /\ Begun(t)' = BegunIn(g, a, y)
            /\ InTime(a, PlaceOf(t)') /\ (t = 0 => ChunkIsSet')
        BY <3>0, <4>1, StageLeft
      <4> QED
        BY <3>2, <4>2
    <3> QED
      BY <3>1, <3>2
  <2>7. y \notin Begun(t) /\ Begun(t)' = Begun(t) \cup {y}
    <3>1. ~Beyond(g, a, Place("stage", y), y)
      BY <1>1, <2>2, StageAhead
    <3> QED
      BY <2>2, <2>5, <2>6, <3>1 DEF BegunIn
  <2>8. /\ Opened' \subseteq open /\ open \ Opened' \subseteq {y}
        /\ t < w => Opened' = open
    <3>1. \A u \in Members : OpenTo(u)' \subseteq open
      BY <2>5, <2>6
    <3>2. Opened' \subseteq open
      BY <1>6, <3>1 DEF Opened
    <3>3. t < w => y \in Opened'
      BY <1>6, <2>6 DEF Opened
    <3> QED
      BY <2>5, <3>2, <3>3
  <2>9. /\ tp'.n_graph = tp.n_graph /\ tp'.cgraph = tp.cgraph
        /\ tp'.current_chunk = tp.current_chunk /\ done' = done
    BY DEF PoolRests
  <2>10. /\ y \in Contract!Stages(tp.cgraph) /\ y \in open
         /\ \A u \in Members \ {t} : Begun(u)' = Begun(u) /\ Working(u)' = Working(u)
         /\ IF t < Contract!Width(tp.cgraph[y[1]][y[2]], tp.n_graph[2])
            THEN Working(t)' = {<<y, t>>} /\ Opened' = open
            ELSE Working(t)' = {}
    BY <2>2, <2>5, <2>6, <2>8
  <2>11. PartsLedger'
    BY <1>8, <2>7, <2>8, <2>9, <2>10, StartsLedger
  <2>12. Aborts'
    BY <1>6, <1>7, <2>6 DEF Aborts, PoolRests
  <2>13. ~Over'
    <3>1. state'[t].pc \in {"work", "set", "barrier", "node_done"}
      BY <1>1, <2>3, StageEndPc
    <3> QED
      BY <1>1, <3>1, StillIn DEF Inside, AtEnd, Released
  <2> QED
    BY <2>6, <2>11, <2>12, <2>13, PartsKept
<1> QED
  BY <1>9, <1>10

\* All threads of the graph wait at the barrier that t opens.
Gathered(t) ==
  /\ state[t].pc \in {"barrier", "release"} /\ Noticed(t)
  /\ \A u \in Members \ {t} : /\ Waiting(u) /\ Noticed(u) /\ state[u].at = state[t].at
                              /\ state[u].bar[2] # tp'.n_barrier_passed

LEMMA GatheredPlace ==
  ASSUME NEW t \in Members, Gathered(t)
  PROVE  \A u \in Members : PlaceOf(u) = Place("barrier", state[t].at) /\ ~Released(u)
BY DEF Gathered, Waiting, Released, PlaceOf, PlaceAt

\* The barrier opens, and there is more of the graph behind it.
LEMMA OpensNext ==
  ASSUME PoolInv, PartsInv, PoolInv', NEW t \in Members, ~Over, Gathered(t), Past(t), PoolRests,
         state[t].at # End, Place("barrier", state[t].at) \in Places(tp.cgraph),
         state[t].cgraph = tp.cgraph, state[t].nth = tp.n_graph[2]
  PROVE  PartsInv'
<1> DEFINE g == tp.cgraph
           n == tp.n_graph[2]
           a == tp.abort
           b == state[t].at
           p == Place("barrier", b)
           q == Behind(g, b)
           open == IF q.kind = "stage" THEN {q.at} ELSE {}
<1>1. /\ g \in Seq(Seq(Nat)) /\ a \in Nat /\ n \in Nat /\ Members = 0 .. n - 1
      /\ Members \subseteq Thread /\ 0 \in Members /\ t \in Thread /\ tp.current_chunk \in Nat
  BY CrewFacts
<1>2. Aborts /\ ChunkIsSet /\ PartsLedger
  BY DEF PartsInv
<1>3. p.kind = "barrier" /\ p.at = b
  BY DEF Place
<1>4. \A u \in Members : PlaceOf(u) = p /\ ~Released(u) /\ InTime(a, p)
  BY <1>2, GatheredPlace DEF Aborts
<1>5. q \in Places(g) /\ (q.kind = "stage" => q.at \in Contract!Stages(g) /\ q = Place("stage", q.at))
  <2>1. q \in Places(g)
    <3> HIDE DEF g, p
    <3>1. Behind(g, p.at) \in Places(g)
      BY <1>1, <1>3, BehindIsPlace DEF p, g
    <3> QED
      BY <1>3, <3>1
  <2> HIDE DEF q, g
  <2> QED
    BY <1>1, <2>1, PlaceFacts
<1>6. /\ InTime(a, q)
      /\ \A z \in Contract!Stages(g) : Beyond(g, a, q, z) <=> Beyond(g, a, p, z)
  <2>1. p \in Places(g) /\ p.kind = "barrier" /\ p.at # End /\ InTime(a, p)
    BY <1>1, <1>3, <1>4
  <2>2. q = Behind(g, p.at)
    BY <1>3
  <2> HIDE DEF g, p, q, a
  <2> QED
    BY <1>1, <2>1, <2>2, BeyondBehind
<1>7. \A u \in Members : ~OnStage(u) /\ state[u].pc \in {"barrier", "release", "spin"}
  BY DEF Gathered, Waiting, OnStage
<1>8. \A u \in Members : /\ Begun(u) = {z \in Contract!Stages(g) : Beyond(g, a, q, z)}
                         /\ Working(u) = {} /\ OpenTo(u) = {}
  BY <1>3, <1>4, <1>6, <1>7 DEF Begun, Working, OpenTo, OnStage
<1>9. Opened = {}
  BY <1>8 DEF Opened
<1>10. KeepsRest(t) /\ \A u \in Thread \ {t} : state'[u] = state[u]
  BY <1>1, <1>5, PastPlace DEF PoolInv, Shape
<1>11. \A u \in Members \ {t} : state'[u] = state[u] /\ Released(u)' /\ Noticed(u)'
  BY <1>1, <1>10 DEF Gathered, Waiting, Released, Noticed, PoolRests
<1>12. \A u \in Members \ {t} : PlaceOf(u)' = q
  BY <1>11 DEF PlaceOf, Gathered, Waiting, PoolRests
<1>13. ASSUME NEW u \in Members \ {t}
       PROVE  /\ Begun(u)' = Begun(u)
              /\ Working(u)' = Working(u)
              /\ InTime(a, PlaceOf(u)')
              /\ OpenTo(u)' = open
  <2>1. PlaceOf(u)' = q /\ state'[u] = state[u] /\ state[u].pc = "spin"
    BY <1>11, <1>12 DEF Gathered, Waiting
  <2>2. Begun(u)' = Begun(u)
    BY <1>8, <2>1 DEF Begun, OnStage, PoolRests
  <2>3. Working(u)' = Working(u)
    BY <2>1 DEF Working
  <2>4. OpenTo(u)' = open
    BY <2>1 DEF OpenTo
  <2> QED
    BY <1>6, <2>1, <2>2, <2>3, <2>4
<1> DEFINE begun == [u \in Members |-> Begun(u)]
           working == [u \in Members |-> Working(u)]
<1>14. Ledger(g, n, begun, working, {}, done, tp.current_chunk)
  BY <1>2, <1>9 DEF PartsLedger
<1>15. ASSUME q.kind = "stage", ClaimedStage(g, q.at)
       PROVE  /\ tp.current_chunk = n
              /\ \A u \in Members : q.at \notin begun[u]
  <2>1. state[0].at = b /\ state[0].pc \in {"barrier", "release", "spin"} /\ ~Released(0)
    BY <1>1, <1>4, <1>7 DEF Gathered
  <2>2. ~Beyond(g, a, q, q.at)
    BY <1>1, <1>5, <1>15, StageAhead
  <2> QED
    BY <1>2, <1>8, <1>15, <2>1, <2>2 DEF ChunkIsSet
<1>16. Ledger(g, n, begun, working, open, done, tp.current_chunk)
  <2>1. CASE q.kind = "stage"
    <3>1. open = {} \cup {q.at} /\ q.at \in Contract!Stages(g)
      BY <1>5, <2>1
    <3>2. ClaimedStage(g, q.at) => /\ tp.current_chunk = n
                                   /\ \A u \in 0 .. n - 1 : q.at \notin begun[u]
      BY <1>1, <1>15, <2>1
    <3> HIDE DEF g, n, begun, working, q, open
    <3>3. Ledger(g, n, begun, working, {} \cup {q.at}, done, tp.current_chunk)
      BY <1>1, <1>14, <3>1, <3>2, LedgerOpens
    <3> QED
      BY <3>1, <3>3
  <2>2. CASE q.kind # "stage"
    BY <1>14, <2>2
  <2> QED
    BY <2>1, <2>2
<1>17. t # 0 => ChunkIsSet'
  BY <1>1, <1>11 DEF ChunkIsSet, Gathered, Waiting
<1>18. IF q.kind = "stage" THEN q.at \in open /\ open \ {q.at} \subseteq Opened' ELSE open \subseteq Opened'
  OBVIOUS
<1>19. state[t].pc \in {"barrier", "release", "spin"} /\ Noticed(t)
  BY DEF Gathered
<1>20. /\ Begun(t) = {z \in Contract!Stages(g) : Beyond(g, a, q, z)} /\ InTime(a, q)
       /\ \A u \in Members \ {t} : /\ Begun(u)' = Begun(u)
                                   /\ Working(u)' = Working(u)
                                   /\ InTime(a, PlaceOf(u)')
       /\ \A u \in Members \ {t} : OpenTo(u)' \subseteq open
  BY <1>6, <1>8, <1>13
<1> HIDE DEF open
<1> QED
  BY <1>16, <1>17, <1>18, <1>19, <1>20, PassParts

\* The barrier at the end opens.
LEMMA GraphEnds ==
  ASSUME PoolInv, PartsInv, NEW t \in Members, ~Over, Gathered(t), Past(t), PoolRests,
         state[t].at = End
  PROVE  PartsInv' /\ Result /\ (t = 0 => state'[0].pc = "idle") /\ (t # 0 => state'[0] = state[0])
<1>1. Members \subseteq Thread /\ 0 \in Members /\ t \in Thread
  BY CrewFacts
<1>2. Result
  BY GatheredPlace, ResultAtEnd
<1>3. state[t].at[1] = 0 /\ ThreadShape
  BY DEF End, PoolInv
<1>4. KeepsRest(t) /\ Becomes(t, IF t = 0 THEN "idle" ELSE "loop", state[t].at, state[t].chunk)
  BY <1>1, <1>3, PastEffect
<1>5. CASE t = 0
  <2>1. state'[0].pc = "idle"
    BY <1>4, <1>5 DEF Becomes
  <2> QED
    BY <1>2, <1>5, <2>1 DEF PartsInv, AtEnd, Released, Over, AtRest
<1>6. CASE t # 0
  <2>1. state'[0] = state[0] /\ state[0].pc = "spin"
    BY <1>1, <1>4, <1>6 DEF Becomes, Gathered, Waiting
  <2>2. AtEnd(0)'
    BY <1>1, <1>6, <2>1 DEF AtEnd, Released, Gathered
  <2>3. Result'
    BY <1>2, <2>1 DEF Result, PoolRests
  <2> QED
    BY <1>2, <1>6, <2>1, <2>2, <2>3 DEF PartsInv, Over
<1> QED
  BY <1>5, <1>6

\* Who opens the barrier finds all others at it, whether it is the last of several or
\* the only thread of the graph.
LEMMA ReleaseGathers ==
  ASSUME PoolInv, NEW t \in Thread, BarrierRelease(t)
  PROVE  Gathered(t) /\ PoolRests
<1>1. /\ state[t].pc = "release"
      /\ tp'.n_graph = tp.n_graph /\ tp'.cgraph = tp.cgraph /\ tp'.abort = tp.abort
      /\ tp'.ec = tp.ec /\ tp'.current_chunk = tp.current_chunk /\ done' = done
      /\ tp'.n_barrier_passed = tp.n_barrier_passed + 1
  BY BarrierReleaseEffect DEF BarrierRelease, PoolInv, Shape
<1>2. /\ Noticed(t) /\ Members \subseteq Thread
      /\ \A u \in Members \ {t} : Waiting(u) /\ Noticed(u) /\ state[u].at = state[t].at
  BY <1>1, AllWait
<1>3. tp.n_barrier_passed \in Nat
  BY DEF PoolInv, PoolShape, PoolRecord
<1>4. \A u \in Members \ {t} : state[u].bar[2] # tp'.n_barrier_passed
  BY <1>1, <1>2, <1>3 DEF Waiting
<1> QED
  BY <1>1, <1>2, <1>4 DEF Gathered, PoolRests

LEMMA ReadGathers ==
  ASSUME PoolInv, NEW t \in Thread, BarrierRead(t), tp.n_graph[2] = 1
  PROVE  Gathered(t) /\ PoolRests /\ Past(t)
<1>1. Past(t) /\ tp' = tp /\ done' = done /\ state[t].pc = "barrier"
  BY DEF BarrierRead
<1>2. t \in Members /\ state[t].pc \in Inside /\ ~AtEnd(t)
  BY <1>1, LocalPlace
<1>3. Noticed(t)
  BY <1>2, InGraph
<1>4. Members = {t}
  BY <1>2 DEF Members
<1> QED
  BY <1>1, <1>3, <1>4 DEF Gathered, PoolRests

LEMMA OpensParts ==
  ASSUME PoolInv, PartsInv, PoolInv', NEW t \in Thread,
         BarrierRelease(t) \/ (BarrierRead(t) /\ tp.n_graph[2] = 1)
  PROVE  /\ PartsInv'
         /\ state[t].at = End => /\ Result
                                 /\ t = 0 => state'[0].pc = "idle"
                                 /\ t # 0 => state'[0] = state[0]
         /\ state[t].at # End => ~Over'
<1>1. Gathered(t) /\ PoolRests /\ Past(t)
  BY ReleaseGathers, ReadGathers DEF BarrierRelease
<1>2. /\ t \in Members /\ ~Over /\ Place("barrier", state[t].at) \in Places(tp.cgraph)
      /\ tp.cgraph \in Seq(Seq(Nat))
      /\ state[t].cgraph = tp.cgraph /\ state[t].nth = tp.n_graph[2]
  <2>1. CASE state[t].pc = "release"
    BY <2>1, AllWait
  <2>2. CASE state[t].pc = "barrier"
    BY <2>2, LocalPlace DEF PlaceAt
  <2> QED
    BY <2>1, <2>2 DEF BarrierRelease, BarrierRead
<1>3. CASE state[t].at # End
  <2>1. state'[t].pc \in Inside \ {"begin", "enter", "last", "release", "spin"}
    BY <1>1, <1>2, <1>3, PastPlace DEF PoolInv, Shape
  <2>2. ~Over'
    BY <2>1, StillIn DEF AtEnd, Released
  <2> QED
    BY <1>1, <1>2, <1>3, <2>2, OpensNext
<1>4. CASE state[t].at = End
  BY <1>1, <1>2, <1>4, GraphEnds
<1> QED
  BY <1>3, <1>4

LEMMA BarrierReadParts ==
  ASSUME PoolInv, PartsInv, PoolInv', NEW t \in Thread, BarrierRead(t)
  PROVE  PartsInv'
BY BarrierWaitsParts, OpensParts

\* A thread leaves a barrier that is open already.
LEMMA LeaveOn ==
  ASSUME PoolInv, PartsInv, PoolInv', NEW t \in Thread, BarrierLeave(t), state[t].at # End
  PROVE  PartsInv'
<1> DEFINE g == tp.cgraph
           a == tp.abort
           b == state[t].at
           q == Behind(g, b)
<1>1. /\ Released(t) /\ Past(t) /\ tp' = tp /\ done' = done
      /\ state[t].pc = "spin" /\ state[t].pc \in Inside /\ ~AtEnd(t)
      /\ PoolKeeps /\ PoolRests
  BY DEF BarrierLeave, Released, PoolKeeps, PoolRests, Inside, AtEnd
<1>2. /\ ~Over /\ t \in Members /\ Noticed(t) /\ g \in Seq(Seq(Nat))
      /\ state[t].cgraph = g /\ state[t].nth = tp.n_graph[2]
  BY <1>1, InGraph
<1>3. PlaceOf(t) = q /\ Place("barrier", b) \in Places(g)
  BY <1>1, InPlace DEF WellAt
<1>4. \A u \in Thread \ {t} : state'[u] = state[u]
  BY <1>1, <1>2, <1>3, PastPlace DEF PoolInv, Shape
<1>5. Aborts /\ ChunkIsSet /\ PartsLedger /\ Members \subseteq Thread /\ 0 \in Thread
  BY <1>2, CrewFacts DEF PartsInv
<1>6. /\ Members' = Members
      /\ \A u \in Members \ {t} : /\ PlaceOf(u)' = PlaceOf(u)
                                  /\ Working(u)' = Working(u)
                                  /\ OpenTo(u)' = OpenTo(u)
                                  /\ Begun(u)' = Begun(u)
  BY <1>1, <1>4, <1>5, OthersStay
<1>7. InTime(a, q) /\ \A u \in Members : InTime(a, PlaceOf(u))
  BY <1>2, <1>3, <1>5 DEF Aborts
<1>8. Begun(t) = {z \in Contract!Stages(g) : Beyond(g, a, q, z)}
  BY <1>1, <1>3 DEF Begun, OnStage
<1>9. t # 0 => ChunkIsSet'
  BY <1>1, <1>4, <1>5, ChunkStays
<1>10. OpenTo(t) = IF q.kind = "stage" THEN {q.at} ELSE {}
  BY <1>1, <1>3 DEF OpenTo
<1>11. /\ \A u \in Members \ {t} : OpenTo(u)' \subseteq Opened
       /\ IF q.kind = "stage" THEN q.at \in Opened /\ Opened \ {q.at} \subseteq Opened'
          ELSE Opened \subseteq Opened'
  <2>1. \A u \in Members : OpenTo(u) \subseteq Opened
    BY DEF Opened
  <2>2. \A u \in Members \ {t} : OpenTo(u) \subseteq Opened'
    BY <1>6 DEF Opened
  <2>3. \A z \in Opened : z \in OpenTo(t) \/ z \in Opened'
    BY <2>2 DEF Opened
  <2> HIDE DEF q
  <2> QED
    BY <1>2, <1>6, <1>10, <2>1, <2>3
<1>12. Ledger(g, tp.n_graph[2], [u \in Members |-> Begun(u)],
              [u \in Members |-> Working(u)], Opened, done, tp.current_chunk)
  BY <1>5 DEF PartsLedger
<1>13. /\ \A u \in Members \ {t} : /\ Begun(u)' = Begun(u)
                                   /\ Working(u)' = Working(u)
                                   /\ InTime(a, PlaceOf(u)')
       /\ state[t].pc \in {"barrier", "release", "spin"}
  BY <1>1, <1>6, <1>7
<1> QED
  BY <1>1, <1>2, <1>3, <1>7, <1>8, <1>9, <1>11, <1>12, <1>13, PassParts

\* A thread leaves the graph.
LEMMA LeaveEnd ==
  ASSUME PoolInv, PartsInv, NEW t \in Thread, BarrierLeave(t), state[t].at = End
  PROVE  /\ PartsInv' /\ (Over' <=> Over)
         /\ t = 0 => AtEnd(0) /\ Result /\ state'[0].pc = "idle"
         /\ t # 0 => state'[0] = state[0]
<1>0. 0 \in Thread /\ Worker = Thread \ {0}
  BY PoolAssumption DEF Thread, Worker
<1>1. /\ Past(t) /\ tp' = tp /\ done' = done /\ PoolKeeps /\ AtEnd(t)
      /\ state[t].at[1] = 0 /\ ThreadShape
  BY DEF BarrierLeave, AtEnd, Released, PoolKeeps, End, PoolInv
<1>2. /\ \A u \in Thread \ {t} : state'[u] = state[u]
      /\ state'[t].pc = IF t = 0 THEN "idle" ELSE "loop"
      /\ state'[t].last_graph = state[t].last_graph
  BY <1>1, PastEffect DEF Becomes, KeepsRest
<1>3. CASE t = 0
  <2>1. state'[0].pc = "idle" /\ AtEnd(0) /\ Result
    BY <1>1, <1>2, <1>3 DEF PartsInv
  <2>2. Over /\ Over' /\ ~AtEnd(0)'
    BY <2>1 DEF Over, AtRest, AtEnd, Released
  <2> QED
    BY <1>3, <2>1, <2>2 DEF PartsInv
<1>4. CASE t # 0
  <2>1. state'[0] = state[0]
    BY <1>0, <1>2, <1>4
  <2>2. /\ AtEnd(0)' <=> AtEnd(0)
        /\ Over' <=> Over
        /\ Result' <=> Result
    BY <1>1, <2>1 DEF AtEnd, Released, Over, Result
  <2>3. ASSUME ~Over
        PROVE  Aborts' /\ ChunkIsSet' /\ PartsLedger'
    <3>1. Aborts /\ ChunkIsSet /\ PartsLedger /\ Members \subseteq Thread
      BY <2>3, CrewFacts DEF PartsInv
    <3>2. /\ Members' = Members
          /\ \A u \in Members \ {t} : /\ PlaceOf(u)' = PlaceOf(u)
                                      /\ Working(u)' = Working(u)
                                      /\ OpenTo(u)' = OpenTo(u)
                                      /\ Begun(u)' = Begun(u)
      BY <1>1, <1>2, <3>1, OthersStay
    <3>3. t \in Members => ~Noticed(t)
      BY <1>0, <1>1, <1>4, <2>3 DEF PoolInv, GraphHasMembers
    <3>4. state[t].pc = "spin" /\ state'[t].pc = "loop"
      BY <1>1, <1>2, <1>4 DEF AtEnd, Released
    <3>5. t \in Members => /\ PlaceOf(t)' = PlaceOf(t)
                           /\ Working(t)' = Working(t)
                           /\ OpenTo(t)' = OpenTo(t)
                           /\ Begun(t)' = Begun(t)
      <4> SUFFICES ASSUME t \in Members
                   PROVE  /\ PlaceOf(t)' = PlaceOf(t)
                          /\ Working(t)' = Working(t)
                          /\ OpenTo(t)' = OpenTo(t)
                          /\ Begun(t)' = Begun(t)
        OBVIOUS
      <4>1. PlaceOf(t) = Search(1) /\ PlaceOf(t)' = Search(1)
        BY <1>1, <1>2, <3>3 DEF PlaceOf, Noticed
      <4>2. OpenTo(t)' = OpenTo(t) /\ Working(t)' = Working(t)
        BY <3>4, <4>1 DEF OpenTo, Search, Place, Working
      <4>3. Begun(t)' = Begun(t)
        BY <1>1, <3>4, <4>1 DEF Begun, OnStage
      <4> QED
        BY <4>1, <4>2, <4>3
    <3>6. PartsLedger'
      BY <1>1, <3>1, <3>2, <3>5, LedgerStays
    <3>7. Aborts'
      BY <1>1, <3>1, <3>2, <3>5 DEF Aborts
    <3>8. ChunkIsSet'
      BY <1>1, <2>1, <3>1, ChunkStays
    <3> QED
      BY <3>6, <3>7, <3>8
  <2> QED
    BY <1>1, <1>4, <2>1, <2>2, <2>3 DEF PartsInv
<1> QED
  BY <1>3, <1>4

LEMMA BarrierLeaveParts ==
  ASSUME PoolInv, PartsInv, PoolInv', NEW t \in Thread, BarrierLeave(t)
  PROVE  PartsInv'
BY LeaveOn, LeaveEnd

LEMMA ComputeStepParts ==
  ASSUME PoolInv, PartsInv, PoolInv', NEW t \in Thread, ComputeStep(t)
  PROVE  PartsInv'
BY BeginParts, NextNodeWalks, NextNodeStarts, SetChunkParts, WorkParts, ClaimParts,
   NodeDoneParts, BarrierReadParts, BarrierEnterParts, BarrierResetParts, OpensParts,
   BarrierLeaveParts DEF ComputeStep

-----------------------------------------------------------------------------
(* Outside of the computation                                              *)

\* Nobody moves in the graph.
LEMMA OuterParts ==
  ASSUME PoolInv, PartsInv, Outer
  PROVE  PartsInv' /\ (Over' <=> Over)
<1>0. 0 \in Thread /\ Worker = Thread \ {0}
  BY PoolAssumption DEF Thread, Worker
<1>1. /\ tp'.n_graph = tp.n_graph /\ tp'.cgraph = tp.cgraph
      /\ tp'.n_barrier_passed = tp.n_barrier_passed
      /\ tp'.abort = tp.abort /\ tp'.ec = tp.ec /\ tp'.current_chunk = tp.current_chunk
      /\ done' = done
  BY DEF Outer, PoolStays, PoolKeeps
<1>2. \A t \in Thread : /\ state'[t].at = state[t].at /\ state'[t].bar = state[t].bar
                        /\ state'[t].chunk = state[t].chunk /\ state'[t].nth = state[t].nth
  BY DEF Outer
<1>3. \A t \in Thread : state'[t].pc = "spin" <=> state[t].pc = "spin"
  BY DEF Outer, AtRest, Inside
<1>4. \A t \in Thread : /\ Released(t)' <=> Released(t)
                        /\ AtEnd(t)' <=> AtEnd(t)
  BY <1>1, <1>2, <1>3 DEF Released, AtEnd
<1>5. Over' <=> Over
  BY <1>0, <1>4 DEF Over, Outer, AtRest, AtEnd, Released
<1>6. state'[0].pc = "kick" => state[0].pc = "kick"
  BY <1>0 DEF Outer
<1>7. Result' <=> Result
  BY <1>0, <1>1, <1>2 DEF Result
<1>8. ASSUME ~Over
      PROVE  Aborts' /\ ChunkIsSet' /\ PartsLedger'
  <2>1. Aborts /\ ChunkIsSet /\ PartsLedger /\ Members \subseteq Thread
    BY <1>8, CrewFacts DEF PartsInv
  <2>2. Members' = Members
    BY <1>1 DEF Members
  <2>3. \A t \in Members : Noticed(t)' <=> Noticed(t)
    BY <2>1 DEF Noticed, Outer, PoolStays, PoolKeeps
  <2>4. \A t \in Members : Noticed(t) =>
          \/ state'[t].pc = state[t].pc
          \/ t = 0 /\ state[t].pc = "signal" /\ state'[t].pc = "begin"
    BY <1>0, <1>8, <2>1 DEF PoolInv, GraphHasMembers, Outer, Over
  <2>5. \A t \in Members : ~Noticed(t) =>
          \/ state'[t].pc = state[t].pc
          \/ state[t].pc \notin Inside /\ state'[t].pc \notin Inside
    BY <2>1 DEF Outer, Noticed
  <2>6. \A t \in Members : PlaceOf(t)' = PlaceOf(t)
    <3> TAKE t \in Members
    <3>1. CASE ~Noticed(t)
      BY <2>3, <3>1 DEF PlaceOf
    <3>2. CASE Noticed(t)
      BY <1>1, <1>2, <1>4, <2>1, <2>3, <2>4, <3>2 DEF PlaceOf
    <3> QED
      BY <3>1, <3>2
  <2>7. \A t \in Members : \/ state'[t].pc = state[t].pc
                           \/ {state[t].pc, state'[t].pc} \cap {"work", "claim", "node_done"} = {}
    BY <2>4, <2>5 DEF Inside
  <2>8. \A t \in Members : /\ OnStage(t)' <=> OnStage(t)
                           /\ state'[t].pc = "work" <=> state[t].pc = "work"
                           /\ state'[t].pc = "node_done" <=> state[t].pc = "node_done"
    BY <2>7 DEF OnStage
  <2>9. \A t \in Members : /\ Begun(t)' = Begun(t)
                           /\ Working(t)' = Working(t)
                           /\ OpenTo(t)' = OpenTo(t)
    <3> TAKE t \in Members
    <3>1. Begun(t)' = Begun(t)
      BY <1>1, <1>2, <2>1, <2>6, <2>8 DEF Begun
    <3>2. Working(t)' = Working(t)
      BY <1>2, <2>1, <2>8 DEF Working
    <3>3. OpenTo(t)' = OpenTo(t)
      BY <2>6, <2>8 DEF OpenTo
    <3> QED
      BY <3>1, <3>2, <3>3
  <2>10. PartsLedger'
    BY <1>1, <2>1, <2>9, LedgerStays
  <2>11. Aborts'
    BY <1>1, <2>1, <2>2, <2>6 DEF Aborts
  <2>12. ChunkIsSet'
    <3>1. \A pc \in {"set", "barrier", "enter", "last", "release", "spin"} :
            state'[0].pc = pc <=> state[0].pc = pc
      BY <1>0 DEF Outer, AtRest
    <3>2. state'[0].at = state[0].at
      BY <1>0, <1>2
    <3>3. Released(0)' <=> Released(0)
      BY <1>0, <1>4
    <3> QED
      BY <1>1, <2>1, <3>1, <3>2, <3>3 DEF ChunkIsSet
  <2> QED
    BY <2>10, <2>11, <2>12
<1> QED
  BY <1>0, <1>4, <1>5, <1>6, <1>7, <1>8, <1>1 DEF PartsInv

\* The caller starts a graph, and kicks it off.
LEMMA ComputeParts ==
  ASSUME PoolInv, NEW g \in Graphs, NEW n \in 1 .. NThreads, Compute(g, n)
  PROVE  PartsInv'
<1>1. state'[0].pc = "kick" /\ tp'.ec = "success"
  <2>1. 0 \in Thread /\ state \in [Thread -> ThreadRecord] /\ tp \in PoolRecord
    BY PoolAssumption DEF Thread, PoolInv, ThreadShape, PoolShape
  <2> QED
    BY <2>1 DEF Compute, ThreadRecord, PoolRecord
<1> QED
  BY <1>1 DEF PartsInv, AtEnd, Released, Over, AtRest

LEMMA KickParts ==
  ASSUME PoolInv, PartsInv, PoolInv', Kick
  PROVE  PartsInv'
<1>0. 0 \in Thread /\ Worker = Thread \ {0}
  BY PoolAssumption DEF Thread, Worker
<1>1. /\ tp'.cgraph = tp.cgraph /\ tp'.abort = 0 /\ tp'.ec = "success" /\ done' = {}
      /\ tp'.current_chunk = tp.current_chunk /\ tp'.n_graph = <<tp.n_graph[1] + 1, state[0].nth>>
      /\ tp.n_graph[1] \in Nat /\ state[0].pc = "kick" /\ Goto(0, "signal")
  BY DEF Kick, PoolInv, PoolShape, PoolRecord, Counted, PartsInv
<1>2. state'[0].pc = "signal" /\ \A t \in Worker : state'[t] = state[t]
  BY <1>0, <1>1, PcSets, GotoEffect DEF PoolInv, PcsOf, Becomes
<1>3. ~Over'
  BY <1>2 DEF Over, AtRest, AtEnd, Released
<1>4. Over
  BY <1>1 DEF Over, AtRest
<1>5. \A t \in Worker : ~Noticed(t)'
  <2> TAKE t \in Worker
  <2>1. state[t].last_graph = tp.n_graph \/ state[t].last_graph[1] < tp.n_graph[1]
    BY DEF PoolInv, Counted
  <2>2. state[t].last_graph \in Nat \X (0 .. NThreads)
    BY <1>0 DEF PoolInv, ThreadShape, ThreadRecord
  <2>3. state[t].last_graph[1] \in Nat /\ state[t].last_graph[1] <= tp.n_graph[1]
    BY <1>1, <2>1, <2>2
  <2>4. tp'.n_graph[1] = tp.n_graph[1] + 1
    BY <1>1
  <2>5. state[t].last_graph # tp'.n_graph
    BY <1>1, <2>3, <2>4
  <2> QED
    BY <1>0, <1>2, <2>5 DEF Noticed
<1>6. /\ tp'.cgraph \in Seq(Seq(Nat)) /\ tp'.n_graph[2] \in Nat /\ Members' \subseteq Thread
      /\ Members' = 0 .. tp'.n_graph[2] - 1
  <2>1. /\ tp.cgraph \in Graphs /\ state[0].nth \in 1 .. NThreads
    BY <1>1 DEF PoolInv, Counted
  <2>2. tp'.n_graph[2] \in 1 .. NThreads
    BY <1>1, <2>1
  <2> QED
    BY <1>1, <2>1, <2>2, GraphsAssumption, PoolAssumption DEF Members, Thread
<1>7. \A t \in Members' : /\ PlaceOf(t)' = Search(1)
                          /\ ~OnStage(t)'
  <2> TAKE t \in Members'
  <2>1. CASE t = 0
    BY <1>2, <2>1 DEF PlaceOf, OnStage
  <2>2. CASE t # 0
    <3>1. t \in Worker /\ state'[t] = state[t]
      BY <1>0, <1>2, <1>6, <2>2
    <3>2. PlaceOf(t)' = Search(1)
      BY <1>5, <3>1 DEF PlaceOf
    <3>3. state[t].pc \in Inside => state[t].pc = "spin"
      BY <1>4, <3>1 DEF PoolInv, RestIsQuiet, AtEnd, Released
    <3> QED
      BY <3>1, <3>2, <3>3 DEF OnStage, Inside
  <2> QED
    BY <2>1, <2>2
<1> DEFINE g == tp'.cgraph
           n == tp'.n_graph[2]
           begun == [t \in Members' |-> Begun(t)']
           working == [t \in Members' |-> Working(t)']
<1>8. \A t \in Members' : Begun(t)' = {} /\ Working(t)' = {} /\ OpenTo(t)' = {}
  <2> TAKE t \in Members'
  <2>1. PlaceOf(t)' = Search(1) /\ ~OnStage(t)'
    BY <1>7
  <2>2. Search(1).kind = "search" /\ Search(1).at[1] = 1
    BY DEF Search, Place
  <2>3. \A y \in Contract!Stages(g) : ~Beyond(g, 0, Search(1), y)
    <3> TAKE y \in Contract!Stages(g)
    <3>1. y[1] \in 1 .. Len(g)
      <4> HIDE DEF g
      <4>1. g \in Seq(Seq(Nat))
        BY <1>6 DEF g
      <4> QED
        BY <4>1, StageFacts
    <3>2. ~(y[1] < 1)
      BY <3>1
    <3> QED
      BY <2>2, <3>2 DEF Beyond
  <2>4. Begun(t)' = {}
    BY <1>1, <2>1, <2>3 DEF Begun
  <2>5. Working(t)' = {}
    BY <2>1 DEF Working, OnStage
  <2>6. OpenTo(t)' = {}
    BY <2>1, <2>2 DEF OpenTo
  <2> QED
    BY <2>4, <2>5, <2>6
<1>9. Opened' = {}
  BY <1>8 DEF Opened
<1>10. Ledger(g, n, begun, working, {}, {}, tp'.current_chunk)
  <2>1. \A t \in 0 .. n - 1 : begun[t] = {} /\ working[t] = {}
    BY <1>6, <1>8
  <2>2. g \in Seq(Seq(Nat)) /\ n \in Nat
    BY <1>6
  <2> HIDE DEF g, n, begun, working
  <2> QED
    BY <2>1, <2>2, LedgerBegins
<1>11. PartsLedger'
  BY <1>1, <1>9, <1>10 DEF PartsLedger
<1>12. Aborts'
  BY <1>1, <1>7 DEF Aborts, InTime
<1>13. ChunkIsSet'
  BY <1>2 DEF ChunkIsSet
<1> QED
  BY <1>3, <1>11, <1>12, <1>13, PartsKept

LEMMA PartsInvInit == Init => PartsInv
<1> SUFFICES ASSUME Init PROVE PartsInv
  OBVIOUS
<1>1. state[0].pc = "idle"
  BY PoolAssumption DEF Init, Thread
<1> QED
  BY <1>1 DEF PartsInv, AtEnd, Released, Over, AtRest

\* The four kinds of steps: the caller's Compute and Kick, the steps of the computation, a
\* worker that notices the graph, and those that leave the graph alone.
LEMMA StepKinds ==
  ASSUME PoolInv, PoolInv', [Next]_vars
  PROVE  \/ \E g \in Graphs, n \in 1 .. NThreads : Compute(g, n)
         \/ Kick
         \/ \E t \in Thread : ComputeStep(t)
         \/ \E t \in Worker : (Poll(t) \/ CheckForWork(t)) /\ state'[t].pc = "begin"
         \/ Outer
<1>0. Shape' /\ Shape /\ 0 \in Thread /\ Worker \subseteq Thread
  BY PoolAssumption DEF PoolInv, Shape, Thread, Worker
<1>1. CASE Calls
  BY <1>0, <1>1, CallerOuter DEF Calls
<1>2. CASE Kick \/ KickSignal \/ FreeSignal \/ FreeJoin \/ Finished
  BY <1>0, <1>2, CallerOuter
<1>3. CASE \E t \in Thread : ComputeStep(t)
  BY <1>3
<1>4. CASE \E t \in Worker :
             Loop(t) \/ PauseWait(t) \/ Poll(t) \/ CheckForWork(t) \/ SpuriousWakeup(t)
  <2> PICK t \in Worker :
             Loop(t) \/ PauseWait(t) \/ Poll(t) \/ CheckForWork(t) \/ SpuriousWakeup(t)
    BY <1>4
  <2>1. CASE state'[t].pc # "begin"
    BY <1>0, <2>1, WorkerOuter
  <2>2. CASE state'[t].pc = "begin"
    <3>1. Poll(t) \/ CheckForWork(t)
      <4> SUFFICES ASSUME Loop(t) \/ PauseWait(t) \/ SpuriousWakeup(t) PROVE FALSE
        OBVIOUS
      <4>1. PICK pc \in {"loop", "stop?", "pause", "paused", "exited", "poll", "lock"} : Goto(t, pc)
        BY DEF Loop, PauseWait, SpuriousWakeup
      <4>2. Becomes(t, pc, state[t].at, state[t].chunk)
        BY <1>0, <4>1, PcSets, GotoEffect DEF Shape, PcsOf, Worker
      <4> QED
        BY <2>2, <4>2 DEF Becomes
    <3> QED
      BY <2>2, <3>1
  <2> QED
    BY <2>1, <2>2
<1>5. CASE UNCHANGED vars
  BY <1>5 DEF vars, Outer, PoolStays, PoolKeeps
<1> QED
  BY <1>0, <1>1, <1>2, <1>3, <1>4, <1>5 DEF Next, InCall, WorkerStep, Worker

LEMMA PartsInvNext == PoolInv /\ PartsInv /\ [Next]_vars => PoolInv' /\ PartsInv'
<1> SUFFICES ASSUME PoolInv, PartsInv, [Next]_vars PROVE PoolInv' /\ PartsInv'
  OBVIOUS
<1>1. PoolInv'
  BY PoolInvNext
<1> QED
  BY <1>1, StepKinds, ComputeParts, KickParts, ComputeStepParts, NoticeParts, OuterParts

\* What is computed, what is being computed and what is left always agree with where
\* the threads are.
THEOREM PartsCorrect == Spec => [](PoolInv /\ PartsInv)
<1>1. Init => PoolInv /\ PartsInv
  BY PoolInvInit, PartsInvInit
<1>2. PoolInv /\ PartsInv /\ [Next]_vars => (PoolInv /\ PartsInv)'
  BY PartsInvNext
<1> QED
  BY <1>1, <1>2, PTL DEF Spec

\* No chunk or slice is computed twice or by two threads at once.
THEOREM EachPartOnceHolds == Spec => []EachPartOnce
BY PartsCorrect, PartsOnce, PTL

\* No thread works on a stage before all that comes before it is written.
THEOREM InputsReadyHolds == Spec => []InputsReady
BY PartsCorrect, InputsBefore, PTL

-----------------------------------------------------------------------------
(* ggml_graph_compute keeps its promise                                    *)

ContractNext == Contract!Start \/ Contract!Compute \/ Contract!Return

\* The caller is in ggml_graph_compute.
Called == state[0].pc \notin AtRest \ {"kick"}

LEMMA StatusFacts == Status = IF Called THEN "running" ELSE tp.ec
BY DEF Status, Called, AtRest

\* The caller sees nothing of a step that leaves graph, threads and parts alone, while
\* it is in the call or when the step is another thread's.
LEMMA Unseen ==
  ASSUME tp'.cgraph = tp.cgraph, state'[0].nth = state[0].nth, done' = done,
         Called' <=> Called, Called \/ tp'.ec = tp.ec
  PROVE  UNCHANGED Contract!vars
<1>1. Status' = Status
  BY StatusFacts DEF Status, Called, AtRest
<1> QED
  BY <1>1 DEF Contract!vars

\* A step of the computation that computes no part.
LEMMA StepSeen ==
  ASSUME PoolInv, PartsInv, PoolInv', NEW t \in Thread, ComputeStep(t), ~Work(t)
  PROVE  /\ tp'.cgraph = tp.cgraph /\ done' = done
         /\ t # 0 => state'[0] = state[0] /\ tp'.ec = tp.ec
         /\ t = 0 => /\ state[0].pc \in Inside
                     /\ state'[0].nth = state[0].nth
                     /\ \/ state'[0].pc \in Inside
                        \/ state'[0].pc = "idle" /\ tp'.ec = tp.ec /\ Result
<1>0. 0 \in Thread /\ Shape
  BY PoolAssumption DEF Thread, PoolInv, Shape
<1>1. CASE Begin(t)
  <2>1. /\ tp' = tp /\ done' = done /\ Becomes(t, "node", <<1, 0>>, state[t].chunk)
        /\ state'[t].nth = tp.n_graph[2] /\ state[t].pc = "begin"
    BY <1>0, <1>1, BeginEffect DEF Begin
  <2>2. t = 0 => state[0].nth = tp.n_graph[2]
    BY <2>1, CrewFacts DEF Over, AtRest, AtEnd, Released
  <2> QED
    BY <1>0, <2>1, <2>2 DEF Becomes, Inside
<1>2. CASE NextNode(t)
  <2>1. /\ tp' = tp /\ done' = done /\ KeepsRest(t) /\ state[t].pc = "node"
        /\ \E pc \in Inside : \E at, chunk : Becomes(t, pc, at, chunk)
    BY <1>0, <1>2, NextNodeEffect DEF NextNode, StageBarrier, Inside
  <2> QED
    BY <1>0, <2>1 DEF Becomes, KeepsRest, Inside
<1>3. CASE SetChunk(t)
  BY <1>0, <1>3, SetChunkEffect DEF SetChunk, Becomes, KeepsRest, PoolKeeps, Inside
<1>4. CASE Claim(t)
  <2>1. /\ PoolKeeps /\ done' = done /\ KeepsRest(t) /\ tp'.ec = tp.ec /\ state[t].pc = "claim"
        /\ \E pc \in Inside : \E at, chunk : Becomes(t, pc, at, chunk)
    BY <1>0, <1>4, ClaimEffect DEF Claim, StageEnd, StageBarrier, Inside
  <2> QED
    BY <1>0, <2>1 DEF Becomes, KeepsRest, PoolKeeps, Inside
<1>5. CASE NodeDone(t)
  <2>1. /\ PoolKeeps /\ done' = done /\ KeepsRest(t) /\ state[t].pc = "node_done"
        /\ t # 0 => tp'.ec = tp.ec
        /\ \E at, chunk : Becomes(t, "barrier", at, chunk)
    BY <1>0, <1>5, NodeDoneEffect DEF NodeDone
  <2> QED
    BY <1>0, <2>1 DEF Becomes, KeepsRest, PoolKeeps, Inside
<1>6. CASE BarrierRead(t) /\ tp.n_graph[2] # 1
  BY <1>0, <1>6, BarrierReadEffect DEF BarrierRead, Becomes, Inside
<1>7. CASE BarrierEnter(t)
  BY <1>0, <1>7, BarrierEnterEffect DEF BarrierEnter, Becomes, KeepsRest, PoolKeeps, Inside
<1>8. CASE BarrierReset(t)
  BY <1>0, <1>8, BarrierResetEffect DEF BarrierReset, Becomes, KeepsRest, PoolKeeps, Inside
<1>9. ASSUME Past(t), state[t].pc \in {"barrier", "release", "spin"},
             tp'.cgraph = tp.cgraph, tp'.ec = tp.ec, done' = done,
             t = 0 /\ state'[0].pc = "idle" => Result
      PROVE  /\ t # 0 => state'[0] = state[0]
             /\ t = 0 => /\ state[0].pc \in Inside
                         /\ state'[0].nth = state[0].nth
                         /\ \/ state'[0].pc \in Inside
                            \/ state'[0].pc = "idle" /\ Result
  <2>1. KeepsRest(t) /\ \E pc, at, chunk :
          Becomes(t, pc, at, chunk) /\ (t = 0 => pc \in Inside \cup {"idle"})
    BY <1>0, <1>9, PastEffect DEF Shape, StageEnd, StageBarrier, Inside
  <2> QED
    BY <1>0, <1>9, <2>1 DEF Becomes, KeepsRest, Inside
<1>10. CASE BarrierRelease(t) \/ (BarrierRead(t) /\ tp.n_graph[2] = 1)
  <2>1. /\ Gathered(t) /\ PoolRests /\ Past(t)
    BY <1>10, ReleaseGathers, ReadGathers DEF BarrierRelease
  <2>2. t = 0 /\ state'[0].pc = "idle" => Result
    BY <1>10, OpensParts DEF Over, AtRest
  <2> QED
    BY <1>9, <2>1, <2>2 DEF Gathered, PoolRests
<1>11. CASE BarrierLeave(t)
  <2>1. state[t].pc = "spin" /\ Past(t) /\ tp' = tp /\ done' = done
    BY <1>11 DEF BarrierLeave
  <2>2. t = 0 /\ state'[0].pc = "idle" => Result
    <3>1. state[t].at = End => (t = 0 => Result)
      BY <1>11, LeaveEnd
    <3>2. ASSUME t = 0, state[t].at # End PROVE state'[0].pc # "idle"
      <4>1. Released(t) /\ state[t].pc \in Inside /\ ~AtEnd(t)
        BY <1>11, <3>2 DEF BarrierLeave, Released, AtEnd, Inside
      <4>2. /\ tp.cgraph \in Seq(Seq(Nat)) /\ state[t].cgraph = tp.cgraph
        BY <2>1, <4>1, InGraph
      <4>3. Place("barrier", state[t].at) \in Places(tp.cgraph)
        BY <2>1, <4>1, InPlace DEF WellAt
      <4>4. state'[t].pc \in Inside
        BY <1>0, <2>1, <3>2, <4>2, <4>3, PastPlace
      <4> QED
        BY <3>2, <4>4 DEF Inside
    <3> QED
      BY <3>1, <3>2
  <2> QED
    BY <1>9, <2>1, <2>2
<1>12. \/ Begin(t) \/ NextNode(t) \/ SetChunk(t) \/ Claim(t) \/ NodeDone(t) \/ BarrierEnter(t)
       \/ BarrierReset(t) \/ BarrierLeave(t) \/ (BarrierRead(t) /\ tp.n_graph[2] # 1)
       \/ BarrierRelease(t) \/ (BarrierRead(t) /\ tp.n_graph[2] = 1)
  BY DEF ComputeStep
<1> QED
  BY <1>1, <1>2, <1>3, <1>4, <1>5, <1>6, <1>7, <1>8, <1>10, <1>11, <1>12

\* Thread t computes a part: one of the graph that nobody has computed, with all that
\* comes before it computed.
LEMMA WorkRefines ==
  ASSUME PoolInv, PartsInv, NEW t \in Thread, Work(t)
  PROVE  Contract!Compute
<1> DEFINE p == <<state[t].at, state[t].chunk>>
           g == tp.cgraph
           n == state[0].nth
<1>0. 0 \in Thread /\ Shape
  BY PoolAssumption DEF Thread, PoolInv, Shape
<1>1. /\ tp' = tp /\ KeepsRest(t) /\ done' = done \cup {p} /\ state[t].pc = "work"
      /\ \E pc \in Inside : \E at, chunk : Becomes(t, pc, at, chunk)
  BY <1>0, WorkEffect DEF Work, StageEnd, StageBarrier, Inside
<1>2. ~Over /\ t \in Members
  BY <1>1, StageThread DEF OnStage
<1>3. n = tp.n_graph[2] /\ Members = 0 .. n - 1
  BY <1>2, CrewFacts
<1>4. p \in Contract!AllParts(g, n) \ done
  <2> DEFINE working == [u \in Members |-> Working(u)]
  <2>1. p \in working[t]
    BY <1>1, <1>2 DEF Working
  <2> HIDE DEF working, p
  <2> QED
    BY <1>2, <1>3, <2>1 DEF PartsInv, PartsLedger, Ledger, working
<1>5. Contract!PartsBefore(g, n, p[1]) \subseteq done
  BY <1>1, <1>3, InputsBefore DEF InputsReady
<1>6. Called /\ Called' /\ state'[0].nth = n
  <2>1. state[0].pc \notin AtRest
    BY <1>2 DEF Over
  <2>2. /\ state'[0].nth = n
        /\ state'[0].pc = state[0].pc \/ state'[0].pc \in Inside
    BY <1>0, <1>1 DEF Becomes, KeepsRest
  <2> QED
    BY <2>1, <2>2, AtRestApart DEF Called
<1>7. Status = "running" /\ Status' = Status
  BY <1>6, StatusFacts DEF Status, Called, AtRest
<1> HIDE DEF p
<1> QED
  BY <1>1, <1>4, <1>5, <1>6, <1>7 DEF Contract!Compute

\* Every step is one of the contract's, or the caller sees nothing of it.
LEMMA StepRefines ==
  PoolInv /\ PartsInv /\ [Next]_vars => [ContractNext]_Contract!vars
<1> SUFFICES ASSUME PoolInv, PartsInv, [Next]_vars
             PROVE  ContractNext \/ UNCHANGED Contract!vars
  BY DEF Contract!vars
<1>0. PoolInv' /\ 0 \in Thread /\ Worker = Thread \ {0}
  BY PoolInvNext, PoolAssumption DEF Thread, Worker
<1>1. CASE \E g \in Graphs, n \in 1 .. NThreads : Compute(g, n)
  <2> PICK g \in Graphs, n \in 1 .. NThreads : Compute(g, n)
    BY <1>1
  <2>1. state \in [Thread -> ThreadRecord] /\ tp \in PoolRecord
    BY DEF PoolInv, ThreadShape, PoolShape
  <2>2. /\ tp'.cgraph = g /\ state'[0].nth = n /\ state'[0].pc = "kick"
        /\ done' = {} /\ state[0].pc = "idle"
    BY <1>0, <2>1 DEF Compute, ThreadRecord, PoolRecord
  <2>3. Status # "running" /\ Status' = "running"
    BY <2>1, <2>2 DEF Status, PoolRecord
  <2>4. Contract!Start
    BY <2>2, <2>3 DEF Contract!Start
  <2> QED
    BY <2>4 DEF ContractNext
<1>2. CASE Kick
  <2>1. /\ tp'.cgraph = tp.cgraph /\ done' = done /\ state[0].pc = "kick" /\ Goto(0, "signal")
    BY <1>2 DEF Kick, PoolInv, PoolShape, PoolRecord
  <2>2. state'[0].pc = "signal" /\ state'[0].nth = state[0].nth
    BY <1>0, <2>1, PcSets, GotoEffect DEF PoolInv, PcsOf, Becomes, KeepsRest
  <2>3. Called /\ Called'
    BY <2>1, <2>2 DEF Called, AtRest
  <2> QED
    BY <2>1, <2>2, <2>3, Unseen
<1>3. CASE \E t \in Thread : ComputeStep(t)
  <2> PICK t \in Thread : ComputeStep(t)
    BY <1>3
  <2>1. CASE Work(t)
    BY <2>1, WorkRefines DEF ContractNext
  <2>2. CASE ~Work(t)
    <3>1. /\ tp'.cgraph = tp.cgraph /\ done' = done
          /\ t # 0 => state'[0] = state[0] /\ tp'.ec = tp.ec
          /\ t = 0 => /\ state[0].pc \in Inside
                      /\ state'[0].nth = state[0].nth
                      /\ \/ state'[0].pc \in Inside
                         \/ state'[0].pc = "idle" /\ tp'.ec = tp.ec /\ Result
      BY <1>0, <2>2, StepSeen
    <3>2. CASE t # 0
      BY <3>1, <3>2, Unseen DEF Called
    <3>3. CASE t = 0 /\ state'[0].pc \in Inside
      BY <3>1, <3>3, AtRestApart, Unseen DEF Called
    <3>4. CASE t = 0 /\ state'[0].pc = "idle" /\ tp'.ec = tp.ec /\ Result
      <4>1. Status = "running" /\ Status' = tp.ec
        BY <3>1, <3>4 DEF Status, Inside
      <4>2. Contract!Return
        BY <3>1, <3>4, <4>1 DEF Contract!Return, Result
      <4> QED
        BY <4>2 DEF ContractNext
    <3> QED
      BY <3>1, <3>2, <3>3, <3>4
  <2> QED
    BY <2>1, <2>2
<1>4. CASE \E t \in Worker : (Poll(t) \/ CheckForWork(t)) /\ state'[t].pc = "begin"
  <2> PICK t \in Worker : (Poll(t) \/ CheckForWork(t)) /\ state'[t].pc = "begin"
    BY <1>4
  <2>1. tp' = tp /\ done' = done /\ Becomes(t, "begin", state[t].at, state[t].chunk)
    BY <1>0, NoticeStep DEF PoolInv, Shape
  <2>2. state'[0] = state[0]
    BY <1>0, <2>1 DEF Becomes
  <2> QED
    BY <2>1, <2>2, Unseen DEF Called
<1>5. CASE Outer
  <2>1. /\ tp'.cgraph = tp.cgraph /\ tp'.ec = tp.ec /\ done' = done
        /\ state'[0].nth = state[0].nth
    BY <1>0, <1>5 DEF Outer, PoolStays, PoolKeeps
  <2>2. Called' <=> Called
    BY <1>0, <1>5 DEF Outer, Called, AtRest
  <2> QED
    BY <2>1, <2>2, Unseen
<1> QED
  BY <1>0, <1>1, <1>2, <1>3, <1>4, <1>5, StepKinds

\* The pool computes graphs as GraphContract promises it: each call returns with the
\* whole graph, or, aborted, with whole nodes.
THEOREM ComputesGraphsHolds == Spec => ComputesGraphs
<1>1. Init => Contract!Init
  BY PoolAssumption DEF Init, Contract!Init, Status, Thread
<1>2. PoolInv /\ PartsInv /\ [Next]_vars => [ContractNext]_Contract!vars
  BY StepRefines
<1> QED
  BY <1>1, <1>2, PartsCorrect, PTL DEF Spec, ComputesGraphs, Contract!Spec, ContractNext
=============================================================================
