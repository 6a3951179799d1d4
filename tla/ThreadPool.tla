----------------------------- MODULE ThreadPool -----------------------------
(***************************************************************************)
(* The CPU thread pool that computes every graph (ggml-cpu.c, built        *)
(* without OpenMP as docs/android.md prescribes): thread 0 is the caller   *)
(* of ggml_graph_compute, the others run                                   *)
(* ggml_graph_compute_secondary_thread.  A step is one access to a shared  *)
(* field, or a section of a worker under the mutex: everything such a      *)
(* section reads is written under the mutex only.                          *)
(*                                                                         *)
(* Fields of tp and state[t] are those of struct ggml_threadpool and       *)
(* struct ggml_compute_state, with the locals of the thread's functions.   *)
(* n_graph is the pair <<graph count, thread count>> packed in one int.    *)
(***************************************************************************)
EXTENDS Naturals, Sequences, FiniteSets

CONSTANTS
  NThreads,      \* threads of the pool, the caller included
  Graphs,        \* the graphs that may be computed, see GraphContract
  MaxGraphs,     \* bound: graphs computed in a run
  MaxPauses      \* bound: calls of ggml_threadpool_pause

ASSUME PoolAssumption ==
  /\ NThreads \in Nat \ {0}
  /\ MaxGraphs \in Nat /\ MaxPauses \in Nat

Thread == 0 .. NThreads - 1
Worker == Thread \ {0}

VARIABLES
  tp,        \* struct ggml_threadpool
  state,     \* per thread: struct ggml_compute_state and its locals
  done,      \* what is computed of the current graph, as the caller sees it
  pauses     \* calls of ggml_threadpool_pause so far

vars == <<tp, state, done, pauses>>

Status == IF state[0].pc \in {"idle", "stop", "join", "freed"}
          THEN tp.ec ELSE "running"
Contract == INSTANCE GraphContract
  WITH graph <- tp.cgraph, threads <- state[0].nth, status <- Status,
       MaxThreads <- NThreads

\* Nodes are made of stages.  Every loop that claims chunks has a barrier behind it
\* before the next one sets current_chunk (sgemm.cpp:628, ggml-cpu.c:2977), so that
\* no two stages with chunks are next to each other.
ASSUME GraphsAssumption ==
  \A g \in Graphs :
    /\ g \in Seq(Seq(Nat))
    /\ \A i \in DOMAIN g : \A s \in 1 .. Len(g[i]) - 1 :
         Contract!Slices \in {g[i][s], g[i][s + 1]}

Init ==
  /\ tp = [n_graph |-> <<0, 0>>, cgraph |-> <<>>, n_barrier |-> 0,
           n_barrier_passed |-> 0, current_chunk |-> 0, stop |-> FALSE,
           pause |-> FALSE, abort |-> 0, ec |-> "success", mutex |-> FALSE]
  /\ state = [t \in Thread |->
       [pc |-> IF t = 0 THEN "idle" ELSE "loop", last_graph |-> <<0, 0>>,
        cgraph |-> <<>>, nth |-> 0, at |-> <<0, 0>>, chunk |-> 0,
        bar |-> <<0, 0>>]]
  /\ done = {} /\ pauses = 0

Goto(t, pc) == state' = [state EXCEPT ![t].pc = pc]

\* ggml_cond_broadcast: who sleeps looks at the flags again
Broadcast(s) ==
  [t \in Thread |-> IF s[t].pc = "paused" THEN [s[t] EXCEPT !.pc = "loop"]
                    ELSE IF s[t].pc = "asleep" THEN [s[t] EXCEPT !.pc = "lock"]
                    ELSE s[t]]

-----------------------------------------------------------------------------
(* The caller between two graphs *)

\* MUTANT: an abort of the graph before is left in the pool
ComputeKeepsAbort(g, n) ==
  /\ state[0].pc = "idle" /\ tp.n_graph[1] < MaxGraphs
  /\ tp' = [tp EXCEPT !.cgraph = g, !.current_chunk = 0, !.ec = "success"]
  /\ state' = [state EXCEPT ![0].pc = "kick", ![0].nth = n]
  /\ done' = {} /\ UNCHANGED pauses

\* ggml_graph_compute up to the kickoff: the reset of the pool's parameters
Compute(g, n) ==
  /\ state[0].pc = "idle" /\ tp.n_graph[1] < MaxGraphs
  /\ tp' = [tp EXCEPT !.cgraph = g, !.current_chunk = 0, !.abort = 0,
                      !.ec = "success"]
  /\ state' = [state EXCEPT ![0].pc = "kick", ![0].nth = n]
  /\ done' = {} /\ UNCHANGED pauses

\* ggml_graph_compute_kickoff, first half
Kick ==
  /\ state[0].pc = "kick" /\ ~tp.mutex
  /\ tp' = [tp EXCEPT !.n_graph = <<@[1] + 1, state[0].nth>>, !.mutex = TRUE]
  /\ Goto(0, "signal") /\ UNCHANGED <<done, pauses>>

\* MUTANT: nobody is woken unless the pool was paused
KickWithoutSignal ==
  /\ state[0].pc = "signal"
  /\ tp' = [tp EXCEPT !.pause = FALSE, !.mutex = FALSE]
  /\ state' = [(IF tp.pause THEN Broadcast(state) ELSE state)
                 EXCEPT ![0].pc = "begin"]
  /\ UNCHANGED <<done, pauses>>

\* its second half: resumes a paused pool and wakes the sleepers
KickSignal ==
  /\ state[0].pc = "signal"
  /\ tp' = [tp EXCEPT !.pause = FALSE, !.mutex = FALSE]
  /\ state' = [Broadcast(state) EXCEPT ![0].pc = "begin"]
  /\ UNCHANGED <<done, pauses>>

\* ggml_threadpool_pause and ggml_threadpool_resume
Pause(on) ==
  /\ state[0].pc = "idle" /\ ~tp.mutex /\ tp.pause # on
  /\ on => pauses < MaxPauses
  /\ pauses' = IF on THEN pauses + 1 ELSE pauses
  /\ tp' = [tp EXCEPT !.pause = on]
  /\ state' = Broadcast(state) /\ UNCHANGED done

\* ggml_threadpool_free
FreeStop ==
  /\ state[0].pc = "idle" /\ ~tp.mutex
  /\ tp' = [tp EXCEPT !.stop = TRUE, !.mutex = TRUE]
  /\ Goto(0, "stop") /\ UNCHANGED <<done, pauses>>

FreeSignal ==
  /\ state[0].pc = "stop"
  /\ tp' = [tp EXCEPT !.pause = FALSE, !.mutex = FALSE]
  /\ state' = [Broadcast(state) EXCEPT ![0].pc = "join"]
  /\ UNCHANGED <<done, pauses>>

FreeJoin ==
  /\ state[0].pc = "join" /\ \A t \in Worker : state[t].pc = "exited"
  /\ Goto(0, "freed") /\ UNCHANGED <<tp, done, pauses>>

-----------------------------------------------------------------------------
(* A worker between two graphs *)

\* while (threadpool->pause), and the test of stop behind it
Loop(t) ==
  /\ state[t].pc \in {"loop", "stop?"}
  /\ Goto(t, IF state[t].pc = "loop"
             THEN IF tp.pause THEN "pause" ELSE "stop?"
             ELSE IF tp.stop THEN "exited" ELSE "poll")
  /\ UNCHANGED <<tp, done, pauses>>

PauseWait(t) ==
  /\ state[t].pc = "pause" /\ ~tp.mutex
  /\ Goto(t, IF tp.pause THEN "paused" ELSE "loop")
  /\ UNCHANGED <<tp, done, pauses>>

\* the n_graph half of ggml_graph_compute_thread_ready: a new graph is noted
\* whether or not it is for this thread (pending)
NoteGraph(t, other) ==
  state' = [state EXCEPT
    ![t].last_graph = tp.n_graph,
    ![t].pc = IF t < tp.n_graph[2] THEN "begin" ELSE other]

\* ggml_graph_compute_poll_for_work, a round: the flags, then n_graph
Poll(t) ==
  /\ \/ /\ state[t].pc = "poll"
        /\ Goto(t, IF tp.stop \/ tp.pause THEN "lock" ELSE "polled")
     \/ /\ state[t].pc = "polled" /\ tp.n_graph # state[t].last_graph
        /\ NoteGraph(t, "lock")
     \/ /\ state[t].pc = "polled" /\ tp.n_graph = state[t].last_graph
        /\ \E next \in {"poll", "lock"} : Goto(t, next)
  /\ UNCHANGED <<tp, done, pauses>>

\* the rest of ggml_graph_compute_check_for_work, under the mutex
CheckForWork(t) ==
  /\ state[t].pc = "lock" /\ ~tp.mutex
  /\ IF tp.stop \/ tp.pause THEN Goto(t, "loop")
     ELSE IF tp.n_graph # state[t].last_graph THEN NoteGraph(t, "loop")
     ELSE Goto(t, "asleep")
  /\ UNCHANGED <<tp, done, pauses>>

\* ggml_cond_wait may return without a signal
SpuriousWakeup(t) ==
  /\ state[t].pc \in {"asleep", "paused"} /\ ~tp.mutex
  /\ Goto(t, IF state[t].pc = "asleep" THEN "lock" ELSE "loop")
  /\ UNCHANGED <<tp, done, pauses>>

-----------------------------------------------------------------------------
(* ggml_graph_compute_thread; at is the node and the stage of it *)

Begin(t) ==
  /\ state[t].pc = "begin"
  /\ state' = [state EXCEPT ![t].pc = "node", ![t].at = <<1, 0>>,
                            ![t].cgraph = tp.cgraph, ![t].nth = tp.n_graph[2]]
  /\ UNCHANGED <<tp, done, pauses>>

Node(t) == state[t].cgraph[state[t].at[1]]
Parts(t) == Contract!Width(Node(t)[state[t].at[2]], state[t].nth)
Claimed(t, s) == Node(t)[s] # Contract!Slices
\* a barrier before the next stage, where thread 0 resets current_chunk if the
\* threads are going to claim chunks
StageBarrier(t, s) == IF t = 0 /\ Claimed(t, s) THEN "set" ELSE "barrier"
StageEnd(t, s) == IF s < Len(Node(t)) THEN StageBarrier(t, s + 1) ELSE "node_done"

\* MUTANT: no barrier at the end of the graph
NextNodeNoFinalBarrier(t) ==
  /\ state[t].pc = "node"
  /\ LET i == state[t].at[1]
         over == i > Len(state[t].cgraph) \/ tp.abort = i
         to(pc, at) == state' = [state EXCEPT ![t].pc = pc, ![t].at = at,
                                              ![t].chunk = t]
     IN IF over THEN to(IF t = 0 THEN "idle" ELSE "loop", <<0, 0>>)
        ELSE IF Node(t) = <<>> THEN to("node", <<i + 1, 0>>)
        ELSE IF Claimed(t, 1) THEN to(StageBarrier(t, 1), <<i, 0>>)
        ELSE to("work", <<i, 1>>)
  /\ UNCHANGED <<tp, done, pauses>>

\* the loop over the nodes: done, aborted, skipped, or computed
NextNode(t) ==
  /\ state[t].pc = "node"
  /\ LET i == state[t].at[1]
         over == i > Len(state[t].cgraph) \/ tp.abort = i
         to(pc, at) == state' = [state EXCEPT ![t].pc = pc, ![t].at = at,
                                              ![t].chunk = t]
     IN IF over THEN to("barrier", <<0, 0>>)
        ELSE IF Node(t) = <<>> THEN to("node", <<i + 1, 0>>)
        ELSE IF Claimed(t, 1) THEN to(StageBarrier(t, 1), <<i, 0>>)
        ELSE to("work", <<i, 1>>)
  /\ UNCHANGED <<tp, done, pauses>>

\* MUTANT: the first chunks are handed out again
SetChunkToZero(t) ==
  /\ state[t].pc = "set"
  /\ tp' = [tp EXCEPT !.current_chunk = 0]
  /\ Goto(t, "barrier") /\ UNCHANGED <<done, pauses>>

\* ggml_threadpool_chunk_set
SetChunk(t) ==
  /\ state[t].pc = "set"
  /\ tp' = [tp EXCEPT !.current_chunk = state[t].nth]
  /\ Goto(t, "barrier") /\ UNCHANGED <<done, pauses>>

\* a part is computed.  mul_mat claims no more when every thread had a chunk
Work(t) ==
  /\ state[t].pc = "work"
  /\ done' = done \cup {<<state[t].at, state[t].chunk>>}
  /\ \/ Claimed(t, state[t].at[2]) /\ Goto(t, "claim")
     \/ Parts(t) <= state[t].nth /\ Goto(t, StageEnd(t, state[t].at[2]))
  /\ UNCHANGED <<tp, pauses>>

\* ggml_threadpool_chunk_add
Claim(t) ==
  /\ state[t].pc = "claim"
  /\ tp' = [tp EXCEPT !.current_chunk = @ + 1]
  /\ state' = [state EXCEPT ![t].chunk = tp.current_chunk,
       ![t].pc = IF tp.current_chunk < Parts(t) THEN "work"
               ELSE StageEnd(t, state[t].at[2])]
  /\ UNCHANGED <<done, pauses>>

\* MUTANT: no barrier between two nodes
NodeDoneNoBarrier(t) ==
  /\ state[t].pc = "node_done"
  /\ \/ UNCHANGED tp
     \/ /\ t = 0
        /\ tp' = [tp EXCEPT !.abort = state[t].at[1] + 1, !.ec = "aborted"]
  /\ state' = [state EXCEPT ![t].pc = "node",
                            ![t].at = <<state[t].at[1] + 1, 0>>]
  /\ UNCHANGED <<done, pauses>>

\* the abort callback of thread 0, and the barrier before another node
NodeDone(t) ==
  /\ state[t].pc = "node_done"
  /\ \/ UNCHANGED tp
     \/ /\ t = 0
        /\ tp' = [tp EXCEPT !.abort = state[t].at[1] + 1, !.ec = "aborted"]
  /\ LET more == state[t].at[1] < Len(state[t].cgraph)
     IN state' = [state EXCEPT ![t].pc = "barrier",
                               ![t].at = IF more THEN @ ELSE <<0, 0>>]
  /\ UNCHANGED <<done, pauses>>

-----------------------------------------------------------------------------
(* ggml_barrier *)

\* behind the barrier: the end of the graph, the next stage or the next node
Past(t) ==
  LET i == state[t].at[1]
      s == state[t].at[2]
  IN IF i = 0 THEN Goto(t, IF t = 0 THEN "idle" ELSE "loop")
     ELSE IF s = Len(Node(t))
     THEN state' = [state EXCEPT ![t].pc = "node", ![t].at = <<i + 1, 0>>]
     ELSE state' = [state EXCEPT
            ![t].at = <<i, s + 1>>, ![t].chunk = t,
            ![t].pc = IF t < Contract!Width(Node(t)[s + 1], state[t].nth)
                      THEN "work" ELSE StageEnd(t, s + 1)]

BarrierRead(t) ==
  /\ state[t].pc = "barrier"
  /\ IF tp.n_graph[2] = 1 THEN Past(t)
     ELSE state' = [state EXCEPT
            ![t].pc = "enter", ![t].bar = <<tp.n_graph[2], tp.n_barrier_passed>>]
  /\ UNCHANGED <<tp, done, pauses>>

BarrierEnter(t) ==
  /\ state[t].pc = "enter"
  /\ tp' = [tp EXCEPT !.n_barrier = @ + 1]
  /\ Goto(t, IF tp.n_barrier = state[t].bar[1] - 1 THEN "last" ELSE "spin")
  /\ UNCHANGED <<done, pauses>>

BarrierReset(t) ==
  /\ state[t].pc = "last"
  /\ tp' = [tp EXCEPT !.n_barrier = 0]
  /\ Goto(t, "release") /\ UNCHANGED <<done, pauses>>

BarrierRelease(t) ==
  /\ state[t].pc = "release"
  /\ tp' = [tp EXCEPT !.n_barrier_passed = @ + 1]
  /\ Past(t) /\ UNCHANGED <<done, pauses>>

BarrierLeave(t) ==
  /\ state[t].pc = "spin" /\ tp.n_barrier_passed # state[t].bar[2]
  /\ Past(t) /\ UNCHANGED <<tp, done, pauses>>

-----------------------------------------------------------------------------

ComputeStep(t) ==
  \/ Begin(t) \/ NextNode(t) \/ SetChunk(t) \/ Work(t) \/ Claim(t)
  \/ NodeDone(t) \/ BarrierRead(t) \/ BarrierEnter(t) \/ BarrierReset(t)
  \/ BarrierRelease(t) \/ BarrierLeave(t)
WorkerStep(t) ==
  Loop(t) \/ PauseWait(t) \/ Poll(t) \/ CheckForWork(t) \/ ComputeStep(t)
InCall == Kick \/ KickSignal \/ FreeSignal \/ FreeJoin \/ ComputeStep(0)
Calls ==
  \/ \E g \in Graphs, n \in 1 .. NThreads : Compute(g, n)
  \/ \E on \in BOOLEAN : Pause(on)
  \/ FreeStop
Finished == state[0].pc = "freed" /\ UNCHANGED vars

Next ==
  \/ Calls \/ InCall \/ Finished
  \/ \E t \in Worker : WorkerStep(t) \/ SpuriousWakeup(t)

Spec == Init /\ [][Next]_vars
FairSpec == Spec /\ WF_vars(InCall) /\ \A t \in Worker : WF_vars(WorkerStep(t))

-----------------------------------------------------------------------------
(* Properties *)

TypeOK ==
  /\ tp.n_graph \in (0 .. MaxGraphs) \X (0 .. NThreads)
  /\ tp.cgraph \in Graphs \cup {<<>>}
  /\ tp.n_barrier \in 0 .. NThreads
  /\ tp.n_barrier_passed \in Nat /\ tp.current_chunk \in Nat /\ tp.abort \in Nat
  /\ tp.ec \in {"success", "aborted"}
  /\ {tp.stop, tp.pause, tp.mutex} \subseteq BOOLEAN
  /\ \A t \in Thread :
       /\ state[t].pc \in
            {"begin", "node", "set", "work", "claim", "node_done", "barrier",
             "enter", "last", "release", "spin"}
            \cup (IF t = 0 THEN {"idle", "kick", "signal", "stop", "join", "freed"}
                  ELSE {"loop", "stop?", "pause", "paused", "poll", "polled",
                        "lock", "asleep", "exited"})
       /\ state[t].nth \in 0 .. NThreads

\* between ggml_graph_compute_thread's first read of the pool's parameters and
\* its last; spinning in the barrier at the end it reads the barrier only
Computing(t) ==
  /\ state[t].pc \in {"begin", "node", "set", "work", "claim", "node_done",
                      "barrier", "enter", "last", "release", "spin"}
  /\ ~(state[t].pc = "spin" /\ state[t].bar[2] # tp.n_barrier_passed
       /\ state[t].at = <<0, 0>>)

\* The type invariant, and "No worker threads should be accessing the parameters
\* below at this stage" (ggml-cpu.c:3227): from the end of a graph until the next
\* kickoff nobody is inside the computation.
QuietAtReset ==
  /\ TypeOK
  /\ state[0].pc \in {"idle", "kick", "stop", "join", "freed"} =>
       \A t \in Worker : ~Computing(t)

\* No chunk or slice is computed twice, and no two threads write the same one.
EachPartOnce ==
  \A t \in Thread : state[t].pc = "work" =>
    /\ <<state[t].at, state[t].chunk>> \notin done
    /\ \A u \in Thread \ {t} : state[u].pc = "work" =>
         <<state[u].at, state[u].chunk>> # <<state[t].at, state[t].chunk>>

\* A thread works on a stage only when all of what comes before is written.
InputsReady ==
  \A t \in Thread : state[t].pc = "work" =>
    Contract!PartsBefore(tp.cgraph, tp.n_graph[2], state[t].at) \subseteq done

\* ggml_graph_compute keeps its promise, see GraphContract.
ComputesGraphs == Contract!Spec

\* Every graph that was started is computed or aborted, and every pool that is
\* freed is: no thread sleeps through its kickoff or waits for one that does.
WaitsEnd ==
  /\ state[0].pc = "kick" ~> state[0].pc = "idle"
  /\ state[0].pc = "stop" ~> state[0].pc = "freed"
=============================================================================
