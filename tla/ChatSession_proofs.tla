------------------------ MODULE ChatSession_proofs ------------------------
(***************************************************************************)
(* What holds of ChatSession for any number of questions, saves, chunks    *)
(* and stored turns.                                                       *)
(***************************************************************************)
EXTENDS ChatSession, FiniteSetTheorems, SequenceTheorems, TLAPS

-----------------------------------------------------------------------------
(* Types.                                                                  *)

\* What is queued, shown and remembered has the types the queues expect.
LEMMA ElementTypes ==
  /\ LoadTask \in Tasks
  /\ \A q \in 0 .. MaxAsks : RunTask(q) \in Tasks
  /\ \A ptr \in Pointers, cfg \in Versions : ApplyTask(ptr, cfg) \in Tasks
  /\ \A ptr \in Pointers : ReleaseTask(ptr) \in Tasks
  /\ \A ptr \in Pointers : Loaded(ptr) \in Messages
  /\ \A q \in 0 .. MaxAsks, out \in Outputs : Answer(q, out) \in Messages
  /\ Notice \in Bubbles
  /\ \A q \in 0 .. MaxAsks : UserBubble(q) \in Bubbles /\ AssistantBubble(q) \in Bubbles
  /\ Idle \in Workers
  BY ConstantsAssumption
     DEF ConstantsAssumption, LoadTask, RunTask, ApplyTask, ReleaseTask, Task, Tasks,
         Loaded, Answer, Messages, Notice, UserBubble, AssistantBubble, Bubbles, Idle,
         Workers, Pcs, Pointers, Versions, Null, Handle

\* What a Runnable of the looper finds in the message it was posted with.
LEMMA MessageTypes ==
  ASSUME NEW m \in Messages
  PROVE  /\ m.kind = "loaded" => m.ptr \in Pointers
         /\ m.kind = "answer" => /\ m.q \in 0 .. MaxAsks
                                 /\ m.out.listed \in BOOLEAN
                                 /\ m.out.chunks \in 0 .. MaxChunks
  BY DEF Messages, Outputs

\* updateMessageText keeps the messages messages.
LEMMA UpdateMessageType ==
  ASSUME chat \in Seq(Bubbles), NEW pos, NEW shown \in 0 .. MaxChunks, NEW failed \in BOOLEAN
  PROVE  UpdateMessage(pos, shown, failed) \in Seq(Bubbles)
<1>1. ASSUME pos \in DOMAIN chat
      PROVE  [chat EXCEPT ![pos].shown = shown, ![pos].failed = failed] \in Seq(Bubbles)
  <2> DEFINE bubble == [[chat[pos] EXCEPT !.shown = shown] EXCEPT !.failed = failed]
  <2>1. chat[pos] \in Bubbles
    BY <1>1, ElementOfSeq
  <2>2. bubble \in Bubbles
    BY <2>1 DEF Bubbles
  <2>3. [chat EXCEPT ![pos] = bubble] \in Seq(Bubbles)
    BY <1>1, <2>2, ExceptSeq
  <2>4. [chat EXCEPT ![pos].shown = shown, ![pos].failed = failed] = [chat EXCEPT ![pos] = bubble]
    BY <1>1
  <2> QED
    BY <2>3, <2>4
<1> QED
  BY <1>1 DEF UpdateMessage

\* remove(0) keeps the history within MAX_STORED_TURNS.
LEMMA RememberType ==
  ASSUME turns \in Seq(Turns), Len(turns) <= StoredTurns, NEW t \in Turns
  PROVE  Remember(t) \in Seq(Turns) /\ Len(Remember(t)) <= StoredTurns
<1> DEFINE longer == Append(turns, t)
<1>1. longer \in Seq(Turns) /\ Len(longer) = Len(turns) + 1 /\ Len(turns) \in Nat
  BY AppendProperties, LenProperties
<1>2. Tail(longer) \in Seq(Turns) /\ Len(Tail(longer)) = Len(turns)
  BY <1>1, AppendProperties, HeadTailProperties
<1> QED
  BY <1>1, <1>2, ConstantsAssumption DEF Remember, ConstantsAssumption

\* What execute leaves in the executor.
LEMMA ExecuteType ==
  ASSUME tasks \in Seq(Tasks), rejected \in BOOLEAN, NEW t \in Tasks, Execute(tasks, t)
  PROVE  tasks' \in Seq(Tasks) /\ rejected' \in BOOLEAN
<1>1. CASE shutdown
  BY <1>1 DEF Execute
<1>2. CASE ~shutdown
  BY <1>2, AppendProperties DEF Execute
<1> QED
  BY <1>1, <1>2

\* Every action keeps the variables in their domains.
LEMMA TypeInductive == TypeOK /\ [Next]_vars => TypeOK'
<1> SUFFICES ASSUME TypeOK, [Next]_vars PROVE TypeOK'
  OBVIOUS
<1> USE ConstantsAssumption
    DEF ConstantsAssumption, TypeOK, ActivityTypes, ChatTypes, QueueTypes,
        uiVars, executorVars, nativeVars
<1>1. CASE OnCreate
  BY <1>1, ElementTypes, ExecuteType DEF OnCreate
<1>2. CASE OnCreateWithoutModel
  BY <1>2 DEF OnCreateWithoutModel
<1>3. CASE OpenSettings
  BY <1>3 DEF OpenSettings
<1>4. CASE SaveSettings
  BY <1>4 DEF SaveSettings, Versions
<1>5. CASE SettingsResult
  <2>1. tasks' \in Seq(Tasks) /\ rejected' \in BOOLEAN
    BY <1>5, ElementTypes, ExecuteType DEF SettingsResult
  <2> QED
    BY <1>5, <2>1 DEF SettingsResult
<1>6. CASE RunInference
  <2> DEFINE q == Len(asks) + 1
             ask == [pos |-> AssistantPosition, since |-> store]
  <2>1. q \in 0 .. MaxAsks
    BY <1>6, LenProperties DEF RunInference
  <2>2. tasks' \in Seq(Tasks) /\ rejected' \in BOOLEAN
    BY <1>6, <2>1, ElementTypes, ExecuteType DEF RunInference
  <2>3. chat' \in Seq(Bubbles)
    BY <1>6, <2>1, ElementTypes, AppendProperties DEF RunInference
  <2>4. ask \in Asks
    BY LenProperties DEF Asks, AssistantPosition
  <2>5. asks' \in Seq(Asks) /\ Len(asks') = Len(asks) + 1
    BY <1>6, <2>4, AppendProperties DEF RunInference
  <2>6. Len(asks') <= MaxAsks
    BY <2>1, <2>5
  <2> QED
    BY <1>6, <2>2, <2>3, <2>5, <2>6 DEF RunInference
<1>7. CASE OnDestroy
  <2>1. tasks' \in Seq(Tasks) /\ rejected' \in BOOLEAN
    BY <1>7, ElementTypes, ExecuteType DEF OnDestroy, QueueRelease
  <2> QED
    BY <1>7, <2>1 DEF OnDestroy, QueueRelease, Pointers
<1>8. CASE HandleLoaded
  <2>1. Head(uiQueue) \in Messages /\ Tail(uiQueue) \in Seq(Messages)
    BY <1>8, HeadTailProperties DEF HandleLoaded, Posted
  <2>2. modelPtr' \in Pointers
    BY <1>8, <2>1, MessageTypes DEF HandleLoaded, Posted
  <2>3. chat' \in Seq(Bubbles)
    BY <1>8, ElementTypes, AppendProperties DEF HandleLoaded
  <2>4. sendEnabled' \in BOOLEAN
    BY <1>8 DEF HandleLoaded
  <2> QED
    BY <1>8, <2>1, <2>2, <2>3, <2>4 DEF HandleLoaded
<1>9. CASE HandleFailure
  <2>1. Head(uiQueue) \in Messages /\ Tail(uiQueue) \in Seq(Messages)
    BY <1>9, HeadTailProperties DEF HandleFailure, Posted
  <2>2. chat' \in Seq(Bubbles)
    BY <1>9, <2>1, MessageTypes, UpdateMessageType DEF HandleFailure, Posted
  <2> QED
    BY <1>9, <2>1, <2>2 DEF HandleFailure, EndQuestion
<1>10. CASE HandleAnswer
  <2>1. Head(uiQueue) \in Messages /\ Tail(uiQueue) \in Seq(Messages)
    BY <1>10, HeadTailProperties DEF HandleAnswer, Posted
  <2>2. stream' \in Streams
    BY <1>10, <2>1, MessageTypes DEF HandleAnswer, Posted, Streams
  <2> QED
    BY <1>10, <2>1, <2>2 DEF HandleAnswer
<1>11. CASE StreamStopped
  BY <1>11 DEF StreamStopped
<1>12. CASE StreamChunk
  <2>1. NextEnd \in 0 .. MaxChunks
    BY DEF NextEnd, Streams
  <2>2. stream' \in Streams
    BY <1>12, <2>1 DEF StreamChunk, Streams
  <2>3. chat' \in Seq(Bubbles)
    BY <1>12, <2>1, UpdateMessageType DEF StreamChunk, ShowChunk
  <2> QED
    BY <1>12, <2>2, <2>3 DEF StreamChunk
<1>13. CASE StreamDone
  <2>1. NextEnd \in 0 .. MaxChunks
    BY DEF NextEnd, Streams
  <2>2. stream' \in Streams
    BY <1>13, <2>1 DEF StreamDone, Streams
  <2>3. chat' \in Seq(Bubbles)
    BY <1>13, <2>1, UpdateMessageType DEF StreamDone, ShowChunk
  <2>4. [q |-> stream.q, chunks |-> stream.chunks] \in Turns
    BY DEF Streams, Turns
  <2>5. turns' \in Seq(Turns) /\ Len(turns') <= StoredTurns
    BY <1>13, <2>4, RememberType DEF StreamDone
  <2> QED
    BY <1>13, <2>2, <2>3, <2>5 DEF StreamDone, EndQuestion
<1>14. CASE TakeTask
  <2>1. Head(tasks) \in Tasks /\ Tail(tasks) \in Seq(Tasks)
    BY <1>14, HeadTailProperties DEF TakeTask
  <2>2. worker' \in Workers
    BY <1>14, <2>1 DEF TakeTask, Tasks, Workers, Pcs
  <2> QED
    BY <1>14, <2>1, <2>2 DEF TakeTask
<1>15. CASE CreateModel
  BY <1>15 DEF CreateModel, Workers, Pcs, Pointers, Handle
<1>16. CASE CreateModelFails
  BY <1>16 DEF CreateModelFails, Workers, Pcs
<1>17. CASE ConfigureCreated
  BY <1>17 DEF ConfigureCreated, Workers, Pcs
<1>18. CASE PostLoaded
  BY <1>18, ElementTypes, AppendProperties DEF PostLoaded, Post, Workers
<1>19. CASE ReloadSettings
  BY <1>19 DEF ReloadSettings, Workers, Pcs
<1>20. CASE AssignSettings
  BY <1>20 DEF AssignSettings, Workers, Pcs
<1>21. CASE ConfigureRun
  BY <1>21 DEF ConfigureRun, Workers, Pcs
<1>22. CASE Applied
  <2>1. modelCfg' \in Versions
    BY <1>22 DEF Applied, Workers
  <2>2. worker' \in Workers
    <3>1. CASE worker.kind = "load"
      BY <1>22, <3>1 DEF Applied, Workers, Pcs
    <3>2. CASE worker.kind = "run"
      BY <1>22, <3>2 DEF Applied, Workers, Pcs
    <3>3. CASE worker.kind \notin {"load", "run"}
      BY <1>22, <3>3, ElementTypes DEF Applied
    <3> QED
      BY <3>1, <3>2, <3>3
  <2> QED
    BY <1>22, <2>1, <2>2 DEF Applied
<1>23. CASE CallRun
  BY <1>23 DEF CallRun, Workers, Pcs
<1>24. CASE RunReturns
  BY <1>24, ElementTypes DEF RunReturns, Post, Workers
<1>25. CASE Release
  BY <1>25, ElementTypes DEF Release
<1>26. CASE UNCHANGED vars
  BY <1>26 DEF vars
<1> QED
  BY <1>1, <1>2, <1>3, <1>4, <1>5, <1>6, <1>7, <1>8, <1>9, <1>10, <1>11, <1>12, <1>13,
     <1>14, <1>15, <1>16, <1>17, <1>18, <1>19, <1>20, <1>21, <1>22, <1>23, <1>24, <1>25, <1>26
     DEF Next, UserStep, LooperStep, WorkerStep, Finished

\* TypeOK holds in every reachable state: among others, the history never
\* outgrows MAX_STORED_TURNS and the settings the model holds are saved ones.
THEOREM TypeCorrect == Safe => []TypeOK
<1>1. Init => TypeOK
  <2> SUFFICES ASSUME Init PROVE TypeOK
    OBVIOUS
  <2>1. ActivityTypes
    <3>1. 0 \in Versions
      BY ConstantsAssumption DEF ConstantsAssumption, Versions
    <3> QED
      BY <3>1 DEF Init, ActivityTypes, Pointers
  <2>2. ChatTypes
    BY ConstantsAssumption, EmptySeq DEF Init, ChatTypes, ConstantsAssumption, NoStream, Streams
  <2>3. QueueTypes
    BY ElementTypes, EmptySeq DEF Init, QueueTypes
  <2> QED
    BY <2>1, <2>2, <2>3 DEF TypeOK
<1> QED
  BY <1>1, TypeInductive, PTL DEF Safe

-----------------------------------------------------------------------------
(* Pointers.                                                               *)

\* The executor while the activity is there.
LEMMA ExecuteOpen ==
  ASSUME ~shutdown, ~rejected, NEW t, Execute(tasks, t)
  PROVE  tasks' = Append(tasks, t) /\ ~rejected'
  BY DEF Execute

LEMMA PointersInductive == TypeOK /\ PointersAreLive /\ [Next]_vars => PointersAreLive'
<1> SUFFICES ASSUME TypeOK, PointersAreLive, [Next]_vars PROVE PointersAreLive'
  OBVIOUS
<1> USE DEF PointersAreLive, uiVars, executorVars, nativeVars, Null, Handle,
        TypeOK, ActivityTypes, QueueTypes, LoadInProgress, LoadIsAlone, NoLoad,
        ReleaseIsLast, WorkerIsInItsTask, ExecutorLife, HeldPointers
<1>1. CASE OnCreate
  BY <1>1, ExecuteOpen DEF OnCreate, LoadTask, Task
<1>2. CASE OnCreateWithoutModel
  BY <1>2 DEF OnCreateWithoutModel
<1>3. CASE OpenSettings
  BY <1>3 DEF OpenSettings
<1>4. CASE SaveSettings
  BY <1>4 DEF SaveSettings
<1>5. CASE SettingsResult
  <2>1. CASE tasks' = tasks /\ rejected' = rejected
    BY <1>5, <2>1 DEF SettingsResult
  <2>2. CASE modelPtr # Null /\ ~modelLoading /\ Execute(tasks, ApplyTask(modelPtr, store))
    <3>1. tasks' = Append(tasks, ApplyTask(modelPtr, store)) /\ ~rejected'
      BY <1>5, <2>2, ExecuteOpen DEF SettingsResult
    <3>2. ApplyTask(modelPtr, store).kind = "apply" /\ ApplyTask(modelPtr, store).ptr = modelPtr
      BY DEF ApplyTask, Task
    <3> QED
      BY <1>5, <2>2, <3>1, <3>2 DEF SettingsResult
  <2> QED
    BY <1>5, <2>1, <2>2 DEF SettingsResult
<1>6. CASE RunInference
  <2>1. tasks' = Append(tasks, RunTask(Len(asks) + 1)) /\ ~rejected'
    BY <1>6, ExecuteOpen DEF RunInference
  <2>2. RunTask(Len(asks) + 1).kind = "run" /\ RunTask(Len(asks) + 1).ptr = Null
    BY DEF RunTask, Task
  <2> QED
    BY <1>6, <2>1, <2>2 DEF RunInference, CanAsk
<1>7. CASE OnDestroy
  <2>1. CASE modelPtr = Null
    BY <1>7, <2>1 DEF OnDestroy, QueueRelease
  <2>2. CASE modelPtr # Null
    <3>1. tasks' = Append(tasks, ReleaseTask(modelPtr)) /\ ~rejected'
      BY <1>7, <2>2, ExecuteOpen DEF OnDestroy, QueueRelease
    <3>2. ReleaseTask(modelPtr).kind = "release" /\ ReleaseTask(modelPtr).ptr = modelPtr
      BY DEF ReleaseTask, Task
    <3> QED
      BY <1>7, <2>2, <3>1, <3>2 DEF OnDestroy, QueueRelease
  <2> QED
    BY <2>1, <2>2
<1>8. CASE HandleLoaded
  BY <1>8 DEF HandleLoaded, Posted
<1>9. CASE HandleFailure
  BY <1>9 DEF HandleFailure, Posted, EndQuestion
<1>10. CASE HandleAnswer
  BY <1>10 DEF HandleAnswer, Posted
<1>11. CASE StreamStopped
  BY <1>11 DEF StreamStopped
<1>12. CASE StreamChunk
  BY <1>12 DEF StreamChunk
<1>13. CASE StreamDone
  BY <1>13 DEF StreamDone, EndQuestion
<1>14. CASE TakeTask
  <2>1. /\ Head(tasks) = tasks[1] /\ tasks[1] \in Tasks /\ tasks' = Tail(tasks)
        /\ Len(tasks) \in Nat \ {0} /\ Len(tasks') = Len(tasks) - 1
        /\ DOMAIN tasks = 1 .. Len(tasks) /\ DOMAIN tasks' = 1 .. (Len(tasks) - 1)
        /\ \A i \in DOMAIN tasks' : tasks'[i] = tasks[i + 1]
    BY <1>14, HeadTailProperties, LenProperties, EmptySeq DEF TakeTask
  <2>2. worker.pc = "idle" /\ worker'.kind = tasks[1].kind /\ worker'.ptr = tasks[1].ptr
    BY <1>14, <2>1 DEF TakeTask, AtPc
  <2>3. \/ worker'.kind = "load" /\ worker'.pc = "create"
        \/ worker'.kind = "run" /\ worker'.pc = "reload"
        \/ worker'.kind = "apply" /\ worker'.pc = "applying"
        \/ worker'.kind = "release" /\ worker'.pc = "releasing"
    BY <1>14, <2>1 DEF TakeTask, Tasks
  <2>4. LoadInProgress'
    <3>1. CASE modelLoading
      BY <1>14, <2>1, <2>2, <2>3, <3>1 DEF TakeTask, LoadTask, Task
    <3>2. CASE ~modelLoading
      BY <1>14, <2>1, <2>2, <3>2 DEF TakeTask
    <3> QED
      BY <3>1, <3>2
  <2>5. ReleaseIsLast'
    <3>1. ASSUME NEW i \in DOMAIN tasks', tasks'[i].kind = "release"
          PROVE  i = Len(tasks') /\ shutdown' /\ modelPtr' = Null
      BY <1>14, <2>1, <3>1 DEF TakeTask
    <3>2. worker'.pc = "releasing" => tasks' = <<>> /\ shutdown' /\ modelPtr' = Null
      BY <1>14, <2>1, <2>2, <2>3 DEF TakeTask
    <3> QED
      BY <3>1, <3>2
  <2>6. WorkerIsInItsTask'
    BY <2>3
  <2>7. ExecutorLife'
    BY <1>14, <2>1 DEF TakeTask
  <2>8. HeldPointers'
    BY <1>14, <2>1, <2>2 DEF TakeTask
  <2> QED
    BY <2>4, <2>5, <2>6, <2>7, <2>8
<1>15. CASE CreateModel
  BY <1>15 DEF CreateModel, AtPc, Workers
<1>16. CASE CreateModelFails
  BY <1>16 DEF CreateModelFails, AtPc, Workers
<1>17. CASE ConfigureCreated
  BY <1>17 DEF ConfigureCreated, AtPc, Workers
<1>18. CASE PostLoaded
  BY <1>18 DEF PostLoaded, AtPc, Workers, Post, Loaded, Idle
<1>19. CASE ReloadSettings
  BY <1>19 DEF ReloadSettings, AtPc, Workers
<1>20. CASE AssignSettings
  BY <1>20 DEF AssignSettings, AtPc, Workers
<1>21. CASE ConfigureRun
  BY <1>21 DEF ConfigureRun, AtPc, Workers
<1>22. CASE Applied
  BY <1>22 DEF Applied, AtPc, Workers, Idle
<1>23. CASE CallRun
  BY <1>23 DEF CallRun, AtPc, Workers
<1>24. CASE RunReturns
  BY <1>24 DEF RunReturns, AtPc, Workers, Post, Answer, Idle
<1>25. CASE Release
  BY <1>25 DEF Release, AtPc, Workers, Idle
<1>26. CASE UNCHANGED vars
  BY <1>26 DEF vars
<1> QED
  BY <1>1, <1>2, <1>3, <1>4, <1>5, <1>6, <1>7, <1>8, <1>9, <1>10, <1>11, <1>12, <1>13,
     <1>14, <1>15, <1>16, <1>17, <1>18, <1>19, <1>20, <1>21, <1>22, <1>23, <1>24, <1>25, <1>26
     DEF Next, UserStep, LooperStep, WorkerStep, Finished

\* Whoever holds a pointer holds one to a live model, at every step of the load,
\* the calls and the release.
THEOREM PointersCorrect == Safe => []PointersAreLive
<1>1. Init => PointersAreLive
  BY DEF Init, PointersAreLive, LoadInProgress, NoLoad, ReleaseIsLast, WorkerIsInItsTask,
         ExecutorLife, HeldPointers, Idle, Null
<1> QED
  BY <1>1, TypeCorrect, PointersInductive, PTL DEF Safe

\* The native calls of the worker never get the address of a deleted model, in
\* whatever order clicks, loads, settings and onDestroy come.
THEOREM NoUseAfterFreeHolds == Safe => []NoUseAfterFree
<1>1. PointersAreLive => NoUseAfterFree
  BY DEF PointersAreLive, HeldPointers, NoUseAfterFree
<1> QED
  BY <1>1, PointersCorrect, PTL

\* No execute() of the activity comes after shutdown(), so none throws.
THEOREM NoRejectedTaskHolds == Safe => []NoRejectedTask
<1>1. PointersAreLive => NoRejectedTask
  BY DEF PointersAreLive, ExecutorLife, NoRejectedTask
<1> QED
  BY <1>1, PointersCorrect, PTL

-----------------------------------------------------------------------------
(* The Send button.                                                        *)

\* Questions never outlive the model the activity holds, and the button follows
\* the three fields runInference looks at.
LEMMA SendButtonInductive ==
  /\ TypeOK /\ PointersAreLive
  /\ QuestionsHaveModel /\ SendButtonTellsTheTruth
  /\ [Next]_vars
  => QuestionsHaveModel' /\ SendButtonTellsTheTruth'
<1> SUFFICES ASSUME TypeOK, PointersAreLive, QuestionsHaveModel, SendButtonTellsTheTruth,
                    [Next]_vars
             PROVE  QuestionsHaveModel' /\ SendButtonTellsTheTruth'
  OBVIOUS
<1> USE DEF QuestionsHaveModel, QuestionUnderWay, SendButtonTellsTheTruth, uiVars, executorVars,
        TypeOK, ActivityTypes, QueueTypes, Null
<1>1. CASE OnCreate
  <2>1. tasks' = Append(tasks, LoadTask)
    BY <1>1, ExecuteOpen DEF OnCreate, PointersAreLive, ExecutorLife
  <2>2. tasks = <<>> /\ modelPtr = Null
    BY <1>1 DEF OnCreate, PointersAreLive, ExecutorLife
  <2>3. LoadTask.kind = "load"
    BY DEF LoadTask, Task
  <2> QED
    BY <1>1, <2>1, <2>2, <2>3 DEF OnCreate
<1>2. CASE OnCreateWithoutModel
  BY <1>2 DEF OnCreateWithoutModel
<1>3. CASE OpenSettings
  BY <1>3 DEF OpenSettings
<1>4. CASE SaveSettings
  BY <1>4 DEF SaveSettings
<1>5. CASE SettingsResult
  BY <1>5 DEF SettingsResult, Execute, ApplyTask, Task
<1>6. CASE RunInference
  BY <1>6 DEF RunInference, Execute, RunTask, Task, CanAsk
<1>7. CASE OnDestroy
  BY <1>7 DEF OnDestroy, QueueRelease, Execute, ReleaseTask, Task
<1>8. CASE HandleLoaded
  BY <1>8 DEF HandleLoaded, Posted, PointersAreLive, LoadInProgress, LoadIsAlone, NoLoad
<1>9. CASE HandleFailure
  BY <1>9 DEF HandleFailure, Posted, EndQuestion
<1>10. CASE HandleAnswer
  BY <1>10 DEF HandleAnswer, Posted
<1>11. CASE StreamStopped
  BY <1>11 DEF StreamStopped
<1>12. CASE StreamChunk
  BY <1>12 DEF StreamChunk
<1>13. CASE StreamDone
  BY <1>13 DEF StreamDone, EndQuestion
<1>14. CASE TakeTask
  BY <1>14 DEF TakeTask
<1>15. CASE CreateModel
  BY <1>15 DEF CreateModel, AtPc, Workers
<1>16. CASE CreateModelFails
  BY <1>16 DEF CreateModelFails, AtPc, Workers
<1>17. CASE ConfigureCreated
  BY <1>17 DEF ConfigureCreated, AtPc, Workers
<1>18. CASE PostLoaded
  BY <1>18 DEF PostLoaded, AtPc, Workers, Post, Loaded, Idle, PointersAreLive, WorkerIsInItsTask
<1>19. CASE ReloadSettings
  BY <1>19 DEF ReloadSettings, AtPc, Workers
<1>20. CASE AssignSettings
  BY <1>20 DEF AssignSettings, AtPc, Workers
<1>21. CASE ConfigureRun
  BY <1>21 DEF ConfigureRun, AtPc, Workers
<1>22. CASE Applied
  BY <1>22 DEF Applied, AtPc, Workers, Idle
<1>23. CASE CallRun
  BY <1>23 DEF CallRun, AtPc, Workers
<1>24. CASE RunReturns
  BY <1>24 DEF RunReturns, AtPc, Workers, Post, Answer, Idle, PointersAreLive, WorkerIsInItsTask
<1>25. CASE Release
  BY <1>25 DEF Release, AtPc, Workers, Idle
<1>26. CASE UNCHANGED vars
  BY <1>26 DEF vars
<1> QED
  BY <1>1, <1>2, <1>3, <1>4, <1>5, <1>6, <1>7, <1>8, <1>9, <1>10, <1>11, <1>12, <1>13,
     <1>14, <1>15, <1>16, <1>17, <1>18, <1>19, <1>20, <1>21, <1>22, <1>23, <1>24, <1>25, <1>26
     DEF Next, UserStep, LooperStep, WorkerStep, Finished

\* The button is enabled exactly when runInference would take a question, whatever
\* the worker and the settings screen do meanwhile.
THEOREM SendButtonCorrect == Safe => []SendButtonTellsTheTruth
<1> DEFINE Inv == QuestionsHaveModel /\ SendButtonTellsTheTruth
<1>1. Init => Inv
  BY DEF Init, QuestionsHaveModel, QuestionUnderWay, SendButtonTellsTheTruth, Idle
<1>2. TypeOK /\ PointersAreLive /\ Inv /\ [Next]_vars => Inv'
  BY SendButtonInductive
<1>3. Inv => SendButtonTellsTheTruth
  OBVIOUS
<1> QED
  BY <1>1, <1>2, <1>3, TypeCorrect, PointersCorrect, PTL DEF Safe

-----------------------------------------------------------------------------
(***************************************************************************)
(* The way of a question through ChatSession: from the executor over the   *)
(* worker and the looper into the stream, its bubble and the history; and  *)
(* that a chat session is one that ChatContract allows.  All of it for any *)
(* number of questions, saves, chunks and stored turns.                    *)
(***************************************************************************)

(* The inductive invariant.                                                *)

\* The latest question waits for its answer, or its answer is being shown.
Waiting ==
  \/ \E i \in DOMAIN tasks : tasks[i].kind = "run"
  \/ \E i \in DOMAIN uiQueue : uiQueue[i].kind = "answer"
  \/ worker.kind = "run"
UnderWay == Waiting \/ streamPosted

\* No two questions are under way, at whatever two places.
OneAtATime ==
  /\ \A i, j \in DOMAIN tasks : tasks[i].kind = "run" /\ tasks[j].kind = "run" => i = j
  /\ \A i, j \in DOMAIN uiQueue :
       uiQueue[i].kind = "answer" /\ uiQueue[j].kind = "answer" => i = j
  /\ \A i \in DOMAIN tasks : tasks[i].kind = "run" =>
       worker.kind # "run" /\ \A j \in DOMAIN uiQueue : uiQueue[j].kind # "answer"
  /\ worker.kind = "run" => \A j \in DOMAIN uiQueue : uiQueue[j].kind # "answer"
  /\ streamPosted => ~Waiting

\* What is under way is the latest question; generating says that there is one, as
\* long as the activity lives.
LatestIsUnderWay ==
  /\ \A i \in DOMAIN tasks : tasks[i].kind = "run" => tasks[i].q = Len(asks)
  /\ \A i \in DOMAIN uiQueue : uiQueue[i].kind = "answer" => uiQueue[i].q = Len(asks)
  /\ worker.kind = "run" => worker.q = Len(asks)
  /\ streamPosted => stream.q = Len(asks)
  /\ UnderWay => Len(asks) > 0
  /\ IF life = "destroyed" THEN ~generating ELSE generating <=> UnderWay

\* Every captured position is that of the bubble made for its question, which
\* follows the question itself.
BubblesBelong ==
  \A q \in DOMAIN asks :
    /\ asks[q].pos - 1 \in DOMAIN chat /\ asks[q].pos \in DOMAIN chat
    /\ BubbleOf(q).role = "assistant" /\ BubbleOf(q).q = q
    /\ chat[asks[q].pos - 1] = UserBubble(q)

\* The bubble of a question with so much of its output.
Showing(q, shown) == [AssistantBubble(q) EXCEPT !.shown = shown]

\* The bubble of the latest question is empty while it waits, and shows what the
\* stream has put there so far.
LatestBubble ==
  /\ Waiting => BubbleOf(Len(asks)) = AssistantBubble(Len(asks))
  /\ streamPosted => BubbleOf(Len(asks)) = Showing(Len(asks), stream.index)

\* The history has questions that ended, in their order, each with its whole output
\* on the screen.
HistoryIsShown ==
  /\ \A i \in DOMAIN turns :
       /\ turns[i].q \in DOMAIN asks
       /\ UnderWay => turns[i].q < Len(asks)
       /\ BubbleOf(turns[i].q) = Showing(turns[i].q, turns[i].chunks)
  /\ \A i, j \in DOMAIN turns : i < j => turns[i].q < turns[j].q

\* A question that is not under way has its place in the history, or in the past of
\* the history, or shows that it failed.
EndedQuestions ==
  \A q \in DOMAIN asks :
    \/ q = Len(asks) /\ UnderWay
    \/ \E i \in DOMAIN turns : turns[i].q = q
    \/ Len(turns) = StoredTurns /\ q < turns[1].q
    \/ BubbleOf(q).failed
    \/ life = "destroyed"

\* The settings that were stored when the question of the worker was sent do not get
\* lost on their way to the model.
SettingsArrive ==
  /\ \A q \in DOMAIN asks : asks[q].since <= store
  /\ worker.kind = "run" =>
       LET since == asks[worker.q].since IN
       /\ worker.pc \in {"assign", "applying"} => worker.cfg >= since
       /\ worker.pc = "readPtr" => currentSettings >= since
       /\ worker.pc = "applying" /\ modelPtr # Null => worker.ptr # Null
       /\ worker.pc = "callRun" /\ modelPtr # Null => modelCfg >= since
       /\ worker.pc = "running" /\ worker.ptr # Null => modelCfg >= since

\* What is known already.
Known == TypeOK /\ PointersAreLive /\ QuestionsHaveModel
QuestionInv ==
  /\ OneAtATime
  /\ LatestIsUnderWay
  /\ BubblesBelong
  /\ LatestBubble
  /\ HistoryIsShown
  /\ EndedQuestions
  /\ SettingsArrive

-----------------------------------------------------------------------------
(* Steps that move no question.                                            *)

\* The questions in the executor, on the worker and in the looper are where they
\* were, and the bubbles too.
SameQuestions ==
  /\ \A i \in DOMAIN tasks : tasks[i].kind = "run" => i \in DOMAIN tasks' /\ tasks'[i] = tasks[i]
  /\ \A i \in DOMAIN tasks' : tasks'[i].kind = "run" => i \in DOMAIN tasks /\ tasks'[i] = tasks[i]
  /\ \A i \in DOMAIN uiQueue :
       uiQueue[i].kind = "answer" => i \in DOMAIN uiQueue' /\ uiQueue'[i] = uiQueue[i]
  /\ \A i \in DOMAIN uiQueue' :
       uiQueue'[i].kind = "answer" => i \in DOMAIN uiQueue /\ uiQueue'[i] = uiQueue[i]
  /\ worker'.kind = "run" <=> worker.kind = "run"
  /\ worker.kind = "run" => worker'.q = worker.q
  /\ \A i \in DOMAIN chat : i \in DOMAIN chat' /\ chat'[i] = chat[i]
  /\ UNCHANGED <<asks, turns, stream, streamPosted, generating>>
  /\ life' = "destroyed" <=> life = "destroyed"

LEMMA SameQuestionsKeep ==
  ASSUME TypeOK, OneAtATime, LatestIsUnderWay, BubblesBelong, LatestBubble, HistoryIsShown,
         EndedQuestions, SameQuestions
  PROVE  /\ OneAtATime' /\ LatestIsUnderWay' /\ BubblesBelong' /\ LatestBubble'
         /\ HistoryIsShown' /\ EndedQuestions'
<1>1. /\ Waiting' <=> Waiting
      /\ UnderWay' <=> UnderWay
  BY DEF SameQuestions, Waiting, UnderWay
<1>2. Len(asks) \in Nat /\ DOMAIN asks = 1 .. Len(asks) /\ asks' = asks
  BY LenProperties DEF TypeOK, ChatTypes, SameQuestions
<1>3. \A q \in DOMAIN asks : /\ asks[q].pos \in DOMAIN chat' /\ BubbleOf(q)' = BubbleOf(q)
                             /\ chat'[asks[q].pos - 1] = chat[asks[q].pos - 1]
                             /\ asks[q].pos - 1 \in DOMAIN chat'
  BY <1>2 DEF BubblesBelong, BubbleOf, SameQuestions
<1>4. OneAtATime'
  BY <1>1 DEF SameQuestions, OneAtATime, Waiting
<1>5. LatestIsUnderWay'
  BY <1>1, <1>2 DEF SameQuestions, LatestIsUnderWay
<1>6. BubblesBelong'
  BY <1>2, <1>3 DEF BubblesBelong
<1>7. UnderWay => Len(asks) \in DOMAIN asks
  BY <1>2 DEF LatestIsUnderWay
<1>8. LatestBubble'
  BY <1>1, <1>2, <1>3, <1>7 DEF SameQuestions, LatestBubble, UnderWay
<1>9. HistoryIsShown'
  <2>1. turns' = turns
    BY DEF SameQuestions
  <2> QED
    BY <1>1, <1>2, <1>3, <2>1 DEF HistoryIsShown
<1>10. EndedQuestions'
  <2>1. turns' = turns /\ (life = "destroyed" => life' = "destroyed")
    BY DEF SameQuestions
  <2> QED
    BY <1>1, <1>2, <1>3, <2>1 DEF EndedQuestions
<1> QED
  BY <1>4, <1>5, <1>6, <1>8, <1>9, <1>10

\* A task that is no question goes to the end of the executor's queue, or nothing does.
LEMMA NoRunQueued ==
  ASSUME TypeOK, NEW t, t.kind # "run",
         tasks' = Append(tasks, t) \/ tasks' = tasks
  PROVE  /\ \A i \in DOMAIN tasks :
              tasks[i].kind = "run" => i \in DOMAIN tasks' /\ tasks'[i] = tasks[i]
         /\ \A i \in DOMAIN tasks' :
              tasks'[i].kind = "run" => i \in DOMAIN tasks /\ tasks'[i] = tasks[i]
  BY DEF TypeOK, QueueTypes

\* Most of the steps.
LEMMA StepsOfNoQuestion ==
  ASSUME Known,
         \/ OnCreate \/ OnCreateWithoutModel \/ OpenSettings \/ SaveSettings \/ SettingsResult
         \/ HandleLoaded
         \/ CreateModel \/ CreateModelFails \/ ConfigureCreated \/ PostLoaded
         \/ ReloadSettings \/ AssignSettings \/ ConfigureRun \/ Applied \/ CallRun \/ Release
  PROVE  SameQuestions
<1> USE DEF Known, TypeOK, QueueTypes, ChatTypes, SameQuestions, uiVars, executorVars, nativeVars
<1>0. /\ LoadTask.kind # "run"
      /\ \A ptr, cfg : ApplyTask(ptr, cfg).kind # "run"
  BY DEF LoadTask, ApplyTask, Task
<1>1. CASE OnCreate
  <2>1. tasks' = Append(tasks, LoadTask)
    BY <1>1, ExecuteOpen DEF OnCreate, PointersAreLive, ExecutorLife
  <2> QED
    BY <1>0, <1>1, <2>1, NoRunQueued DEF OnCreate
<1>2. CASE OnCreateWithoutModel \/ OpenSettings \/ SaveSettings
  BY <1>2 DEF OnCreateWithoutModel, OpenSettings, SaveSettings
<1>3. CASE SettingsResult
  <2>1. tasks' = Append(tasks, ApplyTask(modelPtr, store)) \/ tasks' = tasks
    BY <1>3 DEF SettingsResult, Execute
  <2>2. /\ \A i \in DOMAIN tasks :
              tasks[i].kind = "run" => i \in DOMAIN tasks' /\ tasks'[i] = tasks[i]
        /\ \A i \in DOMAIN tasks' :
              tasks'[i].kind = "run" => i \in DOMAIN tasks /\ tasks'[i] = tasks[i]
    BY <1>0, <2>1, NoRunQueued
  <2> QED
    BY <1>3, <2>2 DEF SettingsResult
<1>4. CASE HandleLoaded
  <2>1. uiQueue # <<>> /\ uiQueue[1].kind = "loaded" /\ uiQueue' = Tail(uiQueue)
    BY <1>4 DEF HandleLoaded, Posted
  <2>2. modelLoading /\ LoadIsAlone
    BY <2>1 DEF PointersAreLive, LoadInProgress, NoLoad
  <2>3. Len(uiQueue) = 1
    BY <2>1, <2>2 DEF LoadIsAlone
  <2>4. DOMAIN uiQueue = {1} /\ DOMAIN uiQueue' = {}
    BY <2>1, <2>3
  <2>5. \A i \in DOMAIN chat : i \in DOMAIN chat' /\ chat'[i] = chat[i]
    BY <1>4 DEF HandleLoaded
  <2> QED
    BY <1>4, <2>1, <2>4, <2>5 DEF HandleLoaded
<1>5. CASE CreateModel \/ CreateModelFails \/ ConfigureCreated \/ ReloadSettings
  BY <1>5 DEF CreateModel, CreateModelFails, ConfigureCreated, ReloadSettings, Workers
<1>6. CASE AssignSettings \/ ConfigureRun \/ CallRun
  BY <1>6 DEF AssignSettings, ConfigureRun, CallRun, Workers
<1>7. CASE Applied
  BY <1>7 DEF Applied, Workers, Idle
<1>8. CASE Release
  BY <1>8 DEF Release, Workers, Idle, AtPc, PointersAreLive, WorkerIsInItsTask
<1>9. CASE PostLoaded
  <2>1. uiQueue' = Append(uiQueue, Loaded(worker.ptr)) /\ Loaded(worker.ptr).kind = "loaded"
    BY <1>9 DEF PostLoaded, Post, Loaded
  <2>2. worker.kind = "load" /\ worker'.kind = "none"
    BY <1>9 DEF PostLoaded, AtPc, PointersAreLive, WorkerIsInItsTask, Idle
  <2> QED
    BY <1>9, <2>1, <2>2 DEF PostLoaded
<1> QED
  BY <1>1, <1>2, <1>3, <1>4, <1>5, <1>6, <1>7, <1>8, <1>9

-----------------------------------------------------------------------------
(* Bubbles.                                                                *)

\* Two records with the same fields are the same bubble.
LEMMA OneBubble ==
  ASSUME NEW q, NEW shown
  PROVE  \A x, y \in [role : {"assistant"}, q : {q}, shown : {shown}, failed : {FALSE}] : x = y
<1> TAKE x, y \in [role : {"assistant"}, q : {q}, shown : {shown}, failed : {FALSE}]
<1>1. x = [role |-> x.role, q |-> x.q, shown |-> x.shown, failed |-> x.failed]
  OBVIOUS
<1>2. y = [role |-> y.role, q |-> y.q, shown |-> y.shown, failed |-> y.failed]
  OBVIOUS
<1> QED
  BY <1>1, <1>2

\* The bubble of a question shows nothing before its stream begins.
LEMMA EmptyBubble ==
  ASSUME NEW q
  PROVE  Showing(q, 0) = AssistantBubble(q)
<1>1. /\ Showing(q, 0) \in [role : {"assistant"}, q : {q}, shown : {0}, failed : {FALSE}]
      /\ AssistantBubble(q) \in [role : {"assistant"}, q : {q}, shown : {0}, failed : {FALSE}]
  BY DEF Showing, AssistantBubble
<1> QED
  BY <1>1, OneBubble

\* updateMessageText on the captured position touches the bubble of the latest
\* question, and no other one.
LEMMA LatestUpdated ==
  ASSUME TypeOK, BubblesBelong, Len(asks) \in DOMAIN asks, asks' = asks,
         NEW shown, NEW failed, NEW old, BubbleOf(Len(asks)) = Showing(Len(asks), old),
         chat' = UpdateMessage(asks[Len(asks)].pos, shown, failed)
  PROVE  /\ BubbleOf(Len(asks))'.failed = failed
         /\ failed = FALSE => BubbleOf(Len(asks))' = Showing(Len(asks), shown)
         /\ BubblesBelong'
         /\ \A q \in DOMAIN asks \ {Len(asks)} : BubbleOf(q)' = BubbleOf(q)
<1> DEFINE n == Len(asks)
           pos == asks[n].pos
<1>1. /\ pos \in DOMAIN chat
      /\ chat' = [chat EXCEPT ![pos].shown = shown, ![pos].failed = failed]
  BY DEF BubblesBelong, UpdateMessage
<1>2. /\ DOMAIN chat' = DOMAIN chat
      /\ \A i \in DOMAIN chat \ {pos} : chat'[i] = chat[i]
      /\ chat'[pos] = [chat[pos] EXCEPT !.shown = shown, !.failed = failed]
  BY <1>1
<1>3. \A q \in DOMAIN asks \ {n} : asks[q].pos \in DOMAIN chat \ {pos}
  BY DEF BubblesBelong, BubbleOf
<1>4. \A q \in DOMAIN asks : asks[q].pos - 1 \in DOMAIN chat \ {pos}
  <2>1. \A q : UserBubble(q).role = "user"
    BY DEF UserBubble
  <2>2. chat[pos].role = "assistant"
    BY DEF BubblesBelong, BubbleOf
  <2> QED
    BY <2>1, <2>2 DEF BubblesBelong
<1>5. \A q \in DOMAIN asks \ {n} : BubbleOf(q)' = BubbleOf(q)
  BY <1>2, <1>3 DEF BubbleOf
<1>6. /\ BubbleOf(n)'.failed = failed
      /\ failed = FALSE => BubbleOf(n)' = Showing(n, shown)
  <2> DEFINE S == [role : {"assistant"}, q : {n}, shown : {shown}, failed : {FALSE}]
             old_b == Showing(n, old)
  <2>1. BubbleOf(n)' = [old_b EXCEPT !.shown = shown, !.failed = failed]
    BY <1>2 DEF BubbleOf
  <2>2. /\ failed = FALSE => BubbleOf(n)' \in S
        /\ BubbleOf(n)'.failed = failed
        /\ Showing(n, shown) \in S
    BY <2>1 DEF Showing, AssistantBubble
  <2> QED
    BY <2>2, OneBubble
<1>7. BubblesBelong'
  <2>1. chat[pos] \in Bubbles
    BY <1>1, ElementOfSeq DEF TypeOK, ChatTypes
  <2>2. chat'[pos].role = chat[pos].role /\ chat'[pos].q = chat[pos].q
    BY <1>2, <2>1 DEF Bubbles
  <2>3. \A q \in DOMAIN asks : BubbleOf(q)'.role = "assistant" /\ BubbleOf(q)'.q = q
    BY <1>5, <2>2 DEF BubblesBelong, BubbleOf
  <2>4. \A q \in DOMAIN asks : chat'[asks[q].pos - 1] = chat[asks[q].pos - 1]
    BY <1>2, <1>4
  <2> QED
    BY <1>2, <2>3, <2>4 DEF BubblesBelong
<1> QED
  BY <1>2, <1>5, <1>6, <1>7

-----------------------------------------------------------------------------
(* Steps that move a question.                                             *)

\* The six parts that speak of the way of a question.
QuestionPath == /\ OneAtATime /\ LatestIsUnderWay /\ BubblesBelong
                /\ LatestBubble /\ HistoryIsShown /\ EndedQuestions

\* Nothing of the conversation changes but the places of the questions.
SameChat == UNCHANGED <<chat, asks, turns>>

\* The history and the bubbles of a conversation that stays as it is.
LEMMA SameChatKeeps ==
  ASSUME TypeOK, BubblesBelong, HistoryIsShown, EndedQuestions, SameChat,
         UnderWay' => UnderWay,
         UnderWay => UnderWay' \/ life' = "destroyed",
         life = "destroyed" => life' = "destroyed"
  PROVE  BubblesBelong' /\ HistoryIsShown' /\ EndedQuestions'
<1> USE DEF SameChat
<1>1. \A q : BubbleOf(q)' = BubbleOf(q)
  BY DEF BubbleOf
<1>2. BubblesBelong'
  BY <1>1 DEF BubblesBelong
<1>3. HistoryIsShown'
  BY <1>1 DEF HistoryIsShown
<1>4. EndedQuestions'
  BY <1>1 DEF EndedQuestions
<1> QED
  BY <1>2, <1>3, <1>4

\* The executor's oldest task goes to the worker.
LEMMA TakeTaskKeepsPath ==
  ASSUME Known, QuestionPath, TakeTask
  PROVE  QuestionPath'
<1> USE DEF Known, TypeOK, QueueTypes, QuestionPath
<1>1. /\ Len(tasks) \in Nat \ {0} /\ tasks[1] \in Tasks
      /\ DOMAIN tasks = 1 .. Len(tasks) /\ DOMAIN tasks' = 1 .. (Len(tasks) - 1)
      /\ \A i \in DOMAIN tasks' : tasks'[i] = tasks[i + 1] /\ i + 1 \in DOMAIN tasks
      /\ \A i \in DOMAIN tasks : i # 1 => i - 1 \in DOMAIN tasks' /\ tasks'[i - 1] = tasks[i]
      /\ worker'.kind = tasks[1].kind /\ worker'.q = tasks[1].q
      /\ worker.kind # "run"
      /\ UNCHANGED <<life, generating, uiQueue, stream, streamPosted>>
      /\ SameChat
  BY HeadTailProperties, LenProperties, EmptySeq
     DEF TakeTask, AtPc, uiVars, SameChat, PointersAreLive, WorkerIsInItsTask
<1>2. (Waiting' <=> Waiting) /\ (UnderWay' <=> UnderWay)
  <2>1. (\E i \in DOMAIN tasks : tasks[i].kind = "run")
        <=> (worker'.kind = "run" \/ \E i \in DOMAIN tasks' : tasks'[i].kind = "run")
    <3>1. ASSUME NEW i \in DOMAIN tasks, tasks[i].kind = "run"
          PROVE  worker'.kind = "run" \/ \E j \in DOMAIN tasks' : tasks'[j].kind = "run"
      BY <1>1, <3>1
    <3>2. ASSUME worker'.kind = "run" \/ \E j \in DOMAIN tasks' : tasks'[j].kind = "run"
          PROVE  \E i \in DOMAIN tasks : tasks[i].kind = "run"
      <4>1. 1 \in DOMAIN tasks
        BY <1>1
      <4> QED
        BY <1>1, <3>2, <4>1
    <3> QED
      BY <3>1, <3>2
  <2> QED
    BY <1>1, <2>1 DEF Waiting, UnderWay
<1>3. OneAtATime'
  BY <1>1, <1>2 DEF OneAtATime
<1>4. LatestIsUnderWay'
  BY <1>1, <1>2 DEF LatestIsUnderWay, SameChat
<1>5. LatestBubble'
  BY <1>1, <1>2 DEF LatestBubble, SameChat, BubbleOf
<1> QED
  BY <1>1, <1>2, <1>3, <1>4, <1>5, SameChatKeeps

\* The output of the native model goes from the worker to the looper.
LEMMA RunReturnsKeepsPath ==
  ASSUME Known, QuestionPath, RunReturns
  PROVE  QuestionPath'
<1> USE DEF Known, TypeOK, QueueTypes, QuestionPath
<1>1. worker.kind = "run" /\ worker'.kind = "none"
  BY DEF RunReturns, AtPc, PointersAreLive, WorkerIsInItsTask, Idle
<1>2. PICK out : uiQueue' = Append(uiQueue, Answer(worker.q, out))
  BY DEF RunReturns, Post
<1>3. Answer(worker.q, out).kind = "answer" /\ Answer(worker.q, out).q = worker.q
  BY DEF Answer
<1>4. /\ UNCHANGED <<life, generating, tasks, stream, streamPosted>>
      /\ SameChat
  BY DEF RunReturns, uiVars, executorVars, SameChat
<1>5. /\ \A i \in DOMAIN uiQueue : uiQueue[i].kind # "answer"
      /\ \A i \in DOMAIN uiQueue' : uiQueue'[i].kind = "answer" =>
           i = Len(uiQueue) + 1 /\ uiQueue'[i].q = worker.q
      /\ \E i \in DOMAIN uiQueue' : uiQueue'[i].kind = "answer"
  <2>1. \A i \in DOMAIN uiQueue : uiQueue[i].kind # "answer"
    BY <1>1 DEF OneAtATime
  <2>2. /\ DOMAIN uiQueue' = 1 .. (Len(uiQueue) + 1) /\ DOMAIN uiQueue = 1 .. Len(uiQueue)
        /\ Len(uiQueue) \in Nat
        /\ \A i \in DOMAIN uiQueue : uiQueue'[i] = uiQueue[i]
        /\ uiQueue'[Len(uiQueue) + 1] = Answer(worker.q, out)
    BY <1>2, LenProperties
  <2> QED
    BY <1>3, <2>1, <2>2
<1>6. Waiting /\ Waiting' /\ UnderWay /\ UnderWay'
  BY <1>1, <1>5 DEF Waiting, UnderWay
<1>7. OneAtATime'
  BY <1>1, <1>4, <1>5, <1>6 DEF OneAtATime
<1>8. LatestIsUnderWay'
  BY <1>1, <1>4, <1>5, <1>6 DEF LatestIsUnderWay, SameChat
<1>9. LatestBubble'
  BY <1>4, <1>6 DEF LatestBubble, SameChat, BubbleOf, OneAtATime
<1> QED
  BY <1>4, <1>6, <1>7, <1>8, <1>9, SameChatKeeps

\* onDestroy takes the stream out of the looper and stops generating; a question in
\* the executor, on the worker or posted stays where it is.
LEMMA OnDestroyKeepsPath ==
  ASSUME Known, QuestionPath, OnDestroy
  PROVE  QuestionPath'
<1> USE DEF Known, TypeOK, QueueTypes, QuestionPath
<1>1. /\ life' = "destroyed" /\ generating' = FALSE /\ streamPosted' = FALSE
      /\ UNCHANGED <<uiQueue, worker, stream>>
      /\ SameChat
  BY DEF OnDestroy, SameChat
<1>2. tasks' = Append(tasks, ReleaseTask(modelPtr)) \/ tasks' = tasks
  BY DEF OnDestroy, QueueRelease, Execute
<1>3. ReleaseTask(modelPtr).kind # "run"
  BY DEF ReleaseTask, Task
<1>4. /\ \A i \in DOMAIN tasks :
           tasks[i].kind = "run" => i \in DOMAIN tasks' /\ tasks'[i] = tasks[i]
      /\ \A i \in DOMAIN tasks' :
           tasks'[i].kind = "run" => i \in DOMAIN tasks /\ tasks'[i] = tasks[i]
  BY <1>2, <1>3, NoRunQueued
<1>5. (Waiting' <=> Waiting) /\ (UnderWay' => UnderWay)
  BY <1>1, <1>4 DEF Waiting, UnderWay
<1>6. OneAtATime'
  BY <1>1, <1>4, <1>5 DEF OneAtATime
<1>7. LatestIsUnderWay'
  BY <1>1, <1>4, <1>5 DEF LatestIsUnderWay, SameChat
<1>8. LatestBubble'
  BY <1>1, <1>5 DEF LatestBubble, SameChat, BubbleOf
<1> QED
  BY <1>1, <1>5, <1>6, <1>7, <1>8, SameChatKeeps

\* Only a destroyed activity has a stream without generating.
LEMMA StreamStoppedKeepsPath ==
  ASSUME Known, QuestionPath, StreamStopped
  PROVE  QuestionPath'
<1> USE DEF Known, QuestionPath
<1>1. /\ UNCHANGED <<life, generating, tasks, uiQueue, worker, stream>>
      /\ streamPosted /\ streamPosted' = FALSE /\ ~generating
      /\ SameChat
  BY DEF StreamStopped, SameChat, executorVars
<1>2. life = "destroyed"
  BY <1>1 DEF LatestIsUnderWay, UnderWay
<1>3. ~Waiting /\ ~Waiting' /\ ~UnderWay' /\ UnderWay
  BY <1>1 DEF OneAtATime, Waiting, UnderWay
<1>4. OneAtATime'
  BY <1>1, <1>3 DEF OneAtATime, Waiting
<1>5. LatestIsUnderWay'
  BY <1>1, <1>2, <1>3 DEF LatestIsUnderWay, SameChat
<1>6. LatestBubble'
  BY <1>1, <1>3 DEF LatestBubble
<1> QED
  BY <1>1, <1>2, <1>3, <1>4, <1>5, <1>6, SameChatKeeps

\* An answer at the head of the looper's queue is the only one, that of the latest
\* question; nothing is under way besides.
LEMMA AnswerIsAlone ==
  ASSUME Known, QuestionPath, Posted("answer"), uiQueue' = Tail(uiQueue)
  PROVE  /\ Head(uiQueue).q = Len(asks) /\ Len(asks) \in DOMAIN asks
         /\ Waiting /\ ~streamPosted /\ worker.kind # "run"
         /\ \A i \in DOMAIN tasks : tasks[i].kind # "run"
         /\ \A i \in DOMAIN uiQueue' : uiQueue'[i].kind # "answer"
<1> USE DEF Known, TypeOK, QueueTypes, ChatTypes, QuestionPath
<1>1. /\ Len(uiQueue) \in Nat \ {0} /\ Head(uiQueue) = uiQueue[1] /\ uiQueue[1].kind = "answer"
      /\ DOMAIN uiQueue = 1 .. Len(uiQueue) /\ DOMAIN uiQueue' = 1 .. (Len(uiQueue) - 1)
      /\ \A i \in DOMAIN uiQueue' : uiQueue'[i] = uiQueue[i + 1] /\ i + 1 \in DOMAIN uiQueue
  BY HeadTailProperties, LenProperties, EmptySeq DEF Posted
<1>2. 1 \in DOMAIN uiQueue /\ Waiting
  <2>1. 1 \in DOMAIN uiQueue
    BY <1>1
  <2> QED
    BY <1>1, <2>1 DEF Waiting
<1>3. Head(uiQueue).q = Len(asks) /\ Len(asks) > 0
  BY <1>1, <1>2 DEF LatestIsUnderWay, UnderWay
<1>4. Len(asks) \in DOMAIN asks
  BY <1>3, LenProperties
<1>5. ASSUME NEW i \in DOMAIN uiQueue', uiQueue'[i].kind = "answer"
      PROVE  FALSE
  <2>1. i + 1 \in DOMAIN uiQueue /\ uiQueue[i + 1].kind = "answer" /\ i + 1 # 1
    BY <1>1, <1>5
  <2> QED
    BY <1>1, <1>2, <2>1 DEF OneAtATime
<1>6. /\ ~streamPosted /\ worker.kind # "run"
      /\ \A i \in DOMAIN tasks : tasks[i].kind # "run"
  BY <1>1, <1>2 DEF OneAtATime
<1> QED
  BY <1>2, <1>3, <1>4, <1>5, <1>6

\* The stream of the latest question takes the place of its answer.
LEMMA HandleAnswerKeepsPath ==
  ASSUME Known, QuestionPath, HandleAnswer
  PROVE  QuestionPath'
<1> USE DEF QuestionPath
<1>1. /\ stream'.q = Len(asks) /\ stream'.index = 0 /\ streamPosted' = TRUE
      /\ UNCHANGED <<life, generating, tasks, worker>>
      /\ SameChat
  BY AnswerIsAlone DEF HandleAnswer, SameChat, executorVars
<1>2. /\ Len(asks) \in DOMAIN asks /\ Waiting /\ UnderWay /\ UnderWay' /\ ~Waiting'
  BY <1>1, AnswerIsAlone DEF HandleAnswer, Waiting, UnderWay
<1>3. \A i \in DOMAIN uiQueue' : uiQueue'[i].kind # "answer"
  BY AnswerIsAlone DEF HandleAnswer
<1>4. OneAtATime'
  BY <1>1, <1>2, <1>3 DEF OneAtATime, Waiting
<1>5. LatestIsUnderWay'
  BY <1>1, <1>2, <1>3 DEF LatestIsUnderWay, SameChat, Waiting
<1>6. LatestBubble'
  <2>1. Showing(Len(asks), 0) = AssistantBubble(Len(asks))
    BY EmptyBubble
  <2> QED
    BY <1>1, <1>2, <2>1 DEF LatestBubble, SameChat, BubbleOf
<1> QED
  BY <1>1, <1>2, <1>4, <1>5, <1>6, SameChatKeeps DEF Known

\* A failure ends the question it is about.
LEMMA HandleFailureKeepsPath ==
  ASSUME Known, QuestionPath, HandleFailure
  PROVE  QuestionPath'
<1> USE DEF QuestionPath
<1> DEFINE n == Len(asks)
           out == Head(uiQueue).out
<1>1. /\ Head(uiQueue).q = n /\ n \in DOMAIN asks /\ n \in Nat
      /\ Waiting /\ UnderWay /\ ~streamPosted
      /\ worker.kind # "run" /\ \A i \in DOMAIN tasks : tasks[i].kind # "run"
      /\ \A i \in DOMAIN uiQueue' : uiQueue'[i].kind # "answer"
  BY AnswerIsAlone, LenProperties
     DEF HandleFailure, UnderWay, Known, TypeOK, ChatTypes
<1>2. /\ chat' = UpdateMessage(asks[n].pos, out.chunks, TRUE)
      /\ generating' = FALSE
      /\ UNCHANGED <<life, tasks, worker, asks, turns, stream, streamPosted>>
  BY <1>1 DEF HandleFailure, EndQuestion, executorVars
<1>3. ~Waiting' /\ ~UnderWay'
  BY <1>1, <1>2 DEF Waiting, UnderWay
<1>4. BubbleOf(n) = Showing(n, 0)
  BY <1>1, EmptyBubble DEF LatestBubble
<1>5. /\ BubblesBelong' /\ BubbleOf(n)'.failed
      /\ \A q \in DOMAIN asks \ {n} : BubbleOf(q)' = BubbleOf(q)
  BY <1>1, <1>2, <1>4, LatestUpdated DEF Known
<1>6. OneAtATime'
  BY <1>1, <1>2, <1>3 DEF OneAtATime
<1>7. LatestIsUnderWay'
  BY <1>1, <1>2, <1>3 DEF LatestIsUnderWay
<1>8. LatestBubble'
  BY <1>2, <1>1, <1>3 DEF LatestBubble
<1>9. HistoryIsShown'
  BY <1>1, <1>2, <1>3, <1>5 DEF HistoryIsShown
<1>10. EndedQuestions'
  BY <1>1, <1>2, <1>3, <1>5 DEF EndedQuestions
<1> QED
  BY <1>5, <1>6, <1>7, <1>8, <1>9, <1>10

\* A step of the stream of a living activity: it is that of the latest question,
\* whose bubble then shows the output up to the end of the chunk.
LEMMA StreamShows ==
  ASSUME Known, QuestionPath, streamPosted, generating, ShowChunk(NextEnd),
         stream' = [stream EXCEPT !.index = NextEnd],
         UNCHANGED <<life, tasks, uiQueue, worker, asks>>
  PROVE  /\ stream.q = Len(asks) /\ Len(asks) \in DOMAIN asks /\ Len(asks) \in Nat
         /\ ~Waiting /\ ~Waiting' /\ UnderWay /\ life = "open"
         /\ stream'.q = stream.q /\ stream'.index = NextEnd /\ stream'.chunks = stream.chunks
         /\ BubblesBelong'
         /\ BubbleOf(Len(asks))' = Showing(Len(asks), NextEnd)
         /\ \A q \in DOMAIN asks \ {Len(asks)} : BubbleOf(q)' = BubbleOf(q)
<1> USE DEF QuestionPath
<1> DEFINE n == Len(asks)
<1>1. UnderWay /\ ~Waiting /\ ~Waiting'
  BY DEF UnderWay, OneAtATime, Waiting
<1>2. stream.q = n /\ n > 0 /\ life # "destroyed"
  BY <1>1 DEF LatestIsUnderWay
<1>3. n \in DOMAIN asks /\ n \in Nat
  BY <1>2, LenProperties DEF Known, TypeOK, ChatTypes
<1>4. life = "open"
  <2>1. ~(life \in {"new", "finishing"})
    BY <1>1 DEF Known, QuestionsHaveModel, QuestionUnderWay, PointersAreLive, ExecutorLife
  <2> QED
    BY <1>2, <2>1 DEF Known, TypeOK, ActivityTypes
<1>5. stream'.q = stream.q /\ stream'.index = NextEnd /\ stream'.chunks = stream.chunks
  BY DEF Known, TypeOK, ChatTypes, Streams
<1>6. BubbleOf(n) = Showing(n, stream.index)
  BY DEF LatestBubble
<1>7. CASE NextEnd > stream.index
  <2>1. chat' = UpdateMessage(asks[n].pos, NextEnd, FALSE)
    BY <1>2, <1>7 DEF ShowChunk
  <2>2. /\ BubblesBelong' /\ BubbleOf(n)' = Showing(n, NextEnd)
        /\ \A q \in DOMAIN asks \ {n} : BubbleOf(q)' = BubbleOf(q)
    BY <1>3, <1>6, <2>1, LatestUpdated DEF Known
  <2> QED
    BY <1>1, <1>2, <1>3, <1>4, <1>5, <2>2
<1>8. CASE ~(NextEnd > stream.index)
  <2>1. chat' = chat
    BY <1>8 DEF ShowChunk
  <2>2. NextEnd = stream.index
    BY <1>8 DEF NextEnd, Known, TypeOK, ChatTypes, Streams
  <2>3. BubblesBelong' /\ \A q \in DOMAIN asks : BubbleOf(q)' = BubbleOf(q)
    BY <2>1 DEF BubblesBelong, BubbleOf
  <2> QED
    BY <1>1, <1>2, <1>3, <1>4, <1>5, <1>6, <2>2, <2>3
<1> QED
  BY <1>7, <1>8

LEMMA StreamChunkKeepsPath ==
  ASSUME Known, QuestionPath, StreamChunk
  PROVE  QuestionPath'
<1> USE DEF QuestionPath
<1> DEFINE n == Len(asks)
<1>1. UNCHANGED <<life, generating, tasks, uiQueue, worker, asks, turns, streamPosted>>
  BY DEF StreamChunk, executorVars
<1>2. /\ stream.q = n /\ n \in DOMAIN asks
      /\ ~Waiting /\ ~Waiting' /\ UnderWay /\ life = "open"
      /\ stream'.q = stream.q /\ stream'.index = NextEnd
      /\ BubblesBelong'
      /\ BubbleOf(n)' = Showing(n, NextEnd)
      /\ \A q \in DOMAIN asks \ {n} : BubbleOf(q)' = BubbleOf(q)
  BY <1>1, StreamShows DEF StreamChunk
<1>3. UnderWay' /\ streamPosted
  BY <1>1 DEF StreamChunk, UnderWay
<1>4. OneAtATime'
  BY <1>1, <1>2 DEF OneAtATime
<1>5. LatestIsUnderWay'
  BY <1>1, <1>2, <1>3 DEF LatestIsUnderWay
<1>6. LatestBubble'
  BY <1>1, <1>2 DEF LatestBubble
<1>7. HistoryIsShown'
  BY <1>1, <1>2, <1>3 DEF HistoryIsShown
<1>8. EndedQuestions'
  BY <1>1, <1>2, <1>3 DEF EndedQuestions
<1> QED
  BY <1>2, <1>4, <1>5, <1>6, <1>7, <1>8

\* The history after a turn was added: the turn is its last element, before it comes
\* what was there, without the oldest one if there was no more room.
LEMMA RememberElements ==
  ASSUME TypeOK, NEW t \in Turns, turns' = Remember(t)
  PROVE  \E dropped \in {0, 1} :
           /\ Len(turns') = Len(turns) + 1 - dropped /\ Len(turns) \in Nat
           /\ dropped = 1 => Len(turns) = StoredTurns
           /\ turns'[Len(turns')] = t /\ Len(turns') > 0
           /\ \A i \in 1 .. Len(turns') - 1 : /\ i + dropped \in DOMAIN turns
                                             /\ turns'[i] = turns[i + dropped]
           /\ DOMAIN turns' = 1 .. Len(turns') /\ DOMAIN turns = 1 .. Len(turns)
<1> USE DEF TypeOK, ChatTypes
<1> DEFINE longer == Append(turns, t)
<1>1. /\ longer \in Seq(Turns) /\ Len(longer) = Len(turns) + 1 /\ Len(turns) \in Nat
      /\ \A i \in 1 .. Len(turns) : longer[i] = turns[i]
      /\ longer[Len(turns) + 1] = t
      /\ DOMAIN longer = 1 .. Len(turns) + 1 /\ DOMAIN turns = 1 .. Len(turns)
  BY AppendProperties, LenProperties
<1> HIDE DEF longer
<1>2. CASE Len(longer) > StoredTurns
  <2>1. turns' = Tail(longer)
    BY <1>2 DEF Remember, longer
  <2>5. Len(turns) = StoredTurns /\ Len(turns) > 0
    <3>1. Len(turns) <= StoredTurns /\ Len(turns) \in Nat /\ Len(longer) = Len(turns) + 1
      BY <1>1
    <3>2. StoredTurns \in Nat \ {0}
      BY ConstantsAssumption DEF ConstantsAssumption
    <3> QED
      BY <1>2, <3>1, <3>2
  <2>2. /\ Len(turns') = Len(turns) /\ DOMAIN turns' = 1 .. Len(turns)
        /\ \A i \in 1 .. Len(turns) : turns'[i] = longer[i + 1]
    <3>1. longer # <<>>
      BY <1>1, EmptySeq
    <3> QED
      BY <1>1, <2>1, <3>1, HeadTailProperties, LenProperties
  <2>3. \A i \in 1 .. Len(turns') - 1 : i + 1 \in DOMAIN turns /\ turns'[i] = turns[i + 1]
    BY <1>1, <2>2
  <2>4. turns'[Len(turns')] = t
    BY <1>1, <2>2, <2>5
  <2> QED
    BY <1>1, <2>2, <2>3, <2>4, <2>5
<1>3. CASE ~(Len(longer) > StoredTurns)
  <2>1. turns' = longer
    BY <1>3 DEF Remember, longer
  <2> QED
    BY <1>1, <2>1
<1> QED
  BY <1>2, <1>3

\* The last chunk: the question ends, and it is the newest one of the history.
LEMMA StreamDoneKeepsPath ==
  ASSUME Known, QuestionPath, StreamDone
  PROVE  QuestionPath'
<1> USE DEF QuestionPath
<1> DEFINE n == Len(asks)
           t == [q |-> stream.q, chunks |-> stream.chunks]
<1>1. /\ UNCHANGED <<life, tasks, uiQueue, worker, asks>>
      /\ ~generating' /\ ~streamPosted' /\ streamPosted /\ turns' = Remember(t)
      /\ NextEnd = stream.chunks
  BY DEF StreamDone, EndQuestion, executorVars
<1>2. /\ stream.q = n /\ n \in DOMAIN asks /\ n \in Nat
      /\ ~Waiting /\ ~Waiting' /\ UnderWay
      /\ BubblesBelong'
      /\ BubbleOf(n)' = Showing(n, NextEnd)
      /\ \A q \in DOMAIN asks \ {n} : BubbleOf(q)' = BubbleOf(q)
  BY <1>1, StreamShows DEF StreamDone
<1>3. ~UnderWay'
  BY <1>1, <1>2 DEF UnderWay
<1>4. PICK dropped \in {0, 1} :
           /\ Len(turns') = Len(turns) + 1 - dropped /\ Len(turns) \in Nat
           /\ dropped = 1 => Len(turns) = StoredTurns
           /\ turns'[Len(turns')] = t /\ Len(turns') > 0
           /\ \A i \in 1 .. Len(turns') - 1 : /\ i + dropped \in DOMAIN turns
                                             /\ turns'[i] = turns[i + dropped]
           /\ DOMAIN turns' = 1 .. Len(turns') /\ DOMAIN turns = 1 .. Len(turns)
  <2>1. t \in Turns
    BY DEF Known, TypeOK, ChatTypes, Streams, Turns
  <2> QED
    BY <1>1, <2>1, RememberElements DEF Known
<1>5. t.q = n /\ t.chunks = NextEnd
  BY <1>1, <1>2
<1> HIDE DEF t
<1>6. \A i \in DOMAIN turns : turns[i].q \in DOMAIN asks \ {n} /\ turns[i].q < n
  BY <1>2 DEF HistoryIsShown
<1>7. OneAtATime'
  BY <1>1, <1>2 DEF OneAtATime
<1>8. LatestIsUnderWay'
  BY <1>1, <1>2, <1>3 DEF LatestIsUnderWay
<1>9. LatestBubble'
  BY <1>1, <1>2 DEF LatestBubble
<1>10. HistoryIsShown'
  <2>1. ASSUME NEW i \in DOMAIN turns'
        PROVE  /\ turns'[i].q \in DOMAIN asks
               /\ chat'[asks[turns'[i].q].pos] = Showing(turns'[i].q, turns'[i].chunks)
    <3>1. CASE i = Len(turns')
      <4>1. turns'[i] = t
        BY <1>4, <3>1
      <4>2. chat'[asks[n].pos] = Showing(n, NextEnd)
        BY <1>1, <1>2 DEF BubbleOf
      <4> QED
        BY <1>2, <1>5, <4>1, <4>2
    <3>2. CASE i # Len(turns')
      <4>5. i \in 1 .. Len(turns') - 1
        BY <1>4, <3>2
      <4>1. i + dropped \in DOMAIN turns /\ turns'[i] = turns[i + dropped]
        BY <1>4, <4>5
      <4>2. turns'[i].q \in DOMAIN asks \ {n}
        BY <1>6, <4>1
      <4>3. chat[asks[turns'[i].q].pos] = Showing(turns'[i].q, turns'[i].chunks)
        BY <4>1 DEF HistoryIsShown, BubbleOf
      <4>4. \A q \in DOMAIN asks \ {n} : chat'[asks[q].pos] = chat[asks[q].pos]
        BY <1>1, <1>2 DEF BubbleOf
      <4> QED
        BY <4>2, <4>3, <4>4
    <3> QED
      BY <3>1, <3>2
  <2>2. ASSUME NEW i \in DOMAIN turns', NEW j \in DOMAIN turns', i < j
        PROVE  turns'[i].q < turns'[j].q
    <3>5. i \in 1 .. Len(turns') - 1
      BY <1>4, <2>2
    <3>1. i + dropped \in DOMAIN turns
      BY <1>4, <3>5
    <3>2. turns'[i] = turns[i + dropped]
      BY <1>4, <3>5
    <3>3. CASE j = Len(turns')
      BY <1>4, <1>5, <1>6, <3>1, <3>2, <3>3
    <3>4. CASE j # Len(turns')
      <4>2. j \in 1 .. Len(turns') - 1
        BY <1>4, <3>4
      <4>1. j + dropped \in DOMAIN turns /\ turns'[j] = turns[j + dropped]
            /\ i + dropped < j + dropped
        BY <1>4, <2>2, <4>2
      <4> QED
        BY <3>1, <3>2, <4>1 DEF HistoryIsShown
    <3> QED
      BY <3>3, <3>4
  <2>3. asks' = asks
    BY <1>1
  <2> QED
    BY <1>3, <2>1, <2>2, <2>3 DEF HistoryIsShown, BubbleOf
<1>11. EndedQuestions'
  <2> SUFFICES ASSUME NEW q \in DOMAIN asks, life # "destroyed", ~BubbleOf(q)'.failed
               PROVE  \/ \E i \in DOMAIN turns' : turns'[i].q = q
                      \/ Len(turns') = StoredTurns /\ q < turns'[1].q
    BY <1>1 DEF EndedQuestions
  <2>1. CASE q = n
    <3>1. Len(turns') \in DOMAIN turns' /\ turns'[Len(turns')].q = q
      BY <1>4, <1>5, <2>1
    <3> QED
      BY <3>1
  <2>2. CASE q # n
    <3>1. q < n /\ ~BubbleOf(q).failed
      BY <1>2, <2>2, LenProperties DEF Known, TypeOK, ChatTypes
    <3>2. \A i \in DOMAIN turns : turns[i].q \in Int
      BY <1>6, <1>2, LenProperties DEF Known, TypeOK, ChatTypes
    <3>3. CASE \E i \in DOMAIN turns : turns[i].q = q
      <4>1. PICK i \in DOMAIN turns : turns[i].q = q
        BY <3>3
      <4>2. CASE i > dropped
        <5>1. i - dropped \in 1 .. Len(turns') - 1 /\ (i - dropped) + dropped = i
          BY <1>4, <4>1, <4>2
        <5>2. turns'[i - dropped] = turns[i] /\ i - dropped \in DOMAIN turns'
          BY <1>4, <5>1
        <5> QED
          BY <4>1, <5>2
      <4>3. CASE ~(i > dropped)
        <5>1. i = 1 /\ dropped = 1 /\ Len(turns') = StoredTurns
          BY <1>4, <4>1, <4>3
        <5>2. CASE Len(turns') = 1
          BY <1>4, <1>5, <3>1, <5>1, <5>2
        <5>3. CASE Len(turns') # 1
          <6>1. 1 \in 1 .. Len(turns') - 1 /\ 2 \in DOMAIN turns /\ 1 \in DOMAIN turns
            BY <1>4, <5>1, <5>3
          <6>2. turns'[1] = turns[2]
            BY <1>4, <5>1, <6>1
          <6>3. turns[1].q < turns[2].q
            BY <6>1 DEF HistoryIsShown
          <6> QED
            BY <4>1, <5>1, <6>2, <6>3
        <5> QED
          BY <5>2, <5>3
      <4> QED
        BY <4>2, <4>3
    <3>4. CASE Len(turns) = StoredTurns /\ q < turns[1].q
      <4>1. Len(turns') <= StoredTurns
        BY <1>1, RememberType, <1>2 DEF t, Known, TypeOK, ChatTypes, Streams, Turns
      <4>2. dropped = 1 /\ Len(turns') = StoredTurns
        BY <1>4, <3>4, <4>1
      <4>3. 1 \in DOMAIN turns
        BY <1>4, <4>2, ConstantsAssumption DEF ConstantsAssumption
      <4>4. CASE Len(turns') = 1
        BY <1>4, <1>5, <3>1, <4>2, <4>4
      <4>5. CASE Len(turns') # 1
        <5>1. 1 \in 1 .. Len(turns') - 1 /\ 2 \in DOMAIN turns
          BY <1>4, <4>2, <4>5
        <5>2. turns'[1] = turns[2]
          BY <1>4, <4>2, <5>1
        <5>3. turns[1].q < turns[2].q
          BY <4>3, <5>1 DEF HistoryIsShown
        <5>4. turns[1].q \in Int /\ turns[2].q \in Int /\ q \in Int
          BY <3>2, <4>3, <5>1, LenProperties DEF Known, TypeOK, ChatTypes
        <5> QED
          BY <3>4, <4>2, <5>2, <5>3, <5>4
      <4> QED
        BY <4>4, <4>5
    <3> QED
      BY <1>2, <2>2, <3>1, <3>3, <3>4 DEF EndedQuestions
  <2> QED
    BY <2>1, <2>2
<1> QED
  BY <1>2, <1>7, <1>8, <1>9, <1>10, <1>11

\* A new question: nothing was under way, and it gets the bubble at the end.
LEMMA RunInferenceKeepsPath ==
  ASSUME Known, QuestionPath, RunInference
  PROVE  QuestionPath'
<1> USE DEF QuestionPath
<1> DEFINE n == Len(asks) + 1
           ask == [pos |-> AssistantPosition, since |-> store]
<1>1. /\ chat' = Append(Append(chat, UserBubble(n)), AssistantBubble(n))
      /\ asks' = Append(asks, ask)
      /\ generating' /\ ~generating /\ life = "open"
      /\ UNCHANGED <<life, turns, stream, streamPosted, uiQueue, worker>>
  BY DEF RunInference, CanAsk
<1>2. tasks' = Append(tasks, RunTask(n))
  BY <1>1, ExecuteOpen DEF RunInference, Known, PointersAreLive, ExecutorLife
<1>3. ~UnderWay /\ ~Waiting /\ ~streamPosted
  BY <1>1 DEF LatestIsUnderWay, UnderWay
<1>4. /\ Len(asks) \in Nat /\ DOMAIN asks = 1 .. Len(asks)
      /\ Len(asks') = n /\ DOMAIN asks' = 1 .. n
      /\ asks'[n] = ask /\ \A q \in DOMAIN asks : asks'[q] = asks[q]
  BY <1>1, LenProperties, AppendProperties DEF Known, TypeOK, ChatTypes
<1>5. /\ Len(chat) \in Nat /\ DOMAIN chat = 1 .. Len(chat)
      /\ DOMAIN chat' = 1 .. Len(chat) + 2
      /\ chat'[Len(chat) + 1] = UserBubble(n) /\ chat'[Len(chat) + 2] = AssistantBubble(n)
      /\ \A i \in DOMAIN chat : chat'[i] = chat[i]
  <2>1. n \in 0 .. MaxAsks
    <3>1. Len(asks) < MaxAsks /\ Len(asks) \in Nat /\ MaxAsks \in Nat
      BY <1>4, ConstantsAssumption DEF RunInference, ConstantsAssumption
    <3> QED
      BY <3>1
  <2> DEFINE c == Append(chat, UserBubble(n))
  <2>2. c \in Seq(Bubbles) /\ chat \in Seq(Bubbles) /\ AssistantBubble(n) \in Bubbles
    BY <2>1, ElementTypes, AppendProperties DEF Known, TypeOK, ChatTypes
  <2>3. /\ Len(c) = Len(chat) + 1 /\ c[Len(chat) + 1] = UserBubble(n)
        /\ \A i \in 1 .. Len(chat) : c[i] = chat[i]
    BY <2>1, <2>2, ElementTypes, AppendProperties
  <2>4. /\ Len(chat') = Len(c) + 1 /\ chat'[Len(c) + 1] = AssistantBubble(n)
        /\ \A i \in 1 .. Len(c) : chat'[i] = c[i] 
        /\ chat' \in Seq(Bubbles)
    <3> HIDE DEF c
    <3> QED
      BY <1>1, <2>2, AppendProperties DEF c
  <2> HIDE DEF c
  <2> QED
    BY <2>2, <2>3, <2>4, LenProperties
<1>6. /\ \A i \in DOMAIN tasks : tasks'[i] = tasks[i] /\ tasks[i].kind # "run"
      /\ Len(tasks) \in Nat /\ DOMAIN tasks' = 1 .. Len(tasks) + 1
      /\ DOMAIN tasks = 1 .. Len(tasks)
      /\ tasks'[Len(tasks) + 1].kind = "run" /\ tasks'[Len(tasks) + 1].q = n
  BY <1>2, <1>3, LenProperties, AppendProperties
     DEF Waiting, RunTask, Task, Known, TypeOK, QueueTypes
<1>7. Waiting' /\ UnderWay'
  <2>1. Len(tasks) + 1 \in DOMAIN tasks'
    BY <1>6
  <2> QED
    BY <1>6, <2>1 DEF Waiting, UnderWay
<1>8. asks'[n].pos = Len(chat) + 2
  BY <1>4 DEF AssistantPosition
<1>16. n \in Nat \ {0} /\ n \in DOMAIN asks'
  BY <1>4
<1>17. \A q \in DOMAIN asks : /\ asks[q].pos \in Nat
                              /\ asks[q].pos - 1 \in DOMAIN chat /\ asks[q].pos \in DOMAIN chat
  <2>1. \A q \in DOMAIN asks : asks[q] \in Asks
    BY ElementOfSeq DEF Known, TypeOK, ChatTypes
  <2> QED
    BY <2>1 DEF BubblesBelong, Asks
<1>18. ~\E i \in DOMAIN uiQueue : uiQueue[i].kind = "answer"
  BY <1>3 DEF Waiting
<1> HIDE DEF n, ask
<1>9. /\ chat'[asks'[n].pos] = AssistantBubble(n)
      /\ \A q \in DOMAIN asks : chat'[asks'[q].pos] = BubbleOf(q)
  <2>1. chat'[asks'[n].pos] = AssistantBubble(n)
    BY <1>5, <1>8
  <2>2. ASSUME NEW q \in DOMAIN asks PROVE chat'[asks'[q].pos] = chat[asks[q].pos]
    BY <1>4, <1>5, <1>17
  <2> QED
    BY <2>1, <2>2 DEF BubbleOf
<1>10. OneAtATime'
  <2>1. \A i \in DOMAIN tasks' : tasks'[i].kind = "run" => i = Len(tasks) + 1
    BY <1>6
  <2>2. worker'.kind # "run" /\ ~streamPosted' /\ uiQueue' = uiQueue
    BY <1>1, <1>3 DEF Waiting
  <2> QED
    BY <1>18, <2>1, <2>2 DEF OneAtATime
<1>11. LatestIsUnderWay'
  <2>1. \A i \in DOMAIN tasks' : tasks'[i].kind = "run" => tasks'[i].q = n
    BY <1>6
  <2>2. worker'.kind # "run" /\ ~streamPosted' /\ uiQueue' = uiQueue
    BY <1>1, <1>3 DEF Waiting
  <2>3. life' # "destroyed" /\ generating' /\ Len(asks') > 0
    BY <1>1, <1>4, <1>16
  <2> QED
    BY <1>4, <1>7, <1>18, <2>1, <2>2, <2>3 DEF LatestIsUnderWay
<1>12. BubblesBelong'
  <2>1. AssistantBubble(n).role = "assistant" /\ AssistantBubble(n).q = n
    BY DEF AssistantBubble
  <2>2. ASSUME NEW q \in DOMAIN asks'
        PROVE  /\ asks'[q].pos - 1 \in DOMAIN chat' /\ asks'[q].pos \in DOMAIN chat'
               /\ chat'[asks'[q].pos].role = "assistant" /\ chat'[asks'[q].pos].q = q
               /\ chat'[asks'[q].pos - 1] = UserBubble(q)
    <3>1. CASE q = n
      <4>1. asks'[q].pos = Len(chat) + 2 /\ asks'[q].pos - 1 = Len(chat) + 1
        BY <1>5, <1>8, <3>1
      <4>2. Len(chat) + 2 \in DOMAIN chat' /\ Len(chat) + 1 \in DOMAIN chat'
        BY <1>5
      <4> QED
        BY <1>5, <1>9, <2>1, <3>1, <4>1, <4>2
    <3>2. CASE q # n
      <4>1. q \in DOMAIN asks /\ asks'[q] = asks[q]
        BY <1>4, <3>2 DEF n
      <4>2. asks[q].pos - 1 \in DOMAIN chat' /\ asks[q].pos \in DOMAIN chat'
        BY <1>5, <1>17, <4>1
      <4> QED
        BY <1>5, <1>9, <1>17, <4>1, <4>2 DEF BubblesBelong
    <3> QED
      BY <3>1, <3>2
  <2> QED
    BY <2>2 DEF BubblesBelong, BubbleOf
<1>13. LatestBubble'
  <2>1. ~streamPosted'
    BY <1>1, <1>3
  <2> QED
    BY <1>4, <1>9, <2>1 DEF LatestBubble, BubbleOf
<1>14. HistoryIsShown'
  <2>1. \A i \in DOMAIN turns : /\ turns[i].q \in DOMAIN asks
                                /\ turns[i].q \in DOMAIN asks' /\ turns[i].q < n
    BY <1>4 DEF HistoryIsShown, n
  <2>2. \A i \in DOMAIN turns : chat'[asks'[turns[i].q].pos] = Showing(turns[i].q, turns[i].chunks)
    BY <1>9, <2>1 DEF HistoryIsShown
  <2>3. turns' = turns
    BY <1>1
  <2> QED
    BY <1>4, <2>1, <2>2, <2>3 DEF HistoryIsShown, BubbleOf
<1>15. EndedQuestions'
  <2>1. ASSUME NEW q \in DOMAIN asks', q # n
        PROVE  \/ \E i \in DOMAIN turns : turns[i].q = q
               \/ Len(turns) = StoredTurns /\ q < turns[1].q
               \/ chat'[asks'[q].pos].failed
    <3>1. q \in DOMAIN asks
      BY <1>4, <2>1 DEF n
    <3> QED
      BY <1>1, <1>3, <1>9, <3>1 DEF EndedQuestions
  <2>2. turns' = turns
    BY <1>1
  <2> QED
    BY <1>4, <1>7, <2>1, <2>2 DEF EndedQuestions, BubbleOf
<1> QED
  BY <1>10, <1>11, <1>12, <1>13, <1>14, <1>15

-----------------------------------------------------------------------------
(* The settings of a question, from the store to the model.                *)

\* The latest question is one of those that were asked.
LEMMA WorkerHasAsked ==
  ASSUME Known, LatestIsUnderWay, worker.kind = "run"
  PROVE  worker.q \in DOMAIN asks
  BY LenProperties DEF Known, TypeOK, ChatTypes, LatestIsUnderWay, UnderWay, Waiting

LEMMA SettingsInductive ==
  ASSUME Known, LatestIsUnderWay, SettingsArrive, [Next]_vars
  PROVE  SettingsArrive'
<1> USE DEF SettingsArrive, uiVars, executorVars, nativeVars
<1> DEFINE Old == \A q \in DOMAIN asks : asks[q].since <= store
<1>0. /\ worker.kind = "run" => worker.q \in DOMAIN asks
      /\ \A q \in DOMAIN asks : asks[q].since \in Nat
      /\ store \in Nat /\ currentSettings \in Nat /\ modelCfg \in Nat /\ worker.cfg \in Nat
  <2>1. \A q \in DOMAIN asks : asks[q] \in Asks
    BY ElementOfSeq DEF Known, TypeOK, ChatTypes
  <2> QED
    BY <2>1, WorkerHasAsked
       DEF Asks, Versions, Workers, Known, TypeOK, ActivityTypes, QueueTypes
<1>1. CASE OnCreate
  BY <1>1 DEF OnCreate, Known, PointersAreLive, ExecutorLife, WorkerIsInItsTask
<1>2. CASE OnCreateWithoutModel
  BY <1>2 DEF OnCreateWithoutModel, Known, PointersAreLive, ExecutorLife, WorkerIsInItsTask
<1>3. CASE OpenSettings
  BY <1>3 DEF OpenSettings
<1>4. CASE SaveSettings
  BY <1>0, <1>4 DEF SaveSettings
<1>5. CASE SettingsResult
  BY <1>0, <1>5 DEF SettingsResult
<1>6. CASE RunInference
  <2>1. /\ DOMAIN asks' = 1 .. Len(asks) + 1 /\ DOMAIN asks = 1 .. Len(asks)
        /\ asks'[Len(asks) + 1].since = store /\ Len(asks) \in Nat
        /\ \A q \in DOMAIN asks : asks'[q] = asks[q]
    BY <1>6, LenProperties, AppendProperties DEF RunInference, Known, TypeOK, ChatTypes
  <2>2. UNCHANGED <<store, worker, currentSettings, modelCfg, modelPtr>>
    BY <1>6 DEF RunInference
  <2>3. \A q \in DOMAIN asks' : asks'[q].since <= store
    BY <1>0, <2>1
  <2> QED
    BY <1>0, <2>1, <2>2, <2>3
<1>7. CASE OnDestroy
  BY <1>7 DEF OnDestroy, QueueRelease
<1>8. CASE HandleLoaded
  <2>1. modelLoading /\ worker.pc = "idle" /\ worker.kind = "none"
    BY <1>8 DEF HandleLoaded, Posted, Known, PointersAreLive, LoadInProgress, LoadIsAlone,
                NoLoad, WorkerIsInItsTask, TypeOK, QueueTypes
  <2> QED
    BY <1>8, <2>1 DEF HandleLoaded
<1>9. CASE HandleFailure \/ HandleAnswer
  BY <1>9 DEF HandleFailure, HandleAnswer
<1>10. CASE StreamStopped \/ StreamChunk \/ StreamDone
  BY <1>10 DEF StreamStopped, StreamChunk, StreamDone
<1>11. CASE TakeTask
  <2>1. /\ worker'.kind = "run" => worker'.pc = "reload"
        /\ UNCHANGED <<asks, store>>
    BY <1>11 DEF TakeTask, Known, TypeOK, QueueTypes, Tasks
  <2> QED
    BY <2>1
<1>12. CASE CreateModel \/ CreateModelFails \/ ConfigureCreated
  <2>1. worker'.kind # "run" /\ UNCHANGED <<asks, store>>
    BY <1>12 DEF CreateModel, CreateModelFails, ConfigureCreated, AtPc,
         Known, PointersAreLive, WorkerIsInItsTask, TypeOK, QueueTypes, Workers
  <2> QED
    BY <2>1
<1>13. CASE PostLoaded \/ RunReturns \/ Release
  <2>1. worker'.kind # "run" /\ UNCHANGED <<asks, store>>
    BY <1>13 DEF PostLoaded, RunReturns, Release, Idle
  <2> QED
    BY <2>1
<1>14. CASE ReloadSettings
  <2>1. /\ worker' = [worker EXCEPT !.pc = "assign", !.cfg = store]
        /\ UNCHANGED <<asks, store>>
    BY <1>14 DEF ReloadSettings
  <2>2. worker'.pc = "assign" /\ worker'.cfg = store /\ worker'.q = worker.q
        /\ worker'.kind = worker.kind
    BY <2>1 DEF Known, TypeOK, QueueTypes, Workers
  <2> QED
    BY <1>0, <2>1, <2>2
<1>15. CASE AssignSettings
  <2>1. worker'.pc = "readPtr" /\ worker'.q = worker.q /\ worker'.kind = worker.kind
        /\ currentSettings' = worker.cfg /\ worker.pc = "assign"
        /\ UNCHANGED <<asks, store>>
    BY <1>15 DEF AssignSettings, AtPc, Known, TypeOK, QueueTypes, Workers
  <2> QED
    BY <1>0, <2>1
<1>16. CASE ConfigureRun
  <2>1. worker'.pc = "applying" /\ worker'.q = worker.q /\ worker'.kind = worker.kind
        /\ worker'.cfg = currentSettings /\ worker'.ptr = modelPtr /\ worker.pc = "readPtr"
        /\ UNCHANGED <<asks, store, modelPtr>>
    BY <1>16 DEF ConfigureRun, AtPc, Known, TypeOK, QueueTypes, Workers
  <2> QED
    BY <1>0, <2>1
<1>17. CASE Applied
  <2>1. /\ worker.kind = "run" => worker'.pc = "callRun" /\ worker'.q = worker.q
        /\ worker'.kind = "run" => worker.kind = "run"
        /\ worker.pc = "applying" /\ modelCfg' = IF worker.ptr # Null THEN worker.cfg ELSE modelCfg
        /\ UNCHANGED <<asks, store, modelPtr>>
    BY <1>17 DEF Applied, AtPc, Known, TypeOK, QueueTypes, Workers, Idle
  <2> QED
    BY <1>0, <2>1
<1>18. CASE CallRun
  <2>1. worker'.pc = "running" /\ worker'.q = worker.q /\ worker'.kind = worker.kind
        /\ worker'.ptr = modelPtr /\ worker.pc = "callRun"
        /\ UNCHANGED <<asks, store, modelPtr, modelCfg>>
    BY <1>18 DEF CallRun, AtPc, Known, TypeOK, QueueTypes, Workers
  <2> QED
    BY <1>0, <2>1
<1>19. CASE UNCHANGED vars
  BY <1>19 DEF vars
<1> QED
  BY <1>1, <1>2, <1>3, <1>4, <1>5, <1>6, <1>7, <1>8, <1>9, <1>10, <1>11, <1>12, <1>13,
     <1>14, <1>15, <1>16, <1>17, <1>18, <1>19
     DEF Next, UserStep, LooperStep, WorkerStep, Finished

-----------------------------------------------------------------------------
(* The invariant.                                                          *)

\* Every step keeps the questions on their way.
LEMMA PathInductive ==
  ASSUME Known, QuestionPath, [Next]_vars
  PROVE  QuestionPath'
<1>1. CASE SameQuestions
  BY <1>1, SameQuestionsKeep DEF QuestionPath, Known
<1>2. CASE UNCHANGED vars
  <2>1. SameQuestions
    BY <1>2 DEF vars, uiVars, executorVars, SameQuestions
  <2> QED
    BY <1>1, <2>1
<1> QED
  BY <1>1, <1>2, StepsOfNoQuestion, TakeTaskKeepsPath, RunReturnsKeepsPath, OnDestroyKeepsPath,
     StreamStoppedKeepsPath, HandleAnswerKeepsPath, HandleFailureKeepsPath,
     StreamChunkKeepsPath, StreamDoneKeepsPath, RunInferenceKeepsPath
     DEF Next, UserStep, LooperStep, WorkerStep, Finished

LEMMA QuestionsInductive ==
  ASSUME Known, QuestionInv, [Next]_vars
  PROVE  QuestionInv'
<1>1. QuestionPath'
  BY PathInductive DEF QuestionInv, QuestionPath
<1>2. SettingsArrive'
  BY SettingsInductive DEF QuestionInv
<1> QED
  BY <1>1, <1>2 DEF QuestionInv, QuestionPath

LEMMA KnownHolds == Safe => []Known
<1> DEFINE Button == QuestionsHaveModel /\ SendButtonTellsTheTruth
<1>1. Init => Button
  BY DEF Init, QuestionsHaveModel, QuestionUnderWay, SendButtonTellsTheTruth, Idle
<1>2. TypeOK /\ PointersAreLive /\ Button /\ [Next]_vars => Button'
  BY SendButtonInductive
<1>3. TypeOK /\ PointersAreLive /\ Button => Known
  BY DEF Known
<1> QED
  BY <1>1, <1>2, <1>3, TypeCorrect, PointersCorrect, PTL DEF Safe

\* At every moment of a session at most one question is under way, at one place, it is
\* the latest, and what the screen, the history and the model have of it belongs to it.
THEOREM QuestionsCorrect == Safe => []QuestionInv
<1>1. Init => QuestionInv
  <2> SUFFICES ASSUME Init PROVE QuestionInv
    OBVIOUS
  <2>1. /\ DOMAIN tasks = {} /\ DOMAIN uiQueue = {} /\ DOMAIN asks = {} /\ DOMAIN turns = {}
        /\ worker.kind = "none" /\ ~streamPosted /\ ~generating /\ life = "new"
    BY DEF Init, Idle
  <2>2. ~UnderWay /\ ~Waiting
    BY <2>1 DEF UnderWay, Waiting
  <2> QED
    BY <2>1, <2>2
       DEF QuestionInv, OneAtATime, LatestIsUnderWay, BubblesBelong, LatestBubble,
           HistoryIsShown, EndedQuestions, SettingsArrive
<1>2. Known /\ QuestionInv /\ [Next]_vars => QuestionInv'
  BY QuestionsInductive
<1> QED
  BY <1>1, <1>2, KnownHolds, PTL DEF Safe

-----------------------------------------------------------------------------
(* What follows from it.                                                   *)

\* A set of places that has at most one member.
LEMMA AtMostOne ==
  ASSUME NEW S, \A i, j \in S : i = j
  PROVE  Cardinality(S) \in {0, 1} /\ (Cardinality(S) = 1 <=> S # {})
<1>1. CASE S = {}
  BY <1>1, FS_EmptySet
<1>2. CASE S # {}
  <2>1. PICK i \in S : TRUE
    BY <1>2
  <2>2. S = {i}
    BY <2>1
  <2> QED
    BY <1>2, <2>2, FS_Singleton
<1> QED
  BY <1>1, <1>2

\* While the activity lives, generating is TRUE exactly as long as one task, answer or
\* stream step is under way, and never two: whatever the user, the worker and the
\* looper do, a second inference cannot start beside the first, and generating cannot
\* stay set with nothing left to reset it.
THEOREM GeneratingMeansOneInFlightHolds == Safe => []GeneratingMeansOneInFlight
<1>1. Known /\ QuestionInv => GeneratingMeansOneInFlight
  <2> SUFFICES ASSUME Known, QuestionInv PROVE GeneratingMeansOneInFlight
    OBVIOUS
  <2> DEFINE a == Cardinality(InTasks)
             b == Cardinality(InUi)
             c == IF worker.kind = "run" THEN 1 ELSE 0
             d == IF streamPosted THEN 1 ELSE 0
  <2>1. OneAtATime
    BY DEF QuestionInv
  <2>2. /\ \A i, j \in InTasks : i = j
        /\ \A i, j \in InUi : i = j
    BY <2>1 DEF OneAtATime, InTasks, InUi
  <2>3. /\ a \in {0, 1} /\ (a = 1 <=> \E i \in DOMAIN tasks : tasks[i].kind = "run")
        /\ b \in {0, 1} /\ (b = 1 <=> \E i \in DOMAIN uiQueue : uiQueue[i].kind = "answer")
    <3>1. /\ InTasks # {} <=> \E i \in DOMAIN tasks : tasks[i].kind = "run"
          /\ InUi # {} <=> \E i \in DOMAIN uiQueue : uiQueue[i].kind = "answer"
      BY DEF InTasks, InUi
    <3> QED
      BY <2>2, <3>1, AtMostOne
  <2>4. streamPosted \in BOOLEAN
    BY DEF Known, TypeOK, ActivityTypes
  <2>5. /\ c \in {0, 1} /\ (c = 1 <=> worker.kind = "run")
        /\ d \in {0, 1} /\ (d = 1 <=> streamPosted)
    BY <2>4
  <2>6. /\ a = 1 => c = 0 /\ b = 0
        /\ c = 1 => b = 0
        /\ d = 1 => a = 0 /\ b = 0 /\ c = 0
    BY <2>1, <2>3, <2>5 DEF OneAtATime, Waiting
  <2>7. InFlight = a + b + c + d
    BY DEF InFlight
  <2>8. UnderWay <=> a = 1 \/ b = 1 \/ c = 1 \/ d = 1
    BY <2>3, <2>5 DEF UnderWay, Waiting
  <2> HIDE DEF a, b, c, d
  <2>9. InFlight <= 1 /\ (InFlight = 1 <=> a = 1 \/ b = 1 \/ c = 1 \/ d = 1)
    BY <2>3, <2>5, <2>6, <2>7
  <2>10. life # "destroyed" => (generating <=> UnderWay)
    BY DEF QuestionInv, LatestIsUnderWay
  <2> QED
    BY <2>8, <2>9, <2>10 DEF GeneratingMeansOneInFlight
<1> QED
  BY <1>1, KnownHolds, QuestionsCorrect, PTL

\* A run generates with settings at least as recent as those stored when its question
\* was sent, although looper and worker both write currentSettings without a lock.
THEOREM RunUsesFreshSettingsHolds == Safe => []RunUsesFreshSettings
<1>1. Known /\ QuestionInv => RunUsesFreshSettings
  BY DEF Known, PointersAreLive, WorkerIsInItsTask, QuestionInv, SettingsArrive,
         RunUsesFreshSettings, AtPc
<1> QED
  BY <1>1, KnownHolds, QuestionsCorrect, PTL

\* What the model is reminded of is what the user saw: every turn of the history has
\* its whole output in its own bubble, behind its own question, in the order asked.
THEOREM TurnsAreWhatTheUserSawHolds == Safe => []TurnsAreWhatTheUserSaw
<1>1. QuestionInv => TurnsAreWhatTheUserSaw
  <2> SUFFICES ASSUME QuestionInv PROVE TurnsAreWhatTheUserSaw
    OBVIOUS
  <2>1. ASSUME NEW i \in DOMAIN turns
        PROVE  /\ asks[turns[i].q].pos \in DOMAIN chat
               /\ BubbleOf(turns[i].q)
                    = [AssistantBubble(turns[i].q) EXCEPT !.shown = turns[i].chunks]
               /\ chat[asks[turns[i].q].pos - 1] = UserBubble(turns[i].q)
    BY DEF QuestionInv, HistoryIsShown, BubblesBelong, Showing
  <2>2. \A i, j \in DOMAIN turns : i < j => turns[i].q < turns[j].q
    BY DEF QuestionInv, HistoryIsShown
  <2> QED
    BY <2>1, <2>2 DEF TurnsAreWhatTheUserSaw
<1> QED
  BY <1>1, QuestionsCorrect, PTL

\* While the chat is open no answer is lost: a question that ended is in the history,
\* was pushed out of it by newer ones, or shows its failure.
THEOREM AnswersAreRememberedHolds == Safe => []AnswersAreRemembered
<1>1. QuestionInv => AnswersAreRemembered
  BY DEF QuestionInv, EndedQuestions, LatestIsUnderWay, AnswersAreRemembered
<1> QED
  BY <1>1, QuestionsCorrect, PTL

-----------------------------------------------------------------------------
(* The contract of the chat.                                               *)

\* The history as ChatContract sees it.
Remembered == [i \in DOMAIN turns |-> turns[i].q]

RememberedFits ==
  /\ Remembered \in Seq(0 .. MaxAsks) /\ Len(Remembered) = Len(turns)
  /\ Len(turns) \in Nat /\ DOMAIN turns = 1 .. Len(turns)
  /\ \A i \in 1 .. Len(turns) : Remembered[i] = turns[i].q

LEMMA RememberedProperties == TypeOK => RememberedFits
<1> SUFFICES ASSUME TypeOK PROVE RememberedFits
  OBVIOUS
<1>1. Len(turns) \in Nat /\ DOMAIN turns = 1 .. Len(turns)
  BY LenProperties DEF TypeOK, ChatTypes
<1>2. \A i \in 1 .. Len(turns) : turns[i].q \in 0 .. MaxAsks
  <2>1. \A i \in 1 .. Len(turns) : turns[i] \in Turns
    BY ElementOfSeq DEF TypeOK, ChatTypes
  <2> QED
    BY <2>1 DEF Turns
<1>3. Remembered = [i \in 1 .. Len(turns) |-> turns[i].q]
  BY <1>1 DEF Remembered
<1> QED
  BY <1>1, <1>2, <1>3 DEF RememberedFits

LEMMA RememberedNext == TypeOK' => RememberedFits'
  BY RememberedProperties, PTL

\* remove(0) beyond MAX_STORED_TURNS is what the contract calls Slide.
LEMMA RememberSlides ==
  ASSUME TypeOK, TypeOK', NEW t \in Turns, turns' = Remember(t)
  PROVE  Remembered' = Contract!Slide(Remembered, t.q)
<1> DEFINE longer == Append(turns, t)
           more == Append(Remembered, t.q)
           S == 0 .. MaxAsks
<1>1. t.q \in S /\ turns \in Seq(Turns)
  BY DEF Turns, TypeOK, ChatTypes
<1>2. /\ longer \in Seq(Turns) /\ longer # <<>> /\ Len(longer) = Len(turns) + 1
      /\ \A i \in 1 .. Len(turns) : longer[i] = turns[i]
      /\ longer[Len(turns) + 1] = t
  BY <1>1, AppendProperties
<1>3. /\ more \in Seq(S) /\ more # <<>> /\ Len(more) = Len(turns) + 1
      /\ \A i \in 1 .. Len(turns) : more[i] = turns[i].q
      /\ more[Len(turns) + 1] = t.q
  BY <1>1, RememberedProperties, AppendProperties DEF RememberedFits
<1>4. /\ Remembered' \in Seq(S) /\ Len(Remembered') = Len(turns')
      /\ \A i \in 1 .. Len(turns') : Remembered'[i] = turns'[i].q
  BY RememberedNext DEF RememberedFits
<1>5. Len(turns) \in Nat
  BY RememberedProperties DEF RememberedFits
<1>6. /\ turns' = IF Len(longer) > StoredTurns THEN Tail(longer) ELSE longer
      /\ Contract!Slide(Remembered, t.q) = IF Len(more) > StoredTurns THEN Tail(more) ELSE more
  BY DEF Remember, Contract!Slide
<1> HIDE DEF longer, more, S
<1>7. \A i \in 1 .. Len(turns) + 1 : longer[i].q = more[i]
  BY <1>2, <1>3, <1>5
<1>8. CASE Len(longer) > StoredTurns
  <2>1. turns' = Tail(longer) /\ Contract!Slide(Remembered, t.q) = Tail(more)
    BY <1>2, <1>3, <1>6, <1>8
  <2>2. /\ Len(Tail(longer)) = Len(turns) /\ Len(Tail(more)) = Len(turns) /\ Tail(more) \in Seq(S)
        /\ \A i \in 1 .. Len(turns) : /\ Tail(longer)[i] = longer[i + 1]
                                      /\ Tail(more)[i] = more[i + 1]
    BY <1>2, <1>3, <1>5, HeadTailProperties
  <2>3. \A i \in 1 .. Len(turns) : Remembered'[i] = Tail(more)[i]
    BY <1>4, <1>5, <1>7, <2>1, <2>2
  <2> QED
    BY <1>4, <2>1, <2>2, <2>3, SeqEqual
<1>9. CASE ~(Len(longer) > StoredTurns)
  <2>1. turns' = longer /\ Contract!Slide(Remembered, t.q) = more
    BY <1>2, <1>3, <1>6, <1>9
  <2>2. \A i \in 1 .. Len(Remembered') : Remembered'[i] = more[i]
    BY <1>2, <1>4, <1>7, <2>1
  <2> QED
    BY <1>2, <1>3, <1>4, <2>1, <2>2, SeqEqual
<1> QED
  BY <1>8, <1>9

\* What a step leaves alone in the eyes of the contract.
Unmoved == UNCHANGED <<Phase, Len(asks), Remembered>>

\* Every step of the activity is one the contract allows, or one it does not see.
LEMMA StepAllowed ==
  ASSUME Known, Known', QuestionInv, [Next]_vars
  PROVE  [Contract!Next]_(Contract!vars)
<1> USE DEF uiVars, executorVars, nativeVars
<1>0. /\ Unmoved => UNCHANGED Contract!vars
      /\ Phase \in {"starting", "loading", "ready", "answering", "noModel", "closed"}
  BY DEF Unmoved, Contract!vars, Remembered, Phase, Known, TypeOK, ActivityTypes
<1>1. ASSUME UNCHANGED <<life, modelPtr, modelLoading, generating, asks, turns>>
      PROVE  Unmoved
  BY <1>1 DEF Unmoved, Phase, Remembered
<1>2. CASE OnCreate
  <2>1. Phase = "starting" /\ Phase' = "loading"
    BY <1>2 DEF OnCreate, Phase
  <2>2. UNCHANGED <<Len(asks), Remembered>>
    BY <1>2 DEF OnCreate, Remembered
  <2> QED
    BY <2>1, <2>2 DEF Contract!Next, Contract!Open, Contract!Move, Remembered
<1>3. CASE OnCreateWithoutModel
  <2>1. Phase = "starting" /\ Phase' = "noModel"
    BY <1>3 DEF OnCreateWithoutModel, Phase
  <2>2. UNCHANGED <<Len(asks), Remembered>>
    BY <1>3 DEF OnCreateWithoutModel, Remembered
  <2> QED
    BY <2>1, <2>2 DEF Contract!Next, Contract!Open, Contract!Move, Remembered
<1>4. CASE OpenSettings \/ SaveSettings \/ SettingsResult
  BY <1>0, <1>1, <1>4 DEF OpenSettings, SaveSettings, SettingsResult
<1>5. CASE HandleAnswer \/ StreamStopped \/ StreamChunk
  BY <1>0, <1>1, <1>5 DEF HandleAnswer, StreamStopped, StreamChunk
<1>6. CASE TakeTask \/ CreateModel \/ CreateModelFails \/ ConfigureCreated \/ PostLoaded
           \/ ReloadSettings \/ AssignSettings
  BY <1>0, <1>1, <1>6 DEF TakeTask, CreateModel, CreateModelFails, ConfigureCreated,
     PostLoaded, ReloadSettings, AssignSettings
<1>7. CASE ConfigureRun \/ Applied \/ CallRun \/ RunReturns \/ Release
  BY <1>0, <1>1, <1>7 DEF ConfigureRun, Applied, CallRun, RunReturns, Release
<1>8. CASE UNCHANGED vars
  BY <1>0, <1>1, <1>8 DEF vars
<1>9. CASE RunInference
  <2>1. Phase = "ready" /\ Phase' = "answering"
    BY <1>9 DEF RunInference, CanAsk, Phase
  <2>2. Len(asks) < MaxAsks /\ Len(asks') = Len(asks) + 1
    BY <1>9, AppendProperties DEF RunInference, Known, TypeOK, ChatTypes
  <2>3. Remembered' = Remembered
    BY <1>9 DEF RunInference, Remembered
  <2> QED
    BY <2>1, <2>2, <2>3 DEF Contract!Next, Contract!Ask, Contract!Move, Remembered
<1>10. CASE OnDestroy
  <2>1. Phase \notin {"starting", "closed"} /\ Phase' = "closed"
    BY <1>10 DEF OnDestroy, Phase
  <2>2. UNCHANGED <<Len(asks), Remembered>>
    BY <1>10 DEF OnDestroy, Remembered
  <2> QED
    BY <2>1, <2>2 DEF Contract!Next, Contract!Close, Remembered
<1>11. CASE HandleLoaded
  <2>1. modelLoading /\ ~modelLoading' /\ UNCHANGED <<life, generating, asks, turns>>
    BY <1>11 DEF HandleLoaded, Posted, Known, PointersAreLive, LoadInProgress, NoLoad,
                 TypeOK, QueueTypes
  <2>2. life \in {"open", "destroyed"}
    BY <2>1 DEF Known, PointersAreLive, ExecutorLife, TypeOK, ActivityTypes
  <2>3. CASE life = "destroyed"
    BY <1>0, <2>1, <2>3 DEF Unmoved, Phase, Remembered
  <2>4. CASE life = "open"
    <3>1. ~generating
      BY <2>1, <2>4 DEF Known, QuestionsHaveModel, QuestionUnderWay
    <3>2. Phase = "loading" /\ Phase' \in {"ready", "noModel"}
      BY <2>1, <2>4, <3>1 DEF Phase
    <3> QED
      BY <2>1, <3>2 DEF Contract!Next, Contract!ModelDecided, Contract!Move
  <2> QED
    BY <2>2, <2>3, <2>4
<1>12. CASE HandleFailure
  <2>1. /\ UNCHANGED <<life, modelPtr, modelLoading, asks, turns>> /\ ~generating'
        /\ uiQueue' = Tail(uiQueue) /\ Posted("answer")
    BY <1>12 DEF HandleFailure, EndQuestion
  <2>2. CASE life = "destroyed"
    BY <1>0, <2>1, <2>2 DEF Unmoved, Phase, Remembered
  <2>3. CASE life # "destroyed"
    <3>1. UnderWay
      BY <2>1, AnswerIsAlone DEF UnderWay, QuestionInv, QuestionPath
    <3>2. generating
      BY <2>3, <3>1 DEF QuestionInv, LatestIsUnderWay
    <3>3. modelPtr # Null /\ ~modelLoading
      BY <2>3, <3>2 DEF Known, QuestionsHaveModel, QuestionUnderWay
    <3>4. life = "open"
      BY <2>3, <3>3 DEF Known, PointersAreLive, ExecutorLife, TypeOK, ActivityTypes
    <3>5. Phase = "answering" /\ Phase' = "ready"
      BY <2>1, <3>2, <3>3, <3>4 DEF Phase
    <3> QED
      BY <2>1, <3>5 DEF Contract!Next, Contract!Answer, Contract!Move
  <2> QED
    BY <2>2, <2>3
<1>13. CASE StreamDone
  <2> DEFINE t == [q |-> stream.q, chunks |-> stream.chunks]
  <2>1. /\ UNCHANGED <<life, modelPtr, modelLoading, asks>> /\ ~generating' /\ generating
        /\ turns' = Remember(t)
    BY <1>13 DEF StreamDone, EndQuestion
  <2>2. stream.q = Len(asks) /\ life = "open"
    BY <1>13, StreamShows DEF StreamDone, QuestionInv, QuestionPath
  <2>3. modelPtr # Null /\ ~modelLoading
    BY <2>1, <2>2 DEF Known, QuestionsHaveModel, QuestionUnderWay
  <2>4. Phase = "answering" /\ Phase' = "ready"
    BY <2>1, <2>2, <2>3 DEF Phase
  <2>5. t \in Turns
    BY DEF Known, TypeOK, ChatTypes, Streams, Turns
  <2>6. Remembered' = Contract!Slide(Remembered, Len(asks))
    BY <2>1, <2>2, <2>5, RememberSlides DEF Known
  <2> QED
    BY <2>1, <2>4, <2>6 DEF Contract!Next, Contract!Answer, Contract!Move, Remembered
<1> QED
  BY <1>2, <1>3, <1>4, <1>5, <1>6, <1>7, <1>8, <1>9, <1>10, <1>11, <1>12, <1>13
     DEF Next, UserStep, LooperStep, WorkerStep, Finished

\* Whatever the threads do, the user sees one question at a time, asked only once a
\* model is ready, and a history of exactly the answered ones, in order.
THEOREM ImplementsContractSafely == Safe => Contract!Safe
<1>1. Init => Contract!Init
  <2> SUFFICES ASSUME Init PROVE Contract!Init
    OBVIOUS
  <2>1. Phase = "starting" /\ Len(asks) = 0
    BY DEF Init, Phase
  <2>2. [i \in DOMAIN turns |-> turns[i].q] = <<>>
    BY DEF Init
  <2> QED
    BY <2>1, <2>2 DEF Contract!Init
<1>2. Known /\ Known' /\ QuestionInv /\ [Next]_vars => [Contract!Next]_(Contract!vars)
  BY StepAllowed
<1> QED
  BY <1>1, <1>2, KnownHolds, QuestionsCorrect, PTL DEF Safe, Contract!Safe
=============================================================================
