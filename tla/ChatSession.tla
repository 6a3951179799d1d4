---------------------------- MODULE ChatSession ----------------------------
(***************************************************************************)
(* One ChatActivity: the main looper (lifecycle callbacks, clicks, posted  *)
(* Runnables), the "llama-infer-thread" behind its single-thread executor, *)
(* the native model both of them refer to through a raw pointer, and the   *)
(* settings store.                                                         *)
(*                                                                         *)
(* A Runnable of the looper is one step.  A Runnable of the worker is cut  *)
(* where it reads or writes a field that the looper also touches, and      *)
(* around every native call, because the looper runs meanwhile.            *)
(***************************************************************************)
EXTENDS Naturals, Sequences, FiniteSets

CONSTANTS
  MaxAsks,      \* bound: questions sent during the life of the activity
  MaxSaves,     \* bound: times the settings are saved
  MaxQueue,     \* bound: tasks already waiting when the settings are opened
  MaxChunks,    \* longest output, in chunks of STREAM_CHUNK_CHARS
  StoredTurns   \* MAX_STORED_TURNS

ASSUME ConstantsAssumption ==
  /\ MaxAsks \in Nat
  /\ MaxSaves \in Nat
  /\ MaxQueue \in Nat
  /\ MaxChunks \in Nat \ {0}
  /\ StoredTurns \in Nat \ {0}

Versions == 0 .. MaxSaves      \* the settings, as the number of saves so far

\* The jlong that stands for a native Model: 0L, or the address of the one
\* Model an activity creates.
Null == 0
Handle == 1
Pointers == {Null, Handle}

\* What runIOLLModel returns, as isNativeFailureMessage sees it: a text that holds
\* one of its four phrases or does not, so many chunks long.  Answers and errors
\* are of either sort ("context size exceeded" holds none of the phrases).
Outputs == {out \in [listed : BOOLEAN, chunks : 0 .. MaxChunks] :
              out.listed => out.chunks > 0}

NullModelOutput == [listed |-> TRUE, chunks |-> MaxChunks]

VARIABLES
  life,            \* "new", "finishing", "open", "destroyed"
  settingsOpen,    \* ChatSettingsActivity is on top
  modelPtr, modelLoading, generating, sendEnabled,
  currentSettings, \* written by both threads
  chat,            \* chatAdapter.items
  turns,           \* conversationTurns
  asks,            \* locals captured by each runInference, and the version then stored
  stream,          \* the closure streamRunnable refers to
  streamPosted,    \* it waits in the main looper
  uiQueue,         \* Runnables the worker posted to the main looper
  tasks, shutdown, rejected,   \* inferenceExecutor
  worker,          \* the running Runnable of the executor
  model, modelCfg, \* the native heap object and the settings it holds
  store            \* settings in SharedPreferences

uiVars == <<life, settingsOpen, modelPtr, modelLoading, generating,
            sendEnabled, chat, turns, asks, stream, streamPosted>>
executorVars == <<tasks, shutdown, rejected>>
nativeVars == <<model, modelCfg>>
vars == <<uiVars, currentSettings, uiQueue, executorVars, worker, nativeVars, store>>

-----------------------------------------------------------------------------
Task(kind, ptr, cfg, q) == [kind |-> kind, ptr |-> ptr, cfg |-> cfg, q |-> q]

LoadTask == Task("load", Null, 0, 0)
RunTask(q) == Task("run", Null, 0, q)
ApplyTask(ptr, cfg) == Task("apply", ptr, cfg, 0)
ReleaseTask(ptr) == Task("release", ptr, 0, 0)

Loaded(ptr) == [kind |-> "loaded", ptr |-> ptr]
Answer(q, out) == [kind |-> "answer", q |-> q, out |-> out]

NoStream == [q |-> 0, chunks |-> 0, index |-> 0]
Idle == [pc |-> "idle", kind |-> "none", ptr |-> Null, cfg |-> 0, q |-> 0]

Notice == [role |-> "notice", q |-> 0, shown |-> 0, failed |-> FALSE]
UserBubble(q) == [role |-> "user", q |-> q, shown |-> 0, failed |-> FALSE]
AssistantBubble(q) == [role |-> "assistant", q |-> q, shown |-> 0, failed |-> FALSE]

\* ExecutorService.execute: after shutdown() it throws RejectedExecutionException.
Execute(queue, t) ==
  IF shutdown THEN rejected' = TRUE /\ tasks' = queue
              ELSE rejected' = rejected /\ tasks' = Append(queue, t)

\* ChatMessageAdapter.updateMessageText: out of range positions are ignored.
UpdateMessage(pos, shown, failed) ==
  IF pos \in DOMAIN chat
    THEN [chat EXCEPT ![pos].shown = shown, ![pos].failed = failed]
    ELSE chat

\* isNativeFailureMessage looks for four phrases, in errors and answers alike.
IsNativeFailureMessage(out) == out.listed

Init ==
  /\ life = "new" /\ settingsOpen = FALSE
  /\ modelPtr = Null /\ modelLoading = FALSE /\ generating = FALSE
  /\ sendEnabled = TRUE
  /\ currentSettings = 0 /\ store = 0
  /\ chat = <<>> /\ turns = <<>> /\ asks = <<>>
  /\ stream = NoStream /\ streamPosted = FALSE /\ uiQueue = <<>>
  /\ tasks = <<>> /\ shutdown = FALSE /\ rejected = FALSE
  /\ worker = Idle
  /\ model = "none" /\ modelCfg = 0

-----------------------------------------------------------------------------
(* The main looper: lifecycle and clicks.                                  *)

\* onCreate when resolveSelectedModel finds the file: the load is queued.
OnCreate ==
  /\ life = "new"
  /\ life' = "open"
  /\ currentSettings' = store
  /\ sendEnabled' = FALSE
  /\ modelLoading' = TRUE
  /\ Execute(tasks, LoadTask)
  /\ UNCHANGED <<settingsOpen, modelPtr, generating, chat, turns, asks, stream,
                 streamPosted, uiQueue, shutdown, worker, nativeVars, store>>

\* onCreate when it returns null: finish(), no listener is bound.
OnCreateWithoutModel ==
  /\ life = "new"
  /\ life' = "finishing"
  /\ currentSettings' = store
  /\ UNCHANGED <<settingsOpen, modelPtr, modelLoading, generating, sendEnabled,
                 chat, turns, asks, stream, streamPosted, uiQueue, executorVars,
                 worker, nativeVars, store>>

\* btnSettings is enabled whatever the chat is doing.
OpenSettings ==
  /\ life = "open" /\ ~settingsOpen
  /\ Len(tasks) < MaxQueue
  /\ settingsOpen' = TRUE
  /\ UNCHANGED <<life, modelPtr, modelLoading, generating, sendEnabled, chat,
                 turns, asks, stream, streamPosted, currentSettings, uiQueue,
                 executorVars, worker, nativeVars, store>>

\* Save in ChatSettingsActivity; after onDestroy it may belong to the
\* activity that replaced this one.
SaveSettings ==
  /\ settingsOpen \/ life = "destroyed"
  /\ store < MaxSaves
  /\ store' = store + 1
  /\ UNCHANGED <<uiVars, currentSettings, uiQueue, executorVars, worker,
                 nativeVars>>

\* The settingsLauncher callback, with applySettingsToNativeAsync.
SettingsResult ==
  /\ life = "open" /\ settingsOpen
  /\ settingsOpen' = FALSE
  /\ currentSettings' = store
  /\ IF modelPtr # Null /\ ~modelLoading /\ ~generating
       THEN Execute(tasks, ApplyTask(modelPtr, store))
       ELSE UNCHANGED <<tasks, rejected>>
  /\ UNCHANGED <<life, modelPtr, modelLoading, generating, sendEnabled, chat,
                 turns, asks, stream, streamPosted, uiQueue, shutdown, worker,
                 nativeVars, store>>

\* What runInference asks before it takes a question.
CanAsk == ~modelLoading /\ ~generating /\ modelPtr # Null

\* MUTANT: the position is that of the question.
PositionOfQuestion == Len(chat) + 1

\* addMessage returns the position of the empty assistant message, the second of
\* the two that are added.
AssistantPosition == Len(chat) + 2

\* runInference with a prompt that is not blank, from the button or from the
\* editor action, which does not look at the button.
RunInference ==
  /\ life = "open" /\ ~settingsOpen
  /\ CanAsk
  /\ Len(asks) < MaxAsks
  /\ LET q == Len(asks) + 1 IN
       /\ chat' = Append(Append(chat, UserBubble(q)), AssistantBubble(q))
       /\ asks' = Append(asks, [pos |-> AssistantPosition, since |-> store])
       /\ Execute(tasks, RunTask(q))
  /\ generating' = TRUE
  /\ sendEnabled' = FALSE
  /\ UNCHANGED <<life, settingsOpen, modelPtr, modelLoading, turns, stream,
                 streamPosted, currentSettings, uiQueue, shutdown, worker,
                 nativeVars, store>>

\* MUTANT: the model is deleted on the looper, behind the worker's back.
ReleaseInline ==
  /\ model' = IF modelPtr # Null THEN "freed" ELSE model
  /\ UNCHANGED <<modelCfg, tasks, rejected>>

\* MUTANT: nothing is released.
ReleaseForgotten == UNCHANGED <<nativeVars, tasks, rejected>>

\* onDestroy hands the pointer it had to the executor.
QueueRelease ==
  /\ IF modelPtr # Null
       THEN Execute(tasks, ReleaseTask(modelPtr))
       ELSE UNCHANGED <<tasks, rejected>>
  /\ UNCHANGED nativeVars

\* onDestroy; removeCallbacks(streamRunnable) takes the stream out of the looper.
OnDestroy ==
  /\ life \in {"open", "finishing"}
  /\ life' = "destroyed"
  /\ settingsOpen' = FALSE
  /\ generating' = FALSE
  /\ streamPosted' = FALSE
  /\ modelPtr' = Null
  /\ QueueRelease
  /\ shutdown' = TRUE
  /\ UNCHANGED <<modelLoading, sendEnabled, chat, turns, asks, stream,
                 currentSettings, uiQueue, worker, store>>

-----------------------------------------------------------------------------
(* The main looper: Runnables posted by the worker and by streamOutput.    *)

Posted(kind) == uiQueue # <<>> /\ Head(uiQueue).kind = kind

\* The end of loadModelInBackground.  It does not ask whether the activity
\* is still there.
HandleLoaded ==
  /\ Posted("loaded")
  /\ LET ptr == Head(uiQueue).ptr IN
       /\ modelPtr' = ptr
       /\ sendEnabled' = (sendEnabled \/ ptr # Null)
       /\ chat' = IF ptr = Null THEN chat ELSE Append(chat, Notice)
  /\ modelLoading' = FALSE
  /\ uiQueue' = Tail(uiQueue)
  /\ UNCHANGED <<life, settingsOpen, generating, turns, asks, stream,
                 streamPosted, currentSettings, executorVars, worker, nativeVars,
                 store>>

\* MUTANT: the button stays disabled.
EndForgetsButton == generating' = FALSE /\ UNCHANGED sendEnabled

\* MUTANT: generating stays set.
EndForgetsGenerating == sendEnabled' = TRUE /\ UNCHANGED generating

\* The end of a question, after a failure or after the last chunk.
EndQuestion == generating' = FALSE /\ sendEnabled' = TRUE

\* The Runnable posted by the inference task when the output is a failure.
HandleFailure ==
  /\ Posted("answer")
  /\ LET m == Head(uiQueue) IN
       /\ IsNativeFailureMessage(m.out)
       /\ chat' = UpdateMessage(asks[m.q].pos, m.out.chunks, TRUE)
  /\ EndQuestion
  /\ uiQueue' = Tail(uiQueue)
  /\ UNCHANGED <<life, settingsOpen, modelPtr, modelLoading, turns, asks, stream,
                 streamPosted, currentSettings, executorVars, worker, nativeVars,
                 store>>

\* ... and otherwise: streamOutput replaces the stream (removeCallbacks, post).
HandleAnswer ==
  /\ Posted("answer")
  /\ LET m == Head(uiQueue) IN
       /\ ~IsNativeFailureMessage(m.out)
       /\ stream' = [q |-> m.q, chunks |-> m.out.chunks, index |-> 0]
  /\ streamPosted' = TRUE
  /\ uiQueue' = Tail(uiQueue)
  /\ UNCHANGED <<life, settingsOpen, modelPtr, modelLoading, generating,
                 sendEnabled, chat, turns, asks, currentSettings, executorVars,
                 worker, nativeVars, store>>

\* streamRunnable when nothing is generating any more (onDestroy).
StreamStopped ==
  /\ streamPosted /\ ~generating
  /\ streamPosted' = FALSE
  /\ UNCHANGED <<life, settingsOpen, modelPtr, modelLoading, generating,
                 sendEnabled, chat, turns, asks, stream, currentSettings, uiQueue,
                 executorVars, worker, nativeVars, store>>

\* MUTANT: a full history takes no more turns.
RememberOldest(t) == IF Len(turns) = StoredTurns THEN turns ELSE Append(turns, t)

\* MUTANT: >= instead of >.
RememberEarly(t) ==
  LET longer == Append(turns, t) IN
  IF Len(longer) >= StoredTurns THEN Tail(longer) ELSE longer

\* conversationTurns.add, and remove(0) beyond MAX_STORED_TURNS.
Remember(t) ==
  LET longer == Append(turns, t) IN
  IF Len(longer) > StoredTurns THEN Tail(longer) ELSE longer

\* The chunk [index, end) becomes visible.
ShowChunk(end) ==
  chat' = IF end > stream.index THEN UpdateMessage(asks[stream.q].pos, end, FALSE)
                                ELSE chat

NextEnd == IF stream.index < stream.chunks THEN stream.index + 1 ELSE stream.index

\* streamRunnable with more text to come: postDelayed(this).
StreamChunk ==
  /\ streamPosted /\ generating
  /\ NextEnd < stream.chunks
  /\ ShowChunk(NextEnd)
  /\ stream' = [stream EXCEPT !.index = NextEnd]
  /\ UNCHANGED <<life, settingsOpen, modelPtr, modelLoading, generating,
                 sendEnabled, turns, asks, streamPosted, currentSettings, uiQueue,
                 executorVars, worker, nativeVars, store>>

\* streamRunnable with the last chunk: the turn is remembered.
StreamDone ==
  /\ streamPosted /\ generating
  /\ NextEnd = stream.chunks
  /\ ShowChunk(NextEnd)
  /\ stream' = [stream EXCEPT !.index = NextEnd]
  /\ EndQuestion
  /\ turns' = Remember([q |-> stream.q, chunks |-> stream.chunks])
  /\ streamPosted' = FALSE
  /\ UNCHANGED <<life, settingsOpen, modelPtr, modelLoading, asks,
                 currentSettings, uiQueue, executorVars, worker, nativeVars,
                 store>>

-----------------------------------------------------------------------------
(* The worker thread.                                                      *)

AtPc(pc) == worker.pc = pc
Post(m) == uiQueue' = Append(uiQueue, m)

\* The executor hands over its oldest task.
TakeTask ==
  /\ AtPc("idle") /\ tasks # <<>>
  /\ LET t == Head(tasks)
         first == [load |-> "create", run |-> "reload", apply |-> "applying",
                   release |-> "releasing"]
     IN worker' = [pc |-> first[t.kind], kind |-> t.kind, ptr |-> t.ptr,
                   cfg |-> t.cfg, q |-> t.q]
  /\ tasks' = Tail(tasks)
  /\ UNCHANGED <<uiVars, currentSettings, uiQueue, shutdown, rejected, nativeVars,
                 store>>

\* createIOLLModel succeeds; the pointer is not 0.
CreateModel ==
  /\ AtPc("create")
  /\ model' = "live"
  /\ modelCfg' = currentSettings
  /\ worker' = [worker EXCEPT !.pc = "configure", !.ptr = Handle]
  /\ UNCHANGED <<uiVars, currentSettings, uiQueue, executorVars, store>>

\* MUTANT: an exception of createIOLLModel ends the task.
CreateThrows ==
  /\ AtPc("create")
  /\ worker' = Idle
  /\ UNCHANGED <<uiVars, currentSettings, uiQueue, executorVars, nativeVars,
                 store>>

\* createIOLLModel fails and returns 0, or throws.
CreateModelFails ==
  /\ AtPc("create")
  /\ worker' = [worker EXCEPT !.pc = "postLoaded"]
  /\ UNCHANGED <<uiVars, currentSettings, uiQueue, executorVars, nativeVars,
                 store>>

\* applySettingsToNativeInternal(ptr, currentSettings) reads the field again.
ConfigureCreated ==
  /\ AtPc("configure")
  /\ worker' = [worker EXCEPT !.pc = "applying", !.cfg = currentSettings]
  /\ UNCHANGED <<uiVars, currentSettings, uiQueue, executorVars, nativeVars,
                 store>>

PostLoaded ==
  /\ AtPc("postLoaded")
  /\ Post(Loaded(worker.ptr))
  /\ worker' = Idle
  /\ UNCHANGED <<uiVars, currentSettings, executorVars, nativeVars, store>>

\* MUTANT: the task goes by the field instead of the store.
ReloadsField ==
  /\ AtPc("reload")
  /\ worker' = [worker EXCEPT !.pc = "assign", !.cfg = currentSettings]
  /\ UNCHANGED <<uiVars, currentSettings, uiQueue, executorVars, nativeVars,
                 store>>

\* llmSettingsStore.load() ...
ReloadSettings ==
  /\ AtPc("reload")
  /\ worker' = [worker EXCEPT !.pc = "assign", !.cfg = store]
  /\ UNCHANGED <<uiVars, currentSettings, uiQueue, executorVars, nativeVars,
                 store>>

\* ... assigned to currentSettings, which the looper may have set meanwhile.
AssignSettings ==
  /\ AtPc("assign")
  /\ currentSettings' = worker.cfg
  /\ worker' = [worker EXCEPT !.pc = "readPtr"]
  /\ UNCHANGED <<uiVars, uiQueue, executorVars, nativeVars, store>>

\* applySettingsToNativeInternal(modelPtr, currentSettings) in the task.
ConfigureRun ==
  /\ AtPc("readPtr")
  /\ worker' = [worker EXCEPT !.pc = "applying", !.ptr = modelPtr, !.cfg = currentSettings]
  /\ UNCHANGED <<uiVars, currentSettings, uiQueue, executorVars, nativeVars,
                 store>>

\* updateIOLLParams returns; a null pointer is skipped.
Applied ==
  /\ AtPc("applying")
  /\ modelCfg' = IF worker.ptr # Null THEN worker.cfg ELSE modelCfg
  /\ worker' = CASE worker.kind = "load"  -> [worker EXCEPT !.pc = "postLoaded"]
                 [] worker.kind = "run"   -> [worker EXCEPT !.pc = "callRun"]
                 [] OTHER                 -> Idle
  /\ UNCHANGED <<uiVars, currentSettings, uiQueue, executorVars, model, store>>

\* runIOLLModel(modelPtr, formattedPrompt) reads the field once more.
CallRun ==
  /\ AtPc("callRun")
  /\ worker' = [worker EXCEPT !.pc = "running", !.ptr = modelPtr]
  /\ UNCHANGED <<uiVars, currentSettings, uiQueue, executorVars, nativeVars,
                 store>>

\* runIOLLModel returns or throws, and its result is posted.
RunReturns ==
  /\ AtPc("running")
  /\ \E out \in Outputs :
       /\ worker.ptr = Null => out = NullModelOutput
       /\ Post(Answer(worker.q, out))
  /\ worker' = Idle
  /\ UNCHANGED <<uiVars, currentSettings, executorVars, nativeVars, store>>

\* releaseIOLLModel: delete.
Release ==
  /\ AtPc("releasing")
  /\ model' = "freed"
  /\ worker' = Idle
  /\ UNCHANGED <<uiVars, currentSettings, uiQueue, executorVars, modelCfg, store>>

-----------------------------------------------------------------------------
UserStep == OnCreate \/ OnCreateWithoutModel \/ OpenSettings \/ SaveSettings
            \/ SettingsResult \/ RunInference \/ OnDestroy

LooperStep == HandleLoaded \/ HandleFailure \/ HandleAnswer \/ StreamStopped
              \/ StreamChunk \/ StreamDone

WorkerStep == TakeTask \/ CreateModel \/ CreateModelFails \/ ConfigureCreated
              \/ PostLoaded \/ ReloadSettings \/ AssignSettings \/ ConfigureRun
              \/ Applied \/ CallRun \/ RunReturns \/ Release

Quiet == uiQueue = <<>> /\ ~streamPosted /\ tasks = <<>> /\ worker = Idle

\* The session is over and nothing is left to run.
Finished == life = "destroyed" /\ Quiet /\ UNCHANGED vars

Next == UserStep \/ LooperStep \/ WorkerStep \/ Finished

Safe == Init /\ [][Next]_vars

\* The looper drains its queue and the executor its tasks.  Nothing is
\* assumed of the user, nor of the system that destroys the activity.
Spec == Safe /\ WF_vars(LooperStep) /\ WF_vars(WorkerStep)

-----------------------------------------------------------------------------
Tasks == [kind : {"load", "run", "apply", "release"}, ptr : Pointers,
          cfg : Versions, q : 0 .. MaxAsks]
Messages == [kind : {"loaded"}, ptr : Pointers]
            \cup [kind : {"answer"}, q : 0 .. MaxAsks, out : Outputs]
Pcs == {"idle", "create", "configure", "reload", "assign", "readPtr", "applying",
        "postLoaded", "callRun", "running", "releasing"}
Bubbles == [role : {"notice", "user", "assistant"}, q : 0 .. MaxAsks,
            shown : 0 .. MaxChunks, failed : BOOLEAN]

Turns == [q : 0 .. MaxAsks, chunks : 0 .. MaxChunks]
Asks == [pos : Nat, since : Versions]
Streams == [q : 0 .. MaxAsks, chunks : 0 .. MaxChunks, index : 0 .. MaxChunks]
Workers == [pc : Pcs, kind : {"none", "load", "run", "apply", "release"},
            ptr : Pointers, cfg : Versions, q : 0 .. MaxAsks]

ActivityTypes ==
  /\ life \in {"new", "finishing", "open", "destroyed"}
  /\ settingsOpen \in BOOLEAN /\ modelLoading \in BOOLEAN
  /\ generating \in BOOLEAN /\ sendEnabled \in BOOLEAN /\ streamPosted \in BOOLEAN
  /\ modelPtr \in Pointers
  /\ currentSettings \in Versions /\ modelCfg \in Versions /\ store \in Versions
  /\ shutdown \in BOOLEAN /\ rejected \in BOOLEAN
  /\ model \in {"none", "live", "freed"}

ChatTypes ==
  /\ chat \in Seq(Bubbles)
  /\ turns \in Seq(Turns) /\ Len(turns) <= StoredTurns
  /\ asks \in Seq(Asks) /\ Len(asks) <= MaxAsks
  /\ stream \in Streams

QueueTypes ==
  /\ uiQueue \in Seq(Messages)
  /\ tasks \in Seq(Tasks)
  /\ worker \in Workers

\* Every variable stays in its domain; in particular the history never
\* outgrows MAX_STORED_TURNS.
TypeOK == ActivityTypes /\ ChatTypes /\ QueueTypes

\* The native calls that take a pointer.
InNativeCall == worker.pc \in {"applying", "running", "releasing"}

\* A native call never gets a pointer to a Model that was deleted: onDestroy
\* releases through the executor, behind every call that was queued before
\* it, and the field it leaves behind is null.  A second release would be
\* such a call too.
NoUseAfterFree == InNativeCall /\ worker.ptr # Null => model = "live"

\* Where the one load of the activity can be while modelLoading is TRUE: alone
\* in the executor, on the worker, or alone in the looper.
LoadIsAlone ==
  /\ modelPtr = Null
  /\ \/ tasks = <<LoadTask>> /\ worker.pc = "idle" /\ uiQueue = <<>>
     \/ tasks = <<>> /\ worker.kind = "load" /\ uiQueue = <<>>
     \/ /\ tasks = <<>> /\ worker.pc = "idle"
        /\ Len(uiQueue) = 1 /\ uiQueue[1].kind = "loaded"
        /\ uiQueue[1].ptr # Null => model = "live"

NoLoad ==
  /\ worker.kind # "load"
  /\ \A i \in DOMAIN tasks : tasks[i].kind # "load"
  /\ \A i \in DOMAIN uiQueue : uiQueue[i].kind # "loaded"

\* The release is the last thing the worker will ever do, and then no field
\* holds the pointer.
ReleaseIsLast ==
  /\ \A i \in DOMAIN tasks :
       tasks[i].kind = "release" => i = Len(tasks) /\ shutdown /\ modelPtr = Null
  /\ worker.pc = "releasing" => tasks = <<>> /\ shutdown /\ modelPtr = Null

\* The task on the worker and the place it is at belong together.
WorkerIsInItsTask ==
  /\ worker.pc = "idle" <=> worker.kind = "none"
  /\ worker.pc = "releasing" <=> worker.kind = "release"
  /\ worker.pc \in {"create", "configure", "postLoaded"} => worker.kind = "load"
  /\ worker.pc \in {"reload", "assign", "readPtr", "callRun", "running"} => worker.kind = "run"
  /\ worker.kind = "load" => worker.pc \in {"create", "configure", "applying", "postLoaded"}

\* The executor is open as long as the activity, and idle before it has a model.
ExecutorLife ==
  /\ shutdown <=> life = "destroyed"
  /\ life \in {"new", "finishing"} =>
       ~modelLoading /\ modelPtr = Null /\ tasks = <<>> /\ uiQueue = <<>> /\ worker.pc = "idle"
  /\ ~rejected

HeldPointers ==
  /\ modelPtr # Null => model = "live"
  /\ worker.ptr # Null => model = "live"
  /\ \A i \in DOMAIN tasks : tasks[i].ptr # Null => model = "live"

LoadInProgress == IF modelLoading THEN LoadIsAlone ELSE NoLoad

\* Whoever holds a pointer, now or in a queue, holds one to a live model.  The
\* inductive strengthening of NoUseAfterFree and NoRejectedTask.
PointersAreLive ==
  /\ LoadInProgress
  /\ ReleaseIsLast
  /\ WorkerIsInItsTask
  /\ ExecutorLife
  /\ HeldPointers

\* The executor never throws RejectedExecutionException: onDestroy queues the
\* release before shutdown(), and no callback queues work afterwards.
NoRejectedTask == ~rejected

InTasks == {i \in DOMAIN tasks : tasks[i].kind = "run"}
InUi == {i \in DOMAIN uiQueue : uiQueue[i].kind = "answer"}

\* The places an unanswered question can be at.
InFlight == Cardinality(InTasks) + Cardinality(InUi)
            + (IF worker.kind = "run" THEN 1 ELSE 0) + (IF streamPosted THEN 1 ELSE 0)

\* While the activity lives, generating is TRUE exactly as long as one task,
\* answer or stream step for the latest question is under way: it can neither
\* stay TRUE for ever with nothing left to reset it nor let a second inference
\* start beside the first.
GeneratingMeansOneInFlight ==
  /\ InFlight <= 1
  /\ life # "destroyed" => (generating <=> InFlight = 1)

\* A question is somewhere between the Send button and the end of its stream.
QuestionUnderWay ==
  \/ generating \/ streamPosted \/ worker.kind = "run"
  \/ \E i \in DOMAIN tasks : tasks[i].kind = "run"
  \/ \E i \in DOMAIN uiQueue : uiQueue[i].kind = "answer"

\* While a question is under way the activity keeps its model: nothing but
\* onDestroy takes it away, and no load starts beside it.
QuestionsHaveModel ==
  life # "destroyed" /\ QuestionUnderWay => modelPtr # Null /\ ~modelLoading

\* The Send button is enabled exactly when runInference would accept a
\* question: no path (load, failure, last chunk) forgets it.
SendButtonTellsTheTruth ==
  life = "open" =>
    (sendEnabled <=> ~modelLoading /\ ~generating /\ modelPtr # Null)

\* The parameters a run generates with are at least as recent as the settings
\* that were stored when the question was sent, although looper and worker
\* both write currentSettings without a lock.
RunUsesFreshSettings ==
  AtPc("running") /\ worker.ptr # Null => modelCfg >= asks[worker.q].since

\* The bubble a captured position points at is the one of its own question.
BubbleOf(q) == chat[asks[q].pos]

\* Every remembered turn was a question whose whole output is on the screen, in
\* its own bubble right after the question; turns are in the order asked.
TurnsAreWhatTheUserSaw ==
  /\ \A i \in DOMAIN turns :
       LET q == turns[i].q IN
         /\ asks[q].pos \in DOMAIN chat
         /\ BubbleOf(q) = [AssistantBubble(q) EXCEPT !.shown = turns[i].chunks]
         /\ chat[asks[q].pos - 1] = UserBubble(q)
  /\ \A i, j \in DOMAIN turns : i < j => turns[i].q < turns[j].q

\* No answer is lost: a question that ended is in the history, has been pushed
\* out of it by newer ones, or shows a native failure in its bubble.
AnswersAreRemembered ==
  life = "open" =>
    \A q \in DOMAIN asks :
      \/ q = Len(asks) /\ generating
      \/ \E i \in DOMAIN turns : turns[i].q = q
      \/ Len(turns) = StoredTurns /\ q < turns[1].q
      \/ BubbleOf(q).failed

-----------------------------------------------------------------------------
\* ChatSession implements ChatContract.  A question "ends" when generating is
\* reset, and onDestroy closes the chat whatever is still queued.
Phase ==
  CASE life = "new"       -> "starting"
    [] life = "destroyed" -> "closed"
    [] life = "finishing" -> "noModel"
    [] life = "open"      -> IF modelLoading THEN "loading"
                             ELSE IF modelPtr = Null THEN "noModel"
                             ELSE IF generating THEN "answering" ELSE "ready"

Contract == INSTANCE ChatContract WITH
  phase <- Phase,
  asked <- Len(asks),
  remembered <- [i \in DOMAIN turns |-> turns[i].q]

\* Whatever the threads do, the user sees one question at a time, each of which
\* ends, and a history of exactly the answered ones, in order.
ImplementsContract == Contract!Spec

\* Loading ends, with or without a model, even if the activity is destroyed.
LoadingEnds == modelLoading ~> ~modelLoading

\* A model that was delivered to the activity is deleted after onDestroy.  (One whose
\* load ends after onDestroy is not: the late callback stores its pointer in a dead
\* activity.)
DeliveredModelIsReleased ==
  (life = "destroyed" /\ ~modelLoading /\ modelPtr = Null) ~> (model # "live")

=============================================================================
