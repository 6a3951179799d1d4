# A formal model of llama-jni-android-chat

TLA+ specifications, TLC configurations and TLAPS proofs for the Android app in
`app/src/main/java/com/sx/llama/jni`, its native bridge in
`app/src/main/cpp/examples/io-prompt/io-prompt.cpp`, and the four parts of the vendored
llama.cpp and ggml that keep state while a chat is answered: the CPU thread pool, the
KV cache, the splitting of batches and the graph allocator.

## 1. The system

| Component | State it keeps | Operations | Threads |
|---|---|---|---|
| `ChatActivity` | `modelPtr`, `modelLoading`, `generating`, the Send button, `currentSettings`, `conversationTurns`, the messages of `ChatMessageAdapter`, `streamRunnable` | `onCreate`, `runInference`, settings result, `onDestroy`, `streamOutput` | main looper, and `llama-infer-thread` behind a single-thread executor |
| native `Model` (`io-prompt.cpp`) | `model_`, `ctx_`, `sampler_`, `modelStatus`, `lastError`, `nPredict_`, the KV cache of `ctx_` | create, update, run, release | whoever calls, serialised by `modelMutex_` |
| `ModelStoreActivity` with `ModelDownloadHelper`, `ModelStateStore`, `ModelAdapter` | the list of `ModelInfo`, `activeDownloadModelIds`, `pollerRunning`, preferences, files | load list, download, cancel, select, delete, poll, broadcast | main looper; `DownloadManager` is another process |
| `ChatSettingsActivity`, `LlmSettingsStore`, `SystemRolePreset` | sliders, spinner, role text; settings and role in `SharedPreferences` | open, move, choose, type, reset, save, back, load | main looper; the worker of the chat loads too |
| thread pool (`ggml-cpu.c`) | `struct ggml_threadpool`, one `ggml_compute_state` per thread | compute, pause, resume, free; poll, sleep, barrier, claim a chunk | the caller and its workers |
| KV cache (`llama-kv-cache.cpp`, `llama-kv-cells.h`) | cells, `used`, `seq_pos`, `shift`, head | `find_slot`, `prepare`, `apply_ubatch`, `seq_rm/cp/keep/add/div`, shift, decode | the caller |
| batch (`llama-batch.cpp`, end of `llama_context::decode`) | the batch, `used`, `output_ids`, swaps | `init`, four ways to split, reorder | the caller |
| graph allocator (`ggml-alloc.c`) | chunks with free blocks, counts of children and views, the plan, the buffer | reserve, plan a graph, allocate it, reallocate | the caller |
| `PromptTemplateEngine` | none | `buildPrompt`, `extractAssistantText` | both |
| `ModelCatalogLoader` | none | parse an asset | main looper |
| `MainActivity`, `interactive.cpp` | none | JNI declarations, stubs nobody calls | none |

How they interact. `ModelStoreActivity` starts `ChatActivity` with the id of a
downloaded model. `ChatActivity` passes work to its executor (load, run, apply
settings, release) and the executor passes results back with `uiHandler.post`.
The `jlong modelPtr` that travels both ways is a raw `Model *`. The settings
screen and the chat share `SharedPreferences`, which the worker also reads. The store
polls `DownloadManager` every 700 ms while it tracks a download, and polls once more on
each `ACTION_DOWNLOAD_COMPLETE`. A native run calls `llama_decode` for the prompt and then
for each token. That call cuts its batch into ubatches, looks for cells for all of them,
and for each ubatch places its tokens, allocates memory for the graph and lets the thread
pool compute it; at the end it brings the rows of the output into the order of the batch.

What is hard here:

* `modelPtr` and `currentSettings` are plain fields used by two threads;
* the native object is freed by hand, by a task queued behind all others, from
  an activity that may be destroyed at any time, also while it loads;
* `generating` and the Send button are set in one place and reset in several;
* results come back as Runnables that do not ask whether the activity lives;
* a stream of Runnables shows the answer while settings, `onDestroy` and other
  Runnables interleave with it;
* a failing native call leaves a sticky status and a half filled KV cache;
* download state lives in four places (DownloadManager, files, preferences, list),
  each of which can change or be lost on its own;
* a spinner reports a selection in a later pass, and a save is two commits;
* the threads of the pool agree by atomics alone: what keeps one out of the next graph
  is a barrier that resets its own counter;
* what the KV cache knows is kept several times, and a decode may fail after half of it;
* memory of a graph is planned ahead from counters and reused for later graphs.

`hazards` in `PROJECT.json` names the lines and the properties about each.

What makes each part correct:

* chat: a native call never gets a dead pointer; the executor is never used
  after `shutdown()`; one question at a time, each of which ends; turns are what
  was shown; a run uses settings at least as recent as its question; the model
  goes with the activity;
* native model: a run sees only its own cache, stays within its context, frees
  what it replaces, forgets errors when told to, returns whole outputs;
* store: exactly one poller while a download is tracked; list, preferences and
  tracked downloads agree; nothing is marked without its file; every end of a
  download is noticed;
* settings: saving what nobody touched moves no slider and lets no value drift; a typed role is the one stored;
  a load is never older after a newer key; no kill leaves a role without its settings;
* thread pool: every part of a node computed once, after all it depends on, or the
  graph aborted after whole nodes; nobody in a graph while it is replaced; no wait for ever;
* KV cache: the copies agree, but for what an overlapping copy counts again; a key is rotated
  to its position, unless a shift stopped half way; a decode adds its
  tokens or nothing, and overwrites nothing that is still attended to;
* batch: every token in one ubatch, none before its past, its row found afterwards;
* graph allocator: no tensor with memory of its own overwritten before its last reader; no memory lost or
  given out twice.

## 2. Modules

| Module | Models | Notes |
|---|---|---|
| `ChatContract` | what the chat promises its user | abstract specification |
| `ChatSession` | one `ChatActivity` | implements `ChatContract` |
| `NativeModel` | class `Model` and its four JNI functions | |
| `ModelStore` | `ModelStoreActivity` and what it talks to | |
| `ChatSettings` | the settings screen and its store, with the loading worker | |
| `GraphContract` | what `ggml_graph_compute` promises | abstract specification |
| `ThreadPool` | the threads of the CPU backend | implements `GraphContract` |
| `KvCache` | cells, slots, sequence operations, decode | |
| `BatchContract` | what `init_batch` relies on | abstract specification |
| `Batch` | `llama_batch_allocr` and the order of the outputs | implements `BatchContract` |
| `AllocatorContract` | what planned memory promises | abstract specification |
| `Talloc` | `ggml_dyn_tallocr`, as operators on chunks | used by `GraphAlloc` |
| `GraphAlloc` | `ggml_gallocr`: plan, reserve, allocate, reallocate | implements `AllocatorContract` |
| `*_proofs` | | theorems of the module before the underscore; `GraphAlloc_proofs` begins with lemmas about `Talloc` |
| `MC*` | | instances for TLC |

A definition whose comment begins with `MUTANT` is a plausible mistake in the
definition that follows it. No specification uses it; `mutants` in `PROJECT.json` says
which property notices it.

### ChatSession

A Runnable of the looper is one action, since nothing else runs on the looper
meanwhile. A task of the worker is cut at every read or write of a field that the
looper shares and around every native call:

| task | steps |
|---|---|
| load | `TakeTask`, `CreateModel` or `CreateModelFails`, `ConfigureCreated`, `Applied`, `PostLoaded` |
| run | `TakeTask`, `ReloadSettings`, `AssignSettings`, `ConfigureRun`, `Applied`, `CallRun`, `RunReturns` |
| apply | `TakeTask`, `Applied` |
| release | `TakeTask`, `Release` |

| variable | code |
|---|---|
| `life`, `settingsOpen` | lifecycle of the activity, settings screen on top |
| `modelPtr`, `modelLoading`, `generating`, `currentSettings` | the fields of that name; a pointer is `Null` or `Handle`, since an activity creates one model |
| `sendEnabled` | `binding.btnSend.isEnabled()` |
| `chat`, `turns` | `chatAdapter.items`, `conversationTurns` |
| `asks` | what each `runInference` captured (the position of its bubble), and the version of the settings stored then, a history variable |
| `stream`, `streamPosted` | the closure of `streamRunnable`, and whether it waits in the looper |
| `uiQueue` | Runnables the worker posted |
| `tasks`, `shutdown`, `rejected` | the executor; `rejected` records a `RejectedExecutionException` |
| `worker` | the running task with its locals and its place |
| `model`, `modelCfg` | the native object and the settings it was last given |
| `store` | `SharedPreferences`, as the number of saves |

Data is reduced to what the properties tell apart. A settings object is the
number of the save it comes from. An output is a length in stream chunks and
whether `isNativeFailureMessage` finds one of its phrases in it, because an answer
may quote a phrase and an error may hold none. `streamRunnable` is delayed while
the posted results are not, so either may run first; both are enabled.

`ChatContract` sees the phase (`starting`, `loading`, `ready`, `answering`,
`noModel`, `closed`), the number of questions and the questions in the history.
The refinement mapping is the definition `Phase` and the `INSTANCE` below it; the
fairness of the contract is part of what is implemented.

### NativeModel

The chat makes native calls from one thread, so a call is never contended. Texts
are counted in tokens. `Create` stops at any of the parts `initialize` builds; the
failing ones are deleted again by `CreateFails`. A run is a loop of actions with one
outcome each: `ContextExceeded`, `DecodeAborts`, `DecodeFails`, `EndOfGeneration`,
`PieceFails`, `Generate`, `RunEnds`. `heap` counts the llama objects that exist, so
that a lost pointer shows as a leak. `updated` is a history variable for the second
half of `ErrorsHaveReasons`. `batch` keeps the address of a local of the previous round
(`io-prompt.cpp:170`); whatever is read there either decodes or makes
`llama_decode` fail, and both are outcomes of the model. The "model is not initialized"
answers of `runPrompt` and `updateParams` have no action, because a pointer that reaches
Java is to a complete Model (part of `NoNativeLeak`).

### ModelStore

`rows`, `target` and `broadcasts` are `DownloadManager` and the files: a file is
identified by the download that wrote it, which may go on writing to a file that was
deleted. `prefs` is what the process reads and `disk` the
selection that survives it (the flags that survive may be of any age, since `onCreate`
recomputes them); `FlushPrefs` is the background half of `apply()`. `info` is the list of
`ModelInfo`, `bound` the buttons each row was last laid out with: a click acts on what is
shown, and its handler on what is current. `pollDownloadProgress` is cut between two
entries of its loop, since `DownloadManager` does not wait; everything else of the
activity is one step per callback. The `Dm` actions have no source in this repository:
they are what the Android documentation lets the app rely on and are marked external.

### ChatSettings

`ui` is what the screen shows: slider positions, chosen preset, role text. `posted`
holds the selection notifiers a spinner has posted for a later pass. `mem` and `disk` are
the preferences in memory and in the file; a save is `Save` then `SaveSystemRole`, with the
write of the file (`WriteFile`) and the end of the process (`Kill`) between any two steps.
`reader` is `LlmSettingsStore.load` on the worker of the chat: `StartLoad`, one `ReadKey`
per key, `EndLoad`. Temperature and top_p are floats and count tenths of a hundredth: a multiple of
ten is the float nearest to that many hundredths, one more or less the float next to it. `Rounding`
is the table of the 22 positions of the top_p slider for which `0.1f + p / 100f` is not the nearest
float (`Above`, `Below`, computed in single precision; for temperature there are none), and
`ToProgress` rounds a float and cuts an integer, as `Math.round` and integer division do. The
default of 0.9f is at such a position: its first save stores 0.90000004f. `touched` and `typed` are
history variables.

### ThreadPool

A step is one access to a shared field; what a worker does under the mutex is one step,
because all it reads is written under the mutex only. `tp` and `state[t]` have the fields
of `struct ggml_threadpool` and `struct ggml_compute_state` and the locals of the running
function; `n_graph` is the pair that the code packs into one int. A node is a sequence of
stages with a barrier between two of them, a stage is one slice per thread or a number of
chunks that the threads claim from `current_chunk` (as `mul_mat` does). Polling ends after
any number of rounds; `ggml_cond_wait` may wake without a signal. Memory is sequentially
consistent: a relaxed access that the barriers' fences order is a plain step.

### KvCache

A cell is a position and a set of sequences; `used`, `seq_pos`, `shift` and `has_shift`
are the copies the code maintains in `seq_pos_inc`, `pos_set` and the others, and each of
these is an operator here. `K[i]` is the position the key in cell i is rotated to, in any one layer:
what the graphs of `process_ubatch` and of the K-shift do to the data. The graph of a shift rotates
the keys in place, layer by layer; it is done, or failed before it came to this layer, or failed
behind it (`Outcomes`), and in both cases of failure the shift stays pending. A key that was
rotated while its shift stays pending is `Spoilt`: the next attempt rotates it again. `Copy` is
`seq_cp` as a release build has it, which asks for no disjoint cells; the auxiliary variable `surplus`
counts how often it met a cell that was the destination's already; only the bound on copies (`twice`)
reads it. `Decode` is the head of
`llama_context::decode`: the pending shift, `init_batch` with `prepare`, both once more if
there was no slot. `Process` is one round of its loop, whose graph may fail. `use` chooses one
of several programs (`Uses`): what is decoded, which sequence calls happen between, the size
and the attention window. With a window the model is the SWA half of
`llama_kv_cache_iswa`, whose size is `n_swa*n_seq_max + n_ubatch` without the padding
(`llama-kv-cache-iswa.cpp:50`). The app itself decodes sequence 0 only; the
other sequences are what the same code is used for by the tools beside it.

### Batch

`Submit` is `init` with its checks; `Split` is one call of the `split_` function of the mode,
of which there are four: simple, equal, sequential equal, and per sequence; `Finish` is the
end of `init_batch`, and `Again` the second attempt of `llama_kv_cache_iswa::init_batch`, which
cuts the equal way after a simple cut that did not fit. `Decode` fills
the rows in the order of the ubatches and records the swaps of `llama_context::decode`;
`Reorder` applies them when outputs are first read (`output_reorder`).

### GraphAlloc and Talloc

`Build` adds a tensor to the next graph; `IsGraph` is what `ggml_build_forward_expand` makes.
`Begin` starts `ggml_gallocr_reserve` or `ggml_gallocr_alloc_graph`. Planning
(`ggml_gallocr_alloc_graph_impl`) goes through the tensors, the place in it being `at`: one
`PlanStep` is one call of `ggml_gallocr_allocate_node` (the leaf, a parent of the node, the
node) or one parent that was used; `Aborted` is a planner that found no chunk (`GGML_ABORT`).
`Finish` makes or keeps the buffer; `AllocPlanned` gives a graph the addresses of an earlier
plan when `ggml_gallocr_needs_realloc` finds nothing. A graph that follows another has its
topology and other sizes (`SameTopology`), as the graphs of `process_ubatch` have while the
model and the parameters stay the same. `st` holds the chunks, the counts
and the addresses while planning. Sizes count units of the alignment. Free blocks, sorted
in the code, are a set. A last chunk is endless, as in the code (`SIZE_MAX / 2`).

## 3. Runs

| Run | Question | Instance |
|---|---|---|
| `chat_safety` | Are the safety invariants and the contract kept, does a load end, is a delivered model deleted? | 3 questions, 2 saves, 2 queued tasks when settings open, outputs of up to 2 chunks, a history of 2 turns; 156,110 states |
| `native_model` | Is every sequence of native calls safe? | the sizes of the code divided by 256; 132,687 states |
| `native_batch` | Can the batch assertion fail? | the same; violation |
| `native_max_tokens` | Can the output limit be raised at run time? | the same; violation |
| `store_safety` | Do poller, list, preferences and downloads agree? | 2 models, 2 downloads, symmetric; 1,250,766 states |
| `store_progress` | Is the end of a download noticed? | 1 model, 2 downloads |
| `store_partial` | Does a merge offer only whole files? | the same; violation |
| `chat_settings` | Do late notifiers, recreation, kills and a loading worker keep settings and role right? | 1 preset and CUSTOM, 1 typed text, 2 slider moves, 2 saves; 1,077,318 states |
| `thread_pool` | Is every graph computed as it should be, and does every wait end? | 3 threads, 2 graphs, 1 pause |
| `kv_cache` | Do cells, copies and keys agree, and what does a decode add and lose? | 4 programs: shared sequences with removals, copies and shifts in 3 cells; with divisions; overlapping copies in 2 cells, each position counted again once at most; a window of 2 in 6 cells; 2 sequences, `n_ubatch` 2 |
| `batch` | Is every token cut out once, in order, and its row found? | all batches of up to 4 tokens over 3 sequences, alone or coupled, into an empty memory; up to 2 tokens with any positions into a filled one; `n_ubatch` 3 and 4 |
| `graph_alloc` | Is anything overwritten too early, lost, or given out twice? | all graphs of up to 5 tensors over one leaf (see `MCGraphAlloc`), chunks of 3, at most 3 chunks, sizes changed between two allocations; 2,086,965 states |

### The properties

Chat: `NoUseAfterFree`, `GeneratingMeansOneInFlight`, `SendButtonTellsTheTruth`,
`RunUsesFreshSettings`, `TurnsAreWhatTheUserSaw`, `AnswersAreRemembered`,
`ImplementsContract`, `LoadingEnds`, `DeliveredModelIsReleased`. The last one speaks of a
delivered model with reason: when the activity is destroyed while it loads, `onDestroy`
sees no pointer yet, and the Runnable that brings it stores it in the dead activity
(`ChatActivity.java:215-217`); that model is never freed.

Native model: `CacheHoldsThisRun`, `ErrorsHaveReasons` (the context error only when prompt
and limit do not fit, and no old error after a successful update), `NoNativeLeak`
(with: a Model without an error has all its parts), `OutputIsWhole`.

Store: `PollerWatchesTrackedDownloads`, `CancelReachesItsDownload`,
`ListAgreesWithPrefs`, `MarkedModelsHaveFiles`, `EndsAreNoticed`.

Settings: `RoleNeverOutrunsSettings`, `LoadNeverGoesBack`, `UntouchedSaveKeeps`,
`TypedCustomRoleIsSaved`. `UntouchedSaveKeeps` says that an untouched save moves no slider and
changes no value that came from an earlier save (the defaults do not come from one), that
the preset stays, and that the role text stays or, under a preset other than CUSTOM, becomes that
preset's own: the notifier of the first selection replaces an edited text by it.

Thread pool: `QuietAtReset`, `EachPartOnce`, `InputsReady`, `ComputesGraphs` (the refinement),
`WaitsEnd`.

KV cache: `CountersAgree`, `KeyMatchesPosition`, `FindsSlotWhenItFits`,
`DecodeAddsItsTokens`, `AttendedSurvives`. `CountersAgree` holds with overlapping copies because it
adds `surplus`; without such copies `surplus` is 0 and `seq_pos` exact. `KeyMatchesPosition`
covers shifts that failed and were tried again, and says nothing of a `Spoilt` key until its cell is
computed again. `AttendedSurvives` says nothing of a ubatch that fails on a window.

Batch: `EqualParts`, `NoFutureFirst`, `RowsFound`, `AcceptedContinuesMemory`,
`ImplementsContract`. `AcceptedContinuesMemory` is about the set of the positions of each
sequence: none that the memory holds already, and no gap. Their order within the batch, and
whether sequences that share a token share all, `init` does not enforce (section 5).

Graph allocator: `NothingOverwritten`, `EveryCellOnce`, `ImplementsAllocator`. The first is about
tensors with memory of their own; an output that is a view of one is not protected by the
code (section 5).

A module's type invariant is the first conjunct of one of its invariants, the one whose
comment says so.

### Bounds

Chat: three questions are one more than the two turns of the history, so eviction
happens, and a settled question, an evicted one and one in flight exist at once. Two
saves make an old, a newer and a newest version, which the race on `currentSettings`
needs. Two chunks make a stream with an inner step, and a length of 0 the empty
answer. `MaxQueue` limits only how many settings results can pile up behind a slow call.

`NativeModel` keeps the proportions of the code: limits 16..4096 become 1..16, the
headroom 1024 becomes 4, contexts 2048..8192 become 8..32, `n_batch` 512 becomes 2.
A context of 8 with a limit of 16 makes the limit of the context reachable, prompts of
up to 10 exceed the batch, the headroom and the context.

Store: two downloads are enough for a cancelled or failed one and its retry, or for two
models at a time; the poller, the flags and the preferences carry nothing else from
one download to the next. The liveness run has one model, because symmetry is not
sound for liveness and the poll treats models alike.

Settings: two saves during one load give the reader three versions; the slider ranges are
those of the code, in full. One preset next to CUSTOM is enough for a notifier that
brings a text the user does not want.

Thread pool: three threads make a barrier in which one is last, one spins and one is still
on its way; the second graph is where a thread that is late out of the first would do
harm. The graph has a sliced stage with more chunks than threads behind it, a node that is
skipped, and one with fewer chunks than threads, and is computed by one, two or all threads.

KV cache: three cells for sequences of up to three tokens wrap the ring, refuse a batch,
and make two ubatches of one batch. Six cells are the window's size for two sequences
of window 2 and `n_ubatch` 2, the tightest the code makes. `twice`, at most 1, bounds how often copies
may count a position again, in the one program whose copies may: the second time does to
`seq_pos` what the first did.

Batch: three sequences can be coupled in a chain. The app's `n_ubatch` is at least the number of sets in a
batch; the run keeps to that (see section 5).

Graph allocator: with five tensors there are a view of a view's source, a parent taken over
by its child, a hole between two live tensors and a last block behind it. Chunks of 3
with tensors of 2 open second and third chunks.

### Fairness

* `ChatSession`: weak fairness of `LooperStep` and of `WorkerStep`. The main looper
  drains its queue and the executor's thread runs while it has work; native calls
  return. Nothing is assumed of the user or of the
  system: no question, save or `onDestroy` has to happen.
* `NativeModel`: weak fairness of `Step`, the thread inside a native call. No property
  of the runs depends on it.
* `ModelStore`: weak fairness of `PollStep`. Neither the network, nor broadcasts, nor the
  flush of the preferences are assumed to happen.
* `ThreadPool`: weak fairness of the caller inside a call and of each worker: the operating
  system schedules every thread that can run, and a mutex that is free is got. No spurious
  wakeup is assumed to happen, and nothing makes the caller begin a graph, resume a pool or
  free it.
* the others have no liveness properties and no fairness.

Deadlock is checked in every run but `graph_alloc`, whose system stops when the planner
has aborted or the graphs of the instance are used up. `Finished` (chat, thread
pool) and `Aborted` (native) are the states where the system really has stopped.

## 4. Proofs

`*_proofs` holds for every value of the constants that satisfies the assumptions of the
module before the underscore. `Safe` is the specification without fairness.

| Theorem | Says |
|---|---|
| `ChatSession_proofs!TypeCorrect` | `Safe => []TypeOK` |
| `ChatSession_proofs!PointersCorrect` | `Safe => []PointersAreLive`, the inductive invariant of the pointers |
| `ChatSession_proofs!NoUseAfterFreeHolds` | `Safe => []NoUseAfterFree` |
| `ChatSession_proofs!NoRejectedTaskHolds` | `Safe => []NoRejectedTask` |
| `ChatSession_proofs!SendButtonCorrect` | `Safe => []SendButtonTellsTheTruth` |
| `ChatSession_proofs!QuestionsCorrect` | `Safe => []QuestionInv`, the inductive invariant of the questions |
| `ChatSession_proofs!GeneratingMeansOneInFlightHolds` | `Safe => []GeneratingMeansOneInFlight` |
| `ChatSession_proofs!RunUsesFreshSettingsHolds` | `Safe => []RunUsesFreshSettings` |
| `ChatSession_proofs!TurnsAreWhatTheUserSawHolds` | `Safe => []TurnsAreWhatTheUserSaw` |
| `ChatSession_proofs!AnswersAreRememberedHolds` | `Safe => []AnswersAreRemembered` |
| `ChatSession_proofs!ImplementsContractSafely` | `Safe => Contract!Safe`, every step one of `ChatContract` or a stutter |
| `NativeModel_proofs!Inductive` | `Safe => []IInv`, the inductive invariant |
| `NativeModel_proofs!CacheHoldsThisRunHolds` | `Safe => []CacheHoldsThisRun` |
| `NativeModel_proofs!ErrorsHaveReasonsHolds` | `Safe => []ErrorsHaveReasons` |
| `NativeModel_proofs!NoNativeLeakHolds` | `Safe => []NoNativeLeak` |
| `NativeModel_proofs!OutputIsWholeHolds` | `Safe => []OutputIsWhole` |
| `ModelStore_proofs!StoreCorrect` | `Safe => []StoreInv`, the inductive invariant |
| `ModelStore_proofs!PollerWatchesTrackedDownloadsHolds` | `Safe => []PollerWatchesTrackedDownloads` |
| `ModelStore_proofs!CancelReachesItsDownloadHolds` | `Safe => []CancelReachesItsDownload` |
| `ModelStore_proofs!ListAgreesWithPrefsHolds` | `Safe => []ListAgreesWithPrefs` |
| `ModelStore_proofs!MarkedModelsHaveFilesHolds` | `Safe => MarkedModelsHaveFiles`, an action property |
| `ChatSettings_proofs!ScreenCorrect` | `Spec => []ScreenInv`, the inductive invariant of screen and load |
| `ChatSettings_proofs!RoleNeverOutrunsSettingsHolds` | `Spec => []RoleNeverOutrunsSettings` |
| `ChatSettings_proofs!LoadNeverGoesBackHolds` | `Spec => []LoadNeverGoesBack` |
| `ChatSettings_proofs!TypedCustomRoleIsSavedHolds` | `Spec => TypedCustomRoleIsSaved`, an action property |
| `ChatSettings_proofs!UntouchedSaveKeepsHolds` | `Spec => UntouchedSaveKeeps`, an action property |
| `ThreadPool_proofs!PoolCorrect` | `Spec => []PoolInv`, the inductive invariant without what is computed |
| `ThreadPool_proofs!QuietAtResetHolds` | `Spec => []QuietAtReset` |
| `ThreadPool_proofs!PartsCorrect` | `Spec => [](PoolInv /\ PartsInv)`, the inductive invariant with it |
| `ThreadPool_proofs!EachPartOnceHolds` | `Spec => []EachPartOnce` |
| `ThreadPool_proofs!InputsReadyHolds` | `Spec => []InputsReady` |
| `ThreadPool_proofs!ComputesGraphsHolds` | `Spec => ComputesGraphs`, the refinement of `GraphContract` |
| `KvCache_proofs!KvCorrect` | `Spec => []KvInv`, the inductive invariant |
| `KvCache_proofs!CountersAgreeHolds` | `Spec => []CountersAgree` |
| `KvCache_proofs!KeyMatchesPositionHolds` | `Spec => [](Plain(use) => KeyMatchesPosition)` |
| `KvCache_proofs!FindsSlotWhenItFitsHolds` | `Spec => []FindsSlotWhenItFits` |
| `KvCache_proofs!DecodeAddsItsTokensHolds` | `Spec /\ []Alone(use) => DecodeAddsItsTokens`, an action property |
| `Batch_proofs!BatchCorrect` | `Spec => []BatchInv`, the inductive invariant |
| `Batch_proofs!AcceptedContinuesMemoryHolds` | `Spec => []AcceptedContinuesMemory` |
| `Batch_proofs!RowsFoundHolds` | `Spec => []RowsFound` |
| `Batch_proofs!NoFutureFirstHolds` | `Spec => []NoFutureFirst` |
| `Batch_proofs!EqualPartsHolds` | `Spec => []EqualParts` |
| `Batch_proofs!CutKeepsContract` | `Spec => ImplementsContract`, the refinement of `BatchContract`, if `n_ubatch` is at least the number of sequences |
| `GraphAlloc_proofs!AllocatorInvariant` | `Spec => []AllocInv`, the inductive invariant |
| `GraphAlloc_proofs!NothingOverwrittenHolds` | `Spec => []NothingOverwritten` |
| `GraphAlloc_proofs!EveryCellOnceHolds` | `Spec => []EveryCellOnce` |
| `GraphAlloc_proofs!PlannerKeepsContract` | `Spec /\ []~Aborted => ImplementsAllocator`, the refinement of `AllocatorContract` |
| `GraphAlloc_proofs!NothingSharedHolds` | `Spec /\ []~Aborted => []NothingShared`: no two live tensors have memory in common |

### Assumptions

Each module's `ASSUME` gives the constants their types. Three say more:

* `ChatSettings!MovesAssumption`: a slider is moved to a position it has. The screen sets
  the maximum of each slider to the position of its highest value
  (`ChatSettingsActivity.java:95-103`).
* `ThreadPool!GraphsAssumption`: of two consecutive stages of a node at most one is claimed
  chunk by chunk. A kernel that claims chunks does so in one loop, before which it may have a
  sliced stage and a barrier (`ggml-cpu.c`, `llamafile/sgemm.cpp`). Two such stages in a row
  would share `current_chunk` with no one to reset it in between while others still claim.
* `Batch!BatchAssumption`: a batch has a token (`GGML_ASSERT`, `llama-batch.cpp:38`), each
  token has a sequence, and the memory holds of a sequence nothing (-1 and -1) or a range of
  positions.

### Chat

`NoUseAfterFree` alone is not inductive: that the worker holds no dead pointer now
says nothing of the next task in the queue. `PointersAreLive` adds what makes it
work. Every pointer that is held or queued is to a live model (`HeldPointers`); a
release is the last task, is queued only with the executor shut down and the field
cleared, and nothing is queued behind it (`ReleaseIsLast`); while a model is being
loaded, the load is alone in the executor, on the worker or in the looper
(`LoadIsAlone`), so its Runnable can never bring back a pointer after the release; and
the worker is at a place that fits its task (`WorkerIsInItsTask`). The proof has one step
per action. The interesting ones are `OnDestroy`, which may only queue a release when no
load is under way, `TakeTask`, where the positions in the queue shift, and `Release`,
which needs all four parts. `SendButtonCorrect` needs `QuestionsHaveModel`: a result that
comes back enables the button without looking at the model, which is right only because
a question is never under way without one.

The questions have an invariant of their own, `QuestionInv`. One question at most is under
way, and it is in one place: in the executor, on the worker, in the looper or in the stream
(`OneAtATime`); it is the latest, and `generating` says that there is one
(`LatestIsUnderWay`). The position that a Runnable captured is still that of the bubble made
for its question (`BubblesBelong`), which shows exactly what the stream has put there
(`LatestBubble`). With these, a turn that enters the history is one that was shown
(`HistoryIsShown`), a question that is no longer under way is in the history, older than
it, or failed (`EndedQuestions`), and the settings stored when a question was sent are not
lost between the three reads and writes of the worker (`SettingsArrive`).
`ImplementsContractSafely` takes the actions one by one through the refinement mapping;
what the contract says of fairness is left to TLC.

### Native model

`IInv` has five parts, each with a lemma of its own. `Objects` says which
parts a Model has at each time of its life and that `heap` counts exactly them; with it a
status of 0 means all of them. `Statuses` says when the status is 0 and that a run
is under way only then. `Numbers` bounds the counters, which rests on
the monotonicity of rounding up to a multiple of `Pad`. `Round` says where a run is in its
cache: the number of positions is the prompt and all but the last of what was generated,
and the batch is the prompt in the first round and one token after that. `CacheHoldsThisRun` says
nothing of the batch, which is what is added next, so it is not inductive without `Round`.
`Results` says why an error or an output is returned; it is carried over to the time after the
run, when its counters are already overwritten.

### Store

`StoreInv` says how a download is tracked by the three that know it: between two callbacks
the poller is posted exactly while something is tracked, a poll in progress has taken its
callback out of the looper and nobody else touches the tracked ones until it ends
(`PollerState`), and a row that downloads shows a tracked download of its own model which the
poll has not found finished (`Requests`). The part between two entries of a poll, when the
`DownloadManager` goes on, is what makes the properties alone not inductive.

### Settings

`SettingsFirst`: between the two commits of a save the settings are ahead of the
role in memory. The property does not say so, and would not survive the second commit.
`ScreenInv`: a screen nobody touched shows what the store holds (`UntouchedShowsStore`),
which needs that a position is found again from the float that was made of it
(`PositionsAreFound`: a rounding of one unit is less than half a step), and that what is stored is
the defaults or was made from positions (`SavesAreOfSliders`);
text typed under CUSTOM is still there whatever notifier runs (`TypedIsShown`); and a load has
read old values up to some key and new ones behind it (`LoadFollowsStore`).

### Thread pool

A barrier's counter says how many threads are at it, not which, and the counter is reset by
the last of them. `PoolInv` therefore follows the threads. The way through a graph is a sequence of
places (looking for the next node, in a stage, before a barrier), and all threads of the
graph are on the way to the same barrier: the places of any two `Agree`, where a thread that
has not noticed the graph yet counts as being at its first node, and one that spins at an open
barrier as being behind it. The barrier has counted exactly those who wait, so who comes
last finds all others waiting, and opening the barrier moves all of them at once. During a graph its
threads are inside from when they notice it to the end; between two graphs, the
only workers inside are those on the way out of the open last barrier, which is `QuietAtReset`.

`PartsInv` adds what is computed. It is a ledger: each part of the graph is in one place, not
begun, in the claim counter, being worked on by one thread, or done. The lemmas about the ledger do not
mention threads: a stage is opened, begun by a thread, a chunk claimed, a part
computed, and stages that every thread has begun, that none works on and whose chunks are
used up are done. Then each step of a thread is one of these. `EachPartOnce` and `InputsReady`
are read off the ledger, and so is the refinement: a computed part is one the contract allows.

### KV cache

`KvCache` is built from folds over cells, sequences and ubatches. What a fold returns is found
without an induction theorem: among the subsets of a finite set for which a fold is not what
it should be there is a smallest one, again from well-foundedness (`FoldExists`, `FoldReaches`,
`FoldRuns`), and the lemmas whose names end in `Fold` say for each fold of the module what is so
after any part of it.

The lemmas go up from a cell to a decode. `Good` is what a call may rely on and leaves
behind: `used` is the cells with a position, those are the cells with a sequence, and `seq_pos`
counts them, plus `surplus`. The counters change with `seq_pos_inc` and `seq_pos_dec` before or after the
cell does, so `OneCell` says by how much the number of cells that hold a position
differs when one cell does, and each of the cell's operations is shown to count just that. A
copy adds one for every cell it goes through, while the cells that hold a position for the
destination become the union of what it had and what was copied; the difference is the cells that
were in both, which is what `surplus` gets (`SeqCpKeeps`, with `GoodBut` for the cells in between).
Above that, `find_slot` gives different usable cells, as many as asked for, exactly if there are
so many (`FindSlotFinds`); `prepare` is a chain of slots (`Chain`) that is walked back, after
which no cell has gained anything, and without a window every cell is as before
(`PrepareSlots`); `split_simple` cuts a batch into parts that make up its length (`SplitIs`).
`FindsSlotWhenItFitsHolds` follows: a ubatch of n tokens takes at most n empty cells, without a
window just n, so the empty cells suffice for all ubatches or for none.

`KvInv` adds the keys. `KeyMatchesPosition` is not inductive: it does not say that a cell that is
empty waits for no shift (`Calm`), which the next token there relies on, nor that the slots
that `prepare` promised are still empty when their ubatch is applied, and different from each
other (`Waits`). A key that a shift stopped half way has spoilt stays out of it until its cell is
computed again, and spoils no other. The theorem about the keys is for uses that are `Plain`, and each exception
is one of the code (section 5): a division counts its shift with the other sign; the copy
that `prepare` restores a slot from has no shifts, so with a window, where slots need not be
empty, a pending shift is lost; and when the graph of a token of two sequences fails, the
second keeps a cell that was never computed.

`DecodeAddsItsTokensHolds` is for uses in which no token is of two sequences (`Alone`), for
the last of these reasons, and needs `Ahead`: a token that waits comes behind the cells of its
sequence, and behind the tokens of its sequence in the ubatches before it. A batch that is
accepted is numbered that way (`TokensAre`) and cut into parts of itself in order
(`PartsInTurn`), a decode that looks for slots leaves position and sequence of every cell
(`AlikeOnes`), and a ubatch that is applied fills empty cells (`FillAdds`). So when its graph
fails, the range that is removed, from the first position of the ubatch on, has nothing in
it but the ubatch itself (`FailureLeaves`).

### Batch

The cuts go through the batch with recursive functions. That such a function exists and
what it gives is again found from well-foundedness: among the steps at which there is
none, or at which a claim fails, there is a first (`StepsExist`, `Climbs`, `FlattenIs`).
`NextUbatchIs` collects what the four cuts have in common: the ubatch holds unused tokens,
each once, at most `n_ubatch` of them; tokens that share a sequence are in their order in it, and none
of them is left behind before one that is taken (unless tokens have several sequences and the
cut is not the simple one, which `NoFutureFirst` excepts too). For `split_equal` this needs that the
sequence sets it collects are pairwise disjoint, hence no more than there are sequences
(`CurSetsFew`), and that its parts, cut to the length of the shortest, lie one behind the other in
the ubatch (`FlattenEven`, `PartIs`).

`BatchInv` adds two things to the properties. `NoFutureFirst` speaks of the tokens that
are in ubatches and says nothing of those that are left, so it is not inductive; `OrderOK`
adds that no used token comes after one that is left and shares a sequence. `RowsFound` speaks
of the rows once no swap is left; `OutputsOK` says what the recorded swaps are for: applied
one after the other, they bring the rows into the order that `output_ids` has, which the first
read then finds. `AcceptedContinuesMemory` is a count: positions between the smallest and the
largest that are as many as the distance leave no gap (`NoGaps`), and those that begin behind the
memory are not in it (`ConsecutiveIsNew`).

`CutKeepsContract` has a hypothesis, that a ubatch has room for a token of each sequence:
`split_equal` stops only after `n_ubatch + 1` sets (section 5), and then takes more than
`n_ubatch` tokens. Sequence ids are below `n_seq_max` (`llama-batch.cpp:61`), so it is
`n_seq_max <= n_ubatch`; the app has 1 and 512. The invariants need no such hypothesis.

### Allocator

Lemmas about `Talloc`: the free blocks and the live tensors of a chunk tile it
(`Tiles`), neighbouring free blocks are joined, and an allocation or a free keeps that. They
hold for any number of blocks; "first", "last" and "best" block exist because a
finite set has a minimal element, taken from well-foundedness (`MinimalSubset`).

`AllocInv` connects tiles and graph. During a plan, the counters of a tensor are the uses of it and
the views of it that are still to come (`Counts`); a tensor that no longer holds
memory has been read by all its readers (`GoneIsRead`); and two tensors that lie on
common memory are not both held: one is gone, or was taken over by a node that works in place
(`KeptApart`). `NothingOverwritten` speaks of the plan when it is finished and says nothing of
counters, so it is not inductive by itself. The plan that is kept is good for its graph
(`GoodPlan`), and stays good for a graph of the same topology whose tensors fit
(`PlannedFits`, `PlanServes`), also in a buffer that an earlier plan asked for.

`PlannerKeepsContract` assumes that the planner does not abort. Whether it does depends on the
sizes: with `MaxChunks` chunks used up and the last one's remaining space too small, the code
calls `GGML_ABORT`, and then it has kept no promise. That the graphs of the instance never
get there is part of what the run of `ImplementsAllocator` shows. What the contract is for
follows from it step by step, for any tensors and chunks: live memory is shared by none
(`NothingSharedHolds`).

### Model-checked only

* Liveness: `LoadingEnds`, `DeliveredModelIsReleased`, `EndsAreNoticed`, `WaitsEnd`, and the
  fairness that `ImplementsContract` of the chat includes. The proof system has no rules for
  fairness and `ENABLED`.
* Of the KV cache, `AttendedSurvives`, which depends on how the size of the cache relates to
  the window and the ubatches.
* That the planner does not abort on given sizes.

## 5. Findings

Each is the counterexample of a run.

* `BatchFitsAssertion`: the whole prompt is one batch; above 512 tokens llama.cpp's
  assertion aborts the process.
* `MaxTokensCanBeConfigured`: the output limit can be raised at run time but the
  context cannot, so a raised limit ends in "context size exceeded" and the output
  generated so far is thrown away.
* `NoPartialModelIsOffered`: a partly written file passes for a downloaded model.

Disagreements of the code with its own comments that were met while modelling. The models do what
the code does, and the properties above say where they stop because of one; no run is devoted to
them. The vendored paths are under `app/src/main/cpp`.

| Code | Comment |
|---|---|
| `src/llama-kv-cells.h:451` adds `p_old - pos[i]` to the shift, so a division counts with the other sign than `pos_add` | `:469` the array accumulates the shifts applied to `pos` |
| `src/llama-kv-cache.cpp:323` copies a sequence into cells it is already in, and `seq_pos_inc` counts their positions once more; only clearing the cache takes that back, and the sequence may seem to end where it has no cell any more (`surplus`) | `src/llama-kv-cells.h:308` "only if ... the seq_id is not in the cell", `:491` "how many times the position p is currently present" |
| `src/llama-kv-cache.cpp:686` leaves the shift pending when its graph fails, which may have rotated some layers in place (`:1578`); the next attempt rotates them again (`Spoilt`) | `src/llama-kv-cells.h:469` the array accumulates the shifts applied since the last reset |
| `src/llama-context.cpp:1590` finds the positions of a failed ubatch by the first sequence of each token | `:1583` "remove all positions of that ubatch" |
| `src/llama-kv-cache.cpp:964` purges cells outside the slot while slots are tried, and these are not saved; the shifts of the slot are not saved either, only asserted to be 0 (`src/llama-kv-cells.h:153`) | `:608` "restore the cells to their original state" |
| `seq_rm` in the middle of a sequence leaves a gap | `include/llama.h:739` all positions between the smallest and the largest are present |
| `src/llama-batch.cpp:378` compares with `cur_seq_pos`, which stays -1 | `:343` "disallow decreasing sequence positions" |
| `src/llama-batch.cpp:371` keeps the intersection of the sets, which need not be empty for partial subsets | `:337` "disallow partial sequence sub-sets" |
| `src/llama-batch.cpp:543` stops after `n_ubatch + 1` sequence sets | `include/llama.h:330` "physical maximum batch size" |
| `ggml/src/ggml-alloc.c:212` starts the best size anew for each chunk, so a later chunk wins over a better fit | `:209` "best fitting ... within any chunk" |
| `ggml/src/ggml-alloc.c:1007` compares numbers of nodes and leafs and sizes | `ggml/include/ggml-alloc.h:70` "if the topology changes" |
| `ggml/src/ggml-alloc.c:808` frees the source of a view whatever the view's OUTPUT flag says | `ggml/include/ggml-alloc.h:44` "output tensors are never freed" |
| `ggml/src/ggml-alloc.c:1026` compares leafs only as sources of nodes | `:722` leafs the graph does not use are allocated too |

Without a comment to disagree with: a save of an untouched settings screen is not the identity
on the defaults, since `ChatSettingsActivity.java:213` computes 0.1f + 80 / 100f for the default
0.9f and stores 0.90000004f (shown as 0.90 like the other).

## 6. Not modelled, and why

Most of the repository is vendored: numerical kernels, GPU backends the app does not
build, model architectures, tokenizers, samplers, file formats and their
converters. They are functions from data to data, whose correctness is numerical or
textual; they have no states or interleavings that a model would show, and the models
above abstract each of them to its outcomes. The share of the code's lines that the
models stand for is therefore small and stays so.

Of the modelled parts:

* chat: layout, texts, toasts, logging; two `ChatActivity` instances at once (rotation), a
  composition that is planned; the system dying in the middle of a chat, of
  which nothing is persisted;
* store: external storage that is unavailable, `mkdirs` or `delete` that fail,
  the check of free space, `enqueue` that returns no id (each ends its handler with a
  toast before anything changed), a `ModelInfo` captured by a row that `loadModels`
  replaced, a catalog that cannot be read;
* native model: `NewStringUTF` on output cut inside a UTF-8 sequence, since bytes are not
  modelled; debug assertions, which a release build (`NDEBUG`) leaves out;
* thread pool: the OpenMP build (`app/build.gradle` leaves `GGML_OPENMP` at its default, so whether
  the app's own library uses this pool depends on whether the toolchain brings OpenMP), thread
  priorities and affinity, kernels, the wrap of the graph count packed into `n_graph`, weak memory;
* KV cache: several streams, M-RoPE positions, states saved and loaded, padding, the tensors;
* batch: embeddings, `n_seq_id` of 0, `ubatch_reserve`, `n_ubatch` below the number of sets;
* allocator: the bound on the free blocks of a chunk (`GGML_ASSERT`, `ggml-alloc.c:134`:
  `MAX_FREE_BLOCKS`, 256), since free blocks are a set here and a plan that would need more aborts the
  program; several buffers, tensors with memory of their own, the INPUT flag, the
  allocation of weights at the end of the file; `ggml_gallocr_free_extra_space`, which frees
  nothing as sizes here are multiples of the alignment; a view as the parent of an
  in-place operation, whose branch needs the view to own memory; views without an
  operation (`GGML_OP_NONE`), which the scheduler adds between backends; graphs of
  another topology than the plan was made for;
* `PromptTemplateEngine` and `ModelCatalogLoader` keep no state: concatenation, removal of
  template tokens, and parsing of a constant asset. `MainActivity` and `interactive.cpp`
  do nothing.

## 7. Plan

Done, in this order: `ChatContract`, `ChatSession`, `NativeModel`, `ModelStore`,
`ThreadPool`, `KvCache`, `Batch`, `GraphAlloc`, `ChatSettings`, the theorems above.

Left:

1. `TwoChats`: two sessions of a rotation that share the settings store: how many models
   can be live at once, and that each is released by its own activity.
2. `ChatWithModel`: `ChatSession` composed with `NativeModel`, so that the outputs of a run
   are those of the native model and that a run returns is no longer an assumption.
3. `PromptTemplates`: the history window of `buildHistorySummary` and the order in which
   `extractAssistantText` strips residue, over short sequences of symbols.
