---------------------------- MODULE NativeModel ----------------------------
(***************************************************************************)
(* class Model of io-prompt.cpp behind the four JNI calls, as the single   *)
(* worker thread of the chat makes them: one call at a time, so modelMutex_*)
(* is never contended.  Texts are counted in tokens.  Of llama.cpp the     *)
(* model keeps what runPrompt depends on: how many positions of sequence 0 *)
(* are in the KV cache, what llama_decode accepts, and the objects it      *)
(* allocates.                                                              *)
(***************************************************************************)
EXTENDS Naturals, FiniteSets

CONSTANTS
  MinPredict, MaxPredict,   \* MIN_PREDICT_TOKENS, MAX_PREDICT_TOKENS
  Headroom,                 \* the 1024 that initialize adds for the prompt
  MinContext, MaxContext,   \* MIN_CONTEXT_SIZE, MAX_CONTEXT_SIZE
  Pad,                      \* llama_context rounds n_ctx up to a multiple of this
  Batch,                    \* n_batch
  MaxPrompt                 \* bound: tokens of the formatted prompt

ASSUME NativeAssumption ==
  /\ {MinPredict, MaxPredict, Headroom, MinContext, MaxContext, Pad, Batch, MaxPrompt}
       \subseteq Nat \ {0}
  /\ MinPredict <= MaxPredict /\ MinContext <= MaxContext
  /\ MaxPredict + Headroom <= MaxContext /\ Batch <= MinContext

Parts == {"model", "ctx", "sampler"}      \* model_, ctx_, sampler_
Errors == {"none", "load", "sampler", "tokenize", "context", "decode", "piece"}  \* lastError
MaxCtx == ((MaxContext + Pad - 1) \div Pad) * Pad

VARIABLES
  obj,          \* the Model: "none", "building", "live"
  ptr,          \* its pointers that are not null
  heap,         \* llama objects allocated and not freed
  modelStatus, lastError,
  nPredict, nCtx,
  kvUsed,       \* llama_memory_seq_pos_max(0) + 1
  pc,           \* "idle", "decode" (the loop of runPrompt), "aborted"
  promptTokens, generated, batch,  \* locals of runPrompt
  eog,          \* the loop ended with an end-of-generation token
  result,       \* what runIOLLModel returned, if that was the last call
  updated       \* history: the last call was an updateIOLLParams that succeeded

runVars == <<kvUsed, pc, promptTokens, generated, batch, eog>>
objVars == <<obj, ptr, heap, nPredict, nCtx>>
statusVars == <<modelStatus, lastError>>
vars == <<objVars, statusVars, runVars, result, updated>>

-----------------------------------------------------------------------------
Clamp(value, low, high) ==
  IF value < low THEN low ELSE IF value > high THEN high ELSE value

ContextSize(predict) ==
  LET n == Clamp(predict + Headroom, MinContext, MaxContext)
  IN ((n + Pad - 1) \div Pad) * Pad

NoObjects == [p \in Parts |-> 0]
NoResult == [text |-> "none", tokens |-> 0]

\* The allocated objects after one more of every part in new, one less of old.
Counted(new, old) ==
  [p \in Parts |-> heap[p] + (IF p \in new THEN 1 ELSE 0)
                           - (IF p \in old THEN 1 ELSE 0)]

\* modelStatus and lastError of a call that goes wrong.
Fail(error) == modelStatus' = 1 /\ lastError' = error

Init ==
  /\ obj = "none" /\ ptr = {} /\ heap = NoObjects
  /\ modelStatus = 0 /\ lastError = "none"
  /\ nPredict = MinPredict /\ nCtx = 0 /\ kvUsed = 0
  /\ pc = "idle" /\ promptTokens = 0 /\ generated = 0 /\ batch = 0
  /\ eog = FALSE /\ result = NoResult /\ updated = FALSE

-----------------------------------------------------------------------------
(* createIOLLModel: new Model, and delete again when it is not usable.     *)

\* initialize gets as far as the parts in built; the next one fails, or the
\* file cannot be read, or everything is there.
Create(maxTokens) ==
  /\ pc = "idle" /\ obj = "none"
  /\ nPredict' = Clamp(maxTokens, MinPredict, MaxPredict)
  /\ \E built \in {{}, {"model"}, {"model", "ctx"}, Parts} :
       /\ ptr' = built
       /\ heap' = Counted(built, {})
       /\ nCtx' = IF "ctx" \in built THEN ContextSize(nPredict') ELSE 0
       /\ CASE built = Parts            -> modelStatus' = 0 /\ lastError' = "none"
            [] built = {"model", "ctx"} -> Fail("sampler")
            [] OTHER                    -> Fail("load")
  /\ kvUsed' = 0
  /\ obj' = "building"
  /\ UNCHANGED <<pc, promptTokens, generated, batch, eog, result, updated>>

CreateReturns ==
  /\ obj = "building" /\ modelStatus = 0
  /\ obj' = "live"
  /\ UNCHANGED <<ptr, heap, nPredict, nCtx, statusVars, runVars, result, updated>>

\* ~Model: shutdownModel frees each part it has.
Delete ==
  /\ obj' = "none"
  /\ heap' = Counted({}, ptr)
  /\ ptr' = {}
  /\ nCtx' = 0 /\ kvUsed' = 0
  /\ modelStatus' = 0 /\ lastError' = "none"
  /\ updated' = FALSE
  /\ result' = NoResult
  /\ UNCHANGED <<nPredict, pc, promptTokens, generated, batch, eog>>

CreateFails == obj = "building" /\ modelStatus # 0 /\ Delete

\* releaseIOLLModel.
ReleaseModel == obj = "live" /\ pc = "idle" /\ Delete

-----------------------------------------------------------------------------
(* updateIOLLParams.  A Model that came out of createIOLLModel has its     *)
(* model_ and ctx_ until it is deleted.                                    *)

\* MUTANT: the old chain is not freed.
RebuildLeaks(ok) ==
  LET new == IF ok THEN {"sampler"} ELSE {} IN
  /\ heap' = Counted(new, {})
  /\ ptr' = (ptr \ {"sampler"}) \cup new

\* rebuildSampler frees the old chain, then makes a new one or fails.
RebuildSampler(ok) ==
  LET new == IF ok THEN {"sampler"} ELSE {} IN
  /\ heap' = Counted(new, ptr \cap {"sampler"})
  /\ ptr' = (ptr \ {"sampler"}) \cup new

\* modelStatus and lastError after rebuildSampler.
StatusAfterRebuild(ok) ==
  IF ok THEN modelStatus' = 0 /\ lastError' = "none" ELSE Fail("sampler")

UpdateParams(maxTokens, ok) ==
  /\ obj = "live" /\ pc = "idle"
  /\ nPredict' = Clamp(maxTokens, MinPredict, MaxPredict)
  /\ RebuildSampler(ok)
  /\ StatusAfterRebuild(ok)
  /\ updated' = ok
  /\ result' = NoResult
  /\ UNCHANGED <<obj, nCtx, runVars>>

-----------------------------------------------------------------------------
(* runIOLLModel.                                                           *)

Return(text, tokens) ==
  /\ pc' = "idle"
  /\ result' = [text |-> text, tokens |-> tokens]

\* A sticky modelStatus refuses the run with the error it came with.
RunRefused ==
  /\ obj = "live" /\ pc = "idle" /\ modelStatus # 0
  /\ Return(lastError, 0)
  /\ updated' = FALSE
  /\ UNCHANGED <<objVars, statusVars, kvUsed, promptTokens, generated, batch, eog>>

\* The status is 0 and no pointer is null.  (NoNativeLeak: the answer "model is
\* not initialized" to a null pointer behind a status of 0 is never given.)
CanRun == obj = "live" /\ pc = "idle" /\ modelStatus = 0 /\ ptr = Parts

\* MUTANT: the cache keeps the run before.
MemoryKept == UNCHANGED kvUsed

\* llama_memory_clear: the run starts with an empty cache.
ClearMemory == kvUsed' = 0

RunBegins(n) ==
  /\ CanRun
  /\ ClearMemory
  /\ pc' = "decode"
  /\ promptTokens' = n /\ batch' = n
  /\ generated' = 0 /\ eog' = FALSE
  /\ result' = NoResult
  /\ updated' = FALSE
  /\ UNCHANGED <<objVars, statusVars>>

\* llama_tokenize finds no token, or fails.
TokenizeFails ==
  /\ CanRun
  /\ ClearMemory
  /\ Fail("tokenize")
  /\ Return("tokenize", 0)
  /\ updated' = FALSE
  /\ UNCHANGED <<objVars, promptTokens, generated, batch, eog>>

Looping == pc = "decode" /\ generated < nPredict /\ ~eog

\* MUTANT: >= instead of >.
ContextFullEarly == kvUsed + batch >= nCtx

\* The batch does not fit into what is left of the context.
ContextFull == kvUsed + batch > nCtx

ContextExceeded ==
  /\ Looping /\ ContextFull
  /\ Fail("context")
  /\ Return("context", 0)
  /\ UNCHANGED <<objVars, kvUsed, promptTokens, generated, batch, eog, updated>>

\* GGML_ASSERT(n_tokens_all <= cparams.n_batch): the process aborts.
DecodeAborts ==
  /\ Looping /\ ~ContextFull
  /\ batch > Batch
  /\ pc' = "aborted"
  /\ UNCHANGED <<objVars, statusVars, kvUsed, promptTokens, generated, batch, eog,
                 result, updated>>

\* MUTANT: break instead of return.
DecodeBreaks ==
  /\ Looping /\ ~ContextFull /\ batch <= Batch
  /\ Return("output", generated)
  /\ UNCHANGED <<objVars, statusVars, kvUsed, promptTokens, generated, batch, eog, updated>>

\* llama_decode returns non-zero: computation failed, or the token the batch
\* points at is no token.  (From the second round on batch.token is the address
\* of the newToken of a round that is over.)  Nothing stays in the cache.
DecodeFails ==
  /\ Looping /\ ~ContextFull /\ batch <= Batch
  /\ Fail("decode")
  /\ Return("decode", 0)
  /\ UNCHANGED <<objVars, kvUsed, promptTokens, generated, batch, eog, updated>>

Decoded == Looping /\ ~ContextFull /\ batch <= Batch /\ kvUsed' = kvUsed + batch

EndOfGeneration ==
  /\ Decoded
  /\ eog' = TRUE
  /\ UNCHANGED <<objVars, statusVars, pc, promptTokens, generated, batch, result, updated>>

PieceFails ==
  /\ Decoded
  /\ Fail("piece")
  /\ Return("piece", 0)
  /\ UNCHANGED <<objVars, promptTokens, generated, batch, eog, updated>>

\* One more token of output; it is the next batch.
Generate ==
  /\ Decoded
  /\ generated' = generated + 1
  /\ batch' = 1
  /\ UNCHANGED <<objVars, statusVars, pc, promptTokens, eog, result, updated>>

\* The loop is over: the output is returned.
RunEnds ==
  /\ pc = "decode" /\ (eog \/ generated >= nPredict)
  /\ modelStatus' = 0
  /\ Return("output", generated)
  /\ UNCHANGED <<objVars, lastError, kvUsed, promptTokens, generated, batch, eog, updated>>

-----------------------------------------------------------------------------
\* The settings LlmSettingsStore can hand over, and a 0 that only the clamp of
\* the native side catches.
Requests == {0} \cup MinPredict .. MaxPredict

Call == \/ \E m \in Requests : Create(m)
        \/ \E m \in Requests, ok \in BOOLEAN : UpdateParams(m, ok)
        \/ \E n \in 1 .. MaxPrompt : RunBegins(n)
        \/ RunRefused \/ TokenizeFails \/ ReleaseModel

Step == CreateReturns \/ CreateFails \/ ContextExceeded \/ DecodeAborts
        \/ DecodeFails \/ EndOfGeneration \/ PieceFails \/ Generate \/ RunEnds

\* The process is gone.
Aborted == pc = "aborted" /\ UNCHANGED vars

Next == Call \/ Step \/ Aborted

Safe == Init /\ [][Next]_vars

\* The thread inside a native call is scheduled.
Spec == Safe /\ WF_vars(Step)

-----------------------------------------------------------------------------
\* Every variable stays in its domain; in particular the cache never holds more
\* than n_ctx positions and an output never has more than nPredict tokens
\* (part of CacheHoldsThisRun).
TypeOK ==
  /\ obj \in {"none", "building", "live"}
  /\ ptr \in SUBSET Parts
  /\ heap \in [Parts -> Nat]
  /\ modelStatus \in {0, 1} /\ lastError \in Errors
  /\ nPredict \in MinPredict .. MaxPredict
  /\ nCtx \in 0 .. MaxCtx
  /\ kvUsed \in 0 .. nCtx
  /\ pc \in {"idle", "decode", "aborted"}
  /\ promptTokens \in 0 .. MaxPrompt /\ batch \in 0 .. MaxPrompt
  /\ generated \in 0 .. MaxPredict
  /\ pc = "decode" => generated <= nPredict
  /\ eog \in BOOLEAN /\ updated \in BOOLEAN
  /\ result \in [text : Errors \cup {"output"}, tokens : 0 .. MaxPredict]

\* The type invariant, and: at the top of each round the cache holds the prompt of
\* this run and the tokens it generated before the last one, and nothing of an
\* earlier run, however that one ended.
CacheHoldsThisRun ==
  /\ TypeOK
  /\ pc = "decode" /\ ~eog =>
       kvUsed = IF generated = 0 THEN 0 ELSE promptTokens + generated - 1

\* "context size exceeded" is never returned to a prompt that fits together
\* with the output asked for (the last token is not fed back); and a run that
\* follows a successful updateIOLLParams, as every run of the chat does, is never
\* refused because of an error of an earlier call.
ErrorsHaveReasons ==
  /\ result.text = "context" => promptTokens + nPredict - 1 > nCtx
  /\ updated => modelStatus = 0

\* The llama objects that exist are exactly those a live Model points at: a
\* rebuilt sampler replaces the old one, a failed creation and a release
\* leave nothing behind; and a Model that reports no error between two calls has
\* all of them, so that no failure leaves a null pointer behind a status of 0.
NoNativeLeak ==
  /\ heap = [p \in Parts |-> IF p \in ptr THEN 1 ELSE 0]
  /\ obj = "none" => heap = NoObjects
  /\ obj = "live" /\ pc = "idle" /\ modelStatus = 0 => ptr = Parts

\* An output that is returned is whole: the model ended it, or it has as many
\* tokens as were asked for.
OutputIsWhole ==
  result.text = "output" => eog \/ result.tokens = nPredict

\* GGML_ASSERT in llama_context::decode: no batch is larger than n_batch.
BatchFitsAssertion == pc # "aborted"

\* README: the settings button configures "Max output tokens (16..4096)", at
\* run time.  A prompt within the room initialize reserves for it then never
\* makes the context too small.
MaxTokensCanBeConfigured ==
  result.text = "context" => promptTokens > Headroom

=============================================================================
