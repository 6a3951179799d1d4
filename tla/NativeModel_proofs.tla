------------------------- MODULE NativeModel_proofs -------------------------
(***************************************************************************)
(* The safety properties of NativeModel for any sizes of prompts, limits,  *)
(* contexts and batches.                                                   *)
(***************************************************************************)
EXTENDS NativeModel, TLAPS

(***************************************************************************)
(* The inductive invariant.                                                *)
(***************************************************************************)

\* Which parts a Model has at each time of its life; a status of 0 means all.
Objects ==
  /\ obj \in {"none", "building", "live"} /\ ptr \in SUBSET Parts
  /\ heap = [p \in Parts |-> IF p \in ptr THEN 1 ELSE 0]
  /\ obj = "none" => ptr = {}
  /\ obj = "live" => {"model", "ctx"} \subseteq ptr
  /\ obj # "none" /\ modelStatus = 0 => ptr = Parts

\* When the status says 0, and what else is known then.
Statuses ==
  /\ pc \in {"idle", "decode", "aborted"}
  /\ modelStatus \in {0, 1} /\ lastError \in Errors
  /\ updated \in BOOLEAN /\ eog \in BOOLEAN
  /\ modelStatus = 0 <=> lastError = "none"
  /\ obj = "none" => modelStatus = 0
  /\ obj # "live" => pc = "idle" /\ ~updated
  /\ pc # "idle" => modelStatus = 0 /\ ~updated
  /\ updated => modelStatus = 0

Numbers ==
  /\ nPredict \in MinPredict .. MaxPredict
  /\ nCtx \in 0 .. MaxCtx /\ kvUsed \in 0 .. nCtx
  /\ promptTokens \in 0 .. MaxPrompt /\ batch \in 0 .. MaxPrompt
  /\ generated \in 0 .. MaxPredict

\* Where a run is in its cache.  CacheHoldsThisRun says nothing of the batch, which
\* is what is added next.
Round ==
  pc = "decode" =>
    /\ generated <= nPredict
    /\ batch = IF generated = 0 THEN promptTokens ELSE 1
    /\ ~eog => kvUsed = IF generated = 0 THEN 0 ELSE promptTokens + generated - 1

TooLong == promptTokens + nPredict - 1 > nCtx

\* What was returned, and what a run that is refused will return.
Results ==
  /\ result \in [text : Errors \cup {"output"}, tokens : 0 .. MaxPredict]
  /\ obj # "live" => result = NoResult
  /\ lastError = "context" => TooLong
  /\ result.text = "context" => TooLong
  /\ result.text = "output" => eog \/ result.tokens = nPredict

IInv == Objects /\ Statuses /\ Numbers /\ Round /\ Results

-----------------------------------------------------------------------------
(***************************************************************************)
(* Arithmetic.                                                             *)
(***************************************************************************)

LEMMA ClampRange ==
  ASSUME NEW value \in Nat, NEW low \in Nat, NEW high \in Nat, low <= high
  PROVE  Clamp(value, low, high) \in low .. high
  BY DEF Clamp

LEMMA RequestClamped ==
  ASSUME NEW n \in Requests
  PROVE  Clamp(n, MinPredict, MaxPredict) \in MinPredict .. MaxPredict
<1>1. /\ n \in Nat /\ MinPredict \in Nat /\ MaxPredict \in Nat
      /\ MinPredict <= MaxPredict
  BY NativeAssumption DEF NativeAssumption, Requests
<1> QED
  BY <1>1, ClampRange

\* Rounding up to a multiple of Pad keeps the order.
LEMMA RoundUpMonotone ==
  ASSUME NEW a \in Nat, NEW b \in Nat, NEW p \in Nat \ {0}, a <= b
  PROVE  (a \div p) * p \in Nat /\ (a \div p) * p <= (b \div p) * p
<1> DEFINE x == a \div p
           y == b \div p
<1>1. x \in Nat /\ y \in Nat
  OBVIOUS
<1>2. x * p <= a /\ b < y * p + p
  OBVIOUS
<1>3. x <= y
  <2>1. ASSUME y + 1 <= x PROVE FALSE
    <3>1. (y + 1) * p <= x * p
      BY <1>1, <2>1
    <3> QED
      BY <1>1, <1>2, <3>1
  <2> QED
    BY <1>1, <2>1
<1> HIDE DEF x, y
<1>4. x * p <= y * p /\ x * p \in Nat
  BY <1>1, <1>3
<1> QED
  BY <1>4 DEF x, y

LEMMA MaxCtxType == MaxCtx \in Nat
<1>1. MaxContext + Pad - 1 \in Nat /\ Pad \in Nat \ {0}
  BY NativeAssumption DEF NativeAssumption
<1> QED
  BY <1>1, RoundUpMonotone DEF MaxCtx

LEMMA ContextSizeRange ==
  ASSUME NEW predict \in MinPredict .. MaxPredict
  PROVE  ContextSize(predict) \in 0 .. MaxCtx
<1> USE NativeAssumption DEF NativeAssumption
<1> DEFINE n == Clamp(predict + Headroom, MinContext, MaxContext)
<1>1. n \in MinContext .. MaxContext
  <2>1. predict + Headroom \in Nat
    OBVIOUS
  <2> QED
    BY <2>1, ClampRange
<1>2. n + Pad - 1 \in Nat /\ MaxContext + Pad - 1 \in Nat /\ n + Pad - 1 <= MaxContext + Pad - 1
  BY <1>1
<1>3. /\ ((n + Pad - 1) \div Pad) * Pad \in Nat
      /\ ((n + Pad - 1) \div Pad) * Pad <= ((MaxContext + Pad - 1) \div Pad) * Pad
  BY <1>2, RoundUpMonotone
<1> QED
  BY <1>3, MaxCtxType DEF ContextSize, MaxCtx

-----------------------------------------------------------------------------
LEMMA InitIInv == Init => IInv
<1> SUFFICES ASSUME Init PROVE IInv
  OBVIOUS
<1> USE NativeAssumption DEF NativeAssumption, Init
<1>1. Objects
  BY DEF Objects, NoObjects
<1>2. Statuses
  BY DEF Statuses, Errors
<1>3. Numbers
  BY MaxCtxType DEF Numbers
<1>4. Round
  BY DEF Round
<1>5. Results
  BY DEF Results, NoResult, Errors
<1> QED
  BY <1>1, <1>2, <1>3, <1>4, <1>5 DEF IInv

\* The objects: only creation, deletion and a new sampler touch them.
LEMMA ObjectsStep == Objects /\ Statuses /\ [Next]_vars => Objects'
<1> SUFFICES ASSUME Objects, Statuses, [Next]_vars PROVE Objects'
  OBVIOUS
<1> USE DEF Objects, Parts
<1>0. ASSUME UNCHANGED <<obj, ptr, heap>>, modelStatus' = 0 => modelStatus = 0
      PROVE  Objects'
  BY <1>0
<1>1. ASSUME NEW n \in Requests, Create(n) PROVE Objects'
  <2>1. PICK built \in {{}, {"model"}, {"model", "ctx"}, Parts} :
          /\ ptr' = built /\ heap' = Counted(built, {})
          /\ CASE built = Parts            -> modelStatus' = 0 /\ lastError' = "none"
               [] built = {"model", "ctx"} -> Fail("sampler")
               [] OTHER                    -> Fail("load")
    BY <1>1 DEF Create
  <2>2. ptr = {} /\ obj' = "building"
    BY <1>1 DEF Create
  <2>3. heap' = [p \in Parts |-> IF p \in ptr' THEN 1 ELSE 0]
    BY <2>1, <2>2 DEF Counted
  <2>4. modelStatus' = 0 => ptr' = Parts
    BY <2>1 DEF Fail
  <2> QED
    BY <2>1, <2>2, <2>3, <2>4
<1>2. CASE CreateReturns
  BY <1>2 DEF CreateReturns, statusVars
<1>3. ASSUME Delete PROVE Objects'
  BY <1>3 DEF Delete, Counted
<1>4. ASSUME NEW n \in Requests, NEW ok \in BOOLEAN, UpdateParams(n, ok) PROVE Objects'
  <2> DEFINE new == IF ok THEN {"sampler"} ELSE {}
  <2>1. /\ heap' = Counted(new, ptr \cap {"sampler"}) /\ ptr' = (ptr \ {"sampler"}) \cup new
        /\ obj = "live" /\ obj' = obj
    BY <1>4 DEF UpdateParams, RebuildSampler
  <2>2. heap' = [p \in Parts |-> IF p \in ptr' THEN 1 ELSE 0]
    BY <2>1 DEF Counted
  <2>3. modelStatus' = 0 => ok
    BY <1>4 DEF UpdateParams, StatusAfterRebuild, Fail
  <2> QED
    BY <2>1, <2>2, <2>3
<1>5. CASE RunRefused \/ TokenizeFails \/ \E n \in 1 .. MaxPrompt : RunBegins(n)
  BY <1>0, <1>5 DEF RunRefused, TokenizeFails, RunBegins, CanRun, Fail, objVars, statusVars
<1>6. CASE ContextExceeded \/ DecodeAborts \/ DecodeFails \/ EndOfGeneration \/ PieceFails \/ Generate
  BY <1>0, <1>6
     DEF ContextExceeded, DecodeAborts, DecodeFails, EndOfGeneration, PieceFails, Generate,
         Fail, objVars, statusVars
<1>7. CASE RunEnds
  BY <1>0, <1>7 DEF RunEnds, Statuses, objVars
<1>8. CASE Aborted \/ UNCHANGED vars
  BY <1>0, <1>8 DEF Aborted, vars, objVars, statusVars
<1> QED
  BY <1>1, <1>2, <1>3, <1>4, <1>5, <1>6, <1>7, <1>8
     DEF Next, Call, Step, CreateFails, ReleaseModel

\* The status: it is 0 when a run begins, and the first failure ends the run.
LEMMA StatusesStep == Objects /\ Statuses /\ [Next]_vars => Statuses'
<1> SUFFICES ASSUME Objects, Statuses, [Next]_vars PROVE Statuses'
  OBVIOUS
<1> USE DEF Statuses, Errors, Fail, Return, objVars, statusVars, runVars
<1>1. ASSUME NEW n \in Requests, Create(n) PROVE Statuses'
  <2>1. modelStatus' \in {0, 1} /\ lastError' \in Errors /\ (modelStatus' = 0 <=> lastError' = "none")
    BY <1>1 DEF Create
  <2> QED
    BY <1>1, <2>1 DEF Create
<1>2. CASE CreateReturns
  BY <1>2 DEF CreateReturns
<1>3. CASE CreateFails \/ ReleaseModel
  BY <1>3 DEF CreateFails, ReleaseModel, Delete, Objects
<1>4. ASSUME NEW n \in Requests, NEW ok \in BOOLEAN, UpdateParams(n, ok) PROVE Statuses'
  BY <1>4 DEF UpdateParams, StatusAfterRebuild
<1>5. CASE RunRefused
  <2>1. UNCHANGED <<obj, modelStatus, lastError, eog>> /\ pc' = "idle" /\ updated' = FALSE
    BY <1>5 DEF RunRefused
  <2>2. obj = "live"
    BY <1>5 DEF RunRefused
  <2> QED
    BY <2>1, <2>2
<1>6. CASE TokenizeFails
  <2>1. /\ UNCHANGED <<obj, eog>> /\ pc' = "idle" /\ updated' = FALSE /\ obj = "live"
        /\ modelStatus' = 1 /\ lastError' = "tokenize"
    BY <1>6 DEF TokenizeFails, CanRun
  <2>2. lastError' \in Errors /\ lastError' # "none"
    BY <2>1
  <2>3. updated' \in BOOLEAN /\ eog' \in BOOLEAN
    BY <2>1
  <2> QED
    BY <2>1, <2>2, <2>3
<1>7. ASSUME NEW n \in 1 .. MaxPrompt, RunBegins(n) PROVE Statuses'
  BY <1>7 DEF RunBegins, CanRun
<1>8. CASE ContextExceeded \/ DecodeFails \/ PieceFails
  BY <1>8 DEF ContextExceeded, DecodeFails, PieceFails, Looping, Decoded
<1>9. CASE DecodeAborts
  BY <1>9 DEF DecodeAborts, Looping
<1>10. CASE EndOfGeneration
  BY <1>10 DEF EndOfGeneration, Decoded
<1>11. CASE Generate
  BY <1>11 DEF Generate, Decoded
<1>12. CASE RunEnds
  BY <1>12 DEF RunEnds
<1>13. CASE Aborted \/ UNCHANGED vars
  BY <1>13 DEF Aborted, vars
<1> QED
  BY <1>1, <1>2, <1>3, <1>4, <1>5, <1>6, <1>7, <1>8, <1>9, <1>10, <1>11, <1>12, <1>13
     DEF Next, Call, Step

\* The numbers: no decode overruns the context, and the limit bounds the output.
LEMMA NumbersStep == Objects /\ Statuses /\ Numbers /\ Round /\ [Next]_vars => Numbers'
<1> SUFFICES ASSUME Objects, Statuses, Numbers, Round, [Next]_vars PROVE Numbers'
  OBVIOUS
<1> USE NativeAssumption, MaxCtxType
    DEF NativeAssumption, Numbers, Return, objVars, statusVars, runVars
<1>1. ASSUME NEW n \in Requests, Create(n) PROVE Numbers'
  <2>1. nPredict' \in MinPredict .. MaxPredict
    BY <1>1, RequestClamped DEF Create
  <2>2. nCtx' \in 0 .. MaxCtx
    BY <1>1, <2>1, ContextSizeRange DEF Create
  <2> QED
    BY <1>1, <2>1, <2>2 DEF Create
<1>2. CASE CreateReturns
  BY <1>2 DEF CreateReturns
<1>3. CASE CreateFails \/ ReleaseModel
  BY <1>3 DEF CreateFails, ReleaseModel, Delete
<1>4. ASSUME NEW n \in Requests, NEW ok \in BOOLEAN, UpdateParams(n, ok) PROVE Numbers'
  <2>1. nPredict' \in MinPredict .. MaxPredict
    BY <1>4, RequestClamped DEF UpdateParams
  <2> QED
    BY <1>4, <2>1 DEF UpdateParams
<1>5. CASE RunRefused
  BY <1>5 DEF RunRefused
<1>6. CASE TokenizeFails
  BY <1>6 DEF TokenizeFails, ClearMemory
<1>7. ASSUME NEW n \in 1 .. MaxPrompt, RunBegins(n) PROVE Numbers'
  BY <1>7 DEF RunBegins, ClearMemory
<1>8. CASE ContextExceeded \/ DecodeAborts \/ DecodeFails
  BY <1>8 DEF ContextExceeded, DecodeAborts, DecodeFails
<1>9. ASSUME Decoded PROVE kvUsed' = kvUsed + batch /\ kvUsed' \in 0 .. nCtx /\ generated < nPredict
  BY <1>9 DEF Decoded, ContextFull, Looping
<1>10. CASE EndOfGeneration
  BY <1>9, <1>10 DEF EndOfGeneration
<1>11. CASE PieceFails
  BY <1>9, <1>11 DEF PieceFails
<1>12. CASE Generate
  BY <1>9, <1>12 DEF Generate
<1>13. CASE RunEnds
  BY <1>13 DEF RunEnds
<1>14. CASE Aborted \/ UNCHANGED vars
  BY <1>14 DEF Aborted, vars
<1> QED
  BY <1>1, <1>2, <1>3, <1>4, <1>5, <1>6, <1>7, <1>8, <1>10, <1>11, <1>12, <1>13, <1>14
     DEF Next, Call, Step

\* A run begins with an empty cache and its whole prompt; each round adds its batch.
LEMMA RoundStep == Statuses /\ Numbers /\ Round /\ [Next]_vars => Round'
<1> SUFFICES ASSUME Statuses, Numbers, Round, [Next]_vars, pc' = "decode" PROVE Round'
  BY DEF Round
<1> USE DEF Statuses, Numbers, Round, Return, objVars, statusVars, runVars
<1>1. CASE \E n \in Requests : Create(n)
  BY <1>1 DEF Create
<1>2. CASE CreateReturns
  BY <1>2 DEF CreateReturns
<1>3. CASE CreateFails \/ ReleaseModel
  BY <1>3 DEF CreateFails, ReleaseModel, Delete
<1>4. CASE \E n \in Requests, ok \in BOOLEAN : UpdateParams(n, ok)
  BY <1>4 DEF UpdateParams
<1>5. CASE RunRefused \/ TokenizeFails \/ ContextExceeded \/ DecodeFails \/ PieceFails \/ RunEnds
  BY <1>5 DEF RunRefused, TokenizeFails, ContextExceeded, DecodeFails, PieceFails, RunEnds
<1>6. ASSUME NEW n \in 1 .. MaxPrompt, RunBegins(n) PROVE Round'
  <2>1. kvUsed' = 0 /\ promptTokens' = n /\ batch' = n /\ generated' = 0 /\ nPredict' = nPredict
    BY <1>6 DEF RunBegins, ClearMemory
  <2>2. nPredict \in Nat
    BY NativeAssumption DEF NativeAssumption
  <2> QED
    BY <2>1, <2>2
<1>7. CASE DecodeAborts
  BY <1>7 DEF DecodeAborts
<1>8. CASE EndOfGeneration
  BY <1>8 DEF EndOfGeneration, Decoded, Looping
<1>9. CASE Generate
  BY <1>9 DEF Generate, Decoded, Looping
<1>10. CASE Aborted \/ UNCHANGED vars
  BY <1>10 DEF Aborted, vars
<1> QED
  BY <1>1, <1>2, <1>3, <1>4, <1>5, <1>6, <1>7, <1>8, <1>9, <1>10 DEF Next, Call, Step

\* What is returned.  The interesting steps are ContextExceeded, where Round says how
\* long the cache is, and RunEnds; RunRefused returns what an earlier step left.
LEMMA ResultsStep ==
  Statuses /\ Numbers /\ Round /\ Results /\ [Next]_vars => Results'
<1> SUFFICES ASSUME Statuses, Numbers, Round, Results, [Next]_vars PROVE Results'
  OBVIOUS
<1> DEFINE Range == [text : Errors \cup {"output"}, tokens : 0 .. MaxPredict]
<1>0. /\ MinPredict \in Nat /\ MaxPredict \in Nat /\ nPredict \in Nat /\ promptTokens \in Nat
      /\ MaxCtx \in Nat /\ nCtx \in Nat /\ generated \in 0 .. MaxPredict
  BY NativeAssumption, MaxCtxType DEF NativeAssumption, Numbers
<1>1. NoResult \in Range /\ NoResult.text = "none"
  BY <1>0 DEF NoResult, Errors
\* a step that returns nothing new
<1>2. ASSUME \/ UNCHANGED <<result, promptTokens, nPredict, nCtx, eog>>
             \/ result' = NoResult,
             obj' = "live",
             lastError' = "context" => lastError = "context" /\ TooLong',
             lastError' \in Errors,
             result' # NoResult => UNCHANGED <<promptTokens, nPredict, nCtx, eog, result>>
      PROVE  Results'
  BY <1>1, <1>2 DEF Results, TooLong
\* one that returns an error
<1>3. ASSUME NEW e \in Errors,
             Return(e, 0), obj' = "live", lastError' = e,
             e = "context" => TooLong',
             UNCHANGED <<promptTokens, nPredict, nCtx>>
      PROVE  Results'
  <2>1. result' \in Range /\ result'.text = e
    BY <1>0, <1>3 DEF Return
  <2>2. e # "output"
    BY DEF Errors
  <2> QED
    BY <1>3, <2>1, <2>2 DEF Results
\* one that leaves no Model to run
<1>4. ASSUME obj' # "live", result' = NoResult, lastError' # "context"
      PROVE  Results'
  BY <1>1, <1>4 DEF Results
<1>5. ASSUME NEW n \in Requests, Create(n) PROVE Results'
  <2>1. lastError' \in {"none", "sampler", "load"}
    BY <1>5 DEF Create, Fail
  <2> QED
    BY <1>4, <1>5, <2>1 DEF Create, Results
<1>6. CASE CreateReturns
  <2>1. obj = "building" /\ result = NoResult
    BY <1>6 DEF CreateReturns, Results
  <2> QED
    BY <1>2, <1>6, <2>1 DEF CreateReturns, Statuses, Results, statusVars, runVars
<1>7. CASE CreateFails \/ ReleaseModel
  BY <1>4, <1>7 DEF CreateFails, ReleaseModel, Delete
<1>8. ASSUME NEW n \in Requests, NEW ok \in BOOLEAN, UpdateParams(n, ok) PROVE Results'
  <2>1. lastError' \in {"none", "sampler"}
    BY <1>8 DEF UpdateParams, StatusAfterRebuild, Fail
  <2> QED
    BY <1>2, <1>8, <2>1 DEF UpdateParams, Errors
<1>9. CASE RunRefused
  <2>1. UNCHANGED <<obj, lastError, promptTokens, nPredict, nCtx>> /\ obj = "live"
    BY <1>9 DEF RunRefused, objVars, statusVars
  <2>2. lastError = "context" => TooLong'
    BY <2>1 DEF Results, TooLong
  <2> QED
    BY <1>3, <1>9, <2>1, <2>2 DEF RunRefused, Statuses
<1>10. CASE TokenizeFails
  <2>1. "tokenize" \in Errors
    BY DEF Errors
  <2> QED
    BY <1>3, <1>10, <2>1 DEF TokenizeFails, CanRun, Fail, objVars
<1>11. ASSUME NEW n \in 1 .. MaxPrompt, RunBegins(n) PROVE Results'
  <2>1. lastError = "none"
    BY <1>11 DEF RunBegins, CanRun, Statuses
  <2> QED
    BY <1>2, <1>11, <2>1 DEF RunBegins, CanRun, objVars, statusVars, Errors
<1>12. CASE ContextExceeded
  <2>1. TooLong
    <3>1. kvUsed + batch > nCtx /\ generated < nPredict /\ pc = "decode" /\ ~eog
      BY <1>12 DEF ContextExceeded, Looping, ContextFull
    <3> QED
      BY <1>0, <3>1 DEF Round, TooLong
  <2>2. UNCHANGED <<obj, promptTokens, nPredict, nCtx>> /\ obj = "live"
    BY <1>12 DEF ContextExceeded, Looping, Statuses, objVars
  <2>3. TooLong' /\ "context" \in Errors
    BY <2>1, <2>2 DEF TooLong, Errors
  <2> QED
    BY <1>3, <1>12, <2>2, <2>3 DEF ContextExceeded, Fail
<1>13. CASE DecodeFails \/ PieceFails
  <2>1. UNCHANGED <<obj, promptTokens, nPredict, nCtx>> /\ obj = "live"
    BY <1>13 DEF DecodeFails, PieceFails, Decoded, Looping, Statuses, objVars
  <2>2. "decode" \in Errors /\ "piece" \in Errors
    BY DEF Errors
  <2> QED
    BY <1>3, <1>13, <2>1, <2>2 DEF DecodeFails, PieceFails, Fail
<1>14. CASE DecodeAborts \/ EndOfGeneration \/ Generate
  <2>1. /\ UNCHANGED <<obj, result, lastError, promptTokens, nPredict, nCtx>>
        /\ obj = "live" /\ (eog => eog')
    BY <1>14 DEF DecodeAborts, EndOfGeneration, Generate, Decoded, Looping, Statuses,
                 objVars, statusVars
  <2> QED
    BY <2>1 DEF Results, TooLong
<1>15. CASE RunEnds
  <2>1. /\ UNCHANGED <<obj, lastError, eog, promptTokens, nPredict, nCtx>> /\ obj = "live"
        /\ result' = [text |-> "output", tokens |-> generated]
    BY <1>15 DEF RunEnds, Return, Statuses, objVars
  <2>2. eog \/ generated = nPredict
    <3>1. pc = "decode" /\ (eog \/ generated >= nPredict)
      BY <1>15 DEF RunEnds
    <3> QED
      BY <1>0, <3>1 DEF Round
  <2>3. result' \in Range /\ result'.text = "output" /\ result'.tokens = generated
    BY <1>0, <2>1
  <2> QED
    BY <2>1, <2>2, <2>3 DEF Results, TooLong
<1>16. CASE Aborted \/ UNCHANGED vars
  BY <1>16 DEF Aborted, vars, objVars, statusVars, runVars, Results, TooLong
<1> QED
  BY <1>5, <1>6, <1>7, <1>8, <1>9, <1>10, <1>11, <1>12, <1>13, <1>14, <1>15, <1>16
     DEF Next, Call, Step

-----------------------------------------------------------------------------
(***************************************************************************)
(* The theorems.                                                           *)
(***************************************************************************)

\* The conjunction of the five parts is inductive.
THEOREM Inductive == Safe => []IInv
<1>1. IInv /\ [Next]_vars => IInv'
  BY ObjectsStep, StatusesStep, NumbersStep, RoundStep, ResultsStep DEF IInv
<1> QED
  BY <1>1, InitIInv, PTL DEF Safe

\* A run sees its own cache only, and never more of it than n_ctx, for any sizes.
THEOREM CacheHoldsThisRunHolds == Safe => []CacheHoldsThisRun
<1>1. IInv => CacheHoldsThisRun
  <2> SUFFICES ASSUME IInv PROVE CacheHoldsThisRun
    OBVIOUS
  <2>1. heap \in [Parts -> Nat]
    BY DEF IInv, Objects
  <2>2. TypeOK
    BY <2>1 DEF IInv, Objects, Statuses, Numbers, Round, Results, TypeOK
  <2> QED
    BY <2>2 DEF IInv, Round, CacheHoldsThisRun
<1> QED
  BY <1>1, Inductive, PTL

\* The context error comes only to those who asked for too much, and an error of an
\* earlier call never survives a successful updateIOLLParams.
THEOREM ErrorsHaveReasonsHolds == Safe => []ErrorsHaveReasons
<1>1. IInv => ErrorsHaveReasons
  BY DEF IInv, Statuses, Results, TooLong, ErrorsHaveReasons
<1> QED
  BY <1>1, Inductive, PTL

\* What is allocated is what a Model points at, and no error means it has everything.
THEOREM NoNativeLeakHolds == Safe => []NoNativeLeak
<1>1. IInv => NoNativeLeak
  BY DEF IInv, Objects, NoNativeLeak, NoObjects
<1> QED
  BY <1>1, Inductive, PTL

\* No output is cut short without an error.
THEOREM OutputIsWholeHolds == Safe => []OutputIsWhole
<1>1. IInv => OutputIsWhole
  BY DEF IInv, Results, OutputIsWhole
<1> QED
  BY <1>1, Inductive, PTL
=============================================================================
