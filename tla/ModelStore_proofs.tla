-------------------------- MODULE ModelStore_proofs --------------------------
(***************************************************************************)
(* What holds of ModelStore for any set of models and any number of        *)
(* downloads.                                                              *)
(***************************************************************************)
EXTENDS ModelStore, TLAPS

-----------------------------------------------------------------------------
(* The inductive invariant.                                                *)

\* A row of the DownloadManager is of a model as soon as it is used.
UsedRowsHaveModels == \A d \in Ids : rows[d].status # "unused" => rows[d].model \in Models

\* Between two callbacks the poller is posted exactly while something is tracked;
\* a poll in progress took its callback out of the looper if the timer began it,
\* and nothing else touches active until it ends.
PollerState ==
  IF poll.busy
  THEN /\ active # {} /\ pollerRunning
       /\ pollerPosts = IF poll.timer THEN 0 ELSE 1
       /\ poll.todo \cup poll.finished \subseteq active
       /\ poll.todo \cap poll.finished = {}
  ELSE /\ pollerRunning <=> active # {}
       /\ pollerPosts = IF active # {} THEN 1 ELSE 0
       /\ poll = NoPoll

\* Without an activity there is nothing to poll.
NoScreenNoPoll == screen = "none" => active = {} /\ ~poll.busy

\* What is tracked was enqueued, and a row that downloads shows a tracked download
\* of its own model, one the current poll has not found finished.
Requests ==
  /\ \A d \in active : rows[d].status # "unused"
  /\ \A m \in Models : info[m].downloading =>
       /\ info[m].request \in active \ poll.finished
       /\ rows[info[m].request].model = m

Tracking == UsedRowsHaveModels /\ PollerState /\ NoScreenNoPoll /\ Requests
StoreInv == TypeOK /\ Tracking /\ ListAgreesWithPrefs

-----------------------------------------------------------------------------
(* The parts of the actions.                                               *)

\* The DownloadManager may do to its files, broadcasts and rows in use what it
\* likes, as long as a row keeps its model and is not unused again.
LEMMA DownloadManagerKeeps ==
  ASSUME StoreInv, UNCHANGED <<prefVars, activityVars>>,
         rows' \in [Ids -> Row],
         target' \in [Models -> Ids \cup {NoId}],
         broadcasts' \in SUBSET Ids,
         \A d \in Ids : /\ rows'[d].model = rows[d].model
                        /\ rows'[d].status = "unused" <=> rows[d].status = "unused"
  PROVE  StoreInv' 
<1> USE DEF StoreInv, TypeOK, prefVars, activityVars
<1>1. TypeOK'
  OBVIOUS
<1>2. Tracking'
  <2>1. UsedRowsHaveModels' /\ NoScreenNoPoll'
    BY DEF Tracking, UsedRowsHaveModels, NoScreenNoPoll
  <2>2. PollerState'
    BY DEF Tracking, PollerState
  <2>3. Requests'
    BY DEF Tracking, Requests, Info
  <2> QED
    BY <2>1, <2>2, <2>3 DEF Tracking
<1>3. ListAgreesWithPrefs'
  BY DEF ListAgreesWithPrefs
<1> QED
  BY <1>1, <1>2, <1>3

\* The status and the contents of a row change, its model does not.
LEMMA RowChanges ==
  ASSUME rows \in [Ids -> Row], NEW d \in Ids, rows[d].status # "unused",
         NEW status \in {"active", "successful", "failed", "gone"},
         NEW has \in {"nothing", "empty", "partial", "complete"},
         rows' = [rows EXCEPT ![d].status = status, ![d].has = has]
  PROVE  /\ rows' \in [Ids -> Row]
         /\ \A e \in Ids : /\ rows'[e].model = rows[e].model
                           /\ rows'[e].status = "unused" <=> rows[e].status = "unused"
  BY DEF Row

\* A file disappears, or a download gets its own.
LEMMA TargetChanges ==
  ASSUME target \in [Models -> Ids \cup {NoId}], NEW m
  PROVE  /\ Unlink(target, m) \in [Models -> Ids \cup {NoId}]
         /\ \A d \in Ids : [target EXCEPT ![m] = d] \in [Models -> Ids \cup {NoId}]
  BY DEF Unlink

\* What remove and a failure leave.
LEMMA DiscardedKeeps ==
  ASSUME StoreInv, NEW d \in Ids, rows[d].status # "unused",
         NEW status \in {"active", "successful", "failed", "gone"},
         Discarded(d, status)
  PROVE  /\ rows' \in [Ids -> Row]
         /\ \A e \in Ids : /\ rows'[e].model = rows[e].model
                           /\ rows'[e].status = "unused" <=> rows[e].status = "unused"
         /\ target' \in [Models -> Ids \cup {NoId}]
<1>1. rows' = [rows EXCEPT ![d].status = status, ![d].has = "nothing"]
  BY DEF Discarded
<1>2. target' \in [Models -> Ids \cup {NoId}]
  BY TargetChanges DEF Discarded, StoreInv, TypeOK
<1> QED
  BY <1>1, <1>2, RowChanges DEF StoreInv, TypeOK

LEMMA DmStepKeeps ==
  ASSUME StoreInv, NEW d \in Ids,
         DmStart(d) \/ DmWrite(d) \/ DmSucceed(d) \/ DmFail(d) \/ DmForget(d)
  PROVE  StoreInv'
<1> USE DEF StoreInv, TypeOK
<1>0. \A e \in SUBSET Ids : e \cup {d} \in SUBSET Ids
  OBVIOUS
<1>a. rows[d] \in Row /\ broadcasts \in SUBSET Ids
  OBVIOUS
<1>b. rows[d].status # "unused"
  BY DEF DmStart, DmWrite, DmSucceed, DmFail, DmForget, Running
<1>1. CASE DmStart(d)
  <2> DEFINE m == rows[d].model
  <2>1. CASE target[m] = NoId
    <3>1. /\ rows' = [rows EXCEPT ![d].status = rows[d].status, ![d].has = "empty"]
          /\ rows[d].status = "active"
      BY <1>1, <2>1 DEF DmStart, Running, Row
    <3>2. /\ target' \in [Models -> Ids \cup {NoId}]
          /\ broadcasts' = broadcasts
          /\ UNCHANGED <<prefVars, activityVars>>
      BY <1>1, <2>1, TargetChanges DEF DmStart
    <3> QED
      BY <3>1, <3>2, <1>b, RowChanges, DownloadManagerKeeps
  <2>2. CASE target[m] # NoId
    <3>1. rows' = [rows EXCEPT ![d].status = "failed", ![d].has = rows[d].has]
      BY <1>1, <2>2 DEF DmStart, Running, Row
    <3>2. target' = target /\ broadcasts' \in SUBSET Ids /\ UNCHANGED <<prefVars, activityVars>>
      BY <1>1, <2>2, <1>0 DEF DmStart, Announce
    <3> QED
      BY <3>1, <3>2, <1>a, <1>b, RowChanges, DownloadManagerKeeps DEF Row
  <2> QED
    BY <2>1, <2>2
<1>2. CASE DmWrite(d)
  <2>1. /\ target' = target /\ broadcasts' = broadcasts /\ UNCHANGED <<prefVars, activityVars>>
        /\ rows[d].status = "active"
    BY <1>2 DEF DmWrite, Running
  <2>2. \E has \in {"partial", "complete"} :
          rows' = [rows EXCEPT ![d].status = "active", ![d].has = has]
    <3>1. CASE rows' = [rows EXCEPT ![d].has = "partial"]
      BY <3>1, <2>1 DEF Row
    <3>2. CASE rows' = [rows EXCEPT ![d].has = "complete"]
      BY <3>2, <2>1 DEF Row
    <3> QED
      BY <1>2, <3>1, <3>2 DEF DmWrite
  <2> QED
    BY <2>1, <2>2, <1>b, RowChanges, DownloadManagerKeeps
<1>3. CASE DmSucceed(d)
  <2>1. rows' = [rows EXCEPT ![d].status = "successful", ![d].has = rows[d].has]
    BY <1>3 DEF DmSucceed, Row
  <2>2. target' = target /\ broadcasts' \in SUBSET Ids /\ UNCHANGED <<prefVars, activityVars>>
    BY <1>3, <1>0 DEF DmSucceed, Announce
  <2> QED
    BY <2>1, <2>2, <1>a, <1>b, RowChanges, DownloadManagerKeeps DEF Row
<1>4. CASE DmFail(d)
  <2>1. broadcasts' \in SUBSET Ids /\ UNCHANGED <<prefVars, activityVars>>
    BY <1>4, <1>0 DEF DmFail, Announce
  <2>2. CASE Discarded(d, "failed")
    BY <2>1, <2>2, <1>b, DiscardedKeeps, DownloadManagerKeeps
  <2>3. CASE rows' = [rows EXCEPT ![d].status = "failed"] /\ UNCHANGED target
    <3>1. rows' = [rows EXCEPT ![d].status = "failed", ![d].has = rows[d].has]
      BY <2>3 DEF Row
    <3> QED
      BY <2>1, <2>3, <3>1, <1>a, <1>b, RowChanges, DownloadManagerKeeps DEF Row
  <2> QED
    BY <1>4, <2>2, <2>3 DEF DmFail
<1>5. CASE DmForget(d)
  <2>1. Discarded(d, "gone") /\ broadcasts' = broadcasts /\ UNCHANGED <<prefVars, activityVars>>
    BY <1>5 DEF DmForget, Removed
  <2> QED
    BY <2>1, <1>b, DiscardedKeeps, DownloadManagerKeeps
<1> QED
  BY <1>1, <1>2, <1>3, <1>4, <1>5

\* mergePersistedState writes the flags of the list and those of the preferences
\* from the same files, and no row downloads any more.
LEMMA LoadModelsKeeps ==
  ASSUME StoreInv, LoadModels, screen' = "shown",
         UNCHANGED <<rows, broadcasts, disk, active, pollerRunning, pollerPosts, poll>>
  PROVE  StoreInv'
<1> USE DEF StoreInv, TypeOK
<1> DEFINE kept == [m \in Models |-> IF Empty(target, m) THEN NoId ELSE target[m]]
<1>1. /\ target' = kept /\ info' = Merged(kept) /\ prefs' = MergedPrefs(kept)
      /\ bound' = [m \in Models |-> Buttons(info'[m])]
  BY DEF LoadModels
<1>2. kept \in [Models -> Ids \cup {NoId}]
  OBVIOUS
<1>3. \A m \in Models : /\ info'[m].downloaded = NonEmpty(kept, m)
                        /\ info'[m].downloading = FALSE /\ info'[m].request = NoId
  BY <1>1 DEF Merged, NotDownloaded
<1>4. info' \in [Models -> Info]
  <2>1. \A m \in Models : NonEmpty(kept, m) \in BOOLEAN
    BY DEF NonEmpty
  <2>2. \A m \in Models : [NotDownloaded EXCEPT !.downloaded = NonEmpty(kept, m)] \in Info
    BY <2>1 DEF NotDownloaded, Info
  <2> QED
    BY <1>1, <2>2 DEF Merged
<1>5. prefs' \in Prefs /\ \A m \in Models : m \in prefs'.downloaded <=> NonEmpty(kept, m)
  BY <1>1 DEF MergedPrefs, Prefs
<1>6. bound' \in [Models -> {"download", "cancel", "owned"}]
  BY <1>1 DEF Buttons
<1>7. TypeOK'
  BY <1>1, <1>2, <1>4, <1>5, <1>6
<1>8. Tracking'
  <2>1. UsedRowsHaveModels' /\ NoScreenNoPoll'
    BY DEF Tracking, UsedRowsHaveModels, NoScreenNoPoll
  <2>2. PollerState'
    BY DEF Tracking, PollerState
  <2>3. Requests'
    BY <1>3 DEF Tracking, Requests
  <2> QED
    BY <2>1, <2>2, <2>3 DEF Tracking
<1>9. ListAgreesWithPrefs'
  BY <1>3, <1>5 DEF ListAgreesWithPrefs
<1> QED
  BY <1>7, <1>8, <1>9

\* A new activity starts without tracked downloads and without a poller.
LEMMA ActivityGoneKeeps ==
  ASSUME StoreInv, ActivityGone, UNCHANGED <<rows, target, disk>>, prefs' \in Prefs
  PROVE  StoreInv'
<1> USE DEF StoreInv, TypeOK, ActivityGone
<1>1. info' \in [Models -> Info] /\ \A m \in Models : info'[m].downloading = FALSE
  BY DEF NotDownloaded, Info
<1>2. TypeOK'
  <2>1. NoPoll \in [busy : BOOLEAN, timer : BOOLEAN, todo : SUBSET Ids, finished : SUBSET Ids]
    BY DEF NoPoll
  <2>2. poll' = NoPoll /\ bound' \in [Models -> {"download", "cancel", "owned"}]
    OBVIOUS
  <2>3. /\ broadcasts' \in SUBSET Ids /\ active' \in SUBSET Ids /\ pollerPosts' \in 0 .. 1
        /\ screen' \in {"none", "shown", "paused"}
    OBVIOUS
  <2>4. pollerRunning' \in BOOLEAN
    OBVIOUS
  <2> HIDE DEF ActivityGone
  <2> QED
    BY <1>1, <2>1, <2>2, <2>3, <2>4
<1>3. Tracking'
  BY <1>1 DEF Tracking, UsedRowsHaveModels, NoScreenNoPoll, PollerState, Requests, NoPoll
<1>4. ListAgreesWithPrefs'
  BY DEF ListAgreesWithPrefs
<1> QED
  BY <1>2, <1>3, <1>4

\* The end of onCancel leaves the poller running exactly if something is tracked.
LEMMA StopKeepsPoller ==
  ASSUME StoreInv, LooperFree, active' \in SUBSET active, poll' = poll,
         StopIfNothingActive(pollerPosts)
  PROVE  PollerState' /\ pollerRunning' \in BOOLEAN /\ pollerPosts' \in 0 .. 1
  BY DEF StoreInv, TypeOK, Tracking, PollerState, LooperFree, StopIfNothingActive, NoPoll

\* Whatever a click does to one row and its flag in the preferences, the rest of the
\* list keeps agreeing with them.
LEMMA OneRowChanges ==
  ASSUME StoreInv, NEW m \in Models, screen # "none",
         \A k \in Models \ {m} :
           /\ info'[k] = info[k]
           /\ k \in prefs'.downloaded <=> k \in prefs.downloaded,
         info'[m].downloaded <=> m \in prefs'.downloaded
  PROVE  ListAgreesWithPrefs'
  BY DEF StoreInv, ListAgreesWithPrefs

LEMMA LifecycleKeeps ==
  ASSUME StoreInv, Lifecycle
  PROVE  StoreInv'
<1> USE DEF StoreInv, TypeOK
<1>1. CASE Create \/ Resume
  BY <1>1, LoadModelsKeeps DEF Create, Resume
<1>2. CASE Destroy
  BY <1>2, ActivityGoneKeeps DEF Destroy, prefVars
<1>3. CASE ProcessDies
  <2>1. prefs' \in Prefs
    BY <1>3 DEF ProcessDies, Prefs
  <2> QED
    BY <1>3, <2>1, ActivityGoneKeeps DEF ProcessDies
<1>4. CASE Pause \/ FlushPrefs \/ Rebind
  <2>1. TypeOK'
    <3>1. CASE Pause
      BY <1>4, <3>1 DEF Pause, dmVars, prefVars
    <3>2. CASE FlushPrefs
      BY <1>4, <3>2 DEF FlushPrefs, dmVars, activityVars, Prefs
    <3>3. CASE Rebind
      BY <1>4, <3>3 DEF Rebind, dmVars, prefVars, Buttons
    <3> QED
      BY <1>4, <3>1, <3>2, <3>3
  <2>2. /\ UNCHANGED <<rows, info, active, pollerRunning, pollerPosts, poll, prefs>>
        /\ screen' = screen \/ (screen # "none" /\ screen' # "none")
    BY <1>4 DEF Pause, FlushPrefs, Rebind, dmVars, prefVars, activityVars
  <2>3. Tracking'
    <3>1. UsedRowsHaveModels' /\ NoScreenNoPoll'
      BY <2>2 DEF Tracking, UsedRowsHaveModels, NoScreenNoPoll
    <3>2. PollerState'
      BY <2>2 DEF Tracking, PollerState
    <3>3. Requests'
      BY <2>2 DEF Tracking, Requests
    <3> QED
      BY <3>1, <3>2, <3>3 DEF Tracking
  <2>4. ListAgreesWithPrefs'
    BY <2>2 DEF ListAgreesWithPrefs
  <2> QED
    BY <2>1, <2>3, <2>4
<1> QED
  BY <1>1, <1>2, <1>3, <1>4 DEF Lifecycle

-----------------------------------------------------------------------------
(* The clicks.                                                             *)

LEMMA DownloadExistingKeeps ==
  ASSUME StoreInv, NEW m \in Models, DownloadExisting(m)
  PROVE  StoreInv'
<1> USE DEF StoreInv, TypeOK, DownloadExisting, Clicked, MarkDownloaded, dmVars
<1>1. [NotDownloaded EXCEPT !.downloaded = TRUE] \in Info
  BY DEF NotDownloaded, Info
<1>2. /\ info'[m].downloaded = TRUE /\ info'[m].downloading = FALSE
      /\ \A k \in Models \ {m} : info'[k] = info[k]
      /\ info' \in [Models -> Info]
  BY <1>1 DEF NotDownloaded
<1>3. prefs' \in Prefs /\ prefs'.downloaded = prefs.downloaded \cup {m}
  BY DEF Prefs
<1>4. TypeOK'
  BY <1>2, <1>3
<1>5. Tracking'
  <2>1. UsedRowsHaveModels' /\ NoScreenNoPoll'
    BY DEF Tracking, UsedRowsHaveModels, NoScreenNoPoll
  <2>2. PollerState'
    BY DEF Tracking, PollerState
  <2>3. Requests'
    BY <1>2 DEF Tracking, Requests
  <2> QED
    BY <2>1, <2>2, <2>3 DEF Tracking
<1>6. ListAgreesWithPrefs'
  BY <1>2, <1>3, OneRowChanges
<1> QED
  BY <1>4, <1>5, <1>6

LEMMA DownloadKeeps ==
  ASSUME StoreInv, NEW m \in Models, NEW d \in Ids, Download(m, d)
  PROVE  StoreInv'
<1> USE DEF StoreInv, TypeOK, Download, Clicked
<1>1. /\ rows[d].status = "unused" /\ d \notin active
      /\ screen = "shown" /\ ~poll.busy /\ poll = NoPoll
  BY DEF Tracking, PollerState, Requests, LooperFree
<1>2. /\ rows' \in [Ids -> Row] /\ rows'[d].model = m /\ rows'[d].status = "active"
      /\ \A e \in Ids \ {d} : rows'[e] = rows[e]
  BY DEF Row
<1>3. /\ info' \in [Models -> Info]
      /\ info'[m].downloading = TRUE /\ info'[m].request = d
      /\ info'[m].downloaded = info[m].downloaded
      /\ \A k \in Models \ {m} : info'[k] = info[k]
  BY DEF Info
<1>4. pollerRunning' = TRUE /\ pollerPosts' = 1 /\ active' = active \cup {d} /\ poll' = poll
  BY <1>1 DEF StartPoller, Tracking, PollerState
<1>5. TypeOK'
  BY <1>2, <1>3, <1>4, TargetChanges DEF prefVars
<1>6. Tracking'
  <2>1. UsedRowsHaveModels' /\ NoScreenNoPoll'
    BY <1>1, <1>2 DEF Tracking, UsedRowsHaveModels, NoScreenNoPoll
  <2>2. PollerState'
    BY <1>1, <1>4 DEF PollerState
  <2>3. Requests'
    <3>1. \A e \in active' : rows'[e].status # "unused"
      BY <1>2, <1>4 DEF Tracking, Requests
    <3>2. ASSUME NEW k \in Models, info'[k].downloading
          PROVE  info'[k].request \in active' \ poll'.finished /\ rows'[info'[k].request].model = k
      <4>1. CASE k = m
        BY <1>1, <1>2, <1>3, <1>4, <4>1 DEF NoPoll
      <4>2. CASE k # m
        <5>1. info[k].request \in active \ poll.finished /\ rows[info[k].request].model = k
          BY <1>3, <3>2, <4>2 DEF Tracking, Requests
        <5>2. info[k].request \in Ids \ {d}
          BY <5>1, <1>1
        <5> QED
          BY <1>2, <1>3, <1>4, <4>2, <5>1, <5>2
      <4> QED
        BY <4>1, <4>2
    <3> QED
      BY <3>1, <3>2 DEF Requests
  <2> QED
    BY <2>1, <2>2, <2>3 DEF Tracking
<1>7. ListAgreesWithPrefs'
  BY <1>3 DEF ListAgreesWithPrefs, prefVars
<1> QED
  BY <1>5, <1>6, <1>7

\* What is the same in onCancel and in onDelete of a downloading model.
LEMMA StopTrackingKeeps ==
  ASSUME StoreInv, NEW m \in Models, info[m].downloading, LooperFree, screen = "shown",
         rows' \in [Ids -> Row],
         \A e \in Ids : /\ rows'[e].model = rows[e].model
                        /\ rows'[e].status = "unused" <=> rows[e].status = "unused",
         active' = active \ {info[m].request},
         StopIfNothingActive(pollerPosts),
         UNCHANGED <<screen, poll>>,
         \A k \in Models \ {m} : info'[k] = info[k],
         info'[m].downloading = FALSE
  PROVE  Tracking' /\ pollerRunning' \in BOOLEAN /\ pollerPosts' \in 0 .. 1
<1> USE DEF StoreInv, TypeOK
<1>1. PollerState' /\ pollerRunning' \in BOOLEAN /\ pollerPosts' \in 0 .. 1
  BY StopKeepsPoller
<1>2. UsedRowsHaveModels' /\ NoScreenNoPoll'
  BY DEF Tracking, UsedRowsHaveModels, NoScreenNoPoll
<1>3. Requests'
  <2>1. \A e \in active' : rows'[e].status # "unused"
    BY DEF Tracking, Requests
  <2>2. ASSUME NEW k \in Models, info'[k].downloading
        PROVE  info'[k].request \in active' \ poll'.finished /\ rows'[info'[k].request].model = k
    <3>1. k # m /\ info'[k] = info[k]
      BY <2>2
    <3>2. /\ info[k].request \in active \ poll.finished /\ rows[info[k].request].model = k
          /\ rows[info[m].request].model = m
      BY <2>2, <3>1 DEF Tracking, Requests
    <3>3. info[k].request # info[m].request
      BY <3>1, <3>2
    <3> QED
      BY <3>1, <3>2, <3>3
  <2> QED
    BY <2>1, <2>2 DEF Requests
<1> QED
  BY <1>1, <1>2, <1>3 DEF Tracking

LEMMA CancelKeeps ==
  ASSUME StoreInv, NEW m \in Models, Cancel(m)
  PROVE  StoreInv'
<1> USE DEF StoreInv, TypeOK, Cancel, Clicked
<1> DEFINE d == info[m].request
<1>1. d \in Ids /\ d \in active /\ rows[d].status # "unused"
  BY DEF Tracking, Requests
<1>2. /\ rows' \in [Ids -> Row]
      /\ \A e \in Ids : /\ rows'[e].model = rows[e].model
                        /\ rows'[e].status = "unused" <=> rows[e].status = "unused"
      /\ target' \in [Models -> Ids \cup {NoId}]
  BY <1>1, DiscardedKeeps DEF Removed
<1>3. /\ info' \in [Models -> Info]
      /\ info'[m].downloading = FALSE /\ info'[m].downloaded = info[m].downloaded
      /\ \A k \in Models \ {m} : info'[k] = info[k]
  BY DEF NotDownloading, Info
<1>4. Tracking' /\ pollerRunning' \in BOOLEAN /\ pollerPosts' \in 0 .. 1
  BY <1>2, <1>3, StopTrackingKeeps
<1>5. TypeOK'
  BY <1>2, <1>3, <1>4 DEF prefVars
<1>6. ListAgreesWithPrefs'
  BY <1>3 DEF ListAgreesWithPrefs, prefVars
<1> QED
  BY <1>4, <1>5, <1>6

\* clearModelState takes the flag of this model and no other.
LEMMA ForgottenKeeps ==
  ASSUME StoreInv, NEW m \in Models, Forgotten(m)
  PROVE  prefs' \in Prefs /\ prefs'.downloaded = prefs.downloaded \ {m}
  BY DEF StoreInv, TypeOK, Forgotten, Prefs

LEMMA DeleteDownloadingKeeps ==
  ASSUME StoreInv, NEW m \in Models, DeleteDownloading(m)
  PROVE  StoreInv'
<1> USE DEF StoreInv, TypeOK, DeleteDownloading, Clicked
<1> DEFINE d == info[m].request
<1>1. d \in Ids /\ d \in active /\ rows[d].status # "unused"
  BY DEF Tracking, Requests
<1>2. /\ rows' \in [Ids -> Row]
      /\ \A e \in Ids : /\ rows'[e].model = rows[e].model
                        /\ rows'[e].status = "unused" <=> rows[e].status = "unused"
  BY <1>1, RowChanges
<1>3. NotDownloaded \in Info
  BY DEF NotDownloaded, Info
<1>4. /\ info' \in [Models -> Info]
      /\ info'[m].downloading = FALSE /\ info'[m].downloaded = FALSE
      /\ \A k \in Models \ {m} : info'[k] = info[k]
  BY <1>3 DEF NotDownloaded
<1>5. Tracking' /\ pollerRunning' \in BOOLEAN /\ pollerPosts' \in 0 .. 1
  BY <1>2, <1>4, StopTrackingKeeps
<1>6. prefs' \in Prefs /\ prefs'.downloaded = prefs.downloaded \ {m}
  BY ForgottenKeeps
<1>7. TypeOK'
  BY <1>1, <1>2, <1>4, <1>5, <1>6, TargetChanges
<1>8. ListAgreesWithPrefs'
  BY <1>4, <1>6, OneRowChanges
<1> QED
  BY <1>5, <1>7, <1>8

LEMMA SelectKeeps ==
  ASSUME StoreInv, NEW m \in Models, Select(m)
  PROVE  StoreInv'
<1> USE DEF StoreInv, TypeOK, Select, Clicked, dmVars
<1>1. prefs' \in Prefs /\ prefs'.downloaded = prefs.downloaded
  BY DEF Prefs
<1>2. TypeOK'
  BY <1>1
<1>3. UsedRowsHaveModels' /\ NoScreenNoPoll'
  BY DEF Tracking, UsedRowsHaveModels, NoScreenNoPoll
<1>4. PollerState'
  BY DEF Tracking, PollerState
<1>5. Requests'
  BY DEF Tracking, Requests
<1>6. ListAgreesWithPrefs'
  BY <1>1 DEF ListAgreesWithPrefs
<1> QED
  BY <1>2, <1>3, <1>4, <1>5, <1>6 DEF Tracking

\* A row loses its flag in the list and in the preferences.
LEMMA RowIsForgotten ==
  ASSUME StoreInv, NEW m \in Models, SelectMissing(m) \/ Delete(m)
  PROVE  StoreInv'
<1> USE DEF StoreInv, TypeOK, SelectMissing, Delete, Clicked, dmVars
<1>1. prefs' \in Prefs /\ prefs'.downloaded = prefs.downloaded \ {m}
  BY ForgottenKeeps DEF Prefs
<1>2. NotDownloaded \in Info
  BY DEF NotDownloaded, Info
<1>3. /\ info' \in [Models -> Info]
      /\ info'[m].downloaded = FALSE
      /\ info'[m].downloading => info[m].downloading /\ info'[m].request = info[m].request
      /\ \A k \in Models \ {m} : info'[k] = info[k]
  <2>1. CASE SelectMissing(m)
    BY <2>1 DEF Info
  <2>2. CASE Delete(m)
    BY <1>2, <2>2 DEF NotDownloaded
  <2> QED
    BY <2>1, <2>2
<1>4. /\ target' \in [Models -> Ids \cup {NoId}]
      /\ UNCHANGED <<rows, broadcasts, disk, screen, bound, active, pollerRunning, pollerPosts, poll>>
  BY TargetChanges
<1>5. TypeOK'
  BY <1>1, <1>3, <1>4
<1>6. UsedRowsHaveModels' /\ NoScreenNoPoll'
  BY <1>4 DEF Tracking, UsedRowsHaveModels, NoScreenNoPoll
<1>7. PollerState'
  BY <1>4 DEF Tracking, PollerState
<1>8. Requests'
  BY <1>3, <1>4 DEF Tracking, Requests
<1>9. ListAgreesWithPrefs'
  BY <1>1, <1>3, OneRowChanges
<1> QED
  BY <1>5, <1>6, <1>7, <1>8, <1>9 DEF Tracking

-----------------------------------------------------------------------------
(* The polls.                                                              *)

\* A poll begins with everything that is tracked, from the timer or from a broadcast.
LEMMA BeginPollKeeps ==
  ASSUME StoreInv, PollerFires \/ (\E d \in Ids : ReceiveBroadcast(d))
  PROVE  StoreInv'
<1> USE DEF StoreInv, TypeOK, LooperFree
<1>1. /\ UNCHANGED <<rows, target, prefVars, screen, info, bound, active, pollerRunning>>
      /\ broadcasts' \in SUBSET Ids
  BY DEF PollerFires, ReceiveBroadcast, dmVars
<1>2. ~poll.busy /\ poll = NoPoll
  BY DEF PollerFires, ReceiveBroadcast, Tracking, PollerState
<1>3. \/ poll' = poll /\ pollerPosts' = pollerPosts
      \/ /\ active # {} /\ pollerPosts = 1
         /\ \E timer \in BOOLEAN :
              /\ BeginPoll(timer) /\ pollerPosts' = IF timer THEN 0 ELSE 1
  <2>1. CASE PollerFires
    <3>1. active # {} /\ pollerPosts = 1 /\ pollerPosts' = 0
      BY <1>2, <2>1 DEF PollerFires, Tracking, PollerState
    <3> QED
      BY <2>1, <3>1 DEF PollerFires
  <2>2. ASSUME NEW d \in Ids, ReceiveBroadcast(d), d \in active
        PROVE  active # {} /\ pollerPosts = 1 /\ pollerPosts' = 1 /\ BeginPoll(FALSE)
    BY <1>2, <2>2 DEF ReceiveBroadcast, Tracking, PollerState
  <2>3. ASSUME NEW d \in Ids, ReceiveBroadcast(d), d \notin active
        PROVE  poll' = poll /\ pollerPosts' = pollerPosts
    BY <2>3 DEF ReceiveBroadcast
  <2> QED
    BY <2>1, <2>2, <2>3
<1>4. poll'.finished = {} /\ (poll'.busy => active # {})
  BY <1>2, <1>3 DEF BeginPoll, NoPoll
<1>5. TypeOK'
  <2>1. poll' \in [busy : BOOLEAN, timer : BOOLEAN, todo : SUBSET Ids, finished : SUBSET Ids]
    <3>1. \A timer \in BOOLEAN : BeginPoll(timer) =>
            poll' \in [busy : BOOLEAN, timer : BOOLEAN, todo : SUBSET Ids, finished : SUBSET Ids]
      BY DEF BeginPoll
    <3> QED
      BY <1>3, <3>1
  <2>2. pollerPosts' \in 0 .. 1
    BY <1>3
  <2> QED
    BY <1>1, <2>1, <2>2 DEF prefVars
<1>6. PollerState'
  <2>1. CASE poll' = poll /\ pollerPosts' = pollerPosts
    BY <1>1, <2>1 DEF Tracking, PollerState
  <2>2. CASE \E timer \in BOOLEAN :
               active # {} /\ BeginPoll(timer) /\ pollerPosts' = IF timer THEN 0 ELSE 1
    <3>1. PICK timer \in BOOLEAN : BeginPoll(timer) /\ pollerPosts' = IF timer THEN 0 ELSE 1
      BY <2>2
    <3>2. /\ poll'.busy /\ poll'.timer = timer /\ poll'.todo = active /\ poll'.finished = {}
      BY <3>1 DEF BeginPoll
    <3>3. pollerRunning /\ active # {}
      BY <1>2, <2>2 DEF Tracking, PollerState
    <3> QED
      BY <1>1, <3>1, <3>2, <3>3 DEF PollerState
  <2> QED
    BY <1>3, <2>1, <2>2
<1>7. UsedRowsHaveModels'
  BY <1>1 DEF Tracking, UsedRowsHaveModels
<1>8. NoScreenNoPoll'
  BY <1>1, <1>4 DEF Tracking, NoScreenNoPoll
<1>9. Requests'
  BY <1>1, <1>2, <1>4 DEF Tracking, Requests, NoPoll
<1>10. ListAgreesWithPrefs'
  BY <1>1 DEF ListAgreesWithPrefs, prefVars
<1> QED
  BY <1>5, <1>6, <1>7, <1>8, <1>9, <1>10 DEF Tracking

\* What an entry of the loop may do: it writes the row of its download, which does
\* not download any more when the entry is finished.
LEMMA VisitKeeps ==
  ASSUME StoreInv, NEW d \in Ids, d \in poll.todo, NEW done \in BOOLEAN, Visit(d, done),
         UNCHANGED <<rows, broadcasts, disk, screen, bound, active, pollerRunning, pollerPosts>>,
         target' \in [Models -> Ids \cup {NoId}],
         prefs' \in Prefs,
         info' \in [Models -> Info],
         \A k \in Models \ {rows[d].model} : info'[k] = info[k],
         IF done THEN ~info'[rows[d].model].downloading
                 ELSE info'[rows[d].model].request = d,
         ListAgreesWithPrefs'
  PROVE  StoreInv'
<1> USE DEF StoreInv, TypeOK
<1>1. poll.busy /\ d \in active /\ d \notin poll.finished /\ rows[d].model \in Models
  BY DEF Tracking, PollerState, NoPoll, Requests, UsedRowsHaveModels
<1>2. /\ poll'.busy = poll.busy /\ poll'.timer = poll.timer
      /\ poll'.todo = poll.todo \ {d}
      /\ poll'.finished = IF done THEN poll.finished \cup {d} ELSE poll.finished
      /\ poll' \in [busy : BOOLEAN, timer : BOOLEAN, todo : SUBSET Ids, finished : SUBSET Ids]
  BY DEF Visit
<1>3. TypeOK'
  BY <1>2
<1>4. PollerState'
  BY <1>1, <1>2 DEF Tracking, PollerState
<1>5. UsedRowsHaveModels' /\ NoScreenNoPoll'
  BY <1>2 DEF Tracking, UsedRowsHaveModels, NoScreenNoPoll
<1>6. Requests'
  <2>1. \A e \in active' : rows'[e].status # "unused"
    BY DEF Tracking, Requests
  <2>2. ASSUME NEW k \in Models, info'[k].downloading
        PROVE  info'[k].request \in active' \ poll'.finished /\ rows'[info'[k].request].model = k
    <3>1. CASE k = rows[d].model
      BY <1>1, <1>2, <2>2, <3>1
    <3>2. CASE k # rows[d].model
      <4>1. info[k].request \in active \ poll.finished /\ rows[info[k].request].model = k
        BY <2>2, <3>2 DEF Tracking, Requests
      <4> QED
        BY <1>2, <3>2, <4>1
    <3> QED
      BY <3>1, <3>2
  <2> QED
    BY <2>1, <2>2 DEF Requests
<1> QED
  BY <1>3, <1>4, <1>5, <1>6 DEF Tracking

\* The download an entry of the loop is about, and the screen it is for.
LEMMA VisitedDownload ==
  ASSUME StoreInv, NEW d \in Ids, d \in poll.todo
  PROVE  rows[d].model \in Models /\ screen # "none"
  BY DEF StoreInv, TypeOK, Tracking, PollerState, NoPoll, Requests, UsedRowsHaveModels,
         NoScreenNoPoll

LEMMA PollEntryKeeps ==
  ASSUME StoreInv, NEW d \in Ids,
         PollRunning(d) \/ PollSuccessful(d) \/ PollLost(d) \/ PollFailed(d)
  PROVE  StoreInv'
<1> USE DEF StoreInv, TypeOK
<1> DEFINE m == rows[d].model
<1>0. d \in poll.todo /\ m \in Models /\ screen # "none"
  BY VisitedDownload DEF PollRunning, PollSuccessful, PollLost, PollFailed
<1>1. CASE PollRunning(d)
  <2>1. /\ info' \in [Models -> Info] /\ info'[m].request = d
        /\ \A k \in Models \ {m} : info'[k] = info[k]
        /\ info'[m].downloaded = info[m].downloaded
    BY <1>0, <1>1 DEF PollRunning, Info
  <2>2. ListAgreesWithPrefs'
    BY <1>1, <2>1 DEF PollRunning, prefVars, ListAgreesWithPrefs
  <2> QED
    BY <1>0, <1>1, <2>1, <2>2, VisitKeeps DEF PollRunning, prefVars, dmVars
<1>2. CASE PollSuccessful(d)
  <2>1. [NotDownloaded EXCEPT !.downloaded = TRUE] \in Info
    BY DEF NotDownloaded, Info
  <2>2. /\ info' \in [Models -> Info] /\ ~info'[m].downloading /\ info'[m].downloaded
        /\ \A k \in Models \ {m} : info'[k] = info[k]
    BY <1>0, <1>2, <2>1 DEF PollSuccessful, MarkDownloaded, NotDownloaded
  <2>3. prefs' \in Prefs /\ prefs'.downloaded = prefs.downloaded \cup {m}
    BY <1>0, <1>2 DEF PollSuccessful, MarkDownloaded, Prefs
  <2>4. ListAgreesWithPrefs'
    BY <1>0, <2>2, <2>3, OneRowChanges
  <2> QED
    BY <1>0, <1>2, <2>2, <2>3, <2>4, VisitKeeps DEF PollSuccessful, dmVars
<1>3. CASE PollLost(d) \/ PollFailed(d)
  <2>1. /\ info' \in [Models -> Info] /\ ~info'[m].downloading
        /\ \A k \in Models \ {m} : info'[k] = info[k]
        /\ info'[m].downloaded = info[m].downloaded
    <3>1. info' = NotDownloading(m)
      BY <1>3 DEF PollLost, PollFailed
    <3> QED
      BY <1>0, <3>1 DEF NotDownloading, Info
  <2>2. /\ target' \in [Models -> Ids \cup {NoId}]
        /\ Visit(d, TRUE)
        /\ UNCHANGED <<rows, broadcasts, prefs, disk, screen, bound, active, pollerRunning,
                       pollerPosts>>
    <3>1. CASE PollLost(d)
      BY <3>1, TargetChanges DEF PollLost, prefVars
    <3>2. CASE PollFailed(d)
      BY <3>2, TargetChanges DEF PollFailed, prefVars
    <3> QED
      BY <1>3, <3>1, <3>2
  <2>3. ListAgreesWithPrefs'
    BY <2>1, <2>2 DEF ListAgreesWithPrefs
  <2> QED
    BY <1>0, <2>1, <2>2, <2>3, VisitKeeps
<1> QED
  BY <1>1, <1>2, <1>3

\* The poll ends: what is finished is no longer tracked, and the timer posts itself
\* again exactly if something still is.
LEMMA PollEndsKeeps ==
  ASSUME StoreInv, PollEnds
  PROVE  StoreInv'
<1> USE DEF StoreInv, TypeOK, PollEnds
<1>1. /\ poll.busy /\ pollerRunning /\ pollerPosts = IF poll.timer THEN 0 ELSE 1
      /\ active' = active \ poll.finished /\ poll' = NoPoll
  BY DEF Tracking, PollerState
<1>2. /\ pollerRunning' <=> active' # {}
      /\ pollerRunning' \in BOOLEAN
      /\ pollerPosts' = IF active' # {} THEN 1 ELSE 0
  <2>1. pollerRunning' = (pollerRunning /\ active' # {})
    BY DEF StopIfNothingActive
  <2>2. pollerPosts' = IF active' = {} THEN 0
                       ELSE IF poll.timer THEN pollerPosts + 1 ELSE pollerPosts
    BY DEF StopIfNothingActive
  <2>3. (IF poll.timer THEN pollerPosts + 1 ELSE pollerPosts) = 1
    BY <1>1
  <2> HIDE DEF StoreInv, TypeOK, PollEnds
  <2> QED
    BY <1>1, <2>1, <2>2, <2>3
<1>3. poll' \in [busy : BOOLEAN, timer : BOOLEAN, todo : SUBSET Ids, finished : SUBSET Ids]
  BY DEF NoPoll
<1>4. TypeOK'
  BY <1>1, <1>2, <1>3 DEF dmVars, prefVars
<1>5. UsedRowsHaveModels' /\ NoScreenNoPoll'
  BY <1>1 DEF Tracking, UsedRowsHaveModels, NoScreenNoPoll, NoPoll, dmVars
<1>6. PollerState'
  BY <1>1, <1>2 DEF PollerState, NoPoll
<1>7. Requests'
  BY <1>1 DEF Tracking, Requests, NoPoll, dmVars
<1>8. ListAgreesWithPrefs'
  BY DEF ListAgreesWithPrefs, prefVars
<1> QED
  BY <1>4, <1>5, <1>6, <1>7, <1>8 DEF Tracking

-----------------------------------------------------------------------------
(* The theorems.                                                           *)

\* At every step of the DownloadManager, the user, the system and the polls, whatever
\* their order: types, tracking and the agreement of list and preferences.
THEOREM StoreCorrect == Safe => []StoreInv
<1>1. Init => StoreInv
  <2> SUFFICES ASSUME Init PROVE StoreInv
    OBVIOUS
  <2> USE DEF Init
  <2>1. TypeOK
    <3>1. UnusedRow \in Row /\ NotDownloaded \in Info /\ NoPrefs \in Prefs
      BY DEF UnusedRow, Row, NotDownloaded, Info, NoPrefs, Prefs
    <3>2. poll \in [busy : BOOLEAN, timer : BOOLEAN, todo : SUBSET Ids, finished : SUBSET Ids]
      BY DEF NoPoll
    <3>3. pollerRunning = FALSE /\ pollerPosts \in 0 .. 1
      OBVIOUS
    <3>4. disk = None /\ prefs = NoPrefs
      BY DEF NoPrefs
    <3> QED
      BY <3>1, <3>2, <3>3, <3>4 DEF TypeOK
  <2>2. Tracking
    BY DEF Tracking, UsedRowsHaveModels, PollerState, NoScreenNoPoll, Requests, UnusedRow,
           NotDownloaded, NoPoll
  <2>3. ListAgreesWithPrefs
    BY DEF ListAgreesWithPrefs
  <2> QED
    BY <2>1, <2>2, <2>3 DEF StoreInv
<1>2. StoreInv /\ [Next]_vars => StoreInv'
  <2> SUFFICES ASSUME StoreInv, [Next]_vars PROVE StoreInv'
    OBVIOUS
  <2>1. CASE DmStep
    BY <2>1, DmStepKeeps DEF DmStep
  <2>2. CASE Lifecycle
    BY <2>2, LifecycleKeeps
  <2>3. CASE Click
    BY <2>3, DownloadExistingKeeps, DownloadKeeps, CancelKeeps, SelectKeeps, RowIsForgotten,
       DeleteDownloadingKeeps DEF Click
  <2>4. CASE PollStep
    BY <2>4, BeginPollKeeps, PollEntryKeeps, PollEndsKeeps DEF PollStep
  <2>5. CASE \E d \in Ids : ReceiveBroadcast(d)
    BY <2>5, BeginPollKeeps
  <2>6. CASE UNCHANGED vars
    BY <2>6 DEF vars, dmVars, prefVars, activityVars, StoreInv, TypeOK, Tracking,
           UsedRowsHaveModels, PollerState, NoScreenNoPoll, Requests, ListAgreesWithPrefs
  <2> QED
    BY <2>1, <2>2, <2>3, <2>4, <2>5, <2>6 DEF Next
<1> QED
  BY <1>1, <1>2, PTL DEF Safe

\* No tracked download is left unwatched, and none is watched twice, whatever happens
\* between a poll's entries.
THEOREM PollerWatchesTrackedDownloadsHolds == Safe => []PollerWatchesTrackedDownloads
<1>1. StoreInv => PollerWatchesTrackedDownloads
  BY DEF StoreInv, Tracking, PollerState, PollerWatchesTrackedDownloads, LooperFree
<1> QED
  BY <1>1, StoreCorrect, PTL

\* The request id behind a Cancel button is always that of a tracked download of the
\* same model, also while a poll has found other downloads finished.
THEOREM CancelReachesItsDownloadHolds == Safe => []CancelReachesItsDownload
<1>1. StoreInv => CancelReachesItsDownload
  BY DEF StoreInv, Tracking, Requests, CancelReachesItsDownload
<1> QED
  BY <1>1, StoreCorrect, PTL

\* The flags of the list are those of the preferences.
THEOREM ListAgreesWithPrefsHolds == Safe => []ListAgreesWithPrefs
<1>1. StoreInv => ListAgreesWithPrefs
  BY DEF StoreInv
<1> QED
  BY <1>1, StoreCorrect, PTL

\* A step marks a model as downloaded in the preferences only when its file is there
\* and not empty, or when a dying process brings back what was on the disk.
THEOREM MarkedModelsHaveFilesHolds == Safe => MarkedModelsHaveFiles
<1> DEFINE Justified == \A m \in prefs'.downloaded \ prefs.downloaded :
                          screen' = "none" \/ NonEmpty(target', m)
<1>1. StoreInv /\ [Next]_vars => [Justified]_vars
  <2> SUFFICES ASSUME StoreInv, [Next]_vars PROVE Justified
    OBVIOUS
  <2> USE DEF StoreInv, TypeOK
  <2>0. ASSUME UNCHANGED prefs PROVE Justified
    BY <2>0
  <2>1. CASE DmStep
    BY <2>0, <2>1 DEF DmStep, DmStart, DmWrite, DmSucceed, DmFail, DmForget, prefVars
  <2>2. CASE Create \/ Resume
    <3> DEFINE kept == [m \in Models |-> IF Empty(target, m) THEN NoId ELSE target[m]]
    <3>1. target' = kept /\ prefs' = MergedPrefs(kept)
      BY <2>2 DEF Create, Resume, LoadModels
    <3>2. \A m \in prefs'.downloaded : NonEmpty(kept, m)
      BY <3>1 DEF MergedPrefs, Prefs
    <3> QED
      BY <3>1, <3>2
  <2>3. CASE ProcessDies
    BY <2>3 DEF ProcessDies, ActivityGone
  <2>4. CASE Pause \/ Destroy \/ FlushPrefs \/ Rebind
    BY <2>0, <2>4 DEF Pause, Destroy, FlushPrefs, Rebind, prefVars
  <2>5. CASE \E m \in Models : DownloadExisting(m)
    <3>1. PICK m \in Models : DownloadExisting(m)
      BY <2>5
    <3>2. prefs'.downloaded = prefs.downloaded \cup {m} /\ NonEmpty(target, m) /\ target' = target
      BY <3>1 DEF DownloadExisting, MarkDownloaded, Prefs, dmVars
    <3> QED
      BY <3>2
  <2>6. CASE \E m \in Models : Cancel(m) \/ \E d \in Ids : Download(m, d)
    BY <2>0, <2>6 DEF Cancel, Download, prefVars
  <2>7. CASE \E m \in Models : Select(m) \/ SelectMissing(m) \/ Delete(m) \/ DeleteDownloading(m)
    <3>1. prefs'.downloaded \subseteq prefs.downloaded
      BY <2>7, ForgottenKeeps DEF Select, SelectMissing, Delete, DeleteDownloading, Prefs
    <3> QED
      BY <3>1
  <2>8. CASE \E d \in Ids : PollSuccessful(d)
    <3>1. PICK d \in Ids : PollSuccessful(d)
      BY <2>8
    <3>2. /\ prefs'.downloaded = prefs.downloaded \cup {rows[d].model}
          /\ NonEmpty(target, rows[d].model) /\ target' = target
      BY <3>1 DEF PollSuccessful, Arrived, MarkDownloaded, Prefs, dmVars
    <3> QED
      BY <3>2
  <2>9. CASE \/ PollerFires \/ PollEnds
             \/ \E d \in Ids : PollRunning(d) \/ PollLost(d) \/ PollFailed(d) \/ ReceiveBroadcast(d)
    BY <2>0, <2>9
       DEF PollerFires, PollEnds, PollRunning, PollLost, PollFailed, ReceiveBroadcast, prefVars
  <2>10. CASE UNCHANGED vars
    BY <2>0, <2>10 DEF vars, prefVars
  <2> QED
    BY <2>1, <2>2, <2>3, <2>4, <2>5, <2>6, <2>7, <2>8, <2>9, <2>10
       DEF Next, Lifecycle, Click, PollStep
<1> QED
  BY <1>1, StoreCorrect, PTL DEF Safe, MarkedModelsHaveFiles
=============================================================================
