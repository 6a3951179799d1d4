----------------------------- MODULE ModelStore -----------------------------
(***************************************************************************)
(* ModelStoreActivity with ModelDownloadHelper and ModelStateStore, next   *)
(* to the system's DownloadManager and the files of the models directory.  *)
(*                                                                         *)
(* All of the activity runs on the main looper, one callback at a time;    *)
(* pollDownloadProgress is cut between two entries of its loop because the *)
(* DownloadManager, another process, does not wait for it.  A file is the  *)
(* download that wrote it: deleting the file of a running download leaves  *)
(* the download writing to an unlinked one.                                *)
(***************************************************************************)
EXTENDS Naturals, FiniteSets

CONSTANTS
  Models,        \* ids of models_catalog.json
  MaxDownloads,  \* bound: downloads enqueued
  None           \* no model

ASSUME StoreAssumption ==
  /\ IsFiniteSet(Models)
  /\ None \notin Models
  /\ MaxDownloads \in Nat

Ids == 1 .. MaxDownloads       \* DownloadManager ids; the code's -1L is NoId
NoId == 0

VARIABLES
  \* the DownloadManager and the files
  rows,          \* per id: model, status and what it has written
  target,        \* per model: the id whose file is at getModelFile, or NoId
  broadcasts,    \* ACTION_DOWNLOAD_COMPLETE on its way
  \* SharedPreferences: what get reads, and the selection that is on disk
  prefs, disk,
  \* the activity
  screen,        \* "none", "shown", "paused"
  info,          \* per model: the fields of the current ModelInfo
  bound,         \* per model: the buttons its row was last laid out with
  active,        \* keys of activeDownloadModelIds; the value is rows[id].model
  pollerRunning,
  pollerPosts,   \* progressPoller callbacks waiting in the looper
  poll           \* a pollDownloadProgress in progress

dmVars == <<rows, target, broadcasts>>
prefVars == <<prefs, disk>>
activityVars == <<screen, info, bound, active, pollerRunning, pollerPosts, poll>>
vars == <<dmVars, prefVars, activityVars>>

-----------------------------------------------------------------------------
\* What a download has written.  length() > 0 does not mean complete.
NonEmpty(tgt, m) == tgt[m] # NoId /\ rows[tgt[m]].has \in {"partial", "complete"}
Empty(tgt, m) == tgt[m] # NoId /\ ~NonEmpty(tgt, m)

UnusedRow == [model |-> None, status |-> "unused", has |-> "nothing"]
NoPrefs == [downloaded |-> {}, selected |-> None]
NotDownloaded == [downloaded |-> FALSE, downloading |-> FALSE, request |-> NoId]
NoPoll == [busy |-> FALSE, timer |-> FALSE, todo |-> {}, finished |-> {}]

Init ==
  /\ rows = [d \in Ids |-> UnusedRow]
  /\ target = [m \in Models |-> NoId]
  /\ broadcasts = {}
  /\ prefs = NoPrefs /\ disk = None
  /\ screen = "none"
  /\ info = [m \in Models |-> NotDownloaded]
  /\ bound = [m \in Models |-> "download"]
  /\ active = {}
  /\ pollerRunning = FALSE /\ pollerPosts = 0
  /\ poll = NoPoll

Unlink(tgt, m) == [tgt EXCEPT ![m] = NoId]

-----------------------------------------------------------------------------
(* The DownloadManager, as the app relies on it.                           *)

Running(d) == rows[d].status = "active"

\* ACTION_DOWNLOAD_COMPLETE reaches the receivers that are registered.
Announce(d) == broadcasts' = IF screen = "none" THEN broadcasts ELSE broadcasts \cup {d}

\* The response arrives: the destination is created, or is there already
\* (ERROR_FILE_ALREADY_EXISTS).
DmStart(d) ==
  LET m == rows[d].model IN
  /\ Running(d) /\ rows[d].has = "nothing"
  /\ IF target[m] = NoId
       THEN /\ target' = [target EXCEPT ![m] = d]
            /\ rows' = [rows EXCEPT ![d].has = "empty"]
            /\ UNCHANGED broadcasts
       ELSE /\ rows' = [rows EXCEPT ![d].status = "failed"]
            /\ Announce(d)
            /\ UNCHANGED target
  /\ UNCHANGED <<prefVars, activityVars>>

DmWrite(d) ==
  /\ Running(d)
  /\ \/ rows[d].has = "empty" /\ rows' = [rows EXCEPT ![d].has = "partial"]
     \/ rows[d].has = "partial" /\ rows' = [rows EXCEPT ![d].has = "complete"]
  /\ UNCHANGED <<target, broadcasts, prefVars, activityVars>>

DmSucceed(d) ==
  /\ Running(d) /\ rows[d].has = "complete"
  /\ rows' = [rows EXCEPT ![d].status = "successful"]
  /\ Announce(d)
  /\ UNCHANGED <<target, prefVars, activityVars>>

\* Row d ends as status and what it has written is removed.
Discarded(d, status) ==
  LET m == rows[d].model IN
  /\ rows' = [rows EXCEPT ![d].status = status, ![d].has = "nothing"]
  /\ target' = IF target[m] = d THEN Unlink(target, m) ELSE target

\* No space, no host, ...; what was written may stay or be removed.
DmFail(d) ==
  /\ Running(d)
  /\ \/ Discarded(d, "failed")
     \/ rows' = [rows EXCEPT ![d].status = "failed"] /\ UNCHANGED target
  /\ Announce(d)
  /\ UNCHANGED <<prefVars, activityVars>>

\* DownloadManager.remove: the row and its file disappear ...
Removed(d) == Discarded(d, "gone")

\* ... by the user, in the system's list of downloads.
DmForget(d) ==
  /\ rows[d].status \in {"active", "successful", "failed"}
  /\ Removed(d)
  /\ UNCHANGED <<broadcasts, prefVars, activityVars>>

-----------------------------------------------------------------------------
(* The activity.                                                           *)

LooperFree == ~poll.busy

\* The buttons onBindViewHolder gives a row.
Buttons(i) == IF i.downloading THEN "cancel" ELSE IF i.downloaded THEN "owned" ELSE "download"

\* loadModels: mergePersistedState gives every model a new ModelInfo.  The rows are
\* laid out again before the user can reach them.
Merged(tgt) ==
  [m \in Models |-> [NotDownloaded EXCEPT !.downloaded = NonEmpty(tgt, m)]]

\* MUTANT: a model that lost its file keeps its flag.
AddedPrefs(tgt) ==
  [prefs EXCEPT !.downloaded = @ \cup {m \in Models : NonEmpty(tgt, m)}]

\* saveModelState or clearModelState for every model.
MergedPrefs(tgt) == [prefs EXCEPT !.downloaded = {m \in Models : NonEmpty(tgt, m)}]

LoadModels ==
  LET kept == [m \in Models |-> IF Empty(target, m) THEN NoId ELSE target[m]] IN
  /\ target' = kept
  /\ info' = Merged(kept)
  /\ bound' = [m \in Models |-> Buttons(info'[m])]
  /\ prefs' = MergedPrefs(kept)

\* onCreate, and the onResume that always follows it.
Create ==
  /\ screen = "none"
  /\ screen' = "shown"
  /\ LoadModels
  /\ UNCHANGED <<rows, broadcasts, disk, active, pollerRunning, pollerPosts, poll>>

Pause ==
  /\ LooperFree /\ screen = "shown"
  /\ screen' = "paused"
  /\ UNCHANGED <<dmVars, prefVars, info, bound, active, pollerRunning, pollerPosts, poll>>

\* onResume of an activity that was only covered.
Resume ==
  /\ LooperFree /\ screen = "paused"
  /\ screen' = "shown"
  /\ LoadModels
  /\ UNCHANGED <<rows, broadcasts, disk, active, pollerRunning, pollerPosts, poll>>

\* The fields of the activity and its receiver are gone.
ActivityGone ==
  /\ broadcasts' = {}
  /\ screen' = "none"
  /\ info' = [m \in Models |-> NotDownloaded]
  /\ bound' = [m \in Models |-> "download"]
  /\ active' = {}
  /\ pollerRunning' = FALSE /\ pollerPosts' = 0
  /\ poll' = NoPoll

\* onDestroy: back, or a rotation.
Destroy ==
  /\ LooperFree /\ screen # "none"
  /\ ActivityGone
  /\ UNCHANGED <<rows, target, prefVars>>

\* The process dies; an apply() that did not reach the disk is lost.  Flags of any
\* age come back; the merge in onCreate makes them agree with the files again.
ProcessDies ==
  /\ ActivityGone
  /\ \E flags \in SUBSET Models : prefs' = [downloaded |-> flags, selected |-> disk]
  /\ UNCHANGED <<rows, target, disk>>

\* The background write of apply().
FlushPrefs ==
  /\ disk # prefs.selected
  /\ disk' = prefs.selected
  /\ UNCHANGED <<dmVars, prefs, activityVars>>

\* The layout pass that notifyDataSetChanged asks for.
Rebind ==
  /\ LooperFree /\ screen # "none"
  /\ bound' = [m \in Models |-> Buttons(info[m])]
  /\ bound' # bound
  /\ UNCHANGED <<dmVars, prefVars, screen, info, active, pollerRunning, pollerPosts, poll>>

\* A click lands on the buttons a row was last laid out with; the callback acts
\* on its ModelInfo as it is by then.
Clicked(m, buttons) == LooperFree /\ screen = "shown" /\ bound[m] = buttons

MarkDownloaded(m) ==
  /\ info' = [info EXCEPT ![m] = [NotDownloaded EXCEPT !.downloaded = TRUE]]
  /\ prefs' = [prefs EXCEPT !.downloaded = @ \cup {m}]

\* onDownload finds the file already there.
DownloadExisting(m) ==
  /\ Clicked(m, "download") /\ ~info[m].downloading /\ ~info[m].downloaded
  /\ NonEmpty(target, m)
  /\ MarkDownloaded(m)
  /\ UNCHANGED <<dmVars, disk, screen, bound, active, pollerRunning, pollerPosts, poll>>

\* startProgressPoller.
StartPoller ==
  /\ pollerRunning' = TRUE
  /\ pollerPosts' = IF pollerRunning THEN pollerPosts ELSE pollerPosts + 1

\* onDownload deletes an empty file, enqueues, and starts the poller unless it runs.
Download(m, d) ==
  /\ Clicked(m, "download") /\ ~info[m].downloading /\ ~info[m].downloaded
  /\ ~NonEmpty(target, m)
  /\ rows[d].status = "unused" /\ \A e \in Ids : e < d => rows[e].status # "unused"
  /\ target' = Unlink(target, m)
  /\ rows' = [rows EXCEPT ![d] = [model |-> m, status |-> "active", has |-> "nothing"]]
  /\ info' = [info EXCEPT ![m].downloading = TRUE, ![m].request = d]
  /\ active' = active \cup {d}
  /\ StartPoller
  /\ UNCHANGED <<broadcasts, prefVars, screen, bound, poll>>

\* MUTANT: the poller is never stopped.
StopForgotten(posts) == UNCHANGED pollerRunning /\ pollerPosts' = posts

\* The end of onCancel and of pollDownloadProgress: stopProgressPoller when
\* nothing is active any more.
StopIfNothingActive(posts) ==
  /\ pollerRunning' = (pollerRunning /\ active' # {})
  /\ pollerPosts' = IF active' = {} THEN 0 ELSE posts

\* MUTANT: only the id is reset.
RequestForgotten(m) == [info EXCEPT ![m].request = NoId]

\* setDownloading(false), setDownloadRequestId(-1L).
NotDownloading(m) == [info EXCEPT ![m].downloading = FALSE, ![m].request = NoId]

\* clearModelState, and the selection if it was this model.
Forgotten(m) ==
  prefs' = [downloaded |-> prefs.downloaded \ {m},
            selected |-> IF prefs.selected = m THEN None ELSE prefs.selected]

\* onCancel.
Cancel(m) ==
  /\ Clicked(m, "cancel") /\ info[m].downloading
  /\ Removed(info[m].request)
  /\ active' = active \ {info[m].request}
  /\ StopIfNothingActive(pollerPosts)
  /\ info' = NotDownloading(m)
  /\ UNCHANGED <<broadcasts, prefVars, screen, bound, poll>>

\* onSelect: the chat covers the store.
Select(m) ==
  /\ Clicked(m, "owned") /\ info[m].downloaded
  /\ NonEmpty(target, m)
  /\ prefs' = [prefs EXCEPT !.selected = m]
  /\ screen' = "paused"
  /\ UNCHANGED <<dmVars, disk, info, bound, active, pollerRunning, pollerPosts, poll>>

SelectMissing(m) ==
  /\ Clicked(m, "owned") /\ info[m].downloaded
  /\ ~NonEmpty(target, m)
  /\ info' = [info EXCEPT ![m].downloaded = FALSE]
  /\ prefs' = [prefs EXCEPT !.downloaded = @ \ {m}]
  /\ UNCHANGED <<dmVars, disk, screen, bound, active, pollerRunning, pollerPosts, poll>>

\* onDelete of a model that is not downloading.
Delete(m) ==
  /\ Clicked(m, "owned") /\ ~info[m].downloading
  /\ target' = Unlink(target, m)
  /\ info' = [info EXCEPT ![m] = NotDownloaded]
  /\ Forgotten(m)
  /\ UNCHANGED <<rows, broadcasts, disk, screen, bound, active, pollerRunning,
                 pollerPosts, poll>>

\* onDelete when a poll has meanwhile found the model downloading: onCancel first.
DeleteDownloading(m) ==
  LET d == info[m].request IN
  /\ Clicked(m, "owned") /\ info[m].downloading
  /\ rows' = [rows EXCEPT ![d].status = "gone", ![d].has = "nothing"]
  /\ target' = Unlink(target, m)
  /\ active' = active \ {d}
  /\ StopIfNothingActive(pollerPosts)
  /\ info' = [info EXCEPT ![m] = NotDownloaded]
  /\ Forgotten(m)
  /\ UNCHANGED <<broadcasts, disk, screen, bound, poll>>

-----------------------------------------------------------------------------
(* pollDownloadProgress.                                                   *)

BeginPoll(timer) ==
  poll' = [busy |-> TRUE, timer |-> timer, todo |-> active, finished |-> {}]

\* progressPoller.run.
PollerFires ==
  /\ LooperFree /\ pollerPosts > 0
  /\ pollerPosts' = pollerPosts - 1
  /\ BeginPoll(TRUE)
  /\ UNCHANGED <<dmVars, prefVars, screen, info, bound, active, pollerRunning>>

\* downloadReceiver.onReceive, registered from onCreate to onDestroy.
ReceiveBroadcast(d) ==
  /\ LooperFree /\ d \in broadcasts
  /\ broadcasts' = broadcasts \ {d}
  /\ IF d \in active THEN BeginPoll(FALSE) ELSE UNCHANGED poll
  /\ UNCHANGED <<rows, target, prefVars, screen, info, bound, active, pollerRunning,
                 pollerPosts>>

\* MUTANT: a finished entry is not collected.
VisitUnfinished(d, done) == poll' = [poll EXCEPT !.todo = @ \ {d}]

\* One entry of the loop, which goes to the finished ones or stays.
Visit(d, done) ==
  poll' = [poll EXCEPT !.todo = @ \ {d}, !.finished = IF done THEN @ \cup {d} ELSE @]

\* STATUS_PENDING, RUNNING or PAUSED.
PollRunning(d) ==
  /\ d \in poll.todo /\ Running(d)
  /\ info' = [info EXCEPT ![rows[d].model].downloading = TRUE,
                          ![rows[d].model].request = d]
  /\ Visit(d, FALSE)
  /\ UNCHANGED <<dmVars, prefVars, screen, bound, active, pollerRunning, pollerPosts>>

\* MUTANT: the status is enough.
ArrivedByStatus(d) == rows[d].status = "successful"

\* STATUS_SUCCESSFUL, with the file where it should be.
Arrived(d) == rows[d].status = "successful" /\ NonEmpty(target, rows[d].model)

PollSuccessful(d) ==
  LET m == rows[d].model IN
  /\ d \in poll.todo /\ Arrived(d)
  /\ MarkDownloaded(m)
  /\ Visit(d, TRUE)
  /\ UNCHANGED <<dmVars, disk, screen, bound, active, pollerRunning, pollerPosts>>

\* STATUS_SUCCESSFUL without it, or no row at all: an empty file is deleted.
PollLost(d) ==
  LET m == rows[d].model IN
  /\ d \in poll.todo
  /\ rows[d].status = "gone" \/ (rows[d].status = "successful" /\ ~Arrived(d))
  /\ target' = IF Empty(target, m) THEN Unlink(target, m) ELSE target
  /\ info' = NotDownloading(m)
  /\ Visit(d, TRUE)
  /\ UNCHANGED <<rows, broadcasts, prefVars, screen, bound, active, pollerRunning,
                 pollerPosts>>

\* STATUS_FAILED: the file of the model is deleted, whatever its size.
PollFailed(d) ==
  LET m == rows[d].model IN
  /\ d \in poll.todo /\ rows[d].status = "failed"
  /\ target' = Unlink(target, m)
  /\ info' = NotDownloading(m)
  /\ Visit(d, TRUE)
  /\ UNCHANGED <<rows, broadcasts, prefVars, screen, bound, active, pollerRunning,
                 pollerPosts>>

\* After the loop; progressPoller.run posts itself again if it still runs.
PollEnds ==
  /\ poll.busy /\ poll.todo = {}
  /\ active' = active \ poll.finished
  /\ StopIfNothingActive(IF poll.timer THEN pollerPosts + 1 ELSE pollerPosts)
  /\ poll' = NoPoll
  /\ UNCHANGED <<dmVars, prefVars, screen, info, bound>>

-----------------------------------------------------------------------------
DmStep == \E d \in Ids : DmStart(d) \/ DmWrite(d) \/ DmSucceed(d) \/ DmFail(d) \/ DmForget(d)

Lifecycle == Create \/ Pause \/ Resume \/ Destroy \/ ProcessDies \/ FlushPrefs
             \/ Rebind

Click == \E m \in Models :
           \/ DownloadExisting(m) \/ (\E d \in Ids : Download(m, d)) \/ Cancel(m)
           \/ Select(m) \/ SelectMissing(m) \/ Delete(m) \/ DeleteDownloading(m)

PollStep == \/ PollerFires \/ PollEnds
            \/ \E d \in Ids : \/ PollRunning(d) \/ PollSuccessful(d)
                              \/ PollLost(d) \/ PollFailed(d)

Next == DmStep \/ Lifecycle \/ Click \/ PollStep \/ \E d \in Ids : ReceiveBroadcast(d)

Safe == Init /\ [][Next]_vars

\* The looper runs what is posted to it.  Nothing is assumed of the user, the
\* network or the system.
Spec == Safe /\ WF_vars(PollStep)

-----------------------------------------------------------------------------
Row == [model : Models \cup {None},
        status : {"unused", "active", "successful", "failed", "gone"},
        has : {"nothing", "empty", "partial", "complete"}]
Prefs == [downloaded : SUBSET Models, selected : Models \cup {None}]
Info == [downloaded : BOOLEAN, downloading : BOOLEAN, request : Ids \cup {NoId}]

\* Every variable stays in its domain; the poller is posted at most once.
TypeOK ==
  /\ rows \in [Ids -> Row]
  /\ target \in [Models -> Ids \cup {NoId}]
  /\ broadcasts \in SUBSET Ids
  /\ prefs \in Prefs /\ disk \in Models \cup {None}
  /\ screen \in {"none", "shown", "paused"}
  /\ info \in [Models -> Info]
  /\ bound \in [Models -> {"download", "cancel", "owned"}]
  /\ active \in SUBSET Ids
  /\ pollerRunning \in BOOLEAN /\ pollerPosts \in 0 .. 1
  /\ poll \in [busy : BOOLEAN, timer : BOOLEAN, todo : SUBSET Ids, finished : SUBSET Ids]

\* The type invariant, and: between two callbacks exactly one progressPoller is posted while a download
\* is tracked, and none otherwise: no tracked download is left unwatched, and
\* cancel, restart and broadcasts never double the poller.
PollerWatchesTrackedDownloads ==
  /\ TypeOK
  /\ LooperFree => /\ pollerRunning <=> active # {}
                   /\ pollerPosts = IF active # {} THEN 1 ELSE 0

\* A row that shows Cancel would cancel a tracked download of its own model:
\* the branch of onCancel for a missing request id is never needed.
CancelReachesItsDownload ==
  \A m \in Models : info[m].downloading =>
    info[m].request \in active /\ rows[info[m].request].model = m

\* What the list says and what the preferences say is the same, although the
\* handlers update one and the other separately.
ListAgreesWithPrefs ==
  screen # "none" => \A m \in Models : info[m].downloaded <=> m \in prefs.downloaded

\* A model never appears as downloaded without having had a file: whenever one
\* is newly marked, its file is there and not empty.
MarkedModelsHaveFiles ==
  [][\A m \in prefs'.downloaded \ prefs.downloaded :
       screen' = "none" \/ NonEmpty(target', m)]_vars

\* mergePersistedState: "Remove failed/partial downloads so retry starts
\* cleanly".  A model that is offered for selection is a whole file.
NoPartialModelIsOffered ==
  \A m \in Models : info[m].downloaded /\ target[m] # NoId => rows[target[m]].has = "complete"

-----------------------------------------------------------------------------
\* The end of a tracked download is noticed, if the activity lives, even when
\* its broadcast is lost.
EndsAreNoticed ==
  \A d \in Ids : (d \in active /\ ~Running(d)) ~> (d \notin active)

=============================================================================
