---------------------------- MODULE ChatSettings ----------------------------
(***************************************************************************)
(* The settings screen (ChatSettingsActivity) and the store behind it      *)
(* (LlmSettingsStore): sliders, role presets and role text, the spinner    *)
(* that reports its selection in a later pass, two commits per save, a     *)
(* worker of the chat that loads the settings key by key meanwhile, and a  *)
(* process that is killed before the file is written.                      *)
(*                                                                         *)
(* Settings are integers.  temperature and top_p, which are floats, count  *)
(* tenths of a hundredth: a multiple of ten is the float nearest to that   *)
(* many hundredths, and one more or less is the float next to it.          *)
(***************************************************************************)
EXTENDS Integers, Sequences

CONSTANTS
  Presets,   \* presets but CUSTOM that the user chooses; "general" is one
  Typed,     \* texts the user types
  Moves,     \* <<key, position>>: where the user moves sliders
  MaxSaves   \* bound: saves

ASSUME SettingsAssumption ==
  "general" \in Presets /\ "custom" \notin Presets /\ MaxSaves \in Nat

Keys == <<"max_tokens", "temperature", "top_k", "top_p">>
KeySet == {Keys[i] : i \in DOMAIN Keys}
Lowest == [max_tokens |-> 16, temperature |-> 0, top_k |-> 1, top_p |-> 100]
Highest == [max_tokens |-> 4096, temperature |-> 2000, top_k |-> 100, top_p |-> 1000]
Step == [max_tokens |-> 16, temperature |-> 10, top_k |-> 1, top_p |-> 10]
Defaults == [max_tokens |-> 128, temperature |-> 800, top_k |-> 40, top_p |-> 900]

\* the default prompt of a preset; that of CUSTOM is empty
DefaultPrompt(preset) == IF preset = "custom" THEN "" ELSE preset
DefaultSystemPrompt == DefaultPrompt("general")

VARIABLES
  mem,      \* the preferences in memory: settings, preset, text, and how often
            \* settings and role were saved
  disk,     \* the preferences in the file
  open,     \* the screen is shown
  ui,       \* its sliders, preset and text
  posted,   \* the selection notifiers that are posted: the positions when posted
  touched,  \* the user has changed something since the screen was opened
  typed,    \* <<the text typed since the last choice of a role>>
  saving,   \* between the two commits of a save
  reader    \* LlmSettingsStore.load on the worker: the next key, what was read,
            \* and the settings when it began

vars == <<mem, disk, open, ui, posted, touched, typed, saving, reader>>
screen == <<open, ui, posted, touched, typed, saving>>

Clamp(k, v) == IF v < Lowest[k] THEN Lowest[k] ELSE IF v > Highest[k] THEN Highest[k] ELSE v

\* Math.round of the float keys, integer division of the others
HalfStep == [max_tokens |-> 0, temperature |-> 5, top_k |-> 0, top_p |-> 5]
\* MUTANT: the floats are cut off, too.
MToProgress(k, v) == (Clamp(k, v) - Lowest[k]) \div Step[k]
ToProgress(k, v) == (Clamp(k, v) - Lowest[k] + HalfStep[k]) \div Step[k]

\* The positions p for which 0.1f + p / 100f is not the float nearest to its
\* hundredths but the one after or before it; 0.0f + p / 100f always is.
Above == {2, 11, 14, 43, 49, 54, 55, 60, 61, 66, 67, 68, 72, 73, 74, 79, 80, 85, 86}
Below == {13, 26, 39}
Rounding(k, p) ==
  CASE k = "top_p" /\ p \in Above -> 1
    [] k = "top_p" /\ p \in Below -> -1
    [] OTHER -> 0
FromProgress(k, p) == Clamp(k, Lowest[k] + p * Step[k] + Rounding(k, p))

\* setMax: a slider has no position beyond that of its highest value.
ASSUME MovesAssumption ==
  \A move \in Moves : move[1] \in KeySet /\ move[2] \in 0 .. ToProgress(move[1], Highest[move[1]])

Sliders(settings) == [k \in KeySet |-> ToProgress(k, settings[k])]

\* loadSystemRolePrompt
Prompt(store) ==
  IF store.text # "" THEN store.text
  ELSE IF store.preset = "custom" THEN DefaultSystemPrompt ELSE DefaultPrompt(store.preset)

Unsaved == [settings |-> Defaults, preset |-> "general", text |-> "", saves |-> 0, roleSaves |-> 0]
Closed == [sliders |-> Sliders(Defaults), preset |-> "general", text |-> ""]
Idle == [next |-> 0, got |-> Defaults, from |-> [settings |-> Defaults, saves |-> 0]]

Init ==
  /\ mem = Unsaved /\ disk = Unsaved /\ open = FALSE /\ ui = Closed /\ posted = {}
  /\ touched = FALSE /\ typed = <<>> /\ saving = FALSE /\ reader = Idle

-----------------------------------------------------------------------------
(* The screen *)

\* setSelection(position, false): a new position is reported by a posted notifier
Selected(preset) == IF preset = ui.preset THEN posted ELSE {preset}

\* onCreate; the first selection of a new spinner is always reported
OnCreate ==
  /\ ~open
  /\ open' = TRUE /\ touched' = FALSE /\ typed' = <<>>
  /\ ui' = [sliders |-> Sliders(mem.settings), preset |-> mem.preset, text |-> Prompt(mem)]
  /\ posted' = {mem.preset}
  /\ UNCHANGED <<mem, disk, saving, reader>>

\* MUTANT: the notifier does not ask which preset it is
MOnItemSelected ==
  /\ open /\ ~saving /\ posted # {} /\ posted' = {}
  /\ ui' = [ui EXCEPT !.text = DefaultPrompt(ui.preset)]
  /\ UNCHANGED <<mem, disk, open, touched, typed, saving, reader>>
\* the notifier runs, when suppressRoleSelectionEvent is FALSE again: the position is
\* that of now, and a preset but CUSTOM brings its text
OnItemSelected ==
  /\ open /\ ~saving /\ posted # {} /\ posted' = {}
  /\ ui' = [ui EXCEPT !.text = IF ui.preset = "custom" THEN @ ELSE DefaultPrompt(ui.preset)]
  /\ UNCHANGED <<mem, disk, open, touched, typed, saving, reader>>

ChoosePreset(preset) ==
  /\ open /\ ~saving /\ touched' = TRUE
  /\ posted' = Selected(preset) /\ ui' = [ui EXCEPT !.preset = preset]
  /\ typed' = IF preset = "custom" THEN typed ELSE <<>>
  /\ UNCHANGED <<mem, disk, open, saving, reader>>

TypeRole(text) ==
  /\ open /\ ~saving /\ touched' = TRUE
  /\ ui' = [ui EXCEPT !.text = text] /\ typed' = IF ui.preset = "custom" THEN <<text>> ELSE typed
  /\ UNCHANGED <<mem, disk, open, posted, saving, reader>>

MoveSlider(k, p) ==
  /\ open /\ ~saving /\ touched' = TRUE
  /\ ui' = [ui EXCEPT !.sliders[k] = p]
  /\ UNCHANGED <<mem, disk, open, posted, typed, saving, reader>>

\* btnReset
Reset ==
  /\ open /\ ~saving /\ touched' = TRUE
  /\ ui' = [sliders |-> Sliders(Defaults), preset |-> "general", text |-> DefaultPrompt("general")]
  /\ posted' = Selected("general") /\ typed' = <<>>
  /\ UNCHANGED <<mem, disk, open, saving, reader>>

\* The screen is made anew and its views restore what they showed; the restored
\* selection is reported too.
Recreate ==
  /\ open /\ ~saving /\ posted' = {ui.preset}
  /\ UNCHANGED <<mem, disk, open, ui, touched, typed, saving, reader>>

\* MUTANT: the role is committed first
MSave ==
  /\ open /\ ~saving /\ mem.saves < MaxSaves
  /\ mem' = [mem EXCEPT !.preset = ui.preset, !.text = ui.text, !.roleSaves = @ + 1]
  /\ saving' = TRUE
  /\ UNCHANGED <<disk, open, ui, posted, touched, typed, reader>>
\* btnSave, first half: LlmSettingsStore.save, a commit to memory
Save ==
  /\ open /\ ~saving /\ mem.saves < MaxSaves
  /\ mem' = [settings |-> [k \in KeySet |-> FromProgress(k, ui.sliders[k])],
             preset |-> mem.preset, text |-> mem.text,
             saves |-> mem.saves + 1, roleSaves |-> mem.roleSaves]
  /\ saving' = TRUE
  /\ UNCHANGED <<disk, open, ui, posted, touched, typed, reader>>

\* second half: saveSystemRole, another commit, and finish
SaveSystemRole ==
  /\ saving
  /\ mem' = [settings |-> mem.settings, preset |-> ui.preset,
             text |-> IF ui.text # "" THEN ui.text
                      ELSE IF ui.preset = "custom" THEN DefaultSystemPrompt
                      ELSE DefaultPrompt(ui.preset),
             saves |-> mem.saves, roleSaves |-> mem.roleSaves + 1]
  /\ saving' = FALSE /\ open' = FALSE /\ ui' = Closed /\ posted' = {} /\ typed' = <<>>
  /\ touched' = FALSE
  /\ UNCHANGED <<disk, reader>>

\* the up button
Leave ==
  /\ open /\ ~saving
  /\ open' = FALSE /\ ui' = Closed /\ posted' = {} /\ typed' = <<>> /\ touched' = FALSE
  /\ UNCHANGED <<mem, disk, saving, reader>>

-----------------------------------------------------------------------------
(* Other threads, and the end of the process *)

\* apply() has queued a write of what is in memory
WriteFile == disk # mem /\ disk' = mem /\ UNCHANGED <<mem, screen, reader>>

StartLoad ==
  /\ reader = Idle
  /\ reader' = [next |-> 1, got |-> Defaults,
                from |-> [settings |-> mem.settings, saves |-> mem.saves]]
  /\ UNCHANGED <<mem, disk, screen>>

\* MUTANT: the keys are read from the file
MReadKey ==
  /\ reader.next \in DOMAIN Keys
  /\ LET k == Keys[reader.next]
     IN reader' = [reader EXCEPT !.next = @ + 1, !.got[k] = disk.settings[k]]
  /\ UNCHANGED <<mem, disk, screen>>
ReadKey ==
  /\ reader.next \in DOMAIN Keys
  /\ LET k == Keys[reader.next]
     IN reader' = [reader EXCEPT !.next = @ + 1, !.got[k] = Clamp(k, mem.settings[k])]
  /\ UNCHANGED <<mem, disk, screen>>

Loaded == reader.next = Len(Keys) + 1
EndLoad == Loaded /\ reader' = Idle /\ UNCHANGED <<mem, disk, screen>>

Kill ==
  /\ mem' = disk /\ open' = FALSE /\ ui' = Closed /\ posted' = {} /\ touched' = FALSE
  /\ typed' = <<>> /\ saving' = FALSE /\ reader' = Idle /\ UNCHANGED disk

Next ==
  \/ OnCreate
  \/ OnItemSelected
  \/ \E preset \in Presets \cup {"custom"} : ChoosePreset(preset)
  \/ \E text \in Typed \cup {""} : TypeRole(text)
  \/ \E move \in Moves : MoveSlider(move[1], move[2])
  \/ Reset
  \/ Recreate
  \/ Save
  \/ SaveSystemRole
  \/ Leave
  \/ WriteFile
  \/ StartLoad
  \/ ReadKey
  \/ EndLoad
  \/ Kill

Spec == Init /\ [][Next]_vars

-----------------------------------------------------------------------------
(* Properties *)

Texts == Typed \cup Presets \cup {""}
InRange(settings) == \A k \in KeySet : settings[k] \in Lowest[k] .. Highest[k]

TypeOK ==
  /\ \A s \in {mem, disk} :
       InRange(s.settings) /\ s.preset \in Presets \cup {"custom"} /\ s.text \in Texts
  /\ \A k \in KeySet : ui.sliders[k] \in 0 .. ToProgress(k, Highest[k])
  /\ ui.preset \in Presets \cup {"custom"} /\ ui.text \in Texts
  /\ posted \subseteq Presets \cup {"custom"}
  /\ open \in BOOLEAN /\ touched \in BOOLEAN /\ saving \in BOOLEAN
  /\ reader.next \in 0 .. Len(Keys) + 1

\* Saving a screen nobody has touched moves no slider, and changes no value that came
\* from a save: positions are found again from the floats that were made of them,
\* and values do not drift from save to save.  (Defaults are not made from positions:
\* the first save turns a top_p of 0.9f into 0.90000004f.)  The role stays as it was,
\* however often the screen was made anew, but for an edited text of a preset, which
\* the notifier of the first selection may replace by that preset's own.
UntouchedSaveKeeps ==
  [][~touched =>
       /\ Save => /\ Sliders(mem'.settings) = Sliders(mem.settings)
                  /\ mem.saves > 0 => mem'.settings = mem.settings
       /\ SaveSystemRole =>
            /\ mem'.preset = mem.preset
            /\ \/ Prompt(mem') = Prompt(mem)
               \/ mem.preset # "custom" /\ Prompt(mem') = DefaultPrompt(mem.preset)]_vars

\* A text typed under CUSTOM is what a save under CUSTOM stores, whatever
\* notifiers of earlier choices were still posted when it was typed.
TypedCustomRoleIsSaved ==
  [][SaveSystemRole /\ ui.preset = "custom" /\ typed # <<>>
     => mem'.text = IF typed[1] = "" THEN DefaultSystemPrompt ELSE typed[1]]_vars

\* The type invariant, and: a load on the worker during which one save happened
\* has the values of before up to some key and those of after from there on;
\* without a save it has those of the store.
LoadNeverGoesBack ==
  /\ TypeOK
  /\ LET old == reader.from.settings
        new == mem.settings
    IN Loaded =>
       /\ mem.saves = reader.from.saves => reader.got = new
       /\ mem.saves = reader.from.saves + 1 =>
            \E n \in 0 .. Len(Keys) : \A i \in DOMAIN Keys :
              reader.got[Keys[i]] = IF i <= n THEN old[Keys[i]] ELSE new[Keys[i]]

\* Also after the process was killed, no role is there whose settings were lost.
RoleNeverOutrunsSettings ==
  \A s \in {mem, disk} : s.roleSaves <= s.saves
=============================================================================
