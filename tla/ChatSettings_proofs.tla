------------------------- MODULE ChatSettings_proofs -------------------------
(***************************************************************************)
(* What a save keeps of the screen, what a load sees of a save and what a  *)
(* kill can lose of it, for any presets, texts, slider moves and number of *)
(* saves.                                                                  *)
(***************************************************************************)
EXTENDS ChatSettings, TLAPS

-----------------------------------------------------------------------------
(* A kill during a save.                                                   *)

HasCounts(s) == s.saves \in Nat /\ s.roleSaves \in Nat

\* The inductive invariant: between the two commits of a save the settings are ahead,
\* in memory.  RoleNeverOutrunsSettings does not say so, and would not survive the
\* second commit by itself.
SettingsFirst ==
  /\ \A s \in {mem, disk} : HasCounts(s) /\ s.roleSaves <= s.saves
  /\ saving => mem.roleSaves < mem.saves

LEMMA InitSettingsFirst == Init => SettingsFirst
<1> SUFFICES ASSUME Init PROVE SettingsFirst
  OBVIOUS
<1>1. mem = Unsaved /\ disk = Unsaved /\ ~saving
  BY DEF Init
<1>2. Unsaved.saves = 0 /\ Unsaved.roleSaves = 0
  BY DEF Unsaved
<1> QED
  BY <1>1, <1>2 DEF SettingsFirst, HasCounts

\* Only five actions touch what SettingsFirst speaks about.
LEMMA StepSettingsFirst == SettingsFirst /\ [Next]_vars => SettingsFirst'
<1> SUFFICES ASSUME SettingsFirst, [Next]_vars
             PROVE  SettingsFirst'
  OBVIOUS
<1>0. ASSUME UNCHANGED <<mem, disk, saving>>
      PROVE  SettingsFirst'
  BY <1>0 DEF SettingsFirst, HasCounts
<1>1. CASE Save
  BY <1>1 DEF Save, SettingsFirst, HasCounts
<1>2. CASE SaveSystemRole
  <2>1. mem'.saves = mem.saves /\ mem'.roleSaves = mem.roleSaves + 1 /\ disk' = disk
    BY <1>2 DEF SaveSystemRole
  <2>2. saving /\ ~saving'
    BY <1>2 DEF SaveSystemRole
  <2> QED
    BY <2>1, <2>2 DEF SettingsFirst, HasCounts
<1>3. CASE Leave
  BY <1>3 DEF Leave, SettingsFirst, HasCounts
<1>4. CASE WriteFile
  BY <1>4 DEF WriteFile, screen, SettingsFirst, HasCounts
<1>5. CASE Kill
  BY <1>5 DEF Kill, SettingsFirst, HasCounts
<1>6. CASE \/ OnCreate \/ OnItemSelected
           \/ \E preset \in Presets \cup {"custom"} : ChoosePreset(preset)
           \/ \E text \in Typed \cup {""} : TypeRole(text)
           \/ \E move \in Moves : MoveSlider(move[1], move[2])
           \/ Reset \/ Recreate
  BY <1>0, <1>6
     DEF OnCreate, OnItemSelected, ChoosePreset, TypeRole, MoveSlider, Reset, Recreate
<1>7. CASE StartLoad \/ ReadKey \/ EndLoad
  BY <1>0, <1>7 DEF StartLoad, ReadKey, EndLoad, screen
<1>8. CASE UNCHANGED vars
  BY <1>0, <1>8 DEF vars
<1> QED
  BY <1>1, <1>2, <1>3, <1>4, <1>5, <1>6, <1>7, <1>8 DEF Next

\* The settings of a save are in every copy of the preferences that has its role,
\* whenever the process is killed.
THEOREM RoleNeverOutrunsSettingsHolds == Spec => []RoleNeverOutrunsSettings
<1>1. SettingsFirst => RoleNeverOutrunsSettings
  BY DEF SettingsFirst, RoleNeverOutrunsSettings
<1> QED
  BY <1>1, InitSettingsFirst, StepSettingsFirst, PTL DEF Spec

-----------------------------------------------------------------------------
(* The inductive invariant of the screen and the load.                     *)

AllPresets == Presets \cup {"custom"}
Positions(k) == 0 .. ToProgress(k, Highest[k])

\* The settings a save can give: each is the value of a position of its slider; and
\* those the store can hold.
SavedSettings ==
  {s \in [KeySet -> Int] : \A k \in KeySet : \E p \in Positions(k) : s[k] = FromProgress(k, p)}
SliderSettings == SavedSettings \cup {Defaults}

Preferences == [settings : SliderSettings, preset : AllPresets, text : Texts,
                saves : Nat, roleSaves : Nat]
Screens == {s \in [sliders : [KeySet -> Int], preset : AllPresets, text : Texts] :
              \A k \in KeySet : s.sliders[k] \in Positions(k)}
Readers == [next : 0 .. Len(Keys) + 1, got : [KeySet -> Int],
            from : [settings : SliderSettings, saves : Nat]]

Shapes ==
  /\ mem \in Preferences /\ disk \in Preferences
  /\ ui \in Screens /\ posted \subseteq AllPresets
  /\ open \in BOOLEAN /\ touched \in BOOLEAN /\ saving \in BOOLEAN
  /\ reader \in Readers

\* A screen nobody has touched shows what the store holds; of the role, that or the
\* text of its preset.
UntouchedShowsStore ==
  /\ saving => open
  /\ open /\ ~touched =>
       /\ ui.sliders = Sliders(mem.settings) /\ ui.preset = mem.preset
       /\ \/ ui.text = Prompt(mem)
          \/ ui.preset # "custom" /\ ui.text = DefaultPrompt(ui.preset)

\* What a save left in the store are values of positions.
SavesAreOfSliders == \A s \in {mem, disk} : s.saves > 0 => s.settings \in SavedSettings

\* A text that was typed under CUSTOM is still there.
TypedIsShown == typed # <<>> => ui.preset = "custom" /\ typed = <<ui.text>>

\* The keys the load has read so far: without a save they are those of the store, and
\* a save came after some number of them.
LoadFollowsStore ==
  LET old == reader.from.settings
      new == mem.settings
      read == 1 .. reader.next - 1
  IN reader.next > 0 =>
       /\ mem.saves >= reader.from.saves
       /\ mem.saves = reader.from.saves =>
            old = new /\ \A i \in read : reader.got[Keys[i]] = new[Keys[i]]
       /\ mem.saves = reader.from.saves + 1 =>
            \E n \in 0 .. reader.next - 1 : \A i \in read :
              reader.got[Keys[i]] = IF i <= n THEN old[Keys[i]] ELSE new[Keys[i]]

ScreenInv ==
  Shapes /\ SavesAreOfSliders /\ UntouchedShowsStore /\ TypedIsShown /\ LoadFollowsStore

-----------------------------------------------------------------------------
(* Sliders and texts.                                                      *)

LEMMA KeysAre ==
  /\ KeySet = {"max_tokens", "temperature", "top_k", "top_p"}
  /\ DOMAIN Keys = 1 .. 4 /\ Len(Keys) = 4
  /\ \A i \in 1 .. 4 : Keys[i] \in KeySet
  /\ \A k \in KeySet : \E i \in 1 .. 4 : Keys[i] = k
  /\ \A i, j \in 1 .. 4 : Keys[i] = Keys[j] => i = j
<1>1. /\ Keys[1] = "max_tokens" /\ Keys[2] = "temperature"
      /\ Keys[3] = "top_k" /\ Keys[4] = "top_p"
      /\ DOMAIN Keys = 1 .. 4 /\ Len(Keys) = 4
  BY DEF Keys
<1>2. \A i \in 1 .. 4 : i = 1 \/ i = 2 \/ i = 3 \/ i = 4
  OBVIOUS
<1>3. KeySet = {"max_tokens", "temperature", "top_k", "top_p"}
  <2>1. \A k \in KeySet : k \in {"max_tokens", "temperature", "top_k", "top_p"}
    BY <1>1, <1>2 DEF KeySet
  <2>2. 1 \in 1 .. 4 /\ 2 \in 1 .. 4 /\ 3 \in 1 .. 4 /\ 4 \in 1 .. 4
    OBVIOUS
  <2>3. \A k \in {"max_tokens", "temperature", "top_k", "top_p"} : k \in KeySet
    BY <1>1, <2>2 DEF KeySet
  <2> QED
    BY <2>1, <2>3
<1>4. \A i, j \in 1 .. 4 : Keys[i] = Keys[j] => i = j
  BY <1>1, <1>2
<1> QED
  BY <1>1, <1>2, <1>3, <1>4 DEF KeySet

LEMMA Scales ==
  /\ Lowest["max_tokens"] = 16 /\ Highest["max_tokens"] = 4096 /\ Step["max_tokens"] = 16
  /\ Lowest["temperature"] = 0 /\ Highest["temperature"] = 2000 /\ Step["temperature"] = 10
  /\ Lowest["top_k"] = 1 /\ Highest["top_k"] = 100 /\ Step["top_k"] = 1
  /\ Lowest["top_p"] = 100 /\ Highest["top_p"] = 1000 /\ Step["top_p"] = 10
  /\ Defaults["max_tokens"] = 128 /\ Defaults["temperature"] = 800
  /\ Defaults["top_k"] = 40 /\ Defaults["top_p"] = 900
  /\ HalfStep["max_tokens"] = 0 /\ HalfStep["temperature"] = 5
  /\ HalfStep["top_k"] = 0 /\ HalfStep["top_p"] = 5
  BY DEF Lowest, Highest, Step, Defaults, HalfStep

\* The rounding of a sum of floats is less than half a step.
LEMMA RoundingIsSmall ==
  ASSUME NEW k, NEW p
  PROVE  Rounding(k, p) \in -1 .. 1 /\ (k # "top_p" => Rounding(k, p) = 0)
<1>1. Rounding(k, p) = IF k = "top_p" /\ p \in Above THEN 1
                       ELSE IF k = "top_p" /\ p \in Below THEN -1 ELSE 0
  BY DEF Rounding, Above, Below
<1> HIDE DEF Rounding
<1> QED
  BY <1>1

\* A position is found again from the value that was made of it.
LEMMA PositionsAreFound ==
  ASSUME NEW k \in KeySet
  PROVE  /\ Lowest[k] \in Int /\ Step[k] \in Int /\ Highest[k] \in Int
         /\ ToProgress(k, Highest[k]) \in Nat
         /\ \A p \in Positions(k) :
              /\ FromProgress(k, p) \in Lowest[k] .. Highest[k]
              /\ ToProgress(k, FromProgress(k, p)) = p
         /\ Defaults[k] \in Lowest[k] .. Highest[k] /\ ToProgress(k, Defaults[k]) \in Positions(k)
<1>1. CASE k = "max_tokens"
  <2>1. ToProgress(k, Highest[k]) = 255 /\ ToProgress(k, Defaults[k]) = 7
    BY <1>1, Scales DEF ToProgress, Clamp
  <2>2. ASSUME NEW p \in 0 .. 255
        PROVE  /\ FromProgress(k, p) \in Lowest[k] .. Highest[k]
               /\ ToProgress(k, FromProgress(k, p)) = p
    <3>1. FromProgress(k, p) = 16 + p * 16
      BY <1>1, Scales, RoundingIsSmall DEF FromProgress, Clamp
    <3> QED
      BY <1>1, <3>1, Scales DEF ToProgress, Clamp
  <2>3. Positions(k) = 0 .. 255 /\ 7 \in 0 .. 255 /\ 255 \in Nat
    BY <2>1 DEF Positions
  <2>4. /\ Lowest[k] \in Int /\ Step[k] \in Int /\ Highest[k] \in Int
        /\ Defaults[k] \in Lowest[k] .. Highest[k]
    BY <1>1, Scales
  <2> QED
    BY <2>1, <2>2, <2>3, <2>4
<1>2. CASE k = "top_k"
  <2>1. ToProgress(k, Highest[k]) = 99 /\ ToProgress(k, Defaults[k]) = 39
    BY <1>2, Scales DEF ToProgress, Clamp
  <2>2. ASSUME NEW p \in 0 .. 99
        PROVE  /\ FromProgress(k, p) \in Lowest[k] .. Highest[k]
               /\ ToProgress(k, FromProgress(k, p)) = p
    <3>1. FromProgress(k, p) = 1 + p
      BY <1>2, Scales, RoundingIsSmall DEF FromProgress, Clamp
    <3> QED
      BY <1>2, <3>1, Scales DEF ToProgress, Clamp
  <2>3. Positions(k) = 0 .. 99 /\ 39 \in 0 .. 99 /\ 99 \in Nat
    BY <2>1 DEF Positions
  <2>4. /\ Lowest[k] \in Int /\ Step[k] \in Int /\ Highest[k] \in Int
        /\ Defaults[k] \in Lowest[k] .. Highest[k]
    BY <1>2, Scales
  <2> QED
    BY <2>1, <2>2, <2>3, <2>4
<1>3. CASE k = "temperature"
  <2>1. ToProgress(k, Highest[k]) = 200 /\ ToProgress(k, Defaults[k]) = 80
    BY <1>3, Scales DEF ToProgress, Clamp
  <2>2. ASSUME NEW p \in 0 .. 200
        PROVE  /\ FromProgress(k, p) \in Lowest[k] .. Highest[k]
               /\ ToProgress(k, FromProgress(k, p)) = p
    <3>1. FromProgress(k, p) = p * 10
      BY <1>3, Scales, RoundingIsSmall DEF FromProgress, Clamp
    <3> QED
      BY <1>3, <3>1, Scales DEF ToProgress, Clamp
  <2>3. Positions(k) = 0 .. 200 /\ 80 \in 0 .. 200 /\ 200 \in Nat
    BY <2>1 DEF Positions
  <2>4. /\ Lowest[k] \in Int /\ Step[k] \in Int /\ Highest[k] \in Int
        /\ Defaults[k] \in Lowest[k] .. Highest[k]
    BY <1>3, Scales
  <2> QED
    BY <2>1, <2>2, <2>3, <2>4
<1>4. CASE k = "top_p"
  <2>1. ToProgress(k, Highest[k]) = 90 /\ ToProgress(k, Defaults[k]) = 80
    BY <1>4, Scales DEF ToProgress, Clamp
  <2>2. ASSUME NEW p \in 0 .. 90
        PROVE  /\ FromProgress(k, p) \in Lowest[k] .. Highest[k]
               /\ ToProgress(k, FromProgress(k, p)) = p
    <3> DEFINE v == FromProgress(k, p)
    <3>1. v \in 100 .. 1000 /\ v - 100 >= p * 10 - 1 /\ v - 100 <= p * 10 + 1
      <4>1. PICK r \in -1 .. 1 : r = Rounding(k, p)
        BY RoundingIsSmall
      <4>2. v = Clamp(k, 100 + p * 10 + r)
        BY <1>4, <4>1, Scales DEF FromProgress
      <4> HIDE DEF v
      <4> QED
        BY <1>4, <4>2, Scales DEF Clamp
    <3>2. ToProgress(k, v) = (v - 100 + 5) \div 10
      <4> HIDE DEF v
      <4> QED
        BY <1>4, <3>1, Scales DEF ToProgress, Clamp
    <3> HIDE DEF v
    <3>3. ToProgress(k, v) = p
      BY <3>1, <3>2
    <3> QED
      BY <1>4, <3>1, <3>3, Scales DEF v
  <2>3. Positions(k) = 0 .. 90 /\ 80 \in 0 .. 90 /\ 90 \in Nat
    BY <2>1 DEF Positions
  <2>4. /\ Lowest[k] \in Int /\ Step[k] \in Int /\ Highest[k] \in Int
        /\ Defaults[k] \in Lowest[k] .. Highest[k]
    BY <1>4, Scales
  <2> QED
    BY <2>1, <2>2, <2>3, <2>4
<1> QED
  BY <1>1, <1>2, <1>3, <1>4, KeysAre

\* What a save stores, shown again, is on the positions it was saved from; and what
\* was shown from a save is stored again as it was.
LEMMA SlidersRoundTrip ==
  /\ \A s \in SliderSettings :
       /\ InRange(s)
       /\ \A k \in KeySet : Sliders(s)[k] \in Positions(k) /\ Clamp(k, s[k]) = s[k]
       /\ s \in [KeySet -> Int] /\ Sliders(s) \in [KeySet -> Int]
  /\ \A s \in SavedSettings : [k \in KeySet |-> FromProgress(k, Sliders(s)[k])] = s
  /\ \A f \in [KeySet -> Int] : (\A k \in KeySet : f[k] \in Positions(k)) =>
       /\ [k \in KeySet |-> FromProgress(k, f[k])] \in SavedSettings
       /\ Sliders([k \in KeySet |-> FromProgress(k, f[k])]) = f
  /\ SavedSettings \subseteq SliderSettings /\ Defaults \in SliderSettings
<1>1. Defaults \in [KeySet -> Int]
  BY KeysAre DEF Defaults
<1>2. ASSUME NEW s \in SliderSettings
      PROVE  /\ s \in [KeySet -> Int]
             /\ \A k \in KeySet : s[k] \in Lowest[k] .. Highest[k] /\ Sliders(s)[k] \in Positions(k)
  <2>1. CASE s = Defaults
    BY <1>1, <2>1, PositionsAreFound DEF Sliders
  <2>2. CASE s \in SavedSettings
    BY <2>2, PositionsAreFound DEF SavedSettings, Sliders
  <2> QED
    BY <2>1, <2>2 DEF SliderSettings
<1>3. ASSUME NEW s \in SliderSettings
      PROVE  /\ InRange(s) /\ Sliders(s) \in [KeySet -> Int]
             /\ \A k \in KeySet : Clamp(k, s[k]) = s[k]
  <2>1. \A k \in KeySet : Positions(k) \subseteq Int
    BY DEF Positions
  <2>2. Sliders(s) = [k \in KeySet |-> Sliders(s)[k]]
    BY DEF Sliders
  <2> QED
    BY <1>2, <2>1, <2>2, PositionsAreFound DEF InRange, Clamp
<1>4. ASSUME NEW s \in SavedSettings
      PROVE  [k \in KeySet |-> FromProgress(k, Sliders(s)[k])] = s
  <2>1. ASSUME NEW k \in KeySet PROVE FromProgress(k, Sliders(s)[k]) = s[k]
    <3>1. PICK p \in Positions(k) : s[k] = FromProgress(k, p)
      BY DEF SavedSettings
    <3>2. Sliders(s)[k] = ToProgress(k, s[k])
      BY DEF Sliders
    <3> QED
      BY <3>1, <3>2, PositionsAreFound
  <2>2. s \in [KeySet -> Int]
    BY DEF SavedSettings
  <2> QED
    BY <2>1, <2>2
<1>5. ASSUME NEW f \in [KeySet -> Int], \A k \in KeySet : f[k] \in Positions(k)
      PROVE  /\ [k \in KeySet |-> FromProgress(k, f[k])] \in SavedSettings
             /\ Sliders([k \in KeySet |-> FromProgress(k, f[k])]) = f
  <2> DEFINE s == [k \in KeySet |-> FromProgress(k, f[k])]
  <2>1. \A k \in KeySet : s[k] = FromProgress(k, f[k])
    OBVIOUS
  <2>2. \A k \in KeySet : s[k] \in Int /\ ToProgress(k, s[k]) = f[k]
    BY <1>5, <2>1, PositionsAreFound
  <2>3. s \in [KeySet -> Int]
    BY <2>2
  <2> HIDE DEF s
  <2>4. s \in SavedSettings
    BY <1>5, <2>1, <2>3 DEF SavedSettings
  <2>5. Sliders(s) = f
    BY <2>2 DEF Sliders
  <2> QED
    BY <2>4, <2>5 DEF s
<1> QED
  BY <1>2, <1>3, <1>4, <1>5 DEF SliderSettings

\* What the screen shows and a save stores of the role are texts of the screen.
LEMMA RoleTexts ==
  /\ "general" \in AllPresets /\ "" \in Texts /\ "general" # "custom"
  /\ DefaultSystemPrompt = "general" /\ DefaultPrompt("custom") = ""
  /\ \A preset \in AllPresets : DefaultPrompt(preset) \in Texts
  /\ \A s \in Preferences : Prompt(s) \in Texts
  /\ \A s \in Preferences : s.preset = "custom" => Prompt(s) # ""
<1>1. /\ "general" \in AllPresets /\ "" \in Texts /\ "general" # "custom"
      /\ DefaultSystemPrompt = "general" /\ DefaultPrompt("custom") = ""
  BY SettingsAssumption
     DEF SettingsAssumption, AllPresets, Texts, DefaultSystemPrompt, DefaultPrompt
<1>2. "general" \in Texts /\ "general" # ""
  BY SettingsAssumption DEF SettingsAssumption, Texts
<1>3. \A preset \in AllPresets : DefaultPrompt(preset) \in Texts
  BY DEF DefaultPrompt, AllPresets, Texts
<1>4. ASSUME NEW s \in Preferences
      PROVE  Prompt(s) \in Texts /\ (s.preset = "custom" => Prompt(s) # "")
  <2>1. s.preset \in AllPresets /\ s.text \in Texts
    BY DEF Preferences
  <2> QED
    BY <1>1, <1>2, <1>3, <2>1 DEF Prompt
<1> QED
  BY <1>1, <1>3, <1>4

-----------------------------------------------------------------------------
(* Every step keeps the invariant.                                         *)

LEMMA ClosedTypes == Closed \in Screens /\ Idle \in Readers /\ Unsaved \in Preferences
<1>1. Sliders(Defaults) \in [KeySet -> Int]
      /\ \A k \in KeySet : Sliders(Defaults)[k] \in Positions(k)
  BY SlidersRoundTrip
<1>2. Closed \in Screens
  <2>1. /\ Closed.sliders = Sliders(Defaults)
        /\ Closed \in [sliders : [KeySet -> Int], preset : AllPresets, text : Texts]
    BY <1>1, RoleTexts DEF Closed
  <2> QED
    BY <1>1, <2>1 DEF Screens
<1>3. Idle \in Readers
  BY SlidersRoundTrip, KeysAre DEF Idle, Readers
<1>4. Unsaved \in Preferences
  BY SlidersRoundTrip, RoleTexts DEF Unsaved, Preferences
<1> QED
  BY <1>2, <1>3, <1>4

LEMMA ShapesInductive ==
  ASSUME Shapes, UntouchedShowsStore, [Next]_vars
  PROVE  Shapes'
<1> USE DEF Shapes, screen
<1>1. CASE OnCreate
  <2>1. mem.settings \in SliderSettings /\ mem.preset \in AllPresets
    BY DEF Preferences
  <2>2. Prompt(mem) \in Texts
    BY RoleTexts
  <2>3. ui'.sliders = Sliders(mem.settings)
        /\ ui' \in [sliders : [KeySet -> Int], preset : AllPresets, text : Texts]
    BY <1>1, <2>1, <2>2, SlidersRoundTrip DEF OnCreate
  <2>4. ui' \in Screens
    BY <2>1, <2>3, SlidersRoundTrip DEF Screens
  <2> QED
    BY <1>1, <2>1, <2>4 DEF OnCreate
<1>2. CASE OnItemSelected
  <2>1. ui' \in Screens
    BY <1>2, RoleTexts DEF OnItemSelected, Screens
  <2> QED
    BY <1>2, <2>1 DEF OnItemSelected
<1>3. CASE \E preset \in AllPresets : ChoosePreset(preset)
  <2>1. PICK preset \in AllPresets : ChoosePreset(preset)
    BY <1>3
  <2>2. ui' \in Screens
    BY <2>1 DEF ChoosePreset, Screens
  <2>3. posted' \subseteq AllPresets
    BY <2>1 DEF ChoosePreset, Selected
  <2> QED
    BY <2>1, <2>2, <2>3 DEF ChoosePreset
<1>4. CASE \E text \in Typed \cup {""} : TypeRole(text)
  <2>1. PICK text \in Typed \cup {""} : TypeRole(text)
    BY <1>4
  <2>2. ui' \in Screens
    BY <2>1 DEF TypeRole, Screens, Texts
  <2> QED
    BY <2>1, <2>2 DEF TypeRole
<1>5. CASE \E move \in Moves : MoveSlider(move[1], move[2])
  <2>1. PICK move \in Moves : MoveSlider(move[1], move[2])
    BY <1>5
  <2> DEFINE k == move[1]
             p == move[2]
  <2>2. k \in KeySet /\ p \in Positions(k) /\ p \in Int
    BY MovesAssumption DEF MovesAssumption, Positions
  <2> HIDE DEF k, p
  <2>3. ui' = [ui EXCEPT !.sliders[k] = p]
    BY <2>1 DEF MoveSlider, k, p
  <2>4. ui' \in Screens
    BY <2>2, <2>3 DEF Screens
  <2> QED
    BY <2>1, <2>4 DEF MoveSlider
<1>6. CASE Reset
  <2>1. ui' \in Screens
    <3>1. ui' = [sliders |-> Sliders(Defaults), preset |-> "general",
                 text |-> DefaultPrompt("general")]
      BY <1>6 DEF Reset
    <3> QED
      BY <3>1, RoleTexts, SlidersRoundTrip DEF Screens
  <2>2. posted' \subseteq AllPresets
    BY <1>6, RoleTexts DEF Reset, Selected
  <2> QED
    BY <1>6, <2>1, <2>2 DEF Reset
<1>7. CASE Recreate
  <2>1. ui.preset \in AllPresets
    BY DEF Screens
  <2> QED
    BY <1>7, <2>1 DEF Recreate
<1>8. CASE Save
  <2>1. mem' \in Preferences
    BY <1>8, SlidersRoundTrip DEF Save, Preferences, Screens
  <2> QED
    BY <1>8, <2>1 DEF Save
<1>9. CASE SaveSystemRole
  <2>1. ui.preset \in AllPresets /\ ui.text \in Texts
    BY DEF Screens
  <2> DEFINE text == IF ui.text # "" THEN ui.text
                     ELSE IF ui.preset = "custom" THEN DefaultSystemPrompt
                     ELSE DefaultPrompt(ui.preset)
  <2>2. text \in Texts
    <3>1. DefaultSystemPrompt = DefaultPrompt("general") /\ "general" \in AllPresets
      BY RoleTexts DEF DefaultSystemPrompt
    <3> QED
      BY <2>1, <3>1, RoleTexts
  <2> HIDE DEF text
  <2>3. mem' \in Preferences
    <3>1. mem' = [settings |-> mem.settings, preset |-> ui.preset, text |-> text,
                  saves |-> mem.saves, roleSaves |-> mem.roleSaves + 1]
      BY <1>9 DEF SaveSystemRole, text
    <3>2. /\ mem.settings \in SliderSettings /\ mem.saves \in Nat /\ mem.roleSaves \in Nat
      BY DEF Preferences
    <3> QED
      BY <2>1, <2>2, <3>1, <3>2 DEF Preferences
  <2> QED
    BY <1>9, <2>3, ClosedTypes DEF SaveSystemRole
<1>10. CASE Leave
  BY <1>10, ClosedTypes DEF Leave
<1>11. CASE WriteFile
  BY <1>11 DEF WriteFile
<1>12. CASE StartLoad
  <2>1. reader' \in Readers
    BY <1>12, SlidersRoundTrip, KeysAre DEF StartLoad, Readers, Preferences
  <2> QED
    BY <1>12, <2>1 DEF StartLoad
<1>13. CASE ReadKey
  <2> DEFINE k == Keys[reader.next]
             v == Clamp(k, mem.settings[k])
  <2>1. k \in KeySet /\ reader.next \in 1 .. 4
    BY <1>13, KeysAre DEF ReadKey
  <2>2. v \in Int
    <3>1. mem.settings \in SliderSettings
      BY DEF Preferences
    <3>2. v = mem.settings[k] /\ mem.settings \in [KeySet -> Int]
      BY <2>1, <3>1, SlidersRoundTrip
    <3> QED
      BY <2>1, <3>2
  <2> HIDE DEF k, v
  <2>3. reader' = [reader EXCEPT !.next = @ + 1, !.got[k] = v]
    BY <1>13 DEF ReadKey, k, v
  <2>5. reader.next + 1 \in 0 .. 5 /\ Len(Keys) + 1 = 5
    BY <2>1, KeysAre
  <2>4. reader' \in Readers
    BY <2>1, <2>2, <2>3, <2>5 DEF Readers
  <2> QED
    BY <1>13, <2>4 DEF ReadKey
<1>14. CASE EndLoad
  BY <1>14, ClosedTypes DEF EndLoad
<1>15. CASE Kill
  BY <1>15, ClosedTypes DEF Kill
<1>16. CASE UNCHANGED vars
  BY <1>16 DEF vars
<1> QED
  BY <1>1, <1>2, <1>3, <1>4, <1>5, <1>6, <1>7, <1>8, <1>9, <1>10, <1>11, <1>12, <1>13,
     <1>14, <1>15, <1>16 DEF Next, AllPresets

LEMMA ShownInductive ==
  ASSUME Shapes, UntouchedShowsStore, TypedIsShown, [Next]_vars
  PROVE  UntouchedShowsStore' /\ TypedIsShown'
<1> USE DEF UntouchedShowsStore, TypedIsShown, screen
<1>0. /\ DOMAIN ui = {"sliders", "preset", "text"}
      /\ mem.settings \in SliderSettings /\ open \in BOOLEAN /\ touched \in BOOLEAN
  BY DEF Shapes, Screens, Preferences
<1>1. CASE OnCreate
  BY <1>1 DEF OnCreate
<1>2. CASE OnItemSelected
  <2>1. /\ ui'.sliders = ui.sliders /\ ui'.preset = ui.preset
        /\ ui'.text = IF ui.preset = "custom" THEN ui.text ELSE DefaultPrompt(ui.preset)
    BY <1>0, <1>2 DEF OnItemSelected
  <2>2. UNCHANGED <<mem, open, touched, typed, saving>>
    BY <1>2 DEF OnItemSelected
  <2> QED
    BY <2>1, <2>2
<1>3. CASE \E preset \in Presets \cup {"custom"} : ChoosePreset(preset)
  <2>1. PICK preset \in Presets \cup {"custom"} : ChoosePreset(preset)
    BY <1>3
  <2>2. /\ touched' = TRUE /\ UNCHANGED <<open, saving>>
        /\ ui'.preset = preset /\ ui'.text = ui.text
        /\ typed' = IF preset = "custom" THEN typed ELSE <<>>
    BY <1>0, <2>1 DEF ChoosePreset
  <2> QED
    BY <2>2
<1>4. CASE \E text \in Typed \cup {""} : TypeRole(text)
  <2>1. PICK text \in Typed \cup {""} : TypeRole(text)
    BY <1>4
  <2>2. /\ touched' = TRUE /\ UNCHANGED <<open, saving>>
        /\ ui'.preset = ui.preset /\ ui'.text = text
        /\ typed' = IF ui.preset = "custom" THEN <<text>> ELSE typed
    BY <1>0, <2>1 DEF TypeRole
  <2> QED
    BY <2>2
<1>5. CASE \E move \in Moves : MoveSlider(move[1], move[2])
  <2>1. PICK move \in Moves : MoveSlider(move[1], move[2])
    BY <1>5
  <2>2. /\ touched' = TRUE /\ UNCHANGED <<open, saving, typed>>
        /\ ui'.preset = ui.preset /\ ui'.text = ui.text
    BY <1>0, <2>1 DEF MoveSlider
  <2> QED
    BY <2>2
<1>6. CASE Reset
  BY <1>6 DEF Reset
<1>7. CASE Recreate
  BY <1>7 DEF Recreate
<1>8. CASE Save
  <2>1. /\ mem'.preset = mem.preset /\ mem'.text = mem.text /\ saving' = TRUE /\ open
        /\ mem'.settings = [k \in KeySet |-> FromProgress(k, ui.sliders[k])]
        /\ UNCHANGED <<open, ui, touched, typed>>
    BY <1>8 DEF Save
  <2>2. Prompt(mem') = Prompt(mem)
    BY <2>1 DEF Prompt
  <2>3. Sliders(mem'.settings) = ui.sliders
    BY <2>1, SlidersRoundTrip DEF Shapes, Screens
  <2> QED
    BY <2>1, <2>2, <2>3
<1>9. CASE SaveSystemRole \/ Leave
  <2>1. ~open' /\ typed' = <<>> /\ ~saving'
    <3>1. CASE SaveSystemRole
      BY <3>1 DEF SaveSystemRole
    <3>2. CASE Leave
      BY <3>2 DEF Leave, Shapes
    <3> QED
      BY <1>9, <3>1, <3>2
  <2> QED
    BY <2>1
<1>10. CASE WriteFile \/ StartLoad \/ ReadKey \/ EndLoad
  BY <1>10 DEF WriteFile, StartLoad, ReadKey, EndLoad
<1>11. CASE Kill
  BY <1>11 DEF Kill
<1>12. CASE UNCHANGED vars
  BY <1>12 DEF vars
<1> QED
  BY <1>1, <1>2, <1>3, <1>4, <1>5, <1>6, <1>7, <1>8, <1>9, <1>10, <1>11, <1>12 DEF Next

\* Only a save writes settings, and what it writes are values of positions.
LEMMA SavesInductive ==
  ASSUME Shapes, SavesAreOfSliders, [Next]_vars
  PROVE  SavesAreOfSliders'
<1> USE DEF screen
<1>1. ASSUME mem'.settings = mem.settings, mem'.saves = mem.saves, disk' = disk
      PROVE  SavesAreOfSliders'
  BY <1>1 DEF SavesAreOfSliders
<1>2. CASE Save
  <2>1. mem'.settings \in SavedSettings /\ disk' = disk
    BY <1>2, SlidersRoundTrip DEF Save, Shapes, Screens
  <2> QED
    BY <2>1 DEF SavesAreOfSliders
<1>3. CASE SaveSystemRole
  <2>1. mem'.settings = mem.settings /\ mem'.saves = mem.saves /\ disk' = disk
    BY <1>3 DEF SaveSystemRole
  <2> QED
    BY <1>1, <2>1
<1>4. CASE WriteFile \/ Kill
  BY <1>4 DEF WriteFile, Kill, SavesAreOfSliders
<1>5. CASE \/ OnCreate \/ OnItemSelected
           \/ \E preset \in Presets \cup {"custom"} : ChoosePreset(preset)
           \/ \E text \in Typed \cup {""} : TypeRole(text)
           \/ \E move \in Moves : MoveSlider(move[1], move[2])
           \/ Reset \/ Recreate \/ Leave
  BY <1>1, <1>5 DEF OnCreate, OnItemSelected, ChoosePreset, TypeRole, MoveSlider, Reset,
     Recreate, Leave
<1>6. CASE StartLoad \/ ReadKey \/ EndLoad
  BY <1>1, <1>6 DEF StartLoad, ReadKey, EndLoad
<1>7. CASE UNCHANGED vars
  BY <1>1, <1>7 DEF vars
<1> QED
  BY <1>2, <1>3, <1>4, <1>5, <1>6, <1>7 DEF Next

\* A load, key by key, beside the saves of the screen.
LEMMA LoadInductive ==
  ASSUME Shapes, LoadFollowsStore, [Next]_vars
  PROVE  LoadFollowsStore'
<1> USE DEF screen
<1>0. /\ reader.next \in 0 .. 5 /\ mem.saves \in Nat /\ reader.from.saves \in Nat
      /\ mem.settings \in SliderSettings
  BY KeysAre DEF Shapes, Readers, Preferences
<1>1. ASSUME reader' = reader, mem'.settings = mem.settings, mem'.saves = mem.saves
      PROVE  LoadFollowsStore'
  BY <1>1 DEF LoadFollowsStore
<1>2. CASE \/ OnCreate \/ OnItemSelected
           \/ \E preset \in Presets \cup {"custom"} : ChoosePreset(preset)
           \/ \E text \in Typed \cup {""} : TypeRole(text)
           \/ \E move \in Moves : MoveSlider(move[1], move[2])
           \/ Reset \/ Recreate \/ SaveSystemRole \/ Leave \/ WriteFile
  <2>1. reader' = reader
    BY <1>2 DEF OnCreate, OnItemSelected, ChoosePreset, TypeRole, MoveSlider, Reset,
       Recreate, SaveSystemRole, Leave, WriteFile
  <2>2. CASE SaveSystemRole
    <3>1. mem'.settings = mem.settings /\ mem'.saves = mem.saves
      BY <2>2 DEF SaveSystemRole
    <3> QED
      BY <1>1, <2>1, <3>1
  <2>3. CASE ~SaveSystemRole
    <3>1. mem' = mem
      BY <1>2, <2>3 DEF OnCreate, OnItemSelected, ChoosePreset, TypeRole, MoveSlider, Reset,
         Recreate, Leave, WriteFile
    <3> QED
      BY <1>1, <2>1, <3>1
  <2> QED
    BY <2>2, <2>3
<1>3. CASE Save
  <2>1. mem'.saves = mem.saves + 1 /\ reader' = reader
    BY <1>3 DEF Save
  <2>2. ASSUME reader.next > 0
        PROVE  /\ mem'.saves > reader.from.saves
               /\ mem'.saves = reader.from.saves + 1 =>
                    \E n \in 0 .. reader.next - 1 : \A i \in 1 .. reader.next - 1 :
                      reader.got[Keys[i]] = IF i <= n THEN reader.from.settings[Keys[i]]
                                                      ELSE mem'.settings[Keys[i]]
    <3>1. mem.saves >= reader.from.saves
      BY <2>2 DEF LoadFollowsStore
    <3>2. CASE mem.saves = reader.from.saves
      <4>1. \A i \in 1 .. reader.next - 1 : reader.got[Keys[i]] = reader.from.settings[Keys[i]]
        BY <2>2, <3>2 DEF LoadFollowsStore
      <4>2. reader.next - 1 \in 0 .. reader.next - 1 /\ mem'.saves > reader.from.saves
        BY <1>0, <2>1, <2>2, <3>2
      <4>3. \A i \in 1 .. reader.next - 1 : i <= reader.next - 1
        BY <1>0
      <4> QED
        BY <4>1, <4>2, <4>3
    <3>3. CASE mem.saves # reader.from.saves
      BY <1>0, <2>1, <3>1, <3>3
    <3> QED
      BY <3>2, <3>3
  <2>3. CASE reader.next > 0
    <3>1. mem'.saves # reader.from.saves /\ mem'.saves >= reader.from.saves
      BY <1>0, <2>1, <2>2, <2>3
    <3>2. reader' = reader
      BY <2>1
    <3> QED
      BY <2>2, <2>3, <3>1, <3>2 DEF LoadFollowsStore
  <2> QED
    BY <2>1, <2>3 DEF LoadFollowsStore
<1>4. CASE StartLoad
  <2>1. /\ reader'.next = 1 /\ mem' = mem
        /\ reader'.from.settings = mem.settings /\ reader'.from.saves = mem.saves
    BY <1>4 DEF StartLoad
  <2>2. 1 .. reader'.next - 1 = {}
    BY <2>1
  <2>3. mem'.saves # reader'.from.saves + 1 /\ mem'.saves >= reader'.from.saves
    BY <1>0, <2>1
  <2> QED
    BY <2>1, <2>2, <2>3 DEF LoadFollowsStore
<1>5. CASE ReadKey
  <2> DEFINE k == Keys[reader.next]
             r == reader.next
             got == reader.got
             old == reader.from.settings
             new == mem.settings
  <2>1. r \in 1 .. 4 /\ k \in KeySet
    BY <1>5, KeysAre DEF ReadKey
  <2>2. /\ reader'.next = r + 1 /\ reader'.from = reader.from /\ mem' = mem
        /\ reader'.got[k] = new[k]
        /\ \A i \in 1 .. r - 1 : reader'.got[Keys[i]] = got[Keys[i]]
    <3> DEFINE v == Clamp(k, new[k])
    <3>1. v = new[k]
      BY <1>0, <2>1, SlidersRoundTrip
    <3>2. reader' = [reader EXCEPT !.next = @ + 1, !.got[k] = v]
      BY <1>5 DEF ReadKey
    <3>3. got \in [KeySet -> Int]
      BY DEF Shapes, Readers
    <3>4. \A i \in 1 .. r - 1 : Keys[i] # k /\ Keys[i] \in KeySet
      BY <2>1, KeysAre
    <3>5. DOMAIN reader = {"next", "got", "from"} /\ mem' = mem
      BY <1>5 DEF ReadKey, Shapes, Readers
    <3> HIDE DEF v, k
    <3>6. reader'.next = r + 1 /\ reader'.from = reader.from /\ reader'.got = [got EXCEPT ![k] = v]
      BY <3>2, <3>5
    <3> QED
      BY <2>1, <3>1, <3>3, <3>4, <3>5, <3>6
  <2>3. mem.saves >= reader.from.saves
    BY <2>1 DEF LoadFollowsStore
  <2>4. CASE mem.saves = reader.from.saves
    <3>1. old = new /\ \A i \in 1 .. r - 1 : got[Keys[i]] = new[Keys[i]]
      BY <2>1, <2>4 DEF LoadFollowsStore
    <3>2. \A i \in 1 .. r : reader'.got[Keys[i]] = new[Keys[i]]
      <4>1. \A i \in 1 .. r : i = r \/ i \in 1 .. r - 1
        BY <2>1
      <4> QED
        BY <2>2, <3>1, <4>1
    <3>3. reader'.next - 1 = r /\ mem'.saves # reader'.from.saves + 1
      BY <1>0, <2>1, <2>2, <2>4
    <3> QED
      BY <2>2, <2>3, <3>1, <3>2, <3>3 DEF LoadFollowsStore
  <2>5. CASE mem.saves = reader.from.saves + 1
    <3>1. PICK n \in 0 .. r - 1 : \A i \in 1 .. r - 1 :
            got[Keys[i]] = IF i <= n THEN old[Keys[i]] ELSE new[Keys[i]]
      BY <2>1, <2>5 DEF LoadFollowsStore
    <3>2. \A i \in 1 .. r : reader'.got[Keys[i]] = IF i <= n THEN old[Keys[i]] ELSE new[Keys[i]]
      <4>1. \A i \in 1 .. r : i = r \/ i \in 1 .. r - 1
        BY <2>1
      <4>2. ~(r <= n)
        BY <2>1, <3>1
      <4> QED
        BY <2>2, <3>1, <4>1, <4>2
    <3>3. reader'.next - 1 = r /\ n \in 0 .. r /\ mem'.saves # reader'.from.saves
      BY <1>0, <2>1, <2>2, <2>5, <3>1
    <3> QED
      BY <2>2, <2>3, <3>2, <3>3 DEF LoadFollowsStore
  <2>6. CASE mem.saves # reader.from.saves /\ mem.saves # reader.from.saves + 1
    BY <2>2, <2>3, <2>6 DEF LoadFollowsStore
  <2> QED
    BY <2>4, <2>5, <2>6
<1>6. CASE EndLoad \/ Kill
  <2>1. reader'.next = 0
    BY <1>6 DEF EndLoad, Kill, Idle
  <2> QED
    BY <2>1 DEF LoadFollowsStore
<1>7. CASE UNCHANGED vars
  BY <1>1, <1>7 DEF vars
<1> QED
  BY <1>2, <1>3, <1>4, <1>5, <1>6, <1>7 DEF Next

-----------------------------------------------------------------------------
(* What follows.                                                           *)

\* The screen and the load keep to the store, in every reachable state.
THEOREM ScreenCorrect == Spec => []ScreenInv
<1>1. Init => ScreenInv
  <2> SUFFICES ASSUME Init PROVE ScreenInv
    OBVIOUS
  <2>1. Shapes
    BY ClosedTypes DEF Init, Shapes
  <2>2. UntouchedShowsStore /\ TypedIsShown
    BY DEF Init, UntouchedShowsStore, TypedIsShown
  <2>4. SavesAreOfSliders
    <3>1. mem.saves = 0 /\ disk.saves = 0
      BY DEF Init, Unsaved
    <3> QED
      BY <3>1 DEF SavesAreOfSliders
  <2>3. reader.next = 0
    BY DEF Init, Idle
  <2> QED
    BY <2>1, <2>2, <2>3, <2>4 DEF ScreenInv, LoadFollowsStore
<1>2. ScreenInv /\ [Next]_vars => ScreenInv'
  BY ShapesInductive, SavesInductive, ShownInductive, LoadInductive DEF ScreenInv
<1> QED
  BY <1>1, <1>2, PTL DEF Spec

\* A load during which one save happened has the values of before up to some key and
\* those of after from there on, never a value of before behind one of after; without
\* a save it has those of the store.
THEOREM LoadNeverGoesBackHolds == Spec => []LoadNeverGoesBack
<1>1. ScreenInv => LoadNeverGoesBack
  <2> SUFFICES ASSUME ScreenInv PROVE LoadNeverGoesBack
    OBVIOUS
  <2> DEFINE old == reader.from.settings
             new == mem.settings
  <2>1. TypeOK
    <3>1. \A s \in Preferences : /\ InRange(s.settings) /\ s.preset \in Presets \cup {"custom"}
                                 /\ s.text \in Texts
      BY SlidersRoundTrip DEF Preferences, AllPresets
    <3>2. /\ \A k \in KeySet : ui.sliders[k] \in 0 .. ToProgress(k, Highest[k])
          /\ ui.preset \in Presets \cup {"custom"} /\ ui.text \in Texts
      BY DEF ScreenInv, Shapes, Screens, Positions, AllPresets
    <3>3. reader.next \in 0 .. Len(Keys) + 1
      BY DEF ScreenInv, Shapes, Readers
    <3> QED
      BY <3>1, <3>2, <3>3 DEF ScreenInv, Shapes, TypeOK, AllPresets
  <2>2. ASSUME Loaded
        PROVE  /\ mem.saves = reader.from.saves => reader.got = new
               /\ mem.saves = reader.from.saves + 1 =>
                    \E n \in 0 .. Len(Keys) : \A i \in DOMAIN Keys :
                      reader.got[Keys[i]] = IF i <= n THEN old[Keys[i]] ELSE new[Keys[i]]
    <3>1. reader.next = 5 /\ reader.next - 1 = 4 /\ reader.next > 0
      BY <2>2, KeysAre DEF Loaded
    <3>2. /\ mem.saves = reader.from.saves =>
               \A i \in 1 .. 4 : reader.got[Keys[i]] = new[Keys[i]]
          /\ mem.saves = reader.from.saves + 1 =>
               \E n \in 0 .. 4 : \A i \in 1 .. 4 :
                 reader.got[Keys[i]] = IF i <= n THEN old[Keys[i]] ELSE new[Keys[i]]
      BY <3>1 DEF ScreenInv, LoadFollowsStore
    <3>3. reader.got \in [KeySet -> Int] /\ new \in [KeySet -> Int]
      BY SlidersRoundTrip DEF ScreenInv, Shapes, Readers, Preferences
    <3>4. (\A i \in 1 .. 4 : reader.got[Keys[i]] = new[Keys[i]]) => reader.got = new
      <4>1. ASSUME \A i \in 1 .. 4 : reader.got[Keys[i]] = new[Keys[i]]
            PROVE  \A k \in KeySet : reader.got[k] = new[k]
        BY <4>1, KeysAre
      <4> QED
        BY <3>3, <4>1
    <3> QED
      BY <3>2, <3>4, KeysAre
  <2> QED
    BY <2>1, <2>2 DEF LoadNeverGoesBack
<1> QED
  BY <1>1, ScreenCorrect, PTL

\* A text typed under CUSTOM is what a save under CUSTOM stores, whatever notifiers of
\* earlier choices were still posted when it was typed.
THEOREM TypedCustomRoleIsSavedHolds == Spec => TypedCustomRoleIsSaved
<1> DEFINE A == SaveSystemRole /\ ui.preset = "custom" /\ typed # <<>>
                => mem'.text = IF typed[1] = "" THEN DefaultSystemPrompt ELSE typed[1]
<1>1. ScreenInv /\ [Next]_vars => [A]_vars
  <2> SUFFICES ASSUME ScreenInv, SaveSystemRole, ui.preset = "custom", typed # <<>>
               PROVE  mem'.text = IF typed[1] = "" THEN DefaultSystemPrompt ELSE typed[1]
    OBVIOUS
  <2>1. typed[1] = ui.text
    BY DEF ScreenInv, TypedIsShown
  <2>2. mem'.text = IF ui.text # "" THEN ui.text ELSE DefaultSystemPrompt
    BY DEF SaveSystemRole
  <2> QED
    BY <2>1, <2>2
<1> QED
  BY <1>1, ScreenCorrect, PTL DEF Spec, TypedCustomRoleIsSaved

\* Saving a screen nobody has touched moves no slider and changes no value that came
\* from a save, and the role stays as it was but for an edited text of a preset, which
\* may become that preset's own, however often the screen was made anew and whatever
\* notifier ran.
THEOREM UntouchedSaveKeepsHolds == Spec => UntouchedSaveKeeps
<1> DEFINE Settings == /\ Sliders(mem'.settings) = Sliders(mem.settings)
                       /\ mem.saves > 0 => mem'.settings = mem.settings
           Role == /\ mem'.preset = mem.preset
                   /\ \/ Prompt(mem') = Prompt(mem)
                      \/ mem.preset # "custom" /\ Prompt(mem') = DefaultPrompt(mem.preset)
           A == ~touched => (Save => Settings) /\ (SaveSystemRole => Role)
<1>1. ScreenInv /\ [Next]_vars => [A]_vars
  <2> SUFFICES ASSUME ScreenInv, ~touched
               PROVE  (Save => Settings) /\ (SaveSystemRole => Role)
    OBVIOUS
  <2>1. ASSUME Save PROVE Settings
    <3>1. ui.sliders = Sliders(mem.settings) /\ mem.settings \in SliderSettings
      BY <2>1 DEF Save, ScreenInv, UntouchedShowsStore, Shapes, Preferences
    <3>2. mem'.settings = [k \in KeySet |-> FromProgress(k, ui.sliders[k])]
      BY <2>1 DEF Save
    <3>3. Sliders(mem'.settings) = ui.sliders
      BY <3>2, SlidersRoundTrip DEF ScreenInv, Shapes, Screens
    <3>4. mem.saves > 0 => mem.settings \in SavedSettings
      BY DEF ScreenInv, SavesAreOfSliders
    <3> QED
      BY <3>1, <3>2, <3>3, <3>4, SlidersRoundTrip
  <2>2. ASSUME SaveSystemRole PROVE Role
    <3>1. /\ ui.preset = mem.preset
          /\ ui.text = Prompt(mem) \/ (ui.preset # "custom" /\ ui.text = DefaultPrompt(ui.preset))
      BY <2>2 DEF SaveSystemRole, ScreenInv, UntouchedShowsStore
    <3>2. /\ mem'.preset = ui.preset
          /\ mem'.text = IF ui.text # "" THEN ui.text
                         ELSE IF ui.preset = "custom" THEN DefaultSystemPrompt
                         ELSE DefaultPrompt(ui.preset)
      BY <2>2 DEF SaveSystemRole
    <3>3. CASE mem.preset = "custom"
      <4>1. ui.text = Prompt(mem) /\ Prompt(mem) # ""
        BY <3>1, <3>3, RoleTexts DEF ScreenInv, Shapes
      <4> QED
        BY <3>1, <3>2, <4>1 DEF Prompt
    <3>4. CASE mem.preset # "custom"
      <4>1. ui.text = "" => mem'.text = DefaultPrompt(mem.preset)
        BY <3>1, <3>2, <3>4
      <4>2. ui.text # "" => mem'.text = ui.text
        BY <3>2
      <4>3. Prompt(mem') = IF mem'.text # "" THEN mem'.text ELSE DefaultPrompt(mem.preset)
        BY <3>1, <3>2, <3>4 DEF Prompt
      <4> QED
        BY <3>1, <3>2, <3>4, <4>1, <4>2, <4>3
    <3> QED
      BY <3>3, <3>4
  <2> QED
    BY <2>1, <2>2
<1> QED
  BY <1>1, ScreenCorrect, PTL DEF Spec, UntouchedSaveKeeps
=============================================================================
