---------------------------- MODULE ChatContract ----------------------------
(***************************************************************************)
(* What a chat screen promises the person in front of it: one question at  *)
(* a time, only once a model is ready; every question ends; and the model  *)
(* is reminded of the last StoredTurns questions that got an answer.       *)
(*                                                                         *)
(* This is the abstraction of ChatActivity that ChatSession implements.    *)
(***************************************************************************)
EXTENDS Naturals, Sequences

CONSTANTS
  MaxAsks,      \* bound: questions asked
  StoredTurns   \* length of the history

VARIABLES
  phase,        \* "starting", "loading", "ready", "answering", "noModel", "closed"
  asked,        \* number of questions
  remembered    \* the questions of the history, oldest first

vars == <<phase, asked, remembered>>

Init == phase = "starting" /\ asked = 0 /\ remembered = <<>>

Move(from, to) == phase = from /\ phase' = to

Open ==
  /\ Move("starting", "loading") \/ Move("starting", "noModel")
  /\ UNCHANGED <<asked, remembered>>

ModelDecided ==
  /\ Move("loading", "ready") \/ Move("loading", "noModel")
  /\ UNCHANGED <<asked, remembered>>

Ask ==
  /\ Move("ready", "answering")
  /\ asked < MaxAsks
  /\ asked' = asked + 1
  /\ UNCHANGED remembered

\* The history with question q at its end, the oldest one dropped when full.
Slide(history, q) ==
  LET longer == Append(history, q) IN
  IF Len(longer) > StoredTurns THEN Tail(longer) ELSE longer

\* A question ends.  Only the question that ends can enter the history.
Answer ==
  /\ Move("answering", "ready")
  /\ remembered' \in {remembered, Slide(remembered, asked)}
  /\ UNCHANGED asked

Close ==
  /\ phase \notin {"starting", "closed"}
  /\ phase' = "closed"
  /\ UNCHANGED <<asked, remembered>>

Next == Open \/ ModelDecided \/ Ask \/ Answer \/ Close

Safe == Init /\ [][Next]_vars

\* Loading and answering come to an end; the rest is up to the user.
Spec == Safe /\ WF_vars(ModelDecided) /\ WF_vars(Answer)

=============================================================================
