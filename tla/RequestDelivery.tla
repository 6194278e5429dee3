-------------------------- MODULE RequestDelivery --------------------------
(***************************************************************************)
(* What the delivery of a request promises whoever asked for it, without   *)
(* workers, watchdogs, copies of rows or phases: versions are made, some   *)
(* are finished, and one of them, if any, is the answer.  The answer is a  *)
(* finished version.  A challenger becomes the answer only by being        *)
(* chosen, which takes the choice from every other version.  An answer may *)
(* be taken back, as long as the request fails or the row that holds it is *)
(* overwritten by one who read it earlier, but it is never made up.        *)
(***************************************************************************)
CONSTANTS Version, Root, None

VARIABLES
  versions,     \* those there are
  challengers,  \* those of them that were made beside a finished one
  finished,     \* those that have a video
  chosen,       \* those marked as the best
  answer        \* the version that answers the request, or None

vars == <<versions, challengers, finished, chosen, answer>>

Init ==
  /\ versions = {Root}
  /\ challengers = {}
  /\ finished = {}
  /\ chosen = {}
  /\ answer = None

\* What may be chosen: a finished version, and the root once there is one, as it
\* counts as completed for what was finished below it.
Eligible == finished \cup {v \in {Root} : finished # {}}

Branch(v) ==
  /\ v \in Version \ versions
  /\ versions' = versions \cup {v}
  /\ \/ UNCHANGED challengers
     \/ finished # {} /\ challengers' = challengers \cup {v}
  /\ UNCHANGED <<finished, chosen, answer>>

\* The row of a version is written by one who may have read it long ago.  This may
\* finish the version, and may bring its mark back or take it away; if the version
\* is the root, it may make it the answer or take the answer back.
Write(v) ==
  /\ v \in versions
  /\ finished' \in {finished, finished \cup {v}}
  /\ \/ chosen' = chosen \ {v}
     \/ v \in Eligible /\ chosen' = chosen \cup {v}
  /\ \/ v # Root /\ UNCHANGED answer
     \/ v = Root /\ answer' = None
     \/ v = Root /\ v \in finished' \cup chosen' /\ answer' = v
  /\ UNCHANGED <<versions, challengers>>

\* A version that is not a challenger answers as soon as it is finished.
Resolve(v) ==
  /\ v \in finished \ challengers
  /\ answer' = v
  /\ UNCHANGED <<versions, challengers, finished, chosen>>

Choose(v) ==
  /\ v \in Eligible
  /\ chosen' = {v}
  /\ answer' = v
  /\ UNCHANGED <<versions, challengers, finished>>

Withdraw ==
  /\ answer' = None
  /\ UNCHANGED <<versions, challengers, finished, chosen>>

Next ==
  \/ \E v \in Version : Branch(v) \/ Write(v) \/ Resolve(v) \/ Choose(v)
  \/ Withdraw

Spec == Init /\ [][Next]_vars

-----------------------------------------------------------------------------
\* The answer has a video, or is the root and was chosen for one below it.
AnswerIsBacked ==
  answer # None => answer \in finished \/ (answer = Root /\ Root \in chosen)
=============================================================================
