--------------------------- MODULE WorkOwnership ---------------------------
(***************************************************************************)
(* What the leases of the task queue promise: an item of work is taken by  *)
(* one worker at a time, a worker takes one item at a time, and only the   *)
(* worker that took an item gives it back.                                 *)
(***************************************************************************)
CONSTANTS Worker, Item

VARIABLE owners    \* the workers that have each item in their hands

Init == owners = [i \in Item |-> {}]

Take(w, i) ==
  /\ owners[i] = {}
  /\ \A j \in Item : w \notin owners[j]
  /\ owners' = [owners EXCEPT ![i] = {w}]

GiveBack(w, i) ==
  /\ owners[i] = {w}
  /\ owners' = [owners EXCEPT ![i] = {}]

Next == \E w \in Worker, i \in Item : Take(w, i) \/ GiveBack(w, i)

Spec == Init /\ [][Next]_owners
=============================================================================
