---------------------------- MODULE ReleaseContract ----------------------------
(***************************************************************************)
(* What a release promises the outside world, whatever crashes: one slot,  *)
(* external effects stage by stage and only while it is open, abandonment  *)
(* only before the first of them, acceptance only after the last.          *)
(***************************************************************************)
CONSTANTS Tasks    \* the tasks of each external stage

VARIABLES
  slot,    \* the release slot: "empty", "open", "accepted" or "abandoned"
  done     \* the effects of the release the slot names: stage and task

vars == <<slot, done>>

Earlier(s) ==
  CASE s = "snapshots" -> {}
    [] s = "remotes"   -> {"snapshots"}
    [] s = "artifacts" -> {"snapshots", "remotes"}

All == {"snapshots", "remotes", "artifacts"} \X Tasks

Init == slot = "empty" /\ done = {}

Open ==
  /\ slot # "open"
  /\ slot' = "open"
  /\ done' = {}

Effect(s, t) ==
  /\ slot = "open"
  /\ Earlier(s) \X Tasks \subseteq done
  /\ done' = done \union {<<s, t>>}
  /\ UNCHANGED slot

Accept ==
  /\ slot = "open"
  /\ done = All
  /\ slot' = "accepted"
  /\ UNCHANGED done

Abandon ==
  /\ slot = "open"
  /\ done = {}
  /\ slot' = "abandoned"
  /\ UNCHANGED done

Next == Open \/ (\E e \in All : Effect(e[1], e[2])) \/ Accept \/ Abandon

Spec == Init /\ [][Next]_vars
=============================================================================
