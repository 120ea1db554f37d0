------------------------------- MODULE FilePair -------------------------------
(***************************************************************************)
(* What the configuration methods of the server promise of the file they   *)
(* edit: it and the version before it change together, whatever fails on   *)
(* the way, and neither changes what the process runs with.  Only a        *)
(* restart does, which may cost the earlier version, never the current one.*)
(***************************************************************************)
CONSTANTS Doc, None

VARIABLES current, previous, running

Init == current \in Doc /\ previous = None /\ running = current

(* An update, or a rollback when d is the previous version. *)
Replace(d) == current' = d /\ previous' = current /\ running' = running

(* The operator edits the file. *)
Edit(d) == current' = d /\ previous' = previous /\ running' = running

(* A crash may lose the earlier version, or leave a copy of the current one. *)
Restart == running' = current /\ current' = current /\ previous' \in {previous, None, current}

Next == Restart \/ \E d \in Doc : Replace(d) \/ Edit(d)

Spec == Init /\ [][Next]_<<current, previous, running>>
=============================================================================
