---------------------------- MODULE TaskOwnership ----------------------------
(***************************************************************************)
(* What a structured owner of concurrent tasks promises its caller: it     *)
(* admits tasks while its door is open, refuses them afterwards, and calls *)
(* itself drained only when nothing it admitted is alive.                  *)
(***************************************************************************)
CONSTANT Task

VARIABLES
  live,    \* admitted tasks that have not ended
  ended,   \* tasks that ended or were refused
  door     \* "open", "closed", "drained"

vars == <<live, ended, door>>

Init == live = {} /\ ended = {} /\ door = "open"

Admit(x) ==
  /\ door = "open"
  /\ x \notin live \cup ended
  /\ live' = live \cup {x}
  /\ UNCHANGED <<ended, door>>

End(x) ==
  /\ x \in live
  /\ live' = live \ {x}
  /\ ended' = ended \cup {x}
  /\ UNCHANGED door

Refuse(x) ==
  /\ door # "open"
  /\ x \notin live \cup ended
  /\ ended' = ended \cup {x}
  /\ UNCHANGED <<live, door>>

Close == door = "open" /\ door' = "closed" /\ UNCHANGED <<live, ended>>

Drain ==
  /\ door = "closed" /\ live = {}
  /\ door' = "drained"
  /\ UNCHANGED <<live, ended>>

Next == Close \/ Drain \/ \E x \in Task : Admit(x) \/ End(x) \/ Refuse(x)

Spec == Init /\ [][Next]_vars
=============================================================================
