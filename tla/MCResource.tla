------------------------------ MODULE MCResource ------------------------------
(* Instances of ResourceManager for TLC. *)
EXTENDS ResourceManager, TLC

CONSTANTS n1, n2, a, b, monitor, A, B, M

TwoWorkers == (a :> A) @@ (b :> B) @@ (monitor :> M)
(* Both callers create, lease and rename; one also prolongs lifetimes, the *)
(* other destroys and cancels.  Destroyers race with the monitor.          *)
Divided    == (a :> {"create", "with", "lifetime", "rename"}) @@ (b :> Operations \ {"lifetime"})

(* The properties say nothing of what follows a second restoration that     *)
(* undid the work of others: there the search stops.                       *)
UntilOverruled == ~overruled

Symmetry == Permutations({n1, n2})
===============================================================================
