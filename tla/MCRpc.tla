------------------------------- MODULE MCRpc -------------------------------
(* RpcClient for TLC: one topic and two pages, which replace each other.   *)
EXTENDS RpcClient

(* Bound: beside pages at most three troubles altogether, where a trouble  *)
(* is a login, a fault, a topic that was overtaken or a page that joined a *)
(* loop, and after a second login one page; with no page four logins and   *)
(* faults.                                                                 *)
FewTroubles ==
    \/ subs = <<>> /\ logins + faults <= 4
    \/ /\ logins + faults + Cardinality(overtaken) + Cardinality(joined) <= 3
       /\ logins > 1 => Len(subs) <= 1
=============================================================================
