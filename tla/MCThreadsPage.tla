--------------------------- MODULE MCThreadsPage ---------------------------
(* ThreadsPage for TLC: two runs of a stored thread and one that starts a  *)
(* thread; the page is opened by a link to one of the first two, or that   *)
(* link is followed in it.                                                 *)
EXTENDS ThreadsPage

MCThreadOf == [r \in Run |-> IF r \in Starting THEN "t2" ELSE "t1"]

MCFollowed == {ToRun("r1")}

(* Bound: of the two runs of the stored thread, which the link alone tells *)
(* apart, the second starts after the first.                               *)
InOrderOfName == run["r1"] # "waiting" \/ run["r2"] = "waiting"

(* Bound: the records of a run are asked for once by polls and once by what *)
(* is not a poll, at the same time.                                        *)
FewAudits ==
    \A c, d \in page.calls :
      c.what = "audit" /\ d.what = "audit" /\ c.to = d.to /\ c.poll = d.poll => c = d
=============================================================================
