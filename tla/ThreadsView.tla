---------------------------- MODULE ThreadsView ----------------------------
(***************************************************************************)
(* What the console's threads page promises its user.  ThreadsPage says    *)
(* how it keeps it.                                                        *)
(***************************************************************************)
CONSTANTS ThreadOf,     \* the thread a run is of, or becomes
          Starting,     \* the runs that start a thread: they have no parent
          None

VARIABLE page

ParentThread(r) == IF r \in Starting THEN None ELSE ThreadOf[r]
Live(p)         == p.conn = "authenticated"

(* A run that is followed is shown without a node of its thread selected,  *)
(* with its own records only, and in no other thread; the statistics of a  *)
(* thread are never those of another one.                                  *)
DrawerShowsOneThing ==
    /\ page.audited \subseteq {page.monitored}
    /\ page.monitored # None =>
         ~page.node /\ page.visible /\ (page.detail = None \/ page.detail = ParentThread(page.monitored))
    /\ page.detail = None \/ page.stats = None \/ page.stats = page.detail

(* A visible, connected page always has the next look at the active runs   *)
(* ahead: its timer is set, or the answer that sets it is on its way.      *)
PollingContinues ==
    Live(page) /\ ~page.hidden => page.timer \/ \E c \in page.calls : c.poll

(* No control waits for a call that is no longer on its way: not the list, *)
(* nor the halt button, nor the page itself for the thread of a finished   *)
(* run, while it would not ask again.                                      *)
ControlsSettle ==
    LET busy(what) == \E c \in page.calls : c.what = what
    IN /\ page.listing /\ page.conn # "reconnecting" => busy("list")
       /\ page.halting # None => busy("halt")
       /\ page.finalizing # None => busy("final")
=============================================================================
