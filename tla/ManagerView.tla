---------------------------- MODULE ManagerView ----------------------------
(***************************************************************************)
(* What the console's manager pages promise their user.  ManagerPages says *)
(* how they keep it.                                                       *)
(***************************************************************************)
CONSTANT None

VARIABLES view,     \* the mounted page and the dialogs over it
          server,   \* the items there are
          troubles  \* changes by others, lost connections, refused requests

(* The pages whose drawer follows the route. *)
Routed == {"tasks", "resources", "schedules", "media"}

(* Once nothing is in flight, a drawer that reports no error shows one     *)
(* item: the one the address names, with that item's own detail or history.*)
(* Tasks do not ask whether an answer is still wanted.                     *)
AtRest == view.calls = {} /\ ~view.error /\ view.selected # None
DrawerShowsOneItem ==
    AtRest /\ view.page # "tasks" =>
      /\ view.page \in Routed /\ view.visible => view.route = view.selected
      /\ view.detail # None => view.detail = view.selected

(* What a dialog asked the user about is what is acted on when he accepts. *)
Begun == {c \in view'.calls \ view.calls : c.what = "act"}
ActsOnWhatWasAsked ==
    [][view.dialog # None /\ view'.dialog = None /\ view.page \notin {"tasks", "resources"}
       => \A c \in Begun : c.item \in view.dialog.items]_<<view, server, troubles>>

(* Unless others changed something, a page at rest that drops the listings *)
(* it has superseded lists what is there.                                  *)
ListingIsCurrent ==
    view.page = "media" /\ view.calls = {} /\ ~view.error /\ troubles = 0 => view.listed = server
=============================================================================
