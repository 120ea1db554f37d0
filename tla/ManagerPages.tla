---------------------------- MODULE ManagerPages ----------------------------
(***************************************************************************)
(* The console's manager pages (cosmoscope: pages/Tasks, Resources,        *)
(* Schedules, Memory, Skills, Plugins and MediaPage.vue with               *)
(* composables/useMediaOperations.ts).  Each lists what the server has,    *)
(* opens one item in a drawer and acts on it, by calls whose answers come  *)
(* in any order: the server works on eight requests of a connection at     *)
(* once.                                                                   *)
(*                                                                         *)
(* The handlers are operators on the view, since one calls another.  An    *)
(* item is what a page lists (a task, a resource, a memory ...); its       *)
(* contents, and the status that disables some of the buttons, are left    *)
(* out.                                                                    *)
(***************************************************************************)
EXTENDS ManagerView, Integers, FiniteSets

CONSTANTS Visited,   \* the pages that may be visited
          Item,      \* what pages list, and the identifiers of routes
          NoItem,    \* what an action on no item in particular is for
          MaxCall,   \* bound: calls in flight when the user does something
          MaxTrouble \* bound: changes by others, lost connections, refused requests

Parameters ==
    /\ Visited \subseteq {"tasks", "resources", "schedules", "memory", "skills", "plugins", "media"}
    /\ None \notin Item \cup {"act", "detail"} /\ NoItem \notin Item \cup {None}
    /\ MaxCall \in Nat /\ MaxTrouble \in Nat
ASSUME PagesAssumption == Parameters

vars == <<view, server, troubles>>

Act    == {"cancel", "release", "rename", "keep", "destroy", "delete",
           "revert", "remove", "load", "reload", "unload", "gc"}

(* The pages that wait for a reconnection instead of reporting it.         *)
Waits  == Visited \ {"memory", "skills"}
Live(v) == v.conn = "authenticated"

----------------------------------------------------------------------------
(* Calls. *)

Alike(v, what, item) == {c \in v.calls : c.what = what /\ c.item = item}
FreeId(v, what, item) ==
    CHOOSE n \in 1 .. Cardinality(v.calls) + 1 :
      /\ \A c \in Alike(v, what, item) : c.id # n
      /\ \A m \in 1 .. n - 1 : \E c \in Alike(v, what, item) : c.id = m

Failed(c) == c.got \in {"error", "rejected"}

(* The handlers of the calls that the client itself rejects run before the *)
(* browser's next task.                                                    *)
Settled == \A c \in view.calls : c.got # "rejected"

(* runBackend: a request that cannot be sent fails.                        *)
Call(v, what, item, act, to) ==
    LET c == [id |-> FreeId(v, what, item), what |-> what, item |-> item, act |-> act, to |-> to, page |-> v.page,
              got |-> IF Live(v) THEN "none" ELSE "rejected", list |-> {}]
    IN [v EXCEPT !.calls = @ \cup {c}]

(* What useLatest and the generation counters do: the answer of a call     *)
(* that is no longer the latest is ignored, so the call can be forgotten.  *)
SupersedeNone(v, what) == v \* mutant: every answer is used
Supersede(v, what) == [v EXCEPT !.calls = {c \in @ : c.what # what}]

(* A page's drawer that closes fires @hide, after which it may be reopened. *)
Visible(v, b) == [v EXCEPT !.visible = b, !.hiding = IF b THEN FALSE ELSE @ \/ v.visible]
Idle(v)       == IF v.pending = "detail" THEN [v EXCEPT !.pending = None] ELSE v

----------------------------------------------------------------------------
(* What a page shows for its route, and for a row that was clicked. *)

SelectTask(v) ==
    IF v.route = None THEN v
    ELSE IF Live(v) THEN Call(v, "detail", v.route, None, None)
    ELSE IF v.route \in v.listed THEN Visible([v EXCEPT !.selected = v.route], TRUE)
    ELSE Visible([v EXCEPT !.selected = None], FALSE)

SelectResource(w) ==
    LET v == Supersede(w, "detail")
        shown == Visible([v EXCEPT !.selected = v.route], TRUE)
    IN IF v.route = None THEN Idle(Visible([v EXCEPT !.selected = None, !.detail = None], FALSE))
       ELSE IF v.route \notin v.listed THEN Visible([v EXCEPT !.error = TRUE], FALSE)
       ELSE IF Live(v) THEN Call([shown EXCEPT !.pending = "detail"], "detail", v.route, None, None)
       ELSE [shown EXCEPT !.detail = v.route]

SelectSchedule(v) ==
    IF v.route = None THEN Visible([v EXCEPT !.selected = None], FALSE)
    ELSE IF v.route \notin v.listed THEN Visible([v EXCEPT !.error = TRUE], FALSE)
    ELSE Visible([v EXCEPT !.selected = v.route], TRUE)

SelectMedia(w) ==
    LET v == Supersede(w, "detail")
    IN IF v.route = None THEN Idle(Visible([v EXCEPT !.selected = None], FALSE))
       ELSE Call([v EXCEPT !.pending = "detail"], "detail", v.route, None, None)

InspectMemory(v, i) ==
    Call([Supersede(v, "detail") EXCEPT !.selected = i, !.detail = None, !.busy = TRUE], "detail", i, None, None)
InspectSkill(v, i) ==
    Call([Supersede(v, "detail") EXCEPT !.selected = i, !.busy = TRUE], "detail", i, None, None)
Deselect(v) == [Supersede(v, "detail") EXCEPT !.selected = None]

Select(v) ==
    CASE v.page = "tasks" -> SelectTask(v)
      [] v.page = "resources" -> SelectResource(v)
      [] v.page = "schedules" -> SelectSchedule(v)
      [] v.page = "media" -> SelectMedia(v)
      [] OTHER -> v

(* router.replace within the page: the watcher of its parameter follows.   *)
Replace(v, r) == IF v.route = r THEN v ELSE Select([v EXCEPT !.route = r])

(* @hide *)
CloseTask(v)     == Replace([v EXCEPT !.selected = None], None)
CloseResource(v) == Replace(Idle([Supersede(v, "detail") EXCEPT !.selected = None, !.detail = None]), None)
CloseSchedule(v) == Replace([v EXCEPT !.selected = None], None)
CloseMedia(v)    == Replace(Idle([Supersede(v, "detail") EXCEPT !.selected = None]), None)

----------------------------------------------------------------------------
(* refresh *)

(* mutant: Media does not ask for the latest listing *)
RefreshBeside(v) ==
    IF Live(v) THEN Call([v EXCEPT !.loading = TRUE], "list", None, None, None)
    ELSE IF v.conn = "reconnecting" /\ v.page \in Waits THEN [v EXCEPT !.loading = TRUE]
    ELSE [v EXCEPT !.loading = FALSE, !.error = TRUE]

Refresh(w) ==
    LET v == IF w.page = "media" THEN Supersede(w, "list") ELSE w
    IN IF Live(v) THEN Call([v EXCEPT !.loading = TRUE], "list", None, None, None)
       ELSE IF v.conn = "reconnecting" /\ v.page \in Waits THEN [v EXCEPT !.loading = TRUE]
       ELSE [v EXCEPT !.loading = FALSE, !.error = TRUE]

ListMemory(v) == \* the drawer is loaded again, or closed
    IF v.selected = None THEN v
    ELSE IF v.selected \in v.listed THEN InspectMemory(v, v.selected)
    ELSE Deselect(v)

ListMedia(v) == SelectMedia(v)

(* The listing arrives.                                                    *)
Listed(v, c) ==
    LET w == [v EXCEPT !.loading = FALSE]
        x == [w EXCEPT !.error = FALSE, !.listed = c.list, !.loaded = TRUE]
    IN IF Failed(c) THEN [w EXCEPT !.error = TRUE]
       ELSE IF v.page = "memory" THEN ListMemory(x)
       ELSE IF v.page = "media" THEN ListMedia(x)
       ELSE Select(x)

----------------------------------------------------------------------------
(* The detail arrives. *)

TaskDetail(v, c) ==
    IF Failed(c) THEN [v EXCEPT !.error = TRUE]
    ELSE IF c.got = "absent" THEN Visible([v EXCEPT !.error = TRUE], FALSE)
    ELSE Visible([v EXCEPT !.error = FALSE, !.selected = c.item], TRUE)

(* mutant: a resource that could not be loaded leaves its mark *)
ResourceDetailKept(v, c) ==
    IF Failed(c) \/ c.got = "absent" THEN [v EXCEPT !.error = TRUE]
    ELSE [v EXCEPT !.pending = None, !.error = FALSE, !.detail = c.item]

ResourceDetail(v, c) ==
    IF (Failed(c) \/ c.got = "absent") THEN [v EXCEPT !.pending = None, !.error = TRUE]
    ELSE [v EXCEPT !.pending = None, !.error = FALSE, !.detail = c.item]

MediaDetail(v, c) ==
    IF (Failed(c) \/ c.got = "absent") THEN Visible([v EXCEPT !.pending = None, !.error = TRUE], FALSE)
    ELSE Visible([v EXCEPT !.pending = None, !.selected = c.item], TRUE)

MemoryDetail(v, c) ==
    LET shown == [v EXCEPT !.busy = FALSE, !.selected = c.item, !.detail = c.item]
    IN IF (Failed(c) \/ c.got = "absent") THEN [v EXCEPT !.busy = FALSE, !.error = TRUE, !.selected = None]
       ELSE IF c.got = "incomplete" THEN [shown EXCEPT !.error = TRUE]
       ELSE shown

SkillDetail(v, c) ==
    IF (Failed(c) \/ c.got = "absent") THEN [v EXCEPT !.busy = FALSE, !.error = TRUE, !.selected = None]
    ELSE [v EXCEPT !.busy = FALSE, !.selected = c.item]

Detailed(v, c) ==
    CASE v.page = "tasks" -> TaskDetail(v, c) \* whatever the route is by now
      [] v.page = "resources" -> ResourceDetail(v, c)
      [] v.page = "media" -> MediaDetail(v, c)
      [] v.page = "memory" -> MemoryDetail(v, c)
      [] v.page = "skills" -> SkillDetail(v, c)

----------------------------------------------------------------------------
(* An action's answer arrives. *)

TaskActed(v, c) == IF Failed(c) THEN v ELSE Refresh(v)

ResourceActed(v, c) ==
    IF c.act = "keep" THEN Refresh(v)
    ELSE IF Failed(c) THEN v
    ELSE IF c.act = "rename" THEN Refresh(Replace(v, c.to))
    ELSE Refresh(Replace(Visible(v, FALSE), None)) \* destroy

ScheduleActed(v, c) == IF Failed(c) THEN v ELSE Refresh(Replace(Visible(v, FALSE), None))

MemoryActed(v, c) ==
    IF (Failed(c) \/ c.got = "absent") THEN [v EXCEPT !.error = TRUE]
    ELSE Refresh([v EXCEPT !.selected = c.item])

SkillActed(v, c) ==
    IF Failed(c) THEN [v EXCEPT !.error = TRUE]
    ELSE IF c.got = "absent" THEN Refresh([v EXCEPT !.error = TRUE])
    ELSE Refresh(IF v.selected = c.item THEN Deselect(v) ELSE v)

PluginActed(v, c) ==
    IF Failed(c) THEN [v EXCEPT !.error = TRUE]
    ELSE Refresh(IF c.act = "load" THEN [v EXCEPT !.visible = FALSE] ELSE v)

MediaActed(v, c) ==
    IF c.act = "gc" THEN IF Failed(c) THEN v ELSE Refresh(v)
    ELSE IF c.to = {} THEN Refresh(Replace(v, None))
    ELSE LET i == CHOOSE j \in c.to : TRUE \* the next of a batch
         IN Call([v EXCEPT !.pending = "act"], "act", i, "delete", c.to \ {i})

Acted(w, c) ==
    LET v == [w EXCEPT !.pending = None]
    IN CASE v.page = "tasks" -> TaskActed(v, c)
         [] v.page = "resources" -> ResourceActed(v, c)
         [] v.page = "schedules" -> ScheduleActed(v, c)
         [] v.page = "memory" -> MemoryActed(v, c)
         [] v.page = "skills" -> SkillActed(v, c)
         [] v.page = "plugins" -> PluginActed(v, c)
         [] v.page = "media" -> MediaActed(v, c)

----------------------------------------------------------------------------
(* What the user sees and may do. *)

Modal(v) == v.visible \/ v.dialog # None \/ (v.page \in {"memory", "skills"} /\ v.selected # None)

RefreshEnabled(v) == IF v.page \in {"tasks", "resources"} THEN v.pending = None ELSE ~v.loading

(* The buttons of the drawers ... *)
TaskButtons(v)     == IF Live(v) /\ v.pending = None THEN {"cancel", "release"} ELSE {}
ResourceButtons(v) == IF Live(v) /\ v.pending = None THEN {"rename", "keep", "destroy"} ELSE {}
ScheduleButtons(v) == IF Live(v) /\ v.pending = None THEN {"delete"} ELSE {}
MemoryButtons(v)   == IF ~v.busy /\ v.detail # None /\ v.pending = None THEN {"revert"} ELSE {}
MediaButtons(v)    == IF v.pending = None THEN {"delete"} ELSE {}

Buttons(v) ==
    IF v.dialog # None \/ v.selected = None \/ (v.page \in Routed /\ ~v.visible) THEN {}
    ELSE CASE v.page = "tasks" -> TaskButtons(v)
           [] v.page = "resources" -> ResourceButtons(v)
           [] v.page = "schedules" -> ScheduleButtons(v)
           [] v.page = "memory" -> MemoryButtons(v)
           [] v.page = "media" -> MediaButtons(v)
           [] OTHER -> {}

(* ... and those of the rows. *)
RowActs(v) ==
    IF Modal(v) \/ ~v.loaded \/ v.pending # None THEN {}
    ELSE CASE v.page = "skills" -> {"remove"}
           [] v.page = "plugins" -> {"reload", "unload"}
           [] OTHER -> {}

Confirmed == {"cancel", "release", "destroy", "delete", "revert", "remove", "unload"}

(* The item a confirmed action is for is read when the user accepts, but   *)
(* for skills, plugins and media it is the one the dialog was opened for.  *)
TargetNow(v) == {v.selected} \* mutant: always what is selected by then
Target(v) ==
    IF v.page \in {"skills", "plugins", "media"} THEN v.dialog.items
    ELSE {v.selected}

(* doCancel ... remove: one at a time, except that Memory does not ask.    *)
Do(v, act, i, to) ==
    IF i = None \/ (v.pending # None /\ v.page # "memory") THEN v
    ELSE Call([v EXCEPT !.pending = "act"], "act", i, act, to)

Step == Settled /\ view' # view /\ Cardinality(view'.calls) <= MaxCall /\ UNCHANGED <<server, troubles>>

ClickRefresh ==
    /\ ~Modal(view) /\ RefreshEnabled(view)
    /\ view' = Refresh(view) /\ Step

ClickRow(i) ==
    /\ ~Modal(view) /\ view.loaded /\ i \in view.listed
    /\ view' = CASE view.page \in Routed -> Replace(view, i)
                 [] view.page = "memory" -> InspectMemory(view, i)
                 [] view.page = "skills" -> InspectSkill(view, i)
                 [] OTHER -> view
    /\ Step

CloseDrawer ==
    /\ view.dialog = None
    /\ view' = CASE view.page \in {"memory", "skills"} -> Deselect(view)
                 [] view.page = "plugins" -> [view EXCEPT !.visible = FALSE]
                 [] OTHER -> Visible(view, FALSE)
    /\ Step

Hide ==
    /\ view.hiding
    /\ LET v == [view EXCEPT !.hiding = FALSE]
       IN view' = CASE v.page = "tasks" -> CloseTask(v)
                    [] v.page = "resources" -> CloseResource(v)
                    [] v.page = "schedules" -> CloseSchedule(v)
                    [] v.page = "media" -> CloseMedia(v)
    /\ Step

(* The button is pressed: the action begins, or is to be confirmed.        *)
Press(act) ==
    /\ act \in Buttons(view)
    /\ LET i == view.selected
       IN view' = IF act \in Confirmed THEN [view EXCEPT !.dialog = [act |-> act, items |-> {i}]]
                  ELSE Do(view, act, i, IF act = "rename" THEN CHOOSE j \in Item : j # i ELSE None)
    /\ Step

PressInRow(act, i) ==
    /\ act \in RowActs(view) /\ i \in view.listed
    /\ view' = IF act \in Confirmed THEN [view EXCEPT !.dialog = [act |-> act, items |-> {i}]]
               ELSE Do(view, act, i, None)
    /\ Step

(* The dialog that loads a plugin: its field accepts any name, and Enter.  *)
LoadPlugin(i) ==
    /\ view.page = "plugins" /\ view.dialog = None /\ view.pending = None
    /\ \/ ~view.visible /\ view' = [view EXCEPT !.visible = TRUE]
       \/ view.visible /\ view' = Do(view, "load", i, None)
    /\ Step

(* The rows the user has ticked, of those that are listed. *)
DeleteChosen ==
    /\ view.page = "media" /\ ~Modal(view) /\ view.loaded /\ view.pending = None
    /\ \E chosen \in (SUBSET view.listed) \ {{}} : view' = [view EXCEPT !.dialog = [act |-> "delete", items |-> chosen]]
    /\ Step

CollectGarbage ==
    /\ view.page = "media" /\ ~Modal(view) /\ view.pending = None
    /\ view' = Do(view, "gc", NoItem, {})
    /\ Step

Accept ==
    /\ view.dialog # None
    /\ LET v == [view EXCEPT !.dialog = None]
           i == CHOOSE j \in Target(view) : TRUE
       IN view' = Do(v, view.dialog.act, i, IF view.page = "media" THEN Target(view) \ {i} ELSE None)
    /\ Step

Reject ==
    /\ view.dialog # None
    /\ view' = [view EXCEPT !.dialog = None]
    /\ Step

----------------------------------------------------------------------------
(* The server and the connection. *)

(* What an action does on the server and answers. *)
Gives(c, got) == view' = [view EXCEPT !.calls = (@ \ {c}) \cup {[c EXCEPT !.got = got]}]

Refuses(c) ==
    /\ troubles < MaxTrouble /\ troubles' = troubles + 1
    /\ Gives(c, "error") /\ UNCHANGED server

(* A memory is asked for together with its history, which is refused.      *)
RefusesHistory(c) ==
    /\ c.what = "detail" /\ c.page = "memory" /\ c.item \in server
    /\ troubles < MaxTrouble /\ troubles' = troubles + 1
    /\ Gives(c, "incomplete") /\ UNCHANGED server

Removes(c) == \* deleting a schedule or a skill that is gone is no error
    /\ server' = server \ {c.item}
    /\ Gives(c, IF c.item \in server THEN "ok"
                ELSE IF c.page \in {"schedules", "skills"} THEN "absent" ELSE "error")

Renames(c) ==
    IF c.item \in server /\ c.to \notin server
    THEN /\ server' = (server \ {c.item}) \cup {c.to}
         /\ Gives(c, "ok")
    ELSE Gives(c, "error") /\ UNCHANGED server

Collects(c) == \* what nothing refers to, which may be nothing
    \E garbage \in SUBSET server :
      server' = server \ garbage /\ Gives(c, "ok")

Loads(c) ==
    /\ server' = server \cup {c.item}
    /\ Gives(c, IF c.item \in server THEN "error" ELSE "ok")

Keeps(c) ==
    /\ Gives(c, IF c.item \in server \/ c.page = "tasks" THEN "ok" ELSE "error")
    /\ UNCHANGED server

Performs(c) ==
    CASE c.act \in {"destroy", "delete", "remove", "unload"} -> Removes(c)
      [] c.act = "gc" -> Collects(c)
      [] c.act = "rename" -> Renames(c)
      [] c.act = "load" -> Loads(c)
      [] OTHER -> Keeps(c)

Serve(c) ==
    /\ c \in view.calls /\ c.got = "none"
    /\ \/ c.what = "list" /\ UNCHANGED <<server, troubles>>
            /\ view' = [view EXCEPT !.calls = (@ \ {c}) \cup {[c EXCEPT !.got = "ok", !.list = server]}]
       \/ c.what = "detail" /\ Gives(c, IF c.item \in server THEN "ok" ELSE "absent")
            /\ UNCHANGED <<server, troubles>>
       \/ c.what = "act" /\ Performs(c) /\ UNCHANGED troubles
       \/ Refuses(c) \/ RefusesHistory(c)

Answer(c) ==
    /\ c \in view.calls /\ c.got # "none" /\ (Settled \/ c.got = "rejected")
    /\ LET v == [view EXCEPT !.calls = @ \ {c}]
       IN view' = CASE c.what = "list" -> Listed(v, c)
                    [] c.what = "detail" -> Detailed(v, c)
                    [] c.what = "act" -> Acted(v, c)
    /\ UNCHANGED <<server, troubles>>

(* Others create and remove items. *)
Elsewhere(i) ==
    /\ troubles < MaxTrouble /\ troubles' = troubles + 1
    /\ server' = IF i \in server THEN server \ {i} ELSE server \cup {i}
    /\ UNCHANGED view

(* The watchers of the connection's state refresh; every call fails.       *)
Lost(v) == [v EXCEPT !.calls = {[c EXCEPT !.got = "rejected", !.list = {}] : c \in @}]

Drop ==
    /\ Live(view) /\ troubles < MaxTrouble /\ troubles' = troubles + 1
    /\ view' = Refresh(Lost([view EXCEPT !.conn = "reconnecting"]))
    /\ UNCHANGED server

Reconnect ==
    /\ Settled /\ view.conn = "reconnecting" /\ ~view.hiding \* the drawer takes less time
    /\ \E s \in {"authenticated", "failed"} : view' = Refresh([view EXCEPT !.conn = s])
    /\ UNCHANGED <<server, troubles>>

----------------------------------------------------------------------------
Mounted(p, r) == [page |-> p, conn |-> "authenticated", calls |-> {}, route |-> r, listed |-> {}, loading |-> TRUE,
          loaded |-> FALSE, error |-> FALSE, selected |-> None, detail |-> None, busy |-> FALSE,
          visible |-> FALSE, hiding |-> FALSE, pending |-> None, dialog |-> None]

(* A page is opened, perhaps by a link to one of its items. *)
Init ==
    /\ \E p \in Visited, r \in Item \cup {None} :
         view = Refresh(Mounted(p, IF p \in Routed THEN r ELSE None))
    /\ server = Item
    /\ troubles = 0

User ==
    \/ ClickRefresh \/ CloseDrawer \/ Accept \/ Reject
    \/ DeleteChosen \/ CollectGarbage
    \/ \E i \in Item : ClickRow(i) \/ LoadPlugin(i)
    \/ \E act \in Buttons(view) : Press(act)
    \/ \E act \in RowActs(view), i \in Item : PressInRow(act, i)

Next ==
    \/ User \/ Hide
    \/ \E c \in view.calls : Serve(c) \/ Answer(c)
    \/ \E i \in Item : Elsewhere(i)
    \/ Drop \/ Reconnect

(* The server and the connection answer what is asked, the drawer closes;  *)
(* users and others need do nothing.                                       *)
Fairness == WF_vars((\E c \in view.calls : Serve(c) \/ Answer(c)) \/ Reconnect \/ Hide)

Spec == Init /\ [][Next]_vars /\ Fairness

----------------------------------------------------------------------------
(* Left alone, the page of a connected console settles: it waits for       *)
(* nothing that cannot come, neither spins nor keeps its controls disabled. *)
SettlesWhenLeftAlone ==
    <>[][~User]_vars =>
      <>[](Live(view) => view.calls = {} /\ ~view.loading /\ view.pending = None
                         /\ (view.busy => view.selected = None \/ view.error))
=============================================================================
