----------------------------- MODULE ConfigEditor -----------------------------
(***************************************************************************)
(* The console's configuration page over the file of ConfigFile            *)
(* (cosmoscope: composables/useConfigurationDraft.ts, ConfigurationPage.vue*)
(* and components/configuration).  The page shows a snapshot of the file,  *)
(* drafts changes to its sections and options, has the server validate     *)
(* them and applies what was found valid, by the revision of the snapshot. *)
(*                                                                         *)
(* A section has one option.  A document gives for each section "absent",  *)
(* "unset" (there, without the option) or the option's value.  Sections    *)
(* are always there (and then "unset" at least), optional, or providers,   *)
(* which are added by name.                                                *)
(* Secrets, labels, diagnostics, error messages and the selected section   *)
(* are left out.                                                           *)
(***************************************************************************)
EXTENDS ConfigFile, Integers, FiniteSets

CONSTANTS Section, Optional, Provider,
          Value, Default,  \* of the options
          MaxChange,       \* bound: changes drafted at once
          MaxWrite,        \* bound: replacements of the file
          MaxTrouble       \* bound: failures, lost connections, edits by others

ASSUME EditorAssumption ==
    /\ Optional \subseteq Section /\ Provider \subseteq Section \ Optional
    /\ Default \in Value /\ {"absent", "unset"} \cap Value = {}
    /\ Doc \subseteq [Section -> Value \cup {"absent", "unset"}]
    /\ \A d \in Doc, s \in Section \ (Optional \cup Provider) : d[s] # "absent"
    /\ MaxChange \in Nat /\ MaxWrite \in Nat /\ MaxTrouble \in Nat

VARIABLES page,
          awaited,   \* the page's request is what the replacement under way is for
          writes, troubles
vars == <<fileVars, page, awaited, writes, troubles>>

Change == [op : {"set", "remove", "add", "drop"}, path : Section, value : Value \cup {None}]
Changed(op, s)  == [op |-> op, path |-> s, value |-> None]
OnOption(c)     == c.op \in {"set", "remove"}
Live(p) == p.conn = "authenticated"
Busy(p) == p.loading \/ p.validating

----------------------------------------------------------------------------
(* The server's reading of a change set: validateChangeSet, applyChange.   *)

Consistent(d, changes) ==
    /\ \A b, c \in changes : b.path = c.path /\ OnOption(b) = OnOption(c) => b = c
    /\ \A b, c \in changes : b.op = "drop" /\ OnOption(c) => b.path # c.path
    /\ \A c \in changes : c.op = "add" => d[c.path] = "absent"

SectionAfter(d, changes, s) ==
    CASE Changed("drop", s) \in changes -> "absent"
      [] Changed("add", s) \in changes -> "unset"
      [] OTHER -> d[s]

Applied(d, changes) ==
    [s \in Section |->
       LET section == SectionAfter(d, changes, s)
           sets    == {c \in changes : c.op = "set" /\ c.path = s}
       IN IF sets # {} THEN (CHOOSE c \in sets : TRUE).value
          ELSE IF Changed("remove", s) \in changes /\ section # "absent" THEN "unset"
          ELSE section]

Acceptable(d) == d \in Doc /\ Valid(d)

----------------------------------------------------------------------------
(* What the page shows. *)

Present(p, s) == p.snap.doc[s] # "absent"
Added(p, s)   == Changed("add", s) \in p.changes
Dropped(p, s) == Changed("drop", s) \in p.changes

(* The snapshot's sections: providers in the source or still active.       *)
Known(p) == {s \in Section : s \in Provider => Present(p, s) \/ p.snap.active[s] # "absent"}

Shown(p) == {s \in Known(p) \cup p.drafted : s \in Optional \/ ~Dropped(p, s)}

(* selectedEnabled *)
Enabled(p, s) ==
    IF s \in Provider /\ ~Present(p, s) THEN Added(p, s)
    ELSE s \in Optional => Added(p, s) \/ (Present(p, s) /\ ~Dropped(p, s))

BaseValue(p, s) ==
    IF ~Present(p, s) /\ Added(p, s) THEN Default
    ELSE IF p.snap.doc[s] \in Value THEN p.snap.doc[s]
    ELSE IF p.snap.active[s] \in Value THEN p.snap.active[s]
    ELSE Default

DraftsOf(p, s) == {c \in p.changes : OnOption(c) /\ c.path = s}
DraftValueStays(p, s) == \* mutant: an option to be removed shows what it has
    IF DraftsOf(p, s) = {} THEN BaseValue(p, s)
    ELSE LET c == CHOOSE d \in DraftsOf(p, s) : TRUE
         IN IF c.op = "set" THEN c.value ELSE BaseValue(p, s)
DraftValue(p, s) ==
    IF DraftsOf(p, s) = {} THEN BaseValue(p, s)
    ELSE LET c == CHOOSE d \in DraftsOf(p, s) : TRUE
         IN IF c.op = "set" THEN c.value ELSE Default

CanManage(p) == Live(p) /\ p.snap # None /\ p.snap.editable

----------------------------------------------------------------------------
(* Drafts. *)

Invalidate(p) == [p EXCEPT !.validation = "none"]
Draft(p, changes) == Invalidate([p EXCEPT !.changes = changes])
SectionsOf(p, s)  == {c \in p.changes : ~OnOption(c) /\ c.path = s}

SetOption(p, s, v) ==
    LET others == p.changes \ DraftsOf(p, s)
    IN Draft(p, IF v = BaseValue(p, s) THEN others ELSE others \cup {[op |-> "set", path |-> s, value |-> v]})
RemoveOption(p, s) == Draft(p, (p.changes \ DraftsOf(p, s)) \cup {Changed("remove", s)})
ResetOption(p, s)  == Draft(p, p.changes \ DraftsOf(p, s))

AddProvider(p, s) ==
    IF s \in Known(p) /\ (Dropped(p, s) \/ ~Present(p, s))
    THEN Draft(p, (p.changes \ SectionsOf(p, s)) \cup (IF Present(p, s) THEN {} ELSE {Changed("add", s)}))
    ELSE IF s \in Shown(p) THEN p
    ELSE Draft([p EXCEPT !.drafted = @ \cup {s}], p.changes \cup {Changed("add", s)})

RemoveProviderOnly(p, s) == \* mutant: the drafts of its options stay
    LET added == s \in p.drafted \/ Added(p, s)
    IN Draft([p EXCEPT !.drafted = @ \ {s}],
             IF added THEN p.changes \ {Changed("add", s)}
                      ELSE (p.changes \ SectionsOf(p, s)) \cup {Changed("drop", s)})
RemoveProvider(p, s) ==
    LET added == s \in p.drafted \/ Added(p, s)
        kept  == p.changes \ DraftsOf(p, s)
    IN Draft([p EXCEPT !.drafted = @ \ {s}],
             IF added THEN kept \ {Changed("add", s)}
                      ELSE (kept \ SectionsOf(p, s)) \cup {Changed("drop", s)})

AddOptional(p, s) ==
    Draft(p, (p.changes \ SectionsOf(p, s)) \cup (IF Present(p, s) THEN {} ELSE {Changed("add", s)}))
RemoveOptional(p, s) ==
    Draft(p, (p.changes \ (SectionsOf(p, s) \cup DraftsOf(p, s)))
             \cup (IF Present(p, s) THEN {Changed("drop", s)} ELSE {}))

ClearDrafts(p) == Draft([p EXCEPT !.drafted = {}], {})

----------------------------------------------------------------------------
(* Requests.  The page has at most one under way that it waits for.        *)

Call(what, discard, revision, changes, backedUp) ==
    [what |-> what, discard |-> discard, revision |-> revision, changes |-> changes, backup |-> backedUp,
     got |-> "none", snap |-> None]
Get(discard) == Call("get", discard, None, {}, None)

(* mutant: a refresh does not ask for drafts *)
RefreshAnyway(p, discard) ==
    IF ~Live(p) THEN p
    ELSE [p EXCEPT !.loading = TRUE, !.call = Get(discard)]
Refresh(p, discard) ==
    IF ~Live(p) THEN p
    ELSE IF ~discard /\ p.changes # {} THEN p
    ELSE [p EXCEPT !.loading = TRUE, !.call = Get(discard)]

Failed(c) == c.got = "error"

GetArrives(p, c) ==
    IF Failed(c) THEN p
    ELSE IF c.discard THEN ClearDrafts([p EXCEPT !.snap = c.snap]) ELSE [p EXCEPT !.snap = c.snap]

ValidateArrives(p, c) ==
    IF p.changes # c.changes \/ p.snap.revision # c.revision THEN p
    ELSE IF Failed(c) THEN p
    ELSE [p EXCEPT !.validation = c.got]

UpdateArrives(p, c) ==
    IF Failed(c) THEN Invalidate(p) ELSE Refresh(ClearDrafts(p), FALSE)
RollbackArrives(p, c) ==
    IF Failed(c) THEN p ELSE Refresh(ClearDrafts(p), FALSE)

Arrives(p, c) ==
    LET q == [p EXCEPT !.call = None, !.loading = FALSE, !.validating = FALSE]
    IN CASE c.what = "get"      -> GetArrives(q, c)
         [] c.what = "validate" -> ValidateArrives(q, c)
         [] c.what = "update"   -> UpdateArrives(q, c)
         [] c.what = "rollback" -> RollbackArrives(q, c)
         [] c.what = "restart"  -> q

(* The watcher of the connection's state. *)
Watched(p) ==
    LET q == Invalidate([p EXCEPT !.call = None, !.loading = FALSE, !.validating = FALSE])
    IN IF Live(p) THEN Refresh(q, FALSE) ELSE q

----------------------------------------------------------------------------
(* What the user does. *)

Uses(q) ==
    /\ page' = q /\ page' # page /\ Cardinality(page'.changes) <= MaxChange
    /\ UNCHANGED <<fileVars, awaited, writes, troubles>>

Free == page.dialog = None

(* controlsDisabled, managementDisabled *)
Editable(s)   == Free /\ CanManage(page) /\ ~Busy(page) /\ s \in Shown(page) /\ Enabled(page, s)
Manageable    == Free /\ CanManage(page) /\ ~Busy(page)

EditOption(s) ==
    /\ Editable(s)
    /\ \/ \E v \in Value : Uses(SetOption(page, s, v))
       \/ page.snap.doc[s] \in Value /\ Uses(RemoveOption(page, s))
       \/ DraftsOf(page, s) # {} /\ Uses(ResetOption(page, s))

EditSection(s) ==
    \/ s \in Provider /\ Manageable /\ Uses(AddProvider(page, s))
    \/ s \in Provider /\ Editable(s) /\ Uses(RemoveProvider(page, s))
    \/ /\ s \in Optional /\ Manageable
       /\ Uses(IF Enabled(page, s) THEN RemoveOptional(page, s) ELSE AddOptional(page, s))

DiscardDrafts == Manageable /\ page.changes # {} /\ Uses(ClearDrafts(page))

Validate ==
    /\ Manageable /\ page.changes # {}
    /\ Uses([page EXCEPT !.validating = TRUE,
                        !.call = Call("validate", FALSE, page.snap.revision, page.changes, None)])

ApplyReady(p) == p.changes # {} /\ p.validation = "valid"
Apply ==
    /\ Manageable /\ ApplyReady(page)
    /\ Uses([page EXCEPT !.loading = TRUE,
                        !.call = Call("update", FALSE, page.snap.revision, page.changes, None)])

Ask(what, of) == Uses([page EXCEPT !.dialog = [what |-> what, of |-> of]])

RequestRefresh ==
    /\ Free /\ ~Busy(page)
    /\ IF page.changes = {} THEN Uses(Refresh(page, TRUE)) ELSE Ask("refresh", None)
RequestRollback ==
    /\ Manageable /\ page.changes = {} /\ page.snap.backup # None
    /\ Ask("rollback", page.snap.backup)
RequestRestart ==
    /\ Free /\ Live(page) /\ ~Busy(page) /\ page.snap # None
    /\ Ask("restart", None)

(* The user accepts; the connection may have changed since the question.   *)
Rollback(p, previous) ==
    IF Busy(p) \/ p.changes # {} \/ ~Live(p) THEN p
    ELSE [p EXCEPT !.loading = TRUE, !.call = Call("rollback", FALSE, p.snap.revision, {}, previous)]
Restart(p) ==
    IF Busy(p) \/ ~Live(p) THEN p ELSE [p EXCEPT !.loading = TRUE, !.call = Call("restart", FALSE, None, {}, None)]

Accept ==
    /\ page.dialog # None
    /\ LET p == [page EXCEPT !.dialog = None]
       IN Uses(CASE page.dialog.what = "refresh"  -> Refresh(p, TRUE)
                 [] page.dialog.what = "rollback" -> Rollback(p, page.dialog.of)
                 [] page.dialog.what = "restart"  -> Restart(p))
Reject == page.dialog # None /\ Uses([page EXCEPT !.dialog = None])

----------------------------------------------------------------------------
(* The server. *)

Asked(what) == page.call # None /\ page.call.what = what /\ page.call.got = "none"
Gives(got)  == page' = [page EXCEPT !.call.got = got]
Same        == UNCHANGED <<fileVars, awaited, writes, troubles>>

(* config.get reads the file, then the backup. *)
ReadFile ==
    /\ Asked("get") /\ page.call.snap = None
    /\ page' = [page EXCEPT !.call.snap =
                  [revision |-> file, doc |-> IF Valid(file) THEN file ELSE active, active |-> active,
                   editable |-> Valid(file), backup |-> None]]
    /\ Same
ReadBackup ==
    /\ Asked("get") /\ page.call.snap # None
    /\ page' = [page EXCEPT !.call.snap.backup = backup, !.call.got = "ok"]
    /\ Same

ServeValidate ==
    /\ Asked("validate")
    /\ LET c == page.call
       IN Gives(IF c.revision # file \/ ~Valid(file) \/ ~Consistent(file, c.changes) THEN "error"
                ELSE IF Acceptable(Applied(file, c.changes)) THEN "valid" ELSE "invalid")
    /\ Same

(* config.update and config.rollback, once they have the lock. *)
Update(to) ==
    \/ to = file /\ Gives("ok") /\ Same
    \/ /\ to # file /\ writes < MaxWrite
       /\ BeginReplace(page.call.revision, to)
       /\ awaited' = TRUE /\ writes' = writes + 1 /\ UNCHANGED troubles
       /\ Gives("working")

ServeUpdate ==
    /\ Asked("update") /\ job = None
    /\ LET c == page.call
       IN IF c.revision # file \/ ~Valid(file) \/ ~Consistent(file, c.changes) \/ ~Acceptable(Applied(file, c.changes))
          THEN Gives("error") /\ Same
          ELSE Update(Applied(file, c.changes))

ServeRollback ==
    /\ Asked("rollback") /\ job = None
    /\ LET c == page.call
       IN IF backup = None \/ c.revision # file \/ c.backup # backup \/ ~Valid(file) \/ ~Valid(backup)
          THEN Gives("error") /\ Same
          ELSE /\ writes < MaxWrite /\ writes' = writes + 1
               /\ BeginReplace(c.revision, backup)
               /\ awaited' = TRUE /\ UNCHANGED troubles
               /\ Gives("working")

(* The replacement goes on whether or not the page still waits for it.     *)
Answer(got) == page' = IF awaited THEN [page EXCEPT !.call.got = got] ELSE page

Replacing ==
    /\ \/ (Park \/ InstallBackup) /\ UNCHANGED <<page, awaited>>
       \/ InstallCurrent /\ Answer("ok") /\ awaited' = FALSE
    /\ UNCHANGED <<writes, troubles>>

Trouble == troubles < MaxTrouble /\ troubles' = troubles + 1

ReplaceFails == Fail /\ Answer("error") /\ awaited' = FALSE /\ UNCHANGED <<writes, troubles>>

(* Another console replaces the file, the operator edits it.               *)
Elsewhere ==
    /\ Trouble
    /\ \E s \in Section, v \in Value \cup {"absent", "unset"} :
         LET d == [file EXCEPT ![s] = v]
         IN /\ d \in Doc \ {file}
            /\ \/ BeginReplace(file, d) /\ awaited' = FALSE
               \/ EditByHand(d) /\ UNCHANGED awaited
    /\ UNCHANGED <<page, writes>>

Disconnected == page' = Watched([page EXCEPT !.conn = "reconnecting"])

(* The connection is lost: what the server has begun goes on, or is        *)
(* cancelled while it writes the two texts.                                *)
Drop ==
    /\ Live(page) /\ Trouble
    /\ \/ UNCHANGED fileVars
       \/ awaited /\ job.stage = "written" /\ Fail
    /\ Disconnected /\ awaited' = FALSE
    /\ UNCHANGED writes

(* The page gives up on a request, which the server may be carrying out; one *)
(* that it has yet to begin is then as anybody's: see Elsewhere.             *)
GivesUp ==
    /\ page.call # None /\ page.call.got \in {"none", "working"} /\ Trouble
    /\ page' = Arrives(page, [page.call EXCEPT !.got = "error"])
    /\ awaited' = FALSE
    /\ UNCHANGED <<fileVars, writes>>

ServerDies == Crash /\ Trouble /\ Live(page) /\ Disconnected /\ awaited' = FALSE /\ UNCHANGED writes

(* A restart is acknowledged and done; the console may not hear of it.     *)
ServeRestart == Asked("restart") /\ Gives("ok") /\ Same
Restarts ==
    /\ page.call # None /\ page.call.what = "restart" /\ page.call.got = "ok" /\ job = None
    /\ Crash /\ Disconnected
    /\ UNCHANGED <<awaited, writes, troubles>>

Reconnect ==
    /\ ~Live(page)
    /\ page' = Watched([page EXCEPT !.conn = "authenticated"])
    /\ Same

Receive ==
    /\ page.call # None /\ page.call.got \notin {"none", "working"}
    /\ page' = Arrives(page, page.call)
    /\ Same

----------------------------------------------------------------------------
Opened == [conn |-> "authenticated", snap |-> None, changes |-> {}, drafted |-> {}, validation |-> "none",
           loading |-> FALSE, validating |-> FALSE, dialog |-> None, call |-> None]

Init ==
    /\ FileInit
    /\ page = Refresh(Opened, FALSE)
    /\ awaited = FALSE /\ writes = 0 /\ troubles = 0

User ==
    \/ DiscardDrafts \/ Validate \/ Apply
    \/ RequestRefresh \/ RequestRollback \/ RequestRestart \/ Accept \/ Reject
    \/ \E s \in Section : EditOption(s) \/ EditSection(s)

Server ==
    \/ ReadFile \/ ReadBackup \/ ServeValidate \/ ServeUpdate \/ ServeRollback \/ ServeRestart
    \/ Replacing \/ ReplaceFails \/ Restarts \/ ServerDies

Next == User \/ Server \/ Receive \/ GivesUp \/ Elsewhere \/ Drop \/ Reconnect

Spec == Init /\ [][Next]_vars

----------------------------------------------------------------------------
(* The changes the page drafts are a set the server accepts: one for each  *)
(* path, none inside a section that is removed, no section added twice.    *)
DraftsFitTogether ==
    page.changes # {} => Consistent(page.snap.doc, page.changes)

(* What the page shows is what applying its drafts will give: each option  *)
(* its value, each section that cannot be edited is not there.  Excepted   *)
(* are options that the file leaves unset while the process runs with a    *)
(* value of them, to which they can then not be set.                       *)
Grounded(s) == page.snap.doc[s] \in Value \/ page.snap.active[s] \notin Value
Meaning(d, s) == IF d[s] \in Value THEN d[s] ELSE Default
ShownIsApplied ==
    page.snap # None /\ page.snap.editable =>
      LET after == Applied(page.snap.doc, page.changes)
      IN \A s \in Section :
           IF s \in Shown(page) /\ Enabled(page, s)
           THEN after[s] # "absent" /\ (Grounded(s) => Meaning(after, s) = DraftValue(page, s))
           ELSE after[s] = "absent"

(* Drafts do not change their ground, nor vanish, unless the user discards *)
(* them or the server has taken them over.                                 *)
DraftsAreKept ==
    [][page.changes # {} =>
         /\ page'.changes # {} => page'.snap = page.snap
         /\ page'.changes # page.changes =>
              \/ Manageable
              \/ page.call.what = "update" /\ page.call.got = "ok" /\ page.call.changes = page.changes
              \/ page.call.what = "get" /\ page.call.discard]_vars
=============================================================================
