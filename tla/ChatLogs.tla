------------------------------ MODULE ChatLogs ------------------------------
(***************************************************************************)
(* The console's view of the platforms' chat logs (cosmoscope:             *)
(* ChatLogsPanel.vue, backend/chat.ts), and the log it reads (cosmobot:    *)
(* Bot/Storage/ChatLog.hs).  The view lists the chats and shows a window   *)
(* of one chat's log: the latest rows, or those around the message that    *)
(* the route names.  The window is extended at either end, and pruned at   *)
(* the other one.                                                          *)
(*                                                                         *)
(* The log is one sequence of rows for all chats; a row stands for its     *)
(* chat and for the message it records.  Scrolling, the platform filter,   *)
(* menus, attachments and the texts of errors are left out.                *)
(***************************************************************************)
EXTENDS Integers, Sequences, FiniteSets

CONSTANTS Chat,       \* scopes: platform, kind and id of a chat
          None,
          Recorded,   \* the rows recorded before the page is opened
          Link,       \* the routes by which the view is opened, or that are followed to it
          PageLimit,  \* rows that are asked for at once
          Retained,   \* retainedMessages
          MaxRow,     \* bound: rows of the log
          MaxTrouble  \* bound: lost connections and refused requests

NoMessage == 0

(* A route names one chat or, without the kind, several, and maybe a       *)
(* message, which need not be in the log.                                  *)
Route == [to : SUBSET Chat, message : Nat]

ASSUME ChatLogsAssumption ==
    /\ None \notin Chat
    /\ Recorded \in Seq(Chat) /\ Link \subseteq Route
    /\ PageLimit \in Nat \ {0} /\ Retained \in Nat /\ Retained >= PageLimit
    /\ MaxRow \in Nat /\ MaxTrouble \in Nat

VARIABLES page,     \* the view
          log,      \* the server's table: the chat of each row
          troubles
vars == <<page, log, troubles>>

----------------------------------------------------------------------------
(* What the server reads. *)

Rows(chat)    == {row \in DOMAIN log : log[row] = chat}
Lowest(S, n)  == {row \in S : Cardinality({other \in S : other < row}) < n}
Highest(S, n) == {row \in S : Cardinality({other \in S : other > row}) < n}

(* asOf, which is not part of the answer, is the log's length when it was  *)
(* read.                                                                   *)
Window(chat, rows) ==
    [of |-> chat, rows |-> rows, asOf |-> Len(log),
     hasOlder |-> \E row \in Rows(chat), first \in rows : \A other \in rows : row < other,
     hasNewer |-> \E row \in Rows(chat), last \in rows : \A other \in rows : row > other]
NoWindow == [of |-> None, rows |-> {}, asOf |-> 0, hasOlder |-> FALSE, hasNewer |-> FALSE]

Latest(chat)      == Window(chat, Highest(Rows(chat), PageLimit))
Before(chat, row) == Window(chat, Highest({r \in Rows(chat) : r < row}, PageLimit))
After(chat, row)  == Window(chat, Lowest({r \in Rows(chat) : r > row}, PageLimit))
Around(chat, row) ==
    LET older == Highest({r \in Rows(chat) : r <= row}, PageLimit \div 2 + 1)
        newer == Lowest({r \in Rows(chat) : r > row}, PageLimit - Cardinality(older))
    IN Window(chat, older \cup newer)

(* The chats, the one of the latest row first.                             *)
Nth(S, k) == CHOOSE n \in S : Cardinality({m \in S : m < n}) = k - 1
Listing ==
    LET latest == {row \in DOMAIN log : \A later \in DOMAIN log : log[later] = log[row] => later <= row}
        count  == Cardinality(latest)
    IN [k \in 1 .. count |-> log[Nth(latest, count - k + 1)]]

----------------------------------------------------------------------------
(* Calls.  Those whose request or generation is not the latest one, of     *)
(* which no answer is used, are forgotten.                                 *)

Live(p) == p.conn = "authenticated"
Call(p, what, to, row) ==
    [p EXCEPT !.calls = @ \cup {[what |-> what, to |-> to, row |-> row, chats |-> <<>>, window |-> NoWindow,
                                 current |-> TRUE, found |-> FALSE, got |-> IF Live(p) THEN "none" ELSE "error"]}]

SupersedeNone(p) == p \* mutant: the generation is not compared
Supersede(p) == [p EXCEPT !.calls = {c \in @ : c.what = "list"}]

(* The chats that the route names, in the order of the listing.            *)
Named(p) ==
    LET named == {n \in DOMAIN p.chats : p.chats[n] \in p.route.to}
    IN [k \in 1 .. Cardinality(named) |-> p.chats[Nth(named, k)]]

(* Without a chat that the route names the first one is selected: the      *)
(* route is replaced by its own, of which the watcher calls this again.    *)
Selected(p) ==
    LET busy   == [p EXCEPT !.loadingWindow = TRUE]
        first  == [to |-> {p.chats[1]}, message |-> NoMessage]
    IN CASE p.chats = <<>> -> [p EXCEPT !.loadingWindow = FALSE]
         [] p.chats # <<>> /\ Named(p) # <<>> -> Call(busy, "select", Named(p), p.route.message)
         [] OTHER -> Call([busy EXCEPT !.route = first], "select", <<p.chats[1]>>, NoMessage)

SelectFromRouteOnly(p) == Selected(Supersede(p)) \* mutant: loadingDirection is left to the call it is of
SelectFromRoute(p) == Selected([Supersede(p) EXCEPT !.direction = "none"])

(* The chats are tried in turn until one has the message.  What was asked  *)
(* for the window before is then not current.                              *)
SelectArrives(p, c) ==
    IF c.got = "ok" /\ (c.row = NoMessage \/ c.found)
    THEN [p EXCEPT !.window = c.window, !.loadingWindow = FALSE, !.calls = {[d EXCEPT !.current = FALSE] : d \in @}]
    ELSE IF Len(c.to) > 1 THEN Call(p, "select", Tail(c.to), c.row)
    ELSE [p EXCEPT !.loadingWindow = FALSE]

----------------------------------------------------------------------------
(* The window is extended: page and mergeChatLogItems. *)

Merge(rows, more, direction) ==
    IF direction = "older" THEN Lowest(rows \cup more, Retained) ELSE Highest(rows \cup more, Retained)

PageArrivesAnyway(p, c) == \* mutant: the window may have been replaced
    LET old    == p.window
        pruned == Cardinality(old.rows \cup c.window.rows) > Retained
        merged ==
          [old EXCEPT
             !.rows = Merge(@, c.window.rows, c.what),
             !.asOf = IF c.what = "newer" THEN c.window.asOf ELSE @,
             !.hasOlder = IF c.what = "older" THEN c.window.hasOlder ELSE @ \/ pruned,
             !.hasNewer = IF c.what = "newer" THEN c.window.hasNewer ELSE @ \/ pruned]
    IN [p EXCEPT !.direction = "none", !.window = IF c.got = "ok" THEN merged ELSE @]

PageArrives(p, c) ==
    LET old    == p.window
        pruned == Cardinality(old.rows \cup c.window.rows) > Retained
        merged ==
          [old EXCEPT
             !.rows = Merge(@, c.window.rows, c.what),
             !.asOf = IF c.what = "newer" THEN c.window.asOf ELSE @,
             !.hasOlder = IF c.what = "older" THEN c.window.hasOlder ELSE @ \/ pruned,
             !.hasNewer = IF c.what = "newer" THEN c.window.hasNewer ELSE @ \/ pruned]
    IN [p EXCEPT !.direction = "none", !.window = IF c.current /\ c.got = "ok" THEN merged ELSE @]

----------------------------------------------------------------------------
(* The list of chats. *)

Refresh(p) ==
    LET q == [p EXCEPT !.calls = {}, !.direction = "none", !.loadingWindow = FALSE,
                       !.loading = p.conn # "offline" /\ p.chats = <<>>]
    IN IF Live(p) THEN Call(q, "list", <<>>, NoMessage) ELSE q

ListArrives(p, c) ==
    LET q == [p EXCEPT !.loading = FALSE]
    IN IF c.got = "ok" THEN SelectFromRoute([q EXCEPT !.chats = c.chats]) ELSE q

----------------------------------------------------------------------------
(* What the user does.  The layout is shown once there are chats.          *)

Changes(p) == page' = p /\ UNCHANGED <<log, troubles>>

(* A link, the browser's history, or a chat of the list: the watcher of    *)
(* the route follows.                                                      *)
Go(route)        == route # page.route /\ Changes(SelectFromRoute([page EXCEPT !.route = route]))
SelectChat(chat) == chat \in {page.chats[n] : n \in DOMAIN page.chats} /\ Go([to |-> {chat}, message |-> NoMessage])
OpenMessage(row) == row \in page.window.rows /\ Go([to |-> {page.window.of}, message |-> row])

RefreshAgain     == Changes(Refresh(page))

(* The buttons, and loadAtScrollEdge.                                      *)
Page(direction) ==
    LET rows == page.window.rows
        edge == IF direction = "older" THEN Lowest(rows, 1) ELSE Highest(rows, 1)
    IN /\ IF direction = "older" THEN page.window.hasOlder ELSE page.window.hasNewer
       /\ page.direction = "none"
       /\ \E row \in edge : Changes(Call([page EXCEPT !.direction = direction], direction, <<page.window.of>>, row))

----------------------------------------------------------------------------
(* The connection, of which the watcher refreshes, and the server.         *)

Drop ==
    /\ Live(page) /\ troubles < MaxTrouble /\ troubles' = troubles + 1
    /\ page' = Refresh([page EXCEPT !.conn = "reconnecting"])
    /\ UNCHANGED log
Reconnect == ~Live(page) /\ Changes(Refresh([page EXCEPT !.conn = "authenticated"]))
GiveUp    == page.conn = "reconnecting" /\ Changes(Refresh([page EXCEPT !.conn = "offline"]))

(* What is read for a message that the log has not may be the window       *)
(* around another one: that of its thread.                                 *)
Reads(c) ==
    LET chat == c.to[1]
        No(windows) == {[window |-> w, found |-> FALSE] : w \in windows}
    IN CASE c.what = "older" -> No({Before(chat, c.row)})
         [] c.what = "newer" -> No({After(chat, c.row)})
         [] c.what = "select" /\ c.row = NoMessage -> No({Latest(chat)})
         [] c.what = "select" /\ c.row # NoMessage ->
              IF c.row \in Rows(chat) THEN {[window |-> Around(chat, c.row), found |-> TRUE]}
              ELSE No({Latest(chat)}) \cup {[window |-> Around(chat, r), found |-> TRUE] : r \in Rows(chat)}

Becomes(c, answer) == page' = [page EXCEPT !.calls = (@ \ {c}) \cup {answer}] /\ UNCHANGED log

Serve(c) ==
    /\ c.got = "none" /\ UNCHANGED troubles
    /\ IF c.what = "list" THEN Becomes(c, [c EXCEPT !.got = "ok", !.chats = Listing])
       ELSE \E read \in Reads(c) : Becomes(c, [c EXCEPT !.got = "ok", !.window = read.window, !.found = read.found])
Refuse(c) ==
    /\ c.got = "none" /\ troubles < MaxTrouble /\ troubles' = troubles + 1
    /\ Becomes(c, [c EXCEPT !.got = "error"])

Answer(c) ==
    /\ c.got # "none"
    /\ LET p == [page EXCEPT !.calls = @ \ {c}]
       IN Changes(CASE c.what = "list"   -> ListArrives(p, c)
                    [] c.what = "select" -> SelectArrives(p, c)
                    [] OTHER             -> PageArrives(p, c))

(* A message is recorded. *)
Record(chat) == Len(log) < MaxRow /\ log' = Append(log, chat) /\ UNCHANGED <<page, troubles>>

----------------------------------------------------------------------------
Init ==
    /\ log = Recorded /\ troubles = 0
    /\ \E route \in Link :
         page = Refresh([conn |-> "authenticated", route |-> route, chats |-> <<>>, window |-> NoWindow,
                         loading |-> TRUE, loadingWindow |-> FALSE, direction |-> "none", calls |-> {}])

User ==
    \/ \E route \in Link : Go(route)
    \/ \E chat \in Chat : SelectChat(chat)
    \/ \E row \in DOMAIN log : OpenMessage(row)
    \/ RefreshAgain \/ Page("older") \/ Page("newer")

Next ==
    \/ User \/ Drop \/ Reconnect \/ GiveUp
    \/ \E c \in page.calls : Serve(c) \/ Refuse(c) \/ Answer(c)
    \/ \E chat \in Chat : Record(chat)

Spec == Init /\ [][Next]_vars

----------------------------------------------------------------------------
(* The window is a run of one chat's log, within the bound, and tells the  *)
(* truth about what lies beyond it: there are older rows exactly when it   *)
(* says so, there are newer ones when it says so, and when it does not the *)
(* rows that are missing were recorded after it was read.                  *)
LogIsWhole ==
    LET w       == page.window
        ours    == Rows(w.of)
        before  == {row \in ours : \A shown \in w.rows : row < shown}
        after   == {row \in ours : \A shown \in w.rows : row > shown}
    IN w.rows # {} =>
         /\ w.rows = ours \ (before \cup after) /\ Cardinality(w.rows) <= Retained
         /\ w.hasOlder = (before # {})
         /\ IF w.hasNewer THEN after # {} ELSE \A row \in after : row > w.asOf

(* A chat comes into view only while the route names it, whatever answers  *)
(* are still on their way from the routes before.                          *)
WindowFollowsTheRoute ==
    [][page'.window.of # page.window.of => page'.window.of \in page'.route.to]_vars

(* The buttons and the spinners wait only for calls that are on their way  *)
(* and will be heard; the window is extended in one direction at a time.   *)
ButtonsComeBack ==
    LET asked(whats) == {c \in page.calls : c.what \in whats}
    IN /\ page.direction # "none" => \E c \in asked({"older", "newer"}) : c.what = page.direction
       /\ page.loadingWindow => asked({"select"}) # {}
       /\ page.loading /\ page.conn # "reconnecting" => asked({"list"}) # {}
       /\ Cardinality(asked({"older", "newer"})) <= 1
=============================================================================
