-------------------------------- MODULE MCChat --------------------------------
(* ChatPage for TLC: a session with more messages than a page has, read by *)
(* a user who attaches nothing, and two empty sessions to write to.        *)
EXTENDS ChatPage

MCTrial == {[existing |-> {1}, stored |-> 2, files |-> 0, back |-> TRUE],
            [existing |-> {1, 2}, stored |-> 0, files |-> 2, back |-> FALSE]}

(* Bound: the first file is not for the second of the two empty sessions,  *)
(* which the order of the list alone tells apart.                          *)
FirstForTheFirst == <<2, 1>> \notin server.files
=============================================================================
