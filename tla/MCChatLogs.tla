----------------------------- MODULE MCChatLogs -----------------------------
(* ChatLogs for TLC: two chats, the log of one of which is longer than a   *)
(* window, and links to a chat, to chats of either kind, to a message that *)
(* is in the log, and to one that is not.                                  *)
EXTENDS ChatLogs

MCRecorded == <<"a", "b", "a", "a", "a", "a">>

MCLink == {[to |-> {"a"}, message |-> NoMessage], [to |-> {}, message |-> NoMessage],
           [to |-> {"a", "b"}, message |-> 2], [to |-> {"b"}, message |-> 99]}
=============================================================================
