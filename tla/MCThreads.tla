------------------------------- MODULE MCThreads -------------------------------
(* Instances of ActiveThreads for TLC. *)
EXTENDS ActiveThreads, TLC

CONSTANTS ann, bob, h1, h2

\* Two senders, so that a reply may come from someone else.
TwoSenders == [m \in Msg |-> IF m = 2 THEN bob ELSE ann]
OneSender  == [m \in Msg |-> ann]

=============================================================================
