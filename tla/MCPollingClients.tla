-------------------------- MODULE MCPollingClients --------------------------
(* Small instances of PollingClients for TLC: one character that may come   *)
(* and go under two tokens.                                                 *)
EXTENDS PollingClients

TheSessions == 1 .. 2
TheOwner == [t \in TheSessions |-> "a"]
=============================================================================
