---------------------------- MODULE SqlConnection ----------------------------
(***************************************************************************)
(* What the parts of the SQL store share: one database connection and the  *)
(* ones who call it.  A transaction (Store.WithTransaction) and a statement *)
(* outside of one keep the connection until they are done; so each is one   *)
(* step, and between two of them anybody else's may come.                   *)
(***************************************************************************)
CONSTANTS
    Characters,
    Callers,        \* of operations of more than one step
    Nobody,
    Races           \* hazards the instance lets happen

ASSUME SqlConnectionAssumption ==
    /\ Nobody \notin Characters
    /\ Races \subseteq {"unversioned", "lateprogress", "listmail", "crash", "stale", "revived", "consume",
                    "asgiven"}

=============================================================================
