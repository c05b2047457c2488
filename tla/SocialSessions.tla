---------------------------- MODULE SocialSessions ----------------------------
(***************************************************************************)
(* What parties, guilds and talk share: who has a world session.  Every     *)
(* social handler is one step, for it runs under the world server's mutex;  *)
(* a session whose client is gone stays, and may still be used, until the   *)
(* clean-up takes it.  The store keeps parties, guilds and friends; the     *)
(* service's memory keeps sessions, party invitations and chat.             *)
(***************************************************************************)
EXTENDS Naturals, FiniteSets

CONSTANTS
    Characters,
    SocialRaces     \* hazards the instance lets happen

(***************************************************************************)
(* unread      the store's answer to "who is in a group" may be an error,   *)
(*             which those who accept an invitation take for a no           *)
(* inviteStays the guild has its new member and the invitation is not gone  *)
(* departed    who invited to a guild has left it or lost its rank since    *)
(* renumbered  the service starts again while clients hold message numbers  *)
(* replayed    an answer has more messages than a client keeps              *)
(***************************************************************************)
ASSUME SocialSessionsAssumption ==
    SocialRaces \subseteq {"unread", "inviteStays", "departed", "renumbered", "replayed"}

VARIABLE presence       \* character -> "none", "on", or "off" (not seen lately)

SessionsInit == presence = [c \in Characters |-> "none"]

HasSession(c) == presence[c] # "none"
IsOnline(c) == presence[c] = "on"

(* findConnectedSessionByCharacter's ones. *)
Connected == {c \in Characters : IsOnline(c)}

SessionsTypeOK == presence \in [Characters -> {"none", "on", "off"}]

Arrives(c) == ~IsOnline(c) /\ presence' = [presence EXCEPT ![c] = "on"]
Leaves(c) == IsOnline(c) /\ presence' = [presence EXCEPT ![c] = "off"]
Expires(c) == presence[c] = "off" /\ presence' = [presence EXCEPT ![c] = "none"]
Restarts == presence' = [c \in Characters |-> "none"]

-----------------------------------------------------------------------------
(* The elements of a sequence at some of its places, in their order. *)
Order(places, i) == Cardinality({j \in places : j <= i})
Selected(seq, places) == [k \in 1..Cardinality(places) |-> seq[CHOOSE i \in places : Order(places, i) = k]]
=============================================================================
