-------------------------------- MODULE Society --------------------------------
(***************************************************************************)
(* The social side of the world service: parties, guilds, talk.  They share *)
(* the sessions and no other state that one writes and another reads - talk  *)
(* to a party or guild reaches any set of characters here -, so a run need   *)
(* not interleave them: `circle` says which of them moves.                    *)
(***************************************************************************)
EXTENDS PartyLife, GuildLife, Talk

CONSTANT Guildsmen      \* the characters whose guilds are looked at
ASSUME GuildsmenAssumption == Guildsmen \subseteq Characters

VARIABLE circle
society == <<presence, partied, guilded, talk, circle>>

SocietyInit ==
    /\ circle \in {"parties", "guilds", "talk"}
    /\ SessionsInit /\ PartiesInit /\ GuildsInit /\ TalkInit

Handlers ==
    /\ UNCHANGED presence
    /\ \/ circle = "parties" /\ PartyNext /\ UNCHANGED <<guilded, talk>>
       \/ circle = "guilds" /\ GuildNext /\ UNCHANGED <<partied, talk>>
       \/ circle = "talk" /\ TalkNext /\ UNCHANGED <<partied, guilded>>

Circles == [parties |-> Characters, guilds |-> Guildsmen, talk |-> Talkers]

Sessions ==
    /\ \E c \in Circles[circle] : Arrives(c) \/ Leaves(c) \/ Expires(c)
    /\ UNCHANGED <<partied, guilded, talk>>

(* The service stops and starts: what was in its memory alone is gone. *)
Restart ==
    /\ Restarts
    /\ partyInvites' = {} /\ UNCHANGED <<parties, guilded>>
    /\ TalkRestarts

SocietyNext == UNCHANGED circle /\ (Handlers \/ Sessions \/ Restart)

SocietySpec == SocietyInit /\ [][SocietyNext]_society

(* The three parts' types. *)
SocietyTypeOK == SessionsTypeOK /\ PartyTypeOK /\ GuildTypeOK /\ TalkTypeOK

(* Groups are what they are taken for: nobody is in two parties or two guilds,    *)
(* and each has one leader who is in it.                                          *)
OneGroupEach == OnePartyEach /\ OneGuildEach

(* Who comes into a group was asked in, by one who may ask at that moment, and    *)
(* by each invitation once.                                                       *)
AskedIn == AskedByTheLeader /\ AskedByTheGuild
=============================================================================
