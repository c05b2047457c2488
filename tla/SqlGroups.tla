------------------------------ MODULE SqlGroups ------------------------------
(***************************************************************************)
(* The SQL store's parties, guilds, their invitations, and friends.         *)
(*                                                                         *)
(* A group's row and its members' rows are in two tables.  A transaction   *)
(* (WithTransaction) is one step and so is a statement outside of one:     *)
(* DeleteParty and DeleteGuild are two of those, with the group disbanded   *)
(* and its members not yet gone in between.  A caller of SaveParty or       *)
(* SaveGuild has read the group before, changed its copy, and writes all   *)
(* of it.  Parties and guilds differ by a few lines, kept as conditions.    *)
(***************************************************************************)
EXTENDS SqlConnection, Naturals, FiniteSets

CONSTANTS
    Parties, Guilds,        \* identifiers that randomID may give
    Invites,                \* likewise
    MaxCalls                \* bound: operations that change something

ASSUME SqlGroupsAssumption ==
    /\ Nobody \notin Parties \cup Guilds /\ Parties \cap Guilds = {}
    /\ MaxCalls \in Nat

VARIABLES
    groups,     \* party or guild -> its row: leader, live (not disbanded)
    members,    \* the members' rows that have not left: <<group, character>>
    invites,    \* invite -> its row
    friends,    \* pairs: owner, friend
    copies,     \* caller -> a group as it read it
    deleting,   \* caller -> the group it has disbanded and not yet emptied
    calls
grouped == <<groups, members, invites, friends, copies, deleting, calls>>

Groups == Parties \cup Guilds
Kind(g) == IF g \in Parties THEN Parties ELSE Guilds
None == [of |-> Nobody, leader |-> Nobody, members |-> {}]
Group == [leader : Characters \cup {Nobody}, live : BOOLEAN]
Invite ==
    [of : Groups \cup {Nobody}, by : Characters \cup {Nobody}, to : Characters \cup {Nobody},
     state : {"none", "pending", "accepted", "declined", "expired", "deleted"}]

GroupedInit ==
    /\ groups = [g \in Groups |-> [leader |-> Nobody, live |-> FALSE]]
    /\ members = {}
    /\ invites = [i \in Invites |-> [of |-> Nobody, by |-> Nobody, to |-> Nobody, state |-> "none"]]
    /\ friends = {}
    /\ copies = [k \in Callers |-> None]
    /\ deleting = [k \in Callers |-> Nobody]
    /\ calls = 0

Call == calls < MaxCalls /\ calls' = calls + 1

-----------------------------------------------------------------------------
(* Rows. *)

LoadMembers(g) == {c \in Characters : <<g, c>> \in members}

(* The group of a character: its row joined with that of a live group. *)
GetGroupForCharacter(c, kind) == {g \in kind : groups[g].live /\ <<g, c>> \in members}

(* The unique index: a character has one row that has not left for each kind *)
(* of group, be that group live or not.                                      *)
MayHold(g, ms) == \A c \in ms : \A h \in Kind(g) \ {g} : <<h, c>> \notin members

Unused(g) == groups[g].leader = Nobody

(* saveParty, saveGuild: the row is inserted or replaced, live in any case, the *)
(* members are those given and nobody else.                                     *)
SaveGroup(g, leader, ms) ==
    /\ MayHold(g, ms)
    /\ groups' = [groups EXCEPT ![g] = [leader |-> leader, live |-> TRUE]]
    /\ members' = {r \in members : r[1] # g} \cup ({g} \X ms)

-----------------------------------------------------------------------------
(* Parties. *)

CreateParty(g, c) ==
    /\ Call /\ g \in Parties /\ Unused(g)
    /\ SaveGroup(g, c, {c})
    /\ UNCHANGED <<invites, friends, copies, deleting>>

(* The leader is a member whatever the list says. *)
NormalizePartyMembers(leader, ms) == {leader} \cup ms

AtRest(k) == copies[k] = None /\ deleting[k] = Nobody

GetGroup(k, g) ==
    /\ groups[g].live /\ AtRest(k)
    /\ copies' = [copies EXCEPT ![k] = [of |-> g, leader |-> groups[g].leader, members |-> LoadMembers(g)]]
    /\ UNCHANGED <<groups, members, invites, friends, deleting, calls>>

AsRead(k) ==
    LET g == copies[k].of
    IN  groups[g] = [leader |-> copies[k].leader, live |-> TRUE] /\ LoadMembers(g) = copies[k].members

(* What the callers do with their copy: add someone, drop someone, lead. *)
Edits(k) ==
    [leader : {copies[k].leader}, members : {copies[k].members \cup {c} : c \in Characters}]
    \cup [leader : {copies[k].leader}, members : {copies[k].members \ {c} : c \in Characters}]
    \cup [leader : copies[k].members, members : {copies[k].members}]

(* A stale copy forgets who joined meanwhile, and brings a disbanded party back. *)
MaySave(k) ==
    \/ AsRead(k)
    \/ groups[copies[k].of].live /\ "stale" \in Races
    \/ ~groups[copies[k].of].live /\ "revived" \in Races

SaveParty(k, e) ==
    /\ Call /\ copies[k].of \in Parties /\ MaySave(k)
    /\ e \in Edits(k)
    /\ SaveGroup(copies[k].of, e.leader, NormalizePartyMembers(e.leader, e.members))
    /\ copies' = [copies EXCEPT ![k] = None]
    /\ UNCHANGED <<invites, friends, deleting>>

-----------------------------------------------------------------------------
(* Guilds. *)

CreateGuild(g, c) ==
    /\ Call /\ g \in Guilds /\ Unused(g)
    /\ GetGroupForCharacter(c, Guilds) = {}
    /\ SaveGroup(g, c, {c})
    /\ UNCHANGED <<invites, friends, copies, deleting>>

(* Without members it is deleted; when its leader is gone another one leads. *)
SaveGuild(k, e) ==
    /\ Call /\ copies[k].of \in Guilds /\ MaySave(k)
    /\ e \in Edits(k)
    /\ IF e.members = {}
          THEN /\ groups' = [groups EXCEPT ![copies[k].of].live = FALSE]
               /\ deleting' = [deleting EXCEPT ![k] = copies[k].of]
               /\ UNCHANGED members
          ELSE /\ \E leader \in e.members :
                     /\ e.leader \in e.members => leader = e.leader
                     /\ SaveGroup(copies[k].of, leader, e.members)
               /\ UNCHANGED deleting
    /\ copies' = [copies EXCEPT ![k] = None]
    /\ UNCHANGED <<invites, friends>>

-----------------------------------------------------------------------------
(* DeleteParty and DeleteGuild. *)

DeleteGroup(k, g) ==
    /\ Call /\ AtRest(k) /\ groups[g].live
    /\ groups' = [groups EXCEPT ![g].live = FALSE]
    /\ deleting' = [deleting EXCEPT ![k] = g]
    /\ UNCHANGED <<members, invites, friends, copies>>

WrongEmptyGroup(k) ==
    /\ deleting[k] # Nobody
    /\ members' = {r \in members : r # <<deleting[k], groups[deleting[k]].leader>>}
    /\ deleting' = [deleting EXCEPT ![k] = Nobody]
    /\ UNCHANGED <<groups, invites, friends, copies, calls>>

EmptyGroup(k) ==
    /\ deleting[k] # Nobody
    /\ members' = {r \in members : r[1] # deleting[k]}
    /\ deleting' = [deleting EXCEPT ![k] = Nobody]
    /\ UNCHANGED <<groups, invites, friends, copies, calls>>

(* The process dies in between, and nobody empties the group any more. *)
Crash(k) ==
    /\ deleting[k] # Nobody => "crash" \in Races
    /\ copies[k] # None \/ deleting[k] # Nobody
    /\ copies' = [copies EXCEPT ![k] = None]
    /\ deleting' = [deleting EXCEPT ![k] = Nobody]
    /\ UNCHANGED <<groups, members, invites, friends, calls>>

-----------------------------------------------------------------------------
(* Invitations. *)

Pending(of, by, to) ==
    \E i \in Invites : invites[i].state = "pending" /\ invites[i].to = to
                       /\ (of \in Guilds => invites[i].of = of) /\ (of \in Parties => invites[i].by = by)

(* An invitation to a party is to the party, or to whatever party its inviter has. *)
CreatePartyInvite(i, g, by, to) ==
    /\ Call /\ invites[i].state = "none" /\ by # to
    /\ g \in Parties /\ ~Pending(g, by, to)
    /\ invites' = [invites EXCEPT ![i] = [of |-> g, by |-> by, to |-> to, state |-> "pending"]]
    /\ UNCHANGED <<groups, members, friends, copies, deleting>>

CreateGuildInvite(i, g, by, to) ==
    /\ Call /\ invites[i].state = "none"
    /\ g \in Guilds /\ groups[g].live
    /\ GetGroupForCharacter(to, Guilds) = {} /\ ~Pending(g, by, to)
    /\ invites' = [invites EXCEPT ![i] = [of |-> g, by |-> by, to |-> to, state |-> "pending"]]
    /\ UNCHANGED <<groups, members, friends, copies, deleting>>

(* The party of the invitation, or else the inviter's, or else a new one. *)
PartyToJoin(i) ==
    LET inv == invites[i]
        own == GetGroupForCharacter(inv.by, Parties)
    IN  IF groups[inv.of].live THEN {inv.of}
        ELSE IF own # {} THEN own ELSE {g \in Parties : Unused(g)}

Admit(i, g) ==
    LET leader == IF Unused(g) THEN invites[i].by ELSE groups[g].leader
        ms == (IF Unused(g) THEN {invites[i].by} ELSE LoadMembers(g)) \cup {invites[i].to}
    IN  /\ SaveGroup(g, leader, IF g \in Parties THEN NormalizePartyMembers(leader, ms) ELSE ms)
        /\ invites' = [invites EXCEPT ![i].state = "accepted"]

(* A retry with the same key gets the answer of the first one, without a step. *)
AcceptPartyInvite(i) ==
    /\ Call /\ invites[i].of \in Parties /\ invites[i].state = "pending"
    /\ GetGroupForCharacter(invites[i].to, Parties) = {}
    /\ \E g \in PartyToJoin(i) : Admit(i, g)
    /\ UNCHANGED <<friends, copies, deleting>>

AcceptGuildInvite(i) ==
    /\ Call /\ invites[i].of \in Guilds /\ invites[i].state = "pending"
    /\ GetGroupForCharacter(invites[i].to, Guilds) = {} /\ groups[invites[i].of].live
    /\ Admit(i, invites[i].of)
    /\ UNCHANGED <<friends, copies, deleting>>

Respond(i, state) ==
    /\ invites[i].state = "pending"
    /\ invites' = [invites EXCEPT ![i].state = state]
    /\ UNCHANGED <<groups, members, friends, copies, deleting, calls>>

DeclinePartyInvite(i) == invites[i].of \in Parties /\ Respond(i, "declined")
DeclineGuildInvite(i) == invites[i].of \in Guilds /\ Respond(i, "declined")
CleanupExpiredGuildInvites(i) == invites[i].of \in Guilds /\ Respond(i, "expired")
DeleteGuildInvite(i) ==
    /\ invites[i].of \in Guilds
    /\ invites[i].state \notin {"none", "deleted"}
    /\ invites' = [invites EXCEPT ![i].state = "deleted"]
    /\ UNCHANGED <<groups, members, friends, copies, deleting, calls>>

-----------------------------------------------------------------------------
(* Friends; ignores are the same table once more. *)

AddFriend(owner, friend) ==
    /\ Call /\ owner # friend /\ <<owner, friend>> \notin friends
    /\ friends' = friends \cup {<<owner, friend>>}
    /\ UNCHANGED <<groups, members, invites, copies, deleting>>

RemoveFriend(owner, friend) ==
    /\ Call /\ <<owner, friend>> \in friends
    /\ friends' = friends \ {<<owner, friend>>}
    /\ UNCHANGED <<groups, members, invites, copies, deleting>>

-----------------------------------------------------------------------------
GroupedNext ==
    \/ \E g \in Groups, c \in Characters : CreateParty(g, c) \/ CreateGuild(g, c)
    \/ \E k \in Callers :
        \/ \E g \in Groups : GetGroup(k, g) \/ DeleteGroup(k, g)
        \/ \E e \in [leader : Characters, members : SUBSET Characters] : SaveParty(k, e) \/ SaveGuild(k, e)
        \/ EmptyGroup(k) \/ Crash(k)
    \/ \E i \in Invites :
        \/ \E g \in Groups, by, to \in Characters : CreatePartyInvite(i, g, by, to) \/ CreateGuildInvite(i, g, by, to)
        \/ AcceptPartyInvite(i) \/ AcceptGuildInvite(i)
        \/ DeclinePartyInvite(i) \/ DeclineGuildInvite(i)
        \/ CleanupExpiredGuildInvites(i) \/ DeleteGuildInvite(i)
    \/ \E c, d \in Characters : AddFriend(c, d) \/ RemoveFriend(c, d)

-----------------------------------------------------------------------------
(* Types; nobody is a friend of himself. *)
GroupedTypeOK ==
    /\ groups \in [Groups -> Group]
    /\ members \subseteq Groups \X Characters
    /\ invites \in [Invites -> Invite]
    /\ friends \subseteq {p \in Characters \X Characters : p[1] # p[2]}
    /\ deleting \in [Callers -> Groups \cup {Nobody}]
    /\ calls \in 0..MaxCalls

(* The two tables agree: the leader of a live group is one of its members,  *)
(* and a row that has not left belongs to a live group or to one that some  *)
(* call is about to empty.  A row that stays for ever keeps its character   *)
(* out of every other group of the kind.                                    *)
MembershipAgrees ==
    /\ \A g \in Groups : groups[g].live => <<g, groups[g].leader>> \in members
    /\ \A r \in members : groups[r[1]].live \/ \E k \in Callers : deleting[k] = r[1]

=============================================================================
