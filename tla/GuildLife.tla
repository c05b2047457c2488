------------------------------- MODULE GuildLife -------------------------------
(***************************************************************************)
(* Guilds, their ranks and invitations (guild.go, the guilds of             *)
(* file_store.go).  A guild is kept under its name, which is the realm's     *)
(* only one; what it is are its leader and the rank of each of its members. *)
(***************************************************************************)
EXTENDS SocialSessions, Naturals, FiniteSets, Functions

CONSTANTS
    GuildNames,
    MaxGuildInvites     \* bound: invitations at a time

ASSUME GuildInvitesAssumption == MaxGuildInvites \in Nat

VARIABLES
    guilds,             \* the store's: name -> a guild, for the names in use
    guildInvites        \* the store's: records [guild, from, to]
guilded == <<guilds, guildInvites>>

(* DefaultGuildRanks: the number is the rank's priority. *)
Leader == 0
Officer == 1
Member == 2
Recruit == 3
Ranks == Leader..Recruit
Allowed(rank) ==
    CASE rank = Leader -> {"invite", "remove", "promote", "demote", "motd", "disband"}
      [] rank = Officer -> {"invite", "remove", "promote", "demote", "motd"}
      [] OTHER -> {}

GuildsInit == guilds = <<>> /\ guildInvites = {}

-----------------------------------------------------------------------------
(* The store. *)

GuildMembers(g) == DOMAIN guilds[g].rank
GetGuildForCharacter(c) == {g \in DOMAIN guilds : c \in GuildMembers(g)}

CreateGuild(g, c) ==
    /\ g \notin DOMAIN guilds /\ GetGuildForCharacter(c) = {}
    /\ guilds' = [h \in DOMAIN guilds \cup {g} |->
                     IF h = g THEN [leader |-> c, rank |-> [d \in {c} |-> Leader], motd |-> FALSE]
                     ELSE guilds[h]]

(* A guild without members goes; one whose leader is not among them gets another. *)
SaveGuild(g, guild) ==
    IF DOMAIN guild.rank = {} THEN Restrict(guilds, DOMAIN guilds \ {g})
    ELSE IF guild.leader \in DOMAIN guild.rank THEN [guilds EXCEPT ![g] = guild]
    ELSE LET next == CHOOSE c \in DOMAIN guild.rank : TRUE
         IN [guilds EXCEPT ![g] = [guild EXCEPT !.leader = next, !.rank[next] = Leader]]

DeleteGuild(g) ==
    /\ guilds' = Restrict(guilds, DOMAIN guilds \ {g})
    /\ guildInvites' = {i \in guildInvites : i.guild # g}

CreateGuildInvite(g, c, d, kept) ==
    /\ GetGuildForCharacter(d) = {}
    /\ \A i \in kept : ~(i.guild = g /\ i.to = d)
    /\ Cardinality(kept) < MaxGuildInvites
    /\ guildInvites' = kept \cup {[guild |-> g, from |-> c, to |-> d]}

(* CleanupExpiredGuildInvites: any one may have expired. *)
Lapsed == {{}} \cup {{invite} : invite \in guildInvites}

-----------------------------------------------------------------------------
(* The handlers. *)

GuildMemberHasPermission(g, c, permission) ==
    c \in GuildMembers(g) /\ permission \in Allowed(guilds[g].rank[c])

(* Nobody acts on the leader, and an officer on nobody of the same rank. *)
GuildCanActOnMember(g, c, d) ==
    /\ {c, d} \subseteq GuildMembers(g)
    /\ guilds[g].rank[d] # Leader
    /\ guilds[g].rank[c] < guilds[g].rank[d]

GuildCanAssignRank(g, c, rank) == rank # Leader /\ guilds[g].rank[c] < rank

NextGuildRank(rank, promote) == IF promote THEN rank - 1 ELSE rank + 1

(* Those whose invitations are out stay what they are, unless the instance says otherwise. *)
NoInvitesBy(g, c) ==
    "departed" \in SocialRaces \/ \A i \in guildInvites : ~(i.guild = g /\ i.from = c)

GuildCreate(c, g) == HasSession(c) /\ CreateGuild(g, c) /\ UNCHANGED guildInvites

GuildInvite(c, d) ==
    /\ HasSession(c) /\ c # d
    /\ \E lapsed \in Lapsed : \E g \in GetGuildForCharacter(c) :
          /\ GuildMemberHasPermission(g, c, "invite")
          /\ CreateGuildInvite(g, c, d, guildInvites \ lapsed)
    /\ UNCHANGED guilds

(* The member is saved, and then the invitation taken away, whether that works or not. *)
GuildAccept(c) ==
    /\ HasSession(c)
    /\ GetGuildForCharacter(c) = {} \/ "unread" \in SocialRaces
    /\ \E lapsed \in Lapsed : \E i \in {i \in guildInvites \ lapsed : i.to = c} :
          /\ i.guild \in DOMAIN guilds
          /\ guilds' = SaveGuild(i.guild, [guilds[i.guild] EXCEPT !.rank =
                [d \in DOMAIN @ \cup {c} |-> IF d \in DOMAIN @ THEN @[d] ELSE Recruit]])
          /\ guildInvites' \in {(guildInvites \ lapsed) \ {i}}
                \cup (IF "inviteStays" \in SocialRaces THEN {guildInvites \ lapsed} ELSE {})

GuildDecline(c) ==
    /\ HasSession(c)
    /\ \E lapsed \in Lapsed : \E i \in {i \in guildInvites \ lapsed : i.to = c} :
          guildInvites' = (guildInvites \ lapsed) \ {i}
    /\ UNCHANGED guilds

RemoveGuildMember(g, c) ==
    guilds' = SaveGuild(g, [guilds[g] EXCEPT !.rank = Restrict(@, DOMAIN @ \ {c})])

GuildLeave(c) ==
    /\ HasSession(c)
    /\ \E g \in GetGuildForCharacter(c) :
          /\ guilds[g].leader # c
          /\ NoInvitesBy(g, c)
          /\ RemoveGuildMember(g, c)
    /\ UNCHANGED guildInvites

GuildRemove(c, d) ==
    /\ HasSession(c) /\ c # d
    /\ \E g \in GetGuildForCharacter(c) :
          /\ d \in GuildMembers(g)
          /\ GuildMemberHasPermission(g, c, "remove") /\ GuildCanActOnMember(g, c, d)
          /\ NoInvitesBy(g, d)
          /\ RemoveGuildMember(g, d)
    /\ UNCHANGED guildInvites

\* Mutant: an officer makes others what it is, and a leader a leader.
WrongGuildRankChange(c, d, promote) ==
    /\ HasSession(c) /\ c # d
    /\ \E g \in GetGuildForCharacter(c) :
          /\ d \in GuildMembers(g)
          /\ GuildMemberHasPermission(g, c, IF promote THEN "promote" ELSE "demote")
          /\ GuildCanActOnMember(g, c, d)
          /\ LET rank == NextGuildRank(guilds[g].rank[d], promote)
             IN /\ rank \in Ranks
                /\ rank < Officer => NoInvitesBy(g, d)
                /\ guilds' = SaveGuild(g, [guilds[g] EXCEPT !.rank[d] = rank])
    /\ UNCHANGED guildInvites

GuildRankChange(c, d, promote) ==
    /\ HasSession(c) /\ c # d
    /\ \E g \in GetGuildForCharacter(c) :
          /\ d \in GuildMembers(g)
          /\ GuildMemberHasPermission(g, c, IF promote THEN "promote" ELSE "demote")
          /\ GuildCanActOnMember(g, c, d)
          /\ LET rank == NextGuildRank(guilds[g].rank[d], promote)
             IN /\ rank \in Ranks /\ GuildCanAssignRank(g, c, rank)
                /\ ~promote => NoInvitesBy(g, d)
                /\ guilds' = SaveGuild(g, [guilds[g] EXCEPT !.rank[d] = rank])
    /\ UNCHANGED guildInvites

GuildMOTD(c) ==
    /\ HasSession(c)
    /\ \E g \in GetGuildForCharacter(c) : \E motd \in BOOLEAN :
          /\ GuildMemberHasPermission(g, c, "motd")
          /\ guilds' = SaveGuild(g, [guilds[g] EXCEPT !.motd = motd])
    /\ UNCHANGED guildInvites

GuildDisband(c) ==
    /\ HasSession(c)
    /\ \E g \in GetGuildForCharacter(c) :
          GuildMemberHasPermission(g, c, "disband") /\ DeleteGuild(g)

GuildNext ==
    \E c \in Characters :
       \/ \E g \in GuildNames : GuildCreate(c, g)
       \/ GuildAccept(c) \/ GuildDecline(c) \/ GuildLeave(c)
       \/ GuildMOTD(c) \/ GuildDisband(c)
       \/ \E d \in Characters :
             \/ GuildInvite(c, d) \/ GuildRemove(c, d)
             \/ \E promote \in BOOLEAN : GuildRankChange(c, d, promote)

-----------------------------------------------------------------------------
GuildTypeOK ==
    /\ \A g \in DOMAIN guilds :
          /\ g \in GuildNames
          /\ guilds[g].leader \in Characters /\ guilds[g].motd \in BOOLEAN
          /\ GuildMembers(g) \subseteq Characters
          /\ \A c \in GuildMembers(g) : guilds[g].rank[c] \in Ranks
    /\ guildInvites \subseteq [guild : GuildNames, from : Characters, to : Characters]

(* Nobody is in two guilds, and each guild has one leader, of the leader's rank,  *)
(* whoever invites, promotes, removes, leaves and disbands.                       *)
OneGuildEach ==
    /\ \A c \in Characters : Cardinality(GetGuildForCharacter(c)) <= 1
    /\ \A g \in DOMAIN guilds :
          {c \in GuildMembers(g) : guilds[g].rank[c] = Leader} = {guilds[g].leader}

(* Who comes into a guild it did not found was asked by one who may ask at that   *)
(* moment, and not a second time by the same invitation.                          *)
GuildJoin(c, g) ==
    /\ g \in DOMAIN guilds /\ g \in DOMAIN guilds'
    /\ c \notin GuildMembers(g) /\ c \in GuildMembers(g)'
AskedByTheGuild ==
    [][\A c \in Characters : \A g \in GuildNames : GuildJoin(c, g) =>
         \E i \in guildInvites :
            /\ i.guild = g /\ i.to = c /\ i \notin guildInvites'
            /\ GuildMemberHasPermission(g, i.from, "invite")]_guilded
=============================================================================
