------------------------------- MODULE PartyLife -------------------------------
(***************************************************************************)
(* Parties and their invitations (social.go, the parties of file_store.go). *)
(* A party is a record of its leader and its members in the order they      *)
(* joined; the store finds a character's party by looking into all of them. *)
(***************************************************************************)
EXTENDS SocialSessions, Naturals, FiniteSets, SequencesExt

CONSTANTS
    PartySize,      \* partySizeLimit
    MaxInvites      \* bound: invitations at a time

ASSUME PartySizeAssumption == PartySize \in Nat \ {0, 1} /\ MaxInvites \in Nat

VARIABLES
    parties,            \* the store's
    partyInvites        \* the service's: records [from, to]
partied == <<parties, partyInvites>>

PartiesInit == parties = {} /\ partyInvites = {}

-----------------------------------------------------------------------------
(* The store. *)

Members(party) == ToSet(party.members)
GetPartyForCharacter(c) == {party \in parties : c \in Members(party)}

(* The leader first, nobody twice. *)
NormalizePartyMembers(leader, members) ==
    <<leader>> \o Selected(members, {i \in DOMAIN members :
        members[i] # leader /\ \A j \in DOMAIN members : j < i => members[j] # members[i]})

CreateParty(leader, members) ==
    parties \cup {[leader |-> leader, members |-> NormalizePartyMembers(leader, members)]}

SaveParty(party, saved) ==
    (parties \ {party})
    \cup {[saved EXCEPT !.members = NormalizePartyMembers(saved.leader, saved.members)]}

DeleteParty(party) == parties \ {party}

-----------------------------------------------------------------------------
(* The handlers.  Those that look at invitations drop the expired ones first; more than *)
(* one goes in as many questions for the state.                                       *)

Expired == {{}} \cup {{invite} : invite \in partyInvites}

PartyState(c) ==
    /\ HasSession(c)
    /\ \E expired \in Expired : partyInvites' = partyInvites \ expired
    /\ UNCHANGED parties

PartyInvite(c, d) ==
    /\ HasSession(c) /\ c # d /\ IsOnline(d)
    /\ \A party \in GetPartyForCharacter(c) :
          party.leader = c /\ Len(party.members) < PartySize
    /\ GetPartyForCharacter(d) = {}
    /\ \E expired \in Expired :
          LET kept == partyInvites \ expired
              invite == [from |-> c, to |-> d]
          IN /\ invite \notin kept /\ Cardinality(kept) < MaxInvites
             /\ partyInvites' = kept \cup {invite}
    /\ UNCHANGED parties

\* Mutant: the inviter's party takes whom any of its members invited.
WrongAcceptPartyInvite(c, invite, kept) ==
    /\ GetPartyForCharacter(c) = {} \/ "unread" \in SocialRaces
    /\ IsOnline(invite.from)
    /\ partyInvites' = kept \ {invite}
    /\ \/ /\ GetPartyForCharacter(invite.from) = {}
          /\ parties' = CreateParty(invite.from, <<invite.from, c>>)
       \/ \E party \in GetPartyForCharacter(invite.from) :
             /\ Len(party.members) < PartySize
             /\ parties' = SaveParty(party, [party EXCEPT !.members = Append(@, c)])

(* The party is the one the inviter leads now, or a new one; only its leader's word counts. *)
AcceptPartyInvite(c, invite, kept) ==
    /\ GetPartyForCharacter(c) = {} \/ "unread" \in SocialRaces
    /\ IsOnline(invite.from)
    /\ partyInvites' = kept \ {invite}
    /\ \/ /\ GetPartyForCharacter(invite.from) = {}
          /\ parties' = CreateParty(invite.from, <<invite.from, c>>)
       \/ \E party \in GetPartyForCharacter(invite.from) :
             /\ party.leader = invite.from
             /\ Len(party.members) < PartySize
             /\ parties' = SaveParty(party, [party EXCEPT !.members = Append(@, c)])

(* An inviter who is gone and a full party cost the invitation; other refusals do not. *)
VoidPartyInvite(invite, kept) ==
    /\ \/ ~IsOnline(invite.from)
       \/ \E party \in GetPartyForCharacter(invite.from) :
             party.leader = invite.from /\ Len(party.members) >= PartySize
    /\ partyInvites' = kept \ {invite}
    /\ UNCHANGED parties

PartyAccept(c) ==
    /\ HasSession(c)
    /\ \E expired \in Expired :
          LET kept == partyInvites \ expired
          IN \E invite \in {i \in kept : i.to = c} :
                \/ AcceptPartyInvite(c, invite, kept)
                \/ GetPartyForCharacter(c) = {} /\ VoidPartyInvite(invite, kept)

PartyDecline(c) ==
    /\ HasSession(c)
    /\ \E expired \in Expired :
          LET kept == partyInvites \ expired
          IN \E invite \in {i \in kept : i.to = c} : partyInvites' = kept \ {invite}
    /\ UNCHANGED parties

(* A party of one is none; a leader who leaves is followed by the first of the others. *)
PartyLeave(c) ==
    /\ HasSession(c)
    /\ \E party \in GetPartyForCharacter(c) :
          LET remaining == Selected(party.members, {i \in DOMAIN party.members : party.members[i] # c})
              leader == IF party.leader = c THEN Head(remaining) ELSE party.leader
          IN parties' = IF Len(remaining) <= 1 THEN DeleteParty(party)
                        ELSE SaveParty(party, [leader |-> leader, members |-> remaining])
    /\ UNCHANGED partyInvites

PartyDisband(c) ==
    /\ HasSession(c)
    /\ \E party \in GetPartyForCharacter(c) : party.leader = c /\ parties' = DeleteParty(party)
    /\ UNCHANGED partyInvites

PartyNext ==
    \E c \in Characters :
       \/ PartyState(c) \/ PartyAccept(c) \/ PartyDecline(c)
       \/ PartyLeave(c) \/ PartyDisband(c)
       \/ \E d \in Characters : PartyInvite(c, d)

-----------------------------------------------------------------------------
PartyTypeOK ==
    /\ \A party \in parties : party.leader \in Characters /\ Members(party) \subseteq Characters
    /\ partyInvites \subseteq [from : Characters, to : Characters]

(* Nobody is in two parties or twice in one, a party has two members or more and  *)
(* no more than it may, and its leader is one of them: invitations by several     *)
(* who come to lead, leave, disband and accept meet in any order.                 *)
OnePartyEach ==
    /\ \A c \in Characters : Cardinality(GetPartyForCharacter(c)) <= 1
    /\ \A party \in parties :
          /\ Cardinality(Members(party)) = Len(party.members)
          /\ Len(party.members) \in 2..PartySize
          /\ party.leader \in Members(party)

(* Who comes into a party was asked by the one who leads it at that moment, and   *)
(* not a second time by the same invitation.                                      *)
PartyJoin(c) == GetPartyForCharacter(c) = {} /\ GetPartyForCharacter(c)' # {}
AskedByTheLeader ==
    [][\A c \in Characters : PartyJoin(c) =>
         \A party \in GetPartyForCharacter(c)' :
            \/ party.leader = c
            \/ LET invite == [from |-> party.leader, to |-> c]
               IN invite \in partyInvites /\ invite \notin partyInvites']_partied
=============================================================================
