---------------------------------- MODULE Talk ----------------------------------
(***************************************************************************)
(* Chat and friends (social.go), and the list of messages a client shows    *)
(* (GameCoreSystemComponent.cpp).  The service keeps the last messages with  *)
(* their numbers and who is to see them; a client asks for those after the   *)
(* last it added to its list, and every answer to anything else brings all.  *)
(* What a message says is left out; those about parties and guilds go to     *)
(* their members, whoever they are.                                          *)
(***************************************************************************)
EXTENDS SocialSessions, Naturals, FiniteSets, SequencesExt

CONSTANTS
    Talkers,            \* the characters whose talk is looked at
    RingLimit,          \* chatRingLimit
    ListLimit,          \* messages a client keeps, fewer than the service
    MaxMessages         \* bound: messages between two starts of the service

ASSUME TalkAssumption ==
    Talkers \subseteq Characters /\ RingLimit \in Nat \ {0} /\ ListLimit \in 1..RingLimit /\ MaxMessages \in Nat

VARIABLES
    ring,       \* chatMessages: records [n, to]
    sequence,   \* chatSequence
    list,       \* character -> the numbers its client shows, in their order
    last,       \* character -> its client's m_lastChatMessageId
    friends,    \* the store's: pairs of an owner and a friend
    got         \* history: character -> this start's messages its client showed
talk == <<ring, sequence, list, last, friends, got>>

TalkInit ==
    /\ ring = <<>> /\ sequence = 0
    /\ list = [c \in Talkers |-> <<>>]
    /\ last = [c \in Talkers |-> 0]
    /\ friends = {}
    /\ got = [c \in Talkers |-> {}]

LastOf(seq, limit) == IF Len(seq) <= limit THEN seq ELSE SubSeq(seq, Len(seq) - limit + 1, Len(seq))

\* Mutant: a message is numbered by its place.
WrongAppendChatMessage(to) ==
    /\ sequence < MaxMessages
    /\ sequence' = sequence + 1
    /\ ring' = LastOf(Append(ring, [n |-> Len(ring) + 1, to |-> to]), RingLimit)

AppendChatMessage(to) ==
    /\ sequence < MaxMessages
    /\ sequence' = sequence + 1
    /\ ring' = LastOf(Append(ring, [n |-> sequence + 1, to |-> to]), RingLimit)

(* Without a number to start from all that are left are visible. *)
VisibleChatMessages(messages, c, after) ==
    Selected([i \in DOMAIN messages |-> messages[i].n],
             {i \in DOMAIN messages : c \in messages[i].to /\ (after > 0 => messages[i].n > after)})

(* ApplySocialStateResponse: what is in the list already stays where it is. *)
Apply(c, numbers) ==
    LET new == Selected(numbers, {i \in DOMAIN numbers : numbers[i] \notin ToSet(list[c])})
    IN /\ list' = [list EXCEPT ![c] = LastOf(@ \o new, ListLimit)]
       /\ last' = [last EXCEPT ![c] = IF new = <<>> THEN @ ELSE Last(new)]
       /\ got' = [got EXCEPT ![c] = @ \cup ToSet(new)]

(* An answer may not arrive. *)
Answer(c, numbers) ==
    \/ /\ Len(numbers) <= ListLimit \/ "replayed" \in SocialRaces
       /\ Apply(c, numbers)
    \/ UNCHANGED <<list, last, got>>

SocialState(c) ==
    /\ HasSession(c)
    /\ Apply(c, VisibleChatMessages(ring, c, last[c]))
    /\ UNCHANGED <<ring, sequence, friends>>

Sends(c, to) ==
    /\ AppendChatMessage(to)
    /\ Answer(c, VisibleChatMessages(ring', c, 0))
    /\ UNCHANGED friends

(* Those near enough who are connected, the sender among them if it is. *)
Say(c) ==
    HasSession(c) /\ \E to \in SUBSET (Connected \cap Talkers) : (IsOnline(c) => c \in to) /\ Sends(c, to)

Whisper(c, d) == HasSession(c) /\ IsOnline(d) /\ Sends(c, {c, d})

(* The members of the sender's party or guild, wherever they are. *)
GroupChat(c) == HasSession(c) /\ \E to \in SUBSET Talkers : c \in to /\ Sends(c, to)

(* What the service itself says when a party or guild handler asks it to. *)
SendSystemMessage(to) ==
    to # {} /\ AppendChatMessage(to) /\ UNCHANGED <<list, last, got, friends>>

AddFriend(c, d) ==
    /\ HasSession(c) /\ c # d /\ <<c, d>> \notin friends
    /\ friends' = friends \cup {<<c, d>>}
    /\ AppendChatMessage({c})
    /\ Answer(c, VisibleChatMessages(ring', c, 0))

RemoveFriend(c, d) ==
    /\ HasSession(c) /\ <<c, d>> \in friends
    /\ friends' = friends \ {<<c, d>>}
    /\ AppendChatMessage({c})
    /\ Answer(c, VisibleChatMessages(ring', c, 0))

(* The numbers begin again; the clients' last number does not. *)
TalkRestarts ==
    /\ "renumbered" \in SocialRaces \/ \A c \in Talkers : last[c] = 0
    /\ ring' = <<>> /\ sequence' = 0
    /\ got' = [c \in Talkers |-> {}]
    /\ UNCHANGED <<list, last, friends>>

TalkNext ==
    \/ \E c \in Talkers :
          \/ SocialState(c) \/ Say(c) \/ GroupChat(c)
          \/ \E d \in Talkers : Whisper(c, d) \/ AddFriend(c, d) \/ RemoveFriend(c, d)
    \/ \E to \in SUBSET Talkers : SendSystemMessage(to)

-----------------------------------------------------------------------------
TalkTypeOK ==
    /\ Len(ring) <= RingLimit /\ sequence \in 0..MaxMessages
    /\ \A i \in DOMAIN ring : ring[i].n \in 1..sequence /\ ring[i].to \subseteq Talkers
    /\ \A c \in Talkers : Len(list[c]) <= ListLimit /\ last[c] \in 0..MaxMessages

(* A client has shown every message to it that its next question leaves out, and  *)
(* shows them in the order they were sent: the number it remembers is moved by    *)
(* answers that bring all messages as by those that bring the new ones.           *)
ChatIsWhole ==
    \A c \in Talkers :
        /\ \A i \in DOMAIN ring : c \in ring[i].to /\ ring[i].n <= last[c] => ring[i].n \in got[c]
        /\ \A i, j \in DOMAIN list[c] : i < j => list[c][i] < list[c][j]
=============================================================================
