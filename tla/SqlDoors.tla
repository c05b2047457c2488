------------------------------- MODULE SqlDoors -------------------------------
(***************************************************************************)
(* The SQL store's accounts, sessions, join tickets and world sessions.     *)
(*                                                                         *)
(* These operations are not transactions: each statement takes the one     *)
(* connection, gives it back, and another caller's statement comes next.   *)
(* An operation of two statements is two actions here, with what the first *)
(* one read in `req`.  A session's access and refresh token are issued and   *)
(* replaced together and are one number.                                    *)
(***************************************************************************)
EXTENDS SqlConnection, Naturals, FiniteSets

CONSTANTS
    Accounts, Sessions, Tickets, WorldSessions,
    MaxTokens               \* bound: token pairs that are made

ASSUME SqlDoorsAssumption == Nobody \notin Accounts /\ MaxTokens \in Nat

VARIABLES
    accounts,   \* account -> none, active, or banned
    sessions,   \* session -> its row
    tickets,    \* join ticket -> its row
    places,     \* world session -> none, or whether it is connected
    issued,     \* token pairs so far
    req,        \* caller -> what it has read
    dead,       \* history: token pairs that were replaced or revoked
    consumed    \* history: ticket -> how often its consumer was told so
doors == <<accounts, sessions, tickets, places, issued, req, dead, consumed>>

NoRequest == [op |-> "none", of |-> 0, token |-> 0]
NoSession == [account |-> Nobody, token |-> 0, age |-> "none"]
Session ==
    [account : Accounts \cup {Nobody}, token : 0..MaxTokens, age : {"none", "fresh", "stale", "old"}]

DoorsInit ==
    /\ accounts = [a \in Accounts |-> "none"]
    /\ sessions = [s \in Sessions |-> NoSession]
    /\ tickets = [t \in Tickets |-> "none"]
    /\ places = [p \in WorldSessions |-> "none"]
    /\ issued = 0
    /\ req = [k \in Callers |-> NoRequest]
    /\ dead = {}
    /\ consumed = [t \in Tickets |-> 0]

Token == issued + 1
MakeToken == issued < MaxTokens /\ issued' = Token
Read(k, op, of, token) == req[k] = NoRequest /\ req' = [req EXCEPT ![k] = [op |-> op, of |-> of, token |-> token]]
Answered(k) == req' = [req EXCEPT ![k] = NoRequest]

(* SELECT ... WHERE token = ? *)
SessionByToken(token) == {s \in Sessions : sessions[s].token = token}

-----------------------------------------------------------------------------
(* Accounts and sessions. *)

(* A name is taken once; only imported accounts may be banned. *)
CreateAccount(a) ==
    /\ accounts[a] = "none"
    /\ \E standing \in {"active", "banned"} : accounts' = [accounts EXCEPT ![a] = standing]
    /\ UNCHANGED <<sessions, tickets, places, issued, req, dead, consumed>>

Authenticate(k, a) ==
    /\ accounts[a] = "active"
    /\ Read(k, "login", a, 0)
    /\ UNCHANGED <<accounts, sessions, tickets, places, issued, dead, consumed>>

CreateSession(k, s) ==
    /\ req[k].op = "login"
    /\ sessions[s] = NoSession
    /\ MakeToken
    /\ sessions' = [sessions EXCEPT ![s] = [account |-> req[k].of, token |-> Token, age |-> "fresh"]]
    /\ Answered(k)
    /\ UNCHANGED <<accounts, tickets, places, dead, consumed>>

(* Half an hour for the access token, a week for the refresh token. *)
SessionAges(s) ==
    /\ \/ sessions[s].age = "fresh" /\ sessions' = [sessions EXCEPT ![s].age = "stale"]
       \/ sessions[s].age = "stale" /\ sessions' = [sessions EXCEPT ![s].age = "old"]
    /\ UNCHANGED <<accounts, tickets, places, issued, req, dead, consumed>>

(* RefreshSession reads the session of a token ... *)
RefreshRead(k, token) ==
    /\ \E s \in SessionByToken(token) :
          Read(k, IF sessions[s].age = "old" THEN "revoke" ELSE "refresh", s, token)
    /\ UNCHANGED <<accounts, sessions, tickets, places, issued, dead, consumed>>

WrongUpdateTokens(s) == [sessions EXCEPT ![s].token = Token, ![s].age = "fresh"]

(* UPDATE ... WHERE id = ?: a row that is gone stays gone. *)
UpdateTokens(s) ==
    IF sessions[s] = NoSession THEN sessions
    ELSE [sessions EXCEPT ![s] = [account |-> @.account, token |-> Token, age |-> "fresh"]]

(* ... and renews both tokens of that session, whatever they are by now: of two *)
(* refreshes with one token both are told of tokens, and the first one's open   *)
(* nothing.                                                                     *)
RefreshUpdate(k) ==
    LET s == req[k].of
    IN  /\ req[k].op = "refresh"
        /\ MakeToken
        /\ sessions' = UpdateTokens(s)
        /\ dead' = dead \cup (IF sessions[s] = NoSession THEN {Token} ELSE {sessions[s].token})
        /\ Answered(k)
        /\ UNCHANGED <<accounts, tickets, places, consumed>>

(* DELETE ... WHERE access_token = ? OR refresh_token = ?; callers are logout *)
(* and a refresh that comes after the week.                                    *)
Delete(token) ==
    /\ sessions' = [s \in Sessions |-> IF s \in SessionByToken(token) THEN NoSession ELSE sessions[s]]
    /\ dead' = dead \cup {token}

RevokeSession(token) ==
    /\ token \in 1..issued
    /\ Delete(token)
    /\ UNCHANGED <<accounts, tickets, places, issued, req, consumed>>

RefreshRevokes(k) ==
    /\ req[k].op = "revoke"
    /\ Delete(req[k].token)
    /\ Answered(k)
    /\ UNCHANGED <<accounts, tickets, places, issued, consumed>>

(* The session is read first, its account after. *)
ValidateSession(k, token) ==
    /\ \E s \in SessionByToken(token) :
          sessions[s].age = "fresh" /\ Read(k, "validate", sessions[s].account, token)
    /\ UNCHANGED <<accounts, sessions, tickets, places, issued, dead, consumed>>

ValidateAccount(k) ==
    /\ req[k].op = "validate"
    /\ Answered(k)
    /\ UNCHANGED <<accounts, sessions, tickets, places, issued, dead, consumed>>

-----------------------------------------------------------------------------
(* Join tickets. *)

IssueWorldJoinTicket(t) ==
    /\ tickets[t] = "none"
    /\ tickets' = [tickets EXCEPT ![t] = "open"]
    /\ UNCHANGED <<accounts, sessions, places, issued, req, dead, consumed>>

TicketExpires(t) ==
    /\ tickets[t] \in {"open", "consumed"}
    /\ tickets' = [tickets EXCEPT ![t] = "expired"]
    /\ UNCHANGED <<accounts, sessions, places, issued, req, dead, consumed>>

ValidateWorldJoinTicket(k, t) ==
    /\ tickets[t] = "open"
    /\ Read(k, "consume", t, consumed[t])
    /\ UNCHANGED <<accounts, sessions, tickets, places, issued, dead, consumed>>


(* UPDATE ... SET consumed_at WHERE ticket_id = ?: one that was revoked since *)
(* is not there, one that was consumed since is consumed again.               *)
MarkConsumed(t) == IF tickets[t] = "gone" THEN tickets ELSE [tickets EXCEPT ![t] = "consumed"]

ConsumeWorldJoinTicket(k) ==
    LET t == req[k].of
    IN  /\ req[k].op = "consume"
        /\ consumed[t] > req[k].token => "consume" \in Races
        /\ tickets' = MarkConsumed(t)
        /\ consumed' = [consumed EXCEPT ![t] = @ + 1]
        /\ Answered(k)
        /\ UNCHANGED <<accounts, sessions, places, issued, dead>>

RevokeCharacterJoinTickets(of) ==
    /\ \E t \in of : tickets[t] \in {"open", "consumed", "expired"}
    /\ tickets' = [t \in Tickets |-> IF t \in of /\ tickets[t] # "none" THEN "gone" ELSE tickets[t]]
    /\ UNCHANGED <<accounts, sessions, places, issued, req, dead, consumed>>

-----------------------------------------------------------------------------
(* World sessions: an update of a row that is not there is refused. *)

CreateWorldSession(p) ==
    /\ places[p] = "none"
    /\ places' = [places EXCEPT ![p] = "connected"]
    /\ UNCHANGED <<accounts, sessions, tickets, issued, req, dead, consumed>>

UpdateWorldSession(p, connected) ==
    /\ places[p] # "none"
    /\ places' = [places EXCEPT ![p] = connected]
    /\ UNCHANGED <<accounts, sessions, tickets, issued, req, dead, consumed>>

(* The caller gives up between two statements, or the service dies. *)
Abandon(k) ==
    /\ req[k] # NoRequest
    /\ Answered(k)
    /\ UNCHANGED <<accounts, sessions, tickets, places, issued, dead, consumed>>

-----------------------------------------------------------------------------
DoorsNext ==
    \/ \E a \in Accounts : CreateAccount(a)
    \/ \E s \in Sessions : SessionAges(s)
    \/ \E token \in 1..MaxTokens : RevokeSession(token)
    \/ \E t \in Tickets : IssueWorldJoinTicket(t) \/ TicketExpires(t)
    \/ RevokeCharacterJoinTickets(Tickets)
    \/ \E p \in WorldSessions :
        CreateWorldSession(p) \/ \E c \in {"connected", "left"} : UpdateWorldSession(p, c)
    \/ \E k \in Callers :
        \/ \E a \in Accounts : Authenticate(k, a)
        \/ \E s \in Sessions : CreateSession(k, s)
        \/ \E token \in 1..MaxTokens : RefreshRead(k, token) \/ ValidateSession(k, token)
        \/ RefreshUpdate(k) \/ RefreshRevokes(k) \/ ValidateAccount(k)
        \/ \E t \in Tickets : ValidateWorldJoinTicket(k, t)
        \/ ConsumeWorldJoinTicket(k) \/ Abandon(k)

-----------------------------------------------------------------------------
(* Types; a session without a row has no token. *)
DoorsTypeOK ==
    /\ accounts \in [Accounts -> {"none", "active", "banned"}]
    /\ sessions \in [Sessions -> Session]
    /\ tickets \in [Tickets -> {"none", "open", "consumed", "expired", "gone"}]
    /\ issued \in 0..MaxTokens /\ dead \subseteq 1..MaxTokens

(* What is spent opens nothing: no session has a token that was replaced,   *)
(* revoked, or handed out by a refresh that came after the revocation - a   *)
(* logout between the two statements of a refresh is not undone - and no    *)
(* join ticket is consumed twice.                                           *)
DeadTokensOpenNothing ==
    /\ \A token \in dead : SessionByToken(token) = {}
    /\ \A t \in Tickets : consumed[t] <= 1

=============================================================================
