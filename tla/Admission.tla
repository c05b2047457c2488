------------------------------ MODULE Admission ------------------------------
(***************************************************************************)
(* From an account to the world: registration, sessions and their tokens,  *)
(* characters, join tickets, the connect that spends one, and what         *)
(* administrators do about it (suspend, lift, kick, invalidate).           *)
(*                                                                         *)
(* Every operation of the store is atomic (FileStore), but a request is    *)
(* several of them: RequireSession, RequirePermission and the handler each *)
(* call the store by themselves, in different processes.  A client has at  *)
(* most one request under way; req[k].at says how far it is.               *)
(*                                                                         *)
(* A character is its name (names are unique in the one realm), a token is *)
(* its session and the number of refreshes, expiry is a step that may come *)
(* at any time.  Passwords, the rate limiter and the audit trail (AdminDesk) *)
(* are left out.                                                           *)
(***************************************************************************)
EXTENDS Naturals, FiniteSets

CONSTANTS
    Accounts, Seeded,           \* user names; those EnsureAdminSeed registers
    Characters, Clients,
    Players,                    \* whose characters the instance looks at
    Targets,                    \* whom its administrators act upon
    MaxSessions, MaxTickets,    \* bounds: sessions and tickets ever issued
    MaxRefreshes,               \* bound: refreshes of one session
    Nobody,                     \* no account, no character
    Races                       \* hazards the instance lets happen

ASSUME AdmissionAssumption ==
    /\ {Seeded, Players} \subseteq SUBSET Accounts
    /\ Targets \subseteq Accounts \cup Characters
    /\ Nobody \notin Accounts \cup Characters \cup Clients
    /\ MaxSessions \in Nat /\ MaxTickets \in Nat /\ MaxRefreshes \in Nat
    /\ Races \subseteq {"overtaken", "refreshed", "unrevoked"}

VARIABLES
    standing,   \* account -> "none", "active", "banned" or "timed" (suspended until)
    owner,      \* character -> its account, or Nobody
    sessions,   \* id -> session
    tickets,    \* id -> join ticket
    world,      \* the characters with a session in the world service
    req,        \* client -> its request under way
    entered,    \* history: ticket -> how often it put its character into the world
    ended,      \* history: sessions whose logout was acknowledged
    out         \* history: account -> the client whose suspension is in force,
                \* and whether it was acknowledged
vars == <<standing, owner, sessions, tickets, world, req, entered, ended, out>>

SessionIds == 1..MaxSessions
TicketIds == 1..MaxTickets

Session ==
    [account : Accounts \cup {Nobody}, gen : 0..MaxRefreshes,
     state : {"unused", "live", "stale", "gone"}]
WorldJoinTicket ==
    [account : Accounts \cup {Nobody}, character : Characters \cup {Nobody},
     state : {"unused", "open", "consumed", "expired", "gone"}]

AdminOps == {"suspend", "lift", "kick", "invalidate"}
PlayerOps == {"logout", "create", "ticket"}
Idle == [op |-> "none", at |-> "none", by |-> Nobody, token |-> <<0, 0>>, on |-> Nobody]
Request ==
    [op : AdminOps \cup PlayerOps \cup {"login", "connect", "none"},
     at : {"none", "authenticated", "validated", "permitted", "changed", "revoked", "consumed"},
     by : Accounts \cup {Nobody},
     token : (0..(MaxSessions + MaxTickets)) \X (0..MaxRefreshes),
     on : Accounts \cup Characters \cup {Nobody}]

Suspended(a) == standing[a] \in {"banned", "timed"}
Fresh(records, ids) == {i \in ids : records[i].state = "unused" /\ \A j \in ids : j < i => records[j].state # "unused"}
Exists(s) == sessions[s].state \in {"live", "stale"}

Init ==
    /\ standing = [a \in Accounts |-> "none"]
    /\ owner = [c \in Characters |-> Nobody]
    /\ sessions = [s \in SessionIds |-> [account |-> Nobody, gen |-> 0, state |-> "unused"]]
    /\ tickets = [t \in TicketIds |-> [account |-> Nobody, character |-> Nobody, state |-> "unused"]]
    /\ world = {}
    /\ req = [k \in Clients |-> Idle]
    /\ entered = [t \in TicketIds |-> 0]
    /\ ended = {}
    /\ out = [a \in Accounts |-> [by |-> Nobody, told |-> FALSE]]

Answered(k) == req' = [req EXCEPT ![k] = Idle]
Advance(k, at) == req' = [req EXCEPT ![k].at = at]
NotOut == [by |-> Nobody, told |-> FALSE]

-----------------------------------------------------------------------------
(* Accounts and sessions. *)

RegisterAccount(a) ==
    /\ standing[a] = "none" /\ a \notin Seeded
    /\ standing' = [standing EXCEPT ![a] = "active"]
    /\ UNCHANGED <<owner, sessions, tickets, world, req, entered, ended, out>>

(* Each service calls it before it serves, and it lifts any ban of the account. *)
EnsureAdminSeed(a) ==
    /\ standing' = [standing EXCEPT ![a] = IF @ = "timed" THEN "timed" ELSE "active"]
    /\ out' = [out EXCEPT ![a] = IF standing[a] = "banned" THEN NotOut ELSE @]
    /\ UNCHANGED <<owner, sessions, tickets, world, req, entered, ended>>

Authenticate(k, a) ==
    /\ req[k] = Idle
    /\ standing[a] = "active"
    /\ req' = [req EXCEPT ![k] = [Idle EXCEPT !.op = "login", !.at = "authenticated", !.by = a]]
    /\ UNCHANGED <<standing, owner, sessions, tickets, world, entered, ended, out>>

(* The second half of a login does not look at the account's standing again. *)
CreateSession(k) ==
    /\ req[k].at = "authenticated"
    /\ Suspended(req[k].by) => "overtaken" \in Races
    /\ \E s \in Fresh(sessions, SessionIds) :
          sessions' = [sessions EXCEPT ![s] = [account |-> req[k].by, gen |-> 0, state |-> "live"]]
    /\ Answered(k)
    /\ UNCHANGED <<standing, owner, tickets, world, entered, ended, out>>

Gone(s) == [account |-> Nobody, gen |-> 0, state |-> "gone"]

(* A refresh renews both tokens of a session; one that comes too late deletes it. *)
RefreshSession(s) ==
    /\ \/ /\ sessions[s].state \in {"live", "stale"}
          /\ sessions[s].gen < MaxRefreshes
          /\ sessions' = [sessions EXCEPT ![s].gen = @ + 1, ![s].state = "live"]
       \/ /\ sessions[s].state = "stale"
          /\ sessions' = [sessions EXCEPT ![s] = Gone(s)]
    /\ UNCHANGED <<standing, owner, tickets, world, req, entered, ended, out>>

(* Access tokens last half an hour; the refresh token, a week. *)
SessionExpires(s) ==
    /\ sessions[s].state = "live"
    /\ sessions' = [sessions EXCEPT ![s].state = "stale"]
    /\ UNCHANGED <<standing, owner, tickets, world, req, entered, ended, out>>

ValidateAccessToken(s) ==
    sessions[s].state = "live" /\ ~Suspended(sessions[s].account)

(* What RequireSession lets through to a handler: the session as it was then. *)
RequireSession(k, s, op, on) ==
    /\ req[k] = Idle
    /\ ValidateAccessToken(s)
    /\ req' = [req EXCEPT ![k] =
          [op |-> op, at |-> "validated", by |-> sessions[s].account, on |-> on,
           token |-> IF op \in {"logout", "ticket"} THEN <<s, sessions[s].gen>> ELSE <<0, 0>>]]
    /\ UNCHANGED <<standing, owner, sessions, tickets, world, entered, ended, out>>

WrongRevokeSession(token) ==
    [s \in SessionIds |->
        IF token = <<s, sessions[s].gen>> /\ sessions[s].state = "live" THEN Gone(s) ELSE sessions[s]]

(* A session is deleted by either of its tokens: one refreshed in between has others. *)
RevokeSession(token) ==
    [s \in SessionIds |->
        IF token = <<s, sessions[s].gen>> /\ Exists(s) THEN Gone(s) ELSE sessions[s]]

(* The store's error is not looked at: a logout that failed is acknowledged too. *)
Logout(k) ==
    LET s == req[k].token[1]
    IN  /\ req[k].op = "logout"
        /\ (Exists(s) /\ sessions[s].gen # req[k].token[2]) => "refreshed" \in Races
        /\ \/ sessions' = RevokeSession(req[k].token)
           \/ "unrevoked" \in Races /\ UNCHANGED sessions
        /\ ended' = ended \cup {s}
        /\ Answered(k)
        /\ UNCHANGED <<standing, owner, tickets, world, entered, out>>

-----------------------------------------------------------------------------
(* Characters, join tickets, the world. *)

CreateCharacter(k) ==
    LET c == req[k].on
    IN  /\ req[k].op = "create"
        /\ owner' = IF owner[c] = Nobody THEN [owner EXCEPT ![c] = req[k].by] ELSE owner
        /\ Answered(k)
        /\ UNCHANGED <<standing, sessions, tickets, world, entered, ended, out>>

(* The ticket is written whatever has become of the session it was asked with. *)
IssueWorldJoinTicket(k) ==
    LET c == req[k].on
    IN  /\ req[k].op = "ticket"
        /\ Exists(req[k].token[1]) \/ "overtaken" \in Races
        /\ \/ /\ owner[c] = req[k].by
              /\ \E t \in Fresh(tickets, TicketIds) :
                    tickets' = [tickets EXCEPT ![t] =
                        [account |-> req[k].by, character |-> c, state |-> "open"]]
           \/ owner[c] # req[k].by /\ UNCHANGED tickets
        /\ Answered(k)
        /\ UNCHANGED <<standing, owner, sessions, world, entered, ended, out>>

TicketExpires(t) ==
    /\ tickets[t].state = "open"
    /\ tickets' = [tickets EXCEPT ![t].state = "expired"]
    /\ UNCHANGED <<standing, owner, sessions, world, req, entered, ended, out>>

WrongConsumeWorldJoinTicket(k, t) ==
    /\ req[k] = Idle
    /\ tickets[t].state \in {"open", "consumed"}
    /\ tickets' = [tickets EXCEPT ![t].state = "consumed"]
    /\ req' = [req EXCEPT ![k] =
          [op |-> "connect", at |-> "consumed", by |-> Nobody,
           token |-> <<t, 0>>, on |-> tickets[t].character]]
    /\ UNCHANGED <<standing, owner, sessions, world, entered, ended, out>>

ConsumeWorldJoinTicket(k, t) ==
    /\ req[k] = Idle
    /\ tickets[t].state = "open"
    /\ tickets' = [tickets EXCEPT ![t].state = "consumed"]
    /\ req' = [req EXCEPT ![k] =
          [op |-> "connect", at |-> "consumed", by |-> Nobody,
           token |-> <<t, 0>>, on |-> tickets[t].character]]
    /\ UNCHANGED <<standing, owner, sessions, world, entered, ended, out>>

(* The loop applies the connect: a new world session, or the one there is again. *)
Connect(k) ==
    /\ req[k].op = "connect"
    /\ world' = world \cup {req[k].on}
    /\ entered' = [entered EXCEPT ![req[k].token[1]] = @ + 1]
    /\ Answered(k)
    /\ UNCHANGED <<standing, owner, sessions, tickets, ended, out>>

(* A full or stopped loop, or one too slow: the ticket is spent all the same. *)
ConnectRefused(k) ==
    /\ req[k].op = "connect"
    /\ Answered(k)
    /\ UNCHANGED <<standing, owner, sessions, tickets, world, entered, ended, out>>

(* Stale sessions are dropped, and a restart of the world service drops all. *)
LeaveWorld(gone) ==
    /\ gone # {} /\ gone \subseteq world
    /\ world' = world \ gone
    /\ UNCHANGED <<standing, owner, sessions, tickets, req, entered, ended, out>>

-----------------------------------------------------------------------------
(* Administrators.  The permission is read from the account, after the session. *)

RequirePermission(k) ==
    /\ req[k].op \in AdminOps /\ req[k].at = "validated"
    /\ IF req[k].by \in Seeded
          THEN req' = [req EXCEPT ![k].at = "permitted", ![k].by = Nobody]
          ELSE Answered(k)
    /\ UNCHANGED <<standing, owner, sessions, tickets, world, entered, ended, out>>

SetAccountSuspension(k, state) ==
    LET a == req[k].on
    IN  /\ req[k].op = (IF state = "active" THEN "lift" ELSE "suspend")
        /\ req[k].at = "permitted" /\ standing[a] # "none"
        /\ standing' = [standing EXCEPT ![a] = state]
        /\ out' = [out EXCEPT ![a] =
              IF state = "active" THEN NotOut ELSE [by |-> k, told |-> @.told]]
        /\ IF state = "active" THEN Answered(k) ELSE Advance(k, "changed")
        /\ UNCHANGED <<owner, sessions, tickets, world, entered, ended>>

SuspensionEnds(a) ==
    /\ standing[a] = "timed"
    /\ standing' = [standing EXCEPT ![a] = "active"]
    /\ out' = [out EXCEPT ![a] = NotOut]
    /\ UNCHANGED <<owner, sessions, tickets, world, req, entered, ended>>

WrongSessionsWithout(a) ==
    [s \in SessionIds |->
        IF sessions[s].account = a /\ sessions[s].state = "live" THEN Gone(s) ELSE sessions[s]]

SessionsWithout(a) ==
    [s \in SessionIds |-> IF sessions[s].account = a /\ Exists(s) THEN Gone(s) ELSE sessions[s]]
Revoked(these) ==
    [t \in TicketIds |->
        IF t \in these THEN [account |-> Nobody, character |-> Nobody, state |-> "gone"] ELSE tickets[t]]

(* All sessions of an account, whatever their age, and all its tickets. *)
RevokeAccountSessions(a) ==
    /\ sessions' = SessionsWithout(a)
    /\ tickets' = Revoked({t \in TicketIds : tickets[t].account = a})

RevokeCharacterJoinTickets(c) ==
    tickets' = Revoked({t \in TicketIds : tickets[t].character = c})

(* Nor is it here: a suspension whose revocation failed goes on to its answer. *)
SuspendRevokes(k) ==
    /\ req[k].op = "suspend" /\ req[k].at = "changed"
    /\ \/ RevokeAccountSessions(req[k].on)
       \/ "unrevoked" \in Races /\ UNCHANGED <<sessions, tickets>>
    /\ Advance(k, "revoked")
    /\ UNCHANGED <<standing, owner, world, entered, ended, out>>

SuspendAnswers(k) ==
    /\ req[k].op = "suspend" /\ req[k].at = "revoked"
    /\ out' = [out EXCEPT ![req[k].on].told = @ \/ out[req[k].on].by = k]
    /\ Answered(k)
    /\ UNCHANGED <<standing, owner, sessions, tickets, world, entered, ended>>

(* Of the account, or by one of its characters, whose tickets may fail to go; *)
(* that its sessions did not is told.                                         *)
KickRevokesTickets(k) ==
    /\ req[k].op = "kick" /\ req[k].at = "permitted"
    /\ \/ req[k].on \in Characters /\ owner[req[k].on] # Nobody /\ RevokeCharacterJoinTickets(req[k].on)
       \/ (req[k].on \in Characters => owner[req[k].on] # Nobody) /\ UNCHANGED tickets
    /\ Advance(k, "changed")
    /\ UNCHANGED <<standing, owner, sessions, world, entered, ended, out>>

KickRevokesSessions(k) ==
    /\ req[k].op = "kick" /\ req[k].at = "changed"
    /\ RevokeAccountSessions(IF req[k].on \in Accounts THEN req[k].on ELSE owner[req[k].on])
    /\ Answered(k)
    /\ UNCHANGED <<standing, owner, world, entered, ended, out>>

Invalidate(k) ==
    /\ req[k].op = "invalidate" /\ req[k].at = "permitted"
    /\ world' = world \ {req[k].on}
    /\ Advance(k, "changed")
    /\ UNCHANGED <<standing, owner, sessions, tickets, entered, ended, out>>

InvalidateRevokes(k) ==
    /\ req[k].op = "invalidate" /\ req[k].at = "changed"
    /\ RevokeCharacterJoinTickets(req[k].on) \/ UNCHANGED tickets
    /\ Answered(k)
    /\ UNCHANGED <<standing, owner, sessions, world, entered, ended, out>>

(* The handler returns with an error, or its process dies: no answer of success. *)
Abandon(k) ==
    /\ req[k] # Idle
    /\ Answered(k)
    /\ UNCHANGED <<standing, owner, sessions, tickets, world, entered, ended, out>>

-----------------------------------------------------------------------------
Next ==
    \/ \E a \in Accounts : RegisterAccount(a) \/ SuspensionEnds(a)
    \/ \E a \in Seeded : EnsureAdminSeed(a)
    \/ \E s \in SessionIds : RefreshSession(s) \/ SessionExpires(s)
    \/ \E t \in TicketIds : TicketExpires(t)
    \/ \E gone \in SUBSET Characters : LeaveWorld(gone)
    \/ \E k \in Clients :
        \/ \E a \in Accounts : Authenticate(k, a)
        \/ CreateSession(k) \/ Logout(k) \/ CreateCharacter(k) \/ IssueWorldJoinTicket(k)
        \/ \E s \in SessionIds :
            \/ RequireSession(k, s, "logout", Nobody)
            \/ /\ sessions[s].account \in Players
               /\ \E op \in {"create", "ticket"}, c \in Characters : RequireSession(k, s, op, c)
            \/ \E op \in {"suspend", "lift", "kick"}, a \in Targets \cap Accounts : RequireSession(k, s, op, a)
            \/ \E op \in {"kick", "invalidate"}, c \in Targets \cap Characters : RequireSession(k, s, op, c)
        \/ \E t \in TicketIds : ConsumeWorldJoinTicket(k, t)
        \/ Connect(k) \/ ConnectRefused(k)
        \/ RequirePermission(k)
        \/ \E state \in {"active", "banned", "timed"} : SetAccountSuspension(k, state)
        \/ SuspendRevokes(k) \/ SuspendAnswers(k)
        \/ KickRevokesTickets(k) \/ KickRevokesSessions(k)
        \/ Invalidate(k) \/ InvalidateRevokes(k)
        \/ Abandon(k)

Spec == Init /\ [][Next]_vars

-----------------------------------------------------------------------------
(* The variables keep their types; what is gone leaves nothing behind. *)
TypeOK ==
    /\ standing \in [Accounts -> {"none", "active", "banned", "timed"}]
    /\ owner \in [Characters -> Accounts \cup {Nobody}]
    /\ sessions \in [SessionIds -> Session]
    /\ tickets \in [TicketIds -> WorldJoinTicket]
    /\ world \subseteq Characters
    /\ req \in [Clients -> Request]
    /\ entered \in [TicketIds -> Nat]
    /\ ended \subseteq SessionIds
    /\ out \in [Accounts -> [by : Clients \cup {Nobody}, told : BOOLEAN]]

(* A join ticket puts a character into the world once at most, also when    *)
(* several connects present it at once, and only while no connect holds it. *)
TicketAdmitsOnce ==
    \A t \in TicketIds :
        entered[t] + Cardinality({k \in Clients : req[k].op = "connect" /\ req[k].token[1] = t}) <= 1

(* When an administrator has been told that an account is suspended, no     *)
(* session of it is left that a refresh could bring back after the          *)
(* suspension, and no ticket that still opens the world, whatever other     *)
(* requests did between its steps.  A login or a ticket request overtaken   *)
(* by the revocation, and a revocation that fails, break it: "overtaken",   *)
(* "unrevoked".                                                             *)
SuspensionEndsAll ==
    \A a \in Accounts :
        out[a].told =>
            /\ Suspended(a)
            /\ \A s \in SessionIds : Exists(s) => sessions[s].account # a
            /\ \A t \in TicketIds : tickets[t].state = "open" => tickets[t].account # a

(* A logout that was answered has ended its session for good, unless the    *)
(* session was refreshed under it ("refreshed") or the store failed to      *)
(* delete it ("unrevoked").                                                 *)
LogoutIsFinal == \A s \in ended : ~Exists(s)

-----------------------------------------------------------------------------
(* The inductive invariants behind them. *)

(* What a request under way speaks of is what its operation is about, and its *)
(* session, if it has one, was that of the account that asks.                 *)
SoundRequest(r) ==
    /\ r.op \in {"suspend", "lift"} => r.on \in Accounts
    /\ r.op = "kick" => r.on \in Accounts \cup Characters
    /\ r.op \in {"invalidate", "create", "ticket", "connect"} => r.on \in Characters
    /\ r.op = "connect" => r.token[1] \in TicketIds
    /\ r.op \in {"logout", "ticket"} =>
          /\ r.token[1] \in SessionIds /\ sessions[r.token[1]].state # "unused"
          /\ Exists(r.token[1]) => sessions[r.token[1]].account = r.by
RequestsAreSound == \A k \in Clients : SoundRequest(req[k])

OpenTicketsAreSound ==
    \A t \in TicketIds : tickets[t].state = "open" => tickets[t].character \in Characters

(* A ticket that may still be consumed has admitted nobody and no connect holds *)
(* it; of the others one connect does, or did, or none.                         *)
Holds(k, t) == req[k].op = "connect" /\ req[k].token[1] = t
Admissions ==
    \A t \in TicketIds :
        /\ tickets[t].state \in {"unused", "open"} =>
              entered[t] = 0 /\ \A k \in Clients : ~Holds(k, t)
        /\ entered[t] \in {0, 1}
        /\ entered[t] = 1 => \A k \in Clients : ~Holds(k, t)
        /\ \A k, l \in Clients : Holds(k, t) /\ Holds(l, t) => k = l

(* A session whose end was acknowledged was there and is gone. *)
Farewells == \A s \in ended : sessions[s].state = "gone"

(* A suspension in force is that of the last client to set it; from that       *)
(* client's revocation on the account has neither session nor ticket, for both *)
(* are made for accounts in good standing only.                                *)
Bare(a) ==
    /\ \A s \in SessionIds : Exists(s) => sessions[s].account # a
    /\ \A t \in TicketIds : tickets[t].state = "open" => tickets[t].account # a
Suspensions ==
    \A a \in Accounts :
        /\ out[a].told => out[a].by # Nobody /\ Bare(a)
        /\ out[a].by # Nobody => Suspended(a)
        /\ \A k \in Clients :
              /\ req[k].op = "suspend" /\ req[k].at = "revoked" /\ req[k].on = a /\ out[a].by = k
              => Bare(a)

IInv == TypeOK /\ RequestsAreSound /\ OpenTicketsAreSound /\ Admissions /\ Farewells /\ Suspensions
=============================================================================
