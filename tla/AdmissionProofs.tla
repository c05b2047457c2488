---------------------------- MODULE AdmissionProofs ----------------------------
(***************************************************************************)
(* Proofs about Admission for every set of accounts, characters and clients *)
(* and every number of sessions, tickets and refreshes.                    *)
(***************************************************************************)
EXTENDS Admission, FiniteSetTheorems, TLAPS

-----------------------------------------------------------------------------
(* Constants and steps *)

\* What the bounds and names are assumed to be, in the form the proofs use.
LEMMA Bounds ==
    /\ MaxSessions \in Nat /\ MaxTickets \in Nat /\ MaxRefreshes \in Nat
    /\ Nobody \notin Accounts /\ Nobody \notin Characters /\ Nobody \notin Clients
    /\ \A a \in Seeded : a \in Accounts
    /\ \A s \in SessionIds : s \in Nat /\ s \in 0 .. (MaxSessions + MaxTickets)
    /\ \A t \in TicketIds : t \in Nat /\ t \in 0 .. (MaxSessions + MaxTickets)
<1>1. /\ MaxSessions \in Nat /\ MaxTickets \in Nat /\ MaxRefreshes \in Nat
      /\ Nobody \notin Accounts /\ Nobody \notin Characters /\ Nobody \notin Clients
      /\ \A a \in Seeded : a \in Accounts
  BY AdmissionAssumption
<1> QED BY <1>1 DEF SessionIds, TicketIds

AccountStep(a) == RegisterAccount(a) \/ SuspensionEnds(a) \/ EnsureAdminSeed(a)
SessionStep(s) == RefreshSession(s) \/ SessionExpires(s)
PlayerStep(k) ==
    \/ CreateSession(k) \/ Logout(k) \/ CreateCharacter(k) \/ IssueWorldJoinTicket(k)
    \/ Connect(k) \/ ConnectRefused(k) \/ Abandon(k)
    \/ \E a \in Accounts : Authenticate(k, a)
    \/ \E t \in TicketIds : ConsumeWorldJoinTicket(k, t)
Validates(k) ==
    \E s \in SessionIds, op \in AdminOps \cup PlayerOps, on \in Accounts \cup Characters \cup {Nobody} :
        /\ RequireSession(k, s, op, on)
        /\ op \in {"suspend", "lift"} => on \in Accounts
        /\ op = "kick" => on \in Accounts \cup Characters
        /\ op \in {"invalidate", "create", "ticket"} => on \in Characters
AdminStep(k) ==
    \/ RequirePermission(k)
    \/ \E state \in {"active", "banned", "timed"} : SetAccountSuspension(k, state)
    \/ SuspendRevokes(k) \/ SuspendAnswers(k)
    \/ KickRevokesTickets(k) \/ KickRevokesSessions(k)
    \/ Invalidate(k) \/ InvalidateRevokes(k)

\* Every step is of one of these kinds.
LEMMA Kinds ==
    ASSUME Next
    PROVE  \/ \E a \in Accounts : AccountStep(a)
           \/ \E s \in SessionIds : SessionStep(s)
           \/ \E t \in TicketIds : TicketExpires(t)
           \/ \E gone \in SUBSET Characters : LeaveWorld(gone)
           \/ \E k \in Clients : PlayerStep(k) \/ Validates(k) \/ AdminStep(k)
<1>1. ASSUME NEW k \in Clients, NEW s \in SessionIds,
             \/ RequireSession(k, s, "logout", Nobody)
             \/ \E op \in {"create", "ticket"}, c \in Characters : RequireSession(k, s, op, c)
             \/ \E op \in {"suspend", "lift", "kick"}, a \in Targets \cap Accounts : RequireSession(k, s, op, a)
             \/ \E op \in {"kick", "invalidate"}, c \in Targets \cap Characters : RequireSession(k, s, op, c)
      PROVE  Validates(k)
  BY <1>1 DEF Validates, AdminOps, PlayerOps
<1>2. \A a \in Seeded : a \in Accounts
  BY Bounds
<1> QED BY <1>1, <1>2 DEF Next, AccountStep, SessionStep, PlayerStep, AdminStep

\* Administrators end sessions and tickets, and create neither.
LEMMA AdminTouches ==
    ASSUME NEW k, AdminStep(k)
    PROVE  /\ UNCHANGED sessions \/ \E a : sessions' = SessionsWithout(a)
           /\ UNCHANGED tickets \/ \E these : tickets' = Revoked(these)
           /\ UNCHANGED entered
<1>1. UNCHANGED sessions \/ \E a : sessions' = SessionsWithout(a)
  BY DEF AdminStep, RequirePermission, SetAccountSuspension, SuspendRevokes, SuspendAnswers,
     KickRevokesTickets, KickRevokesSessions, RevokeAccountSessions, Invalidate, InvalidateRevokes
<1>2. UNCHANGED tickets \/ \E these : tickets' = Revoked(these)
  BY DEF AdminStep, RequirePermission, SetAccountSuspension, SuspendRevokes, SuspendAnswers,
     KickRevokesTickets, KickRevokesSessions, RevokeAccountSessions, RevokeCharacterJoinTickets,
     Invalidate, InvalidateRevokes
<1>3. UNCHANGED entered
  BY DEF AdminStep, RequirePermission, SetAccountSuspension, SuspendRevokes, SuspendAnswers,
     KickRevokesTickets, KickRevokesSessions, Invalidate, InvalidateRevokes
<1> QED BY <1>1, <1>2, <1>3

-----------------------------------------------------------------------------
(* Types *)

\* A record of one of the three kinds with a field changed is one of the kind.
LEMMA RecordsTyped ==
    /\ \A s \in Session : /\ [s EXCEPT !.state = "stale"] \in Session
                          /\ s.gen < MaxRefreshes =>
                                [s EXCEPT !.gen = @ + 1, !.state = "live"] \in Session
    /\ \A s \in SessionIds : Gone(s) \in Session
    /\ \A t \in WorldJoinTicket : \A state \in {"consumed", "expired"} :
          [t EXCEPT !.state = state] \in WorldJoinTicket
    /\ [account |-> Nobody, character |-> Nobody, state |-> "gone"] \in WorldJoinTicket
    /\ Idle \in Request
    /\ \A r \in Request : /\ [r EXCEPT !.at = "permitted", !.by = Nobody] \in Request
                          /\ \A at \in {"changed", "revoked"} : [r EXCEPT !.at = at] \in Request
<1>1. \A s \in Session : [s EXCEPT !.state = "stale"] \in Session
  BY DEF Session
<1>2. ASSUME NEW s \in Session, s.gen < MaxRefreshes
      PROVE  [s EXCEPT !.gen = @ + 1, !.state = "live"] \in Session
  <2>1. s.gen + 1 \in 0 .. MaxRefreshes
    BY <1>2, Bounds DEF Session
  <2> QED BY <2>1 DEF Session
<1>3. \A s \in SessionIds : Gone(s) \in Session
  BY Bounds DEF Session, Gone
<1>4. \A t \in WorldJoinTicket : \A state \in {"consumed", "expired"} :
         [t EXCEPT !.state = state] \in WorldJoinTicket
  BY DEF WorldJoinTicket
<1>5. [account |-> Nobody, character |-> Nobody, state |-> "gone"] \in WorldJoinTicket
  BY DEF WorldJoinTicket
<1>6. Idle \in Request
  BY Bounds DEF Idle, Request
<1>7. \A r \in Request : [r EXCEPT !.at = "permitted", !.by = Nobody] \in Request
  BY DEF Request, AdminOps, PlayerOps
<1>8. \A r \in Request : \A at \in {"changed", "revoked"} : [r EXCEPT !.at = at] \in Request
  BY DEF Request, AdminOps, PlayerOps
<1> QED BY <1>1, <1>2, <1>3, <1>4, <1>5, <1>6, <1>7, <1>8

\* Answering and going a step further keep the type of the requests.
LEMMA RequestsTyped ==
    ASSUME req \in [Clients -> Request], NEW k \in Clients
    PROVE  /\ Answered(k) => req' \in [Clients -> Request]
           /\ Advance(k, "changed") \/ Advance(k, "revoked") => req' \in [Clients -> Request]
<1>1. req[k] \in Request
  OBVIOUS
<1>2. [req[k] EXCEPT !.at = "changed"] \in Request /\ [req[k] EXCEPT !.at = "revoked"] \in Request
  BY <1>1, RecordsTyped
<1>3. Answered(k) => req' \in [Clients -> Request]
  BY RecordsTyped DEF Answered
<1> QED BY <1>2, <1>3 DEF Advance

\* Registration and the ends of suspensions.
LEMMA AccountTyped ==
    ASSUME TypeOK, NEW a \in Accounts, AccountStep(a)
    PROVE  TypeOK'
<1>1. CASE RegisterAccount(a)
  BY <1>1 DEF RegisterAccount, TypeOK
<1>2. CASE SuspensionEnds(a)
  BY <1>2 DEF SuspensionEnds, NotOut, TypeOK
<1>3. CASE EnsureAdminSeed(a)
  BY <1>3 DEF EnsureAdminSeed, NotOut, TypeOK
<1> QED BY <1>1, <1>2, <1>3 DEF AccountStep

\* What time and refreshes do to a session.
LEMMA SessionTyped ==
    ASSUME TypeOK, NEW s \in SessionIds, SessionStep(s)
    PROVE  TypeOK'
<1>1. sessions[s] \in Session
  BY DEF TypeOK
<1>2. CASE RefreshSession(s)
  <2>1. CASE sessions' = [sessions EXCEPT ![s] = Gone(s)]
    BY <1>2, <2>1, RecordsTyped DEF RefreshSession, TypeOK
  <2>2. CASE /\ sessions[s].gen < MaxRefreshes
             /\ sessions' = [sessions EXCEPT ![s].gen = @ + 1, ![s].state = "live"]
    <3>1. [sessions[s] EXCEPT !.gen = @ + 1, !.state = "live"] \in Session
      BY <1>1, <2>2, RecordsTyped
    <3>2. sessions' = [sessions EXCEPT ![s] = [sessions[s] EXCEPT !.gen = @ + 1, !.state = "live"]]
      BY <1>1, <2>2 DEF TypeOK
    <3> QED BY <1>2, <3>1, <3>2 DEF RefreshSession, TypeOK
  <2> QED BY <1>2, <2>1, <2>2 DEF RefreshSession
<1>3. CASE SessionExpires(s)
  BY <1>1, <1>3, RecordsTyped DEF SessionExpires, TypeOK
<1> QED BY <1>2, <1>3 DEF SessionStep

\* A player's requests, from the login to the connect.
LEMMA PlayerTyped ==
    ASSUME TypeOK, RequestsAreSound, OpenTicketsAreSound, NEW k \in Clients, PlayerStep(k)
    PROVE  TypeOK'
<1>1. CASE CreateSession(k)
  <2>1. \A a \in Accounts \cup {Nobody} : [account |-> a, gen |-> 0, state |-> "live"] \in Session
    BY Bounds DEF Session
  <2>2. req[k].by \in Accounts \cup {Nobody}
    BY DEF TypeOK, Request
  <2> QED BY <1>1, <2>1, <2>2, RequestsTyped DEF CreateSession, TypeOK
<1>2. CASE Logout(k)
  <2>1. req[k].token[1] \in SessionIds
    BY <1>2 DEF Logout, RequestsAreSound, SoundRequest
  <2> QED BY <1>2, <2>1, RecordsTyped, RequestsTyped DEF Logout, RevokeSession, TypeOK
<1>3. CASE CreateCharacter(k)
  <2>1. req[k].by \in Accounts \cup {Nobody}
    BY DEF TypeOK, Request
  <2> QED BY <1>3, <2>1, RequestsTyped DEF CreateCharacter, TypeOK
<1>4. CASE IssueWorldJoinTicket(k)
  <2>1. \A a \in Accounts \cup {Nobody}, c \in Characters :
           [account |-> a, character |-> c, state |-> "open"] \in WorldJoinTicket
    BY DEF WorldJoinTicket
  <2>2. req[k].by \in Accounts \cup {Nobody} /\ req[k].on \in Characters
    BY <1>4 DEF IssueWorldJoinTicket, RequestsAreSound, SoundRequest, TypeOK, Request
  <2>3. tickets' \in [TicketIds -> WorldJoinTicket]
    BY <1>4, <2>1, <2>2 DEF IssueWorldJoinTicket, TypeOK
  <2> QED BY <1>4, <2>3, RequestsTyped DEF IssueWorldJoinTicket, TypeOK
<1>5. CASE Connect(k)
  BY <1>5, RequestsTyped DEF Connect, RequestsAreSound, SoundRequest, TypeOK
<1>6. CASE ConnectRefused(k) \/ Abandon(k)
  BY <1>6, RequestsTyped DEF ConnectRefused, Abandon, TypeOK
<1>7. ASSUME NEW a \in Accounts, Authenticate(k, a) PROVE TypeOK'
  <2>1. [op |-> "login", at |-> "authenticated", by |-> a, token |-> <<0, 0>>, on |-> Nobody] \in Request
    BY Bounds DEF Request
  <2>2. [Idle EXCEPT !.op = "login", !.at = "authenticated", !.by = a] \in Request
    <3>0. Idle \in Request
      BY RecordsTyped
    <3>1. [Idle EXCEPT !.op = "login"] \in Request
      BY <3>0 DEF Request
    <3>2. [[Idle EXCEPT !.op = "login"] EXCEPT !.at = "authenticated"] \in Request
      BY <3>1 DEF Request
    <3>3. [[[Idle EXCEPT !.op = "login"] EXCEPT !.at = "authenticated"] EXCEPT !.by = a] \in Request
      BY <3>2 DEF Request
    <3> QED BY <3>3
  <2> QED BY <1>7, <2>1, <2>2 DEF Authenticate, TypeOK
<1>8. ASSUME NEW t \in TicketIds, ConsumeWorldJoinTicket(k, t) PROVE TypeOK'
  <2>1. \A c \in Characters :
           [op |-> "connect", at |-> "consumed", by |-> Nobody, token |-> <<t, 0>>, on |-> c] \in Request
    BY Bounds DEF Request
  <2>2. tickets[t].character \in Characters
    BY <1>8 DEF ConsumeWorldJoinTicket, OpenTicketsAreSound
  <2> QED BY <1>8, <2>1, <2>2, RecordsTyped DEF ConsumeWorldJoinTicket, TypeOK
<1> QED BY <1>1, <1>2, <1>3, <1>4, <1>5, <1>6, <1>7, <1>8 DEF PlayerStep

\* What RequireSession lets through, of a player or an administrator.
LEMMA ValidatedTyped ==
    ASSUME TypeOK, NEW k \in Clients, Validates(k)
    PROVE  TypeOK'
<1>0. PICK s \in SessionIds, op \in AdminOps \cup PlayerOps, on \in Accounts \cup Characters \cup {Nobody} :
         RequireSession(k, s, op, on)
  BY DEF Validates
<1>1. sessions[s].account \in Accounts \cup {Nobody} /\ sessions[s].gen \in 0 .. MaxRefreshes
  BY DEF TypeOK, Session
<1>2. \A a \in Accounts \cup {Nobody}, g \in 0 .. MaxRefreshes :
         [op |-> op, at |-> "validated", by |-> a, on |-> on,
          token |-> IF op \in {"logout", "ticket"} THEN <<s, g>> ELSE <<0, 0>>] \in Request
  BY Bounds DEF Request
<1> QED BY <1>0, <1>1, <1>2 DEF RequireSession, TypeOK

\* An administrator's requests once they are validated.
LEMMA AdminTyped ==
    ASSUME TypeOK, RequestsAreSound, NEW k \in Clients, AdminStep(k)
    PROVE  TypeOK'
<1>0. ASSUME NEW these PROVE Revoked(these) \in [TicketIds -> WorldJoinTicket]
  BY RecordsTyped DEF Revoked, TypeOK
<1>1. ASSUME NEW a PROVE SessionsWithout(a) \in [SessionIds -> Session]
  BY RecordsTyped DEF SessionsWithout, TypeOK
<1>2. CASE RequirePermission(k)
  <2>1. req[k] \in Request
    BY DEF TypeOK
  <2>2. [req[k] EXCEPT !.at = "permitted", !.by = Nobody] \in Request
    BY <2>1, RecordsTyped
  <2>3. CASE req' = [req EXCEPT ![k].at = "permitted", ![k].by = Nobody]
    <3>1. req' = [req EXCEPT ![k] = [req[k] EXCEPT !.at = "permitted", !.by = Nobody]]
      BY <2>1, <2>3 DEF TypeOK
    <3> QED BY <1>2, <2>2, <3>1 DEF RequirePermission, TypeOK
  <2>4. CASE Answered(k)
    BY <1>2, <2>4, RequestsTyped DEF RequirePermission, TypeOK
  <2> QED BY <1>2, <2>3, <2>4 DEF RequirePermission
<1>3. ASSUME NEW state \in {"active", "banned", "timed"}, SetAccountSuspension(k, state) PROVE TypeOK'
  <2>1. req[k].on \in Accounts
    BY <1>3 DEF SetAccountSuspension, RequestsAreSound, SoundRequest
  <2> QED BY <1>3, <2>1, RequestsTyped DEF SetAccountSuspension, NotOut, TypeOK
<1>4. CASE SuspendRevokes(k)
  BY <1>0, <1>1, <1>4, RequestsTyped DEF SuspendRevokes, RevokeAccountSessions, TypeOK
<1>5. CASE SuspendAnswers(k)
  <2>1. req[k].on \in Accounts
    BY <1>5 DEF SuspendAnswers, RequestsAreSound, SoundRequest
  <2>2. out' \in [Accounts -> [by : Clients \cup {Nobody}, told : BOOLEAN]]
    BY <1>5, <2>1 DEF SuspendAnswers, TypeOK
  <2> QED BY <1>5, <2>2, RequestsTyped DEF SuspendAnswers, TypeOK
<1>6. CASE KickRevokesTickets(k)
  BY <1>0, <1>6, RequestsTyped DEF KickRevokesTickets, RevokeCharacterJoinTickets, TypeOK
<1>7. CASE KickRevokesSessions(k)
  BY <1>0, <1>1, <1>7, RequestsTyped DEF KickRevokesSessions, RevokeAccountSessions, TypeOK
<1>8. CASE Invalidate(k)
  BY <1>8, RequestsTyped DEF Invalidate, TypeOK
<1>9. CASE InvalidateRevokes(k)
  BY <1>0, <1>9, RequestsTyped DEF InvalidateRevokes, RevokeCharacterJoinTickets, TypeOK
<1> QED BY <1>2, <1>3, <1>4, <1>5, <1>6, <1>7, <1>8, <1>9 DEF AdminStep

-----------------------------------------------------------------------------
(* What requests speak of *)

\* A session that was issued is never unused again, nor does it come back or
\* change its account once it is gone.
SessionsAge ==
    \A s \in SessionIds : sessions[s].state # "unused" =>
        /\ sessions'[s].state # "unused"
        /\ Exists(s)' => Exists(s) /\ sessions'[s].account = sessions[s].account

\* The request of one client, or of none, is answered, goes a step further or begins.
RequestStep ==
    \A k \in Clients :
        \/ req'[k] = req[k] \/ req'[k] = Idle \/ req'[k].op = "login"
        \/ /\ req'[k].op = req[k].op /\ req'[k].on = req[k].on /\ req'[k].token = req[k].token
           /\ req'[k].by = req[k].by \/ req[k].op \in AdminOps

\* Sessions only grow older.
LEMMA SessionsOnlyAge == ASSUME TypeOK, Next PROVE SessionsAge
<1>1. ASSUME NEW a \in Accounts, AccountStep(a) PROVE SessionsAge
  BY <1>1 DEF AccountStep, RegisterAccount, SuspensionEnds, EnsureAdminSeed, SessionsAge, Exists
<1>2. ASSUME NEW s \in SessionIds, SessionStep(s) PROVE SessionsAge
  <2>1. CASE RefreshSession(s)
    BY <2>1 DEF RefreshSession, SessionsAge, Exists, Gone, TypeOK, Session
  <2>2. CASE SessionExpires(s)
    BY <2>2 DEF SessionExpires, SessionsAge, Exists, TypeOK, Session
  <2> QED BY <1>2, <2>1, <2>2 DEF SessionStep
<1>3. ASSUME NEW t \in TicketIds, TicketExpires(t) PROVE SessionsAge
  BY <1>3 DEF TicketExpires, SessionsAge, Exists
<1>4. ASSUME NEW gone \in SUBSET Characters, LeaveWorld(gone) PROVE SessionsAge
  BY <1>4 DEF LeaveWorld, SessionsAge, Exists
<1>5. ASSUME NEW k \in Clients, PlayerStep(k) PROVE SessionsAge
  <2>1. CASE CreateSession(k)
    BY <2>1 DEF CreateSession, Fresh, SessionsAge, Exists, TypeOK, Session
  <2>2. CASE Logout(k)
    BY <2>2 DEF Logout, RevokeSession, Gone, SessionsAge, Exists, TypeOK
  <2>3. CASE UNCHANGED sessions
    BY <2>3 DEF SessionsAge, Exists
  <2> QED BY <1>5, <2>1, <2>2, <2>3 DEF PlayerStep, CreateCharacter, IssueWorldJoinTicket, Connect,
            ConnectRefused, Abandon, Authenticate, ConsumeWorldJoinTicket
<1>6. ASSUME NEW k \in Clients, Validates(k) PROVE SessionsAge
  BY <1>6 DEF Validates, RequireSession, SessionsAge, Exists
<1>7. ASSUME NEW k \in Clients, AdminStep(k) PROVE SessionsAge
  <2>1. ASSUME NEW a, sessions' = SessionsWithout(a) PROVE SessionsAge
    BY <2>1 DEF SessionsWithout, Gone, SessionsAge, Exists, TypeOK
  <2>2. CASE UNCHANGED sessions
    BY <2>2 DEF SessionsAge, Exists
  <2> QED BY <1>7, <2>1, <2>2 DEF AdminStep, RequirePermission, SetAccountSuspension, SuspendRevokes,
            SuspendAnswers, KickRevokesTickets, KickRevokesSessions, RevokeAccountSessions, Invalidate,
            InvalidateRevokes
<1> QED BY <1>1, <1>2, <1>3, <1>4, <1>5, <1>6, <1>7, Kinds

\* Requests that only go on stay sound.
LEMMA RequestsGoOn ==
    ASSUME TypeOK, RequestsAreSound, SessionsAge, RequestStep
    PROVE  RequestsAreSound'
<1> SUFFICES ASSUME NEW k \in Clients PROVE SoundRequest(req[k])'
  BY DEF RequestsAreSound
<1>0. SoundRequest(req[k])
  BY DEF RequestsAreSound
<1>1. CASE req'[k] = Idle \/ req'[k].op = "login"
  BY <1>1 DEF Idle, SoundRequest
<1>2. CASE req'[k] = req[k]
  BY <1>0, <1>2 DEF SoundRequest, SessionsAge
<1>3. CASE /\ req'[k].op = req[k].op /\ req'[k].on = req[k].on /\ req'[k].token = req[k].token
           /\ req'[k].by = req[k].by \/ req[k].op \in AdminOps
  BY <1>0, <1>3 DEF SoundRequest, SessionsAge, AdminOps
<1> QED BY <1>1, <1>2, <1>3 DEF RequestStep

\* Whoever answers or goes a step further makes a request step.
LEMMA RequestSteps ==
    ASSUME TypeOK, NEW k \in Clients
    PROVE  /\ Answered(k) => RequestStep
           /\ Advance(k, "changed") \/ Advance(k, "revoked") => RequestStep
           /\ UNCHANGED req => RequestStep
<1>1. Answered(k) => RequestStep
  BY DEF Answered, RequestStep, TypeOK
<1>2. \A at \in {"changed", "revoked"} : Advance(k, at) => RequestStep
  BY DEF Advance, RequestStep, TypeOK, Request
<1>3. UNCHANGED req => RequestStep
  BY DEF RequestStep
<1> QED BY <1>1, <1>2, <1>3

\* A request that was let through or took a ticket is sound.
LEMMA RequestBegins ==
    ASSUME TypeOK, RequestsAreSound, OpenTicketsAreSound, NEW k \in Clients,
           Validates(k) \/ \E t \in TicketIds : ConsumeWorldJoinTicket(k, t)
    PROVE  RequestsAreSound'
<1>1. UNCHANGED sessions
  BY DEF Validates, RequireSession, ConsumeWorldJoinTicket
<1>2. \A l \in Clients \ {k} : req'[l] = req[l]
  BY DEF Validates, RequireSession, ConsumeWorldJoinTicket, TypeOK
<1>3. SoundRequest(req[k])'
  <2>1. CASE Validates(k)
    <3>1. PICK s \in SessionIds, op \in AdminOps \cup PlayerOps, on \in Accounts \cup Characters \cup {Nobody} :
             /\ RequireSession(k, s, op, on)
             /\ op \in {"suspend", "lift"} => on \in Accounts
             /\ op = "kick" => on \in Accounts \cup Characters
             /\ op \in {"invalidate", "create", "ticket"} => on \in Characters
      BY <2>1 DEF Validates
    <3>2. /\ req'[k].op = op /\ req'[k].on = on /\ req'[k].by = sessions[s].account
          /\ op \in {"logout", "ticket"} => req'[k].token[1] = s
      BY <3>1 DEF RequireSession, TypeOK
    <3>3. op # "connect" /\ sessions[s].state = "live"
      BY <3>1 DEF RequireSession, ValidateAccessToken, AdminOps, PlayerOps
    <3> QED BY <1>1, <3>1, <3>2, <3>3 DEF SoundRequest
  <2>2. ASSUME NEW t \in TicketIds, ConsumeWorldJoinTicket(k, t) PROVE SoundRequest(req[k])'
    <3>1. tickets[t].character \in Characters
      BY <2>2 DEF ConsumeWorldJoinTicket, OpenTicketsAreSound
    <3>2. /\ req'[k].op = "connect" /\ req'[k].on = tickets[t].character
          /\ req'[k].token[1] = t
      BY <2>2 DEF ConsumeWorldJoinTicket, TypeOK
    <3> QED BY <3>1, <3>2 DEF SoundRequest
  <2> QED BY <2>1, <2>2
<1>4. \A l \in Clients \ {k} : SoundRequest(req[l])'
  BY <1>1, <1>2 DEF RequestsAreSound, SoundRequest, Exists
<1> QED BY <1>3, <1>4 DEF RequestsAreSound

\* Every step keeps the requests sound.
LEMMA RequestsStaySound ==
    ASSUME TypeOK, RequestsAreSound, OpenTicketsAreSound, Next
    PROVE  RequestsAreSound'
<1>0. SessionsAge
  BY SessionsOnlyAge
<1> SUFFICES ASSUME ~ RequestsAreSound' PROVE RequestStep
  BY <1>0, RequestsGoOn
<1>1. ASSUME NEW a \in Accounts, AccountStep(a) PROVE RequestStep
  BY <1>1 DEF AccountStep, RegisterAccount, SuspensionEnds, EnsureAdminSeed, RequestStep
<1>2. ASSUME NEW s \in SessionIds, SessionStep(s) PROVE RequestStep
  BY <1>2 DEF SessionStep, RefreshSession, SessionExpires, RequestStep
<1>3. ASSUME NEW t \in TicketIds, TicketExpires(t) PROVE RequestStep
  BY <1>3 DEF TicketExpires, RequestStep
<1>4. ASSUME NEW gone \in SUBSET Characters, LeaveWorld(gone) PROVE RequestStep
  BY <1>4 DEF LeaveWorld, RequestStep
<1>5. ASSUME NEW k \in Clients, PlayerStep(k) PROVE RequestStep
  <2>1. ASSUME NEW a \in Accounts, Authenticate(k, a) PROVE RequestStep
    <3>1. [Idle EXCEPT !.op = "login", !.at = "authenticated", !.by = a].op = "login"
      BY DEF Idle
    <3> QED BY <2>1, <3>1 DEF Authenticate, RequestStep, TypeOK
  <2> QED BY <1>5, <2>1, RequestSteps, RequestBegins DEF PlayerStep, CreateSession, Logout, CreateCharacter,
            IssueWorldJoinTicket, Connect, ConnectRefused, Abandon
<1>6. ASSUME NEW k \in Clients, AdminStep(k) PROVE RequestStep
  <2>1. CASE RequirePermission(k)
    <3>1. CASE req' = [req EXCEPT ![k].at = "permitted", ![k].by = Nobody]
      BY <2>1, <3>1 DEF RequirePermission, RequestStep, TypeOK, Request
    <3> QED BY <2>1, <3>1, RequestSteps DEF RequirePermission
  <2> QED BY <1>6, <2>1, RequestSteps DEF AdminStep, SetAccountSuspension, SuspendRevokes, SuspendAnswers,
            KickRevokesTickets, KickRevokesSessions, Invalidate, InvalidateRevokes
<1> QED BY <1>1, <1>2, <1>3, <1>4, <1>5, <1>6, Kinds, RequestBegins

\* Every step keeps the characters of the open tickets.
LEMMA TicketsStaySound ==
    ASSUME TypeOK, RequestsAreSound, OpenTicketsAreSound, Next
    PROVE  OpenTicketsAreSound'
<1>1. CASE UNCHANGED tickets
  BY <1>1 DEF OpenTicketsAreSound
<1>2. ASSUME NEW these, tickets' = Revoked(these) PROVE OpenTicketsAreSound'
  BY <1>2 DEF OpenTicketsAreSound, Revoked
<1>3. ASSUME NEW t \in TicketIds, NEW state \in {"consumed", "expired"},
             tickets' = [tickets EXCEPT ![t].state = state]
      PROVE  OpenTicketsAreSound'
  BY <1>3 DEF OpenTicketsAreSound, TypeOK, WorldJoinTicket
<1>4. ASSUME NEW k \in Clients, IssueWorldJoinTicket(k) PROVE OpenTicketsAreSound'
  <2>1. req[k].on \in Characters
    BY <1>4 DEF IssueWorldJoinTicket, RequestsAreSound, SoundRequest
  <2> QED BY <1>4, <2>1 DEF IssueWorldJoinTicket, OpenTicketsAreSound, TypeOK
<1>5. ASSUME NEW a \in Accounts, AccountStep(a) PROVE UNCHANGED tickets
  BY <1>5 DEF AccountStep, RegisterAccount, SuspensionEnds, EnsureAdminSeed
<1>6. ASSUME NEW s \in SessionIds, SessionStep(s) PROVE UNCHANGED tickets
  BY <1>6 DEF SessionStep, RefreshSession, SessionExpires
<1>7. ASSUME NEW k \in Clients, PlayerStep(k) PROVE OpenTicketsAreSound'
  BY <1>1, <1>3, <1>4, <1>7 DEF PlayerStep, CreateSession, Logout, CreateCharacter, Connect,
     ConnectRefused, Abandon, Authenticate, ConsumeWorldJoinTicket
<1>8. ASSUME NEW k \in Clients, AdminStep(k) PROVE OpenTicketsAreSound'
  BY <1>1, <1>2, <1>8, AdminTouches
<1>9. ASSUME NEW t \in TicketIds, TicketExpires(t) PROVE OpenTicketsAreSound'
  BY <1>3, <1>9 DEF TicketExpires
<1>10. ASSUME NEW gone \in SUBSET Characters, LeaveWorld(gone) PROVE UNCHANGED tickets
  BY <1>10 DEF LeaveWorld
<1>11. ASSUME NEW k \in Clients, Validates(k) PROVE UNCHANGED tickets
  BY <1>11 DEF Validates, RequireSession
<1> QED BY <1>1, <1>5, <1>6, <1>7, <1>8, <1>9, <1>10, <1>11, Kinds

\* What the other invariants rest on: types, and what requests and tickets name.
Sound == TypeOK /\ RequestsAreSound /\ OpenTicketsAreSound

LEMMA SoundStep == ASSUME Sound, [Next]_vars PROVE Sound'
<1> USE DEF Sound
<1>1. CASE Next
  <2>1. TypeOK'
    <3>1. ASSUME NEW t \in TicketIds, TicketExpires(t) PROVE TypeOK'
      BY <3>1, RecordsTyped DEF TicketExpires, TypeOK
    <3>2. ASSUME NEW gone \in SUBSET Characters, LeaveWorld(gone) PROVE TypeOK'
      BY <3>2 DEF LeaveWorld, TypeOK
    <3> QED BY <1>1, <3>1, <3>2, Kinds, AccountTyped, SessionTyped, PlayerTyped, ValidatedTyped, AdminTyped
  <2> QED BY <1>1, <2>1, RequestsStaySound, TicketsStaySound
<1>2. CASE UNCHANGED vars
  BY <1>2 DEF vars, TypeOK, RequestsAreSound, SoundRequest, OpenTicketsAreSound, Exists
<1> QED BY <1>1, <1>2

\* Requests under way speak of accounts, characters, sessions and tickets that are there.
THEOREM SoundInvariant == Spec => []Sound
<1>1. Init => Sound
  <2> SUFFICES ASSUME Init PROVE Sound
    OBVIOUS
  <2>1. sessions \in [SessionIds -> Session]
    BY Bounds DEF Init, Session
  <2>2. tickets \in [TicketIds -> WorldJoinTicket]
    BY DEF Init, WorldJoinTicket
  <2>3. /\ req \in [Clients -> Request]
        /\ \A k \in Clients : req[k] = Idle
    BY RecordsTyped DEF Init
  <2>4. TypeOK
    BY <2>1, <2>2, <2>3 DEF Init, TypeOK
  <2>5. RequestsAreSound
    BY <2>3 DEF RequestsAreSound, SoundRequest, Idle
  <2>6. OpenTicketsAreSound
    BY DEF Init, OpenTicketsAreSound
  <2> QED BY <2>4, <2>5, <2>6 DEF Sound
<1>2. Sound /\ [Next]_vars => Sound'
  BY SoundStep
<1> QED BY <1>1, <1>2, PTL DEF Spec

\* The variables keep their types: no handler, whatever came between its steps,
\* writes an account, a character or a session that does not exist.
THEOREM TypeCorrect == Spec => []TypeOK
<1>1. Sound => TypeOK
  BY DEF Sound
<1> QED BY <1>1, SoundInvariant, PTL

-----------------------------------------------------------------------------
(* A join ticket admits once *)

\* Tickets are not opened again, admissions do not change, and no connect begins.
AdmitsNobody ==
    /\ UNCHANGED entered
    /\ \A t \in TicketIds : tickets'[t].state \in {"unused", "open"} => tickets[t].state \in {"unused", "open"}
    /\ \A k \in Clients, t \in TicketIds : Holds(k, t)' => Holds(k, t)

LEMMA AdmitsNobodyKeeps == ASSUME Admissions, AdmitsNobody PROVE Admissions'
  BY DEF Admissions, AdmitsNobody

\* Requests that answer, go a step further, or begin as anything but a connect.
LEMMA NoConnectBegins ==
    ASSUME TypeOK, NEW k \in Clients,
           \/ UNCHANGED req \/ Answered(k) \/ \E at : Advance(k, at)
           \/ req' = [req EXCEPT ![k].at = "permitted", ![k].by = Nobody]
           \/ \E r : req' = [req EXCEPT ![k] = r] /\ r.op # "connect"
    PROVE  \A l \in Clients, t \in TicketIds : Holds(l, t)' => Holds(l, t)
<1>1. Idle.op # "connect"
  BY DEF Idle
<1>2. CASE UNCHANGED req
  BY <1>2 DEF Holds
<1>3. CASE \E r : req' = [req EXCEPT ![k] = r] /\ r.op # "connect"
  BY <1>3 DEF Holds, TypeOK
<1>4. CASE Answered(k)
  BY <1>1, <1>3, <1>4 DEF Answered
<1>5. ASSUME NEW at, Advance(k, at) PROVE \A l \in Clients, t \in TicketIds : Holds(l, t)' => Holds(l, t)
  BY <1>5 DEF Advance, Holds, TypeOK, Request
<1>6. CASE req' = [req EXCEPT ![k].at = "permitted", ![k].by = Nobody]
  BY <1>6 DEF Holds, TypeOK, Request
<1> QED BY <1>2, <1>3, <1>4, <1>5, <1>6

\* The connect that holds a ticket spends it: the one admission there is.
LEMMA ConnectKeepsAdmissions ==
    ASSUME TypeOK, RequestsAreSound, Admissions, NEW k \in Clients, Connect(k)
    PROVE  Admissions'
<1>1. PICK u \in TicketIds : u = req[k].token[1] /\ Holds(k, u)
  BY DEF Connect, RequestsAreSound, SoundRequest, Holds
<1>2. /\ entered[u] = 0 /\ tickets[u].state \notin {"unused", "open"}
      /\ \A l \in Clients : Holds(l, u) => l = k
  BY <1>1 DEF Admissions
<1>3. Idle.op # "connect"
  BY DEF Idle
<1>4. \A l \in Clients, t \in TicketIds : Holds(l, t)' => Holds(l, t) /\ l # k
  BY <1>3 DEF Connect, Answered, Holds, TypeOK
<1>5. UNCHANGED tickets /\ entered'[u] = 1 /\ \A t \in TicketIds \ {u} : entered'[t] = entered[t]
  BY <1>1, <1>2 DEF Connect, TypeOK
<1>6. \A t \in TicketIds \ {u} :
        /\ tickets'[t].state \in {"unused", "open"} => entered'[t] = 0 /\ \A l \in Clients : ~Holds(l, t)'
        /\ entered'[t] \in {0, 1}
        /\ entered'[t] = 1 => \A l \in Clients : ~Holds(l, t)'
        /\ \A l, m \in Clients : Holds(l, t)' /\ Holds(m, t)' => l = m
  BY <1>4, <1>5 DEF Admissions
<1>7. \A l \in Clients : ~Holds(l, u)'
  BY <1>1, <1>2, <1>4
<1> QED BY <1>2, <1>5, <1>6, <1>7 DEF Admissions

\* Consuming an open ticket makes its connect the only one that holds it.
LEMMA ConsumeKeepsAdmissions ==
    ASSUME TypeOK, Admissions, NEW k \in Clients, NEW u \in TicketIds, ConsumeWorldJoinTicket(k, u)
    PROVE  Admissions'
<1>1. entered[u] = 0 /\ \A l \in Clients : ~Holds(l, u)
  BY DEF ConsumeWorldJoinTicket, Admissions
<1>2. /\ UNCHANGED entered /\ tickets'[u].state = "consumed"
      /\ \A t \in TicketIds \ {u} : tickets'[t] = tickets[t]
  BY DEF ConsumeWorldJoinTicket, TypeOK, WorldJoinTicket
<1>3. req'[k].op = "connect" /\ req'[k].token[1] = u /\ \A l \in Clients \ {k} : req'[l] = req[l]
  BY DEF ConsumeWorldJoinTicket, TypeOK
<1>4. /\ \A l \in Clients, t \in TicketIds \ {u} : Holds(l, t)' => Holds(l, t)
      /\ \A l \in Clients : Holds(l, u)' => l = k
  BY <1>1, <1>3 DEF Holds
<1>5. \A t \in TicketIds \ {u} :
        /\ tickets'[t].state \in {"unused", "open"} => entered'[t] = 0 /\ \A l \in Clients : ~Holds(l, t)'
        /\ entered'[t] \in {0, 1}
        /\ entered'[t] = 1 => \A l \in Clients : ~Holds(l, t)'
        /\ \A l, m \in Clients : Holds(l, t)' /\ Holds(m, t)' => l = m
  BY <1>2, <1>4 DEF Admissions
<1> QED BY <1>1, <1>2, <1>4, <1>5 DEF Admissions

\* Every other step admits nobody.
LEMMA AdmissionsStay ==
    ASSUME Sound, Admissions, Next
    PROVE  Admissions'
<1> USE DEF Sound
<1>1. ASSUME NEW a \in Accounts, AccountStep(a) PROVE AdmitsNobody
  BY <1>1 DEF AccountStep, RegisterAccount, SuspensionEnds, EnsureAdminSeed, AdmitsNobody, Holds
<1>2. ASSUME NEW s \in SessionIds, SessionStep(s) PROVE AdmitsNobody
  BY <1>2 DEF SessionStep, RefreshSession, SessionExpires, AdmitsNobody, Holds
<1>3. ASSUME NEW t \in TicketIds, TicketExpires(t) PROVE AdmitsNobody
  BY <1>3 DEF TicketExpires, AdmitsNobody, Holds, TypeOK, WorldJoinTicket
<1>4. ASSUME NEW gone \in SUBSET Characters, LeaveWorld(gone) PROVE AdmitsNobody
  BY <1>4 DEF LeaveWorld, AdmitsNobody, Holds
<1>5. ASSUME NEW k \in Clients, IssueWorldJoinTicket(k) PROVE AdmitsNobody
  <2>1. \A l \in Clients, t \in TicketIds : Holds(l, t)' => Holds(l, t)
    BY <1>5, NoConnectBegins DEF IssueWorldJoinTicket
  <2> QED BY <1>5, <2>1 DEF IssueWorldJoinTicket, Fresh, AdmitsNobody, TypeOK
<1>6. ASSUME NEW k \in Clients, NEW a \in Accounts, Authenticate(k, a) PROVE AdmitsNobody
  <2>1. [Idle EXCEPT !.op = "login", !.at = "authenticated", !.by = a].op # "connect"
    BY DEF Idle
  <2> QED BY <1>6, <2>1, NoConnectBegins DEF Authenticate, AdmitsNobody
<1>7. ASSUME NEW k \in Clients, CreateSession(k) \/ Logout(k) \/ CreateCharacter(k) \/ ConnectRefused(k) \/ Abandon(k)
      PROVE  AdmitsNobody
  BY <1>7, NoConnectBegins DEF CreateSession, Logout, CreateCharacter, ConnectRefused, Abandon, AdmitsNobody
<1>8. ASSUME NEW k \in Clients, Validates(k) PROVE AdmitsNobody
  <2>1. \A l \in Clients, t \in TicketIds : Holds(l, t)' => Holds(l, t)
    <3>1. PICK s \in SessionIds, op \in AdminOps \cup PlayerOps, on \in Accounts \cup Characters \cup {Nobody} :
             RequireSession(k, s, op, on)
      BY <1>8 DEF Validates
    <3> DEFINE r == [op |-> op, at |-> "validated", by |-> sessions[s].account, on |-> on,
                     token |-> IF op \in {"logout", "ticket"} THEN <<s, sessions[s].gen>> ELSE <<0, 0>>]
    <3>2. req' = [req EXCEPT ![k] = r]
      BY <3>1 DEF RequireSession
    <3>3. r.op # "connect"
      BY DEF AdminOps, PlayerOps
    <3> HIDE DEF r
    <3> QED BY <3>2, <3>3, NoConnectBegins
  <2> QED BY <1>8, <2>1 DEF Validates, RequireSession, AdmitsNobody
<1>9. ASSUME NEW k \in Clients, AdminStep(k) PROVE AdmitsNobody
  <2>1. \A l \in Clients, t \in TicketIds : Holds(l, t)' => Holds(l, t)
    BY <1>9, NoConnectBegins DEF AdminStep, RequirePermission, SetAccountSuspension, SuspendRevokes,
       SuspendAnswers, KickRevokesTickets, KickRevokesSessions, Invalidate, InvalidateRevokes
  <2> QED BY <1>9, <2>1, AdminTouches DEF AdmitsNobody, Revoked
<1> QED BY <1>1, <1>2, <1>3, <1>4, <1>5, <1>6, <1>7, <1>8, <1>9, Kinds, AdmitsNobodyKeeps,
          ConnectKeepsAdmissions, ConsumeKeepsAdmissions DEF PlayerStep

\* A join ticket puts a character into the world at most once, however many clients
\* present it at the same time, and none while a connect is still holding it.
THEOREM OnceAdmitted == Spec => []TicketAdmitsOnce
<1>1. Init => Admissions
  BY DEF Init, Admissions, Holds, Idle
<1>2. Sound /\ Admissions /\ [Next]_vars => Admissions'
  <2>1. ASSUME Admissions, UNCHANGED vars PROVE Admissions'
    BY <2>1 DEF vars, Admissions, Holds
  <2> QED BY <2>1, AdmissionsStay
<1>3. Admissions => TicketAdmitsOnce
  <2> SUFFICES ASSUME Admissions, NEW t \in TicketIds
               PROVE  entered[t] + Cardinality({k \in Clients : Holds(k, t)}) <= 1
    BY DEF TicketAdmitsOnce, Holds
  <2> DEFINE H == {k \in Clients : Holds(k, t)}
  <2>1. CASE H = {}
    BY <2>1, FS_EmptySet DEF Admissions
  <2>2. ASSUME NEW k \in H PROVE entered[t] = 0 /\ H = {k}
    BY <2>2 DEF Admissions
  <2>3. ASSUME NEW k \in H PROVE entered[t] = 0 /\ Cardinality(H) = 1
    BY <2>2, <2>3, FS_Singleton
  <2> QED BY <2>1, <2>3
<1> QED BY <1>1, <1>2, <1>3, SoundInvariant, PTL DEF Spec

-----------------------------------------------------------------------------
(* A logout is final *)

\* A logout that succeeds in the store deletes the session it was let through for,
\* unless it was refreshed since: its tokens are others then.
LEMMA LogoutEnds ==
    ASSUME Sound, NEW k \in Clients, Logout(k), {"refreshed", "unrevoked"} \cap Races = {}
    PROVE  sessions'[req[k].token[1]].state = "gone"
<1> USE DEF Sound
<1> DEFINE s == req[k].token[1]
<1>1. s \in SessionIds /\ sessions[s].state # "unused"
  BY DEF Logout, RequestsAreSound, SoundRequest
<1>2. sessions[s].state \in {"unused", "live", "stale", "gone"}
  BY <1>1 DEF TypeOK, Session
<1>3. CASE Exists(s)
  <2>1. req[k].token = <<s, sessions[s].gen>>
    <3>1. req[k].token = <<req[k].token[1], req[k].token[2]>>
      BY DEF TypeOK, Request
    <3> QED BY <1>3, <3>1 DEF Logout
  <2> QED BY <1>1, <1>3, <2>1 DEF Logout, RevokeSession, Gone
<1>4. CASE ~Exists(s)
  BY <1>1, <1>2, <1>4 DEF Logout, RevokeSession, Exists
<1> QED BY <1>3, <1>4

\* Once a logout was answered nothing brings its session back, neither a refresh
\* with tokens it once had nor another login, unless the session was refreshed
\* between the check and the revocation or the revocation failed and its error was
\* dropped.
THEOREM FinalLogout == ASSUME {"refreshed", "unrevoked"} \cap Races = {} PROVE Spec => []LogoutIsFinal
<1>1. Init => Farewells
  BY DEF Init, Farewells
<1>2. ASSUME Sound, Farewells, [Next]_vars PROVE Farewells'
  <2>1. CASE UNCHANGED vars
    BY <1>2, <2>1 DEF vars, Farewells
  <2>2. CASE Next
    <3>1. \A s \in SessionIds : sessions[s].state = "gone" => sessions'[s].state = "gone"
      <4>1. \A s \in SessionIds : sessions'[s].state \in {"unused", "live", "stale", "gone"}
        BY <1>2, SoundStep DEF Sound, TypeOK, Session
      <4> QED BY <1>2, <2>2, <4>1, SessionsOnlyAge DEF SessionsAge, Exists, Sound
    <3>2. UNCHANGED ended \/ \E k \in Clients : Logout(k)
      BY <2>2, Kinds DEF AccountStep, RegisterAccount, SuspensionEnds, EnsureAdminSeed, SessionStep,
         RefreshSession, SessionExpires, TicketExpires, LeaveWorld, PlayerStep, CreateSession,
         CreateCharacter, IssueWorldJoinTicket, Connect, ConnectRefused, Abandon, Authenticate,
         ConsumeWorldJoinTicket, Validates, RequireSession, AdminStep, RequirePermission,
         SetAccountSuspension, SuspendRevokes, SuspendAnswers, KickRevokesTickets,
         KickRevokesSessions, Invalidate, InvalidateRevokes
    <3>3. CASE UNCHANGED ended
      BY <1>2, <3>1, <3>3 DEF Farewells, Sound, TypeOK
    <3>4. ASSUME NEW k \in Clients, Logout(k) PROVE Farewells'
      BY <1>2, <3>1, <3>4, LogoutEnds DEF Farewells, Logout, Sound, TypeOK
    <3> QED BY <3>2, <3>3, <3>4
  <2> QED BY <1>2, <2>1, <2>2
<1>3. Farewells => LogoutIsFinal
  BY DEF Farewells, LogoutIsFinal, Exists
<1>4. Sound /\ Farewells /\ [Next]_vars => Farewells'
  BY <1>2
<1> QED BY <1>1, <1>3, <1>4, SoundInvariant, PTL DEF Spec

-----------------------------------------------------------------------------
(* A suspension ends everything *)

NoNewSession == \A s \in SessionIds : Exists(s)' => Exists(s) /\ sessions'[s].account = sessions[s].account
NoNewTicket == \A t \in TicketIds : tickets'[t].state = "open" =>
                   tickets[t].state = "open" /\ tickets'[t].account = tickets[t].account

\* Sessions come from logins and tickets from requests for one.
LEMMA WhereSessionsComeFrom ==
    ASSUME TypeOK, Next
    PROVE  NoNewSession \/ \E k \in Clients : CreateSession(k)
<1>1. ASSUME UNCHANGED sessions PROVE NoNewSession
  BY <1>1 DEF NoNewSession, Exists
<1>2. ASSUME NEW s \in SessionIds, SessionStep(s) PROVE NoNewSession
  <2>1. CASE RefreshSession(s)
    BY <2>1 DEF RefreshSession, NoNewSession, Exists, Gone, TypeOK, Session
  <2>2. CASE SessionExpires(s)
    BY <2>2 DEF SessionExpires, NoNewSession, Exists, TypeOK, Session
  <2> QED BY <1>2, <2>1, <2>2 DEF SessionStep
<1>3. ASSUME NEW a, sessions' = SessionsWithout(a) PROVE NoNewSession
  BY <1>3 DEF SessionsWithout, Gone, NoNewSession, Exists, TypeOK
<1>4. ASSUME NEW token, sessions' = RevokeSession(token) PROVE NoNewSession
  BY <1>4 DEF RevokeSession, Gone, NoNewSession, Exists, TypeOK
<1>5. ASSUME NEW k \in Clients, PlayerStep(k) PROVE NoNewSession \/ CreateSession(k)
  BY <1>1, <1>4, <1>5 DEF PlayerStep, Logout, CreateCharacter, IssueWorldJoinTicket, Connect,
     ConnectRefused, Abandon, Authenticate, ConsumeWorldJoinTicket
<1>6. ASSUME NEW k \in Clients, Validates(k) PROVE NoNewSession
  BY <1>1, <1>6 DEF Validates, RequireSession
<1>7. ASSUME NEW k \in Clients, AdminStep(k) PROVE NoNewSession
  BY <1>1, <1>3, <1>7, AdminTouches
<1>8. ASSUME NEW a \in Accounts, AccountStep(a) PROVE NoNewSession
  BY <1>1, <1>8 DEF AccountStep, RegisterAccount, SuspensionEnds, EnsureAdminSeed
<1>9. ASSUME NEW t \in TicketIds, TicketExpires(t) PROVE NoNewSession
  BY <1>1, <1>9 DEF TicketExpires
<1>10. ASSUME NEW gone \in SUBSET Characters, LeaveWorld(gone) PROVE NoNewSession
  BY <1>1, <1>10 DEF LeaveWorld
<1> QED BY <1>2, <1>5, <1>6, <1>7, <1>8, <1>9, <1>10, Kinds

LEMMA WhereTicketsComeFrom ==
    ASSUME TypeOK, Next
    PROVE  NoNewTicket \/ \E k \in Clients : IssueWorldJoinTicket(k)
<1>1. ASSUME UNCHANGED tickets PROVE NoNewTicket
  BY <1>1 DEF NoNewTicket
<1>2. ASSUME NEW t \in TicketIds, NEW state \in {"expired", "consumed"},
             tickets' = [tickets EXCEPT ![t].state = state]
      PROVE  NoNewTicket
  BY <1>2 DEF NoNewTicket, TypeOK, WorldJoinTicket
<1>3. ASSUME NEW these, tickets' = Revoked(these) PROVE NoNewTicket
  BY <1>3 DEF Revoked, NoNewTicket
<1>4. ASSUME NEW k \in Clients, AdminStep(k) PROVE NoNewTicket
  BY <1>1, <1>3, <1>4, AdminTouches
<1>5. ASSUME NEW k \in Clients, PlayerStep(k) PROVE NoNewTicket \/ IssueWorldJoinTicket(k)
  <2>1. CASE \E t \in TicketIds : ConsumeWorldJoinTicket(k, t)
    BY <1>2, <2>1 DEF ConsumeWorldJoinTicket
  <2>2. CASE \E a \in Accounts : Authenticate(k, a)
    BY <1>1, <2>2 DEF Authenticate
  <2>3. CASE CreateSession(k) \/ Logout(k) \/ CreateCharacter(k) \/ Connect(k) \/ ConnectRefused(k) \/ Abandon(k)
    BY <1>1, <2>3 DEF CreateSession, Logout, CreateCharacter, Connect, ConnectRefused, Abandon
  <2> QED BY <1>5, <2>1, <2>2, <2>3 DEF PlayerStep
<1>6. ASSUME NEW a \in Accounts, AccountStep(a) PROVE UNCHANGED tickets
  BY <1>6 DEF AccountStep, RegisterAccount, SuspensionEnds, EnsureAdminSeed
<1>7. ASSUME NEW s \in SessionIds, SessionStep(s) PROVE UNCHANGED tickets
  BY <1>7 DEF SessionStep, RefreshSession, SessionExpires
<1>8. ASSUME NEW t \in TicketIds, TicketExpires(t) PROVE NoNewTicket
  BY <1>2, <1>8 DEF TicketExpires
<1>9. ASSUME NEW gone \in SUBSET Characters, LeaveWorld(gone) PROVE UNCHANGED tickets
  BY <1>9 DEF LeaveWorld
<1>10. ASSUME NEW k \in Clients, Validates(k) PROVE UNCHANGED tickets
  BY <1>10 DEF Validates, RequireSession
<1> QED BY <1>1, <1>4, <1>5, <1>6, <1>7, <1>8, <1>9, <1>10, Kinds

\* A suspended account that has neither session nor ticket gets none.
LEMMA BareStays ==
    ASSUME Sound, Next, "overtaken" \notin Races, NEW a \in Accounts, Suspended(a), Bare(a)
    PROVE  Bare(a)'
<1> USE DEF Sound
<1>1. \A s \in SessionIds : Exists(s)' => sessions'[s].account # a
  <2>1. CASE NoNewSession
    BY <2>1 DEF NoNewSession, Bare
  <2>2. ASSUME NEW k \in Clients, CreateSession(k) PROVE \A s \in SessionIds : Exists(s)' => sessions'[s].account # a
    <3>1. req[k].by # a
      BY <2>2 DEF CreateSession
    <3> QED BY <2>2, <3>1 DEF CreateSession, Fresh, Exists, Bare, TypeOK
  <2> QED BY <2>1, <2>2, WhereSessionsComeFrom
<1>2. \A t \in TicketIds : tickets'[t].state = "open" => tickets'[t].account # a
  <2>1. CASE NoNewTicket
    BY <2>1 DEF NoNewTicket, Bare
  <2>2. ASSUME NEW k \in Clients, IssueWorldJoinTicket(k)
        PROVE  \A t \in TicketIds : tickets'[t].state = "open" => tickets'[t].account # a
    <3>1. req[k].by # a
      BY <2>2 DEF IssueWorldJoinTicket, RequestsAreSound, SoundRequest, Bare
    <3> QED BY <2>2, <3>1 DEF IssueWorldJoinTicket, Fresh, Bare, TypeOK
  <2> QED BY <2>1, <2>2, WhereTicketsComeFrom
<1> QED BY <1>1, <1>2 DEF Bare

\* Of the steps that change no standing and no verdict: a suspension is at its last
\* step only if it was there before.
LEMMA SuspensionsStay ==
    ASSUME Sound, Suspensions, Next, "overtaken" \notin Races, UNCHANGED <<standing, out>>,
           \A k \in Clients : req'[k].op = "suspend" /\ req'[k].at = "revoked" => req'[k] = req[k]
    PROVE  Suspensions'
<1>1. ASSUME NEW a \in Accounts, out[a].by # Nobody, Bare(a) PROVE Bare(a)'
  BY <1>1, BareStays DEF Suspensions
<1>2. \A a \in Accounts : Suspended(a)' <=> Suspended(a)
  BY DEF Suspended
<1>3. \A k \in Clients : k # Nobody
  BY Bounds
<1> QED BY <1>1, <1>2, <1>3 DEF Suspensions

\* Registration, a ban lifted by the seed, a suspension that has run out.
LEMMA AccountSuspensions ==
    ASSUME Sound, Suspensions, NEW a \in Accounts, AccountStep(a)
    PROVE  Suspensions'
<1> USE DEF Sound
<1>1. UNCHANGED <<sessions, tickets, req>>
  BY DEF AccountStep, RegisterAccount, SuspensionEnds, EnsureAdminSeed
<1>2. \A b \in Accounts : Bare(b) => Bare(b)'
  BY <1>1 DEF Bare, Exists
<1>3. \A b \in Accounts \ {a} : out'[b] = out[b] /\ standing'[b] = standing[b]
  BY DEF AccountStep, RegisterAccount, SuspensionEnds, EnsureAdminSeed, TypeOK
<1>4. \/ out'[a].by = Nobody /\ ~out'[a].told
      \/ out'[a] = out[a] /\ standing'[a] = standing[a]
  <2>1. CASE RegisterAccount(a)
    BY <2>1 DEF RegisterAccount, Suspensions, Suspended, TypeOK
  <2>2. CASE SuspensionEnds(a)
    BY <2>2 DEF SuspensionEnds, NotOut, TypeOK
  <2>3. CASE EnsureAdminSeed(a)
    BY <2>3 DEF EnsureAdminSeed, NotOut, Suspensions, Suspended, TypeOK
  <2> QED BY <2>1, <2>2, <2>3 DEF AccountStep
<1>5. \A k \in Clients : k # Nobody
  BY Bounds
<1> QED BY <1>1, <1>2, <1>3, <1>4, <1>5 DEF Suspensions, Suspended

\* Whoever suspends last owns the suspension; lifting it takes it back.
LEMMA SetSuspension ==
    ASSUME Sound, Suspensions, NEW k \in Clients, NEW state \in {"active", "banned", "timed"},
           SetAccountSuspension(k, state)
    PROVE  Suspensions'
<1> USE DEF Sound
<1> PICK a \in Accounts : a = req[k].on
  BY DEF SetAccountSuspension, RequestsAreSound, SoundRequest
<1>1. UNCHANGED <<sessions, tickets>>
  BY DEF SetAccountSuspension
<1>2. \A b \in Accounts : Bare(b) => Bare(b)'
  BY <1>1 DEF Bare, Exists
<1>3. \A b \in Accounts \ {a} : out'[b] = out[b] /\ standing'[b] = standing[b]
  BY DEF SetAccountSuspension, TypeOK
<1>4. \/ out'[a].by = Nobody /\ ~out'[a].told
      \/ out'[a].by = k /\ out'[a].told = out[a].told /\ Suspended(a)'
  BY DEF SetAccountSuspension, NotOut, Suspended, TypeOK
<1>5. k # Nobody /\ \A l \in Clients : l # Nobody
  BY Bounds
<1>6. \A l \in Clients \ {k} : req'[l] = req[l]
  BY DEF SetAccountSuspension, Answered, Advance, TypeOK
<1>7. req'[k].at # "revoked"
  BY DEF SetAccountSuspension, Answered, Advance, Idle, TypeOK, Request
<1> QED BY <1>2, <1>3, <1>4, <1>5, <1>6, <1>7 DEF Suspensions, Suspended

\* The revocation of a suspension leaves the account neither session nor ticket.
LEMMA SuspensionRevokes ==
    ASSUME Sound, Suspensions, NEW k \in Clients, SuspendRevokes(k), "unrevoked" \notin Races
    PROVE  Suspensions'
<1> USE DEF Sound
<1> PICK a \in Accounts : a = req[k].on
  BY DEF SuspendRevokes, RequestsAreSound, SoundRequest
<1>1. UNCHANGED <<standing, out>>
  BY DEF SuspendRevokes
<1>2. \A b \in Accounts : Bare(b) => Bare(b)'
  <2>1. NoNewSession
    BY DEF SuspendRevokes, RevokeAccountSessions, SessionsWithout, NoNewSession, Exists, Gone, TypeOK
  <2>2. NoNewTicket
    BY DEF SuspendRevokes, RevokeAccountSessions, Revoked, NoNewTicket, TypeOK
  <2> QED BY <2>1, <2>2 DEF NoNewSession, NoNewTicket, Bare
<1>3. Bare(a)'
  BY Bounds DEF SuspendRevokes, RevokeAccountSessions, SessionsWithout, Revoked, Gone, Exists, Bare
<1>4. \A l \in Clients \ {k} : req'[l] = req[l]
  BY DEF SuspendRevokes, Advance, TypeOK
<1>5. req'[k].on = a
  BY DEF SuspendRevokes, Advance, TypeOK, Request
<1> QED BY <1>1, <1>2, <1>3, <1>4, <1>5 DEF Suspensions, Suspended

\* Whoever answers for a suspension in force has revoked before.
LEMMA SuspensionAnswers ==
    ASSUME Sound, Suspensions, NEW k \in Clients, SuspendAnswers(k)
    PROVE  Suspensions'
<1> USE DEF Sound
<1> PICK a \in Accounts : a = req[k].on
  BY DEF SuspendAnswers, RequestsAreSound, SoundRequest
<1>1. UNCHANGED <<standing, sessions, tickets>>
  BY DEF SuspendAnswers
<1>2. \A b \in Accounts : Bare(b) => Bare(b)'
  BY <1>1 DEF Bare, Exists
<1>3. \A b \in Accounts \ {a} : out'[b] = out[b]
  BY DEF SuspendAnswers, TypeOK
<1>4. out'[a].by = out[a].by /\ (out'[a].told => out[a].told \/ out[a].by = k)
  BY DEF SuspendAnswers, TypeOK
<1>5. out[a].by = k => Bare(a) /\ k # Nobody
  BY Bounds DEF SuspendAnswers, Suspensions
<1>6. \A l \in Clients : req'[l] = req[l] \/ req'[l].op # "suspend"
  BY DEF SuspendAnswers, Answered, Idle, TypeOK
<1> QED BY <1>1, <1>2, <1>3, <1>4, <1>5, <1>6 DEF Suspensions, Suspended

\* The steps that have no part in a suspension.
LEMMA SuspensionsOtherwise ==
    ASSUME TypeOK, Next
    PROVE  \/ \E a \in Accounts : AccountStep(a)
           \/ \E k \in Clients :
                 \/ \E state \in {"active", "banned", "timed"} : SetAccountSuspension(k, state)
                 \/ SuspendRevokes(k) \/ SuspendAnswers(k)
           \/ /\ UNCHANGED <<standing, out>>
              /\ \A k \in Clients :
                    req'[k].op = "suspend" /\ req'[k].at = "revoked" => req'[k] = req[k]
<1> DEFINE Calm == \A k \in Clients : req'[k].op = "suspend" /\ req'[k].at = "revoked" => req'[k] = req[k]
<1>0. Idle.op # "suspend"
  BY DEF Idle
<1>1. ASSUME NEW k \in Clients, Answered(k) PROVE Calm
  BY <1>0, <1>1 DEF Answered, TypeOK
<1>2. ASSUME NEW k \in Clients, Advance(k, "changed") PROVE Calm
  BY <1>2 DEF Advance, TypeOK, Request
<1>3. ASSUME UNCHANGED req PROVE Calm
  BY <1>3
<1>4. ASSUME NEW k \in Clients, PlayerStep(k) PROVE Calm /\ UNCHANGED <<standing, out>>
  <2>1. ASSUME NEW a \in Accounts, Authenticate(k, a) PROVE Calm /\ UNCHANGED <<standing, out>>
    <3>1. [Idle EXCEPT !.op = "login", !.at = "authenticated", !.by = a].op = "login"
      BY DEF Idle
    <3> QED BY <2>1, <3>1 DEF Authenticate, TypeOK
  <2>2. ASSUME NEW t \in TicketIds, ConsumeWorldJoinTicket(k, t) PROVE Calm /\ UNCHANGED <<standing, out>>
    BY <2>2 DEF ConsumeWorldJoinTicket, TypeOK
  <2> HIDE DEF Calm
  <2> QED BY <1>1, <1>4, <2>1, <2>2 DEF PlayerStep, CreateSession, Logout, CreateCharacter,
            IssueWorldJoinTicket, Connect, ConnectRefused, Abandon
<1>5. ASSUME NEW k \in Clients, Validates(k) PROVE Calm /\ UNCHANGED <<standing, out>>
  BY <1>5 DEF Validates, RequireSession, TypeOK
<1>6. ASSUME NEW k \in Clients, RequirePermission(k) PROVE Calm /\ UNCHANGED <<standing, out>>
  <2>1. CASE req' = [req EXCEPT ![k].at = "permitted", ![k].by = Nobody]
    BY <1>6, <2>1 DEF RequirePermission, TypeOK, Request
  <2> HIDE DEF Calm
  <2> QED BY <1>1, <1>6, <2>1 DEF RequirePermission
<1>7. ASSUME NEW k \in Clients, KickRevokesTickets(k) \/ KickRevokesSessions(k) \/ Invalidate(k) \/ InvalidateRevokes(k)
      PROVE  Calm /\ UNCHANGED <<standing, out>>
  BY <1>1, <1>2, <1>7 DEF KickRevokesTickets, KickRevokesSessions, Invalidate, InvalidateRevokes
<1>8. ASSUME NEW s \in SessionIds, SessionStep(s) PROVE UNCHANGED <<req, standing, out>>
  BY <1>8 DEF SessionStep, RefreshSession, SessionExpires
<1>9. ASSUME NEW t \in TicketIds, TicketExpires(t) PROVE UNCHANGED <<req, standing, out>>
  BY <1>9 DEF TicketExpires
<1>10. ASSUME NEW gone \in SUBSET Characters, LeaveWorld(gone) PROVE UNCHANGED <<req, standing, out>>
  BY <1>10 DEF LeaveWorld
<1> HIDE DEF Calm
<1>11. \/ \E a \in Accounts : AccountStep(a)
       \/ \E k \in Clients :
             \/ \E state \in {"active", "banned", "timed"} : SetAccountSuspension(k, state)
             \/ SuspendRevokes(k) \/ SuspendAnswers(k)
       \/ Calm /\ UNCHANGED <<standing, out>>
  BY <1>3, <1>4, <1>5, <1>6, <1>7, <1>8, <1>9, <1>10, Kinds DEF AdminStep
<1> QED BY <1>11 DEF Calm

\* When an administrator has been told that an account is suspended it has no session
\* that a refresh could bring back and no ticket that opens the world, unless a login
\* or a ticket request that had begun before overtakes the revocation, or the
\* revocation failed and its error was dropped.
THEOREM CompleteSuspension == ASSUME {"overtaken", "unrevoked"} \cap Races = {} PROVE Spec => []SuspensionEndsAll
<1>1. Init => Suspensions
  BY DEF Init, Suspensions, Idle
<1>2. Sound /\ Suspensions /\ [Next]_vars => Suspensions'
  <2> SUFFICES ASSUME Sound, Suspensions, [Next]_vars PROVE Suspensions'
    OBVIOUS
  <2>1. CASE UNCHANGED vars
    BY <2>1 DEF vars, Suspensions, Suspended, Bare, Exists
  <2>2. CASE Next
    BY <2>2, SuspensionsOtherwise, SuspensionsStay, AccountSuspensions, SetSuspension, SuspensionRevokes,
       SuspensionAnswers DEF Sound
  <2> QED BY <2>1, <2>2
<1>3. Suspensions => SuspensionEndsAll
  BY DEF Suspensions, SuspensionEndsAll, Bare
<1> QED BY <1>1, <1>2, <1>3, SoundInvariant, PTL DEF Spec
=============================================================================
