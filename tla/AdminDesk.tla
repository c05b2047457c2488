------------------------------- MODULE AdminDesk -------------------------------
(***************************************************************************)
(* Administrators who change a character: copper, items, quests, repairs   *)
(* (admin/http.go, worlds/admin_http.go, store/admin_store.go).            *)
(*                                                                         *)
(* A request changes the record in one locked call of the store.  The      *)
(* world service then, under its mutex, gives a session of that character  *)
(* the record that call returned, and audits; the admin service, which has *)
(* no sessions, audits.  The two steps are separate calls of the store.    *)
(***************************************************************************)
EXTENDS Careers

CONSTANTS
    Granted, Taken, \* copper an administrator adds, and removes
    MaxRequests     \* bound: requests

ASSUME DeskAssumption == Granted \cup Taken \subseteq Nat \ {0} /\ MaxRequests \in Nat

Grants == Granted \cup {-n : n \in Taken}

VARIABLES
    request,    \* the one under way, or NoRequest: the character, the copper it adds,
                \* the record it left, whether the world service has it, and logs out
    trail,      \* character -> copper added, as the audit events tell it
    requests    \* how many there have been
desk == <<request, trail, requests>>

NoRequest == [char |-> None, delta |-> 0, after |-> None, live |-> FALSE, logout |-> FALSE]
Requested == request.char # None
DeskInit == request = NoRequest /\ trail = [c \in Char |-> 0] /\ requests = 0

-----------------------------------------------------------------------------
(* The store's mutations: the records they may leave, and the copper put in. *)
Left(r, delta) == [after |-> r, delta |-> delta]

ChangeCharacterCurrency(c) ==
    {Left([record[c] EXCEPT !.copper = @ + delta], delta) : delta \in {d \in Grants : record[c].copper + d >= 0}}

GrantCharacterItem(c) == {Left([record[c] EXCEPT !.ore = @ + 1], 0)}
RemoveCharacterItem(c) == IF record[c].ore > 0 THEN {Left([record[c] EXCEPT !.ore = @ - 1], 0)} ELSE {}

\* AdminQuestTargetCount: the quests an administrator can name are those without a graph.
Nameable == {q \in Quest : KindOf[q] # "graph"}
WasRewarded(c, q) == record[c].quests[q].state = "reward_granted"

ResetCharacterQuest(c) ==
    {Left([record[c] EXCEPT !.quests[q] = NewProgress,
                            !.again = @ + (IF WasRewarded(c, q) THEN 1 ELSE 0)], 0) : q \in Nameable}

CompleteCharacterQuestObjective(c) ==
    {Left([record[c] EXCEPT !.quests[q] = [@ EXCEPT !.state = "completed", !.count = TargetCount]], 0) :
        q \in {k \in Nameable : ~WasRewarded(c, k)}}

\* The abilities and the action bar it restores are not among those of the record here.
NormalizeCharacterForAdmin(c) == {Left(record[c], 0)}

-----------------------------------------------------------------------------
(* The first half of a request. *)
Begin(c, mutations, live, logout) ==
    /\ ~Requested /\ requests < MaxRequests
    /\ requests' = requests + 1
    /\ \E new \in mutations :
        /\ record' = [record EXCEPT ![c] = new.after]
        /\ request' = [char |-> c, delta |-> new.delta, after |-> new.after, live |-> live, logout |-> logout]
    /\ UNCHANGED <<session, failures, torn, trail>>

\* The admin service; without the race, for characters who are not in the world.
AdminService(c, mutations) ==
    /\ InWorld(c) => "elsewhere" \in Races
    /\ Begin(c, mutations, FALSE, FALSE)

ItemsGrant(c) == AdminService(c, GrantCharacterItem(c))
ItemsRemove(c) == AdminService(c, RemoveCharacterItem(c))
HandleCurrencyChange(c) == AdminService(c, ChangeCharacterCurrency(c))
QuestsReset(c) == AdminService(c, ResetCharacterQuest(c))
QuestsCompleteObjective(c) == AdminService(c, CompleteCharacterQuestObjective(c))
Repair(c) == AdminService(c, NormalizeCharacterForAdmin(c))

\* The world service
HandleAdminItemChange(c) == Begin(c, GrantCharacterItem(c) \cup RemoveCharacterItem(c), TRUE, FALSE)
HandleAdminCurrencyChange(c) == Begin(c, ChangeCharacterCurrency(c), TRUE, FALSE)
HandleAdminRepair(c) == \E logout \in BOOLEAN : Begin(c, NormalizeCharacterForAdmin(c), TRUE, logout)

-----------------------------------------------------------------------------
(* The second half. *)
\* applyCharacterProgressionLocked
WrongApplyToSession(c, after) == session
ApplyToSession(c, after) == IF InWorld(c) THEN [session EXCEPT ![c] = LoadQuests(after)] ELSE session

\* What the audit says, without the race
Audited == trail' = [trail EXCEPT ![request.char] = @ + request.delta]
Done ==
    /\ Audited \/ ("unaudited" \in Races /\ UNCHANGED trail)
    /\ request' = NoRequest
    /\ UNCHANGED <<record, failures, torn, requests>>

FinishInWorld ==
    /\ Requested /\ request.live
    /\ session' = IF request.logout THEN [session EXCEPT ![request.char] = None]
                                    ELSE ApplyToSession(request.char, request.after)
    /\ Done

FinishInAdminService == Requested /\ ~request.live /\ UNCHANGED session /\ Done

\* handleAdminSessionInvalidate
InvalidateSession(c) == requests < MaxRequests /\ requests' = requests + 1 /\ Leave(c) /\ UNCHANGED <<request, trail>>

QuestRequests(c) == QuestsReset(c) \/ QuestsCompleteObjective(c) \/ Repair(c) \/ HandleAdminRepair(c)
GoodsRequests(c) ==
    \/ ItemsGrant(c) \/ ItemsRemove(c) \/ HandleCurrencyChange(c)
    \/ HandleAdminItemChange(c) \/ HandleAdminCurrencyChange(c)
FinishRequest == FinishInWorld \/ FinishInAdminService

DeskTypeOK ==
    /\ request \in [char : Char, delta : Grants \cup {0}, after : Record,
                    live : BOOLEAN, logout : BOOLEAN] \cup {NoRequest}
    /\ trail \in [Char -> Int] /\ requests \in 0..MaxRequests
=============================================================================
