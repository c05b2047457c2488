# A formal model of AmandaCore's services

AmandaCore is a small online role-playing game: Go services (`Services/`), an
O3DE client in C++ (`Gems/`), a launcher and a client host in C# (`Client/`).
The services decide everything; this directory models them in TLA+, checks the
models with TLC on small instances, and proves the most important facts of eight
of them with TLAPS for every instance.

    tlc -workers 2 -config ShardLoopSafety.cfg MCShardLoop
    tlapm ShardLoopProofs.tla

`PROJECT.json` lists the runs, the lines of code each definition stands for, the
mutants (a plausible bug per property that the property catches), the hazards of
the code and the theorems.

## Inventory

| Part | State | Operations | Interacts by | Hard |
| --- | --- | --- | --- | --- |
| Shard loop (`worlds/loop/shard_loop.go`) | queue channel, shard state, counters, replay log, retained frames | `Start`, `Stop`, `Submit`, the worker `run`, `Replay` | channels and `l.mu` | goroutines between lock sections, timeouts, shutdown |
| Typed commands (`loop/commands.go`) | players, NPCs, loot, quests, bags, claims of a shard | some thirty kinds of command, each applied and each replayed | the loop's log | replay written a second time, payloads that say less than the command |
| Replication (`worlds/replication`, `loop/types.go`) | state version, frames; a client's cursor and copy | a command's frame, `ReplicationFrameSince`, `AcceptFrame` | polls over HTTP | lost, late and reordered replies, retention |
| Adapter (`worlds/world_loop_adapter.go`) | the mirror of the sessions in the loop's state | `submitStonewakeHTTPCommand`, `syncStonewakeSessionLocked` | runs handlers inside loop commands under `worldServer.mutex` | errors after partial changes |
| World sessions (`worlds/http.go`, `metrics.go`) | `sessionsByToken`, `sessionTokenByChar`; each session copies the character | connect, reconnect, move, disconnect, stale cleanup | reads and writes the store | stale copies, reads before the mutex |
| Vendors, loot, market (`vendors.go`, `loot.go`, `auctions.go`, `store/auction_store.go`) | copper, bags, listings, containers | buy, sell, kill, claim, list, buy out, cancel, expire | some write the session and copy it to the store, others the reverse | lost updates, partial grants, limits |
| Quests and growth (`quests.go`, `quest_graph.go`, `trainers.go`, `professions.go`, `gathering.go`, `crafting.go`, `talents.go`) | quest progress, abilities, skills, talents, nodes | accept, report, turn in, credit, learn, gather, craft, select | four saves that write four parts of the copy | failing saves, shared credit, graphs that cannot be ended |
| Belongings (`inventory.go`, `housing.go`, `abilities.go`) | bag, equipment, chest, action bar | move, equip, deposit, withdraw, assign | session first or store first, depending on the operation | stacks, slots, failing saves |
| Combat and duels (`combat.go`, `ability_effects.go`, `targeting.go`, `kill_credit.go`, `pvp.go`) | health, targets, casts, auras, threat, duels | one handler each, and `advanceWorldLocked` before all of them | under `worldServer.mutex` | what is due in the same tick, death by several causes, leaving in the middle |
| Places (`travel.go`, `zone_handoff.go`, `dungeons.go`, `housing.go`) | positions, return positions, instances | recall, route, handoff, enter, exit, reset | sessions, the store, parties | crashes indoors, rollback, membership that changes, expiry |
| Society (`social.go`, `guild.go`, the client's `GameCoreSystemComponent.cpp`) | parties, guilds, invitations, friends, the chat ring, the client's message list | one handler each | the store for groups, memory for invitations and chat | invitations that outlive their reason, restarts under clients |
| Doors (`authn`, `accounts`, `realms`, `characters`, `admin`, `httpapi`) | accounts, sessions, join tickets | login, refresh, logout, ticket, connect, suspend, kick, repair, change items and copper | one file, six processes | requests of several store operations that interleave |
| File store (`store/file_store.go`, `transactions.go`) | the state in memory of each process, the JSON file | some ninety operations of one form, `WithTransaction` | a file lock between the service processes | failing saves, crashes, remove before rename |
| SQL store (`store/sqlstore`) | tables with versions, ledger rows, mutation keys | transactions, and operations of several statements | one connection | isolation, retries, deaths between statements |
| Events, migrations, dirty-state buffer, content, load tools, client, launcher, infrastructure | - | - | files, HTTP | outside the models |

What makes each part correct:

* **Shard loop**: one writer; a command has at most one effect, in the order of
  its caller's calls; what `Submit` returns is true; nobody waits for ever; the
  state is final when `Stop` has returned nil; the log, replayed, is the state.
* **Replication**: the answer to a cursor covers everything that changed since, or
  asks for a resync; a client that polls converges.
* **Values**: copper and items are neither made nor lost between session copies,
  the store and the market; a reward is given once, and for good, with its quest;
  the audit trail and the ledger explain the balance.
* **Places**: the store always knows where a character comes out; an instance knows
  who is in it.
* **Fights**: life and health agree; a death is credited once; a duel that is won is
  lost; nobody is hurt outside a fight.
* **Society**: nobody is in two groups, or in one unasked; a chat list has no gaps.
* **Doors**: a ticket admits once; what a suspension or a logout ended stays ended.
* **Stores**: processes with one file behave as one atomic ledger, and answers are
  true; a retried SQL call takes effect once; tables that say the same thing agree.

## Modules

| Module | Models | Extends or instantiates |
| --- | --- | --- |
| `ShardAuthority` | the promise of a shard: call, effect, reply, close, without queue, worker or lock | |
| `ShardLoop` | `shard_loop.go`: every lock section and channel operation of `Submit`, `Stop` and `run` is a step | |
| `ShardLoopRefinement` | the mapping of the loop to the promise | `ShardLoop`, `ShardAuthority` |
| `ShardLoopProofs` | the theorems about the loop and about the typed commands | `ShardLoop`, `ShardCommands`, TLAPS |
| `Replication` | the snapshot's players, `changedFields`, `recordReplicationFrameLocked`, `ReplicationFrameSince` | |
| `PollingClients` | clients with `AcceptFrame` behind a bad transport | `Replication` |
| `PollingClientsProofs` | the theorems about frames and copies | `PollingClients`, TLAPS |
| `ShardWorld` | the state of a shard and its helpers: players, threat, death | |
| `FightCommands` | commands about sessions, targets, abilities, health, threat, and their replay | `ShardWorld` |
| `RewardCommands` | commands about quests, loot, copper, items, bars and bags, and their replay | `FightCommands` |
| `ShardCommands` | a shard that applies commands, beside the one that replays its log | `RewardCommands` |
| `Ledger` | the promise of the store: operations take effect atomically and answers are true | |
| `FileStore` | `lockState`, `reloadLocked`, `saveLocked`, plain operations, `WithTransaction` | `Ledger` (refinement) |
| `Admission` | accounts, logins, refreshes, logouts, join tickets, connects, the administrators' suspensions and kicks | |
| `AdmissionProofs` | the theorems about the doors | `Admission`, TLAPS |
| `SqlConnection`, `SqlGoods`, `SqlGroups`, `SqlDoors` | the SQL store: character state, market and mail; parties and guilds; sessions and tickets | `SqlConnection` |
| `SqlStore` | the three over one connection | `SqlGoods`, `SqlGroups`, `SqlDoors` |
| `StoreProofs` | the theorems about both stores | `FileStore`, `SqlStore`, TLAPS |
| `WorldEconomy` | session copies, the store's records, the market, administrators | |
| `WorldEconomyProofs` | the theorems about money, bags and rewards | `WorldEconomy`, TLAPS |
| `Whereabouts` | positions, return positions, parties, the dungeon instance, housing | |
| `WhereaboutsProofs` | the theorems about places and instances | `Whereabouts`, TLAPS |
| `Battle` | the advance of the world by phases, and every request about fights and duels | |
| `BattleProofs` | the theorems about fights and duels | `Battle`, TLAPS |
| `SocialSessions`, `PartyLife`, `GuildLife`, `Talk` | sessions as society sees them; parties; guilds; friends, chat and the client's list | `SocialSessions` |
| `Society` | the three together, with restarts | `PartyLife`, `GuildLife`, `Talk` |
| `Careers` | a character's record, its copy in a session, the four saves, quest progress | |
| `Quests`, `Growth`, `AdminDesk`, `Belongings` | quests; learning and making; administrators' requests; what is carried and worn | `Careers` |
| `Progression` | these four together | `Quests`, `Growth`, `AdminDesk`, `Belongings` |
| `CharacterProofs` | the theorems about society, rewards, books and quests | `Society`, `Progression`, TLAPS |
| `MC...` | the small instances, symmetry and the values of constants, where a `.cfg` cannot state them | |

How code becomes actions:

* **Shard loop.** A goroutine's position is a variable (`workerPc`, `callerPc`,
  `stopperPc`); what is between two lock sections or channel operations belongs to
  the step before it. `Submit` is `SubmitCheck`, `SubmitEnqueue`,
  `SubmitRecordAccepted`, then `SubmitReceive` or `SubmitTimeout`; when both are
  ready Go's `select` takes either, and so does the model. A command's body is
  `Outcomes`: it changes the state, leaves it, or fails before it writes. The state
  is the sequence of the commands that changed it.
* **Typed commands.** A command is an operator from a world to a world, or to
  `Refused`; so is the replay of its record. A step applies the one to `live` and the
  other to `replica`.
* **Replication.** A command and its frame are one step; polls read under the
  loop's mutex. A player is its two compared parts, place and connection.
* **File store.** A process holds the mutex and the file lock together, so it has
  one operation under way, at a `pc`: holding, mutated, written, removed, saved.
  The state is the set of operations whose effect it holds. A missing file, which
  `reloadLocked` takes for no error, is a value of its own.
* **Admission, SqlStore.** A request is the store operations it makes, each one step
  (the store's lock, or one transaction or statement), with the request's own
  variables kept between them. A transaction that fails leaves no trace and is no step.
* **The world service** (`WorldEconomy`, `Whereabouts`, `Battle`, `Society`,
  `Progression`). A handler runs under `worldServer.mutex` and is one action with all
  it calls: the save at its end, the sessions it refreshes. Only a connect and an
  administrator's change, which touch the store before they have the mutex, are two.
  A call that is refused before it changes anything is no action. In `Battle` every
  request first advances duels, auras, sessions and mobs; the phases are steps because
  the code ranges over maps, and nothing else comes between them.
* **History variables**, which no code has: `owed` in `WorldEconomy`, `book` in part in
  `Battle`, `got` in `Talk`, `trail`, `again` and `torn` in `Progression`, `made`, `paid`
  and `applied` in `SqlGoods`, `dead` and `consumed` in `SqlDoors`, `ended`, `entered` and
  `out` in `Admission`, `loose` in `ShardCommands`. Properties compare them with the state.

`scene`, in `ShardCommands`, `SqlStore` and `Progression`, and `circle` in `Society`, says which part of a
composed module moves in a behaviour. Parts that share a scene interleave; parts in
different ones write nothing the other reads (but copper and what is learned, which the
scenes of `Progression` share by having the operation in both), so interleaving them would
multiply states and show nothing.

## Runs

Every run passes; each property has a mutant that breaks it.

| Run | Question | Instance and bounds | Distinct states |
| --- | --- | --- | --- |
| `shard_loop_safety` | Are callers told the truth, effects single and in the order of calls, is Stop a barrier, does the loop implement `ShardAuthority`? | 2 callers with 2 calls each, 1 stopper, queue of 2, 2 retained frames, symmetry | 582,482 |
| `shard_loop_liveness` | Does every `Submit` return, and the worker stop? | 2 callers with 1 call, 1 stopper, queue of 1 | 7,821 |
| `polling_clients` | Does the answer to a cursor cover the difference, is a client's copy the state of its cursor's version, does it catch up again and again? | 1 client, 1 character under 2 tokens one after the other, 1 retained frame, 2 replies in flight, versions to 4 | 95,172 |
| `shard_commands` | Is the replayed log the state, are the dead out of the fight, are claims paid once? | 3 tokens of 2 characters, 1 NPC, 4 abilities, 1 container, health 2, threat to 2 | 90,220 |
| `file_store` | Do processes with failing saves, transactions and crashes implement `Ledger`, is what was acknowledged kept, does an error roll back? | 2 processes, 3 operations | 35,307 |
| `admission` | Does a ticket admit once, is a suspension or a logout final? | an administrator, a player with 1 character, 2 clients at a time, 2 sessions, 1 ticket, 1 refresh | 2,179,104 |
| `sql_store` | Do ledger, listings and mails explain all copper and items, do keys work once, do tables agree, are dead tokens dead? | 2 characters with 2 slots, 1 auction, 1 mail, 1 key, 3 commits; 2 parties and a guild with 5 calls; 2 sessions with 3 token pairs, 1 ticket | 673,963 |
| `world_economy` | Do the books balance, do connected sessions see the store, is a reward for good? | 2 characters, 2 tokens, 1 listing, bags of 2, 2 copper of income, 1 connect or administrator's change under way | 868,563 |
| `whereabouts` | Does the store have the way back, does an instance know who is in it? | 2 characters, 2 parties and 2 instances over time | 44,593 |
| `battle` | Do life and health agree, is every kill credited once, do duels add up, does harm have a cause? | 2 players, 1 mob, a cast with an aura, an instant strike and a heal, health 2, 1 kill, 1 duel | 449,341 |
| `society` | Is nobody in two groups or in one unasked, is chat whole? | 4 characters for parties of 3, 3 for 2 guilds, 2 who talk 5 messages through a ring of 3 and lists of 2 | 247,830 |
| `progression` | Do rewards and books add up, can quests be ended, are belongings kept? | 2 characters, a counted quest, a lesson and a graph that depends on the first, a lesson in a profession, 1 failing save, 1 administrator's request; 2 worn items and a stack of 2, bag of 3, chest of 2, bar of 2 | 313,990 |

Why the bounds are enough to meet the interesting cases: the loop's races need two
callers, a second call to retry with, and a queue that is full once; the boundary of
the retained frames is crossed when versions exceed `DeltaRetention + 1`; a lost
update of the store needs two processes, and a third operation to see one come back;
a sale needs two characters, a bag that fills up needs two slots; a second instance
shows what a reset and a restart leave behind. A suspension races a login, a ticket
or a refresh in two clients; a retry of a SQL call needs another commit between the two
attempts, and a third to see it lost. A fight in which the dead matter needs a mob and
two players, one of whom may leave; two points of health are one blow and a lethal one.
A party of three outlives a member's leaving, a fourth finds it full; a ring of three
with lists of two drops messages from both. `CHECK_DEADLOCK FALSE` stands where calls,
versions, copper, tokens or operations are used up and the instance really comes to rest.
Bounds are constants named `Max...` in each module, and stand in guards.

Each module has a type invariant (`TypeOK`, for parts `...TypeOK`). They were checked
while the modules were written, and those of `ShardLoop`, `FileStore`, `Admission`,
`Whereabouts`, `PollingClients`, `WorldEconomy` and `Battle` are proved; the runs spend
their time on what types do not say.

### Fairness

`ShardLoop!Fairness`: the worker goroutine and a caller inside `Submit` are scheduled
(weak fairness of their steps), a deadline comes (weak fairness of `SubmitTimeout`;
`Submit` puts one on every context without), and `select` picks at random among
ready cases, so a closed `stop` channel is not passed over for ever (strong fairness
of `RunStop`). Nobody is obliged to call anything. `PollingClients!PollingFairness`:
a client that polls goes on polling, and not every reply of an infinite number is
lost. The server falls silent when `MaxVersion` is used up: that a client catches up again
and again is shown against every finite history of changes, at whatever point of the polls
they come. The other modules state safety only: their handlers answer within one step, and
nobody but a player decides whether there is another.

### Hazards behind constants

Most modules name hazards in a constant `Races` (`SocialRaces` in `Society`'s): interleavings, failures or inputs the
code lets happen and with which a property fails. The runs have none of them, so what a
run shows is that the named ones are the only ones of what is modelled, on its instance. To see one, add it
to the `.cfg`:

* `WorldEconomy`: `"offline"` (a disconnected session's token still works, but a sale
  does not refresh it), `"saveFails"` (the session keeps what the client was told had
  failed), `"overtaken"` (a connect or an administrator's change applies a record read
  before a sale): each breaks `BooksBalance` or `ConnectedSeesTheStore`. `"fullBag"`:
  `grantQuestRewardLocked` pays experience and copper before it finds the bag full, and
  pays again at the next attempt: the session has what the store has not
  (`ConnectedSeesTheStore`).
* `Whereabouts`: `"offline"` and `"drop"` break `EmptyInstanceExpires` (an instance is
  left out of its count), `"resume"` breaks `CountedInside` (a resuming connect does
  not count the player), `"teleport"` (a teleport leaves the session in its instance)
  and `"elsewhere"` (the admin service moves a character who is in the world) break
  `WayBack`. A save that fails in `"move"`, `"travel"` or `"teleport"`
  (`SaveFailsIn`) breaks `WayBack`; in a handoff, an exit, a disconnect or a room it
  does not, and the run lets those fail. Without any race two statements of the tests
  fail, which no run checks: `PrivateInstance` with three characters, for the members of
  an instance are those of its creation and who left the party is moved inside by
  another's call (`e2e/dungeon_slice_test.go:67` expects the opposite), and
  `ReconnectStaysInside`, for the five-minute expiry of an emptied instance stays when
  it is entered again (`e2e/dungeon_slice_test.go:85`).
* `FileStore`: a crash or a failing save at `"removed"` (`CrashAt`, `SaveFailsAt`) breaks
  `AcknowledgedIsKept` and `RollbackOnError`: `saveLocked` removes the file before it
  renames the new one over it.
* `PollingClients`: with `Overlap` a character may be in the mirror under two tokens at a
  time, as it is when a stale session was dropped from `worldServer` only; a snapshot
  then changes under the same version, and copies differ from it.
* `FightCommands`: eleven ways in which replaying a record is not what the command did
  (`"unrecorded"`, `"defaults"`, `"cost"`, `"self"`, `"deselect"`, `"again"`, `"twice"`),
  the dead act (`"deadActs"`), or a reward is claimed twice (`"otherKey"`, `"forgets"`,
  `"anew"`).
* `Admission`: `"overtaken"` (the second half of a login or of a ticket request comes after
  a suspension) breaks `SuspensionEndsAll`; `"refreshed"` (a refresh replaces the token a
  logout was asked with) breaks `LogoutIsFinal`; `"unrevoked"` (the store refuses to revoke,
  and `authn/http.go:148` and `admin/http.go:177`, `:633` discard its error and answer
  success) breaks both.
* `SqlStore`: `"unversioned"` (a save of a whole character that was read in another
  transaction) breaks `GoodsAddUp`, `"lateprogress"` (progress written to a rewarded quest,
  by `UpdateQuestProgress` or
  `UpdateCharacterQuestProgress`, which then pays again) `LedgerExplainsCopper`, `"asgiven"`
  (`UpdateCharacterEconomy` and `UpdateCharacterProgression` store the copper and the bag they
  are given, with no row in the ledger) both; `"crash"` (a death between two statements)
  and `"revived"` (a disbanded group saved from an older copy) break `MembershipAgrees`,
  `"consume"` (two consumers that both validated) breaks `DeadTokensOpenNothing`. Two have
  no property: with `"stale"` a group saved from an older copy forgets who joined meanwhile,
  though the tables agree; with `"listmail"` a list of mails holds the only connection and
  waits for it, and no goods move any more.
* `Battle`: `"bleeds"` (an aura takes a player's last health, or goes on after its duel),
  `"mendsDead"` (a heal, or the tick of a healing aura, reaches a dead player), `"follows"` (a mob strikes a player who
  left its zone) break `LifeIsHealth` and `HarmHasACause`; `"saveFails"` breaks
  `EveryKillIsPaid`, and `DuelsAddUp` too: the winner's record is saved before the loser's.
* `SocialSessions`: `"unread"` (a failing read is taken for "in no group") breaks
  `OneGroupEach`; `"inviteStays"` and `"departed"` break `AskedIn`; `"renumbered"` (a
  restart under clients that hold message numbers) and `"replayed"` (an answer with more
  messages than a client keeps) break `ChatIsWhole`; for the latter the ring must be two
  longer than the list (`RingLimit = 5`, `ListLimit = 3`).
* `Careers`: `"fullBag"` (a reward pays experience and copper and then finds no room for its
  items: the quest stays open and pays again) breaks `RewardsAddUp` and `BooksAddUp`. `"talk"` lets `Graph` have talk_provider nodes, which nothing completes; with
  one in `MCProgression!Nodes` `QuestsCanEnd` fails. `"elsewhere"`, `"overtaken"` and
  `"unaudited"` break `BooksAddUp`. A failing save puts its character into `torn`:
  `BooksAddUp` and `BelongingsKept` except it, for the next save of another part writes what
  the client was told had failed; `RewardsAddUp` does not.

Also met, and in no run: a stopping loop answers accepted commands with
`ErrLoopStopped`, where `AuthoritativeWorldLoop.md:41` says that every accepted command is
applied; a client that took the no-op frame of its own command would skip versions (no
client in the repository does).

## Proofs

The theorems hold for every value of the constants: any number of callers, processes,
clients, characters, sessions, groups, listings, mobs, operations and versions, any prices
and limits. Each names as a hypothesis the hazards of the code (members of `Races` and
`SocialRaces`, failing saves, `Overlap`, the window of `saveLocked`) that its argument does
not survive; a theorem without hypothesis holds with all of them. The runs exclude the same hazards, and
"Hazards behind constants" says what each of them does. The assumptions on constants are
named in the modules (`...Assumption`): limits are numbers, "nobody" and "nothing" are no
member and no record of what they stand beside, sets that are counted are finite.

| Module | Theorems | Without |
| --- | --- | --- |
| `ShardLoopProofs` (loop) | `AtMostOnce`, `Truthful`, `InOrderOfCalls`, `Barrier`, `Refinement` | - |
| `ShardLoopProofs` (commands) | `ReplayAlwaysReproduces`; `DeadAlwaysOut`; `ClaimsAlwaysAddUp` | `"unrecorded"`, `"twice"`, and: `"defaults"`, `"cost"`, `"self"`, `"deselect"`, `"again"`, `"forgets"`; `"deadActs"`; `"defaults"`, `"otherKey"`, `"anew"`, `"forgets"` |
| `PollingClientsProofs` | `FramesTellAll`, `CopiesConverge` | two sessions of one character at a time |
| `AdmissionProofs` | `OnceAdmitted`; `FinalLogout`; `CompleteSuspension` | -; `"refreshed"`, `"unrevoked"`; `"overtaken"`, `"unrevoked"` |
| `StoreProofs` (files) | `Kept`, `Gone`, `NeverStale`, `Rollback`, `Refinement` | a failure between remove and rename |
| `StoreProofs` (SQL) | `OneEffect`; `ItemsAddUp`; `CopperIsExplained`; `GroupsAgree`; `SpentDoors` | -; `"unversioned"`, `"asgiven"`; and `"lateprogress"`; `"crash"`, `"revived"`; `"consume"` |
| `WhereaboutsProofs` | `Homeward`; `Inmates`; `Abandoned` | `"teleport"`, and: `"elsewhere"` and three failing saves; `"resume"`; `"resume"`, `"drop"`, `"offline"` |
| `WorldEconomyProofs` | `BooksAlwaysBalance`, `ConnectedSees`, `RewardStays` | all four races |
| `BattleProofs` | `DuelsCounted`; `KillsPaid`; `LifeAndHealth`; `HarmExplained` | `"saveFails"`; `"saveFails"`; `"bleeds"`, `"mendsDead"`; `"bleeds"`, `"follows"` |
| `CharacterProofs` (society) | `OneGroupAlways`; `AlwaysAskedIn`; `ChatAlwaysWhole` | `"unread"`; `"departed"`, `"inviteStays"`; `"renumbered"`, `"replayed"` |
| `CharacterProofs` (progression) | `BelongingsAlwaysKept`; `RewardsAlwaysAddUp`; `BooksAlwaysAddUp`; `QuestsAlwaysCanEnd` | -; `"fullBag"`; `"fullBag"`, `"elsewhere"`, `"overtaken"`, `"unaudited"`; `"talk"` |

**Shard loop**, from `ShardLoopAssumption` (the limits are positive, `NoCommand` is no
command). `ReturnIsTrue`, `AppliedAtMostOnce` and `RetryNeverOvertakes` are not inductive:
that a command is not applied twice depends on its being in one place only. `IInv` says
where everything is. `Control`: where goroutines are agrees with what they hold.
`InOneLine`: replay log, worker and queue are one line in which each caller's commands
stand in the order of its calls. `Bookkeeping`: a command in the queue or in the worker's
hands is unanswered, its caller still waiting or timed out; one in the log was answered
with success or not yet; an answer of success has its log entry. `Numbered`: sequence
numbers grow along the log. `LineInvariant` is proved action by action from these and
`TypeOK`; `AtMostOnce`, `Truthful` and `InOrderOfCalls` follow. `Barrier` follows from
`Control`: a Stop that returned nil saw the worker gone. `Refinement` maps the loop to
`ShardAuthority`: the worker's write is the authority's effect, `Submit`'s lock sections
and channel operations are its call and its replies, all else stutters. It needs `RInv`
besides: a caller has one call open, and a command that failed stood before all that are
still in line.

**Typed commands.** `WorldGood`: sessions are of different characters, each the one its
character has, and whatever has fields or a threat table is well formed; it is what makes an
upsert of a record as it is change nothing. All theorems need `Settled`: no second session of
a character, in the initial snapshot or by a connect, and no state beside the payload. A
command is an operator from worlds to worlds, so the lemmas are about worlds: one that
`Fought` moves no goods and lets nobody in or out, one that `Moved` may let somebody in who
has nothing, one that `Fared` or is `Kept` leaves the dead out. `Standing` says of sessions and
NPCs what `DeadAreOut` says, and is inductive because threat goes only to the living and a
death clears the tables (a leader stays who was not struck off: `LeaderStays`).
`ReplayAlwaysReproduces` compares each command with its record's branch on the same world;
under `Replayable` they are equal, for an ability that hits somebody else because paying,
harm and healing touch different records (`AbilityReplayed`). `ClaimsAlwaysAddUp` carries
`Tallied`: bag, copper and claims of each player agree with what it was given and with whose
claim the corpse has. The bag is filled by a fold, but with one or two items at a time, which
unfolds without induction (`PutIsOne`, `PutIsTwo`); an item put in or swapped changes counts
as finite sets do (`PutOneCounts`, `SwappedCounts`).

**File store**, from `ConstantsAssumption` and `WindowClosed`: nothing fails and nobody
dies between remove and rename. That hypothesis is the code's defect; above is what happens
without it. `IInv`: `OneInside` (the lock is held by the one process with an operation
under way), `AnswersAreTrue` (acknowledged operations are durable, refused ones are not),
`MemoryFollows` (the memory of the process inside is the file, plus its own operation, step
by step) and `FreshIsEmpty` (before the first save nothing has happened, so a missing file
is no loss). `Kept`, `Gone`, `NeverStale` and `Rollback` follow, and `Refinement`: the
removal of the old file is the moment the operation commits; every other step is a step of
`Ledger` that answers, or a stutter.

**Polling clients.** `ServerSound`: retained frames are those of the last versions, one by
one and none of them empty (`FramesInOrder`), and the changes since any version behind
which frames are retained cover every difference between that version's state and the
current one (`FramesCover`); the lemmas on `Covers` chain a command's frame to those before
it. `ClientsSound`: a reply in flight was true of the versions it names (`Explains`) and is
of use to the client it was sent to (`Meets`), and a copy is the history's state at its
cursor. A delta is then right to apply exactly when `AcceptFrame` accepts it.

**Admission.** `Sound`: `TypeOK`, and what a request under way holds between two of its
store operations names records of the right kind (`RequestsAreSound`, `OpenTicketsAreSound`).
`TicketAdmitsOnce` then needs `Admissions`: a ticket that one connect holds is held by no
other, has admitted nobody and is no longer open. `LogoutIsFinal` needs `Farewells`, for
which sessions are shown only to age (`SessionsOnlyAge`): none that is gone comes back.
`SuspensionEndsAll` needs `Suspensions`: sessions come from logins and tickets from ticket
requests only, both for accounts in good standing, so that from the revocation on the
account has none of either. Both need the revocation to take place when it is answered.

**SQL store.** Goods: `KeysKept` (an effect under a key has left the row that refuses the
next, whoever retries: for `OncePerKey`), `ItemsKept` (items made are those in bags, on sale
and in mails: a count, each commit moving one element between finite sets; a lemma by the
pigeonhole principle, `MinIsIn`, stands where the first free slot would call for induction),
and `CopperExplained` (a purse is its start, its ledger rows and one reward for a rewarded
quest). Groups: `LiveLed` (leader among members), `CopiesSound` and `InvitesSound` (what calls
have read, however old, names groups and characters that exist). Doors: the tokens of rows
were issued and differ (`TokensDiffer`), a ticket consumed stays so (`ConsumedOnce`). The
three parts write disjoint variables; the theorems are about the composed `SqlStore`.

**Whereabouts.** `Positions` (where a session may be by its flags), `Lists` and `Unique`
(parties are duplicate-free sequences, nobody in two) and `Copies` (instances were created,
and no party has two) hold together. `Homeward` adds `Kept`: the place outdoors that a
session would come out at is what the store holds. `Inmates` adds `Counts`: the instance of
a session, while it runs, has the character among its members, and who is inside is among
those it counts. `Abandoned` adds `Empties`: in turn who is counted is inside (`Exact`), and
an instance with nobody inside has its short expiry or is past it (`Expires`).

**Economy.** `Sound`: `Typed`; `Indexed` (a character has at most the session its index
entry names); `CopiesCurrent` and `ReadsCurrent` (each connected session's copy, and each
record that a connect or an administrator's request has read, is the store's record); and
`BooksBalance` itself. Half of the handlers write absolute values from a copy, half add
differences to the store, and both are right exactly because copies are current; for the
same reason all theorems exclude the four races: each lets a copy and the store differ.

**Fights.** Handlers are operators from worlds to worlds, so most lemmas are about worlds.
`Gentle` handlers change neither life nor health and move nobody; after one that `Fought`,
whoever was hurt was hurt in a duel that is on, and stands; `Good` holds of every world:
types, `Fair` (duels are disjoint pairs, those won or on are among those that began, and those
won were lost once),
`Hale` (health agrees with life) and `Paid` (credits, store, loot and deaths agree). `Hale`,
`Paid` and the last part of `Fair` are stated under the absence of the hazards that break
them, so that one invariant serves all theorems.

**Society.** Every handler is first shown to be one of a few moves of the groups
(`PartyMoves`, `GuildMoves`: they begin, lose members, take in one character, end), and the
invariants are shown of the moves. `OneGroupAlways`: parties are sequences without repeats
of permitted length with the leader among them (`PartiesGood`), guilds have the leader's
rank in one place (`GuildsGood`), and two of either share nobody (`PartiesApart`,
`GuildsApart`), which a new member does not disturb because it was looked up before.
`AlwaysAskedIn` adds `InvitesStand`: who invited to a guild may still do so; a party looks
its leader up when the invitation is accepted and needs no such fact. `ChatAlwaysWhole`
relates the ring (`RingGood`: consecutive numbers up to the last sent) to each client's
list, last number and history (`ClientsGood`): of what is to it up to its last number all
has been shown, and what its list no longer has lies before a full list. The ring and the
lists are cut by places and not by recursion, so lemmas without induction say what remains.

**Progression.** `Kept`: each record and each session's copy is well formed, its experience
is that of its closed quests (`Fair`, unless bags fill up), and quests are in states their kind allows
(`Orderly`); saves and handlers preserve it one record at a time (`Moves`, `Becomes`,
`Onward`), so a failing save cannot break it, and `RewardsAlwaysAddUp` and
`QuestsAlwaysCanEnd` follow (the latter with an active node by the graph's having no circle:
`GraphAssumption`). `BooksAlwaysAddUp` adds `Books`: while saves go well, copy and record
agree on what is booked (`Agree`), record and trail balance, and a change under way was
computed from the record as it still is. Each of the four saves writes a part of the copy;
that the rest was written before is what `Agree` carries over from step to step.

`BelongingsAlwaysKept` sums over bags and chests of any size, with folds. The library's
induction needs an operator for its hypothesis, which no prover here can supply, so the
induction is over a set: among the sets of places for which a claim fails there would be
one within the smallest 1..n, and its last place makes it fail for a smaller one
(`PlacesInduction`, from `NatLessThanWellFounded`); `FoldExists` shows the same way that
the function a fold chooses exists. Then `AmountAt` (one slot changed changes the amount by
what changes there), `SpreadGains` (what topping up and filling spread over the slots is
there, and nothing else is touched), and an `XHeld` lemma for each handler. The invariant
`BelongingsInv` says what the store and the session of a character have; with it goes
`SessionKnows`: the session knows each ability the store knows, without which a bar that
the store keeps could differ from the one the session keeps.

Only model-checked: the liveness properties and whatever depends on ENABLED, which are out
of the prover's reach. Every safety invariant and action property of a run is proved.

## Not modelled

* Wording, payloads, formatting, distances (a place is near what it is near), clocks, the
  numbers of combat. Positions are the three places the handlers ask about. Costs,
  cooldowns, levels and rates say how often, and the models let it happen at any time.
* Content loading, migrations, command lines: sequential, before anything runs. The
  dirty-state buffer has no caller.
* Passwords, random tokens, request parsing: data of requests that are refused or not.
* The coordinator of the zone handoff: its ownership, queues and journal are written by
  handoffs and read by reports.
* The C++ client but for its chat list, launcher, portal: user interface; the client's
  side of replication is modelled from the Go contract.
* Of a reward with several items, those that were put into the bag before it was full: the
  bag of `Careers` holds no items, and `WorldEconomy` gives one.
* The administrator's reset of a quest in `WorldEconomy`, where a reward is for good: the
  reset is a request of `AdminDesk`, and `RewardsAddUp` counts what it reopened.
* Mail reading, item repair, decorations, bind points and mounts: one record, one save.
* Solo entry to the dungeon (`AMANDACORE_ALLOW_SOLO_DUNGEON`), a development flag.

The typed commands, `AcceptFrame`, `ShardLoop.Stop` and the SQL store are modelled though
no service calls them yet: they are the parts the next versions of the services are to rest
on, and only tests and tools exercise them.

## Plan

Built, in this order: the loop and its promise; replication and its clients; the file
store and its ledger; the economy; the whereabouts; typed commands and their replay;
fights and duels; society; doors; the SQL store; progression and belongings. What is left:

1. That `PollingClients` keeps the promise of a copy that may lag but never errs, stated as
   a specification of its own.
2. The adapter: the sessions of `worldServer` beside the mirror in the loop's state, with
   failing mutations and world ticks.
3. The zone coordinator's workers, queues and journal, should a decision come to read them.
