# Kvestarnia in TLA+

Kvestarnia is a Ukrainian role-playing game played through a Telegram bot
(TypeScript, grammY, Prisma over SQLite). Players press buttons; every button
calls a service, the service calls a repository, and the repository commits one
database transaction. This directory models the parts of the game in which
several players, several features or the clock meet over the same rows, checks
the models with TLC and proves the most important invariants with TLAPS.

## How the program behaves, and what that means for a model

* One Node process serves all updates. Long polling hands over one update at a
  time (`docs/architecture/runtime-performance-critical-path.md:5`), but the
  schedulers, the start-up clean-ups and the best-effort deliveries run beside
  it, and the repositories are written, and tested, for concurrent calls. The
  unit that does not interleave is the database transaction: SQLite serialises
  writers, and inventory changes run through `runSerializableInventoryMutation`
  (three attempts; a contention failure writes nothing). **An action of a model
  is one committed transaction**, and actions of all players come in any order.
  What a service reads before the transaction is an input of the action that
  may be stale, and is never trusted by a guard.
* Transactions defend themselves with compare-and-set: `updateMany` with the
  expected status in the `where`, and a look at `count`. Models keep those
  conditions as guards.
* Buttons live forever in a chat. Any answer may come twice, late, out of order
  or after the row is gone. Models let every handler run at any time with any
  token; a call that returns without writing is a stuttering step.
* Time enters as `expiresAt` compared with the clock. Models keep a set of rows
  whose deadline has passed; the clock may pass a deadline at any moment.
* A process crash loses nothing but the call in progress, since all state is in
  the database; between two transactions every model may stop and go on.

## Inventory

| component | state | operations | who it meets | hard part |
|---|---|---|---|---|
| Item transfers | `item_transfers` rows, stacks, gold | gift create/accept/decline/cancel, parcel draft/edit/confirm/accept/decline/cancel, expiry sweeps | two players, chest, sale, use, barter, equipment, remort, restart | goods move once; one claim per stack; retries and deadlines |
| Remort, restart | character, its stacks, all its live rows | draft, complete; delete | everything a character owns | no row of a former life may act in the next |
| Mantok Chest, level barter, Mantok sale, item use | a run/exchange/sale/order row with a selection of stacks | preview/create, edit, cancel, confirm, expire | each other and transfers | a stack pledged twice; confirm twice |
| Craft, notch exchange, upgrade, dismantle | stacks, gold, upgrade rows | confirm | the reserving features, which they do not ask | spends a pledged stack |
| Equipment | slots | equip, unequip, attune | stacks, dismantling | wearing what is gone |
| Combat leases | one row per character | acquire with the battle row, release with its settlement | solo combat, duels, party boss, group combat, remort, restart | one battle at a time; a lease without an owner |
| Solo combat | session row with state JSON and turn | start, act, flee, time out, settle | lease, items, remort, scheduler | stale turn, reward twice |
| Duels | challenge row, turn state | create, accept, decline, act, time out, settle, tournament | two leases, scheduler | both players answer; timeout races an action |
| Party session, party boss | session, members, readiness, rounds | create, invite, join, leave, ready, start, act, resolve | leases, chat, scheduler | start races leaving; a round resolves once |
| Group combat | battle row, participants, actions | start, act, exit, time out, settle, card delivery | leases, party, scheduler | turn version; settlement once; cards out of order |
| Party raid chat | events, deliveries with leases | record, claim, deliver, fail | Telegram, membership | at-least-once delivery, after leaving |
| Tavern games | table rows with seats, stake keys, pot and clocks | create, join, ready, start, play, settle, cancel, sweep | gold of up to four players, restart | stakes paid out once, keys given up, tables that nobody ends |
| Guilds | guild, members with roles, invitations, personal codes, previews; the version printed on every card | preview, confirm, invite, answer, edit, promote, offer and accept the lead, kick, leave, disband | gold of the founder, remort | buttons of an older roster; charters that run out unnoticed; one guild per user; the last leader |
| Referrals | invite, milestones, reward outbox | bind, progress, claim, notify | scheduler | reward once |
| HP recovery notifications | outbox row per character | record, claim, send, suppress | regeneration, remort, Telegram | stale notification, lost claim |
| Runtime lifecycle | process phases, schedulers | start, ready, signal, drain, stop | Telegram, HTTP health | shutdown while starting |
| Presenters, keyboards, callbacks, content | none | format, parse | | not modelled: no state |

`PROJECT.json` lists every component with its sources and its status, and every
hazard at its line with the properties that would notice it.

## Modules

`ItemTransfers` is the core. Its variables are columns: `stack`
(`CharacterItem.quantity`), `equipped`, `gold`, `life` (number of remorts),
`lease`, `place` (`lastSeenLocationId`), `held` (stacks named by chest runs,
sales and use orders), `row`/`status`/`due` (an `ItemTransfer` row, its status,
whether its `expiresAt` has passed). Two variables are history and guard
nothing: `journal` counts the moves of a row's goods, `supply` the units that
rewards made and sinks took.

| code | action |
|---|---|
| `createGiftForTelegramUser`, with its sweep | `CreateGift`, `CreateGiftStale` |
| `acceptGiftForTelegramUser` | `AcceptGift`, `LateGiftAnswer` |
| `declineGift`/`cancelGift`, `respondByStatus` | `RefuseGift`, `LateGiftAnswer` |
| `createPostalDraft`, `updatePostalDraft` | `DraftParcel`, `EditParcel` |
| `confirmPostalDraft`, with its sweep | `ConfirmParcel`, `ConfirmParcelFails` |
| `acceptPostal`, `declinePostal`, `cancelPostal` | `AcceptParcel`, `DeclineParcel`, `CancelParcel`, `LateParcelAnswer` |
| chest, sale, use order | `Hold`, `Release`, `SpendHeld` |
| craft, notch exchange, rollback of a daily action | `SpendUnreserved` |
| `attemptForTelegramUser` of item upgrades | `UpgradeAttempt` |
| rewards | `Gain` |
| equipment | `Equip`, `Unequip` |
| battles, walking | `EnterCombat`, `LeaveCombat`, `Travel` |
| `completeDraftForTelegramUser` of remort | `Remort` |
| `restartByTelegramUserId`, then a new character | `Restart`, `CreateCharacter` |
| the clock | `PassDeadline` |

The status `processing` is written and replaced inside one transaction, so it
is never seen and not modelled. An item is worn in one slot at most. A restart
is also refused while the character is in a party or a group combat; the model
allows it then, which only adds behaviours. Fingerprints and names of items are
left out: content does not change while the process runs.

`Consignment` is the abstract specification: goods are with the sender, in
custody, with the recipient, returned, or destroyed. `ItemTransfers` implements
it through `whereaboutsNow`, which reads the journal.

`MCItemTransfers` instantiates `ItemTransfers` for TLC (`MCItemUpgrades` with
gear of two levels), `ItemTransfersProofs`
holds the proofs of its invariants and `ConsignmentProofs` those of the refinement.
`Units` counts what stacks, rows and purses hold unit by unit, so that a sum is the
cardinality of a set; `UnitsTheorems` proves what such sums do. Operators whose comment begins with *Fault* are plausible
bugs of the operator that follows them; each makes one run fail, which shows
that the run's properties look at the code they are about. They are used by no
specification.

### The counters of the inn

`StackReservations` opens up what `ItemTransfers` knows as `Hold`, `Release` and
`SpendHeld`: the rows of one character at the Mantok Chest, the Mantok sale, the
level barter and the use of consumables. `row`/`status`/`due` are a row of one
of these tables, `stack`, `worn`, `gold`, `level`, `life` columns of the
character, `pledged` the stacks that gift offers hold, `hurt` the missing health
in units of what one bandage heals. `spent` and `supply` are history.

| code | action |
|---|---|
| `expirePendingRunsOlderThan`, which every chest handler calls first | `CallChest` (then a chest action, or `CallEnds`) |
| chest: `startManualSelection`/`createAutoPickPreview`, `updateManualSelectionUnit`, `cancelRun`, `confirmRun` | `StartRun`, `EditRun`, `CancelRun`, `ConfirmRun` |
| sale: `start`, `updateSaleSelection`, `cancelSale`, `confirmSale` | `StartSale`, `EditSale`, `CancelSale`, `ConfirmSale`, `LateSale` |
| `confirmAutoExchangeForTelegramUser` with `pickItemsForLevelBarter` | `Barter` |
| `createPreview`, `restoreToFull` | `Preview`, `PreviewRefused`, `PreviewAgain` |
| `confirm` and `cancel` of a use order | `ConfirmUse`, `ConfirmUseFull`, `ConfirmUseStale`, `LateUse`, `CancelUse` |
| `applyCombatItemTurnById` | `CombatUse` |
| rewards, crafting, gifts and parcels, equipment, walking and fighting, remort | `Gain`, `SpendLoose`, `Pledge`, `Unpledge`, `GiveAway`, `Wear`, `TakeOff`, `Roam`, `Remort` |

Three differences between the counters matter. A run has no deadline of its own:
it reserves until a sweep finds it older than an hour. A sale and an order stop
reserving when they are due, though their rows stay pending. And a run has no
column for the life it was made in, so the remort must not forget it.

A sale remembers the stock it was priced with (`seen`, the fingerprint of the
code), a single use the stock at its preview, a full restore only the number of
units. The plan of a barter is stated by what it must be (no other plan is less
overpaid, then takes less gold, then fewer things) and not by the search of the
code. Left out: names and fingerprints of content, which does not change while
the process runs, quest locks of consumables, experience and level milestones,
and the odds of what the chest gives.

`TransfersRespected` joins the two modules: what the counters reserve and take
satisfies the guards under which `ItemTransfers` allows `Hold` and `SpendHeld`.

`MCStackReservations` gives the two items their prices.

### Fights of one character

`SoloCombat` models `solo_combat_sessions` and the row of
`active_combat_leases` of one character: ordinary fights and fights with the
training doppelganger, from the start over turns and time-outs to the
settlement. Here a call is not one transaction. `fightService` reads a session,
awaits, decides on what it read and writes later, and a finished fight is paid
for in up to four transactions. So the module has workers: the one of `Chat` serves
the buttons, those of `Timer` are time-out jobs, and `job[w]` holds what a worker
knows (`seen`, the session as it read it) and where it stands (`at`). A worker
may be stopped between any two steps (`Crash`); nothing of `job` survives.
`OneHandler` states that long polling hands over one update at a time: only a move
puts the hour of a fight off, so the hour that a handler has read is the hour the
row still has when the handler looks at it.

| code | action |
|---|---|
| lookup of a battle, `createForTelegramUser` | `Approach`, `Start` |
| a button on a session; `listDueTimedOutSessions` | `Open`; `PickDue` |
| the overview of a fight, `getFightOverviewForTelegramUser` | `Glance` |
| a state that was read before, written back by the overview or by the expiry check of a button (`updateById`) | `WriteBack` |
| the second read before a time-out or a move | `LookAgain` |
| `updateActiveByIdAndTurn` of a move, of a missed turn, of an expiry | `Move`, `MissTurn`, `ExpireTurn`; lost races: `LoseTurn` |
| `applySettlementResourcesOnce` | `ReadHealth`, `Heal`, `HealNot` |
| booking of the reward in `daily_actions` | `Pay`, `PayNot` |
| the training cooldown | `TakeRest` |
| `completeSettlement`, release of the lease | `Finish`, `FinishNot` |
| `forfeitSettlement` after a remort | `GiveUp` |
| remort, other battles, regeneration, the clock | `Remort`, `OtherBattle`, `Recover`, `PassTurn`, `PassHour`, `PassRest` |

The engine is a choice of outcomes (the fight goes on, is won, lost or fled).
What the state says of a settlement (`settle`, `version`, `applied`, `rested`,
the reward column, the life) is kept field by field, because the guards of the
four transactions compare exactly these. `paidIn`, `healedIn` and `undone` (the
sessions over which an outdated state was written back) are history.
Buttons are handled one at a time, so `Remort`, a button too, is taken by a
handler that does nothing else. Left out: the adoption of rows that have no
lease, use of items in a turn, rewards other than the booked one, and fights in
passages, which end through the same transactions.

### Gatherings and raids

`PartyRaid` models `PartySession` with its participants, `PartyBossSession` with
the choices of a turn, the leases of the heroes and the scheduler that starts and
plays what the heroes do not. `party`, `raid` and `choice` are these tables,
`late` the raids whose turn has run out, oldest first, `claim` the reward of the
period, `tired` the rest after a lost raid, `held` a one-use item. Two variables
are the control of the process: `hand`, the raid whose round the chat handler
still has to play, and `clock`, the lists of the current scheduler tick.

| code | action |
|---|---|
| `createForTelegramUser`, with its sweep | `Create` |
| `joinByTokenForTelegramUser`, giving up one's own gathering | `Join` |
| `leaveByTokenForTelegramUser`, `cancelByTokenForTelegramUser` | `Leave`, `Cancel` |
| cards, lists and lookups that expire what is due | `Look` |
| `startFromRecruitingPartyForTelegramUser` | `Start` (a button), `StartDue` (the scheduler) |
| `submitActionForTelegramUser`, `submitItemForTelegramUser`, then `resolveIfReady` | `Press`, then `PlayRound` |
| one tick: `listDueRecruitingByOrigin`, starts, `listDueTimedOutSessions`, `resolveDueTimedOutByToken` | `Tick`, `StartDue`, `ListTurns`, `TimeOut` |
| `settleTerminalPartyBoss`, `releasePartyBossLocks` | `Settle`, `Release` within a round |
| `cancelLivePartySessionsForRemort` | `Remort` |
| other battles, solo raids, chest and barter, rewards, the clock, a stopped process | `Battle`, `BattleEnds`, `SoloEnds`, `Spend`, `Gain`, `PassGathering`, `PassTurn`, `PassRest`, `Crash` |

A round that fails because a queued item is gone is rolled back (`Fail`); when
the scheduler played it, the rest of its tick is lost. A gathering or a raid that
is over is recorded and never read again, so all terminal statuses are one
(`Over`, `NoRaid`). One reward period is modelled. Left out: ward signs and
personal protocols, the readiness marks, which nothing waits for, taunts, laments and gear as choices of
their own (a round treats all but items alike), the gates of level, gatherings
for passages and for group combat, tools for developers, the repair of malformed
rows, the raid chat, and the versions of a gathering, which are read and compared
within one transaction.

### Guilds

`Guilds` models the tables of `prismaGuildRepository.ts`. `guild` is a guild's
row (status, leader, nominee, name, crest, whether the charter has run out and
whether the name is due to be given up), `role` its current members, `invite`
the invitations, `optIn` the personal codes, `intent` the pending previews;
`gold`, `life`, `fit` and `cooling` are what founding asks of a character.

| code | action |
|---|---|
| `getHubForTelegramUser` | `Hub` |
| `createIntentForTelegramUser`, `createCustomIntentForTelegramUser` | `Preview` |
| `confirmCreateForTelegramUser` | `Confirm`, `ConfirmTaken` |
| `createInviteOptInForTelegramUser`, `createInviteForTelegramUser` | `OptIn`, `Invite` |
| `respondToInvite` | `Accept`, `Decline`, `CancelInvite` |
| `updateProfileForTelegramUser` and its custom and description forms | `EditProfile` |
| `setMemberRoleForTelegramUser` | `SetRole` |
| `offerLeadershipForTelegramUser`, `acceptLeadershipForTelegramUser` | `OfferLeadership`, `AcceptLeadership` |
| `kickMemberForTelegramUser`, `leaveForTelegramUser` | `Kick`, `Leave` |
| `deleteForTelegramUser` | `Disband` |
| `terminalizeGuildIfDue`, called by a read or by a call that is then refused | `Look` |
| the clock | `PassCharter`, `PassHold`, `PassInvite`, `PassOptIn`, `PassIntent`, `PassCooldown` |
| rewards, levels, remort or restart | `Earn`, `Grow`, `NewLife` |

Nothing in the program runs when a charter ends. The guild goes on looking alive
until a transaction meets it: those that call `maintainGuildState` close a batch
of such guilds, the oldest first, and every transaction closes the guild of its
user, the guild it is about and the holders of the name or crest it wants. The
model leaves open which guilds a batch takes, and lets `Look` close any of them.
`CHARTER_TTL_MS` equals `FOUNDER_COOLDOWN_MS`, so `PassCharter` also ends the
cooldown of the leader.

A management button carries the version of the guild its card showed, and
`claimGuildVersion` compares it. Instead of counting versions, `card[u]` keeps
what the card of user `u` showed, and every step that writes a new version
(`CardsAfter`) drops the cards of that guild. The numbers would be equal exactly
while the card is there.

Rows no transaction can act on again are dropped: an answered invitation, a used
preview, a guild that is over and whose name is due to be released (every reader
of a name releases that very name first, so it matters to nobody when the sweep
does it). The unique indexes of the database are left out; the invariants show
that the code never relies on them. A guild with an uploaded crest has no crest
of the catalogue. Left out: the upload, the rate limit of an inviter, which only
refuses, the party picker and the public directory.

### Games for a stake

`TavernGames` models the tables of `prismaTavernGameRepository.ts`: tavlei and the
two dice games at a shared table, and all three against the Doppelganger. `table`
is a row with its seats: who opened it, the stake, the pot, whether its two clocks
have run out (`joinOver`, `choice`), the state of every seat, the characters whose
`activeStakeKey` it holds (`keyed`) and what it has paid to whom (`back`). `purse`
is gold, `present` what `getGateReason` asks for.

| code | action |
|---|---|
| `createForTelegramUser`, `createDicePokerForTelegramUser`, `createTavleiDoppelgangerForTelegramUser`, with their sweep | `Create` |
| `joinByTokenForTelegramUser` | `Join` |
| `setReadinessForTelegramUser`, `resolveKostiForTelegramUser` | `SetReadiness`, `Start` |
| `submitDecisionForTelegramUser` | `Decide`; against the Doppelganger `FinishSolo` |
| `saveDicePokerParticipantStateForTelegramUser` | `SaveHand` |
| `saveDicePokerStateForTelegramUser`, `completeDicePokerForTelegramUser` | `SaveSolo`, `FinishSolo` |
| `cancelForTelegramUser`, `cancelDicePokerForTelegramUser` | `Cancel`, `CancelSolo` |
| `refundDisabledByToken` | `RefundDisabled` |
| `listOpen`, or a creation that is refused: `expireDueTx` | `List` |
| `getByToken`, or a call that is refused: `expireTokenIfNeededTx` | `Touch` |
| walking, fights and raids; restart of a character | `Come`, `Go`, `Restart` |
| the clock | `PassChoice`, `PassJoin` |

No job of the program settles tables. `expireDueTx` settles overdue ones, but
only when somebody lists the tables or opens one; every other call settles at most
the table it is about. Hence `Winners`: one transaction may end many games. A sweep
takes `SweepLimit` (23) of the rows that are due (`Due`, `Batch`), those with the
oldest `joinExpiresAt` first; tables are numbered in that order. In the run a sweep
takes one, so that tables wait for each other; a sweep of both reaches no state that
two sweeps of one do not, and that the books agree after a sweep of any number is
proved (`TavernGamesProofs`). The clocks pass at every table by itself, so that a row
that is due may come late in the order.

Every save of a scorecard that does not end its table sets the deadline of 93 minutes
anew (`Refreshed`), even if it only marks a die. The time of a scorecard therefore
passes in two parts ("late", then "over"), and a save brings it back to the first.
Quick hands put nothing off.

Who wins is left open, as are dice and tactics. Left out: tables of the older dice
game, which only fail closed, achievements and crests, and how a game comes to be
switched off.

## Runs

| run | question | bounds |
|---|---|---|
| `parcels` | do goods move once, is postage paid once, is a waiting package sealed, is a stack claimed once? | 2 characters, 1 item, 2 parcels: enough for a confirm that sweeps another parcel of the same sender, for crossing parcels and for a remort of either side; packages of up to 2 units; also the refinement of `Consignment` |
| `gifts` | is a stack claimed once, does an offer stay backed, are answers final, does worn gear stay owned, does an accept make units when an upgrade took the offered one? | 1 gift beside holds of the counters, a wearable item of two levels that upgrades raise and burn, 2 places, solo fights, one remort each that keeps at most one item |
| `lost_custody` | is every parcel accounted for? | violated, see below |
| `counters` | do chest run, sale and barter share stacks and purse without a double claim, a double trade or a wrong price? | one row of each kind, 2 items, one of them gear, two units each, batches of 2, one remort |
| `orders` | does a use order consume once, only what heals, only before its deadline? | 2 orders on one stack, missing health worth 2 units, one remort |
| `fights` | is a fight settled once, whole, for the life that fought it, and does its lease go neither too early nor too late, but for rows that are written over? | an ordinary fight of up to 2 turns and a training fight of one, one button handler beside one time-out job, one remort, two values of the resources |
| `reopened_fight` | does a finished fight always keep its lease? | violated, see below; fights of one turn |
| `party` | do gatherings, raids and leases agree, is nobody in a raid unpaid, does every turn end? | 2 heroes, a Barrel gathering and a plain one, raids of up to 2 turns; one hero comes by the item, the other has battles, solo raids and a remort |
| `stuck_round` | does every turn end, whatever happens to queued items? | violated, see below; one gathering, one turn |
| `guilds` | has a living guild its one leader, a user one guild, an obeyed button a true roster, and what does gold buy? | 3 users, one of them a founder of one guild after another, over two lives; 2 guilds of two members, 2 names, one crest, a user invited by both, batches of one |
| `tables` | do keys and seats agree, is every stake paid in and out once, does every table close? | 3 characters with one stake each, one of them leaves and is restarted, 2 tables of any kind, dice for up to 3, sweeps that take one table, so that the second waits for the first |
| `trapped_player` | does a round of quick dice end without its players? | violated, see below; 2 characters, one table |

`MaxStack` bounds the stacks that rewards may add to, `MaxLife` remorts, `MaxKept` is
what a remort may preserve (five in the code, one in `gifts`), in `StackReservations`
`MaxHurt` lost health and `Spot` the places visited, in `SoloCombat` and `PartyRaid`
`MaxTurn` the turns of a battle (`Brief` fights have one), and in `PartyRaid` `Bearer`
and `Restless` the heroes who own the item and who have other battles, and in `Guilds`
`MaxGold` and `MaxLife`, `Founder` the users who reach a founder's level (only they are
reborn) and `Design` what previews ask for, in `TavernGames` `Leaver` the characters
that leave the bar, `Stake` the menu and `InitialGold` the purses; nothing else is cut.
In `guilds` a roster is full with two members, so an invitation made while there was
room may be accepted too late; that three or more members keep the bound of officers,
also when the lead is handed over, is left to the proof (`SingleGuild`). `Session` is
used once per id, so two fights at most are fought in a run of `fights`: the lease
admits one at a time, and the second shows that it is free again. `Party` ids are used
again once a gathering is over. Tokens are used once, so a run ends up with all of them
answered while characters go on restarting, walking or dressing: no run can deadlock,
and deadlock is checked. Two characters suffice because a row has two parties and every
guard looks at the rows of one sender.

### Fairness

`ItemTransfers` and `StackReservations` have no liveness property, since the code
promises none. An overdue offer stops reserving because its `expiresAt` is compared
with the clock, without any step of the program; no job expires parcels or chest
runs, so a parcel waits until its recipient answers, its sender cancels it or the
sender confirms another, and all three are up to the players.

`FairSpec` of `PartyRaid` assumes that a turn's time passes and that the
scheduler goes on: its interval fires for as long as the process lives and is set
up anew after a restart. The process may stop between any two of its steps, which
throws the lists of a tick away, so fairness is strong: a process that is stopped
before *every* start, listing or round is excluded, one that is stopped again and
again is not. Nothing is assumed of heroes or of the chat handler. `TurnEnds`
says that every raid's turn goes on (`TurnsGoOn`: the raid is over, or its turn
changes, again and again), unless queued items go missing again and again
(`ItemGone`).

`FairSpec` of `TavernGames` assumes that time passes at every table and that somebody
looks at the list of tables again and again: nothing else settles a table whose
players have gone. No player is assumed to play, ready up or come back, nor to stop:
a player who goes on with a scorecard for ever puts its end off for ever, as
`docs/tasks/0.2.27-dice-poker-rework.md:92` has it. So `TableCloses` excepts tables
at which scorecards are saved again and again (`Scores`). It excepts two more: quick
tables that trap their last player (`Trapped`, which `trapped_player` shows to
contradict the same line), and tables behind as many of those as a sweep takes
(`Blocked`), since a row that is taken and not settled is taken again next time.

`SoloCombat` has no liveness property: what a finished fight still needs is done
by the next button of the player or not at all.

### Divergences between the code and its documentation

`lost_custody`: `restartByTelegramUserId` deletes the character row; rows of
`item_transfers` that name it as sender or receiver are deleted by cascade. A
parcel waiting for that character disappears together with the sender's goods,
while `docs/tasks/0.2.13-postal-mantok-delivery.md:18` promises that decline,
cancel and expiry return custody to the sender. A remort of the receiver, in
contrast, returns custody first.

Upgrades have no failing run of their own; they are among the steps of `gifts`. An
attempt asks neither for reservations nor whether the donor is worn, and the list of
donors it is offered from is not filtered either (`itemUpgradeService.ts:527`). It may
raise or burn the one unit that a pending gift offer or another row reserves
(`prismaItemUpgradeRepository.ts:342`, `:325`), and it may burn a worn hat, whose
equipment row stays. `docs/architecture/technical-plan.md:157` says that upgrade
flows protect the whole equipped item and respect reservations in their mutation
transaction, and `:301` that future sinks must use the same contract. The accept of
such a gift re-reads the stack and is refused, so no unit is made up:
`UnitsConserved` in `gifts` fails if the accept trusts the offer (`Eligible_Empty`).
Crafting, the notch exchange and the rollback of a daily action do not ask either. The
items such sinks may take are the constants `Loose` and `Donors`; `WornIsOwned` and
`OfferBacked` speak of all other items, because of these they do not hold.
`WornIsOwned` still sees that the equipment row of a raised hat follows it, and only then.

`reopened_fight`: the overview of the fight, which nearly every button asks for, the
check for a battle under way included, writes a finished fight that is still pending
back with `updateById` (`src/services/fightService.ts:1502`), which compares neither
status nor turn nor settlement. So do the handlers that find the hour of a fight
passed (`:1473`, `:2069`, `:2696`, `:3090`, and `trainingDoppelgangerService.ts:738`
and `:1161`). If the time-out job settled the fight between the read and that write,
the session is pending again and its lease is gone, while
`docs/tasks/0.1.23-encounter-preview-memory.md:66` says that pending terminal sessions
keep the lease until settlement completes or remort forfeits them. The reward is not
paid twice: its booking is keyed by the session. All other writes compare what they
read; everything in that sentence holds of the sessions over which no outdated state
was written (`PendingKeepsLease`, `SettlementAdvances`, both of `Started \ undone`).

`stuck_round`: a queued one-use item reserves nothing. When the chest or the
barter takes the stack before the round, `consumePartyBossCombatItem` throws
(`prismaPartyBossRepository.ts:2754`), the round of the whole raid is rolled back,
and the loop at `partyBossRecruitingStartScheduler.ts:73` has no catch, so the
tick ends and the next one meets the same raid first. The choice stays queued and
the turn is played only if its hero chooses anew or gets the item back.
`docs/tasks/0.2.17-big-barrel-brother-raid-mvp.md:21` says that timeout resolution
fills missing actions with a deterministic defend, and
`docs/tasks/0.4.3-consumable-manatka-uses.md:55` that every queued item is
rechecked before the round.

`trapped_player`: when a player who did
not open a started table of quick dice is restarted, its seat goes and one player may
be left. The round then runs out, but `maybeCompleteDicePokerTableTx` ends no round of fewer
than two hands (`prismaTavernGameRepository.ts:1567`), so neither the sweep nor the
player settles the table and the player's stake key stays taken, while
`docs/tasks/0.2.27-dice-poker-rework.md:92` says that unresolved quick hands finish by
themselves instead of trapping other players. The row stays due, too, and keeps its
place at the head of every later sweep.

Two smaller ones at the tables have no run: the restart of the character who
opened a table deletes it with the stakes of all (by cascade), which
`StakesAccounted` states as `deleted` rows that give nothing back; and an open table
of tavlei has two clocks, five minutes to decide and thirteen to join, so the list
refunds it when the first runs out.

## Proofs

No proof needs an induction over a sum: `Units` makes a sum the number of elements
of a finite set, and `UnitsTheorems` derives from the library's facts about finite
sets that sums change by what one of their terms changes by (`AmountChange`), that
they add up term by term (`AmountPlus`), and that a set cut into parts has as many
elements as its parts together (`AmountOfParts`).

### Gifts and parcels

`ItemTransfersProofs` proves `Spec => []IndInv` for every value of the constants
that meets the assumptions of `ItemTransfers` (finite sets of characters, items
and tokens; gift and parcel tokens disjoint; natural bounds). `IndInv` is the
conjunction of

* `TypeOK`: also that a token has a row exactly while its status says so, and
  that what is worn is gear;
* `GoodsMoveOnce`: the status of a row determines how often its goods moved;
* `LiveRowsOfThisLife`: needed by a remort, which closes only the rows that
  name the character;
* `GiftsAreSingle`: an accepted gift takes one unit, so a stack stays natural;
* `WornIsOwned`: no unit leaves a stack that is worn, except by a sink that asks
  nobody; with `Loose` and `Donors` empty every worn item is owned;
* `OneClaimPerStack`: every reserving step asks for the other reservations.

There is one lemma per action. `FrameInv` serves the steps of other features
that leave the rows alone, `ReturnInv` every step that closes parcels and sends
custody home. The corollaries state type correctness, exactly-once movement, no
orphan rows and exclusivity of claims for the specification.

`Conservation` (`UnitsConserved`) needs no stronger invariant than itself beside
`IndInv`. `Balances` says what a step has to show for every item: what leaves
custody arrives in the stacks, and what else the stacks gain the supply gains.
`HeldAfterReturn` shows it of any set of rows that close together, whoever sent
them, `ClosingBalances` then serves five actions; a confirm is such a closing
followed by a posting, a remort one followed by the loss of the character's own
stacks, of which nothing is in custody.

`ConsignmentProofs` proves more from the same invariant. A step treats the rows in
one of five ways: it leaves all goods where they are (`QuietStays`), or it closes
rows and sends their custody home, posts one parcel, delivers one row, or deletes
rows with what is in them. `EveryStep` shows it action by action; each of the
five is a step of `Consignment` or a stutter (`RowStepIs`), which gives
`Refinement`, and none of them touches an answered row, which gives
`FinalAnswers`. `Sealed` follows from which actions write a row at all
(`RowsWritten`). `OfferBacked` (`Backed`) is inductive together with `IndInv`: units
leave only stacks that no other live offer names (`TakesBacked`), since an accept,
a confirm and the sale of a held stack ask for the reservations, an attempt and a
craft take unguarded items only, and a remort or a restart closes the offers of the
character before it takes the stacks. `Postage` compares the purses and the moves of
a step: only `ConfirmParcel` sends a parcel, and it charges its fee; the other steps
that touch gold end a life, begin one, or eat Iskrokamin (`AttemptEatsUnits`).

### Fights

`SoloCombatProofs` proves `Spec => []IndInv` for any number of fights, time-out jobs,
turns and lives, beside the one handler of buttons. `IndInv` adds two parts to the type invariant and
the four safety properties:

* `RowsOK`: a fight that goes on has no trace of a settlement, and what a row says
  (`applied`, `reward`) happened. It is needed where a completion trusts the row.
* `JobsOK`: what a worker knows is out of date only in ways that do no harm. The
  life it read is the life of the row, a turn is decided on a fresh state, a
  settlement only ever on a fight that is over, and a reward about to be noted is
  booked. This carries a proof over the steps of all other workers (`JobsStay`):
  rows never change their life and never become active again.

`SaveStep` serves every action that writes one row, `JobStep` every action that
only goes on, so the proof of an action says what is special about it. The
unguarded write of `reopened_fight` is among them (`WriteBackInv`): what it undoes is
recorded in `undone`, and `JobsOK` also says that a state to be written back claims
no resources that were not written.
`Advance` proves the action property `SettlementAdvances` from the same
invariant, through `Advances`, a relation between a row and its successor.

### The counters of the inn

`StackReservationsProofs` proves `Spec => []IndInv` for any number of items, rows,
units and prices. `IndInv` is `RowsOK` (a pending row has its columns),
`LiveRowsOfThisLife`, `OneClaimPerStack` and `OneOrder`, which is stronger than the
unique key of use orders: it also speaks of orders that have run out.

The proof turns on what a step may do with a row. `Lawful` says that every row is
kept, closed, claimed (for units nobody else has a claim on) or answered with its
units. One lemma per action shows that the action is lawful; that lawful steps
preserve `IndInv` and never touch an answered row is then proved once
(`LawfulInv`, `LawfulSteps`). So `AnswersAreFinal`, `OverdueTakesNothing` and
`TransfersRespected`, which speak of steps, need no induction of their own.

A second inductive invariant, `Books`, says what the columns hold and that units and
gold add up: `Fitting` ties the lines of a row to its kind and status, `Ledger` the
units a row has spent to whether it is done, `Holdings` gives the types, and
`UnitsBalance` and `GoldAccounted` are the sums. A step closes rows (`ClosingBooks`),
writes one (`WritingBooks`), changes a stack beside the counters (`StackBooks`), or
pays one row (`PayingBooks`), and only the last kind moves units into the books.
`Typing` and `Accounts` state `TypeOK` and `BooksBalance`; `NoWaste`, about steps,
follows from `Books` before the step.

### Gatherings and raids

`PartyRaidProofs` proves `Spec => []IndInv` for any number of heroes, gatherings,
turns and lives; it assumes that the lease of another battle (`"battle"`) is none
of the gatherings. `IndInv` adds to the type invariant:

* `Folk`: every gathering is `Sound` (one row per hero, a key for each of them
  exactly while it lives, a leader among them), and two gatherings share no key.
  That rows are distinct is needed where a hero leaves: one row is taken out, and
  the key with it.
* `Crews`: raids are the gatherings under way, and a lease names one exactly for
  its heroes. That no hero has two leases needs no more, a lease being a column.
* `Worth`: what `NobodyFightsForNothing` says, of rows instead of heroes.
* `Once`: a raid is listed late once, so that taking it off the list frees it.

The steps fall into three kinds. Before a battle, gatherings come, go and change
but leave those under way alone (`SameBattles`), which keeps raids, leases and
worth as they are (`Aside`, `Elsewhere`); most of them only lose heroes
(`Shrink`). A start and a last round change gathering, raid and leases together:
`Agree` says what such a step has to show, and one lemma serves the button and
the scheduler. The rest touch one column. A remort is the step that meets all
parts: it needs `Crews` to know that the hero, who has no raid's lease, is in no
raid, so the new life is nobody's row there.

### Guilds

`GuildsProofs` proves all five properties of the run `guilds` for any number of
users, guilds, names, crests, officers and members, among them the bounds of
rosters too long for TLC. Because a transaction may close any guilds before it
does its own work, the tables between the two are no state of the model. The
invariant `Good` is therefore an operator of five tables: `Sweep` proves it of
the tables after any closing, `Put` and `NewVersion` of tables in which one
guild's row and roster have changed and its cards are dropped. Each action's
lemma names the tables it starts from and the change it makes.

`FeeForGuild` is the action property: no step but `Confirm` lowers gold within a
life or founds a guild (`OthersQuiet`), and `Confirm` founds what it charges for
(`ConfirmFounds`).

### Games for a stake

`TavernGamesProofs` proves `Spec => []IndInv` for any number of characters, tables
and stakes. `Good` is an operator of tables, purses and the living, because a
transaction settles tables before it does its own work. It asks of every row that it
is `Sound` (keys are the live seats, a live seat is at a table that is not settled,
what the table holds and has given adds up), that nobody has two keys, and that every
purse is `Balanced`. `Onward` says what a row may become without anybody sitting
down; the settlements are all `Onward` and `Sound` (`SweptSound`), and `CommitGood`
shows that the purses follow: a character has a live seat at one table at most, so
only that table pays it, however many tables a sweep ends. `SitDown` is the one step
that takes gold, and shared by creations, after their sweep, and joins.

### What is only model-checked

Every invariant and every action property of a passing run is proved. What remains
with TLC is liveness (`TurnEnds`, `TableCloses`), which is out of the prover's reach,
and the four counterexamples, which need no proof.

## Plan

What is left, in the order of its worth:

1. Duels and group combat: both have the shape of `PartyRaid` (a turn that is
   played once, a time-out beside an answer, leases of several heroes), with cards
   that arrive out of order.
2. Outboxes: raid chat, referrals, hit point notifications. Claim, delivery and
   acknowledgement are three steps, and the process may stop between them.
3. The life of the process: start, readiness, drain.

## Not modelled

* Most lines of the repository are catalogues (monsters, loot, texts) and the
  arithmetic of combat. A catalogue is data and says nothing of order or failure;
  of the arithmetic, the models keep what a round can lead to and leave the
  numbers open. The share of the code that the map covers is small for that
  reason; the repositories the models are about are covered transaction by
  transaction.
* Presenters, keyboards and callback parsing have no state.
* A chest run that nobody looks at reserves its stacks past its hour, until a
  chest handler or the next start sweeps it. No property says otherwise, because
  the code promises none.
* Daily actions, achievements, class activities and analytics write one row under
  a unique key each, and meet nobody.
* The parts listed in the plan are not modelled yet; nothing in the code stands in
  the way.
