------------------------------ MODULE TavernGames ------------------------------
(***************************************************************************)
(* Games for a stake at the Shynok: tavlei and dice at a shared table, and  *)
(* the same games against the Doppelganger (prismaTavernGameRepository.ts, *)
(* tavernGameService.ts).  An action is a committed transaction.  No timer *)
(* settles a table: the transactions that list or open tables settle all   *)
(* that are overdue, every other call only the table it is about, before   *)
(* it does its own work.                                                   *)
(* Dice, tactics and scores are left out: who wins is left open.           *)
(* A Character is one life; the purse holds the gold that the games see.   *)
(* A Table is the place of its row in the order of joinExpiresAt, in which *)
(* the sweep takes the rows; it need not be the order of their creation.   *)
(***************************************************************************)
EXTENDS Integers, FiniteSets, Units

CONSTANTS
  Character, Table,
  NoOne,
  DiceCap,      \* DICE_POKER_QUICK_PLAYER_CAP, DICE_POKER_SCORECARD_PLAYER_CAP
  SweepLimit,   \* limit of expireDue, 23
  Stake,        \* the stakes the menu offers
  Leaver,       \* bound: the characters that leave the bar or are restarted
  InitialGold   \* bound: what a character has before its first game

ASSUME TavernAssumption ==
  /\ IsFiniteSet(Character) /\ NoOne \notin Character
  /\ IsFiniteSet(Table) /\ Table \subseteq Nat
  /\ DiceCap \in Nat \ {0, 1} /\ SweepLimit \in Nat \ {0}
  /\ Stake \subseteq Nat \ {0} /\ InitialGold \in Nat
  /\ Leaver \subseteq Character

VARIABLES
  table,    \* a table's row and the rows of its seats
  purse,
  alive,    \* the characters that have not been restarted
  present   \* those that stand at the bar, without a combat lease or a raid

vars == <<table, purse, alive, present>>

Solo == {"tavleiSolo", "quickSolo", "scorecardSolo"}
SharedDice == {"quick", "scorecard"}
Kinds == {"tavlei"} \cup SharedDice \cup Solo
Scorecards == {"scorecard", "scorecardSolo"}

Nobody == [c \in Character |-> "none"]
NoGold == [c \in Character |-> 0]
NoTable == [kind |-> "tavlei", by |-> NoOne, stake |-> 0, status |-> "none", pot |-> 0,
            joinOver |-> FALSE, choice |-> "unset",
            seat |-> Nobody, keyed |-> {}, back |-> NoGold]

Unsettled(r) == r.status \in {"open", "ready"}
Live(r) == {c \in Character : r.seat[c] \in {"joined", "eager", "decided"}}
Staked(r) == {c \in Character : r.seat[c] # "none"}

\* activeStakeKey is unique over all tables.
Free(c, tables) == \A t \in Table : c \notin tables[t].keyed

Init ==
  /\ table = [t \in Table |-> NoTable]
  /\ purse = [c \in Character |-> InitialGold]
  /\ alive = Character
  /\ present = Character

(***************************************************************************)
(* Settling a table                                                        *)
(***************************************************************************)
Refund(r) == [c \in Character |-> IF c \in Live(r) THEN r.stake ELSE 0]
\* A draw gives everybody the stake back.
Prize(r, w) ==
  IF w \in Live(r) THEN [c \in Character |-> IF c = w THEN r.pot ELSE 0] ELSE Refund(r)

\* Fault: a settled seat keeps its stake key.
Settled_Keyed(r, pay) ==
  [r EXCEPT !.status = "closed", !.joinOver = FALSE, !.choice = "unset",
            !.seat = [c \in Character |-> IF c \in Live(r) THEN "settled" ELSE r.seat[c]],
            !.back = [c \in Character |-> r.back[c] + pay[c]]]
\* The seats that are still live are paid and give up their stake key.  The clocks
\* of the row are not read any more.
Settled(r, pay) ==
  [r EXCEPT !.status = "closed", !.joinOver = FALSE, !.choice = "unset",
            !.seat = [c \in Character |-> IF c \in Live(r) THEN "settled" ELSE r.seat[c]],
            !.keyed = r.keyed \ Live(r),
            !.back = [c \in Character |-> r.back[c] + pay[c]]]

\* startDicePokerTableTx: the readiness of the seats has done its work.
Started(r) ==
  [r EXCEPT !.status = "ready", !.joinOver = FALSE, !.choice = "running",
            !.seat = [c \in Character |-> IF c \in Live(r) THEN "joined" ELSE r.seat[c]]]

AllDecided(r) == \A c \in Live(r) : r.seat[c] = "decided"

\* isDueQuickDicePokerStart, isDueQuickDicePokerRound.
StartDue(r) ==
  r.kind = "quick" /\ r.status = "open" /\ r.choice = "over" /\ Cardinality(Live(r)) >= 2
RoundDue(r) == r.kind = "quick" /\ r.status = "ready" /\ r.choice = "over"

\* maybeCompleteDicePokerTableTx: a hand that is alone at the table never wins.
DiceRound(r, w) ==
  IF Cardinality(Live(r)) >= 2 /\ AllDecided(r) THEN Settled(r, Prize(r, w)) ELSE r

\* completeDueQuickDicePokerRoundTx: the open hands are taken as they lie.
HandsTaken(r) ==
  [r EXCEPT !.seat = [c \in Character |-> IF c \in Live(r) THEN "decided" ELSE r.seat[c]]]

\* resolveSessionTx, for tavlei: anything but two players that staked the pot
\* is refunded.
TavleiResult(r, w) ==
  IF Cardinality(Live(r)) = 2 /\ r.pot = 2 * r.stake
  THEN Settled(r, Prize(r, w)) ELSE Settled(r, Refund(r))

\* What a transaction makes of an overdue table that it meets.
Swept(r, w) ==
  IF StartDue(r) THEN Started(r)
  ELSE IF RoundDue(r) THEN DiceRound(HandsTaken(r), w)
  ELSE IF r.kind # "tavlei" \/ (r.status = "open" /\ Cardinality(Live(r)) < 2)
       THEN Settled(r, Refund(r))
  ELSE TavleiResult(r, w)

\* Fault: the list asks the started tables for nothing.
ListDue_Open(r) == r.status = "open" /\ (r.joinOver \/ r.choice = "over")
\* The rows that expireDueTx asks for.
ListDue(r) ==
  \/ r.status = "open" /\ (r.joinOver \/ r.choice = "over")
  \/ r.status = "ready" /\ r.choice = "over"
\* The rows that expireTokenIfNeededTx settles.
TokenDue(r) ==
  \/ StartDue(r)
  \/ r.status = "open" /\ r.joinOver
  \/ r.status = "ready" /\ r.choice = "over"

\* Those it takes, the first that their places allow: a row that is taken and stays
\* overdue is in the way of the others.
Due == {t \in Table : ListDue(table[t])}
Batch == {t \in Due : Cardinality({u \in Due : u < t}) < SweepLimit}

\* A winner for every table that is taken, or a draw.
Winners == [Batch -> Character \cup {NoOne}]
AfterSweep(w) ==
  [t \in Table |-> IF t \in Batch THEN Swept(table[t], w[t]) ELSE table[t]]

\* What the new rows have given to c, who has a live seat at one table at most.
Gain(c, next) ==
  IF \E t \in Table : c \in Live(table[t])
  THEN LET t == CHOOSE t \in Table : c \in Live(table[t]) IN
       next[t].back[c] - table[t].back[c]
  ELSE 0
Credited(next) == [c \in Character |-> purse[c] + Gain(c, next)]

Commit(next) ==
  /\ table' = next
  /\ purse' = Credited(next)
  /\ UNCHANGED <<alive, present>>
Put(t, r) == Commit([table EXCEPT ![t] = r])

\* listOpen, and a creation that is refused.
List ==
  /\ Due # {}
  /\ \E w \in Winners : Commit(AfterSweep(w))

\* getByToken, and any call that is refused after it settled its table.
Touch(t) ==
  /\ TokenDue(table[t])
  /\ \E w \in Live(table[t]) \cup {NoOne} : Put(t, Swept(table[t], w))

(***************************************************************************)
(* Sitting down                                                            *)
(***************************************************************************)
NewTable(c, k, s) ==
  [kind |-> k, by |-> c, stake |-> s, pot |-> s,
   status |-> IF k \in Solo THEN "ready" ELSE "open",
   joinOver |-> FALSE,
   choice |-> IF k \in SharedDice THEN "unset" ELSE "running",
   seat |-> [Nobody EXCEPT ![c] = "joined"],
   keyed |-> {c}, back |-> NoGold]

\* Fault: the purse is not looked at.
Affords_Always(gold, s) == TRUE
Affords(gold, s) == gold >= s

\* createForTelegramUser, createDicePokerForTelegramUser,
\* createTavleiDoppelgangerForTelegramUser: overdue tables are settled first, so
\* a creator may play with a stake that only now comes back.  The token is new.
Create(c, k, s) ==
  /\ c \in alive \cap present
  /\ \E w \in Winners, t \in {t \in Table : table[t].status = "none"} :
       LET next == AfterSweep(w) IN
       /\ Free(c, next) /\ Affords(Credited(next)[c], s)
       /\ table' = [next EXCEPT ![t] = NewTable(c, k, s)]
       /\ purse' = [Credited(next) EXCEPT ![c] = @ - s]
  /\ UNCHANGED <<alive, present>>

Cap(r) == IF r.kind \in SharedDice THEN DiceCap ELSE 2

\* Fault: the pot does not grow.
Seated_NoPot(r, c) == [r EXCEPT !.seat[c] = "joined", !.keyed = @ \cup {c}]
Seated(r, c) == [r EXCEPT !.seat[c] = "joined", !.keyed = r.keyed \cup {c}, !.pot = r.pot + r.stake]

\* The second player opens a round of tavlei or sets the clock of quick dice; the
\* last that quick dice has room for starts them.
Joined(r) ==
  LET n == Cardinality(Live(r)) IN
  IF r.kind = "quick" /\ n >= DiceCap THEN Started(r)
  ELSE IF r.kind = "quick" /\ n >= 2 THEN [r EXCEPT !.choice = "running"]
  ELSE IF r.kind = "tavlei" /\ n = 2
       THEN [r EXCEPT !.status = "ready", !.joinOver = FALSE, !.choice = "running"]
  ELSE r

\* joinByTokenForTelegramUser.
Join(c, t) ==
  LET r == table[t] IN
  /\ r.status = "open" /\ ~TokenDue(r)
  /\ c \in alive \cap present /\ Free(c, table)
  /\ Cardinality(Live(r)) < Cap(r)
  /\ Affords(purse[c], r.stake)
  /\ table' = [table EXCEPT ![t] = Joined(Seated(r, c))]
  /\ purse' = [purse EXCEPT ![c] = @ - r.stake]
  /\ UNCHANGED <<alive, present>>

(***************************************************************************)
(* Before the first hand                                                   *)
(***************************************************************************)
Waiting(r) == r.kind \in SharedDice /\ r.status = "open" /\ ~TokenDue(r)

\* resolveKostiForTelegramUser; the stand of the creator is not asked for.
Start(c, t) ==
  /\ Waiting(table[t]) /\ c \in alive /\ table[t].by = c
  /\ Cardinality(Live(table[t])) >= 2
  /\ Put(t, Started(table[t]))

\* setReadinessForTelegramUser.
SetReadiness(c, t, readiness) ==
  LET r == [table[t] EXCEPT !.seat[c] = readiness] IN
  /\ Waiting(table[t]) /\ c \in Live(table[t]) /\ table[t].seat[c] # readiness
  /\ Put(t, IF Cardinality(Live(r)) >= 2 /\ \A d \in Live(r) : r.seat[d] = "eager"
            THEN Started(r) ELSE r)

\* cancelForTelegramUser.
Cancel(c, t) ==
  LET r == table[t] IN
  /\ r.status = "open" /\ ~TokenDue(r)
  /\ c \in alive /\ r.by = c /\ Cardinality(Live(r)) = 1
  /\ Put(t, Settled(r, Refund(r)))

\* refundDisabledByToken, when the game is switched off: any press on its card.
RefundDisabled(t) == Unsettled(table[t]) /\ Put(t, Settled(table[t], Refund(table[t])))

(***************************************************************************)
(* Playing                                                                 *)
(***************************************************************************)
MayPlay(c, r) == r.status = "ready" /\ ~TokenDue(r) /\ c \in Live(r) \cap present

\* submitDecisionForTelegramUser, at a shared board.
Decide(c, t) ==
  LET r == [table[t] EXCEPT !.seat[c] = "decided"] IN
  /\ table[t].kind = "tavlei" /\ MayPlay(c, table[t]) /\ table[t].seat[c] = "joined"
  /\ \E w \in Live(r) \cup {NoOne} :
       Put(t, IF Cardinality(Live(r)) = 2 /\ AllDecided(r) THEN TavleiResult(r, w) ELSE r)

\* The round of this table is over, but its only player cannot be paid.
Trapped(r) == RoundDue(r) /\ Cardinality(Live(r)) < 2

\* getDicePokerRefreshExpiresAt: every save of a scorecard that does not end its
\* table sets the whole 93 minutes again, also when only a die was marked.
Refreshed(r) ==
  IF r.status = "ready" /\ r.kind \in Scorecards THEN [r EXCEPT !.choice = "running"] ELSE r

\* saveDicePokerParticipantStateForTelegramUser.  The hand was read before the
\* transaction and is written over whatever is there: a player who has decided may
\* hold an open hand again.
SaveHand(c, t, hand) ==
  LET r == [table[t] EXCEPT !.seat[c] = hand] IN
  /\ table[t].kind \in SharedDice /\ c \in Live(table[t])
  /\ MayPlay(c, table[t]) \/ (Trapped(table[t]) /\ c \in present)
  /\ \E w \in Live(r) \cup {NoOne} : Put(t, Refreshed(DiceRound(r, w)))

\* saveDicePokerStateForTelegramUser; a quick hand leaves its row as it is.
SaveSolo(c, t) ==
  LET r == table[t] IN
  /\ r.kind = "scorecardSolo" /\ MayPlay(c, r)
  /\ Put(t, Refreshed(r))

\* completeDicePokerForTelegramUser and submitDecisionForTelegramUser, against the
\* Doppelganger: a win pays the stake, a draw returns it, and a scorecard is
\* never lost.
FinishSolo(c, t, lost) ==
  LET r == table[t] IN
  /\ r.kind \in Solo /\ MayPlay(c, r)
  /\ lost => r.kind # "scorecardSolo"
  /\ Put(t, Settled(r, IF lost THEN NoGold ELSE Refund(r)))

\* cancelDicePokerForTelegramUser.
CancelSolo(c, t) ==
  LET r == table[t] IN
  /\ r.kind \in Solo \ {"tavleiSolo"} /\ MayPlay(c, r)
  /\ Put(t, Settled(r, Refund(r)))

(***************************************************************************)
(* The characters and the clocks                                           *)
(***************************************************************************)
\* What getGateReason reads: a walk, a fight, a raid.
Come(c) == c \in alive \ present /\ present' = present \cup {c} /\ UNCHANGED <<table, purse, alive>>
Go(c) == c \in present \cap Leaver /\ present' = present \ {c} /\ UNCHANGED <<table, purse, alive>>

\* restartByTelegramUserId: the tables that the character opened are deleted with
\* the seats of all, and its seats at other tables; nobody is paid.
Without(r, c) ==
  IF r.by = c /\ r.status # "none"
  THEN [r EXCEPT !.status = "deleted", !.joinOver = FALSE, !.choice = "unset",
                 !.seat = [d \in Character |-> IF d \in Live(r) THEN "lost" ELSE r.seat[d]],
                 !.keyed = {}]
  ELSE IF c \in Live(r) THEN [r EXCEPT !.seat[c] = "lost", !.keyed = r.keyed \ {c}]
  ELSE r
Restart(c) ==
  /\ c \in alive \cap Leaver
  /\ table' = [t \in Table |-> Without(table[t], c)]
  /\ alive' = alive \ {c} /\ present' = present \ {c}
  /\ UNCHANGED purse

\* decisionExpiresAt, joinExpiresAt.  Tavlei sets both when the table is opened, the
\* first to the earlier time.  The time of a scorecard passes in two parts, so that a
\* save between them puts the end off.
PassChoice(t) ==
  /\ Unsettled(table[t]) /\ table[t].choice \in {"running", "late"}
  /\ \E choice \in {"late", "over"} :
       /\ (choice = "late") = (table[t].kind \in Scorecards /\ table[t].choice = "running")
       /\ table' = [table EXCEPT ![t].choice = choice]
  /\ UNCHANGED <<purse, alive, present>>
PassJoin(t) ==
  /\ table[t].status = "open" /\ ~table[t].joinOver
  /\ table[t].kind = "tavlei" => table[t].choice = "over"
  /\ table' = [table EXCEPT ![t].joinOver = TRUE]
  /\ UNCHANGED <<purse, alive, present>>

Time(t) == PassJoin(t) \/ PassChoice(t)

Next ==
  \/ List
  \/ \E t \in Table : Time(t) \/ Touch(t) \/ RefundDisabled(t)
  \/ \E c \in Character :
       \/ Come(c) \/ Go(c) \/ Restart(c)
       \/ \E k \in Kinds, s \in Stake : Create(c, k, s)
  \/ \E c \in Character, t \in Table :
       \/ \E hand \in {"joined", "decided"} : SaveHand(c, t, hand)
       \/ \E readiness \in {"eager", "joined"} : SetReadiness(c, t, readiness)
       \/ \E lost \in BOOLEAN : FinishSolo(c, t, lost)
       \/ Join(c, t) \/ Start(c, t) \/ Cancel(c, t) \/ Decide(c, t) \/ SaveSolo(c, t)
       \/ CancelSolo(c, t)

Spec == Init /\ [][Next]_vars

\* Time passes at every table, and somebody looks at the list of tables again and
\* again.
FairSpec == Spec /\ WF_vars(List) /\ \A t \in Table : WF_vars(Time(t))

(***************************************************************************)
(* Properties                                                              *)
(***************************************************************************)
Row ==
  [kind : Kinds, by : Character \cup {NoOne}, stake : Nat, pot : Nat,
   status : {"none", "open", "ready", "closed", "deleted"},
   joinOver : BOOLEAN, choice : {"unset", "running", "late", "over"},
   seat : [Character -> {"none", "joined", "eager", "decided", "settled", "lost"}],
   keyed : SUBSET Character, back : [Character -> Nat]]

\* The rows have their types, and no purse is overdrawn.
TypeOK ==
  /\ table \in [Table -> Row]
  /\ purse \in [Character -> Nat]
  /\ alive \subseteq Character /\ present \subseteq alive

\* The stake keys, which the creations and joins ask for, and the seats tell the
\* same: a character whose stake lies on a table has its one live seat there, at a
\* table that is not settled, and nobody is locked out by the key of a game that is
\* over, however a table was settled or deleted.
OneSeat ==
  /\ \A t \in Table :
       /\ table[t].keyed = Live(table[t])
       /\ Live(table[t]) # {} => Unsettled(table[t])
  /\ \A t, u \in Table : t # u => table[t].keyed \cap table[u].keyed = {}

\* A table holds one stake for everyone who sat down, gives nothing before it is
\* settled, and then gives one of three things: each seat its stake, one seat the
\* pot, or, to a loser against the Doppelganger, nothing.  The stake of a player who
\* was restarted stays in the pot.
TableAccounted(r) ==
  /\ r.status # "none" => r.pot = r.stake * Cardinality(Staked(r))
  /\ Unsettled(r) => r.back = NoGold
  /\ r.status = "closed" =>
       \/ r.back = [c \in Character |-> IF r.seat[c] = "settled" THEN r.stake ELSE 0]
       \/ \E w \in Character :
            r.seat[w] = "settled" /\ r.back = [c \in Character |-> IF c = w THEN r.pot ELSE 0]
       \/ r.kind \in Solo \ {"scorecardSolo"} /\ r.back = NoGold

\* A purse has paid every stake of its character once and been given every prize and
\* refund once, whichever calls settled the tables and in whatever order.
StakesOf(c) == [t \in Table |-> IF c \in Staked(table[t]) THEN table[t].stake ELSE 0]
Returns(c) == [t \in Table |-> table[t].back[c]]
PurseAccounted(c) ==
  purse[c] + Amount(StakesOf(c), Table) = InitialGold + Amount(Returns(c), Table)

StakesAccounted ==
  /\ \A t \in Table : TableAccounted(table[t])
  /\ \A c \in alive : PurseAccounted(c)

\* SweepLimit tables that no sweep can settle come first in its order.
Blocked(t) == Cardinality({u \in Table : u < t /\ Trapped(table[u])}) >= SweepLimit

\* A player saves a scorecard at table t.
Scores(t) ==
  /\ table[t].kind \in Scorecards
  /\ \E c \in Character :
       SaveSolo(c, t) \/ \E hand \in {"joined", "decided"} : SaveHand(c, t, hand)

\* Whoever walks away, every table is settled in the end, with whatever else is
\* overdue, unless somebody goes on and on with a scorecard at it.  Excepted are
\* started tables of quick dice with one player left, which QuickRoundEnds is
\* about, and tables that as many of those as a sweep takes keep out of it.
TableCloses ==
  \A t \in Table :
    \/ Unsettled(table[t]) ~> (~Unsettled(table[t]) \/ Trapped(table[t]) \/ Blocked(t))
    \/ []<><<Scores(t)>>_vars

\* A started table of quick dice is settled in the end, since the hands of those who
\* do not play are taken as they lie.
QuickRoundEnds ==
  \A t \in Table :
    (table[t].kind = "quick" /\ table[t].status = "ready") ~> ~Unsettled(table[t])
=============================================================================
