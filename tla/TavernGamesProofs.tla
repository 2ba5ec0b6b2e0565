--------------------------- MODULE TavernGamesProofs ---------------------------
(***************************************************************************)
(* Proofs about TavernGames: type correctness, one seat for each stake key, *)
(* and that gold is paid in once and out once, for any number of characters *)
(* and tables and any stakes.                                               *)
(*                                                                         *)
(* A transaction may settle any number of tables before it does its own     *)
(* work, so the proof is about rows: Sound says what holds of each row at   *)
(* any time, Onward what a row may become without anybody sitting down.     *)
(***************************************************************************)
EXTENDS TavernGames, UnitsTheorems

LEMMA FiniteTables == IsFiniteSet(Table)
  BY TavernAssumption

-----------------------------------------------------------------------------
(* The inductive invariant *)

\* A row agrees with itself: keys and live seats are the same, a table with a live
\* seat is not settled, and at a table that is not settled only those who were
\* restarted have lost a seat.
Sound(r, living) ==
  /\ r \in Row
  /\ r.keyed = Live(r)
  /\ Live(r) # {} => Unsettled(r)
  /\ r.status = "none" => Staked(r) = {} /\ r.back = NoGold
  /\ Unsettled(r) => \A c \in Character :
       r.seat[c] # "settled" /\ (r.seat[c] = "lost" => c \notin living)
  /\ TableAccounted(r)

\* Nobody has two keys.
OneKey(rows) == \A t, u \in Table : t # u => rows[t].keyed \cap rows[u].keyed = {}

\* What c has staked and got back at given tables, and that a purse agrees.
StakesIn(c, rows) == [t \in Table |-> IF c \in Staked(rows[t]) THEN rows[t].stake ELSE 0]
ReturnsIn(c, rows) == [t \in Table |-> rows[t].back[c]]
Balanced(c, rows, gold) ==
  gold[c] + Amount(StakesIn(c, rows), Table) = InitialGold + Amount(ReturnsIn(c, rows), Table)

\* Tables and purses of the characters that live.
Good(rows, gold, living) ==
  /\ rows \in [Table -> Row]
  /\ gold \in [Character -> Nat]
  /\ \A t \in Table : Sound(rows[t], living)
  /\ OneKey(rows)
  /\ \A c \in living : Balanced(c, rows, gold)

IndInv == Good(table, purse, alive) /\ alive \subseteq Character /\ present \subseteq alive

-----------------------------------------------------------------------------
(* What a row may become *)

\* Nobody sits down: the stake and those who put it down stay, only who was at the
\* table is paid, and never less than nothing.
Onward(r, q) ==
  /\ q.stake = r.stake /\ Staked(q) = Staked(r)
  /\ Live(q) \subseteq Live(r)
  /\ \A c \in Character : q.back[c] >= r.back[c]
  /\ \A c \in Character \ Live(r) : q.back[c] = r.back[c]

\* What Settled makes of the columns.
LEMMA SettledColumns ==
  ASSUME NEW r \in Row, NEW pay \in [Character -> Nat]
  PROVE  LET q == Settled(r, pay) IN
         /\ q \in Row
         /\ q.kind = r.kind /\ q.by = r.by /\ q.stake = r.stake /\ q.pot = r.pot
         /\ q.status = "closed"
         /\ \A c \in Character : q.seat[c] = IF c \in Live(r) THEN "settled" ELSE r.seat[c]
         /\ q.keyed = r.keyed \ Live(r)
         /\ \A c \in Character : q.back[c] = r.back[c] + pay[c]
<1> DEFINE seats == [c \in Character |-> IF c \in Live(r) THEN "settled" ELSE r.seat[c]]
           backs == [c \in Character |-> r.back[c] + pay[c]]
           keys == r.keyed \ Live(r)
<1>1. r = [kind |-> r.kind, by |-> r.by, stake |-> r.stake, pot |-> r.pot,
           status |-> r.status, joinOver |-> r.joinOver, choice |-> r.choice,
           seat |-> r.seat, keyed |-> r.keyed, back |-> r.back]
  BY DEF Row
<1>2. seats \in [Character -> {"none", "joined", "eager", "decided", "settled", "lost"}]
  BY DEF Row
<1>3. backs \in [Character -> Nat]
  BY DEF Row
<1>4. keys \in SUBSET Character
  BY DEF Row
<1>5. Settled(r, pay) = [kind |-> r.kind, by |-> r.by, stake |-> r.stake, pot |-> r.pot,
           status |-> "closed", joinOver |-> FALSE, choice |-> "unset",
           seat |-> seats, keyed |-> keys, back |-> backs]
  <2>1. Settled(r, pay) = [r EXCEPT !.status = "closed", !.joinOver = FALSE,
          !.choice = "unset", !.seat = seats, !.keyed = keys, !.back = backs]
    BY DEF Settled
  <2> HIDE DEF seats, keys, backs
  <2>2. QED
    BY <1>1, <2>1
<1> HIDE DEF seats, keys, backs
<1>6. Settled(r, pay) \in Row
  BY <1>2, <1>3, <1>4, <1>5 DEF Row
<1>7. QED
  BY <1>5, <1>6 DEF seats, keys, backs

\* A table that is settled is sound: its keys are free and its gold is given to its
\* seats, to one of them, or, against the Doppelganger, to nobody.
LEMMA SettledSound ==
  ASSUME NEW living, NEW r, Sound(r, living), Unsettled(r), NEW pay \in [Character -> Nat],
         \/ pay = Refund(r)
         \/ \E w \in Live(r) : pay = [c \in Character |-> IF c = w THEN r.pot ELSE 0]
         \/ r.kind \in Solo \ {"scorecardSolo"} /\ pay = NoGold
  PROVE  Sound(Settled(r, pay), living) /\ Onward(r, Settled(r, pay))
<1> DEFINE q == Settled(r, pay)
<1>1. r \in Row
  BY DEF Sound
<1>2. /\ q \in Row
      /\ q.kind = r.kind /\ q.by = r.by /\ q.stake = r.stake /\ q.pot = r.pot
      /\ q.status = "closed"
      /\ \A c \in Character : q.seat[c] = IF c \in Live(r) THEN "settled" ELSE r.seat[c]
      /\ q.keyed = r.keyed \ Live(r)
      /\ \A c \in Character : q.back[c] = r.back[c] + pay[c]
  BY <1>1, SettledColumns
<1> HIDE DEF q
<1>3. \A c \in Character : r.back[c] = 0
  BY DEF Sound, TableAccounted, NoGold
<1>4. \A c \in Character : q.back[c] = pay[c]
  BY <1>2, <1>3
<1>5. Live(q) = {} /\ q.keyed = {}
  BY <1>2 DEF Live, Sound
<1>6. Staked(q) = Staked(r)
  BY <1>2 DEF Staked, Live
<1>7. \A c \in Character : q.seat[c] = "settled" <=> c \in Live(r)
  BY <1>2 DEF Sound
<1>8. q.back = pay
  BY <1>2, <1>4 DEF Row
<1>9. \A c \in Character \ Live(r) : pay[c] = 0
  BY DEF Refund, NoGold
<1>10. Onward(r, q)
  BY <1>2, <1>3, <1>4, <1>5, <1>6, <1>9 DEF Onward
<1>11. TableAccounted(q)
  <2>1. q.pot = q.stake * Cardinality(Staked(q))
    <3>1. r.status # "none"
      BY DEF Unsettled
    <3>2. QED
      BY <1>2, <1>6, <3>1 DEF Sound, TableAccounted
  <2>2. ~Unsettled(q)
    BY <1>2 DEF Unsettled
  <2>3. CASE pay = Refund(r)
    <3>1. pay = [c \in Character |-> IF q.seat[c] = "settled" THEN q.stake ELSE 0]
      BY <1>2, <1>7, <2>3 DEF Refund
    <3>2. QED
      BY <1>8, <2>1, <2>2, <3>1 DEF TableAccounted
  <2>4. CASE \E w \in Live(r) : pay = [c \in Character |-> IF c = w THEN r.pot ELSE 0]
    <3>1. PICK w \in Live(r) : pay = [c \in Character |-> IF c = w THEN r.pot ELSE 0]
      BY <2>4
    <3>2. w \in Character /\ q.seat[w] = "settled"
      BY <1>7 DEF Live
    <3>3. q.back = [c \in Character |-> IF c = w THEN q.pot ELSE 0]
      BY <1>2, <1>8, <3>1
    <3>4. QED
      BY <1>2, <2>1, <2>2, <3>2, <3>3 DEF TableAccounted
  <2>5. CASE r.kind \in Solo \ {"scorecardSolo"} /\ pay = NoGold
    BY <1>2, <1>8, <2>1, <2>2, <2>5 DEF TableAccounted
  <2>6. QED
    BY <2>3, <2>4, <2>5
<1>12. Sound(q, living)
  BY <1>2, <1>5, <1>11 DEF Sound, Unsettled
<1>13. QED
  BY <1>10, <1>12 DEF q

\* The seats and the keys stay, whatever the seats say of readiness and hands.
SameSeats(r, q) ==
  /\ q \in Row
  /\ q.stake = r.stake /\ q.pot = r.pot /\ q.back = r.back /\ q.keyed = r.keyed
  /\ Unsettled(q)
  /\ \A c \in Character :
       q.seat[c] = r.seat[c] \/ {q.seat[c], r.seat[c]} \subseteq {"joined", "eager", "decided"}

LEMMA SameSeatsSound ==
  ASSUME NEW living, NEW r, Sound(r, living), Unsettled(r), NEW q, SameSeats(r, q)
  PROVE  Sound(q, living) /\ Onward(r, q) /\ Live(q) = Live(r)
<1>1. Live(q) = Live(r) /\ Staked(q) = Staked(r)
  BY DEF SameSeats, Live, Staked
<1>2. \A c \in Character : q.back[c] \in Nat
  BY DEF SameSeats, Row
<1>3. Onward(r, q)
  BY <1>1, <1>2 DEF SameSeats, Onward
<1>4. TableAccounted(q)
  BY <1>1 DEF SameSeats, Sound, TableAccounted, Unsettled
<1>5. \A c \in Character : q.seat[c] # "settled" /\ (q.seat[c] = "lost" => c \notin living)
  BY DEF SameSeats, Sound
<1>6. Sound(q, living)
  BY <1>1, <1>4, <1>5 DEF SameSeats, Sound, Unsettled
<1>7. QED
  BY <1>1, <1>3, <1>6

\* A step onward after a step onward.
LEMMA OnwardTwice ==
  ASSUME NEW r \in Row, NEW p \in Row, NEW q \in Row, Onward(r, p), Onward(p, q)
  PROVE  Onward(r, q)
<1>1. \A c \in Character : r.back[c] \in Nat /\ p.back[c] \in Nat /\ q.back[c] \in Nat
  BY DEF Row
<1>2. QED
  BY <1>1 DEF Onward

LEMMA OnwardSelf ==
  ASSUME NEW r \in Row
  PROVE  Onward(r, r)
<1>1. \A c \in Character : r.back[c] \in Nat
  BY DEF Row
<1>2. QED
  BY <1>1 DEF Onward

-----------------------------------------------------------------------------
(* Rounds and sweeps *)

LEMMA StartedSame ==
  ASSUME NEW living, NEW r, Sound(r, living), Unsettled(r)
  PROVE  SameSeats(r, Started(r))
<1> DEFINE seats == [c \in Character |-> IF c \in Live(r) THEN "joined" ELSE r.seat[c]]
<1>1. r = [kind |-> r.kind, by |-> r.by, stake |-> r.stake, pot |-> r.pot,
           status |-> r.status, joinOver |-> r.joinOver, choice |-> r.choice,
           seat |-> r.seat, keyed |-> r.keyed, back |-> r.back]
  BY DEF Sound, Row
<1>2. seats \in [Character -> {"none", "joined", "eager", "decided", "settled", "lost"}]
  BY DEF Sound, Row
<1>3. Started(r) = [r EXCEPT !.status = "ready", !.joinOver = FALSE, !.choice = "running",
                             !.seat = seats]
  BY DEF Started
<1> HIDE DEF seats
<1>4. Started(r) = [kind |-> r.kind, by |-> r.by, stake |-> r.stake, pot |-> r.pot,
           status |-> "ready", joinOver |-> FALSE, choice |-> "running",
           seat |-> seats, keyed |-> r.keyed, back |-> r.back]
  BY <1>1, <1>3
<1>5. Started(r) \in Row
  BY <1>2, <1>4 DEF Row, Sound
<1>6. QED
  BY <1>4, <1>5 DEF SameSeats, Unsettled, Live, seats

LEMMA HandsTakenSame ==
  ASSUME NEW living, NEW r, Sound(r, living), Unsettled(r)
  PROVE  SameSeats(r, HandsTaken(r))
<1> DEFINE seats == [c \in Character |-> IF c \in Live(r) THEN "decided" ELSE r.seat[c]]
<1>1. r = [kind |-> r.kind, by |-> r.by, stake |-> r.stake, pot |-> r.pot,
           status |-> r.status, joinOver |-> r.joinOver, choice |-> r.choice,
           seat |-> r.seat, keyed |-> r.keyed, back |-> r.back]
  BY DEF Sound, Row
<1>2. seats \in [Character -> {"none", "joined", "eager", "decided", "settled", "lost"}]
  BY DEF Sound, Row
<1>3. HandsTaken(r) = [r EXCEPT !.seat = seats]
  BY DEF HandsTaken
<1> HIDE DEF seats
<1>4. HandsTaken(r) = [kind |-> r.kind, by |-> r.by, stake |-> r.stake, pot |-> r.pot,
           status |-> r.status, joinOver |-> r.joinOver, choice |-> r.choice,
           seat |-> seats, keyed |-> r.keyed, back |-> r.back]
  BY <1>1, <1>3
<1>5. HandsTaken(r) \in Row
  BY <1>2, <1>4 DEF Row, Sound
<1>6. QED
  BY <1>4, <1>5 DEF SameSeats, Unsettled, Live, seats

\* Refunds and prizes are amounts of gold.
LEMMA PayTypes ==
  ASSUME NEW r \in Row
  PROVE  /\ Refund(r) \in [Character -> Nat] /\ NoGold \in [Character -> Nat]
         /\ \A w : Prize(r, w) \in [Character -> Nat]
<1>1. r.stake \in Nat /\ r.pot \in Nat
  BY DEF Row
<1>2. QED
  BY <1>1 DEF Refund, NoGold, Prize

LEMMA RefundSound ==
  ASSUME NEW living, NEW r, Sound(r, living), Unsettled(r)
  PROVE  Sound(Settled(r, Refund(r)), living) /\ Onward(r, Settled(r, Refund(r)))
BY PayTypes, SettledSound DEF Sound

LEMMA PrizeSound ==
  ASSUME NEW living, NEW r, Sound(r, living), Unsettled(r), NEW w
  PROVE  Sound(Settled(r, Prize(r, w)), living) /\ Onward(r, Settled(r, Prize(r, w)))
<1>1. Prize(r, w) \in [Character -> Nat]
  BY PayTypes DEF Sound
<1>2. CASE w \in Live(r)
  <2>1. Prize(r, w) = [c \in Character |-> IF c = w THEN r.pot ELSE 0]
    BY <1>2 DEF Prize
  <2>2. QED
    BY <1>1, <1>2, <2>1, SettledSound
<1>3. CASE w \notin Live(r)
  <2>1. Prize(r, w) = Refund(r)
    BY <1>3 DEF Prize
  <2>2. QED
    BY <2>1, RefundSound
<1>4. QED
  BY <1>2, <1>3

LEMMA TavleiSound ==
  ASSUME NEW living, NEW r, Sound(r, living), Unsettled(r), NEW w
  PROVE  Sound(TavleiResult(r, w), living) /\ Onward(r, TavleiResult(r, w))
BY RefundSound, PrizeSound DEF TavleiResult

LEMMA DiceRoundSound ==
  ASSUME NEW living, NEW r, Sound(r, living), Unsettled(r), NEW w
  PROVE  Sound(DiceRound(r, w), living) /\ Onward(r, DiceRound(r, w))
<1>1. Onward(r, r)
  BY OnwardSelf DEF Sound
<1>2. QED
  BY <1>1, PrizeSound DEF DiceRound

\* Whatever a transaction makes of a table that it finds overdue.
LEMMA SweptSound ==
  ASSUME NEW living, NEW r, Sound(r, living), Unsettled(r), NEW w
  PROVE  Sound(Swept(r, w), living) /\ Onward(r, Swept(r, w))
<1>1. CASE StartDue(r)
  <2>1. SameSeats(r, Started(r))
    BY StartedSame
  <2>2. QED
    BY <1>1, <2>1, SameSeatsSound DEF Swept
<1>2. CASE ~StartDue(r) /\ RoundDue(r)
  <2> DEFINE p == HandsTaken(r)
             q == DiceRound(p, w)
  <2>1. SameSeats(r, p)
    BY HandsTakenSame
  <2>2. Sound(p, living) /\ Onward(r, p) /\ Unsettled(p)
    BY <2>1, SameSeatsSound DEF SameSeats
  <2> HIDE DEF p
  <2>3. Sound(q, living) /\ Onward(p, q)
    BY <2>2, DiceRoundSound
  <2> HIDE DEF q
  <2>4. Onward(r, q)
    BY <2>2, <2>3, OnwardTwice DEF Sound
  <2>5. Swept(r, w) = q
    BY <1>2 DEF Swept, p, q
  <2>6. QED
    BY <2>3, <2>4, <2>5
<1>3. CASE ~StartDue(r) /\ ~RoundDue(r)
  BY <1>3, RefundSound, TavleiSound DEF Swept
<1>4. QED
  BY <1>1, <1>2, <1>3

\* The tables after a sweep.
LEMMA SweepSound ==
  ASSUME NEW w, \A t \in Table : Sound(table[t], alive)
  PROVE  \A t \in Table :
           Sound(AfterSweep(w)[t], alive) /\ Onward(table[t], AfterSweep(w)[t])
<1> SUFFICES ASSUME NEW t \in Table
             PROVE  Sound(AfterSweep(w)[t], alive) /\ Onward(table[t], AfterSweep(w)[t])
  OBVIOUS
<1>1. CASE t \in Batch
  <2>1. Unsettled(table[t])
    BY <1>1 DEF Batch, Due, ListDue, Unsettled
  <2>2. AfterSweep(w)[t] = Swept(table[t], w[t])
    BY <1>1 DEF AfterSweep
  <2>3. QED
    BY <2>1, <2>2, SweptSound
<1>2. CASE t \notin Batch
  <2>1. AfterSweep(w)[t] = table[t]
    BY <1>2 DEF AfterSweep
  <2>2. QED
    BY <2>1, OnwardSelf DEF Sound
<1>3. QED
  BY <1>1, <1>2

-----------------------------------------------------------------------------
(* The purses *)

\* What a purse is compared with can be added up.
LEMMA Countable ==
  ASSUME NEW rows \in [Table -> Row], NEW c \in Character
  PROVE  /\ \A t \in Table : StakesIn(c, rows)[t] \in Nat /\ ReturnsIn(c, rows)[t] \in Nat
         /\ Amount(StakesIn(c, rows), Table) \in Nat
         /\ Amount(ReturnsIn(c, rows), Table) \in Nat
<1>1. \A t \in Table : rows[t] \in Row
  OBVIOUS
<1>2. \A t \in Table : StakesIn(c, rows)[t] \in Nat /\ ReturnsIn(c, rows)[t] \in Nat
  BY <1>1 DEF StakesIn, ReturnsIn, Row
<1>3. IsFiniteSet(Table)
  BY TavernAssumption
<1>4. QED
  BY <1>2, <1>3, AmountIsNat

\* A character has a live seat at one table at most.
LEMMA OneLiveSeat ==
  ASSUME NEW rows, NEW living, \A t \in Table : Sound(rows[t], living), OneKey(rows),
         NEW c, NEW t \in Table, c \in Live(rows[t]), NEW u \in Table, u # t
  PROVE  c \notin Live(rows[u])
<1>1. rows[t].keyed = Live(rows[t]) /\ rows[u].keyed = Live(rows[u])
  BY DEF Sound
<1>2. QED
  BY <1>1 DEF OneKey

\* Settling tables pays each purse what its one live seat was given.
LEMMA GainBalanced ==
  ASSUME Good(table, purse, alive), alive \subseteq Character,
         NEW next \in [Table -> Row], \A t \in Table : Onward(table[t], next[t]),
         NEW c \in Character
  PROVE  /\ Gain(c, next) \in Nat
         /\ Balanced(c, table, purse) => Balanced(c, next, Credited(next))
<1> DEFINE before == ReturnsIn(c, table)
           after == ReturnsIn(c, next)
<1>1. table \in [Table -> Row] /\ purse[c] \in Nat
  BY DEF Good
<1>2. StakesIn(c, next) = StakesIn(c, table)
  BY DEF StakesIn, Onward
<1>3. /\ \A t \in Table : before[t] \in Nat
      /\ Amount(StakesIn(c, table), Table) \in Nat /\ Amount(before, Table) \in Nat
  BY <1>1, Countable
<1>4. \A t \in Table : after[t] \in Nat
  BY Countable
<1>5. Credited(next)[c] = purse[c] + Gain(c, next)
  BY DEF Credited
<1>6. CASE \E t \in Table : c \in Live(table[t])
  <2> DEFINE t == CHOOSE t \in Table : c \in Live(table[t])
  <2>1. t \in Table /\ c \in Live(table[t])
    BY <1>6
  <2>2. Gain(c, next) = next[t].back[c] - table[t].back[c]
    BY <1>6 DEF Gain
  <2> HIDE DEF t
  <2>3. before[t] = table[t].back[c] /\ after[t] = next[t].back[c]
    BY <2>1 DEF ReturnsIn
  <2>4. \A u \in Table \ {t} : after[u] = before[u]
    <3>1. \A u \in Table \ {t} : c \notin Live(table[u])
      BY <2>1, OneLiveSeat DEF Good
    <3>2. QED
      BY <3>1 DEF ReturnsIn, Onward
  <2>5. after[t] >= before[t]
    BY <2>1, <2>3 DEF Onward
  <2> HIDE DEF before, after
  <2>6. Amount(after, Table) = Amount(before, Table) - before[t] + after[t]
    BY <1>3, <1>4, <2>1, <2>4, FiniteTables, AmountChange
  <2>7. before[t] \in Nat /\ after[t] \in Nat
    BY <1>3, <1>4, <2>1
  <2>8. Gain(c, next) = after[t] - before[t]
    BY <2>2, <2>3
  <2>9. QED
    BY <1>1, <1>2, <1>3, <1>5, <2>5, <2>6, <2>7, <2>8, TavernAssumption
    DEF Balanced, before, after
<1>7. CASE ~\E t \in Table : c \in Live(table[t])
  <2>1. Gain(c, next) = 0
    BY <1>7 DEF Gain
  <2>2. after = before
    BY <1>7 DEF ReturnsIn, Onward
  <2>3. QED
    BY <1>1, <1>2, <1>5, <2>1, <2>2 DEF Balanced
<1>8. QED
  BY <1>6, <1>7

\* A transaction that only settles, starts or changes hands.
LEMMA CommitGood ==
  ASSUME Good(table, purse, alive), alive \subseteq Character,
         NEW next \in [Table -> Row],
         \A t \in Table : Sound(next[t], alive) /\ Onward(table[t], next[t])
  PROVE  Good(next, Credited(next), alive)
<1>1. OneKey(next)
  <2>1. \A t \in Table : next[t].keyed \subseteq table[t].keyed
    BY DEF Good, Sound, Onward
  <2>2. QED
    BY <2>1 DEF Good, OneKey
<1>2. Credited(next) \in [Character -> Nat]
  <2>1. \A c \in Character : purse[c] \in Nat /\ Gain(c, next) \in Nat
    BY GainBalanced DEF Good
  <2>2. QED
    BY <2>1 DEF Credited
<1>3. \A c \in alive : Balanced(c, next, Credited(next))
  BY GainBalanced DEF Good
<1>4. QED
  BY <1>1, <1>2, <1>3 DEF Good

\* A character sits down at a table and pays the stake.
LEMMA SitDown ==
  ASSUME NEW rows, NEW gold, NEW living, Good(rows, gold, living), living \subseteq Character,
         NEW c \in living, Free(c, rows), NEW t \in Table, NEW q, Sound(q, living),
         q.keyed = rows[t].keyed \cup {c}, q.back = rows[t].back,
         c \notin Staked(rows[t]), Staked(q) = Staked(rows[t]) \cup {c},
         Staked(rows[t]) # {} => q.stake = rows[t].stake,
         gold[c] >= q.stake
  PROVE  Good([rows EXCEPT ![t] = q], [gold EXCEPT ![c] = @ - q.stake], living)
<1> DEFINE rows2 == [rows EXCEPT ![t] = q]
           gold2 == [gold EXCEPT ![c] = @ - q.stake]
<1>1. rows \in [Table -> Row] /\ gold \in [Character -> Nat] /\ q \in Row /\ q.stake \in Nat
  BY DEF Good, Sound, Row
<1>2. rows2 \in [Table -> Row] /\ rows2[t] = q /\ \A u \in Table \ {t} : rows2[u] = rows[u]
  BY <1>1
<1>3. /\ gold2 \in [Character -> Nat] /\ gold2[c] = gold[c] - q.stake
      /\ \A d \in living \ {c} : gold2[d] = gold[d]
  BY <1>1
<1> HIDE DEF rows2, gold2
<1>4. \A u \in Table : Sound(rows2[u], living)
  BY <1>2 DEF Good
<1>5. OneKey(rows2)
  <2>1. \A u \in Table : c \notin rows[u].keyed
    BY DEF Free
  <2>2. \A u \in Table : u # t => rows2[u].keyed \cap rows2[t].keyed = {}
    BY <1>2, <2>1 DEF Good, OneKey
  <2>3. QED
    BY <1>2, <2>2 DEF Good, OneKey
<1>6. \A d \in living : ReturnsIn(d, rows2) = ReturnsIn(d, rows)
  BY <1>2 DEF ReturnsIn
<1>7. \A d \in living \ {c} : Balanced(d, rows2, gold2)
  <2> SUFFICES ASSUME NEW d \in living \ {c}
               PROVE  Balanced(d, rows2, gold2)
    OBVIOUS
  <2>1. StakesIn(d, rows2) = StakesIn(d, rows)
    BY <1>2 DEF StakesIn
  <2>2. QED
    BY <1>3, <1>6, <2>1 DEF Good, Balanced
<1>8. Balanced(c, rows2, gold2)
  <2> DEFINE before == StakesIn(c, rows)
             after == StakesIn(c, rows2)
  <2>1. before[t] = 0 /\ after[t] = q.stake
    BY <1>2 DEF StakesIn
  <2>2. \A u \in Table \ {t} : after[u] = before[u]
    BY <1>2 DEF StakesIn
  <2>3. /\ \A u \in Table : before[u] \in Nat
        /\ Amount(before, Table) \in Nat /\ Amount(ReturnsIn(c, rows), Table) \in Nat
    BY <1>1, Countable
  <2>4. \A u \in Table : after[u] \in Nat
    BY <1>2, Countable
  <2> HIDE DEF before, after
  <2>5. Amount(after, Table) = Amount(before, Table) - before[t] + after[t]
    BY <2>2, <2>3, <2>4, FiniteTables, AmountChange
  <2>6. gold[c] + Amount(before, Table) = InitialGold + Amount(ReturnsIn(c, rows), Table)
    BY DEF Good, Balanced, before
  <2>7. gold[c] \in Nat /\ InitialGold \in Nat
    BY <1>1, TavernAssumption
  <2>8. gold2[c] + Amount(after, Table) = InitialGold + Amount(ReturnsIn(c, rows2), Table)
    BY <1>1, <1>3, <1>6, <2>1, <2>3, <2>5, <2>6, <2>7
  <2>9. QED
    BY <2>8 DEF Balanced, after
<1>9. Good(rows2, gold2, living)
  BY <1>2, <1>3, <1>4, <1>5, <1>7, <1>8 DEF Good
<1>10. QED
  BY <1>9 DEF rows2, gold2

\* Nobody pays or is paid, and nobody comes to life.
LEMMA QuietGood ==
  ASSUME NEW rows, NEW gold, NEW living, Good(rows, gold, living), living \subseteq Character,
         NEW next \in [Table -> Row], NEW others \in SUBSET living,
         \A t \in Table :
           Sound(next[t], others) /\ Onward(rows[t], next[t]) /\ next[t].back = rows[t].back
  PROVE  Good(next, gold, others)
<1>1. OneKey(next)
  <2>1. \A t \in Table : next[t].keyed \subseteq rows[t].keyed
    BY DEF Good, Sound, Onward
  <2>2. QED
    BY <2>1 DEF Good, OneKey
<1>2. \A c \in others : Balanced(c, next, gold)
  <2> SUFFICES ASSUME NEW c \in others
               PROVE  Balanced(c, next, gold)
    OBVIOUS
  <2>1. StakesIn(c, next) = StakesIn(c, rows) /\ ReturnsIn(c, next) = ReturnsIn(c, rows)
    BY DEF StakesIn, ReturnsIn, Onward
  <2>2. QED
    BY <2>1 DEF Good, Balanced
<1>3. QED
  BY <1>1, <1>2 DEF Good

-----------------------------------------------------------------------------
(* The transactions *)

\* One table goes on or is settled.
LEMMA PutInv ==
  ASSUME IndInv, NEW t \in Table, NEW q, Sound(q, alive), Onward(table[t], q), Put(t, q)
  PROVE  IndInv'
<1> DEFINE next == [table EXCEPT ![t] = q]
<1>1. table \in [Table -> Row] /\ q \in Row
  BY DEF IndInv, Good, Sound
<1>2. next \in [Table -> Row] /\ next[t] = q /\ \A u \in Table \ {t} : next[u] = table[u]
  BY <1>1
<1>3. \A u \in Table : Sound(next[u], alive) /\ Onward(table[u], next[u])
  BY <1>1, <1>2, OnwardSelf DEF IndInv, Good
<1>4. table' = next /\ purse' = Credited(next) /\ alive' = alive /\ present' = present
  BY DEF Put, Commit
<1> HIDE DEF next
<1>5. Good(next, Credited(next), alive)
  BY <1>2, <1>3, CommitGood DEF IndInv
<1>6. QED
  BY <1>4, <1>5 DEF IndInv

\* A live seat says something else.
LEMMA SeatSame ==
  ASSUME NEW living, NEW r, Sound(r, living), Unsettled(r), NEW c \in Live(r),
         NEW hand \in {"joined", "eager", "decided"}
  PROVE  SameSeats(r, [r EXCEPT !.seat[c] = hand])
<1> DEFINE seats == [r.seat EXCEPT ![c] = hand]
           q == [r EXCEPT !.seat[c] = hand]
<1>1. r = [kind |-> r.kind, by |-> r.by, stake |-> r.stake, pot |-> r.pot,
           status |-> r.status, joinOver |-> r.joinOver, choice |-> r.choice,
           seat |-> r.seat, keyed |-> r.keyed, back |-> r.back]
  BY DEF Sound, Row
<1>2. r.seat \in [Character -> {"none", "joined", "eager", "decided", "settled", "lost"}]
  BY DEF Sound, Row
<1>3. c \in Character
  BY DEF Live
<1>4. seats \in [Character -> {"none", "joined", "eager", "decided", "settled", "lost"}]
  BY <1>2, <1>3
<1>5. q = [kind |-> r.kind, by |-> r.by, stake |-> r.stake, pot |-> r.pot,
           status |-> r.status, joinOver |-> r.joinOver, choice |-> r.choice,
           seat |-> seats, keyed |-> r.keyed, back |-> r.back]
  BY <1>1
<1>6. \A d \in Character :
        seats[d] = r.seat[d] \/ {seats[d], r.seat[d]} \subseteq {"joined", "eager", "decided"}
  BY <1>2 DEF Live
<1> HIDE DEF seats, q
<1>7. q \in Row
  BY <1>4, <1>5 DEF Row, Sound
<1>8. SameSeats(r, q)
  BY <1>5, <1>6, <1>7 DEF SameSeats, Unsettled
<1>9. QED
  BY <1>8 DEF q

LEMMA ListInv ==
  ASSUME IndInv, List
  PROVE  IndInv'
<1>1. PICK w \in Winners : Commit(AfterSweep(w))
  BY DEF List
<1> DEFINE next == AfterSweep(w)
<1>2. \A t \in Table : Sound(next[t], alive) /\ Onward(table[t], next[t])
  BY SweepSound DEF IndInv, Good
<1>3. next \in [Table -> Row]
  BY <1>2 DEF AfterSweep, Sound
<1>4. table' = next /\ purse' = Credited(next) /\ alive' = alive /\ present' = present
  BY <1>1 DEF Commit
<1> HIDE DEF next
<1>5. Good(next, Credited(next), alive)
  BY <1>2, <1>3, CommitGood DEF IndInv
<1>6. QED
  BY <1>4, <1>5 DEF IndInv

LEMMA TouchInv ==
  ASSUME IndInv, NEW t \in Table, Touch(t)
  PROVE  IndInv'
<1>1. PICK w \in Live(table[t]) \cup {NoOne} : Put(t, Swept(table[t], w))
  BY DEF Touch
<1>2. Sound(table[t], alive)
  BY DEF IndInv, Good
<1>3. Unsettled(table[t])
  BY DEF Touch, TokenDue, StartDue, Unsettled
<1>4. QED
  BY <1>1, <1>2, <1>3, SweptSound, PutInv

\* Start, a readiness that starts nothing, a refund: one lemma each for the calls
\* that put one row back.
LEMMA StartInv ==
  ASSUME IndInv, NEW c \in Character, NEW t \in Table, Start(c, t)
  PROVE  IndInv'
<1>1. Sound(table[t], alive) /\ Unsettled(table[t])
  BY DEF IndInv, Good, Start, Waiting, Unsettled
<1>2. Sound(Started(table[t]), alive) /\ Onward(table[t], Started(table[t]))
  BY <1>1, StartedSame, SameSeatsSound
<1>3. QED
  BY <1>2, PutInv DEF Start

LEMMA SetReadinessInv ==
  ASSUME IndInv, NEW c \in Character, NEW t \in Table, NEW readiness \in {"eager", "joined"},
         SetReadiness(c, t, readiness)
  PROVE  IndInv'
<1> DEFINE r == [table[t] EXCEPT !.seat[c] = readiness]
<1>1. Sound(table[t], alive) /\ Unsettled(table[t]) /\ c \in Live(table[t])
  BY DEF IndInv, Good, SetReadiness, Waiting, Unsettled
<1>2. SameSeats(table[t], r)
  BY <1>1, SeatSame
<1>3. Sound(r, alive) /\ Onward(table[t], r) /\ Unsettled(r)
  BY <1>1, <1>2, SameSeatsSound DEF SameSeats
<1>4. Put(t, r) \/ Put(t, Started(r))
  BY DEF SetReadiness
<1> HIDE DEF r
<1>5. CASE Put(t, r)
  BY <1>3, <1>5, PutInv
<1>6. CASE Put(t, Started(r))
  <2>1. Sound(Started(r), alive) /\ Onward(r, Started(r))
    BY <1>3, StartedSame, SameSeatsSound
  <2>2. Onward(table[t], Started(r))
    BY <1>1, <1>3, <2>1, OnwardTwice DEF Sound
  <2>3. QED
    BY <1>6, <2>1, <2>2, PutInv
<1>7. QED
  BY <1>4, <1>5, <1>6

LEMMA RefundInv ==
  ASSUME IndInv, NEW t \in Table, Unsettled(table[t]),
         Put(t, Settled(table[t], Refund(table[t])))
  PROVE  IndInv'
<1>1. Sound(table[t], alive)
  BY DEF IndInv, Good
<1>2. QED
  BY <1>1, RefundSound, PutInv

LEMMA DecideInv ==
  ASSUME IndInv, NEW c \in Character, NEW t \in Table, Decide(c, t)
  PROVE  IndInv'
<1> DEFINE r == [table[t] EXCEPT !.seat[c] = "decided"]
<1>1. Sound(table[t], alive) /\ Unsettled(table[t]) /\ c \in Live(table[t])
  BY DEF IndInv, Good, Decide, MayPlay, Unsettled
<1>2. SameSeats(table[t], r)
  BY <1>1, SeatSame
<1>3. Sound(r, alive) /\ Onward(table[t], r) /\ Unsettled(r)
  BY <1>1, <1>2, SameSeatsSound DEF SameSeats
<1>4. \E w : Put(t, r) \/ Put(t, TavleiResult(r, w))
  BY DEF Decide
<1> HIDE DEF r
<1>5. PICK w : Put(t, r) \/ Put(t, TavleiResult(r, w))
  BY <1>4
<1>6. CASE Put(t, r)
  BY <1>3, <1>6, PutInv
<1>7. CASE Put(t, TavleiResult(r, w))
  <2>1. Sound(TavleiResult(r, w), alive) /\ Onward(r, TavleiResult(r, w))
    BY <1>3, TavleiSound
  <2>2. Onward(table[t], TavleiResult(r, w))
    BY <1>1, <1>3, <2>1, OnwardTwice DEF Sound
  <2>3. QED
    BY <1>7, <2>1, <2>2, PutInv
<1>8. QED
  BY <1>5, <1>6, <1>7

\* The clock of a table is set, or its round is opened.
LEMMA RoundOpened ==
  ASSUME NEW living, NEW r, Sound(r, living), Unsettled(r)
  PROVE  /\ SameSeats(r, [r EXCEPT !.choice = "running"])
         /\ SameSeats(r, [r EXCEPT !.status = "ready", !.joinOver = FALSE, !.choice = "running"])
         /\ SameSeats(r, r)
<1>1. r = [kind |-> r.kind, by |-> r.by, stake |-> r.stake, pot |-> r.pot,
           status |-> r.status, joinOver |-> r.joinOver, choice |-> r.choice,
           seat |-> r.seat, keyed |-> r.keyed, back |-> r.back]
  BY DEF Sound, Row
<1>2. [r EXCEPT !.choice = "running"] =
        [kind |-> r.kind, by |-> r.by, stake |-> r.stake, pot |-> r.pot,
           status |-> r.status, joinOver |-> r.joinOver, choice |-> "running",
           seat |-> r.seat, keyed |-> r.keyed, back |-> r.back]
  BY <1>1
<1>3. [r EXCEPT !.status = "ready", !.joinOver = FALSE, !.choice = "running"] =
        [kind |-> r.kind, by |-> r.by, stake |-> r.stake, pot |-> r.pot,
           status |-> "ready", joinOver |-> FALSE, choice |-> "running",
           seat |-> r.seat, keyed |-> r.keyed, back |-> r.back]
  <2>1. SUFFICES ASSUME NEW q,
                        q = [r EXCEPT !.status = "ready", !.joinOver = FALSE, !.choice = "running"]
                 PROVE  q = [kind |-> r.kind, by |-> r.by, stake |-> r.stake, pot |-> r.pot,
                             status |-> "ready", joinOver |-> FALSE, choice |-> "running",
                             seat |-> r.seat, keyed |-> r.keyed, back |-> r.back]
    OBVIOUS
  <2>2. QED
    BY <1>1, <2>1
<1>4. QED
  BY <1>2, <1>3 DEF SameSeats, Unsettled, Sound, Row

\* The clock of a scorecard is set again.
LEMMA RefreshedSame ==
  ASSUME NEW living, NEW r, Sound(r, living), Unsettled(r)
  PROVE  SameSeats(r, Refreshed(r))
<1>1. Refreshed(r) = [r EXCEPT !.choice = "running"] \/ Refreshed(r) = r
  BY DEF Refreshed
<1>2. QED
  BY <1>1, RoundOpened

LEMMA SaveHandInv ==
  ASSUME IndInv, NEW c \in Character, NEW t \in Table, NEW hand \in {"joined", "decided"},
         SaveHand(c, t, hand)
  PROVE  IndInv'
<1> DEFINE r == [table[t] EXCEPT !.seat[c] = hand]
<1>1. Sound(table[t], alive) /\ Unsettled(table[t]) /\ c \in Live(table[t])
  BY DEF IndInv, Good, SaveHand, MayPlay, Trapped, RoundDue, Unsettled
<1>2. SameSeats(table[t], r)
  BY <1>1, SeatSame
<1>3. Sound(r, alive) /\ Onward(table[t], r) /\ Unsettled(r)
  BY <1>1, <1>2, SameSeatsSound DEF SameSeats
<1>4. \E w : Put(t, Refreshed(DiceRound(r, w)))
  BY DEF SaveHand
<1> HIDE DEF r
<1>5. PICK w : Put(t, Refreshed(DiceRound(r, w)))
  BY <1>4
<1> DEFINE q == DiceRound(r, w)
<1>6. Sound(q, alive) /\ Onward(r, q)
  BY <1>3, DiceRoundSound
<1>7. Onward(table[t], q)
  BY <1>1, <1>3, <1>6, OnwardTwice DEF Sound
<1>8. CASE q.status # "ready"
  <2>1. Refreshed(q) = q
    BY <1>8 DEF Refreshed
  <2>2. QED
    BY <1>5, <1>6, <1>7, <2>1, PutInv
<1>9. CASE q.status = "ready"
  <2>1. SameSeats(q, Refreshed(q)) /\ Unsettled(q)
    BY <1>6, <1>9, RefreshedSame DEF Unsettled
  <2>2. Sound(Refreshed(q), alive) /\ Onward(q, Refreshed(q))
    BY <1>6, <2>1, SameSeatsSound
  <2>3. Onward(table[t], Refreshed(q))
    BY <1>1, <1>6, <1>7, <2>2, OnwardTwice DEF Sound
  <2>4. QED
    BY <1>5, <2>2, <2>3, PutInv
<1>10. QED
  BY <1>8, <1>9

LEMMA SaveSoloInv ==
  ASSUME IndInv, NEW c \in Character, NEW t \in Table, SaveSolo(c, t)
  PROVE  IndInv'
<1>1. Sound(table[t], alive) /\ Unsettled(table[t])
  BY DEF IndInv, Good, SaveSolo, MayPlay, Unsettled
<1>2. Sound(Refreshed(table[t]), alive) /\ Onward(table[t], Refreshed(table[t]))
  BY <1>1, RefreshedSame, SameSeatsSound
<1>3. QED
  BY <1>2, PutInv DEF SaveSolo

LEMMA FinishSoloInv ==
  ASSUME IndInv, NEW c \in Character, NEW t \in Table, NEW lost \in BOOLEAN,
         FinishSolo(c, t, lost)
  PROVE  IndInv'
<1>1. Sound(table[t], alive) /\ Unsettled(table[t])
  BY DEF IndInv, Good, FinishSolo, MayPlay, Unsettled
<1>2. CASE lost
  <2>1. table[t].kind \in Solo \ {"scorecardSolo"} /\ Put(t, Settled(table[t], NoGold))
    BY <1>2 DEF FinishSolo
  <2>2. NoGold \in [Character -> Nat]
    BY <1>1, PayTypes DEF Sound
  <2>3. /\ Sound(Settled(table[t], NoGold), alive)
        /\ Onward(table[t], Settled(table[t], NoGold))
    BY <1>1, <2>1, <2>2, SettledSound
  <2>4. QED
    BY <2>1, <2>3, PutInv
<1>3. CASE ~lost
  <2>1. Put(t, Settled(table[t], Refund(table[t])))
    BY <1>3 DEF FinishSolo
  <2>2. QED
    BY <1>1, <2>1, RefundInv
<1>4. QED
  BY <1>2, <1>3

-----------------------------------------------------------------------------
(* Sitting down *)

\* A new table holds the stake of its creator.
LEMMA NewTableColumns ==
  ASSUME NEW c \in Character, NEW k \in Kinds, NEW s \in Stake, NEW q, q = NewTable(c, k, s)
  PROVE  /\ q \in Row /\ q.keyed = {c} /\ q.stake = s /\ q.pot = s /\ q.back = NoGold
         /\ q.status \in {"open", "ready"}
         /\ q.seat[c] = "joined" /\ \A d \in Character \ {c} : q.seat[d] = "none"
         /\ Live(q) = {c} /\ Staked(q) = {c}
<1>1. s \in Nat
  BY TavernAssumption
<1>2. /\ q.stake = s /\ q.pot = s /\ q.keyed = {c} /\ q.back = NoGold
      /\ q.status \in {"open", "ready"}
      /\ q.seat = [Nobody EXCEPT ![c] = "joined"]
  BY DEF NewTable
<1>3. q \in Row
  BY <1>1 DEF NewTable, Row, Nobody, NoGold
<1>4. q.seat[c] = "joined" /\ \A d \in Character \ {c} : q.seat[d] = "none"
  BY <1>2 DEF Nobody
<1>5. Live(q) = {c} /\ Staked(q) = {c}
  BY <1>4 DEF Live, Staked
<1>6. QED
  BY <1>2, <1>3, <1>4, <1>5

LEMMA NewTableSound ==
  ASSUME NEW living, NEW c \in Character, NEW k \in Kinds, NEW s \in Stake,
         NEW q, q = NewTable(c, k, s)
  PROVE  Sound(q, living)
<1>1. s \in Nat
  BY TavernAssumption
<1>2. /\ q \in Row /\ q.keyed = {c} /\ q.stake = s /\ q.pot = s /\ q.back = NoGold
      /\ q.status \in {"open", "ready"}
      /\ q.seat[c] = "joined" /\ \A d \in Character \ {c} : q.seat[d] = "none"
      /\ Live(q) = {c} /\ Staked(q) = {c}
  BY NewTableColumns
<1>3. Cardinality({c}) = 1
  BY FS_Singleton
<1>4. q.pot = q.stake * Cardinality(Staked(q))
  BY <1>1, <1>2, <1>3
<1>5. TableAccounted(q)
  BY <1>2, <1>4 DEF TableAccounted
<1>6. QED
  BY <1>2, <1>5 DEF Sound, Unsettled

LEMMA CreateInv ==
  ASSUME IndInv, NEW c \in Character, NEW k \in Kinds, NEW s \in Stake, Create(c, k, s)
  PROVE  IndInv'
<1>1. PICK w \in Winners, t \in {t \in Table : table[t].status = "none"} :
        /\ Free(c, AfterSweep(w)) /\ Affords(Credited(AfterSweep(w))[c], s)
        /\ table' = [AfterSweep(w) EXCEPT ![t] = NewTable(c, k, s)]
        /\ purse' = [Credited(AfterSweep(w)) EXCEPT ![c] = @ - s]
  BY DEF Create
<1> DEFINE next == AfterSweep(w)
           q == NewTable(c, k, s)
<1>2. t \in Table /\ table[t].status = "none"
  BY <1>1
<1>3. c \in alive /\ alive \subseteq Character /\ alive' = alive /\ present' = present
  BY DEF Create, IndInv
<1>4. \A u \in Table : Sound(next[u], alive) /\ Onward(table[u], next[u])
  BY SweepSound DEF IndInv, Good
<1>5. next \in [Table -> Row]
  BY <1>4 DEF AfterSweep, Sound
<1>6. next[t] = table[t]
  BY <1>2 DEF AfterSweep, Batch, Due, ListDue
<1>7. Staked(next[t]) = {} /\ next[t].back = NoGold /\ next[t].keyed = {}
  BY <1>2, <1>4, <1>6 DEF Sound, Live, Staked
<1> HIDE DEF next
<1>8. Good(next, Credited(next), alive)
  BY <1>4, <1>5, CommitGood DEF IndInv
<1>9. Sound(q, alive) /\ q.keyed = {c} /\ Staked(q) = {c} /\ q.stake = s /\ q.back = NoGold
  <2>1. q = NewTable(c, k, s)
    OBVIOUS
  <2> HIDE DEF q
  <2>2. QED
    BY <2>1, NewTableColumns, NewTableSound
<1> HIDE DEF q
<1>10. Free(c, next) /\ Credited(next)[c] >= q.stake
  BY <1>1, <1>9 DEF Affords, next
<1>11. Good([next EXCEPT ![t] = q], [Credited(next) EXCEPT ![c] = @ - q.stake], alive)
  BY <1>2, <1>3, <1>7, <1>8, <1>9, <1>10, SitDown
<1>12. table' = [next EXCEPT ![t] = q] /\ purse' = [Credited(next) EXCEPT ![c] = @ - q.stake]
  BY <1>1, <1>9 DEF next, q
<1>13. QED
  BY <1>3, <1>11, <1>12 DEF IndInv

\* A seat that is taken, before the table goes on because of it.
LEMMA SeatedColumns ==
  ASSUME NEW r \in Row, NEW c \in Character, r.seat[c] = "none", NEW q, q = Seated(r, c)
  PROVE  /\ q \in Row /\ q.keyed = r.keyed \cup {c} /\ q.back = r.back
         /\ q.stake = r.stake /\ q.pot = r.pot + r.stake /\ q.kind = r.kind
         /\ q.status = r.status
         /\ q.seat[c] = "joined" /\ \A d \in Character \ {c} : q.seat[d] = r.seat[d]
         /\ Live(q) = Live(r) \cup {c}
         /\ c \notin Staked(r) /\ Staked(q) = Staked(r) \cup {c}
<1> DEFINE seats == [r.seat EXCEPT ![c] = "joined"]
           keys == r.keyed \cup {c}
           gold == r.pot + r.stake
<1>1. r = [kind |-> r.kind, by |-> r.by, stake |-> r.stake, pot |-> r.pot,
           status |-> r.status, joinOver |-> r.joinOver, choice |-> r.choice,
           seat |-> r.seat, keyed |-> r.keyed, back |-> r.back]
  BY DEF Row
<1>2. /\ r.seat \in [Character -> {"none", "joined", "eager", "decided", "settled", "lost"}]
      /\ r.pot \in Nat /\ r.stake \in Nat /\ r.keyed \subseteq Character
  BY DEF Row
<1>3. /\ seats \in [Character -> {"none", "joined", "eager", "decided", "settled", "lost"}]
      /\ gold \in Nat /\ keys \subseteq Character
  BY <1>2
<1>4. q = [kind |-> r.kind, by |-> r.by, stake |-> r.stake, pot |-> gold,
           status |-> r.status, joinOver |-> r.joinOver, choice |-> r.choice,
           seat |-> seats, keyed |-> keys, back |-> r.back]
  <2>1. q = [r EXCEPT !.seat = seats, !.keyed = keys, !.pot = gold]
    BY DEF Seated
  <2> HIDE DEF seats, keys, gold
  <2>2. QED
    BY <1>1, <2>1
<1>5. seats[c] = "joined" /\ \A d \in Character \ {c} : seats[d] = r.seat[d]
  BY <1>2
<1> HIDE DEF seats, keys, gold
<1>6. q \in Row
  BY <1>3, <1>4 DEF Row
<1>7. Live(q) = Live(r) \cup {c}
  BY <1>4, <1>5 DEF Live
<1>8. c \notin Staked(r) /\ Staked(q) = Staked(r) \cup {c}
  BY <1>4, <1>5 DEF Staked
<1>9. QED
  BY <1>4, <1>5, <1>6, <1>7, <1>8 DEF keys, gold

\* A character without a key has not sat at a table that still waits.
LEMMA SeatIsFree ==
  ASSUME NEW living, NEW r, Sound(r, living), r.status = "open",
         NEW c \in Character, c \in living, c \notin r.keyed
  PROVE  r.seat[c] = "none"
<1>1. r.seat[c] \in {"none", "joined", "eager", "decided", "settled", "lost"}
  BY DEF Sound, Row
<1>2. QED
  BY <1>1 DEF Sound, Live, Unsettled

LEMMA SeatedSound ==
  ASSUME NEW living, NEW r, Sound(r, living), r.status = "open",
         NEW c \in Character, r.seat[c] = "none", NEW q, q = Seated(r, c)
  PROVE  Sound(q, living)
<1>1. r \in Row /\ r.pot \in Nat /\ r.stake \in Nat
  BY DEF Sound, Row
<1>2. /\ q \in Row /\ q.keyed = r.keyed \cup {c} /\ q.back = r.back
      /\ q.stake = r.stake /\ q.pot = r.pot + r.stake /\ q.status = r.status
      /\ q.seat[c] = "joined" /\ \A d \in Character \ {c} : q.seat[d] = r.seat[d]
      /\ Live(q) = Live(r) \cup {c}
      /\ c \notin Staked(r) /\ Staked(q) = Staked(r) \cup {c}
  BY <1>1, SeatedColumns
<1>3. TableAccounted(q)
  <2>1. IsFiniteSet(Staked(r)) /\ Cardinality(Staked(r)) \in Nat
    BY TavernAssumption, FS_Subset, FS_CardinalityType DEF Staked
  <2>2. Cardinality(Staked(r) \cup {c}) = Cardinality(Staked(r)) + 1
    BY <1>2, <2>1, FS_AddElement
  <2>3. r.pot = r.stake * Cardinality(Staked(r)) /\ r.back = NoGold
    BY DEF Sound, TableAccounted, Unsettled
  <2>4. q.pot = q.stake * Cardinality(Staked(q))
    BY <1>1, <1>2, <2>1, <2>2, <2>3
  <2>5. QED
    BY <1>2, <2>3, <2>4 DEF TableAccounted
<1>4. \A d \in Character : q.seat[d] # "settled" /\ (q.seat[d] = "lost" => d \notin living)
  BY <1>2 DEF Sound, Unsettled
<1>5. QED
  BY <1>2, <1>3, <1>4 DEF Sound, Unsettled

LEMMA JoinInv ==
  ASSUME IndInv, NEW c \in Character, NEW t \in Table, Join(c, t)
  PROVE  IndInv'
<1> DEFINE r == table[t]
           p == Seated(r, c)
           q == Joined(p)
<1>1. /\ Sound(r, alive) /\ r.status = "open" /\ c \in alive /\ alive \subseteq Character
      /\ Free(c, table) /\ purse[c] >= r.stake
  BY DEF IndInv, Good, Join, Affords
<1>2. c \notin r.keyed
  BY <1>1 DEF Free
<1>3. p = Seated(r, c) /\ r.seat[c] = "none" /\ r \in Row
  BY <1>1, <1>2, SeatIsFree DEF Sound
<1> HIDE DEF r, p
<1>4. /\ Sound(p, alive) /\ p.keyed = r.keyed \cup {c} /\ p.back = r.back
      /\ c \notin Staked(r) /\ Staked(p) = Staked(r) \cup {c}
      /\ p.stake = r.stake /\ p.status = "open"
  BY <1>3, <1>1, SeatedColumns, SeatedSound
<1>5. SameSeats(p, q)
  BY <1>4, RoundOpened, StartedSame DEF Joined, Unsettled
<1>6. Sound(q, alive) /\ Onward(p, q)
  BY <1>4, <1>5, SameSeatsSound DEF Unsettled
<1>7. q.keyed = p.keyed /\ q.back = p.back /\ q.stake = p.stake /\ Staked(q) = Staked(p)
  BY <1>5, <1>6 DEF SameSeats, Onward
<1>8. /\ table' = [table EXCEPT ![t] = q] /\ purse' = [purse EXCEPT ![c] = @ - q.stake]
      /\ alive' = alive /\ present' = present
  BY <1>4, <1>7 DEF Join, p, q, r
<1> HIDE DEF q
<1>9. /\ Staked(table[t]) # {} => q.stake = table[t].stake
      /\ purse[c] >= q.stake
  BY <1>1, <1>4, <1>7 DEF r
<1>10. Good([table EXCEPT ![t] = q], [purse EXCEPT ![c] = @ - q.stake], alive)
  BY <1>1, <1>4, <1>6, <1>7, <1>9, SitDown DEF IndInv, r
<1>11. QED
  BY <1>8, <1>10 DEF IndInv

-----------------------------------------------------------------------------
(* The characters and the clocks *)

LEMMA ComeInv ==
  ASSUME IndInv, NEW c \in Character, Come(c) \/ Go(c)
  PROVE  IndInv'
BY DEF IndInv, Come, Go

\* What a restart leaves of a row.
LEMMA WithoutSound ==
  ASSUME NEW living, NEW r, Sound(r, living), NEW c \in Character, NEW q, q = Without(r, c)
  PROVE  Sound(q, living \ {c}) /\ Onward(r, q) /\ q.back = r.back
<1>1. /\ r \in Row
      /\ r = [kind |-> r.kind, by |-> r.by, stake |-> r.stake, pot |-> r.pot,
              status |-> r.status, joinOver |-> r.joinOver, choice |-> r.choice,
              seat |-> r.seat, keyed |-> r.keyed, back |-> r.back]
      /\ r.seat \in [Character -> {"none", "joined", "eager", "decided", "settled", "lost"}]
      /\ \A d \in Character : r.back[d] \in Nat
  BY DEF Sound, Row
<1>2. CASE r.by = c /\ r.status # "none"
  <2> DEFINE seats == [d \in Character |-> IF d \in Live(r) THEN "lost" ELSE r.seat[d]]
  <2>1. q = [kind |-> r.kind, by |-> r.by, stake |-> r.stake, pot |-> r.pot,
             status |-> "deleted", joinOver |-> FALSE, choice |-> "unset",
             seat |-> seats, keyed |-> {}, back |-> r.back]
    <3>1. q = [r EXCEPT !.status = "deleted", !.joinOver = FALSE, !.choice = "unset",
                        !.seat = seats, !.keyed = {}]
      BY <1>2 DEF Without
    <3> HIDE DEF seats
    <3>2. QED
      BY <1>1, <3>1
  <2>2. seats \in [Character -> {"none", "joined", "eager", "decided", "settled", "lost"}]
    BY <1>1
  <2>3. \A d \in Character : seats[d] = IF d \in Live(r) THEN "lost" ELSE r.seat[d]
    OBVIOUS
  <2> HIDE DEF seats
  <2>4. q \in Row
    BY <1>1, <2>1, <2>2 DEF Row
  <2>5. /\ q.status = "deleted" /\ q.stake = r.stake /\ q.pot = r.pot /\ q.back = r.back
        /\ q.kind = r.kind /\ q.keyed = {} /\ q.seat = seats
    BY <2>1
  <2>6. Live(q) = {} /\ Staked(q) = Staked(r)
    <3>1. \A d \in Character : q.seat[d] = IF d \in Live(r) THEN "lost" ELSE r.seat[d]
      BY <2>5, <2>3
    <3>2. QED
      BY <3>1 DEF Live, Staked
  <2>7. TableAccounted(q)
    <3>1. r.status # "none" => r.pot = r.stake * Cardinality(Staked(r))
      BY DEF Sound, TableAccounted
    <3>2. q.pot = q.stake * Cardinality(Staked(q))
      BY <1>2, <2>5, <2>6, <3>1
    <3>3. ~Unsettled(q) /\ q.status # "closed"
      BY <2>5 DEF Unsettled
    <3>4. QED
      BY <3>2, <3>3 DEF TableAccounted
  <2>8. Sound(q, living \ {c})
    <3>1. ~Unsettled(q) /\ q.status # "none" /\ q.keyed = Live(q)
      BY <2>5, <2>6 DEF Unsettled
    <3>2. QED
      BY <2>4, <2>6, <2>7, <3>1 DEF Sound
  <2>9. Onward(r, q)
    <3>1. \A d \in Character : q.back[d] = r.back[d] /\ q.back[d] >= r.back[d]
      BY <1>1, <2>5
    <3>2. QED
      BY <2>5, <2>6, <3>1 DEF Onward
  <2>10. QED
    BY <2>5, <2>8, <2>9
<1>3. CASE ~(r.by = c /\ r.status # "none") /\ c \in Live(r)
  <2> DEFINE seats == [r.seat EXCEPT ![c] = "lost"]
             keys == r.keyed \ {c}
  <2>1. q = [kind |-> r.kind, by |-> r.by, stake |-> r.stake, pot |-> r.pot,
             status |-> r.status, joinOver |-> r.joinOver, choice |-> r.choice,
             seat |-> seats, keyed |-> keys, back |-> r.back]
    <3>1. q = [r EXCEPT !.seat = seats, !.keyed = keys]
      BY <1>3 DEF Without
    <3> HIDE DEF seats, keys
    <3>2. QED
      BY <1>1, <3>1
  <2>2. seats \in [Character -> {"none", "joined", "eager", "decided", "settled", "lost"}]
    BY <1>1
  <2>3. seats[c] = "lost" /\ \A d \in Character \ {c} : seats[d] = r.seat[d]
    BY <1>1
  <2>4. keys = r.keyed \ {c} /\ keys \subseteq Character
    BY <1>1 DEF Row
  <2> HIDE DEF seats, keys
  <2>5. q \in Row
    BY <1>1, <2>1, <2>2, <2>4 DEF Row
  <2>6. Live(q) = Live(r) \ {c} /\ Staked(q) = Staked(r)
    BY <1>3, <2>1, <2>3 DEF Live, Staked
  <2>7. Unsettled(r) /\ Unsettled(q) /\ q.status # "closed"
    BY <1>3, <2>1 DEF Sound, Unsettled
  <2>8. TableAccounted(q)
    BY <2>1, <2>6, <2>7 DEF Sound, TableAccounted
  <2>9. \A d \in Character :
          q.seat[d] # "settled" /\ (q.seat[d] = "lost" => d \notin living \ {c})
    BY <2>1, <2>3, <2>7 DEF Sound
  <2>10. Sound(q, living \ {c})
    BY <2>1, <2>4, <2>5, <2>6, <2>7, <2>8, <2>9 DEF Sound, Unsettled
  <2>11. Onward(r, q)
    BY <1>1, <2>1, <2>6 DEF Onward
  <2>12. QED
    BY <2>1, <2>10, <2>11
<1>4. CASE ~(r.by = c /\ r.status # "none") /\ c \notin Live(r)
  <2>1. q = r
    BY <1>4 DEF Without
  <2>2. QED
    BY <1>1, <2>1, OnwardSelf DEF Sound
<1>5. QED
  BY <1>2, <1>3, <1>4

LEMMA RestartInv ==
  ASSUME IndInv, NEW c \in Character, Restart(c)
  PROVE  IndInv'
<1> DEFINE next == [t \in Table |-> Without(table[t], c)]
           others == alive \ {c}
<1>1. \A t \in Table :
        Sound(next[t], others) /\ Onward(table[t], next[t]) /\ next[t].back = table[t].back
  BY WithoutSound DEF IndInv, Good
<1>2. next \in [Table -> Row]
  BY <1>1 DEF Sound
<1>3. table' = next /\ purse' = purse /\ alive' = others /\ present' = present \ {c}
  BY DEF Restart
<1>4. others \in SUBSET alive
  OBVIOUS
<1> HIDE DEF next, others
<1>5. Good(next, purse, others)
  BY <1>1, <1>2, <1>4, QuietGood DEF IndInv
<1>6. QED
  BY <1>3, <1>5 DEF IndInv, others

\* A clock runs out and changes nothing else.
LEMMA TimeInv ==
  ASSUME IndInv, NEW t \in Table, PassChoice(t) \/ PassJoin(t)
  PROVE  IndInv'
<1> DEFINE r == table[t]
<1>1. Sound(r, alive) /\ Unsettled(r) /\ table \in [Table -> Row]
  BY DEF IndInv, Good, PassChoice, PassJoin, Unsettled
<1>2. PICK q : /\ q \in {[r EXCEPT !.choice = "late"], [r EXCEPT !.choice = "over"],
                          [r EXCEPT !.joinOver = TRUE]}
               /\ table' = [table EXCEPT ![t] = q]
               /\ purse' = purse /\ alive' = alive /\ present' = present
  BY DEF PassChoice, PassJoin
<1>3. r = [kind |-> r.kind, by |-> r.by, stake |-> r.stake, pot |-> r.pot,
           status |-> r.status, joinOver |-> r.joinOver, choice |-> r.choice,
           seat |-> r.seat, keyed |-> r.keyed, back |-> r.back]
  BY <1>1 DEF Sound, Row
<1> HIDE DEF r
<1>4. /\ q.stake = r.stake /\ q.pot = r.pot /\ q.back = r.back /\ q.keyed = r.keyed
      /\ q.status = r.status /\ q.seat = r.seat
  BY <1>2, <1>3
<1>5. q \in Row
  <2>1. CASE q = [r EXCEPT !.joinOver = TRUE]
    BY <1>1, <1>3, <2>1 DEF Sound, Row
  <2>2. CASE q = [r EXCEPT !.choice = "late"]
    BY <1>1, <1>3, <2>2 DEF Sound, Row
  <2>3. CASE q = [r EXCEPT !.choice = "over"]
    BY <1>1, <1>3, <2>3 DEF Sound, Row
  <2>4. QED
    BY <1>2, <2>1, <2>2, <2>3
<1>6. SameSeats(r, q)
  BY <1>1, <1>4, <1>5 DEF SameSeats, Unsettled
<1>7. Sound(q, alive) /\ Onward(r, q)
  BY <1>1, <1>6, SameSeatsSound
<1> DEFINE next == [table EXCEPT ![t] = q]
<1>8. next \in [Table -> Row] /\ next[t] = q /\ \A u \in Table \ {t} : next[u] = table[u]
  BY <1>1, <1>5
<1> HIDE DEF next
<1>9. \A u \in Table :
        Sound(next[u], alive) /\ Onward(table[u], next[u]) /\ next[u].back = table[u].back
  BY <1>4, <1>7, <1>8, OnwardSelf DEF IndInv, Good, Sound, r
<1>10. alive \in SUBSET alive
  OBVIOUS
<1>11. Good(next, purse, alive)
  BY <1>8, <1>9, <1>10, QuietGood DEF IndInv
<1>12. QED
  BY <1>2, <1>11 DEF IndInv, next

-----------------------------------------------------------------------------
(* The theorems *)

LEMMA InitInv == Init => IndInv
<1> SUFFICES ASSUME Init
             PROVE  IndInv
  OBVIOUS
<1>1. NoTable \in Row /\ Live(NoTable) = {} /\ Staked(NoTable) = {}
  BY DEF NoTable, Row, Nobody, NoGold, Kinds, Live, Staked
<1>2. TableAccounted(NoTable)
  BY DEF TableAccounted, NoTable, Unsettled
<1>3. Sound(NoTable, Character)
  BY <1>1, <1>2 DEF Sound, NoTable, Unsettled
<1>4. table \in [Table -> Row] /\ \A t \in Table : table[t] = NoTable
  BY <1>1 DEF Init
<1>5. OneKey(table)
  BY <1>4 DEF OneKey, NoTable
<1>6. \A c \in Character : Balanced(c, table, purse)
  <2> SUFFICES ASSUME NEW c \in Character
               PROVE  Balanced(c, table, purse)
    OBVIOUS
  <2>1. \A t \in Table : StakesIn(c, table)[t] = 0 /\ ReturnsIn(c, table)[t] = 0
    BY <1>1, <1>4 DEF StakesIn, ReturnsIn, NoTable, NoGold
  <2>2. Amount(StakesIn(c, table), Table) = 0 /\ Amount(ReturnsIn(c, table), Table) = 0
    BY <2>1, AmountZero
  <2>3. QED
    BY <2>2, TavernAssumption DEF Balanced, Init
<1>7. purse \in [Character -> Nat] /\ alive = Character /\ present \subseteq alive
  BY TavernAssumption DEF Init
<1>8. QED
  BY <1>3, <1>4, <1>5, <1>6, <1>7 DEF IndInv, Good

LEMMA NextInv == IndInv /\ [Next]_vars => IndInv'
<1> SUFFICES ASSUME IndInv, [Next]_vars
             PROVE  IndInv'
  OBVIOUS
<1>1. CASE List
  BY <1>1, ListInv
<1>2. CASE \E t \in Table : Time(t)
  BY <1>2, TimeInv DEF Time
<1>3. CASE \E t \in Table : Touch(t)
  BY <1>3, TouchInv
<1>4. CASE \E t \in Table : RefundDisabled(t)
  BY <1>4, RefundInv DEF RefundDisabled
<1>5. CASE \E c \in Character : Come(c) \/ Go(c)
  BY <1>5, ComeInv
<1>6. CASE \E c \in Character : Restart(c)
  BY <1>6, RestartInv
<1>7. CASE \E c \in Character, k \in Kinds, s \in Stake : Create(c, k, s)
  BY <1>7, CreateInv
<1>8. CASE \E c \in Character, t \in Table, hand \in {"joined", "decided"} : SaveHand(c, t, hand)
  BY <1>8, SaveHandInv
<1>9. CASE \E c \in Character, t \in Table, readiness \in {"eager", "joined"} :
             SetReadiness(c, t, readiness)
  BY <1>9, SetReadinessInv
<1>10. CASE \E c \in Character, t \in Table, lost \in BOOLEAN : FinishSolo(c, t, lost)
  BY <1>10, FinishSoloInv
<1>11. CASE \E c \in Character, t \in Table : Join(c, t)
  BY <1>11, JoinInv
<1>12. CASE \E c \in Character, t \in Table : Start(c, t)
  BY <1>12, StartInv
<1>13. CASE \E c \in Character, t \in Table : Cancel(c, t)
  BY <1>13, RefundInv DEF Cancel, Unsettled
<1>14. CASE \E c \in Character, t \in Table : Decide(c, t)
  BY <1>14, DecideInv
<1>15. CASE \E c \in Character, t \in Table : CancelSolo(c, t)
  BY <1>15, RefundInv DEF CancelSolo, MayPlay, Unsettled
<1>16. CASE \E c \in Character, t \in Table : SaveSolo(c, t)
  BY <1>16, SaveSoloInv
<1>17. CASE UNCHANGED vars
  BY <1>17 DEF vars, IndInv, Good, OneKey, Balanced, StakesIn, ReturnsIn
<1>18. QED
  BY <1>1, <1>2, <1>3, <1>4, <1>5, <1>6, <1>7, <1>8, <1>9, <1>10, <1>11, <1>12, <1>13,
     <1>14, <1>15, <1>16, <1>17 DEF Next

\* Rows, keys and purses agree in every reachable state, for any number of
\* characters and tables and any stakes.
THEOREM TavernInvariant == Spec => []IndInv
<1>1. QED
  BY InitInv, NextInv, PTL DEF Spec

\* The rows have their types, and no purse is overdrawn.
THEOREM Typing == Spec => []TypeOK
<1>1. IndInv => TypeOK
  BY DEF IndInv, Good, TypeOK
<1>2. QED
  BY <1>1, TavernInvariant, PTL

\* A character has one live seat, at a table that is not settled, exactly while it
\* holds a stake key, and nobody is locked out by the key of a game that is over.
THEOREM KeysAreSeats == Spec => []OneSeat
<1>1. IndInv => OneSeat
  BY DEF IndInv, Good, Sound, OneKey, OneSeat
<1>2. QED
  BY <1>1, TavernInvariant, PTL

\* A table gives what was put on it, when it is settled, and a purse has paid each
\* stake once and been given each prize and refund once.
THEOREM StakesPaidOut == Spec => []StakesAccounted
<1>1. IndInv => StakesAccounted
  <2> SUFFICES ASSUME IndInv
               PROVE  StakesAccounted
    OBVIOUS
  <2>1. \A t \in Table : TableAccounted(table[t])
    BY DEF IndInv, Good, Sound
  <2>2. \A c \in alive : PurseAccounted(c)
    BY DEF IndInv, Good, Balanced, PurseAccounted, StakesIn, ReturnsIn, StakesOf, Returns
  <2>3. QED
    BY <2>1, <2>2 DEF StakesAccounted
<1>2. QED
  BY <1>1, TavernInvariant, PTL
=============================================================================
