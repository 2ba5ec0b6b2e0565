------------------------- MODULE StackReservations -------------------------
(***************************************************************************)
(* What one character does with its stacks at the counters of the inn:     *)
(* runs of the Mantok Chest (five things in, a better one out), Mantok     *)
(* sales, level barter and use of consumables.  A run, a sale and a use    *)
(* order reserve the stacks they name from the preview to the answer; the  *)
(* exchange of a barter is made and completed in one transaction.          *)
(*                                                                         *)
(* One action is one committed transaction.  A token is used once; buttons *)
(* may be pressed at any time and in any order, and a press that writes    *)
(* nothing is a stuttering step.  What a service reads before the          *)
(* transaction is read in the same step here: if the stock changes in      *)
(* between, the same rows result when the change follows the step.         *)
(***************************************************************************)
EXTENDS Integers, FiniteSets, FiniteSetsExt, Units

CONSTANTS
  Item,
  Gear,            \* items that can be worn
  Sellable,        \* items of value that no rule protects
  AutoPick,        \* items the chest may pick by itself
  Prize,           \* items the chest may give
  Usable,          \* consumables
  Bandage,         \* item.responsible-panic-bandage
  Loose,           \* items that crafting and upgrades take, asking nobody
  Score,           \* calculateMantokChestItemScore of an item
  Value,           \* goldValue of an item
  Run, Sale, Exchange, Order, \* tokens of the four kinds of row
  Batch,           \* MANTOK_CHEST_BATCH_SIZE, 5 in the code
  SaleRate,        \* MANTOK_SALE_RATE_PERCENT, 42 in the code
  BarterCost,      \* LEVEL_BARTER_COST_GOLD, 1000 in the code
  BarterMinimum,   \* LEVEL_BARTER_MIN_ITEM_VALUE_GOLD, 587 in the code
  BattleOnlyLevel, \* LEVEL_BARTER_BATTLE_ONLY_LEVEL, 13 in the code
  InitialGold,     \* gold of the first life
  StartStack,      \* quantity of every item at the beginning
  MaxStack,        \* bound: a stack grows only below it
  MaxHurt,         \* bound: missing health, in what one unit heals
  MaxLife,         \* bound: number of remorts
  Spot,            \* bound: where the character goes: "bar", "away", "fight"
  NoRow

Token == Run \cup Sale \cup Exchange \cup Order

ASSUME TokensAssumption ==
  /\ Run \cap (Sale \cup Exchange \cup Order) = {}
  /\ Sale \cap (Exchange \cup Order) = {} /\ Exchange \cap Order = {}
  /\ IsFiniteSet(Token) /\ IsFiniteSet(Item)
ASSUME ItemsAssumption ==
  /\ Gear \subseteq Item /\ Sellable \subseteq Item /\ AutoPick \subseteq Item
  /\ Prize \subseteq Item /\ Usable \subseteq Item /\ Loose \subseteq Item
  /\ Score \in [Item -> Nat] /\ Value \in [Item -> Nat]
  /\ \A i \in Sellable : Value[i] > 0
ASSUME BoundsAssumption ==
  /\ Batch \in Nat \ {0} /\ SaleRate \in 1 .. 100
  /\ BarterCost \in Nat /\ BarterMinimum \in Nat \ {0} /\ BattleOnlyLevel \in Nat
  /\ InitialGold \in Nat /\ StartStack \in Nat /\ MaxStack \in Nat
  /\ MaxHurt \in Nat /\ MaxLife \in Nat
  /\ Spot \subseteq {"bar", "away", "fight"}

Contents == [Item -> Nat]

\* What a row says: the units it names, the life it was made in (a run has no
\* such column), the stock its fingerprint remembers, gold to pay or paid, and
\* whether a use order means to restore health to the full.
Row == [lines : Contents, life : Nat, seen : Contents, gold : Nat, whole : BOOLEAN]

ASSUME NoRowAssumption == NoRow \notin Row

Statuses == {"unused", "pending", "completed", "cancelled", "expired"}

VARIABLES
  stack,      \* characterItem.quantity
  worn,       \* items in a slot of characterEquipment
  pledged,    \* items reserved by gift offers
  gold,
  level,
  life,       \* number of remorts
  place,      \* at the bar and free to trade, elsewhere, or in a fight
  hurt,       \* missing health
  calling,    \* a chest handler has swept old runs and not done its work yet
  row, status,
  due,        \* rows older than their time to live
  spent,      \* history: units the answer of a row consumed
  supply      \* history: units that other features made, less those they took

self == <<gold, level, life, place, hurt>>
rows == <<row, status, due>>
vars == <<stack, worn, pledged, self, calling, rows, spent, supply>>
-----------------------------------------------------------------------------
(* Reservations *)

Nothing == [i \in Item |-> 0]
Only(i, n) == [Nothing EXCEPT ![i] = n]
Total(lines) == Amount(lines, Item)
Worth(lines, price) == Amount([i \in Item |-> lines[i] * price[i]], Item)

Named(t) == {i \in Item : row[t].lines[i] > 0}

\* A pending run reserves until it is swept, a sale or an order until it is due.
Live(t) == status[t] = "pending" /\ (t \in due => t \in Run)

\* Fault: sales are not asked.
Held_NoSales(but) == UNION {Named(t) : t \in {u \in Token \ (but \cup Sale) : Live(u)}}

Held(but) == UNION {Named(t) : t \in {u \in Token \ but : Live(u)}}

Reserved(but) == pledged \cup Held(but)

\* Fault: what is worn may be chosen.
Available_Worn(lines, but) ==
  \A i \in Item : lines[i] > 0 => i \notin Reserved(but) /\ lines[i] <= stack[i]

Available(lines, but) ==
  LET claimed == worn \cup Reserved(but)
  IN  \A i \in Item : lines[i] > 0 => i \notin claimed /\ lines[i] <= stack[i]

Minus(units) == [i \in Item |-> stack[i] - units[i]]

Settle(tokens, s) == [t \in Token |-> IF t \in tokens THEN s ELSE status[t]]

\* The row of a token is completed and its units leave the stacks.
Take(t, units) ==
  /\ status' = Settle({t}, "completed")
  /\ spent' = [spent EXCEPT ![t] = units]

Answer(t, s) ==
  /\ status' = Settle({t}, s)
  /\ UNCHANGED <<stack, worn, pledged, self, row, due, spent, supply>>

Open(t, r) ==
  /\ status[t] = "unused"
  /\ row' = [row EXCEPT ![t] = r]
  /\ status' = Settle({t}, "pending")
  /\ UNCHANGED <<stack, worn, pledged, self, due, spent, supply>>

Rewrite(t, r) ==
  /\ row' = [row EXCEPT ![t] = r]
  /\ UNCHANGED <<stack, worn, pledged, self, status, due, spent, supply>>

NewRow(lines, seen, price, whole) ==
  [lines |-> lines, life |-> life, seen |-> seen, gold |-> price, whole |-> whole]

Init ==
  /\ stack = [i \in Item |-> StartStack] /\ supply = stack
  /\ worn = {} /\ pledged = {}
  /\ gold = InitialGold /\ level = 1 /\ life = 0 /\ place = "away" /\ hurt = 0
  /\ calling = FALSE
  /\ row = [t \in Token |-> NoRow] /\ status = [t \in Token |-> "unused"]
  /\ due = {}
  /\ spent = [t \in Token |-> Nothing]
-----------------------------------------------------------------------------
(* Mantok Chest.  Every handler first expires all runs that are older than   *)
(* an hour, in a transaction of its own.                                     *)

CallChest ==
  /\ calling' = TRUE
  /\ status' = Settle({r \in Run \cap due : status[r] = "pending"}, "expired")
  /\ UNCHANGED <<stack, worn, pledged, self, row, due, spent, supply>>

\* The handler that swept goes on to its own work, or writes nothing.
Called == calling /\ calling' = FALSE
CallEnds == Called /\ UNCHANGED <<stack, worn, pledged, self, rows, spent, supply>>

\* The list shows what runs reserve too; the transaction then refuses it.
Listed == {i \in Item : stack[i] > 0 /\ i \notin worn \cup pledged \cup Held(Run)}

\* The cheapest batch of what the chest may pick by itself.
AutoBatch(lines) ==
  LET pick == Listed \cap AutoPick
  IN  /\ Total(lines) = Batch
      /\ \A i \in Item : lines[i] > 0 =>
           /\ i \in pick /\ lines[i] <= stack[i]
           /\ \A j \in pick : lines[j] < stack[j] => Score[i] <= Score[j]

\* A manual run begins empty, an automatic one with a full batch.
StartRun(t, lines) ==
  /\ Called
  /\ lines = Nothing \/ AutoBatch(lines)
  /\ Available(lines, {})
  /\ Open(t, NewRow(lines, Nothing, 0, FALSE))

EditRun(t, lines) ==
  /\ Called
  /\ status[t] = "pending"
  /\ \E i \in Listed :
       \/ /\ lines = [row[t].lines EXCEPT ![i] = @ + 1]
          /\ lines[i] <= stack[i] /\ Total(lines) <= Batch
       \/ row[t].lines[i] > 0 /\ lines = [row[t].lines EXCEPT ![i] = @ - 1]
  /\ Available(lines, {t})
  /\ Rewrite(t, [row[t] EXCEPT !.lines = lines])

\* Fault: the status is not part of the update.
CancelRun_Always(t) == Called /\ status[t] # "unused" /\ Answer(t, "cancelled")

CancelRun(t) == Called /\ status[t] = "pending" /\ Answer(t, "cancelled")

\* Things worth more than the average of the batch, new ones if there are any;
\* which of them is given, luck decides.
Candidates(lines) ==
  LET better == {i \in Prize : Score[i] * Batch > Worth(lines, Score)}
      fresh  == {i \in better : lines[i] = 0}
  IN  IF fresh # {} THEN fresh ELSE better

\* Fault: the status is not claimed, so a second press trades again.
ConfirmRun_Twice(t, prize) ==
  LET lines == row[t].lines
  IN  /\ Called
      /\ status[t] \in {"pending", "completed"}
      /\ Total(lines) = Batch /\ Available(lines, {t})
      /\ prize \in Candidates(lines)
      /\ Take(t, lines)
      /\ stack' = [Minus(lines) EXCEPT ![prize] = @ + 1]
      /\ supply' = [supply EXCEPT ![prize] = @ + 1]
      /\ UNCHANGED <<worn, pledged, self, row, due>>

\* Fault: the units of the manual selection are trusted.
ConfirmRun_Stale(t, prize) ==
  LET lines == row[t].lines
  IN  /\ Called
      /\ status[t] = "pending"
      /\ Total(lines) = Batch
      /\ prize \in Candidates(lines)
      /\ Take(t, lines)
      /\ stack' = [Minus(lines) EXCEPT ![prize] = @ + 1]
      /\ supply' = [supply EXCEPT ![prize] = @ + 1]
      /\ UNCHANGED <<worn, pledged, self, row, due>>

\* Fault: equipment is not asked again.
ConfirmRun_Worn(t, prize) ==
  LET lines == row[t].lines
  IN  /\ Called
      /\ status[t] = "pending"
      /\ Total(lines) = Batch /\ Available_Worn(lines, {t})
      /\ prize \in Candidates(lines)
      /\ Take(t, lines)
      /\ stack' = [Minus(lines) EXCEPT ![prize] = @ + 1]
      /\ supply' = [supply EXCEPT ![prize] = @ + 1]
      /\ UNCHANGED <<worn, pledged, self, row, due>>

ConfirmRun(t, prize) ==
  LET lines == row[t].lines
  IN  /\ Called
      /\ status[t] = "pending"
      /\ Total(lines) = Batch /\ Available(lines, {t})
      /\ prize \in Candidates(lines)
      /\ Take(t, lines)
      /\ stack' = [Minus(lines) EXCEPT ![prize] = @ + 1]
      /\ supply' = [supply EXCEPT ![prize] = @ + 1]
      /\ UNCHANGED <<worn, pledged, self, row, due>>
-----------------------------------------------------------------------------
(* Mantok sale, at the bar only *)

Payout(lines) == (Worth(lines, Value) * SaleRate + 99) \div 100

StartSale(t) ==
  /\ place = "bar"
  /\ Open(t, NewRow(Nothing, Nothing, 0, FALSE))
  /\ UNCHANGED calling

\* What the counter lists: other sales are not asked, the transaction does that.
OnSale == {i \in Sellable : stack[i] > 0 /\ i \notin worn \cup pledged \cup Held(Sale)}

Clip(lines) == [i \in Item |-> IF i \in OnSale THEN Min({lines[i], stack[i]}) ELSE 0]

\* One unit more, one less, all, none, or a button that no longer fits.
SaleEdits(lines) ==
  {Nothing, Clip(stack), Clip(lines)}
  \cup {Clip([lines EXCEPT ![i] = @ + 1]) : i \in OnSale}
  \cup {Clip([lines EXCEPT ![i] = @ - 1]) : i \in {j \in OnSale : lines[j] > 0}}

EditSale(t, lines) ==
  /\ place = "bar" /\ status[t] = "pending" /\ t \notin due
  /\ row[t].life = life
  /\ lines \in SaleEdits(row[t].lines) /\ Available(lines, {t})
  /\ LET seen == [i \in Item |-> IF lines[i] > 0 THEN stack[i] ELSE 0]
     IN  Rewrite(t, [row[t] EXCEPT !.lines = lines, !.seen = seen, !.gold = Payout(lines)])
  /\ UNCHANGED calling

CancelSale(t) ==
  /\ status[t] = "pending" /\ row[t].life = life
  /\ Answer(t, "cancelled") /\ UNCHANGED calling

\* Editing or confirming a sale that is due expires it.
LateSale(t) ==
  /\ place = "bar" /\ status[t] = "pending" /\ t \in due
  /\ Answer(t, "expired") /\ UNCHANGED calling

\* The stock is what the fingerprint says, and nothing else has a claim on it.
SaleHolds(t) ==
  /\ row[t].lines # Nothing /\ Available(row[t].lines, {t})
  /\ \A i \in Named(t) : row[t].seen[i] = stack[i]

\* Fault: the deadline is not looked at again.
ConfirmSale_Late(t) ==
  /\ place = "bar" /\ status[t] = "pending"
  /\ row[t].life = life /\ SaleHolds(t)
  /\ Take(t, row[t].lines)
  /\ stack' = Minus(row[t].lines)
  /\ gold' = gold + row[t].gold
  /\ UNCHANGED <<worn, pledged, level, life, place, hurt, calling, row, due, supply>>

\* Fault: the price is counted on the whole stack.
ConfirmSale_Stack(t) ==
  /\ place = "bar" /\ status[t] = "pending" /\ t \notin due
  /\ row[t].life = life /\ SaleHolds(t)
  /\ Take(t, row[t].lines)
  /\ stack' = Minus(row[t].lines)
  /\ gold' = gold + Payout(row[t].seen)
  /\ UNCHANGED <<worn, pledged, level, life, place, hurt, calling, row, due, supply>>

ConfirmSale(t) ==
  /\ place = "bar" /\ status[t] = "pending" /\ t \notin due
  /\ row[t].life = life /\ SaleHolds(t)
  /\ Take(t, row[t].lines)
  /\ stack' = Minus(row[t].lines)
  /\ gold' = gold + row[t].gold
  /\ UNCHANGED <<worn, pledged, level, life, place, hurt, calling, row, due, supply>>
-----------------------------------------------------------------------------
(* Level barter: things of enough value, and gold for the rest *)

BarterGold(lines) == Min({gold, Max({0, BarterCost - Worth(lines, Value)})})
BarterValue(lines) == Worth(lines, Value) + BarterGold(lines)

Plans ==
  {lines \in [Item -> 0 .. Max({stack[i] : i \in Item})] :
     /\ \A i \in Item : lines[i] > 0 => i \in Sellable
     /\ Available(lines, {})
     /\ Worth(lines, Value) >= BarterMinimum
     /\ BarterValue(lines) >= BarterCost}

\* Least overpaid, then least gold, then fewest things.
Cheaper(a, b) ==
  \/ BarterValue(a) < BarterValue(b)
  \/ /\ BarterValue(a) = BarterValue(b)
     /\ \/ BarterGold(a) < BarterGold(b)
        \/ BarterGold(a) = BarterGold(b) /\ Total(a) < Total(b)

BestPlans ==
  LET plans == Plans
  IN  {p \in plans : \A q \in plans : ~Cheaper(q, p)}

\* The button names the plan; it counts only while the plan is still the one
\* that the stock, the gold and the level give.
Barter(t) ==
  /\ status[t] = "unused"
  /\ level + 1 < BattleOnlyLevel
  /\ \E lines \in BestPlans :
       /\ row' = [row EXCEPT ![t] = NewRow(lines, Nothing, BarterGold(lines), FALSE)]
       /\ Take(t, lines)
       /\ stack' = Minus(lines)
       /\ gold' = gold - BarterGold(lines)
  /\ level' = level + 1
  /\ UNCHANGED <<worn, pledged, life, place, hurt, calling, due, supply>>
-----------------------------------------------------------------------------
(* Using a consumable: a preview reserves the stack, a confirm consumes.  An *)
(* order with "whole" set takes as many bandages as full health needs.       *)

Needed(whole) == IF whole THEN hurt ELSE 1

Free(i, but) == stack[i] >= 1 /\ i \notin worn \cup Reserved(but)

OrdersOn(i) == {t \in Order : status[t] = "pending" /\ i \in Named(t)}
LiveOn(i)   == {t \in OrdersOn(i) : Live(t)}

\* A preview first expires what is due on the stack, then settles the live
\* order of the other kind, if there is one.
Cleared(i, whole) ==
  [t \in Token |->
     CASE t \in OrdersOn(i) \ LiveOn(i) -> "expired"
       [] t \in LiveOn(i) /\ row[t].whole # whole -> "cancelled"
       [] OTHER -> status[t]]

SameKind(i, whole) == {t \in LiveOn(i) : row[t].whole = whole}

\* Fault: the order of the other kind is left alone.
Preview_Beside(t, i, whole) ==
  /\ place # "fight" /\ status[t] = "unused"
  /\ SameKind(i, whole) = {}
  /\ Free(i, LiveOn(i)) /\ hurt > 0 /\ stack[i] >= Needed(whole)
  /\ row' = [row EXCEPT ![t] =
       NewRow(Only(i, Needed(whole)), IF whole THEN Nothing ELSE Only(i, stack[i]), 0, whole)]
  /\ status' = Settle({t}, "pending")
  /\ UNCHANGED <<stack, worn, pledged, self, calling, due, spent, supply>>

Preview(t, i, whole) ==
  /\ place # "fight" /\ status[t] = "unused"
  /\ SameKind(i, whole) = {}
  /\ Free(i, LiveOn(i)) /\ hurt > 0 /\ stack[i] >= Needed(whole)
  /\ row' = [row EXCEPT ![t] =
       NewRow(Only(i, Needed(whole)), IF whole THEN Nothing ELSE Only(i, stack[i]), 0, whole)]
  /\ status' = [Cleared(i, whole) EXCEPT ![t] = "pending"]
  /\ UNCHANGED <<stack, worn, pledged, self, calling, due, spent, supply>>

\* The clearing is committed even if no preview can be made.
PreviewRefused(i, whole) ==
  /\ place # "fight"
  /\ SameKind(i, whole) = {}
  /\ ~(Free(i, LiveOn(i)) /\ hurt > 0 /\ stack[i] >= Needed(whole))
  /\ status' = Cleared(i, whole)
  /\ UNCHANGED <<stack, worn, pledged, self, calling, row, due, spent, supply>>

\* Asking again for a preview that is live: it stands, or is answered.
Refreshed(t, i) ==
  CASE ~Free(i, {t}) \/ (~row[t].whole /\ row[t].seen[i] # stack[i]) -> "expired"
    [] hurt = 0 -> "completed"
    [] row[t].whole /\ stack[i] < hurt -> "expired"
    [] OTHER -> "pending"

PreviewAgain(t, i) ==
  /\ place # "fight"
  /\ t \in LiveOn(i)
  /\ status' = [Cleared(i, row[t].whole) EXCEPT ![t] = Refreshed(t, i)]
  /\ UNCHANGED <<stack, worn, pledged, self, calling, row, due, spent, supply>>

OrderHolds(t) ==
  /\ row[t].life = life
  /\ \A i \in Named(t) :
       /\ Free(i, {t}) /\ row[t].lines[i] <= stack[i]
       /\ ~row[t].whole => row[t].seen[i] = stack[i]

\* A single use heals some health; a full restore, exactly what is missing.
Fits(t) ==
  hurt > 0 /\ (row[t].whole => Total(row[t].lines) = hurt)

\* Fault: the claim of the order accepts one that is answered.
Confirmable_Again(t) ==
  status[t] \in {"pending", "completed"} /\ t \notin due /\ place # "fight"

Confirmable(t) == status[t] = "pending" /\ t \notin due /\ place # "fight"

\* Fault: the health seen at the preview is trusted.
ConfirmUse_Frozen(t) ==
  /\ Confirmable(t) /\ OrderHolds(t)
  /\ Take(t, row[t].lines)
  /\ stack' = Minus(row[t].lines)
  /\ hurt' = Max({0, hurt - Total(row[t].lines)})
  /\ UNCHANGED <<worn, pledged, gold, level, life, place, calling, row, due, supply>>

ConfirmUse(t) ==
  /\ Confirmable(t) /\ OrderHolds(t) /\ Fits(t)
  /\ Take(t, row[t].lines)
  /\ stack' = Minus(row[t].lines)
  /\ hurt' = hurt - Total(row[t].lines)
  /\ UNCHANGED <<worn, pledged, gold, level, life, place, calling, row, due, supply>>

\* With full health the order is completed and nothing is consumed.
ConfirmUseFull(t) ==
  /\ Confirmable(t) /\ OrderHolds(t) /\ hurt = 0
  /\ Answer(t, "completed") /\ UNCHANGED calling

ConfirmUseStale(t) ==
  /\ Confirmable(t)
  /\ ~OrderHolds(t) \/ (hurt > 0 /\ ~Fits(t))
  /\ Answer(t, "expired") /\ UNCHANGED calling

\* Confirming or cancelling an order that is due expires it, in a fight too.
LateUse(t) ==
  /\ status[t] = "pending" /\ t \in due
  /\ Answer(t, "expired") /\ UNCHANGED calling

CancelUse(t) ==
  /\ status[t] = "pending" /\ t \notin due
  /\ Answer(t, "cancelled") /\ UNCHANGED calling

\* In a fight a use withdraws the character's own preview of the item.  That is
\* committed even if the turn has passed or the item is not free.
CombatUse(i, taken) ==
  /\ place = "fight" /\ i \in Usable
  /\ taken \in {0, 1} /\ (taken = 1 => Free(i, Order))
  /\ stack' = [stack EXCEPT ![i] = @ - taken]
  /\ supply' = [supply EXCEPT ![i] = @ - taken]
  /\ status' = Settle(LiveOn(i), "cancelled")
  /\ UNCHANGED <<worn, pledged, self, calling, row, due, spent>>
-----------------------------------------------------------------------------
(* Other features that meet the same stacks *)

ChangeStack(i, n) ==
  /\ stack' = [stack EXCEPT ![i] = @ + n]
  /\ supply' = [supply EXCEPT ![i] = @ + n]
  /\ UNCHANGED <<worn, self, calling, rows, spent>>

\* A reward.
Gain(i) == stack[i] < MaxStack /\ ChangeStack(i, 1) /\ UNCHANGED pledged

\* Crafting, exchanges and upgrades ask for no reservation.
SpendLoose(i) ==
  i \in Loose /\ stack[i] > 0 /\ ChangeStack(i, -1) /\ UNCHANGED pledged

\* A gift is offered, withdrawn, or handed over; a parcel leaves at once.
Pledge(i) ==
  /\ i \notin pledged /\ Free(i, {})
  /\ pledged' = pledged \cup {i}
  /\ UNCHANGED <<stack, worn, self, calling, rows, spent, supply>>

Unpledge(i) ==
  /\ i \in pledged
  /\ pledged' = pledged \ {i}
  /\ UNCHANGED <<stack, worn, self, calling, rows, spent, supply>>

GiveAway(i) ==
  /\ stack[i] > 0 /\ i \notin worn \cup Held({})
  /\ ChangeStack(i, -1)
  /\ pledged' = pledged \ {i}

Wear(i) ==
  /\ i \in Gear \ worn /\ stack[i] > 0
  /\ worn' = worn \cup {i}
  /\ UNCHANGED <<stack, pledged, self, calling, rows, spent, supply>>

TakeOff(i) ==
  /\ i \in worn
  /\ worn' = worn \ {i}
  /\ UNCHANGED <<stack, pledged, self, calling, rows, spent, supply>>

\* Walking, fighting, being hurt and regenerating.
Roam(there, health) ==
  /\ there \in Spot /\ health \in 0 .. MaxHurt
  /\ place' = there /\ hurt' = health
  /\ UNCHANGED <<stack, worn, pledged, gold, level, life, calling, rows, spent, supply>>

\* Fault: only sales are withdrawn; runs, which carry no life, and orders stay.
ClosedByRemort_Sales == {t \in Sale : status[t] = "pending"}

ClosedByRemort == {t \in Token : status[t] = "pending"}

\* A new life keeps one unit each of at most five items and no live row, and
\* starts in full health; a solo fight ends with the old one.
Remort(kept) ==
  LET left == [i \in Item |-> IF i \in kept THEN 1 ELSE 0]
  IN  /\ life < MaxLife
      /\ kept \subseteq {i \in Item : stack[i] > 0} /\ Cardinality(kept) <= 5
      /\ stack' = left
      /\ supply' = [i \in Item |-> supply[i] - stack[i] + left[i]]
      /\ worn' = {} /\ pledged' = {}
      /\ gold' = 0 /\ level' = 1 /\ life' = life + 1
      /\ place' = IF place = "fight" THEN "away" ELSE place
      /\ status' = Settle(ClosedByRemort, "cancelled")
      /\ hurt' = 0
      /\ UNCHANGED <<calling, row, due, spent>>

PassDeadline(t) ==
  /\ status[t] = "pending" /\ t \notin due
  /\ due' = due \cup {t}
  /\ UNCHANGED <<stack, worn, pledged, self, calling, row, status, spent, supply>>
-----------------------------------------------------------------------------
ChestStep ==
  \/ CallChest \/ CallEnds
  \/ \E t \in Run :
       \/ \E lines \in [Item -> 0 .. Batch] : StartRun(t, lines) \/ EditRun(t, lines)
       \/ \E prize \in Prize : ConfirmRun(t, prize)
       \/ CancelRun(t)

SaleStep ==
  \E t \in Sale :
    \/ StartSale(t) \/ CancelSale(t) \/ LateSale(t) \/ ConfirmSale(t)
    \/ status[t] = "pending" /\ \E lines \in SaleEdits(row[t].lines) : EditSale(t, lines)

BarterStep == \E t \in Exchange : Barter(t)

UseStep ==
  \/ \E i \in Usable, whole \in BOOLEAN :
       /\ whole => i = Bandage
       /\ PreviewRefused(i, whole) \/ \E t \in Order : Preview(t, i, whole)
  \/ \E t \in Order :
       \/ \E i \in Usable : PreviewAgain(t, i)
       \/ ConfirmUse(t) \/ ConfirmUseFull(t) \/ ConfirmUseStale(t)
       \/ LateUse(t) \/ CancelUse(t)
  \/ \E i \in Usable, taken \in {0, 1} : CombatUse(i, taken)

OtherStep ==
  \/ \E i \in Item :
       \/ Gain(i) \/ SpendLoose(i) \/ Pledge(i) \/ Unpledge(i) \/ GiveAway(i)
       \/ Wear(i) \/ TakeOff(i)
  \/ \E there \in Spot, health \in 0 .. MaxHurt : Roam(there, health)
  \/ \E kept \in SUBSET Item : Remort(kept)
  \/ \E t \in Token : PassDeadline(t)

Next == ChestStep \/ SaleStep \/ BarterStep \/ UseStep \/ OtherStep

Spec == Init /\ [][Next]_vars
-----------------------------------------------------------------------------
(* Properties *)

\* Type correctness.  The schema's columns; no stack, no purse and no health
\* goes below zero, and a token has a row exactly when it has been used.
TypeOK ==
  /\ stack \in Contents /\ supply \in Contents
  /\ worn \subseteq Gear /\ pledged \subseteq Item
  /\ gold \in Nat /\ level \in Nat \ {0} /\ life \in 0 .. MaxLife
  /\ place \in {"bar", "away", "fight"} /\ hurt \in 0 .. MaxHurt
  /\ calling \in BOOLEAN
  /\ row \in [Token -> Row \cup {NoRow}] /\ status \in [Token -> Statuses]
  /\ \A t \in Token : status[t] = "unused" <=> row[t] = NoRow
  /\ due \subseteq {t \in Token : status[t] # "unused"}
  /\ spent \in [Token -> Contents]

\* Nothing is lost or doubled: what is left and what answers consumed add up to
\* what was there.  A run, a sale or an exchange that is completed consumed its
\* row, a completed order its row or nothing, and no other row took anything.
UnitsAccounted ==
  /\ \A i \in Item : stack[i] + Amount([t \in Token |-> spent[t][i]], Token) = supply[i]
  /\ \A t \in Token :
       IF status[t] = "completed"
       THEN spent[t] = row[t].lines \/ (t \in Order /\ spent[t] = Nothing)
       ELSE spent[t] = Nothing

Done(kind) == {t \in kind : status[t] = "completed" /\ row[t].life = life}

\* The purse is what the sales of this life paid for the units they really took,
\* less what its exchanges cost, and every exchange met the price of a level.
GoldAccounted ==
  /\ gold + Amount([t \in Exchange |-> row[t].gold], Done(Exchange)) =
       (IF life = 0 THEN InitialGold ELSE 0)
       + Amount([t \in Sale |-> Payout(spent[t])], Done(Sale))
  /\ level = 1 + Cardinality(Done(Exchange))
  /\ \A t \in Done(Exchange) : Worth(spent[t], Value) + row[t].gold >= BarterCost

\* Nothing is made up or lost at a counter, whatever is pressed twice or late.
BooksBalance == UnitsAccounted /\ GoldAccounted

\* No stack is claimed twice: two rows that reserve name different items, and
\* none of them an item that a gift offer holds.
OneClaimPerStack ==
  /\ \A t, u \in Token : t # u /\ Live(t) /\ Live(u) => Named(t) \cap Named(u) = {}
  /\ \A t \in Token : Live(t) => Named(t) \cap pledged = {}

\* After a remort no row of the life before can be answered any more.
LiveRowsOfThisLife == \A t \in Token : status[t] = "pending" => row[t].life = life

\* A claim is the only one on its stack, and was made in this life.
ClaimsAreSound == OneClaimPerStack /\ LiveRowsOfThisLife

\* One pending use order for a stack, also among those that are due: the
\* reservation key of the table is unique.
OneOrderPerItem == \A i \in Item : Cardinality(OrdersOn(i)) <= 1

\* Whatever button is pressed again or late, an answer stands as it was given.
AnswersAreFinal ==
  [][\A t \in Token : status[t] \notin {"unused", "pending"} =>
        status'[t] = status[t] /\ row'[t] = row[t] /\ spent'[t] = spent[t]]_vars

\* A sale or an order that is due consumes nothing, though it may still be
\* pending and its stock untouched: another row may have been given that stock.
OverdueTakesNothing ==
  [][\A t \in due \cap (Sale \cup Order) : spent'[t] = spent[t]]_vars

\* A row takes what it takes with its one answer, and in time.
AnsweredInTime == AnswersAreFinal /\ OverdueTakesNothing

\* Each unit that a use order consumes heals: no unit is taken for health that
\* came back between the preview and the answer.
NothingWasted ==
  [][\A t \in Order : spent'[t] # spent[t] => hurt - hurt' = Total(spent'[t])]_vars

\* What is worn, or offered as a gift, is neither reserved nor consumed.
\* ItemTransfers relies on it: there these steps are Hold and SpendHeld.
TransfersRespected ==
  [][\A t \in Token :
       LET before == IF Live(t) THEN Named(t) ELSE {}
           claims == {i \in Item : row'[t] # NoRow /\ Live(t)' /\ row'[t].lines[i] > 0}
           takes  == {i \in Item : spent'[t] # spent[t] /\ spent'[t][i] > 0}
       IN  /\ \A i \in (claims \ before) \cup takes : i \notin worn \cup pledged
           /\ \A i \in claims \ before : stack[i] >= row'[t].lines[i]]_vars
=============================================================================
