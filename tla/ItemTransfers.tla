--------------------------- MODULE ItemTransfers ---------------------------
(***************************************************************************)
(* Gifts and postal parcels between characters: one unit handed over in    *)
(* the same place (a gift), or a paid package that waits in postal custody *)
(* until the recipient answers (a parcel).                                 *)
(*                                                                         *)
(* One action is one committed database transaction of                     *)
(* prismaItemTransferRepository.ts, of the remort and restart repositories *)
(* that settle its rows, or of another feature that touches the same       *)
(* stacks.  Handlers may be called by anyone, at any time and any number   *)
(* of times with any token; a call that returns without writing is a       *)
(* stuttering step and is not written down.                                *)
(***************************************************************************)
EXTENDS Integers, FiniteSets, Units

CONSTANTS
  Character,       \* players' characters, one per Telegram user
  Item,            \* item ids; a stack is the quantity of one id
  Gear,            \* items that can be worn
  Giftable,        \* items the tag policy lets a gift carry
  Reservable,      \* items that chest runs, sales and use orders may take
  Loose,           \* items that crafting and exchanges take, asking nobody
  Donors,          \* gear that an upgrade attempt may burn
  Upgrade,         \* pairs of a piece of gear and its next level
  Spark,           \* item.iskrokamin, which every upgrade attempt costs
  UpgradeFees,     \* gold that an attempt may cost
  CombatKind,      \* kinds of combat lease: "solo" is what a remort may drop
  Place,           \* locations
  Gift, Parcel,    \* tokens of the two kinds of transfer row
  Acquainted,      \* pairs with a duel or an applauded performance behind them
  MaxUnits,        \* ITEM_POSTAL_MAX_UNITS_PER_TYPE, 93 in the code
  MaxTypes,        \* ITEM_POSTAL_MAX_DISTINCT_TYPES, 5 in the code
  MaxKept,         \* REMORT_MAX_PRESERVED_ITEMS, 5 in the code
  InitialGold,     \* gold of a new character
  StartStack,      \* quantity of every item a character begins with
  MaxStack,        \* bound: a stack grows by rewards only below it
  MaxLife,         \* bound: number of remorts of a character
  NoRow,           \* a token that names no row
  Nowhere          \* the locationId of a parcel: null

Transfer == Gift \cup Parcel

ASSUME SetsAssumption ==
  /\ Gear \subseteq Item /\ Giftable \subseteq Item /\ Reservable \subseteq Item
  /\ Loose \subseteq Item /\ Donors \subseteq Gear
  /\ CombatKind \subseteq {"solo", "other"}
  /\ Nowhere \notin Place
  /\ Gift \cap Parcel = {}
  /\ IsFiniteSet(Transfer) /\ IsFiniteSet(Item) /\ IsFiniteSet(Character)
ASSUME NumbersAssumption ==
  /\ MaxUnits \in Nat \ {0} /\ MaxTypes \in Nat /\ MaxKept \in Nat /\ InitialGold \in Nat
  /\ StartStack \in Nat /\ MaxStack \in Nat /\ MaxLife \in Nat
  /\ UpgradeFees \subseteq Nat

\* A piece of gear that has a next level is always a valid donor for another.
ASSUME UpgradeAssumption ==
  /\ \A u \in Upgrade :
       u[1] \in Donors /\ u[2] \in Gear /\ u[1] # u[2]
  /\ Upgrade # {} => Spark \in Loose \ Gear

\* What a sink may take that asks neither for reservations nor who wears it.
Unguarded == Loose \cup Donors

Contents == [Item -> 0 .. MaxUnits]

Row == [from : Character, to : Character, lines : Contents,
        fromLife : Nat, toLife : Nat, place : Place \cup {Nowhere}]

ASSUME NoRowAssumption == NoRow \notin Row

VARIABLES
  alive,      \* characters that exist; a restart deletes the row
  stack,      \* characterItem.quantity, 0 when there is no row
  equipped,   \* items a character wears
  gold,
  life,       \* number of remorts
  lease,      \* activeCombatLease: none, a solo fight, any other combat
  place,      \* lastSeenLocationId
  held,       \* items reserved by a chest run, a sale or a use order
  row,        \* what the transfer row of a token says
  status,     \* its status; "unused" and "purged" when there is no row
  due,        \* rows whose expiresAt has passed
  journal,    \* history: how often the goods of a row left, arrived, came back
  supply      \* history: units that rewards have made and sinks have not eaten

goods == <<stack, gold, journal, supply>>
person == <<alive, equipped, life, lease, place, held>>
vars == <<alive, stack, equipped, gold, life, lease, place, held,
          row, status, due, journal, supply>>

Statuses == {"unused", "draft", "pending", "completed", "declined",
             "cancelled", "expired", "purged"}
Live     == {"draft", "pending"}

TypeOK ==
  /\ alive \in SUBSET Character
  /\ stack \in [Character -> [Item -> Nat]]
  /\ equipped \in [Character -> SUBSET Gear]
  /\ gold \in [Character -> Nat]
  /\ life \in [Character -> Nat]
  /\ lease \in [Character -> {"none", "solo", "other"}]
  /\ place \in [Character -> Place]
  /\ held \in [Character -> SUBSET Item]
  /\ row \in [Transfer -> Row \cup {NoRow}]
  /\ status \in [Transfer -> Statuses]
  /\ \A t \in Transfer : row[t] = NoRow <=> status[t] \in {"unused", "purged"}
  /\ due \in SUBSET Transfer
  /\ journal \in [Transfer -> [out : Nat, in : Nat, back : Nat]]
  /\ supply \in [Item -> Int]

-----------------------------------------------------------------------------
(* What a row holds and what it reserves *)

LineItems(t) == {i \in Item : row[t].lines[i] > 0}

\* Fault: the flag outlives the answer.
InCustody_KeptFlag == {p \in Parcel : status[p] \in {"pending", "completed"}}

\* A parcel in custody: resultJson.postalCustody = "sender-debited".
InCustody == {p \in Parcel : status[p] = "pending"}

\* The units of item i in the parcels P, one element per unit.
UnitsIn(P, i) == {u \in P \X (1 .. MaxUnits) : u[2] <= row[u[1]].lines[i]}

Reserving(t) == status[t] = "pending" /\ t \notin due

\* Fault: gift rows reserve nothing.
ReservedBy_ParcelsOnly(c, except) ==
  UNION {LineItems(t) : t \in {x \in Parcel \ except :
                                 Reserving(x) /\ row[x].from = c}}

ReservedBy(c, except) ==
  UNION {LineItems(t) : t \in {x \in Transfer \ except :
                                 Reserving(x) /\ row[x].from = c}}

\* Fault: eligibility asks the other features only.
Reserved_NoTransfers(c, except) == held[c]

Reserved(c, except) == held[c] \cup ReservedBy(c, except)

\* Fault: nobody asks whether there is a unit left.
Eligible_Empty(c, i, q, except) == i \notin equipped[c] /\ i \notin Reserved(c, except)

\* buildItemPostalEligibleStacks over the quantities q.
Eligible(c, i, q, except) ==
  q[i] >= 1 /\ i \notin equipped[c] /\ i \notin Reserved(c, except)

Known(c, d) ==
  \/ {c, d} \in Acquainted
  \/ \E t \in Transfer : status[t] = "completed" /\ {row[t].from, row[t].to} = {c, d}

DeliveryFee(t) == 5 + Cardinality(LineItems(t))

NotFighting(t) == lease[row[t].from] = "none" /\ lease[row[t].to] = "none"

SameLives(t) ==
  life[row[t].from] = row[t].fromLife /\ life[row[t].to] = row[t].toLife

-----------------------------------------------------------------------------
(* Moves of goods *)

Plus(q, P)  == [i \in Item |-> q[i] + Cardinality(UnitsIn(P, i))]
Minus(q, t) == [i \in Item |-> q[i] - row[t].lines[i]]

\* Rows of one sender whose goods come home together.
ReturnedTo(c, P) == {p \in P : p \in InCustody /\ row[p].from = c}

\* Fault: rows close and nothing comes home.
StackAfterReturn_Lost(P) == stack

\* Every sender gets back what the parcels P hold in custody.
StackAfterReturn(P) ==
  [c \in Character |-> Plus(stack[c], ReturnedTo(c, P))]

\* One more move out of the sender's stacks, into the recipient's, back home.
MovedOut(j)  == [out |-> j.out + 1, in |-> j.in, back |-> j.back]
MovedIn(j)   == [out |-> j.out, in |-> j.in + 1, back |-> j.back]
MovedBack(j) == [out |-> j.out, in |-> j.in, back |-> j.back + 1]

NoteReturn(P) ==
  [t \in Transfer |-> IF t \in P \cap InCustody
                      THEN MovedBack(journal[t]) ELSE journal[t]]

\* setTransferStatus for the rows P.
Settle(P, s) == [t \in Transfer |-> IF t \in P THEN s ELSE status[t]]

-----------------------------------------------------------------------------
Init ==
  /\ alive = Character
  /\ stack = [c \in Character |-> [i \in Item |-> StartStack]]
  /\ equipped = [c \in Character |-> {}]
  /\ gold = [c \in Character |-> InitialGold]
  /\ life = [c \in Character |-> 0]
  /\ lease = [c \in Character |-> "none"]
  /\ place \in [Character -> Place]
  /\ held = [c \in Character |-> {}]
  /\ row = [t \in Transfer |-> NoRow]
  /\ status = [t \in Transfer |-> "unused"]
  /\ due = {}
  /\ journal = [t \in Transfer |-> [out |-> 0, in |-> 0, back |-> 0]]
  /\ supply = [i \in Item |-> StartStack * Cardinality(Character)]

-----------------------------------------------------------------------------
(* Gifts *)

GiftLines(i) == [j \in Item |-> IF j = i THEN 1 ELSE 0]

\* releaseExpiredGiftReservation: the sender's forgotten offers of this item.
ForgottenGifts(s, i) ==
  {g \in Gift : /\ status[g] = "pending" /\ g \in due
                /\ row[g].from = s /\ i \in LineItems(g)}

CanOffer(s, r) ==
  /\ s \in alive /\ r \in alive /\ s # r
  /\ lease[s] = "none" /\ lease[r] = "none"
  /\ place[s] = place[r]

GiftEligible(s, i) == i \in Giftable /\ Eligible(s, i, stack[s], {})

CreateGift(g, s, r, i) ==
  /\ status[g] = "unused"
  /\ CanOffer(s, r)
  /\ GiftEligible(s, i)
  /\ row' = [row EXCEPT ![g] =
       [from |-> s, to |-> r, lines |-> GiftLines(i), fromLife |-> life[s],
        toLife |-> life[r], place |-> place[s]]]
  /\ status' = [Settle(ForgottenGifts(s, i), "expired") EXCEPT ![g] = "pending"]
  /\ UNCHANGED <<goods, person, due>>

\* The offer is refused as stale, after the sweep has been written.
CreateGiftStale(s, r, i) ==
  /\ CanOffer(s, r)
  /\ ~GiftEligible(s, i)
  /\ status' = Settle(ForgottenGifts(s, i), "expired")
  /\ UNCHANGED <<goods, person, row, due>>

AcceptGift(g) ==
  LET s == row[g].from
      r == row[g].to
      taken == [stack EXCEPT ![s] = Minus(@, g)]
  IN  /\ status[g] = "pending" /\ g \notin due
      /\ NotFighting(g)
      /\ place[s] = row[g].place /\ place[r] = row[g].place
      /\ SameLives(g)
      /\ \A i \in LineItems(g) : Eligible(s, i, stack[s], {g})
      /\ stack' = [taken EXCEPT ![r] = [i \in Item |-> @[i] + row[g].lines[i]]]
      /\ status' = [status EXCEPT ![g] = "completed"]
      /\ journal' = [journal EXCEPT ![g] = MovedIn(MovedOut(@))]
      /\ UNCHANGED <<gold, supply, person, row, due>>

\* Fault: setTransferStatus without an expected status.
RefuseGift_NoGuard(g, answer) ==
  /\ status[g] \notin {"unused", "purged"}
  /\ status' = [status EXCEPT ![g] = answer]
  /\ UNCHANGED <<goods, person, row, due>>

\* The recipient declines or the sender cancels before the offer expires.
RefuseGift(g, answer) ==
  /\ status[g] = "pending" /\ g \notin due
  /\ answer \in {"declined", "cancelled"}
  /\ status' = [status EXCEPT ![g] = answer]
  /\ UNCHANGED <<goods, person, row, due>>

\* Any answer that comes too late.
LateGiftAnswer(g) ==
  /\ status[g] = "pending" /\ g \in due
  /\ status' = [status EXCEPT ![g] = "expired"]
  /\ UNCHANGED <<goods, person, row, due>>

-----------------------------------------------------------------------------
(* Parcels *)

DraftParcel(p, s, r) ==
  /\ status[p] = "unused"
  /\ s \in alive /\ r \in alive /\ s # r
  /\ Known(s, r)
  /\ row' = [row EXCEPT ![p] =
       [from |-> s, to |-> r, lines |-> [i \in Item |-> 0],
        fromLife |-> life[s], toLife |-> life[r], place |-> Nowhere]]
  /\ status' = [status EXCEPT ![p] = "draft"]
  /\ UNCHANGED <<goods, person, due>>

\* Fault: a package can be edited while it waits.
EditParcel_WhileWaiting(p, lines) ==
  /\ status[p] \in Live /\ p \notin due
  /\ row' = [row EXCEPT ![p].lines = lines]
  /\ UNCHANGED <<goods, person, status, due>>

\* One edit stands for a sequence of them, each of one line.
EditParcel(p, lines) ==
  /\ status[p] = "draft" /\ p \notin due
  /\ Cardinality({i \in Item : lines[i] > 0}) <= MaxTypes
  /\ row' = [row EXCEPT ![p].lines = lines]
  /\ UNCHANGED <<goods, person, status, due>>

CanConfirm(p) ==
  /\ status[p] = "draft" /\ p \notin due
  /\ LineItems(p) # {}
  /\ life[row[p].to] = row[p].toLife
  /\ NotFighting(p)

\* releaseExpiredPostalReservations: the sender's forgotten drafts and parcels.
ForgottenParcels(s) ==
  {p \in Parcel : status[p] \in Live /\ p \in due /\ row[p].from = s}

\* validatePostalPackage, over the stacks as the sweep leaves them.
PackageValid(p) ==
  LET s == row[p].from
      q == StackAfterReturn(ForgottenParcels(s))[s]
  IN  /\ Cardinality(LineItems(p)) <= MaxTypes
      /\ \A i \in LineItems(p) : Eligible(s, i, q, {}) /\ q[i] >= row[p].lines[i]

\* Fault: the postage is taken from whatever is in the purse.
CanPay_Always(p) == p \in Parcel

CanPay(p) == gold[row[p].from] >= DeliveryFee(p)

ConfirmParcel(p) ==
  LET s     == row[p].from
      swept == ForgottenParcels(s)
  IN  /\ CanConfirm(p) /\ PackageValid(p) /\ CanPay(p)
      /\ gold' = [gold EXCEPT ![s] = @ - DeliveryFee(p)]
      /\ stack' = [StackAfterReturn(swept) EXCEPT ![s] = Minus(@, p)]
      /\ status' = [Settle(swept, "expired") EXCEPT ![p] = "pending"]
      /\ journal' = [NoteReturn(swept) EXCEPT ![p] = MovedOut(@)]
      /\ UNCHANGED <<supply, person, row, due>>

\* A stale package or an empty purse: only the sweep is written.
ConfirmParcelFails(p) ==
  LET swept == ForgottenParcels(row[p].from)
  IN  /\ CanConfirm(p) /\ ~(PackageValid(p) /\ CanPay(p))
      /\ stack' = StackAfterReturn(swept)
      /\ status' = Settle(swept, "expired")
      /\ journal' = NoteReturn(swept)
      /\ UNCHANGED <<gold, supply, person, row, due>>

AcceptParcel(p) ==
  LET r == row[p].to
  IN  /\ p \in InCustody /\ p \notin due
      /\ NotFighting(p) /\ SameLives(p)
      /\ stack' = [stack EXCEPT ![r] = Plus(@, {p})]
      /\ status' = [status EXCEPT ![p] = "completed"]
      /\ journal' = [journal EXCEPT ![p] = MovedIn(@)]
      /\ UNCHANGED <<gold, supply, person, row, due>>

\* Fault: closing gives the postage back too.
CloseParcel_Refund(p, s) ==
  /\ stack' = StackAfterReturn({p})
  /\ gold' = [gold EXCEPT ![row[p].from] = @ + DeliveryFee(p)]
  /\ status' = Settle({p}, s)
  /\ journal' = NoteReturn({p})
  /\ UNCHANGED <<supply, person, row, due>>

\* Fault: custody goes home before anything guards the answer.
CloseParcel_NotSettled(p, s) ==
  /\ stack' = StackAfterReturn({p})
  /\ journal' = NoteReturn({p})
  /\ UNCHANGED <<gold, supply, person, row, status, due>>

\* guardedPostalTerminalResult: the row closes and custody goes home.
CloseParcel(p, s) ==
  /\ stack' = StackAfterReturn({p})
  /\ status' = Settle({p}, s)
  /\ journal' = NoteReturn({p})
  /\ UNCHANGED <<gold, supply, person, row, due>>

DeclineParcel(p) == p \in InCustody /\ p \notin due /\ CloseParcel(p, "declined")

\* The recipient's accept or decline after the week is over.
LateParcelAnswer(p) == p \in InCustody /\ p \in due /\ CloseParcel(p, "expired")

\* The sender may cancel a draft or a parcel, and also an overdue one.
CancelParcel(p) == status[p] \in Live /\ CloseParcel(p, "cancelled")

-----------------------------------------------------------------------------
(* The same stacks in other hands *)

\* A reward adds a unit of an item.
Gain(c, i) ==
  /\ c \in alive /\ stack[c][i] < MaxStack
  /\ stack' = [stack EXCEPT ![c][i] = @ + 1]
  /\ supply' = [supply EXCEPT ![i] = @ + 1]
  /\ UNCHANGED <<gold, journal, person, row, status, due>>

\* Crafting, the notch exchange and the rollback of a daily action take what
\* is there: they ask neither for reservations nor for what is worn.
SpendUnreserved(c, i) ==
  /\ i \in Loose /\ stack[c][i] >= 1
  /\ stack' = [stack EXCEPT ![c][i] = @ - 1]
  /\ supply' = [supply EXCEPT ![i] = @ - 1]
  /\ UNCHANGED <<gold, journal, person, row, status, due>>

\* q after an attempt on i: what it took, and one unit of i made into one of j.
AfterAttempt(q, i, j, taken, success) ==
  [x \in Item |-> q[x] - (IF x \in taken THEN 1 ELSE 0)
                       - (IF success /\ x = i THEN 1 ELSE 0)
                       + (IF success /\ x = j THEN 1 ELSE 0)]

\* Fault: the equipment row is renamed although the attempt failed.
UpgradeAttempt_Renames(c, i, j, donors, success, fee) ==
  LET taken == donors \cup {Spark}
  IN  /\ <<i, j>> \in Upgrade /\ stack[c][i] >= 1
      /\ donors \subseteq Donors /\ Cardinality(donors) <= 1
      /\ \A x \in taken : stack[c][x] >= IF x = i THEN 2 ELSE 1
      /\ gold[c] >= fee
      /\ gold' = [gold EXCEPT ![c] = @ - fee]
      /\ stack' = [stack EXCEPT ![c] = AfterAttempt(@, i, j, taken, success)]
      /\ supply' = AfterAttempt(supply, i, j, taken, success)
      /\ equipped' = [equipped EXCEPT ![c] =
           IF i \in @ THEN (@ \ {i}) \cup {j} ELSE @]
      /\ UNCHANGED <<journal, alive, life, lease, place, held, row, status, due>>

\* An attempt burns Iskrokamin and perhaps a donor, and on success raises one
\* unit of i to j, worn or not.  No reservation is asked for, and a donor may
\* be worn.
UpgradeAttempt(c, i, j, donors, success, fee) ==
  LET taken == donors \cup {Spark}
  IN  /\ <<i, j>> \in Upgrade /\ stack[c][i] >= 1
      /\ donors \subseteq Donors /\ Cardinality(donors) <= 1
      /\ \A x \in taken : stack[c][x] >= IF x = i THEN 2 ELSE 1
      /\ gold[c] >= fee
      /\ gold' = [gold EXCEPT ![c] = @ - fee]
      /\ stack' = [stack EXCEPT ![c] = AfterAttempt(@, i, j, taken, success)]
      /\ supply' = AfterAttempt(supply, i, j, taken, success)
      /\ equipped' = [equipped EXCEPT ![c] =
           IF success /\ i \in @ THEN (@ \ {i}) \cup {j} ELSE @]
      /\ UNCHANGED <<journal, alive, life, lease, place, held, row, status, due>>

\* A chest run, a sale or a use order reserves the stack.
Hold(c, i) ==
  /\ c \in alive /\ i \in Reservable
  /\ Eligible(c, i, stack[c], {})
  /\ held' = [held EXCEPT ![c] = @ \cup {i}]
  /\ UNCHANGED <<goods, alive, equipped, life, lease, place, row, status, due>>

\* It is cancelled or expires.
Release(c, i) ==
  /\ i \in held[c]
  /\ held' = [held EXCEPT ![c] = @ \ {i}]
  /\ UNCHANGED <<goods, alive, equipped, life, lease, place, row, status, due>>

\* It is confirmed: isInventorySelectionAvailable, then the units are consumed.
SpendHeld(c, i, n) ==
  /\ i \in held[c] /\ i \notin equipped[c] /\ i \notin ReservedBy(c, {})
  /\ n \in 1 .. stack[c][i]
  /\ stack' = [stack EXCEPT ![c][i] = @ - n]
  /\ supply' = [supply EXCEPT ![i] = @ - n]
  /\ held' = [held EXCEPT ![c] = @ \ {i}]
  /\ UNCHANGED <<gold, journal, alive, equipped, life, lease, place, row, status, due>>

\* Wearing looks at the stack and not at the reservations.
Equip(c, i) ==
  /\ i \in Gear \ equipped[c] /\ stack[c][i] >= 1
  /\ equipped' = [equipped EXCEPT ![c] = @ \cup {i}]
  /\ UNCHANGED <<goods, alive, life, lease, place, held, row, status, due>>

Unequip(c, i) ==
  /\ i \in equipped[c]
  /\ equipped' = [equipped EXCEPT ![c] = @ \ {i}]
  /\ UNCHANGED <<goods, alive, life, lease, place, held, row, status, due>>

EnterCombat(c, kind) ==
  /\ c \in alive /\ lease[c] = "none" /\ kind \in CombatKind
  /\ lease' = [lease EXCEPT ![c] = kind]
  /\ UNCHANGED <<goods, alive, equipped, life, place, held, row, status, due>>

LeaveCombat(c) ==
  /\ lease[c] # "none"
  /\ lease' = [lease EXCEPT ![c] = "none"]
  /\ UNCHANGED <<goods, alive, equipped, life, place, held, row, status, due>>

Travel(c, there) ==
  /\ there \in Place \ {place[c]}
  /\ place' = [place EXCEPT ![c] = there]
  /\ UNCHANGED <<goods, alive, equipped, life, lease, held, row, status, due>>

\* The clock passes the expiresAt of a live row; nothing is written.
PassDeadline(t) ==
  /\ status[t] \in Live /\ t \notin due
  /\ due' = due \cup {t}
  /\ UNCHANGED <<goods, person, row, status>>

-----------------------------------------------------------------------------
(* Ends of a life *)

\* Fault: only the rows the character sent are settled.
Involves_Sender(t, c) == row[t] # NoRow /\ c = row[t].from

Involves(t, c) == row[t] # NoRow /\ c \in {row[t].from, row[t].to}

\* Completing a remort: incoming custody goes home, live rows are cancelled,
\* and of the stacks only one unit each of the kept items remains.
Remort(c, kept) ==
  LET live     == {t \in Transfer : status[t] \in Live /\ Involves(t, c)}
      incoming == {p \in live \cap InCustody : row[p].to = c}
      left     == [i \in Item |-> IF i \in kept THEN 1 ELSE 0]
  IN  /\ c \in alive /\ life[c] < MaxLife
      /\ lease[c] # "other"
      /\ \A p \in InCustody : row[p].from # c
      /\ kept \subseteq {i \in Item : stack[c][i] >= 1} /\ Cardinality(kept) <= MaxKept
      /\ stack' = [StackAfterReturn(incoming) EXCEPT ![c] = left]
      /\ journal' = NoteReturn(incoming)
      /\ status' = Settle(live, "cancelled")
      /\ supply' = [i \in Item |-> supply[i] - stack[c][i] + left[i]]
      /\ gold' = [gold EXCEPT ![c] = 0]
      /\ life' = [life EXCEPT ![c] = @ + 1]
      /\ equipped' = [equipped EXCEPT ![c] = {}]
      /\ held' = [held EXCEPT ![c] = {}]
      /\ lease' = [lease EXCEPT ![c] = "none"]
      /\ UNCHANGED <<alive, place, row, due>>

\* Restarting deletes the character, and the rows that name it go with it.
Restart(c) ==
  LET gone == {t \in Transfer : Involves(t, c)}
  IN  /\ c \in alive /\ lease[c] = "none"
      /\ alive' = alive \ {c}
      /\ stack' = [stack EXCEPT ![c] = [i \in Item |-> 0]]
      /\ supply' = [i \in Item |-> supply[i] - stack[c][i]
                                    - Cardinality(UnitsIn(gone \cap InCustody, i))]
      /\ row' = [t \in Transfer |-> IF t \in gone THEN NoRow ELSE row[t]]
      /\ status' = Settle(gone, "purged")
      /\ gold' = [gold EXCEPT ![c] = 0]
      /\ life' = [life EXCEPT ![c] = 0]
      /\ equipped' = [equipped EXCEPT ![c] = {}]
      /\ held' = [held EXCEPT ![c] = {}]
      /\ UNCHANGED <<lease, place, due, journal>>

CreateCharacter(c) ==
  /\ c \notin alive
  /\ alive' = alive \cup {c}
  /\ gold' = [gold EXCEPT ![c] = InitialGold]
  /\ UNCHANGED <<stack, journal, supply, equipped, life, lease, place, held,
                 row, status, due>>

-----------------------------------------------------------------------------
GiftStep ==
  \/ \E s, r \in Character, i \in Item :
        (\E g \in Gift : CreateGift(g, s, r, i)) \/ CreateGiftStale(s, r, i)
  \/ \E g \in Gift : \/ AcceptGift(g) \/ LateGiftAnswer(g)
                     \/ \E answer \in {"declined", "cancelled"} : RefuseGift(g, answer)

ParcelStep ==
  \/ \E p \in Parcel, s, r \in Character : DraftParcel(p, s, r)
  \/ \E p \in Parcel, lines \in Contents : EditParcel(p, lines)
  \/ \E p \in Parcel : \/ ConfirmParcel(p) \/ ConfirmParcelFails(p)
                       \/ AcceptParcel(p) \/ DeclineParcel(p)
                       \/ LateParcelAnswer(p) \/ CancelParcel(p)

OtherFeatureStep ==
  \E c \in Character :
    \/ \E i \in Item : \/ Gain(c, i) \/ SpendUnreserved(c, i)
                       \/ Hold(c, i) \/ Release(c, i)
                       \/ Equip(c, i) \/ Unequip(c, i)
                       \/ \E n \in 1 .. stack[c][i] : SpendHeld(c, i, n)
    \/ \E kind \in CombatKind : EnterCombat(c, kind)
    \/ \E i, j \in Item, donors \in SUBSET Donors,
          success \in BOOLEAN, fee \in UpgradeFees :
         UpgradeAttempt(c, i, j, donors, success, fee)
    \/ LeaveCombat(c)
    \/ \E there \in Place : Travel(c, there)

LifeStep ==
  \E c \in Character :
    \/ \E kept \in SUBSET Item : Remort(c, kept)
    \/ Restart(c) \/ CreateCharacter(c)

Next ==
  GiftStep \/ ParcelStep \/ OtherFeatureStep \/ LifeStep
  \/ \E t \in Transfer : PassDeadline(t)

Spec == Init /\ [][Next]_vars

-----------------------------------------------------------------------------
(* Safety *)

Refused == {"declined", "cancelled", "expired"}

\* Whatever order answers, retries, deadlines, remorts and restarts come in,
\* the goods of a row leave the sender at most once and then end up either
\* with the recipient or back with the sender, once: a refused row has given
\* back all it took, a completed one has delivered, one that waits has done
\* neither (the status compare-and-set of setTransferStatus and the claims).
MovedOnce(t) ==
  LET j == journal[t]
  IN  /\ j.out \in {0, 1} /\ j.in + j.back <= j.out
      /\ status[t] \in {"unused", "draft"} => j.out = 0
      /\ status[t] = "completed" => j.in = 1
      /\ status[t] \in Refused => j.in = 0 /\ j.back = j.out
      /\ status[t] = "pending" =>
           /\ j.in = 0 /\ j.back = 0
           /\ j.out = IF t \in Parcel THEN 1 ELSE 0

GoodsMoveOnce == \A t \in Transfer : MovedOnce(t)

\* No handler of a transfer makes or loses a unit: what all stacks and all
\* parcels in custody hold is what rewards made and sinks took.
UnitsConserved ==
  \A i \in Item :
    Amount([c \in Character |-> stack[c][i]], Character)
      + Cardinality(UnitsIn(InCustody, i)) = supply[i]

\* A live row was written in the present life of both characters: remort and
\* restart leave no row that a later life could still answer, so that the
\* remort counts accept compares never differ.
LiveRowsOfThisLife ==
  \A t \in Transfer : status[t] \in Live =>
    /\ {row[t].from, row[t].to} \subseteq alive
    /\ SameLives(t)

\* A worn item is owned, whatever gifts, parcels and sales have taken from
\* the stack since it was put on (putting on ignores the reservations), unless
\* it is one that an unguarded sink may take; a raised item stays worn.
WornIsOwned ==
  \A c \in Character : \A i \in equipped[c] \ Unguarded : stack[c][i] >= 1

\* One stack has one claim: of two live offers, parcels or holds of another
\* feature, no two name the same item of the same character.
OneClaimPerStack ==
  \A t \in Transfer : Reserving(t) =>
    \A i \in LineItems(t) :
      /\ i \notin held[row[t].from]
      /\ \A u \in Transfer \ {t} :
           Reserving(u) /\ row[u].from = row[t].from => i \notin LineItems(u)

\* A claim is the only one on its stack, and of the present lives.
ClaimsAreSound == OneClaimPerStack /\ LiveRowsOfThisLife

\* A live gift offer still has its unit behind it, unless it is one that an
\* unguarded sink may take.
OfferBacked ==
  \A g \in Gift : Reserving(g) =>
    \A i \in LineItems(g) \ Unguarded : stack[row[g].from][i] >= row[g].lines[i]

\* A gift row names one unit of one item.
GiftsAreSingle ==
  \A g \in Gift : status[g] = "pending" => \A i \in Item : row[g].lines[i] <= 1

\* The inductive invariant: every part needs the types, accepting a gift
\* needs GiftsAreSingle to leave a natural number behind, and a remort needs
\* LiveRowsOfThisLife to know which rows it closes.
IndInv ==
  TypeOK /\ GoodsMoveOnce /\ LiveRowsOfThisLife /\ GiftsAreSingle
  /\ WornIsOwned /\ OneClaimPerStack

-----------------------------------------------------------------------------
(* What a step may never do *)

\* A row that has been answered keeps its answer and moves nothing more; only
\* the deletion of a character takes it away.
AnswersAreFinal ==
  [][\A t \in Transfer : status[t] \in Refused \cup {"completed"} =>
       status'[t] \in {status[t], "purged"} /\ journal'[t] = journal[t]]_vars

\* Postage is paid exactly when a parcel leaves the sender's stacks, by the
\* sender, and no refused confirm, return, delivery or cancellation touches
\* a purse.  (A remort or a restart empties it, and an upgrade attempt costs
\* its fee: these are the steps that make or eat units.)
PostagePaidOnce ==
  [][supply' = supply => \A c \in alive \cap alive' : life'[c] = life[c] =>
       LET sent == {p \in Parcel : row[p] # NoRow /\ row[p].from = c
                                    /\ journal'[p].out > journal[p].out}
       IN  gold'[c] = IF sent = {} THEN gold[c]
                      ELSE gold[c] - DeliveryFee(CHOOSE p \in sent : TRUE)]_vars

\* What a handed-in parcel holds cannot be edited while it waits.
PackageSealed ==
  [][\A p \in InCustody : row'[p] \in {row[p], NoRow}]_vars

\* A parcel in custody whose sender stays alive leaves custody only by being
\* delivered or by coming back.
CustodyAccounted ==
  [][\A p \in InCustody : row[p].from \in alive' =>
       status'[p] = "pending" \/ journal'[p].in + journal'[p].back = 1]_vars

-----------------------------------------------------------------------------
(* The rows keep the promise of Consignment *)

\* Read off the moves that were made, not off the status.
Stage(j, s) ==
  CASE j = [out |-> 0, in |-> 0, back |-> 0] -> "sender"
    [] j = [out |-> 1, in |-> 1, back |-> 0] -> "recipient"
    [] j = [out |-> 1, in |-> 0, back |-> 1] -> "returned"
    [] j = [out |-> 1, in |-> 0, back |-> 0] ->
         IF s = "purged" THEN "destroyed" ELSE "custody"
    [] OTHER -> "astray"

whereaboutsNow == [t \in Transfer |-> Stage(journal[t], status[t])]

Promise == INSTANCE Consignment WITH Token <- Transfer, whereabouts <- whereaboutsNow

\* Every behaviour of the rows, read off the moves that were made, is one of
\* the abstract consignment: nothing is delivered and returned, or twice.
KeepsPromise == Promise!ConsignmentSpec
=============================================================================
