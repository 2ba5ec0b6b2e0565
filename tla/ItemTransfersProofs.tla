------------------------ MODULE ItemTransfersProofs ------------------------
(***************************************************************************)
(* What holds of gifts and parcels for every number of characters, items,  *)
(* tokens and units: the types, the exactly-once movement of goods, that   *)
(* no live row outlives a life of its two characters, and, in the second   *)
(* part, that no unit is made or lost.                                     *)
(***************************************************************************)
EXTENDS ItemTransfers, UnitsTheorems

-----------------------------------------------------------------------------
(* Counting units *)

\* A set of parcels holds a finite set of units.
LEMMA UnitsFinite ==
  ASSUME NEW P \in SUBSET Parcel, NEW i
  PROVE  IsFiniteSet(P) /\ IsFiniteSet(UnitsIn(P, i))
<1>1. IsFiniteSet(P)
  BY FS_Subset, SetsAssumption DEF Transfer
<1>2. IsFiniteSet(1 .. MaxUnits)
  BY FS_Interval, NumbersAssumption
<1>3. IsFiniteSet(P \X (1 .. MaxUnits))
  BY <1>1, <1>2, FS_Product
<1>4. UnitsIn(P, i) \in SUBSET (P \X (1 .. MaxUnits))
  BY DEF UnitsIn
<1>5. QED
  BY <1>1, <1>3, <1>4, FS_Subset

\* The units of an item in a set of parcels are a natural number.
LEMMA UnitsNat ==
  ASSUME NEW P \in SUBSET Parcel, NEW i
  PROVE  Cardinality(UnitsIn(P, i)) \in Nat
BY UnitsFinite, FS_CardinalityType

\* A live or answered row is a record of the type of rows.
LEMMA RowOfLive ==
  ASSUME TypeOK, NEW t \in Transfer, status[t] \notin {"unused", "purged"}
  PROVE  /\ row[t] \in Row
         /\ row[t].from \in Character /\ row[t].to \in Character
         /\ row[t].lines \in [Item -> 0 .. MaxUnits]
BY DEF TypeOK, Row, Contents

\* Returning parcels keeps stacks stacks.
LEMMA StackAfterReturnType ==
  ASSUME TypeOK, NEW P \in SUBSET Transfer
  PROVE  StackAfterReturn(P) \in [Character -> [Item -> Nat]]
<1>1. SUFFICES ASSUME NEW c \in Character, NEW i \in Item
               PROVE  stack[c][i] + Cardinality(UnitsIn(ReturnedTo(c, P), i)) \in Nat
  BY DEF StackAfterReturn, Plus
<1>2. ReturnedTo(c, P) \in SUBSET Parcel
  BY DEF ReturnedTo, InCustody
<1>3. Cardinality(UnitsIn(ReturnedTo(c, P), i)) \in Nat
  BY <1>2, UnitsNat
<1>4. QED
  BY <1>3 DEF TypeOK

Moves == [out : Nat, in : Nat, back : Nat]

\* Recording a move keeps the journal a journal.
LEMMA MovedType ==
  ASSUME NEW j \in Moves
  PROVE  /\ MovedOut(j) \in Moves /\ MovedIn(j) \in Moves /\ MovedBack(j) \in Moves
BY DEF Moves, MovedOut, MovedIn, MovedBack

LEMMA NoteReturnType ==
  ASSUME TypeOK, NEW P
  PROVE  NoteReturn(P) \in [Transfer -> Moves]
<1>1. \A t \in Transfer : journal[t] \in Moves
  BY DEF TypeOK, Moves
<1>2. QED
  BY <1>1, MovedType DEF NoteReturn

LEMMA SettleType ==
  ASSUME TypeOK, NEW P, NEW s \in Statuses
  PROVE  Settle(P, s) \in [Transfer -> Statuses]
BY DEF Settle, TypeOK

-----------------------------------------------------------------------------
(* The invariant holds at the start and survives every step *)

LEMMA InitInv == Init => IndInv
<1> SUFFICES ASSUME Init PROVE IndInv
  OBVIOUS
<1>1. StartStack * Cardinality(Character) \in Int
  <2>1. Cardinality(Character) \in Nat
    BY FS_CardinalityType, SetsAssumption
  <2>2. QED
    BY <2>1, NumbersAssumption
<1>2. TypeOK
  <2>1. supply \in [Item -> Int]
    BY <1>1 DEF Init
  <2>2. journal \in [Transfer -> [out : Nat, in : Nat, back : Nat]]
    BY DEF Init
  <2>3. QED
    BY <2>1, <2>2, NumbersAssumption DEF Init, TypeOK, Statuses
<1>3. GoodsMoveOnce
  BY DEF Init, GoodsMoveOnce, MovedOnce, Refused
<1>4. LiveRowsOfThisLife /\ GiftsAreSingle /\ WornIsOwned /\ OneClaimPerStack
  BY DEF Init, LiveRowsOfThisLife, Live, GiftsAreSingle, WornIsOwned,
         OneClaimPerStack, Reserving, Transfer
<1>5. QED
  BY <1>2, <1>3, <1>4 DEF IndInv

LEMMA CreateGiftInv ==
  ASSUME IndInv, NEW g \in Gift, NEW s \in Character, NEW r \in Character,
         NEW i \in Item, CreateGift(g, s, r, i)
  PROVE  IndInv'
<1> USE DEF IndInv
<1>1. TypeOK'
  <2>1. GiftLines(i) \in Contents
    BY NumbersAssumption DEF GiftLines, Contents
  <2>2. row'[g] \in Row
    BY <2>1 DEF CreateGift, TypeOK, Row, Transfer
  <2>3. Settle(ForgottenGifts(s, i), "expired") \in [Transfer -> Statuses]
    BY SettleType DEF Statuses
  <2>4. \A t \in Transfer : status'[t] \in {"unused", "purged"}
                             <=> t # g /\ status[t] \in {"unused", "purged"}
    BY DEF CreateGift, Settle, ForgottenGifts, TypeOK, Transfer
  <2>5. QED
    BY <2>2, <2>3, <2>4, NoRowAssumption
       DEF CreateGift, TypeOK, goods, person, Transfer, Statuses
<1>2. GoodsMoveOnce'
  <2> SUFFICES ASSUME NEW t \in Transfer PROVE MovedOnce(t)'
    BY DEF GoodsMoveOnce
  <2>1. MovedOnce(t) /\ journal'[t] = journal[t]
    BY DEF CreateGift, GoodsMoveOnce, goods
  <2>2. CASE t = g
    <3>1. status[t] = "unused" /\ status'[t] = "pending" /\ t \notin Parcel
      BY <2>2, SetsAssumption, SettleType DEF CreateGift, TypeOK, Statuses, Settle, Transfer
    <3>2. journal[t] \in Moves
      BY DEF TypeOK, Moves
    <3>3. QED
      BY <2>1, <3>1, <3>2 DEF MovedOnce, Refused, Moves
  <2>3. CASE t # g /\ t \in ForgottenGifts(s, i)
    BY <2>1, <2>3, SetsAssumption
       DEF CreateGift, MovedOnce, Refused, Settle, ForgottenGifts, TypeOK
  <2>4. CASE t # g /\ t \notin ForgottenGifts(s, i)
    BY <2>1, <2>4 DEF CreateGift, MovedOnce, Settle, TypeOK
  <2>5. QED
    BY <2>2, <2>3, <2>4
<1>3. LiveRowsOfThisLife'
  BY DEF CreateGift, CanOffer, LiveRowsOfThisLife, SameLives, Live, Settle,
         ForgottenGifts, TypeOK, person, Transfer
<1>4. GiftsAreSingle'
  BY DEF CreateGift, GiftsAreSingle, Settle, ForgottenGifts, TypeOK, GiftLines, Transfer
<1>5. WornIsOwned'
  BY DEF CreateGift, WornIsOwned, goods, person
<1>6. OneClaimPerStack'
  BY DEF CreateGift, OneClaimPerStack, GiftEligible, Eligible, Reserved, ReservedBy,
         Reserving, LineItems, Settle, ForgottenGifts, GiftLines, TypeOK, person, Transfer
<1>7. QED
  BY <1>1, <1>2, <1>3, <1>4, <1>5, <1>6

LEMMA CreateGiftStaleInv ==
  ASSUME IndInv, NEW s \in Character, NEW r \in Character, NEW i \in Item,
         CreateGiftStale(s, r, i)
  PROVE  IndInv'
<1> USE DEF IndInv
<1>1. TypeOK'
  <2>1. Settle(ForgottenGifts(s, i), "expired") \in [Transfer -> Statuses]
    BY SettleType DEF Statuses
  <2>2. \A t \in Transfer : status'[t] \in {"unused", "purged"}
                             <=> status[t] \in {"unused", "purged"}
    BY DEF CreateGiftStale, Settle, ForgottenGifts, TypeOK, Transfer
  <2>3. QED
    BY <2>1, <2>2 DEF CreateGiftStale, TypeOK, goods, person
<1>2. GoodsMoveOnce'
  BY SetsAssumption
     DEF CreateGiftStale, GoodsMoveOnce, MovedOnce, Refused, Settle, ForgottenGifts,
         TypeOK, goods, Transfer
<1>3. LiveRowsOfThisLife'
  BY DEF CreateGiftStale, LiveRowsOfThisLife, SameLives, Live, Settle,
         ForgottenGifts, TypeOK, person
<1>4. GiftsAreSingle'
  BY DEF CreateGiftStale, GiftsAreSingle, Settle, ForgottenGifts, TypeOK, Transfer
<1>5. WornIsOwned'
  BY DEF CreateGiftStale, WornIsOwned, goods, person
<1>6. OneClaimPerStack'
  BY DEF CreateGiftStale, OneClaimPerStack, Reserving, LineItems, Settle,
         ForgottenGifts, TypeOK, person
<1>7. QED
  BY <1>1, <1>2, <1>3, <1>4, <1>5, <1>6

LEMMA AcceptGiftInv ==
  ASSUME IndInv, NEW g \in Gift, AcceptGift(g)
  PROVE  IndInv'
<1> DEFINE s == row[g].from
           r == row[g].to
<1> USE DEF IndInv
<1>0. /\ g \in Transfer /\ g \notin Parcel /\ status[g] = "pending"
      /\ s \in Character /\ r \in Character
      /\ row[g].lines \in [Item -> 0 .. MaxUnits]
  BY RowOfLive, SetsAssumption DEF AcceptGift, Transfer
<1>1. \A i \in Item : row[g].lines[i] <= stack[s][i]
  <2> SUFFICES ASSUME NEW i \in Item PROVE row[g].lines[i] <= stack[s][i]
    OBVIOUS
  <2>1. row[g].lines[i] \in {0, 1}
    BY <1>0, NumbersAssumption DEF GiftsAreSingle
  <2>2. row[g].lines[i] = 1 => stack[s][i] >= 1
    BY DEF AcceptGift, LineItems, Eligible
  <2>3. stack[s][i] \in Nat
    BY <1>0 DEF TypeOK
  <2>4. QED
    BY <2>1, <2>2, <2>3
<1>2. stack' \in [Character -> [Item -> Nat]]
  <2>1. Minus(stack[s], g) \in [Item -> Nat]
    BY <1>0, <1>1, NumbersAssumption DEF Minus, TypeOK
  <2>2. ASSUME NEW q \in [Item -> Nat]
        PROVE  [i \in Item |-> q[i] + row[g].lines[i]] \in [Item -> Nat]
    BY <1>0, NumbersAssumption
  <2>3. QED
    BY <1>0, <2>1, <2>2 DEF AcceptGift, TypeOK
<1>3. TypeOK'
  <2>1. MovedIn(MovedOut(journal[g])) \in [out : Nat, in : Nat, back : Nat]
    BY <1>0, MovedType DEF TypeOK, Moves
  <2>2. journal' \in [Transfer -> [out : Nat, in : Nat, back : Nat]]
    BY <1>0, <2>1 DEF AcceptGift, TypeOK
  <2>3. status' \in [Transfer -> Statuses]
    BY <1>0 DEF AcceptGift, TypeOK, Statuses
  <2>4. \A t \in Transfer : status'[t] \in {"unused", "purged"}
                             <=> status[t] \in {"unused", "purged"}
    BY <1>0 DEF AcceptGift, TypeOK
  <2>5. QED
    BY <1>2, <2>2, <2>3, <2>4 DEF AcceptGift, TypeOK, person
<1>4. GoodsMoveOnce'
  <2> SUFFICES ASSUME NEW t \in Transfer PROVE MovedOnce(t)'
    BY DEF GoodsMoveOnce
  <2>1. MovedOnce(t) /\ MovedOnce(g)
    BY <1>0 DEF GoodsMoveOnce
  <2>2. journal \in [Transfer -> Moves] /\ journal[g] \in Moves
    BY <1>0 DEF TypeOK, Moves
  <2>3. CASE t = g
    BY <1>0, <2>1, <2>2, <2>3
       DEF AcceptGift, MovedOnce, Refused, MovedIn, MovedOut, Moves, TypeOK
  <2>4. CASE t # g
    BY <2>1, <2>4 DEF AcceptGift, MovedOnce, TypeOK
  <2>5. QED
    BY <2>3, <2>4
<1>5. LiveRowsOfThisLife'
  BY <1>0 DEF AcceptGift, LiveRowsOfThisLife, SameLives, Live, TypeOK, person
<1>6. GiftsAreSingle'
  BY <1>0 DEF AcceptGift, GiftsAreSingle, TypeOK, person
<1>7. WornIsOwned'
  <2> SUFFICES ASSUME NEW c \in Character, NEW i \in equipped[c] \ Unguarded
               PROVE  stack'[c][i] >= 1
    BY DEF AcceptGift, WornIsOwned, person
  <2>1. i \in Item /\ stack[c][i] >= 1 /\ stack[c][i] \in Nat
    BY SetsAssumption DEF TypeOK, WornIsOwned
  <2>2. c = s => row[g].lines[i] = 0
    BY <1>0, <2>1, NumbersAssumption DEF AcceptGift, LineItems, Eligible
  <2>3. row[g].lines[i] \in Nat
    BY <1>0, <2>1, NumbersAssumption
  <2>4. QED
    BY <1>0, <2>1, <2>2, <2>3 DEF AcceptGift, Minus, TypeOK
<1>8. OneClaimPerStack'
  BY <1>0 DEF AcceptGift, OneClaimPerStack, Reserving, LineItems, TypeOK, person
<1>9. QED
  BY <1>3, <1>4, <1>5, <1>6, <1>7, <1>8

\* An answer that moves nothing: a gift is refused, or answered too late.
LEMMA CloseGiftInv ==
  ASSUME IndInv, NEW g \in Gift, NEW s \in Refused,
         status[g] = "pending",
         status' = [status EXCEPT ![g] = s],
         UNCHANGED <<goods, person, row, due>>
  PROVE  IndInv'
<1> USE DEF IndInv
<1>0. g \in Transfer /\ g \notin Parcel /\ s \in Statuses /\ s \notin {"unused", "purged", "pending"}
  BY SetsAssumption DEF Transfer, Refused, Statuses
<1>1. TypeOK'
  BY <1>0 DEF TypeOK, goods, person
<1>2. GoodsMoveOnce'
  BY <1>0 DEF GoodsMoveOnce, MovedOnce, Refused, TypeOK, goods
<1>3. LiveRowsOfThisLife'
  BY <1>0 DEF LiveRowsOfThisLife, SameLives, Live, Refused, TypeOK, person
<1>4. GiftsAreSingle'
  BY <1>0 DEF GiftsAreSingle, TypeOK
<1>5. WornIsOwned'
  BY DEF WornIsOwned, goods, person
<1>6. OneClaimPerStack'
  BY <1>0 DEF OneClaimPerStack, Reserving, LineItems, TypeOK, person
<1>7. QED
  BY <1>1, <1>2, <1>3, <1>4, <1>5, <1>6

LEMMA RefuseGiftInv ==
  ASSUME IndInv, NEW g \in Gift, NEW answer, RefuseGift(g, answer)
  PROVE  IndInv'
BY CloseGiftInv DEF RefuseGift, Refused

LEMMA LateGiftAnswerInv ==
  ASSUME IndInv, NEW g \in Gift, LateGiftAnswer(g)
  PROVE  IndInv'
BY CloseGiftInv DEF LateGiftAnswer, Refused

LEMMA DraftParcelInv ==
  ASSUME IndInv, NEW p \in Parcel, NEW s \in Character, NEW r \in Character,
         DraftParcel(p, s, r)
  PROVE  IndInv'
<1> USE DEF IndInv
<1>0. p \in Transfer /\ p \notin Gift
  BY SetsAssumption DEF Transfer
<1>1. TypeOK'
  <2>1. row'[p] \in Row
    BY <1>0, NumbersAssumption DEF DraftParcel, TypeOK, Row, Contents
  <2>2. QED
    BY <1>0, <2>1, NoRowAssumption DEF DraftParcel, TypeOK, goods, person, Statuses
<1>2. GoodsMoveOnce'
  <2> SUFFICES ASSUME NEW t \in Transfer PROVE MovedOnce(t)'
    BY DEF GoodsMoveOnce
  <2>1. MovedOnce(t) /\ journal'[t] = journal[t] /\ journal[t] \in Moves
    BY DEF DraftParcel, GoodsMoveOnce, goods, TypeOK, Moves
  <2>2. QED
    BY <1>0, <2>1 DEF DraftParcel, MovedOnce, Refused, TypeOK, Moves
<1>3. LiveRowsOfThisLife'
  BY <1>0 DEF DraftParcel, LiveRowsOfThisLife, SameLives, Live, TypeOK, person
<1>4. GiftsAreSingle'
  BY <1>0 DEF DraftParcel, GiftsAreSingle, TypeOK, Transfer
<1>5. WornIsOwned'
  BY DEF DraftParcel, WornIsOwned, goods, person
<1>6. OneClaimPerStack'
  BY <1>0 DEF DraftParcel, OneClaimPerStack, Reserving, LineItems, TypeOK, person
<1>7. QED
  BY <1>1, <1>2, <1>3, <1>4, <1>5, <1>6

LEMMA EditParcelInv ==
  ASSUME IndInv, NEW p \in Parcel, NEW lines \in Contents, EditParcel(p, lines)
  PROVE  IndInv'
<1> USE DEF IndInv
<1>0. p \in Transfer /\ p \notin Gift /\ row[p] \in Row /\ status[p] = "draft"
  BY SetsAssumption, RowOfLive DEF Transfer, EditParcel
<1>1. row'[p] \in Row /\ row'[p].from = row[p].from /\ row'[p].to = row[p].to
      /\ row'[p].fromLife = row[p].fromLife /\ row'[p].toLife = row[p].toLife
  BY <1>0 DEF EditParcel, TypeOK, Row
<1>2. \A t \in Transfer \ {p} : row'[t] = row[t]
  BY DEF EditParcel, TypeOK
<1>3. TypeOK'
  <2>1. row' \in [Transfer -> Row \cup {NoRow}]
    BY <1>0, <1>1, <1>2 DEF EditParcel, TypeOK
  <2>2. QED
    BY <1>0, <1>1, <1>2, <2>1, NoRowAssumption DEF EditParcel, TypeOK, goods, person
<1>4. GoodsMoveOnce'
  BY DEF EditParcel, GoodsMoveOnce, MovedOnce, goods
<1>5. LiveRowsOfThisLife'
  BY <1>0, <1>1, <1>2 DEF EditParcel, LiveRowsOfThisLife, SameLives, person
<1>6. GiftsAreSingle'
  BY <1>0, <1>2 DEF EditParcel, GiftsAreSingle, Transfer
<1>7. WornIsOwned'
  BY DEF EditParcel, WornIsOwned, goods, person
<1>8. OneClaimPerStack'
  <2>1. \A t \in Transfer : Reserving(t)' = Reserving(t) /\ (Reserving(t) => t # p)
    BY <1>0 DEF EditParcel, Reserving
  <2>2. QED
    BY <1>2, <2>1 DEF EditParcel, OneClaimPerStack, LineItems, person
<1>9. QED
  BY <1>3, <1>4, <1>5, <1>6, <1>7, <1>8

\* No stack loses a unit when parcels come home.
LEMMA StackAfterReturnGrows ==
  ASSUME TypeOK, NEW P \in SUBSET Transfer, NEW c \in Character, NEW i \in Item
  PROVE  StackAfterReturn(P)[c][i] >= stack[c][i]
<1>1. ReturnedTo(c, P) \in SUBSET Parcel
  BY DEF ReturnedTo, InCustody
<1>2. Cardinality(UnitsIn(ReturnedTo(c, P), i)) \in Nat
  BY <1>1, UnitsNat
<1>3. StackAfterReturn(P)[c][i] = stack[c][i] + Cardinality(UnitsIn(ReturnedTo(c, P), i))
  BY DEF StackAfterReturn, Plus
<1>4. stack[c][i] \in Nat
  BY DEF TypeOK
<1>5. QED
  BY <1>2, <1>3, <1>4

\* A row of a returned set is closed with its custody, if any, back home.
LEMMA ReturnedOnce ==
  ASSUME TypeOK, GoodsMoveOnce, NEW P \in SUBSET Parcel, NEW t \in P,
         status[t] \in Live
  PROVE  /\ t \in Transfer
         /\ NoteReturn(P)[t].in = 0
         /\ NoteReturn(P)[t].out \in {0, 1}
         /\ NoteReturn(P)[t].back = NoteReturn(P)[t].out
<1>1. t \in Transfer /\ t \in Parcel
  BY DEF Transfer
<1>2. MovedOnce(t) /\ journal[t] \in Moves
  BY <1>1 DEF GoodsMoveOnce, TypeOK, Moves
<1>3. CASE status[t] = "draft"
  BY <1>1, <1>2, <1>3 DEF MovedOnce, Refused, NoteReturn, InCustody, Moves
<1>4. CASE status[t] = "pending"
  BY <1>1, <1>2, <1>4 DEF MovedOnce, Refused, NoteReturn, InCustody, MovedBack, Moves
<1>5. QED
  BY <1>1, <1>3, <1>4 DEF Live

\* Live parcels close together and their custody goes home.
LEMMA ReturnInv ==
  ASSUME IndInv, NEW P \in SUBSET Parcel, NEW s \in Refused,
         \A p \in P : status[p] \in Live,
         stack' = StackAfterReturn(P),
         status' = Settle(P, s),
         journal' = NoteReturn(P),
         UNCHANGED <<gold, supply, person, row, due>>
  PROVE  IndInv'
<1> USE DEF IndInv
<1>0. P \in SUBSET Transfer /\ P \cap Gift = {} /\ s \in Statuses
      /\ s \notin {"unused", "purged", "draft", "pending", "completed"}
  BY SetsAssumption DEF Transfer, Refused, Statuses
<1>1. \A t \in Transfer : status'[t] = IF t \in P THEN s ELSE status[t]
  BY DEF Settle
<1>2. TypeOK'
  <2>1. status' \in [Transfer -> Statuses]
    BY <1>0, SettleType
  <2>2. journal' \in [Transfer -> [out : Nat, in : Nat, back : Nat]]
    BY NoteReturnType DEF Moves
  <2>3. stack' \in [Character -> [Item -> Nat]]
    BY <1>0, StackAfterReturnType
  <2>4. \A t \in Transfer : status'[t] \in {"unused", "purged"}
                             <=> status[t] \in {"unused", "purged"}
    BY <1>0, <1>1 DEF Live
  <2>5. QED
    BY <2>1, <2>2, <2>3, <2>4 DEF TypeOK, person
<1>3. GoodsMoveOnce'
  <2> SUFFICES ASSUME NEW t \in Transfer PROVE MovedOnce(t)'
    BY DEF GoodsMoveOnce
  <2>1. CASE t \in P
    BY <1>0, <1>1, <2>1, ReturnedOnce DEF MovedOnce
  <2>2. CASE t \notin P
    BY <1>1, <2>2 DEF GoodsMoveOnce, MovedOnce, NoteReturn
  <2>3. QED
    BY <2>1, <2>2
<1>4. LiveRowsOfThisLife'
  BY <1>0, <1>1 DEF LiveRowsOfThisLife, SameLives, Live, person
<1>5. GiftsAreSingle'
  BY <1>0, <1>1 DEF GiftsAreSingle, Transfer
<1>6. WornIsOwned'
  <2> SUFFICES ASSUME NEW c \in Character, NEW i \in equipped[c] \ Unguarded
               PROVE  stack'[c][i] >= 1
    BY DEF WornIsOwned, person
  <2>1. i \in Item /\ stack[c][i] >= 1 /\ stack[c][i] \in Nat
    BY SetsAssumption DEF TypeOK, WornIsOwned
  <2>2. stack'[c][i] >= stack[c][i]
    BY <1>0, <2>1, StackAfterReturnGrows
  <2>3. stack'[c][i] \in Nat
    BY <1>2, <2>1 DEF TypeOK
  <2>4. QED
    BY <2>1, <2>2, <2>3
<1>7. OneClaimPerStack'
  <2>1. \A t \in Transfer : Reserving(t)' => Reserving(t)
    BY <1>0, <1>1 DEF Reserving
  <2>2. QED
    BY <2>1 DEF OneClaimPerStack, LineItems, person
<1>8. QED
  BY <1>2, <1>3, <1>4, <1>5, <1>6, <1>7

LEMMA CloseParcelInv ==
  ASSUME IndInv, NEW p \in Parcel, NEW s \in Refused, status[p] \in Live,
         CloseParcel(p, s)
  PROVE  IndInv'
BY ReturnInv DEF CloseParcel

LEMMA DeclineParcelInv ==
  ASSUME IndInv, NEW p \in Parcel,
         DeclineParcel(p) \/ LateParcelAnswer(p) \/ CancelParcel(p)
  PROVE  IndInv'
<1>1. status[p] \in Live
  BY DEF DeclineParcel, LateParcelAnswer, CancelParcel, InCustody, Live
<1>2. QED
  BY <1>1, CloseParcelInv DEF DeclineParcel, LateParcelAnswer, CancelParcel, Refused

LEMMA ConfirmParcelFailsInv ==
  ASSUME IndInv, NEW p \in Parcel, ConfirmParcelFails(p)
  PROVE  IndInv'
BY ReturnInv DEF ConfirmParcelFails, ForgottenParcels, Refused

LEMMA ConfirmParcelInv ==
  ASSUME IndInv, NEW p \in Parcel, ConfirmParcel(p)
  PROVE  IndInv'
<1> DEFINE s == row[p].from
           swept == ForgottenParcels(s)
           q == StackAfterReturn(swept)
<1> USE DEF IndInv
<1>0. /\ p \in Transfer /\ p \notin Gift /\ status[p] = "draft" /\ p \notin due
      /\ s \in Character /\ row[p].lines \in [Item -> 0 .. MaxUnits]
  BY RowOfLive, SetsAssumption DEF ConfirmParcel, CanConfirm, Transfer
<1>1. /\ swept \in SUBSET Parcel /\ swept \in SUBSET Transfer
      /\ swept \cap Gift = {} /\ p \notin swept
      /\ \A t \in swept : status[t] \in Live
  BY <1>0, SetsAssumption DEF ForgottenParcels, Transfer
<1>2. q \in [Character -> [Item -> Nat]]
  BY <1>1, StackAfterReturnType
<1>3. \A i \in Item : row[p].lines[i] <= q[s][i]
  <2> SUFFICES ASSUME NEW i \in Item PROVE row[p].lines[i] <= q[s][i]
    OBVIOUS
  <2>1. row[p].lines[i] \in Nat /\ q[s][i] \in Nat
    BY <1>0, <1>2, NumbersAssumption
  <2>2. row[p].lines[i] > 0 => q[s][i] >= row[p].lines[i]
    BY DEF ConfirmParcel, PackageValid, LineItems
  <2>3. QED
    BY <2>1, <2>2
<1>4. stack' \in [Character -> [Item -> Nat]]
  <2>1. Minus(q[s], p) \in [Item -> Nat]
    BY <1>0, <1>2, <1>3, NumbersAssumption DEF Minus
  <2>2. QED
    BY <1>0, <1>2, <2>1 DEF ConfirmParcel
<1>5. \A t \in Transfer : status'[t] = IF t = p THEN "pending"
                             ELSE IF t \in swept THEN "expired" ELSE status[t]
  BY <1>0 DEF ConfirmParcel, Settle
<1>6. \A t \in Transfer : journal'[t] = IF t = p THEN MovedOut(journal[p])
                              ELSE NoteReturn(swept)[t]
  BY <1>0, <1>1 DEF ConfirmParcel, NoteReturn
<1>7. TypeOK'
  <2>1. status' \in [Transfer -> Statuses]
    BY <1>1, <1>5, SettleType DEF ConfirmParcel, Statuses
  <2>2. journal' \in [Transfer -> [out : Nat, in : Nat, back : Nat]]
    <3>1. MovedOut(journal[p]) \in Moves
      BY <1>0, MovedType DEF TypeOK, Moves
    <3>2. NoteReturn(swept) \in [Transfer -> Moves]
      BY NoteReturnType
    <3>3. journal' = [NoteReturn(swept) EXCEPT ![p] = MovedOut(NoteReturn(swept)[p])]
      BY DEF ConfirmParcel
    <3>4. NoteReturn(swept)[p] = journal[p]
      BY <1>0, <1>1 DEF NoteReturn
    <3>5. QED
      BY <3>1, <3>2, <3>3, <3>4 DEF Moves
  <2>3. \A t \in Transfer : status'[t] \in {"unused", "purged"}
                             <=> status[t] \in {"unused", "purged"}
    BY <1>0, <1>1, <1>5 DEF Live
  <2>4. gold' \in [Character -> Nat]
    <3>1. gold[s] - DeliveryFee(p) \in Nat
      <4>1. LineItems(p) \in SUBSET Item
        BY DEF LineItems
      <4>2. Cardinality(LineItems(p)) \in Nat
        BY <4>1, SetsAssumption, FS_Subset, FS_CardinalityType
      <4>3. gold[s] \in Nat /\ gold[s] >= DeliveryFee(p)
        BY <1>0 DEF TypeOK, ConfirmParcel, CanPay
      <4>4. QED
        BY <4>2, <4>3 DEF DeliveryFee
    <3>2. QED
      BY <1>0, <3>1 DEF ConfirmParcel, TypeOK
  <2>5. QED
    BY <1>4, <2>1, <2>2, <2>3, <2>4 DEF ConfirmParcel, TypeOK, person
<1>8. GoodsMoveOnce'
  <2> SUFFICES ASSUME NEW t \in Transfer PROVE MovedOnce(t)'
    BY DEF GoodsMoveOnce
  <2>1. MovedOnce(t) /\ MovedOnce(p) /\ journal[p] \in Moves
    BY <1>0 DEF GoodsMoveOnce, TypeOK, Moves
  <2>2. CASE t = p
    BY <1>0, <1>5, <1>6, <2>1, <2>2 DEF MovedOnce, Refused, MovedOut, Moves
  <2>3. CASE t # p /\ t \in swept
    BY <1>1, <1>5, <1>6, <2>3, ReturnedOnce DEF MovedOnce, Refused
  <2>4. CASE t # p /\ t \notin swept
    BY <1>5, <1>6, <2>1, <2>4 DEF MovedOnce, NoteReturn
  <2>5. QED
    BY <2>2, <2>3, <2>4
<1>9. LiveRowsOfThisLife'
  BY <1>0, <1>1, <1>5
     DEF ConfirmParcel, LiveRowsOfThisLife, SameLives, Live, person
<1>10. GiftsAreSingle'
  BY <1>0, <1>1, <1>5 DEF ConfirmParcel, GiftsAreSingle, Transfer
<1>11. WornIsOwned'
  <2> SUFFICES ASSUME NEW c \in Character, NEW i \in equipped[c] \ Unguarded
               PROVE  stack'[c][i] >= 1
    BY DEF ConfirmParcel, WornIsOwned, person
  <2>1. i \in Item /\ stack[c][i] >= 1 /\ stack[c][i] \in Nat
    BY SetsAssumption DEF TypeOK, WornIsOwned
  <2>2. q[c][i] >= stack[c][i] /\ q[c][i] \in Nat
    BY <1>1, <1>2, <2>1, StackAfterReturnGrows
  <2>3. c = s => row[p].lines[i] = 0
    BY <1>0, <2>1, NumbersAssumption
       DEF ConfirmParcel, PackageValid, LineItems, Eligible
  <2>4. stack'[c][i] = IF c = s THEN q[c][i] - row[p].lines[i] ELSE q[c][i]
    BY <1>0, <1>2, <2>1 DEF ConfirmParcel, Minus
  <2>5. QED
    BY <2>1, <2>2, <2>3, <2>4
<1>12. OneClaimPerStack'
  <2>1. \A t \in Transfer : Reserving(t)' => t = p \/ Reserving(t)
    BY <1>5 DEF ConfirmParcel, Reserving
  <2>2. \A t \in Transfer : ~Reserving(t) \/ t # p
    BY <1>0 DEF Reserving
  <2>3. \A i \in LineItems(p) : i \notin held[s]
           /\ \A u \in Transfer : Reserving(u) /\ row[u].from = s => i \notin LineItems(u)
    BY DEF ConfirmParcel, PackageValid, Eligible, Reserved, ReservedBy
  <2>4. held' = held /\ row' = row
    BY DEF ConfirmParcel, person
  <2>5. \A t \in Transfer : LineItems(t)' = LineItems(t)
    BY <2>4 DEF LineItems
  <2>6. QED
    BY <1>0, <2>1, <2>2, <2>3, <2>4, <2>5 DEF OneClaimPerStack
<1>13. QED
  BY <1>7, <1>8, <1>9, <1>10, <1>11, <1>12

LEMMA AcceptParcelInv ==
  ASSUME IndInv, NEW p \in Parcel, AcceptParcel(p)
  PROVE  IndInv'
<1> DEFINE r == row[p].to
           n == [i \in Item |-> Cardinality(UnitsIn({p}, i))]
<1> USE DEF IndInv
<1>0. /\ p \in Transfer /\ p \notin Gift /\ status[p] = "pending" /\ r \in Character
  BY RowOfLive, SetsAssumption DEF AcceptParcel, InCustody, Transfer
<1>1. n \in [Item -> Nat]
  BY UnitsNat
<1>2. stack' = [stack EXCEPT ![r] = [i \in Item |-> stack[r][i] + n[i]]]
  BY DEF AcceptParcel, Plus
<1> HIDE DEF n
<1>3. TypeOK'
  <2>1. stack' \in [Character -> [Item -> Nat]]
    BY <1>0, <1>1, <1>2 DEF TypeOK
  <2>2. journal' \in [Transfer -> [out : Nat, in : Nat, back : Nat]]
    <3>1. MovedIn(journal[p]) \in [out : Nat, in : Nat, back : Nat]
      BY <1>0, MovedType DEF TypeOK, Moves
    <3>2. QED
      BY <1>0, <3>1 DEF AcceptParcel, TypeOK
  <2>3. QED
    BY <1>0, <2>1, <2>2 DEF AcceptParcel, TypeOK, Statuses, person
<1>4. GoodsMoveOnce'
  <2> SUFFICES ASSUME NEW t \in Transfer PROVE MovedOnce(t)'
    BY DEF GoodsMoveOnce
  <2>1. MovedOnce(t) /\ MovedOnce(p) /\ journal[p] \in Moves
    BY <1>0 DEF GoodsMoveOnce, TypeOK, Moves
  <2>2. CASE t = p
    BY <1>0, <2>1, <2>2 DEF AcceptParcel, MovedOnce, Refused, MovedIn, Moves, TypeOK
  <2>3. CASE t # p
    BY <2>1, <2>3 DEF AcceptParcel, MovedOnce, TypeOK
  <2>4. QED
    BY <2>2, <2>3
<1>5. LiveRowsOfThisLife'
  BY <1>0 DEF AcceptParcel, LiveRowsOfThisLife, SameLives, Live, TypeOK, person
<1>6. GiftsAreSingle'
  BY <1>0 DEF AcceptParcel, GiftsAreSingle, TypeOK
<1>7. WornIsOwned'
  <2> SUFFICES ASSUME NEW c \in Character, NEW i \in equipped[c] \ Unguarded
               PROVE  stack'[c][i] >= 1
    BY DEF AcceptParcel, WornIsOwned, person
  <2>1. i \in Item /\ stack[c][i] >= 1 /\ stack[c][i] \in Nat
    BY SetsAssumption DEF TypeOK, WornIsOwned
  <2>2. QED
    BY <1>0, <1>1, <1>2, <2>1 DEF TypeOK
<1>8. OneClaimPerStack'
  BY <1>0 DEF AcceptParcel, OneClaimPerStack, Reserving, LineItems, TypeOK, person
<1>9. QED
  BY <1>3, <1>4, <1>5, <1>6, <1>7, <1>8

-----------------------------------------------------------------------------
(* Steps of other features *)

\* A step that leaves the rows and the characters' lives alone and takes no
\* reservation needs only its types and the worn items.
LEMMA FrameInv ==
  ASSUME IndInv, TypeOK', WornIsOwned',
         UNCHANGED <<life, row, status, journal>>, alive \subseteq alive',
         due \subseteq due', \A c \in Character : held'[c] \subseteq held[c]
  PROVE  IndInv'
<1> USE DEF IndInv
<1>1. GoodsMoveOnce'
  BY DEF GoodsMoveOnce, MovedOnce
<1>2. LiveRowsOfThisLife'
  BY DEF LiveRowsOfThisLife, SameLives
<1>3. GiftsAreSingle'
  BY DEF GiftsAreSingle
<1>4. OneClaimPerStack'
  <2>1. \A t \in Transfer : Reserving(t)' => Reserving(t) /\ row[t].from \in Character
    BY RowOfLive DEF Reserving
  <2>2. QED
    BY <2>1 DEF OneClaimPerStack, LineItems
<1>5. QED
  BY <1>1, <1>2, <1>3, <1>4

LEMMA GainInv ==
  ASSUME IndInv, NEW c \in Character, NEW i \in Item, Gain(c, i)
  PROVE  IndInv'
<1>0. TypeOK /\ WornIsOwned
  BY DEF IndInv
<1>1. stack[c][i] \in Nat /\ supply[i] \in Int
  BY <1>0 DEF TypeOK
<1>2. \A d \in Character, j \in Item :
        stack'[d][j] = IF d = c /\ j = i THEN stack[c][i] + 1 ELSE stack[d][j]
  BY <1>0 DEF Gain, TypeOK
<1>3. TypeOK'
  BY <1>0, <1>1 DEF Gain, TypeOK, person
<1>4. WornIsOwned'
  BY <1>0, <1>1, <1>2, SetsAssumption DEF Gain, TypeOK, WornIsOwned, person
<1>5. QED
  BY <1>0, <1>3, <1>4, FrameInv DEF Gain, person

LEMMA SpendUnreservedInv ==
  ASSUME IndInv, NEW c \in Character, NEW i \in Item, SpendUnreserved(c, i)
  PROVE  IndInv'
<1>0. TypeOK /\ WornIsOwned
  BY DEF IndInv
<1>1. stack[c][i] \in Nat /\ stack[c][i] - 1 \in Nat /\ supply[i] \in Int
  BY <1>0 DEF TypeOK, SpendUnreserved
<1>2. \A d \in Character, j \in Item :
        stack'[d][j] = IF d = c /\ j = i THEN stack[c][i] - 1 ELSE stack[d][j]
  BY <1>0 DEF SpendUnreserved, TypeOK
<1>3. TypeOK'
  BY <1>0, <1>1 DEF SpendUnreserved, TypeOK, person
<1>4. WornIsOwned'
  BY <1>0, <1>2, SetsAssumption DEF SpendUnreserved, TypeOK, WornIsOwned, Unguarded, person
<1>5. QED
  BY <1>0, <1>3, <1>4, FrameInv DEF SpendUnreserved, person

\* An upgrade attempt takes only unguarded items, and what it raises and has
\* renamed in the equipment is there.
LEMMA UpgradeAttemptInv ==
  ASSUME IndInv, NEW c \in Character, NEW i \in Item, NEW j \in Item,
         NEW donors \in SUBSET Donors, NEW success \in BOOLEAN,
         NEW fee \in UpgradeFees, UpgradeAttempt(c, i, j, donors, success, fee)
  PROVE  IndInv'
<1> DEFINE taken == donors \cup {Spark}
           after == AfterAttempt(stack[c], i, j, taken, success)
<1>0. TypeOK /\ WornIsOwned
  BY DEF IndInv
<1>1. /\ i \in Donors /\ j \in Gear /\ i # j
      /\ Spark \in Loose /\ Spark \notin Gear /\ taken \subseteq Unguarded
  <2>1. <<i, j>> \in Upgrade
    BY DEF UpgradeAttempt
  <2>2. QED
    BY <2>1, UpgradeAssumption DEF Unguarded
<1>2. /\ stack[c] \in [Item -> Nat] /\ supply \in [Item -> Int]
      /\ gold[c] \in Nat /\ fee \in Nat /\ gold[c] >= fee
  BY <1>0, NumbersAssumption DEF TypeOK, UpgradeAttempt
<1>3. /\ stack[c][i] >= 1
      /\ \A x \in taken : stack[c][x] >= IF x = i THEN 2 ELSE 1
  BY DEF UpgradeAttempt
<1>4. after \in [Item -> Nat]
  <2>1. \A x \in Item : after[x] = stack[c][x] - (IF x \in taken THEN 1 ELSE 0)
                                   - (IF success /\ x = i THEN 1 ELSE 0)
                                   + (IF success /\ x = j THEN 1 ELSE 0)
    BY DEF AfterAttempt
  <2>2. \A x \in Item : after[x] \in Nat
    <3> SUFFICES ASSUME NEW x \in Item PROVE after[x] \in Nat
      OBVIOUS
    <3> HIDE DEF after, taken
    <3>1. stack[c][x] \in Nat
      BY <1>2
    <3>2. CASE x = i
      BY <2>1, <3>1, <3>2, <1>1, <1>3
    <3>3. CASE x # i
      BY <2>1, <3>1, <3>3, <1>3
    <3>4. QED
      BY <3>2, <3>3
  <2>3. QED
    BY <2>2 DEF AfterAttempt
<1>5. AfterAttempt(supply, i, j, taken, success) \in [Item -> Int]
  BY <1>2 DEF AfterAttempt
<1>6. /\ stack' = [stack EXCEPT ![c] = after]
      /\ supply' = AfterAttempt(supply, i, j, taken, success)
      /\ gold' = [gold EXCEPT ![c] = gold[c] - fee]
      /\ UNCHANGED <<journal, alive, life, lease, place, held, row, status, due>>
  BY DEF UpgradeAttempt
<1>7. equipped' = [equipped EXCEPT ![c] =
                     IF success /\ i \in equipped[c]
                     THEN (equipped[c] \ {i}) \cup {j} ELSE equipped[c]]
  BY DEF UpgradeAttempt
<1>8. TypeOK'
  <2>1. equipped' \in [Character -> SUBSET Gear]
    BY <1>0, <1>1, <1>7 DEF TypeOK
  <2>2. stack' \in [Character -> [Item -> Nat]]
    BY <1>0, <1>4, <1>6 DEF TypeOK
  <2>3. gold' \in [Character -> Nat]
    BY <1>0, <1>2, <1>6 DEF TypeOK
  <2>4. QED
    BY <1>0, <1>5, <1>6, <2>1, <2>2, <2>3 DEF TypeOK
<1>9. WornIsOwned'
  <2> SUFFICES ASSUME NEW d \in Character, NEW x \in equipped'[d] \ Unguarded
               PROVE  stack'[d][x] >= 1
    BY DEF WornIsOwned
  <2>1. CASE d # c
    <3>1. x \in equipped[d] /\ stack'[d] = stack[d]
      BY <1>0, <1>6, <1>7, <2>1 DEF TypeOK
    <3>2. QED
      BY <1>0, <3>1 DEF WornIsOwned
  <2>2. CASE d = c
    <3>1. x \in Item /\ x \notin taken /\ x # i
      BY <1>0, <1>1, <1>8, SetsAssumption DEF TypeOK, Unguarded
    <3>2. stack'[c][x] = stack[c][x] + (IF success /\ x = j THEN 1 ELSE 0)
      BY <1>0, <1>2, <1>6, <3>1 DEF TypeOK, AfterAttempt
    <3>3. x \in equipped[c] \/ (success /\ x = j)
      BY <1>0, <1>7, <2>2 DEF TypeOK
    <3>4. CASE x \in equipped[c]
      BY <1>0, <1>2, <2>2, <3>1, <3>2, <3>4 DEF WornIsOwned
    <3>5. CASE success /\ x = j
      BY <1>2, <2>2, <3>1, <3>2, <3>5
    <3>6. QED
      BY <3>3, <3>4, <3>5
  <2>3. QED
    BY <2>1, <2>2
<1>10. QED
  BY <1>6, <1>8, <1>9, FrameInv

LEMMA HoldInv ==
  ASSUME IndInv, NEW c \in Character, NEW i \in Item, Hold(c, i)
  PROVE  IndInv'
<1> USE DEF IndInv
<1>1. TypeOK'
  BY DEF Hold, TypeOK, goods
<1>2. GoodsMoveOnce' /\ LiveRowsOfThisLife' /\ GiftsAreSingle' /\ WornIsOwned'
  BY DEF Hold, GoodsMoveOnce, MovedOnce, LiveRowsOfThisLife, SameLives,
         GiftsAreSingle, WornIsOwned, goods
<1>3. OneClaimPerStack'
  <2>1. \A t \in Transfer : Reserving(t)' = Reserving(t)
                             /\ LineItems(t)' = LineItems(t)
    BY DEF Hold, Reserving, LineItems
  <2>2. \A t \in Transfer : Reserving(t) /\ row[t].from = c => i \notin LineItems(t)
    BY DEF Hold, Eligible, Reserved, ReservedBy
  <2>3. \A d \in Character : held'[d] = IF d = c THEN held[c] \cup {i} ELSE held[d]
    BY DEF Hold, TypeOK
  <2>4. \A t \in Transfer : Reserving(t) => row[t].from \in Character
    BY RowOfLive DEF Reserving
  <2>5. row' = row
    BY DEF Hold
  <2>6. QED
    BY <2>1, <2>2, <2>3, <2>4, <2>5 DEF OneClaimPerStack
<1>4. QED
  BY <1>1, <1>2, <1>3

LEMMA ReleaseInv ==
  ASSUME IndInv, NEW c \in Character, NEW i \in Item, Release(c, i)
  PROVE  IndInv'
<1>0. TypeOK /\ WornIsOwned
  BY DEF IndInv
<1>1. TypeOK'
  BY <1>0 DEF Release, TypeOK, goods
<1>2. WornIsOwned'
  BY <1>0 DEF Release, WornIsOwned, goods
<1>3. \A d \in Character : held'[d] \subseteq held[d]
  BY <1>0 DEF Release, TypeOK
<1>4. QED
  BY <1>1, <1>2, <1>3, FrameInv DEF Release, goods

LEMMA SpendHeldInv ==
  ASSUME IndInv, NEW c \in Character, NEW i \in Item, NEW n \in 1 .. stack[c][i],
         SpendHeld(c, i, n)
  PROVE  IndInv'
<1>0. TypeOK /\ WornIsOwned
  BY DEF IndInv
<1>1. stack[c][i] \in Nat /\ stack[c][i] - n \in Nat /\ supply[i] - n \in Int
  BY <1>0 DEF TypeOK
<1>2. \A d \in Character, j \in Item :
        stack'[d][j] = IF d = c /\ j = i THEN stack[c][i] - n ELSE stack[d][j]
  BY <1>0 DEF SpendHeld, TypeOK
<1>3. TypeOK'
  BY <1>0, <1>1 DEF SpendHeld, TypeOK
<1>4. WornIsOwned'
  BY <1>0, <1>2, SetsAssumption DEF SpendHeld, TypeOK, WornIsOwned
<1>5. \A d \in Character : held'[d] \subseteq held[d]
  BY <1>0 DEF SpendHeld, TypeOK
<1>6. QED
  BY <1>3, <1>4, <1>5, FrameInv DEF SpendHeld

LEMMA EquipInv ==
  ASSUME IndInv, NEW c \in Character, NEW i \in Item, Equip(c, i)
  PROVE  IndInv'
<1>0. TypeOK /\ WornIsOwned
  BY DEF IndInv
<1>1. TypeOK'
  BY <1>0 DEF Equip, TypeOK, goods
<1>2. WornIsOwned'
  BY <1>0 DEF Equip, TypeOK, WornIsOwned, goods
<1>3. QED
  BY <1>0, <1>1, <1>2, FrameInv DEF Equip, goods

LEMMA UnequipInv ==
  ASSUME IndInv, NEW c \in Character, NEW i \in Item, Unequip(c, i)
  PROVE  IndInv'
<1>0. TypeOK /\ WornIsOwned
  BY DEF IndInv
<1>1. TypeOK'
  BY <1>0 DEF Unequip, TypeOK, goods
<1>2. WornIsOwned'
  BY <1>0 DEF Unequip, TypeOK, WornIsOwned, goods
<1>3. QED
  BY <1>0, <1>1, <1>2, FrameInv DEF Unequip, goods

LEMMA MeetingInv ==
  ASSUME IndInv, NEW c \in Character,
         \/ \E kind \in CombatKind : EnterCombat(c, kind)
         \/ LeaveCombat(c)
         \/ \E there \in Place : Travel(c, there)
  PROVE  IndInv'
<1>0. TypeOK /\ WornIsOwned
  BY DEF IndInv
<1>1. TypeOK'
  <2>1. CASE \E kind \in CombatKind : EnterCombat(c, kind)
    BY <1>0, <2>1, SetsAssumption DEF EnterCombat, TypeOK, goods
  <2>2. CASE LeaveCombat(c)
    BY <1>0, <2>2 DEF LeaveCombat, TypeOK, goods
  <2>3. CASE \E there \in Place : Travel(c, there)
    BY <1>0, <2>3 DEF Travel, TypeOK, goods
  <2>4. QED
    BY <2>1, <2>2, <2>3
<1>2. WornIsOwned'
  BY <1>0 DEF EnterCombat, LeaveCombat, Travel, WornIsOwned, goods
<1>3. QED
  BY <1>0, <1>1, <1>2, FrameInv DEF EnterCombat, LeaveCombat, Travel, goods

LEMMA PassDeadlineInv ==
  ASSUME IndInv, NEW t \in Transfer, PassDeadline(t)
  PROVE  IndInv'
<1>0. TypeOK /\ WornIsOwned
  BY DEF IndInv
<1>1. TypeOK'
  BY <1>0 DEF PassDeadline, TypeOK, goods, person
<1>2. WornIsOwned'
  BY <1>0 DEF PassDeadline, WornIsOwned, goods, person
<1>3. QED
  BY <1>0, <1>1, <1>2, FrameInv DEF PassDeadline, goods, person

-----------------------------------------------------------------------------
(* Ends of a life *)

LEMMA RemortInv ==
  ASSUME IndInv, NEW c \in Character, NEW kept \in SUBSET Item, Remort(c, kept)
  PROVE  IndInv'
<1> DEFINE live     == {t \in Transfer : status[t] \in Live /\ Involves(t, c)}
           incoming == {p \in live \cap InCustody : row[p].to = c}
           left     == [i \in Item |-> IF i \in kept THEN 1 ELSE 0]
           q        == StackAfterReturn(incoming)
<1> USE DEF IndInv
<1>0. /\ incoming \in SUBSET Parcel /\ incoming \in SUBSET Transfer
      /\ incoming \in SUBSET live
      /\ q \in [Character -> [Item -> Nat]]
      /\ left \in [Item -> Nat]
  <2>1. incoming \in SUBSET Parcel
    BY DEF InCustody
  <2>2. QED
    BY <2>1, StackAfterReturnType DEF Transfer
<1>1. \A t \in Transfer : status'[t] = IF t \in live THEN "cancelled" ELSE status[t]
  BY DEF Remort, Settle
<1>2. journal' = NoteReturn(incoming) /\ row' = row /\ due' = due /\ alive' = alive
      /\ equipped' = [equipped EXCEPT ![c] = {}] /\ held' = [held EXCEPT ![c] = {}]
      /\ life' = [life EXCEPT ![c] = life[c] + 1]
      /\ stack' = [q EXCEPT ![c] = left]
  BY DEF Remort
<1>3. TypeOK'
  <2>1. status' \in [Transfer -> Statuses]
    BY SettleType DEF Remort, Statuses
  <2>2. journal' \in [Transfer -> [out : Nat, in : Nat, back : Nat]]
    BY <1>2, NoteReturnType DEF Moves
  <2>3. stack' \in [Character -> [Item -> Nat]]
    BY <1>0, <1>2
  <2>4. \A t \in Transfer : status'[t] \in {"unused", "purged"}
                             <=> status[t] \in {"unused", "purged"}
    BY <1>1 DEF Live
  <2>5. supply' \in [Item -> Int]
    <3>1. supply' = [i \in Item |-> supply[i] - stack[c][i] + left[i]]
      BY DEF Remort
    <3>2. \A i \in Item : supply[i] \in Int /\ stack[c][i] \in Nat /\ left[i] \in Nat
      BY DEF TypeOK
    <3>3. QED
      BY <3>1, <3>2
  <2>6. gold' \in [Character -> Nat] /\ lease' \in [Character -> {"none", "solo", "other"}]
        /\ place' = place
    BY DEF Remort, TypeOK
  <2>7. equipped' \in [Character -> SUBSET Gear] /\ held' \in [Character -> SUBSET Item]
        /\ life' \in [Character -> Nat]
    BY <1>2 DEF TypeOK
  <2>8. QED
    BY <1>2, <2>1, <2>2, <2>3, <2>4, <2>5, <2>6, <2>7 DEF TypeOK
<1>4. GoodsMoveOnce'
  <2> SUFFICES ASSUME NEW t \in Transfer PROVE MovedOnce(t)'
    BY DEF GoodsMoveOnce
  <2>1. MovedOnce(t)
    BY DEF GoodsMoveOnce
  <2>2. CASE t \in incoming
    BY <1>0, <1>1, <1>2, <2>2, ReturnedOnce DEF MovedOnce, Refused
  <2>3. CASE t \in live \ incoming
    <3>1. status[t] = "draft" \/ (status[t] = "pending" /\ t \notin Parcel)
      <4>1. status[t] \in {"draft", "pending"} /\ c \in {row[t].from, row[t].to}
        BY <2>3 DEF Live, Involves
      <4>2. \A p \in InCustody : row[p].from # c
        BY DEF Remort
      <4>3. t \notin InCustody
        BY <2>3, <4>1, <4>2
      <4>4. QED
        BY <4>1, <4>3 DEF InCustody
    <3>2. journal'[t] = journal[t] /\ journal[t] \in Moves
      BY <1>2, <2>3 DEF NoteReturn, TypeOK, Moves
    <3>3. status'[t] = "cancelled"
      BY <1>1, <2>3
    <3>4. journal[t].out = 0
      BY <2>1, <3>1 DEF MovedOnce
    <3>5. journal[t].in = 0 /\ journal[t].back = 0
      BY <2>1, <3>2, <3>4 DEF MovedOnce, Moves
    <3>6. QED
      BY <3>2, <3>3, <3>4, <3>5 DEF MovedOnce, Refused
  <2>4. CASE t \notin live
    BY <1>0, <1>1, <1>2, <2>1, <2>4 DEF MovedOnce, NoteReturn
  <2>5. QED
    BY <2>2, <2>3, <2>4
<1>5. LiveRowsOfThisLife'
  <2> SUFFICES ASSUME NEW t \in Transfer, status'[t] \in Live
               PROVE  {row'[t].from, row'[t].to} \subseteq alive' /\ SameLives(t)'
    BY DEF LiveRowsOfThisLife
  <2>1. status[t] \in Live /\ t \notin live
    BY <1>1 DEF Live
  <2>2. row[t] \in Row
    BY <2>1, RowOfLive DEF Live
  <2>3. row[t].from # c /\ row[t].to # c /\ row[t].from \in Character
        /\ row[t].to \in Character
    BY <2>1, <2>2, NoRowAssumption DEF Involves, Row
  <2>4. QED
    BY <1>2, <2>1, <2>3 DEF LiveRowsOfThisLife, SameLives, TypeOK
<1>6. GiftsAreSingle'
  BY <1>1, <1>2 DEF GiftsAreSingle, Transfer
<1>7. WornIsOwned'
  <2> SUFFICES ASSUME NEW d \in Character, NEW i \in equipped'[d] \ Unguarded
               PROVE  stack'[d][i] >= 1
    BY DEF WornIsOwned
  <2>1. d # c /\ i \in equipped[d] /\ i \in Item
    BY <1>2, SetsAssumption DEF TypeOK
  <2>2. stack[d][i] >= 1 /\ stack[d][i] \in Nat /\ q[d][i] \in Nat
    BY <1>0, <2>1 DEF WornIsOwned, TypeOK
  <2>3. q[d][i] >= stack[d][i]
    BY <1>0, <2>1, StackAfterReturnGrows
  <2>4. stack'[d][i] = q[d][i]
    BY <1>0, <1>2, <2>1
  <2>5. QED
    BY <2>2, <2>3, <2>4
<1>8. OneClaimPerStack'
  <2>1. \A t \in Transfer : Reserving(t)' => Reserving(t) /\ row[t].from \in Character
    BY <1>1, <1>2, RowOfLive DEF Reserving
  <2>2. \A d \in Character : held'[d] \subseteq held[d]
    BY <1>2 DEF TypeOK
  <2>3. QED
    BY <1>2, <2>1, <2>2 DEF OneClaimPerStack, LineItems
<1>9. QED
  BY <1>3, <1>4, <1>5, <1>6, <1>7, <1>8

LEMMA RestartInv ==
  ASSUME IndInv, NEW c \in Character, Restart(c)
  PROVE  IndInv'
<1> DEFINE gone == {t \in Transfer : Involves(t, c)}
<1> USE DEF IndInv
<1>1. \A t \in Transfer : /\ status'[t] = IF t \in gone THEN "purged" ELSE status[t]
                          /\ row'[t] = IF t \in gone THEN NoRow ELSE row[t]
  BY DEF Restart, Settle
<1>2. /\ stack' = [stack EXCEPT ![c] = [i \in Item |-> 0]]
      /\ equipped' = [equipped EXCEPT ![c] = {}] /\ held' = [held EXCEPT ![c] = {}]
      /\ life' = [life EXCEPT ![c] = 0] /\ alive' = alive \ {c}
      /\ due' = due /\ journal' = journal /\ lease' = lease /\ place' = place
  BY DEF Restart
<1>3. TypeOK'
  <2>1. status' \in [Transfer -> Statuses]
    BY SettleType DEF Restart, Statuses
  <2>2. row' \in [Transfer -> Row \cup {NoRow}]
    BY DEF Restart, TypeOK
  <2>3. \A t \in Transfer : row'[t] = NoRow <=> status'[t] \in {"unused", "purged"}
    BY <1>1 DEF TypeOK
  <2>4. supply' \in [Item -> Int]
    <3>1. gone \cap InCustody \in SUBSET Parcel
      BY DEF InCustody
    <3>2. \A i \in Item : Cardinality(UnitsIn(gone \cap InCustody, i)) \in Nat
      BY <3>1, UnitsNat
    <3>3. \A i \in Item : supply[i] \in Int /\ stack[c][i] \in Nat
      BY DEF TypeOK
    <3>4. supply' = [i \in Item |-> supply[i] - stack[c][i]
                                   - Cardinality(UnitsIn(gone \cap InCustody, i))]
      BY DEF Restart
    <3>5. QED
      BY <3>2, <3>3, <3>4
  <2>5. stack' \in [Character -> [Item -> Nat]]
    BY <1>2 DEF TypeOK
  <2>6. gold' \in [Character -> Nat]
    BY DEF Restart, TypeOK
  <2>7. equipped' \in [Character -> SUBSET Gear] /\ held' \in [Character -> SUBSET Item]
        /\ life' \in [Character -> Nat] /\ alive' \in SUBSET Character
    BY <1>2 DEF TypeOK
  <2>8. QED
    BY <1>2, <2>1, <2>2, <2>3, <2>4, <2>5, <2>6, <2>7 DEF TypeOK
<1>4. GoodsMoveOnce'
  BY <1>1, <1>2 DEF GoodsMoveOnce, MovedOnce, Refused
<1>5. LiveRowsOfThisLife'
  <2> SUFFICES ASSUME NEW t \in Transfer, status'[t] \in Live
               PROVE  {row'[t].from, row'[t].to} \subseteq alive' /\ SameLives(t)'
    BY DEF LiveRowsOfThisLife
  <2>1. status[t] \in Live /\ t \notin gone /\ row'[t] = row[t]
    BY <1>1 DEF Live
  <2>2. row[t] \in Row
    BY <2>1, RowOfLive DEF Live
  <2>3. row[t].from # c /\ row[t].to # c /\ row[t].from \in Character
        /\ row[t].to \in Character
    BY <2>1, <2>2, NoRowAssumption DEF Involves, Row
  <2>4. QED
    BY <1>2, <2>1, <2>3 DEF LiveRowsOfThisLife, SameLives, TypeOK
<1>6. GiftsAreSingle'
  BY <1>1 DEF GiftsAreSingle, Transfer
<1>7. WornIsOwned'
  BY <1>2, SetsAssumption DEF WornIsOwned, TypeOK
<1>8. OneClaimPerStack'
  <2>1. \A t \in Transfer : Reserving(t)' =>
          Reserving(t) /\ row'[t] = row[t] /\ row[t].from \in Character
    BY <1>1, <1>2, RowOfLive DEF Reserving
  <2>2. \A d \in Character : held'[d] \subseteq held[d]
    BY <1>2 DEF TypeOK
  <2>3. QED
    BY <2>1, <2>2 DEF OneClaimPerStack, LineItems
<1>9. QED
  BY <1>3, <1>4, <1>5, <1>6, <1>7, <1>8

LEMMA CreateCharacterInv ==
  ASSUME IndInv, NEW c \in Character, CreateCharacter(c)
  PROVE  IndInv'
<1>0. TypeOK /\ WornIsOwned
  BY DEF IndInv
<1>1. TypeOK'
  BY <1>0, NumbersAssumption DEF CreateCharacter, TypeOK
<1>2. WornIsOwned'
  BY <1>0 DEF CreateCharacter, WornIsOwned
<1>3. QED
  BY <1>0, <1>1, <1>2, FrameInv DEF CreateCharacter

-----------------------------------------------------------------------------
(* The theorems *)

LEMMA NextInv == IndInv /\ [Next]_vars => IndInv'
<1> SUFFICES ASSUME IndInv, [Next]_vars PROVE IndInv'
  OBVIOUS
<1>1. CASE GiftStep
  BY <1>1, CreateGiftInv, CreateGiftStaleInv, AcceptGiftInv, LateGiftAnswerInv,
     RefuseGiftInv DEF GiftStep
<1>2. CASE ParcelStep
  BY <1>2, DraftParcelInv, EditParcelInv, ConfirmParcelInv, ConfirmParcelFailsInv,
     AcceptParcelInv, DeclineParcelInv DEF ParcelStep
<1>3. CASE OtherFeatureStep
  BY <1>3, GainInv, SpendUnreservedInv, UpgradeAttemptInv, HoldInv, ReleaseInv, SpendHeldInv, EquipInv,
     UnequipInv, MeetingInv DEF OtherFeatureStep
<1>4. CASE LifeStep
  BY <1>4, RemortInv, RestartInv, CreateCharacterInv DEF LifeStep
<1>5. CASE \E t \in Transfer : PassDeadline(t)
  BY <1>5, PassDeadlineInv
<1>6. CASE UNCHANGED vars
  BY <1>6 DEF IndInv, TypeOK, GoodsMoveOnce, MovedOnce, LiveRowsOfThisLife, SameLives,
     GiftsAreSingle, WornIsOwned, OneClaimPerStack, Reserving, LineItems, vars
<1>7. QED
  BY <1>1, <1>2, <1>3, <1>4, <1>5, <1>6 DEF Next

\* The inductive invariant holds in every reachable state.
THEOREM Invariance == Spec => []IndInv
BY InitInv, NextInv, PTL DEF Spec

\* Stacks never go negative and a token has a row exactly while its status says so.
THEOREM TypeCorrect == Spec => []TypeOK
<1>1. IndInv => TypeOK
  BY DEF IndInv
<1>2. QED
  BY <1>1, Invariance, PTL

\* For any number of characters, rows, retries, remorts and restarts, the goods
\* of a row leave once and end in one place (setTransferStatus and the claims).
THEOREM Exactness == Spec => []GoodsMoveOnce
<1>1. IndInv => GoodsMoveOnce
  BY DEF IndInv
<1>2. QED
  BY <1>1, Invariance, PTL

\* No live row outlives a life of either character.
THEOREM NoOrphanRows == Spec => []LiveRowsOfThisLife
<1>1. IndInv => LiveRowsOfThisLife
  BY DEF IndInv
<1>2. QED
  BY <1>1, Invariance, PTL

\* No stack is promised twice: of live offers, parcels and the rows of other
\* features no two name the same stack of a character.
THEOREM Exclusivity == Spec => []OneClaimPerStack
<1>1. IndInv => OneClaimPerStack
  BY DEF IndInv
<1>2. QED
  BY <1>1, Invariance, PTL

\* Both: a claim that is answered is the one claim, of the lives that made it.
THEOREM SoundClaims == Spec => []ClaimsAreSound
<1>1. QED
  BY Exclusivity, NoOrphanRows, PTL DEF ClaimsAreSound

\* What a character wears it owns, whatever gifts, parcels, remorts and returns
\* take from its stacks, unless a sink that asks nobody may take the item.
THEOREM WornOwned == Spec => []WornIsOwned
<1>1. IndInv => WornIsOwned
  BY DEF IndInv
<1>2. QED
  BY <1>1, Invariance, PTL

-----------------------------------------------------------------------------
(* Every unit is counted *)

\* What the characters hold of item i, for stacks q.
Column(q, i) == [c \in Character |-> q[c][i]]
Held(q, i)   == Amount(Column(q, i), Character)

\* Stacks that change in one place.
LEMMA HeldChange ==
  ASSUME NEW before \in [Character -> [Item -> Nat]], NEW after \in [Character -> [Item -> Nat]],
         NEW c \in Character, NEW i \in Item,
         \A d \in Character \ {c} : after[d][i] = before[d][i]
  PROVE  Held(after, i) = Held(before, i) - before[c][i] + after[c][i]
<1> DEFINE n == Column(before, i)
           m == Column(after, i)
<1>1. \A d \in Character : n[d] = before[d][i] /\ m[d] = after[d][i] /\ n[d] \in Nat /\ m[d] \in Nat
  BY DEF Column
<1>2. \A d \in Character \ {c} : m[d] = n[d]
  BY <1>1
<1> HIDE DEF n, m
<1>3. Amount(m, Character) = Amount(n, Character) - n[c] + m[c]
  BY <1>1, <1>2, SetsAssumption, AmountChange
<1>4. QED
  BY <1>1, <1>3 DEF Held, n, m

LEMMA HeldNat ==
  ASSUME NEW q \in [Character -> [Item -> Nat]], NEW i \in Item
  PROVE  Held(q, i) \in Nat
<1> DEFINE n == Column(q, i)
<1>1. \A d \in Character : n[d] \in Nat
  BY DEF Column
<1> HIDE DEF n
<1>2. Amount(n, Character) \in Nat
  BY <1>1, SetsAssumption, AmountIsNat
<1>3. QED
  BY <1>2 DEF Held, n

\* Parcels that lie apart are counted apart.
LEMMA UnitsApart ==
  ASSUME NEW P \in SUBSET Parcel, NEW Q \in SUBSET Parcel, P \cap Q = {}, NEW i
  PROVE  Cardinality(UnitsIn(P \cup Q, i)) =
           Cardinality(UnitsIn(P, i)) + Cardinality(UnitsIn(Q, i))
<1> DEFINE A == UnitsIn(P, i)
           B == UnitsIn(Q, i)
<1>1. UnitsIn(P \cup Q, i) = A \cup B
  BY DEF UnitsIn
<1>2. A \cap B = {}
  BY DEF UnitsIn
<1>3. IsFiniteSet(A) /\ IsFiniteSet(B) /\ Cardinality(A) \in Nat /\ Cardinality(B) \in Nat
  BY UnitsFinite, FS_CardinalityType
<1>4. Cardinality(A \cap B) = 0
  BY <1>2, FS_EmptySet
<1> HIDE DEF A, B
<1>5. Cardinality(A \cup B) = Cardinality(A) + Cardinality(B) - 0
  BY <1>3, <1>4, FS_Union
<1>6. Cardinality(A \cup B) = Cardinality(A) + Cardinality(B)
  BY <1>3, <1>5
<1>7. QED
  BY <1>1, <1>6 DEF A, B

\* A parcel holds what its lines say.
LEMMA UnitsOfOne ==
  ASSUME NEW p \in Parcel, NEW i \in Item, row[p].lines[i] \in 0 .. MaxUnits
  PROVE  Cardinality(UnitsIn({p}, i)) = row[p].lines[i]
<1> DEFINE n == [x \in {p} |-> row[p].lines[i]]
<1>1. UnitsIn({p}, i) = {p} \X (1 .. row[p].lines[i])
  <2>1. ASSUME NEW u \in UnitsIn({p}, i) PROVE u \in {p} \X (1 .. row[p].lines[i])
    <3>1. u \in {p} \X (1 .. MaxUnits) /\ u[2] <= row[u[1]].lines[i]
      BY DEF UnitsIn
    <3>2. u = <<p, u[2]>> /\ u[2] \in 1 .. MaxUnits /\ u[2] <= row[p].lines[i]
      BY <3>1
    <3>3. QED
      BY <3>2, NumbersAssumption
  <2>2. ASSUME NEW u \in {p} \X (1 .. row[p].lines[i]) PROVE u \in UnitsIn({p}, i)
    <3>1. u = <<p, u[2]>> /\ u[1] = p /\ u[2] \in 1 .. row[p].lines[i]
      OBVIOUS
    <3>2. u[2] \in 1 .. MaxUnits /\ u[2] <= row[u[1]].lines[i]
      BY <3>1, NumbersAssumption
    <3>3. QED
      BY <3>1, <3>2 DEF UnitsIn
  <2>3. QED
    BY <2>1, <2>2
<1>2. n[p] = row[p].lines[i] /\ n[p] \in Nat
  BY NumbersAssumption
<1>3. Cardinality({p} \X (1 .. n[p])) = n[p]
  BY <1>2, OneStack
<1>4. QED
  BY <1>1, <1>2, <1>3

\* What comes home is what lay in custody, whoever sent it.
LEMMA HeldAfterReturn ==
  ASSUME TypeOK, NEW P \in SUBSET Transfer, NEW i \in Item
  PROVE  Held(StackAfterReturn(P), i) =
           Held(stack, i) + Cardinality(UnitsIn(P \cap InCustody, i))
<1> DEFINE T == [c \in Character |-> UnitsIn(ReturnedTo(c, P), i)]
           n == [c \in Character |-> Cardinality(T[c])]
           a == Column(stack, i)
           b == Column(StackAfterReturn(P), i)
           all == UNION {T[c] : c \in Character}
<1>1. \A c \in Character : IsFiniteSet(T[c])
  <2>1. ASSUME NEW c \in Character PROVE IsFiniteSet(T[c])
    <3>1. ReturnedTo(c, P) \in SUBSET Parcel
      BY DEF ReturnedTo, InCustody
    <3>2. QED
      BY <3>1, UnitsFinite
  <2>2. QED
    BY <2>1
<1>2. \A c, d \in Character : c # d => T[c] \cap T[d] = {}
  BY DEF ReturnedTo, UnitsIn
<1>3. \A c \in Character : n[c] \in Nat /\ a[c] \in Nat /\ b[c] = a[c] + n[c]
  <2>1. \A c \in Character : n[c] \in Nat
    BY <1>1, FS_CardinalityType
  <2>2. \A c \in Character : a[c] \in Nat /\ b[c] = a[c] + n[c]
    BY DEF Column, StackAfterReturn, Plus, TypeOK
  <2>3. QED
    BY <2>1, <2>2
<1>4. all = UnitsIn(P \cap InCustody, i)
  <2>1. ASSUME NEW u \in all PROVE u \in UnitsIn(P \cap InCustody, i)
    BY DEF ReturnedTo, UnitsIn
  <2>2. ASSUME NEW u \in UnitsIn(P \cap InCustody, i) PROVE u \in all
    <3>1. u[1] \in P \cap InCustody /\ u \in (P \cap InCustody) \X (1 .. MaxUnits)
          /\ u[2] <= row[u[1]].lines[i]
      BY DEF UnitsIn
    <3>2. row[u[1]].from \in Character
      BY <3>1, RowOfLive DEF InCustody, Transfer
    <3>3. u[1] \in ReturnedTo(row[u[1]].from, P)
      BY <3>1 DEF ReturnedTo
    <3>4. u = <<u[1], u[2]>> /\ u[2] \in 1 .. MaxUnits
      BY <3>1
    <3>5. u \in T[row[u[1]].from]
      BY <3>1, <3>2, <3>3, <3>4 DEF UnitsIn
    <3>6. QED
      BY <3>2, <3>5
  <2>3. QED
    BY <2>1, <2>2
<1>5. \A c \in Character : n[c] = Cardinality(T[c])
  OBVIOUS
<1>6. IsFiniteSet(Character)
  BY SetsAssumption
<1> HIDE DEF T, n, a, b
<1>7. Amount(n, Character) = Cardinality(all)
  BY <1>1, <1>2, <1>5, <1>6, AmountOfParts
<1>8. Amount(b, Character) = Amount(a, Character) + Amount(n, Character)
  BY <1>3, <1>6, AmountPlus
<1>9. QED
  BY <1>4, <1>7, <1>8 DEF Held, a, b

\* What the parcels in custody hold after a step that leaves their lines alone.
LEMMA CustodyAfter ==
  ASSUME NEW P, InCustody' = P, \A p \in P : row'[p].lines = row[p].lines, NEW i
  PROVE  UnitsIn(InCustody, i)' = UnitsIn(P, i)
BY DEF UnitsIn

\* A step balances when, for every item, stacks and custody change by what the
\* supply changes by.
LEMMA Balances ==
  ASSUME UnitsConserved, NEW P, InCustody' = P,
         \A p \in P : row'[p].lines = row[p].lines,
         \A i \in Item :
           \E out, more \in Int :
             /\ Held(stack', i) = Held(stack, i) + more + out
             /\ Cardinality(UnitsIn(P, i)) = Cardinality(UnitsIn(InCustody, i)) - out
             /\ supply'[i] = supply[i] + more,
         TypeOK, TypeOK'
  PROVE  UnitsConserved'
<1> SUFFICES ASSUME NEW i \in Item
             PROVE  Held(stack', i) + Cardinality(UnitsIn(InCustody, i)') = supply'[i]
  BY DEF UnitsConserved, Held, Column
<1>1. Held(stack, i) + Cardinality(UnitsIn(InCustody, i)) = supply[i]
  BY DEF UnitsConserved, Held, Column
<1>2. UnitsIn(InCustody, i)' = UnitsIn(P, i)
  BY CustodyAfter
<1>3. PICK out, more \in Int :
             /\ Held(stack', i) = Held(stack, i) + more + out
             /\ Cardinality(UnitsIn(P, i)) = Cardinality(UnitsIn(InCustody, i)) - out
             /\ supply'[i] = supply[i] + more
  OBVIOUS
<1>4. Held(stack, i) \in Nat /\ Cardinality(UnitsIn(InCustody, i)) \in Nat
  BY HeldNat, UnitsNat DEF TypeOK, InCustody
<1>5. supply[i] \in Int
  BY DEF TypeOK
<1>6. QED
  BY <1>1, <1>2, <1>3, <1>4, <1>5

\* A step of a draft, a gift, a person or the clock.
LEMMA SameCustody ==
  ASSUME TypeOK, TypeOK', UnitsConserved, UNCHANGED goods,
         \A p \in Parcel : /\ status[p] = "pending" <=> status'[p] = "pending"
                           /\ status[p] = "pending" => row'[p].lines = row[p].lines
  PROVE  UnitsConserved'
<1>1. InCustody' = InCustody
  BY DEF InCustody
<1>2. \A p \in InCustody : row'[p].lines = row[p].lines
  BY DEF InCustody
<1>3. ASSUME NEW i \in Item
      PROVE  \E out, more \in Int :
             /\ Held(stack', i) = Held(stack, i) + more + out
             /\ Cardinality(UnitsIn(InCustody, i)) = Cardinality(UnitsIn(InCustody, i)) - out
             /\ supply'[i] = supply[i] + more
  <2>1. Held(stack, i) \in Nat /\ Cardinality(UnitsIn(InCustody, i)) \in Nat
    BY HeldNat, UnitsNat DEF TypeOK, InCustody
  <2>2. stack' = stack /\ supply'[i] = supply[i] /\ supply[i] \in Int
    BY DEF goods, TypeOK
  <2>3. /\ Held(stack', i) = Held(stack, i) + 0 + 0
        /\ Cardinality(UnitsIn(InCustody, i)) = Cardinality(UnitsIn(InCustody, i)) - 0
        /\ supply'[i] = supply[i] + 0
    BY <2>1, <2>2
  <2>4. QED
    BY <2>3
<1>4. QED
  BY <1>1, <1>2, <1>3, Balances

\* A reward or a sink changes one character's stacks.
LEMMA OneStackChanges ==
  ASSUME TypeOK, TypeOK', UnitsConserved, UNCHANGED <<row, status>>,
         NEW c \in Character,
         \A i \in Item : /\ \A d \in Character \ {c} : stack'[d][i] = stack[d][i]
                         /\ stack'[c][i] - stack[c][i] = supply'[i] - supply[i]
  PROVE  UnitsConserved'
<1>1. InCustody' = InCustody
  BY DEF InCustody
<1>2. ASSUME NEW i \in Item
      PROVE  \E out, more \in Int :
             /\ Held(stack', i) = Held(stack, i) + more + out
             /\ Cardinality(UnitsIn(InCustody, i)) = Cardinality(UnitsIn(InCustody, i)) - out
             /\ supply'[i] = supply[i] + more
  <2>1. Held(stack, i) \in Nat /\ Cardinality(UnitsIn(InCustody, i)) \in Nat
    BY HeldNat, UnitsNat DEF TypeOK, InCustody
  <2>2. stack \in [Character -> [Item -> Nat]] /\ stack' \in [Character -> [Item -> Nat]]
    BY DEF TypeOK
  <2>3. Held(stack', i) = Held(stack, i) - stack[c][i] + stack'[c][i]
    BY <2>2, HeldChange
  <2>4. supply[i] \in Int /\ supply'[i] \in Int /\ stack[c][i] \in Nat /\ stack'[c][i] \in Nat
    BY DEF TypeOK
  <2> DEFINE more == supply'[i] - supply[i]
  <2>5. more \in Int /\ supply'[i] = supply[i] + more /\ stack'[c][i] - stack[c][i] = more
    BY <2>4
  <2> HIDE DEF more
  <2>6. Held(stack', i) = Held(stack, i) + more + 0
    BY <2>1, <2>3, <2>4, <2>5
  <2>7. Cardinality(UnitsIn(InCustody, i)) = Cardinality(UnitsIn(InCustody, i)) - 0
    BY <2>1
  <2>8. QED
    BY <2>5, <2>6, <2>7
<1>3. QED
  BY <1>1, <1>2, Balances

\* Parcels close and their custody goes home.
LEMMA ClosingBalances ==
  ASSUME TypeOK, TypeOK', UnitsConserved, UNCHANGED <<row, supply>>,
         NEW P \in SUBSET Transfer, InCustody' = InCustody \ P,
         stack' = StackAfterReturn(P)
  PROVE  UnitsConserved'
<1>1. ASSUME NEW i \in Item
      PROVE  \E out, more \in Int :
             /\ Held(stack', i) = Held(stack, i) + more + out
             /\ Cardinality(UnitsIn(InCustody \ P, i)) = Cardinality(UnitsIn(InCustody, i)) - out
             /\ supply'[i] = supply[i] + more
  <2> DEFINE out == Cardinality(UnitsIn(P \cap InCustody, i))
             rest == Cardinality(UnitsIn(InCustody \ P, i))
  <2>1. P \cap InCustody \in SUBSET Parcel /\ InCustody \ P \in SUBSET Parcel
    BY DEF InCustody
  <2>2. out \in Nat /\ rest \in Nat /\ Held(stack, i) \in Nat
    BY <2>1, UnitsNat, HeldNat DEF TypeOK
  <2>3. Held(stack', i) = Held(stack, i) + out
    BY HeldAfterReturn
  <2>4. Cardinality(UnitsIn(InCustody, i)) = out + rest
    <3>1. InCustody = (P \cap InCustody) \cup (InCustody \ P)
          /\ (P \cap InCustody) \cap (InCustody \ P) = {}
      OBVIOUS
    <3>2. QED
      BY <2>1, <3>1, UnitsApart
  <2>5. supply'[i] = supply[i] + 0 /\ rest = Cardinality(UnitsIn(InCustody \ P, i))
    BY DEF TypeOK
  <2> HIDE DEF out, rest
  <2>6. Held(stack', i) = Held(stack, i) + 0 + out
        /\ rest = Cardinality(UnitsIn(InCustody, i)) - out
    BY <2>2, <2>3, <2>4
  <2>7. QED
    BY <2>2, <2>5, <2>6
<1>2. QED
  BY <1>1, Balances

LEMMA AcceptGiftBalances ==
  ASSUME IndInv, TypeOK', UnitsConserved, NEW g \in Gift, AcceptGift(g)
  PROVE  UnitsConserved'
<1> DEFINE s == row[g].from
           r == row[g].to
           q == [stack EXCEPT ![s] = Minus(@, g)]
<1>0. /\ TypeOK /\ g \in Transfer /\ g \notin Parcel /\ status[g] = "pending"
      /\ s \in Character /\ r \in Character
      /\ row[g].lines \in [Item -> 0 .. MaxUnits]
  BY RowOfLive, SetsAssumption DEF AcceptGift, Transfer, IndInv
<1>1. \A i \in Item : row[g].lines[i] \in Nat /\ row[g].lines[i] <= stack[s][i] /\ stack[s][i] \in Nat
  <2> SUFFICES ASSUME NEW i \in Item
               PROVE row[g].lines[i] \in Nat /\ row[g].lines[i] <= stack[s][i] /\ stack[s][i] \in Nat
    OBVIOUS
  <2>1. row[g].lines[i] \in {0, 1}
    BY <1>0, NumbersAssumption DEF GiftsAreSingle, IndInv
  <2>2. row[g].lines[i] = 1 => stack[s][i] >= 1
    BY DEF AcceptGift, LineItems, Eligible
  <2>3. stack[s][i] \in Nat
    BY <1>0 DEF TypeOK
  <2>4. QED
    BY <2>1, <2>2, <2>3
<1>2. q \in [Character -> [Item -> Nat]] /\ \A i \in Item : q[s][i] = stack[s][i] - row[g].lines[i]
  <2>1. Minus(stack[s], g) \in [Item -> Nat]
        /\ \A i \in Item : Minus(stack[s], g)[i] = stack[s][i] - row[g].lines[i]
    BY <1>0, <1>1 DEF Minus, TypeOK
  <2>2. QED
    BY <1>0, <2>1 DEF TypeOK
<1>3. stack' = [q EXCEPT ![r] = [i \in Item |-> q[r][i] + row[g].lines[i]]]
  BY <1>0 DEF AcceptGift, Minus, TypeOK
<1>4. stack \in [Character -> [Item -> Nat]] /\ stack' \in [Character -> [Item -> Nat]]
  BY <1>0 DEF TypeOK
<1>5. \A d \in Character \ {s} : \A i \in Item : q[d][i] = stack[d][i]
  BY <1>0 DEF TypeOK
<1>6. /\ \A d \in Character \ {r} : \A i \in Item : stack'[d][i] = q[d][i]
      /\ \A i \in Item : stack'[r][i] = q[r][i] + row[g].lines[i]
  BY <1>0, <1>2, <1>3
<1>7. InCustody' = InCustody /\ \A p \in InCustody : row'[p].lines = row[p].lines
  BY <1>0 DEF InCustody, AcceptGift, TypeOK
<1> HIDE DEF s, r, q
<1>8. ASSUME NEW i \in Item
      PROVE  \E out, more \in Int :
             /\ Held(stack', i) = Held(stack, i) + more + out
             /\ Cardinality(UnitsIn(InCustody, i)) = Cardinality(UnitsIn(InCustody, i)) - out
             /\ supply'[i] = supply[i] + more
  <2>1. Held(q, i) = Held(stack, i) - stack[s][i] + q[s][i]
    <3>1. s \in Character /\ \A d \in Character \ {s} : q[d][i] = stack[d][i]
      BY <1>0, <1>5
    <3>2. QED
      BY <1>2, <1>4, <3>1, HeldChange
  <2>2. Held(stack', i) = Held(q, i) - q[r][i] + stack'[r][i]
    <3>1. r \in Character /\ \A d \in Character \ {r} : stack'[d][i] = q[d][i]
      BY <1>0, <1>6
    <3>2. QED
      BY <1>2, <1>4, <3>1, HeldChange
  <2>3. /\ Held(stack, i) \in Nat /\ Held(q, i) \in Nat /\ Held(stack', i) \in Nat
        /\ Cardinality(UnitsIn(InCustody, i)) \in Nat
    BY <1>2, <1>4, HeldNat, UnitsNat DEF InCustody
  <2>4. supply'[i] = supply[i] /\ supply[i] \in Int
    BY <1>0 DEF AcceptGift, TypeOK
  <2>5. q[r][i] \in Nat /\ stack[s][i] \in Nat /\ row[g].lines[i] \in Nat
    BY <1>0, <1>1, <1>2
  <2>6. Held(stack', i) = Held(stack, i)
    BY <1>2, <1>6, <2>1, <2>2, <2>3, <2>5
  <2>7. /\ Held(stack', i) = Held(stack, i) + 0 + 0
        /\ Cardinality(UnitsIn(InCustody, i)) = Cardinality(UnitsIn(InCustody, i)) - 0
        /\ supply'[i] = supply[i] + 0
    BY <2>3, <2>4, <2>6
  <2>8. QED
    BY <2>7
<1>9. QED
  BY <1>0, <1>7, <1>8, Balances

\* A sweep closes rows that wait or are drafts, and no other.
LEMMA SettledCustody ==
  ASSUME TypeOK, NEW P \in SUBSET Transfer, NEW s, s # "pending",
         status' = Settle(P, s)
  PROVE  InCustody' = InCustody \ P
BY DEF InCustody, Settle, Transfer

LEMMA ConfirmParcelBalances ==
  ASSUME IndInv, TypeOK', UnitsConserved, NEW p \in Parcel, ConfirmParcel(p)
  PROVE  UnitsConserved'
<1> DEFINE s == row[p].from
           swept == ForgottenParcels(s)
           q == StackAfterReturn(swept)
           rest == InCustody \ swept
<1>0. /\ TypeOK /\ p \in Transfer /\ status[p] = "draft" /\ p \notin due
      /\ s \in Character
      /\ row[p].lines \in [Item -> 0 .. MaxUnits]
  BY RowOfLive, SetsAssumption DEF ConfirmParcel, CanConfirm, Transfer, IndInv
<1>1. /\ swept \in SUBSET Transfer /\ p \notin swept
      /\ rest \in SUBSET Parcel /\ p \notin rest
      /\ swept \cap InCustody \in SUBSET Parcel
  BY <1>0 DEF ForgottenParcels, Transfer, InCustody
<1>2. InCustody' = rest \cup {p}
  BY <1>0 DEF ConfirmParcel, Settle, InCustody, Transfer, ForgottenParcels
<1>3. q \in [Character -> [Item -> Nat]]
  BY <1>0, <1>1, StackAfterReturnType
<1>4. /\ \A d \in Character \ {s} : \A i \in Item : stack'[d][i] = q[d][i]
      /\ \A i \in Item : stack'[s][i] = q[s][i] - row[p].lines[i]
  <2>1. stack' = [q EXCEPT ![s] = Minus(q[s], p)]
    BY DEF ConfirmParcel
  <2>2. \A i \in Item : Minus(q[s], p)[i] = q[s][i] - row[p].lines[i]
    BY DEF Minus
  <2>3. QED
    BY <1>0, <1>3, <2>1, <2>2
<1>5. stack' \in [Character -> [Item -> Nat]] /\ stack \in [Character -> [Item -> Nat]]
  BY <1>0 DEF TypeOK
<1>6. row' = row /\ supply' = supply
  BY DEF ConfirmParcel
<1>7. ASSUME NEW i \in Item
      PROVE  \E out, more \in Int :
             /\ Held(stack', i) = Held(stack, i) + more + out
             /\ Cardinality(UnitsIn(rest \cup {p}, i)) = Cardinality(UnitsIn(InCustody, i)) - out
             /\ supply'[i] = supply[i] + more
  <2> DEFINE back == Cardinality(UnitsIn(swept \cap InCustody, i))
             stay == Cardinality(UnitsIn(rest, i))
             mine == Cardinality(UnitsIn({p}, i))
             n == row[p].lines[i]
  <2>1. Held(q, i) = Held(stack, i) + back
    BY <1>0, <1>1, HeldAfterReturn
  <2>2. Cardinality(UnitsIn(InCustody, i)) = back + stay
    <3>1. InCustody = (swept \cap InCustody) \cup rest
          /\ (swept \cap InCustody) \cap rest = {}
      OBVIOUS
    <3> HIDE DEF rest, swept
    <3>2. QED
      BY <1>1, <3>1, UnitsApart
  <2>3. Cardinality(UnitsIn(rest \cup {p}, i)) = stay + mine
    <3>1. {p} \in SUBSET Parcel /\ rest \cap {p} = {}
      BY <1>1
    <3> HIDE DEF rest
    <3>2. QED
      BY <1>1, <3>1, UnitsApart
  <2>4. mine = n /\ n \in Nat
    BY <1>0, UnitsOfOne, NumbersAssumption
  <2>5. back \in Nat /\ stay \in Nat /\ Held(stack, i) \in Nat /\ Held(q, i) \in Nat
        /\ Held(stack', i) \in Nat /\ q[s][i] \in Nat
    BY <1>0, <1>1, <1>3, <1>5, UnitsNat, HeldNat
  <2>6. supply'[i] = supply[i] + 0
    BY <1>0, <1>6 DEF TypeOK
  <2> HIDE DEF s, q, swept, rest
  <2>7. Held(stack', i) = Held(q, i) - q[s][i] + stack'[s][i]
    <3>1. s \in Character /\ \A d \in Character \ {s} : stack'[d][i] = q[d][i]
      BY <1>0, <1>4
    <3>2. QED
      BY <1>3, <1>5, <3>1, HeldChange
  <2>8. stack'[s][i] = q[s][i] - n
    BY <1>4
  <2> HIDE DEF back, stay, mine, n
  <2> DEFINE out == back - n
  <2>9. out \in Int /\ Held(stack', i) = Held(stack, i) + 0 + out
    BY <2>1, <2>4, <2>5, <2>7, <2>8
  <2>10. Cardinality(UnitsIn(rest \cup {p}, i)) = Cardinality(UnitsIn(InCustody, i)) - out
    BY <2>2, <2>3, <2>4, <2>5
  <2> HIDE DEF out
  <2>11. QED
    BY <2>6, <2>9, <2>10
<1>8. \A x \in rest \cup {p} : row'[x].lines = row[x].lines
  BY <1>6
<1> DEFINE after == rest \cup {p}
<1> HIDE DEF s, swept, q, rest
<1>9. InCustody' = after /\ \A x \in after : row'[x].lines = row[x].lines
  BY <1>2, <1>8
<1>10. \A i \in Item :
         \E out, more \in Int :
           /\ Held(stack', i) = Held(stack, i) + more + out
           /\ Cardinality(UnitsIn(after, i)) = Cardinality(UnitsIn(InCustody, i)) - out
           /\ supply'[i] = supply[i] + more
  BY <1>7
<1> HIDE DEF after
<1>11. QED
  BY <1>0, <1>9, <1>10, Balances

LEMMA ConfirmParcelFailsBalances ==
  ASSUME IndInv, TypeOK', UnitsConserved, NEW p \in Parcel, ConfirmParcelFails(p)
  PROVE  UnitsConserved'
<1> DEFINE swept == ForgottenParcels(row[p].from)
<1>1. swept \in SUBSET Transfer /\ TypeOK
  BY DEF ForgottenParcels, Transfer, IndInv
<1>2. InCustody' = InCustody \ swept
  BY <1>1, SettledCustody DEF ConfirmParcelFails
<1>3. stack' = StackAfterReturn(swept) /\ UNCHANGED <<row, supply>>
  BY DEF ConfirmParcelFails
<1> HIDE DEF swept
<1>4. QED
  BY <1>1, <1>2, <1>3, ClosingBalances

LEMMA CloseParcelBalances ==
  ASSUME IndInv, TypeOK', UnitsConserved, NEW p \in Parcel, NEW s, s # "pending",
         CloseParcel(p, s)
  PROVE  UnitsConserved'
<1>1. {p} \in SUBSET Transfer /\ TypeOK
  BY DEF Transfer, IndInv
<1>2. InCustody' = InCustody \ {p}
  BY <1>1, SettledCustody DEF CloseParcel
<1>3. stack' = StackAfterReturn({p}) /\ UNCHANGED <<row, supply>>
  BY DEF CloseParcel
<1>4. QED
  BY <1>1, <1>2, <1>3, ClosingBalances

LEMMA AcceptParcelBalances ==
  ASSUME IndInv, TypeOK', UnitsConserved, NEW p \in Parcel, AcceptParcel(p)
  PROVE  UnitsConserved'
<1> DEFINE r == row[p].to
           rest == InCustody \ {p}
<1>0. /\ TypeOK /\ p \in Transfer /\ p \in InCustody /\ status[p] = "pending"
      /\ r \in Character
  BY RowOfLive, SetsAssumption DEF AcceptParcel, InCustody, Transfer, IndInv
<1>1. rest \in SUBSET Parcel /\ {p} \in SUBSET Parcel /\ rest \cap {p} = {}
      /\ InCustody = rest \cup {p}
  BY <1>0 DEF InCustody
<1>2. InCustody' = rest
  BY <1>0 DEF AcceptParcel, InCustody, TypeOK
<1>3. /\ \A d \in Character \ {r} : \A i \in Item : stack'[d][i] = stack[d][i]
      /\ \A i \in Item : stack'[r][i] = stack[r][i] + Cardinality(UnitsIn({p}, i))
  BY <1>0 DEF AcceptParcel, Plus, TypeOK
<1>4. stack' \in [Character -> [Item -> Nat]] /\ stack \in [Character -> [Item -> Nat]]
  BY <1>0 DEF TypeOK
<1>5. \A x \in rest : row'[x].lines = row[x].lines
  BY DEF AcceptParcel
<1> HIDE DEF r, rest
<1>6. ASSUME NEW i \in Item
      PROVE  \E out, more \in Int :
             /\ Held(stack', i) = Held(stack, i) + more + out
             /\ Cardinality(UnitsIn(rest, i)) = Cardinality(UnitsIn(InCustody, i)) - out
             /\ supply'[i] = supply[i] + more
  <2> DEFINE out == Cardinality(UnitsIn({p}, i))
             stay == Cardinality(UnitsIn(rest, i))
  <2>1. out \in Nat /\ stay \in Nat /\ Held(stack, i) \in Nat /\ stack[r][i] \in Nat
    BY <1>0, <1>1, <1>4, UnitsNat, HeldNat
  <2>2. Held(stack', i) = Held(stack, i) - stack[r][i] + stack'[r][i]
    BY <1>0, <1>3, <1>4, HeldChange
  <2>3. stack'[r][i] = stack[r][i] + out
    BY <1>3
  <2>4. Cardinality(UnitsIn(InCustody, i)) = stay + out
    BY <1>1, UnitsApart
  <2>5. supply'[i] = supply[i] + 0
    BY <1>0 DEF AcceptParcel, TypeOK
  <2>6. stay = Cardinality(UnitsIn(rest, i))
    OBVIOUS
  <2> HIDE DEF out, stay
  <2>7. Held(stack', i) = Held(stack, i) + 0 + out
    BY <2>1, <2>2, <2>3
  <2>8. stay = Cardinality(UnitsIn(InCustody, i)) - out
    BY <2>1, <2>4
  <2>9. QED
    BY <2>1, <2>5, <2>6, <2>7, <2>8
<1>7. QED
  BY <1>0, <1>2, <1>5, <1>6, Balances

LEMMA RemortBalances ==
  ASSUME IndInv, TypeOK', UnitsConserved, NEW c \in Character, NEW kept \in SUBSET Item,
         Remort(c, kept)
  PROVE  UnitsConserved'
<1> DEFINE live     == {t \in Transfer : status[t] \in Live /\ Involves(t, c)}
           incoming == {p \in live \cap InCustody : row[p].to = c}
           left     == [i \in Item |-> IF i \in kept THEN 1 ELSE 0]
           q        == StackAfterReturn(incoming)
           rest     == InCustody \ live
<1>1. /\ TypeOK /\ incoming \in SUBSET Transfer
      /\ rest \in SUBSET Parcel /\ incoming \cap InCustody \in SUBSET Parcel
  BY DEF IndInv, InCustody
<1>2. \A p \in InCustody : row[p].from # c
  BY DEF Remort
<1>3. InCustody = (incoming \cap InCustody) \cup rest /\ (incoming \cap InCustody) \cap rest = {}
  BY <1>2 DEF Involves
<1>4. InCustody' = rest
  <2>1. status' = Settle(live, "cancelled")
    BY DEF Remort
  <2>2. live \in SUBSET Transfer
    OBVIOUS
  <2> HIDE DEF live
  <2>3. QED
    BY <1>1, <2>1, <2>2, SettledCustody
<1>5. q \in [Character -> [Item -> Nat]]
  BY <1>1, StackAfterReturnType
<1>6. stack' = [q EXCEPT ![c] = left] /\ row' = row
      /\ \A i \in Item : left[i] \in Nat /\ supply'[i] = supply[i] - stack[c][i] + left[i]
  BY DEF Remort
<1>7. ASSUME NEW i \in Item PROVE q[c][i] = stack[c][i]
  <2>1. ReturnedTo(c, incoming) = {}
    BY <1>2 DEF ReturnedTo
  <2>2. UnitsIn(ReturnedTo(c, incoming), i) = {}
    BY <2>1 DEF UnitsIn
  <2>3. Cardinality(UnitsIn(ReturnedTo(c, incoming), i)) = 0
    BY <2>2, FS_EmptySet
  <2>4. q[c][i] = stack[c][i] + Cardinality(UnitsIn(ReturnedTo(c, incoming), i))
    BY DEF StackAfterReturn, Plus
  <2>5. QED
    BY <1>1, <2>3, <2>4 DEF TypeOK
<1>8. /\ \A i \in Item : stack'[c][i] = left[i]
      /\ \A d \in Character \ {c} : \A i \in Item : stack'[d][i] = q[d][i]
  BY <1>5, <1>6
<1>9. stack' \in [Character -> [Item -> Nat]]
  BY DEF TypeOK
<1>10. \A x \in rest : row'[x].lines = row[x].lines
  BY <1>6
<1>11. \A i \in Item : Held(q, i) = Held(stack, i) + Cardinality(UnitsIn(incoming \cap InCustody, i))
  BY <1>1, HeldAfterReturn
<1> DEFINE came == incoming \cap InCustody
<1>12. came \in SUBSET Parcel /\ InCustody = came \cup rest /\ came \cap rest = {}
  BY <1>1, <1>3
<1>13. \A i \in Item : Held(q, i) = Held(stack, i) + Cardinality(UnitsIn(came, i))
  BY <1>11
<1> HIDE DEF live, incoming, left, q, rest, came
<1>14. ASSUME NEW i \in Item
       PROVE  \E out, more \in Int :
             /\ Held(stack', i) = Held(stack, i) + more + out
             /\ Cardinality(UnitsIn(rest, i)) = Cardinality(UnitsIn(InCustody, i)) - out
             /\ supply'[i] = supply[i] + more
  <2> DEFINE out == Cardinality(UnitsIn(came, i))
             stay == Cardinality(UnitsIn(rest, i))
             more == left[i] - stack[c][i]
  <2>1. out \in Nat /\ stay \in Nat /\ Held(stack, i) \in Nat /\ Held(q, i) \in Nat
    BY <1>1, <1>5, <1>12, UnitsNat, HeldNat DEF TypeOK
  <2>2. stack[c][i] \in Nat /\ left[i] \in Nat /\ supply[i] \in Int
    BY <1>1, <1>6 DEF TypeOK
  <2>3. Held(stack', i) = Held(q, i) - q[c][i] + stack'[c][i]
    <3>1. \A d \in Character \ {c} : stack'[d][i] = q[d][i]
      BY <1>8
    <3>2. QED
      BY <1>5, <1>9, <3>1, HeldChange
  <2>4. q[c][i] = stack[c][i] /\ stack'[c][i] = left[i]
    BY <1>7, <1>8
  <2>5. Held(q, i) = Held(stack, i) + out
    BY <1>13
  <2>6. Cardinality(UnitsIn(InCustody, i)) = out + stay
    BY <1>1, <1>12, UnitsApart
  <2>7. supply'[i] = supply[i] - stack[c][i] + left[i]
    BY <1>6
  <2>8. more \in Int /\ supply'[i] = supply[i] + more
    BY <2>2, <2>7
  <2>9. Held(stack', i) = Held(stack, i) + more + out
    BY <2>1, <2>2, <2>3, <2>4, <2>5
  <2>10. Cardinality(UnitsIn(rest, i)) = Cardinality(UnitsIn(InCustody, i)) - out
    BY <2>1, <2>6
  <2> HIDE DEF out, more, stay
  <2>11. QED
    BY <2>1, <2>8, <2>9, <2>10
<1>15. QED
  BY <1>1, <1>4, <1>10, <1>14, Balances

LEMMA RestartBalances ==
  ASSUME IndInv, TypeOK', UnitsConserved, NEW c \in Character, Restart(c)
  PROVE  UnitsConserved'
<1> DEFINE gone == {t \in Transfer : Involves(t, c)}
           lost == gone \cap InCustody
           rest == InCustody \ gone
<1>1. TypeOK /\ gone \in SUBSET Transfer
  BY DEF IndInv
<1>2. lost \in SUBSET Parcel /\ rest \in SUBSET Parcel
      /\ InCustody = lost \cup rest /\ lost \cap rest = {}
  BY DEF InCustody
<1>3. InCustody' = rest
  <2>1. status' = Settle(gone, "purged")
    BY DEF Restart
  <2> HIDE DEF gone
  <2>2. QED
    BY <1>1, <2>1, SettledCustody
<1>4. \A x \in rest : row'[x].lines = row[x].lines
  BY <1>2 DEF Restart, Transfer
<1>5. /\ \A i \in Item : stack'[c][i] = 0
      /\ \A d \in Character \ {c} : \A i \in Item : stack'[d][i] = stack[d][i]
  BY <1>1 DEF Restart, TypeOK
<1>6. \A i \in Item : supply'[i] = supply[i] - stack[c][i] - Cardinality(UnitsIn(lost, i))
  BY DEF Restart
<1>7. stack \in [Character -> [Item -> Nat]] /\ stack' \in [Character -> [Item -> Nat]]
  BY <1>1 DEF TypeOK
<1> HIDE DEF gone, lost, rest
<1>8. ASSUME NEW i \in Item
      PROVE  \E out, more \in Int :
             /\ Held(stack', i) = Held(stack, i) + more + out
             /\ Cardinality(UnitsIn(rest, i)) = Cardinality(UnitsIn(InCustody, i)) - out
             /\ supply'[i] = supply[i] + more
  <2> DEFINE out == Cardinality(UnitsIn(lost, i))
             stay == Cardinality(UnitsIn(rest, i))
             more == 0 - stack[c][i] - out
  <2>1. out \in Nat /\ stay \in Nat /\ Held(stack, i) \in Nat
        /\ stack[c][i] \in Nat /\ supply[i] \in Int
    <3>1. out \in Nat /\ stay \in Nat
      BY <1>2, UnitsNat
    <3>2. Held(stack, i) \in Nat
      BY <1>7, HeldNat
    <3>3. QED
      BY <1>1, <3>1, <3>2 DEF TypeOK
  <2>2. Held(stack', i) = Held(stack, i) - stack[c][i] + stack'[c][i]
    <3>1. \A d \in Character \ {c} : stack'[d][i] = stack[d][i]
      BY <1>5
    <3>2. QED
      BY <1>7, <3>1, HeldChange
  <2>3. stack'[c][i] = 0
    BY <1>5
  <2>4. Cardinality(UnitsIn(InCustody, i)) = out + stay
    BY <1>2, UnitsApart
  <2>5. supply'[i] = supply[i] - stack[c][i] - out
    BY <1>6
  <2>6. more \in Int /\ supply'[i] = supply[i] + more
    BY <2>1, <2>5
  <2>7. Held(stack', i) = Held(stack, i) + more + out
    BY <2>1, <2>2, <2>3
  <2>8. Cardinality(UnitsIn(rest, i)) = Cardinality(UnitsIn(InCustody, i)) - out
    BY <2>1, <2>4
  <2> HIDE DEF out, more, stay
  <2>9. QED
    BY <2>1, <2>6, <2>7, <2>8
<1>9. QED
  BY <1>1, <1>3, <1>4, <1>8, Balances

\* Rewards and sinks.
LEMMA OtherFeatureBalances ==
  ASSUME IndInv, TypeOK', UnitsConserved, OtherFeatureStep
  PROVE  UnitsConserved'
<1> USE DEF IndInv
<1>1. PICK c \in Character :
    \/ \E i \in Item : \/ Gain(c, i) \/ SpendUnreserved(c, i)
                       \/ Hold(c, i) \/ Release(c, i)
                       \/ Equip(c, i) \/ Unequip(c, i)
                       \/ \E n \in 1 .. stack[c][i] : SpendHeld(c, i, n)
    \/ \E kind \in CombatKind : EnterCombat(c, kind)
    \/ \E i, j \in Item, donors \in SUBSET Donors,
          success \in BOOLEAN, fee \in UpgradeFees :
         UpgradeAttempt(c, i, j, donors, success, fee)
    \/ LeaveCombat(c)
    \/ \E there \in Place : Travel(c, there)
  BY DEF OtherFeatureStep
<1>2. ASSUME NEW i \in Item, Gain(c, i) \/ SpendUnreserved(c, i)
             \/ \E n \in 1 .. stack[c][i] : SpendHeld(c, i, n)
      PROVE  UnitsConserved'
  <2>1. stack \in [Character -> [Item -> Nat]] /\ supply \in [Item -> Int]
    BY DEF TypeOK
  <2>2. PICK n \in Int : /\ stack' = [stack EXCEPT ![c][i] = stack[c][i] + n]
                         /\ supply' = [supply EXCEPT ![i] = supply[i] + n]
    <3>1. CASE Gain(c, i)
      <4> DEFINE m == 1
      <4>1. m \in Int
        OBVIOUS
      <4>2. /\ stack' = [stack EXCEPT ![c][i] = stack[c][i] + m]
            /\ supply' = [supply EXCEPT ![i] = supply[i] + m]
        BY <3>1 DEF Gain
      <4> HIDE DEF m
      <4>3. QED
        BY <4>1, <4>2
    <3>2. CASE SpendUnreserved(c, i)
      <4> DEFINE m == 0 - 1
      <4>1. m \in Int /\ stack[c][i] - 1 = stack[c][i] + m /\ supply[i] - 1 = supply[i] + m
        BY <2>1
      <4>2. /\ stack' = [stack EXCEPT ![c][i] = stack[c][i] - 1]
            /\ supply' = [supply EXCEPT ![i] = supply[i] - 1]
        BY <3>2 DEF SpendUnreserved
      <4> HIDE DEF m
      <4>3. /\ stack' = [stack EXCEPT ![c][i] = stack[c][i] + m]
            /\ supply' = [supply EXCEPT ![i] = supply[i] + m]
        BY <4>1, <4>2
      <4>4. QED
        BY <4>1, <4>3
    <3>3. CASE \E n \in 1 .. stack[c][i] : SpendHeld(c, i, n)
      <4>1. PICK n \in 1 .. stack[c][i] : SpendHeld(c, i, n)
        BY <3>3
      <4> DEFINE m == 0 - n
      <4>2. m \in Int /\ stack[c][i] - n = stack[c][i] + m /\ supply[i] - n = supply[i] + m
        BY <2>1
      <4> HIDE DEF m
      <4>3. QED
        BY <4>1, <4>2 DEF SpendHeld
    <3>4. QED
      BY <1>2, <3>1, <3>2, <3>3
  <2>3. ASSUME NEW x \in Item
        PROVE  /\ \A d \in Character \ {c} : stack'[d][x] = stack[d][x]
               /\ stack'[c][x] - stack[c][x] = supply'[x] - supply[x]
    <3>1. \A d \in Character \ {c} : stack'[d][x] = stack[d][x]
      BY <2>1, <2>2
    <3>2. stack'[c][x] = (IF x = i THEN stack[c][x] + n ELSE stack[c][x])
          /\ supply'[x] = IF x = i THEN supply[x] + n ELSE supply[x]
      BY <2>1, <2>2
    <3>3. stack[c][x] \in Int /\ supply[x] \in Int
      BY <2>1
    <3>4. QED
      BY <3>1, <3>2, <3>3
  <2>4. UNCHANGED <<row, status>>
    BY <1>2 DEF Gain, SpendUnreserved, SpendHeld
  <2>5. QED
    BY <2>3, <2>4, OneStackChanges
<1>3. ASSUME NEW i \in Item, NEW j \in Item, NEW donors \in SUBSET Donors,
             NEW success \in BOOLEAN, NEW fee \in UpgradeFees,
             UpgradeAttempt(c, i, j, donors, success, fee)
      PROVE  UnitsConserved'
  <2> DEFINE burnt(x) == IF x \in donors \cup {Spark} THEN 1 ELSE 0
             raised(x) == IF success /\ x = i THEN 1 ELSE 0
             made(x) == IF success /\ x = j THEN 1 ELSE 0
  <2>1. stack \in [Character -> [Item -> Nat]] /\ supply \in [Item -> Int]
    BY DEF TypeOK
  <2>2. /\ stack' = [stack EXCEPT ![c] = AfterAttempt(stack[c], i, j, donors \cup {Spark}, success)]
        /\ supply' = AfterAttempt(supply, i, j, donors \cup {Spark}, success)
        /\ UNCHANGED <<row, status>>
    BY <1>3 DEF UpgradeAttempt
  <2>3. ASSUME NEW x \in Item
        PROVE  /\ \A d \in Character \ {c} : stack'[d][x] = stack[d][x]
               /\ stack'[c][x] - stack[c][x] = supply'[x] - supply[x]
    <3>1. \A d \in Character \ {c} : stack'[d][x] = stack[d][x]
      BY <2>1, <2>2
    <3>2. stack'[c][x] = stack[c][x] - burnt(x) - raised(x) + made(x)
          /\ supply'[x] = supply[x] - burnt(x) - raised(x) + made(x)
      BY <2>1, <2>2 DEF AfterAttempt
    <3>3. stack[c][x] \in Int /\ supply[x] \in Int /\ burnt(x) \in Int
          /\ raised(x) \in Int /\ made(x) \in Int
      BY <2>1
    <3> HIDE DEF burnt, raised, made
    <3>4. QED
      BY <3>1, <3>2, <3>3
  <2>4. QED
    BY <2>2, <2>3, OneStackChanges
<1>4. ASSUME \/ \E i \in Item : Hold(c, i) \/ Release(c, i) \/ Equip(c, i) \/ Unequip(c, i)
             \/ \E kind \in CombatKind : EnterCombat(c, kind)
             \/ LeaveCombat(c)
             \/ \E there \in Place : Travel(c, there)
      PROVE  UnitsConserved'
  <2>1. UNCHANGED goods /\ UNCHANGED <<row, status>>
    BY <1>4 DEF Hold, Release, Equip, Unequip, EnterCombat, LeaveCombat, Travel
  <2>2. QED
    BY <2>1, SameCustody
<1>5. QED
  BY <1>1, <1>2, <1>3, <1>4

LEMMA GiftBalances ==
  ASSUME IndInv, TypeOK', UnitsConserved, GiftStep
  PROVE  UnitsConserved'
<1>1. CASE \E g \in Gift : AcceptGift(g)
  BY <1>1, AcceptGiftBalances
<1>2. CASE \/ \E s, r \in Character, i \in Item :
                (\E g \in Gift : CreateGift(g, s, r, i)) \/ CreateGiftStale(s, r, i)
           \/ \E g \in Gift : \/ LateGiftAnswer(g)
                              \/ \E answer \in {"declined", "cancelled"} : RefuseGift(g, answer)
  <2>1. UNCHANGED goods
    BY <1>2 DEF CreateGift, CreateGiftStale, LateGiftAnswer, RefuseGift
  <2>2. \A p \in Parcel : status'[p] = status[p] /\ row'[p] = row[p]
    <3>0. TypeOK /\ Gift \cap Parcel = {} /\ Parcel \in SUBSET Transfer
      BY SetsAssumption DEF IndInv, Transfer
    <3>1. \A s \in Character, i \in Item, p \in Parcel :
            Settle(ForgottenGifts(s, i), "expired")[p] = status[p]
      BY <3>0 DEF Settle, ForgottenGifts
    <3>2. CASE \E s, r \in Character, i \in Item, g \in Gift : CreateGift(g, s, r, i)
      BY <3>0, <3>1, <3>2 DEF CreateGift, TypeOK
    <3>3. CASE \E s, r \in Character, i \in Item : CreateGiftStale(s, r, i)
      BY <3>1, <3>3 DEF CreateGiftStale
    <3>4. CASE \E g \in Gift : LateGiftAnswer(g)
      BY <3>0, <3>4 DEF LateGiftAnswer, TypeOK
    <3>5. CASE \E g \in Gift, answer \in {"declined", "cancelled"} : RefuseGift(g, answer)
      BY <3>0, <3>5 DEF RefuseGift, TypeOK
    <3>6. QED
      BY <1>2, <3>2, <3>3, <3>4, <3>5
  <2>3. QED
    BY <2>1, <2>2, SameCustody DEF IndInv
<1>3. QED
  BY <1>1, <1>2 DEF GiftStep

LEMMA ParcelBalances ==
  ASSUME IndInv, TypeOK', UnitsConserved, ParcelStep
  PROVE  UnitsConserved'
<1>1. CASE \/ \E p \in Parcel, s, r \in Character : DraftParcel(p, s, r)
           \/ \E p \in Parcel, lines \in Contents : EditParcel(p, lines)
  <2>1. UNCHANGED goods
    BY <1>1 DEF DraftParcel, EditParcel
  <2>2. \A p \in Parcel : /\ status[p] = "pending" <=> status'[p] = "pending"
                          /\ status[p] = "pending" => row'[p].lines = row[p].lines
    BY <1>1 DEF DraftParcel, EditParcel, IndInv, TypeOK, Transfer
  <2>3. QED
    BY <2>1, <2>2, SameCustody DEF IndInv
<1>2. CASE \E p \in Parcel : ConfirmParcel(p) \/ ConfirmParcelFails(p) \/ AcceptParcel(p)
  BY <1>2, ConfirmParcelBalances, ConfirmParcelFailsBalances, AcceptParcelBalances
<1>3. CASE \E p \in Parcel : DeclineParcel(p) \/ LateParcelAnswer(p) \/ CancelParcel(p)
  BY <1>3, CloseParcelBalances DEF DeclineParcel, LateParcelAnswer, CancelParcel
<1>4. QED
  BY <1>1, <1>2, <1>3 DEF ParcelStep

LEMMA LifeBalances ==
  ASSUME IndInv, TypeOK', UnitsConserved, LifeStep
  PROVE  UnitsConserved'
<1>1. CASE \E c \in Character : CreateCharacter(c)
  <2>1. QED
    BY <1>1, OneStackChanges DEF CreateCharacter, IndInv, TypeOK
<1>2. QED
  BY <1>1, RemortBalances, RestartBalances DEF LifeStep

LEMMA NextBalances == IndInv /\ IndInv' /\ UnitsConserved /\ [Next]_vars => UnitsConserved'
<1> SUFFICES ASSUME IndInv, IndInv', UnitsConserved, [Next]_vars PROVE UnitsConserved'
  OBVIOUS
<1>0. TypeOK /\ TypeOK'
  BY DEF IndInv
<1>1. CASE \E t \in Transfer : PassDeadline(t)
  BY <1>0, <1>1, SameCustody DEF PassDeadline
<1>2. CASE UNCHANGED vars
  BY <1>0, <1>2, SameCustody DEF vars, goods
<1>3. QED
  BY <1>0, <1>1, <1>2, GiftBalances, ParcelBalances, OtherFeatureBalances, LifeBalances DEF Next

LEMMA InitBalances == Init => UnitsConserved
<1> SUFFICES ASSUME Init, NEW i \in Item
             PROVE  Held(stack, i) + Cardinality(UnitsIn(InCustody, i)) = supply[i]
  BY DEF UnitsConserved, Held, Column
<1> DEFINE n == Column(stack, i)
<1>1. \A c \in Character : n[c] = StartStack
  BY DEF Column, Init
<1>2. InCustody = {}
  BY DEF InCustody, Init, Transfer
<1>3. UnitsIn(InCustody, i) = {}
  BY <1>2 DEF UnitsIn
<1>4. Cardinality(UnitsIn(InCustody, i)) = 0
  BY <1>3, FS_EmptySet
<1> HIDE DEF n
<1>5. Amount(n, Character) = StartStack * Cardinality(Character)
  BY <1>1, SetsAssumption, NumbersAssumption, AmountEven
<1>6. Cardinality(Character) \in Nat /\ StartStack \in Nat
  BY SetsAssumption, NumbersAssumption, FS_CardinalityType
<1>7. StartStack * Cardinality(Character) \in Nat
  BY <1>6
<1>8. supply[i] = StartStack * Cardinality(Character)
  BY DEF Init
<1>9. QED
  BY <1>4, <1>5, <1>7, <1>8 DEF Held, n

\* However gifts, parcels, returns, remorts and restarts interleave, no unit is
\* made or lost: what all stacks and the parcels in custody hold is what the
\* rewards made and the sinks took.
THEOREM Conservation == Spec => []UnitsConserved
<1>1. Spec => []IndInv
  BY Invariance
<1>2. Init => UnitsConserved
  BY InitBalances
<1>3. IndInv /\ IndInv' /\ UnitsConserved /\ [Next]_vars => UnitsConserved'
  BY NextBalances
<1>4. QED
  BY <1>1, <1>2, <1>3, PTL DEF Spec
=============================================================================
