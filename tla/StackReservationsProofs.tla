---------------------- MODULE StackReservationsProofs ----------------------
(***************************************************************************)
(* What holds of the counters of the inn for every number of items, rows,  *)
(* units, prices and lives.  Every step treats every row in one of four    *)
(* ways; that alone makes reservations exclusive and answers final.  The    *)
(* second half is about amounts: what the stacks, the purse and the rows    *)
(* hold, and that they add up.                                              *)
(***************************************************************************)
EXTENDS StackReservations, UnitsTheorems

-----------------------------------------------------------------------------
(* The inductive invariant *)

\* The columns that an edit writes, or has to keep.
Shaped(r) == {"lines", "life"} \subseteq DOMAIN r

\* Rows are rows, whatever their numbers are.
RowsOK ==
  /\ DOMAIN row = Token /\ DOMAIN status = Token /\ DOMAIN spent = Token
  /\ \A t \in Token : status[t] = "pending" => Shaped(row[t])

\* At most one pending order names an item, also among those that are due.
OneOrder ==
  \A t, u \in Order : t # u /\ status[t] = "pending" /\ status[u] = "pending" =>
    Named(t) \cap Named(u) = {}

IndInv == RowsOK /\ LiveRowsOfThisLife /\ OneClaimPerStack /\ OneOrder

-----------------------------------------------------------------------------
(* What a step does with a row *)

Keeps(t) == row'[t] = row[t] /\ status'[t] = status[t] /\ spent'[t] = spent[t]

Closes(t) ==
  /\ status[t] = "pending" /\ status'[t] \in {"completed", "cancelled", "expired"}
  /\ row'[t] = row[t] /\ spent'[t] = spent[t]

\* The row is opened or written anew, for units that nobody else has a claim on.
Claims(t) ==
  /\ status[t] \in {"unused", "pending"} /\ status'[t] = "pending"
  /\ Shaped(row'[t]) /\ row'[t].life = life
  /\ spent'[t] = spent[t]
  /\ \A i \in Item : row'[t].lines[i] > 0 =>
       /\ i \notin worn \cup pledged /\ stack[i] >= row'[t].lines[i]
       /\ \A u \in Token \ {t} : Live(u)' => i \notin Named(u)'
       /\ t \in Order =>
            \A u \in Order \ {t} : status'[u] = "pending" => i \notin Named(u)'

\* The row is answered and consumes its units.
Takes(t) ==
  /\ status[t] \in {"unused", "pending"} /\ status'[t] = "completed"
  /\ t \notin due \cap (Sale \cup Order)
  /\ \A i \in Item : spent'[t][i] > 0 => i \notin worn \cup pledged

Lawful ==
  /\ DOMAIN row' = Token /\ DOMAIN status' = Token /\ DOMAIN spent' = Token
  /\ \A t \in Token : Keeps(t) \/ Closes(t) \/ Claims(t) \/ Takes(t)
  /\ due \subseteq due'
  /\ life' = life \/ \A t \in Token : status'[t] # "pending"
  /\ \A i \in pledged' \ pledged : \A t \in Token : Live(t)' => i \notin Named(t)'

-----------------------------------------------------------------------------
(* What lawful steps preserve *)

LEMMA LawfulInv == ASSUME IndInv, Lawful PROVE IndInv'
<1>1. \A t \in Token : Live(t)' => Claims(t) \/ (Keeps(t) /\ Live(t) /\ Named(t)' = Named(t))
  BY DEF Lawful, Live, Closes, Takes, Keeps, Claims, Named
<1>2. \A t \in Token : status'[t] = "pending" =>
        Claims(t) \/ (Keeps(t) /\ status[t] = "pending" /\ Named(t)' = Named(t))
  BY DEF Lawful, Closes, Takes, Keeps, Claims, Named
<1>3. RowsOK'
  BY <1>2 DEF Lawful, IndInv, RowsOK, Claims, Keeps
<1>4. LiveRowsOfThisLife'
  BY <1>2 DEF Lawful, IndInv, LiveRowsOfThisLife, Claims, Keeps
<1>5. \A t, u \in Token : t # u /\ Live(t)' /\ Live(u)' => Named(t)' \cap Named(u)' = {}
  <2>1. SUFFICES ASSUME NEW t \in Token, NEW u \in Token, t # u, Live(t)', Live(u)',
                        NEW i \in Item, i \in Named(t)', i \in Named(u)'
                 PROVE  FALSE
    BY DEF Named
  <2>2. row'[t].lines[i] > 0 /\ row'[u].lines[i] > 0
    BY <2>1 DEF Named
  <2>3. ~Claims(t) /\ ~Claims(u)
    BY <2>1, <2>2 DEF Claims
  <2>4. QED
    BY <1>1, <2>1, <2>3 DEF IndInv, OneClaimPerStack
<1>6. \A t \in Token : Live(t)' => Named(t)' \cap pledged' = {}
  <2>1. SUFFICES ASSUME NEW t \in Token, Live(t)',
                        NEW i \in Item, i \in Named(t)', i \in pledged'
                 PROVE  FALSE
    BY DEF Named
  <2>2. i \in pledged
    BY <2>1 DEF Lawful
  <2>3. ~Claims(t)
    BY <2>1, <2>2 DEF Claims, Named
  <2>4. QED
    BY <1>1, <2>1, <2>2, <2>3 DEF IndInv, OneClaimPerStack
<1>7. OneOrder'
  <2>1. SUFFICES ASSUME NEW t \in Order, NEW u \in Order, t # u,
                        status'[t] = "pending", status'[u] = "pending",
                        NEW i \in Item, i \in Named(t)', i \in Named(u)'
                 PROVE  FALSE
    BY DEF OneOrder, Named
  <2>2. row'[t].lines[i] > 0 /\ row'[u].lines[i] > 0 /\ t \in Token /\ u \in Token
    BY <2>1 DEF Named, Token
  <2>3. ~Claims(t) /\ ~Claims(u)
    BY <2>1, <2>2 DEF Claims
  <2>4. QED
    BY <1>2, <2>1, <2>2, <2>3 DEF IndInv, OneOrder
<1>8. QED
  BY <1>3, <1>4, <1>5, <1>6, <1>7 DEF IndInv, OneClaimPerStack

\* An answer stands as it was given.
Final ==
  \A t \in Token : status[t] \notin {"unused", "pending"} =>
    status'[t] = status[t] /\ row'[t] = row[t] /\ spent'[t] = spent[t]

NoneOverdue == \A t \in due \cap (Sale \cup Order) : spent'[t] = spent[t]

Respect ==
  \A t \in Token :
    LET before == IF Live(t) THEN Named(t) ELSE {}
        claims == {i \in Item : row'[t] # NoRow /\ Live(t)' /\ row'[t].lines[i] > 0}
        takes  == {i \in Item : spent'[t] # spent[t] /\ spent'[t][i] > 0}
    IN  /\ \A i \in (claims \ before) \cup takes : i \notin worn \cup pledged
        /\ \A i \in claims \ before : stack[i] >= row'[t].lines[i]

LEMMA LawfulSteps == ASSUME Lawful PROVE Final /\ NoneOverdue /\ Respect
<1>1. Final
  BY DEF Lawful, Final, Keeps, Closes, Claims, Takes
<1>2. NoneOverdue
  BY DEF Lawful, NoneOverdue, Keeps, Closes, Claims, Takes, Token
<1>3. Respect
  <2> SUFFICES ASSUME NEW t \in Token
               PROVE  LET before == IF Live(t) THEN Named(t) ELSE {}
                          claims == {i \in Item : row'[t] # NoRow /\ Live(t)' /\ row'[t].lines[i] > 0}
                          takes  == {i \in Item : spent'[t] # spent[t] /\ spent'[t][i] > 0}
                      IN  /\ \A i \in (claims \ before) \cup takes : i \notin worn \cup pledged
                          /\ \A i \in claims \ before : stack[i] >= row'[t].lines[i]
    BY DEF Respect
  <2>1. CASE Keeps(t)
    <3>1. Live(t)' => Live(t)
      BY <2>1 DEF Lawful, Keeps, Live
    <3>2. QED
      BY <2>1, <3>1 DEF Keeps, Named
  <2>2. CASE Closes(t)
    BY <2>2 DEF Closes, Live
  <2>3. CASE Claims(t)
    BY <2>3 DEF Claims
  <2>4. CASE Takes(t)
    BY <2>4 DEF Takes, Live
  <2>5. QED
    BY <2>1, <2>2, <2>3, <2>4 DEF Lawful
<1>4. QED
  BY <1>1, <1>2, <1>3

-----------------------------------------------------------------------------
(* Steps that write no row *)

\* Some pending rows are closed, and at most the clock goes on.
LEMMA ClosingLawful ==
  ASSUME IndInv, UNCHANGED <<row, spent>>, due \subseteq due',
         DOMAIN status' = Token,
         \A t \in Token :
           \/ status'[t] = status[t]
           \/ /\ status[t] = "pending"
              /\ status'[t] \in {"completed", "cancelled", "expired"},
         life' = life \/ \A t \in Token : status'[t] # "pending",
         \A i \in pledged' \ pledged : \A t \in Token : Live(t)' => i \notin Named(t)'
  PROVE  Lawful
BY DEF Lawful, IndInv, RowsOK, Keeps, Closes

\* Any answer that consumes nothing.
LEMMA AnswerLawful ==
  ASSUME IndInv, NEW t \in Token, status[t] = "pending",
         NEW s \in {"completed", "cancelled", "expired"}, Answer(t, s)
  PROVE  Lawful
<1>1. status' = [u \in Token |-> IF u \in {t} THEN s ELSE status[u]]
  BY DEF Answer, Settle
<1>2. UNCHANGED <<row, spent, due, life, pledged>>
  BY DEF Answer, self
<1>3. QED
  BY <1>1, <1>2, ClosingLawful

LEMMA CallChestLawful == ASSUME IndInv, CallChest PROVE Lawful
<1>1. status' = [t \in Token |-> IF t \in {r \in Run \cap due : status[r] = "pending"}
                                 THEN "expired" ELSE status[t]]
  BY DEF CallChest, Settle
<1>2. UNCHANGED <<row, spent, due, life, pledged>>
  BY DEF CallChest, self
<1>3. QED
  BY <1>1, <1>2, ClosingLawful

\* Clearing a stack of its orders, and answering one of them.
LEMMA ClearedFacts ==
  ASSUME NEW i, NEW whole
  PROVE  /\ DOMAIN Cleared(i, whole) = Token
         /\ \A t \in Token :
              \/ Cleared(i, whole)[t] = status[t]
              \/ status[t] = "pending" /\ Cleared(i, whole)[t] \in {"cancelled", "expired"}
BY DEF Cleared, OrdersOn, LiveOn

LEMMA PreviewRefusedLawful ==
  ASSUME IndInv, NEW i \in Usable, NEW whole \in BOOLEAN, PreviewRefused(i, whole)
  PROVE  Lawful
<1>1. status' = Cleared(i, whole) /\ UNCHANGED <<row, spent, due, life, pledged>>
  BY DEF PreviewRefused, self
<1>2. QED
  BY <1>1, ClearedFacts, ClosingLawful

LEMMA PreviewAgainLawful ==
  ASSUME IndInv, NEW t \in Order, NEW i \in Usable, PreviewAgain(t, i)
  PROVE  Lawful
<1>1. /\ status' = [Cleared(i, row[t].whole) EXCEPT ![t] = Refreshed(t, i)]
      /\ UNCHANGED <<row, spent, due, life, pledged>>
      /\ status[t] = "pending" /\ t \in Token
  BY DEF PreviewAgain, self, LiveOn, OrdersOn, Token
<1>2. Refreshed(t, i) \in {"expired", "completed", "pending"}
  BY DEF Refreshed
<1>3. DOMAIN status' = Token /\ status'[t] = Refreshed(t, i)
      /\ \A u \in Token \ {t} : status'[u] = Cleared(i, row[t].whole)[u]
  BY <1>1, ClearedFacts
<1>4. QED
  BY <1>1, <1>2, <1>3, ClearedFacts, ClosingLawful

LEMMA CombatUseLawful ==
  ASSUME IndInv, NEW i \in Usable, NEW taken, CombatUse(i, taken)
  PROVE  Lawful
<1>1. status' = [t \in Token |-> IF t \in LiveOn(i) THEN "cancelled" ELSE status[t]]
  BY DEF CombatUse, Settle
<1>2. UNCHANGED <<row, spent, due, life, pledged>>
  BY DEF CombatUse, self
<1>3. \A t \in LiveOn(i) : status[t] = "pending"
  BY DEF LiveOn, OrdersOn
<1>4. QED
  BY <1>1, <1>2, <1>3, ClosingLawful

LEMMA AnswersLawful ==
  ASSUME IndInv, NEW t \in Token,
         \/ CancelRun(t) \/ CancelSale(t) \/ LateSale(t)
         \/ ConfirmUseFull(t) \/ ConfirmUseStale(t) \/ LateUse(t) \/ CancelUse(t)
  PROVE  Lawful
<1>1. PICK s \in {"completed", "cancelled", "expired"} : status[t] = "pending" /\ Answer(t, s)
  BY DEF CancelRun, CancelSale, LateSale, ConfirmUseFull, ConfirmUseStale, LateUse,
     CancelUse, Confirmable
<1>2. QED
  BY <1>1, AnswerLawful

LEMMA RemortLawful ==
  ASSUME IndInv, NEW kept \in SUBSET Item, Remort(kept)
  PROVE  Lawful
<1>1. status' = [t \in Token |-> IF t \in ClosedByRemort THEN "cancelled" ELSE status[t]]
  BY DEF Remort, Settle
<1>2. UNCHANGED <<row, spent, due>> /\ pledged' = {}
  BY DEF Remort
<1>3. \A t \in Token : status'[t] # "pending"
  BY <1>1 DEF ClosedByRemort
<1>4. QED
  BY <1>1, <1>2, <1>3, ClosingLawful DEF ClosedByRemort

\* Steps of other features; an offered gift takes a stack nobody has claimed.
LEMMA OtherLawful ==
  ASSUME IndInv,
         \/ CallEnds
         \/ \E i \in Item :
              \/ Gain(i) \/ SpendLoose(i) \/ Pledge(i) \/ Unpledge(i) \/ GiveAway(i)
              \/ Wear(i) \/ TakeOff(i)
         \/ \E there \in Spot, health \in 0 .. MaxHurt : Roam(there, health)
         \/ \E t \in Token : PassDeadline(t)
         \/ UNCHANGED vars
  PROVE  Lawful
<1>1. UNCHANGED <<row, status, spent, life>> /\ due \subseteq due'
  BY DEF CallEnds, Gain, SpendLoose, ChangeStack, Pledge, Unpledge, GiveAway, Wear, TakeOff,
     Roam, PassDeadline, rows, self, vars
<1>2. \A i \in pledged' \ pledged : i \notin Held({}) /\ due' = due
  BY DEF CallEnds, Gain, SpendLoose, ChangeStack, Pledge, Unpledge, GiveAway, Wear, TakeOff,
     Roam, PassDeadline, rows, self, vars, Free, Reserved
<1>3. \A i \in pledged' \ pledged : \A t \in Token : Live(t)' => i \notin Named(t)'
  BY <1>1, <1>2 DEF Held, Live, Named
<1>4. DOMAIN status' = Token
  BY <1>1 DEF IndInv, RowsOK
<1>5. QED
  BY <1>1, <1>3, <1>4, ClosingLawful

-----------------------------------------------------------------------------
(* Steps that reserve *)

\* One row is opened or rewritten for units that are available.
LEMMA ClaimLawful ==
  ASSUME IndInv, NEW t \in Token \ Order, NEW r, Shaped(r), r.life = life,
         Available(r.lines, {t}),
         status[t] \in {"unused", "pending"},
         row' = [row EXCEPT ![t] = r],
         status' = [u \in Token |-> IF u = t THEN "pending" ELSE status[u]],
         UNCHANGED <<spent, due, life, pledged>>
  PROVE  Lawful
<1>1. DOMAIN row' = Token /\ row'[t] = r /\ \A u \in Token \ {t} : row'[u] = row[u]
  BY DEF IndInv, RowsOK
<1>2. \A u \in Token \ {t} : Keeps(u)
  BY <1>1 DEF Keeps
<1>3. Claims(t)
  <2>1. SUFFICES ASSUME NEW i \in Item, r.lines[i] > 0
                 PROVE  /\ i \notin worn \cup pledged /\ stack[i] >= r.lines[i]
                        /\ \A u \in Token \ {t} : Live(u)' => i \notin Named(u)'
    BY <1>1 DEF Claims
  <2>2. i \notin worn /\ i \notin pledged /\ i \notin Held({t}) /\ r.lines[i] <= stack[i]
    BY <2>1 DEF Available, Reserved
  <2>3. ASSUME NEW u \in Token \ {t}, Live(u)' PROVE i \notin Named(u)'
    <3>1. Live(u) /\ Named(u)' = Named(u)
      BY <1>1, <2>3 DEF Live, Named
    <3>2. QED
      BY <2>2, <3>1 DEF Held
  <2>4. QED
    BY <2>2, <2>3
<1>4. QED
  BY <1>1, <1>2, <1>3 DEF Lawful, IndInv, RowsOK

LEMMA Kinds ==
  /\ \A t \in Run \cup Sale \cup Exchange : t \in Token \ Order
  /\ \A t \in Order : t \in Token /\ t \notin Run
BY TokensAssumption DEF Token

LEMMA NewRowShaped ==
  ASSUME NEW lines, NEW seen, NEW price, NEW whole
  PROVE  LET r == NewRow(lines, seen, price, whole) IN
         Shaped(r) /\ r.life = life /\ r.lines = lines
BY DEF NewRow, Shaped

LEMMA NothingFree == ASSUME NEW but PROVE Available(Nothing, but)
BY DEF Available, Nothing

LEMMA StartRunLawful ==
  ASSUME IndInv, NEW t \in Run, NEW lines, StartRun(t, lines)
  PROVE  Lawful
<1> DEFINE r == NewRow(lines, Nothing, 0, FALSE)
<1>1. /\ status[t] = "unused" /\ row' = [row EXCEPT ![t] = r]
      /\ status' = [u \in Token |-> IF u = t THEN "pending" ELSE status[u]]
      /\ UNCHANGED <<spent, due, life, pledged>>
  BY DEF StartRun, Open, Settle, self
<1>2. Available(lines, {t})
  BY DEF StartRun, Available, Reserved, Held
<1>3. Shaped(r) /\ r.life = life /\ Available(r.lines, {t})
  BY <1>2 DEF NewRow, Shaped
<1>4. t \in Token \ Order
  BY Kinds
<1>5. QED
  BY <1>1, <1>3, <1>4, ClaimLawful

LEMMA StartSaleLawful ==
  ASSUME IndInv, NEW t \in Sale, StartSale(t)
  PROVE  Lawful
<1> DEFINE r == NewRow(Nothing, Nothing, 0, FALSE)
<1>1. /\ status[t] = "unused" /\ row' = [row EXCEPT ![t] = r]
      /\ status' = [u \in Token |-> IF u = t THEN "pending" ELSE status[u]]
      /\ UNCHANGED <<spent, due, life, pledged>>
  BY DEF StartSale, Open, Settle, self
<1>2. Shaped(r) /\ r.life = life /\ Available(r.lines, {t})
  BY NothingFree DEF NewRow, Shaped
<1>3. t \in Token \ Order
  BY Kinds
<1>4. QED
  BY <1>1, <1>2, <1>3, ClaimLawful

\* A rewritten row keeps its life.
LEMMA RewriteLawful ==
  ASSUME IndInv, NEW t \in Token \ Order, NEW r, status[t] = "pending",
         Rewrite(t, r), Shaped(r), r.life = row[t].life, Available(r.lines, {t})
  PROVE  Lawful
<1>1. r.life = life
  BY DEF IndInv, LiveRowsOfThisLife
<1>2. /\ row' = [row EXCEPT ![t] = r] /\ status' = status
      /\ UNCHANGED <<spent, due, life, pledged>>
  BY DEF Rewrite, self
<1>3. DOMAIN row' = Token /\ row'[t] = r /\ \A u \in Token \ {t} : row'[u] = row[u]
  BY <1>2 DEF IndInv, RowsOK
<1>4. \A u \in Token \ {t} : Keeps(u)
  BY <1>2, <1>3 DEF Keeps
<1>5. Claims(t)
  <2>1. SUFFICES ASSUME NEW i \in Item, r.lines[i] > 0
                 PROVE  /\ i \notin worn \cup pledged /\ stack[i] >= r.lines[i]
                        /\ \A u \in Token \ {t} : Live(u)' => i \notin Named(u)'
    BY <1>1, <1>2, <1>3 DEF Claims
  <2>2. i \notin worn /\ i \notin pledged /\ i \notin Held({t}) /\ r.lines[i] <= stack[i]
    BY <2>1 DEF Available, Reserved
  <2>3. ASSUME NEW u \in Token \ {t}, Live(u)' PROVE i \notin Named(u)'
    <3>1. Live(u) /\ Named(u)' = Named(u)
      BY <1>2, <1>3, <2>3 DEF Live, Named
    <3>2. QED
      BY <2>2, <3>1 DEF Held
  <2>4. QED
    BY <2>2, <2>3
<1>6. QED
  BY <1>2, <1>3, <1>4, <1>5 DEF Lawful, IndInv, RowsOK

LEMMA EditRunLawful ==
  ASSUME IndInv, NEW t \in Run, NEW lines, EditRun(t, lines)
  PROVE  Lawful
<1> DEFINE r == [row[t] EXCEPT !.lines = lines]
<1>1. Shaped(row[t]) /\ status[t] = "pending" /\ Rewrite(t, r) /\ Available(lines, {t})
  BY Kinds DEF EditRun, IndInv, RowsOK
<1>2. Shaped(r) /\ r.life = row[t].life /\ r.lines = lines
  BY <1>1 DEF Shaped
<1>3. QED
  BY <1>1, <1>2, Kinds, RewriteLawful

LEMMA EditSaleLawful ==
  ASSUME IndInv, NEW t \in Sale, NEW lines, EditSale(t, lines)
  PROVE  Lawful
<1> DEFINE seen == [i \in Item |-> IF lines[i] > 0 THEN stack[i] ELSE 0]
           r == [row[t] EXCEPT !.lines = lines, !.seen = seen, !.gold = Payout(lines)]
<1>1. Shaped(row[t]) /\ status[t] = "pending" /\ Rewrite(t, r) /\ Available(lines, {t})
  BY Kinds DEF EditSale, IndInv, RowsOK
<1>2. \A s, g : LET n == [row[t] EXCEPT !.lines = lines, !.seen = s, !.gold = g] IN
        Shaped(n) /\ n.life = row[t].life /\ n.lines = lines
  BY <1>1 DEF Shaped
<1>3. QED
  BY <1>1, <1>2, Kinds, RewriteLawful

\* A preview withdraws the character's other orders of the stack.
LEMMA PreviewLawful ==
  ASSUME IndInv, NEW t \in Order, NEW i \in Usable, NEW whole \in BOOLEAN,
         Preview(t, i, whole)
  PROVE  Lawful
<1> DEFINE seen == IF whole THEN Nothing ELSE Only(i, stack[i])
           lines == Only(i, Needed(whole))
           r == NewRow(lines, seen, 0, whole)
<1>1. /\ status[t] = "unused" /\ SameKind(i, whole) = {} /\ Free(i, LiveOn(i))
      /\ stack[i] >= Needed(whole)
      /\ row' = [row EXCEPT ![t] = r]
      /\ status' = [Cleared(i, whole) EXCEPT ![t] = "pending"]
      /\ UNCHANGED <<spent, due, life, pledged>>
  BY DEF Preview, self
<1>2. t \in Token /\ t \notin Run /\ i \in Item
  BY Kinds, ItemsAssumption
<1>3. /\ DOMAIN row' = Token /\ row'[t] = r /\ \A u \in Token \ {t} : row'[u] = row[u]
      /\ DOMAIN status' = Token /\ status'[t] = "pending"
      /\ \A u \in Token \ {t} : status'[u] = Cleared(i, whole)[u]
  BY <1>1, <1>2, ClearedFacts DEF IndInv, RowsOK
<1>4. \A u \in Token \ {t} : Keeps(u) \/ Closes(u)
  BY <1>1, <1>3, ClearedFacts DEF Keeps, Closes
<1>5. \A j \in Item : lines[j] > 0 => j = i
  BY <1>2 DEF Only, Nothing
<1>6. lines[i] = Needed(whole)
  BY <1>2 DEF Only, Nothing
<1>7. \A u \in Order \ {t} : status'[u] = "pending" => i \notin Named(u)
  <2>1. SUFFICES ASSUME NEW u \in Order \ {t}, i \in Named(u), status'[u] = "pending"
                 PROVE  FALSE
    OBVIOUS
  <2>2. u \in Token /\ Cleared(i, whole)[u] = "pending"
    BY <1>3, <2>1, Kinds
  <2>3. status[u] = "pending"
    BY <2>2, ClearedFacts
  <2>4. u \in OrdersOn(i)
    BY <2>1, <2>3 DEF OrdersOn
  <2>5. u \notin SameKind(i, whole)
    BY <1>1
  <2>6. QED
    BY <2>2, <2>4, <2>5 DEF Cleared, SameKind
<1>8. \A u \in Token \ {t} : Live(u)' => i \notin Named(u)
  <2>1. SUFFICES ASSUME NEW u \in Token \ {t}, Live(u)', u \notin Order
                 PROVE  i \notin Named(u)
    BY <1>7 DEF Live
  <2>2. Live(u)
    BY <1>1, <1>3, <2>1, ClearedFacts DEF Live
  <2>3. u \notin LiveOn(i)
    BY <2>1 DEF LiveOn, OrdersOn
  <2>4. QED
    BY <1>1, <2>2, <2>3 DEF Free, Reserved, Held
<1>9. Claims(t)
  <2>1. Shaped(r) /\ r.life = life /\ r.lines = lines
    BY NewRowShaped
  <2>2. \A u \in Token \ {t} : Named(u)' = Named(u)
    BY <1>3 DEF Named
  <2>3. i \notin worn \cup pledged
    BY <1>1 DEF Free, Reserved
  <2>4. SUFFICES ASSUME NEW j \in Item, lines[j] > 0
                 PROVE  /\ j \notin worn \cup pledged /\ stack[j] >= lines[j]
                        /\ \A u \in Token \ {t} : Live(u)' => j \notin Named(u)'
                        /\ \A u \in Order \ {t} : status'[u] = "pending" => j \notin Named(u)'
    BY <1>1, <1>3, <2>1 DEF Claims
  <2>5. j = i
    BY <1>5, <2>4
  <2>6. QED
    BY <1>1, <1>6, <1>7, <1>8, <2>2, <2>3, <2>5, Kinds
<1>10. QED
  BY <1>1, <1>2, <1>3, <1>4, <1>9 DEF Lawful, IndInv, RowsOK

-----------------------------------------------------------------------------
(* Steps that consume *)

LEMMA TakeLawful ==
  ASSUME IndInv, NEW t \in Token, NEW units,
         status[t] \in {"unused", "pending"},
         t \notin due \cap (Sale \cup Order),
         Take(t, units),
         \A i \in Item : units[i] > 0 => i \notin worn \cup pledged,
         DOMAIN row' = Token, \A u \in Token \ {t} : row'[u] = row[u],
         UNCHANGED <<due, life, pledged>>
  PROVE  Lawful
<1>1. /\ status' = [u \in Token |-> IF u \in {t} THEN "completed" ELSE status[u]]
      /\ spent' = [spent EXCEPT ![t] = units]
  BY DEF Take, Settle
<1>2. /\ DOMAIN spent' = Token /\ spent'[t] = units
      /\ \A u \in Token \ {t} : spent'[u] = spent[u]
  BY <1>1 DEF IndInv, RowsOK
<1>3. Takes(t)
  BY <1>1, <1>2 DEF Takes
<1>4. \A u \in Token \ {t} : Keeps(u)
  BY <1>1, <1>2 DEF Keeps
<1>5. QED
  BY <1>1, <1>2, <1>3, <1>4 DEF Lawful

LEMMA ConfirmRunLawful ==
  ASSUME IndInv, NEW t \in Run, NEW prize \in Prize, ConfirmRun(t, prize)
  PROVE  Lawful
<1>1. t \notin Sale \cup Order /\ t \in Token
  BY Kinds, TokensAssumption
<1>2. /\ status[t] = "pending" /\ Take(t, row[t].lines)
      /\ \A i \in Item : row[t].lines[i] > 0 => i \notin worn \cup pledged
      /\ UNCHANGED <<row, due, life, pledged>>
  BY DEF ConfirmRun, self, Available, Reserved
<1>3. QED
  BY <1>1, <1>2, TakeLawful DEF IndInv, RowsOK

LEMMA ConfirmSaleLawful ==
  ASSUME IndInv, NEW t \in Sale, ConfirmSale(t)
  PROVE  Lawful
<1>1. /\ status[t] = "pending" /\ t \notin due
      /\ Take(t, row[t].lines)
      /\ \A i \in Item : row[t].lines[i] > 0 => i \notin worn \cup pledged
      /\ UNCHANGED <<row, due, life, pledged>>
  BY DEF ConfirmSale, SaleHolds, Available, Reserved
<1>2. QED
  BY <1>1, Kinds, TakeLawful DEF IndInv, RowsOK

LEMMA BarterLawful ==
  ASSUME IndInv, NEW t \in Exchange, Barter(t)
  PROVE  Lawful
<1>1. t \notin Sale \cup Order /\ t \in Token
  BY Kinds, TokensAssumption
<1>2. PICK lines \in BestPlans :
        /\ row' = [row EXCEPT ![t] = NewRow(lines, Nothing, BarterGold(lines), FALSE)]
        /\ Take(t, lines)
  BY DEF Barter
<1>3. \A i \in Item : lines[i] > 0 => i \notin worn \cup pledged
  BY DEF BestPlans, Plans, Available, Reserved
<1>4. DOMAIN row' = Token /\ \A u \in Token \ {t} : row'[u] = row[u]
  BY <1>1, <1>2 DEF IndInv, RowsOK
<1>5. status[t] \in {"unused", "pending"} /\ UNCHANGED <<due, life, pledged>>
  BY DEF Barter
<1>6. t \notin due \cap (Sale \cup Order) /\ Take(t, lines)
  BY <1>1, <1>2
<1>7. QED
  BY <1>1, <1>3, <1>4, <1>5, <1>6, TakeLawful

LEMMA ConfirmUseLawful ==
  ASSUME IndInv, NEW t \in Order, ConfirmUse(t)
  PROVE  Lawful
<1>1. /\ status[t] = "pending" /\ t \notin due /\ OrderHolds(t)
      /\ Take(t, row[t].lines) /\ UNCHANGED <<row, due, life, pledged>>
  BY DEF ConfirmUse, Confirmable
<1>2. \A i \in Item : row[t].lines[i] > 0 => i \notin worn \cup pledged
  BY <1>1 DEF OrderHolds, Named, Free, Reserved
<1>3. QED
  BY <1>1, <1>2, Kinds, TakeLawful DEF IndInv, RowsOK

-----------------------------------------------------------------------------
(* The theorems *)

LEMMA NextLawful == ASSUME IndInv, [Next]_vars PROVE Lawful
<1>1. CASE ChestStep
  BY <1>1, CallChestLawful, OtherLawful, StartRunLawful, EditRunLawful, ConfirmRunLawful,
     AnswersLawful, Kinds DEF ChestStep
<1>2. CASE SaleStep
  BY <1>2, StartSaleLawful, EditSaleLawful, ConfirmSaleLawful, AnswersLawful, Kinds DEF SaleStep
<1>3. CASE BarterStep
  BY <1>3, BarterLawful DEF BarterStep
<1>4. CASE UseStep
  BY <1>4, PreviewLawful, PreviewRefusedLawful, PreviewAgainLawful, ConfirmUseLawful,
     AnswersLawful, CombatUseLawful, Kinds DEF UseStep
<1>5. CASE OtherStep
  BY <1>5, OtherLawful, RemortLawful DEF OtherStep
<1>6. CASE UNCHANGED vars
  BY <1>6, OtherLawful
<1>7. QED
  BY <1>1, <1>2, <1>3, <1>4, <1>5, <1>6 DEF Next

LEMMA InitInv == Init => IndInv
<1> SUFFICES ASSUME Init PROVE IndInv
  OBVIOUS
<1>1. DOMAIN row = Token /\ DOMAIN status = Token /\ DOMAIN spent = Token
  BY DEF Init
<1>2. \A t \in Token : status[t] # "pending"
  BY DEF Init
<1>3. \A t \in Order : status[t] # "pending"
  BY <1>2, Kinds
<1>4. QED
  BY <1>1, <1>2, <1>3 DEF IndInv, RowsOK, LiveRowsOfThisLife, OneClaimPerStack, OneOrder, Live

\* In every state of every run rows are rows, pending ones of this life, and
\* what they reserve is disjoint; for any number of items, rows and units.
THEOREM CounterInvariant == Spec => []IndInv
<1>1. IndInv /\ [Next]_vars => IndInv'
  BY NextLawful, LawfulInv
<1>2. QED
  BY InitInv, <1>1, PTL DEF Spec

\* Every step of every feature treats each row in one of the four ways that the
\* code's guarded updates leave: kept, closed, claimed, or answered with its units.
THEOREM EveryStepLawful == Spec => [][Lawful]_vars
<1>1. IndInv /\ [Next]_vars => [Lawful]_vars
  BY NextLawful
<1>2. QED
  BY CounterInvariant, <1>1, PTL DEF Spec

\* No stack is promised twice among chest runs, sales, use orders and gift
\* offers, whatever is edited, cancelled, withdrawn, swept or due.
THEOREM Exclusivity == Spec => []OneClaimPerStack
<1>1. IndInv => OneClaimPerStack
  BY DEF IndInv
<1>2. QED
  BY <1>1, CounterInvariant, PTL

\* A remort leaves no row of the old life that a button could still answer, a
\* chest run, whose table has no column for the life, included.
THEOREM NoOldRows == Spec => []LiveRowsOfThisLife
<1>1. IndInv => LiveRowsOfThisLife
  BY DEF IndInv
<1>2. QED
  BY <1>1, CounterInvariant, PTL

\* The unique reservation key of use orders is never violated: of one stack
\* there is one pending order at most, even when several have run out.
THEOREM SingleOrder == Spec => []OneOrderPerItem
<1>1. ASSUME OneOrder, NEW i \in Item PROVE Cardinality(OrdersOn(i)) <= 1
  <2>1. \A t, u \in OrdersOn(i) : t = u
    BY <1>1 DEF OneOrder, OrdersOn
  <2>2. OrdersOn(i) = {} \/ \E t : OrdersOn(i) = {t}
    BY <2>1
  <2>3. CASE OrdersOn(i) = {}
    BY <2>3, FS_EmptySet
  <2>4. CASE \E t : OrdersOn(i) = {t}
    <3>1. PICK t : OrdersOn(i) = {t}
      BY <2>4
    <3>2. Cardinality({t}) = 1
      BY FS_Singleton
    <3>3. QED
      BY <3>1, <3>2
  <2>5. QED
    BY <2>2, <2>3, <2>4
<1>2. IndInv => OneOrderPerItem
  BY <1>1 DEF IndInv, OneOrderPerItem
<1>3. QED
  BY <1>2, CounterInvariant, PTL

\* Whatever button is pressed again or late, an answer stands as it was given.
THEOREM Finality == Spec => AnswersAreFinal
<1>1. [Lawful]_vars => [Final]_vars
  BY LawfulSteps
<1>2. QED
  BY EveryStepLawful, <1>1, PTL DEF AnswersAreFinal, Final

\* A sale or an order that has run out consumes nothing, pending as it may be.
THEOREM NothingOverdue == Spec => OverdueTakesNothing
<1>1. [Lawful]_vars => [NoneOverdue]_vars
  BY LawfulSteps
<1>2. QED
  BY EveryStepLawful, <1>1, PTL DEF OverdueTakesNothing, NoneOverdue

\* Both: a row takes what it takes with its one answer, and in time.
THEOREM OneAnswer == Spec => AnsweredInTime
<1>1. QED
  BY Finality, NothingOverdue, PTL DEF AnsweredInTime

\* A claim that is answered is the only one on its stack, and of this life.
THEOREM SoundClaims == Spec => []ClaimsAreSound
<1>1. QED
  BY Exclusivity, NoOldRows, PTL DEF ClaimsAreSound

\* What the counters reserve and take, gifts and equipment can rely on: nothing
\* worn or offered, and never more than the stack holds.
THEOREM Respectful == Spec => TransfersRespected
<1>1. [Lawful]_vars => [Respect]_vars
  BY LawfulSteps
<1>2. QED
  BY EveryStepLawful, <1>1, PTL DEF TransfersRespected, Respect

-----------------------------------------------------------------------------
(* The books: what the columns hold and what the sums come to *)

\* A written row: made in this life or before, a sale with the price of what it
\* names, an order that is not for full health with one unit.
Fitting(t, r) ==
  /\ r \in Row /\ r.life <= life
  /\ t \in Sale => r.gold = Payout(r.lines)
  /\ t \in Order /\ ~r.whole => Total(r.lines) = 1

\* Rows have their types, and what an answer took is what its row says.
Ledger ==
  /\ row \in [Token -> Row \cup {NoRow}] /\ status \in [Token -> Statuses]
  /\ spent \in [Token -> Contents]
  /\ \A t \in Token : status[t] = "unused" => row[t] = NoRow
  /\ \A t \in Token : status[t] # "unused" => Fitting(t, row[t])
  /\ \A t \in Token :
       IF status[t] = "completed"
       THEN spent[t] = row[t].lines \/ (t \in Order /\ spent[t] = Nothing)
       ELSE spent[t] = Nothing
  /\ due \subseteq {t \in Token : status[t] # "unused"}

\* The columns of the character, but for the two that a step of a counter changes
\* most.
Holdings ==
  /\ worn \subseteq Gear /\ pledged \subseteq Item
  /\ level \in Nat \ {0} /\ life \in 0 .. MaxLife
  /\ place \in {"bar", "away", "fight"} /\ hurt \in 0 .. MaxHurt
  /\ calling \in BOOLEAN

Consumed(i, units) == Amount([t \in Token |-> units[t][i]], Token)
UnitsBalance == \A i \in Item : stack[i] + Consumed(i, spent) = supply[i]

Books ==
  /\ stack \in Contents /\ supply \in Contents /\ gold \in Nat
  /\ Holdings /\ Ledger /\ UnitsBalance /\ GoldAccounted

LEMMA BooksTell == ASSUME Books PROVE TypeOK /\ BooksBalance
<1>1. \A t \in Token : status[t] # "unused" => row[t] # NoRow
  BY NoRowAssumption DEF Books, Ledger, Fitting
<1>2. TypeOK
  BY <1>1 DEF Books, Ledger, Holdings, TypeOK
<1>3. UnitsAccounted
  BY DEF Books, Ledger, UnitsBalance, Consumed, UnitsAccounted
<1>4. QED
  BY <1>2, <1>3 DEF BooksBalance, Books

-----------------------------------------------------------------------------
(* Sums and prices *)

LEMMA FiniteKinds ==
  IsFiniteSet(Token) /\ IsFiniteSet(Item) /\ IsFiniteSet(Sale) /\ IsFiniteSet(Exchange)
<1>1. Sale \subseteq Token /\ Exchange \subseteq Token
  BY DEF Token
<1>2. QED
  BY <1>1, TokensAssumption, FS_Subset

LEMMA ContentsFacts ==
  /\ Nothing \in Contents
  /\ \A i \in Item : Nothing[i] = 0
  /\ \A i \in Item : \A n \in Nat :
       /\ Only(i, n) \in Contents /\ Only(i, n)[i] = n
       /\ \A j \in Item \ {i} : Only(i, n)[j] = 0
BY DEF Nothing, Only, Contents

LEMMA TotalIsNat == ASSUME NEW lines \in Contents PROVE Total(lines) \in Nat
BY FiniteKinds, AmountIsNat DEF Total, Contents

LEMMA TotalOnly ==
  ASSUME NEW i \in Item, NEW n \in Nat
  PROVE  Total(Only(i, n)) = n
<1>1. /\ \A j \in Item : Only(i, n)[j] \in Nat
      /\ Only(i, n)[i] = n
      /\ \A j \in Item \ {i} : Only(i, n)[j] = 0
  BY ContentsFacts DEF Contents
<1>2. Amount(Only(i, n), Item) = Amount(Only(i, n), Item \ {i}) + Only(i, n)[i]
  BY <1>1, FiniteKinds, AmountSplit
<1>3. Amount(Only(i, n), Item \ {i}) = 0
  BY <1>1, AmountZero
<1>4. QED
  BY <1>1, <1>2, <1>3 DEF Total

LEMMA ProductIsNat == ASSUME NEW a \in Nat, NEW b \in Nat PROVE a * b \in Nat
OBVIOUS

LEMMA WorthIsNat == ASSUME NEW lines \in Contents PROVE Worth(lines, Value) \in Nat
<1>1. \A i \in Item : lines[i] \in Nat /\ Value[i] \in Nat
  BY ItemsAssumption DEF Contents
<1>2. \A i \in Item : lines[i] * Value[i] \in Nat
  BY <1>1, ProductIsNat
<1>3. QED
  BY <1>2, FiniteKinds, AmountIsNat DEF Worth

LEMMA HundredthIsNat == ASSUME NEW n \in Nat PROVE n \div 100 \in Nat
OBVIOUS

LEMMA PayoutIsNat == ASSUME NEW lines \in Contents PROVE Payout(lines) \in Nat
<1>1. Worth(lines, Value) * SaleRate \in Nat
  BY WorthIsNat, BoundsAssumption, ProductIsNat
<1>2. QED
  BY <1>1, HundredthIsNat DEF Payout

LEMMA PayoutOfNothing == Payout(Nothing) = 0
<1>1. Worth(Nothing, Value) = 0
  <2>1. \A i \in Item : [j \in Item |-> Nothing[j] * Value[j]][i] = 0
    BY ContentsFacts, ItemsAssumption
  <2>2. QED
    BY <2>1, AmountZero DEF Worth
<1>2. QED
  BY <1>1, BoundsAssumption DEF Payout

LEMMA SmallerOf ==
  ASSUME NEW a \in Int, NEW b \in Int
  PROVE  Min({a, b}) \in {a, b} /\ Min({a, b}) <= a /\ Min({a, b}) <= b
<1>1. \E x \in {a, b} : \A y \in {a, b} : x <= y
  OBVIOUS
<1>2. QED
  BY <1>1 DEF Min

LEMMA GreaterOf ==
  ASSUME NEW a \in Int, NEW b \in Int
  PROVE  Max({a, b}) \in {a, b} /\ Max({a, b}) >= a /\ Max({a, b}) >= b
<1>1. \E x \in {a, b} : \A y \in {a, b} : x >= y
  OBVIOUS
<1>2. QED
  BY <1>1 DEF Max

\* The gold of an exchange is in the purse.
LEMMA BarterGoldFacts ==
  ASSUME NEW lines \in Contents, gold \in Nat
  PROVE  BarterGold(lines) \in Nat /\ BarterGold(lines) <= gold
<1> DEFINE missing == BarterCost - Worth(lines, Value)
           rest == Max({0, missing})
<1>1. rest \in Nat
  <2>1. missing \in Int
    BY WorthIsNat, BoundsAssumption
  <2> HIDE DEF missing
  <2>2. rest \in {0, missing} /\ rest >= 0
    BY <2>1, GreaterOf
  <2>3. QED
    BY <2>1, <2>2
<1> HIDE DEF rest
<1>2. Min({gold, rest}) \in {gold, rest} /\ Min({gold, rest}) <= gold
  BY <1>1, SmallerOf
<1>3. QED
  BY <1>1, <1>2 DEF BarterGold, rest, missing

-----------------------------------------------------------------------------
(* What a step does with a row, for the books *)

Same(t) == row'[t] = row[t] /\ status'[t] = status[t] /\ spent'[t] = spent[t]

Ends(t) ==
  /\ status[t] = "pending" /\ row'[t] = row[t] /\ spent'[t] = spent[t]
  /\ \/ status'[t] \in {"cancelled", "expired"}
     \/ t \in Order /\ status'[t] = "completed"

Writes(t) ==
  /\ status[t] \in {"unused", "pending"} /\ status'[t] = "pending"
  /\ Fitting(t, row'[t]) /\ spent'[t] = spent[t]

Pays(t) ==
  /\ status[t] \in {"unused", "pending"} /\ status'[t] = "completed"
  /\ Fitting(t, row'[t]) /\ spent'[t] = row'[t].lines

Entered ==
  /\ row' \in [Token -> Row \cup {NoRow}] /\ status' \in [Token -> Statuses]
  /\ spent' \in [Token -> Contents]
  /\ \A t \in Token : Same(t) \/ Ends(t) \/ Writes(t) \/ Pays(t)
  /\ due' \subseteq due \cup {t \in Token : status[t] = "pending"}

LEMMA LedgerKept ==
  ASSUME Ledger, Entered, life \in Nat, life' \in Nat, life' >= life
  PROVE  Ledger'
<1>1. \A t \in Token, r \in Row : Fitting(t, r) => Fitting(t, r)'
  BY DEF Fitting, Row
<1>2. \A t \in Token : Fitting(t, row[t]) => row[t] \in Row
  BY DEF Fitting
<1>3. \A t \in Token : Fitting(t, row'[t]) => row'[t] \in Row
  BY DEF Fitting
<1>4. ASSUME NEW t \in Token
      PROVE  /\ status'[t] = "unused" => row'[t] = NoRow
             /\ status'[t] # "unused" => Fitting(t, row[t])' 
             /\ IF status'[t] = "completed"
                THEN spent'[t] = row'[t].lines \/ (t \in Order /\ spent'[t] = Nothing)
                ELSE spent'[t] = Nothing
             /\ status[t] # "unused" => status'[t] # "unused"
  <2>1. CASE Same(t)
    BY <1>1, <1>2, <2>1 DEF Same, Ledger
  <2>2. CASE Ends(t)
    BY <1>1, <1>2, <2>2 DEF Ends, Ledger
  <2>3. CASE Writes(t)
    BY <1>1, <1>3, <2>3 DEF Writes, Ledger
  <2>4. CASE Pays(t)
    BY <1>1, <1>3, <2>4 DEF Pays, Ledger
  <2>5. QED
    BY <2>1, <2>2, <2>3, <2>4 DEF Entered
<1>5. QED
  BY <1>4 DEF Ledger, Entered

\* The sums over rows stay if no row is paid.
LEMMA UnitsKept ==
  ASSUME UnitsBalance, spent' = spent,
         stack \in Contents, stack' \in Contents, supply \in Contents, supply' \in Contents,
         spent \in [Token -> Contents],
         \A i \in Item : stack'[i] + supply[i] = stack[i] + supply'[i]
  PROVE  UnitsBalance'
<1>1. SUFFICES ASSUME NEW i \in Item PROVE stack'[i] + Consumed(i, spent) = supply'[i]
  BY DEF UnitsBalance
<1>2. Consumed(i, spent) \in Nat
  BY FiniteKinds, AmountIsNat DEF Consumed, Contents
<1>3. /\ stack[i] \in Nat /\ stack'[i] \in Nat /\ supply[i] \in Nat /\ supply'[i] \in Nat
      /\ stack[i] + Consumed(i, spent) = supply[i]
      /\ stack'[i] + supply[i] = stack[i] + supply'[i]
  BY DEF UnitsBalance, Contents
<1>4. QED
  BY <1>2, <1>3

LEMMA UnitsPaid ==
  ASSUME UnitsBalance, NEW t \in Token, NEW units \in Contents, spent[t] = Nothing,
         spent' = [spent EXCEPT ![t] = units],
         stack \in Contents, stack' \in Contents, supply \in Contents, supply' \in Contents,
         spent \in [Token -> Contents],
         \A i \in Item : stack'[i] + units[i] + supply[i] = stack[i] + supply'[i]
  PROVE  UnitsBalance'
<1>1. SUFFICES ASSUME NEW i \in Item PROVE stack'[i] + Consumed(i, spent') = supply'[i]
  BY DEF UnitsBalance
<1> DEFINE f == [u \in Token |-> spent[u][i]]
           g == [u \in Token |-> spent'[u][i]]
<1>2. /\ \A u \in Token : f[u] \in Nat /\ g[u] \in Nat
      /\ \A u \in Token \ {t} : f[u] = g[u]
      /\ f[t] = 0 /\ g[t] = units[i]
  BY ContentsFacts DEF Contents
<1> HIDE DEF f, g
<1>3. Amount(g, Token) = Amount(f, Token) - 0 + units[i]
  BY <1>2, FiniteKinds, AmountChange
<1>4. Amount(f, Token) \in Nat
  BY <1>2, FiniteKinds, AmountIsNat
<1>5. Consumed(i, spent') = Consumed(i, spent) + units[i] /\ Consumed(i, spent) \in Nat
  BY <1>3, <1>4, units \in Contents DEF Consumed, Contents, f, g
<1>6. /\ stack[i] \in Nat /\ stack'[i] \in Nat /\ supply[i] \in Nat /\ supply'[i] \in Nat
      /\ units[i] \in Nat /\ stack[i] + Consumed(i, spent) = supply[i]
      /\ stack'[i] + units[i] + supply[i] = stack[i] + supply'[i]
  BY DEF UnitsBalance, Contents
<1>7. QED
  BY <1>5, <1>6

\* The purse and the level, when no sale and no exchange is completed.
LEMMA GoldKept ==
  ASSUME GoldAccounted, Ledger, Entered, UNCHANGED <<gold, level, life>>,
         \A t \in Sale \cup Exchange : ~Pays(t)
  PROVE  GoldAccounted'
<1>1. ASSUME NEW t \in Sale \cup Exchange
      PROVE  /\ status'[t] = "completed" <=> status[t] = "completed"
             /\ status[t] = "completed" => row'[t] = row[t] /\ spent'[t] = spent[t]
  <2>1. t \in Token /\ t \notin Order
    BY Kinds
  <2>2. QED
    BY <2>1 DEF Entered, Same, Ends, Writes
<1>2. Done(Sale)' = Done(Sale) /\ Done(Exchange)' = Done(Exchange)
  BY <1>1 DEF Done
<1>3. Amount([t \in Exchange |-> row'[t].gold], Done(Exchange)) =
      Amount([t \in Exchange |-> row[t].gold], Done(Exchange))
  BY <1>1, AmountSame DEF Done
<1>4. Amount([t \in Sale |-> Payout(spent'[t])], Done(Sale)) =
      Amount([t \in Sale |-> Payout(spent[t])], Done(Sale))
  BY <1>1, AmountSame DEF Done
<1>5. \A t \in Done(Exchange) : row'[t] = row[t] /\ spent'[t] = spent[t]
  BY <1>1 DEF Done
<1>6. QED
  BY <1>2, <1>3, <1>4, <1>5 DEF GoldAccounted

-----------------------------------------------------------------------------
(* Steps that pay nothing out *)

LEMMA ClosingBooks ==
  ASSUME Books, UNCHANGED <<row, spent, gold, level, life>>,
         status' \in [Token -> Statuses],
         \A t \in Token :
           \/ status'[t] = status[t]
           \/ /\ status[t] = "pending"
              /\ \/ status'[t] \in {"cancelled", "expired"}
                 \/ t \in Order /\ status'[t] = "completed",
         due' \subseteq due \cup {t \in Token : status[t] = "pending"},
         stack' \in Contents, supply' \in Contents,
         \A i \in Item : stack'[i] + supply[i] = stack[i] + supply'[i],
         Holdings'
  PROVE  Books'
<1>1. \A t \in Token : Same(t) \/ Ends(t)
  BY DEF Same, Ends
<1>2. Entered
  BY <1>1 DEF Entered, Books, Ledger
<1>3. life \in Nat
  BY DEF Books, Holdings
<1>4. Ledger'
  BY <1>2, <1>3, LedgerKept DEF Books
<1>5. UnitsBalance'
  BY UnitsKept DEF Books, Ledger
<1>6. \A t \in Sale \cup Exchange : ~Pays(t)
  BY Kinds DEF Pays
<1>7. GoldAccounted'
  BY <1>2, <1>6, GoldKept DEF Books
<1>8. QED
  BY <1>4, <1>5, <1>7 DEF Books

\* Nothing at all but rows that end.
LEMMA EndingBooks ==
  ASSUME Books, UNCHANGED <<row, spent, stack, supply, worn, pledged, self>>,
         calling' \in BOOLEAN,
         status' \in [Token -> Statuses],
         \A t \in Token :
           \/ status'[t] = status[t]
           \/ /\ status[t] = "pending"
              /\ \/ status'[t] \in {"cancelled", "expired"}
                 \/ t \in Order /\ status'[t] = "completed",
         due' \subseteq due \cup {t \in Token : status[t] = "pending"}
  PROVE  Books'
<1>1. Holdings'
  BY DEF Books, Holdings, self
<1>2. UNCHANGED <<row, spent, gold, level, life>> /\ stack' \in Contents /\ supply' \in Contents
  BY DEF Books, self
<1>3. \A i \in Item : stack'[i] + supply[i] = stack[i] + supply'[i]
  BY DEF Books, Contents
<1>4. QED
  BY <1>1, <1>2, <1>3, ClosingBooks

LEMMA AnswerBooks ==
  ASSUME Books, NEW t \in Token, status[t] = "pending", NEW s, Answer(t, s),
         s \in {"cancelled", "expired"} \/ (t \in Order /\ s = "completed"),
         calling' \in BOOLEAN
  PROVE  Books'
<1>1. status' = [u \in Token |-> IF u \in {t} THEN s ELSE status[u]]
  BY DEF Answer, Settle
<1>2. s \in Statuses
  BY DEF Statuses
<1>3. status' \in [Token -> Statuses]
  BY <1>1, <1>2 DEF Books, Ledger
<1>4. UNCHANGED <<row, spent, stack, supply, worn, pledged, self, due>>
  BY DEF Answer
<1>5. QED
  BY <1>1, <1>3, <1>4, EndingBooks

LEMMA AnswersBooks ==
  ASSUME Books, NEW t \in Token,
         \/ CancelRun(t) \/ CancelSale(t) \/ LateSale(t)
         \/ t \in Order /\ ConfirmUseFull(t)
         \/ ConfirmUseStale(t) \/ LateUse(t) \/ CancelUse(t)
  PROVE  Books'
<1>1. calling' \in BOOLEAN
  BY DEF CancelRun, CancelSale, LateSale, ConfirmUseFull, ConfirmUseStale, LateUse,
     CancelUse, Called, Books, Holdings
<1>2. PICK s : /\ status[t] = "pending" /\ Answer(t, s)
               /\ s \in {"cancelled", "expired"} \/ (t \in Order /\ s = "completed")
  BY DEF CancelRun, CancelSale, LateSale, ConfirmUseFull, ConfirmUseStale, LateUse,
     CancelUse, Confirmable
<1>3. QED
  BY <1>1, <1>2, AnswerBooks

LEMMA CallChestBooks == ASSUME Books, CallChest PROVE Books'
<1>1. status' = [t \in Token |-> IF t \in {r \in Run \cap due : status[r] = "pending"}
                                 THEN "expired" ELSE status[t]]
  BY DEF CallChest, Settle
<1>2. status' \in [Token -> Statuses]
  BY <1>1 DEF Books, Ledger, Statuses
<1>3. UNCHANGED <<row, spent, stack, supply, worn, pledged, self, due>> /\ calling' \in BOOLEAN
  BY DEF CallChest
<1>4. QED
  BY <1>1, <1>2, <1>3, EndingBooks

LEMMA ClearedTyped ==
  ASSUME Books, NEW i, NEW whole
  PROVE  Cleared(i, whole) \in [Token -> Statuses]
BY DEF Books, Ledger, Cleared, Statuses

LEMMA PreviewRefusedBooks ==
  ASSUME Books, NEW i \in Usable, NEW whole \in BOOLEAN, PreviewRefused(i, whole)
  PROVE  Books'
<1>1. /\ status' = Cleared(i, whole)
      /\ UNCHANGED <<row, spent, stack, supply, worn, pledged, self, due, calling>>
  BY DEF PreviewRefused
<1>2. calling' \in BOOLEAN
  BY <1>1 DEF Books, Holdings
<1>3. QED
  BY <1>1, <1>2, ClearedFacts, ClearedTyped, EndingBooks

LEMMA PreviewAgainBooks ==
  ASSUME Books, NEW t \in Order, NEW i \in Usable, PreviewAgain(t, i)
  PROVE  Books'
<1>1. /\ status' = [Cleared(i, row[t].whole) EXCEPT ![t] = Refreshed(t, i)]
      /\ UNCHANGED <<row, spent, stack, supply, worn, pledged, self, due, calling>>
      /\ status[t] = "pending" /\ t \in Token
  BY DEF PreviewAgain, LiveOn, OrdersOn, Token
<1>2. Refreshed(t, i) \in {"expired", "completed", "pending"}
  BY DEF Refreshed
<1>3. status' \in [Token -> Statuses]
  BY <1>1, <1>2, ClearedTyped DEF Statuses
<1>4. /\ status'[t] = Refreshed(t, i)
      /\ \A u \in Token \ {t} : status'[u] = Cleared(i, row[t].whole)[u]
  BY <1>1, ClearedFacts
<1>5. calling' \in BOOLEAN
  BY <1>1 DEF Books, Holdings
<1>6. QED
  BY <1>1, <1>2, <1>3, <1>4, <1>5, ClearedFacts, EndingBooks

\* A stack that grows or shrinks outside the counters, and the history with it.
LEMMA StackBooks ==
  ASSUME Books, NEW i \in Item, NEW n \in Int, stack[i] + n \in Nat,
         stack' = [stack EXCEPT ![i] = stack[i] + n],
         supply' = [supply EXCEPT ![i] = supply[i] + n],
         UNCHANGED <<row, spent, gold, level, life, due>>,
         status' \in [Token -> Statuses],
         \A t \in Token :
           \/ status'[t] = status[t]
           \/ status[t] = "pending" /\ status'[t] \in {"cancelled", "expired"},
         Holdings'
  PROVE  Books'
<1>1. Consumed(i, spent) \in Nat
  BY FiniteKinds, AmountIsNat DEF Consumed, Contents, Books, Ledger
<1>2. stack[i] \in Nat /\ supply[i] \in Nat /\ stack[i] + Consumed(i, spent) = supply[i]
  BY DEF Books, UnitsBalance, Contents
<1>3. supply[i] + n \in Nat
  BY <1>1, <1>2
<1>4. stack' \in Contents /\ supply' \in Contents
  BY <1>3 DEF Books, Contents
<1>5. \A j \in Item : stack'[j] + supply[j] = stack[j] + supply'[j]
  BY <1>2 DEF Books, Contents
<1>6. QED
  BY <1>4, <1>5, ClosingBooks

LEMMA ChangeStackBooks ==
  ASSUME Books, NEW i \in Item, NEW n \in Int, stack[i] + n \in Nat, ChangeStack(i, n),
         pledged' \subseteq Item
  PROVE  Books'
<1>1. /\ stack' = [stack EXCEPT ![i] = stack[i] + n]
      /\ supply' = [supply EXCEPT ![i] = supply[i] + n]
      /\ UNCHANGED <<worn, self, calling, row, status, due, spent>>
  BY DEF ChangeStack, rows
<1>2. Holdings'
  BY <1>1 DEF Books, Holdings, self
<1>3. status' \in [Token -> Statuses]
  BY <1>1 DEF Books, Ledger
<1>4. QED
  BY <1>1, <1>2, <1>3, StackBooks DEF self

LEMMA CombatUseBooks ==
  ASSUME Books, NEW i \in Usable, NEW taken \in {0, 1}, CombatUse(i, taken)
  PROVE  Books'
<1>1. i \in Item /\ 0 - taken \in Int /\ stack[i] \in Nat /\ supply[i] \in Nat
  BY ItemsAssumption DEF Books, Contents
<1>2. stack[i] + (0 - taken) \in Nat
  BY <1>1 DEF CombatUse, Free
<1>3. /\ stack' = [stack EXCEPT ![i] = stack[i] + (0 - taken)]
      /\ supply' = [supply EXCEPT ![i] = supply[i] + (0 - taken)]
  <2>1. stack[i] - taken = stack[i] + (0 - taken) /\ supply[i] - taken = supply[i] + (0 - taken)
    BY <1>1
  <2>2. QED
    BY <2>1 DEF CombatUse
<1>4. /\ status' = [t \in Token |-> IF t \in LiveOn(i) THEN "cancelled" ELSE status[t]]
      /\ UNCHANGED <<worn, pledged, self, calling, row, due, spent>>
  BY DEF CombatUse, Settle
<1>5. \A t \in LiveOn(i) : status[t] = "pending"
  BY DEF LiveOn, OrdersOn
<1>6. Holdings' /\ UNCHANGED <<row, spent, gold, level, life, due>>
  BY <1>4 DEF Books, Holdings, self
<1>7. status' \in [Token -> Statuses]
  BY <1>4 DEF Books, Ledger, Statuses
<1>8. QED
  BY <1>1, <1>2, <1>3, <1>4, <1>5, <1>6, <1>7, StackBooks

LEMMA OtherBooks ==
  ASSUME Books,
         \/ CallEnds
         \/ \E i \in Item :
              \/ Gain(i) \/ SpendLoose(i) \/ Pledge(i) \/ Unpledge(i) \/ GiveAway(i)
              \/ Wear(i) \/ TakeOff(i)
         \/ \E there \in Spot, health \in 0 .. MaxHurt : Roam(there, health)
         \/ \E t \in Token : PassDeadline(t)
         \/ UNCHANGED vars
  PROVE  Books'
<1>1. ASSUME NEW i \in Item, Gain(i) \/ SpendLoose(i) \/ GiveAway(i) PROVE Books'
  <2>1. stack[i] \in Nat /\ stack[i] + 1 \in Nat /\ (stack[i] > 0 => stack[i] + (-1) \in Nat)
    BY DEF Books, Contents
  <2>2. pledged' \subseteq Item
    BY <1>1 DEF Gain, SpendLoose, GiveAway, Books, Holdings
  <2>3. CASE Gain(i)
    BY <2>1, <2>2, <2>3, ChangeStackBooks DEF Gain
  <2>4. CASE stack[i] > 0 /\ ChangeStack(i, -1)
    BY <2>1, <2>2, <2>4, ChangeStackBooks
  <2>5. QED
    BY <1>1, <2>3, <2>4 DEF SpendLoose, GiveAway
<1>2. ASSUME UNCHANGED <<row, spent, stack, supply, gold, level, life, status>>,
             due' \subseteq due \cup {t \in Token : status[t] = "pending"}, Holdings'
      PROVE  Books'
  <2>1. status' \in [Token -> Statuses] /\ stack' \in Contents /\ supply' \in Contents
    BY <1>2 DEF Books, Ledger
  <2>2. \A i \in Item : stack'[i] + supply[i] = stack[i] + supply'[i]
    BY <1>2 DEF Books, Contents
  <2>3. QED
    BY <1>2, <2>1, <2>2, ClosingBooks
<1>3. ASSUME NEW i \in Item, Pledge(i) \/ Unpledge(i) \/ Wear(i) \/ TakeOff(i) PROVE Books'
  <2>1. Holdings'
    BY <1>3 DEF Pledge, Unpledge, Wear, TakeOff, Books, Holdings, self
  <2>2. UNCHANGED <<row, spent, stack, supply, gold, level, life, status, due>>
    BY <1>3 DEF Pledge, Unpledge, Wear, TakeOff, self, rows
  <2>3. QED
    BY <1>2, <2>1, <2>2
<1>4. ASSUME NEW there \in Spot, NEW health \in 0 .. MaxHurt, Roam(there, health) PROVE Books'
  <2>1. Holdings'
    BY <1>4, BoundsAssumption DEF Roam, Books, Holdings
  <2>2. UNCHANGED <<row, spent, stack, supply, gold, level, life, status, due>>
    BY <1>4 DEF Roam, rows
  <2>3. QED
    BY <1>2, <2>1, <2>2
<1>5. ASSUME NEW t \in Token, PassDeadline(t) PROVE Books'
  <2>1. Holdings'
    BY <1>5 DEF PassDeadline, Books, Holdings, self
  <2>2. /\ UNCHANGED <<row, spent, stack, supply, gold, level, life, status>>
        /\ due' \subseteq due \cup {u \in Token : status[u] = "pending"}
    BY <1>5 DEF PassDeadline, self
  <2>3. QED
    BY <1>2, <2>1, <2>2
<1>6. ASSUME CallEnds \/ UNCHANGED vars PROVE Books'
  <2>1. Holdings'
    BY <1>6 DEF CallEnds, Called, vars, Books, Holdings, self
  <2>2. UNCHANGED <<row, spent, stack, supply, gold, level, life, status, due>>
    BY <1>6 DEF CallEnds, vars, self, rows
  <2>3. QED
    BY <1>2, <2>1, <2>2
<1>7. QED
  BY <1>1, <1>3, <1>4, <1>5, <1>6

\* A new life: the rows of the old one stay, and none of them counts any more.
LEMMA RemortBooks ==
  ASSUME Books, NEW kept \in SUBSET Item, Remort(kept)
  PROVE  Books'
<1> DEFINE left == [i \in Item |-> IF i \in kept THEN 1 ELSE 0]
<1>1. /\ stack' = left /\ supply' = [i \in Item |-> supply[i] - stack[i] + left[i]]
      /\ status' = [t \in Token |-> IF t \in ClosedByRemort THEN "cancelled" ELSE status[t]]
      /\ gold' = 0 /\ level' = 1 /\ life' = life + 1 /\ life < MaxLife
      /\ UNCHANGED <<row, spent, due>>
  BY DEF Remort, Settle
<1>2. \A i \in Item : left[i] \in Nat
  OBVIOUS
<1>3. left \in Contents
  BY DEF Contents
<1> HIDE DEF left
<1>4. \A i \in Item : stack[i] \in Nat /\ supply[i] \in Nat /\ supply[i] >= stack[i]
  <2>1. ASSUME NEW i \in Item
        PROVE  stack[i] \in Nat /\ supply[i] \in Nat /\ supply[i] >= stack[i]
    <3>1. Consumed(i, spent) \in Nat
      BY FiniteKinds, AmountIsNat DEF Consumed, Contents, Books, Ledger
    <3>2. QED
      BY <3>1 DEF Books, UnitsBalance, Contents
  <2>2. QED
    BY <2>1
<1>5. stack' \in Contents /\ supply' \in Contents
      /\ \A i \in Item : stack'[i] + supply[i] = stack[i] + supply'[i]
  BY <1>1, <1>2, <1>3, <1>4 DEF Contents
<1>6. UnitsBalance'
  BY <1>1, <1>5, UnitsKept DEF Books, Ledger
<1>7. status' \in [Token -> Statuses]
  BY <1>1 DEF Books, Ledger, Statuses
<1>8. Entered
  BY <1>1, <1>7 DEF Entered, Same, Ends, ClosedByRemort, Books, Ledger
<1>9. life \in Nat /\ life' \in Nat /\ life' >= life
  BY <1>1 DEF Books, Holdings
<1>10. Ledger'
  BY <1>8, <1>9, LedgerKept DEF Books
<1>11. Holdings'
  BY <1>1, BoundsAssumption DEF Remort, Books, Holdings
<1>12. GoldAccounted'
  <2>1. \A t \in Token : status'[t] = "completed" => status[t] = "completed"
    BY <1>1
  <2>2. \A t \in Token : status[t] = "completed" => row[t].life # life'
    BY <1>1, <1>9 DEF Books, Ledger, Fitting, Row
  <2>3. \A t \in Token : status'[t] = "completed" => row'[t].life # life'
    BY <1>1, <2>1, <2>2
  <2>4. Done(Sale)' = {} /\ Done(Exchange)' = {}
    BY <2>3, Kinds DEF Done
  <2>5. \A n : Amount(n, {}) = 0
    BY AmountZero
  <2>6. life' # 0 /\ Cardinality({}) = 0
    BY <1>1, <1>9, FS_EmptySet
  <2>7. QED
    BY <1>1, <2>4, <2>5, <2>6 DEF GoldAccounted
<1>13. QED
  BY <1>1, <1>5, <1>6, <1>10, <1>11, <1>12 DEF Books

-----------------------------------------------------------------------------
(* Steps that write a row *)

LEMMA WritingBooks ==
  ASSUME Books, NEW t \in Token, NEW r, Fitting(t, r),
         row' = [row EXCEPT ![t] = r],
         status' \in [Token -> Statuses],
         status[t] \in {"unused", "pending"}, status'[t] = "pending",
         \A u \in Token \ {t} :
           \/ status'[u] = status[u]
           \/ status[u] = "pending" /\ status'[u] \in {"cancelled", "expired"},
         UNCHANGED <<spent, stack, supply, worn, pledged, self, due>>,
         calling' \in BOOLEAN
  PROVE  Books'
<1>1. r \in Row
  BY DEF Fitting
<1>2. row' \in [Token -> Row \cup {NoRow}] /\ row'[t] = r
      /\ \A u \in Token \ {t} : row'[u] = row[u]
  BY <1>1 DEF Books, Ledger
<1>3. Writes(t) /\ \A u \in Token \ {t} : Same(u) \/ Ends(u)
  BY <1>2 DEF Writes, Same, Ends
<1>4. Entered
  BY <1>2, <1>3 DEF Entered, Books, Ledger
<1>5. life \in Nat /\ UNCHANGED <<gold, level, life>>
  BY DEF Books, Holdings, self
<1>6. Ledger'
  BY <1>4, <1>5, LedgerKept DEF Books
<1>7. stack' \in Contents /\ supply' \in Contents
      /\ \A i \in Item : stack'[i] + supply[i] = stack[i] + supply'[i]
  BY DEF Books, Contents
<1>8. UnitsBalance'
  BY <1>7, UnitsKept DEF Books, Ledger
<1>9. \A u \in Sale \cup Exchange : ~Pays(u)
  BY <1>3, Kinds DEF Pays, Same, Ends, Writes
<1>10. GoldAccounted'
  BY <1>4, <1>5, <1>9, GoldKept DEF Books
<1>11. Holdings'
  BY DEF Books, Holdings, self
<1>12. QED
  BY <1>5, <1>6, <1>7, <1>8, <1>10, <1>11 DEF Books

\* A row of this life.
LEMMA NewRowTyped ==
  ASSUME Books, NEW lines \in Contents, NEW seen \in Contents, NEW price \in Nat,
         NEW whole \in BOOLEAN
  PROVE  LET r == NewRow(lines, seen, price, whole) IN
         /\ r \in Row /\ r.life = life /\ r.life <= life
         /\ r.lines = lines /\ r.gold = price /\ r.whole = whole
BY DEF NewRow, Row, Books, Holdings

LEMMA StartRunBooks ==
  ASSUME Books, NEW t \in Run, NEW lines \in [Item -> 0 .. Batch], StartRun(t, lines)
  PROVE  Books'
<1> DEFINE r == NewRow(lines, Nothing, 0, FALSE)
<1>1. /\ status[t] = "unused" /\ row' = [row EXCEPT ![t] = r]
      /\ status' = [u \in Token |-> IF u \in {t} THEN "pending" ELSE status[u]]
      /\ UNCHANGED <<spent, stack, supply, worn, pledged, self, due>>
      /\ calling' \in BOOLEAN
  BY DEF StartRun, Open, Settle, Called
<1>2. t \in Token /\ t \notin Sale /\ t \notin Order
  BY Kinds, TokensAssumption
<1>3. lines \in Contents
  BY BoundsAssumption DEF Contents
<1>4. Fitting(t, r)
  BY <1>2, <1>3, NewRowTyped, ContentsFacts DEF Fitting
<1>5. status' \in [Token -> Statuses]
  BY <1>1 DEF Books, Ledger, Statuses
<1> HIDE DEF r
<1>6. QED
  BY <1>1, <1>2, <1>4, <1>5, WritingBooks

LEMMA StartSaleBooks ==
  ASSUME Books, NEW t \in Sale, StartSale(t)
  PROVE  Books'
<1> DEFINE r == NewRow(Nothing, Nothing, 0, FALSE)
<1>1. /\ status[t] = "unused" /\ row' = [row EXCEPT ![t] = r]
      /\ status' = [u \in Token |-> IF u \in {t} THEN "pending" ELSE status[u]]
      /\ UNCHANGED <<spent, stack, supply, worn, pledged, self, due>>
      /\ calling' \in BOOLEAN
  BY DEF StartSale, Open, Settle, Books, Holdings
<1>2. t \in Token /\ t \notin Order
  BY Kinds
<1>3. /\ r \in Row /\ r.life <= life
      /\ r.lines = Nothing /\ r.gold = 0
  <2>1. Nothing \in Contents /\ 0 \in Nat /\ FALSE \in BOOLEAN
    BY ContentsFacts
  <2>2. QED
    BY <2>1, NewRowTyped
<1>4. status' \in [Token -> Statuses]
  BY <1>1 DEF Books, Ledger, Statuses
<1> HIDE DEF r
<1>5. Fitting(t, r)
  BY <1>2, <1>3, PayoutOfNothing DEF Fitting
<1>6. QED
  BY <1>1, <1>2, <1>4, <1>5, WritingBooks

\* What an edit makes of the columns.
LEMMA EditedRow ==
  ASSUME NEW q \in Row, NEW lines, NEW seen, NEW price, NEW r,
         r = [q EXCEPT !.lines = lines, !.seen = seen, !.gold = price]
  PROVE  r = [lines |-> lines, life |-> q.life, seen |-> seen, gold |-> price,
              whole |-> q.whole]
<1>1. q = [lines |-> q.lines, life |-> q.life, seen |-> q.seen, gold |-> q.gold,
           whole |-> q.whole]
  BY DEF Row
<1>2. QED
  BY <1>1

LEMMA EditedLines ==
  ASSUME NEW q \in Row, NEW lines, NEW r, r = [q EXCEPT !.lines = lines]
  PROVE  r = [lines |-> lines, life |-> q.life, seen |-> q.seen, gold |-> q.gold,
              whole |-> q.whole]
<1>1. q = [lines |-> q.lines, life |-> q.life, seen |-> q.seen, gold |-> q.gold,
           whole |-> q.whole]
  BY DEF Row
<1>2. QED
  BY <1>1

LEMMA EditRunBooks ==
  ASSUME Books, NEW t \in Run, NEW lines \in [Item -> 0 .. Batch], EditRun(t, lines)
  PROVE  Books'
<1> DEFINE r == [row[t] EXCEPT !.lines = lines]
<1>1. /\ status[t] = "pending" /\ row' = [row EXCEPT ![t] = r] /\ status' = status
      /\ UNCHANGED <<spent, stack, supply, worn, pledged, self, due>>
      /\ calling' \in BOOLEAN
  BY DEF EditRun, Rewrite, Called
<1>2. t \in Token /\ t \notin Sale /\ t \notin Order
  BY Kinds, TokensAssumption
<1>3. lines \in Contents
  BY BoundsAssumption DEF Contents
<1>4. row[t] \in Row /\ row[t].life <= life
  BY <1>1, <1>2 DEF Books, Ledger, Fitting
<1>5. r = [lines |-> lines, life |-> row[t].life, seen |-> row[t].seen, gold |-> row[t].gold,
           whole |-> row[t].whole]
  BY <1>4, EditedLines
<1> HIDE DEF r
<1>6. Fitting(t, r)
  BY <1>2, <1>3, <1>4, <1>5 DEF Fitting, Row
<1>7. status' \in [Token -> Statuses]
  BY <1>1 DEF Books, Ledger
<1>8. QED
  BY <1>1, <1>2, <1>6, <1>7, WritingBooks

\* The counter never names less than nothing of a thing.
LEMMA ClipTyped ==
  ASSUME Books, NEW lines \in Contents
  PROVE  Clip(lines) \in Contents
<1>1. ASSUME NEW i \in Item PROVE Min({lines[i], stack[i]}) \in Nat
  <2>1. lines[i] \in Nat /\ stack[i] \in Nat
    BY DEF Books, Contents
  <2>2. \A a, b \in Int : Min({a, b}) \in {a, b}
    BY SmallerOf
  <2>3. QED
    BY <2>1, <2>2
<1>2. QED
  BY <1>1 DEF Clip, Contents

LEMMA SaleEditTyped ==
  ASSUME Books, NEW lines \in Contents, NEW new \in SaleEdits(lines)
  PROVE  new \in Contents
<1>1. stack \in Contents
  BY DEF Books
<1>2. ASSUME NEW i \in Item PROVE [lines EXCEPT ![i] = @ + 1] \in Contents
  BY DEF Contents
<1>3. ASSUME NEW i \in Item, lines[i] > 0 PROVE [lines EXCEPT ![i] = @ - 1] \in Contents
  BY <1>3 DEF Contents
<1>4. OnSale \subseteq Item
  BY ItemsAssumption DEF OnSale
<1>5. QED
  BY <1>1, <1>2, <1>3, <1>4, ClipTyped, ContentsFacts DEF SaleEdits

LEMMA EditSaleBooks ==
  ASSUME Books, NEW t \in Sale, NEW lines \in SaleEdits(row[t].lines), EditSale(t, lines)
  PROVE  Books'
<1> DEFINE seen == [i \in Item |-> IF lines[i] > 0 THEN stack[i] ELSE 0]
           price == Payout(lines)
           r == [row[t] EXCEPT !.lines = lines, !.seen = seen, !.gold = price]
<1>1. /\ status[t] = "pending" /\ row' = [row EXCEPT ![t] = r] /\ status' = status
      /\ UNCHANGED <<spent, stack, supply, worn, pledged, self, due>>
      /\ calling' \in BOOLEAN
  BY DEF EditSale, Rewrite, Books, Holdings
<1>2. t \in Token /\ t \notin Order
  BY Kinds
<1>3. row[t] \in Row /\ row[t].life <= life
  BY <1>1, <1>2 DEF Books, Ledger, Fitting
<1>4. row[t].lines \in Contents
  BY <1>3 DEF Row
<1>5. lines \in Contents /\ price \in Nat
  BY <1>4, SaleEditTyped, PayoutIsNat
<1>6. seen \in Contents
  BY DEF Books, Contents
<1> HIDE DEF seen, price
<1>7. r = [lines |-> lines, life |-> row[t].life, seen |-> seen, gold |-> price,
           whole |-> row[t].whole]
  <2>1. ASSUME NEW q \in Row, NEW p,
               p = [q EXCEPT !.lines = lines, !.seen = seen, !.gold = price]
        PROVE  p = [lines |-> lines, life |-> q.life, seen |-> seen, gold |-> price,
                    whole |-> q.whole]
    BY <2>1, EditedRow
  <2>2. QED
    BY <1>3, <2>1
<1> HIDE DEF r
<1>8. Fitting(t, r)
  BY <1>2, <1>3, <1>5, <1>6, <1>7 DEF Fitting, Row, price
<1>9. status' \in [Token -> Statuses]
  BY <1>1 DEF Books, Ledger
<1>10. QED
  BY <1>1, <1>2, <1>8, <1>9, WritingBooks

LEMMA PreviewBooks ==
  ASSUME Books, NEW t \in Order, NEW i \in Usable, NEW whole \in BOOLEAN,
         Preview(t, i, whole)
  PROVE  Books'
<1> DEFINE seen == IF whole THEN Nothing ELSE Only(i, stack[i])
           lines == Only(i, Needed(whole))
           r == NewRow(lines, seen, 0, whole)
<1>1. /\ status[t] = "unused"
      /\ row' = [row EXCEPT ![t] = r]
      /\ status' = [Cleared(i, whole) EXCEPT ![t] = "pending"]
      /\ UNCHANGED <<spent, stack, supply, worn, pledged, self, due, calling>>
  BY DEF Preview
<1>2. t \in Token /\ t \notin Sale /\ i \in Item
  BY Kinds, TokensAssumption, ItemsAssumption
<1>3. Needed(whole) \in Nat /\ stack[i] \in Nat
  BY <1>2, BoundsAssumption DEF Needed, Books, Holdings, Contents
<1>4. lines \in Contents /\ Only(i, stack[i]) \in Contents /\ Nothing \in Contents
  BY <1>2, <1>3, ContentsFacts
<1>5. seen \in Contents
  BY <1>4
<1>6. ~whole => Total(lines) = 1
  <2>1. ~whole => Needed(whole) = 1
    BY DEF Needed
  <2>2. QED
    BY <1>2, <2>1, TotalOnly
<1> HIDE DEF lines, seen
<1>7. /\ r \in Row /\ r.life <= life
      /\ r.lines = lines /\ r.whole = whole
  BY <1>4, <1>5, NewRowTyped
<1> HIDE DEF r
<1>8. Fitting(t, r)
  BY <1>2, <1>6, <1>7 DEF Fitting
<1>9. /\ status' \in [Token -> Statuses] /\ status'[t] = "pending"
      /\ \A u \in Token \ {t} : status'[u] = Cleared(i, whole)[u]
  BY <1>1, <1>2, ClearedTyped DEF Statuses
<1>10. calling' \in BOOLEAN
  BY <1>1 DEF Books, Holdings
<1>11. \A u \in Token \ {t} :
         \/ status'[u] = status[u]
         \/ status[u] = "pending" /\ status'[u] \in {"cancelled", "expired"}
  BY <1>9, ClearedFacts
<1>12. QED
  BY <1>1, <1>2, <1>8, <1>9, <1>10, <1>11, WritingBooks

-----------------------------------------------------------------------------
(* Steps that answer a row with its units *)

LEMMA PayingBooks ==
  ASSUME Books, NEW t \in Token, Fitting(t, row'[t]),
         row' \in [Token -> Row \cup {NoRow}],
         \A u \in Token \ {t} : row'[u] = row[u],
         status[t] \in {"unused", "pending"},
         Take(t, row'[t].lines),
         UNCHANGED <<life, due>>,
         stack' \in Contents, supply' \in Contents,
         \A i \in Item : stack'[i] + row'[t].lines[i] + supply[i] = stack[i] + supply'[i]
  PROVE  /\ Entered /\ Pays(t) /\ \A u \in Token \ {t} : Same(u)
         /\ Ledger' /\ UnitsBalance'
<1> DEFINE lines == row'[t].lines
<1>1. row'[t] \in Row /\ lines \in Contents
  BY DEF Fitting, Row
<1>2. /\ status' = [u \in Token |-> IF u \in {t} THEN "completed" ELSE status[u]]
      /\ spent' = [spent EXCEPT ![t] = lines]
  BY DEF Take, Settle
<1>3. /\ status' \in [Token -> Statuses] /\ spent' \in [Token -> Contents]
      /\ spent'[t] = lines /\ \A u \in Token \ {t} : spent'[u] = spent[u]
  BY <1>1, <1>2 DEF Books, Ledger, Statuses
<1>4. Pays(t) /\ \A u \in Token \ {t} : Same(u)
  BY <1>2, <1>3 DEF Pays, Same
<1>5. Entered
  BY <1>3, <1>4 DEF Entered
<1>6. life \in Nat /\ life' \in Nat /\ life' >= life
  BY DEF Books, Holdings
<1>7. Ledger'
  BY <1>5, <1>6, LedgerKept DEF Books
<1>8. spent[t] = Nothing
  BY DEF Books, Ledger
<1> HIDE DEF lines
<1>9. UnitsBalance'
  BY <1>1, <1>2, <1>8, UnitsPaid DEF Books, Ledger, lines
<1>10. QED
  BY <1>4, <1>5, <1>7, <1>9

\* Units that are there leave the stacks.
LEMMA MinusTyped ==
  ASSUME stack \in Contents, NEW lines \in Contents, \A i \in Item : lines[i] <= stack[i]
  PROVE  /\ Minus(lines) \in Contents
         /\ \A i \in Item : Minus(lines)[i] = stack[i] - lines[i]
BY DEF Minus, Contents

LEMMA AvailableUnits ==
  ASSUME Books, NEW lines \in Contents, NEW but, Available(lines, but)
  PROVE  \A i \in Item : lines[i] <= stack[i]
BY DEF Available, Books, Contents

\* What a pending row of the books is.
LEMMA PendingRow ==
  ASSUME Books, NEW t \in Token, status[t] = "pending"
  PROVE  /\ Fitting(t, row[t]) /\ row[t].lines \in Contents /\ spent[t] = Nothing
         /\ row \in [Token -> Row \cup {NoRow}]
BY DEF Books, Ledger, Fitting, Row

LEMMA ConfirmRunBooks ==
  ASSUME Books, NEW t \in Run, NEW prize \in Prize, ConfirmRun(t, prize)
  PROVE  Books'
<1> DEFINE lines == row[t].lines
<1>1. /\ status[t] = "pending" /\ Take(t, lines) /\ Available(lines, {t})
      /\ stack' = [Minus(lines) EXCEPT ![prize] = @ + 1]
      /\ supply' = [supply EXCEPT ![prize] = @ + 1]
      /\ UNCHANGED <<worn, pledged, gold, level, life, place, hurt, row, due>>
      /\ calling' \in BOOLEAN
  BY DEF ConfirmRun, Called, self
<1>2. t \in Token /\ t \notin Sale /\ t \notin Exchange /\ prize \in Item
  BY Kinds, TokensAssumption, ItemsAssumption
<1>3. /\ Fitting(t, row[t]) /\ lines \in Contents
      /\ row' \in [Token -> Row \cup {NoRow}] /\ row'[t].lines = lines
      /\ Fitting(t, row'[t]) /\ \A u \in Token \ {t} : row'[u] = row[u]
  BY <1>1, <1>2, PendingRow
<1> HIDE DEF lines
<1>4. stack \in Contents /\ supply \in Contents
  BY DEF Books
<1>5. \A i \in Item : lines[i] <= stack[i]
  BY <1>1, <1>3, AvailableUnits
<1>6. Minus(lines) \in Contents /\ \A i \in Item : Minus(lines)[i] = stack[i] - lines[i]
  BY <1>3, <1>4, <1>5, MinusTyped
<1>7. /\ stack' \in Contents /\ supply' \in Contents
      /\ \A i \in Item : stack'[i] + lines[i] + supply[i] = stack[i] + supply'[i]
  BY <1>1, <1>2, <1>3, <1>4, <1>6 DEF Contents
<1>8. /\ Entered /\ \A u \in Token \ {t} : Same(u)
      /\ Ledger' /\ UnitsBalance'
  BY <1>1, <1>2, <1>3, <1>7, PayingBooks
<1>9. \A u \in Sale \cup Exchange : ~Pays(u)
  BY <1>2, <1>8, Kinds DEF Pays, Same
<1>10. GoldAccounted'
  BY <1>1, <1>8, <1>9, GoldKept DEF Books
<1>11. Holdings'
  BY <1>1 DEF Books, Holdings
<1>12. QED
  BY <1>1, <1>7, <1>8, <1>10, <1>11 DEF Books

\* A use heals no more than is missing.
LEMMA ConfirmUseBooks ==
  ASSUME Books, NEW t \in Order, ConfirmUse(t)
  PROVE  Books' /\ hurt - hurt' = Total(row[t].lines)
<1> DEFINE lines == row[t].lines
<1>1. /\ status[t] = "pending" /\ Take(t, lines) /\ OrderHolds(t) /\ Fits(t)
      /\ stack' = Minus(lines) /\ hurt' = hurt - Total(lines)
      /\ UNCHANGED <<worn, pledged, gold, level, life, place, calling, row, due, supply>>
  BY DEF ConfirmUse, Confirmable
<1>2. t \in Token /\ t \notin Sale /\ t \notin Exchange
  BY Kinds, TokensAssumption
<1>3. /\ Fitting(t, row[t]) /\ lines \in Contents
      /\ row' \in [Token -> Row \cup {NoRow}] /\ row'[t].lines = lines
      /\ Fitting(t, row'[t]) /\ \A u \in Token \ {t} : row'[u] = row[u]
  BY <1>1, <1>2, PendingRow
<1>4. stack \in Contents /\ supply \in Contents /\ hurt \in 0 .. MaxHurt
  BY DEF Books, Holdings
<1>5. \A i \in Item : lines[i] <= stack[i]
  BY <1>1, <1>3, <1>4 DEF OrderHolds, Named, Contents
<1>6. Total(lines) \in Nat
  BY <1>3, TotalIsNat
<1>7. Total(lines) <= hurt
  BY <1>1, <1>3, <1>4, <1>6, BoundsAssumption DEF Fits, Fitting
<1> HIDE DEF lines
<1>8. Minus(lines) \in Contents /\ \A i \in Item : Minus(lines)[i] = stack[i] - lines[i]
  BY <1>3, <1>4, <1>5, MinusTyped
<1>9. /\ stack' \in Contents /\ supply' \in Contents
      /\ \A i \in Item : stack'[i] + lines[i] + supply[i] = stack[i] + supply'[i]
  BY <1>1, <1>2, <1>3, <1>4, <1>8 DEF Contents
<1>10. /\ Entered /\ \A u \in Token \ {t} : Same(u)
       /\ Ledger' /\ UnitsBalance'
  BY <1>1, <1>2, <1>3, <1>9, PayingBooks
<1>11. \A u \in Sale \cup Exchange : ~Pays(u)
  BY <1>2, <1>10, Kinds DEF Pays, Same
<1>12. GoldAccounted'
  BY <1>1, <1>10, <1>11, GoldKept DEF Books
<1>13. Holdings'
  BY <1>1, <1>4, <1>6, <1>7, BoundsAssumption DEF Books, Holdings
<1>14. hurt - hurt' = Total(lines)
  BY <1>1, <1>4, <1>6
<1>15. QED
  BY <1>1, <1>9, <1>10, <1>12, <1>13, <1>14 DEF Books, lines

\* The sums of the purse when t is completed in this life.
LEMMA DoneGrows ==
  ASSUME Books, Entered, life' = life, NEW t \in Token, Pays(t), row'[t].life = life,
         \A u \in Token \ {t} : Same(u), NEW kind, kind \subseteq Token
  PROVE  /\ t \in kind => Done(kind)' = Done(kind) \cup {t} /\ t \notin Done(kind)
         /\ t \notin kind => Done(kind)' = Done(kind)
BY DEF Done, Pays, Same

LEMMA ConfirmSaleBooks ==
  ASSUME Books, NEW t \in Sale, ConfirmSale(t)
  PROVE  Books'
<1> DEFINE lines == row[t].lines
<1>1. /\ status[t] = "pending" /\ Take(t, lines) /\ Available(lines, {t})
      /\ stack' = Minus(lines) /\ gold' = gold + row[t].gold
      /\ row[t].life = life
      /\ UNCHANGED <<worn, pledged, level, life, place, hurt, calling, row, due, supply>>
  BY DEF ConfirmSale, SaleHolds
<1>2. t \in Token /\ t \notin Exchange /\ Sale \subseteq Token /\ Exchange \subseteq Token
  BY TokensAssumption DEF Token
<1>3. /\ Fitting(t, row[t]) /\ lines \in Contents
      /\ row' \in [Token -> Row \cup {NoRow}] /\ row'[t].lines = lines
      /\ Fitting(t, row'[t]) /\ \A u \in Token \ {t} : row'[u] = row[u]
  BY <1>1, <1>2, PendingRow
<1>4. row[t].gold = Payout(lines) /\ Payout(lines) \in Nat
  BY <1>3, PayoutIsNat DEF Fitting
<1> HIDE DEF lines
<1>5. stack \in Contents /\ supply \in Contents /\ gold \in Nat
  BY DEF Books
<1>6. \A i \in Item : lines[i] <= stack[i]
  BY <1>1, <1>3, AvailableUnits
<1>7. Minus(lines) \in Contents /\ \A i \in Item : Minus(lines)[i] = stack[i] - lines[i]
  BY <1>3, <1>5, <1>6, MinusTyped
<1>8. /\ stack' \in Contents /\ supply' \in Contents
      /\ \A i \in Item : stack'[i] + lines[i] + supply[i] = stack[i] + supply'[i]
  BY <1>1, <1>2, <1>3, <1>5, <1>7 DEF Contents
<1>9. /\ Entered /\ Pays(t) /\ \A u \in Token \ {t} : Same(u)
      /\ Ledger' /\ UnitsBalance'
  BY <1>1, <1>2, <1>3, <1>8, PayingBooks
<1>10. /\ Done(Sale)' = Done(Sale) \cup {t} /\ t \notin Done(Sale)
       /\ Done(Exchange)' = Done(Exchange)
  BY <1>1, <1>2, <1>9, DoneGrows
<1>11. Amount([u \in Sale |-> Payout(spent'[u])], Done(Sale) \cup {t}) =
       Amount([u \in Sale |-> Payout(spent[u])], Done(Sale)) + Payout(lines)
  <2> DEFINE f == [u \in Sale |-> Payout(spent'[u])]
             g == [u \in Sale |-> Payout(spent[u])]
             done == Done(Sale)
  <2>1. \A u \in Sale : spent'[u] \in Contents
    BY <1>2, <1>9 DEF Entered
  <2>2. \A u \in Sale : f[u] \in Nat
    BY <2>1, PayoutIsNat
  <2>3. done \subseteq Sale /\ IsFiniteSet(done) /\ t \notin done
    BY <1>10, FiniteKinds, FS_Subset DEF Done
  <2>4. \A u \in done : f[u] = g[u]
    BY <1>2, <1>9, <2>3 DEF Same
  <2>5. f[t] = Payout(lines)
    BY <1>3, <1>9 DEF Pays
  <2> HIDE DEF f, g, done
  <2>6. \A u \in done \cup {t} : f[u] \in Nat
    BY <2>2, <2>3
  <2>7. Amount(f, done \cup {t}) = Amount(f, done) + f[t]
    BY <2>3, <2>6, AmountAdd
  <2>8. Amount(f, done) = Amount(g, done)
    BY <2>4, AmountSame
  <2>9. QED
    BY <2>5, <2>7, <2>8 DEF f, g, done
<1>12. Amount([u \in Exchange |-> row'[u].gold], Done(Exchange)) =
       Amount([u \in Exchange |-> row[u].gold], Done(Exchange))
  BY <1>1
<1>13. \A u \in Done(Exchange) : row'[u] = row[u] /\ spent'[u] = spent[u]
  BY <1>2, <1>9 DEF Same, Done
<1>14. /\ Amount([u \in Sale |-> Payout(spent[u])], Done(Sale)) \in Nat
       /\ Amount([u \in Exchange |-> row[u].gold], Done(Exchange)) \in Nat
  <2>1. \A u \in Sale : Payout(spent[u]) \in Nat
    BY <1>2, PayoutIsNat DEF Books, Ledger
  <2>2. \A u \in Done(Exchange) : row[u].gold \in Nat
    BY <1>2 DEF Done, Books, Ledger, Fitting, Row
  <2>3. IsFiniteSet(Done(Sale)) /\ IsFiniteSet(Done(Exchange))
    BY FiniteKinds, FS_Subset DEF Done
  <2>4. \A u \in Done(Sale) : [v \in Sale |-> Payout(spent[v])][u] \in Nat
    BY <2>1 DEF Done
  <2>5. \A u \in Done(Exchange) : [v \in Exchange |-> row[v].gold][u] \in Nat
    BY <2>2 DEF Done
  <2>6. QED
    BY <2>3, <2>4, <2>5, AmountIsNat
<1>15. GoldAccounted'
  BY <1>1, <1>4, <1>5, <1>10, <1>11, <1>12, <1>13, <1>14, BoundsAssumption
  DEF GoldAccounted, Books
<1>16. Holdings'
  BY <1>1 DEF Books, Holdings
<1>17. gold' \in Nat
  BY <1>1, <1>4, <1>5
<1>18. QED
  BY <1>8, <1>9, <1>15, <1>16, <1>17 DEF Books

LEMMA BarterBooks ==
  ASSUME Books, NEW t \in Exchange, Barter(t)
  PROVE  Books'
<1>1. PICK lines \in BestPlans :
        /\ row' = [row EXCEPT ![t] = NewRow(lines, Nothing, BarterGold(lines), FALSE)]
        /\ Take(t, lines) /\ stack' = Minus(lines) /\ gold' = gold - BarterGold(lines)
  BY DEF Barter
<1>2. /\ status[t] = "unused" /\ level' = level + 1
      /\ UNCHANGED <<worn, pledged, life, place, hurt, calling, due, supply>>
  BY DEF Barter
<1>3. t \in Token /\ t \notin Sale /\ t \notin Order
      /\ Sale \subseteq Token /\ Exchange \subseteq Token
  BY TokensAssumption DEF Token
<1>4. lines \in Plans
  BY DEF BestPlans
<1>5. lines \in [Item -> 0 .. Max({stack[i] : i \in Item})]
  BY <1>4 DEF Plans
<1>6. lines \in Contents
  <2> DEFINE most == Max({stack[i] : i \in Item})
  <2> HIDE DEF most
  <2>1. lines \in [Item -> 0 .. most]
    BY <1>5 DEF most
  <2>2. QED
    BY <2>1 DEF Contents
<1>7. stack \in Contents /\ supply \in Contents /\ gold \in Nat
      /\ Worth(lines, Value) \in Nat
  BY <1>6, WorthIsNat DEF Books
<1>8. BarterGold(lines) \in Nat /\ BarterGold(lines) <= gold
  BY <1>6, <1>7, BarterGoldFacts
<1> DEFINE price == BarterGold(lines)
           r == NewRow(lines, Nothing, price, FALSE)
<1>9. price \in Nat
  BY <1>8
<1>10. row' = [row EXCEPT ![t] = r]
  BY <1>1
<1> HIDE DEF price
<1>11. r \in Row /\ r.life = life /\ r.life <= life /\ r.lines = lines /\ r.gold = price
  <2>1. Nothing \in Contents /\ FALSE \in BOOLEAN
    BY ContentsFacts
  <2>2. ASSUME NEW p \in Nat, NEW q, q = NewRow(lines, Nothing, p, FALSE)
        PROVE  q \in Row /\ q.life = life /\ q.life <= life /\ q.lines = lines /\ q.gold = p
    BY <1>6, <2>1, <2>2 DEF NewRow, Row, Books, Holdings
  <2>3. QED
    BY <1>9, <2>2
<1>12. Worth(lines, Value) + price >= BarterCost
  BY <1>4 DEF Plans, BarterValue, price
<1>13. \A i \in Item : lines[i] <= stack[i]
  BY <1>4, <1>6, AvailableUnits DEF Plans
<1> HIDE DEF r
<1>14. /\ row' \in [Token -> Row \cup {NoRow}] /\ row'[t] = r
       /\ \A u \in Token \ {t} : row'[u] = row[u]
  BY <1>3, <1>11, <1>10 DEF Books, Ledger
<1>15. Fitting(t, row'[t]) /\ row'[t].lines = lines
  BY <1>3, <1>11, <1>14 DEF Fitting
<1>16. Minus(lines) \in Contents /\ \A i \in Item : Minus(lines)[i] = stack[i] - lines[i]
  BY <1>6, <1>7, <1>13, MinusTyped
<1>17. /\ stack' \in Contents /\ supply' \in Contents
       /\ \A i \in Item : stack'[i] + lines[i] + supply[i] = stack[i] + supply'[i]
  BY <1>1, <1>2, <1>6, <1>7, <1>16 DEF Contents
<1>18. Take(t, row'[t].lines)
  BY <1>1, <1>15
<1>19. /\ Entered /\ Pays(t) /\ \A u \in Token \ {t} : Same(u)
       /\ Ledger' /\ UnitsBalance'
  BY <1>2, <1>3, <1>14, <1>15, <1>17, <1>18, PayingBooks
<1>20. row'[t].life = life /\ life' = life
  BY <1>2, <1>11, <1>14
<1>21. /\ Done(Exchange)' = Done(Exchange) \cup {t} /\ t \notin Done(Exchange)
       /\ Done(Sale)' = Done(Sale)
  BY <1>3, <1>19, <1>20, DoneGrows
<1> DEFINE f == [u \in Exchange |-> row'[u].gold]
           g == [u \in Exchange |-> row[u].gold]
           done == Done(Exchange)
<1>22. done \subseteq Exchange /\ IsFiniteSet(done) /\ t \notin done
  BY <1>21, FiniteKinds, FS_Subset DEF Done
<1>23. \A u \in done : row'[u] = row[u] /\ spent'[u] = spent[u] /\ g[u] \in Nat
  <2>1. ASSUME NEW u \in done PROVE row'[u] = row[u] /\ spent'[u] = spent[u]
    BY <1>3, <1>22, <1>19 DEF Same
  <2>2. ASSUME NEW u \in done PROVE row[u].gold \in Nat
    <3>1. u \in Exchange /\ u \in Token /\ status[u] = "completed"
      BY <1>3 DEF Done
    <3>2. row[u] \in Row
      BY <3>1 DEF Books, Ledger, Fitting
    <3>3. QED
      BY <3>2 DEF Row
  <2>3. QED
    BY <1>22, <2>1, <2>2
<1>24. \A u \in done : f[u] = g[u]
  BY <1>22, <1>23
<1>25. f[t] = price
  BY <1>11, <1>14
<1>26. g \in [Exchange -> {row[u].gold : u \in Exchange}] /\ Amount(g, done) \in Nat
  BY <1>22, <1>23, AmountIsNat
<1>27. Amount(f, done \cup {t}) = Amount(g, done) + price
  <2> HIDE DEF f, g, done
  <2>1. \A u \in done \cup {t} : f[u] \in Nat
    BY <1>8, <1>23, <1>24, <1>25 DEF price
  <2>2. Amount(f, done \cup {t}) = Amount(f, done) + f[t]
    BY <1>22, <2>1, AmountAdd
  <2>3. Amount(f, done) = Amount(g, done)
    BY <1>24, AmountSame
  <2>4. QED
    BY <1>25, <2>2, <2>3
<1>28. Cardinality(done \cup {t}) = Cardinality(done) + 1 /\ Cardinality(done) \in Nat
  BY <1>22, FS_AddElement, FS_CardinalityType
<1>29. /\ Amount([u \in Sale |-> Payout(spent'[u])], Done(Sale)) =
          Amount([u \in Sale |-> Payout(spent[u])], Done(Sale))
       /\ Amount([u \in Sale |-> Payout(spent[u])], Done(Sale)) \in Nat
  <2>1. \A u \in Done(Sale) : u \in Sale /\ spent'[u] = spent[u] /\ spent[u] \in Contents
    BY <1>3, <1>19 DEF Done, Same, Books, Ledger
  <2>2. \A u \in Done(Sale) : [v \in Sale |-> Payout(spent[v])][u] \in Nat
    BY <2>1, PayoutIsNat
  <2>3. \A u \in Done(Sale) :
          [v \in Sale |-> Payout(spent'[v])][u] = [v \in Sale |-> Payout(spent[v])][u]
    BY <2>1
  <2>4. IsFiniteSet(Done(Sale))
    BY FiniteKinds, FS_Subset DEF Done
  <2>5. QED
    BY <2>2, <2>3, <2>4, AmountIsNat, AmountSame
<1>30. \A u \in done \cup {t} : Worth(spent'[u], Value) + row'[u].gold >= BarterCost
  <2>1. Worth(spent'[t], Value) + row'[t].gold >= BarterCost
    BY <1>11, <1>12, <1>14, <1>15, <1>19 DEF Pays
  <2>2. \A u \in done : Worth(spent[u], Value) + row[u].gold >= BarterCost
    BY DEF Books, GoldAccounted
  <2>3. QED
    BY <1>23, <2>1, <2>2
<1>31. GoldAccounted'
  <2>1. /\ gold + Amount(g, done) = (IF life = 0 THEN InitialGold ELSE 0)
             + Amount([u \in Sale |-> Payout(spent[u])], Done(Sale))
        /\ level = 1 + Cardinality(done)
    BY DEF Books, GoldAccounted
  <2>2. gold' = gold - price /\ price \in Nat
    BY <1>1, <1>8 DEF price
  <2>3. gold' + Amount(f, done \cup {t}) = gold + Amount(g, done)
    BY <1>7, <1>26, <1>27, <2>2
  <2>4. level' = 1 + Cardinality(done \cup {t})
    BY <1>2, <1>28, <2>1
  <2>5. QED
    BY <1>2, <1>21, <1>29, <1>30, <2>1, <2>3, <2>4 DEF GoldAccounted
<1>32. Holdings'
  BY <1>2 DEF Books, Holdings
<1>33. gold' \in Nat
  BY <1>1, <1>7, <1>8
<1>34. QED
  BY <1>17, <1>19, <1>31, <1>32, <1>33 DEF Books

-----------------------------------------------------------------------------
(* Every step *)

LEMMA NextBooks == ASSUME Books, [Next]_vars PROVE Books'
<1>1. CASE ChestStep
  BY <1>1, CallChestBooks, OtherBooks, StartRunBooks, EditRunBooks, ConfirmRunBooks,
     AnswersBooks, Kinds DEF ChestStep
<1>2. CASE SaleStep
  BY <1>2, StartSaleBooks, EditSaleBooks, ConfirmSaleBooks, AnswersBooks, Kinds DEF SaleStep
<1>3. CASE BarterStep
  BY <1>3, BarterBooks DEF BarterStep
<1>4. CASE UseStep
  BY <1>4, PreviewBooks, PreviewRefusedBooks, PreviewAgainBooks, ConfirmUseBooks,
     AnswersBooks, CombatUseBooks, Kinds DEF UseStep
<1>5. CASE OtherStep
  BY <1>5, OtherBooks, RemortBooks DEF OtherStep
<1>6. CASE UNCHANGED vars
  BY <1>6, OtherBooks
<1>7. QED
  BY <1>1, <1>2, <1>3, <1>4, <1>5, <1>6 DEF Next

LEMMA InitBooks == Init => Books
<1> SUFFICES ASSUME Init PROVE Books
  OBVIOUS
<1>1. stack \in Contents /\ supply \in Contents /\ supply = stack /\ gold \in Nat
  BY BoundsAssumption DEF Init, Contents
<1>2. Holdings
  <2>1. /\ worn \subseteq Gear /\ pledged \subseteq Item
        /\ level \in Nat \ {0} /\ life \in 0 .. MaxLife
    BY BoundsAssumption DEF Init
  <2>2. place \in {"bar", "away", "fight"} /\ hurt \in 0 .. MaxHurt
    BY BoundsAssumption DEF Init
  <2>3. calling \in BOOLEAN
    BY DEF Init
  <2>4. QED
    BY <2>1, <2>2, <2>3 DEF Holdings
<1>3. Ledger
  BY ContentsFacts DEF Init, Ledger, Statuses
<1>4. UnitsBalance
  <2>1. ASSUME NEW i \in Item PROVE Consumed(i, spent) = 0
    <3>1. \A t \in Token : [u \in Token |-> spent[u][i]][t] = 0
      BY ContentsFacts DEF Init
    <3>2. QED
      BY <3>1, AmountZero DEF Consumed
  <2>2. QED
    BY <1>1, <2>1 DEF UnitsBalance, Contents
<1>5. GoldAccounted
  <2>1. Done(Sale) = {} /\ Done(Exchange) = {}
    BY Kinds DEF Init, Done
  <2>2. \A n : Amount(n, {}) = 0
    BY AmountZero
  <2>3. Cardinality({}) = 0
    BY FS_EmptySet
  <2>4. QED
    BY <2>1, <2>2, <2>3, BoundsAssumption DEF Init, GoldAccounted
<1>6. QED
  BY <1>1, <1>2, <1>3, <1>4, <1>5 DEF Books

\* The inductive invariant of the books, for any number of items, rows, units, lives
\* and any prices.
THEOREM BooksInvariant == Spec => []Books
<1>1. QED
  BY InitBooks, NextBooks, PTL DEF Spec

\* No stack, no purse and no health goes below zero, and the rows have their types.
THEOREM Typing == Spec => []TypeOK
<1>1. Books => TypeOK
  BY BooksTell
<1>2. QED
  BY <1>1, BooksInvariant, PTL

\* What the counters took is what completed rows name, unit by unit, and the purse is
\* what the sales of this life paid less what its exchanges cost.
THEOREM Accounts == Spec => []BooksBalance
<1>1. Books => BooksBalance
  BY BooksTell
<1>2. QED
  BY <1>1, BooksInvariant, PTL

\* What an order consumes heals, unit by unit.
Healing == \A t \in Order : spent'[t] # spent[t] => hurt - hurt' = Total(spent'[t])

LEMMA NextHealing == ASSUME Books, [Next]_vars PROVE Healing
<1>1. ASSUME NEW t \in Order, ConfirmUse(t) PROVE Healing
  <2>1. hurt - hurt' = Total(row[t].lines) /\ spent' = [spent EXCEPT ![t] = row[t].lines]
    BY <1>1, ConfirmUseBooks DEF ConfirmUse, Take
  <2>2. spent'[t] = row[t].lines /\ \A u \in Order \ {t} : spent'[u] = spent[u]
    BY <2>1, Kinds DEF Books, Ledger
  <2>3. QED
    BY <2>1, <2>2 DEF Healing
<1>2. ASSUME NEW t \in Token \ Order, NEW units, spent' = [spent EXCEPT ![t] = units]
      PROVE  Healing
  BY <1>2, Kinds DEF Healing, Books, Ledger
<1>3. ASSUME UNCHANGED spent PROVE Healing
  BY <1>3 DEF Healing
<1>4. CASE ChestStep
  BY <1>2, <1>3, <1>4, Kinds DEF ChestStep, CallChest, CallEnds, StartRun, Open, EditRun,
     Rewrite, CancelRun, Answer, ConfirmRun, Take
<1>5. CASE SaleStep
  BY <1>2, <1>3, <1>5, Kinds DEF SaleStep, StartSale, Open, EditSale, Rewrite, CancelSale,
     LateSale, Answer, ConfirmSale, Take
<1>6. CASE BarterStep
  BY <1>2, <1>6, Kinds DEF BarterStep, Barter, Take
<1>7. CASE UseStep
  BY <1>1, <1>3, <1>7 DEF UseStep, PreviewRefused, Preview, PreviewAgain, ConfirmUseFull,
     ConfirmUseStale, LateUse, CancelUse, Answer, CombatUse
<1>8. CASE OtherStep
  BY <1>3, <1>8 DEF OtherStep, Gain, SpendLoose, Pledge, Unpledge, GiveAway, ChangeStack,
     Wear, TakeOff, Roam, Remort, PassDeadline
<1>9. CASE UNCHANGED vars
  BY <1>3, <1>9 DEF vars
<1>10. QED
  BY <1>4, <1>5, <1>6, <1>7, <1>8, <1>9 DEF Next

\* A use order takes no unit for health that is not missing, however health came back
\* or was lost between the preview and the answer.
THEOREM NoWaste == Spec => NothingWasted
<1>1. Books /\ [Next]_vars => [Healing]_vars
  BY NextHealing
<1>2. QED
  BY BooksInvariant, <1>1, PTL DEF Spec, NothingWasted, Healing
=============================================================================
