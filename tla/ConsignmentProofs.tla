------------------------- MODULE ConsignmentProofs -------------------------
(***************************************************************************)
(* The rows of gifts and parcels implement the consignment they promise:   *)
(* every step of the program is one step of the abstract specification, or *)
(* leaves all goods where they are.  From the same view of the steps, an   *)
(* answer is final and a waiting package is sealed.  The last parts prove  *)
(* that a live offer keeps its unit and that postage is paid once.         *)
(***************************************************************************)
EXTENDS ItemTransfersProofs

-----------------------------------------------------------------------------
(* Where goods are *)

LEMMA StageIs ==
  ASSUME NEW j \in Moves, NEW s
  PROVE  /\ j.out = 0 /\ j.in = 0 /\ j.back = 0 => Stage(j, s) = "sender"
         /\ j.out = 1 /\ j.in = 1 /\ j.back = 0 => Stage(j, s) = "recipient"
         /\ j.out = 1 /\ j.in = 0 /\ j.back = 1 => Stage(j, s) = "returned"
         /\ j.out = 1 /\ j.in = 0 /\ j.back = 0 =>
              Stage(j, s) = IF s = "purged" THEN "destroyed" ELSE "custody"
<1>1. CASE j = [out |-> 0, in |-> 0, back |-> 0]
  BY <1>1 DEF Stage
<1>2. CASE j = [out |-> 1, in |-> 1, back |-> 0]
  BY <1>2 DEF Stage
<1>3. CASE j = [out |-> 1, in |-> 0, back |-> 1]
  BY <1>3 DEF Stage
<1>4. CASE j = [out |-> 1, in |-> 0, back |-> 0]
  BY <1>4 DEF Stage
<1>5. QED
  BY <1>1, <1>2, <1>3, <1>4 DEF Moves

(* The goods of a row have left, arrived and come back at most once.        *)
LEMMA Counts ==
  ASSUME IndInv, NEW t \in Transfer
  PROVE  /\ journal[t] \in Moves /\ MovedOnce(t)
         /\ journal[t].out \in {0, 1} /\ journal[t].in + journal[t].back <= journal[t].out
BY DEF IndInv, GoodsMoveOnce, MovedOnce, TypeOK, Moves

(* What a row says of its goods while they can still move.                  *)
LEMMA RowSays ==
  ASSUME IndInv, NEW t \in Transfer
  PROVE  /\ t \in InCustody =>
              journal[t].out = 1 /\ journal[t].in = 0 /\ journal[t].back = 0
         /\ status[t] \in Live /\ t \notin InCustody =>
              journal[t].out = 0 /\ journal[t].in = 0 /\ journal[t].back = 0
         /\ whereaboutsNow[t] = "custody" <=> t \in InCustody
<1>1. journal[t] \in Moves /\ MovedOnce(t)
  BY Counts
<1>2. status[t] \in Statuses
  BY DEF IndInv, TypeOK
<1>3. t \in InCustody <=> t \in Parcel /\ status[t] = "pending"
  BY DEF InCustody
<1>4. t \in InCustody => journal[t].out = 1 /\ journal[t].in = 0 /\ journal[t].back = 0
  BY <1>1, <1>3 DEF MovedOnce
<1>5. status[t] \in Live /\ t \notin InCustody =>
        journal[t].out = 0 /\ journal[t].in = 0 /\ journal[t].back = 0
  BY <1>1, <1>3 DEF MovedOnce, Live, Moves
<1>6. whereaboutsNow[t] = Stage(journal[t], status[t])
  BY DEF whereaboutsNow
<1>7. t \in InCustody => whereaboutsNow[t] = "custody"
  BY <1>1, <1>3, <1>4, <1>6, StageIs
<1>8. ASSUME t \notin InCustody PROVE whereaboutsNow[t] # "custody"
  <2>1. CASE journal[t].out = 1 /\ journal[t].in = 0 /\ journal[t].back = 0
    <3>1. status[t] = "purged"
      BY <1>1, <1>2, <1>3, <1>8, <2>1 DEF MovedOnce, Refused, Statuses
    <3>2. QED
      BY <1>1, <1>6, <2>1, <3>1, StageIs
  <2>2. CASE ~(journal[t].out = 1 /\ journal[t].in = 0 /\ journal[t].back = 0)
    <3>1. \/ journal[t].out = 0 /\ journal[t].in = 0 /\ journal[t].back = 0
          \/ journal[t].out = 1 /\ journal[t].in = 1 /\ journal[t].back = 0
          \/ journal[t].out = 1 /\ journal[t].in = 0 /\ journal[t].back = 1
      BY <1>1, <2>2, Counts DEF Moves
    <3>2. QED
      BY <1>1, <1>6, <3>1, StageIs
  <2>3. QED
    BY <2>1, <2>2
<1>9. QED
  BY <1>4, <1>5, <1>7, <1>8

LEMMA WaitingIs == IndInv => Promise!Waiting = InCustody
BY RowSays DEF Promise!Waiting, InCustody, Transfer

-----------------------------------------------------------------------------
(* Five ways in which a step treats the rows *)

Answered == Refused \cup {"completed"}

(* The goods of t stay where they are, and an answer stays an answer.       *)
Rests(t) ==
  /\ journal'[t] = journal[t]
  /\ status'[t] = "purged" <=> status[t] = "purged"
  /\ status[t] \in Answered => status'[t] = status[t]
  /\ t \in InCustody => status'[t] = "pending"

(* Live rows P are refused, and what they hold in custody comes home.       *)
ComesBack(P) ==
  /\ \A t \in P : /\ status[t] \in Live /\ status'[t] \in Refused
                  /\ journal'[t] = IF t \in InCustody THEN MovedBack(journal[t]) ELSE journal[t]

Quiet == \A t \in Transfer : Rests(t)

Closing(P) ==
  P \subseteq Transfer /\ ComesBack(P) /\ \A t \in Transfer \ P : Rests(t)

Posting(p, P) ==
  /\ p \in Parcel /\ status[p] = "draft" /\ status'[p] = "pending"
  /\ journal'[p] = MovedOut(journal[p])
  /\ P \subseteq Transfer \ {p} /\ ComesBack(P)
  /\ \A t \in Transfer \ (P \cup {p}) : Rests(t)

Delivering(d) ==
  /\ d \in Transfer /\ status[d] = "pending" /\ status'[d] = "completed"
  /\ journal'[d] = IF d \in InCustody THEN MovedIn(journal[d]) ELSE MovedIn(MovedOut(journal[d]))
  /\ \A t \in Transfer \ {d} : Rests(t)

Purging(G) ==
  /\ G \subseteq Transfer
  /\ \A t \in G : status[t] # "unused" /\ status'[t] = "purged" /\ journal'[t] = journal[t]
  /\ \A t \in Transfer \ G : Rests(t)

RowStep ==
  \/ Quiet
  \/ \E P \in SUBSET Transfer : Closing(P) \/ Purging(P)
  \/ \E p \in Parcel, P \in SUBSET Transfer : Posting(p, P)
  \/ \E d \in Transfer : Delivering(d)

(* A row that neither moves nor is deleted stays where it was.              *)
LEMMA RestStage ==
  ASSUME NEW t \in Transfer, Rests(t)
  PROVE  whereaboutsNow'[t] = whereaboutsNow[t]
BY DEF Rests, whereaboutsNow, Stage

LEMMA ComesBackStage ==
  ASSUME IndInv, NEW P, P \subseteq Transfer, ComesBack(P), NEW t \in P
  PROVE  /\ t \in InCustody => whereaboutsNow'[t] = "returned"
         /\ t \notin InCustody => whereaboutsNow'[t] = whereaboutsNow[t]
<1>1. t \in Transfer /\ status[t] \in Live /\ status'[t] \in Refused /\ journal[t] \in Moves
  BY Counts DEF ComesBack
<1>2. CASE t \in InCustody
  <2>1. journal'[t] = MovedBack(journal[t])
    BY <1>2 DEF ComesBack
  <2>2. journal'[t] \in Moves
    BY <1>1, <2>1, MovedType
  <2>3. journal'[t].out = 1 /\ journal'[t].in = 0 /\ journal'[t].back = 1
    BY <1>1, <1>2, <2>1, RowSays DEF MovedBack
  <2>4. whereaboutsNow'[t] = Stage(journal'[t], status'[t])
    BY <1>1 DEF whereaboutsNow
  <2>5. QED
    BY <1>2, <2>2, <2>3, <2>4, StageIs
<1>3. CASE t \notin InCustody
  <2>1. journal'[t] = journal[t]
    BY <1>3 DEF ComesBack
  <2>2. /\ whereaboutsNow'[t] = Stage(journal[t], status'[t])
        /\ whereaboutsNow[t] = Stage(journal[t], status[t])
    BY <1>1, <2>1 DEF whereaboutsNow
  <2>3. journal[t].out = 0 /\ journal[t].in = 0 /\ journal[t].back = 0
    BY <1>1, <1>3, RowSays
  <2>4. QED
    BY <1>1, <1>3, <2>2, <2>3, StageIs
<1>4. QED
  BY <1>2, <1>3

-----------------------------------------------------------------------------
(* Each of the five is a step of Consignment, or none *)

LEMMA ClosingReturns ==
  ASSUME IndInv, NEW P \in SUBSET Transfer, Closing(P)
  PROVE  Promise!Return(P \cap InCustody)
<1> DEFINE B == P \cap InCustody
<1>1. B \subseteq Promise!Waiting
  BY WaitingIs
<1>2. ASSUME NEW t \in Transfer
      PROVE  whereaboutsNow'[t] = IF t \in B THEN "returned" ELSE whereaboutsNow[t]
  <2>1. CASE t \in P
    BY <2>1, ComesBackStage DEF Closing
  <2>2. CASE t \notin P
    BY <2>2, RestStage DEF Closing
  <2>3. QED
    BY <2>1, <2>2
<1>3. whereaboutsNow' = Promise!Moved({}, "returned", B)
  <2>1. whereaboutsNow' = [t \in Transfer |-> whereaboutsNow'[t]]
    BY DEF whereaboutsNow
  <2>2. QED
    BY <1>2, <2>1 DEF Promise!Moved
<1>4. QED
  BY <1>1, <1>3 DEF Promise!Return

LEMMA PostingPosts ==
  ASSUME IndInv, NEW p \in Parcel, NEW P \in SUBSET Transfer, Posting(p, P)
  PROVE  Promise!Post(p, P \cap InCustody)
<1> DEFINE B == P \cap InCustody
<1>1. /\ p \in Transfer /\ p \notin P /\ p \notin InCustody /\ status[p] \in Live
      /\ journal[p] \in Moves /\ P \subseteq Transfer /\ ComesBack(P)
  BY Counts DEF Posting, Transfer, InCustody, Live
<1>2. journal[p].out = 0 /\ journal[p].in = 0 /\ journal[p].back = 0
  BY <1>1, RowSays
<1>3. whereaboutsNow[p] = "sender"
  <2>1. whereaboutsNow[p] = Stage(journal[p], status[p])
    BY <1>1 DEF whereaboutsNow
  <2>2. QED
    BY <1>1, <1>2, <2>1, StageIs
<1>4. whereaboutsNow'[p] = "custody"
  <2>1. journal'[p] = MovedOut(journal[p]) /\ status'[p] = "pending"
    BY DEF Posting
  <2>2. journal'[p] \in Moves /\ journal'[p].out = 1 /\ journal'[p].in = 0 /\ journal'[p].back = 0
    BY <1>1, <1>2, <2>1, MovedType DEF MovedOut
  <2>3. whereaboutsNow'[p] = Stage(journal'[p], status'[p])
    BY <1>1 DEF whereaboutsNow
  <2>4. QED
    BY <2>1, <2>2, <2>3, StageIs
<1>5. ASSUME NEW t \in Transfer
      PROVE  whereaboutsNow'[t] = IF t \in B THEN "returned"
                                  ELSE IF t \in {p} THEN "custody" ELSE whereaboutsNow[t]
  <2>1. CASE t \in P
    BY <1>1, <2>1, ComesBackStage
  <2>2. CASE t = p
    BY <1>1, <1>4, <2>2
  <2>3. CASE t \notin P /\ t # p
    BY <2>3, RestStage DEF Posting
  <2>4. QED
    BY <2>1, <2>2, <2>3
<1>6. whereaboutsNow' = Promise!Moved({p}, "custody", B)
  <2>1. whereaboutsNow' = [t \in Transfer |-> whereaboutsNow'[t]]
    BY DEF whereaboutsNow
  <2>2. QED
    BY <1>5, <2>1 DEF Promise!Moved
<1>7. QED
  BY <1>3, <1>6, WaitingIs DEF Promise!Post

LEMMA DeliveringDelivers ==
  ASSUME IndInv, NEW d \in Transfer, Delivering(d)
  PROVE  Promise!Deliver(d)
<1>1. /\ status[d] \in Live /\ journal[d] \in Moves
      /\ whereaboutsNow[d] = Stage(journal[d], status[d])
      /\ whereaboutsNow'[d] = Stage(journal'[d], status'[d])
  BY Counts DEF Delivering, Live, whereaboutsNow
<1>2. whereaboutsNow[d] \in {"sender", "custody"}
  <2>1. CASE d \in InCustody
    BY <2>1, RowSays
  <2>2. CASE d \notin InCustody
    BY <1>1, <2>2, RowSays, StageIs
  <2>3. QED
    BY <2>1, <2>2
<1>3. whereaboutsNow'[d] = "recipient"
  <2>1. journal'[d] \in Moves /\ journal'[d].out = 1 /\ journal'[d].in = 1 /\ journal'[d].back = 0
    <3>1. CASE d \in InCustody
      <4>1. journal'[d] = MovedIn(journal[d])
        BY <3>1 DEF Delivering
      <4>2. QED
        BY <1>1, <3>1, <4>1, RowSays, MovedType DEF MovedIn
    <3>2. CASE d \notin InCustody
      <4> DEFINE m == MovedOut(journal[d])
      <4>1. journal'[d] = MovedIn(m) /\ m \in Moves
        BY <1>1, <3>2, MovedType DEF Delivering
      <4>2. m.out = 1 /\ m.in = 0 /\ m.back = 0
        BY <1>1, <3>2, RowSays DEF MovedOut
      <4> HIDE DEF m
      <4>3. MovedIn(m) \in Moves
        BY <4>1, MovedType
      <4>4. QED
        BY <4>1, <4>2, <4>3 DEF MovedIn
    <3>3. QED
      BY <3>1, <3>2
  <2>2. QED
    BY <1>1, <2>1, StageIs
<1>4. ASSUME NEW t \in Transfer
      PROVE  whereaboutsNow'[t] = IF t \in {} THEN "returned"
                                  ELSE IF t \in {d} THEN "recipient" ELSE whereaboutsNow[t]
  <2>1. CASE t = d
    BY <1>3, <2>1
  <2>2. CASE t # d
    BY <2>2, RestStage DEF Delivering
  <2>3. QED
    BY <2>1, <2>2
<1>5. whereaboutsNow' = Promise!Moved({d}, "recipient", {})
  <2>1. whereaboutsNow' = [t \in Transfer |-> whereaboutsNow'[t]]
    BY DEF whereaboutsNow
  <2>2. QED
    BY <1>4, <2>1 DEF Promise!Moved
<1>6. QED
  BY <1>2, <1>5 DEF Promise!Deliver

LEMMA PurgingDestroys ==
  ASSUME IndInv, NEW G \in SUBSET Transfer, Purging(G)
  PROVE  Promise!Destroy(G \cap InCustody)
<1> DEFINE D == G \cap InCustody
<1>1. ASSUME NEW t \in G
      PROVE  whereaboutsNow'[t] = IF t \in InCustody THEN "destroyed" ELSE whereaboutsNow[t]
  <2>1. /\ status'[t] = "purged" /\ journal[t] \in Moves
        /\ whereaboutsNow[t] = Stage(journal[t], status[t])
        /\ whereaboutsNow'[t] = Stage(journal[t], "purged")
    BY Counts DEF Purging, whereaboutsNow
  <2>2. CASE t \in InCustody
    BY <2>1, <2>2, RowSays, StageIs
  <2>3. CASE t \notin InCustody
    <3>1. CASE journal[t].out = 1 /\ journal[t].in = 0 /\ journal[t].back = 0
      <4>1. status[t] = "purged"
        BY <2>1, <2>3, <3>1, RowSays, StageIs
      <4>2. QED
        BY <2>1, <2>3, <4>1
    <3>2. CASE ~(journal[t].out = 1 /\ journal[t].in = 0 /\ journal[t].back = 0)
      <4>1. \/ journal[t].out = 0 /\ journal[t].in = 0 /\ journal[t].back = 0
            \/ journal[t].out = 1 /\ journal[t].in = 1 /\ journal[t].back = 0
            \/ journal[t].out = 1 /\ journal[t].in = 0 /\ journal[t].back = 1
        BY <2>1, <3>2, Counts DEF Moves
      <4>2. QED
        BY <2>1, <2>3, <4>1, StageIs
    <3>3. QED
      BY <3>1, <3>2
  <2>4. QED
    BY <2>2, <2>3
<1>2. ASSUME NEW t \in Transfer
      PROVE  whereaboutsNow'[t] = IF t \in {} THEN "returned"
                                  ELSE IF t \in D THEN "destroyed" ELSE whereaboutsNow[t]
  <2>1. CASE t \in G
    BY <1>1, <2>1
  <2>2. CASE t \notin G
    BY <2>2, RestStage DEF Purging
  <2>3. QED
    BY <2>1, <2>2
<1>3. whereaboutsNow' = Promise!Moved(D, "destroyed", {})
  <2>1. whereaboutsNow' = [t \in Transfer |-> whereaboutsNow'[t]]
    BY DEF whereaboutsNow
  <2>2. QED
    BY <1>2, <2>1 DEF Promise!Moved
<1>4. QED
  BY <1>3, WaitingIs DEF Promise!Destroy

LEMMA QuietStays ==
  ASSUME Quiet
  PROVE  whereaboutsNow' = whereaboutsNow
<1>1. \A t \in Transfer : whereaboutsNow'[t] = whereaboutsNow[t]
  BY RestStage DEF Quiet
<1>2. QED
  BY <1>1 DEF whereaboutsNow

LEMMA RowStepIs ==
  ASSUME IndInv, RowStep
  PROVE  [Promise!ConsignmentNext]_whereaboutsNow
<1>1. CASE Quiet
  BY <1>1, QuietStays
<1>2. ASSUME NEW P \in SUBSET Transfer, Closing(P) \/ Purging(P)
      PROVE  Promise!ConsignmentNext
  <2>1. P \cap InCustody \in SUBSET Promise!Waiting
    BY WaitingIs
  <2>2. QED
    BY <1>2, <2>1, ClosingReturns, PurgingDestroys DEF Promise!ConsignmentNext
<1>3. ASSUME NEW p \in Parcel, NEW P \in SUBSET Transfer, Posting(p, P)
      PROVE  Promise!ConsignmentNext
  <2>1. P \cap InCustody \in SUBSET Promise!Waiting /\ p \in Transfer
    BY WaitingIs DEF Transfer
  <2>2. QED
    BY <1>3, <2>1, PostingPosts DEF Promise!ConsignmentNext
<1>4. ASSUME NEW d \in Transfer, Delivering(d)
      PROVE  Promise!ConsignmentNext
  BY <1>4, DeliveringDelivers DEF Promise!ConsignmentNext
<1>5. QED
  BY <1>1, <1>2, <1>3, <1>4 DEF RowStep

-----------------------------------------------------------------------------
(* What each action does to the rows *)

LEMMA GiftQuiet ==
  ASSUME IndInv, GiftStep, \A g \in Gift : ~AcceptGift(g)
  PROVE  Quiet
<1> SUFFICES ASSUME NEW t \in Transfer PROVE Rests(t)
  BY DEF Quiet
<1>1. \A g \in Gift : g \in Transfer /\ g \notin InCustody
  BY SetsAssumption DEF Transfer, InCustody
<1>2. ASSUME NEW s \in Character, NEW i \in Item, NEW u,
             status' = Settle(ForgottenGifts(s, i), "expired") \/
             (u \in Gift /\ status[u] = "unused" /\
              status' = [Settle(ForgottenGifts(s, i), "expired") EXCEPT ![u] = "pending"]),
             journal' = journal
      PROVE  Rests(t)
  <2>1. /\ t \in ForgottenGifts(s, i) => t \in Gift /\ status[t] = "pending"
        /\ Settle(ForgottenGifts(s, i), "expired")[t]
             = IF t \in ForgottenGifts(s, i) THEN "expired" ELSE status[t]
    BY DEF ForgottenGifts, Settle
  <2>2. status'[t] = IF u = t /\ status'[t] = "pending" /\ status[u] = "unused" /\ u \in Gift THEN "pending"
                     ELSE IF t \in ForgottenGifts(s, i) THEN "expired" ELSE status[t]
    BY <1>2, <2>1 DEF Settle
  <2>3. QED
    BY <1>1, <1>2, <2>1, <2>2 DEF Rests, Answered, Refused, InCustody
<1>3. ASSUME NEW g \in Gift, NEW a \in Refused, status[g] = "pending",
             status' = [status EXCEPT ![g] = a], journal' = journal
      PROVE  Rests(t)
  BY <1>1, <1>3 DEF Rests, Answered, Refused, InCustody, IndInv, TypeOK
<1>4. CASE \E s, r \in Character, i \in Item :
             (\E g \in Gift : CreateGift(g, s, r, i)) \/ CreateGiftStale(s, r, i)
  BY <1>2, <1>4 DEF CreateGift, CreateGiftStale, goods
<1>5. CASE \E g \in Gift : LateGiftAnswer(g) \/
             \E answer \in {"declined", "cancelled"} : RefuseGift(g, answer)
  BY <1>3, <1>5 DEF LateGiftAnswer, RefuseGift, Refused, goods
<1>6. QED
  BY <1>4, <1>5 DEF GiftStep

LEMMA AcceptGiftDelivers ==
  ASSUME IndInv, NEW g \in Gift, AcceptGift(g)
  PROVE  Delivering(g)
<1>1. /\ g \in Transfer /\ g \notin InCustody /\ status[g] = "pending"
      /\ status' = [status EXCEPT ![g] = "completed"]
      /\ journal' = [journal EXCEPT ![g] = MovedIn(MovedOut(journal[g]))]
  BY SetsAssumption DEF AcceptGift, Transfer, InCustody
<1>2. status \in [Transfer -> Statuses] /\ journal \in [Transfer -> Moves]
  BY DEF IndInv, TypeOK, Moves
<1>3. \A t \in Transfer \ {g} : status'[t] = status[t] /\ journal'[t] = journal[t]
  BY <1>1, <1>2
<1>4. QED
  BY <1>1, <1>2, <1>3 DEF Delivering, Rests, InCustody

LEMMA AcceptParcelDelivers ==
  ASSUME IndInv, NEW p \in Parcel, AcceptParcel(p)
  PROVE  Delivering(p)
<1>1. /\ p \in Transfer /\ p \in InCustody /\ status[p] = "pending"
      /\ status' = [status EXCEPT ![p] = "completed"]
      /\ journal' = [journal EXCEPT ![p] = MovedIn(journal[p])]
  BY DEF AcceptParcel, Transfer, InCustody
<1>2. status \in [Transfer -> Statuses] /\ journal \in [Transfer -> Moves]
  BY DEF IndInv, TypeOK, Moves
<1>3. \A t \in Transfer \ {p} : status'[t] = status[t] /\ journal'[t] = journal[t]
  BY <1>1, <1>2
<1>4. QED
  BY <1>1, <1>2, <1>3 DEF Delivering, Rests, InCustody

LEMMA DraftQuiet ==
  ASSUME IndInv, NEW p \in Parcel,
         \/ \E s, r \in Character : DraftParcel(p, s, r)
         \/ \E lines \in Contents : EditParcel(p, lines)
  PROVE  Quiet
<1>1. journal' = journal /\ (status' = status \/ (status[p] = "unused" /\ status' = [status EXCEPT ![p] = "draft"]))
  BY DEF DraftParcel, EditParcel, goods
<1>2. status \in [Transfer -> Statuses]
  BY DEF IndInv, TypeOK
<1>3. QED
  BY <1>1, <1>2 DEF Quiet, Rests, Answered, Refused, InCustody

(* Rows that are closed together, their custody with them.                  *)
LEMMA CloseIs ==
  ASSUME IndInv, NEW P \in SUBSET Transfer, NEW s \in Refused, \A t \in P : status[t] \in Live,
         status' = Settle(P, s), journal' = NoteReturn(P)
  PROVE  Closing(P)
<1>1. \A t \in P : t \in Transfer /\ status'[t] = s
                    /\ journal'[t] = IF t \in InCustody THEN MovedBack(journal[t]) ELSE journal[t]
  BY DEF Settle, NoteReturn
<1>2. \A t \in Transfer \ P : status'[t] = status[t] /\ journal'[t] = journal[t]
  BY DEF Settle, NoteReturn
<1>3. QED
  BY <1>1, <1>2 DEF Closing, ComesBack, Rests, InCustody

LEMMA ParcelCloses ==
  ASSUME IndInv, NEW p \in Parcel, DeclineParcel(p) \/ LateParcelAnswer(p) \/ CancelParcel(p)
  PROVE  Closing({p})
<1>1. \E s \in Refused : status' = Settle({p}, s) /\ journal' = NoteReturn({p})
  BY DEF DeclineParcel, LateParcelAnswer, CancelParcel, CloseParcel, Refused
<1>2. {p} \in SUBSET Transfer /\ \A t \in {p} : status[t] \in Live
  BY DEF Transfer, DeclineParcel, LateParcelAnswer, CancelParcel, InCustody, Live
<1>3. QED
  BY <1>1, <1>2, CloseIs

LEMMA ConfirmFailsCloses ==
  ASSUME IndInv, NEW p \in Parcel, ConfirmParcelFails(p)
  PROVE  Closing(ForgottenParcels(row[p].from))
<1>1. /\ ForgottenParcels(row[p].from) \in SUBSET Transfer
      /\ \A t \in ForgottenParcels(row[p].from) : status[t] \in Live
  BY DEF ForgottenParcels, Transfer
<1>2. QED
  BY <1>1, CloseIs DEF ConfirmParcelFails, Refused

LEMMA ConfirmPosts ==
  ASSUME IndInv, NEW p \in Parcel, ConfirmParcel(p)
  PROVE  Posting(p, ForgottenParcels(row[p].from))
<1> DEFINE P == ForgottenParcels(row[p].from)
<1>1. /\ P \in SUBSET Transfer /\ p \notin P /\ p \in Transfer /\ status[p] = "draft"
      /\ \A t \in P : status[t] \in Live
  BY DEF ForgottenParcels, Transfer, ConfirmParcel, CanConfirm
<1>2. /\ status' = [Settle(P, "expired") EXCEPT ![p] = "pending"]
      /\ journal' = [NoteReturn(P) EXCEPT ![p] = MovedOut(NoteReturn(P)[p])]
  BY DEF ConfirmParcel
<1> HIDE DEF P
<1>3. status'[p] = "pending" /\ journal'[p] = MovedOut(journal[p])
  BY <1>1, <1>2 DEF Settle, NoteReturn
<1>4. \A t \in P : status'[t] = "expired"
                    /\ journal'[t] = IF t \in InCustody THEN MovedBack(journal[t]) ELSE journal[t]
  BY <1>1, <1>2 DEF Settle, NoteReturn
<1>5. \A t \in Transfer \ (P \cup {p}) : status'[t] = status[t] /\ journal'[t] = journal[t]
  BY <1>1, <1>2 DEF Settle, NoteReturn
<1>6. Posting(p, P)
  BY <1>1, <1>3, <1>4, <1>5 DEF Posting, ComesBack, Refused, Rests, InCustody
<1>7. QED
  BY <1>6 DEF P

(* Other features write no row.                                             *)
LEMMA OtherKeepsRows ==
  ASSUME OtherFeatureStep
  PROVE  row' = row /\ status' = status /\ journal' = journal /\ due' = due /\ alive' = alive
<1>1. PICK c \in Character :
        \/ \E i \in Item : \/ Gain(c, i) \/ SpendUnreserved(c, i)
                           \/ Hold(c, i) \/ Release(c, i)
                           \/ Equip(c, i) \/ Unequip(c, i)
                           \/ \E n \in 1 .. stack[c][i] : SpendHeld(c, i, n)
        \/ \E kind \in CombatKind : EnterCombat(c, kind)
        \/ \E i, j \in Item, donors \in SUBSET Donors,
              success \in BOOLEAN, fee \in UpgradeFees :
             UpgradeAttempt(c, i, j, donors, success, fee)
        \/ LeaveCombat(c)
        \/ \E there \in Place : Travel(c, there)
  BY DEF OtherFeatureStep
<1>2. CASE \E i \in Item : Gain(c, i) \/ SpendUnreserved(c, i)
  BY <1>2 DEF Gain, SpendUnreserved, person
<1>3. CASE \E i \in Item : Hold(c, i) \/ Release(c, i) \/ Equip(c, i) \/ Unequip(c, i)
  BY <1>3 DEF Hold, Release, Equip, Unequip, goods
<1>4. ASSUME NEW i \in Item, NEW n \in 1 .. stack[c][i], SpendHeld(c, i, n)
      PROVE  row' = row /\ status' = status /\ journal' = journal /\ due' = due /\ alive' = alive
  BY <1>4 DEF SpendHeld
<1>5. ASSUME NEW i \in Item, NEW j \in Item, NEW donors \in SUBSET Donors,
             NEW success \in BOOLEAN, NEW fee \in UpgradeFees,
             UpgradeAttempt(c, i, j, donors, success, fee)
      PROVE  row' = row /\ status' = status /\ journal' = journal /\ due' = due /\ alive' = alive
  BY <1>5 DEF UpgradeAttempt
<1>6. CASE (\E kind \in CombatKind : EnterCombat(c, kind)) \/ LeaveCombat(c)
           \/ \E there \in Place : Travel(c, there)
  BY <1>6 DEF EnterCombat, LeaveCombat, Travel, goods
<1>7. QED
  BY <1>1, <1>2, <1>3, <1>4, <1>5, <1>6

LEMMA OtherQuiet ==
  ASSUME OtherFeatureStep \/ (\E t \in Transfer : PassDeadline(t))
         \/ (\E c \in Character : CreateCharacter(c)) \/ UNCHANGED vars
  PROVE  Quiet
<1>1. status' = status /\ journal' = journal
  <2>1. CASE OtherFeatureStep
    BY <2>1, OtherKeepsRows
  <2>2. CASE (\E t \in Transfer : PassDeadline(t))
             \/ (\E c \in Character : CreateCharacter(c)) \/ UNCHANGED vars
    BY <2>2 DEF PassDeadline, CreateCharacter, goods, vars
  <2>3. QED
    BY <2>1, <2>2
<1>2. QED
  BY <1>1 DEF Quiet, Rests, InCustody

LEMMA RemortCloses ==
  ASSUME IndInv, NEW c \in Character, NEW kept \in SUBSET Item, Remort(c, kept)
  PROVE  \E P \in SUBSET Transfer : Closing(P)
<1> DEFINE live     == {t \in Transfer : status[t] \in Live /\ Involves(t, c)}
           incoming == {p \in live \cap InCustody : row[p].to = c}
<1>1. status' = Settle(live, "cancelled") /\ journal' = NoteReturn(incoming)
  BY DEF Remort
<1>2. \A t \in live : t \in InCustody => t \in incoming
  <2>1. \A t \in InCustody : row[t].from # c
    BY DEF Remort
  <2>2. QED
    BY <2>1 DEF Involves
<1>3. NoteReturn(incoming) = NoteReturn(live)
  BY <1>2 DEF NoteReturn
<1>4. live \in SUBSET Transfer /\ \A t \in live : status[t] \in Live
  OBVIOUS
<1> HIDE DEF live, incoming
<1>5. Closing(live)
  BY <1>1, <1>3, <1>4, CloseIs DEF Refused
<1>6. QED
  BY <1>4, <1>5

LEMMA RestartPurges ==
  ASSUME IndInv, NEW c \in Character, Restart(c)
  PROVE  \E G \in SUBSET Transfer : Purging(G)
<1> DEFINE gone == {t \in Transfer : Involves(t, c)}
<1>1. status' = Settle(gone, "purged") /\ journal' = journal
  BY DEF Restart
<1>2. \A t \in gone : t \in Transfer /\ status[t] # "unused"
  BY DEF Involves, IndInv, TypeOK
<1> HIDE DEF gone
<1>3. gone \in SUBSET Transfer
  BY <1>2
<1>4. \A t \in gone : status'[t] = "purged"
  BY <1>1, <1>2 DEF Settle
<1>5. \A t \in Transfer \ gone : status'[t] = status[t]
  BY <1>1 DEF Settle
<1>6. Purging(gone)
  BY <1>1, <1>2, <1>4, <1>5 DEF Purging, Rests, InCustody
<1>7. QED
  BY <1>3, <1>6

LEMMA EveryStep ==
  ASSUME IndInv, [Next]_vars
  PROVE  RowStep
<1>1. CASE GiftStep
  <2>1. CASE \E g \in Gift : AcceptGift(g)
    BY <2>1, AcceptGiftDelivers DEF RowStep, Transfer
  <2>2. CASE \A g \in Gift : ~AcceptGift(g)
    BY <1>1, <2>2, GiftQuiet DEF RowStep
  <2>3. QED
    BY <2>1, <2>2
<1>2. CASE ParcelStep
  <2>1. ASSUME NEW p \in Parcel, AcceptParcel(p) PROVE RowStep
    BY <2>1, AcceptParcelDelivers DEF RowStep, Transfer
  <2>2. ASSUME NEW p \in Parcel, DeclineParcel(p) \/ LateParcelAnswer(p) \/ CancelParcel(p) PROVE RowStep
    BY <2>2, ParcelCloses DEF RowStep, Transfer
  <2>3. ASSUME NEW p \in Parcel, ConfirmParcelFails(p) PROVE RowStep
    BY <2>3, ConfirmFailsCloses DEF RowStep, Closing
  <2>4. ASSUME NEW p \in Parcel, ConfirmParcel(p) PROVE RowStep
    BY <2>4, ConfirmPosts DEF RowStep, Posting
  <2>5. ASSUME NEW p \in Parcel, \/ \E s, r \in Character : DraftParcel(p, s, r)
                                 \/ \E lines \in Contents : EditParcel(p, lines)
        PROVE  RowStep
    BY <2>5, DraftQuiet DEF RowStep
  <2>6. QED
    BY <1>2, <2>1, <2>2, <2>3, <2>4, <2>5 DEF ParcelStep
<1>3. CASE LifeStep
  <2>1. ASSUME NEW c \in Character, NEW kept \in SUBSET Item, Remort(c, kept) PROVE RowStep
    BY <2>1, RemortCloses DEF RowStep
  <2>2. ASSUME NEW c \in Character, Restart(c) PROVE RowStep
    BY <2>2, RestartPurges DEF RowStep
  <2>3. ASSUME NEW c \in Character, CreateCharacter(c) PROVE RowStep
    BY <2>3, OtherQuiet DEF RowStep
  <2>4. QED
    BY <1>3, <2>1, <2>2, <2>3 DEF LifeStep
<1>4. CASE OtherFeatureStep \/ (\E t \in Transfer : PassDeadline(t)) \/ UNCHANGED vars
  BY <1>4, OtherQuiet DEF RowStep
<1>5. QED
  BY <1>1, <1>2, <1>3, <1>4 DEF Next

-----------------------------------------------------------------------------
(* The theorems *)

\* The program implements the abstract consignment: the goods of a row are
\* delivered, returned or destroyed once, in every behaviour and for every
\* number of characters, items, tokens and units.
THEOREM Refinement == Spec => KeepsPromise
<1>1. Init => Promise!ConsignmentInit
  <2> SUFFICES ASSUME Init PROVE Promise!ConsignmentInit
    OBVIOUS
  <2>1. \A t \in Transfer : Stage(journal[t], status[t]) = "sender"
    <3> SUFFICES ASSUME NEW t \in Transfer PROVE Stage(journal[t], status[t]) = "sender"
      OBVIOUS
    <3>1. journal[t] = [out |-> 0, in |-> 0, back |-> 0]
      BY DEF Init
    <3>2. QED
      BY <3>1, StageIs DEF Moves
  <2>2. QED
    BY <2>1 DEF Promise!ConsignmentInit, whereaboutsNow
<1>2. IndInv /\ [Next]_vars => [Promise!ConsignmentNext]_whereaboutsNow
  BY EveryStep, RowStepIs
<1>3. QED
  BY <1>1, <1>2, Invariance, PTL DEF Spec, KeepsPromise, Promise!ConsignmentSpec

LEMMA AnsweredRest ==
  ASSUME IndInv, RowStep, NEW t \in Transfer, status[t] \in Answered
  PROVE  status'[t] \in {status[t], "purged"} /\ journal'[t] = journal[t]
<1>1. status[t] \notin {"unused", "draft", "pending"} \cup Live
  BY DEF Answered, Refused, Live
<1>2. Rests(t) => status'[t] = status[t] /\ journal'[t] = journal[t]
  BY DEF Rests
<1>3. ASSUME NEW P, ComesBack(P) PROVE t \notin P
  BY <1>1, <1>3 DEF ComesBack
<1>4. CASE Quiet
  BY <1>2, <1>4 DEF Quiet
<1>5. ASSUME NEW P \in SUBSET Transfer, Closing(P)
      PROVE  Rests(t)
  BY <1>3, <1>5 DEF Closing
<1>6. ASSUME NEW P \in SUBSET Transfer, Purging(P)
      PROVE  status'[t] \in {status[t], "purged"} /\ journal'[t] = journal[t]
  BY <1>2, <1>6 DEF Purging
<1>7. ASSUME NEW p \in Parcel, NEW P \in SUBSET Transfer, Posting(p, P)
      PROVE  Rests(t)
  BY <1>1, <1>3, <1>7 DEF Posting
<1>8. ASSUME NEW d \in Transfer, Delivering(d) PROVE Rests(t)
  BY <1>1, <1>8 DEF Delivering
<1>9. QED
  BY <1>2, <1>4, <1>5, <1>6, <1>7, <1>8 DEF RowStep

\* An answered row keeps its answer and moves nothing more, whatever is
\* retried, comes late or sweeps behind it (the compare-and-set of a status).
THEOREM FinalAnswers == Spec => AnswersAreFinal
<1>1. IndInv /\ [Next]_vars =>
        [\A t \in Transfer : status[t] \in Refused \cup {"completed"} =>
           status'[t] \in {status[t], "purged"} /\ journal'[t] = journal[t]]_vars
  BY EveryStep, AnsweredRest DEF Answered
<1>2. QED
  BY <1>1, Invariance, PTL DEF Spec, AnswersAreFinal

(* Who writes rows: new ones, drafts, and the deletion of a character.      *)
LEMMA RowsWritten ==
  ASSUME IndInv, [Next]_vars, NEW t \in Transfer, status[t] \notin {"unused", "draft"}
  PROVE  row'[t] \in {row[t], NoRow}
<1>1. row \in [Transfer -> Row \cup {NoRow}]
  BY DEF IndInv, TypeOK
<1>2. CASE GiftStep
  <2>1. ASSUME NEW s \in Character, NEW r \in Character, NEW i \in Item, NEW g \in Gift,
               CreateGift(g, s, r, i)
        PROVE  row'[t] = row[t]
    <3>1. g # t
      BY <2>1 DEF CreateGift
    <3>2. QED
      BY <1>1, <2>1, <3>1 DEF CreateGift
  <2>2. CASE \E s, r \in Character, i \in Item : CreateGiftStale(s, r, i)
    BY <2>2 DEF CreateGiftStale
  <2>3. CASE \E g \in Gift : AcceptGift(g) \/ LateGiftAnswer(g)
               \/ \E answer \in {"declined", "cancelled"} : RefuseGift(g, answer)
    BY <2>3 DEF AcceptGift, LateGiftAnswer, RefuseGift
  <2>4. QED
    BY <1>2, <2>1, <2>2, <2>3 DEF GiftStep
<1>3. CASE ParcelStep
  <2>1. ASSUME NEW p \in Parcel, NEW s \in Character, NEW r \in Character, DraftParcel(p, s, r)
        PROVE  row'[t] = row[t]
    <3>1. p # t
      BY <2>1 DEF DraftParcel
    <3>2. QED
      BY <1>1, <2>1, <3>1 DEF DraftParcel
  <2>2. ASSUME NEW p \in Parcel, NEW lines \in Contents, EditParcel(p, lines)
        PROVE  row'[t] = row[t]
    <3>1. p # t
      BY <2>2 DEF EditParcel
    <3>2. QED
      BY <1>1, <2>2, <3>1 DEF EditParcel
  <2>3. CASE \E p \in Parcel : \/ ConfirmParcel(p) \/ ConfirmParcelFails(p)
                               \/ AcceptParcel(p) \/ DeclineParcel(p)
                               \/ LateParcelAnswer(p) \/ CancelParcel(p)
    BY <2>3 DEF ConfirmParcel, ConfirmParcelFails, AcceptParcel, DeclineParcel,
                LateParcelAnswer, CancelParcel, CloseParcel
  <2>4. QED
    BY <1>3, <2>1, <2>2, <2>3 DEF ParcelStep
<1>4. CASE OtherFeatureStep
  BY <1>4, OtherKeepsRows
<1>5. CASE LifeStep
  BY <1>5 DEF LifeStep, Remort, Restart, CreateCharacter
<1>6. CASE (\E x \in Transfer : PassDeadline(x)) \/ UNCHANGED vars
  BY <1>6 DEF PassDeadline, vars
<1>7. QED
  BY <1>2, <1>3, <1>4, <1>5, <1>6 DEF Next

\* Nobody edits a package that waits in custody.
THEOREM Sealed == Spec => PackageSealed
<1>1. IndInv /\ [Next]_vars => [\A p \in InCustody : row'[p] \in {row[p], NoRow}]_vars
  BY RowsWritten DEF InCustody, Transfer
<1>2. QED
  BY <1>1, Invariance, PTL DEF Spec, PackageSealed

-----------------------------------------------------------------------------
(* A live offer keeps its unit *)

(* The stacks a step may take from have no live offer behind them.          *)
LEMMA BackedFrame ==
  ASSUME IndInv, OfferBacked, TypeOK',
         \A g \in Gift : Reserving(g)' => Reserving(g) /\ row'[g] = row[g],
         \A g \in Gift : Reserving(g)' =>
           \A i \in LineItems(g) \ Unguarded : stack'[row[g].from][i] >= stack[row[g].from][i]
  PROVE  OfferBacked'
<1> SUFFICES ASSUME NEW g \in Gift, Reserving(g)', NEW i \in LineItems(g)' \ Unguarded
             PROVE  stack'[row'[g].from][i] >= row'[g].lines[i]
  BY DEF OfferBacked
<1>1. Reserving(g) /\ row'[g] = row[g] /\ g \in Transfer
  BY DEF Transfer
<1>2. i \in Item /\ i \in LineItems(g) \ Unguarded
  BY <1>1 DEF LineItems
<1>3. row[g].from \in Character /\ row[g].lines[i] \in Nat
  BY <1>1, <1>2, RowOfLive, NumbersAssumption DEF IndInv, Reserving
<1>4. stack[row[g].from][i] >= row[g].lines[i]
  BY <1>1, <1>2 DEF OfferBacked
<1>5. stack'[row[g].from][i] >= stack[row[g].from][i]
  BY <1>2
<1>6. stack[row[g].from][i] \in Nat /\ stack'[row[g].from][i] \in Nat
  BY <1>2, <1>3 DEF IndInv, TypeOK
<1>7. QED
  BY <1>1, <1>3, <1>4, <1>5, <1>6

LEMMA CreateGiftBacked ==
  ASSUME IndInv, OfferBacked, NEW g \in Gift, NEW s \in Character, NEW r \in Character,
         NEW i \in Item, CreateGift(g, s, r, i)
  PROVE  OfferBacked'
<1> SUFFICES ASSUME NEW h \in Gift, Reserving(h)', NEW x \in LineItems(h)' \ Unguarded
             PROVE  stack'[row'[h].from][x] >= row'[h].lines[x]
  BY DEF OfferBacked
<1>1. h \in Transfer /\ g \in Transfer /\ stack' = stack /\ due' = due
      /\ stack \in [Character -> [Item -> Nat]] /\ row \in [Transfer -> Row \cup {NoRow}]
  BY DEF Transfer, CreateGift, goods, IndInv, TypeOK
<1>2. CASE h = g
  <2>1. row'[h].from = s /\ row'[h].lines = GiftLines(i)
    BY <1>1, <1>2 DEF CreateGift
  <2>2. stack[s][i] >= 1
    BY DEF CreateGift, GiftEligible, Eligible
  <2>3. x \in Item /\ row'[h].lines[x] > 0
    BY DEF LineItems
  <2>4. x = i /\ GiftLines(i)[x] = 1
    BY <2>1, <2>3 DEF GiftLines
  <2>5. QED
    BY <1>1, <2>1, <2>2, <2>4
<1>3. CASE h # g
  <2>1. row'[h] = row[h]
    BY <1>1, <1>3 DEF CreateGift
  <2>2. Reserving(h)
    BY <1>1, <1>3 DEF CreateGift, Reserving, Settle
  <2>3. x \in LineItems(h) \ Unguarded
    BY <2>1 DEF LineItems
  <2>4. QED
    BY <1>1, <2>1, <2>2, <2>3 DEF OfferBacked
<1>4. QED
  BY <1>2, <1>3

(* Offers that a step leaves or closes, with stacks that only grow.         *)
LEMMA GrowsBacked ==
  ASSUME IndInv, OfferBacked, TypeOK', row' = row, due \subseteq due',
         \A t \in Transfer : status'[t] = "pending" /\ t \notin Parcel => status[t] = "pending",
         \A c \in Character, i \in Item : stack'[c][i] >= stack[c][i]
  PROVE  OfferBacked'
<1>1. \A g \in Gift : g \in Transfer /\ g \notin Parcel
  BY SetsAssumption DEF Transfer
<1>2. \A g \in Gift : Reserving(g)' => Reserving(g) /\ row'[g] = row[g]
  BY <1>1 DEF Reserving
<1>3. ASSUME NEW g \in Gift, Reserving(g)', NEW i \in LineItems(g) \ Unguarded
      PROVE  stack'[row[g].from][i] >= stack[row[g].from][i]
  <2>1. row[g].from \in Character /\ i \in Item
    BY <1>1, <1>2, <1>3, RowOfLive DEF IndInv, Reserving, LineItems
  <2>2. QED
    BY <2>1
<1>4. QED
  BY <1>2, <1>3, BackedFrame

(* Units leave only stacks nobody has offered, or closed offers.            *)
LEMMA TakesBacked ==
  ASSUME IndInv, OfferBacked, TypeOK', NEW c \in Character, NEW T \in SUBSET Item,
         row' = row, due \subseteq due',
         \A g \in Gift : status'[g] = "pending" => status[g] = "pending",
         \A d \in Character, i \in Item : d # c \/ i \notin T => stack'[d][i] >= stack[d][i],
         \A g \in Gift : Reserving(g)' /\ row[g].from = c => LineItems(g) \cap T \subseteq Unguarded
  PROVE  OfferBacked'
<1>1. \A g \in Gift : g \in Transfer
  BY DEF Transfer
<1>2. \A g \in Gift : Reserving(g)' => Reserving(g) /\ row'[g] = row[g]
  BY <1>1 DEF Reserving
<1>3. ASSUME NEW g \in Gift, Reserving(g)', NEW i \in LineItems(g) \ Unguarded
      PROVE  stack'[row[g].from][i] >= stack[row[g].from][i]
  <2>1. row[g].from \in Character /\ i \in Item
    BY <1>1, <1>2, <1>3, RowOfLive DEF IndInv, Reserving, LineItems
  <2>2. row[g].from # c \/ i \notin T
    BY <1>3
  <2>3. QED
    BY <2>1, <2>2
<1>4. QED
  BY <1>2, <1>3, BackedFrame

LEMMA AcceptGiftBacked ==
  ASSUME IndInv, OfferBacked, IndInv', NEW g \in Gift, AcceptGift(g)
  PROVE  OfferBacked'
<1> DEFINE s == row[g].from
           r == row[g].to
           taken == [stack EXCEPT ![s] = Minus(stack[s], g)]
<1>0. /\ g \in Transfer /\ s \in Character /\ r \in Character
      /\ row[g].lines \in [Item -> 0 .. MaxUnits] /\ stack \in [Character -> [Item -> Nat]]
      /\ status \in [Transfer -> Statuses] /\ status[g] = "pending"
  BY RowOfLive DEF AcceptGift, Transfer, IndInv, TypeOK
<1>1. /\ stack' = [taken EXCEPT ![r] = [i \in Item |-> taken[r][i] + row[g].lines[i]]]
      /\ status' = [status EXCEPT ![g] = "completed"] /\ row' = row /\ due' = due
      /\ \A i \in LineItems(g) : Eligible(s, i, stack[s], {g})
  BY DEF AcceptGift
<1>2. \A h \in Gift : status'[h] = "pending" => h # g /\ status[h] = "pending"
  BY <1>0, <1>1 DEF Transfer
<1>3. ASSUME NEW d \in Character, NEW i \in Item, d # s \/ i \notin LineItems(g)
      PROVE  stack'[d][i] >= stack[d][i]
  <2>1. row[g].lines[i] \in Nat /\ stack[d][i] \in Nat /\ stack[s][i] \in Nat
    BY <1>0, NumbersAssumption
  <2>2. d = s => row[g].lines[i] = 0
    BY <1>3, <2>1 DEF LineItems
  <2>3. Minus(stack[s], g)[i] = stack[s][i] - row[g].lines[i]
    BY DEF Minus
  <2>4. CASE d # s
    BY <1>0, <1>1, <2>1, <2>4
  <2>5. CASE d = s
    BY <1>0, <1>1, <2>1, <2>2, <2>3, <2>5
  <2>6. QED
    BY <2>4, <2>5
<1>4. ASSUME NEW h \in Gift, Reserving(h)', row[h].from = s
      PROVE  LineItems(h) \cap LineItems(g) \subseteq Unguarded
  <2>1. h \in Transfer \ {g} /\ Reserving(h)
    BY <1>1, <1>2, <1>4 DEF Reserving, Transfer
  <2>2. \A i \in LineItems(g) : i \notin LineItems(h)
    BY <1>1, <1>4, <2>1 DEF Eligible, Reserved, ReservedBy
  <2>3. QED
    BY <2>2
<1>5. LineItems(g) \in SUBSET Item
  BY DEF LineItems
<1> DEFINE T == LineItems(g)
<1>6. /\ T \in SUBSET Item
      /\ \A d \in Character, i \in Item : d # s \/ i \notin T => stack'[d][i] >= stack[d][i]
      /\ \A h \in Gift : Reserving(h)' /\ row[h].from = s => LineItems(h) \cap T \subseteq Unguarded
  BY <1>3, <1>4, <1>5
<1>7. /\ TypeOK' /\ row' = row /\ due \subseteq due' /\ s \in Character
      /\ \A h \in Gift : status'[h] = "pending" => status[h] = "pending"
  BY <1>0, <1>1, <1>2 DEF IndInv
<1> HIDE DEF s, r, taken, T
<1>8. QED
  BY <1>6, <1>7, TakesBacked

LEMMA ConfirmBacked ==
  ASSUME IndInv, OfferBacked, IndInv', NEW p \in Parcel, ConfirmParcel(p)
  PROVE  OfferBacked'
<1> DEFINE s == row[p].from
           swept == ForgottenParcels(s)
           q == StackAfterReturn(swept)
<1>0. /\ p \in Transfer /\ s \in Character /\ row[p].lines \in [Item -> 0 .. MaxUnits]
      /\ stack \in [Character -> [Item -> Nat]] /\ status \in [Transfer -> Statuses]
  BY RowOfLive DEF ConfirmParcel, CanConfirm, Transfer, IndInv, TypeOK
<1>1. swept \in SUBSET Transfer /\ q \in [Character -> [Item -> Nat]]
      /\ \A d \in Character, i \in Item : q[d][i] >= stack[d][i]
  <2>1. swept \in SUBSET Transfer
    BY DEF ForgottenParcels, Transfer
  <2>2. QED
    BY <2>1, StackAfterReturnType, StackAfterReturnGrows DEF IndInv
<1>2. /\ stack' = [q EXCEPT ![s] = Minus(q[s], p)] /\ row' = row /\ due' = due
      /\ \A t \in Transfer : t # p => status'[t] \in {status[t], "expired"}
      /\ \A i \in LineItems(p) : i \notin ReservedBy(s, {})
  BY <1>0 DEF ConfirmParcel, PackageValid, Eligible, Reserved, Settle
<1>3. \A g \in Gift : g \in Transfer /\ g # p
  BY SetsAssumption DEF Transfer
<1>4. \A g \in Gift : status'[g] = "pending" => status[g] = "pending"
  BY <1>2, <1>3
<1> HIDE DEF q, swept
<1>5. ASSUME NEW d \in Character, NEW i \in Item, d # s \/ i \notin LineItems(p)
      PROVE  stack'[d][i] >= stack[d][i]
  <2>1. row[p].lines[i] \in Nat /\ q[d][i] \in Nat /\ stack[d][i] \in Nat
    BY <1>0, <1>1, NumbersAssumption
  <2>2. d = s => row[p].lines[i] = 0
    BY <1>5, <2>1 DEF LineItems
  <2>3. stack'[d][i] = IF d = s THEN q[d][i] - row[p].lines[i] ELSE q[d][i]
    BY <1>0, <1>1, <1>2 DEF Minus
  <2>4. QED
    BY <1>1, <2>1, <2>2, <2>3
<1>6. ASSUME NEW h \in Gift, Reserving(h)', row[h].from = s
      PROVE  LineItems(h) \cap LineItems(p) \subseteq Unguarded
  <2>1. h \in Transfer /\ Reserving(h)
    BY <1>2, <1>3, <1>4, <1>6 DEF Reserving
  <2>2. QED
    BY <1>2, <1>6, <2>1 DEF ReservedBy
<1>7. LineItems(p) \in SUBSET Item
  BY DEF LineItems
<1> DEFINE T == LineItems(p)
<1>8. /\ T \in SUBSET Item
      /\ \A d \in Character, i \in Item : d # s \/ i \notin T => stack'[d][i] >= stack[d][i]
      /\ \A h \in Gift : Reserving(h)' /\ row[h].from = s => LineItems(h) \cap T \subseteq Unguarded
  BY <1>5, <1>6, <1>7
<1>9. /\ TypeOK' /\ row' = row /\ due \subseteq due' /\ s \in Character
      /\ \A h \in Gift : status'[h] = "pending" => status[h] = "pending"
  BY <1>0, <1>2, <1>4 DEF IndInv
<1> HIDE DEF s, T
<1>10. QED
  BY <1>8, <1>9, TakesBacked

(* Offers that are answered, and steps that leave every stack alone.        *)
LEMMA StillBacked ==
  ASSUME IndInv, OfferBacked, IndInv', stack' = stack, row' = row, due \subseteq due',
         \A t \in Transfer : status'[t] = "pending" => status[t] = "pending"
  PROVE  OfferBacked'
<1>1. stack \in [Character -> [Item -> Nat]] /\ TypeOK'
  BY DEF IndInv, TypeOK
<1>2. \A c \in Character, i \in Item : stack[c][i] \in Nat
  BY <1>1
<1>3. \A c \in Character, i \in Item : stack'[c][i] >= stack[c][i]
  BY <1>2
<1>4. QED
  BY <1>1, <1>3, GrowsBacked

LEMMA GiftBacked ==
  ASSUME IndInv, OfferBacked, IndInv', GiftStep
  PROVE  OfferBacked'
<1>1. CASE \E s, r \in Character, i \in Item, g \in Gift : CreateGift(g, s, r, i)
  BY <1>1, CreateGiftBacked
<1>2. CASE \E s, r \in Character, i \in Item : CreateGiftStale(s, r, i)
  BY <1>2, StillBacked DEF CreateGiftStale, Settle, goods
<1>3. CASE \E g \in Gift : AcceptGift(g)
  BY <1>3, AcceptGiftBacked
<1>4. CASE \E g \in Gift : LateGiftAnswer(g)
  <2>1. status \in [Transfer -> Statuses]
    BY DEF IndInv, TypeOK
  <2>2. QED
    BY <1>4, <2>1, StillBacked DEF LateGiftAnswer, goods
<1>5. CASE \E g \in Gift, answer \in {"declined", "cancelled"} : RefuseGift(g, answer)
  <2>1. status \in [Transfer -> Statuses]
    BY DEF IndInv, TypeOK
  <2>2. QED
    BY <1>5, <2>1, StillBacked DEF RefuseGift, goods
<1>6. QED
  BY <1>1, <1>2, <1>3, <1>4, <1>5 DEF GiftStep

(* A draft is nobody's gift.                                                *)
LEMMA DraftBacked ==
  ASSUME IndInv, OfferBacked, IndInv', NEW p \in Parcel,
         stack' = stack, due' = due,
         \A t \in Transfer \ {p} : row'[t] = row[t] /\ status'[t] = status[t]
  PROVE  OfferBacked'
<1>1. \A g \in Gift : g \in Transfer \ {p}
  BY SetsAssumption DEF Transfer
<1>2. \A g \in Gift : Reserving(g)' => Reserving(g) /\ row'[g] = row[g]
  BY <1>1 DEF Reserving
<1>3. ASSUME NEW g \in Gift, Reserving(g)', NEW i \in LineItems(g) \ Unguarded
      PROVE  stack'[row[g].from][i] >= stack[row[g].from][i]
  <2>1. row[g].from \in Character /\ i \in Item
    BY <1>1, <1>2, <1>3, RowOfLive DEF IndInv, Reserving, LineItems
  <2>2. stack[row[g].from][i] \in Nat
    BY <2>1 DEF IndInv, TypeOK
  <2>3. QED
    BY <2>2
<1>4. QED
  BY <1>2, <1>3, BackedFrame DEF IndInv

(* Parcels that come home make the stacks of their senders grow.            *)
LEMMA ReturnBacked ==
  ASSUME IndInv, OfferBacked, IndInv', NEW P \in SUBSET Transfer, NEW s \in Refused,
         stack' = StackAfterReturn(P), status' = Settle(P, s), row' = row, due' = due
  PROVE  OfferBacked'
<1>1. \A c \in Character, i \in Item : stack'[c][i] >= stack[c][i]
  BY StackAfterReturnGrows DEF IndInv
<1>2. \A t \in Transfer : status'[t] = "pending" => status[t] = "pending"
  BY DEF Settle, Refused
<1>3. QED
  BY <1>1, <1>2, GrowsBacked DEF IndInv

LEMMA AcceptParcelBacked ==
  ASSUME IndInv, OfferBacked, IndInv', NEW p \in Parcel, AcceptParcel(p)
  PROVE  OfferBacked'
<1> DEFINE r == row[p].to
<1>1. /\ r \in Character /\ {p} \in SUBSET Parcel /\ stack \in [Character -> [Item -> Nat]]
      /\ status \in [Transfer -> Statuses]
  BY RowOfLive DEF AcceptParcel, InCustody, Transfer, IndInv, TypeOK
<1>2. /\ stack' = [stack EXCEPT ![r] = Plus(stack[r], {p})] /\ row' = row /\ due' = due
      /\ status' = [status EXCEPT ![p] = "completed"]
  BY DEF AcceptParcel
<1>3. ASSUME NEW c \in Character, NEW i \in Item
      PROVE  stack'[c][i] >= stack[c][i]
  <2>1. Cardinality(UnitsIn({p}, i)) \in Nat /\ stack[c][i] \in Nat
    BY <1>1, UnitsNat
  <2>2. Plus(stack[r], {p})[i] = stack[r][i] + Cardinality(UnitsIn({p}, i))
    BY DEF Plus
  <2>3. CASE c = r
    BY <1>1, <1>2, <2>1, <2>2, <2>3
  <2>4. CASE c # r
    BY <1>1, <1>2, <2>1, <2>4
  <2>5. QED
    BY <2>3, <2>4
<1>4. \A t \in Transfer : status'[t] = "pending" => status[t] = "pending"
  BY <1>1, <1>2
<1>5. QED
  BY <1>2, <1>3, <1>4, GrowsBacked DEF IndInv

LEMMA ParcelBacked ==
  ASSUME IndInv, OfferBacked, IndInv', ParcelStep
  PROVE  OfferBacked'
<1>0. row \in [Transfer -> Row \cup {NoRow}] /\ status \in [Transfer -> Statuses]
  BY DEF IndInv, TypeOK
<1>1. CASE \E p \in Parcel, s, r \in Character : DraftParcel(p, s, r)
  <2>1. PICK p \in Parcel, s \in Character, r \in Character : DraftParcel(p, s, r)
    BY <1>1
  <2>2. \A t \in Transfer \ {p} : row'[t] = row[t] /\ status'[t] = status[t]
    BY <1>0, <2>1 DEF DraftParcel
  <2>3. QED
    BY <2>1, <2>2, DraftBacked DEF DraftParcel, goods
<1>2. CASE \E p \in Parcel, lines \in Contents : EditParcel(p, lines)
  <2>1. PICK p \in Parcel, lines \in Contents : EditParcel(p, lines)
    BY <1>2
  <2>2. \A t \in Transfer \ {p} : row'[t] = row[t] /\ status'[t] = status[t]
    BY <1>0, <2>1 DEF EditParcel
  <2>3. QED
    BY <2>1, <2>2, DraftBacked DEF EditParcel, goods
<1>3. CASE \E p \in Parcel : ConfirmParcel(p)
  BY <1>3, ConfirmBacked
<1>4. CASE \E p \in Parcel : ConfirmParcelFails(p)
  <2>1. PICK p \in Parcel : ConfirmParcelFails(p)
    BY <1>4
  <2>2. ForgottenParcels(row[p].from) \in SUBSET Transfer /\ "expired" \in Refused
    BY DEF ForgottenParcels, Transfer, Refused
  <2>3. QED
    BY <2>1, <2>2, ReturnBacked DEF ConfirmParcelFails
<1>5. CASE \E p \in Parcel : AcceptParcel(p)
  BY <1>5, AcceptParcelBacked
<1>6. CASE \E p \in Parcel : DeclineParcel(p) \/ LateParcelAnswer(p) \/ CancelParcel(p)
  <2>1. PICK p \in Parcel : DeclineParcel(p) \/ LateParcelAnswer(p) \/ CancelParcel(p)
    BY <1>6
  <2>2. PICK s \in Refused : CloseParcel(p, s)
    BY <2>1 DEF DeclineParcel, LateParcelAnswer, CancelParcel, Refused
  <2>3. {p} \in SUBSET Transfer
    BY DEF Transfer
  <2>4. QED
    BY <2>2, <2>3, ReturnBacked DEF CloseParcel
<1>7. QED
  BY <1>1, <1>2, <1>3, <1>4, <1>5, <1>6 DEF ParcelStep

(* One character's stacks of unguarded items, or of items no offer names,   *)
(* are all that another feature takes from.                                 *)
LEMMA SinkBacked ==
  ASSUME IndInv, OfferBacked, IndInv', NEW c \in Character, NEW T \in SUBSET Item,
         UNCHANGED <<row, status, due>>,
         \A d \in Character, i \in Item : d # c \/ i \notin T => stack'[d][i] >= stack[d][i],
         \A i \in T : i \in Unguarded \/ i \notin ReservedBy(c, {})
  PROVE  OfferBacked'
<1>1. ASSUME NEW g \in Gift, Reserving(g)', row[g].from = c
      PROVE  LineItems(g) \cap T \subseteq Unguarded
  <2>1. g \in Transfer /\ Reserving(g)
    BY <1>1 DEF Transfer, Reserving
  <2>2. LineItems(g) \subseteq ReservedBy(c, {})
    BY <1>1, <2>1 DEF ReservedBy
  <2>3. QED
    BY <2>2
<1>2. /\ TypeOK' /\ row' = row /\ due \subseteq due'
      /\ \A g \in Gift : status'[g] = "pending" => status[g] = "pending"
  BY DEF IndInv
<1>3. QED
  BY <1>1, <1>2, TakesBacked

LEMMA GainBacked ==
  ASSUME IndInv, OfferBacked, IndInv', NEW c \in Character, NEW i \in Item, Gain(c, i)
  PROVE  OfferBacked'
<1>1. stack \in [Character -> [Item -> Nat]]
  BY DEF IndInv, TypeOK
<1>2. \A d \in Character, j \in Item :
        /\ stack[d][j] \in Nat
        /\ stack'[d][j] = IF d = c /\ j = i THEN stack[c][i] + 1 ELSE stack[d][j]
  BY <1>1 DEF Gain
<1>3. \A d \in Character, j \in Item : stack'[d][j] >= stack[d][j]
  BY <1>2
<1>4. QED
  BY <1>3, GrowsBacked DEF Gain, IndInv

LEMMA SpendUnreservedBacked ==
  ASSUME IndInv, OfferBacked, IndInv', NEW c \in Character, NEW i \in Item,
         SpendUnreserved(c, i)
  PROVE  OfferBacked'
<1>1. stack \in [Character -> [Item -> Nat]]
  BY DEF IndInv, TypeOK
<1>2. \A d \in Character, j \in Item :
        /\ stack[d][j] \in Nat
        /\ d # c \/ j \notin {i} => stack'[d][j] = stack[d][j]
  BY <1>1 DEF SpendUnreserved
<1>3. \A d \in Character, j \in Item : d # c \/ j \notin {i} => stack'[d][j] >= stack[d][j]
  BY <1>2
<1> DEFINE T == {i}
<1>4. /\ T \in SUBSET Item /\ UNCHANGED <<row, status, due>>
      /\ \A d \in Character, j \in Item : d # c \/ j \notin T => stack'[d][j] >= stack[d][j]
      /\ \A j \in T : j \in Unguarded \/ j \notin ReservedBy(c, {})
  BY <1>3 DEF SpendUnreserved, Unguarded
<1> HIDE DEF T
<1>5. QED
  BY <1>4, SinkBacked

LEMMA SpendHeldBacked ==
  ASSUME IndInv, OfferBacked, IndInv', NEW c \in Character, NEW i \in Item,
         NEW n \in 1 .. stack[c][i], SpendHeld(c, i, n)
  PROVE  OfferBacked'
<1>1. stack \in [Character -> [Item -> Nat]]
  BY DEF IndInv, TypeOK
<1>2. \A d \in Character, j \in Item :
        /\ stack[d][j] \in Nat
        /\ d # c \/ j \notin {i} => stack'[d][j] = stack[d][j]
  BY <1>1 DEF SpendHeld
<1>3. \A d \in Character, j \in Item : d # c \/ j \notin {i} => stack'[d][j] >= stack[d][j]
  BY <1>2
<1> DEFINE T == {i}
<1>4. /\ T \in SUBSET Item /\ UNCHANGED <<row, status, due>>
      /\ \A d \in Character, j \in Item : d # c \/ j \notin T => stack'[d][j] >= stack[d][j]
      /\ \A j \in T : j \in Unguarded \/ j \notin ReservedBy(c, {})
  BY <1>3 DEF SpendHeld
<1> HIDE DEF T
<1>5. QED
  BY <1>4, SinkBacked

LEMMA UpgradeAttemptBacked ==
  ASSUME IndInv, OfferBacked, IndInv', NEW c \in Character, NEW i \in Item, NEW j \in Item,
         NEW donors \in SUBSET Donors, NEW success \in BOOLEAN,
         NEW fee \in UpgradeFees, UpgradeAttempt(c, i, j, donors, success, fee)
  PROVE  OfferBacked'
<1> DEFINE T == donors \cup {Spark, i}
<1>1. T \in SUBSET Item /\ T \subseteq Unguarded
  <2>1. <<i, j>> \in Upgrade
    BY DEF UpgradeAttempt
  <2>2. QED
    BY <2>1, SetsAssumption, UpgradeAssumption DEF Unguarded
<1>2. stack \in [Character -> [Item -> Nat]]
  BY DEF IndInv, TypeOK
<1>3. ASSUME NEW d \in Character, NEW x \in Item, d # c \/ x \notin T
      PROVE  stack'[d][x] >= stack[d][x]
  <2>1. stack[d][x] \in Nat
    BY <1>2
  <2>2. CASE d # c
    BY <1>2, <2>1, <2>2 DEF UpgradeAttempt
  <2>3. CASE d = c
    <3>1. x \notin donors \cup {Spark} /\ x # i
      BY <1>3, <2>3
    <3>2. stack'[d][x] = stack[d][x] + (IF success /\ x = j THEN 1 ELSE 0)
      BY <1>2, <2>1, <2>3, <3>1 DEF UpgradeAttempt, AfterAttempt
    <3>3. QED
      BY <2>1, <3>2
  <2>4. QED
    BY <2>2, <2>3
<1>4. UNCHANGED <<row, status, due>>
  BY DEF UpgradeAttempt
<1> HIDE DEF T
<1>5. QED
  BY <1>1, <1>3, <1>4, SinkBacked

LEMMA OtherBacked ==
  ASSUME IndInv, OfferBacked, IndInv', OtherFeatureStep
  PROVE  OfferBacked'
<1> PICK c \in Character :
    \/ \E i \in Item : \/ Gain(c, i) \/ SpendUnreserved(c, i)
                       \/ Hold(c, i) \/ Release(c, i)
                       \/ Equip(c, i) \/ Unequip(c, i)
                       \/ \E n \in 1 .. stack[c][i] : SpendHeld(c, i, n)
    \/ \E kind \in CombatKind : EnterCombat(c, kind)
    \/ \E i, j \in Item, donors \in SUBSET Donors,
          success \in BOOLEAN, fee \in UpgradeFees :
         UpgradeAttempt(c, i, j, donors, success, fee)
    \/ LeaveCombat(c)
    \/ \E there \in Place : Travel(c, there)
  BY DEF OtherFeatureStep
<1>1. CASE \E i \in Item : \/ Gain(c, i) \/ SpendUnreserved(c, i)
                           \/ \E n \in 1 .. stack[c][i] : SpendHeld(c, i, n)
  BY <1>1, GainBacked, SpendUnreservedBacked, SpendHeldBacked
<1>2. CASE \E i, j \in Item, donors \in SUBSET Donors,
             success \in BOOLEAN, fee \in UpgradeFees :
             UpgradeAttempt(c, i, j, donors, success, fee)
  BY <1>2, UpgradeAttemptBacked
<1>3. CASE \/ \E i \in Item : Hold(c, i) \/ Release(c, i) \/ Equip(c, i) \/ Unequip(c, i)
           \/ \E kind \in CombatKind : EnterCombat(c, kind)
           \/ LeaveCombat(c)
           \/ \E there \in Place : Travel(c, there)
  <2>1. UNCHANGED <<stack, row, status, due>>
    BY <1>3 DEF Hold, Release, Equip, Unequip, EnterCombat, LeaveCombat, Travel, goods
  <2>2. QED
    BY <2>1, StillBacked
<1>4. QED
  BY <1>1, <1>2, <1>3

(* A remort closes every row of the character before it takes the stacks.   *)
LEMMA RemortBacked ==
  ASSUME IndInv, OfferBacked, IndInv', NEW c \in Character, NEW kept \in SUBSET Item,
         Remort(c, kept)
  PROVE  OfferBacked'
<1> DEFINE live     == {t \in Transfer : status[t] \in Live /\ Involves(t, c)}
           incoming == {p \in live \cap InCustody : row[p].to = c}
           q        == StackAfterReturn(incoming)
           T        == Item
<1>1. incoming \in SUBSET Transfer /\ q \in [Character -> [Item -> Nat]]
  <2>1. incoming \in SUBSET Transfer
    OBVIOUS
  <2>2. QED
    BY <2>1, StackAfterReturnType DEF IndInv, InCustody
<1>2. \A d \in Character, i \in Item : q[d][i] >= stack[d][i]
  BY <1>1, StackAfterReturnGrows DEF IndInv
<1>3. \A d \in Character \ {c} : stack'[d] = q[d]
  BY <1>1 DEF Remort
<1>4. \A t \in Transfer : status'[t] = IF t \in live THEN "cancelled" ELSE status[t]
  BY DEF Remort, Settle
<1>5. \A d \in Character, i \in Item : d # c \/ i \notin T => stack'[d][i] >= stack[d][i]
  BY <1>2, <1>3
<1>6. ASSUME NEW g \in Gift, Reserving(g)', row[g].from = c
      PROVE  LineItems(g) \cap T \subseteq Unguarded
  <2>1. g \in Transfer /\ status'[g] = "pending"
    BY <1>6 DEF Reserving, Transfer
  <2>2. g \notin live /\ status[g] = "pending"
    BY <1>4, <2>1
  <2>3. row[g] # NoRow
    BY <2>1, <2>2 DEF IndInv, TypeOK
  <2>4. FALSE
    BY <1>6, <2>1, <2>2, <2>3 DEF Involves, Live
  <2>5. QED
    BY <2>4
<1>7. /\ TypeOK' /\ row' = row /\ due \subseteq due' /\ T \in SUBSET Item
      /\ \A g \in Gift : status'[g] = "pending" => status[g] = "pending"
  BY <1>4 DEF Remort, IndInv, Transfer
<1> HIDE DEF T
<1>8. QED
  BY <1>5, <1>6, <1>7, TakesBacked

LEMMA RestartBacked ==
  ASSUME IndInv, OfferBacked, IndInv', NEW c \in Character, Restart(c)
  PROVE  OfferBacked'
<1>1. \A t \in Transfer : /\ status'[t] = IF Involves(t, c) THEN "purged" ELSE status[t]
                          /\ row'[t] = IF Involves(t, c) THEN NoRow ELSE row[t]
  BY DEF Restart, Settle
<1>2. \A d \in Character \ {c} : stack'[d] = stack[d]
  BY DEF Restart, IndInv, TypeOK
<1>3. \A g \in Gift : g \in Transfer
  BY DEF Transfer
<1>4. \A g \in Gift : Reserving(g)' => Reserving(g) /\ row'[g] = row[g] /\ ~Involves(g, c)
  BY <1>1, <1>3 DEF Reserving, Restart
<1>5. ASSUME NEW g \in Gift, Reserving(g)', NEW i \in LineItems(g) \ Unguarded
      PROVE  stack'[row[g].from][i] >= stack[row[g].from][i]
  <2>1. row[g].from \in Character /\ i \in Item /\ row[g] # NoRow
    BY <1>3, <1>4, <1>5, RowOfLive DEF IndInv, TypeOK, Reserving, LineItems
  <2>2. row[g].from # c
    BY <1>4, <1>5, <2>1 DEF Involves
  <2>3. stack[row[g].from][i] \in Nat
    BY <2>1 DEF IndInv, TypeOK
  <2>4. QED
    BY <1>2, <2>1, <2>2, <2>3
<1>6. QED
  BY <1>4, <1>5, BackedFrame DEF IndInv

LEMMA NextBacked == IndInv /\ OfferBacked /\ [Next]_vars => (IndInv /\ OfferBacked)'
<1> SUFFICES ASSUME IndInv, OfferBacked, [Next]_vars PROVE (IndInv /\ OfferBacked)'
  OBVIOUS
<1>1. IndInv'
  BY NextInv
<1>2. CASE GiftStep
  BY <1>1, <1>2, GiftBacked
<1>3. CASE ParcelStep
  BY <1>1, <1>3, ParcelBacked
<1>4. CASE OtherFeatureStep
  BY <1>1, <1>4, OtherBacked
<1>5. CASE LifeStep
  <2>1. CASE \E c \in Character : CreateCharacter(c)
    BY <1>1, <2>1, StillBacked DEF CreateCharacter
  <2>2. QED
    BY <1>1, <1>5, <2>1, RemortBacked, RestartBacked DEF LifeStep
<1>6. CASE \E t \in Transfer : PassDeadline(t)
  <2>1. UNCHANGED <<stack, row, status>> /\ due \subseteq due'
    BY <1>6 DEF PassDeadline, goods
  <2>2. QED
    BY <1>1, <2>1, StillBacked
<1>7. CASE UNCHANGED vars
  BY <1>1, <1>7, StillBacked DEF vars
<1>8. QED
  BY <1>1, <1>2, <1>3, <1>4, <1>5, <1>6, <1>7 DEF Next

\* A live offer has its unit behind it until it is answered, whatever other
\* offers, parcels, holds, remorts and restarts do to the same stacks.
THEOREM Backed == Spec => []OfferBacked
<1>1. Init => IndInv /\ OfferBacked
  <2>1. Init => OfferBacked
    BY DEF Init, OfferBacked, Reserving, Transfer
  <2>2. QED
    BY <2>1, InitInv
<1>2. IndInv /\ OfferBacked => OfferBacked
  OBVIOUS
<1>3. QED
  BY <1>1, <1>2, NextBacked, PTL DEF Spec

-----------------------------------------------------------------------------
(* Postage *)

\* The parcels that leave c's stacks in this step, and what that costs c.
SentBy(c) == {p \in Parcel : row[p] # NoRow /\ row[p].from = c
                              /\ journal'[p].out > journal[p].out}
Charged(c) == gold'[c] = IF SentBy(c) = {} THEN gold[c]
                         ELSE gold[c] - DeliveryFee(CHOOSE p \in SentBy(c) : TRUE)

PostagePaid == supply' = supply => \A c \in alive \cap alive' : life'[c] = life[c] => Charged(c)

\* The outs of parcels that a return leaves alone.
LEMMA ReturnSendsNothing ==
  ASSUME TypeOK, NEW P
  PROVE  \A t \in Transfer : NoteReturn(P)[t].out = journal[t].out
BY DEF NoteReturn, MovedBack

\* Where no parcel leaves, a purse that is untouched is in order.
LEMMA NothingSent ==
  ASSUME TypeOK, \A p \in Parcel : journal'[p].out = journal[p].out,
         NEW c, gold'[c] = gold[c]
  PROVE  Charged(c)
<1>1. \A p \in Parcel : journal[p].out \in Nat
  BY DEF TypeOK, Transfer
<1>2. \A p \in Parcel : ~(journal'[p].out > journal[p].out)
  BY <1>1
<1>3. SentBy(c) = {}
  BY <1>2 DEF SentBy
<1>4. QED
  BY <1>3 DEF Charged

\* A handed-in parcel is paid for by its sender and by nobody else.
LEMMA ConfirmPostage ==
  ASSUME IndInv, NEW p \in Parcel, ConfirmParcel(p)
  PROVE  PostagePaid
<1> DEFINE s == row[p].from
           swept == ForgottenParcels(s)
<1>0. /\ TypeOK /\ p \in Transfer /\ status[p] = "draft" /\ p \notin due /\ row[p] # NoRow
      /\ s \in Character
  BY RowOfLive DEF IndInv, ConfirmParcel, CanConfirm, Transfer, TypeOK
<1>1. p \notin swept
  BY <1>0 DEF ForgottenParcels
<1>2. journal' = [NoteReturn(swept) EXCEPT ![p] = MovedOut(NoteReturn(swept)[p])]
  BY DEF ConfirmParcel
<1>3. NoteReturn(swept)[p] = journal[p] /\ NoteReturn(swept) \in [Transfer -> Moves]
  BY <1>0, <1>1, NoteReturnType DEF NoteReturn
<1>4. journal'[p].out = journal[p].out + 1
  BY <1>0, <1>2, <1>3 DEF MovedOut
<1>5. \A x \in Parcel \ {p} : journal'[x].out = journal[x].out
  BY <1>0, <1>2, <1>3, ReturnSendsNothing DEF Transfer
<1>6. \A x \in Parcel : journal[x].out \in Nat
  BY <1>0 DEF TypeOK, Transfer
<1>7. \A x \in Parcel : journal'[x].out > journal[x].out <=> x = p
  BY <1>4, <1>5, <1>6
<1>8. gold' = [gold EXCEPT ![s] = gold[s] - DeliveryFee(p)] /\ gold \in [Character -> Nat]
  BY <1>0 DEF ConfirmParcel, TypeOK
<1>9. SUFFICES ASSUME NEW c \in Character PROVE Charged(c)
  BY <1>0 DEF PostagePaid, TypeOK
<1>10. CASE c = s
  <2>1. SentBy(c) = {p}
    BY <1>0, <1>7, <1>10 DEF SentBy
  <2>2. (CHOOSE x \in SentBy(c) : TRUE) = p
    BY <2>1
  <2>3. SentBy(c) # {}
    BY <2>1
  <2>4. gold'[c] = gold[c] - DeliveryFee(p)
    BY <1>0, <1>8, <1>10
  <2>5. QED
    BY <2>2, <2>3, <2>4 DEF Charged
<1>11. CASE c # s
  <2>1. SentBy(c) = {}
    BY <1>7, <1>11 DEF SentBy
  <2>2. gold'[c] = gold[c]
    BY <1>0, <1>8, <1>11
  <2>3. QED
    BY <2>1, <2>2 DEF Charged
<1>12. QED
  BY <1>10, <1>11

\* An attempt always burns Iskrokamin: it is a step that eats units.
LEMMA AttemptEatsUnits ==
  ASSUME TypeOK, NEW c \in Character, NEW i \in Item, NEW j \in Item,
         NEW donors \in SUBSET Donors, NEW success \in BOOLEAN, NEW fee \in UpgradeFees,
         UpgradeAttempt(c, i, j, donors, success, fee)
  PROVE  supply' # supply
<1>1. <<i, j>> \in Upgrade
  BY DEF UpgradeAttempt
<1>2. i \in Donors /\ j \in Gear /\ Spark \in Loose \ Gear
  <2>1. <<i, j>>[1] \in Donors /\ <<i, j>>[2] \in Gear
    BY <1>1, UpgradeAssumption
  <2>2. QED
    BY <1>1, <2>1, UpgradeAssumption
<1>3. Spark \in Item /\ Spark # i /\ Spark # j
  BY <1>2, SetsAssumption
<1>4. supply'[Spark] = supply[Spark] - 1 - 0 + 0
  <2>1. supply' = AfterAttempt(supply, i, j, donors \cup {Spark}, success)
    BY DEF UpgradeAttempt
  <2>2. QED
    BY <1>3, <2>1 DEF AfterAttempt
<1>5. supply[Spark] \in Int
  BY <1>3 DEF TypeOK
<1>6. QED
  BY <1>4, <1>5

LEMMA PostageStep == IndInv /\ [Next]_vars => PostagePaid
<1> SUFFICES ASSUME IndInv, [Next]_vars PROVE PostagePaid
  OBVIOUS
<1>0. TypeOK /\ Parcel \in SUBSET Transfer /\ Gift \cap Parcel = {}
  BY SetsAssumption DEF IndInv, Transfer
<1>1. ASSUME UNCHANGED gold, \A p \in Parcel : journal'[p].out = journal[p].out
      PROVE  PostagePaid
  BY <1>0, <1>1, NothingSent DEF PostagePaid
<1>2. ASSUME UNCHANGED <<gold, journal>> PROVE PostagePaid
  BY <1>1, <1>2
<1>3. CASE GiftStep
  <2>1. CASE \E g \in Gift : AcceptGift(g)
    <3>1. PICK g \in Gift : AcceptGift(g)
      BY <2>1
    <3>2. gold' = gold /\ \A p \in Parcel : journal'[p] = journal[p]
      BY <1>0, <3>1 DEF AcceptGift, TypeOK
    <3>3. QED
      BY <1>1, <3>2
  <2>2. CASE ~\E g \in Gift : AcceptGift(g)
    <3>1. UNCHANGED <<gold, journal>>
      BY <1>3, <2>2 DEF GiftStep, CreateGift, CreateGiftStale, LateGiftAnswer, RefuseGift, goods
    <3>2. QED
      BY <1>2, <3>1
  <2>3. QED
    BY <2>1, <2>2
<1>4. CASE ParcelStep
  <2>1. CASE \E p \in Parcel : ConfirmParcel(p)
    BY <2>1, ConfirmPostage
  <2>2. CASE \/ \E p \in Parcel, s, r \in Character : DraftParcel(p, s, r)
             \/ \E p \in Parcel, lines \in Contents : EditParcel(p, lines)
    <3>1. UNCHANGED <<gold, journal>>
      BY <2>2 DEF DraftParcel, EditParcel, goods
    <3>2. QED
      BY <1>2, <3>1
  <2>3. CASE \E p \in Parcel : AcceptParcel(p)
    <3>1. PICK p \in Parcel : AcceptParcel(p)
      BY <2>3
    <3>2. gold' = gold /\ journal' = [journal EXCEPT ![p] = MovedIn(journal[p])]
      BY <3>1 DEF AcceptParcel
    <3>3. \A x \in Parcel : journal'[x].out = journal[x].out
      BY <1>0, <3>2 DEF MovedIn, TypeOK
    <3>4. QED
      BY <1>1, <3>2, <3>3
  <2>4. CASE \E p \in Parcel : \/ ConfirmParcelFails(p) \/ DeclineParcel(p)
                               \/ LateParcelAnswer(p) \/ CancelParcel(p)
    <3>1. gold' = gold /\ \E P : journal' = NoteReturn(P)
      BY <2>4 DEF ConfirmParcelFails, DeclineParcel, LateParcelAnswer, CancelParcel, CloseParcel
    <3>2. \A p \in Parcel : journal'[p].out = journal[p].out
      BY <1>0, <3>1, ReturnSendsNothing
    <3>3. QED
      BY <1>1, <3>1, <3>2
  <2>5. QED
    BY <1>4, <2>1, <2>2, <2>3, <2>4 DEF ParcelStep
<1>5. CASE OtherFeatureStep
  <2>1. CASE \E c \in Character, i, j \in Item, donors \in SUBSET Donors,
                success \in BOOLEAN, fee \in UpgradeFees :
               UpgradeAttempt(c, i, j, donors, success, fee)
    <3>1. supply' # supply
      BY <1>0, <2>1, AttemptEatsUnits
    <3>2. QED
      BY <3>1 DEF PostagePaid
  <2>2. CASE ~\E c \in Character, i, j \in Item, donors \in SUBSET Donors,
                success \in BOOLEAN, fee \in UpgradeFees :
               UpgradeAttempt(c, i, j, donors, success, fee)
    <3>1. UNCHANGED <<gold, journal>>
      BY <1>5, <2>2 DEF OtherFeatureStep, Gain, SpendUnreserved, Hold, Release, Equip, Unequip,
         SpendHeld, EnterCombat, LeaveCombat, Travel, goods
    <3>2. QED
      BY <1>2, <3>1
  <2>3. QED
    BY <2>1, <2>2
<1>6. CASE LifeStep
  <2>1. CASE \E c \in Character, kept \in SUBSET Item : Remort(c, kept)
    <3>1. PICK c \in Character, kept \in SUBSET Item : Remort(c, kept)
      BY <2>1
    <3>2. gold' = [gold EXCEPT ![c] = 0] /\ life' = [life EXCEPT ![c] = life[c] + 1]
          /\ \E P : journal' = NoteReturn(P)
      BY <3>1 DEF Remort
    <3>3. \A p \in Parcel : journal'[p].out = journal[p].out
      BY <1>0, <3>2, ReturnSendsNothing
    <3>4. life[c] \in Nat /\ life'[c] = life[c] + 1
      BY <1>0, <3>2 DEF TypeOK
    <3>5. ASSUME NEW d \in Character, life'[d] = life[d] PROVE Charged(d)
      <4>1. d # c
        BY <3>4, <3>5
      <4>2. gold'[d] = gold[d]
        BY <1>0, <3>2, <4>1 DEF TypeOK
      <4>3. QED
        BY <1>0, <3>3, <4>2, NothingSent
    <3>6. QED
      BY <1>0, <3>5 DEF PostagePaid, TypeOK
  <2>2. CASE \E c \in Character : Restart(c) \/ CreateCharacter(c)
    <3>1. PICK c \in Character : Restart(c) \/ CreateCharacter(c)
      BY <2>2
    <3>2. c \notin alive \cap alive' /\ journal' = journal
          /\ \A d \in Character \ {c} : gold'[d] = gold[d]
      BY <1>0, <3>1 DEF Restart, CreateCharacter, TypeOK
    <3>3. ASSUME NEW d \in alive \cap alive' PROVE Charged(d)
      <4>1. d \in Character \ {c}
        BY <1>0, <3>2 DEF TypeOK
      <4>2. gold'[d] = gold[d] /\ \A p \in Parcel : journal'[p].out = journal[p].out
        BY <3>2, <4>1
      <4>3. QED
        BY <1>0, <4>2, NothingSent
    <3>4. QED
      BY <3>3 DEF PostagePaid
  <2>3. QED
    BY <1>6, <2>1, <2>2 DEF LifeStep
<1>7. CASE \E t \in Transfer : PassDeadline(t)
  BY <1>2, <1>7 DEF PassDeadline, goods
<1>8. CASE UNCHANGED vars
  BY <1>2, <1>8 DEF vars
<1>9. QED
  BY <1>3, <1>4, <1>5, <1>6, <1>7, <1>8 DEF Next

\* Postage leaves a purse exactly when a parcel leaves its owner's stacks, and
\* no retry, refusal, return or delivery takes or gives any.
THEOREM Postage == Spec => PostagePaidOnce
<1>1. IndInv /\ [Next]_vars => PostagePaid
  BY PostageStep
<1>2. QED
  BY <1>1, Invariance, PTL DEF Spec, PostagePaidOnce, PostagePaid, Charged, SentBy
=============================================================================
