-------------------------- MODULE SoloCombatProofs --------------------------
(***************************************************************************)
(* What holds of fights for every number of sessions, time-out jobs,       *)
(* turns and lives: the types, the lease of the character, and that the    *)
(* settlement of a fight is whole and of the life that fought it.          *)
(***************************************************************************)
EXTENDS SoloCombat, TLAPS

-----------------------------------------------------------------------------
(* The inductive invariant *)

(* A fight that goes on has no trace of a settlement.                      *)
Fresh(r) ==
  /\ r.status = "active" /\ r.settle = "pending" /\ r.version = 1
  /\ ~r.applied /\ ~r.rested /\ ~r.reward
  /\ r.turn \in 1 .. MaxTurn

(* What a row says of itself is what happened.                             *)
RowOK(s) ==
  IF row[s] = None THEN paidIn[s] = {} /\ healedIn[s] = {}
  ELSE /\ Ended(row[s]) \/ Fresh(row[s])
       /\ row[s].applied => healedIn[s] # {}
       /\ row[s].reward => s \in claimed

(* What a worker knows of a fight that is in the table `rows': its life,   *)
(* that it was fresh before a turn and is over before the settlement, that *)
(* a reward it is going to note is `booked', and that resources which a    *)
(* state to be written back names are `healed'.                            *)
Unsettled(r) == Ended(r) /\ ~Settled(r)

FlowSteps == {"read", "pay", "rest", "finish", "forfeit"}
FlowJobs == [at : FlowSteps, s : Session, seen : Row, again : BOOLEAN,
             final : BOOLEAN, pay : BOOLEAN]

Knows(j, rows, booked, healed) ==
  j.at \notin {"idle", "start"} =>
    /\ rows[j.s] # None
    /\ j.seen.life = rows[j.s].life
    /\ IF j.at = "turn" THEN Fresh(j.seen)
       ELSE IF j.at = "look"
       THEN Fresh(j.seen) \/ (Unsettled(j.seen) /\ Ended(rows[j.s])
                               /\ (j.seen.applied => healed[j.s] # {}))
       ELSE /\ Ended(j.seen) /\ Ended(rows[j.s])
            /\ j.pay => j.s \in booked

RowsOK == \A s \in Session : RowOK(s)
JobsOK == \A w \in Worker : Knows(job[w], row, claimed, healedIn)

IndInv ==
  /\ TypeOK /\ RowsOK /\ JobsOK
  /\ LeaseIsOwned /\ NothingForALaterLife /\ CompletedIsWhole
  /\ PendingKeepsLease

-----------------------------------------------------------------------------
(* Rows and jobs *)

(* The functions of the domain make rows of rows.                          *)
LEMMA RowFunctions ==
  ASSUME NEW r \in Row
  PROVE  /\ Expire(r) \in Row /\ Ended(Expire(r))
         /\ Expire(r).life = r.life /\ Expire(r).settle = r.settle
         /\ Expire(r).applied = r.applied /\ Expire(r).reward = r.reward
         /\ Apply(r) \in Row /\ Rested(r) \in Row /\ Forfeit(r) \in Row
         /\ \A pay \in BOOLEAN : Complete(r, pay) \in Row
<1>1. /\ Expire(r) \in Row /\ Ended(Expire(r))
      /\ Expire(r).life = r.life /\ Expire(r).settle = r.settle
      /\ Expire(r).applied = r.applied /\ Expire(r).reward = r.reward
  BY DEF Row, Expire, Ended, Outcomes
<1>2. r.version + 1 \in Nat
  BY DEF Row
<1>3. \A v \in Nat : /\ [r EXCEPT !.applied = TRUE, !.version = v] \in Row
                     /\ [r EXCEPT !.rested = TRUE, !.version = v] \in Row
                     /\ [r EXCEPT !.settle = "forfeited", !.version = v] \in Row
  BY DEF Row
<1>4. \A v \in Nat, b \in BOOLEAN :
        [r EXCEPT !.settle = "completed", !.version = v, !.reward = b] \in Row
  BY DEF Row
<1>5. \A pay \in BOOLEAN : (r.reward \/ pay) \in BOOLEAN
  OBVIOUS
<1>6. QED
  BY <1>1, <1>2, <1>3, <1>4, <1>5 DEF Apply, Rested, Forfeit, Complete

LEMMA IdleKnows ==
  ASSUME NEW rows, NEW booked, NEW healed
  PROVE  Idle \in Jobs /\ Knows(Idle, rows, booked, healed)
BY DEF Idle, Jobs, Knows

(* A job of the settlement is of that kind of job.                         *)
LEMMA FlowJob ==
  ASSUME NEW j \in Jobs
  PROVE  /\ j.at \in FlowSteps => j \in FlowJobs
         /\ j.at = "heal" => /\ j.s \in Session /\ j.seen \in Row /\ j.hp \in Health
                             /\ j.again \in BOOLEAN /\ j.final \in BOOLEAN /\ j.pay \in BOOLEAN
         /\ j.at \in {"look", "turn"} => j.s \in Session /\ j.seen \in Row
         /\ j.at = "start" => j.s \in Session /\ j.life \in Lives
BY SMTT(30) DEF Jobs, FlowJobs, FlowSteps, Idle

LEMMA FlowJobIsJob ==
  ASSUME NEW j \in FlowJobs
  PROVE  j \in Jobs
BY DEF Jobs, FlowJobs, FlowSteps

LEMMA FlowKnows ==
  ASSUME NEW rows, NEW booked, NEW healed, NEW s \in Session, NEW r \in Row,
         NEW at \in FlowSteps, NEW final \in BOOLEAN, NEW pay \in BOOLEAN,
         rows[s] # None, rows[s].life = r.life, Ended(r), Ended(rows[s]),
         pay => s \in booked
  PROVE  Flow(at, s, r, final, pay) \in FlowJobs /\ Knows(Flow(at, s, r, final, pay), rows, booked, healed)
BY DEF Flow, FlowJobs, FlowSteps, Knows

LEMMA WithResourcesKnows ==
  ASSUME NEW rows, NEW booked, NEW healed, NEW s \in Session, NEW r \in Row,
         NEW final \in BOOLEAN,
         rows[s] # None, rows[s].life = r.life, Ended(r), Ended(rows[s])
  PROVE  /\ WithResources(s, r, final) \in FlowJobs \cup {Idle}
         /\ Knows(WithResources(s, r, final), rows, booked, healed)
<1>1. \A at \in FlowSteps, f \in BOOLEAN :
        Flow(at, s, r, f, FALSE) \in FlowJobs /\ Knows(Flow(at, s, r, f, FALSE), rows, booked, healed)
  BY FlowKnows
<1>2. {"read", "finish", "pay"} \subseteq FlowSteps
  BY DEF FlowSteps
<1>3. QED
  BY <1>1, <1>2, IdleKnows DEF WithResources

LEMMA RecoveryKnows ==
  ASSUME NEW rows, NEW booked, NEW healed, NEW s \in Session, NEW r \in Row,
         rows[s] # None, rows[s].life = r.life, Ended(r), Ended(rows[s])
  PROVE  /\ Recovery(s, r) \in FlowJobs \cup {Idle}
         /\ Knows(Recovery(s, r), rows, booked, healed)
<1>1. /\ Flow("finish", s, r, TRUE, FALSE) \in FlowJobs
      /\ Knows(Flow("finish", s, r, TRUE, FALSE), rows, booked, healed)
  BY FlowKnows DEF FlowSteps
<1>2. (r.status \notin Rewarded) \in BOOLEAN
  OBVIOUS
<1>3. QED
  BY <1>1, <1>2, WithResourcesKnows DEF Recovery

(* A second try after a version conflict.                                  *)
LEMMA RetryKnows ==
  ASSUME NEW rows, NEW booked, NEW healed, NEW j, NEW k \in FlowJobs \cup {Idle},
         Knows(k, rows, booked, healed)
  PROVE  Retry(j, k) \in FlowJobs \cup {Idle} /\ Knows(Retry(j, k), rows, booked, healed)
<1>1. CASE j.again /\ k # Idle
  <2>1. k \in FlowJobs
    BY <1>1
  <2>2. /\ [k EXCEPT !.again = FALSE] \in FlowJobs
        /\ Knows([k EXCEPT !.again = FALSE], rows, booked, healed)
    BY <2>1 DEF FlowJobs, Knows, FlowSteps
  <2>3. QED
    BY <1>1, <2>2 DEF Retry
<1>2. CASE ~(j.again /\ k # Idle)
  BY <1>2, IdleKnows DEF Retry
<1>3. QED
  BY <1>1, <1>2

-----------------------------------------------------------------------------
(* What steps have in common *)

(* Fights only go on, and jobs keep what they knew.                        *)
LEMMA JobsStay ==
  ASSUME IndInv, job' \in [Worker -> Jobs], claimed \subseteq claimed',
         \A s \in Session : healedIn[s] # {} => healedIn'[s] # {},
         \A s \in Session : row[s] # None =>
            /\ row'[s] # None /\ row'[s].life = row[s].life
            /\ Ended(row[s]) => Ended(row'[s]),
         \A v \in Worker : job'[v] = job[v] \/ Knows(job'[v], row', claimed', healedIn')
  PROVE  JobsOK'
<1>1. SUFFICES ASSUME NEW v \in Worker, job'[v] = job[v]
               PROVE  Knows(job[v], row', claimed', healedIn')
  BY DEF JobsOK
<1>2. job[v] \in Jobs /\ Knows(job[v], row, claimed, healedIn)
  BY DEF IndInv, TypeOK, JobsOK
<1>3. job[v].at \notin {"idle", "start"} => job[v].s \in Session
  BY <1>2, FlowJob DEF FlowJobs, Jobs, Idle
<1>4. QED
  BY <1>2, <1>3 DEF Knows

(* A step that only changes what one worker knows.                         *)
LEMMA JobStep ==
  ASSUME IndInv, NEW w \in Worker, NEW j \in Jobs, Knows(j, row, claimed, healedIn),
         job' = [job EXCEPT ![w] = j],
         UNCHANGED <<row, lease, late, over, life, health, rest, books>>
  PROVE  IndInv'
<1>1. job' \in [Worker -> Jobs] /\ job'[w] = j /\ \A v \in Worker \ {w} : job'[v] = job[v]
  BY DEF IndInv, TypeOK
<1>2. JobsOK'
  BY <1>1, JobsStay DEF books
<1>3. QED
  BY <1>1, <1>2 DEF IndInv, TypeOK, RowsOK, RowOK, LeaseIsOwned, NothingForALaterLife,
     CompletedIsWhole, PendingKeepsLease, Started, books

(* A step that writes one row, whose lease goes when the row is settled.   *)
LEMMA SaveStep ==
  ASSUME IndInv, NEW s \in Session, NEW r \in Row, row[s] # None,
         row' = [row EXCEPT ![s] = r],
         r.life = row[s].life,
         Ended(row[s]) => Ended(r),
         Ended(r) \/ (Fresh(r) /\ lease = s),
         r.applied => healedIn'[s] # {},
         r.reward => s \in claimed,
         Ended(r) /\ ~Settled(r) /\ s \notin undone' => lease = s,
         r.settle = "completed" =>
           /\ healedIn[s] # {}
           /\ r.status \in Rewarded => r.reward /\ (s \in Training => r.rested),
         lease' = IF Settled(r) /\ lease = s THEN None ELSE lease,
         undone \subseteq undone' /\ undone' \subseteq Started,
         claimed' = claimed /\ paidIn' = paidIn,
         healedIn' = healedIn \/ healedIn' = [healedIn EXCEPT ![s] = healedIn[s] \cup {r.life}],
         late' \subseteq Started /\ over' \subseteq Started,
         life' \in Lives /\ health' \in Health,
         rest' \in Started \cup {None},
         job' \in [Worker -> Jobs],
         \A v \in Worker : job'[v] = job[v] \/ Knows(job'[v], row', claimed, healedIn')
  PROVE  IndInv'
<1>1. /\ row'[s] = r /\ \A t \in Session \ {s} : row'[t] = row[t]
      /\ row' \in [Session -> Row \cup {None}]
  BY DEF IndInv, TypeOK
<1>2. r # None /\ None \notin Session /\ Other \notin Session
  BY SoloAssumption
<1>3. Started' = Started
  BY <1>1, <1>2 DEF Started
<1>4. /\ healedIn' \in [Session -> SUBSET Lives]
      /\ \A t \in Session : healedIn[t] \subseteq healedIn'[t]
      /\ \A t \in Session \ {s} : healedIn'[t] = healedIn[t]
      /\ healedIn'[s] \subseteq healedIn[s] \cup {r.life}
  <2>1. healedIn \in [Session -> SUBSET Lives] /\ r.life \in Lives
    BY DEF IndInv, TypeOK, Row
  <2>2. QED
    BY <2>1
<1>5. JobsOK'
  BY <1>1, <1>2, <1>4, JobsStay
<1>6. TypeOK'
  BY <1>1, <1>3, <1>4 DEF IndInv, TypeOK
<1>7. RowsOK'
  <2>1. SUFFICES ASSUME NEW t \in Session PROVE RowOK(t)'
    BY DEF RowsOK
  <2>2. RowOK(t)
    BY DEF IndInv, RowsOK
  <2>3. CASE t = s
    BY <1>1, <1>2, <2>3 DEF RowOK
  <2>4. CASE t # s
    BY <1>1, <1>4, <2>2, <2>4 DEF RowOK
  <2>5. QED
    BY <2>3, <2>4
<1>8. LeaseIsOwned'
  BY <1>1, <1>2, <1>3 DEF IndInv, LeaseIsOwned, Started, Fresh, Ended, Settled
<1>9. NothingForALaterLife'
  BY <1>1, <1>3, <1>4 DEF IndInv, NothingForALaterLife, Started
<1>10. CompletedIsWhole'
  <2>1. SUFFICES ASSUME NEW t \in Started, row'[t].settle = "completed"
                 PROVE  /\ healedIn'[t] # {}
                        /\ row'[t].status \in Rewarded =>
                             t \in claimed /\ row'[t].reward /\ (t \in Training => row'[t].rested)
    BY <1>3 DEF CompletedIsWhole
  <2>2. t \in Session
    BY DEF Started
  <2>3. CASE t = s
    BY <1>1, <1>4, <2>1, <2>3
  <2>4. CASE t # s
    BY <1>1, <1>4, <2>1, <2>2, <2>4 DEF IndInv, CompletedIsWhole
  <2>5. QED
    BY <2>3, <2>4
<1>11. PendingKeepsLease'
  <2>1. SUFFICES ASSUME NEW t \in Started, t \notin undone', Ended(row'[t]), ~Settled(row'[t])
                 PROVE  lease' = t
    BY <1>3 DEF PendingKeepsLease
  <2>2. t \in Session
    BY DEF Started
  <2>3. CASE t = s
    BY <1>1, <2>1, <2>3
  <2>4. CASE t # s
    BY <1>1, <2>1, <2>2, <2>4 DEF IndInv, PendingKeepsLease
  <2>5. QED
    BY <2>3, <2>4
<1>12. QED
  BY <1>5, <1>6, <1>7, <1>8, <1>9, <1>10, <1>11 DEF IndInv

-----------------------------------------------------------------------------
(* What the invariant says of one row and of one worker *)

LEMMA RowFacts ==
  ASSUME IndInv, NEW s \in Session, row[s] # None
  PROVE  /\ row[s] \in Row /\ s \in Started
         /\ Ended(row[s]) \/ (Fresh(row[s]) /\ lease = s)
         /\ row[s].applied => healedIn[s] # {}
         /\ row[s].reward => s \in claimed
         /\ Settled(row[s]) => Ended(row[s]) /\ lease # s
         /\ row[s].applied => Ended(row[s])
         /\ Ended(row[s]) /\ ~Settled(row[s]) /\ s \notin undone => lease = s
<1>1. s \in Started /\ row[s] \in Row
  BY DEF IndInv, TypeOK, Started
<1>2. RowOK(s)
  BY DEF IndInv, RowsOK
<1>3. /\ ~Ended(row[s]) => lease = s
      /\ lease = s => ~Settled(row[s])
      /\ Ended(row[s]) /\ ~Settled(row[s]) /\ s \notin undone => lease = s
  BY <1>1 DEF IndInv, LeaseIsOwned, PendingKeepsLease
<1>4. Fresh(row[s]) => ~Settled(row[s]) /\ ~row[s].applied
  BY DEF Fresh, Settled
<1>5. QED
  BY <1>1, <1>2, <1>3, <1>4 DEF RowOK

LEMMA TurnFacts ==
  ASSUME IndInv, NEW w \in Worker, job[w].at \in {"look", "turn"}
  PROVE  /\ job[w].s \in Session /\ job[w].seen \in Row
         /\ row[job[w].s] # None
         /\ job[w].seen.life = row[job[w].s].life
         /\ job[w].at = "turn" => Fresh(job[w].seen)
         /\ \/ Fresh(job[w].seen)
            \/ /\ Unsettled(job[w].seen) /\ Ended(row[job[w].s])
               /\ job[w].seen.applied => healedIn[job[w].s] # {}
<1>1. job[w] \in Jobs /\ Knows(job[w], row, claimed, healedIn)
  BY DEF IndInv, TypeOK, JobsOK
<1>2. QED
  BY <1>1, FlowJob DEF Knows

LEMMA FlowFacts ==
  ASSUME IndInv, NEW w \in Worker, job[w].at \in FlowSteps \cup {"heal"}
  PROVE  /\ job[w].s \in Session /\ job[w].seen \in Row
         /\ job[w].final \in BOOLEAN /\ job[w].pay \in BOOLEAN
         /\ row[job[w].s] # None /\ row[job[w].s] \in Row
         /\ Ended(job[w].seen) /\ Ended(row[job[w].s])
         /\ job[w].seen.life = row[job[w].s].life
         /\ job[w].pay => job[w].s \in claimed
<1>1. job[w] \in Jobs /\ Knows(job[w], row, claimed, healedIn)
  BY DEF IndInv, TypeOK, JobsOK
<1>2. job[w].s \in Session /\ job[w].seen \in Row
      /\ job[w].final \in BOOLEAN /\ job[w].pay \in BOOLEAN
  BY <1>1, FlowJob DEF FlowJobs
<1>3. QED
  BY <1>1, <1>2, RowFacts DEF Knows, FlowSteps

(* A worker that has gone on to another job.                               *)
LEMMA GoFacts ==
  ASSUME IndInv, NEW w \in Worker, NEW j \in Jobs, Go(w, j)
  PROVE  /\ job' \in [Worker -> Jobs] /\ job'[w] = j
         /\ \A v \in Worker \ {w} : job'[v] = job[v]
BY DEF IndInv, TypeOK, Go

-----------------------------------------------------------------------------
(* The steps *)

LEMMA InitInv == Init => IndInv
<1> SUFFICES ASSUME Init PROVE IndInv
  OBVIOUS
<1>1. Started = {} /\ 0 \in Lives
  BY SoloAssumption DEF Init, Started, Lives
<1>2. TypeOK
  BY <1>1, IdleKnows DEF Init, TypeOK
<1>3. RowsOK /\ LeaseIsOwned /\ NothingForALaterLife /\ CompletedIsWhole /\ PendingKeepsLease
  BY <1>1, SoloAssumption DEF Init, RowsOK, RowOK, LeaseIsOwned, NothingForALaterLife,
     CompletedIsWhole, PendingKeepsLease
<1>4. JobsOK
  BY IdleKnows DEF Init, JobsOK
<1>5. QED
  BY <1>2, <1>3, <1>4 DEF IndInv

LEMMA ApproachInv ==
  ASSUME IndInv, NEW w \in Chat, NEW s \in Session, Approach(w, s)
  PROVE  IndInv'
<1>1. [at |-> "start", s |-> s, life |-> life] \in Jobs
  BY DEF Jobs, IndInv, TypeOK
<1>2. Knows([at |-> "start", s |-> s, life |-> life], row, claimed, healedIn)
  BY DEF Knows
<1>3. QED
  BY <1>1, <1>2, JobStep DEF Approach, Go, Worker

LEMMA StartInv ==
  ASSUME IndInv, NEW w \in Worker, Start(w)
  PROVE  IndInv'
<1> DEFINE s == job[w].s
           r == NewRow(job[w].life)
<1>1. s \in Session /\ job[w].life \in Lives
  <2>1. job[w] \in Jobs /\ job[w].at = "start"
    BY DEF IndInv, TypeOK, Start
  <2>2. QED
    BY <2>1, FlowJob
<1>2. CASE ~(lease = None /\ row[s] = None)
  BY <1>2, IdleKnows, JobStep DEF Start, Go
<1>3. CASE lease = None /\ row[s] = None
  <2>1. r \in Row /\ Fresh(r) /\ ~Ended(r) /\ ~Settled(r) /\ r # None
    <3>1. r \in Row
      BY <1>1, SoloAssumption DEF NewRow, Row
    <3>2. Fresh(r)
      BY SoloAssumption DEF NewRow, Fresh
    <3>3. QED
      BY <3>1, <3>2, SoloAssumption DEF Fresh, Ended, Settled
  <2>2. /\ row' = [row EXCEPT ![s] = r] /\ lease' = s
        /\ UNCHANGED <<late, over, life, health, rest, claimed, paidIn, healedIn, undone>>
    BY <1>3 DEF Start, Save, books
  <2>3. /\ row'[s] = r /\ \A t \in Session \ {s} : row'[t] = row[t]
        /\ row' \in [Session -> Row \cup {None}]
    BY <1>1, <2>1, <2>2 DEF IndInv, TypeOK
  <2>4. Started' = Started \cup {s} /\ s \notin Started
    BY <1>1, <1>3, <2>1, <2>3 DEF Started
  <2>5. /\ job' \in [Worker -> Jobs] /\ job'[w] = Idle
        /\ \A v \in Worker \ {w} : job'[v] = job[v]
    BY IdleKnows, GoFacts DEF Start
  <2>6. JobsOK'
    BY <1>1, <1>3, <2>2, <2>3, <2>5, IdleKnows, JobsStay
  <2>7. TypeOK'
    <3>1. TypeOK
      BY DEF IndInv
    <3>2. /\ lease' \in Session \cup {None, Other}
          /\ late' \subseteq Started' /\ over' \subseteq Started'
          /\ claimed' \subseteq Started' /\ rest' \in Started' \cup {None}
          /\ undone' \subseteq Started'
      BY <1>1, <2>2, <2>4, <3>1 DEF TypeOK
    <3>3. QED
      BY <2>2, <2>3, <2>5, <3>1, <3>2 DEF TypeOK
  <2>8. paidIn[s] = {} /\ healedIn[s] = {}
    BY <1>1, <1>3 DEF IndInv, RowsOK, RowOK
  <2>9. RowsOK'
    BY <2>1, <2>2, <2>3, <2>8 DEF IndInv, RowsOK, RowOK, Fresh
  <2>10. LeaseIsOwned'
    BY <1>3, <2>1, <2>2, <2>3, <2>4, SoloAssumption DEF IndInv, LeaseIsOwned, Started
  <2>11. NothingForALaterLife'
    BY <2>2, <2>3, <2>4, <2>8 DEF IndInv, NothingForALaterLife, Started
  <2>12. CompletedIsWhole'
    BY <2>1, <2>2, <2>3, <2>4 DEF IndInv, CompletedIsWhole, Started, Fresh
  <2>13. PendingKeepsLease'
    <3>1. \A t \in Started : t \notin undone /\ Ended(row[t]) => Settled(row[t])
      BY <1>3, SoloAssumption DEF IndInv, PendingKeepsLease, Started
    <3>2. QED
      BY <3>1, <2>1, <2>2, <2>3, <2>4 DEF PendingKeepsLease, Started
  <2>14. QED
    BY <2>6, <2>7, <2>9, <2>10, <2>11, <2>12, <2>13 DEF IndInv
<1>4. QED
  BY <1>2, <1>3

(* A button or a time-out job that looks at a fight.                       *)
LEMMA LookKnows ==
  ASSUME IndInv, NEW s \in Started, NEW at \in {"look", "turn"}, ~Ended(row[s])
  PROVE  /\ [at |-> at, s |-> s, seen |-> row[s]] \in Jobs
         /\ Knows([at |-> at, s |-> s, seen |-> row[s]], row, claimed, healedIn)
<1>1. s \in Session /\ row[s] \in Row /\ row[s] # None /\ Fresh(row[s])
  BY RowFacts DEF Started
<1>2. QED
  BY <1>1 DEF Jobs, Knows

LEMMA RecoveryJob ==
  ASSUME IndInv, NEW s \in Started, Ended(row[s])
  PROVE  Recovery(s, row[s]) \in Jobs /\ Knows(Recovery(s, row[s]), row, claimed, healedIn)
<1>1. s \in Session /\ row[s] \in Row /\ row[s] # None
  BY RowFacts DEF Started
<1>2. /\ Recovery(s, row[s]) \in FlowJobs \cup {Idle}
      /\ Knows(Recovery(s, row[s]), row, claimed, healedIn)
  BY <1>1, RecoveryKnows
<1>3. QED
  BY <1>2, FlowJobIsJob, IdleKnows

LEMMA OpenInv ==
  ASSUME IndInv, NEW w \in Chat, NEW s \in Session, Open(w, s)
  PROVE  IndInv'
<1>1. PICK j \in Jobs : Knows(j, row, claimed, healedIn) /\ Go(w, j)
  BY LookKnows, RecoveryJob DEF Open
<1>2. QED
  BY <1>1, JobStep DEF Open, Go, Worker

LEMMA GlanceInv ==
  ASSUME IndInv, NEW w \in Chat, Glance(w)
  PROVE  IndInv'
<1> DEFINE j == [at |-> "look", s |-> lease, seen |-> row[lease]]
<1>1. lease \in Session /\ row[lease] # None /\ ~Settled(row[lease])
  BY DEF Glance, IndInv, LeaseIsOwned, Started
<1>2. /\ row[lease] \in Row /\ (Ended(row[lease]) \/ Fresh(row[lease]))
      /\ row[lease].applied => healedIn[lease] # {}
  BY <1>1, RowFacts
<1>3. j \in Jobs /\ Knows(j, row, claimed, healedIn)
  BY <1>1, <1>2 DEF Jobs, Knows, Unsettled
<1>4. QED
  BY <1>3, JobStep DEF Glance, Go, Worker

LEMMA PickDueInv ==
  ASSUME IndInv, NEW w \in Timer, NEW s \in Session, PickDue(w, s)
  PROVE  IndInv'
BY LookKnows, JobStep DEF PickDue, Go, Worker

LEMMA LookAgainInv ==
  ASSUME IndInv, NEW w \in Worker, LookAgain(w)
  PROVE  IndInv'
<1>1. job[w].s \in Started
  BY TurnFacts DEF LookAgain, Started
<1>2. PICK j \in Jobs : Knows(j, row, claimed, healedIn) /\ Go(w, j)
  BY <1>1, LookKnows, RecoveryJob DEF LookAgain
<1>3. QED
  BY <1>2, JobStep DEF LookAgain, Go

LEMMA LoseTurnInv ==
  ASSUME IndInv, NEW w \in Worker, LoseTurn(w)
  PROVE  IndInv'
<1>1. job[w].s \in Started
  BY TurnFacts DEF LoseTurn, Started
<1>2. PICK j \in Jobs : Knows(j, row, claimed, healedIn) /\ Go(w, j)
  BY <1>1, IdleKnows, RecoveryJob DEF LoseTurn
<1>3. QED
  BY <1>2, JobStep DEF LoseTurn, Go

LEMMA CrashInv ==
  ASSUME IndInv, NEW w \in Worker, Crash(w)
  PROVE  IndInv'
BY IdleKnows, JobStep DEF Crash, Go

-----------------------------------------------------------------------------
(* Turns *)

(* The turn that was read is written over a fight that still goes on.      *)
LEMMA CommitInv ==
  ASSUME IndInv, NEW w \in Worker, job[w].at = "turn", NEW r \in Row,
         Commit(w, r),
         r.life = job[w].seen.life, ~Settled(r), ~r.applied, ~r.reward,
         Ended(r) \/ Fresh(r),
         late' \subseteq Started, over' \subseteq Started,
         UNCHANGED <<lease, life, health, rest, books>>
  PROVE  IndInv'
<1> DEFINE s == job[w].s
<1>1. /\ s \in Session /\ row[s] # None /\ row[s].life = r.life
      /\ ~Ended(row[s])
      /\ row' = [row EXCEPT ![s] = r]
  BY TurnFacts DEF Commit, SameTurn, Save
<1>2. lease = s
  BY <1>1, RowFacts
<1>3. row'[s] = r
  BY <1>1 DEF IndInv, TypeOK
<1>4. PICK j \in Jobs : Knows(j, row', claimed, healedIn') /\ Go(w, j)
  <2>1. CASE Ended(r)
    <3>1. /\ Recovery(s, r) \in FlowJobs \cup {Idle}
          /\ Knows(Recovery(s, r), row', claimed, healedIn')
      BY <1>1, <1>3, <2>1, RecoveryKnows, SoloAssumption
    <3>2. QED
      BY <2>1, <3>1, FlowJobIsJob, IdleKnows DEF Commit
  <2>2. CASE ~Ended(r)
    BY <2>2, IdleKnows DEF Commit
  <2>3. QED
    BY <2>1, <2>2
<1>5. /\ job' \in [Worker -> Jobs] /\ job'[w] = j
      /\ \A v \in Worker \ {w} : job'[v] = job[v]
  BY <1>4, GoFacts
<1>6. /\ life' \in Lives /\ health' \in Health /\ rest' \in Started \cup {None}
      /\ undone' = undone /\ undone \subseteq Started
  BY DEF IndInv, TypeOK, books
<1>7. r.settle # "completed"
  BY DEF Settled
<1>8. QED
  BY <1>1, <1>2, <1>4, <1>5, <1>6, <1>7, SaveStep DEF books

LEMMA ResolveRow ==
  ASSUME NEW r \in Row, Fresh(r), NEW s, NEW outcome \in TurnOutcomes(s, r)
  PROVE  LET n == Resolve(r, outcome) IN
         /\ n \in Row /\ n.life = r.life /\ ~Settled(n) /\ ~n.applied /\ ~n.reward
         /\ Ended(n) \/ Fresh(n)
<1>1. r.turn \in 1 .. MaxTurn /\ r.turn + 1 \in 1 .. MaxTurn + 1
  BY SoloAssumption DEF Fresh
<1>2. outcome \in {"active"} \cup Outcomes
  BY DEF TurnOutcomes, Outcomes
<1>3. \A t \in 1 .. MaxTurn + 1 :
        LET n == [r EXCEPT !.status = outcome, !.turn = t] IN
        /\ n \in Row /\ n.life = r.life /\ n.settle = r.settle /\ n.status = outcome
        /\ n.turn = t /\ n.version = r.version
        /\ n.applied = r.applied /\ n.rested = r.rested /\ n.reward = r.reward
  BY <1>2 DEF Row
<1>4. outcome = "active" => r.turn + 1 \in 1 .. MaxTurn
  BY <1>1, SoloAssumption DEF TurnOutcomes
<1>5. QED
  BY <1>1, <1>3, <1>4 DEF Resolve, Fresh, Ended, Settled

LEMMA ExpireRow ==
  ASSUME NEW r \in Row, Fresh(r)
  PROVE  LET n == Expire(r) IN
         /\ n \in Row /\ n.life = r.life /\ ~Settled(n) /\ ~n.applied /\ ~n.reward
         /\ Ended(n)
BY RowFunctions DEF Fresh, Settled

LEMMA MoveInv ==
  ASSUME IndInv, NEW w \in Worker, Move(w)
  PROVE  IndInv'
<1>1. job[w].at = "turn" /\ job[w].seen \in Row /\ Fresh(job[w].seen)
  BY TurnFacts DEF Move
<1>2. PICK outcome \in TurnOutcomes(job[w].s, job[w].seen) : Commit(w, Resolve(job[w].seen, outcome))
  BY DEF Move
<1>3. late' \subseteq Started /\ over' \subseteq Started
  BY DEF Move, IndInv, TypeOK
<1>4. UNCHANGED <<lease, life, health, rest, books>>
  BY DEF Move
<1>5. QED
  BY <1>1, <1>2, <1>3, <1>4, ResolveRow, CommitInv

LEMMA MissTurnInv ==
  ASSUME IndInv, NEW w \in Worker, MissTurn(w)
  PROVE  IndInv'
<1>1. job[w].at = "turn" /\ job[w].seen \in Row /\ Fresh(job[w].seen)
  BY TurnFacts DEF MissTurn
<1>2. PICK outcome \in TurnOutcomes(job[w].s, job[w].seen) : Commit(w, Resolve(job[w].seen, outcome))
  BY DEF MissTurn
<1>3. late' \subseteq Started /\ over' \subseteq Started
  BY DEF MissTurn, IndInv, TypeOK
<1>4. UNCHANGED <<lease, life, health, rest, books>>
  BY DEF MissTurn
<1>5. QED
  BY <1>1, <1>2, <1>3, <1>4, ResolveRow, CommitInv

LEMMA ExpireTurnInv ==
  ASSUME IndInv, NEW w \in Worker, ExpireTurn(w)
  PROVE  IndInv'
<1>1. job[w].at = "turn" /\ job[w].seen \in Row /\ Fresh(job[w].seen)
  BY TurnFacts DEF ExpireTurn
<1>2. late' \subseteq Started /\ over' \subseteq Started
  BY DEF ExpireTurn, IndInv, TypeOK
<1>3. QED
  BY <1>1, <1>2, ExpireRow, CommitInv DEF ExpireTurn

(* The state that a button writes back, whatever the row holds.            *)
LEMMA WriteBackInv ==
  ASSUME IndInv, NEW w \in Worker, WriteBack(w)
  PROVE  IndInv'
<1> DEFINE s == job[w].s
           e == Expire(job[w].seen)
           r == [e EXCEPT !.reward = row[s].reward]
<1>1. /\ s \in Session /\ row[s] # None /\ s \in Started
      /\ job[w].seen \in Row /\ job[w].seen.life = row[s].life /\ row[s] \in Row
      /\ row[s].reward => s \in claimed
      /\ Fresh(job[w].seen) \/ Unsettled(job[w].seen)
      /\ job[w].seen.applied => healedIn[s] # {}
  BY TurnFacts, RowFacts DEF WriteBack, Fresh
<1>2. /\ r \in Row /\ r.life = row[s].life /\ ~Settled(r) /\ Ended(r)
      /\ r.reward = row[s].reward /\ (r.applied => healedIn[s] # {})
  <2>1. /\ e \in Row /\ Ended(e) /\ e.life = row[s].life /\ ~Settled(e)
        /\ e.applied => healedIn[s] # {}
    BY <1>1, RowFunctions DEF Fresh, Unsettled, Settled
  <2>2. row[s].reward \in BOOLEAN
    BY <1>1 DEF Row
  <2>3. QED
    BY <2>1, <2>2 DEF Row, Settled, Ended
<1>3. row' = [row EXCEPT ![s] = r] /\ row'[s] = r
  BY <1>1 DEF WriteBack, Save, IndInv, TypeOK
<1>4. PICK j \in Jobs : Knows(j, row', claimed, healedIn') /\ Go(w, j)
  <2>1. Recovery(s, r) \in FlowJobs \cup {Idle} /\ Knows(Recovery(s, r), row', claimed, healedIn')
    BY <1>1, <1>2, <1>3, RecoveryKnows, SoloAssumption
  <2>2. QED
    BY <2>1, FlowJobIsJob, IdleKnows DEF WriteBack
<1>5. /\ job' \in [Worker -> Jobs] /\ job'[w] = j
      /\ \A v \in Worker \ {w} : job'[v] = job[v]
  BY <1>4, GoFacts
<1>6. /\ late' \subseteq Started /\ over' \subseteq Started
      /\ life' \in Lives /\ health' \in Health /\ rest' \in Started \cup {None}
      /\ lease' = lease /\ claimed' = claimed /\ paidIn' = paidIn /\ healedIn' = healedIn
  BY DEF WriteBack, IndInv, TypeOK
<1>7. /\ undone \subseteq undone' /\ undone' \subseteq Started
      /\ s \notin undone' => row[s] = job[w].seen /\ s \notin undone
  BY <1>1 DEF WriteBack, IndInv, TypeOK
<1>8. s \notin undone' => lease = s
  BY <1>1, <1>7, RowFacts DEF Unsettled, Fresh, Settled
<1>9. r.settle # "completed"
  BY <1>2 DEF Settled
<1>10. QED
  BY <1>1, <1>2, <1>3, <1>4, <1>5, <1>6, <1>7, <1>8, <1>9, SaveStep

-----------------------------------------------------------------------------
(* Settlement *)

(* What the substeps of a settlement keep of a row.                        *)
LEMMA RowFields ==
  ASSUME NEW r \in Row
  PROVE  /\ \A n \in {Apply(r), Rested(r), Forfeit(r)} :
              n.life = r.life /\ n.status = r.status /\ n.reward = r.reward /\ n.turn = r.turn
         /\ Apply(r).settle = r.settle /\ Rested(r).settle = r.settle
         /\ Forfeit(r).settle = "forfeited"
         /\ Rested(r).applied = r.applied /\ Forfeit(r).applied = r.applied
         /\ Apply(r).version = r.version + 1 /\ Rested(r).version = r.version + 1
         /\ Forfeit(r).version = r.version + 1
BY DEF Row, Apply, Rested, Forfeit

LEMMA CompleteFields ==
  ASSUME NEW r \in Row, NEW pay \in BOOLEAN
  PROVE  LET n == Complete(r, pay) IN
         /\ n.life = r.life /\ n.status = r.status /\ n.turn = r.turn
         /\ n.settle = "completed" /\ n.applied = r.applied /\ n.rested = r.rested
         /\ n.reward = (r.reward \/ pay) /\ n.version = r.version + 1
BY DEF Row, Complete

LEMMA ReadHealthInv ==
  ASSUME IndInv, NEW w \in Worker, ReadHealth(w)
  PROVE  IndInv'
<1> DEFINE j == job[w]
           k == [at |-> "heal", s |-> j.s, seen |-> j.seen, again |-> j.again,
                 final |-> j.final, pay |-> j.pay, hp |-> health]
<1>1. j \in FlowJobs /\ Knows(j, row, claimed, healedIn)
  BY FlowJob DEF ReadHealth, IndInv, TypeOK, JobsOK, FlowSteps
<1>2. k \in Jobs
  BY <1>1 DEF FlowJobs, Jobs, IndInv, TypeOK
<1>3. Knows(k, row, claimed, healedIn)
  BY <1>1 DEF Knows, ReadHealth
<1>4. QED
  BY <1>2, <1>3, JobStep DEF ReadHealth, Go

(* What a settlement goes on with, read from the row or already known.     *)
LEMMA NextSteps ==
  ASSUME IndInv, NEW w \in Worker, job[w].at \in FlowSteps \cup {"heal"}
  PROVE  LET j == job[w] IN
         /\ \A at \in FlowSteps, r \in {row[j.s], j.seen}, final \in BOOLEAN, pay \in BOOLEAN :
              (pay => j.s \in claimed) =>
                /\ Flow(at, j.s, r, final, pay) \in FlowJobs
                /\ Knows(Flow(at, j.s, r, final, pay), row, claimed, healedIn)
         /\ WithResources(j.s, row[j.s], j.final) \in FlowJobs \cup {Idle}
         /\ Knows(WithResources(j.s, row[j.s], j.final), row, claimed, healedIn)
         /\ j.at \in FlowSteps => /\ [j EXCEPT !.seen = row[j.s]] \in FlowJobs
                                  /\ Knows([j EXCEPT !.seen = row[j.s]], row, claimed, healedIn)
<1> DEFINE j == job[w]
<1>1. /\ j.s \in Session /\ j.seen \in Row /\ j.final \in BOOLEAN /\ j.pay \in BOOLEAN
      /\ row[j.s] # None /\ row[j.s] \in Row /\ Ended(j.seen) /\ Ended(row[j.s])
      /\ j.seen.life = row[j.s].life /\ (j.pay => j.s \in claimed)
  BY FlowFacts
<1>2. \A at \in FlowSteps, r \in {row[j.s], j.seen}, final \in BOOLEAN, pay \in BOOLEAN :
        (pay => j.s \in claimed) =>
          /\ Flow(at, j.s, r, final, pay) \in FlowJobs
          /\ Knows(Flow(at, j.s, r, final, pay), row, claimed, healedIn)
  BY <1>1, FlowKnows
<1>3. /\ WithResources(j.s, row[j.s], j.final) \in FlowJobs \cup {Idle}
      /\ Knows(WithResources(j.s, row[j.s], j.final), row, claimed, healedIn)
  BY <1>1, WithResourcesKnows
<1>4. ASSUME j.at \in FlowSteps
      PROVE  /\ [j EXCEPT !.seen = row[j.s]] \in FlowJobs
             /\ Knows([j EXCEPT !.seen = row[j.s]], row, claimed, healedIn)
  <2>1. j \in FlowJobs
    BY <1>4, FlowJob DEF IndInv, TypeOK
  <2>2. QED
    BY <1>1, <1>4, <2>1 DEF FlowJobs, Knows, FlowSteps
<1>5. QED
  BY <1>2, <1>3, <1>4

LEMMA HealNotInv ==
  ASSUME IndInv, NEW w \in Worker, HealNot(w)
  PROVE  IndInv'
<1> DEFINE j == job[w]
<1>1. j.at \in FlowSteps \cup {"heal"} /\ "forfeit" \in FlowSteps
  BY DEF HealNot, FlowSteps
<1>2. /\ WithResources(j.s, row[j.s], j.final) \in FlowJobs \cup {Idle}
      /\ Knows(WithResources(j.s, row[j.s], j.final), row, claimed, healedIn)
  BY <1>1, NextSteps
<1>3. LET k == Retry(j, WithResources(j.s, row[j.s], j.final)) IN
      k \in FlowJobs \cup {Idle} /\ Knows(k, row, claimed, healedIn)
  BY <1>2, RetryKnows
<1>4. LET k == Flow("forfeit", j.s, row[j.s], j.final, FALSE) IN
      k \in FlowJobs /\ Knows(k, row, claimed, healedIn)
  BY <1>1, NextSteps, FlowFacts
<1>5. PICK k \in Jobs : Knows(k, row, claimed, healedIn) /\ Go(w, k)
  BY <1>2, <1>3, <1>4, FlowJobIsJob, IdleKnows DEF HealNot
<1>6. QED
  BY <1>5, JobStep DEF HealNot, Go

LEMMA HealInv ==
  ASSUME IndInv, NEW w \in Worker, Heal(w)
  PROVE  IndInv'
<1> DEFINE j == job[w]
           s == j.s
           r == Apply(row[s])
<1>1. /\ s \in Session /\ row[s] # None /\ row[s] \in Row /\ Ended(row[s])
      /\ j.final \in BOOLEAN /\ j.seen.life = row[s].life
      /\ row[s].reward => s \in claimed
  BY FlowFacts, RowFacts DEF Heal
<1>2. lease = s /\ ~Settled(row[s]) /\ life = row[s].life
  BY <1>1 DEF Heal, Substep, Expected
<1>3. /\ r \in Row /\ r.life = row[s].life /\ Ended(r) /\ ~Settled(r)
      /\ r.reward = row[s].reward
  BY <1>1, <1>2, RowFunctions, RowFields DEF Ended, Settled
<1>4. /\ row' = [row EXCEPT ![s] = r] /\ row'[s] = r
      /\ healedIn' = [healedIn EXCEPT ![s] = healedIn[s] \cup {r.life}]
      /\ healedIn'[s] # {}
  BY <1>1, <1>2, <1>3 DEF Heal, Save, IndInv, TypeOK
<1>5. PICK k \in Jobs : Knows(k, row', claimed, healedIn') /\ Go(w, k)
  <2>1. LET k == WithResources(s, r, j.final) IN
        k \in FlowJobs \cup {Idle} /\ Knows(k, row', claimed, healedIn')
    BY <1>1, <1>3, <1>4, WithResourcesKnows, SoloAssumption
  <2>2. QED
    BY <2>1, FlowJobIsJob, IdleKnows DEF Heal
<1>6. /\ job' \in [Worker -> Jobs] /\ job'[w] = k
      /\ \A v \in Worker \ {w} : job'[v] = job[v]
  BY <1>5, GoFacts
<1>7. /\ late' \subseteq Started /\ over' \subseteq Started
      /\ life' \in Lives /\ health' \in Health /\ rest' \in Started \cup {None}
      /\ lease' = lease /\ claimed' = claimed /\ paidIn' = paidIn
      /\ undone' = undone /\ undone \subseteq Started
  BY DEF Heal, IndInv, TypeOK
<1>8. r.settle # "completed"
  BY <1>3 DEF Settled
<1>9. QED
  BY <1>1, <1>2, <1>3, <1>4, <1>5, <1>6, <1>7, <1>8, SaveStep

LEMMA PayInv ==
  ASSUME IndInv, NEW w \in Worker, Pay(w)
  PROVE  IndInv'
<1> DEFINE j == job[w]
           s == j.s
           k == AfterPay(j, TRUE)
<1>1. /\ s \in Session /\ row[s] # None /\ s \in Started /\ j.seen \in Row /\ Ended(j.seen)
      /\ Ended(row[s]) /\ j.seen.life = row[s].life
  BY FlowFacts, RowFacts DEF Pay, FlowSteps
<1>2. /\ claimed' = claimed \cup {s} /\ life = row[s].life
      /\ paidIn' = [paidIn EXCEPT ![s] = paidIn[s] \cup {life}]
      /\ UNCHANGED <<row, lease, late, over, life, health, rest, healedIn, undone>>
      /\ Go(w, k)
  BY <1>1 DEF Pay
<1>3. k \in Jobs /\ Knows(k, row', claimed', healedIn')
  <2>1. \A at \in FlowSteps : /\ Flow(at, s, j.seen, FALSE, TRUE) \in FlowJobs
                             /\ Knows(Flow(at, s, j.seen, FALSE, TRUE), row', claimed', healedIn')
    BY <1>1, <1>2, FlowKnows
  <2>2. QED
    BY <2>1, FlowJobIsJob DEF AfterPay, FlowSteps
<1>4. /\ job' \in [Worker -> Jobs] /\ job'[w] = k
      /\ \A v \in Worker \ {w} : job'[v] = job[v]
  BY <1>2, <1>3, GoFacts
<1>5. JobsOK'
  BY <1>2, <1>3, <1>4, JobsStay
<1>6. /\ paidIn' \in [Session -> SUBSET Lives]
      /\ paidIn'[s] = paidIn[s] \cup {row[s].life}
      /\ \A t \in Session \ {s} : paidIn'[t] = paidIn[t]
  BY <1>1, <1>2 DEF IndInv, TypeOK
<1>7. TypeOK'
  BY <1>1, <1>2, <1>4, <1>6 DEF IndInv, TypeOK, Started
<1>8. RowsOK'
  BY <1>1, <1>2, <1>6 DEF IndInv, RowsOK, RowOK
<1>9. NothingForALaterLife'
  BY <1>1, <1>2, <1>6 DEF IndInv, NothingForALaterLife, Started
<1>10. LeaseIsOwned' /\ PendingKeepsLease' /\ CompletedIsWhole'
  BY <1>2 DEF IndInv, LeaseIsOwned, PendingKeepsLease, CompletedIsWhole, Started
<1>11. QED
  BY <1>5, <1>7, <1>8, <1>9, <1>10 DEF IndInv

LEMMA PayNotInv ==
  ASSUME IndInv, NEW w \in Worker, PayNot(w)
  PROVE  IndInv'
<1> DEFINE j == job[w]
<1>1. j.at \in FlowSteps \cup {"heal"} /\ {"rest", "finish", "forfeit"} \subseteq FlowSteps
  BY DEF PayNot, FlowSteps
<1>2. \A at \in FlowSteps, pay \in BOOLEAN : (pay => j.s \in claimed) =>
         Flow(at, j.s, j.seen, FALSE, pay) \in Jobs /\ Knows(Flow(at, j.s, j.seen, FALSE, pay), row, claimed, healedIn)
  BY <1>1, NextSteps, FlowJobIsJob
<1>3. \A pay \in BOOLEAN : (pay => j.s \in claimed) =>
         AfterPay(j, pay) \in Jobs /\ Knows(AfterPay(j, pay), row, claimed, healedIn)
  BY <1>1, <1>2 DEF AfterPay
<1>4. PaidBefore(j) => j.s \in claimed
  BY DEF PaidBefore
<1>5. PICK k \in Jobs : Knows(k, row, claimed, healedIn) /\ Go(w, k)
  BY <1>1, <1>2, <1>3, <1>4, IdleKnows DEF PayNot
<1>6. QED
  BY <1>5, JobStep DEF PayNot, Go

LEMMA TakeRestInv ==
  ASSUME IndInv, NEW w \in Worker, TakeRest(w)
  PROVE  IndInv'
<1> DEFINE j == job[w]
           s == j.s
           r == Rested(row[s])
           writes == /\ Substep(j) /\ rest' = s /\ Save(s, r)
                     /\ Go(w, Flow("finish", s, r, FALSE, j.pay))
<1>1. /\ j.at \in FlowSteps \cup {"heal"} /\ j.at \in FlowSteps
      /\ {"finish", "forfeit"} \subseteq FlowSteps
  BY DEF TakeRest, FlowSteps
<1>2. /\ s \in Session /\ row[s] # None /\ s \in Started /\ row[s] \in Row
      /\ Ended(row[s]) /\ j.pay \in BOOLEAN /\ (j.pay => s \in claimed)
      /\ row[s].reward => s \in claimed
      /\ row[s].applied => healedIn[s] # {}
  BY <1>1, FlowFacts, RowFacts
<1>3. UNCHANGED <<lease, late, over, life, health, books>>
  BY DEF TakeRest
<1>4. CASE writes
  <2>1. lease = s /\ ~Settled(row[s])
    BY <1>4 DEF Substep, Expected
  <2>2. /\ r \in Row /\ r.life = row[s].life /\ Ended(r) /\ ~Settled(r)
        /\ r.reward = row[s].reward /\ r.applied = row[s].applied
    BY <1>2, <2>1, RowFunctions, RowFields DEF Ended, Settled
  <2>3. row' = [row EXCEPT ![s] = r] /\ row'[s] = r /\ r # None
    BY <1>2, <1>4, <2>2, SoloAssumption DEF Save, IndInv, TypeOK
  <2>4. LET k == Flow("finish", s, r, FALSE, j.pay) IN
        k \in Jobs /\ Knows(k, row', claimed, healedIn') /\ Go(w, k)
    BY <1>1, <1>2, <1>4, <2>2, <2>3, FlowKnows, FlowJobIsJob
  <2>5. PICK k \in Jobs : Knows(k, row', claimed, healedIn') /\ Go(w, k)
    BY <2>4
  <2>6. /\ job' \in [Worker -> Jobs] /\ job'[w] = k
        /\ \A v \in Worker \ {w} : job'[v] = job[v]
    BY <2>5, GoFacts
  <2>7. /\ late' \subseteq Started /\ over' \subseteq Started
        /\ life' \in Lives /\ health' \in Health /\ rest' \in Started \cup {None}
        /\ lease' = lease /\ claimed' = claimed /\ paidIn' = paidIn /\ healedIn' = healedIn
        /\ undone' = undone /\ undone \subseteq Started
    BY <1>2, <1>3, <1>4 DEF books, IndInv, TypeOK
  <2>8. r.settle # "completed"
    BY <2>2 DEF Settled
  <2>9. QED
    BY <1>2, <2>1, <2>2, <2>3, <2>5, <2>6, <2>7, <2>8, SaveStep
<1>5. CASE ~writes
  <2>1. \A at \in FlowSteps, pay \in BOOLEAN : (pay => s \in claimed) =>
          /\ Flow(at, s, row[s], FALSE, pay) \in Jobs
          /\ Knows(Flow(at, s, row[s], FALSE, pay), row, claimed, healedIn)
    BY <1>1, NextSteps, FlowJobIsJob
  <2>2. /\ Flow("finish", s, row[s], FALSE, j.pay) \in Jobs
        /\ Knows(Flow("finish", s, row[s], FALSE, j.pay), row, claimed, healedIn)
        /\ Flow("forfeit", s, row[s], FALSE, FALSE) \in Jobs
        /\ Knows(Flow("forfeit", s, row[s], FALSE, FALSE), row, claimed, healedIn)
    BY <1>1, <1>2, <2>1
  <2>3. LET k == Retry(j, [j EXCEPT !.seen = row[s]]) IN
        k \in Jobs /\ Knows(k, row, claimed, healedIn)
    BY <1>1, NextSteps, RetryKnows, FlowJobIsJob, IdleKnows
  <2>4. PICK k \in Jobs : /\ Knows(k, row, claimed, healedIn) /\ Go(w, k)
                          /\ UNCHANGED <<row, rest>>
    BY <1>5, <2>2, <2>3, IdleKnows DEF TakeRest
  <2>5. QED
    BY <1>3, <2>4, JobStep DEF Go
<1>6. QED
  BY <1>4, <1>5

LEMMA FinishInv ==
  ASSUME IndInv, NEW w \in Worker, Finish(w)
  PROVE  IndInv'
<1> DEFINE j == job[w]
           s == j.s
           r == Complete(row[s], j.pay)
<1>1. /\ s \in Session /\ row[s] # None /\ s \in Started /\ row[s] \in Row
      /\ Ended(row[s]) /\ j.pay \in BOOLEAN /\ (j.pay => s \in claimed)
      /\ row[s].reward => s \in claimed
      /\ row[s].applied => healedIn[s] # {}
  BY FlowFacts, RowFacts DEF Finish, FlowSteps
<1>2. /\ row' = [row EXCEPT ![s] = r] /\ Whole(j)
      /\ lease' = IF lease = s THEN None ELSE lease
      /\ UNCHANGED <<late, over, life, health, rest, books>>
  BY DEF Finish, Save, Release
<1>3. r \in Row /\ r.life = row[s].life /\ Ended(r) /\ Settled(r)
  BY <1>1, RowFunctions, CompleteFields DEF Ended, Settled
<1>4. /\ r.applied = row[s].applied /\ r.rested = row[s].rested
      /\ r.status = row[s].status /\ r.reward = (row[s].reward \/ j.pay)
  BY <1>1, CompleteFields
<1>5. /\ healedIn[s] # {}
      /\ r.status \in Rewarded => r.reward /\ (s \in Training => r.rested)
  BY <1>1, <1>2, <1>4 DEF Whole
<1>6. r.reward => s \in claimed
  BY <1>1, <1>4
<1>7. /\ job' \in [Worker -> Jobs] /\ job'[w] = Idle
      /\ \A v \in Worker \ {w} : job'[v] = job[v]
  BY IdleKnows, GoFacts DEF Finish
<1>8. /\ late' \subseteq Started /\ over' \subseteq Started
      /\ life' \in Lives /\ health' \in Health /\ rest' \in Started \cup {None}
      /\ claimed' = claimed /\ paidIn' = paidIn /\ healedIn' = healedIn
      /\ undone' = undone /\ undone \subseteq Started
  BY <1>2 DEF books, IndInv, TypeOK
<1>9. \A v \in Worker : job'[v] = job[v] \/ Knows(job'[v], row', claimed, healedIn')
  BY <1>7, IdleKnows
<1>10. QED
  BY <1>1, <1>2, <1>3, <1>5, <1>6, <1>7, <1>8, <1>9, SaveStep

(* Nobody holds the lease of a settled fight, so its release changes none. *)
LEMMA FinishNotInv ==
  ASSUME IndInv, NEW w \in Worker, FinishNot(w)
  PROVE  IndInv'
<1> DEFINE j == job[w]
<1>1. j.at \in FlowSteps
  BY DEF FinishNot, FlowSteps
<1>2. Settled(row[j.s]) /\ Release(j.s) => lease' = lease
  BY <1>1, FlowFacts, RowFacts DEF Release
<1>3. LET k == Retry(j, [j EXCEPT !.seen = row[j.s]]) IN
      k \in Jobs /\ Knows(k, row, claimed, healedIn)
  BY <1>1, NextSteps, RetryKnows, FlowJobIsJob, IdleKnows
<1>4. PICK k \in Jobs : Knows(k, row, claimed, healedIn) /\ Go(w, k) /\ lease' = lease
  BY <1>2, <1>3, IdleKnows DEF FinishNot
<1>5. QED
  BY <1>4, JobStep DEF FinishNot, Go

LEMMA GiveUpInv ==
  ASSUME IndInv, NEW w \in Worker, GiveUp(w)
  PROVE  IndInv'
<1> DEFINE j == job[w]
           s == j.s
           r == Forfeit(row[s])
<1>1. /\ s \in Session /\ row[s] # None /\ s \in Started /\ row[s] \in Row
      /\ Ended(row[s]) /\ (row[s].reward => s \in claimed)
      /\ row[s].applied => healedIn[s] # {}
      /\ Settled(row[s]) => lease # s
  BY FlowFacts, RowFacts DEF GiveUp, FlowSteps
<1>2. Go(w, Idle) /\ UNCHANGED <<late, over, life, health, books>>
  BY DEF GiveUp
<1>3. CASE Expected(j) /\ life # j.seen.life /\ lease = s
  <2>1. /\ row' = [row EXCEPT ![s] = r]
        /\ lease' = IF lease = s THEN None ELSE lease
        /\ rest' = IF rest = s THEN None ELSE rest
    BY <1>3 DEF GiveUp, Save, Release
  <2>2. /\ r \in Row /\ r.life = row[s].life /\ Ended(r) /\ Settled(r)
        /\ r.reward = row[s].reward /\ r.applied = row[s].applied
        /\ r.settle # "completed"
    BY <1>1, RowFunctions, RowFields DEF Ended, Settled
  <2>3. /\ job' \in [Worker -> Jobs] /\ job'[w] = Idle
        /\ \A v \in Worker \ {w} : job'[v] = job[v]
    BY <1>2, IdleKnows, GoFacts
  <2>4. /\ late' \subseteq Started /\ over' \subseteq Started
        /\ life' \in Lives /\ health' \in Health /\ rest' \in Started \cup {None}
        /\ claimed' = claimed /\ paidIn' = paidIn /\ healedIn' = healedIn
        /\ undone' = undone /\ undone \subseteq Started
    BY <1>2, <2>1 DEF books, IndInv, TypeOK
  <2>5. \A v \in Worker : job'[v] = job[v] \/ Knows(job'[v], row', claimed, healedIn')
    BY <2>3, IdleKnows
  <2>6. QED
    BY <1>1, <1>3, <2>1, <2>2, <2>3, <2>4, <2>5, SaveStep
<1>4. CASE ~(Expected(j) /\ life # j.seen.life /\ lease = s)
  <2>1. lease' = lease /\ UNCHANGED <<row, rest>>
    BY <1>1, <1>4 DEF GiveUp, Release
  <2>2. QED
    BY <1>2, <2>1, IdleKnows, JobStep DEF Go
<1>5. QED
  BY <1>3, <1>4

-----------------------------------------------------------------------------
(* The rest of the world *)

(* Only the lease of a fight that is not settled leads a remort to a row.  *)
LEMMA RemortInv ==
  ASSUME IndInv, NEW w \in Worker, Remort(w)
  PROVE  IndInv'
<1>1. /\ life' \in Lives /\ health' \in Health /\ lease' = None /\ lease # Other
      /\ UNCHANGED <<late, over, job, books>>
  <2>1. life \in Lives /\ life < MaxLife /\ life' = life + 1
    BY DEF Remort, IndInv, TypeOK
  <2>2. life' \in Lives
    BY <2>1, SoloAssumption DEF Lives
  <2>3. QED
    BY <2>2 DEF Remort
<1>2. CASE lease = None
  <2>1. UNCHANGED <<row, rest, lease>>
    BY <1>1, <1>2 DEF Remort
  <2>2. QED
    BY <1>1, <2>1 DEF books, IndInv, TypeOK, RowsOK, RowOK, JobsOK, LeaseIsOwned,
       NothingForALaterLife, CompletedIsWhole, PendingKeepsLease, Started
<1>3. CASE lease # None
  <2> DEFINE s == lease
             e == Expire(row[s])
             r == Forfeit(e)
  <2>1. s \in Session /\ s \in Started /\ row[s] # None /\ ~Settled(row[s])
    BY <1>1, <1>3 DEF IndInv, TypeOK, LeaseIsOwned, Started
  <2>2. /\ row[s] \in Row /\ (row[s].reward => s \in claimed)
        /\ row[s].applied => healedIn[s] # {}
    BY <2>1, RowFacts
  <2>3. row' = [row EXCEPT ![s] = r] /\ (rest' = None \/ rest' = rest)
    BY <1>3, <2>1 DEF Remort, Save
  <2>4. /\ e \in Row /\ Ended(e) /\ e.life = row[s].life
        /\ e.applied = row[s].applied /\ e.reward = row[s].reward
    BY <2>2, RowFunctions
  <2>5. /\ r \in Row /\ r.life = row[s].life /\ Ended(r) /\ Settled(r)
        /\ r.reward = row[s].reward /\ r.applied = row[s].applied
        /\ r.settle # "completed"
    <3>1. r.status = e.status /\ r.settle = "forfeited"
      BY <2>4, RowFields
    <3>2. r \in Row /\ r.life = e.life /\ r.reward = e.reward /\ r.applied = e.applied
      BY <2>4, RowFunctions, RowFields
    <3>3. QED
      BY <2>4, <3>1, <3>2 DEF Ended, Settled
  <2>6. /\ late' \subseteq Started /\ over' \subseteq Started
        /\ rest' \in Started \cup {None} /\ job' = job /\ job' \in [Worker -> Jobs]
        /\ claimed' = claimed /\ paidIn' = paidIn /\ healedIn' = healedIn
        /\ undone' = undone /\ undone \subseteq Started
    BY <1>1, <2>3 DEF books, IndInv, TypeOK
  <2>7. lease' = IF Settled(r) /\ lease = s THEN None ELSE lease
    BY <1>1, <2>5
  <2>8. QED
    BY <1>1, <2>1, <2>2, <2>3, <2>5, <2>6, <2>7, SaveStep
<1>4. QED
  BY <1>2, <1>3

LEMMA OtherBattleInv == ASSUME IndInv, OtherBattle PROVE IndInv'
<1>1. /\ lease \notin Session /\ lease' \notin Session
      /\ lease' \in Session \cup {None, Other}
      /\ UNCHANGED <<row, late, over, life, health, rest, job, claimed, paidIn, healedIn, undone>>
  BY SoloAssumption DEF OtherBattle, books
<1>2. TypeOK' /\ RowsOK' /\ JobsOK' /\ NothingForALaterLife' /\ CompletedIsWhole'
  BY <1>1 DEF IndInv, TypeOK, RowsOK, RowOK, JobsOK, NothingForALaterLife,
     CompletedIsWhole, Started
<1>3. LeaseIsOwned' /\ PendingKeepsLease'
  BY <1>1 DEF IndInv, LeaseIsOwned, PendingKeepsLease, Started
<1>4. QED
  BY <1>2, <1>3 DEF IndInv

(* The clock and the resources only change what the types speak of.        *)
LEMMA WorldInv ==
  ASSUME IndInv,
         \/ Recover
         \/ PassRest
         \/ \E s \in Session : PassTurn(s) \/ PassHour(s)
  PROVE  IndInv'
<1>1. /\ UNCHANGED <<row, lease, life, job, claimed, paidIn, healedIn, undone>>
      /\ late' \subseteq Started /\ over' \subseteq Started
      /\ health' \in Health /\ rest' \in Started \cup {None}
  BY DEF Recover, PassRest, PassTurn, PassHour, books, IndInv, TypeOK
<1>2. TypeOK' /\ RowsOK' /\ JobsOK' /\ LeaseIsOwned' /\ NothingForALaterLife' /\ CompletedIsWhole'
  BY <1>1 DEF IndInv, TypeOK, RowsOK, RowOK, JobsOK, LeaseIsOwned, NothingForALaterLife,
     CompletedIsWhole, Started
<1>3. PendingKeepsLease'
  BY <1>1 DEF IndInv, PendingKeepsLease, Started
<1>4. QED
  BY <1>2, <1>3 DEF IndInv

LEMMA StepInv == ASSUME IndInv, NEW w \in Worker, Step(w) PROVE IndInv'
BY StartInv, WriteBackInv, LookAgainInv, MoveInv, MissTurnInv, ExpireTurnInv,
   LoseTurnInv, ReadHealthInv, HealInv, HealNotInv, PayInv, PayNotInv, TakeRestInv,
   FinishInv, FinishNotInv, GiveUpInv
   DEF Step

LEMMA StutterInv == ASSUME IndInv, UNCHANGED vars PROVE IndInv'
BY DEF vars, IndInv, TypeOK, RowsOK, RowOK, JobsOK, LeaseIsOwned, NothingForALaterLife,
   CompletedIsWhole, PendingKeepsLease, Started

-----------------------------------------------------------------------------
(* The theorems *)

(* The invariant holds in every state of every run: with any number of     *)
(* fights, of time-out jobs beside the buttons, of lives and of turns.     *)
THEOREM SoloInvariant == Spec => []IndInv
<1>1. ASSUME IndInv, [Next]_vars PROVE IndInv'
  <2>1. CASE \E w \in Chat, s \in Session : Approach(w, s) \/ Open(w, s)
    BY <1>1, <2>1, ApproachInv, OpenInv
  <2>2. CASE \E w \in Timer, s \in Session : PickDue(w, s)
    BY <1>1, <2>2, PickDueInv
  <2>3. CASE \E w \in Worker : Step(w) \/ Crash(w)
    BY <1>1, <2>3, StepInv, CrashInv
  <2>4. CASE \E s \in Session : PassTurn(s) \/ PassHour(s)
    BY <1>1, <2>4, WorldInv
  <2>5. CASE \E w \in Chat : Glance(w) \/ Remort(w)
    BY <1>1, <2>5, GlanceInv, RemortInv DEF Worker
  <2>6. CASE OtherBattle
    BY <1>1, <2>6, OtherBattleInv
  <2>7. CASE Recover \/ PassRest
    BY <1>1, <2>7, WorldInv
  <2>8. CASE UNCHANGED vars
    BY <1>1, <2>8, StutterInv
  <2>9. QED
    BY <1>1, <2>1, <2>2, <2>3, <2>4, <2>5, <2>6, <2>7, <2>8 DEF Next
<1>2. QED
  BY InitInv, <1>1, PTL DEF Spec

(* Columns and jobs always have their types.                               *)
THEOREM Typing == Spec => []TypeOK
<1>1. IndInv => TypeOK
  BY DEF IndInv
<1>2. QED
  BY <1>1, SoloInvariant, PTL

(* A fight that goes on holds the lease of active_combat_leases, so that   *)
(* there is one at most, and no settled fight keeps the character from     *)
(* other battles.                                                          *)
THEOREM LeaseOwned == Spec => []LeaseIsOwned
<1>1. IndInv => LeaseIsOwned
  BY DEF IndInv
<1>2. QED
  BY <1>1, SoloInvariant, PTL

(* Neither the reward nor the resources of a fight ever reach another life *)
(* than the one that fought it, whatever a handler had read before remort. *)
THEOREM OwnLife == Spec => []NothingForALaterLife
<1>1. IndInv => NothingForALaterLife
  BY DEF IndInv
<1>2. QED
  BY <1>1, SoloInvariant, PTL

(* A settlement marked completed has done all its parts, whatever crashed  *)
(* or was repeated between its transactions.                               *)
THEOREM Wholeness == Spec => []CompletedIsWhole
<1>1. IndInv => CompletedIsWhole
  BY DEF IndInv
<1>2. QED
  BY <1>1, SoloInvariant, PTL

(* A fight that is over keeps its lease until it is settled, so that what  *)
(* a crash left out can still be done, unless a button has written an      *)
(* outdated state over it.                                                 *)
THEOREM LeaseKept == Spec => []PendingKeepsLease
<1>1. IndInv => PendingKeepsLease
  BY DEF IndInv
<1>2. QED
  BY <1>1, SoloInvariant, PTL

-----------------------------------------------------------------------------
(* Settlement goes forward *)

Advances(r, n) ==
  /\ Ended(r) => n.status = r.status
  /\ n.turn >= r.turn /\ n.version >= r.version
  /\ Settled(r) => n = r

Forward == \A s \in Started \ undone' : Advances(row[s], row'[s])

LEMMA RowAdvances ==
  ASSUME NEW r \in Row
  PROVE  /\ Advances(r, r)
         /\ ~Settled(r) =>
              /\ \A n \in {Apply(r), Rested(r), Forfeit(r), Forfeit(Expire(r))} : Advances(r, n)
              /\ \A pay \in BOOLEAN : Advances(r, Complete(r, pay))
<1>1. r.turn \in Nat /\ r.version \in Nat
  BY SoloAssumption DEF Row
<1>2. \A n : (n.turn = r.turn /\ n.version \in {r.version, r.version + 1}) =>
         n.turn >= r.turn /\ n.version >= r.version
  BY <1>1
<1>3. \A n \in {Apply(r), Rested(r), Forfeit(r)} :
        n.status = r.status /\ n.turn = r.turn /\ n.version = r.version + 1
  BY RowFields
<1>4. \A pay \in BOOLEAN : LET n == Complete(r, pay) IN
        n.status = r.status /\ n.turn = r.turn /\ n.version = r.version + 1
  BY CompleteFields
<1>5. LET n == Forfeit(Expire(r)) IN
        (Ended(r) => n.status = r.status) /\ n.turn = r.turn /\ n.version = r.version + 1
  <2>1. Expire(r) \in Row /\ (Ended(r) => Expire(r).status = r.status)
        /\ Expire(r).turn = r.turn /\ Expire(r).version = r.version
    BY RowFunctions DEF Expire, Row
  <2>2. QED
    BY <2>1, RowFields
<1>6. QED
  BY <1>2, <1>3, <1>4, <1>5 DEF Advances

(* A step that writes one row, if any.                                     *)
LEMMA OneRow ==
  ASSUME IndInv,
         \/ row' = row
         \/ \E s \in Session : \E r :
              /\ row' = [row EXCEPT ![s] = r]
              /\ s \in Started \ undone' => Advances(row[s], r)
  PROVE  Forward
<1>1. \A t \in Started : t \in Session /\ row[t] \in Row /\ Advances(row[t], row[t])
  BY RowFacts, RowAdvances DEF Started
<1>2. CASE row' = row
  BY <1>1, <1>2 DEF Forward
<1>3. ASSUME NEW s \in Session, NEW r, row' = [row EXCEPT ![s] = r],
             s \in Started \ undone' => Advances(row[s], r)
      PROVE  Forward
  <2>1. row'[s] = r /\ \A t \in Session \ {s} : row'[t] = row[t]
    BY <1>3 DEF IndInv, TypeOK
  <2>2. QED
    BY <1>1, <1>3, <2>1 DEF Forward
<1>4. QED
  BY <1>2, <1>3

(* A turn is written over the row of the same turn, which is fresh.        *)
LEMMA CommitForward ==
  ASSUME IndInv, NEW w \in Worker, job[w].at = "turn", NEW r,
         Commit(w, r), r.version = job[w].seen.version,
         r.turn \in {job[w].seen.turn, job[w].seen.turn + 1}
  PROVE  Forward
<1> DEFINE s == job[w].s
<1>1. s \in Session /\ row[s] # None /\ Fresh(job[w].seen)
  BY TurnFacts
<1>2. /\ row' = [row EXCEPT ![s] = r]
      /\ ~Ended(row[s]) /\ row[s].turn = job[w].seen.turn
  BY DEF Commit, SameTurn, Save
<1>3. Fresh(row[s]) /\ row[s].turn \in Nat
  BY <1>1, <1>2, RowFacts, SoloAssumption DEF Fresh
<1>4. Advances(row[s], r)
  BY <1>1, <1>2, <1>3 DEF Advances, Fresh, Settled
<1>5. QED
  BY <1>1, <1>2, <1>4, OneRow

LEMMA TurnsForward ==
  ASSUME IndInv, NEW w \in Worker, Move(w) \/ MissTurn(w) \/ ExpireTurn(w)
  PROVE  Forward
<1>1. job[w].at = "turn" /\ job[w].seen \in Row /\ Fresh(job[w].seen)
  BY TurnFacts DEF Move, MissTurn, ExpireTurn
<1>2. \A outcome : LET n == Resolve(job[w].seen, outcome) IN
        n.version = job[w].seen.version /\ n.turn = job[w].seen.turn + 1
  BY <1>1 DEF Resolve, Row
<1>3. LET n == Expire(job[w].seen) IN
        n.version = job[w].seen.version /\ n.turn = job[w].seen.turn
  BY <1>1 DEF Expire, Row
<1>4. PICK r : Commit(w, r) /\ r.version = job[w].seen.version
               /\ r.turn \in {job[w].seen.turn, job[w].seen.turn + 1}
  BY <1>2, <1>3 DEF Move, MissTurn, ExpireTurn
<1>5. QED
  BY <1>1, <1>4, CommitForward

LEMMA SettleForward ==
  ASSUME IndInv, NEW w \in Worker,
         Heal(w) \/ TakeRest(w) \/ Finish(w) \/ GiveUp(w)
  PROVE  Forward
<1> DEFINE s == job[w].s
<1>1. /\ s \in Session /\ row[s] # None /\ row[s] \in Row /\ job[w].pay \in BOOLEAN
  BY FlowFacts DEF Heal, TakeRest, Finish, GiveUp, FlowSteps
<1>2. CASE row' = row
  BY <1>2, OneRow
<1>3. CASE row' # row
  <2>1. PICK r \in {Apply(row[s]), Rested(row[s]), Complete(row[s], job[w].pay), Forfeit(row[s])} :
          row' = [row EXCEPT ![s] = r] /\ ~Settled(row[s])
    BY <1>3 DEF Heal, TakeRest, Finish, GiveUp, Save, Substep, Expected
  <2>2. Advances(row[s], r)
    BY <1>1, <2>1, RowAdvances
  <2>3. QED
    BY <1>1, <2>1, <2>2, OneRow
<1>4. QED
  BY <1>2, <1>3

LEMMA StepForward ==
  ASSUME IndInv, NEW w \in Worker, Step(w)
  PROVE  Forward
<1>1. CASE Start(w)
  <2>1. \/ row' = row
        \/ /\ row[job[w].s] = None
           /\ row' = [row EXCEPT ![job[w].s] = NewRow(job[w].life)]
    BY <1>1 DEF Start, Save
  <2>2. job[w].s \in Session
    BY <1>1, FlowJob DEF Start, IndInv, TypeOK
  <2>3. QED
    BY <2>1, <2>2, OneRow DEF Started
<1>2. CASE WriteBack(w)
  <2> DEFINE s == job[w].s
             r == [Expire(job[w].seen) EXCEPT !.reward = row[s].reward]
  <2>1. /\ s \in Session /\ row[s] # None /\ row[s] \in Row
        /\ Fresh(job[w].seen) \/ Unsettled(job[w].seen)
    BY <1>2, TurnFacts, RowFacts DEF WriteBack
  <2>2. row' = [row EXCEPT ![s] = r]
    BY <1>2 DEF WriteBack, Save
  <2>3. ASSUME s \notin undone'
        PROVE  Advances(row[s], r)
    <3>1. row[s] = job[w].seen /\ ~Settled(row[s])
      BY <1>2, <2>1, <2>3 DEF WriteBack, Fresh, Unsettled, Settled
    <3>2. row[s].turn \in Nat /\ row[s].version \in Nat
      BY <2>1, SoloAssumption DEF Row
    <3>3. /\ r.turn = row[s].turn /\ r.version = row[s].version
          /\ Ended(row[s]) => r.status = row[s].status
      BY <2>1, <3>1 DEF Expire, Row, Ended
    <3>4. QED
      BY <3>1, <3>2, <3>3 DEF Advances
  <2>4. QED
    BY <2>1, <2>2, <2>3, OneRow
<1>3. CASE Move(w) \/ MissTurn(w) \/ ExpireTurn(w)
  BY <1>3, TurnsForward
<1>4. CASE Heal(w) \/ TakeRest(w) \/ Finish(w) \/ GiveUp(w)
  BY <1>4, SettleForward
<1>5. CASE \/ LookAgain(w) \/ LoseTurn(w) \/ ReadHealth(w) \/ HealNot(w)
           \/ Pay(w) \/ PayNot(w) \/ FinishNot(w)
  BY <1>5, OneRow DEF LookAgain, LoseTurn, ReadHealth, HealNot, Pay, PayNot, FinishNot
<1>6. QED
  BY <1>1, <1>2, <1>3, <1>4, <1>5 DEF Step

LEMMA RemortForward ==
  ASSUME IndInv, NEW w \in Chat, Remort(w)
  PROVE  Forward
<1>1. CASE lease = None
  BY <1>1, OneRow DEF Remort
<1>2. CASE lease # None
  <2>1. lease \in Session /\ lease \in Started /\ ~Settled(row[lease])
    BY <1>2 DEF Remort, IndInv, TypeOK, LeaseIsOwned
  <2>2. row[lease] \in Row
    BY <2>1, RowFacts DEF Started
  <2>3. /\ row' = [row EXCEPT ![lease] = Forfeit(Expire(row[lease]))]
        /\ Advances(row[lease], Forfeit(Expire(row[lease])))
    BY <1>2, <2>1, <2>2, RowAdvances DEF Remort, Save
  <2>4. QED
    BY <2>1, <2>3, OneRow
<1>3. QED
  BY <1>1, <1>2

(* The outcome of a fight is final, its turn and its version only grow and *)
(* what is settled stays as it is, whoever of button, time-out job and     *)
(* remort comes first, but for a button that writes an outdated state.     *)
THEOREM Advance == Spec => SettlementAdvances
<1>1. ASSUME IndInv, [Next]_vars
      PROVE  [Forward]_vars
  <2>1. CASE \E w \in Worker : Step(w)
    BY <1>1, <2>1, StepForward
  <2>2. CASE \E w \in Chat : Remort(w)
    BY <1>1, <2>2, RemortForward
  <2>3. CASE row' = row
    BY <1>1, <2>3, OneRow
  <2>4. CASE UNCHANGED vars
    BY <2>4
  <2>5. QED
    BY <1>1, <2>1, <2>2, <2>3, <2>4
       DEF Next, Approach, Open, Glance, PickDue, Crash, PassTurn, PassHour, OtherBattle, Recover, PassRest
<1>2. [Forward]_vars =>
        [\A s \in Started \ undone' :
           /\ Ended(row[s]) => row'[s].status = row[s].status
           /\ row'[s].turn >= row[s].turn /\ row'[s].version >= row[s].version
           /\ Settled(row[s]) => row'[s] = row[s]]_vars
  BY DEF Forward, Advances
<1>3. QED
  BY SoloInvariant, <1>1, <1>2, PTL DEF Spec, SettlementAdvances

=============================================================================
