----------------------------- MODULE SoloCombat -----------------------------
(***************************************************************************)
(* Persistent fights and training fights of one character: rows of         *)
(* solo_combat_sessions, the row of active_combat_leases that keeps the    *)
(* character in one battle at a time, and the settlement that pays for a   *)
(* finished fight in several transactions.                                 *)
(*                                                                         *)
(* A call of fightService or trainingDoppelgangerService reads a session,  *)
(* decides on what it read and commits with a later transaction; between   *)
(* two transactions anything may happen, a crash included.  The calls are  *)
(* workers: one of Chat serves the buttons, those of Timer turn time-outs. *)
(* `job' is what a worker knows and where it stands.                       *)
(***************************************************************************)
EXTENDS Naturals, FiniteSets

CONSTANTS
  Session,    \* ids of fights that may be started
  Training,   \* those of them fought against the training doppelganger
  Chat,       \* the button handler, or nobody
  Timer,      \* concurrent time-out jobs
  Health,     \* values of the character's HP, mana and their markers
  MaxTurn,    \* bound: the turn that ends a fight at the latest
  Brief,      \* bound: fights that end with their first turn
  MaxLife,    \* bound: remorts
  None        \* no row, no owner

Other == "another battle"
Worker == Chat \cup Timer
Lives == 0 .. MaxLife
Outcomes == {"won", "lost", "fled", "expired"}
Rewarded == {"won", "lost"}

VARIABLES
  row,        \* solo_combat_sessions: status, turn and stateJson
  lease,      \* active_combat_leases of the character
  late,       \* sessions whose turnExpiresAt has passed
  over,       \* sessions whose expiresAt has passed
  life,       \* number of remorts
  health,     \* hpCurrent, manaCurrent, hpRegenAt, manaRegenAt
  claimed,    \* sessions with a daily_actions row: the reward is booked
  rest,       \* owner of the training cooldown that has not passed
  job,        \* what every worker is doing
  paidIn,     \* history: the lives in which a session's reward was paid
  healedIn,   \* history: the lives in which its resources were written
  undone      \* history: sessions over which an outdated state was written

vars == <<row, lease, late, over, life, health, claimed, rest, job,
          paidIn, healedIn, undone>>

(* The columns of a session that the calls look at.  `settle' and          *)
(* `version' are state.settlement, `applied' and `rested' its resource and *)
(* training parts, `reward' the reward columns, `life' state.life.         *)
Row == [status : {"active"} \cup Outcomes, turn : 1 .. MaxTurn + 1,
        settle : {"pending", "completed", "forfeited"}, version : Nat,
        applied : BOOLEAN, rested : BOOLEAN, reward : BOOLEAN, life : Lives]

NewRow(l) == [status |-> "active", turn |-> 1, settle |-> "pending",
              version |-> 1, applied |-> FALSE, rested |-> FALSE,
              reward |-> FALSE, life |-> l]

(* What a worker knows.  `seen' is the session as last read, `hp' the       *)
(* resources read before they are written, `again' whether a retry after a *)
(* version conflict is left, `final' whether the flow ends with the        *)
(* resources, `pay' whether the completion carries the booked reward.      *)
Idle == [at |-> "idle"]
Jobs == {Idle}
        \cup [at : {"start"}, s : Session, life : Lives]
        \cup [at : {"look", "turn"}, s : Session, seen : Row]
        \cup [at : {"read", "pay", "rest", "finish", "forfeit"}, s : Session,
              seen : Row, again : BOOLEAN, final : BOOLEAN, pay : BOOLEAN]
        \cup [at : {"heal"}, s : Session, seen : Row, again : BOOLEAN,
              final : BOOLEAN, pay : BOOLEAN, hp : Health]

ASSUME SoloAssumption ==
  /\ Training \subseteq Session /\ Brief \subseteq Session
  /\ Chat \cap Timer = {}
  /\ MaxTurn \in Nat \ {0}
  /\ MaxLife \in Nat
  /\ Health # {}
  /\ None \notin Session
  /\ Other \notin Session \cup {None}
  /\ None \notin Row

(* The buttons of a player are served one after the other: long polling    *)
(* hands over one update at a time.  So the hour of a fight, which only a  *)
(* move puts off, is still the one a handler has read when it looks at it. *)
ASSUME OneHandler == \A c, d \in Chat : c = d

Started == {s \in Session : row[s] # None}
Settled(r) == r.settle # "pending"
Ended(r) == r.status # "active"

-----------------------------------------------------------------------------
(* The state of a fight: functions of the domain, which keep what they do  *)
(* not name.                                                               *)

Expire(r) == IF Ended(r) THEN r ELSE [r EXCEPT !.status = "expired"]
Apply(r) == [r EXCEPT !.applied = TRUE, !.version = r.version + 1]
Rested(r) == [r EXCEPT !.rested = TRUE, !.version = r.version + 1]

(* Fault: the completion forgets the replay of the reward.                 *)
Complete_NoReplay(r, pay) ==
  [r EXCEPT !.settle = "completed", !.version = r.version + 1]

Complete(r, pay) == [r EXCEPT !.settle = "completed", !.version = r.version + 1,
                              !.reward = r.reward \/ pay]
Forfeit(r) == [r EXCEPT !.settle = "forfeited", !.version = r.version + 1]

(* Fault: a turn counts for two.                                           *)
Resolve_TwoTurns(r, outcome) ==
  [r EXCEPT !.status = outcome, !.turn = r.turn + 2]

Resolve(r, outcome) == [r EXCEPT !.status = outcome, !.turn = r.turn + 1]

(* A turn may end the fight; MaxTurn and Brief bound how long it goes on.  *)
TurnOutcomes(s, r) == (IF r.turn = MaxTurn \/ s \in Brief THEN {} ELSE {"active"})
                      \cup {"won", "lost", "fled"}

(* What the flow does next with a finished fight it has just read.         *)
Flow(at, s, r, final, pay) ==
  [at |-> at, s |-> s, seen |-> r, again |-> TRUE, final |-> final, pay |-> pay]

WithResources(s, r, final) ==
  IF Settled(r) THEN Idle
  ELSE IF ~r.applied THEN Flow("read", s, r, final, FALSE)
  ELSE IF final THEN Flow("finish", s, r, TRUE, FALSE)
  ELSE Flow("pay", s, r, FALSE, FALSE)

Recovery(s, r) ==
  IF ~Settled(r) /\ r.reward /\ s \notin Training
  THEN Flow("finish", s, r, TRUE, FALSE)
  ELSE WithResources(s, r, r.status \notin Rewarded)

Go(w, j) == job' = [job EXCEPT ![w] = j]
Save(s, r) == row' = [row EXCEPT ![s] = r]

-----------------------------------------------------------------------------
Init ==
  /\ row = [s \in Session |-> None]
  /\ lease = None
  /\ late = {} /\ over = {}
  /\ life = 0
  /\ health \in Health
  /\ claimed = {}
  /\ rest = None
  /\ job = [w \in Worker |-> Idle]
  /\ paidIn = [s \in Session |-> {}]
  /\ healedIn = [s \in Session |-> {}]
  /\ undone = {}

books == <<claimed, paidIn, healedIn, undone>>

(* A button that starts a fight: no battle holds the character, and the    *)
(* training ground asks that its cooldown has passed.  The life that the   *)
(* session is going to carry is read here.                                 *)
Approach(w, s) ==
  /\ job[w] = Idle
  /\ row[s] = None /\ lease = None
  /\ s \in Training => rest = None
  /\ Go(w, [at |-> "start", s |-> s, life |-> life])
  /\ UNCHANGED <<row, lease, late, over, life, health, rest, books>>

(* The session and the lease are created together or not at all.           *)
Start(w) ==
  /\ job[w].at = "start"
  /\ LET s == job[w].s IN
     IF lease = None /\ row[s] = None
     THEN Save(s, NewRow(job[w].life)) /\ lease' = s
     ELSE UNCHANGED <<row, lease>>
  /\ Go(w, Idle)
  /\ UNCHANGED <<late, over, life, health, rest, books>>

(* A button on a fight.                                                    *)
Open(w, s) ==
  /\ job[w] = Idle
  /\ s \in Started
  /\ Go(w, IF Ended(row[s]) THEN Recovery(s, row[s])
           ELSE [at |-> "look", s |-> s, seen |-> row[s]])
  /\ job' # job
  /\ UNCHANGED <<row, lease, late, over, life, health, rest, books>>

(* A time-out job takes up a fight whose turn is due but not its hour.     *)
PickDue(w, s) ==
  /\ job[w] = Idle
  /\ s \in Started /\ ~Ended(row[s])
  /\ s \in late \ over
  /\ Go(w, [at |-> "turn", s |-> s, seen |-> row[s]])
  /\ UNCHANGED <<row, lease, late, over, life, health, rest, books>>

(* A button that shows the character's fight, which it finds by the lease, *)
(* also when the fight is over and not settled.  Training has a button of  *)
(* its own.                                                                *)
Glance(w) ==
  /\ job[w] = Idle
  /\ lease \in Session \ Training
  /\ Go(w, [at |-> "look", s |-> lease, seen |-> row[lease]])
  /\ UNCHANGED <<row, lease, late, over, life, health, rest, books>>

(* The fight the button was shown is over, or its hour has passed: the     *)
(* state that was read is written back, expired if it went on, whatever    *)
(* the row holds by now.                                                   *)
WriteBack(w) ==
  /\ job[w].at = "look"
  /\ Ended(job[w].seen) \/ job[w].s \in over
  /\ LET s == job[w].s
         r == [Expire(job[w].seen) EXCEPT !.reward = row[s].reward]
     IN /\ Save(s, r)
        /\ undone' = IF row[s] = job[w].seen THEN undone ELSE undone \cup {s}
        /\ Go(w, Recovery(s, r))
  /\ UNCHANGED <<lease, late, over, life, health, rest, claimed, paidIn, healedIn>>

(* Otherwise the session is read once more before a time-out or a move.    *)
LookAgain(w) ==
  /\ job[w].at = "look"
  /\ ~Ended(job[w].seen) /\ job[w].s \notin over
  /\ LET s == job[w].s IN
     Go(w, IF Ended(row[s]) THEN Recovery(s, row[s])
           ELSE [at |-> "turn", s |-> s, seen |-> row[s]])
  /\ UNCHANGED <<row, lease, late, over, life, health, rest, books>>

(* Fault: the status is not compared.                                      *)
SameTurn_TurnOnly(w) == row[job[w].s].turn = job[w].seen.turn

(* The compare-and-set of every turn: active, and at the turn that was read *)
SameTurn(w) ==
  LET r == row[job[w].s] IN ~Ended(r) /\ r.turn = job[w].seen.turn

(* A move, a missed turn (which only the player's move can prolong beyond  *)
(* its hour), or the end of the hour found on the second read.             *)
Commit(w, r) ==
  /\ SameTurn(w)
  /\ Save(job[w].s, r)
  /\ Go(w, IF Ended(r) THEN Recovery(job[w].s, r) ELSE Idle)

Move(w) ==
  /\ job[w].at = "turn" /\ w \in Chat
  /\ job[w].s \notin late \cup over
  /\ \E outcome \in TurnOutcomes(job[w].s, job[w].seen) :
        Commit(w, Resolve(job[w].seen, outcome))
  /\ late' = late \ {job[w].s} /\ over' = over \ {job[w].s}
  /\ UNCHANGED <<lease, life, health, rest, books>>

MissTurn(w) ==
  /\ job[w].at = "turn"
  /\ job[w].s \in late \ over
  /\ \E outcome \in TurnOutcomes(job[w].s, job[w].seen) \ {"fled"} :
        Commit(w, Resolve(job[w].seen, outcome))
  /\ late' = late \ {job[w].s}
  /\ UNCHANGED <<lease, over, life, health, rest, books>>

ExpireTurn(w) ==
  /\ job[w].at = "turn"
  /\ job[w].s \in over
  /\ Commit(w, Expire(job[w].seen))
  /\ UNCHANGED <<lease, late, over, life, health, rest, books>>

(* The compare-and-set fails, or the job finds the turn not due any more:  *)
(* a button shows how the fight stands, a time-out job passes on.          *)
LoseTurn(w) ==
  /\ job[w].at = "turn"
  /\ \/ ~SameTurn(w)
     \/ w \in Timer /\ job[w].s \notin late \cup over
  /\ LET s == job[w].s IN
     Go(w, IF w \in Chat /\ Ended(row[s]) THEN Recovery(s, row[s]) ELSE Idle)
  /\ UNCHANGED <<row, lease, late, over, life, health, rest, books>>

-----------------------------------------------------------------------------
(* Settlement: resources, reward, training cooldown, completion.           *)

(* settlementExpectationMatches: pending, and as it was read               *)
Expected(j) ==
  LET r == row[j.s] IN
  ~Settled(r) /\ r.version = j.seen.version /\ r.status = j.seen.status

(* validatePendingSettlementSubstep, but for the life                      *)
Substep(j) == Ended(row[j.s]) /\ Expected(j) /\ lease = j.s

(* After a version conflict the session is read again, once.               *)
Retry(j, k) == IF j.again /\ k # Idle THEN [k EXCEPT !.again = FALSE] ELSE Idle

(* Fault: the lease is not deleted.                                        *)
Release_Not(s) == s \in Session /\ lease' = lease

Release(s) == lease' = IF lease = s THEN None ELSE lease

(* What follows the booking of the reward: the training cooldown first.    *)
AfterPay(j, pay) == Flow(IF j.s \in Training THEN "rest" ELSE "finish",
                         j.s, j.seen, FALSE, pay)

ReadHealth(w) ==
  /\ job[w].at = "read"
  /\ LET j == job[w] IN
     Go(w, [at |-> "heal", s |-> j.s, seen |-> j.seen, again |-> j.again,
            final |-> j.final, pay |-> j.pay, hp |-> health])
  /\ UNCHANGED <<row, lease, late, over, life, health, rest, books>>

(* The resources of the fight become the character's, if nothing changed   *)
(* them since they were read.                                              *)
Heal(w) ==
  /\ job[w].at = "heal"
  /\ LET j == job[w]
         r == Apply(row[j.s])
     IN /\ ~row[j.s].applied /\ Substep(j)
        /\ life = j.seen.life
        /\ health = j.hp
        /\ Save(j.s, r)
        /\ health' \in Health
        /\ healedIn' = [healedIn EXCEPT ![j.s] = healedIn[j.s] \cup {life}]
        /\ Go(w, WithResources(j.s, r, j.final))
  /\ UNCHANGED <<lease, late, over, life, rest, claimed, paidIn, undone>>

HealNot(w) ==
  /\ job[w].at = "heal"
  /\ LET j == job[w]
         r == row[j.s]
     IN \/ /\ Settled(r) \/ r.applied
           /\ Go(w, WithResources(j.s, r, j.final))
        \/ /\ ~Settled(r) /\ ~r.applied /\ ~Substep(j)
           /\ Go(w, Retry(j, WithResources(j.s, r, j.final)))
        \/ /\ ~r.applied /\ Substep(j)
           /\ life # j.seen.life \/ health # j.hp
           /\ Go(w, IF life = j.seen.life THEN Idle
                    ELSE Flow("forfeit", j.s, r, j.final, FALSE))
  /\ UNCHANGED <<row, lease, late, over, life, health, rest, books>>

(* Fault: the reward is booked whatever the life.                          *)
Pay_AnyLife(w) ==
  /\ job[w].at = "pay"
  /\ LET j == job[w] IN
     /\ j.seen.status \in Rewarded
     /\ ~(j.s \in Training /\ j.seen.reward)
     /\ j.s \notin claimed
     /\ claimed' = claimed \cup {j.s}
     /\ paidIn' = [paidIn EXCEPT ![j.s] = paidIn[j.s] \cup {life}]
     /\ Go(w, AfterPay(j, TRUE))
  /\ UNCHANGED <<row, lease, late, over, life, health, rest, healedIn, undone>>

(* The reward is booked under the session's id, in the session's life.     *)
Pay(w) ==
  /\ job[w].at = "pay"
  /\ LET j == job[w] IN
     /\ j.seen.status \in Rewarded
     /\ ~(j.s \in Training /\ j.seen.reward)
     /\ j.s \notin claimed
     /\ life = j.seen.life
     /\ claimed' = claimed \cup {j.s}
     /\ paidIn' = [paidIn EXCEPT ![j.s] = paidIn[j.s] \cup {life}]
     /\ Go(w, AfterPay(j, TRUE))
  /\ UNCHANGED <<row, lease, late, over, life, health, rest, healedIn, undone>>

PaidBefore(j) == j.s \in claimed /\ (j.s \in Training => life = j.seen.life)

PayNot(w) ==
  /\ job[w].at = "pay"
  /\ LET j == job[w]
         replay == j.s \in Training /\ j.seen.reward
     IN \/ /\ j.seen.status \notin Rewarded
           /\ Go(w, IF j.s \in Training /\ (j.seen.reward \/ j.s \in claimed)
                    THEN AfterPay(j, FALSE) ELSE Idle)
        \/ /\ j.seen.status \in Rewarded
           /\ replay \/ PaidBefore(j) \/ life # j.seen.life
           /\ Go(w, IF replay THEN AfterPay(j, FALSE)
                    ELSE IF PaidBefore(j) THEN AfterPay(j, TRUE)
                    ELSE Flow("forfeit", j.s, j.seen, FALSE, FALSE))
  /\ UNCHANGED <<row, lease, late, over, life, health, rest, books>>

(* The cooldown of the training ground, owned by the session.              *)
TakeRest(w) ==
  /\ job[w].at = "rest"
  /\ LET j == job[w]
         r == row[j.s]
     IN \/ /\ Settled(r)
           /\ Go(w, Idle)
           /\ UNCHANGED <<row, rest>>
        \/ /\ ~Settled(r) /\ r.rested
           /\ Go(w, Flow("finish", j.s, r, FALSE, j.pay))
           /\ UNCHANGED <<row, rest>>
        \/ /\ ~Settled(r) /\ ~r.rested /\ ~Substep(j)
           /\ Go(w, Retry(j, [j EXCEPT !.seen = r]))
           /\ UNCHANGED <<row, rest>>
        \/ /\ ~r.rested /\ Substep(j)
           /\ IF life # j.seen.life
              THEN /\ Go(w, Flow("forfeit", j.s, r, FALSE, FALSE))
                   /\ UNCHANGED <<row, rest>>
              ELSE IF rest \notin {None, j.s}
              THEN Go(w, Idle) /\ UNCHANGED <<row, rest>>
              ELSE /\ rest' = j.s
                   /\ Save(j.s, Rested(r))
                   /\ Go(w, Flow("finish", j.s, Rested(r), FALSE, j.pay))
  /\ UNCHANGED <<lease, late, over, life, health, books>>

(* settlementCompletionPrerequisitesMet                                    *)
Whole(j) ==
  LET r == row[j.s] IN
  /\ Ended(r) /\ r.applied
  /\ r.status \in Rewarded =>
       /\ r.reward \/ j.pay
       /\ j.s \in Training => r.rested

Finish(w) ==
  /\ job[w].at = "finish"
  /\ LET j == job[w] IN
     /\ Expected(j) /\ life = j.seen.life /\ Whole(j)
     /\ Save(j.s, Complete(row[j.s], j.pay))
     /\ Release(j.s)
  /\ Go(w, Idle)
  /\ UNCHANGED <<late, over, life, health, rest, books>>

FinishNot(w) ==
  /\ job[w].at = "finish"
  /\ LET j == job[w]
         fits == Expected(j) /\ life = j.seen.life
     IN \/ /\ Settled(row[j.s])
           /\ Release(j.s)
           /\ Go(w, Idle)
        \/ /\ ~Settled(row[j.s]) /\ ~fits
           /\ Go(w, Retry(j, [j EXCEPT !.seen = row[j.s]]))
           /\ UNCHANGED lease
        \/ /\ fits /\ ~Whole(j)
           /\ Go(w, Idle)
           /\ UNCHANGED lease
  /\ UNCHANGED <<row, late, over, life, health, rest, books>>

(* A fight of a former life is given up, under its exact lease.            *)
GiveUp(w) ==
  /\ job[w].at = "forfeit"
  /\ LET j == job[w] IN
     /\ IF Expected(j) /\ life # j.seen.life /\ lease = j.s
        THEN /\ Save(j.s, Forfeit(row[j.s]))
             /\ Release(j.s)
             /\ rest' = IF rest = j.s THEN None ELSE rest
        ELSE /\ IF Settled(row[j.s]) THEN Release(j.s) ELSE UNCHANGED lease
             /\ UNCHANGED <<row, rest>>
  /\ Go(w, Idle)
  /\ UNCHANGED <<late, over, life, health, books>>

-----------------------------------------------------------------------------
(* The rest of the world *)

(* Fault: a finished fight loses its lease and is not given up.            *)
Remort_KeepsEnded(w) ==
  /\ job[w] = Idle
  /\ life < MaxLife
  /\ lease # Other
  /\ life' = life + 1
  /\ health' \in Health
  /\ IF lease = None THEN UNCHANGED row
     ELSE LET r == row[lease] IN
          Save(lease, IF Ended(r) THEN r ELSE Forfeit(Expire(r)))
  /\ lease' = None
  /\ UNCHANGED <<late, over, rest, job, books>>

(* A remort ends the fight of the old life and takes its lease away.  It is *)
(* a button itself, so the handler that serves it does nothing else.       *)
Remort(w) ==
  /\ job[w] = Idle
  /\ life < MaxLife
  /\ lease # Other
  /\ life' = life + 1
  /\ health' \in Health
  /\ IF lease = None THEN UNCHANGED <<row, rest>>
     ELSE LET r == row[lease] IN
          /\ Save(lease, IF Settled(r) THEN r ELSE Forfeit(Expire(r)))
          /\ rest' = IF rest = lease /\ Ended(r) /\ ~Settled(r)
                     THEN None ELSE rest
  /\ lease' = None
  /\ UNCHANGED <<late, over, job, books>>

(* Duels, party bosses and group combats take and give back the lease.     *)
OtherBattle ==
  /\ \/ lease = None /\ lease' = Other
     \/ lease = Other /\ lease' = None
  /\ UNCHANGED <<row, late, over, life, health, rest, job, books>>

(* Rest, food, blessings and regeneration change the resources.            *)
Recover ==
  /\ health' \in Health \ {health}
  /\ UNCHANGED <<row, lease, late, over, life, rest, job, books>>

(* The clock: a turn's deadline, a session's hour, the cooldown's end.     *)
PassTurn(s) ==
  /\ s \in Started \ late /\ ~Ended(row[s])
  /\ late' = late \cup {s}
  /\ UNCHANGED <<row, lease, over, life, health, rest, job, books>>

PassHour(s) ==
  /\ s \in Started \ over
  /\ over' = over \cup {s}
  /\ UNCHANGED <<row, lease, late, life, health, rest, job, books>>

PassRest ==
  /\ rest # None
  /\ rest' = None
  /\ UNCHANGED <<row, lease, late, over, life, health, job, books>>

(* A process that dies, or a call that fails, forgets what it knew.        *)
Crash(w) ==
  /\ job[w] # Idle
  /\ Go(w, Idle)
  /\ UNCHANGED <<row, lease, late, over, life, health, rest, books>>

Step(w) ==
  \/ Start(w) \/ WriteBack(w) \/ LookAgain(w)
  \/ Move(w) \/ MissTurn(w) \/ ExpireTurn(w) \/ LoseTurn(w)
  \/ ReadHealth(w) \/ Heal(w) \/ HealNot(w) \/ Pay(w) \/ PayNot(w)
  \/ TakeRest(w) \/ Finish(w) \/ FinishNot(w) \/ GiveUp(w)

Next ==
  \/ \E w \in Chat, s \in Session : Approach(w, s) \/ Open(w, s)
  \/ \E w \in Timer, s \in Session : PickDue(w, s)
  \/ \E w \in Worker : Step(w) \/ Crash(w)
  \/ \E s \in Session : PassTurn(s) \/ PassHour(s)
  \/ \E w \in Chat : Glance(w) \/ Remort(w)
  \/ OtherBattle \/ Recover \/ PassRest

Spec == Init /\ [][Next]_vars

-----------------------------------------------------------------------------
(* Properties *)

(* Columns have their types.                                               *)
TypeOK ==
  /\ row \in [Session -> Row \cup {None}]
  /\ lease \in Session \cup {None, Other}
  /\ late \subseteq Started /\ over \subseteq Started
  /\ life \in Lives
  /\ health \in Health
  /\ claimed \subseteq Started
  /\ rest \in Started \cup {None}
  /\ job \in [Worker -> Jobs]
  /\ paidIn \in [Session -> SUBSET Lives]
  /\ healedIn \in [Session -> SUBSET Lives]
  /\ undone \subseteq Started

(* A fight that goes on holds the character's lease, so there is one at    *)
(* most, and a lease of a fight belongs to one that is not settled: nobody *)
(* is locked out of other battles by a fight that is over.                 *)
LeaseIsOwned ==
  /\ \A s \in Started : ~Ended(row[s]) => lease = s
  /\ lease \in Session => lease \in Started /\ ~Settled(row[lease])

(* Reward and resources of a fight reach the life that fought it: a button *)
(* of a former life pays nothing into the next, whatever a call had read.  *)
NothingForALaterLife ==
  \A s \in Started : paidIn[s] \cup healedIn[s] \subseteq {row[s].life}

(* A completed settlement is whole: resources written, and for a win or a  *)
(* loss the reward booked, its replay stored, and the training cooldown    *)
(* taken.  No crash between the transactions leaves out a part.            *)
CompletedIsWhole ==
  \A s \in Started : row[s].settle = "completed" =>
    /\ healedIn[s] # {}
    /\ row[s].status \in Rewarded =>
         s \in claimed /\ row[s].reward /\ (s \in Training => row[s].rested)

(* A finished fight keeps its lease until it is settled, so that a crash   *)
(* between two transactions can be repaired, unless a button has written   *)
(* an outdated state over it.                                              *)
PendingKeepsLease ==
  \A s \in Started \ undone :
    Ended(row[s]) /\ ~Settled(row[s]) => lease = s

(* The same without exception: "pending terminal sessions keep the         *)
(* solo-combat lease until settlement completes or remort forfeits".       *)
PendingAlwaysKeepsLease ==
  \A s \in Started : Ended(row[s]) /\ ~Settled(row[s]) => lease = s

(* The outcome of a fight is final, settlement goes forward only, and what *)
(* is settled is not opened again, but by a button that writes an outdated *)
(* state over it.                                                          *)
SettlementAdvances ==
  [][\A s \in Started \ undone' :
       /\ Ended(row[s]) => row'[s].status = row[s].status
       /\ row'[s].turn >= row[s].turn /\ row'[s].version >= row[s].version
       /\ Settled(row[s]) => row'[s] = row[s]]_vars

=============================================================================
