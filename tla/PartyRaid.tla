------------------------------ MODULE PartyRaid ------------------------------
(***************************************************************************)
(* Gatherings of heroes and the raids they start: PartySession with its    *)
(* participants, PartyBossSession with the actions of a turn, and the      *)
(* combat leases that keep a hero in one battle.                           *)
(*                                                                         *)
(* Every repository call is one transaction of SQLite and one step here;   *)
(* the version a gathering is claimed by is compared with what the same    *)
(* transaction read and is left out.  What takes several transactions is   *)
(* several steps: a chosen action is written by one and the round played   *)
(* by another, and a tick of the scheduler lists first and then starts or  *)
(* plays one raid at a time.  grammY hands the bot one update at a time,   *)
(* so one chat handler runs beside the scheduler.                          *)
(*                                                                         *)
(* A gathering in Barrel is for Big Barrel Brother: it starts by itself    *)
(* when its time is up and pays a victory once per period; the others are  *)
(* plain gatherings with the proof boss, which expire.                     *)
(***************************************************************************)
EXTENDS SequencesExt

CONSTANTS
  Character, Party,
  Barrel,      \* the gatherings for Big Barrel Brother
  Cap,         \* PARTY_SESSION_PARTICIPANT_CAP
  MaxTurn,     \* bound: turns of a raid
  MaxLife,     \* bound: lives of a hero
  Bearer,      \* bound: the heroes who come by the one-use item
  Restless,    \* bound: the heroes who have battles of their own, and remorts
  None

ASSUME RaidAssumption ==
  /\ Barrel \subseteq Party
  /\ Bearer \subseteq Character /\ Restless \subseteq Character
  /\ Cap \in Nat \ {0} /\ MaxTurn \in Nat \ {0} /\ MaxLife \in Nat
  /\ None \notin Character \cup Party /\ "battle" \notin Party

VARIABLES
  party,    \* the gatherings: status, leader, participants in the order they joined
  raid,     \* the raids: status, turn, heroes still standing
  choice,   \* the actions of the current turn of each raid
  late,     \* the raids whose turn has run out, the oldest first
  lease,    \* the battle each hero is in
  life,     \* the number of remorts of a hero
  claim,    \* the Barrel reward of the period: none, a solo raid under way, paid
  tired,    \* the rest after a lost raid
  held,     \* whether the hero owns the one-use item
  hand,     \* the raid whose round the chat handler has yet to play
  clock     \* what the tick of the scheduler still has on its lists
vars == <<party, raid, choice, late, lease, life, claim, tired, held, hand, clock>>

Member == [who: Character, life: 0 .. MaxLife]

\* No gathering, or one that is over: completed, cancelled, expired or found
\* ineligible, its rows are for the record and nobody reads them again.
Over == [status |-> "none", leader |-> None, members |-> <<>>, keyed |-> {}, due |-> FALSE]

Heroes(p) == {party[p].members[i].who : i \in DOMAIN party[p].members}
Live(p) == party[p].status \in {"recruiting", "active"}

\* The gathering whose live membership key a hero holds.
PlaceOf(c) == {p \in Party : c \in party[p].keyed /\ Live(p)}

NoRaid == [status |-> "none", turn |-> 0, up |-> {}]

Init ==
  /\ party = [p \in Party |-> Over]
  /\ raid = [p \in Party |-> NoRaid]
  /\ choice = [p \in Party |-> [c \in Character |-> "none"]]
  /\ late = <<>>
  /\ lease = [c \in Character |-> None]
  /\ life = [c \in Character |-> 0]
  /\ claim \in {f \in [Character -> {"none", "solo"}] : \A c \in Character \ Restless : f[c] = "none"}
  /\ tired = [c \in Character |-> FALSE]
  /\ held = [c \in Character |-> c \in Bearer]
  /\ hand = None
  /\ clock = [phase |-> "play", starts |-> {}, turns |-> <<>>]

(***************************************************************************)
(* Gatherings                                                              *)
(***************************************************************************)
\* A reader expires a plain gathering whose time is up; Big Barrel ones wait
\* for the scheduler.
Overdue(p) == party[p].status = "recruiting" /\ party[p].due /\ p \notin Barrel
ExpireAll == [p \in Party |-> IF Overdue(p) THEN Over ELSE party[p]]
ExpireOne(p) == IF Overdue(p) THEN [party EXCEPT ![p] = Over] ELSE party

\* Fault: the row is booked on the life to come.
NewMember_NextLife(c) == [who |-> c, life |-> life[c] + 1]
NewMember(c) == [who |-> c, life |-> life[c]]

\* Fault: a leader who leaves stays the leader.
Without_Leader(g, c) ==
  LET rest == RemoveFirstMatch(g.members, LAMBDA m : m.who = c)
      out == [g EXCEPT !.members = rest, !.keyed = @ \ {c}]
  IN  IF rest = <<>> THEN Over ELSE out

\* A hero leaves: the next to have joined leads, and the last one out closes.
Without(g, c) ==
  LET rest == RemoveFirstMatch(g.members, LAMBDA m : m.who = c)
      out == [g EXCEPT !.members = rest, !.keyed = @ \ {c}]
  IN  IF rest = <<>> THEN Over
      ELSE [out EXCEPT !.leader = IF @ = c THEN rest[1].who ELSE @]

\* A new gathering and a new raid take the place of those nobody refers to.
Unused(p) == ~Live(p) /\ p \notin Range(clock.turns) /\ \A s \in clock.starts : s.p # p

Create(c, p) ==
  LET now == ExpireAll
      \* the same lookups, after the sweep of the same transaction
      busy == \E q \in Party : c \in now[q].keyed /\ now[q].status \in {"recruiting", "active"}
  IN
  /\ hand = None
  /\ Unused(p)
  /\ p \in Barrel => ~tired[c] /\ claim[c] # "solo"
  /\ ~busy /\ lease[c] = None
  /\ party' = [now EXCEPT ![p] = [status |-> "recruiting", leader |-> c, members |-> <<NewMember(c)>>,
                                  keyed |-> {c}, due |-> FALSE]]
  /\ raid' = [raid EXCEPT ![p] = NoRaid]
  /\ UNCHANGED <<choice, late, lease, life, claim, tired, held, hand, clock>>

\* A personal gathering for the Barrel, given up by joining another one.
Personal(q, c) ==
  party[q].status = "recruiting" /\ q \in Barrel /\ party[q].leader = c /\ Heroes(q) = {c}

MayJoin(c, p) == p \in Barrel => lease[c] = None /\ claim[c] = "none" /\ ~tired[c]

FreeToJoin(c, p) == \A q \in PlaceOf(c) : Personal(q, c)

Join(c, p) ==
  LET q == CHOOSE q \in PlaceOf(c) : TRUE
      moved == IF PlaceOf(c) = {} THEN party ELSE [party EXCEPT ![q] = Over]
  IN
  /\ hand = None
  /\ party[p].status = "recruiting" /\ ~party[p].due
  /\ c \notin Heroes(p)
  /\ MayJoin(c, p)
  /\ Cardinality(Heroes(p)) < Cap
  /\ FreeToJoin(c, p)
  /\ party' = [moved EXCEPT ![p].members = Append(@, NewMember(c)), ![p].keyed = @ \cup {c}]
  /\ UNCHANGED <<raid, choice, late, lease, life, claim, tired, held, hand, clock>>

Leave(c, p) ==
  /\ hand = None
  /\ party[p].status = "recruiting" /\ ~Overdue(p)
  /\ c \in Heroes(p)
  /\ party' = [party EXCEPT ![p] = Without(@, c)]
  /\ UNCHANGED <<raid, choice, late, lease, life, claim, tired, held, hand, clock>>

Cancel(c, p) ==
  /\ hand = None
  /\ party[p].status = "recruiting" /\ ~Overdue(p)
  /\ party[p].leader = c
  /\ party' = [party EXCEPT ![p] = Over]
  /\ UNCHANGED <<raid, choice, late, lease, life, claim, tired, held, hand, clock>>

\* Any card, list or button of a gathering whose time is up expires it.
Look(p) ==
  /\ hand = None
  /\ Overdue(p)
  /\ party' = ExpireOne(p)
  /\ UNCHANGED <<raid, choice, late, lease, life, claim, tired, held, hand, clock>>

(***************************************************************************)
(* Starting a raid                                                         *)
(***************************************************************************)
\* Fault: a reward already booked for the period is not asked for.
Conflict_Paid(p) ==
  IF p \notin Barrel THEN "no"
  ELSE IF \E i \in DOMAIN party[p].members : LET m == party[p].members[i] IN
            claim[m.who] = "solo" \/ life[m.who] # m.life THEN "permanent"
  ELSE IF \E c \in Heroes(p) : tired[c] THEN "transient" ELSE "no"

\* getBigBarrelEligibilityConflict: "permanent" ends a gathering whose time is up.
Conflict(p) ==
  IF p \notin Barrel THEN "no"
  ELSE IF \E i \in DOMAIN party[p].members : LET m == party[p].members[i] IN
            claim[m.who] # "none" \/ life[m.who] # m.life THEN "permanent"
  ELSE IF \E c \in Heroes(p) : tired[c] THEN "transient" ELSE "no"

\* The heroes who enter with health; the rest enter knocked out.
Enter(p) ==
  \E up \in SUBSET Heroes(p) :
    /\ party' = [party EXCEPT ![p].status = "active"]
    /\ raid' = [raid EXCEPT ![p] = [status |-> "active", turn |-> 1, up |-> up]]
    /\ lease' = [c \in Character |-> IF c \in Heroes(p) THEN p ELSE lease[c]]

\* startFromRecruitingPartyForTelegramUser, pressed by or for the hero who leads.
Leads(c, p) == party[p].status = "recruiting" /\ party[p].leader = c
Closes(p) == p \in Barrel /\ Conflict(p) = "permanent" /\ party[p].due
MayEnter(p) == ~Overdue(p) /\ Conflict(p) = "no" /\ \A h \in Heroes(p) : lease[h] = None

Begin(c, p) ==
  /\ Leads(c, p)
  /\ \/ /\ Overdue(p)
        /\ party' = ExpireOne(p)
        /\ UNCHANGED <<raid, lease>>
     \/ /\ Closes(p)
        /\ party' = [party EXCEPT ![p] = Over]
        /\ UNCHANGED <<raid, lease>>
     \/ MayEnter(p) /\ Enter(p)

Start(c, p) ==
  /\ hand = None
  /\ Begin(c, p)
  /\ UNCHANGED <<choice, late, life, claim, tired, held, hand, clock>>

(***************************************************************************)
(* Rounds                                                                  *)
(***************************************************************************)
\* submitAction and submitItem: the choice of this turn, written over; the
\* round is another transaction.
Press(c, p, what) ==
  /\ hand = None
  /\ raid[p].status = "active" /\ c \in raid[p].up
  /\ what = "item" => held[c] /\ lease[c] = p
  /\ choice' = [choice EXCEPT ![p][c] = what]
  /\ hand' = p
  /\ UNCHANGED <<party, raid, late, lease, life, claim, tired, held, clock>>

\* The queued items that are not there any more.
Missing(p) == {c \in raid[p].up : choice[p][c] = "item" /\ ~held[c]}

AllChosen(p) == \A c \in raid[p].up : choice[p][c] # "none"

\* settleTerminalPartyBoss: the worthy of a lost raid get some experience and
\* rest, those of a won one the reward of the period, of their own life only.
SameLife(p) == {c \in Heroes(p) : \E i \in DOMAIN party[p].members :
                                     party[p].members[i] = NewMember(c)}
Settle(p, status) ==
  IF p \notin Barrel THEN UNCHANGED <<claim, tired>>
  ELSE \E worthy \in SUBSET Heroes(p) :
         LET mine == worthy \cap SameLife(p) IN
         /\ claim' = [c \in Character |->
              IF status = "won" /\ c \in mine /\ claim[c] # "paid" THEN "paid" ELSE claim[c]]
         /\ tired' = [c \in Character |-> tired[c] \/ (status = "lost" /\ c \in mine)]

\* Fault: only the leases of those still standing are released.
Release_Standing(p) ==
  /\ party' = [party EXCEPT ![p] = Over]
  /\ lease' = [c \in Character |-> IF lease[c] = p /\ c \in raid[p].up THEN None ELSE lease[c]]

\* releasePartyBossLocks.
Release(p) ==
  /\ party' = [party EXCEPT ![p] = Over]
  /\ lease' = [c \in Character |-> IF lease[c] = p THEN None ELSE lease[c]]

Consume(used) == held' = [c \in Character |-> held[c] /\ c \notin used]

NextStatus(up, slain) == IF slain THEN "won" ELSE IF up = {} THEN "lost" ELSE "active"

\* resolveIfReady: who has chosen nothing defends, used items are taken, and a
\* last round settles and releases in the same transaction.
Play(p) ==
  \E up \in SUBSET raid[p].up, slain \in BOOLEAN,
     used \in SUBSET {c \in raid[p].up : choice[p][c] = "item"} :
    LET status == NextStatus(up, slain) IN
    /\ used \cap Missing(p) = {}
    /\ status = "active" => raid[p].turn < MaxTurn
    /\ raid' = [raid EXCEPT ![p] = IF status = "active"
                                    THEN [status |-> status, turn |-> raid[p].turn + 1, up |-> up]
                                    ELSE NoRaid]
    /\ choice' = [choice EXCEPT ![p] = [c \in Character |-> "none"]]
    /\ late' = RemoveFirst(late, p)
    /\ Consume(used)
    /\ IF status = "active" THEN UNCHANGED <<party, lease, claim, tired>>
       ELSE Settle(p, status) /\ Release(p)

\* A queued item that should be used is gone: the transaction is rolled back
\* and the call fails.
Fail(p) ==
  /\ Missing(p) # {}
  /\ UNCHANGED <<party, raid, choice, late, lease, claim, tired, held>>

Ready(p) == raid[p].status = "active" /\ AllChosen(p)

\* The rest of the handler that wrote a choice.
PlayRound ==
  /\ hand # None
  /\ hand' = None
  /\ \/ Ready(hand) /\ (Play(hand) \/ Fail(hand))
     \/ ~Ready(hand) /\ UNCHANGED <<party, raid, choice, late, lease, claim, tired, held>>
  /\ UNCHANGED <<life, clock>>

(***************************************************************************)
(* The scheduler: one tick lists the gatherings to start, starts them,     *)
(* lists the turns that have run out and plays them, in order.             *)
(***************************************************************************)
Tick ==
  /\ clock.phase = "play" /\ clock.turns = <<>>
  /\ clock' = [phase |-> "start", turns |-> <<>>,
               starts |-> {[p |-> p, leader |-> party[p].leader] :
                             p \in {q \in Barrel : party[q].status = "recruiting" /\ party[q].due}}]
  /\ UNCHANGED <<party, raid, choice, late, lease, life, claim, tired, held, hand>>

StartDue ==
  \E s \in clock.starts :
    /\ clock' = [clock EXCEPT !.starts = @ \ {s}]
    /\ \/ Begin(s.leader, s.p)
       \/ /\ ~(Leads(s.leader, s.p) /\ (Closes(s.p) \/ MayEnter(s.p)))
          /\ UNCHANGED <<party, raid, lease>>
    /\ UNCHANGED <<choice, late, life, claim, tired, held, hand>>

ListTurns ==
  /\ clock.phase = "start" /\ clock.starts = {}
  /\ clock' = [clock EXCEPT !.phase = "play", !.turns = late]
  /\ UNCHANGED <<party, raid, choice, late, lease, life, claim, tired, held, hand>>

\* resolveDueTimedOutByToken; nothing catches a failure, and it ends the tick.
\* Fault: the time that has passed is not looked at.
TurnIsUp_AllChosen(p) == raid[p].status = "active" /\ AllChosen(p)
TurnIsUp(p) == raid[p].status = "active" /\ (p \in Range(late) \/ AllChosen(p))
TimeOut ==
  /\ clock.turns # <<>>
  /\ LET p == Head(clock.turns) IN
     \/ TurnIsUp(p) /\ Play(p) /\ clock' = [clock EXCEPT !.turns = Tail(@)]
     \/ TurnIsUp(p) /\ Fail(p) /\ clock' = [clock EXCEPT !.turns = <<>>]
     \/ /\ ~TurnIsUp(p) /\ clock' = [clock EXCEPT !.turns = Tail(@)]
        /\ UNCHANGED <<party, raid, choice, late, lease, claim, tired, held>>
  /\ UNCHANGED <<life, hand>>

\* The process stops; the handler and the tick it had are gone.
Crash ==
  /\ hand # None \/ clock.starts # {} \/ clock.turns # <<>>
  /\ hand' = None
  /\ clock' = [phase |-> "play", starts |-> {}, turns |-> <<>>]
  /\ UNCHANGED <<party, raid, choice, late, lease, life, claim, tired, held>>

(***************************************************************************)
(* The hero's other affairs                                                *)
(***************************************************************************)
\* A fight, a duel or another battle, with its own lease.
Battle(c) ==
  /\ hand = None
  /\ c \in Restless /\ lease[c] = None
  /\ lease' = [lease EXCEPT ![c] = "battle"]
  /\ UNCHANGED <<party, raid, choice, late, life, claim, tired, held, hand, clock>>

BattleEnds(c) ==
  /\ lease[c] = "battle"
  /\ lease' = [lease EXCEPT ![c] = None]
  /\ UNCHANGED <<party, raid, choice, late, life, claim, tired, held, hand, clock>>

\* A solo Barrel raid begun below the gate of the group raid pays once it is over.
SoloEnds(c) ==
  /\ hand = None
  /\ claim[c] = "solo"
  /\ claim' = [claim EXCEPT ![c] = "paid"]
  /\ UNCHANGED <<party, raid, choice, late, lease, life, tired, held, hand, clock>>

\* The chest or the barter takes the item, which a queued action does not reserve.
Spend(c) ==
  /\ hand = None
  /\ held[c]
  /\ held' = [held EXCEPT ![c] = FALSE]
  /\ UNCHANGED <<party, raid, choice, late, lease, life, claim, tired, hand, clock>>

Gain(c) ==
  /\ hand = None
  /\ c \in Bearer /\ ~held[c]
  /\ held' = [held EXCEPT ![c] = TRUE]
  /\ UNCHANGED <<party, raid, choice, late, lease, life, claim, tired, hand, clock>>

\* COMBAT_LEASE_OWNER_REGISTRY: a fight is expired with its lease, a raid blocks.
MayRemort(c) == lease[c] \notin Party

\* cancelLivePartySessionsForRemort, within the transaction of the remort: a
\* gathering whose time is up is expired whole, any other one only loses the hero.
Remort(c) ==
  /\ hand = None
  /\ c \in Restless /\ life[c] < MaxLife
  /\ MayRemort(c)
  /\ life' = [life EXCEPT ![c] = @ + 1]
  /\ lease' = [lease EXCEPT ![c] = None]
  /\ claim' \in {[claim EXCEPT ![c] = x] : x \in {"none", "solo"}}
  /\ tired' = [tired EXCEPT ![c] = FALSE]
  /\ held' = [held EXCEPT ![c] = FALSE]
  /\ party' = [p \in Party |->
       IF ~(party[p].status = "recruiting" /\ c \in party[p].keyed) THEN party[p]
       ELSE IF party[p].due THEN Over ELSE Without(party[p], c)]
  /\ UNCHANGED <<raid, choice, late, hand, clock>>

PassGathering(p) ==
  /\ party[p].status = "recruiting" /\ ~party[p].due
  /\ party' = [party EXCEPT ![p].due = TRUE]
  /\ UNCHANGED <<raid, choice, late, lease, life, claim, tired, held, hand, clock>>

PassTurn(p) ==
  /\ raid[p].status = "active" /\ p \notin Range(late)
  /\ late' = Append(late, p)
  /\ UNCHANGED <<party, raid, choice, lease, life, claim, tired, held, hand, clock>>

PassRest(c) ==
  /\ tired[c]
  /\ tired' = [tired EXCEPT ![c] = FALSE]
  /\ UNCHANGED <<party, raid, choice, late, lease, life, claim, held, hand, clock>>

Next ==
  \/ \E c \in Character, p \in Party :
       \/ Create(c, p) \/ Join(c, p) \/ Leave(c, p) \/ Cancel(c, p) \/ Start(c, p)
       \/ \E what \in {"act", "item"} : Press(c, p, what)
  \/ \E p \in Party : Look(p) \/ PassGathering(p) \/ PassTurn(p)
  \/ \E c \in Character :
       \/ Battle(c) \/ BattleEnds(c) \/ SoloEnds(c) \/ Spend(c) \/ Gain(c)
       \/ Remort(c) \/ PassRest(c)
  \/ PlayRound \/ Tick \/ StartDue \/ ListTurns \/ TimeOut \/ Crash

Spec == Init /\ [][Next]_vars

\* Time passes, a handler goes on, and the scheduler ticks for as long as the
\* process is not stopped before every one of its turns.
FairSpec ==
  /\ Spec
  /\ SF_vars(Tick) /\ SF_vars(StartDue) /\ SF_vars(ListTurns)
  /\ SF_vars(TimeOut)
  /\ \A p \in Party : WF_vars(PassTurn(p))

(***************************************************************************)
(* Properties                                                              *)
(***************************************************************************)
Gathering == [status: {"none", "recruiting", "active"}, leader: Character \cup {None},
              members: Seq(Member), keyed: SUBSET Character, due: BOOLEAN]
TypeOK ==
  /\ party \in [Party -> Gathering]
  /\ raid \in [Party -> [status: {"none", "active"}, turn: 0 .. MaxTurn,
                         up: SUBSET Character]]
  /\ choice \in [Party -> [Character -> {"none", "act", "item"}]]
  /\ late \in Seq(Party)
  /\ lease \in [Character -> Party \cup {None, "battle"}]
  /\ life \in [Character -> 0 .. MaxLife]
  /\ claim \in [Character -> {"none", "solo", "paid"}]
  /\ tired \in [Character -> BOOLEAN] /\ held \in [Character -> BOOLEAN]
  /\ hand \in Party \cup {None}
  /\ clock \in [phase: {"start", "play"}, starts: SUBSET [p: Barrel, leader: Character],
                turns: Seq(Party)]

\* A hero is in one gathering that lives, by its row and by its unique key, and
\* such a gathering is led by one of its heroes: joins that give up another
\* gathering, leaders who leave, remorts and endings all keep it so.
OnePlace ==
  /\ \A p \in Party : party[p].keyed = IF Live(p) THEN Heroes(p) ELSE {}
  /\ \A p \in Party : Live(p) => party[p].leader \in Heroes(p)
  /\ \A c \in Character : Cardinality({p \in Party : Live(p) /\ c \in Heroes(p)}) <= 1

\* The heroes of a raid under way hold its lease, and nobody else holds one: no
\* hero is in two battles, and none is left locked after the last round.
CrewHoldsLeases ==
  \A p \in Party :
    /\ raid[p].status = "active" <=> party[p].status = "active"
    /\ {c \in Character : lease[c] = p} = IF party[p].status = "active" THEN Heroes(p) ELSE {}

\* Whoever is in a raid on the Barrel may be paid for it at its end: the hero is
\* in the life that joined, and the period has been neither paid nor begun alone.
NobodyFightsForNothing ==
  \A p \in Barrel : raid[p].status = "active" =>
    SameLife(p) = Heroes(p) /\ \A c \in Heroes(p) : claim[c] = "none"

\* No turn of this gathering lasts: a next one comes, or the raid is over.
TurnsGoOn(p) ==
  []<>(raid[p].status = "none") \/ []<><<raid[p].turn' # raid[p].turn>>_raid
ItemGone == \E p \in Party : raid[p].status = "active" /\ Missing(p) # {}

\* Every turn of every raid is played in the end, whatever the heroes do not
\* press and wherever the process stops, unless queued items keep going missing.
TurnEnds == []<>ItemGone \/ \A p \in Party : TurnsGoOn(p)

\* docs/tasks/0.2.17-big-barrel-brother-raid-mvp.md: "Timeout resolution fills
\* missing actions with deterministic defend", so every turn ends.
TurnAlwaysEnds == \A p \in Party : TurnsGoOn(p)
=============================================================================
