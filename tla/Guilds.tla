------------------------------- MODULE Guilds -------------------------------
(***************************************************************************)
(* Guilds: previews and charters, invitations, roles, leadership, leaving  *)
(* and disbanding (prismaGuildRepository.ts).  An action is a committed    *)
(* transaction.  A charter that has run out stays in the table until some  *)
(* transaction meets it: the transactions that tidy up take a batch of     *)
(* such guilds, all others only the guilds they are about.                 *)
(* Rows that no transaction can act on any more (a guild that is over and  *)
(* whose name is free, an answered invitation, a used preview) are dropped.*)
(***************************************************************************)
EXTENDS Integers, FiniteSets

CONSTANTS
  User, Guild, Name, Crest,
  None,
  Capacity,     \* GUILD_INITIAL_MEMBER_CAPACITY
  Officers,     \* GUILD_MAX_OFFICERS
  MaxIncoming,  \* INVITE_TTL_LIMIT
  Batch,        \* CLEANUP_BATCH
  Cost,         \* GUILD_CREATION_GOLD
  Design,       \* bound: the names and crests that previews ask for
  Founder,      \* bound: the users who reach the level of a founder
  MaxGold,      \* bound: gold of a character
  MaxLife       \* bound: lives of a character

ASSUME GuildAssumption ==
  /\ IsFiniteSet(User) /\ IsFiniteSet(Guild)
  /\ None \notin User \cup Guild \cup Name \cup Crest
  /\ Capacity \in Nat \ {0, 1} /\ Officers \in Nat /\ MaxIncoming \in Nat /\ Batch \in Nat
  /\ Cost \in Nat \ {0} /\ MaxGold \in Nat /\ MaxLife \in Nat
  /\ Founder \subseteq User /\ Design \subseteq Name \X (Crest \cup {None})

VARIABLES
  guild,    \* a guild's row
  role,     \* its current members (active_user_key is set) and their roles
  invite,   \* its invitation of a user, and whose it is
  optIn,    \* the users whose personal code is valid
  intent,   \* a user's pending preview of a guild
  card,     \* what the last card of its guild showed a user, while its version
            \* is the guild's
  gold, life,
  fit,      \* the users whose level allows to found a guild
  cooling   \* the users whose founder cooldown lasts

vars == <<guild, role, invite, optIn, intent, card, gold, life, fit, cooling>>
person == <<gold, life, fit, cooling>>

Roles == {"none", "member", "officer", "leader"}
NoGuild == [status |-> "none", leader |-> None, nominee |-> None, name |-> None,
            crest |-> None, late |-> FALSE, free |-> FALSE]
NoInvite == [status |-> "none", by |-> None]
NoMembers == [u \in User |-> "none"]

Live(g) == guild[g].status \in {"forming", "active"}
Members(g) == {u \in User : role[g][u] # "none"}
View(g) == [guild |-> g, leader |-> guild[g].leader, nominee |-> guild[g].nominee,
            roles |-> role[g]]

Init ==
  /\ guild = [g \in Guild |-> NoGuild]
  /\ role = [g \in Guild |-> NoMembers]
  /\ invite = [g \in Guild |-> [u \in User |-> NoInvite]]
  /\ optIn = {}
  /\ intent = [u \in User |-> None]
  /\ card = [u \in User |-> None]
  /\ gold = [u \in User |-> MaxGold]
  /\ life = [u \in User |-> 0]
  /\ fit = Founder
  /\ cooling = {}

(***************************************************************************)
(* Charters that have run out                                              *)
(***************************************************************************)
Late == {g \in Guild : guild[g].late /\ guild[g].status = "forming"}
LateOf(u) == {g \in Late : role[g][u] # "none"}

\* maintainGuildState takes the oldest; which they are is left open.
Sweeps == {S \in SUBSET Late :
             Cardinality(S) = IF Cardinality(Late) < Batch THEN Cardinality(Late) ELSE Batch}

\* What is left of a guild: its name, held for some time.
Over(r) == [status |-> "over", leader |-> None, nominee |-> None, name |-> r.name,
            crest |-> None, late |-> FALSE, free |-> r.free]
\* terminalizeGuildIfDue for the guilds E.
Closed(E) == [g \in Guild |-> IF g \in E THEN Over(guild[g]) ELSE guild[g]]
RolesAfter(E) == [g \in Guild |-> IF g \in E THEN NoMembers ELSE role[g]]
InvitesAfter(E) == [g \in Guild |-> IF g \in E THEN [u \in User |-> NoInvite] ELSE invite[g]]
\* The guilds E have a new version, so older cards of theirs count no more.
CardsAfter(E) == [u \in User |->
  IF card[u] # None /\ card[u].guild \in E THEN None ELSE card[u]]

\* Names whose time of holding is over are given up by the same sweep.
GuildsAfter(E) ==
  LET after == Closed(E) IN
  [g \in Guild |-> IF after[g].status = "over" /\ after[g].free THEN NoGuild ELSE after[g]]

InGuild(u, E) == \E g \in Guild \ E : Live(g) /\ role[g][u] # "none"

Close(E) ==
  /\ guild' = GuildsAfter(E) /\ role' = RolesAfter(E)
  /\ invite' = InvitesAfter(E) /\ card' = CardsAfter(E)

\* Any read, and any call that is refused after it met such guilds.
Look ==
  /\ \E E \in SUBSET Late : Close(E)
  /\ UNCHANGED <<optIn, intent, person>>

\* getHubForTelegramUser, for a member.
Hub(u, g) ==
  /\ role[g][u] # "none" /\ Live(g)
  /\ \E S \in Sweeps :
       LET E == S \cup LateOf(u) \cup {h \in Late : invite[h][u].status = "pending"} IN
       /\ g \notin E
       /\ guild' = GuildsAfter(E) /\ role' = RolesAfter(E) /\ invite' = InvitesAfter(E)
       /\ card' = [CardsAfter(E) EXCEPT ![u] = View(g)]
  /\ UNCHANGED <<optIn, intent, person>>

(***************************************************************************)
(* Founding                                                                *)
(***************************************************************************)
MayFound(u, E) == u \in fit /\ u \notin cooling /\ ~InGuild(u, E)

\* createIntentForTelegramUser, createCustomIntentForTelegramUser: a new preview
\* replaces the old one.  A guild with a crest of its own has no crest here.
Preview(u, n, c) ==
  /\ \E S \in Sweeps : LET E == S \cup LateOf(u) IN MayFound(u, E) /\ Close(E)
  /\ intent' = [intent EXCEPT ![u] = [life |-> life[u], name |-> n, crest |-> c]]
  /\ UNCHANGED <<optIn, person>>

\* Fault: a guild that is over is not asked for its name.
NameTaken_Living(n, E) ==
  \E g \in Guild : GuildsAfter(E)[g].name = n /\ GuildsAfter(E)[g].status # "over"
\* releaseSpecificNameReservationIfDue, releaseSpecificCrestReservationIfDue.
NameTaken(n, E) == \E g \in Guild : GuildsAfter(E)[g].name = n
CrestTaken(c, E) == c # None /\ \E g \in Guild : GuildsAfter(E)[g].crest = c

LateOwners(n, c) == {g \in Late : guild[g].name = n \/ (c # None /\ guild[g].crest = c)}

\* Fault: the purse is not looked at.
CanPay_Always(u) == TRUE
CanPay(u) == gold[u] >= Cost

WithoutPending(i) == IF i.status = "pending" THEN NoInvite ELSE i
\* Fault: the invitations of a user who joins stay open.
Answered_Open(u, E) == InvitesAfter(E)
\* terminalizeIncomingInvites.
Answered(u, E) == [g \in Guild |-> [InvitesAfter(E)[g] EXCEPT ![u] = WithoutPending(@)]]

\* The row of a new guild.
Charter(u, i) == [status |-> "forming", leader |-> u, nominee |-> None, name |-> i.name,
                  crest |-> i.crest, late |-> FALSE, free |-> FALSE]

\* confirmCreateForTelegramUser.
Confirm(u, g) ==
  LET i == intent[u] IN
  /\ i # None /\ i.life = life[u] /\ guild[g].status = "none"
  /\ \E S \in Sweeps :
       LET E == S \cup LateOf(u) \cup LateOwners(i.name, i.crest) IN
       /\ MayFound(u, E) /\ CanPay(u)
       /\ ~NameTaken(i.name, E) /\ ~CrestTaken(i.crest, E)
       /\ guild' = [GuildsAfter(E) EXCEPT ![g] = Charter(u, i)]
       /\ role' = [RolesAfter(E) EXCEPT ![g][u] = "leader"]
       /\ invite' = Answered(u, E) /\ card' = CardsAfter(E)
  /\ optIn' = optIn \ {u}
  /\ intent' = [intent EXCEPT ![u] = None]
  /\ gold' = [gold EXCEPT ![u] = @ - Cost]
  /\ cooling' = cooling \cup {u}
  /\ UNCHANGED <<life, fit>>

ConfirmTaken(u) ==
  LET i == intent[u] IN
  /\ i # None /\ i.life = life[u] /\ u \in fit
  /\ \E S \in Sweeps :
       LET N == S \cup LateOf(u) \cup LateOwners(i.name, None)
           E == N \cup LateOwners(i.name, i.crest) IN
       /\ ~InGuild(u, N)
       /\ \/ NameTaken(i.name, N) /\ Close(N)
          \/ ~NameTaken(i.name, N) /\ CrestTaken(i.crest, E) /\ Close(E)
  /\ intent' = [intent EXCEPT ![u] = None]
  /\ UNCHANGED <<optIn, person>>

(***************************************************************************)
(* Invitations                                                             *)
(***************************************************************************)
\* createInviteOptInForTelegramUser.
OptIn(u) ==
  /\ \E S \in Sweeps : LET E == S \cup LateOf(u) IN ~InGuild(u, E) /\ Close(E)
  /\ optIn' = optIn \cup {u}
  /\ UNCHANGED <<intent, person>>

\* createInviteForTelegramUser; the rate limit of an inviter, which only
\* refuses, is left out.
Invite(a, u, g) ==
  /\ role[g][a] \in {"officer", "leader"} /\ a # u /\ u \in optIn
  /\ \E S \in Sweeps :
       LET E == S \cup LateOf(a) \cup LateOf(u) IN
       /\ Live(g) /\ g \notin E /\ ~InGuild(u, E)
       /\ Cardinality(Members(g)) < Capacity
       /\ invite[g][u] = NoInvite
       /\ Cardinality({h \in Guild : InvitesAfter(E)[h][u].status = "pending"}) < MaxIncoming
       /\ guild' = GuildsAfter(E) /\ role' = RolesAfter(E) /\ card' = CardsAfter(E)
       /\ invite' = [InvitesAfter(E) EXCEPT ![g][u] = [status |-> "pending", by |-> a]]
  /\ UNCHANGED <<optIn, intent, person>>

\* respondToInvite: the guild it is for is closed if its charter has run out,
\* and the answer is then refused (Look).
MayAnswer(g) == Live(g) /\ g \notin Late

\* Fault: cards shown before the new member came still count.
Accept_Unversioned(u, g) ==
  /\ invite[g][u].status = "pending" /\ MayAnswer(g)
  /\ \E S \in Sweeps :
       LET E == S \cup LateOf(u) IN
       /\ ~InGuild(u, E) /\ Cardinality(Members(g)) < Capacity
       /\ guild' = [GuildsAfter(E) EXCEPT ![g].status = "active"]
       /\ role' = [RolesAfter(E) EXCEPT ![g][u] = "member"]
       /\ invite' = Answered(u, E) /\ card' = CardsAfter(E)
  /\ optIn' = optIn \ {u}
  /\ UNCHANGED <<intent, person>>

Accept(u, g) ==
  /\ invite[g][u].status = "pending" /\ MayAnswer(g)
  /\ \E S \in Sweeps :
       LET E == S \cup LateOf(u) IN
       /\ ~InGuild(u, E) /\ Cardinality(Members(g)) < Capacity
       /\ guild' = [GuildsAfter(E) EXCEPT ![g].status =
            IF @ = "forming" /\ Cardinality(Members(g)) = 1 THEN "active" ELSE @]
       /\ role' = [RolesAfter(E) EXCEPT ![g][u] = "member"]
       /\ invite' = Answered(u, E) /\ card' = CardsAfter(E \cup {g})
  /\ optIn' = optIn \ {u}
  /\ UNCHANGED <<intent, person>>

Decline(u, g) ==
  /\ invite[g][u].status = "pending" /\ MayAnswer(g)
  /\ \E S \in Sweeps :
       LET E == S \cup LateOf(u) IN
       /\ guild' = GuildsAfter(E) /\ role' = RolesAfter(E) /\ card' = CardsAfter(E)
       /\ invite' = [InvitesAfter(E) EXCEPT ![g][u] = [status |-> "declined", by |-> None]]
  /\ UNCHANGED <<optIn, intent, person>>

\* An officer cancels only what the present membership has sent.
CancelInvite(a, u, g) ==
  /\ invite[g][u].status = "pending" /\ MayAnswer(g)
  /\ role[g][a] = "leader" \/ (role[g][a] = "officer" /\ invite[g][u].by = a)
  /\ \E S \in Sweeps :
       /\ guild' = GuildsAfter(S) /\ role' = RolesAfter(S) /\ card' = CardsAfter(S)
       /\ invite' = [InvitesAfter(S) EXCEPT ![g][u] = NoInvite]
  /\ UNCHANGED <<optIn, intent, person>>

(***************************************************************************)
(* Members and leaders                                                     *)
(***************************************************************************)
\* claimGuildVersion: the button carries the version of the card it was on.
Claim(a, g) == card[a] # None /\ card[a].guild = g /\ Live(g) /\ g \notin Late
Leads(a, g) == role[g][a] = "leader"
Under(u, g) == role[g][u] \in {"member", "officer"}

OfficersOf(g, others) == {u \in User \ others : role[g][u] = "officer"}

\* updateProfileForTelegramUser, and with no crest its custom and description forms.
EditProfile(a, g, c) ==
  LET E == {h \in Late : c # None /\ guild[h].crest = c} IN
  /\ Claim(a, g) /\ Leads(a, g)
  /\ \A h \in Guild \ (E \cup {g}) : c # None => guild[h].crest # c
  /\ guild' = [Closed(E) EXCEPT ![g].crest = c]
  /\ role' = RolesAfter(E) /\ invite' = InvitesAfter(E) /\ card' = CardsAfter(E \cup {g})
  /\ UNCHANGED <<optIn, intent, person>>

\* setMemberRoleForTelegramUser.
SetRole(a, u, r, g) ==
  /\ Claim(a, g) /\ Leads(a, g) /\ Under(u, g)
  /\ r = "officer" /\ role[g][u] # "officer" => Cardinality(OfficersOf(g, {})) < Officers
  /\ role' = [role EXCEPT ![g][u] = r]
  /\ guild' = [guild EXCEPT ![g].nominee = IF r = "member" /\ @ = u THEN None ELSE @]
  /\ card' = CardsAfter({g})
  /\ UNCHANGED <<invite, optIn, intent, person>>

\* offerLeadershipForTelegramUser.
OfferLeadership(a, u, g) ==
  /\ Claim(a, g) /\ Leads(a, g) /\ Under(u, g)
  /\ guild' = [guild EXCEPT ![g].nominee = u]
  /\ card' = CardsAfter({g})
  /\ UNCHANGED <<role, invite, optIn, intent, person>>

\* acceptLeadershipForTelegramUser: the old leader is an officer if there is room.
AcceptLeadership(a, g) ==
  /\ Claim(a, g) /\ Under(a, g) /\ guild[g].nominee = a
  /\ role[g][guild[g].leader] # "none"
  /\ role' = [role EXCEPT ![g][a] = "leader", ![g][guild[g].leader] =
       IF Cardinality(OfficersOf(g, {a})) >= Officers THEN "member" ELSE "officer"]
  /\ guild' = [guild EXCEPT ![g].leader = a, ![g].nominee = None]
  /\ card' = CardsAfter({g})
  /\ UNCHANGED <<invite, optIn, intent, person>>

\* closeMembership: what the membership has sent stays, but is nobody's.
Parted(u, g) ==
  /\ role' = [role EXCEPT ![g][u] = "none"]
  /\ invite' = [invite EXCEPT ![g] = [v \in User |->
       IF @[v].by = u THEN [@[v] EXCEPT !.by = None] ELSE @[v]]]
  /\ card' = CardsAfter({g})
  /\ UNCHANGED <<optIn, intent, person>>

\* kickMemberForTelegramUser.
Kick(a, u, g) ==
  /\ Claim(a, g) /\ Leads(a, g) /\ Under(u, g)
  /\ guild' = [guild EXCEPT ![g].nominee = IF @ = u THEN None ELSE @]
  /\ Parted(u, g)

\* Fault: the offer of leadership outlives the membership.
Leave_Nominated(a, g) ==
  /\ Claim(a, g) /\ Under(a, g)
  /\ guild' = guild
  /\ Parted(a, g)

\* leaveForTelegramUser.
Leave(a, g) ==
  /\ Claim(a, g) /\ Under(a, g)
  /\ guild' = [guild EXCEPT ![g].nominee = IF @ = a THEN None ELSE @]
  /\ Parted(a, g)

\* deleteForTelegramUser: softDisbandGuild by a leader who is alone.
Disband(a, g) ==
  /\ Claim(a, g) /\ Leads(a, g) /\ Cardinality(Members(g)) = 1
  /\ guild' = Closed({g}) /\ role' = RolesAfter({g})
  /\ invite' = InvitesAfter({g}) /\ card' = CardsAfter({g})
  /\ UNCHANGED <<optIn, intent, person>>

(***************************************************************************)
(* The clock                                                               *)
(***************************************************************************)
\* CHARTER_TTL_MS is FOUNDER_COOLDOWN_MS: both run out at once.
PassCharter(g) ==
  /\ guild[g].status = "forming" /\ ~guild[g].late
  /\ guild' = [guild EXCEPT ![g].late = TRUE]
  /\ cooling' = cooling \ {guild[g].leader}
  /\ UNCHANGED <<role, invite, optIn, intent, card, gold, life, fit>>

\* A name is held some time after the charter or the disbanding.
PassHold(g) ==
  /\ guild[g].status = "over" \/ g \in Late
  /\ ~guild[g].free
  /\ guild' = [guild EXCEPT ![g].free = TRUE]
  /\ UNCHANGED <<role, invite, optIn, intent, card, person>>

\* An invitation that is due, and a decline that is forgiven.
PassInvite(g, u) ==
  /\ invite[g][u].status # "none"
  /\ invite' = [invite EXCEPT ![g][u] = NoInvite]
  /\ UNCHANGED <<guild, role, optIn, intent, card, person>>

PassOptIn(u) ==
  /\ u \in optIn /\ optIn' = optIn \ {u}
  /\ UNCHANGED <<guild, role, invite, intent, card, person>>

PassIntent(u) ==
  /\ intent[u] # None /\ intent' = [intent EXCEPT ![u] = None]
  /\ UNCHANGED <<guild, role, invite, optIn, card, person>>

PassCooldown(u) ==
  /\ u \in cooling /\ \A g \in Guild : guild[g].status = "forming" => guild[g].leader # u
  /\ cooling' = cooling \ {u}
  /\ UNCHANGED <<guild, role, invite, optIn, intent, card, gold, life, fit>>

(***************************************************************************)
(* The character's other affairs; a guild belongs to the user and stays    *)
(***************************************************************************)
Earn(u) ==
  /\ gold[u] < MaxGold /\ gold' = [gold EXCEPT ![u] = @ + 1]
  /\ UNCHANGED <<guild, role, invite, optIn, intent, card, life, fit, cooling>>

Grow(u) ==
  /\ u \in Founder \ fit /\ fit' = fit \cup {u}
  /\ UNCHANGED <<guild, role, invite, optIn, intent, card, gold, life, cooling>>

\* A remort, or a restart and a new character.
NewLife(u) ==
  /\ u \in Founder /\ life[u] < MaxLife
  /\ life' = [life EXCEPT ![u] = @ + 1]
  /\ gold' = [gold EXCEPT ![u] = 0] /\ fit' = fit \ {u}
  /\ UNCHANGED <<guild, role, invite, optIn, intent, card, cooling>>

Next ==
  \/ Look
  \/ \E u \in User : \E d \in Design : Preview(u, d[1], d[2])
  \/ \E u \in User : ConfirmTaken(u) \/ OptIn(u) \/ PassOptIn(u) \/ PassIntent(u)
                     \/ PassCooldown(u) \/ Earn(u) \/ Grow(u) \/ NewLife(u)
  \/ \E u \in User, g \in Guild :
       \/ Hub(u, g) \/ Confirm(u, g) \/ Accept(u, g) \/ Decline(u, g) \/ PassInvite(g, u)
       \/ AcceptLeadership(u, g) \/ Leave(u, g) \/ Disband(u, g)
       \/ \E c \in Crest \cup {None} : EditProfile(u, g, c)
  \/ \E a, u \in User, g \in Guild :
       \/ Invite(a, u, g) \/ CancelInvite(a, u, g) \/ Kick(a, u, g) \/ OfferLeadership(a, u, g)
       \/ \E r \in {"member", "officer"} : SetRole(a, u, r, g)
  \/ \E g \in Guild : PassCharter(g) \/ PassHold(g)

Spec == Init /\ [][Next]_vars

(***************************************************************************)
(* Properties                                                              *)
(***************************************************************************)
GuildRow == [status : {"none", "forming", "active", "over"}, leader : User \cup {None},
             nominee : User \cup {None}, name : Name \cup {None},
             crest : Crest \cup {None}, late : BOOLEAN, free : BOOLEAN]
InviteRow == [status : {"none", "pending", "declined"}, by : User \cup {None}]
Card == [guild : Guild, leader : User \cup {None}, nominee : User \cup {None},
         roles : [User -> Roles]]

\* Types; no purse falls below zero.
TypeOK ==
  /\ guild \in [Guild -> GuildRow]
  /\ role \in [Guild -> [User -> Roles]]
  /\ invite \in [Guild -> [User -> InviteRow]]
  /\ optIn \subseteq User /\ fit \subseteq User /\ cooling \subseteq User
  /\ intent \in [User -> [life : Nat, name : Name, crest : Crest \cup {None}] \cup {None}]
  /\ card \in [User -> Card \cup {None}]
  /\ gold \in [User -> Nat] /\ life \in [User -> Nat]

\* A living guild has one leader, the user its row names, and only a member who
\* does not lead may be offered the lead; before the second user comes the
\* founder is alone.  A guild that is over leaves no member, no invitation, no
\* offer and no crest behind, whoever noticed its end.
Led ==
  \A g \in Guild :
    IF Live(g)
    THEN /\ \A u \in User : role[g][u] = "leader" <=> u = guild[g].leader
         /\ guild[g].leader \in User
         /\ guild[g].nominee # None => Under(guild[g].nominee, g)
         /\ guild[g].status = "forming" => Members(g) = {guild[g].leader}
    ELSE /\ Members(g) = {} /\ guild[g].nominee = None /\ guild[g].crest = None
         /\ \A u \in User : invite[g][u] = NoInvite

\* A user is in one guild, and then no invitation and no personal code is open:
\* joining closes what others have sent.  A roster holds no more members and
\* officers than it may.
OneGuild ==
  /\ \A g, h \in Guild : g # h => Members(g) \cap Members(h) = {}
  /\ \A g \in Guild : \A u \in Members(g) :
       u \notin optIn /\ \A h \in Guild : invite[h][u].status # "pending"
  /\ \A g \in Guild : Cardinality(Members(g)) <= Capacity /\ Cardinality(OfficersOf(g, {})) <= Officers

\* A button is obeyed only while its card is of the guild's version: such a card
\* shows who is in the guild, who leads and who is offered the lead, as it is now.
\* So nobody kicks, promotes or succeeds on the strength of an older roster.
CardsTell ==
  \A u \in User : card[u] # None => card[u] = View(card[u].guild) /\ Live(card[u].guild)

\* Gold is taken for a new guild only, once, at its price, from the life that saw
\* the preview; the guild is the user's alone, and no other guild, living or
\* over, holds its name or its crest.  And no guild comes for nothing.
Founded(u, g) ==
  /\ guild[g].status = "none" /\ guild'[g].status = "forming" /\ guild'[g].leader = u
  /\ intent[u] # None /\ intent[u].life = life[u] /\ intent'[u] = None
  /\ {v \in User : role'[g][v] # "none"} = {u}
  /\ \A h \in Guild \ {g} : /\ guild'[h].name # guild'[g].name
                            /\ guild'[g].crest # None => guild'[h].crest # guild'[g].crest
FeeBuysAGuild ==
  [][/\ \A u \in User : gold'[u] < gold[u] /\ life'[u] = life[u] =>
          gold'[u] = gold[u] - Cost /\ \E g \in Guild : Founded(u, g)
     /\ \A g \in Guild : guild[g].status = "none" /\ guild'[g].status # "none" =>
          \E u \in User : gold'[u] = gold[u] - Cost /\ Founded(u, g)]_vars
=============================================================================
