---------------------------- MODULE GuildsProofs ----------------------------
(***************************************************************************)
(* What holds of guilds for every number of users, guilds, names, crests,  *)
(* lives and gold, and for every capacity.                                 *)
(***************************************************************************)
EXTENDS Guilds, FiniteSetTheorems, TLAPS

-----------------------------------------------------------------------------
(* The invariant, of any tables *)

LiveRow(r) == r.status \in {"forming", "active"}

(* Led, of one guild: its row, its members and its invitations.            *)
LedAt(r, m, i) ==
  IF LiveRow(r)
  THEN /\ \A u \in User : m[u] = "leader" <=> u = r.leader
       /\ r.leader \in User
       /\ r.nominee # None => m[r.nominee] \in {"member", "officer"}
       /\ r.status = "forming" => \A u \in User : m[u] # "none" <=> u = r.leader
  ELSE /\ \A u \in User : m[u] = "none" /\ i[u] = NoInvite
       /\ r.nominee = None /\ r.crest = None

MembersIn(m) == {u \in User : m[u] # "none"}
OfficersIn(m) == {u \in User : m[u] = "officer"}
Sized(m) == Cardinality(MembersIn(m)) <= Capacity /\ Cardinality(OfficersIn(m)) <= Officers

(* A card tells what is in the tables.                                     *)
Tells(c, gs, rs) ==
  /\ LiveRow(gs[c.guild])
  /\ c.leader = gs[c.guild].leader /\ c.nominee = gs[c.guild].nominee /\ c.roles = rs[c.guild]

Typed(gs, rs, is, o, cs) ==
  /\ gs \in [Guild -> GuildRow] /\ rs \in [Guild -> [User -> Roles]]
  /\ is \in [Guild -> [User -> InviteRow]] /\ o \subseteq User
  /\ cs \in [User -> Card \cup {None}]

Good(gs, rs, is, o, cs) ==
  /\ Typed(gs, rs, is, o, cs)
  /\ \A g \in Guild : LedAt(gs[g], rs[g], is[g]) /\ Sized(rs[g])
  /\ \A g, h \in Guild : g # h => \A u \in User : rs[g][u] = "none" \/ rs[h][u] = "none"
  /\ \A g \in Guild : \A u \in User : rs[g][u] # "none" =>
       u \notin o /\ \A h \in Guild : is[h][u].status # "pending"
  /\ \A u \in User : cs[u] # None => Tells(cs[u], gs, rs)

People == /\ fit \subseteq User /\ cooling \subseteq User
          /\ intent \in [User -> [life : Nat, name : Name, crest : Crest \cup {None}] \cup {None}]
          /\ gold \in [User -> Nat] /\ life \in [User -> Nat]

Tables == Good(guild, role, invite, optIn, card)
IndInv == Tables /\ People

LEMMA TablesMean ==
  ASSUME TypeOK
  PROVE  Tables <=> Led /\ OneGuild /\ CardsTell
<1>1. ASSUME NEW g \in Guild
      PROVE  /\ MembersIn(role[g]) = Members(g) /\ OfficersIn(role[g]) = OfficersOf(g, {})
             /\ LiveRow(guild[g]) <=> Live(g)
  BY DEF MembersIn, OfficersIn, Members, OfficersOf, LiveRow, Live
<1>2. Led <=> \A g \in Guild : LedAt(guild[g], role[g], invite[g])
  BY DEF Led, LedAt, Live, LiveRow, Members, Under, TypeOK, GuildRow
<1>3. CardsTell <=> \A u \in User : card[u] # None => Tells(card[u], guild, role)
  <2>1. ASSUME NEW u \in User, card[u] # None
        PROVE  card[u] = View(card[u].guild) <=> /\ card[u].leader = guild[card[u].guild].leader
                                                 /\ card[u].nominee = guild[card[u].guild].nominee
                                                 /\ card[u].roles = role[card[u].guild]
    BY <2>1 DEF TypeOK, View, Card
  <2>2. QED
    BY <2>1, <1>1 DEF CardsTell, Tells, TypeOK, Card, Live, LiveRow
<1>4. (\A g, h \in Guild : g # h => Members(g) \cap Members(h) = {})
      <=> \A g, h \in Guild : g # h => \A u \in User : role[g][u] = "none" \/ role[h][u] = "none"
  BY DEF Members
<1>5. OneGuild <=>
      /\ \A g, h \in Guild : g # h => \A u \in User : role[g][u] = "none" \/ role[h][u] = "none"
      /\ \A g \in Guild : \A u \in User : role[g][u] # "none" =>
           u \notin optIn /\ \A h \in Guild : invite[h][u].status # "pending"
      /\ \A g \in Guild : Sized(role[g])
  BY <1>1, <1>4 DEF OneGuild, Sized, Members
<1>6. Typed(guild, role, invite, optIn, card)
  BY DEF Typed, TypeOK
<1>7. QED
  BY <1>2, <1>3, <1>5, <1>6 DEF Tables, Good

-----------------------------------------------------------------------------
(* Sizes *)

LEMMA NobodySized == Sized(NoMembers)
<1>1. MembersIn(NoMembers) = {} /\ OfficersIn(NoMembers) = {}
  BY DEF MembersIn, OfficersIn, NoMembers
<1>2. QED
  BY <1>1, FS_EmptySet, GuildAssumption DEF Sized

(* A roster that has lost members or officers is none too many.            *)
LEMMA SmallerSized ==
  ASSUME NEW m, NEW n, Sized(m),
         MembersIn(n) \subseteq MembersIn(m), OfficersIn(n) \subseteq OfficersIn(m)
  PROVE  Sized(n)
<1>1. IsFiniteSet(MembersIn(m)) /\ IsFiniteSet(OfficersIn(m))
  BY FS_Subset, GuildAssumption DEF MembersIn, OfficersIn
<1>2. /\ Cardinality(MembersIn(n)) <= Cardinality(MembersIn(m))
      /\ Cardinality(OfficersIn(n)) <= Cardinality(OfficersIn(m))
  BY <1>1, FS_Subset
<1>3. /\ Cardinality(MembersIn(m)) \in Nat /\ Cardinality(OfficersIn(m)) \in Nat
      /\ Cardinality(MembersIn(n)) \in Nat /\ Cardinality(OfficersIn(n)) \in Nat
  BY <1>1, FS_CardinalityType, FS_Subset
<1>4. QED
  BY <1>2, <1>3, GuildAssumption DEF Sized

(* Where there is room, one more fits.                                     *)
LEMMA OneMore ==
  ASSUME NEW S \in SUBSET User, NEW T \in SUBSET User, NEW u \in User, NEW N \in Nat,
         T \subseteq S \cup {u}, ~(Cardinality(S) >= N)
  PROVE  Cardinality(T) <= N
<1>1. IsFiniteSet(S) /\ IsFiniteSet(S \cup {u})
  BY FS_Subset, FS_AddElement, GuildAssumption
<1>2. /\ Cardinality(S) \in Nat /\ Cardinality(S \cup {u}) \in Nat
      /\ Cardinality(S \cup {u}) <= Cardinality(S) + 1
  BY <1>1, FS_AddElement, FS_CardinalityType
<1>3. IsFiniteSet(T) /\ Cardinality(T) <= Cardinality(S \cup {u}) /\ Cardinality(T) \in Nat
  BY <1>1, FS_Subset, FS_CardinalityType
<1>4. QED
  BY <1>2, <1>3

-----------------------------------------------------------------------------
(* Changes of the tables *)

(* The guilds E are over.                                                  *)
LEMMA Sweep ==
  ASSUME Tables, NEW E \in SUBSET Late
  PROVE  /\ Good(GuildsAfter(E), RolesAfter(E), InvitesAfter(E), optIn, CardsAfter(E))
         /\ Good(Closed(E), RolesAfter(E), InvitesAfter(E), optIn, CardsAfter(E))
         /\ \A g \in Guild \ E : /\ RolesAfter(E)[g] = role[g] /\ InvitesAfter(E)[g] = invite[g]
                                 /\ Closed(E)[g] = guild[g]
                                 /\ Live(g) => GuildsAfter(E)[g] = guild[g]
<1> DEFINE gs == GuildsAfter(E)
           ks == Closed(E)
           rs == RolesAfter(E)
           is == InvitesAfter(E)
           cs == CardsAfter(E)
<1>1. /\ \A g \in E : /\ ~LiveRow(ks[g]) /\ ks[g].nominee = None /\ ks[g].crest = None
                      /\ rs[g] = NoMembers /\ is[g] = [u \in User |-> NoInvite]
      /\ \A g \in Guild \ E : ks[g] = guild[g] /\ rs[g] = role[g] /\ is[g] = invite[g]
      /\ ks \in [Guild -> GuildRow]
  BY DEF Tables, Good, Typed, Closed, Over, RolesAfter, InvitesAfter, Late, LiveRow, GuildRow
<1>2. /\ \A g \in Guild : gs[g] = ks[g] \/ (gs[g] = NoGuild /\ ~LiveRow(ks[g]))
      /\ gs \in [Guild -> GuildRow]
  BY <1>1 DEF GuildsAfter, NoGuild, GuildRow, LiveRow
<1>3. Typed(ks, rs, is, optIn, cs) /\ Typed(gs, rs, is, optIn, cs)
  <2>1. rs \in [Guild -> [User -> Roles]]
    BY <1>1 DEF Tables, Good, Typed, RolesAfter, NoMembers, Roles
  <2>2. is \in [Guild -> [User -> InviteRow]]
    BY <1>1 DEF Tables, Good, Typed, InvitesAfter, NoInvite, InviteRow
  <2>3. cs \in [User -> Card \cup {None}] /\ optIn \subseteq User
    BY DEF Tables, Good, Typed, CardsAfter
  <2>4. QED
    BY <1>1, <1>2, <2>1, <2>2, <2>3 DEF Typed
<1>4. ASSUME NEW g \in Guild
      PROVE  LedAt(ks[g], rs[g], is[g]) /\ LedAt(gs[g], rs[g], is[g]) /\ Sized(rs[g])
  <2>1. LedAt(ks[g], rs[g], is[g])
    BY <1>1 DEF LedAt, NoMembers, Tables, Good
  <2>2. LedAt(gs[g], rs[g], is[g])
    BY <2>1, <1>2 DEF LedAt, NoGuild, LiveRow
  <2>3. QED
    BY <2>1, <2>2, <1>1, NobodySized DEF Tables, Good
<1>5. /\ \A g, h \in Guild : g # h => \A u \in User : rs[g][u] = "none" \/ rs[h][u] = "none"
      /\ \A g \in Guild : \A u \in User : rs[g][u] # "none" =>
           u \notin optIn /\ \A h \in Guild : is[h][u].status # "pending"
  BY <1>1 DEF Tables, Good, NoMembers, NoInvite
<1>6. ASSUME NEW u \in User, cs[u] # None
      PROVE  Tells(cs[u], ks, rs) /\ Tells(cs[u], gs, rs)
  <2>1. cs[u] = card[u] /\ card[u].guild \in Guild \ E /\ Tells(card[u], guild, role)
    BY <1>6 DEF CardsAfter, Tables, Good, Typed, Card
  <2>2. QED
    BY <2>1, <1>1, <1>2 DEF Tells
<1>7. QED
  BY <1>1, <1>2, <1>3, <1>4, <1>5, <1>6 DEF Good, Live, LiveRow

(* One guild g is changed, and cards of it that tell no more are dropped.  *)
LEMMA Put ==
  ASSUME NEW gs, NEW rs, NEW is, NEW o, NEW cs, Good(gs, rs, is, o, cs),
         NEW gt, NEW rt, NEW it, NEW p, NEW ct, Typed(gt, rt, it, p, ct),
         NEW g \in Guild,
         \A h \in Guild \ {g} : /\ gt[h] = gs[h] /\ rt[h] = rs[h]
                                /\ \A u \in User : it[h][u] \in {is[h][u], NoInvite},
         LedAt(gt[g], rt[g], it[g]), Sized(rt[g]),
         \A u \in User : it[g][u].status = "pending" =>
           is[g][u].status = "pending" \/ \A h \in Guild : rt[h][u] = "none",
         \A u \in p : u \in o \/ \A h \in Guild : rt[h][u] = "none",
         \A u \in User : rt[g][u] # "none" => \/ rs[g][u] # "none"
           \/ /\ \A h \in Guild \ {g} : rs[h][u] = "none"
              /\ u \notin p /\ \A h \in Guild : it[h][u].status # "pending",
         \A u \in User : ct[u] # None => /\ ct[u] = cs[u]
           /\ \/ cs[u].guild # g
              \/ Tells(cs[u], gt, rt)
  PROVE  Good(gt, rt, it, p, ct)
<1>1. ASSUME NEW h \in Guild
      PROVE  LedAt(gt[h], rt[h], it[h]) /\ Sized(rt[h])
  <2>1. CASE h # g
    <3>1. LedAt(gs[h], rs[h], is[h]) /\ Sized(rs[h])
      BY DEF Good
    <3>2. gt[h] = gs[h] /\ rt[h] = rs[h] /\ \A u \in User : it[h][u] \in {is[h][u], NoInvite}
      BY <2>1
    <3>3. QED
      BY <3>1, <3>2 DEF LedAt
  <2>2. QED
    BY <2>1
<1>2. ASSUME NEW f \in Guild, NEW h \in Guild, f # h, NEW u \in User
      PROVE  rt[f][u] = "none" \/ rt[h][u] = "none"
  BY <1>2 DEF Good
<1>3. ASSUME NEW f \in Guild, NEW u \in User, rt[f][u] # "none"
      PROVE  u \notin p /\ \A h \in Guild : it[h][u].status # "pending"
  <2>1. CASE rs[f][u] # "none"
    <3>1. u \notin o /\ \A h \in Guild : is[h][u].status # "pending"
      BY <2>1 DEF Good
    <3>2. \A h \in Guild \ {g} : it[h][u].status # "pending"
      BY <3>1 DEF NoInvite
    <3>3. QED
      BY <1>3, <3>1, <3>2
  <2>2. CASE rs[f][u] = "none"
    BY <2>2, <1>3
  <2>3. QED
    BY <2>1, <2>2
<1>4. ASSUME NEW u \in User, ct[u] # None
      PROVE  Tells(ct[u], gt, rt)
  <2>1. ct[u] = cs[u] /\ cs[u].guild \in Guild /\ Tells(cs[u], gs, rs)
    BY <1>4 DEF Good, Typed, Card
  <2>2. QED
    BY <2>1, <1>4 DEF Tells
<1>5. QED
  BY <1>1, <1>2, <1>3, <1>4 DEF Good

(* A user who is in no guild but those of E is in none afterwards.         *)
LEMMA Guildless ==
  ASSUME Tables, NEW E \in SUBSET Late, NEW u \in User, ~InGuild(u, E)
  PROVE  \A h \in Guild : RolesAfter(E)[h][u] = "none"
<1>1. ASSUME NEW h \in Guild \ E PROVE role[h][u] = "none"
  <2>1. Live(h) => role[h][u] = "none"
    BY DEF InGuild
  <2>2. ~Live(h) => role[h][u] = "none"
    BY DEF Tables, Good, LedAt, Live, LiveRow
  <2>3. QED
    BY <2>1, <2>2
<1>2. QED
  BY <1>1 DEF RolesAfter, NoMembers

(* What the transactions tidy up.                                          *)
LEMMA SweptIsLate ==
  /\ \A S \in Sweeps : S \subseteq Late
  /\ \A u \in User : LateOf(u) \subseteq Late
  /\ \A n, c : LateOwners(n, c) \subseteq Late
BY DEF Sweeps, LateOf, LateOwners

-----------------------------------------------------------------------------
(* Reading and founding *)

LEMMA LookInv ==
  ASSUME IndInv, Look
  PROVE  IndInv'
BY Sweep DEF IndInv, Look, Close, person, People, Tables

LEMMA HubInv ==
  ASSUME IndInv, NEW u \in User, NEW g \in Guild, Hub(u, g)
  PROVE  IndInv'
<1>1. PICK E \in SUBSET Late :
        /\ g \notin E
        /\ guild' = GuildsAfter(E) /\ role' = RolesAfter(E) /\ invite' = InvitesAfter(E)
        /\ card' = [CardsAfter(E) EXCEPT ![u] = View(g)]
  BY SweptIsLate DEF Hub
<1>2. /\ Good(GuildsAfter(E), RolesAfter(E), InvitesAfter(E), optIn, CardsAfter(E))
      /\ GuildsAfter(E)[g] = guild[g] /\ RolesAfter(E)[g] = role[g]
  BY <1>1, Sweep DEF IndInv, Hub
<1>3. View(g) \in Card /\ Tells(View(g), GuildsAfter(E), RolesAfter(E))
  <2>1. guild[g] \in GuildRow /\ role[g] \in [User -> Roles] /\ LiveRow(guild[g])
    BY DEF IndInv, Tables, Good, Typed, Hub, Live, LiveRow
  <2>2. QED
    BY <1>2, <2>1 DEF View, Card, Tells, GuildRow
<1>4. CardsAfter(E) \in [User -> Card \cup {None}]
  BY <1>2 DEF Good, Typed
<1>5. Typed(guild', role', invite', optIn, card')
  BY <1>1, <1>2, <1>3, <1>4 DEF Good, Typed
<1>6. \A v \in User : card'[v] # None => Tells(card'[v], guild', role')
  BY <1>1, <1>2, <1>3, <1>4 DEF Good
<1>7. Good(guild', role', invite', optIn, card')
  BY <1>1, <1>2, <1>5, <1>6 DEF Good
<1>8. QED
  BY <1>7 DEF IndInv, Tables, People, Hub, person

LEMMA PreviewInv ==
  ASSUME IndInv, NEW u \in User, NEW n \in Name, NEW c \in Crest \cup {None}, Preview(u, n, c)
  PROVE  IndInv'
<1>1. Tables'
  BY SweptIsLate, Sweep DEF IndInv, Preview, Close, person, Tables
<1>2. People'
  BY DEF IndInv, People, Preview, person
<1>3. QED
  BY <1>1, <1>2 DEF IndInv

LEMMA ConfirmTakenInv ==
  ASSUME IndInv, NEW u \in User, ConfirmTaken(u)
  PROVE  IndInv'
<1>1. \E E \in SUBSET Late : Close(E)
  BY SweptIsLate DEF ConfirmTaken
<1>2. Tables'
  BY <1>1, Sweep DEF IndInv, ConfirmTaken, Close, person, Tables
<1>3. People'
  BY DEF IndInv, People, ConfirmTaken, person
<1>4. QED
  BY <1>2, <1>3 DEF IndInv

LEMMA AnsweredIs ==
  ASSUME Tables, NEW E \in SUBSET Late, NEW u \in User
  PROVE  /\ Answered(u, E) \in [Guild -> [User -> InviteRow]]
         /\ \A h \in Guild : /\ Answered(u, E)[h][u].status # "pending"
                             /\ \A v \in User : Answered(u, E)[h][v] \in {InvitesAfter(E)[h][v], NoInvite}
<1>1. InvitesAfter(E) \in [Guild -> [User -> InviteRow]]
  BY Sweep DEF Good, Typed
<1>2. NoInvite \in InviteRow /\ NoInvite.status # "pending"
  BY DEF NoInvite, InviteRow
<1>3. \A i \in InviteRow : WithoutPending(i) \in {i, NoInvite} /\ WithoutPending(i).status # "pending"
  BY <1>2 DEF WithoutPending
<1>4. QED
  BY <1>1, <1>2, <1>3 DEF Answered

LEMMA ConfirmInv ==
  ASSUME IndInv, NEW u \in User, NEW g \in Guild, Confirm(u, g)
  PROVE  IndInv'
<1> DEFINE i == intent[u]
<1>1. PICK E \in SUBSET Late :
        /\ ~InGuild(u, E) /\ CanPay(u)
        /\ guild' = [GuildsAfter(E) EXCEPT ![g] = Charter(u, i)]
        /\ role' = [RolesAfter(E) EXCEPT ![g][u] = "leader"]
        /\ invite' = Answered(u, E) /\ card' = CardsAfter(E)
  BY SweptIsLate DEF Confirm, MayFound
<1>2. /\ i \in [life : Nat, name : Name, crest : Crest \cup {None}]
      /\ guild[g].status = "none" /\ optIn' = optIn \ {u}
  BY DEF Confirm, IndInv, People
<1>3. g \notin Late /\ ~LiveRow(guild[g])
  BY <1>2 DEF Late, LiveRow
<1>4. Good(GuildsAfter(E), RolesAfter(E), InvitesAfter(E), optIn, CardsAfter(E))
  BY Sweep DEF IndInv
<1>5. ~LiveRow(GuildsAfter(E)[g]) /\ \A v \in User : RolesAfter(E)[g][v] = "none"
  <2>1. RolesAfter(E)[g] = role[g] /\ \A v \in User : role[g][v] = "none"
    BY <1>3, Sweep DEF IndInv, Tables, Good, LedAt
  <2>2. QED
    BY <1>2, <1>3, <2>1 DEF GuildsAfter, Closed, NoGuild, LiveRow
<1>6. \A h \in Guild : RolesAfter(E)[h][u] = "none"
  BY <1>1, Guildless DEF IndInv
<1>7. Charter(u, i) \in GuildRow
  BY <1>2 DEF Charter, GuildRow
<1>8. /\ Typed(guild', role', invite', optIn', card')
      /\ guild'[g] = Charter(u, i)
      /\ \A v \in User : role'[g][v] = IF v = u THEN "leader" ELSE "none"
  <2>1. guild' \in [Guild -> GuildRow] /\ guild'[g] = Charter(u, i)
    BY <1>1, <1>4, <1>7 DEF Good, Typed
  <2>2. role' \in [Guild -> [User -> Roles]] /\ \A v \in User : role'[g][v] = IF v = u THEN "leader" ELSE "none"
    BY <1>1, <1>4, <1>5 DEF Good, Typed, Roles
  <2>3. QED
    BY <1>1, <1>2, <1>4, <2>1, <2>2, AnsweredIs DEF Good, Typed, IndInv
<1>9. LedAt(guild'[g], role'[g], invite'[g])
  BY <1>8 DEF LedAt, Charter, LiveRow
<1>10. Sized(role'[g])
  <2>1. MembersIn(role'[g]) = {u} /\ OfficersIn(role'[g]) = {}
    BY <1>8 DEF MembersIn, OfficersIn
  <2>2. QED
    BY <2>1, FS_Singleton, FS_EmptySet, GuildAssumption DEF Sized
<1>11. /\ \A h \in Guild \ {g} : /\ guild'[h] = GuildsAfter(E)[h] /\ role'[h] = RolesAfter(E)[h]
                                 /\ \A v \in User : invite'[h][v] \in {InvitesAfter(E)[h][v], NoInvite}
       /\ \A v \in User : invite'[g][v].status = "pending" => InvitesAfter(E)[g][v].status = "pending"
       /\ \A h \in Guild : invite'[h][u].status # "pending"
  <2>1. \A h \in Guild \ {g} : guild'[h] = GuildsAfter(E)[h] /\ role'[h] = RolesAfter(E)[h]
    BY <1>1, <1>4 DEF Good, Typed
  <2>2. /\ \A h \in Guild, v \in User : invite'[h][v] \in {InvitesAfter(E)[h][v], NoInvite}
        /\ \A h \in Guild : invite'[h][u].status # "pending"
    BY <1>1, AnsweredIs DEF IndInv
  <2>3. QED
    BY <2>1, <2>2 DEF NoInvite
<1>12. \A v \in User : card'[v] # None => card'[v] = CardsAfter(E)[v] /\ CardsAfter(E)[v].guild # g
  BY <1>1, <1>4, <1>5 DEF Good, Tells
<1>13. Good(guild', role', invite', optIn', card')
  BY <1>2, <1>4, <1>6, <1>8, <1>9, <1>10, <1>11, <1>12, Put
<1>14. People'
  BY <1>1, GuildAssumption DEF IndInv, People, Confirm, CanPay
<1>15. QED
  BY <1>13, <1>14 DEF IndInv, Tables

-----------------------------------------------------------------------------
(* Invitations *)

LEMMA OptInInv ==
  ASSUME IndInv, NEW u \in User, OptIn(u)
  PROVE  IndInv'
<1>1. PICK E \in SUBSET Late : ~InGuild(u, E) /\ Close(E)
  BY SweptIsLate DEF OptIn
<1>2. /\ Good(GuildsAfter(E), RolesAfter(E), InvitesAfter(E), optIn, CardsAfter(E))
      /\ \A h \in Guild : RolesAfter(E)[h][u] = "none"
  BY <1>1, Sweep, Guildless DEF IndInv
<1>3. Good(GuildsAfter(E), RolesAfter(E), InvitesAfter(E), optIn \cup {u}, CardsAfter(E))
  BY <1>2 DEF Good, Typed
<1>4. QED
  BY <1>1, <1>3 DEF IndInv, OptIn, Close, Tables, People, person

LEMMA PassOptInInv ==
  ASSUME IndInv, NEW u \in User, PassOptIn(u)
  PROVE  IndInv'
<1>1. Good(guild, role, invite, optIn \ {u}, card)
  BY DEF IndInv, Tables, Good, Typed
<1>2. QED
  BY <1>1 DEF IndInv, PassOptIn, Tables, People, person

(* Invitations of one guild change; a new one is of a user in no guild.    *)
LEMMA PutInvite ==
  ASSUME IndInv, NEW E \in SUBSET Late, NEW g \in Guild, NEW u \in User, NEW i \in InviteRow,
         i.status = "pending" => Live(g) /\ g \notin E /\ ~InGuild(u, E),
         i # NoInvite => Live(g) /\ g \notin E
  PROVE  Good(GuildsAfter(E), RolesAfter(E), [InvitesAfter(E) EXCEPT ![g][u] = i], optIn, CardsAfter(E))
<1> DEFINE is == InvitesAfter(E)
           it == [is EXCEPT ![g][u] = i]
<1>1. Good(GuildsAfter(E), RolesAfter(E), is, optIn, CardsAfter(E))
  BY Sweep DEF IndInv
<1>2. /\ it \in [Guild -> [User -> InviteRow]] /\ it[g][u] = i
      /\ \A h \in Guild \ {g} : it[h] = is[h]
      /\ \A v \in User \ {u} : it[g][v] = is[g][v]
  BY <1>1 DEF Good, Typed
<1>3. i.status = "pending" => \A h \in Guild : RolesAfter(E)[h][u] = "none"
  BY Guildless DEF IndInv
<1>4. i # NoInvite => LiveRow(GuildsAfter(E)[g])
  BY Sweep DEF IndInv, Live, LiveRow
<1>5. \A h \in Guild : LedAt(GuildsAfter(E)[h], RolesAfter(E)[h], is[h]) /\ Sized(RolesAfter(E)[h])
  BY <1>1 DEF Good
<1>6. LedAt(GuildsAfter(E)[g], RolesAfter(E)[g], it[g])
  BY <1>2, <1>4, <1>5 DEF LedAt
<1>7. \A h \in Guild : LedAt(GuildsAfter(E)[h], RolesAfter(E)[h], it[h]) /\ Sized(RolesAfter(E)[h])
  BY <1>2, <1>5, <1>6
<1>8. ASSUME NEW h \in Guild, NEW v \in User, RolesAfter(E)[h][v] # "none"
      PROVE  v \notin optIn /\ \A f \in Guild : it[f][v].status # "pending"
  BY <1>1, <1>2, <1>3, <1>8 DEF Good
<1>9. Typed(GuildsAfter(E), RolesAfter(E), it, optIn, CardsAfter(E))
  BY <1>1, <1>2 DEF Good, Typed
<1>10. QED
  BY <1>1, <1>7, <1>8, <1>9 DEF Good

LEMMA InviteInv ==
  ASSUME IndInv, NEW a \in User, NEW u \in User, NEW g \in Guild, Invite(a, u, g)
  PROVE  IndInv'
<1>1. PICK E \in SUBSET Late :
        /\ Live(g) /\ g \notin E /\ ~InGuild(u, E)
        /\ guild' = GuildsAfter(E) /\ role' = RolesAfter(E) /\ card' = CardsAfter(E)
        /\ invite' = [InvitesAfter(E) EXCEPT ![g][u] = [status |-> "pending", by |-> a]]
  BY SweptIsLate DEF Invite
<1>2. [status |-> "pending", by |-> a] \in InviteRow
  BY DEF InviteRow
<1>3. Good(guild', role', invite', optIn, card')
  BY <1>1, <1>2, PutInvite
<1>4. QED
  BY <1>3 DEF IndInv, Invite, Tables, People, person

LEMMA DeclineInv ==
  ASSUME IndInv, NEW u \in User, NEW g \in Guild, Decline(u, g)
  PROVE  IndInv'
<1>1. PICK E \in SUBSET Late :
        /\ guild' = GuildsAfter(E) /\ role' = RolesAfter(E) /\ card' = CardsAfter(E)
        /\ invite' = [InvitesAfter(E) EXCEPT ![g][u] = [status |-> "declined", by |-> None]]
  BY SweptIsLate DEF Decline
<1>2. [status |-> "declined", by |-> None] \in InviteRow /\ Live(g) /\ g \notin E
  BY DEF InviteRow, Decline, MayAnswer
<1>3. Good(guild', role', invite', optIn, card')
  BY <1>1, <1>2, PutInvite
<1>4. QED
  BY <1>3 DEF IndInv, Decline, Tables, People, person

LEMMA CancelInviteInv ==
  ASSUME IndInv, NEW a \in User, NEW u \in User, NEW g \in Guild, CancelInvite(a, u, g)
  PROVE  IndInv'
<1>1. PICK E \in SUBSET Late :
        /\ guild' = GuildsAfter(E) /\ role' = RolesAfter(E) /\ card' = CardsAfter(E)
        /\ invite' = [InvitesAfter(E) EXCEPT ![g][u] = NoInvite]
  BY SweptIsLate DEF CancelInvite
<1>2. NoInvite \in InviteRow /\ NoInvite.status # "pending"
  BY DEF InviteRow, NoInvite
<1>3. Good(guild', role', invite', optIn, card')
  BY <1>1, <1>2, PutInvite
<1>4. QED
  BY <1>3 DEF IndInv, CancelInvite, Tables, People, person

LEMMA PassInviteInv ==
  ASSUME IndInv, NEW u \in User, NEW g \in Guild, PassInvite(g, u)
  PROVE  IndInv'
<1>1. Good(guild, role, invite', optIn, card)
  <2>1. Good(guild, role, invite, optIn, card) /\ NoInvite \in InviteRow /\ NoInvite.status # "pending"
    BY DEF IndInv, Tables, InviteRow, NoInvite
  <2>2. /\ invite' \in [Guild -> [User -> InviteRow]]
        /\ \A h \in Guild, v \in User : invite'[h][v] \in {invite[h][v], NoInvite}
    BY <2>1 DEF PassInvite, Good, Typed
  <2>3. \A h \in Guild : LedAt(guild[h], role[h], invite'[h])
    BY <2>1, <2>2 DEF Good, LedAt
  <2>4. Typed(guild, role, invite', optIn, card)
    BY <2>1, <2>2 DEF Good, Typed
  <2>5. ASSUME NEW h \in Guild, NEW v \in User, role[h][v] # "none"
        PROVE  v \notin optIn /\ \A f \in Guild : invite'[f][v].status # "pending"
    BY <2>1, <2>2, <2>5 DEF Good
  <2>6. QED
    BY <2>1, <2>3, <2>4, <2>5 DEF Good
<1>2. QED
  BY <1>1 DEF IndInv, PassInvite, Tables, People, person

LEMMA AcceptInv ==
  ASSUME IndInv, NEW u \in User, NEW g \in Guild, Accept(u, g)
  PROVE  IndInv'
<1> DEFINE next == [guild[g] EXCEPT !.status = "active"]
<1>1. PICK E \in SUBSET Late :
        /\ ~InGuild(u, E) /\ Cardinality(Members(g)) < Capacity
        /\ guild' = [GuildsAfter(E) EXCEPT ![g].status =
             IF @ = "forming" /\ Cardinality(Members(g)) = 1 THEN "active" ELSE @]
        /\ role' = [RolesAfter(E) EXCEPT ![g][u] = "member"]
        /\ invite' = Answered(u, E) /\ card' = CardsAfter(E \cup {g})
  BY SweptIsLate DEF Accept
<1>2. Live(g) /\ g \notin E /\ optIn' = optIn \ {u}
  BY DEF Accept, MayAnswer
<1>3. /\ Good(GuildsAfter(E), RolesAfter(E), InvitesAfter(E), optIn, CardsAfter(E))
      /\ GuildsAfter(E)[g] = guild[g] /\ RolesAfter(E)[g] = role[g]
      /\ guild[g] \in GuildRow /\ role[g] \in [User -> Roles]
      /\ LedAt(guild[g], role[g], invite[g]) /\ Sized(role[g])
  BY <1>2, Sweep DEF IndInv, Tables, Good, Typed
<1>4. \A h \in Guild : RolesAfter(E)[h][u] = "none"
  BY <1>1, Guildless DEF IndInv
<1>5. guild[g].status = "forming" => Cardinality(Members(g)) = 1
  <2>1. guild[g].status = "forming" => Members(g) = {guild[g].leader}
    BY <1>2, <1>3 DEF LedAt, LiveRow, Live, Members
  <2>2. QED
    BY <2>1, FS_Singleton
<1>6. /\ guild' \in [Guild -> GuildRow]
      /\ \A h \in Guild \ {g} : guild'[h] = GuildsAfter(E)[h]
      /\ guild'[g].status = "active" /\ guild'[g].leader = guild[g].leader /\ guild'[g].nominee = guild[g].nominee
  <2>1. GuildsAfter(E) \in [Guild -> GuildRow]
    BY <1>3 DEF Good, Typed
  <2>2. guild' = [GuildsAfter(E) EXCEPT ![g] = next]
    BY <1>1, <1>2, <1>3, <1>5, <2>1 DEF Live, GuildRow
  <2>3. next \in GuildRow /\ next.status = "active" /\ next.leader = guild[g].leader /\ next.nominee = guild[g].nominee
    BY <1>3 DEF GuildRow
  <2>4. QED
    BY <2>1, <2>2, <2>3
<1>7. /\ role' \in [Guild -> [User -> Roles]]
      /\ \A h \in Guild \ {g} : role'[h] = RolesAfter(E)[h]
      /\ \A v \in User : role'[g][v] = IF v = u THEN "member" ELSE role[g][v]
  BY <1>1, <1>3 DEF Good, Typed, Roles
<1>8. /\ invite' \in [Guild -> [User -> InviteRow]]
      /\ \A h \in Guild, v \in User : invite'[h][v] \in {InvitesAfter(E)[h][v], NoInvite}
      /\ \A h \in Guild : invite'[h][u].status # "pending"
  BY <1>1, AnsweredIs DEF IndInv
<1>9. /\ card' \in [User -> Card \cup {None}]
      /\ \A v \in User : card'[v] # None => card'[v] = CardsAfter(E)[v] /\ CardsAfter(E)[v].guild # g
  BY <1>1 DEF IndInv, Tables, Good, Typed, CardsAfter
<1>10. LedAt(guild'[g], role'[g], invite'[g])
  BY <1>2, <1>3, <1>4, <1>6, <1>7 DEF LedAt, LiveRow, Live, GuildRow
<1>11. Sized(role'[g])
  <2>1. MembersIn(role'[g]) \subseteq Members(g) \cup {u} /\ OfficersIn(role'[g]) \subseteq OfficersIn(role[g])
    BY <1>7 DEF MembersIn, OfficersIn, Members
  <2>2. Members(g) \in SUBSET User /\ MembersIn(role'[g]) \in SUBSET User
    BY DEF Members, MembersIn
  <2>3. IsFiniteSet(Members(g))
    BY <2>2, FS_Subset, GuildAssumption
  <2>4. ~(Cardinality(Members(g)) >= Capacity)
    BY <1>1, <2>3, FS_CardinalityType, GuildAssumption
  <2>5. Cardinality(MembersIn(role'[g])) <= Capacity
    BY <2>1, <2>2, <2>4, OneMore, GuildAssumption
  <2>6. IsFiniteSet(OfficersIn(role[g]))
    BY FS_Subset, GuildAssumption DEF OfficersIn
  <2>7. Cardinality(OfficersIn(role'[g])) <= Officers
    BY <1>3, <2>1, <2>6, FS_Subset, FS_CardinalityType, GuildAssumption DEF Sized
  <2>8. QED
    BY <2>5, <2>7 DEF Sized
<1>12. Typed(guild', role', invite', optIn', card')
  BY <1>2, <1>3, <1>6, <1>7, <1>8, <1>9 DEF Good, Typed
<1>13. \A v \in User : invite'[g][v].status = "pending" => InvitesAfter(E)[g][v].status = "pending"
  BY <1>8 DEF NoInvite
<1>14. \A v \in User : role'[g][v] # "none" => RolesAfter(E)[g][v] # "none" \/ v = u
  BY <1>3, <1>7
<1>15. Good(guild', role', invite', optIn', card')
  <2>1. \A h \in Guild \ {g} :
          /\ guild'[h] = GuildsAfter(E)[h] /\ role'[h] = RolesAfter(E)[h]
          /\ \A v \in User : invite'[h][v] \in {InvitesAfter(E)[h][v], NoInvite}
    BY <1>6, <1>7, <1>8
  <2>2. \A v \in optIn' : v \in optIn
    BY <1>2
  <2>3. \A v \in User : role'[g][v] # "none" => \/ RolesAfter(E)[g][v] # "none"
          \/ /\ \A h \in Guild \ {g} : RolesAfter(E)[h][v] = "none"
             /\ v \notin optIn' /\ \A h \in Guild : invite'[h][v].status # "pending"
    BY <1>2, <1>4, <1>8, <1>14
  <2>4. Good(GuildsAfter(E), RolesAfter(E), InvitesAfter(E), optIn, CardsAfter(E))
    BY <1>3
  <2>5. QED
    BY <1>9, <1>10, <1>11, <1>12, <1>13, <2>1, <2>2, <2>3, <2>4, Put
<1>16. QED
  BY <1>15 DEF IndInv, Accept, Tables, People, person

-----------------------------------------------------------------------------
(* Members and leaders *)

NewTables(g, r, m, it) ==
  /\ guild' = [guild EXCEPT ![g] = r] /\ role' = [role EXCEPT ![g] = m]
  /\ invite' = it /\ card' = CardsAfter({g}) /\ UNCHANGED <<optIn, intent, person>>

(* A guild's new version: the row r and the roster m of the guild g, no    *)
(* new member, and whatever it and those who left have sent.               *)
LEMMA NewVersion ==
  ASSUME IndInv, NEW g \in Guild, NEW r \in GuildRow, NEW m \in [User -> Roles],
         NEW it \in [Guild -> [User -> InviteRow]],
         \A h \in Guild \ {g} : it[h] = invite[h],
         \A v \in User : it[g][v].status = "pending" => invite[g][v].status = "pending",
         LedAt(r, m, it[g]), Sized(m),
         \A v \in User : m[v] # "none" => role[g][v] # "none",
         NewTables(g, r, m, it)
  PROVE  IndInv'
<1>1. Good(guild, role, invite, optIn, card)
  BY DEF IndInv, Tables
<1>2. /\ guild' \in [Guild -> GuildRow] /\ guild'[g] = r
      /\ role' \in [Guild -> [User -> Roles]] /\ role'[g] = m
      /\ \A h \in Guild \ {g} : guild'[h] = guild[h] /\ role'[h] = role[h]
  BY <1>1 DEF Good, Typed, NewTables
<1>3. /\ card' \in [User -> Card \cup {None}]
      /\ \A v \in User : card'[v] # None => card'[v] = card[v] /\ card[v].guild # g
  BY <1>1 DEF Good, Typed, CardsAfter, NewTables
<1>4. Typed(guild', role', invite', optIn', card')
  BY <1>1, <1>2, <1>3 DEF Good, Typed, NewTables
<1>5. \A h \in Guild \ {g} : /\ guild'[h] = guild[h] /\ role'[h] = role[h]
                             /\ \A v \in User : invite'[h][v] \in {invite[h][v], NoInvite}
  BY <1>2 DEF NewTables
<1>6. LedAt(guild'[g], role'[g], invite'[g]) /\ Sized(role'[g])
  BY <1>2 DEF NewTables
<1>7. /\ \A v \in User : invite'[g][v].status = "pending" => invite[g][v].status = "pending"
      /\ \A v \in User : role'[g][v] # "none" => role[g][v] # "none"
      /\ \A v \in optIn' : v \in optIn
  BY <1>2 DEF NewTables
<1>8. /\ \A v \in User : invite'[g][v].status = "pending" =>
            invite[g][v].status = "pending" \/ \A h \in Guild : role'[h][v] = "none"
      /\ \A v \in optIn' : v \in optIn \/ \A h \in Guild : role'[h][v] = "none"
      /\ \A v \in User : role'[g][v] # "none" => \/ role[g][v] # "none"
           \/ /\ \A h \in Guild \ {g} : role[h][v] = "none"
              /\ v \notin optIn' /\ \A h \in Guild : invite'[h][v].status # "pending"
      /\ \A v \in User : card'[v] # None => /\ card'[v] = card[v]
           /\ \/ card[v].guild # g
              \/ Tells(card[v], guild', role')
  BY <1>3, <1>7
<1>9. Good(guild', role', invite', optIn', card')
  BY <1>1, <1>4, <1>5, <1>6, <1>8, Put
<1>10. QED
  BY <1>9 DEF IndInv, Tables, People, person, NewTables

(* What is known of the guild of a button that is obeyed.                  *)
LEMMA ClaimMeans ==
  ASSUME IndInv, NEW a \in User, NEW g \in Guild, Claim(a, g)
  PROVE  /\ LiveRow(guild[g]) /\ guild[g] \in GuildRow /\ role[g] \in [User -> Roles]
         /\ LedAt(guild[g], role[g], invite[g]) /\ Sized(role[g])
         /\ guild \in [Guild -> GuildRow] /\ role \in [Guild -> [User -> Roles]]
         /\ invite \in [Guild -> [User -> InviteRow]]
         /\ g \notin Late
BY DEF IndInv, Tables, Good, Typed, Claim, Live, LiveRow

LEMMA SetRoleInv ==
  ASSUME IndInv, NEW a \in User, NEW u \in User, NEW g \in Guild, NEW r \in {"member", "officer"},
         SetRole(a, u, r, g)
  PROVE  IndInv'
<1> DEFINE m == [role[g] EXCEPT ![u] = r]
           n == IF r = "member" /\ guild[g].nominee = u THEN None ELSE guild[g].nominee
           q == [guild[g] EXCEPT !.nominee = n]
<1>1. /\ LiveRow(guild[g]) /\ guild[g] \in GuildRow /\ role[g] \in [User -> Roles]
      /\ LedAt(guild[g], role[g], invite[g]) /\ Sized(role[g])
      /\ guild \in [Guild -> GuildRow] /\ role \in [Guild -> [User -> Roles]]
      /\ invite \in [Guild -> [User -> InviteRow]]
      /\ role[g][u] \in {"member", "officer"}
  BY ClaimMeans DEF SetRole, Under
<1>2. q \in GuildRow /\ m \in [User -> Roles]
  BY <1>1 DEF GuildRow, Roles
<1>3. LedAt(q, m, invite[g])
  BY <1>1 DEF LedAt, LiveRow, GuildRow
<1>4. Sized(m)
  <2>1. MembersIn(m) = MembersIn(role[g])
    BY <1>1 DEF MembersIn
  <2>2. CASE OfficersIn(m) \subseteq OfficersIn(role[g])
    BY <1>1, <2>1, <2>2, SmallerSized
  <2>3. CASE ~(OfficersIn(m) \subseteq OfficersIn(role[g]))
    <3>1. r = "officer" /\ role[g][u] # "officer"
      BY <1>1, <2>3 DEF OfficersIn
    <3>2. Cardinality(OfficersIn(role[g])) < Officers
      <4>1. OfficersOf(g, {}) = OfficersIn(role[g])
        BY DEF OfficersOf, OfficersIn
      <4>2. QED
        BY <3>1, <4>1 DEF SetRole
    <3>3. IsFiniteSet(OfficersIn(role[g]))
      BY FS_Subset, GuildAssumption DEF OfficersIn
    <3>4. ~(Cardinality(OfficersIn(role[g])) >= Officers)
      BY <3>2, <3>3, FS_CardinalityType, GuildAssumption
    <3>5. /\ OfficersIn(m) \subseteq OfficersIn(role[g]) \cup {u}
          /\ OfficersIn(m) \in SUBSET User /\ OfficersIn(role[g]) \in SUBSET User
      BY <1>1 DEF OfficersIn
    <3>6. Cardinality(OfficersIn(m)) <= Officers
      BY <3>4, <3>5, OneMore, GuildAssumption
    <3>7. QED
      BY <1>1, <2>1, <3>6 DEF Sized
  <2>4. QED
    BY <2>2, <2>3
<1>5. NewTables(g, q, m, invite)
  BY <1>1 DEF SetRole, NewTables
<1>6. \A v \in User : m[v] # "none" => role[g][v] # "none"
  BY <1>1
<1>7. QED
  BY <1>1, <1>2, <1>3, <1>4, <1>5, <1>6, NewVersion

LEMMA OfferLeadershipInv ==
  ASSUME IndInv, NEW a \in User, NEW u \in User, NEW g \in Guild, OfferLeadership(a, u, g)
  PROVE  IndInv'
<1> DEFINE q == [guild[g] EXCEPT !.nominee = u]
<1>1. /\ LiveRow(guild[g]) /\ guild[g] \in GuildRow /\ role[g] \in [User -> Roles]
      /\ LedAt(guild[g], role[g], invite[g]) /\ Sized(role[g])
      /\ guild \in [Guild -> GuildRow] /\ role \in [Guild -> [User -> Roles]]
      /\ invite \in [Guild -> [User -> InviteRow]]
      /\ role[g][u] \in {"member", "officer"}
  BY ClaimMeans DEF OfferLeadership, Under
<1>2. q \in GuildRow /\ LedAt(q, role[g], invite[g])
  BY <1>1 DEF GuildRow, LedAt, LiveRow
<1>3. NewTables(g, q, role[g], invite)
  BY <1>1 DEF OfferLeadership, NewTables
<1>4. QED
  BY <1>1, <1>2, <1>3, NewVersion

LEMMA AcceptLeadershipInv ==
  ASSUME IndInv, NEW a \in User, NEW g \in Guild, AcceptLeadership(a, g)
  PROVE  IndInv'
<1> DEFINE old == guild[g].leader
           new == IF Cardinality(OfficersOf(g, {a})) >= Officers THEN "member" ELSE "officer"
           m == [role[g] EXCEPT ![a] = "leader", ![old] = new]
           q == [guild[g] EXCEPT !.leader = a, !.nominee = None]
<1>1. /\ LiveRow(guild[g]) /\ guild[g] \in GuildRow /\ role[g] \in [User -> Roles]
      /\ LedAt(guild[g], role[g], invite[g]) /\ Sized(role[g])
      /\ guild \in [Guild -> GuildRow] /\ role \in [Guild -> [User -> Roles]]
      /\ invite \in [Guild -> [User -> InviteRow]]
      /\ role[g][a] \in {"member", "officer"} /\ guild[g].nominee = a
  BY ClaimMeans DEF AcceptLeadership, Under
<1>2. old \in User /\ old # a /\ role[g][old] = "leader" /\ new \in {"member", "officer"}
  BY <1>1 DEF LedAt
<1>3. /\ q \in GuildRow /\ m \in [User -> Roles]
      /\ \A v \in User : m[v] = IF v = old THEN new ELSE IF v = a THEN "leader" ELSE role[g][v]
  BY <1>1, <1>2 DEF GuildRow, Roles
<1>8. new = "officer" => ~(Cardinality(OfficersOf(g, {a})) >= Officers)
  OBVIOUS
<1>6. NewTables(g, q, m, invite)
  BY <1>1 DEF AcceptLeadership, NewTables
<1>9. q.status = guild[g].status /\ q.leader = a /\ q.nominee = None
  BY <1>1 DEF GuildRow
<1> HIDE DEF m, q, new
<1>4. LedAt(q, m, invite[g])
  <2>1. guild[g].status # "forming"
    BY <1>1, <1>2 DEF LedAt
  <2>3. \A v \in User : m[v] = "leader" <=> v = a
    BY <1>1, <1>2, <1>3 DEF LedAt
  <2>4. QED
    BY <1>1, <1>9, <2>1, <2>3 DEF LedAt, LiveRow
<1>5. Sized(m)
  <2>1. MembersIn(m) \subseteq MembersIn(role[g])
    BY <1>1, <1>2, <1>3 DEF MembersIn
  <2>2. CASE new = "member"
    <3>1. OfficersIn(m) \subseteq OfficersIn(role[g])
      BY <1>3, <2>2 DEF OfficersIn
    <3>2. QED
      BY <1>1, <2>1, <3>1, SmallerSized
  <2>3. CASE new = "officer"
    <3>1. /\ OfficersIn(m) \subseteq OfficersOf(g, {a}) \cup {old}
          /\ OfficersIn(m) \in SUBSET User /\ OfficersOf(g, {a}) \in SUBSET User
      BY <1>3 DEF OfficersIn, OfficersOf
    <3>2. ~(Cardinality(OfficersOf(g, {a})) >= Officers)
      BY <1>8, <2>3
    <3>3. Cardinality(OfficersIn(m)) <= Officers
      BY <1>2, <3>1, <3>2, OneMore, GuildAssumption
    <3>4. IsFiniteSet(MembersIn(role[g]))
      BY FS_Subset, GuildAssumption DEF MembersIn
    <3>5. Cardinality(MembersIn(m)) <= Capacity
      <4>1. Cardinality(MembersIn(m)) <= Cardinality(MembersIn(role[g]))
        BY <2>1, <3>4, FS_Subset
      <4>2. /\ Cardinality(MembersIn(m)) \in Nat /\ Cardinality(MembersIn(role[g])) \in Nat
            /\ Cardinality(MembersIn(role[g])) <= Capacity
        BY <1>1, <2>1, <3>4, FS_Subset, FS_CardinalityType DEF Sized
      <4>3. QED
        BY <4>1, <4>2, GuildAssumption
    <3>6. QED
      BY <3>3, <3>5 DEF Sized
  <2>4. QED
    BY <1>2, <2>2, <2>3
<1>7. \A v \in User : m[v] # "none" => role[g][v] # "none"
  BY <1>1, <1>2, <1>3
<1>10. QED
  BY <1>1, <1>3, <1>4, <1>5, <1>6, <1>7, NewVersion

(* Without the user u, and with an offer of the lead to others only.       *)
LEMMA PartedInv ==
  ASSUME IndInv, NEW u \in User, NEW g \in Guild,
         LiveRow(guild[g]), role[g][u] \in {"member", "officer"},
         guild' = [guild EXCEPT ![g].nominee = IF @ = u THEN None ELSE @],
         Parted(u, g)
  PROVE  IndInv'
<1> DEFINE m == [role[g] EXCEPT ![u] = "none"]
           n == IF guild[g].nominee = u THEN None ELSE guild[g].nominee
           q == [guild[g] EXCEPT !.nominee = n]
           it == [invite EXCEPT ![g] = [v \in User |->
                    IF @[v].by = u THEN [@[v] EXCEPT !.by = None] ELSE @[v]]]
<1>1. /\ guild[g] \in GuildRow /\ role[g] \in [User -> Roles]
      /\ LedAt(guild[g], role[g], invite[g]) /\ Sized(role[g])
      /\ guild \in [Guild -> GuildRow] /\ role \in [Guild -> [User -> Roles]]
      /\ invite \in [Guild -> [User -> InviteRow]]
  BY DEF IndInv, Tables, Good, Typed
<1>2. q \in GuildRow /\ m \in [User -> Roles]
  BY <1>1 DEF GuildRow, Roles
<1>3. /\ it \in [Guild -> [User -> InviteRow]]
      /\ \A h \in Guild \ {g} : it[h] = invite[h]
      /\ \A v \in User : it[g][v].status = "pending" => invite[g][v].status = "pending"
  <2>1. \A i \in InviteRow : [i EXCEPT !.by = None] \in InviteRow /\ [i EXCEPT !.by = None].status = i.status
    BY DEF InviteRow
  <2>2. QED
    BY <1>1, <2>1
<1>4. NewTables(g, q, m, it)
  BY <1>1 DEF NewTables, Parted
<1>5. LedAt(q, m, it[g])
  <2>1. q.status = guild[g].status /\ q.leader = guild[g].leader /\ q.nominee = n
    BY <1>1 DEF GuildRow
  <2>2. \A v \in User : m[v] = IF v = u THEN "none" ELSE role[g][v]
    BY <1>1
  <2>3. guild[g].leader # u /\ role[g][u] # "none" /\ guild[g].status # "forming"
    BY <1>1 DEF LedAt
  <2>4. n # None => n # u /\ role[g][n] \in {"member", "officer"} /\ n \in User
    BY <1>1 DEF LedAt, GuildRow
  <2>5. QED
    BY <1>1, <2>1, <2>2, <2>3, <2>4 DEF LedAt, LiveRow
<1>6. Sized(m) /\ \A v \in User : m[v] # "none" => role[g][v] # "none"
  <2>1. MembersIn(m) \subseteq MembersIn(role[g]) /\ OfficersIn(m) \subseteq OfficersIn(role[g])
    BY <1>1 DEF MembersIn, OfficersIn
  <2>2. QED
    BY <1>1, <2>1, SmallerSized
<1> HIDE DEF m, n, q, it
<1>7. QED
  BY <1>2, <1>3, <1>4, <1>5, <1>6, NewVersion

LEMMA KickInv ==
  ASSUME IndInv, NEW a \in User, NEW u \in User, NEW g \in Guild, Kick(a, u, g)
  PROVE  IndInv'
BY ClaimMeans, PartedInv DEF Kick, Under

LEMMA LeaveInv ==
  ASSUME IndInv, NEW a \in User, NEW g \in Guild, Leave(a, g)
  PROVE  IndInv'
BY ClaimMeans, PartedInv DEF Leave, Under

LEMMA DisbandInv ==
  ASSUME IndInv, NEW a \in User, NEW g \in Guild, Disband(a, g)
  PROVE  IndInv'
<1> DEFINE q == Over(guild[g])
           it == InvitesAfter({g})
<1>1. /\ guild[g] \in GuildRow /\ LedAt(guild[g], role[g], invite[g])
      /\ guild \in [Guild -> GuildRow] /\ role \in [Guild -> [User -> Roles]]
      /\ invite \in [Guild -> [User -> InviteRow]]
  BY DEF IndInv, Tables, Good, Typed
<1>2. q \in GuildRow /\ NoMembers \in [User -> Roles] /\ Sized(NoMembers)
  BY <1>1, NobodySized DEF Over, GuildRow, NoMembers, Roles
<1>3. /\ it \in [Guild -> [User -> InviteRow]]
      /\ \A h \in Guild \ {g} : it[h] = invite[h]
      /\ \A v \in User : it[g][v].status = "pending" => invite[g][v].status = "pending"
  BY <1>1 DEF InvitesAfter, NoInvite, InviteRow
<1>4. LedAt(q, NoMembers, it[g])
  BY DEF LedAt, LiveRow, Over, NoMembers, InvitesAfter
<1>5. NewTables(g, q, NoMembers, it)
  <2>1. Closed({g}) = [guild EXCEPT ![g] = q]
    BY <1>1 DEF Closed
  <2>2. RolesAfter({g}) = [role EXCEPT ![g] = NoMembers]
    BY <1>1 DEF RolesAfter
  <2>3. QED
    BY <2>1, <2>2 DEF NewTables, Disband
<1>6. \A v \in User : NoMembers[v] # "none" => role[g][v] # "none"
  BY DEF NoMembers
<1> HIDE DEF q, it
<1>7. QED
  BY <1>2, <1>3, <1>4, <1>5, <1>6, NewVersion

LEMMA EditProfileInv ==
  ASSUME IndInv, NEW a \in User, NEW g \in Guild, NEW c \in Crest \cup {None}, EditProfile(a, g, c)
  PROVE  IndInv'
<1>1. PICK E \in SUBSET Late :
        /\ guild' = [Closed(E) EXCEPT ![g].crest = c]
        /\ role' = RolesAfter(E) /\ invite' = InvitesAfter(E) /\ card' = CardsAfter(E \cup {g})
  BY DEF EditProfile
<1>2. LiveRow(guild[g]) /\ g \notin E
  BY ClaimMeans DEF EditProfile
<1>3. /\ Good(Closed(E), RolesAfter(E), InvitesAfter(E), optIn, CardsAfter(E))
      /\ Closed(E)[g] = guild[g]
  BY <1>2, Sweep DEF IndInv
<1>4. Closed(E) \in [Guild -> GuildRow] /\ LedAt(Closed(E)[g], RolesAfter(E)[g], InvitesAfter(E)[g])
      /\ Sized(RolesAfter(E)[g])
  BY <1>3 DEF Good, Typed
<1>5. /\ guild' \in [Guild -> GuildRow]
      /\ \A h \in Guild \ {g} : guild'[h] = Closed(E)[h]
      /\ guild'[g].status = guild[g].status /\ guild'[g].leader = guild[g].leader
      /\ guild'[g].nominee = guild[g].nominee
  <2>1. \A r \in GuildRow : /\ [r EXCEPT !.crest = c] \in GuildRow
                            /\ [r EXCEPT !.crest = c].status = r.status
                            /\ [r EXCEPT !.crest = c].leader = r.leader
                            /\ [r EXCEPT !.crest = c].nominee = r.nominee
    BY DEF GuildRow
  <2>2. QED
    BY <1>1, <1>3, <1>4, <2>1
<1>6. LedAt(guild'[g], role'[g], invite'[g]) /\ Sized(role'[g])
  BY <1>1, <1>2, <1>3, <1>4, <1>5 DEF LedAt, LiveRow
<1>7. /\ card' \in [User -> Card \cup {None}]
      /\ \A v \in User : card'[v] # None => card'[v] = CardsAfter(E)[v] /\ CardsAfter(E)[v].guild # g
  BY <1>1 DEF IndInv, Tables, Good, Typed, CardsAfter
<1>8. Typed(guild', role', invite', optIn, card')
  BY <1>1, <1>3, <1>5, <1>7 DEF Good, Typed
<1>9. /\ \A h \in Guild \ {g} : /\ guild'[h] = Closed(E)[h] /\ role'[h] = RolesAfter(E)[h]
                                /\ \A v \in User : invite'[h][v] \in {InvitesAfter(E)[h][v], NoInvite}
      /\ \A v \in User : invite'[g][v].status = "pending" => InvitesAfter(E)[g][v].status = "pending"
      /\ \A v \in User : role'[g][v] # "none" => RolesAfter(E)[g][v] # "none"
  BY <1>1, <1>5
<1>10. Good(guild', role', invite', optIn, card')
  BY <1>3, <1>6, <1>7, <1>8, <1>9, Put
<1>11. QED
  BY <1>10 DEF IndInv, EditProfile, Tables, People, person

-----------------------------------------------------------------------------
(* The clock and the character *)

(* A row that changes only in what the invariant does not read.            *)
LEMMA SameGuild ==
  ASSUME IndInv, NEW g \in Guild, NEW r \in GuildRow,
         r.status = guild[g].status, r.leader = guild[g].leader,
         r.nominee = guild[g].nominee, r.crest = guild[g].crest
  PROVE  Good([guild EXCEPT ![g] = r], role, invite, optIn, card)
<1> DEFINE gs == [guild EXCEPT ![g] = r]
<1>1. Good(guild, role, invite, optIn, card) /\ guild \in [Guild -> GuildRow]
  BY DEF IndInv, Tables, Good, Typed
<1>2. /\ gs \in [Guild -> GuildRow]
      /\ \A h \in Guild : /\ gs[h].status = guild[h].status /\ gs[h].leader = guild[h].leader
                          /\ gs[h].nominee = guild[h].nominee /\ gs[h].crest = guild[h].crest
  BY <1>1
<1> HIDE DEF gs
<1>3. \A h \in Guild : LedAt(gs[h], role[h], invite[h])
  BY <1>1, <1>2 DEF Good, LedAt, LiveRow
<1>4. \A u \in User : card[u] # None => Tells(card[u], gs, role)
  BY <1>1, <1>2 DEF Good, Typed, Card, Tells, LiveRow
<1>5. Good(gs, role, invite, optIn, card)
  BY <1>1, <1>2, <1>3, <1>4 DEF Good, Typed
<1>6. QED
  BY <1>5 DEF gs

LEMMA PassCharterInv ==
  ASSUME IndInv, NEW g \in Guild, PassCharter(g)
  PROVE  IndInv'
<1>1. guild[g] \in GuildRow
  BY DEF IndInv, Tables, Good, Typed
<1>2. /\ [guild[g] EXCEPT !.late = TRUE] \in GuildRow
      /\ [guild[g] EXCEPT !.late = TRUE].status = guild[g].status
      /\ [guild[g] EXCEPT !.late = TRUE].leader = guild[g].leader
      /\ [guild[g] EXCEPT !.late = TRUE].nominee = guild[g].nominee
      /\ [guild[g] EXCEPT !.late = TRUE].crest = guild[g].crest
  BY <1>1 DEF GuildRow
<1>3. Tables'
  BY <1>2, SameGuild DEF PassCharter, Tables
<1>4. People'
  BY DEF IndInv, PassCharter, People
<1>5. QED
  BY <1>3, <1>4 DEF IndInv

LEMMA PassHoldInv ==
  ASSUME IndInv, NEW g \in Guild, PassHold(g)
  PROVE  IndInv'
<1>1. guild[g] \in GuildRow
  BY DEF IndInv, Tables, Good, Typed
<1>2. /\ [guild[g] EXCEPT !.free = TRUE] \in GuildRow
      /\ [guild[g] EXCEPT !.free = TRUE].status = guild[g].status
      /\ [guild[g] EXCEPT !.free = TRUE].leader = guild[g].leader
      /\ [guild[g] EXCEPT !.free = TRUE].nominee = guild[g].nominee
      /\ [guild[g] EXCEPT !.free = TRUE].crest = guild[g].crest
  BY <1>1 DEF GuildRow
<1>3. Tables'
  BY <1>2, SameGuild DEF PassHold, Tables
<1>4. People'
  BY DEF IndInv, PassHold, People, person
<1>5. QED
  BY <1>3, <1>4 DEF IndInv

LEMMA CharacterInv ==
  ASSUME IndInv, NEW u \in User,
         PassIntent(u) \/ PassCooldown(u) \/ Earn(u) \/ Grow(u) \/ NewLife(u)
  PROVE  IndInv'
<1>1. Tables'
  BY DEF IndInv, Tables, PassIntent, PassCooldown, Earn, Grow, NewLife
<1>2. People'
  <2>1. CASE PassIntent(u) \/ PassCooldown(u)
    BY <2>1 DEF IndInv, People, PassIntent, PassCooldown, person
  <2>2. CASE Earn(u) \/ Grow(u) \/ NewLife(u)
    BY <2>2, GuildAssumption DEF IndInv, People, Earn, Grow, NewLife
  <2>3. QED
    BY <2>1, <2>2
<1>3. QED
  BY <1>1, <1>2 DEF IndInv

-----------------------------------------------------------------------------
(* The theorems *)

LEMMA InitInv ==
  ASSUME Init
  PROVE  IndInv
<1>1. Typed(guild, role, invite, optIn, card)
  BY DEF Init, Typed, NoGuild, GuildRow, NoMembers, Roles, NoInvite, InviteRow
<1>2. \A g \in Guild : LedAt(guild[g], role[g], invite[g]) /\ Sized(role[g])
  BY NobodySized DEF Init, LedAt, LiveRow, NoGuild, NoMembers
<1>3. Tables
  BY <1>1, <1>2 DEF Init, Tables, Good, NoMembers
<1>4. People
  BY GuildAssumption DEF Init, People
<1>5. QED
  BY <1>3, <1>4 DEF IndInv

(* A design is a name and a crest, or none.                                 *)
LEMMA DesignParts ==
  ASSUME NEW d \in Design
  PROVE  d[1] \in Name /\ d[2] \in Crest \cup {None}
BY GuildAssumption

LEMMA NextInv ==
  ASSUME IndInv, [Next]_vars
  PROVE  IndInv'
<1>1. CASE Look \/ \E g \in Guild : PassCharter(g) \/ PassHold(g)
  BY <1>1, LookInv, PassCharterInv, PassHoldInv
<1>2. CASE \E u \in User : \E d \in Design : Preview(u, d[1], d[2])
  BY <1>2, DesignParts, PreviewInv
<1>3. CASE \E u \in User : ConfirmTaken(u) \/ OptIn(u) \/ PassOptIn(u) \/ PassIntent(u)
                           \/ PassCooldown(u) \/ Earn(u) \/ Grow(u) \/ NewLife(u)
  BY <1>3, ConfirmTakenInv, OptInInv, PassOptInInv, CharacterInv
<1>4. CASE \E u \in User, g \in Guild :
             \/ Hub(u, g) \/ Confirm(u, g) \/ Accept(u, g) \/ Decline(u, g) \/ PassInvite(g, u)
             \/ AcceptLeadership(u, g) \/ Leave(u, g) \/ Disband(u, g)
             \/ \E c \in Crest \cup {None} : EditProfile(u, g, c)
  BY <1>4, HubInv, ConfirmInv, AcceptInv, DeclineInv, PassInviteInv, AcceptLeadershipInv,
     LeaveInv, DisbandInv, EditProfileInv
<1>5. CASE \E a, u \in User, g \in Guild :
             \/ Invite(a, u, g) \/ CancelInvite(a, u, g) \/ Kick(a, u, g) \/ OfferLeadership(a, u, g)
             \/ \E r \in {"member", "officer"} : SetRole(a, u, r, g)
  BY <1>5, InviteInv, CancelInviteInv, KickInv, OfferLeadershipInv, SetRoleInv
<1>6. CASE UNCHANGED vars
  BY <1>6 DEF vars, IndInv, Tables, People
<1>7. QED
  BY <1>1, <1>2, <1>3, <1>4, <1>5, <1>6 DEF Next

(* The tables of the guilds agree with each other and with every card that *)
(* still counts, in every reachable state.                                 *)
THEOREM GuildInvariant == Spec => []IndInv
<1>1. Init => IndInv
  BY InitInv
<1>2. IndInv /\ [Next]_vars => IndInv'
  BY NextInv
<1>3. QED
  BY <1>1, <1>2, PTL DEF Spec

(* Types, and no purse below zero: of prismaGuildRepository.ts's charge.   *)
THEOREM Typing == Spec => []TypeOK
<1>1. IndInv => TypeOK
  BY DEF IndInv, Tables, Good, Typed, People, TypeOK
<1>2. QED
  BY <1>1, GuildInvariant, PTL

(* A living guild has its one leader and a nominee who could follow, and a *)
(* guild that is over leaves nothing behind.                               *)
THEOREM Leadership == Spec => []Led
<1>1. IndInv => TypeOK /\ Tables
  BY DEF IndInv, Tables, Good, Typed, People, TypeOK
<1>2. IndInv => Led
  BY <1>1, TablesMean
<1>3. QED
  BY <1>2, GuildInvariant, PTL

(* A user is in one guild, a member has no invitation open, and no roster  *)
(* is longer than it may be.                                               *)
THEOREM SingleGuild == Spec => []OneGuild
<1>1. IndInv => TypeOK /\ Tables
  BY DEF IndInv, Tables, Good, Typed, People, TypeOK
<1>2. IndInv => OneGuild
  BY <1>1, TablesMean
<1>3. QED
  BY <1>2, GuildInvariant, PTL

(* The card of a button that is obeyed shows the guild as it is.           *)
THEOREM TrueCards == Spec => []CardsTell
<1>1. IndInv => TypeOK /\ Tables
  BY DEF IndInv, Tables, Good, Typed, People, TypeOK
<1>2. IndInv => CardsTell
  BY <1>1, TablesMean
<1>3. QED
  BY <1>2, GuildInvariant, PTL

-----------------------------------------------------------------------------
(* Gold and guilds *)

(* What a step that founds nothing does.                                   *)
Quiet ==
  /\ \A g \in Guild : guild[g].status = "none" => guild'[g].status = "none"
  /\ \A u \in User : gold'[u] < gold[u] => life'[u] # life[u]

(* No guild comes of ending some.                                          *)
LEMMA NoGuildOfSweep ==
  ASSUME NEW E \in SUBSET Late, NEW g \in Guild, guild[g].status = "none"
  PROVE  GuildsAfter(E)[g].status = "none" /\ Closed(E)[g].status = "none" /\ g \notin E
<1>1. g \notin Late
  BY DEF Late
<1>2. QED
  BY <1>1 DEF GuildsAfter, Closed

(* Only the confirm of a preview founds or charges.                        *)
LEMMA OthersQuiet ==
  ASSUME IndInv, [Next]_vars, ~\E u \in User, g \in Guild : Confirm(u, g)
  PROVE  Quiet
<1> DEFINE Same == \A u \in User : gold'[u] < gold[u] => life'[u] # life[u]
           NoneBorn == \A g \in Guild : guild[g].status = "none" => guild'[g].status = "none"
<1>1. /\ guild \in [Guild -> GuildRow] /\ gold \in [User -> Nat] /\ life \in [User -> Nat]
      /\ \A u \in User : ~(gold[u] < gold[u])
  BY DEF IndInv, Tables, Good, Typed, People
<1>2. ASSUME gold' = gold PROVE Same
  BY <1>1, <1>2
<1>3. ASSUME NEW E \in SUBSET Late, guild' = GuildsAfter(E) PROVE NoneBorn
  BY <1>3, NoGuildOfSweep
<1>4. ASSUME NEW g \in Guild, LiveRow(guild[g]), \A h \in Guild \ {g} : guild'[h] = guild[h]
      PROVE  NoneBorn
  BY <1>4 DEF LiveRow
<1>5. CASE Look
  BY <1>2, <1>3, <1>5 DEF Look, Close, person, Quiet
<1>6. ASSUME NEW g \in Guild, PassCharter(g) \/ PassHold(g) PROVE Quiet
  <2>1. NoneBorn
    BY <1>1, <1>6 DEF PassCharter, PassHold, GuildRow, Late
  <2>2. QED
    BY <1>2, <1>6, <2>1 DEF PassCharter, PassHold, person, Quiet
<1>7. ASSUME NEW u \in User, NEW n \in Name, NEW c \in Crest \cup {None}, Preview(u, n, c)
      PROVE  Quiet
  <2>1. \E E \in SUBSET Late : guild' = GuildsAfter(E)
    BY <1>7, SweptIsLate DEF Preview, Close
  <2>2. QED
    BY <1>2, <1>3, <1>7, <2>1 DEF Preview, person, Quiet
<1>8. ASSUME NEW u \in User, ConfirmTaken(u) \/ OptIn(u)
      PROVE  Quiet
  <2>1. \E E \in SUBSET Late : guild' = GuildsAfter(E)
    <3>1. CASE ConfirmTaken(u)
      BY <3>1, SweptIsLate DEF ConfirmTaken, Close
    <3>2. CASE OptIn(u)
      BY <3>2, SweptIsLate DEF OptIn, Close
    <3>3. QED
      BY <1>8, <3>1, <3>2
  <2>2. QED
    BY <1>2, <1>3, <1>8, <2>1 DEF ConfirmTaken, OptIn, person, Quiet
<1>9. ASSUME NEW u \in User, PassOptIn(u) \/ PassIntent(u) \/ PassCooldown(u) \/ Earn(u) \/ Grow(u) \/ NewLife(u)
      PROVE  Quiet
  <2>1. NoneBorn
    BY <1>9 DEF PassOptIn, PassIntent, PassCooldown, Earn, Grow, NewLife
  <2>2. CASE PassOptIn(u) \/ PassIntent(u) \/ PassCooldown(u) \/ Grow(u)
    BY <1>2, <2>1, <2>2 DEF PassOptIn, PassIntent, PassCooldown, Grow, person, Quiet
  <2>3. CASE Earn(u)
    BY <1>1, <2>1, <2>3 DEF Earn, Quiet
  <2>4. CASE NewLife(u)
    <3>1. life'[u] # life[u]
      BY <1>1, <2>4 DEF NewLife
    <3>2. \A v \in User \ {u} : gold'[v] = gold[v]
      BY <1>1, <2>4 DEF NewLife
    <3>3. QED
      BY <1>1, <2>1, <3>1, <3>2 DEF Quiet
  <2>5. QED
    BY <1>9, <2>2, <2>3, <2>4
<1>10. ASSUME NEW u \in User, NEW g \in Guild, Hub(u, g) \/ Decline(u, g)
       PROVE  Quiet
  <2>1. \E E \in SUBSET Late : guild' = GuildsAfter(E)
    <3>1. CASE Hub(u, g)
      BY <3>1, SweptIsLate DEF Hub
    <3>2. CASE Decline(u, g)
      BY <3>2, SweptIsLate DEF Decline
    <3>3. QED
      BY <1>10, <3>1, <3>2
  <2>2. QED
    BY <1>2, <1>3, <1>10, <2>1 DEF Hub, Decline, person, Quiet
<1>11. ASSUME NEW u \in User, NEW g \in Guild, Accept(u, g)
       PROVE  Quiet
  <2>1. PICK E \in SUBSET Late : \A h \in Guild \ {g} : guild'[h] = GuildsAfter(E)[h]
    <3>1. PICK E \in SUBSET Late : guild' = [GuildsAfter(E) EXCEPT ![g].status =
            IF @ = "forming" /\ Cardinality(Members(g)) = 1 THEN "active" ELSE @]
      BY <1>11, SweptIsLate DEF Accept
    <3>2. \A h \in Guild \ {g} : guild'[h] = GuildsAfter(E)[h]
      BY <3>1 DEF GuildsAfter
    <3>3. QED
      BY <3>2
  <2>2. guild[g].status # "none"
    BY <1>11 DEF Accept, MayAnswer, Live
  <2>3. gold' = gold
    BY <1>11 DEF Accept, person
  <2>4. NoneBorn
    BY <2>1, <2>2, NoGuildOfSweep
  <2>5. QED
    BY <1>2, <2>3, <2>4 DEF Quiet
<1>12. ASSUME NEW u \in User, NEW g \in Guild,
              PassInvite(g, u) \/ AcceptLeadership(u, g) \/ Leave(u, g) \/ Disband(u, g)
       PROVE  Quiet
  <2>1. CASE PassInvite(g, u)
    BY <1>2, <2>1 DEF PassInvite, person, Quiet
  <2>2. CASE AcceptLeadership(u, g) \/ Leave(u, g) \/ Disband(u, g)
    <3>1. LiveRow(guild[g]) /\ gold' = gold
      BY <2>2, ClaimMeans DEF AcceptLeadership, Leave, Disband, Parted, person
    <3>2. \A h \in Guild \ {g} : guild'[h] = guild[h]
      BY <1>1, <2>2 DEF AcceptLeadership, Leave, Disband, Closed
    <3>3. QED
      BY <1>2, <1>4, <3>1, <3>2 DEF Quiet
  <2>3. QED
    BY <1>12, <2>1, <2>2
<1>13. ASSUME NEW u \in User, NEW g \in Guild, NEW c \in Crest \cup {None}, EditProfile(u, g, c)
       PROVE  Quiet
  <2>1. PICK E \in SUBSET Late : guild' = [Closed(E) EXCEPT ![g].crest = c]
    BY <1>13 DEF EditProfile
  <2>2. \A h \in Guild \ {g} : guild'[h] = Closed(E)[h]
    BY <2>1 DEF Closed
  <2>3. guild[g].status # "none"
    BY <1>13, ClaimMeans DEF EditProfile, LiveRow
  <2>4. QED
    BY <1>2, <1>13, <2>2, <2>3, NoGuildOfSweep DEF EditProfile, person, Quiet
<1>14. ASSUME NEW a \in User, NEW u \in User, NEW g \in Guild,
              \/ Invite(a, u, g) \/ CancelInvite(a, u, g)
              \/ Kick(a, u, g) \/ OfferLeadership(a, u, g)
              \/ \E r \in {"member", "officer"} : SetRole(a, u, r, g)
       PROVE  Quiet
  <2>1. CASE Invite(a, u, g) \/ CancelInvite(a, u, g)
    <3>1. \E E \in SUBSET Late : guild' = GuildsAfter(E)
      <4>1. CASE Invite(a, u, g)
        BY <4>1, SweptIsLate DEF Invite
      <4>2. CASE CancelInvite(a, u, g)
        BY <4>2, SweptIsLate DEF CancelInvite
      <4>3. QED
        BY <2>1, <4>1, <4>2
    <3>2. QED
      BY <1>2, <1>3, <2>1, <3>1 DEF Invite, CancelInvite, person, Quiet
  <2>2. CASE \/ Kick(a, u, g) \/ OfferLeadership(a, u, g)
             \/ \E r \in {"member", "officer"} : SetRole(a, u, r, g)
    <3>1. LiveRow(guild[g]) /\ gold' = gold
      BY <2>2, ClaimMeans DEF Kick, OfferLeadership, SetRole, Parted, person
    <3>2. \A h \in Guild \ {g} : guild'[h] = guild[h]
      BY <1>1, <2>2 DEF Kick, OfferLeadership, SetRole
    <3>3. QED
      BY <1>2, <1>4, <3>1, <3>2 DEF Quiet
  <2>3. QED
    BY <1>14, <2>1, <2>2
<1>15. CASE UNCHANGED vars
  BY <1>2, <1>15 DEF vars, Quiet
<1>16. QED
  BY <1>5, <1>6, <1>7, <1>8, <1>9, <1>10, <1>11, <1>12, <1>13, <1>14, <1>15, DesignParts DEF Next

(* A confirm founds the guild it charges for, and no other.                *)
LEMMA ConfirmFounds ==
  ASSUME IndInv, NEW u \in User, NEW g \in Guild, Confirm(u, g)
  PROVE  /\ Founded(u, g) /\ gold'[u] = gold[u] - Cost
         /\ \A v \in User \ {u} : gold'[v] = gold[v]
         /\ \A h \in Guild \ {g} : guild[h].status = "none" => guild'[h].status = "none"
<1> DEFINE i == intent[u]
<1>1. PICK E \in SUBSET Late :
        /\ ~NameTaken(i.name, E) /\ ~CrestTaken(i.crest, E)
        /\ guild' = [GuildsAfter(E) EXCEPT ![g] = Charter(u, i)]
        /\ role' = [RolesAfter(E) EXCEPT ![g][u] = "leader"]
  BY SweptIsLate DEF Confirm
<1>2. /\ i # None /\ i.life = life[u] /\ guild[g].status = "none"
      /\ gold' = [gold EXCEPT ![u] = @ - Cost] /\ intent' = [intent EXCEPT ![u] = None]
  BY DEF Confirm
<1>3. guild'[g] = Charter(u, i) /\ \A h \in Guild \ {g} : guild'[h] = GuildsAfter(E)[h]
  BY <1>1 DEF GuildsAfter
<1>4. gold'[u] = gold[u] - Cost /\ (\A v \in User \ {u} : gold'[v] = gold[v]) /\ intent'[u] = None
  BY <1>2 DEF IndInv, People
<1>5. \A h \in Guild \ {g} : /\ guild'[h].name # guild'[g].name
                             /\ guild'[g].crest # None => guild'[h].crest # guild'[g].crest
  BY <1>1, <1>3 DEF NameTaken, CrestTaken, Charter
<1>6. {v \in User : role'[g][v] # "none"} = {u}
  <2>1. g \notin Late /\ \A v \in User : role[g][v] = "none"
    BY <1>2 DEF Late, IndInv, Tables, Good, LedAt, LiveRow
  <2>2. RolesAfter(E) \in [Guild -> [User -> Roles]] /\ RolesAfter(E)[g] = role[g]
    BY <2>1, Sweep DEF IndInv, Good, Typed
  <2>3. QED
    BY <1>1, <2>1, <2>2
<1>7. guild'[g].status = "forming" /\ guild'[g].leader = u
  BY <1>3 DEF Charter
<1>8. \A h \in Guild \ {g} : guild[h].status = "none" => guild'[h].status = "none"
  BY <1>3, NoGuildOfSweep
<1>9. QED
  BY <1>2, <1>4, <1>5, <1>6, <1>7, <1>8 DEF Founded

(* Gold buys a guild, once, and no guild comes for nothing.                *)
THEOREM FeeForGuild == Spec => FeeBuysAGuild
<1>1. ASSUME IndInv, [Next]_vars
      PROVE  /\ \A u \in User : gold'[u] < gold[u] /\ life'[u] = life[u] =>
                  gold'[u] = gold[u] - Cost /\ \E g \in Guild : Founded(u, g)
             /\ \A g \in Guild : guild[g].status = "none" /\ guild'[g].status # "none" =>
                  \E u \in User : gold'[u] = gold[u] - Cost /\ Founded(u, g)
  <2>1. gold \in [User -> Nat]
    BY <1>1 DEF IndInv, People
  <2>2. CASE \E u \in User, g \in Guild : Confirm(u, g)
    <3>1. PICK u \in User, g \in Guild : Confirm(u, g)
      BY <2>2
    <3>2. /\ Founded(u, g) /\ gold'[u] = gold[u] - Cost
          /\ \A v \in User \ {u} : ~(gold'[v] < gold[v])
          /\ \A h \in Guild \ {g} : guild[h].status = "none" => guild'[h].status = "none"
      BY <1>1, <2>1, <3>1, ConfirmFounds
    <3>3. QED
      BY <3>2
  <2>3. CASE ~\E u \in User, g \in Guild : Confirm(u, g)
    BY <1>1, <2>3, OthersQuiet DEF Quiet
  <2>4. QED
    BY <2>2, <2>3
<1>2. QED
  BY <1>1, GuildInvariant, PTL DEF Spec, FeeBuysAGuild
=============================================================================
