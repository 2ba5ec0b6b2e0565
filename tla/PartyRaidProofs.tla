-------------------------- MODULE PartyRaidProofs --------------------------
(***************************************************************************)
(* What holds of gatherings and raids for every number of heroes, of       *)
(* gatherings, turns and lives: no hero is in two of them, the leases are  *)
(* those of the raids under way, and nobody fights for nothing.            *)
(***************************************************************************)
EXTENDS PartyRaid, FiniteSetTheorems, TLAPS

-----------------------------------------------------------------------------
(* The invariant, of any tables *)

Alive(g) == g.status \in {"recruiting", "active"}

(* A gathering lists each of its heroes once, holds a key for each while it *)
(* lives, and is led by one of them.                                        *)
Sound(g) ==
  /\ \A i, j \in DOMAIN g.members : g.members[i].who = g.members[j].who => i = j
  /\ g.keyed = IF Alive(g) THEN {g.members[i].who : i \in DOMAIN g.members} ELSE {}
  /\ Alive(g) => g.leader \in g.keyed

Folk(ps) ==
  /\ ps \in [Party -> Gathering]
  /\ \A p \in Party : Sound(ps[p])
  /\ \A p, q \in Party : p # q => ps[p].keyed \cap ps[q].keyed = {}

(* Raids are the gatherings under way, and leases those of their heroes.    *)
Crews(ps, rs, ls) ==
  \A p \in Party :
    /\ rs[p].status = "active" <=> ps[p].status = "active"
    /\ \A c \in Character : ls[c] = p <=> ps[p].status = "active" /\ c \in ps[p].keyed

Worth(ps, cl, lf) ==
  \A p \in Barrel : ps[p].status = "active" =>
    \A i \in DOMAIN ps[p].members :
      cl[ps[p].members[i].who] = "none" /\ lf[ps[p].members[i].who] = ps[p].members[i].life

(* A raid is late once.                                                     *)
Once == \A i, j \in DOMAIN late : late[i] = late[j] => i = j

IndInv == TypeOK /\ Folk(party) /\ Crews(party, raid, lease) /\ Worth(party, claim, life) /\ Once

-----------------------------------------------------------------------------
(* Sequences without one element *)

Cut(s, k) == SubSeq(s, 1, k-1) \o SubSeq(s, k+1, Len(s))

LEMMA CutIs ==
  ASSUME NEW S, NEW s \in Seq(S), NEW k \in DOMAIN s
  PROVE  /\ Cut(s, k) \in Seq(S) /\ DOMAIN Cut(s, k) = 1 .. Len(s) - 1
         /\ \A i \in 1 .. Len(s) - 1 : Cut(s, k)[i] = IF i < k THEN s[i] ELSE s[i+1]
<1> DEFINE a == SubSeq(s, 1, k-1)
           b == SubSeq(s, k+1, Len(s))
<1>1. a \in Seq(S) /\ Len(a) = k-1 /\ \A i \in 1 .. k-1 : a[i] = s[i]
  OBVIOUS
<1>2. b \in Seq(S) /\ Len(b) = Len(s)-k /\ \A i \in 1 .. Len(s)-k : b[i] = s[i+k]
  OBVIOUS
<1> HIDE DEF a, b
<1>3. a \o b \in Seq(S) /\ Len(a \o b) = Len(s) - 1
  BY <1>1, <1>2
<1>4. ASSUME NEW i \in 1 .. Len(s) - 1 PROVE (a \o b)[i] = IF i < k THEN s[i] ELSE s[i+1]
  BY <1>1, <1>2
<1>5. Cut(s, k) = a \o b
  BY DEF a, b, Cut
<1>6. QED
  BY <1>3, <1>4, <1>5

LEMMA LateOut ==
  ASSUME NEW s \in Seq(Party), NEW p \in Party, \A i, j \in DOMAIN s : s[i] = s[j] => i = j
  PROVE  /\ RemoveFirst(s, p) \in Seq(Party)
         /\ \A i, j \in DOMAIN RemoveFirst(s, p) : RemoveFirst(s, p)[i] = RemoveFirst(s, p)[j] => i = j
<1>1. CASE \A i \in 1 .. Len(s) : s[i] # p
  BY <1>1 DEF RemoveFirst
<1>2. ASSUME NEW k \in 1 .. Len(s), s[k] = p
      PROVE  /\ Cut(s, k) = RemoveFirst(s, p)
             /\ Cut(s, k) \in Seq(Party)
             /\ \A i, j \in DOMAIN Cut(s, k) : Cut(s, k)[i] = Cut(s, k)[j] => i = j
  <2>1. {i \in 1 .. Len(s) : s[i] = p} = {k}
    BY <1>2
  <2>2. Min({k}) = k
    BY DEF Min
  <2>3. RemoveFirst(s, p) = Cut(s, k)
    BY <1>2, <2>1, <2>2 DEF RemoveFirst, RemoveAt, SelectInSeq, Cut
  <2>4. /\ Cut(s, k) \in Seq(Party) /\ DOMAIN Cut(s, k) = 1 .. Len(s) - 1
        /\ \A i \in 1 .. Len(s) - 1 : Cut(s, k)[i] = IF i < k THEN s[i] ELSE s[i+1]
    BY CutIs
  <2>5. ASSUME NEW i \in 1 .. Len(s) - 1, NEW j \in 1 .. Len(s) - 1, Cut(s, k)[i] = Cut(s, k)[j] PROVE i = j
    BY <2>4, <2>5
  <2>6. QED
    BY <2>3, <2>4, <2>5
<1>3. QED
  BY <1>1, <1>2


-----------------------------------------------------------------------------
(* Gatherings *)

LEMMA OverIs == Over \in Gathering /\ Sound(Over) /\ Over.keyed = {} /\ ~Alive(Over)
BY DEF Over, Gathering, Sound, Alive

LEMMA MemberIs ==
  ASSUME NEW g \in Gathering, NEW i \in DOMAIN g.members
  PROVE  g.members[i] \in Member /\ g.members[i].who \in Character
<1>1. g.members \in Seq(Member)
  BY DEF Gathering
<1>2. g.members[i] \in Member
  BY <1>1
<1>3. QED
  BY <1>2 DEF Member

LEMMA KeyedIs ==
  ASSUME NEW g, Sound(g), Alive(g)
  PROVE  /\ \A i \in DOMAIN g.members : g.members[i].who \in g.keyed
         /\ g.leader \in g.keyed
BY DEF Sound

LEMMA SoundIs ==
  ASSUME NEW g, NEW s, g.members = s, \A i, j \in DOMAIN s : s[i].who = s[j].who => i = j,
         g.keyed = {s[i].who : i \in DOMAIN s}, g.leader \in g.keyed, Alive(g)
  PROVE  Sound(g)
BY DEF Sound

LEMMA SoundToo ==
  ASSUME NEW g, NEW h, Sound(g), Alive(g), Alive(h),
         h.members = g.members, h.keyed = g.keyed, h.leader = g.leader
  PROVE  Sound(h)
BY DEF Sound

(* Who leaves leaves one row less, and a leader who is still there.         *)
LEMMA WithoutIs ==
  ASSUME NEW g \in Gathering, Sound(g), Alive(g), NEW c \in g.keyed
  PROVE  /\ Without(g, c) \in Gathering /\ Sound(Without(g, c))
         /\ Without(g, c).keyed \subseteq g.keyed
         /\ Without(g, c).status \in {g.status, "none"}
<1> DEFINE s == g.members
<1>1. s \in Seq(Member)
  BY DEF Gathering
<1>2. PICK k \in DOMAIN s : s[k].who = c
  BY DEF Sound
<1> DEFINE rest == Cut(s, k)
           out == [g EXCEPT !.members = rest, !.keyed = @ \ {c}]
<1>3. {i \in 1 .. Len(s) : s[i].who = c} = {k}
  BY <1>1, <1>2 DEF Sound
<1>4. Min({k}) = k
  BY DEF Min
<1>5. Without(g, c) = IF rest = <<>> THEN Over
                      ELSE [out EXCEPT !.leader = IF @ = c THEN rest[1].who ELSE @]
  BY <1>1, <1>2, <1>3, <1>4 DEF Without, RemoveFirstMatch, RemoveAt, SelectInSeq, Cut
<1>6. /\ rest \in Seq(Member) /\ DOMAIN rest = 1 .. Len(s) - 1
      /\ \A i \in 1 .. Len(s) - 1 : rest[i] = IF i < k THEN s[i] ELSE s[i+1]
  BY <1>1, CutIs
<1>0. /\ Len(s) \in Nat /\ DOMAIN s = 1 .. Len(s) /\ k \in 1 .. Len(s)
      /\ \A i, j \in 1 .. Len(s) : s[i].who = s[j].who => i = j
      /\ g.keyed = {s[i].who : i \in 1 .. Len(s)}
      /\ \A i \in 1 .. Len(s) : s[i] \in Member
  BY <1>1 DEF Sound
<1> HIDE DEF rest, s
<1>7. \A i, j \in DOMAIN rest : rest[i].who = rest[j].who => i = j
  <2>1. ASSUME NEW i \in 1 .. Len(s) - 1, NEW j \in 1 .. Len(s) - 1, rest[i].who = rest[j].who
        PROVE  i = j
    <3>1. \E x, y \in 1 .. Len(s) :
            /\ rest[i] = s[x] /\ x = (IF i < k THEN i ELSE i + 1)
            /\ rest[j] = s[y] /\ y = (IF j < k THEN j ELSE j + 1)
      BY <1>0, <1>6
    <3>2. QED
      BY <1>0, <2>1, <3>1
  <2>2. QED
    BY <1>6, <2>1
<1>8. {rest[i].who : i \in DOMAIN rest} = g.keyed \ {c}
  <2>1. ASSUME NEW i \in 1 .. Len(s) - 1
        PROVE  \E x \in 1 .. Len(s) : x # k /\ rest[i] = s[x]
    <3>1. CASE i < k
      <4>1. i \in 1 .. Len(s) /\ i # k /\ rest[i] = s[i]
        BY <1>0, <1>6, <3>1
      <4>2. QED
        BY <4>1
    <3>2. CASE ~(i < k)
      <4>1. i + 1 \in 1 .. Len(s) /\ i + 1 # k /\ rest[i] = s[i + 1]
        BY <1>0, <1>6, <3>2
      <4>2. QED
        BY <4>1
    <3>3. QED
      BY <3>1, <3>2
  <2>2. \A i \in DOMAIN rest : rest[i].who \in g.keyed \ {c}
    BY <1>0, <1>2, <1>6, <2>1
  <2>3. ASSUME NEW d \in g.keyed \ {c} PROVE \E i \in DOMAIN rest : rest[i].who = d
    <3>1. PICK i \in 1 .. Len(s) : s[i].who = d
      BY <1>0
    <3>2. CASE i < k
      <4>1. i \in 1 .. Len(s) - 1 /\ rest[i] = s[i]
        BY <1>0, <1>6, <3>2
      <4>2. QED
        BY <1>6, <3>1, <4>1
    <3>3. CASE i > k
      <4>1. i - 1 \in 1 .. Len(s) - 1 /\ ~(i - 1 < k) /\ (i - 1) + 1 = i
        BY <1>0, <3>3
      <4>2. QED
        BY <1>6, <3>1, <4>1
    <3>4. QED
      BY <1>0, <1>2, <3>1, <3>2, <3>3
  <2>4. QED
    BY <2>2, <2>3
<1>9. CASE rest = <<>>
  BY <1>5, <1>9, OverIs DEF Over
<1>10. CASE rest # <<>>
  <2> DEFINE w == [out EXCEPT !.leader = IF @ = c THEN rest[1].who ELSE @]
  <2>1. 1 \in DOMAIN rest /\ rest[1].who \in Character /\ rest[1].who \in g.keyed \ {c}
    <3>1. 1 \in DOMAIN rest /\ rest[1] \in Member
      BY <1>6, <1>10
    <3>2. QED
      BY <1>8, <3>1 DEF Member
  <2>2. /\ w.status = g.status /\ w.members = rest /\ w.keyed = g.keyed \ {c} /\ w.due = g.due
        /\ w.leader = IF g.leader = c THEN rest[1].who ELSE g.leader
    BY DEF Gathering
  <2>3. w \in Gathering
    BY <1>6, <2>1 DEF Gathering
  <2> HIDE DEF w
  <2>4. Sound(w)
    BY <1>7, <1>8, <2>1, <2>2 DEF Sound, Alive
  <2>5. QED
    BY <1>5, <1>10, <2>2, <2>3, <2>4 DEF w
<1>11. QED
  BY <1>9, <1>10

(* Gatherings may end and lose heroes, each for itself.                     *)
LEMMA Shrink ==
  ASSUME NEW ps, NEW qs, Folk(ps), qs \in [Party -> Gathering],
         \A p \in Party : Sound(qs[p]) /\ qs[p].keyed \subseteq ps[p].keyed
  PROVE  Folk(qs)
BY DEF Folk

(* What is under way stays as it is, and what is not does not begin.        *)
SameBattles(ps, qs) ==
  \A p \in Party : ps[p].status = "active" \/ qs[p].status = "active" => qs[p] = ps[p]

LEMMA Aside ==
  ASSUME NEW ps, NEW qs, NEW rs, NEW ls, NEW cl, NEW lf,
         Crews(ps, rs, ls), Worth(ps, cl, lf), SameBattles(ps, qs)
  PROVE  Crews(qs, rs, ls) /\ Worth(qs, cl, lf)
<1>1. Crews(qs, rs, ls)
  BY DEF Crews, SameBattles
<1>2. Worth(qs, cl, lf)
  BY RaidAssumption DEF Worth, SameBattles
<1>3. QED
  BY <1>1, <1>2


(* What the keys mean.                                                      *)
LEMMA Keys ==
  ASSUME IndInv
  PROVE  /\ \A p \in Party : Live(p) <=> Alive(party[p])
         /\ \A p \in Party : Live(p) => party[p].keyed = Heroes(p)
         /\ \A p \in Party : ~Live(p) => party[p].keyed = {}
         /\ \A p \in Party : Heroes(p) \subseteq Character
         /\ \A p \in Party, c \in Character : c \in party[p].keyed => Live(p)
<1>1. ASSUME NEW p \in Party PROVE Sound(party[p]) /\ party[p] \in Gathering
  BY DEF IndInv, Folk
<1>2. ASSUME NEW p \in Party PROVE Heroes(p) \subseteq Character
  <2>1. \A i \in DOMAIN party[p].members : party[p].members[i] \in Member
    BY <1>1 DEF Gathering
  <2>2. QED
    BY <2>1 DEF Heroes, Member
<1>3. QED
  BY <1>1, <1>2 DEF Sound, Alive, Live, Heroes

-----------------------------------------------------------------------------
(* Steps of gatherings *)

(* Gatherings that come, go or change before any battle leave the raids,    *)
(* their leases and their worth alone.                                      *)
LEMMA Elsewhere ==
  ASSUME IndInv, Folk(party'), SameBattles(party, party'),
         UNCHANGED <<raid, choice, late, lease, life, claim, tired, held, hand, clock>>
  PROVE  IndInv'
<1>1. Crews(party', raid, lease) /\ Worth(party', claim, life)
  BY Aside DEF IndInv
<1>2. TypeOK'
  BY DEF IndInv, TypeOK, Folk
<1>3. QED
  BY <1>1, <1>2 DEF IndInv, Once

LEMMA ExpireAllIs ==
  ASSUME IndInv
  PROVE  Folk(ExpireAll) /\ SameBattles(party, ExpireAll)
<1>1. \A p \in Party : ExpireAll[p] = party[p] \/ ExpireAll[p] = Over
  BY DEF ExpireAll
<1>2. ExpireAll \in [Party -> Gathering]
  BY OverIs DEF ExpireAll, IndInv, Folk
<1>3. Folk(ExpireAll)
  <2>1. \A p \in Party : Sound(ExpireAll[p]) /\ ExpireAll[p].keyed \subseteq party[p].keyed
    BY <1>1, OverIs DEF IndInv, Folk
  <2>2. QED
    BY <1>2, <2>1, Shrink DEF IndInv
<1>4. SameBattles(party, ExpireAll)
  BY DEF SameBattles, ExpireAll, Overdue, Over
<1>5. QED
  BY <1>3, <1>4

(* One gathering changes, without battle, and gains nobody.                 *)
LEMMA Lessen ==
  ASSUME IndInv, NEW p \in Party, NEW g \in Gathering, Sound(g),
         party[p].status # "active", g.status # "active", g.keyed \subseteq party[p].keyed,
         party' = [party EXCEPT ![p] = g]
  PROVE  Folk(party') /\ SameBattles(party, party')
<1>1. party \in [Party -> Gathering] /\ \A q \in Party : Sound(party[q])
  BY DEF IndInv, Folk
<1>2. party' \in [Party -> Gathering]
  BY <1>1
<1>3. \A q \in Party : Sound(party'[q]) /\ party'[q].keyed \subseteq party[q].keyed
  BY <1>1
<1>4. Folk(party')
  BY <1>2, <1>3, Shrink DEF IndInv
<1>5. SameBattles(party, party')
  BY <1>1 DEF SameBattles
<1>6. QED
  BY <1>4, <1>5

(* Create founds a gathering of one hero who has no other.                  *)
LEMMA CreateInv ==
  ASSUME IndInv, NEW c \in Character, NEW p \in Party, Create(c, p)
  PROVE  IndInv'
<1> DEFINE now == ExpireAll
           g == [status |-> "recruiting", leader |-> c, members |-> <<NewMember(c)>>,
                 keyed |-> {c}, due |-> FALSE]
<1>1. Folk(now) /\ SameBattles(party, now)
  BY ExpireAllIs
<1>2. /\ party' = [now EXCEPT ![p] = g] /\ raid' = [raid EXCEPT ![p] = NoRaid]
      /\ UNCHANGED <<choice, late, lease, life, claim, tired, held, hand, clock>>
      /\ ~Live(p)
      /\ ~\E q \in Party : c \in now[q].keyed /\ now[q].status \in {"recruiting", "active"}
  BY DEF Create, Unused
<1> HIDE DEF now
<1>3. NewMember(c) \in Member /\ NewMember(c).who = c
  BY DEF NewMember, Member, IndInv, TypeOK
<1>4. g \in Gathering /\ Sound(g) /\ g.keyed = {c} /\ g.status = "recruiting"
  <2>1. <<NewMember(c)>> \in Seq(Member) /\ DOMAIN <<NewMember(c)>> = {1} /\ <<NewMember(c)>>[1].who = c
    BY <1>3
  <2>2. g \in Gathering
    BY <2>1 DEF Gathering
  <2>3. Sound(g)
    BY <2>1 DEF Sound, Alive
  <2>4. QED
    BY <2>2, <2>3
<1> HIDE DEF g
<1>5. \A q \in Party : c \notin now[q].keyed
  BY <1>1, <1>2 DEF Folk, Sound, Alive
<1>6. now \in [Party -> Gathering]
  BY <1>1 DEF Folk
<1>7. Folk(party')
  BY <1>1, <1>2, <1>4, <1>5, <1>6 DEF Folk
<1>8. party[p].status # "active" /\ raid[p].status # "active"
  BY <1>2 DEF Live, IndInv, Crews
<1>9. SameBattles(party, party')
  BY <1>1, <1>2, <1>4, <1>6, <1>8 DEF SameBattles
<1>10. Crews(party', raid', lease) /\ Worth(party', claim, life)
  <2>1. Crews(party', raid, lease) /\ Worth(party', claim, life)
    BY <1>9, Aside DEF IndInv
  <2>2. \A q \in Party : raid'[q].status = "active" <=> raid[q].status = "active"
    BY <1>2, <1>8 DEF NoRaid, IndInv, TypeOK
  <2>3. QED
    BY <2>1, <2>2 DEF Crews
<1>11. TypeOK'
  <2>1. raid' \in [Party -> [status: {"none", "active"}, turn: 0 .. MaxTurn, up: SUBSET Character]]
    BY <1>2, RaidAssumption DEF NoRaid, IndInv, TypeOK
  <2>2. QED
    BY <1>2, <1>7, <2>1 DEF IndInv, TypeOK, Folk
<1>12. QED
  BY <1>2, <1>7, <1>10, <1>11 DEF IndInv, Once


(* Join gives up the hero's own gathering and adds one row to another.      *)
LEMMA JoinInv ==
  ASSUME IndInv, NEW c \in Character, NEW p \in Party, Join(c, p)
  PROVE  IndInv'
<1> DEFINE q == CHOOSE q \in PlaceOf(c) : TRUE
           moved == IF PlaceOf(c) = {} THEN party ELSE [party EXCEPT ![q] = Over]
           g == [party[p] EXCEPT !.members = Append(@, NewMember(c)), !.keyed = @ \cup {c}]
<1>1. /\ party[p].status = "recruiting" /\ c \notin Heroes(p) /\ FreeToJoin(c, p)
      /\ party' = [moved EXCEPT ![p].members = Append(@, NewMember(c)), ![p].keyed = @ \cup {c}]
      /\ UNCHANGED <<raid, choice, late, lease, life, claim, tired, held, hand, clock>>
  BY DEF Join
<1>2. /\ party \in [Party -> Gathering] /\ \A r \in Party : Sound(party[r])
      /\ \A r, t \in Party : r # t => party[r].keyed \cap party[t].keyed = {}
  BY DEF IndInv, Folk
<1>3. \A r \in Party : c \in party[r].keyed <=> r \in PlaceOf(c)
  BY Keys DEF PlaceOf
<1>4. p \notin PlaceOf(c) /\ Live(p) /\ Heroes(p) = party[p].keyed
  BY <1>1, <1>3, Keys DEF Live
<1>5. /\ moved \in [Party -> Gathering] /\ Folk(moved) /\ SameBattles(party, moved)
      /\ moved[p] = party[p] /\ \A r \in Party : c \notin moved[r].keyed
  <2>1. CASE PlaceOf(c) = {}
    BY <1>2, <1>3, <2>1 DEF SameBattles, IndInv
  <2>2. CASE PlaceOf(c) # {}
    <3>1. q \in PlaceOf(c) /\ q \in Party /\ q # p /\ Personal(q, c)
      BY <1>1, <1>4, <2>2 DEF FreeToJoin, PlaceOf
    <3>2. moved = [party EXCEPT ![q] = Over]
      BY <2>2
    <3> HIDE DEF q, moved
    <3>3. moved \in [Party -> Gathering] /\ moved[p] = party[p]
      BY <1>2, <3>1, <3>2, OverIs
    <3>4. \A r \in Party : Sound(moved[r]) /\ moved[r].keyed \subseteq party[r].keyed
      BY <1>2, <3>1, <3>2, OverIs
    <3>5. Folk(moved)
      BY <3>3, <3>4, Shrink DEF IndInv
    <3>6. SameBattles(party, moved)
      BY <1>2, <3>1, <3>2 DEF SameBattles, Personal, Over
    <3>7. \A r \in Party : c \notin moved[r].keyed
      BY <1>2, <1>3, <3>1, <3>2, OverIs
    <3>8. QED
      BY <3>3, <3>5, <3>6, <3>7
  <2>3. QED
    BY <2>1, <2>2
<1> HIDE DEF q, moved
<1>6. party' = [moved EXCEPT ![p] = g]
  BY <1>1, <1>5
<1>7. NewMember(c) \in Member /\ NewMember(c).who = c
  BY DEF NewMember, Member, IndInv, TypeOK
<1>8. /\ g.members = Append(party[p].members, NewMember(c)) /\ g.keyed = party[p].keyed \cup {c}
      /\ g.status = "recruiting" /\ g.leader = party[p].leader /\ g.due = party[p].due
  BY <1>1, <1>2 DEF Gathering
<1>9. g \in Gathering /\ Sound(g)
  <2> DEFINE s == party[p].members
             t == Append(s, NewMember(c))
  <2>1. s \in Seq(Member) /\ party[p] \in Gathering
    BY <1>2 DEF Gathering
  <2>2. /\ t \in Seq(Member) /\ DOMAIN t = 1 .. Len(s) + 1
        /\ \A i \in DOMAIN s : t[i] = s[i]
        /\ t[Len(s) + 1] = NewMember(c) /\ DOMAIN s = 1 .. Len(s) /\ Len(s) \in Nat
    BY <1>7, <2>1
  <2>3. g \in Gathering
    BY <2>1, <2>2 DEF Gathering
  <2> HIDE DEF s, t, g
  <2>4. \A i \in DOMAIN s : s[i].who # c
    BY <1>1 DEF Heroes, s
  <2>5. \A i, j \in DOMAIN s : s[i].who = s[j].who => i = j
    BY <1>2 DEF Sound, s
  <2>6. \A i, j \in DOMAIN t : t[i].who = t[j].who => i = j
    BY <1>7, <2>2, <2>4, <2>5
  <2>7. party[p].keyed = {s[i].who : i \in DOMAIN s}
    BY <1>4 DEF Heroes, s
  <2>8. {t[i].who : i \in DOMAIN t} = {s[i].who : i \in DOMAIN s} \cup {c}
    <3>1. DOMAIN t = DOMAIN s \cup {Len(s) + 1}
      BY <2>2
    <3>2. \A i \in DOMAIN s : t[i].who = s[i].who
      BY <2>2
    <3>3. t[Len(s) + 1].who = c
      BY <1>7, <2>2
    <3>4. QED
      BY <3>1, <3>2, <3>3
  <2>9. party[p].leader \in party[p].keyed
    BY <1>1, <1>2 DEF Sound, Alive
  <2>10. g.members = t
    BY <1>8 DEF s, t
  <2>11. g.keyed = {t[i].who : i \in DOMAIN t} /\ g.leader \in g.keyed /\ Alive(g)
    BY <1>8, <2>7, <2>8, <2>9 DEF Alive
  <2>12. Sound(g)
    BY <2>6, <2>10, <2>11, SoundIs
  <2>13. QED
    BY <2>3, <2>12
<1> HIDE DEF g
<1>10. Folk(party')
  <2>1. party' \in [Party -> Gathering] /\ \A r \in Party : Sound(party'[r])
    BY <1>5, <1>6, <1>9 DEF Folk
  <2>2. ASSUME NEW r \in Party, NEW t \in Party, r # t
        PROVE  party'[r].keyed \cap party'[t].keyed = {}
    BY <1>5, <1>6, <1>8, <2>2 DEF Folk
  <2>3. QED
    BY <2>1, <2>2 DEF Folk
<1>11. SameBattles(party, party')
  BY <1>1, <1>5, <1>6, <1>8 DEF SameBattles
<1>12. QED
  BY <1>1, <1>10, <1>11, Elsewhere

LEMMA LeaveInv ==
  ASSUME IndInv, NEW c \in Character, NEW p \in Party, Leave(c, p)
  PROVE  IndInv'
<1>1. /\ party[p].status = "recruiting" /\ c \in Heroes(p)
      /\ party' = [party EXCEPT ![p] = Without(@, c)]
      /\ UNCHANGED <<raid, choice, late, lease, life, claim, tired, held, hand, clock>>
  BY DEF Leave
<1>2. party[p] \in Gathering /\ Sound(party[p]) /\ Alive(party[p]) /\ c \in party[p].keyed
  BY <1>1, Keys DEF IndInv, Folk, Live
<1>3. /\ Without(party[p], c) \in Gathering /\ Sound(Without(party[p], c))
      /\ Without(party[p], c).keyed \subseteq party[p].keyed
      /\ Without(party[p], c).status \in {party[p].status, "none"}
  BY <1>2, WithoutIs
<1>4. Folk(party') /\ SameBattles(party, party')
  BY <1>1, <1>3, Lessen
<1>5. QED
  BY <1>1, <1>4, Elsewhere

(* Cancel, and the expiry by any reader.                                    *)
LEMMA EndsInv ==
  ASSUME IndInv, NEW p \in Party, party[p].status = "recruiting", party' = [party EXCEPT ![p] = Over],
         UNCHANGED <<raid, choice, late, lease, life, claim, tired, held, hand, clock>>
  PROVE  IndInv'
<1>1. Folk(party') /\ SameBattles(party, party')
  BY OverIs, Lessen DEF Over
<1>2. QED
  BY <1>1, Elsewhere

LEMMA CancelInv ==
  ASSUME IndInv, NEW c \in Character, NEW p \in Party, Cancel(c, p)
  PROVE  IndInv'
BY EndsInv DEF Cancel

LEMMA LookInv ==
  ASSUME IndInv, NEW p \in Party, Look(p)
  PROVE  IndInv'
BY EndsInv DEF Look, ExpireOne, Overdue

LEMMA PassGatheringInv ==
  ASSUME IndInv, NEW p \in Party, PassGathering(p)
  PROVE  IndInv'
<1> DEFINE g == [party[p] EXCEPT !.due = TRUE]
<1>1. /\ party[p].status = "recruiting" /\ party' = [party EXCEPT ![p] = g]
      /\ UNCHANGED <<raid, choice, late, lease, life, claim, tired, held, hand, clock>>
  <2>1. party \in [Party -> Gathering]
    BY DEF IndInv, Folk
  <2>2. QED
    BY <2>1 DEF PassGathering
<1>2. party[p] \in Gathering /\ Sound(party[p])
  BY DEF IndInv, Folk
<1>3. /\ g \in Gathering /\ g.status = party[p].status /\ g.keyed = party[p].keyed
      /\ g.leader = party[p].leader /\ g.members = party[p].members
  BY <1>2 DEF Gathering
<1> HIDE DEF g
<1>4. Sound(g)
  BY <1>2, <1>3 DEF Sound, Alive
<1>5. Folk(party') /\ SameBattles(party, party')
  BY <1>1, <1>3, <1>4, Lessen
<1>6. QED
  BY <1>1, <1>5, Elsewhere


-----------------------------------------------------------------------------
(* Starting a raid *)

Raids == [Party -> [status: {"none", "active"}, turn: 0 .. MaxTurn, up: SUBSET Character]]
Leases == [Character -> Party \cup {None, "battle"}]

(* What a step that begins, plays or ends raids has to show.                *)
Agree ==
  /\ Folk(party') /\ Crews(party', raid', lease') /\ Worth(party', claim', life')
  /\ raid' \in Raids /\ lease' \in Leases

LEMMA EnterIs ==
  ASSUME IndInv, NEW p \in Party, party[p].status = "recruiting", MayEnter(p), Enter(p),
         UNCHANGED <<claim, life>>
  PROVE  Agree
<1> DEFINE g == [party[p] EXCEPT !.status = "active"]
<1>1. PICK up \in SUBSET Heroes(p) :
        /\ party' = [party EXCEPT ![p] = g]
        /\ raid' = [raid EXCEPT ![p] = [status |-> "active", turn |-> 1, up |-> up]]
        /\ lease' = [c \in Character |-> IF c \in Heroes(p) THEN p ELSE lease[c]]
  <2>1. party \in [Party -> Gathering]
    BY DEF IndInv, Folk
  <2>2. QED
    BY <2>1 DEF Enter
<1>2. /\ party \in [Party -> Gathering] /\ \A q \in Party : Sound(party[q])
      /\ raid \in Raids /\ lease \in Leases
      /\ Crews(party, raid, lease) /\ Worth(party, claim, life)
  BY DEF IndInv, Folk, TypeOK, Raids, Leases
<1>3. /\ g \in Gathering /\ g.status = "active" /\ g.keyed = party[p].keyed
      /\ g.leader = party[p].leader /\ g.members = party[p].members
  BY <1>2 DEF Gathering
<1> HIDE DEF g
<1>4. Heroes(p) = g.keyed /\ Heroes(p) \subseteq Character
  BY <1>3, Keys DEF Live
<1>5. Sound(g)
  <2>1. Alive(party[p]) /\ Alive(g) /\ Sound(party[p])
    BY <1>2, <1>3 DEF Alive
  <2>2. QED
    BY <1>3, <2>1, SoundToo
<1>6. Folk(party')
  <2>1. party' \in [Party -> Gathering]
    BY <1>1, <1>2, <1>3
  <2>2. \A q \in Party : Sound(party'[q]) /\ party'[q].keyed \subseteq party[q].keyed
    BY <1>1, <1>2, <1>3, <1>5
  <2>3. QED
    BY <2>1, <2>2, Shrink DEF IndInv
<1>7. \A c \in Heroes(p) : lease[c] = None
  BY DEF MayEnter
<1>8. Crews(party', raid', lease')
  <2>1. ASSUME NEW q \in Party PROVE raid'[q].status = "active" <=> party'[q].status = "active"
    BY <1>1, <1>2, <1>3 DEF Crews, Raids
  <2>2. ASSUME NEW c \in Character
        PROVE  lease'[c] = p <=> party'[p].status = "active" /\ c \in party'[p].keyed
    BY <1>1, <1>2, <1>3, <1>4 DEF Crews
  <2>3. ASSUME NEW q \in Party, q # p, NEW c \in Character
        PROVE  lease'[c] = q <=> party'[q].status = "active" /\ c \in party'[q].keyed
    <3>1. lease[c] = q <=> party'[q].status = "active" /\ c \in party'[q].keyed
      BY <1>1, <1>2, <2>3 DEF Crews
    <3>2. CASE c \in Heroes(p)
      BY <1>1, <1>7, <2>3, <3>1, <3>2, RaidAssumption
    <3>3. CASE c \notin Heroes(p)
      BY <1>1, <3>1, <3>3
    <3>4. QED
      BY <3>2, <3>3
  <2>4. QED
    BY <2>1, <2>2, <2>3 DEF Crews
<1>9. Worth(party', claim', life')
  <2>1. ASSUME p \in Barrel, NEW i \in DOMAIN party[p].members
        PROVE  /\ claim[party[p].members[i].who] = "none"
               /\ life[party[p].members[i].who] = party[p].members[i].life
    <3>1. Conflict(p) = "no"
      BY DEF MayEnter
    <3>2. QED
      BY <2>1, <3>1 DEF Conflict
  <2>2. ASSUME NEW q \in Barrel, q # p PROVE party'[q] = party[q]
    BY <1>1, <1>2, <2>2, RaidAssumption
  <2>3. party'[p] = g
    BY <1>1, <1>2
  <2>4. QED
    BY <1>2, <1>3, <2>1, <2>2, <2>3 DEF Worth
<1>10. raid' \in Raids /\ lease' \in Leases
  BY <1>1, <1>2, <1>4, RaidAssumption DEF Raids, Leases
<1>11. QED
  BY <1>6, <1>8, <1>9, <1>10 DEF Agree

(* The gathering ends instead: it has run out, or may never fight.          *)
LEMMA EndIs ==
  ASSUME IndInv, NEW p \in Party, party[p].status = "recruiting", party' = [party EXCEPT ![p] = Over],
         UNCHANGED <<raid, lease, claim, life>>
  PROVE  Agree
<1>1. Folk(party') /\ SameBattles(party, party')
  BY OverIs, Lessen DEF Over
<1>2. Crews(party', raid, lease) /\ Worth(party', claim, life)
  BY <1>1, Aside DEF IndInv
<1>3. QED
  BY <1>1, <1>2 DEF Agree, IndInv, TypeOK, Raids, Leases

LEMMA BeginIs ==
  ASSUME IndInv, NEW c \in Character, NEW p \in Party, Begin(c, p), UNCHANGED <<claim, life>>
  PROVE  Agree
<1>1. party[p].status = "recruiting"
  BY DEF Begin, Leads
<1>2. CASE Overdue(p) /\ party' = ExpireOne(p) /\ UNCHANGED <<raid, lease>>
  BY <1>1, <1>2, EndIs DEF ExpireOne
<1>3. CASE Closes(p) /\ party' = [party EXCEPT ![p] = Over] /\ UNCHANGED <<raid, lease>>
  BY <1>1, <1>3, EndIs
<1>4. CASE MayEnter(p) /\ Enter(p)
  BY <1>1, <1>4, EnterIs
<1>5. QED
  BY <1>2, <1>3, <1>4 DEF Begin

LEMMA StartInv ==
  ASSUME IndInv, NEW c \in Character, NEW p \in Party, Start(c, p)
  PROVE  IndInv'
<1>1. Agree /\ UNCHANGED <<choice, late, life, claim, tired, held, hand, clock>>
  BY BeginIs DEF Start
<1>2. TypeOK'
  BY <1>1 DEF IndInv, TypeOK, Agree, Folk, Raids, Leases
<1>3. QED
  BY <1>1, <1>2 DEF IndInv, Once, Agree

LEMMA StartDueInv ==
  ASSUME IndInv, StartDue
  PROVE  IndInv'
<1>1. PICK s \in clock.starts :
        /\ clock' = [clock EXCEPT !.starts = @ \ {s}]
        /\ \/ Begin(s.leader, s.p)
           \/ UNCHANGED <<party, raid, lease>>
        /\ UNCHANGED <<choice, late, life, claim, tired, held, hand>>
  BY DEF StartDue
<1>2. s.p \in Party /\ s.leader \in Character
  BY RaidAssumption DEF IndInv, TypeOK
<1>3. Agree
  <2>1. CASE Begin(s.leader, s.p)
    BY <1>1, <1>2, <2>1, BeginIs
  <2>2. CASE UNCHANGED <<party, raid, lease>>
    BY <1>1, <2>2 DEF Agree, IndInv, TypeOK, Raids, Leases
  <2>3. QED
    BY <1>1, <2>1, <2>2
<1>4. clock' \in [phase: {"start", "play"}, starts: SUBSET [p: Barrel, leader: Character],
                  turns: Seq(Party)]
  BY <1>1 DEF IndInv, TypeOK
<1>5. TypeOK'
  BY <1>1, <1>3, <1>4 DEF IndInv, TypeOK, Agree, Folk, Raids, Leases
<1>6. QED
  BY <1>1, <1>3, <1>5 DEF IndInv, Once, Agree


-----------------------------------------------------------------------------
(* Rounds *)

Actions == [Party -> [Character -> {"none", "act", "item"}]]
Claims == [Character -> {"none", "solo", "paid"}]

(* The columns a round writes beside them.                                  *)
RoundTyped ==
  /\ choice' \in Actions /\ late' \in Seq(Party) /\ Once'
  /\ claim' \in Claims /\ tired' \in [Character -> BOOLEAN] /\ held' \in [Character -> BOOLEAN]

(* The last round frees the heroes of the raid, and pays only them.         *)
LEMMA LastRound ==
  ASSUME IndInv, NEW p \in Party, raid[p].status = "active", NEW status,
         Settle(p, status), Release(p), raid' = [raid EXCEPT ![p] = NoRaid], life' = life
  PROVE  Agree /\ claim' \in Claims /\ tired' \in [Character -> BOOLEAN]
<1>1. /\ party \in [Party -> Gathering] /\ \A q \in Party : Sound(party[q])
      /\ raid \in Raids /\ lease \in Leases /\ claim \in Claims
      /\ tired \in [Character -> BOOLEAN]
      /\ Crews(party, raid, lease) /\ Worth(party, claim, life)
      /\ \A q, r \in Party : q # r => party[q].keyed \cap party[r].keyed = {}
  BY DEF IndInv, Folk, TypeOK, Raids, Leases, Claims
<1>2. /\ party' = [party EXCEPT ![p] = Over]
      /\ lease' = [c \in Character |-> IF lease[c] = p THEN None ELSE lease[c]]
  BY DEF Release
<1>3. party[p].status = "active" /\ Heroes(p) = party[p].keyed
  BY <1>1, Keys DEF Crews, Live
<1>4. Folk(party')
  <2>1. party' \in [Party -> Gathering]
    BY <1>1, <1>2, OverIs
  <2>2. \A q \in Party : Sound(party'[q]) /\ party'[q].keyed \subseteq party[q].keyed
    BY <1>1, <1>2, OverIs
  <2>3. QED
    BY <2>1, <2>2, Shrink DEF IndInv
<1>5. Crews(party', raid', lease')
  <2>1. ASSUME NEW q \in Party, q # p
        PROVE  /\ raid'[q] = raid[q] /\ party'[q] = party[q]
               /\ \A c \in Character : lease'[c] = q <=> lease[c] = q
    BY <1>1, <1>2, <2>1, RaidAssumption
  <2>2. /\ raid'[p].status # "active" /\ party'[p].status # "active"
        /\ \A c \in Character : lease'[c] # p
    <3>1. raid'[p] = NoRaid
      BY <1>1 DEF Raids
    <3>2. party'[p] = Over
      BY <1>1, <1>2
    <3>3. \A c \in Character : lease'[c] # p
      BY <1>2, RaidAssumption
    <3>4. QED
      BY <3>1, <3>2, <3>3 DEF NoRaid, Over
  <2>3. QED
    BY <1>1, <2>1, <2>2 DEF Crews
<1>6. /\ claim' \in Claims /\ tired' \in [Character -> BOOLEAN]
      /\ \A c \in Character : c \notin Heroes(p) => claim'[c] = claim[c]
  <2>1. CASE p \notin Barrel
    BY <1>1, <2>1 DEF Settle
  <2>2. CASE p \in Barrel
    <3>1. PICK worthy \in SUBSET Heroes(p) :
            /\ claim' = [c \in Character |->
                 IF status = "won" /\ c \in worthy \cap SameLife(p) /\ claim[c] # "paid"
                 THEN "paid" ELSE claim[c]]
            /\ tired' = [c \in Character |-> tired[c] \/ (status = "lost" /\ c \in worthy \cap SameLife(p))]
      BY <2>2 DEF Settle
    <3>2. claim' \in Claims
      BY <1>1, <3>1 DEF Claims
    <3>3. tired' \in [Character -> BOOLEAN]
      BY <1>1, <3>1
    <3>4. QED
      BY <3>1, <3>2, <3>3
  <2>3. QED
    BY <2>1, <2>2
<1>7. Worth(party', claim', life')
  <2>1. ASSUME NEW q \in Barrel, party'[q].status = "active", NEW i \in DOMAIN party'[q].members
        PROVE  /\ claim'[party'[q].members[i].who] = "none"
               /\ life'[party'[q].members[i].who] = party'[q].members[i].life
    <3>1. q \in Party /\ q # p /\ party'[q] = party[q] /\ party[q].status = "active"
      BY <1>1, <1>2, <2>1, RaidAssumption DEF Over
    <3>2. /\ claim[party[q].members[i].who] = "none"
          /\ life[party[q].members[i].who] = party[q].members[i].life
      BY <1>1, <2>1, <3>1 DEF Worth
    <3>3. party[q].members[i].who \in party[q].keyed /\ party[q].members[i].who \in Character
      <4>1. /\ party[q] \in Gathering /\ Sound(party[q]) /\ Alive(party[q])
            /\ i \in DOMAIN party[q].members
        BY <1>1, <2>1, <3>1 DEF Alive
      <4>2. QED
        BY <4>1, MemberIs, KeyedIs
    <3>4. party[q].members[i].who \notin Heroes(p)
      BY <1>1, <1>3, <3>1, <3>3
    <3>5. QED
      BY <1>6, <3>1, <3>2, <3>3, <3>4
  <2>2. QED
    BY <2>1 DEF Worth
<1>8. raid' \in Raids /\ lease' \in Leases
  <2>1. NoRaid \in [status: {"none", "active"}, turn: 0 .. MaxTurn, up: SUBSET Character]
    BY RaidAssumption DEF NoRaid
  <2>2. QED
    BY <1>1, <1>2, <2>1 DEF Raids, Leases
<1>9. QED
  BY <1>4, <1>5, <1>6, <1>7, <1>8 DEF Agree

LEMMA PlayIs ==
  ASSUME IndInv, NEW p \in Party, raid[p].status = "active", Play(p), life' = life
  PROVE  Agree /\ RoundTyped
<1>1. /\ party \in [Party -> Gathering] /\ raid \in Raids /\ choice \in Actions
      /\ late \in Seq(Party) /\ \A i, j \in DOMAIN late : late[i] = late[j] => i = j
      /\ lease \in Leases /\ claim \in Claims
      /\ tired \in [Character -> BOOLEAN] /\ held \in [Character -> BOOLEAN]
  BY DEF IndInv, TypeOK, Raids, Actions, Leases, Claims, Once
<1>2. PICK up \in SUBSET raid[p].up, slain \in BOOLEAN,
           used \in SUBSET {c \in raid[p].up : choice[p][c] = "item"} :
        /\ NextStatus(up, slain) = "active" => raid[p].turn < MaxTurn
        /\ raid' = [raid EXCEPT ![p] = IF NextStatus(up, slain) = "active"
                                        THEN [status |-> "active", turn |-> raid[p].turn + 1, up |-> up]
                                        ELSE NoRaid]
        /\ choice' = [choice EXCEPT ![p] = [c \in Character |-> "none"]]
        /\ late' = RemoveFirst(late, p)
        /\ Consume(used)
        /\ IF NextStatus(up, slain) = "active" THEN UNCHANGED <<party, lease, claim, tired>>
           ELSE Settle(p, NextStatus(up, slain)) /\ Release(p)
  BY DEF Play
<1>3. choice' \in Actions
  BY <1>1, <1>2 DEF Actions
<1>4. late' \in Seq(Party) /\ Once'
  BY <1>1, <1>2, LateOut DEF Once
<1>5. held' \in [Character -> BOOLEAN]
  BY <1>1, <1>2 DEF Consume
<1>6. CASE NextStatus(up, slain) = "active"
  <2> DEFINE r == [status |-> "active", turn |-> raid[p].turn + 1, up |-> up]
  <2>1. /\ raid' = [raid EXCEPT ![p] = r]
        /\ UNCHANGED <<party, lease, claim, tired>>
    BY <1>2, <1>6
  <2>2. raid[p] \in [status: {"none", "active"}, turn: 0 .. MaxTurn, up: SUBSET Character]
    BY <1>1 DEF Raids
  <2>3. raid[p].turn < MaxTurn /\ MaxTurn \in Nat
    BY <1>2, <1>6, RaidAssumption
  <2>4. /\ r \in [status: {"none", "active"}, turn: 0 .. MaxTurn, up: SUBSET Character]
        /\ r.status = raid[p].status
    BY <2>2, <2>3
  <2> HIDE DEF r
  <2>5. raid' \in Raids /\ \A q \in Party : raid'[q].status = raid[q].status
    BY <1>1, <2>1, <2>4 DEF Raids
  <2>6. Crews(party', raid', lease')
    BY <2>1, <2>5 DEF IndInv, Crews
  <2>7. Agree
    BY <1>1, <2>1, <2>5, <2>6 DEF Agree, IndInv
  <2>8. QED
    BY <1>1, <1>3, <1>4, <1>5, <2>1, <2>7 DEF RoundTyped
<1>7. CASE NextStatus(up, slain) # "active"
  <2>1. /\ raid' = [raid EXCEPT ![p] = NoRaid]
        /\ Settle(p, NextStatus(up, slain)) /\ Release(p)
    BY <1>2, <1>7
  <2>2. Agree /\ claim' \in Claims /\ tired' \in [Character -> BOOLEAN]
    BY <2>1, LastRound
  <2>3. QED
    BY <1>3, <1>4, <1>5, <2>2 DEF RoundTyped
<1>8. QED
  BY <1>6, <1>7

(* Nothing was played: the round was not due, or it failed.                 *)
LEMMA StillIs ==
  ASSUME IndInv, UNCHANGED <<party, raid, choice, late, lease, claim, tired, held, life>>
  PROVE  Agree /\ RoundTyped
BY DEF IndInv, TypeOK, Agree, RoundTyped, Raids, Leases, Actions, Claims, Once

LEMMA RoundInv ==
  ASSUME IndInv, Agree, RoundTyped, life' = life, hand' \in Party \cup {None},
         clock' \in [phase: {"start", "play"}, starts: SUBSET [p: Barrel, leader: Character],
                     turns: Seq(Party)]
  PROVE  IndInv'
<1>1. TypeOK'
  BY DEF IndInv, TypeOK, Agree, RoundTyped, Folk, Raids, Leases, Actions, Claims
<1>2. QED
  BY <1>1 DEF IndInv, Agree, RoundTyped

LEMMA PlayRoundInv ==
  ASSUME IndInv, PlayRound
  PROVE  IndInv'
<1>1. /\ hand \in Party /\ hand' = None /\ UNCHANGED <<life, clock>>
      /\ \/ Ready(hand) /\ (Play(hand) \/ Fail(hand))
         \/ UNCHANGED <<party, raid, choice, late, lease, claim, tired, held>>
  BY DEF PlayRound, IndInv, TypeOK
<1>2. Agree /\ RoundTyped
  <2>1. CASE Ready(hand) /\ Play(hand)
    BY <1>1, <2>1, PlayIs DEF Ready
  <2>2. CASE ~(Ready(hand) /\ Play(hand))
    BY <1>1, <2>2, StillIs DEF Fail
  <2>3. QED
    BY <2>1, <2>2
<1>3. QED
  BY <1>1, <1>2, RoundInv DEF IndInv, TypeOK

LEMMA TimeOutInv ==
  ASSUME IndInv, TimeOut
  PROVE  IndInv'
<1> DEFINE p == Head(clock.turns)
           cl == [phase: {"start", "play"}, starts: SUBSET [p: Barrel, leader: Character],
                  turns: Seq(Party)]
<1>1. clock \in cl /\ clock.turns \in Seq(Party) /\ clock.turns # <<>>
  BY DEF TimeOut, IndInv, TypeOK
<1>2. p \in Party /\ Tail(clock.turns) \in Seq(Party)
  BY <1>1
<1>3. /\ UNCHANGED <<life, hand>>
      /\ \/ TurnIsUp(p) /\ Play(p)
         \/ UNCHANGED <<party, raid, choice, late, lease, claim, tired, held>>
      /\ \/ clock' = [clock EXCEPT !.turns = Tail(@)]
         \/ clock' = [clock EXCEPT !.turns = <<>>]
  BY DEF TimeOut, Fail
<1>4. clock' \in cl
  <2>1. CASE clock' = [clock EXCEPT !.turns = Tail(@)]
    <3> DEFINE t == Tail(clock.turns)
    <3>1. clock' = [clock EXCEPT !.turns = t] /\ t \in Seq(Party)
      BY <1>2, <2>1
    <3> HIDE DEF t
    <3>2. QED
      BY <1>1, <3>1
  <2>2. CASE clock' = [clock EXCEPT !.turns = <<>>]
    <3>1. <<>> \in Seq(Party)
      OBVIOUS
    <3>2. QED
      BY <1>1, <2>2, <3>1
  <2>3. QED
    BY <1>3, <2>1, <2>2
<1> HIDE DEF p
<1>5. Agree /\ RoundTyped
  <2>1. CASE TurnIsUp(p) /\ Play(p)
    BY <1>2, <1>3, <2>1, PlayIs DEF TurnIsUp
  <2>2. CASE ~(TurnIsUp(p) /\ Play(p))
    BY <1>3, <2>2, StillIs
  <2>3. QED
    BY <2>1, <2>2
<1>6. QED
  BY <1>3, <1>4, <1>5, RoundInv DEF IndInv, TypeOK


-----------------------------------------------------------------------------
(* Actions, the clock, and the hero's other affairs *)

LEMMA PressInv ==
  ASSUME IndInv, NEW c \in Character, NEW p \in Party, NEW what \in {"act", "item"}, Press(c, p, what)
  PROVE  IndInv'
<1>1. /\ choice' = [choice EXCEPT ![p][c] = what] /\ hand' = p
      /\ UNCHANGED <<party, raid, late, lease, life, claim, tired, held, clock>>
  BY DEF Press
<1>2. choice' \in [Party -> [Character -> {"none", "act", "item"}]]
  BY <1>1 DEF IndInv, TypeOK
<1>3. QED
  BY <1>1, <1>2 DEF IndInv, TypeOK, Once

(* What the process holds in memory is lists and tokens, whatever they say. *)
LEMMA ClockInv ==
  ASSUME IndInv, Tick \/ ListTurns \/ Crash
  PROVE  IndInv'
<1>1. UNCHANGED <<party, raid, choice, late, lease, life, claim, tired, held>>
  BY DEF Tick, ListTurns, Crash
<1>2. hand' \in Party \cup {None}
  BY DEF Tick, ListTurns, Crash, IndInv, TypeOK
<1>3. clock' \in [phase: {"start", "play"}, starts: SUBSET [p: Barrel, leader: Character],
                  turns: Seq(Party)]
  <2>1. CASE Tick
    <3>1. \A p \in Barrel : party[p].status = "recruiting" => party[p].leader \in Character
      BY RaidAssumption DEF IndInv, Folk, Sound, Alive, Gathering
    <3>2. QED
      BY <2>1, <3>1 DEF Tick
  <2>2. CASE ListTurns
    BY <2>2 DEF ListTurns, IndInv, TypeOK
  <2>3. CASE Crash
    BY <2>3 DEF Crash
  <2>4. QED
    BY <2>1, <2>2, <2>3
<1>4. QED
  BY <1>1, <1>2, <1>3 DEF IndInv, TypeOK, Once

(* A lease that is no raid's comes or goes.                                 *)
LEMMA OtherLeases ==
  ASSUME IndInv, NEW c \in Character, NEW x \in {None, "battle"}, lease[c] \notin Party,
         lease' = [lease EXCEPT ![c] = x], UNCHANGED <<party, raid>>
  PROVE  Crews(party', raid', lease') /\ lease' \in Leases
BY RaidAssumption DEF IndInv, TypeOK, Crews, Leases

LEMMA BattleInv ==
  ASSUME IndInv, NEW c \in Character, Battle(c) \/ BattleEnds(c)
  PROVE  IndInv'
<1>1. /\ \E x \in {None, "battle"} : lease' = [lease EXCEPT ![c] = x]
      /\ lease[c] \notin Party
      /\ UNCHANGED <<party, raid, choice, late, life, claim, tired, held, hand, clock>>
  BY RaidAssumption DEF Battle, BattleEnds
<1>2. Crews(party', raid', lease') /\ lease' \in Leases
  BY <1>1, OtherLeases
<1>3. QED
  BY <1>1, <1>2 DEF IndInv, TypeOK, Once, Leases

(* A reward booked elsewhere is of a hero who is in no raid on the Barrel.  *)
LEMMA SoloEndsInv ==
  ASSUME IndInv, NEW c \in Character, SoloEnds(c)
  PROVE  IndInv'
<1>1. /\ claim[c] = "solo" /\ claim' = [claim EXCEPT ![c] = "paid"]
      /\ UNCHANGED <<party, raid, choice, late, lease, life, tired, held, hand, clock>>
  BY DEF SoloEnds
<1>2. claim \in [Character -> {"none", "solo", "paid"}] /\ Worth(party, claim, life)
  BY DEF IndInv, TypeOK
<1>3. Worth(party', claim', life')
  BY <1>1, <1>2 DEF Worth
<1>4. claim' \in [Character -> {"none", "solo", "paid"}]
  BY <1>1, <1>2
<1>5. QED
  BY <1>1, <1>3, <1>4 DEF IndInv, TypeOK, Once

LEMMA SpendGainInv ==
  ASSUME IndInv, NEW c \in Character, Spend(c) \/ Gain(c)
  PROVE  IndInv'
<1>1. /\ \E b \in BOOLEAN : held' = [held EXCEPT ![c] = b]
      /\ UNCHANGED <<party, raid, choice, late, lease, life, claim, tired, hand, clock>>
  BY DEF Spend, Gain
<1>2. held' \in [Character -> BOOLEAN]
  BY <1>1 DEF IndInv, TypeOK
<1>3. QED
  BY <1>1, <1>2 DEF IndInv, TypeOK, Once

LEMMA PassRestInv ==
  ASSUME IndInv, NEW c \in Character, PassRest(c)
  PROVE  IndInv'
<1>1. tired' \in [Character -> BOOLEAN]
  BY DEF PassRest, IndInv, TypeOK
<1>2. QED
  BY <1>1 DEF PassRest, IndInv, TypeOK, Once

LEMMA PassTurnInv ==
  ASSUME IndInv, NEW p \in Party, PassTurn(p)
  PROVE  IndInv'
<1>1. /\ p \notin Range(late) /\ late' = Append(late, p)
      /\ UNCHANGED <<party, raid, choice, lease, life, claim, tired, held, hand, clock>>
  BY DEF PassTurn
<1>2. late \in Seq(Party) /\ \A i, j \in DOMAIN late : late[i] = late[j] => i = j
  BY DEF IndInv, TypeOK, Once
<1>3. \A i \in DOMAIN late : late[i] # p
  BY <1>1 DEF Range
<1>4. late' \in Seq(Party) /\ Once'
  BY <1>1, <1>2, <1>3 DEF Once
<1>5. QED
  BY <1>1, <1>4 DEF IndInv, TypeOK

(* A remort takes the hero out of what has not begun, and waits for a raid. *)
LEMMA RemortInv ==
  ASSUME IndInv, NEW c \in Character, Remort(c)
  PROVE  IndInv'
<1>1. /\ life[c] < MaxLife /\ lease[c] \notin Party
      /\ life' = [life EXCEPT ![c] = @ + 1]
      /\ lease' = [lease EXCEPT ![c] = None]
      /\ \E x \in {"none", "solo"} : claim' = [claim EXCEPT ![c] = x]
      /\ tired' = [tired EXCEPT ![c] = FALSE] /\ held' = [held EXCEPT ![c] = FALSE]
      /\ party' = [p \in Party |->
           IF ~(party[p].status = "recruiting" /\ c \in party[p].keyed) THEN party[p]
           ELSE IF party[p].due THEN Over ELSE Without(party[p], c)]
      /\ UNCHANGED <<raid, choice, late, hand, clock>>
  BY DEF Remort, MayRemort
<1>2. /\ party \in [Party -> Gathering] /\ \A p \in Party : Sound(party[p])
      /\ Crews(party, raid, lease) /\ Worth(party, claim, life)
  BY DEF IndInv, Folk
<1>3. ASSUME NEW p \in Party
      PROVE  /\ party'[p] \in Gathering /\ Sound(party'[p])
             /\ party'[p].keyed \subseteq party[p].keyed
             /\ party[p].status = "active" \/ party'[p].status = "active" => party'[p] = party[p]
  <2>1. CASE ~(party[p].status = "recruiting" /\ c \in party[p].keyed)
    BY <1>1, <1>2, <2>1
  <2>2. CASE party[p].status = "recruiting" /\ c \in party[p].keyed /\ party[p].due
    BY <1>1, <2>2, OverIs DEF Over
  <2>3. CASE party[p].status = "recruiting" /\ c \in party[p].keyed /\ ~party[p].due
    <3>1. party'[p] = Without(party[p], c)
      BY <1>1, <2>3
    <3>2. Alive(party[p])
      BY <2>3 DEF Alive
    <3>3. /\ Without(party[p], c) \in Gathering /\ Sound(Without(party[p], c))
          /\ Without(party[p], c).keyed \subseteq party[p].keyed
          /\ Without(party[p], c).status \in {party[p].status, "none"}
      BY <1>2, <2>3, <3>2, WithoutIs
    <3>4. QED
      BY <2>3, <3>1, <3>3
  <2>4. QED
    BY <2>1, <2>2, <2>3
<1>4. Folk(party')
  <2>1. party' \in [Party -> Gathering]
    BY <1>1, <1>3
  <2>2. QED
    BY <1>3, <2>1, Shrink DEF IndInv
<1>5. SameBattles(party, party')
  BY <1>3 DEF SameBattles
<1>6. Crews(party', raid', lease')
  <2>1. Crews(party', raid, lease)
    BY <1>2, <1>5, Aside
  <2>2. \A p \in Party : lease'[c] # p /\ lease[c] # p
    BY <1>1, RaidAssumption DEF IndInv, TypeOK
  <2>3. \A p \in Party, d \in Character : lease'[d] = p <=> lease[d] = p
    BY <1>1, <2>2 DEF IndInv, TypeOK
  <2>4. QED
    BY <1>1, <2>1, <2>3 DEF Crews
<1>7. Worth(party', claim', life')
  <2>1. Worth(party', claim, life)
    BY <1>2, <1>5, Aside
  <2>2. ASSUME NEW p \in Barrel, party'[p].status = "active", NEW i \in DOMAIN party'[p].members
        PROVE  party'[p].members[i].who \in Character \ {c}
    <3>1. p \in Party /\ party'[p] = party[p] /\ party'[p] \in Gathering /\ Sound(party'[p])
      BY <1>3, <2>2, RaidAssumption
    <3>2. Alive(party'[p])
      BY <2>2 DEF Alive
    <3>3. party'[p].members[i].who \in Character
      BY <2>2, <3>1, MemberIs
    <3>4. party'[p].members[i].who \in party[p].keyed
      BY <2>2, <3>1, <3>2, KeyedIs
    <3>5. c \notin party[p].keyed
      BY <1>1, <1>2, <2>2, <3>1 DEF Crews
    <3>6. QED
      BY <3>3, <3>4, <3>5
  <2>3. \A d \in Character \ {c} : claim'[d] = claim[d] /\ life'[d] = life[d]
    BY <1>1 DEF IndInv, TypeOK
  <2>4. QED
    BY <2>1, <2>2, <2>3 DEF Worth
<1>8. TypeOK'
  <2>1. life' \in [Character -> 0 .. MaxLife]
    BY <1>1, RaidAssumption DEF IndInv, TypeOK
  <2>2. lease' \in [Character -> Party \cup {None, "battle"}]
    BY <1>1 DEF IndInv, TypeOK
  <2>3. claim' \in [Character -> {"none", "solo", "paid"}]
    BY <1>1 DEF IndInv, TypeOK
  <2>4. tired' \in [Character -> BOOLEAN] /\ held' \in [Character -> BOOLEAN]
    BY <1>1 DEF IndInv, TypeOK
  <2>5. QED
    BY <1>1, <1>4, <2>1, <2>2, <2>3, <2>4 DEF IndInv, TypeOK, Folk
<1>9. QED
  BY <1>1, <1>4, <1>6, <1>7, <1>8 DEF IndInv, Once

-----------------------------------------------------------------------------
(* The theorems *)

LEMMA InitInv == Init => IndInv
<1> SUFFICES ASSUME Init PROVE IndInv
  OBVIOUS
<1>1. /\ party = [p \in Party |-> Over] /\ raid = [p \in Party |-> NoRaid]
      /\ lease = [c \in Character |-> None] /\ late = <<>>
  BY DEF Init
<1>2. Folk(party)
  BY <1>1, OverIs DEF Folk
<1>3. Crews(party, raid, lease)
  BY <1>1, OverIs, RaidAssumption DEF Crews, NoRaid, Over
<1>4. Worth(party, claim, life)
  BY <1>1, RaidAssumption DEF Worth, Over
<1>5. raid \in Raids
  BY <1>1, RaidAssumption DEF Raids, NoRaid
<1>6. TypeOK
  BY <1>2, <1>5, RaidAssumption DEF Init, TypeOK, Folk, Raids
<1>7. Once
  BY <1>1 DEF Once
<1>8. QED
  BY <1>2, <1>3, <1>4, <1>6, <1>7 DEF IndInv

LEMMA NextInv ==
  ASSUME IndInv, [Next]_vars
  PROVE  IndInv'
<1>1. CASE \E c \in Character, p \in Party :
             \/ Create(c, p) \/ Join(c, p) \/ Leave(c, p) \/ Cancel(c, p) \/ Start(c, p)
             \/ \E what \in {"act", "item"} : Press(c, p, what)
  BY <1>1, CreateInv, JoinInv, LeaveInv, CancelInv, StartInv, PressInv
<1>2. CASE \E p \in Party : Look(p) \/ PassGathering(p) \/ PassTurn(p)
  BY <1>2, LookInv, PassGatheringInv, PassTurnInv
<1>3. CASE \E c \in Character :
             \/ Battle(c) \/ BattleEnds(c) \/ SoloEnds(c) \/ Spend(c) \/ Gain(c)
             \/ Remort(c) \/ PassRest(c)
  BY <1>3, BattleInv, SoloEndsInv, SpendGainInv, RemortInv, PassRestInv
<1>4. CASE PlayRound \/ Tick \/ StartDue \/ ListTurns \/ TimeOut \/ Crash
  BY <1>4, PlayRoundInv, ClockInv, StartDueInv, TimeOutInv
<1>5. CASE UNCHANGED vars
  BY <1>5 DEF vars, IndInv, TypeOK, Once
<1>6. QED
  BY <1>1, <1>2, <1>3, <1>4, <1>5 DEF Next

(* Gatherings, raids, leases and claims agree in every reachable state.     *)
THEOREM RaidInvariant == Spec => []IndInv
<1>1. IndInv /\ [Next]_vars => IndInv'
  BY NextInv
<1>2. QED
  BY InitInv, <1>1, PTL DEF Spec

(* Columns, lists and tokens always have their types; a member's row is of  *)
(* a life the hero has had.                                                 *)
THEOREM Typing == Spec => []TypeOK
<1>1. IndInv => TypeOK
  BY DEF IndInv
<1>2. QED
  BY <1>1, RaidInvariant, PTL

(* No hero is in two gatherings, whatever joins, leaves, remorts, starts    *)
(* and rounds come in which order, and each has a leader of its own.        *)
THEOREM SinglePlace == Spec => []OnePlace
<1>1. ASSUME IndInv PROVE OnePlace
  <2>1. \A p \in Party : party[p].keyed = IF Live(p) THEN Heroes(p) ELSE {}
    BY <1>1, Keys
  <2>2. \A p \in Party : Live(p) => party[p].leader \in Heroes(p)
    <3>1. ASSUME NEW p \in Party, Live(p) PROVE party[p].leader \in Heroes(p)
      <4>1. Sound(party[p]) /\ Alive(party[p]) /\ party[p].keyed = Heroes(p)
        BY <1>1, <2>1, <3>1 DEF IndInv, Folk, Alive, Live
      <4>2. QED
        BY <4>1, KeyedIs
    <3>2. QED
      BY <3>1
  <2>3. ASSUME NEW c \in Character
        PROVE  Cardinality({p \in Party : Live(p) /\ c \in Heroes(p)}) <= 1
    <3> DEFINE S == {p \in Party : Live(p) /\ c \in Heroes(p)}
    <3>1. \A p, q \in S : p = q
      BY <1>1, <2>1 DEF IndInv, Folk
    <3>2. CASE S = {}
      BY <3>2, FS_EmptySet
    <3>3. CASE S # {}
      <4>1. PICK p \in S : TRUE
        BY <3>3
      <4>2. S = {p}
        BY <3>1, <4>1
      <4>3. QED
        BY <4>2, FS_Singleton
    <3>4. QED
      BY <3>2, <3>3
  <2>4. QED
    BY <2>1, <2>2, <2>3 DEF OnePlace
<1>2. QED
  BY <1>1, RaidInvariant, PTL

(* The heroes of a raid hold its lease, and only they, until the round that *)
(* ends it releases them.                                                   *)
THEOREM LeasesOfCrews == Spec => []CrewHoldsLeases
<1>1. ASSUME IndInv PROVE CrewHoldsLeases
  <2>1. ASSUME NEW p \in Party
        PROVE  /\ raid[p].status = "active" <=> party[p].status = "active"
               /\ {c \in Character : lease[c] = p}
                    = IF party[p].status = "active" THEN Heroes(p) ELSE {}
    <3>1. Crews(party, raid, lease)
      BY <1>1 DEF IndInv
    <3>2. party[p].status = "active" => party[p].keyed = Heroes(p)
      BY <1>1, Keys DEF Live
    <3>3. Heroes(p) \subseteq Character
      BY <1>1, Keys
    <3>4. QED
      BY <3>1, <3>2, <3>3 DEF Crews
  <2>2. QED
    BY <2>1 DEF CrewHoldsLeases
<1>2. QED
  BY <1>1, RaidInvariant, PTL

(* Whoever is in a raid on the Barrel joined it in this life and has not    *)
(* been paid for the period.                                                *)
THEOREM FairFight == Spec => []NobodyFightsForNothing
<1>1. ASSUME IndInv PROVE NobodyFightsForNothing
  <2>1. ASSUME NEW p \in Barrel, raid[p].status = "active"
        PROVE  SameLife(p) = Heroes(p) /\ \A c \in Heroes(p) : claim[c] = "none"
    <3>1. p \in Party /\ party[p].status = "active" /\ party[p] \in Gathering
      BY <1>1, <2>1, RaidAssumption DEF IndInv, Crews, Folk
    <3>2. \A i \in DOMAIN party[p].members :
            /\ claim[party[p].members[i].who] = "none"
            /\ life[party[p].members[i].who] = party[p].members[i].life
      BY <1>1, <2>1, <3>1 DEF IndInv, Worth
    <3>3. \A i \in DOMAIN party[p].members : party[p].members[i] \in Member
      BY <3>1 DEF Gathering
    <3>4. \A i \in DOMAIN party[p].members :
            party[p].members[i] = NewMember(party[p].members[i].who)
      BY <3>2, <3>3 DEF NewMember, Member
    <3>5. QED
      BY <3>2, <3>4 DEF SameLife, Heroes
  <2>2. QED
    BY <2>1 DEF NobodyFightsForNothing
<1>2. QED
  BY <1>1, RaidInvariant, PTL
=============================================================================
