--------------------------- MODULE FirewallProofs ---------------------------
(***************************************************************************)
(* Proofs about Firewall, for any guids, kinds, settings and stored rules, *)
(* with faults and restarts: the shape of the state; that no rule counts   *)
(* as approved without the user's word; that the map mirrors Windows once  *)
(* every event is handled; that the agent does not answer its own writes;  *)
(* that the rules the user wants are kept or can be restored, and that     *)
(* under the blanket guard the others are on their way out.                *)
(***************************************************************************)
EXTENDS FirewallInvariants, FiniteSetTheorems, WellFoundedInduction, TLAPS

-----------------------------------------------------------------------------
(* Lists and choices *)

\* Every nonempty set of naturals has a least element.
LEMMA LeastExists ==
    ASSUME NEW S, S \subseteq Nat, S # {}
    PROVE  \E x \in S : \A y \in S : x <= y
<1>1. PICK x \in S : \A y \in S : ~(<<y, x>> \in OpToRel(<, Nat))
  BY WFMin, NatLessThanWellFounded, Zenon
<1>2. \A y \in S : ~(y < x)
  BY <1>1 DEF OpToRel
<1>3. x \in Nat /\ \A y \in S : y \in Nat
  OBVIOUS
<1> QED BY <1>2, <1>3

LEMMA MinIsIn ==
    ASSUME NEW S, S \subseteq Nat, S # {}
    PROVE  Min(S) \in S
  BY LeastExists DEF Min

LEMMA NextIdIsFree ==
    ASSUME NEW f, \E o \in Ids : f.rule[o] = Free
    PROVE  NextId(f) \in Ids /\ f.rule[NextId(f)] = Free
<1> DEFINE S == {o \in Ids : f.rule[o] = Free}
<1>1. S \subseteq Nat /\ S # {}
  BY DEF Ids
<1>2. \E x \in S : \A y \in S : x <= y
  BY <1>1, LeastExists
<1>3. \E x \in Ids : f.rule[x] = Free /\ \A p \in Ids : f.rule[p] = Free => x <= p
  BY <1>2
<1> QED BY <1>3 DEF NextId

LEMMA RemoveAtShrinks ==
    ASSUME NEW S, NEW s \in Seq(S), NEW i \in DOMAIN s
    PROVE  RemoveAt(s, i) \in Seq(S) /\ Listed(RemoveAt(s, i)) \subseteq Listed(s)
<1> DEFINE a == SubSeq(s, 1, i - 1)
           b == SubSeq(s, i + 1, Len(s))
<1>1. i \in 1..Len(s) /\ Len(s) \in Nat
  OBVIOUS
<1>2. /\ a \in Seq(S) /\ Len(a) = i - 1
      /\ \A j \in 1..(i - 1) : a[j] = s[j]
  BY <1>1
<1>3. /\ b \in Seq(S) /\ Len(b) = Len(s) - i
      /\ \A j \in 1..(Len(s) - i) : b[j] = s[i + j]
  BY <1>1
<1>4. RemoveAt(s, i) = a \o b
  BY DEF RemoveAt
<1> HIDE DEF a, b
<1>5. /\ a \o b \in Seq(S) /\ Len(a \o b) = Len(s) - 1
      /\ \A j \in 1..Len(a \o b) :
            (a \o b)[j] = IF j <= Len(a) THEN a[j] ELSE b[j - Len(a)]
  BY <1>1, <1>2, <1>3
<1>6. ASSUME NEW j \in DOMAIN (a \o b)
      PROVE  (a \o b)[j] \in Listed(s)
  <2>1. j \in 1..(Len(s) - 1)
    BY <1>5
  <2>2. CASE j <= i - 1
    BY <1>1, <1>2, <1>5, <2>1, <2>2 DEF Listed
  <2>3. CASE ~(j <= i - 1)
    <3>1. j - Len(a) \in 1..(Len(s) - i) /\ i + (j - Len(a)) = j + 1
      BY <1>1, <1>2, <2>1, <2>3
    <3>2. (a \o b)[j] = s[j + 1]
      BY <1>1, <1>2, <1>3, <1>5, <2>1, <2>3, <3>1
    <3>3. j + 1 \in 1..Len(s)
      BY <1>1, <2>1
    <3> QED BY <3>2, <3>3 DEF Listed
  <2> QED BY <2>2, <2>3
<1> QED BY <1>4, <1>5, <1>6 DEF Listed

LEMMA ListedType ==
    ASSUME NEW S, NEW s \in Seq(S)
    PROVE  Listed(s) \subseteq S

BY DEF Listed

LEMMA AppendLists ==
    ASSUME NEW S, NEW s \in Seq(S), NEW x \in S
    PROVE  Append(s, x) \in Seq(S) /\ Listed(Append(s, x)) = Listed(s) \cup {x}
<1> DEFINE t == Append(s, x)
<1>1. /\ t \in Seq(S) /\ Len(t) = Len(s) + 1 /\ Len(s) \in Nat
      /\ \A i \in 1..Len(s) : t[i] = s[i]
      /\ t[Len(s) + 1] = x
  OBVIOUS
<1>2. DOMAIN t = 1..(Len(s) + 1) /\ DOMAIN s = 1..Len(s)
  BY <1>1
<1> HIDE DEF t
<1>3. \A i \in DOMAIN t : i \in DOMAIN s \/ i = Len(s) + 1
  BY <1>1, <1>2
<1>4. DOMAIN s \subseteq DOMAIN t /\ Len(s) + 1 \in DOMAIN t
  BY <1>1, <1>2
<1>5. Listed(t) = Listed(s) \cup {x}
  BY <1>1, <1>2, <1>3, <1>4 DEF Listed
<1> QED BY <1>1, <1>5 DEF t

LEMMA TailLists ==
    ASSUME NEW S, NEW s \in Seq(S), s # <<>>
    PROVE  Tail(s) \in Seq(S) /\ Listed(Tail(s)) \subseteq Listed(s)
  BY DEF Listed

-----------------------------------------------------------------------------
(* The objects and the lists *)

\* The lists of a sound map.
LEMMA SoundParts ==
    ASSUME NEW f, Sound(f)
    PROVE  /\ f.rule \in [Ids -> Object]
           /\ f.m_FwRules \subseteq Ids /\ f.m_RulesToRemove \subseteq Ids
           /\ f.m_RulesToRevert \subseteq Ids
           /\ f.m_WithdrawnRules \in Seq(Withdrawn) /\ f.m_HeldRules \in Seq(Held)
           /\ f.m_SettledRemovals \in Seq(Ids)

BY DEF Sound, Rules

\* The map changes, and stays among the objects in use.
LEMMA SoundMap ==
    ASSUME NEW f, Sound(f), NEW S, S \subseteq InUse(f)
    PROVE  Sound([f EXCEPT !.m_FwRules = S])
  BY DEF Sound, Rules, InUse, Aside

\* The sets of what is to be undone change.
LEMMA SoundUndo ==
    ASSUME NEW f, Sound(f), NEW S, S \subseteq InUse(f), NEW T, T \subseteq InUse(f)
    PROVE  Sound([f EXCEPT !.m_RulesToRemove = S, !.m_RulesToRevert = T])
  BY DEF Sound, Rules, InUse, Aside

\* The lists change.
LEMMA SoundLists ==
    ASSUME NEW f, Sound(f), NEW w \in Seq(Withdrawn), NEW s \in Seq(Held), NEW t \in Seq(Ids),
           \A e \in Listed(w) : e.pBackup \in InUse(f) /\ Aside(f, e.pBackup),
           \A e \in Listed(s) : e.pRule \in InUse(f),
           Listed(t) \subseteq InUse(f)
    PROVE  Sound([f EXCEPT !.m_WithdrawnRules = w, !.m_HeldRules = s, !.m_SettledRemovals = t])
  BY DEF Sound, Rules, InUse, Aside

\* Objects change, and none is freed or ceases to be a backup.
LEMMA SoundObjects ==
    ASSUME NEW f, Sound(f), NEW r \in [Ids -> Object],
           \A o \in InUse(f) : /\ r[o] # Free /\ r[o].guid = f.rule[o].guid
                               /\ f.rule[o].backup => r[o].backup
    PROVE  Sound([f EXCEPT !.rule = r])
<1> DEFINE h == [f EXCEPT !.rule = r]
<1>1. h \in Rules /\ h.rule = r
  BY DEF Sound, Rules
<1>2. /\ h.m_FwRules = f.m_FwRules /\ h.m_RulesToRemove = f.m_RulesToRemove
      /\ h.m_RulesToRevert = f.m_RulesToRevert /\ h.m_WithdrawnRules = f.m_WithdrawnRules
      /\ h.m_HeldRules = f.m_HeldRules /\ h.m_SettledRemovals = f.m_SettledRemovals
  BY DEF Sound, Rules
<1> HIDE DEF h
<1>3. \A o \in InUse(f) : o \in InUse(h)
  BY <1>1 DEF InUse
<1>4. \A o \in InUse(f) : Aside(f, o) => Aside(h, o)
  BY <1>1, Zenon DEF Aside
<1>5. Sound(h)
  BY <1>1, <1>2, <1>3, <1>4 DEF Sound
<1> QED BY <1>5 DEF h

\* A rule is not a free object.
LEMMA RuleInUse ==
    /\ Rule \subseteq Object
    /\ \A r \in Rule : r # Free /\ r.guid \in Guids /\ r.c \in Content
    /\ \A r \in Object : r # Free => r \in Rule
  BY FirewallAssumption DEF Rule, Free, Object

LEMMA NewRuleType ==
    ASSUME NEW g \in Guids, NEW c \in Content, NEW s \in States
    PROVE  /\ NewRule(g, c) \in Rule
           /\ [NewRule(g, c) EXCEPT !.state = s] \in Rule
           /\ [NewRule(g, c) EXCEPT !.state = s].guid = g
           /\ [NewRule(g, c) EXCEPT !.state = s].c = c
           /\ ~[NewRule(g, c) EXCEPT !.state = s].backup
           /\ [NewRule(g, c) EXCEPT !.state = s].state = s
           /\ NewRule(g, c).guid = g /\ NewRule(g, c).c = c
           /\ ~NewRule(g, c).backup /\ NewRule(g, c).state = "unapproved"

BY DEF NewRule, Rule, States

\* AddRule takes an object that was free.
LEMMA AddRuleEffect ==
    ASSUME NEW f, Sound(f), NEW r \in Rule, \E o \in Ids : f.rule[o] = Free
    PROVE  /\ Sound(AddRule(f, r))
           /\ NextId(f) \in Ids /\ f.rule[NextId(f)] = Free /\ NextId(f) \notin InUse(f)
           /\ AddRule(f, r).rule = [f.rule EXCEPT ![NextId(f)] = r]
           /\ AddRule(f, r).rule[NextId(f)] = r
           /\ \A o \in Ids \ {NextId(f)} : AddRule(f, r).rule[o] = f.rule[o]
           /\ AddRule(f, r).m_FwRules = f.m_FwRules \cup {NextId(f)}
           /\ AddRule(f, r).m_RulesToRemove = f.m_RulesToRemove
           /\ AddRule(f, r).m_RulesToRevert = f.m_RulesToRevert
           /\ AddRule(f, r).m_WithdrawnRules = f.m_WithdrawnRules
           /\ AddRule(f, r).m_HeldRules = f.m_HeldRules
           /\ AddRule(f, r).m_SettledRemovals = f.m_SettledRemovals
<1> DEFINE n == NextId(f)
           q == [f.rule EXCEPT ![n] = r]
           m == [f EXCEPT !.rule = q]
           h == [m EXCEPT !.m_FwRules = f.m_FwRules \cup {n}]
<1>1. n \in Ids /\ f.rule[n] = Free
  BY NextIdIsFree
<1>2. n \notin InUse(f)
  BY <1>1 DEF InUse
<1>3. f.rule \in [Ids -> Object]
  BY SoundParts
<1>4. r \in Object /\ r # Free
  BY RuleInUse
<1> HIDE DEF n
<1>5. q \in [Ids -> Object] /\ q[n] = r /\ \A o \in Ids \ {n} : q[o] = f.rule[o]
  BY <1>1, <1>3, <1>4
<1>6. \A o \in InUse(f) : /\ q[o] # Free /\ q[o].guid = f.rule[o].guid
                          /\ f.rule[o].backup => q[o].backup
  BY <1>2, <1>5 DEF InUse
<1> HIDE DEF q
<1>7. Sound(m)
  BY <1>5, <1>6, SoundObjects
<1>8. /\ m.rule = q /\ m.m_FwRules = f.m_FwRules
      /\ m.m_RulesToRemove = f.m_RulesToRemove /\ m.m_RulesToRevert = f.m_RulesToRevert
      /\ m.m_WithdrawnRules = f.m_WithdrawnRules /\ m.m_HeldRules = f.m_HeldRules
      /\ m.m_SettledRemovals = f.m_SettledRemovals
  BY DEF Sound, Rules
<1>9. f.m_FwRules \cup {n} \subseteq InUse(m)
  BY <1>1, <1>4, <1>5, <1>6, <1>8 DEF InUse, Sound
<1>10. m \in Rules /\ h = [f EXCEPT !.rule = q, !.m_FwRules = f.m_FwRules \cup {n}]
  BY <1>7 DEF Sound, Rules
<1> HIDE DEF m
<1>11. Sound(h)
  BY <1>7, <1>9, SoundMap
<1>12. /\ h.rule = q /\ h.m_FwRules = f.m_FwRules \cup {n}
       /\ h.m_RulesToRemove = m.m_RulesToRemove /\ h.m_RulesToRevert = m.m_RulesToRevert
       /\ h.m_WithdrawnRules = m.m_WithdrawnRules /\ h.m_HeldRules = m.m_HeldRules
       /\ h.m_SettledRemovals = m.m_SettledRemovals
  BY <1>8, <1>10 DEF Rules
<1> HIDE DEF h
<1>13. AddRule(f, r) = h
  BY <1>10 DEF AddRule, n, q, Sound, Rules
<1> QED BY <1>1, <1>2, <1>5, <1>8, <1>10, <1>11, <1>12, <1>13 DEF n, q

-----------------------------------------------------------------------------
(* What a step may do to the objects and to the live rules of a guid *)

LEMMA LiveAtIs ==
    \A f, g, o : Sound(f) =>
        (o \in LiveAt(f, g) <=>
           o \in Ids /\ o \in f.m_FwRules /\ ~f.rule[o].backup /\ f.rule[o].guid = g)
  BY RuleInUse DEF Sound, Rules, InUse, Rule, LiveAt, Live

\* A rule of the map has a guid of Windows.
LEMMA InUseIsRule ==
    ASSUME NEW f, Sound(f), NEW o \in InUse(f)
    PROVE  o \in Ids /\ f.rule[o] \in Rule /\ f.rule[o].guid \in Guids /\ f.rule[o].c \in Content
           /\ f.rule[o].backup \in BOOLEAN /\ f.rule[o].state \in States /\ f.rule[o].c # Gone
  BY RuleInUse, FirewallAssumption DEF Sound, Rules, InUse, Rule, Content, Gone

\* The same objects, and the map unchanged up to o.
LEMMA DropsIntro ==
    ASSUME NEW f, Sound(f), NEW h, Sound(h), NEW o, Keeps(f, h),
           AllFine(f) => AllFine(h),
           \A p \in f.m_FwRules \ {o} : p \in h.m_FwRules /\ (h.rule[p].backup <=> f.rule[p].backup),
           \A p \in h.m_FwRules : p \in f.m_FwRules \/ p = o,
           o \in h.m_FwRules => h.rule[o].backup
    PROVE  Drops(f, h, o)
  BY LiveAtIs DEF Keeps, Sound, Drops

\* A new rule for g.
LEMMA BringsIntro ==
    ASSUME NEW f, NEW h, NEW o, Drops(f, h, o), NEW r \in Rule,
           \E p \in Ids : h.rule[p] = Free,
           AllFine(f) => Fine(r.c.k) \/ r.state # "approved", ~r.backup
    PROVE  Brings(f, AddRule(h, r), r.guid, r.c, o)
<1> DEFINE n == NextId(h)
           k == AddRule(h, r)
<1>1. Sound(h) /\ Keeps(f, h)
  BY DEF Drops
<1>2. /\ Sound(k) /\ n \in Ids /\ n \notin InUse(h)
      /\ k.rule[n] = r /\ \A p \in Ids \ {n} : k.rule[p] = h.rule[p]
      /\ k.m_FwRules = h.m_FwRules \cup {n}
  BY <1>1, AddRuleEffect
<1> HIDE DEF n, k
<1>3. n \notin InUse(f)
  BY <1>1, <1>2 DEF Keeps
<1>4. r # Free
  BY RuleInUse
<1>5. ASSUME NEW p \in InUse(f)
      PROVE  p \in InUse(h) /\ k.rule[p] = h.rule[p]
  BY <1>1, <1>2, <1>3 DEF Keeps, InUse
<1>6. Keeps(f, k)
  BY <1>1, <1>5 DEF Keeps, InUse
<1>7. AllFine(f) => AllFine(k)
  BY <1>2 DEF AllFine, Drops
<1>8. ASSUME NEW g \in Guids, NEW p
      PROVE  p \in LiveAt(k, g) <=> p \in LiveAt(h, g) \/ (p = n /\ g = r.guid)
  BY <1>1, <1>2, LiveAtIs DEF Sound
<1>9. r.guid \in Guids
  BY RuleInUse
<1>10. \A g \in Guids : LiveAt(h, g) = LiveAt(f, g) \ {o}
  BY DEF Drops
<1>11. \A g \in Guids \ {r.guid} : LiveAt(k, g) = LiveAt(f, g) \ {o}
  BY <1>8, <1>10
<1>12. LiveAt(k, r.guid) = (LiveAt(f, r.guid) \ {o}) \cup {n}
  BY <1>8, <1>9, <1>10
<1>13. k.rule[n].c = r.c
  BY <1>2
<1>14. Brings(f, k, r.guid, r.c, o)
  BY <1>2, <1>3, <1>6, <1>7, <1>11, <1>12, <1>13 DEF Brings, Drops
<1> QED BY <1>14 DEF k

-----------------------------------------------------------------------------
(* Twins *)

LEMMA WithdrawnTwinMatches ==
    ASSUME NEW f, Sound(f), NEW c, WithdrawnTwin(f, c) # 0
    PROVE  LET w == WithdrawnTwin(f, c)
           IN /\ w \in DOMAIN f.m_WithdrawnRules
              /\ f.m_WithdrawnRules[w].pBackup \in InUse(f)
              /\ Aside(f, f.m_WithdrawnRules[w].pBackup)
              /\ f.rule[f.m_WithdrawnRules[w].pBackup].c = c
<1> DEFINE s == f.m_WithdrawnRules
           I == {i \in 1..Len(s) : f.rule[s[i].pBackup].c = c}
<1>1. WithdrawnTwin(f, c) = IF I # {} THEN Min(I) ELSE 0
  BY DEF WithdrawnTwin, SelectInSeq
<1>2. s \in Seq(Withdrawn)
  BY SoundParts
<1>3. I \subseteq Nat
  OBVIOUS
<1>4. WithdrawnTwin(f, c) \in I
  BY <1>1, <1>3, MinIsIn
<1>5. DOMAIN s = 1..Len(s)
  BY <1>2
<1>6. s[WithdrawnTwin(f, c)] \in Listed(s)
  BY <1>4, <1>5 DEF Listed
<1> QED BY <1>4, <1>5, <1>6 DEF Sound

LEMMA SettledTwinMatches ==
    ASSUME NEW f, Sound(f), NEW c, SettledTwin(f, c) # 0
    PROVE  LET w == SettledTwin(f, c)
           IN /\ w \in DOMAIN f.m_SettledRemovals
              /\ f.m_SettledRemovals[w] \in InUse(f)
              /\ f.rule[f.m_SettledRemovals[w]].c = c
<1> DEFINE s == f.m_SettledRemovals
           I == {i \in 1..Len(s) : f.rule[s[i]].c = c}
<1>1. SettledTwin(f, c) = IF I # {} THEN Min(I) ELSE 0
  BY DEF SettledTwin, SelectInSeq
<1>2. s \in Seq(Ids)
  BY SoundParts
<1>3. I \subseteq Nat
  OBVIOUS
<1>4. SettledTwin(f, c) \in I
  BY <1>1, <1>3, MinIsIn
<1>5. DOMAIN s = 1..Len(s)
  BY <1>2
<1>6. s[SettledTwin(f, c)] \in Listed(s)
  BY <1>4, <1>5 DEF Listed
<1> QED BY <1>4, <1>5, <1>6 DEF Sound

LEMMA HeldTwinMatches ==
    ASSUME NEW f, Sound(f), NEW c, HeldTwin(f, c) # 0
    PROVE  LET w == HeldTwin(f, c)
           IN /\ w \in DOMAIN f.m_HeldRules
              /\ f.m_HeldRules[w].pRule \in InUse(f)
              /\ f.rule[f.m_HeldRules[w].pRule].c = c
<1> DEFINE s == f.m_HeldRules
           I == {i \in 1..Len(s) : f.rule[s[i].pRule].c = c}
<1>1. HeldTwin(f, c) = IF I # {} THEN Min(I) ELSE 0
  BY DEF HeldTwin, SelectInSeq
<1>2. s \in Seq(Held)
  BY SoundParts
<1>3. I \subseteq Nat
  OBVIOUS
<1>4. HeldTwin(f, c) \in I
  BY <1>1, <1>3, MinIsIn
<1>5. DOMAIN s = 1..Len(s)
  BY <1>2
<1>6. s[HeldTwin(f, c)] \in Listed(s)
  BY <1>4, <1>5 DEF Listed
<1> QED BY <1>4, <1>5, <1>6 DEF Sound

LEMMA LiveTwinMatches ==
    ASSUME NEW f, Sound(f), NEW c, NEW o, FindLiveTwin(f, c, o) # 0
    PROVE  /\ FindLiveTwin(f, c, o) \in InUse(f)
           /\ f.rule[FindLiveTwin(f, c, o)].c = c
           /\ FindLiveTwin(f, c, o) \in Live(f) \ {o}
<1> DEFINE T == {p \in Live(f) \ {o} : f.rule[p].c = c}
           G == {f.rule[p].guid : p \in T}
<1>1. T # {}
  BY DEF FindLiveTwin
<1>2. \A p \in T : p \in InUse(f)
  BY DEF Live, Sound
<1>3. G \subseteq Nat /\ G # {}
  <2>1. ASSUME NEW p \in T
        PROVE  f.rule[p].guid \in Nat
    BY <1>2, InUseIsRule, FirewallAssumption
  <2> QED BY <1>1, <2>1
<1>4. \E x \in G : \A y \in G : x <= y
  BY <1>3, LeastExists
<1>5. \E p \in T : \A q \in T : f.rule[p].guid <= f.rule[q].guid
  BY <1>4
<1>6. FindLiveTwin(f, c, o) \in T
  BY <1>1, <1>5 DEF FindLiveTwin
<1> QED BY <1>2, <1>6

\* An object taken out of the held and the turned-down rules.
LEMMA TakeHeldEffect ==
    ASSUME NEW f, Sound(f), NEW o
    PROVE  /\ Sound(TakeHeldRule(f, o))
           /\ TakeHeldRule(f, o).rule = f.rule
           /\ TakeHeldRule(f, o).m_FwRules = f.m_FwRules
           /\ TakeHeldRule(f, o).m_RulesToRemove = f.m_RulesToRemove
           /\ TakeHeldRule(f, o).m_RulesToRevert = f.m_RulesToRevert
           /\ TakeHeldRule(f, o).m_WithdrawnRules = f.m_WithdrawnRules
           /\ TakeHeldRule(f, o).m_SettledRemovals = f.m_SettledRemovals
<1> DEFINE s == f.m_HeldRules
           I == {i \in 1..Len(s) : s[i].pRule = o}
           i == IF I # {} THEN Min(I) ELSE 0
           t == RemoveAt(s, i)
           h == [f EXCEPT !.m_WithdrawnRules = f.m_WithdrawnRules, !.m_HeldRules = t,
                          !.m_SettledRemovals = f.m_SettledRemovals]
<1>1. TakeHeldRule(f, o) = IF i = 0 THEN f ELSE [f EXCEPT !.m_HeldRules = t]
  BY DEF TakeHeldRule, SelectInSeq
<1>2. CASE i = 0
  BY <1>1, <1>2
<1>3. CASE i # 0
  <2>1. i \in DOMAIN s
    <3>1. I # {} /\ I \subseteq Nat
      BY <1>3
    <3>2. Min(I) \in I
      BY <3>1, MinIsIn
    <3>3. s \in Seq(Held)
      BY SoundParts
    <3> QED BY <3>1, <3>2, <3>3
  <2>2. t \in Seq(Held) /\ Listed(t) \subseteq Listed(s)
    BY <2>1, SoundParts, RemoveAtShrinks
  <2> HIDE DEF i, t
  <2>3. f.m_WithdrawnRules \in Seq(Withdrawn) /\ f.m_SettledRemovals \in Seq(Ids)
    BY SoundParts
  <2>4. /\ \A e \in Listed(f.m_WithdrawnRules) : e.pBackup \in InUse(f) /\ Aside(f, e.pBackup)
        /\ \A e \in Listed(t) : e.pRule \in InUse(f)
        /\ Listed(f.m_SettledRemovals) \subseteq InUse(f)
    BY <2>2 DEF Sound
  <2>5. Sound(h)
    BY <2>2, <2>3, <2>4, SoundLists
  <2>6. f \in Rules
    BY DEF Sound
  <2>7. [f EXCEPT !.m_HeldRules = t] = h
    BY <2>6 DEF Rules
  <2>8. TakeHeldRule(f, o) = h
    BY <1>1, <1>3, <2>7
  <2>9. /\ h.rule = f.rule /\ h.m_FwRules = f.m_FwRules /\ h.m_RulesToRemove = f.m_RulesToRemove
        /\ h.m_RulesToRevert = f.m_RulesToRevert /\ h.m_WithdrawnRules = f.m_WithdrawnRules
        /\ h.m_SettledRemovals = f.m_SettledRemovals
    BY <2>6 DEF Rules
  <2> HIDE DEF h
  <2> QED BY <2>5, <2>8, <2>9
<1> QED BY <1>2, <1>3

LEMMA RemoveLess ==
    ASSUME NEW f, Sound(f), NEW S
    PROVE  LET h == [f EXCEPT !.m_RulesToRemove = f.m_RulesToRemove \ S]
           IN /\ Sound(h)
              /\ h.rule = f.rule /\ h.m_FwRules = f.m_FwRules
              /\ h.m_RulesToRevert = f.m_RulesToRevert /\ h.m_HeldRules = f.m_HeldRules
              /\ h.m_WithdrawnRules = f.m_WithdrawnRules
              /\ h.m_SettledRemovals = f.m_SettledRemovals
<1> DEFINE h == [f EXCEPT !.m_RulesToRemove = f.m_RulesToRemove \ S]
           k == [f EXCEPT !.m_RulesToRemove = f.m_RulesToRemove \ S, !.m_RulesToRevert = f.m_RulesToRevert]
<1>1. f \in Rules /\ f.m_RulesToRemove \ S \subseteq InUse(f) /\ f.m_RulesToRevert \subseteq InUse(f)
  BY DEF Sound
<1>2. Sound(k)
  BY <1>1, SoundUndo
<1>3. h = k
  BY <1>1 DEF Rules
<1>4. /\ h.rule = f.rule /\ h.m_FwRules = f.m_FwRules
      /\ h.m_RulesToRevert = f.m_RulesToRevert /\ h.m_HeldRules = f.m_HeldRules
      /\ h.m_WithdrawnRules = f.m_WithdrawnRules
      /\ h.m_SettledRemovals = f.m_SettledRemovals
  BY <1>1 DEF Rules
<1> HIDE DEF h, k
<1>5. Sound(h)
  BY <1>2, <1>3
<1> QED BY <1>4, <1>5 DEF h

-----------------------------------------------------------------------------
(* FWRuleChanged, outcome by outcome *)

\* The same objects, sound lists.
LEMMA TouchesLists ==
    ASSUME NEW f, Sound(f), NEW h, Sound(h), h.rule = f.rule, h.m_FwRules = f.m_FwRules
    PROVE  Touches(f, h)
  BY DEF InUse, Keeps, AllFine, Touches

LEMMA SetStateEffect ==
    ASSUME NEW f, Sound(f), NEW o \in InUse(f), NEW s \in States,
           AllFine(f) /\ s = "approved" => Fine(f.rule[o].c.k)
    PROVE  /\ Touches(f, [f EXCEPT !.rule[o].state = s])
           /\ SameLists(f, [f EXCEPT !.rule[o].state = s])
           /\ [f EXCEPT !.rule[o].state = s].rule[o].state = s
<1> DEFINE q == [f.rule EXCEPT ![o] = [f.rule[o] EXCEPT !.state = s]]
           h == [f EXCEPT !.rule = q]
<1>1. o \in Ids /\ f.rule[o] \in Rule /\ f.rule \in [Ids -> Object]
  BY InUseIsRule, SoundParts
<1>2. /\ [f.rule[o] EXCEPT !.state = s] \in Rule
      /\ [f.rule[o] EXCEPT !.state = s].backup = f.rule[o].backup
      /\ [f.rule[o] EXCEPT !.state = s].guid = f.rule[o].guid
      /\ [f.rule[o] EXCEPT !.state = s].c = f.rule[o].c
      /\ [f.rule[o] EXCEPT !.state = s].state = s
  BY <1>1 DEF Rule
<1>3. [f.rule[o] EXCEPT !.state = s] \in Object /\ [f.rule[o] EXCEPT !.state = s] # Free
  BY <1>2, RuleInUse
<1>4. /\ q \in [Ids -> Object] /\ q[o] = [f.rule[o] EXCEPT !.state = s]
      /\ \A p \in Ids \ {o} : q[p] = f.rule[p]
  BY <1>1, <1>3
<1> HIDE DEF q
<1>5. /\ q[o] # Free /\ (q[o].backup <=> f.rule[o].backup) /\ q[o].guid = f.rule[o].guid
      /\ q[o].c = f.rule[o].c /\ q[o].state = s
  BY <1>2, <1>3, <1>4
<1>6. \A p \in InUse(f) : /\ q[p] # Free /\ q[p].guid = f.rule[p].guid
                          /\ f.rule[p].backup => q[p].backup
  BY <1>4, <1>5 DEF InUse
<1>7. Sound(h)
  BY <1>4, <1>6, SoundObjects
<1>8. h.rule = q /\ h.m_FwRules = f.m_FwRules /\ SameLists(f, h)
  BY DEF Sound, Rules, SameLists
<1>9. h = [f EXCEPT !.rule[o].state = s]
  BY DEF Sound, Rules, q
<1> HIDE DEF h
<1>10. Keeps(f, h)
  BY <1>4, <1>5, <1>6, <1>8 DEF Keeps, InUse
<1>11. AllFine(f) => AllFine(h)
  BY <1>1, <1>4, <1>5, <1>8 DEF AllFine
<1>12. \A p \in Ids : h.rule[p].backup <=> f.rule[p].backup
  BY <1>4, <1>5, <1>8
<1>13. Touches(f, h)
  BY <1>7, <1>8, <1>10, <1>11, <1>12 DEF Touches
<1> QED BY <1>5, <1>8, <1>9, <1>13

\* The verdict on a rule that went passes to one that matches it.
LEMMA TakeOverEffect ==
    ASSUME NEW f, Sound(f), NEW o \in InUse(f), NEW p \in InUse(f), f.rule[o].c = f.rule[p].c
    PROVE  Touches(f, TakeOver(f, o, p)) /\ SameLists(f, TakeOver(f, o, p))
<1>1. p \in Ids /\ f.rule[p].state \in States
  BY InUseIsRule
<1>2. AllFine(f) /\ f.rule[p].state = "approved" => Fine(f.rule[o].c.k)
  BY <1>1 DEF AllFine
<1> QED BY <1>1, <1>2, SetStateEffect DEF TakeOver

LEMMA SetAsBackupEffect ==
    ASSUME NEW f, Sound(f), NEW o \in InUse(f)
    PROVE  /\ Sound(SetAsBackup(f, o)) /\ Keeps(f, SetAsBackup(f, o))
           /\ AllFine(f) => AllFine(SetAsBackup(f, o))
           /\ SetAsBackup(f, o).m_FwRules = f.m_FwRules \cup {o}
           /\ SetAsBackup(f, o).rule[o].backup
           /\ \A p \in Ids \ {o} : SetAsBackup(f, o).rule[p] = f.rule[p]
           /\ SameLists(f, SetAsBackup(f, o))
<1> DEFINE q == [f.rule EXCEPT ![o] = [f.rule[o] EXCEPT !.backup = TRUE]]
           m == [f EXCEPT !.rule = q]
           h == [m EXCEPT !.m_FwRules = f.m_FwRules \cup {o}]
<1>1. o \in Ids /\ f.rule[o] \in Rule /\ f.rule \in [Ids -> Object]
  BY InUseIsRule, SoundParts
<1>2. /\ [f.rule[o] EXCEPT !.backup = TRUE] \in Rule
      /\ [f.rule[o] EXCEPT !.backup = TRUE].backup
      /\ [f.rule[o] EXCEPT !.backup = TRUE].guid = f.rule[o].guid
      /\ [f.rule[o] EXCEPT !.backup = TRUE].c = f.rule[o].c
      /\ [f.rule[o] EXCEPT !.backup = TRUE].state = f.rule[o].state
  BY <1>1 DEF Rule
<1>3. [f.rule[o] EXCEPT !.backup = TRUE] \in Object /\ [f.rule[o] EXCEPT !.backup = TRUE] # Free
  BY <1>2, RuleInUse
<1>4. /\ q \in [Ids -> Object] /\ q[o] = [f.rule[o] EXCEPT !.backup = TRUE]
      /\ \A p \in Ids \ {o} : q[p] = f.rule[p]
  BY <1>1, <1>3
<1> HIDE DEF q
<1>5. /\ q[o] # Free /\ q[o].backup /\ q[o].guid = f.rule[o].guid
      /\ q[o].c = f.rule[o].c /\ q[o].state = f.rule[o].state
  BY <1>2, <1>3, <1>4
<1>6. \A p \in InUse(f) : /\ q[p] # Free /\ q[p].guid = f.rule[p].guid
                          /\ f.rule[p].backup => q[p].backup
  BY <1>4, <1>5 DEF InUse
<1>7. Sound(m)
  BY <1>4, <1>6, SoundObjects
<1>8. m.rule = q /\ m.m_FwRules = f.m_FwRules /\ SameLists(f, m)
  BY DEF Sound, Rules, SameLists
<1>9. m \in Rules /\ h = [f EXCEPT !.rule = q, !.m_FwRules = f.m_FwRules \cup {o}]
  BY <1>7 DEF Sound, Rules
<1> HIDE DEF m
<1>a. f.m_FwRules \cup {o} \subseteq InUse(m)
  BY <1>1, <1>6, <1>8 DEF InUse, Sound
<1>b. Sound(h)
  BY <1>7, <1>a, SoundMap
<1>c. h.rule = q /\ h.m_FwRules = f.m_FwRules \cup {o} /\ SameLists(f, h)
  BY <1>8, <1>9 DEF Rules, SameLists
<1> HIDE DEF h
<1>d. SetAsBackup(f, o) = h
  BY <1>9 DEF SetAsBackup, q, Sound, Rules
<1>10. Keeps(f, h)
  BY <1>4, <1>5, <1>6, <1>c DEF Keeps, InUse
<1>11. ASSUME AllFine(f)
       PROVE  AllFine(h)
  <2>1. f.rule[o].state = "approved" => Fine(f.rule[o].c.k)
    BY <1>1, <1>11 DEF AllFine
  <2>2. h.rule[o].state = "approved" => Fine(h.rule[o].c.k)
    BY <1>5, <1>c, <2>1
  <2>3. \A p \in Ids \ {o} : h.rule[p].state = "approved" => Fine(h.rule[p].c.k)
    BY <1>4, <1>c, <1>11 DEF AllFine
  <2> QED BY <2>2, <2>3 DEF AllFine
<1> QED BY <1>4, <1>5, <1>b, <1>c, <1>d, <1>10, <1>11

LEMMA TouchesSound ==
    \A f, h : Touches(f, h) => Sound(h) /\ Keeps(f, h) /\ h.m_FwRules = f.m_FwRules

BY DEF Touches

LEMMA KeepsTwice ==
    ASSUME NEW f, NEW h, NEW k, Keeps(f, h), Keeps(h, k)
    PROVE  Keeps(f, k)

BY DEF Keeps

LEMMA TouchesTwice ==
    ASSUME NEW f, NEW h, NEW k, Touches(f, h), Touches(h, k)
    PROVE  Touches(f, k)

BY KeepsTwice DEF Touches

LEMMA TouchesLive ==
    ASSUME NEW f, Sound(f), NEW h, Touches(f, h), NEW g
    PROVE  LiveAt(h, g) = LiveAt(f, g)
<1>1. ASSUME NEW p
      PROVE  p \in LiveAt(h, g) <=> p \in LiveAt(f, g)
  BY LiveAtIs DEF Touches, Keeps, Sound
<1> QED BY <1>1

LEMMA TouchesThenDrops ==
    ASSUME NEW f, Sound(f), NEW h, NEW k, NEW o, Touches(f, h), Drops(h, k, o)
    PROVE  Drops(f, k, o)
  BY TouchesLive, KeepsTwice DEF Touches, Drops

LEMMA DropsThenTouches ==
    ASSUME NEW f, NEW h, NEW k, NEW o, Drops(f, h, o), Touches(h, k)
    PROVE  Drops(f, k, o)
  BY TouchesLive, KeepsTwice DEF Drops, Touches

LEMMA BringsThenTouches ==
    ASSUME NEW f, NEW h, NEW k, NEW o, NEW g \in Guids, NEW c, Brings(f, h, g, c, o), Touches(h, k)
    PROVE  Brings(f, k, g, c, o)
<1>1. \A a \in Guids : LiveAt(k, a) = LiveAt(h, a)
  BY TouchesLive DEF Brings
<1>2. Keeps(f, k)
  BY KeepsTwice DEF Touches, Brings
<1>3. PICK n \in Ids \ InUse(f) : LiveAt(h, g) = (LiveAt(f, g) \ {o}) \cup {n} /\ h.rule[n].c = c
  BY DEF Brings
<1>4. n \in LiveAt(h, g) /\ Sound(h)
  BY <1>3 DEF Brings
<1>5. n \in InUse(h)
  BY <1>4 DEF LiveAt, Live, Sound
<1>6. k.rule[n].c = c
  BY <1>3, <1>5 DEF Touches, Keeps
<1> QED BY <1>1, <1>2, <1>3, <1>6 DEF Touches, Brings

LEMMA TouchesThenBrings ==
    ASSUME NEW f, Sound(f), NEW h, NEW k, NEW o, NEW g \in Guids, NEW c, Touches(f, h), Brings(h, k, g, c, o)
    PROVE  Brings(f, k, g, c, o)
  BY TouchesLive, KeepsTwice DEF Touches, Brings, Keeps

LEMMA TouchesThenTrades ==
    ASSUME NEW f, Sound(f), NEW h, NEW k, NEW o, NEW g \in Guids, NEW c, Touches(f, h), Trades(h, k, g, c, o)
    PROVE  Trades(f, k, g, c, o)
  BY TouchesLive, KeepsTwice DEF Touches, Trades, Keeps

LEMMA BringsTrades ==
    \A f, h, g, c, o : Brings(f, h, g, c, o) => Trades(f, h, g, c, o)
  BY DEF Brings, Trades

\* A live rule leaves the map.
LEMMA LeaveMap ==
    ASSUME NEW f, Sound(f), NEW o
    PROVE  /\ Drops(f, [f EXCEPT !.m_FwRules = f.m_FwRules \ {o}], o)
           /\ SameLists(f, [f EXCEPT !.m_FwRules = f.m_FwRules \ {o}])
           /\ [f EXCEPT !.m_FwRules = f.m_FwRules \ {o}].rule = f.rule
  BY SoundMap, DropsIntro DEF Sound, Rules, SameLists, InUse, Keeps, AllFine

\* A live rule becomes a backup.
LEMMA BecomeBackup ==
    ASSUME NEW f, Sound(f), NEW o \in InUse(f)
    PROVE  Drops(f, SetAsBackup(f, o), o)
<1> DEFINE h == SetAsBackup(f, o)
<1>1. /\ Sound(h) /\ Keeps(f, h)
      /\ AllFine(f) => AllFine(h)
      /\ h.m_FwRules = f.m_FwRules \cup {o} /\ h.rule[o].backup
      /\ \A p \in Ids \ {o} : h.rule[p] = f.rule[p]
  BY SetAsBackupEffect
<1> HIDE DEF h
<1>2. \A p \in f.m_FwRules \ {o} : p \in h.m_FwRules /\ (h.rule[p].backup <=> f.rule[p].backup)
  BY <1>1 DEF Sound, InUse
<1>3. Drops(f, h, o)
  BY <1>1, <1>2, DropsIntro
<1> QED BY <1>3 DEF h

\* An entry of one list more.
LEMMA SettledMore ==
    ASSUME NEW f, Sound(f), NEW o \in InUse(f)
    PROVE  Touches(f, [f EXCEPT !.m_SettledRemovals = Append(f.m_SettledRemovals, o)])
<1> DEFINE t == Append(f.m_SettledRemovals, o)
           h == [f EXCEPT !.m_WithdrawnRules = f.m_WithdrawnRules, !.m_HeldRules = f.m_HeldRules,
                          !.m_SettledRemovals = t]
<1>1. f \in Rules /\ o \in Ids
  BY DEF Sound, InUse
<1>2. t \in Seq(Ids) /\ Listed(t) = Listed(f.m_SettledRemovals) \cup {o}
  BY <1>1, AppendLists, SoundParts
<1> HIDE DEF t
<1>3. f.m_WithdrawnRules \in Seq(Withdrawn) /\ f.m_HeldRules \in Seq(Held)
  BY SoundParts
<1>4. /\ \A e \in Listed(f.m_WithdrawnRules) : e.pBackup \in InUse(f) /\ Aside(f, e.pBackup)
      /\ \A e \in Listed(f.m_HeldRules) : e.pRule \in InUse(f)
      /\ Listed(t) \subseteq InUse(f)
  BY <1>2 DEF Sound
<1>5. Sound(h)
  BY <1>2, <1>3, <1>4, SoundLists
<1>6. h.rule = f.rule /\ h.m_FwRules = f.m_FwRules /\ h = [f EXCEPT !.m_SettledRemovals = t]
  BY <1>1 DEF Rules
<1> HIDE DEF h
<1>7. Touches(f, h)
  BY <1>5, <1>6, TouchesLists
<1> QED BY <1>6, <1>7 DEF t

LEMMA HeldMore ==
    ASSUME NEW f, Sound(f), NEW o \in InUse(f), NEW b \in BOOLEAN
    PROVE  Touches(f, [f EXCEPT !.m_HeldRules = Append(f.m_HeldRules, [pRule |-> o, bReject |-> b])])
<1> DEFINE e1 == [pRule |-> o, bReject |-> b]
           t == Append(f.m_HeldRules, e1)
           h == [f EXCEPT !.m_WithdrawnRules = f.m_WithdrawnRules, !.m_HeldRules = t,
                          !.m_SettledRemovals = f.m_SettledRemovals]
<1>1. f \in Rules /\ e1 \in Held /\ e1.pRule = o
  BY DEF Sound, InUse, Held
<1> HIDE DEF e1
<1>2. t \in Seq(Held) /\ Listed(t) = Listed(f.m_HeldRules) \cup {e1}
  BY <1>1, AppendLists, SoundParts
<1> HIDE DEF t
<1>3. f.m_WithdrawnRules \in Seq(Withdrawn) /\ f.m_SettledRemovals \in Seq(Ids)
  BY SoundParts
<1>4. /\ \A e \in Listed(f.m_WithdrawnRules) : e.pBackup \in InUse(f) /\ Aside(f, e.pBackup)
      /\ \A e \in Listed(t) : e.pRule \in InUse(f)
      /\ Listed(f.m_SettledRemovals) \subseteq InUse(f)
  BY <1>1, <1>2 DEF Sound
<1>5. Sound(h)
  BY <1>2, <1>3, <1>4, SoundLists
<1>6. h.rule = f.rule /\ h.m_FwRules = f.m_FwRules /\ h = [f EXCEPT !.m_HeldRules = t]
  BY <1>1 DEF Rules
<1> HIDE DEF h
<1>7. Touches(f, h)
  BY <1>5, <1>6, TouchesLists
<1> QED BY <1>6, <1>7 DEF t, e1

LEMMA WithdrawnMore ==
    ASSUME NEW f, Sound(f), NEW o \in InUse(f), Aside(f, o), NEW b \in BOOLEAN
    PROVE  Touches(f, [f EXCEPT !.m_WithdrawnRules = Append(f.m_WithdrawnRules, [pBackup |-> o, bRevert |-> b])])
<1> DEFINE e1 == [pBackup |-> o, bRevert |-> b]
           t == Append(f.m_WithdrawnRules, e1)
           h == [f EXCEPT !.m_WithdrawnRules = t, !.m_HeldRules = f.m_HeldRules,
                          !.m_SettledRemovals = f.m_SettledRemovals]
<1>1. f \in Rules /\ e1 \in Withdrawn /\ e1.pBackup = o
  BY DEF Sound, InUse, Withdrawn
<1> HIDE DEF e1
<1>2. t \in Seq(Withdrawn) /\ Listed(t) = Listed(f.m_WithdrawnRules) \cup {e1}
  BY <1>1, AppendLists, SoundParts
<1> HIDE DEF t
<1>3. f.m_HeldRules \in Seq(Held) /\ f.m_SettledRemovals \in Seq(Ids)
  BY SoundParts
<1>4. /\ \A e \in Listed(t) : e.pBackup \in InUse(f) /\ Aside(f, e.pBackup)
      /\ \A e \in Listed(f.m_HeldRules) : e.pRule \in InUse(f)
      /\ Listed(f.m_SettledRemovals) \subseteq InUse(f)
  BY <1>1, <1>2 DEF Sound
<1>5. Sound(h)
  BY <1>2, <1>3, <1>4, SoundLists
<1>6. h.rule = f.rule /\ h.m_FwRules = f.m_FwRules /\ h = [f EXCEPT !.m_WithdrawnRules = t]
  BY <1>1 DEF Rules
<1> HIDE DEF h
<1>7. Touches(f, h)
  BY <1>5, <1>6, TouchesLists
<1> QED BY <1>6, <1>7 DEF t, e1

LEMMA RemoveMore ==
    ASSUME NEW f, Sound(f), NEW o \in InUse(f)
    PROVE  /\ Touches(f, [f EXCEPT !.m_RulesToRemove = f.m_RulesToRemove \cup {o}])
           /\ Touches(f, [f EXCEPT !.m_RulesToRevert = f.m_RulesToRevert \cup {o}])
<1> DEFINE h == [f EXCEPT !.m_RulesToRemove = f.m_RulesToRemove \cup {o}, !.m_RulesToRevert = f.m_RulesToRevert]
           k == [f EXCEPT !.m_RulesToRemove = f.m_RulesToRemove, !.m_RulesToRevert = f.m_RulesToRevert \cup {o}]
<1>1. /\ f \in Rules /\ f.m_RulesToRemove \subseteq InUse(f) /\ f.m_RulesToRevert \subseteq InUse(f)
      /\ f.m_RulesToRemove \cup {o} \subseteq InUse(f) /\ f.m_RulesToRevert \cup {o} \subseteq InUse(f)
  BY DEF Sound
<1>2. Sound(h) /\ Sound(k)
  BY <1>1, SoundUndo
<1>3. /\ h.rule = f.rule /\ h.m_FwRules = f.m_FwRules
      /\ h = [f EXCEPT !.m_RulesToRemove = f.m_RulesToRemove \cup {o}]
      /\ k.rule = f.rule /\ k.m_FwRules = f.m_FwRules
      /\ k = [f EXCEPT !.m_RulesToRevert = f.m_RulesToRevert \cup {o}]
  BY <1>1 DEF Rules
<1> HIDE DEF h, k
<1>4. Touches(f, h) /\ Touches(f, k)
  BY <1>2, <1>3, TouchesLists
<1> QED BY <1>3, <1>4

LEMMA RemoveLessTouches ==
    ASSUME NEW f, Sound(f), NEW S
    PROVE  /\ Touches(f, [f EXCEPT !.m_RulesToRemove = f.m_RulesToRemove \ S])
           /\ Touches(f, [f EXCEPT !.m_RulesToRevert = f.m_RulesToRevert \ S])
<1> DEFINE h == [f EXCEPT !.m_RulesToRemove = f.m_RulesToRemove \ S, !.m_RulesToRevert = f.m_RulesToRevert]
           k == [f EXCEPT !.m_RulesToRemove = f.m_RulesToRemove, !.m_RulesToRevert = f.m_RulesToRevert \ S]
<1>1. /\ f \in Rules /\ f.m_RulesToRemove \subseteq InUse(f) /\ f.m_RulesToRevert \subseteq InUse(f)
      /\ f.m_RulesToRemove \ S \subseteq InUse(f) /\ f.m_RulesToRevert \ S \subseteq InUse(f)
  BY DEF Sound
<1>2. Sound(h) /\ Sound(k)
  BY <1>1, SoundUndo
<1>3. /\ h.rule = f.rule /\ h.m_FwRules = f.m_FwRules
      /\ h = [f EXCEPT !.m_RulesToRemove = f.m_RulesToRemove \ S]
      /\ k.rule = f.rule /\ k.m_FwRules = f.m_FwRules
      /\ k = [f EXCEPT !.m_RulesToRevert = f.m_RulesToRevert \ S]
  BY <1>1 DEF Rules
<1> HIDE DEF h, k
<1>4. Touches(f, h) /\ Touches(f, k)
  BY <1>2, <1>3, TouchesLists
<1> QED BY <1>3, <1>4

LEMMA TakeHeldTouches ==
    ASSUME NEW f, Sound(f), NEW o
    PROVE  Touches(f, TakeHeldRule(f, o))

BY TakeHeldEffect, TouchesLists

\* RemovalApproved, for the twin that stands in for the rule, or none.
LEMMA RemovalApprovedEffect ==
    ASSUME NEW f, Sound(f), NEW o \in InUse(f), NEW twin, NEW wasHeld,
           twin # 0 => twin \in InUse(f) /\ f.rule[twin].c = f.rule[o].c
    PROVE  Drops(f, RemovalApproved(f, o, twin, wasHeld), o)
<1> DEFINE f1 == [f EXCEPT !.m_FwRules = f.m_FwRules \ {o}]
           f2 == IF f1.rule[twin].state = "approved" THEN f1 ELSE TakeOver(f1, twin, o)
           f3 == TakeHeldRule(f2, twin)
           f4 == [f3 EXCEPT !.m_RulesToRemove = f3.m_RulesToRemove \ {twin}]
           f5 == [f1 EXCEPT !.m_SettledRemovals = Append(f1.m_SettledRemovals, o)]
<1>1. Drops(f, f1, o) /\ SameLists(f, f1) /\ f1.rule = f.rule
  BY LeaveMap
<1>2. RemovalApproved(f, o, twin, wasHeld) =
        CASE twin # 0 -> f4 [] twin = 0 /\ ~wasHeld -> f5 [] OTHER -> f1
  BY DEF RemovalApproved
<1> HIDE DEF f1
<1>3. Sound(f1) /\ o \in InUse(f1)
  BY <1>1 DEF Drops, Keeps
<1>4. CASE twin # 0
  <2>1. twin \in InUse(f1) /\ f1.rule[twin].c = f1.rule[o].c
    BY <1>1, <1>4 DEF InUse
  <2>2. Touches(f1, TakeOver(f1, twin, o)) /\ Touches(f1, f1)
    BY <1>3, <2>1, TakeOverEffect, TouchesLists
  <2>3. Touches(f1, f2)
    BY <2>2
  <2> HIDE DEF f2
  <2>4. Touches(f2, f3)
    BY <2>3, TakeHeldTouches, TouchesSound
  <2> HIDE DEF f3
  <2>5. Touches(f3, f4)
    BY <2>4, RemoveLessTouches, TouchesSound
  <2>6. Drops(f, f4, o)
    BY <1>1, <2>3, <2>4, <2>5, DropsThenTouches
  <2> QED BY <1>2, <1>4, <2>6
<1>5. CASE twin = 0 /\ ~wasHeld
  BY <1>3, SettledMore, <1>1, DropsThenTouches, <1>2, <1>5
<1>6. CASE twin = 0 /\ wasHeld
  BY <1>1, <1>2, <1>6
<1> QED BY <1>4, <1>5, <1>6

LEMMA WithdrawnLess ==
    ASSUME NEW f, Sound(f), NEW w \in DOMAIN f.m_WithdrawnRules
    PROVE  Touches(f, [f EXCEPT !.m_WithdrawnRules = RemoveAt(f.m_WithdrawnRules, w)])
<1> DEFINE t == RemoveAt(f.m_WithdrawnRules, w)
           h == [f EXCEPT !.m_WithdrawnRules = t, !.m_HeldRules = f.m_HeldRules,
                          !.m_SettledRemovals = f.m_SettledRemovals]
<1>1. f \in Rules
  BY DEF Sound
<1>2. t \in Seq(Withdrawn) /\ Listed(t) \subseteq Listed(f.m_WithdrawnRules)
  BY RemoveAtShrinks, SoundParts
<1> HIDE DEF t
<1>3. f.m_HeldRules \in Seq(Held) /\ f.m_SettledRemovals \in Seq(Ids)
  BY SoundParts
<1>4. /\ \A e \in Listed(t) : e.pBackup \in InUse(f) /\ Aside(f, e.pBackup)
      /\ \A e \in Listed(f.m_HeldRules) : e.pRule \in InUse(f)
      /\ Listed(f.m_SettledRemovals) \subseteq InUse(f)
  BY <1>2 DEF Sound
<1>5. Sound(h)
  BY <1>2, <1>3, <1>4, SoundLists
<1>6. h.rule = f.rule /\ h.m_FwRules = f.m_FwRules /\ h = [f EXCEPT !.m_WithdrawnRules = t]
  BY <1>1 DEF Rules
<1> HIDE DEF h
<1>7. Touches(f, h)
  BY <1>5, <1>6, TouchesLists
<1> QED BY <1>6, <1>7 DEF t

LEMMA SettledLess ==
    ASSUME NEW f, Sound(f), NEW w \in DOMAIN f.m_SettledRemovals
    PROVE  Touches(f, [f EXCEPT !.m_SettledRemovals = RemoveAt(f.m_SettledRemovals, w)])
<1> DEFINE t == RemoveAt(f.m_SettledRemovals, w)
           h == [f EXCEPT !.m_WithdrawnRules = f.m_WithdrawnRules, !.m_HeldRules = f.m_HeldRules,
                          !.m_SettledRemovals = t]
<1>1. f \in Rules
  BY DEF Sound
<1>2. t \in Seq(Ids) /\ Listed(t) \subseteq Listed(f.m_SettledRemovals)
  BY RemoveAtShrinks, SoundParts
<1> HIDE DEF t
<1>3. f.m_HeldRules \in Seq(Held) /\ f.m_WithdrawnRules \in Seq(Withdrawn)
  BY SoundParts
<1>4. /\ \A e \in Listed(f.m_WithdrawnRules) : e.pBackup \in InUse(f) /\ Aside(f, e.pBackup)
      /\ \A e \in Listed(f.m_HeldRules) : e.pRule \in InUse(f)
      /\ Listed(t) \subseteq InUse(f)
  BY <1>2 DEF Sound
<1>5. Sound(h)
  BY <1>2, <1>3, <1>4, SoundLists
<1>6. h.rule = f.rule /\ h.m_FwRules = f.m_FwRules /\ h = [f EXCEPT !.m_SettledRemovals = t]
  BY <1>1 DEF Rules
<1> HIDE DEF h
<1>7. Touches(f, h)
  BY <1>5, <1>6, TouchesLists
<1> QED BY <1>6, <1>7 DEF t

\* RuleRemoved takes the rule out of the live ones, whatever is decided.
LEMMA RuleRemovedEffect ==
    ASSUME NEW f, Sound(f), NEW o \in InUse(f), NEW act, NEW looks \in BOOLEAN, NEW wasHeld,
           looks => act # "approve", cfg \in Setting
    PROVE  Drops(f, RuleRemoved(f, o, act, looks, wasHeld), o)
<1> DEFINE c    == f.rule[o].c
           held == HeldTwin(f, c)
           live == FindLiveTwin(f, c, o)
           twin == IF held = 0 THEN 0 ELSE f.m_HeldRules[held].pRule
           b    == SetAsBackup(f, o)
           r1   == RemovalApproved(f, o, twin, wasHeld)
           r2   == RemovalApproved(f, o, live, wasHeld)
           r3   == [b EXCEPT !.m_WithdrawnRules = Append(b.m_WithdrawnRules, [pBackup |-> o, bRevert |-> cfg.GuardFwRules])]
           r4   == [b EXCEPT !.m_RulesToRevert = b.m_RulesToRevert \cup {o}]
<1>1. RuleRemoved(f, o, act, looks, wasHeld) =
        CASE act = "approve" -> r1
          [] looks /\ live # 0 -> r2
          [] looks /\ live = 0 -> r3
          [] ~looks /\ act = "reject" -> r4
          [] OTHER -> b
  BY DEF RuleRemoved
<1>2. twin # 0 => twin \in InUse(f) /\ f.rule[twin].c = f.rule[o].c
  BY HeldTwinMatches
<1>3. live # 0 => live \in InUse(f) /\ f.rule[live].c = f.rule[o].c
  BY LiveTwinMatches
<1> HIDE DEF twin, live
<1>4. Drops(f, r1, o) /\ Drops(f, r2, o)
  BY <1>2, <1>3, RemovalApprovedEffect
<1>5. Drops(f, b, o)
  BY BecomeBackup
<1>6. Sound(b) /\ o \in InUse(b) /\ Aside(b, o)
  BY <1>5, SetAsBackupEffect DEF Drops, Keeps, Aside
<1> HIDE DEF b
<1>7. cfg.GuardFwRules \in BOOLEAN
  BY DEF Setting
<1>8. Touches(b, r3) /\ Touches(b, r4)
  BY <1>6, <1>7, WithdrawnMore, RemoveMore
<1>9. Drops(f, r3, o) /\ Drops(f, r4, o)
  BY <1>5, <1>8, DropsThenTouches
<1> HIDE DEF r1, r2, r3, r4
<1>10. CASE act = "approve"
  BY <1>1, <1>10, <1>4
<1>11. CASE act # "approve" /\ looks
  BY <1>1, <1>11, <1>4, <1>9
<1>12. CASE act # "approve" /\ ~looks
  BY <1>1, <1>12, <1>5, <1>9
<1> QED BY <1>10, <1>11, <1>12

\* RuleReturned brings the rule back with the verdict on the one that went.
LEMMA RuleReturnedEffect ==
    ASSUME NEW f, Sound(f), NEW g \in Guids, NEW c \in Content, NEW o, WithdrawnTwin(f, c) # 0,
           \E p \in Ids : f.rule[p] = Free
    PROVE  Trades(f, RuleReturned(f, g, c, o), g, c, o)
<1> DEFINE w    == WithdrawnTwin(f, c)
           twin == f.m_WithdrawnRules[w].pBackup
           fa   == [f EXCEPT !.m_FwRules = f.m_FwRules \ {o}]
           fb   == [fa EXCEPT !.m_FwRules = fa.m_FwRules \ {twin}]
           fc   == [fb EXCEPT !.m_WithdrawnRules = RemoveAt(fb.m_WithdrawnRules, w)]
           r    == [NewRule(g, c) EXCEPT !.state = f.rule[twin].state]
<1>1. w \in DOMAIN f.m_WithdrawnRules /\ twin \in InUse(f) /\ Aside(f, twin) /\ f.rule[twin].c = c
  BY WithdrawnTwinMatches
<1>2. f \in Rules
  BY DEF Sound
<1>3. fc = [f EXCEPT !.m_WithdrawnRules = RemoveAt(f.m_WithdrawnRules, w), !.m_FwRules = f.m_FwRules \ {o, twin}]
  BY <1>2 DEF Rules
<1>4. RuleReturned(f, g, c, o) = AddRule(fc, r)
  BY <1>3 DEF RuleReturned
<1>5. Drops(f, fa, o) /\ fa.rule = f.rule /\ fa.m_WithdrawnRules = f.m_WithdrawnRules
  BY LeaveMap DEF SameLists
<1> HIDE DEF fa
<1>6. Sound(fa)
  BY <1>5 DEF Drops
<1>7. Drops(fa, fb, twin) /\ fb.rule = fa.rule /\ fb.m_WithdrawnRules = fa.m_WithdrawnRules
  BY <1>6, LeaveMap DEF SameLists
<1> HIDE DEF fb
<1>8. \A a \in Guids \ doubtful : twin \notin LiveAt(f, a)
  BY <1>1, LiveAtIs DEF Aside
<1>10. Sound(fb) /\ fb \in Rules
  BY <1>7 DEF Drops, Sound
<1>11. Touches(fb, fc)
  BY <1>1, <1>5, <1>7, <1>10, WithdrawnLess
<1>12. fc.rule = f.rule
  BY <1>5, <1>7, <1>10 DEF Rules
<1> HIDE DEF fc, w
<1>13. Drops(fa, fc, twin)
  BY <1>7, <1>11, DropsThenTouches
<1>14. f.rule[twin].state \in States /\ twin \in Ids
  BY <1>1, InUseIsRule
<1>15. r \in Rule /\ r.guid = g /\ r.c = c /\ ~r.backup /\ r.state = f.rule[twin].state
  BY <1>14, NewRuleType
<1> HIDE DEF twin, r
<1>16. AllFine(fa) => Fine(r.c.k) \/ r.state # "approved"
  BY <1>1, <1>5, <1>14, <1>15 DEF AllFine
<1>17. \E p \in Ids : fc.rule[p] = Free
  BY <1>12
<1> DEFINE h == AddRule(fc, r)
<1> HIDE DEF h
<1>18. Brings(fa, h, g, c, twin)
  BY <1>6, <1>13, <1>15, <1>16, <1>17, BringsIntro DEF h
<1>19. InUse(fa) = InUse(f) /\ Keeps(f, fa) /\ (AllFine(f) => AllFine(fa))
  BY <1>5 DEF Drops, InUse
<1>20. Sound(h) /\ Keeps(f, h) /\ (AllFine(f) => AllFine(h))
  BY <1>18, <1>19, KeepsTwice DEF Brings
<1>21. \A a \in Guids : LiveAt(fa, a) = LiveAt(f, a) \ {o}
  BY <1>5 DEF Drops
<1>22. \A a \in Guids \ doubtful : LiveAt(fa, a) \ {twin} = LiveAt(f, a) \ {o}
  BY <1>8, <1>21
<1>23. \A a \in Guids \ {g} : LiveAt(h, a) = LiveAt(fa, a) \ {twin}
  BY <1>18 DEF Brings
<1>24. PICK n \in Ids \ InUse(fa) : LiveAt(h, g) = (LiveAt(fa, g) \ {twin}) \cup {n} /\ h.rule[n].c = c
  BY <1>18 DEF Brings
<1>25. g \notin doubtful => LiveAt(h, g) = (LiveAt(f, g) \ {o}) \cup {n}
  BY <1>22, <1>24
<1>26. \A a \in Guids \ ({g} \cup doubtful) : LiveAt(h, a) = LiveAt(f, a) \ {o}
  BY <1>22, <1>23
<1>27. Trades(f, h, g, c, o)
  BY <1>19, <1>20, <1>24, <1>25, <1>26 DEF Trades
<1> QED BY <1>4, <1>27 DEF h

LEMMA DropsNothing ==
    ASSUME NEW f, Sound(f)
    PROVE  Drops(f, f, 0)
  BY TouchesLists, DropsIntro DEF Ids, Sound, InUse, Touches

\* RuleAdded, for a rule of which there is none yet.
LEMMA RuleAddedEffect ==
    ASSUME NEW f, Sound(f), NEW g \in Guids, NEW c \in Content, NEW act, NEW looks \in BOOLEAN,
           looks => act # "approve", act = "approve" => Fine(c.k), cfg \in Setting,
           \E p \in Ids : f.rule[p] = Free
    PROVE  Brings(f, RuleAdded(f, g, c, act, looks), g, c, 0)
<1> DEFINE s  == SettledTwin(f, c)
           n  == NextId(f)
           f1 == AddRule(f, NewRule(g, c))
           t  == TakeOver(f1, n, f.m_SettledRemovals[s])
           k1 == [t EXCEPT !.m_SettledRemovals = RemoveAt(t.m_SettledRemovals, s)]
           k2 == [f1 EXCEPT !.rule[n].state = "approved"]
           k3 == [f1 EXCEPT !.m_HeldRules = Append(f1.m_HeldRules, [pRule |-> n, bReject |-> cfg.GuardFwRules])]
           k4 == [f1 EXCEPT !.m_RulesToRemove = f1.m_RulesToRemove \cup {n}]
           live == FindLiveTwin(f, c, 0)
<1>1. RuleAdded(f, g, c, act, looks) =
        CASE looks /\ s # 0 -> k1
          [] act = "approve" -> k2
          [] looks /\ s = 0 /\ live # 0 -> k3
          [] ~(looks /\ (s # 0 \/ live # 0)) /\ act = "reject" -> k4
          [] OTHER -> f1
  BY DEF RuleAdded
<1>2. NewRule(g, c) \in Rule /\ NewRule(g, c).guid = g /\ NewRule(g, c).c = c
      /\ ~NewRule(g, c).backup /\ NewRule(g, c).state = "unapproved"
  BY DEF NewRule, Rule, States
<1>3. NewRule(g, c).state # "approved"
  BY <1>2
<1>4. Brings(f, f1, g, c, 0)
  BY DropsNothing, <1>2, <1>3, BringsIntro
<1>5. /\ Sound(f1) /\ n \in Ids /\ f1.rule[n] = NewRule(g, c) /\ f1.m_SettledRemovals = f.m_SettledRemovals
  BY <1>2, AddRuleEffect
<1>6. Keeps(f, f1)
  BY <1>4 DEF Brings
<1> HIDE DEF f1, n, s, live
<1>7. n \in InUse(f1)
  BY <1>2, <1>5, RuleInUse DEF InUse
<1>8. f1.rule[n].c = c
  BY <1>2, <1>5
<1>9. CASE looks /\ s # 0
  <2>1. s \in DOMAIN f.m_SettledRemovals /\ f.m_SettledRemovals[s] \in InUse(f)
        /\ f.rule[f.m_SettledRemovals[s]].c = c
    BY <1>9, SettledTwinMatches DEF s
  <2>2. f.m_SettledRemovals[s] \in InUse(f1) /\ f1.rule[f.m_SettledRemovals[s]].c = c
    BY <1>6, <2>1 DEF Keeps
  <2>3. Touches(f1, t) /\ SameLists(f1, t)
    BY <1>5, <1>7, <1>8, <2>2, TakeOverEffect
  <2> HIDE DEF t
  <2>4. Touches(t, k1)
    BY <1>5, <2>1, <2>3, WithdrawnLess, SettledLess DEF Touches, SameLists
  <2>5. Brings(f, k1, g, c, 0)
    BY <1>4, <2>3, <2>4, BringsThenTouches
  <2>6. RuleAdded(f, g, c, act, looks) = k1
    BY <1>1, <1>9
  <2> QED BY <2>5, <2>6
<1>10. CASE act = "approve"
  <2>1. "approved" \in States
    BY DEF States
  <2>2. Touches(f1, k2)
    BY <1>5, <1>7, <1>8, <1>10, <2>1, SetStateEffect
  <2>3. Brings(f, k2, g, c, 0)
    BY <1>4, <2>2, BringsThenTouches
  <2>4. RuleAdded(f, g, c, act, looks) = k2
    BY <1>1, <1>10
  <2> QED BY <2>3, <2>4
<1>11. CASE ~(looks /\ s # 0) /\ act # "approve"
  <2>1. cfg.GuardFwRules \in BOOLEAN
    BY DEF Setting
  <2>2. Touches(f1, k3) /\ Touches(f1, k4)
    BY <1>5, <1>7, <2>1, HeldMore, RemoveMore
  <2>3. Brings(f, k3, g, c, 0) /\ Brings(f, k4, g, c, 0)
    BY <1>4, <2>2, BringsThenTouches
  <2> HIDE DEF k3, k4
  <2>4. RuleAdded(f, g, c, act, looks) \in {k3, k4, f1}
    BY <1>1, <1>11
  <2> QED BY <1>4, <2>3, <2>4
<1> QED BY <1>9, <1>10, <1>11

\* RuleModified replaces the rule, and keeps the old form as a backup unless
\* the change is approved.
LEMMA RuleModifiedEffect ==
    ASSUME NEW f, Sound(f), NEW g \in Guids, NEW c \in Content, NEW o \in InUse(f), NEW act,
           act = "approve" => Fine(c.k), \E p \in Ids : f.rule[p] = Free
    PROVE  Brings(f, RuleModified(f, g, c, o, act), g, c, o)
<1> DEFINE a  == [f EXCEPT !.m_FwRules = f.m_FwRules \ {o}]
           ra == [NewRule(g, c) EXCEPT !.state = "approved"]
           b  == SetAsBackup(f, o)
           b2 == [b EXCEPT !.m_RulesToRevert = b.m_RulesToRevert \cup {o}]
           r  == NewRule(g, c)
<1>1. RuleModified(f, g, c, o, act) =
        CASE act = "approve" -> AddRule(a, ra)
          [] act = "reject" -> AddRule(b2, r)
          [] OTHER -> AddRule(b, r)
  BY DEF RuleModified
<1>2. /\ ra \in Rule /\ ra.guid = g /\ ra.c = c /\ ~ra.backup
      /\ r \in Rule /\ r.guid = g /\ r.c = c /\ ~r.backup /\ r.state # "approved"
  BY DEF NewRule, Rule, States
<1>3. Drops(f, a, o) /\ a.rule = f.rule
  BY LeaveMap
<1>4. Drops(f, b, o) /\ \A p \in Ids \ {o} : b.rule[p] = f.rule[p]
  BY BecomeBackup, SetAsBackupEffect
<1>5. Sound(b) /\ o \in InUse(b)
  BY <1>4 DEF Drops, Keeps
<1> HIDE DEF a, b, ra, r
<1>6. Touches(b, b2) /\ b2.rule = b.rule
  BY <1>5, RemoveMore DEF Sound, Rules
<1>7. Drops(f, b2, o)
  BY <1>4, <1>6, DropsThenTouches
<1> HIDE DEF b2
<1>8. PICK p \in Ids : f.rule[p] = Free
  OBVIOUS
<1>9. p # o
  BY <1>8 DEF InUse
<1>10. a.rule[p] = Free /\ b.rule[p] = Free /\ b2.rule[p] = Free
  BY <1>3, <1>4, <1>6, <1>8, <1>9
<1>11. Brings(f, AddRule(b, r), g, c, o)
  BY <1>2, <1>4, <1>10, BringsIntro
<1>12. Brings(f, AddRule(b2, r), g, c, o)
  BY <1>2, <1>7, <1>10, BringsIntro
<1>13. CASE act = "approve"
  BY <1>2, <1>3, <1>10, <1>13, BringsIntro, <1>1
<1>14. CASE act # "approve"
  BY <1>1, <1>14, <1>11, <1>12
<1> QED BY <1>13, <1>14

\* A backup stays what it is.
LEMMA BackupMetEffect ==
    ASSUME NEW f, Sound(f), NEW o \in InUse(f), NEW act
    PROVE  Touches(f, BackupMet(f, o, act))
  BY TouchesLists, RemoveMore DEF BackupMet

\* What counts as approved without the user was answered by a setting.
LEMMA ApprovalIsAnswered ==
    ASSUME NEW f, NEW c \in Content, NEW o, cfg \in Setting,
           Unanswered(f, c, o) = "approve"
    PROVE  Fine(c.k)
<1> DEFINE k     == IF o # 0 THEN f.rule[o].c.k ELSE c.k
           entry == IF ProgramChanged(f, c, o) THEN "none" ELSE cfg.entry[Prog[k]]
<1>1. c # Gone
  BY FirewallAssumption DEF Content, Gone
<1>2. GuardAction(f, c, o) = "approve"
  BY DEF Unanswered
<1>3. GuardAction(f, c, o) = IF entry # "none" THEN entry ELSE DecideRuleChange(f, c, o)
  BY <1>1 DEF GuardAction
<1>4. CASE entry # "none"
  BY <1>2, <1>3, <1>4, <1>1 DEF ProgramChanged, Fine, Answered
<1>5. CASE entry = "none"
  <2>1. DecideRuleChange(f, c, o) = "approve"
    BY <1>2, <1>3, <1>5
  <2>2. AskTemplates(c.k) # "reject" /\ AskTemplates(c.k) # "unknown"
    BY <1>1, <2>1 DEF DecideRuleChange
  <2>3. c.k \in Kinds /\ Prog[c.k] \in Progs
    BY FirewallAssumption DEF Content
  <2>4. cfg.template[Prog[c.k]] \in {"none", "block", "allow", "allow2"}
    BY <2>3 DEF Setting
  <2>5. \/ cfg.template[Prog[c.k]] = "block" /\ c.k \notin Allows
        \/ cfg.template[Prog[c.k]] \in {"allow", "allow2"} /\ c.k \in Allows
    BY <2>2, <2>4 DEF AskTemplates
  <2> QED BY <2>5 DEF Fine, Answered
<1> QED BY <1>4, <1>5

LEMMA LooksLeavesOpen ==
    ASSUME NEW f, NEW c, NEW o, LooksForTwin(f, c, o)
    PROVE  Unanswered(f, c, o) # "approve"

BY DEF LooksForTwin, Unanswered

\* Twins are looked for in objects and lists.
LEMMA SameTwin ==
    ASSUME NEW f, NEW h, h.rule = f.rule, h.m_WithdrawnRules = f.m_WithdrawnRules, NEW c
    PROVE  WithdrawnTwin(h, c) = WithdrawnTwin(f, c)

BY DEF WithdrawnTwin, SelectInSeq

\* FWRuleChanged leaves the map alone, takes the rule out of it, or puts the
\* new form in its place.
LEMMA ChangedEffect ==
    ASSUME NEW f, Sound(f), NEW g \in Guids, NEW c \in Contents, NEW o, cfg \in Setting,
           o = 0 \/ o \in InUse(f), c # Gone /\ o # 0 => ~f.rule[o].backup,
           \E p \in Ids : f.rule[p] = Free
    PROVE  \/ Quiet(f, g, c, o) /\ Touches(f, FWRuleChanged(f, g, c, o))
           \/ c = Gone /\ o # 0 /\ Drops(f, FWRuleChanged(f, g, c, o), o)
           \/ c # Gone /\ Trades(f, FWRuleChanged(f, g, c, o), g, c, o)
<1> DEFINE f0    == [f EXCEPT !.m_RulesToRemove = f.m_RulesToRemove \ {o}]
           f1    == TakeHeldRule(f0, o)
           act   == Unanswered(f, c, o)
           looks == LooksForTwin(f, c, o)
           held  == \E e \in Listed(f.m_HeldRules) : e.pRule = o
           twin  == WithdrawnTwin(f, c)
           returns == c # Gone /\ looks /\ twin # 0
           nothing == IF c = Gone THEN o = 0 ELSE o # 0 /\ f.rule[o].c = c
           h     == FWRuleChanged(f, g, c, o)
<1>1. h = CASE nothing -> f
            [] ~nothing /\ c = Gone /\ f.rule[o].backup -> BackupMet(f1, o, act)
            [] ~nothing /\ c = Gone /\ ~f.rule[o].backup ->
                 RuleRemoved(f1, o, IF looks THEN "none" ELSE act, looks, held)
            [] ~nothing /\ returns -> RuleReturned(f1, g, c, o)
            [] ~nothing /\ c # Gone /\ ~returns /\ o = 0 -> RuleAdded(f1, g, c, act, looks)
            [] OTHER -> RuleModified(f1, g, c, o, act)
  BY DEF FWRuleChanged
<1> HIDE DEF h
<1>2. Touches(f, f0) /\ f0.rule = f.rule /\ f0.m_WithdrawnRules = f.m_WithdrawnRules
  BY RemoveLess, RemoveLessTouches
<1> HIDE DEF f0
<1>3. Sound(f0)
  BY <1>2 DEF Touches
<1>4. Touches(f0, f1) /\ f1.rule = f0.rule /\ f1.m_WithdrawnRules = f0.m_WithdrawnRules
  BY <1>3, TakeHeldTouches, TakeHeldEffect
<1> HIDE DEF f1
<1>5. Touches(f, f1) /\ f1.rule = f.rule /\ f1.m_WithdrawnRules = f.m_WithdrawnRules
  BY <1>2, <1>4, TouchesTwice
<1>6. Sound(f1) /\ (o # 0 => o \in InUse(f1)) /\ \E p \in Ids : f1.rule[p] = Free
  BY <1>5 DEF Touches, InUse
<1>7. looks \in BOOLEAN
  BY DEF LooksForTwin, Setting
<1>8. looks => act # "approve"
  BY LooksLeavesOpen
<1>9. twin = WithdrawnTwin(f1, c)
  BY <1>5, SameTwin
<1>10. c \in Content /\ act = "approve" => Fine(c.k)
  BY ApprovalIsAnswered
<1> HIDE DEF act, looks, held, twin
<1>11. c # Gone => c \in Content
  BY DEF Contents
<1>12. CASE c = Gone /\ o = 0
  BY <1>1, <1>12, TouchesLists DEF Quiet, h
<1>13. CASE o # 0 /\ c # Gone /\ f.rule[o].c = c
  BY <1>1, <1>13, TouchesLists DEF Quiet, h
<1>14. CASE o # 0 /\ c = Gone /\ f.rule[o].backup
  BY <1>1, <1>14, <1>6, BackupMetEffect, <1>5, TouchesTwice DEF Quiet, h
<1>15. CASE o # 0 /\ c = Gone /\ ~f.rule[o].backup
  BY <1>1, <1>15, <1>6, <1>7, RuleRemovedEffect, <1>5, TouchesThenDrops DEF h
<1>16. CASE c # Gone /\ ~(o # 0 /\ f.rule[o].c = c) /\ looks /\ twin # 0
  <2>1. h = RuleReturned(f1, g, c, o)
    BY <1>1, <1>16
  <2>2. Trades(f1, h, g, c, o)
    BY <1>6, <1>9, <1>11, <1>16, <2>1, RuleReturnedEffect
  <2>3. Trades(f, h, g, c, o)
    BY <1>5, <2>2, TouchesThenTrades
  <2> QED BY <1>16, <2>3 DEF h
<1>17. CASE c # Gone /\ o = 0 /\ ~(looks /\ twin # 0)
  <2>1. h = RuleAdded(f1, g, c, act, looks)
    BY <1>1, <1>17
  <2>2. Brings(f1, h, g, c, 0)
    BY <1>6, <1>7, <1>8, <1>10, <1>11, <1>17, <2>1, RuleAddedEffect
  <2>3. Trades(f, h, g, c, o)
    BY <1>5, <1>17, <2>2, TouchesThenBrings, BringsTrades
  <2> QED BY <1>17, <2>3 DEF h
<1>18. CASE c # Gone /\ o # 0 /\ f.rule[o].c # c /\ ~(looks /\ twin # 0)
  <2>1. h = RuleModified(f1, g, c, o, act)
    BY <1>1, <1>18
  <2>2. Brings(f1, h, g, c, o)
    BY <1>6, <1>10, <1>11, <1>18, <2>1, RuleModifiedEffect
  <2>3. Trades(f, h, g, c, o)
    BY <1>5, <2>2, TouchesThenBrings, BringsTrades
  <2> QED BY <1>18, <2>3 DEF h
<1> QED BY <1>12, <1>13, <1>14, <1>15, <1>16, <1>17, <1>18

-----------------------------------------------------------------------------
(* What a step does to the map, its freed objects left aside *)

LEMMA CollectedEffect ==
    ASSUME NEW k, Sound(k), NEW f, Keeps(f, k), Pinned \subseteq InUse(f)
    PROVE  /\ Sound(Collected(k)) /\ Retains(f, Collected(k))
           /\ AllFine(k) => AllFine(Collected(k))
           /\ Collected(k).m_FwRules = k.m_FwRules
           /\ \A g \in Guids : Unmoved(k, Collected(k), g)
           /\ \A o \in Pinned : Collected(k).rule[o] = k.rule[o]
<1> DEFINE q == [o \in Ids |-> IF o \in Referenced(k) THEN k.rule[o] ELSE Free]
           h == [k EXCEPT !.rule = q]
<1>1. Collected(k) = h
  BY DEF Collected
<1>2. k \in Rules /\ k.rule \in [Ids -> Object]
  BY DEF Sound, Rules
<1>3. q \in [Ids -> Object] /\ \A o \in Ids : q[o] = k.rule[o] \/ q[o] = Free
  BY <1>2 DEF Object
<1>4. \A o \in Ids : o \in Referenced(k) => q[o] = k.rule[o]
  OBVIOUS
<1> HIDE DEF q
<1>5. /\ h \in Rules /\ h.rule = q /\ h.m_FwRules = k.m_FwRules
      /\ h.m_RulesToRemove = k.m_RulesToRemove
      /\ h.m_RulesToRevert = k.m_RulesToRevert /\ h.m_WithdrawnRules = k.m_WithdrawnRules
      /\ h.m_HeldRules = k.m_HeldRules /\ h.m_SettledRemovals = k.m_SettledRemovals
  BY <1>2, <1>3 DEF Rules
<1> HIDE DEF h
<1>6. ASSUME NEW o \in Referenced(k), o \in InUse(k)
      PROVE  o \in InUse(h) /\ h.rule[o] = k.rule[o]
  BY <1>4, <1>5, <1>6 DEF InUse
<1>7. /\ k.m_FwRules \subseteq Referenced(k) /\ k.m_RulesToRemove \subseteq Referenced(k)
      /\ k.m_RulesToRevert \subseteq Referenced(k) /\ Listed(k.m_SettledRemovals) \subseteq Referenced(k)
      /\ \A e \in Listed(k.m_WithdrawnRules) : e.pBackup \in Referenced(k)
      /\ \A e \in Listed(k.m_HeldRules) : e.pRule \in Referenced(k)
      /\ Pinned \subseteq Referenced(k)
  BY DEF Referenced, Pinned
<1>8. Sound(h)
  BY <1>5, <1>6, <1>7 DEF Sound, Aside
<1>9. \A o \in Pinned : o \in InUse(h) /\ h.rule[o] = k.rule[o]
  BY <1>6, <1>7 DEF Keeps
<1>10. Retains(f, h)
  BY <1>9 DEF Retains, Keeps
<1>11. ASSUME AllFine(k)
       PROVE  AllFine(h)
  BY <1>3, <1>5, <1>11 DEF Free, AllFine
<1>12. ASSUME NEW g \in Guids
       PROVE  Unmoved(k, h, g)
  BY <1>6, <1>7, <1>5 DEF Sound, LiveAt, Live, Unmoved
<1> QED BY <1>1, <1>5, <1>8, <1>9, <1>10, <1>11, <1>12

\* The effects of FWRuleChanged, collected.
LEMMA TouchesMoves ==
    ASSUME NEW f, Sound(f), NEW k, Touches(f, k), Pinned \subseteq InUse(f)
    PROVE  Moves(f, Collected(k), {})
<1> DEFINE h == Collected(k)
<1>1. Sound(k) /\ Keeps(f, k)
  BY DEF Touches
<1>2. /\ Sound(h) /\ Retains(f, h)
      /\ AllFine(k) => AllFine(h)
      /\ \A g \in Guids : Unmoved(k, h, g)
  BY <1>1, CollectedEffect
<1> HIDE DEF h
<1>3. ASSUME NEW g \in Guids
      PROVE  Unmoved(f, h, g)
  <2>1. LiveAt(k, g) = LiveAt(f, g)
    BY TouchesLive
  <2>2. \A o \in LiveAt(f, g) : k.rule[o].c = f.rule[o].c
    BY <1>1 DEF LiveAt, Live, Keeps, Sound
  <2> QED BY <1>2, <2>1, <2>2 DEF Unmoved
<1>4. Moves(f, h, {})
  BY <1>2, <1>3 DEF Moves, Touches
<1> QED BY <1>4 DEF h

LEMMA DropsMoves ==
    ASSUME NEW f, Sound(f), NEW k, NEW o, Drops(f, k, o), Pinned \subseteq InUse(f)
    PROVE  /\ Sound(Collected(k)) /\ Retains(f, Collected(k))
           /\ AllFine(f) => AllFine(Collected(k))
           /\ \A g \in Guids : LiveAt(Collected(k), g) = LiveAt(f, g) \ {o}
           /\ \A g \in Guids : \A p \in LiveAt(f, g) \ {o} : Collected(k).rule[p].c = f.rule[p].c
  BY CollectedEffect DEF Drops, LiveAt, Live, Keeps, Sound, Unmoved

LEMMA TradesMoves ==
    ASSUME NEW f, Sound(f), NEW k, NEW g \in Guids, NEW c, NEW o, Trades(f, k, g, c, o),
           Pinned \subseteq InUse(f)
    PROVE  Swaps(f, Collected(k), g, c, o)
<1> DEFINE h == Collected(k)
<1>1. Sound(k) /\ Keeps(f, k)
  BY DEF Trades
<1>2. /\ Sound(h) /\ Retains(f, h)
      /\ AllFine(k) => AllFine(h)
      /\ \A a \in Guids : Unmoved(k, h, a)
  BY <1>1, CollectedEffect
<1> HIDE DEF h
<1>3. ASSUME NEW a \in Guids \ ({g} \cup doubtful)
      PROVE  /\ LiveAt(h, a) = LiveAt(f, a) \ {o}
             /\ \A p \in LiveAt(f, a) \ {o} : h.rule[p].c = f.rule[p].c
  BY <1>1, <1>2 DEF Trades, LiveAt, Live, Keeps, Sound, Unmoved
<1>4. AllFine(f) => AllFine(h)
  BY <1>2 DEF Trades
<1>6. ASSUME g \notin doubtful
      PROVE  \E n \in Ids : LiveAt(h, g) = (LiveAt(f, g) \ {o}) \cup {n} /\ h.rule[n].c = c
  <2>1. PICK n \in Ids \ InUse(f) : LiveAt(k, g) = (LiveAt(f, g) \ {o}) \cup {n} /\ k.rule[n].c = c
    BY <1>6 DEF Trades
  <2> QED BY <1>2, <2>1 DEF Unmoved
<1>7. Swaps(f, h, g, c, o)
  BY <1>2, <1>3, <1>4, <1>6 DEF Swaps
<1> QED BY <1>7 DEF h

LEMMA PinnedInUse ==
    ASSUME Shape
    PROVE  Pinned \subseteq InUse(fw)

BY DEF Shape, Pinned

\* What the processes hold, by where they stand.
LEMMA InHand ==
    ASSUME Shape
    PROVE  /\ guard.pc = "apply" => guard.g \in Guids /\ guard.c \in Contents /\ guard.own \in BOOLEAN
           /\ upd.pc = "read" => upd.list \in [Guids -> Contents]
           /\ upd.pc = "apply" => /\ upd.list \in [Guids -> Contents]
                                  /\ upd.old \subseteq InUse(fw) /\ upd.todo \subseteq Guids
                                  /\ upd = [pc |-> "apply", list |-> upd.list, old |-> upd.old,
                                            todo |-> upd.todo]
           /\ user.pc = "found" =>
                user.o \in InUse(fw) \cup {0} /\ user.g \in Guids /\ user.c \in Content
           /\ user.pc \in {"approve", "clear"} =>
                /\ user.o \in InUse(fw) /\ user.c \in Content
                /\ user = [pc |-> user.pc, o |-> user.o, c |-> user.c]
           /\ user.pc = "write" => user.g \in Guids /\ user.c \in Content
           /\ user.pc = "restore" => user.o \in InUse(fw)
<1>1. Idle.pc = "idle"
  BY DEF Idle
<1>2. guard \in Reader /\ upd \in Updater /\ user \in Request
  BY DEF Shape
<1>3. guard.pc = "apply" => guard \in [pc : {"apply"}, g : Guids, c : Contents, own : BOOLEAN]
  BY <1>1, <1>2 DEF Reader
<1>4. upd.pc = "read" => upd \in [pc : {"read"}, list : [Guids -> Contents]]
  BY <1>1, <1>2 DEF Updater
<1>5. upd.pc = "apply" =>
        upd \in [pc : {"apply"}, list : [Guids -> Contents], old : SUBSET Ids, todo : SUBSET Guids]
  BY <1>1, <1>2 DEF Updater
<1>6. /\ user.pc = "found" => user \in [pc : {"found"}, o : Ids \cup {0}, g : Guids, c : Content]
      /\ user.pc \in {"approve", "clear"} => user \in [pc : {"approve", "clear"}, o : Ids, c : Content]
      /\ user.pc = "write" => user \in [pc : {"write"}, g : Guids, c : Content]
      /\ user.pc = "restore" => user \in [pc : {"restore"}, o : Ids]
  BY <1>1, <1>2 DEF Request
<1>7. /\ upd.pc = "apply" => upd.old \subseteq InUse(fw)
      /\ user.pc \in Holding => user.o \in InUse(fw) \cup {0}
  BY DEF Shape
<1>8. 0 \notin Ids
  BY FirewallAssumption DEF Ids
<1> QED BY <1>3, <1>4, <1>5, <1>6, <1>7, <1>8 DEF Holding

LEMMA CfgIsSetting ==
    ASSUME Shape
    PROVE  cfg \in Setting

BY FirewallAssumption DEF Shape

\* A change applied to an object of the guid or to none.
LEMMA ChangeSafe ==
    ASSUME Shape, NEW g \in Guids, NEW c \in Contents, NEW o, Change(g, c, o),
           o = 0 \/ (o \in InUse(fw) /\ fw.rule[o].guid = g), c # Gone /\ o # 0 => ~fw.rule[o].backup
    PROVE  Moves(fw, fw', {g} \cup doubtful) /\ overlapped' \in BOOLEAN
<1> DEFINE k == FWRuleChanged(fw, g, c, o)
<1>1. Sound(fw) /\ Pinned \subseteq InUse(fw) /\ cfg \in Setting
  BY PinnedInUse, CfgIsSetting DEF Shape
<1>2. fw' = Collected(k) /\ \E p \in Ids : fw.rule[p] = Free
  BY DEF Change, HasRoom
<1>8. overlapped' \in BOOLEAN
  BY DEF Change
<1>7. \A a \in Guids \ {g} : o \notin LiveAt(fw, a)
  BY <1>1, LiveAtIs, FirewallAssumption DEF Ids
<1> HIDE DEF k
<1>3. \/ Touches(fw, k)
      \/ Drops(fw, k, o)
      \/ Trades(fw, k, g, c, o)
  BY <1>1, <1>2, ChangedEffect DEF k
<1>4. CASE Touches(fw, k)
  BY <1>1, <1>2, <1>4, <1>8, TouchesMoves DEF Moves
<1>5. CASE Drops(fw, k, o)
  <2>1. /\ Sound(fw') /\ Retains(fw, fw')
        /\ AllFine(fw) => AllFine(fw')
        /\ \A a \in Guids : LiveAt(fw', a) = LiveAt(fw, a) \ {o}
        /\ \A a \in Guids : \A p \in LiveAt(fw, a) \ {o} : fw'.rule[p].c = fw.rule[p].c
    BY <1>1, <1>2, <1>5, DropsMoves
  <2>2. \A a \in Guids \ {g} : Unmoved(fw, fw', a)
    BY <2>1, <1>7 DEF Unmoved
  <2> QED BY <1>8, <2>1, <2>2 DEF Moves
<1>6. CASE Trades(fw, k, g, c, o)
  <2>1. Swaps(fw, fw', g, c, o)
    BY <1>1, <1>2, <1>6, TradesMoves
  <2>2. \A a \in Guids \ ({g} \cup doubtful) : Unmoved(fw, fw', a)
    BY <2>1, <1>7 DEF Unmoved, Swaps
  <2> QED BY <1>8, <2>1, <2>2 DEF Moves, Swaps
<1> QED BY <1>3, <1>4, <1>5, <1>6, <1>8

\* A change applied to the live rule of a guid, or to none if there is none.
LEMMA ChangeStep ==
    ASSUME Shape, NEW g \in Guids \ doubtful, NEW c \in Contents, NEW o, Change(g, c, o),
           \/ o = 0 /\ LiveAt(fw, g) = {}
           \/ LiveAt(fw, g) = {o}
    PROVE  Single(fw', g, c)
<1> DEFINE k == FWRuleChanged(fw, g, c, o)
<1>1. Sound(fw) /\ Pinned \subseteq InUse(fw) /\ cfg \in Setting
  BY PinnedInUse, CfgIsSetting DEF Shape
<1>2. fw' = Collected(k) /\ \E p \in Ids : fw.rule[p] = Free
  BY DEF Change, HasRoom
<1>4. o # 0 => o \in InUse(fw) /\ o \in Ids /\ ~fw.rule[o].backup /\ fw.rule[o].guid = g
  BY <1>1, LiveAtIs DEF Sound
<1>5. 0 \notin Ids
  BY FirewallAssumption DEF Ids
<1>11. o = 0 => LiveAt(fw, g) = {}
  BY <1>1, <1>5, LiveAtIs
<1>7. \/ Quiet(fw, g, c, o) /\ Touches(fw, k)
      \/ c = Gone /\ o # 0 /\ Drops(fw, k, o)
      \/ c # Gone /\ Trades(fw, k, g, c, o)
  BY <1>4, <1>1, <1>2, ChangedEffect DEF k
<1> HIDE DEF k
<1>8. CASE Quiet(fw, g, c, o) /\ Touches(fw, k)
  BY <1>1, <1>2, <1>8, TouchesMoves, <1>4, <1>11 DEF Moves, Quiet, Unmoved, Single, Alone, Shows
<1>9. CASE c = Gone /\ o # 0 /\ Drops(fw, k, o)
  <2>1. \A a \in Guids : LiveAt(fw', a) = LiveAt(fw, a) \ {o}
    BY <1>1, <1>2, <1>9, DropsMoves
  <2>2. LiveAt(fw', g) = {}
    BY <2>1, <1>9
  <2> QED BY <1>9, <2>2 DEF Single, Alone, Shows
<1>10. CASE c # Gone /\ Trades(fw, k, g, c, o)
  <2>1. Swaps(fw, fw', g, c, o)
    BY <1>1, <1>2, <1>10, TradesMoves
  <2>2. \E n \in Ids : LiveAt(fw', g) = (LiveAt(fw, g) \ {o}) \cup {n} /\ fw'.rule[n].c = c
    BY <2>1 DEF Swaps
  <2>3. \E n \in Ids : LiveAt(fw', g) = {n} /\ fw'.rule[n].c = c
    BY <2>2
  <2> QED BY <1>10, <2>3 DEF Single, Alone, Shows
<1> QED BY <1>7, <1>8, <1>9, <1>10

\* A backup that UpdateRules does not find in the list stays what it is.
LEMMA BackupStep ==
    ASSUME Shape, NEW o \in InUse(fw), fw.rule[o].backup, Change(fw.rule[o].guid, Gone, o)
    PROVE  Moves(fw, fw', {})
<1> DEFINE g == fw.rule[o].guid
           k == FWRuleChanged(fw, g, Gone, o)
<1>1. Sound(fw) /\ Pinned \subseteq InUse(fw) /\ cfg \in Setting
  BY PinnedInUse, CfgIsSetting DEF Shape
<1>2. fw' = Collected(k) /\ \E p \in Ids : fw.rule[p] = Free
  BY DEF Change, HasRoom
<1>3. g \in Guids /\ Gone \in Contents
  BY <1>1, InUseIsRule DEF Contents
<1> HIDE DEF k, g
<1>4. \/ Touches(fw, k)
      \/ Drops(fw, k, o)
  BY <1>1, <1>2, <1>3, ChangedEffect DEF k
<1>5. CASE Touches(fw, k)
  BY <1>1, <1>2, <1>5, TouchesMoves
<1>6. CASE Drops(fw, k, o)
  <2>1. /\ Sound(fw') /\ Retains(fw, fw')
        /\ AllFine(fw) => AllFine(fw')
        /\ \A a \in Guids : LiveAt(fw', a) = LiveAt(fw, a) \ {o}
        /\ \A a \in Guids : \A p \in LiveAt(fw, a) \ {o} : fw'.rule[p].c = fw.rule[p].c
    BY <1>1, <1>2, <1>6, DropsMoves
  <2>2. \A a \in Guids : o \notin LiveAt(fw, a)
    BY <1>1, LiveAtIs
  <2> QED BY <2>1, <2>2 DEF Moves, Unmoved
<1> QED BY <1>4, <1>5, <1>6

-----------------------------------------------------------------------------
(* RestoreRule and the requests, by what they do to the live rules *)

LEMMA TouchesSpares ==
    ASSUME NEW f, Sound(f), NEW h, Touches(f, h)
    PROVE  Spares(f, h)
  BY TouchesLive DEF Touches, Spares

LEMMA SparesTwice ==
    ASSUME NEW f, NEW h, NEW k, Spares(f, h), Spares(h, k)
    PROVE  Spares(f, k)

BY KeepsTwice DEF Spares

LEMMA PutsThenSpares ==
    ASSUME NEW f, NEW h, NEW k, NEW g \in Guids, NEW c, Puts(f, h, g, c), Spares(h, k)
    PROVE  Puts(f, k, g, c)
<1>1. Keeps(f, k)
  BY KeepsTwice DEF Puts, Spares
<1>2. LiveAt(k, g) = LiveAt(h, g)
  BY DEF Spares
<1>3. \A o \in LiveAt(h, g) : o \in InUse(h)
  BY DEF LiveAt, Live, Puts, Sound
<1>4. \A o \in LiveAt(h, g) : k.rule[o].c = h.rule[o].c
  BY <1>3 DEF Spares, Keeps
<1>5. Single(k, g, c)
  BY <1>2, <1>4 DEF Puts, Single, Alone, Shows
<1> QED BY <1>1, <1>5 DEF Puts, Spares

\* Fewer objects in the map.
LEMMA MapLess ==
    ASSUME NEW f, Sound(f), NEW S
    PROVE  LET h == [f EXCEPT !.m_FwRules = f.m_FwRules \ S]
           IN /\ Sound(h) /\ Keeps(f, h) /\ (AllFine(f) => AllFine(h))
              /\ h.rule = f.rule
              /\ \A g \in Guids : LiveAt(h, g) = LiveAt(f, g) \ S
<1> DEFINE h == [f EXCEPT !.m_FwRules = f.m_FwRules \ S]
<1>1. f \in Rules /\ f.m_FwRules \ S \subseteq InUse(f)
  BY DEF Sound
<1>2. Sound(h)
  BY <1>1, SoundMap
<1>3. h.rule = f.rule /\ h.m_FwRules = f.m_FwRules \ S
  BY <1>1 DEF Rules
<1> HIDE DEF h
<1>4. InUse(h) = InUse(f)
  BY <1>3 DEF InUse
<1>5. Keeps(f, h)
  BY <1>3, <1>4 DEF Keeps
<1>6. AllFine(f) => AllFine(h)
  BY <1>3 DEF AllFine
<1>7. ASSUME NEW g \in Guids
      PROVE  LiveAt(h, g) = LiveAt(f, g) \ S
  BY <1>3 DEF LiveAt, Live
<1>8. /\ Sound(h) /\ Keeps(f, h) /\ (AllFine(f) => AllFine(h))
      /\ h.rule = f.rule
      /\ \A g \in Guids : LiveAt(h, g) = LiveAt(f, g) \ S
  BY <1>2, <1>3, <1>5, <1>6, <1>7
<1> QED BY <1>8 DEF h

\* RemoveLive leaves no live rule of the guid.
LEMMA RemoveLivePuts ==
    ASSUME NEW f, Sound(f), NEW g \in Guids
    PROVE  Puts(f, RemoveLive(f, g), g, Gone) /\ RemoveLive(f, g).rule = f.rule
<1> DEFINE h == RemoveLive(f, g)
           S == LiveAt(f, g)
<1>1. h = [f EXCEPT !.m_FwRules = f.m_FwRules \ S]
  BY DEF RemoveLive
<1> HIDE DEF h, S
<1>2. /\ Sound(h) /\ Keeps(f, h) /\ (AllFine(f) => AllFine(h)) /\ h.rule = f.rule
      /\ \A a \in Guids : LiveAt(h, a) = LiveAt(f, a) \ S
  BY <1>1, MapLess
<1>3. LiveAt(h, g) = {}
  BY <1>2 DEF S
<1>4. \A a \in Guids \ {g} : LiveAt(h, a) = LiveAt(f, a)
  BY <1>2 DEF S, LiveAt
<1>5. Single(h, g, Gone)
  BY <1>3 DEF Single, Alone, Shows
<1> QED BY <1>2, <1>4, <1>5 DEF Puts, h

\* Backups leave the map.
LEMMA BackupsLess ==
    ASSUME NEW f, Sound(f), NEW S \in SUBSET Backups(f)
    PROVE  Spares(f, [f EXCEPT !.m_FwRules = @ \ S])
<1> DEFINE h == [f EXCEPT !.m_FwRules = f.m_FwRules \ S]
<1>1. \A a \in Guids : LiveAt(f, a) \ S = LiveAt(f, a)
  BY DEF LiveAt, Live, Backups
<1>2. /\ Sound(h) /\ Keeps(f, h) /\ (AllFine(f) => AllFine(h))
      /\ \A a \in Guids : LiveAt(h, a) = LiveAt(f, a) \ S
  BY MapLess
<1> HIDE DEF h
<1>3. Spares(f, h)
  BY <1>1, <1>2 DEF Spares
<1> QED BY <1>3 DEF h

\* ClearBackups leaves the live rules.
LEMMA ClearBackupsSpares ==
    ASSUME NEW f, Sound(f), NEW g
    PROVE  Spares(f, ClearBackups(f, g))
<1> DEFINE S == {b \in Backups(f) : f.rule[b].guid = g}
<1>1. ClearBackups(f, g) = [f EXCEPT !.m_FwRules = @ \ S] /\ S \in SUBSET Backups(f)
  BY DEF ClearBackups
<1> HIDE DEF S
<1> QED BY <1>1, BackupsLess

\* A new rule for a guid that had none left.
LEMMA PutsThenBrings ==
    ASSUME NEW f, NEW h, NEW k, NEW g \in Guids, NEW c, c \in Content,
           Puts(f, h, g, Gone), Brings(h, k, g, c, 0)
    PROVE  Puts(f, k, g, c)
<1>3. Sound(h) /\ Keeps(f, h) /\ (AllFine(f) => AllFine(h))
  BY DEF Puts
<1>7. LiveAt(h, g) = {}
  BY DEF Puts, Single, Alone, Shows
<1>8. 0 \notin Ids
  BY FirewallAssumption DEF Ids
<1>9. \A a \in Guids : LiveAt(h, a) \ {0} = LiveAt(h, a)
  BY <1>3, <1>8, LiveAtIs
<1>10. \A a \in Guids \ {g} : LiveAt(k, a) = LiveAt(f, a)
  BY <1>9 DEF Puts, Brings
<1>11. Single(k, g, c)
  BY <1>7, FirewallAssumption DEF Brings, Content, Gone, Single, Alone, Shows
<1>12. Sound(k) /\ Keeps(f, k) /\ (AllFine(f) => AllFine(k))
  BY <1>3, KeepsTwice DEF Brings
<1> QED BY <1>10, <1>11, <1>12 DEF Puts

\* A rule of g in the place of all others.
LEMMA AddAfterRemove ==
    ASSUME NEW f, Sound(f), NEW r \in Rule, ~r.backup, \E p \in Ids : f.rule[p] = Free,
           AllFine(f) => Fine(r.c.k) \/ r.state # "approved"
    PROVE  Puts(f, AddRule(RemoveLive(f, r.guid), r), r.guid, r.c)
<1> DEFINE g == r.guid
           h == RemoveLive(f, g)
           k == AddRule(h, r)
<1>1. g \in Guids
  BY RuleInUse
<1>2. Puts(f, h, g, Gone) /\ h.rule = f.rule
  BY <1>1, RemoveLivePuts
<1> HIDE DEF h
<1>3. Sound(h) /\ Keeps(f, h) /\ (AllFine(f) => AllFine(h))
  BY <1>2 DEF Puts
<1>4. Drops(h, h, 0)
  BY <1>3, DropsNothing
<1>5. AllFine(h) => AllFine(f)
  BY <1>2 DEF AllFine
<1>6. Brings(h, k, g, r.c, 0)
  BY <1>2, <1>4, <1>5, BringsIntro
<1> HIDE DEF k, g
<1>7. Puts(f, k, g, r.c)
  BY <1>1, <1>2, <1>6, RuleInUse, PutsThenBrings
<1> QED BY <1>7 DEF k, g, h

LEMMA SparesMoves ==
    ASSUME NEW f, Sound(f), NEW k, Spares(f, k), Pinned \subseteq InUse(f)
    PROVE  Moves(f, k, {}) /\ Moves(f, Collected(k), {})
  BY CollectedEffect DEF Spares, LiveAt, Live, Keeps, Sound, Unmoved, Retains, Moves

LEMMA PutsMoves ==
    ASSUME NEW f, Sound(f), NEW k, NEW g \in Guids, NEW c, Puts(f, k, g, c), Pinned \subseteq InUse(f)
    PROVE  /\ Moves(f, k, {g}) /\ Single(k, g, c)
           /\ Moves(f, Collected(k), {g}) /\ Single(Collected(k), g, c)
<1> DEFINE h == Collected(k)
<1>1. Sound(k) /\ Keeps(f, k)
  BY DEF Puts
<1>2. /\ Sound(h) /\ Retains(f, h)
      /\ AllFine(k) => AllFine(h)
      /\ \A a \in Guids : Unmoved(k, h, a)
  BY <1>1, CollectedEffect
<1> HIDE DEF h
<1>3. \A a \in Guids : \A o \in LiveAt(f, a) : k.rule[o].c = f.rule[o].c
  BY <1>1 DEF LiveAt, Live, Keeps, Sound
<1>4. \A a \in Guids \ {g} : Unmoved(f, k, a)
  BY <1>3 DEF Puts, Unmoved
<1>5. \A a \in Guids \ {g} : Unmoved(f, h, a)
  BY <1>2, <1>4 DEF Unmoved
<1>6. Retains(f, k)
  BY <1>1 DEF Retains, Keeps
<1>7. (AllFine(f) => AllFine(k)) /\ (AllFine(f) => AllFine(h))
  BY <1>2 DEF Puts
<1>8. Single(k, g, c)
  BY DEF Puts
<1>9. Unmoved(k, h, g)
  BY <1>2
<1>10. Single(h, g, c)
  BY <1>8, <1>9 DEF Unmoved, Single, Alone, Shows
<1>11. Moves(f, k, {g}) /\ Moves(f, h, {g})
  BY <1>1, <1>2, <1>4, <1>5, <1>6, <1>7 DEF Moves
<1> QED BY <1>8, <1>10, <1>11 DEF h

\* The flag that a rule could not be restored.
LEMMA ErrTouches ==
    ASSUME NEW f, Sound(f), NEW b \in InUse(f)
    PROVE  Touches(f, [f EXCEPT !.rule[b].err = TRUE])
<1> DEFINE r == [f.rule[b] EXCEPT !.err = TRUE]
           q == [f.rule EXCEPT ![b] = r]
           h == [f EXCEPT !.rule = q]
<1>1. b \in Ids /\ f.rule[b] \in Rule /\ f.rule \in [Ids -> Object]
  BY InUseIsRule, SoundParts
<1>2. /\ r \in Rule
      /\ (r.backup <=> f.rule[b].backup)
      /\ r.guid = f.rule[b].guid /\ r.c = f.rule[b].c /\ r.state = f.rule[b].state
  BY <1>1 DEF Rule
<1> HIDE DEF r
<1>3. r \in Object /\ r # Free
  BY <1>2, RuleInUse
<1>4. /\ q \in [Ids -> Object] /\ q[b] = r
      /\ \A p \in Ids \ {b} : q[p] = f.rule[p]
  BY <1>1, <1>3
<1> HIDE DEF q
<1>6. \A p \in InUse(f) : /\ q[p] # Free /\ q[p].guid = f.rule[p].guid
                          /\ f.rule[p].backup => q[p].backup
  BY <1>2, <1>3, <1>4 DEF InUse
<1>7. Sound(h)
  BY <1>4, <1>6, SoundObjects
<1>8. h.rule = q /\ h.m_FwRules = f.m_FwRules
  BY DEF Sound, Rules
<1>9. h = [f EXCEPT !.rule[b].err = TRUE]
  BY DEF Sound, Rules, q, r
<1> HIDE DEF h
<1>10. Keeps(f, h)
  BY <1>2, <1>4, <1>6, <1>8 DEF Keeps, InUse
<1>11. AllFine(f) => AllFine(h)
  BY <1>1, <1>2, <1>4, <1>8 DEF AllFine
<1>12. \A p \in Ids : h.rule[p].backup <=> f.rule[p].backup
  BY <1>2, <1>4, <1>8
<1>13. Touches(f, h)
  BY <1>7, <1>8, <1>10, <1>11, <1>12 DEF Touches
<1> QED BY <1>9, <1>13

\* A rule leaves the list of what is to be restored, and may be marked.
LEMMA RevertLessSpares ==
    ASSUME NEW f, Sound(f), NEW b
    PROVE  /\ Spares(f, [f EXCEPT !.m_RulesToRevert = @ \ {b}])
           /\ b \in InUse(f) =>
                Spares(f, [f EXCEPT !.rule[b].err = TRUE, !.m_RulesToRevert = @ \ {b}])
<1>1. Spares(f, [f EXCEPT !.m_RulesToRevert = f.m_RulesToRevert \ {b}])
  BY RemoveLessTouches, TouchesSpares
<1>2. ASSUME b \in InUse(f)
      PROVE  Spares(f, [f EXCEPT !.rule[b].err = TRUE, !.m_RulesToRevert = @ \ {b}])
  <2> DEFINE h == [f EXCEPT !.rule[b].err = TRUE]
             k == [h EXCEPT !.m_RulesToRevert = h.m_RulesToRevert \ {b}]
  <2>1. Touches(f, h)
    BY <1>2, ErrTouches
  <2>2. Spares(f, h) /\ Sound(h)
    BY <2>1, TouchesSpares DEF Touches
  <2>3. k = [f EXCEPT !.rule[b].err = TRUE, !.m_RulesToRevert = @ \ {b}]
    BY DEF Sound, Rules
  <2> HIDE DEF h
  <2>4. Spares(h, k)
    BY <2>2, RemoveLessTouches, TouchesSpares
  <2>5. Spares(f, k)
    BY <2>2, <2>4, SparesTwice
  <2> QED BY <2>3, <2>5
<1> QED BY <1>1, <1>2

LEMMA WritesLog ==
    ASSUME Shape, NEW g \in Guids, NEW c \in Contents
    PROVE  /\ Write(g, c) => Logs(g)
           /\ WriteUnread(g, c) => Logs(g)
  BY DEF Shape, Write, WriteUnread, Logs

\* What UpdateRuleAndTest does to Windows when it reports an error.
LEMMA NotSetLogs ==
    ASSUME Shape, NEW g \in Guids, NEW c \in Content, NotSet(g, c)
    PROVE  /\ Logs(g) \/ UNCHANGED winVars
           /\ doubtful' = doubtful \cup {g}
  BY WritesLog DEF Contents, NotSet

\* RestoreRule: the guid written to is given one live rule or none, and
\* Windows is written to, or the call is known to have failed.
LEMMA RestoreStep ==
    ASSUME Shape, NEW b \in InUse(fw), NEW state \in States, HasRoom,
           NEW g \in Guids, PutBack(b, g, state),
           AllFine(fw) /\ state = "approved" => Fine(fw.rule[b].c.k)
    PROVE  /\ Moves(fw, fw', {g})
           /\ \A o, p \in LiveAt(fw', g) : o = p
           /\ doubtful' \in {doubtful, doubtful \cup {g}}
           /\ Logs(g) \/ (UNCHANGED winVars /\ g \in doubtful')
<1> DEFINE rb == [fw.rule[b] EXCEPT !.guid = g]
           c == fw.rule[b].c
           f1 == RemoveLive(fw, g)
<1>1. Sound(fw) /\ Pinned \subseteq InUse(fw)
  BY PinnedInUse DEF Shape
<1>2. g \in Guids /\ c \in Content /\ c \in Contents /\ Gone \in Contents
  BY <1>1, InUseIsRule DEF Contents
<1>3. \E p \in Ids : fw.rule[p] = Free
  BY DEF HasRoom
<1>r. rb.guid = g /\ rb.c = c
  BY <1>1, InUseIsRule DEF Rule
<1> HIDE DEF rb
<1>a. AllFine(fw) /\ state = "approved" => Fine(c.k)
  OBVIOUS
<1>4. Puts(fw, f1, g, Gone) /\ f1.rule = fw.rule
  BY <1>1, <1>2, RemoveLivePuts
<1>b. Sound(f1) /\ InUse(f1) = InUse(fw)
  BY <1>4 DEF Puts, InUse
<1>5. ASSUME NEW d \in Contents, Puts(fw, fw', g, d)
      PROVE  Moves(fw, fw', {g}) /\ \A o, p \in LiveAt(fw', g) : o = p
  <2>1. Moves(fw, fw', {g}) /\ Single(fw', g, d)
    BY <1>1, <1>2, <1>5, PutsMoves
  <2> QED BY <2>1 DEF Single, Alone
<1>6. CASE Restored(rb, b, state)
  <2> DEFINE r == [NewRule(g, c) EXCEPT !.state = state]
             f2 == AddRule(f1, r)
             f3 == ClearBackups(f2, g)
             f4 == [f3 EXCEPT !.m_RulesToRevert = @ \ {b}]
  <2>1. r \in Rule /\ r.guid = g /\ r.c = c /\ ~r.backup /\ r.state = state
    BY <1>2, NewRuleType
  <2>2. fw' = f4 /\ Write(g, c) /\ UNCHANGED doubtful
    BY <1>6, <1>r DEF Restored
  <2> HIDE DEF r
  <2>3. Puts(fw, AddRule(RemoveLive(fw, r.guid), r), r.guid, r.c)
    BY <1>1, <1>3, <1>a, <2>1, AddAfterRemove
  <2>4. Puts(fw, f2, g, c)
    BY <2>1, <2>3
  <2> HIDE DEF f2
  <2>5. Sound(f2)
    BY <2>4 DEF Puts
  <2>6. Spares(f2, f3)
    BY <2>5, ClearBackupsSpares
  <2> HIDE DEF f3
  <2>7. Sound(f3)
    BY <2>6 DEF Spares
  <2>8. Spares(f3, f4)
    BY <2>7, RevertLessSpares
  <2> HIDE DEF f4
  <2>9. Spares(f2, f4)
    BY <2>6, <2>8, SparesTwice
  <2>10. Puts(fw, f4, g, c)
    BY <1>2, <2>4, <2>9, PutsThenSpares
  <2>11. Logs(g)
    BY <1>2, <2>2, WritesLog
  <2> QED BY <1>2, <1>5, <2>2, <2>10, <2>11
<1>7. CASE NotRestored(rb, b)
  <2> DEFINE f2 == [f1 EXCEPT !.rule[b].err = TRUE, !.m_RulesToRevert = @ \ {b}]
  <2>1. fw' = f2 /\ UNCHANGED winVars /\ doubtful' = doubtful \cup {g}
    BY <1>7, <1>r DEF NotRestored
  <2> HIDE DEF f1
  <2>2. Spares(f1, f2)
    BY <1>b, RevertLessSpares
  <2> HIDE DEF f2
  <2>3. Puts(fw, f2, g, Gone)
    BY <1>2, <1>4, <2>2, PutsThenSpares
  <2> QED BY <1>2, <1>5, <2>1, <2>3
<1>8. ASSUME NEW d \in Content, RestoredAs(rb, b, d)
      PROVE  /\ Moves(fw, fw', {g})
             /\ \A o, p \in LiveAt(fw', g) : o = p
             /\ doubtful' = doubtful \cup {g}
             /\ Logs(g)
  <2> DEFINE f2 == [f1 EXCEPT !.rule[b].err = TRUE, !.m_RulesToRevert = @ \ {b}]
             r  == [NewRule(g, d) EXCEPT !.state = "diverged"]
             f3 == AddRule(f2, r)
             same == Prog[d.k] = Prog[c.k] /\ (d.k \in Allows <=> c.k \in Allows)
  <2>1. /\ doubtful' = doubtful \cup {g}
        /\ Write(g, IF same THEN d ELSE Gone)
        /\ same => fw' = f3
        /\ ~same => fw' = f2
    BY <1>8, <1>r DEF RestoredAs
  <2>2. d \in Contents /\ "diverged" \in States
    BY DEF Contents, States
  <2> HIDE DEF same
  <2>3. (IF same THEN d ELSE Gone) \in Contents
    BY <1>2, <2>2
  <2>4. Logs(g)
    BY <1>2, <2>1, <2>3, WritesLog
  <2>5. r \in Rule /\ r.guid = g /\ r.c = d /\ ~r.backup /\ r.state = "diverged"
    BY <1>2, <2>2, NewRuleType
  <2> HIDE DEF f1, r
  <2>6. Spares(f1, f2)
    BY <1>b, RevertLessSpares
  <2>7. Puts(fw, f2, g, Gone)
    BY <1>2, <1>4, <2>6, PutsThenSpares
  <2>8. \A p \in Ids : fw.rule[p] = Free => f2.rule[p] = Free
    BY <1>b, SoundParts, <1>4 DEF InUse, Sound, Rules
  <2>9. CASE same
    <3> HIDE DEF f2
    <3>1. Sound(f2) /\ Drops(f2, f2, 0)
      BY <2>7, DropsNothing DEF Puts
    <3>2. \E p \in Ids : f2.rule[p] = Free
      BY <1>3, <2>8
    <3>3. Brings(f2, AddRule(f2, r), r.guid, r.c, 0)
      BY <2>5, <3>1, <3>2, BringsIntro
    <3>4. Brings(f2, f3, g, d, 0)
      BY <2>5, <3>3
    <3> HIDE DEF f3
    <3>5. Puts(fw, f3, g, d)
      BY <1>2, <2>2, <2>7, <3>4, PutsThenBrings
    <3> QED BY <1>5, <2>1, <2>2, <2>4, <2>9, <3>5
  <2>10. CASE ~same
    <3> HIDE DEF f2
    <3> QED BY <1>2, <1>5, <2>1, <2>4, <2>7, <2>10
  <2> QED BY <2>9, <2>10
<1>9. CASE RestoredUnread(rb, b)
  <2> DEFINE f2 == [f1 EXCEPT !.m_RulesToRevert = @ \ {b}]
  <2>1. fw' = f2 /\ WriteUnread(g, c) /\ doubtful' = doubtful \cup {g}
    BY <1>9, <1>r DEF RestoredUnread
  <2> HIDE DEF f1
  <2>2. Spares(f1, f2)
    BY <1>b, RevertLessSpares
  <2> HIDE DEF f2
  <2>3. Puts(fw, f2, g, Gone)
    BY <1>2, <1>4, <2>2, PutsThenSpares
  <2>4. Logs(g)
    BY <1>2, <2>1, WritesLog
  <2> QED BY <1>2, <1>5, <2>1, <2>3, <2>4
<1> QED BY <1>6, <1>7, <1>8, <1>9 DEF PutBack, rb

\* A backup is restored under its guid, what was left as a rule under a new one.
LEMMA RestoreAnswers ==
    ASSUME Shape, NEW b \in InUse(fw), NEW state \in States, RestoreRule(b, state),
           AllFine(fw) /\ state = "approved" => Fine(fw.rule[b].c.k)
    PROVE  \E g \in Guids : Answers(g) /\ (fw.rule[b].backup => g = fw.rule[b].guid)
<1>1. PICK g \in IF fw.rule[b].backup THEN {fw.rule[b].guid} ELSE Unused : PutBack(b, g, state)
  BY DEF RestoreRule, PutBack
<1>2. g \in Guids
  BY InUseIsRule, FirewallAssumption DEF Shape, Unused
<1>3. HasRoom
  BY DEF RestoreRule
<1> QED BY <1>1, <1>2, <1>3, RestoreStep DEF Answers, Alone

LEMMA SparesThenPuts ==
    ASSUME NEW f, NEW h, NEW k, NEW g \in Guids, NEW c, Spares(f, h), Puts(h, k, g, c)
    PROVE  Puts(f, k, g, c)
  BY KeepsTwice DEF Puts, Spares

\* The live rules of a guid have that guid.
LEMMA LiveOnlyThere ==
    ASSUME NEW f, Sound(f), NEW o \in InUse(f), NEW a, a # f.rule[o].guid
    PROVE  o \notin LiveAt(f, a)

BY LiveAtIs

\* An object is changed in place.
LEMMA EditMoves ==
    ASSUME NEW f, Sound(f), NEW o \in InUse(f), NEW r \in Rule,
           r.guid = f.rule[o].guid, r.backup <=> f.rule[o].backup,
           o \in Pinned => r.c.k = f.rule[o].c.k,
           AllFine(f) /\ r.state = "approved" => Fine(r.c.k),
           Pinned \subseteq InUse(f)
    PROVE  LET h == [f EXCEPT !.rule[o] = r]
           IN /\ Moves(f, h, {r.guid})
              /\ \A a \in Guids : LiveAt(h, a) = LiveAt(f, a)
              /\ h.rule[o] = r /\ InUse(h) = InUse(f)
<1> DEFINE q == [f.rule EXCEPT ![o] = r]
           h == [f EXCEPT !.rule = q]
           g == r.guid
<1>1. o \in Ids /\ f.rule[o] \in Rule /\ f.rule \in [Ids -> Object] /\ o \in InUse(f)
  BY InUseIsRule, SoundParts
<1>3. r \in Object /\ r # Free
  BY RuleInUse
<1>4. /\ q \in [Ids -> Object] /\ q[o] = r
      /\ \A p \in Ids \ {o} : q[p] = f.rule[p]
  BY <1>1, <1>3
<1> HIDE DEF q
<1>6. \A p \in InUse(f) : /\ q[p] # Free /\ q[p].guid = f.rule[p].guid
                          /\ f.rule[p].backup => q[p].backup
  BY <1>3, <1>4 DEF InUse
<1>7. Sound(h)
  BY <1>4, <1>6, SoundObjects
<1>8. h.rule = q /\ h.m_FwRules = f.m_FwRules
  BY DEF Sound, Rules
<1>9. h = [f EXCEPT !.rule[o] = r]
  BY DEF Sound, Rules, q
<1> HIDE DEF h
<1>10. InUse(h) = InUse(f)
  BY <1>1, <1>3, <1>4, <1>8 DEF InUse
<1>11. AllFine(f) => AllFine(h)
  BY <1>1, <1>4, <1>8 DEF AllFine
<1>12. ASSUME NEW a \in Guids
       PROVE  LiveAt(h, a) = LiveAt(f, a)
  <2>1. ASSUME NEW p
        PROVE  p \in LiveAt(h, a) <=> p \in LiveAt(f, a)
    BY LiveAtIs, <1>7, <1>4, <1>8
  <2> QED BY <2>1
<1>13. ASSUME NEW a \in Guids \ {g}
       PROVE  Unmoved(f, h, a)
  BY LiveOnlyThere, LiveAtIs, <1>4, <1>8, <1>12 DEF Unmoved
<1>14. ASSUME NEW p \in Pinned
       PROVE  /\ p \in InUse(h)
              /\ h.rule[p].guid = f.rule[p].guid /\ h.rule[p].c.k = f.rule[p].c.k
              /\ f.rule[p].backup => h.rule[p].backup
  BY <1>10, <1>4, <1>8 DEF InUse
<1>15. Retains(f, h)
  BY <1>14 DEF Retains
<1>16. Moves(f, h, {g})
  BY <1>7, <1>11, <1>13, <1>15 DEF Moves
<1> QED BY <1>4, <1>8, <1>9, <1>10, <1>12, <1>16

\* Freed objects left aside, a step does the same.
LEMMA MovesThenCollected ==
    ASSUME NEW f, NEW k, NEW G, Moves(f, k, G)
    PROVE  /\ Moves(f, Collected(k), G)
           /\ \A g \in Guids : Unmoved(k, Collected(k), g)
  BY CollectedEffect DEF Moves, Retains, Keeps, Unmoved

LEMMA MovesTwice ==
    ASSUME NEW f, NEW h, NEW k, NEW G, Moves(f, h, {}), Moves(h, k, G)
    PROVE  Moves(f, k, G)
  BY DEF Moves, Retains, Unmoved

\* A step that leaves the map alone.
LEMMA SameMoves ==
    ASSUME NEW f, Sound(f), Pinned \subseteq InUse(f), NEW G
    PROVE  Moves(f, f, G)

BY DEF Moves, Retains, Unmoved

LEMMA EditIs ==
    ASSUME NEW f \in Rules, NEW o \in Ids, f.rule[o] \in Rule, NEW c, NEW s
    PROVE  /\ AtOnce(f, o, c, s) = [f EXCEPT !.rule[o] = NewForm(f.rule[o], c, s)]
           /\ InTurn(f, o, c, s) = [f EXCEPT !.rule[o] = NewForm(f.rule[o], c, s)]
<1> DEFINE r1 == [f.rule[o] EXCEPT !.c = c]
           r  == [f.rule[o] EXCEPT !.c = c, !.state = s]
           q1 == [f.rule EXCEPT ![o] = r1]
           q  == [f.rule EXCEPT ![o] = r]
           h1 == [f EXCEPT !.rule = q1]
           h  == [f EXCEPT !.rule = q]
<1>1. f.rule \in [Ids -> Object]
  BY DEF Rules
<1>2. r = [r1 EXCEPT !.state = s]
  BY DEF Rule
<1> HIDE DEF r, r1
<1>3. q1[o] = r1 /\ q = [q1 EXCEPT ![o] = r]
  BY <1>1
<1> HIDE DEF q1, q
<1>4. h1.rule = q1 /\ h = [h1 EXCEPT !.rule = q]
  BY DEF Rules
<1>5. [f EXCEPT !.rule[o].c = c] = h1
  BY DEF q1, r1
<1>6. [h1 EXCEPT !.rule[o].state = s] = h
  BY <1>2, <1>3, <1>4
<1>7. [f EXCEPT !.rule[o] = r] = h
  BY DEF q
<1>8. [f EXCEPT !.rule[o].c = c, !.rule[o].state = s] = h
  BY <1>5, <1>6
<1> QED BY <1>5, <1>6, <1>7, <1>8 DEF r, AtOnce, InTurn, NewForm

\* RemoveFromWindows writes, or finds the rule removed already.
LEMMA RemoveLogs ==
    ASSUME Shape, NEW g \in Guids, RemoveFromWindows(g)
    PROVE  Logs(g) \/ RemovedBefore(g)
  BY WritesLog DEF Contents, RemoveFromWindows, RemovedBefore

\* RejectRule deletes the rule or disables it.
LEMMA RejectAnswers ==
    ASSUME Shape, NEW o \in InUse(fw), DeleteRogue(o) \/ DisableRogue(o)
    PROVE  Answers(fw.rule[o].guid)
<1> DEFINE g  == fw.rule[o].guid
           f1 == [fw EXCEPT !.m_RulesToRemove = @ \ {o}]
<1>1. Sound(fw) /\ Pinned \subseteq InUse(fw)
  BY PinnedInUse DEF Shape
<1>2. g \in Guids /\ fw.rule[o] \in Rule /\ fw.rule[o].c \in Content
  BY <1>1, InUseIsRule
<1>3. Touches(fw, f1)
  BY <1>1, RemoveLessTouches
<1>4. Spares(fw, f1) /\ f1.rule = fw.rule /\ Sound(f1)
  BY <1>1, <1>3, TouchesSpares DEF Touches, Sound, Rules
<1>5. Moves(fw, f1, {})
  BY <1>1, <1>4, SparesMoves
<1>6. Moves(fw, f1, {g})
  BY <1>5 DEF Moves
<1>7. Once /\ g \notin doubtful => Alone(f1, g)
  <2>1. LiveAt(f1, g) = LiveAt(fw, g)
    BY <1>2, <1>4 DEF Spares
  <2> QED BY <2>1 DEF Once, LiveAt, Alone
<1>8. CASE DeleteRogue(o)
  <2>1. \/ RemoveFromWindows(g) /\ fw' = RemoveLive(f1, g) /\ UNCHANGED doubtful
        \/ fw' = f1 /\ doubtful' = doubtful \cup {g} /\ UNCHANGED winVars
    BY <1>8 DEF DeleteRogue
  <2>2. CASE RemoveFromWindows(g) /\ fw' = RemoveLive(f1, g) /\ UNCHANGED doubtful
    <3> HIDE DEF f1
    <3>1. Puts(f1, RemoveLive(f1, g), g, Gone)
      BY <1>2, <1>4, RemoveLivePuts
    <3>2. Puts(fw, fw', g, Gone)
      BY <1>2, <1>4, <2>2, <3>1, SparesThenPuts
    <3>3. Moves(fw, fw', {g}) /\ Single(fw', g, Gone)
      BY <1>1, <1>2, <3>2, PutsMoves
    <3>4. Shows(fw', g, Gone)
      BY <3>3 DEF Single, Alone
    <3>5. LiveAt(fw', g) = {}
      BY <3>4 DEF Shows
    <3>6. Logs(g) \/ RemovedBefore(g)
      BY <1>2, <2>2, RemoveLogs
    <3> QED BY <2>2, <3>3, <3>5, <3>6 DEF Answers, Single
  <2>3. CASE fw' = f1 /\ doubtful' = doubtful \cup {g} /\ UNCHANGED winVars
    BY <1>5, <1>6, <1>7, <2>3 DEF Answers
  <2> QED BY <2>1, <2>2, <2>3
<1>9. CASE DisableRogue(o)
  <2> DEFINE c  == [fw.rule[o].c EXCEPT !.on = FALSE]
             f2 == [f1 EXCEPT !.rule[o].c = c, !.rule[o].state = "disabled"]
             r  == [fw.rule[o] EXCEPT !.c = c, !.state = "disabled"]
  <2>1. \/ fw' = f1 /\ UNCHANGED <<winVars, doubtful>>
        \/ Write(g, c) /\ fw' = f2 /\ UNCHANGED doubtful
        \/ NotSet(g, c) /\ fw' = f2
    BY <1>9 DEF DisableRogue
  <2>2. CASE fw' = f1 /\ UNCHANGED <<winVars, doubtful>>
    BY <1>5, <1>6, <1>7, <2>2 DEF Answers
  <2>3. c \in Content /\ c \in Contents /\ c.k = fw.rule[o].c.k
    BY <1>2 DEF Content, Contents
  <2> HIDE DEF c
  <2>4. /\ r \in Rule /\ r.guid = g /\ r.c = c /\ r.state = "disabled"
        /\ (r.backup <=> fw.rule[o].backup)
    BY <1>2, <2>3 DEF Rule, States
  <2>5. f2 = [f1 EXCEPT !.rule[o] = r]
    <3>1. f1 \in Rules /\ o \in Ids /\ f1.rule[o] = fw.rule[o]
      BY <1>4 DEF Sound, InUse
    <3> HIDE DEF f1
    <3>2. AtOnce(f1, o, c, "disabled") = [f1 EXCEPT !.rule[o] = NewForm(f1.rule[o], c, "disabled")]
      BY <1>2, <3>1, EditIs
    <3>3. r = NewForm(f1.rule[o], c, "disabled")
      BY <3>1 DEF NewForm
    <3>4. f2 = AtOnce(f1, o, c, "disabled")
      BY DEF AtOnce
    <3> HIDE DEF r, f2
    <3> QED BY <3>2, <3>3, <3>4
  <2> HIDE DEF r, f2
  <2>6. o \in InUse(f1) /\ Pinned \subseteq InUse(f1) /\ f1.rule[o] = fw.rule[o]
    BY <1>1, <1>4 DEF InUse
  <2> HIDE DEF f1
  <2>7. Moves(f1, f2, {r.guid}) /\ \A a \in Guids : LiveAt(f2, a) = LiveAt(f1, a)
    <3>1. r.guid = f1.rule[o].guid /\ (r.backup <=> f1.rule[o].backup)
      BY <2>4, <2>6
    <3>2. r.c.k = f1.rule[o].c.k
      BY <2>3, <2>4, <2>6
    <3>3. r.state # "approved" /\ r \in Rule /\ Sound(f1)
      BY <1>4, <2>4
    <3> QED BY <2>5, <2>6, <3>1, <3>2, <3>3, EditMoves
  <2>8. Moves(fw, f2, {g})
    BY <1>5, <2>4, <2>7, MovesTwice
  <2>9. Once /\ g \notin doubtful => Alone(f2, g)
    BY <1>2, <1>7, <2>7 DEF Alone
  <2>10. CASE fw' = f2 /\ Write(g, c) /\ UNCHANGED doubtful
    BY <1>2, <2>3, <2>10, WritesLog, <2>8, <2>9 DEF Answers
  <2>11. CASE fw' = f2 /\ NotSet(g, c)
    BY <1>2, <2>3, <2>11, NotSetLogs, <2>8, <2>9 DEF Answers
  <2> QED BY <2>1, <2>2, <2>10, <2>11
<1> QED BY <1>8, <1>9

\* UpdateFWRuleUnsafe and SetApproved, after a rule was written: in place, or anew.
LEMMA WrittenMoves ==
    ASSUME Shape, Pinned = {}, \E p \in Ids : fw.rule[p] = Free,
           NEW g \in Guids, NEW c \in Content, c.k \in Agreed
    PROVE  LET k == WithState(UpdateFWRule(fw, g, c), g, "approved")
           IN Moves(fw, k, {g}) /\ (Once /\ g \notin doubtful => Single(k, g, c))
<1> DEFINE h == UpdateFWRule(fw, g, c)
           k == WithState(h, g, "approved")
           o == GetRule(fw, g)
<1>1. Sound(fw) /\ Pinned \subseteq InUse(fw)
  BY PinnedInUse DEF Shape
<1>2. c \in Contents /\ c # Gone
  BY FirewallAssumption DEF Contents, Content, Gone
<1>3. Fine(c.k)
  BY DEF Fine
<1>4. CASE o # 0 /\ Prog[fw.rule[o].c.k] = Prog[c.k]
  <2> DEFINE r == [fw.rule[o] EXCEPT !.c = c, !.state = "approved"]
  <2>1. o \in LiveAt(fw, g)
    BY <1>4 DEF GetRule
  <2>2. o \in InUse(fw) /\ fw.rule[o].guid = g /\ o \in Ids
    BY <1>1, <2>1, LiveAtIs DEF Sound
  <2>3. h = [fw EXCEPT !.rule[o].c = c]
    BY <1>2, <1>4 DEF UpdateFWRule
  <2>4. fw.rule[o] \in Rule /\ fw.rule \in [Ids -> Object] /\ fw \in Rules
    BY <1>1, <2>2, InUseIsRule DEF Sound, Rules
  <2> HIDE DEF o
  <2>5. LiveAt(h, g) = LiveAt(fw, g)
    BY <2>2, <2>3, <2>4 DEF LiveAt, Live, Rules, Rule
  <2>6. GetRule(h, g) = o
    BY <2>5 DEF GetRule, o
  <2>7. k = [fw EXCEPT !.rule[o] = r]
    <3>1. InTurn(fw, o, c, "approved") = [fw EXCEPT !.rule[o] = NewForm(fw.rule[o], c, "approved")]
      BY <2>2, <2>4, EditIs
    <3>2. r = NewForm(fw.rule[o], c, "approved")
      BY DEF NewForm
    <3>3. k = InTurn(fw, o, c, "approved")
      BY <2>3, <2>6 DEF WithState, InTurn
    <3> HIDE DEF r, k, h
    <3> QED BY <3>1, <3>2, <3>3
  <2>8. /\ r \in Rule /\ r.guid = g /\ r.c = c
        /\ (r.backup <=> fw.rule[o].backup)
    BY <1>2, <2>2, <2>4 DEF Rule, States
  <2> HIDE DEF r, k, h
  <2>9. Moves(fw, k, {g}) /\ LiveAt(k, g) = LiveAt(fw, g) /\ k.rule[o] = r
    BY <1>1, <1>2, <1>3, <2>2, <2>7, <2>8, EditMoves
  <2>10. Once /\ g \notin doubtful => LiveAt(fw, g) = {o}
    BY <2>1 DEF Once, LiveAt
  <2>11. Once /\ g \notin doubtful => Single(k, g, c)
    BY <1>2, <2>8, <2>9, <2>10 DEF Single, Alone, Shows
  <2> QED BY <2>9, <2>11 DEF k, h
<1>5. CASE ~(o # 0 /\ Prog[fw.rule[o].c.k] = Prog[c.k])
  <2> DEFINE r == NewRule(g, c)
             p == GetRule(h, g)
  <2>1. h = AddRule(RemoveLive(fw, g), r)
    BY <1>2, <1>5 DEF UpdateFWRule
  <2>2. r \in Rule /\ r.guid = g /\ r.c = c /\ ~r.backup /\ r.state = "unapproved"
    BY <1>2, NewRuleType DEF States, NewRule
  <2> HIDE DEF r, o
  <2>3. Puts(fw, AddRule(RemoveLive(fw, r.guid), r), r.guid, r.c)
    BY <1>1, <2>2, AddAfterRemove
  <2>4. Puts(fw, h, g, c)
    BY <2>1, <2>2, <2>3
  <2>5. k = [h EXCEPT !.rule[p].state = "approved"]
    BY DEF WithState
  <2> HIDE DEF h
  <2>6. Sound(h) /\ Shows(h, g, c)
    BY <2>4 DEF Puts, Single
  <2>7. LiveAt(h, g) # {}
    BY <1>2, <2>6 DEF Shows
  <2>8. p \in LiveAt(h, g)
    BY <2>7 DEF GetRule
  <2>9. p \in InUse(h) /\ h.rule[p].c = c
    BY <2>6, <2>8 DEF LiveAt, Live, Sound, Shows
  <2> HIDE DEF p, k
  <2>10. Touches(h, k)
    BY <1>3, <2>5, <2>9, <2>6, SetStateEffect DEF States
  <2>11. Spares(h, k)
    BY <2>6, <2>10, TouchesSpares
  <2>12. Puts(fw, k, g, c)
    BY <1>2, <2>4, <2>11, PutsThenSpares
  <2>13. Moves(fw, k, {g}) /\ Single(k, g, c)
    BY <1>1, <1>2, <2>12, PutsMoves
  <2> QED BY <2>13 DEF k, h
<1> QED BY <1>4, <1>5

\* UpdateRuleAndTest for a request of the user.
LEMMA WriteAnswers ==
    ASSUME Shape, WriteRule, user.c.k \in Agreed
    PROVE  Answers(user.g)
<1> DEFINE g == user.g
           c == user.c
           h == UpdateFWRule(fw, g, c)
           k == WithState(h, g, "approved")
<1>1. Sound(fw) /\ Pinned \subseteq InUse(fw)
  BY PinnedInUse DEF Shape
<1>2. g \in Guids /\ c \in Content /\ c \in Contents /\ c # Gone
  BY FirewallAssumption DEF Shape, WriteRule, Request, Idle, Contents, Content, Gone
<1>4. Pinned = {}
  BY DEF WriteRule, LockIsFree, Pinned, Holding
<1>5. \E p \in Ids : fw.rule[p] = Free
  BY DEF WriteRule, HasRoom
<1>6. \/ Write(g, c) /\ fw' = Collected(k) /\ UNCHANGED doubtful
      \/ NotSet(g, c) /\ UNCHANGED fw
  BY DEF WriteRule
<1> HIDE DEF g, c
<1>7. Moves(fw, k, {g}) /\ (Once /\ g \notin doubtful => Alone(k, g))
  BY <1>2, <1>4, <1>5, WrittenMoves DEF c, Single
<1> HIDE DEF h, k
<1>8. CASE Write(g, c) /\ fw' = Collected(k) /\ UNCHANGED doubtful
  BY <1>2, <1>7, <1>8, MovesThenCollected, WritesLog DEF Unmoved, Answers, Alone, g
<1>9. CASE NotSet(g, c) /\ UNCHANGED fw
  BY <1>2, <1>9, NotSetLogs, <1>1, SameMoves DEF Once, LiveAt, Answers, Alone, g
<1> QED BY <1>6, <1>8, <1>9

\* A request that finds the rule as it should be changes the verdict.
LEMMA ApproveMoves ==
    ASSUME Shape, Verdicts, Approve, ~fw.rule[user.o].backup
    PROVE  Moves(fw, fw', {})
<1>1. Sound(fw) /\ Pinned \subseteq InUse(fw)
  BY PinnedInUse DEF Shape
<1>2. /\ fw' = [fw EXCEPT !.rule[user.o].state = "approved"]
      /\ user.o \in InUse(fw) /\ Fine(fw.rule[user.o].c.k) /\ "approved" \in States
  BY InHand DEF Approve, Verdicts, Fine, States
<1>3. Touches(fw, fw')
  BY <1>1, <1>2, SetStateEffect
<1> QED BY <1>1, <1>3, TouchesSpares, SparesMoves

\* Backups of one guid leave the map, all or some.
LEMMA DropMoves ==
    ASSUME Shape, DropBackups
    PROVE  Moves(fw, fw', {})
<1>1. Sound(fw) /\ Pinned \subseteq InUse(fw)
  BY PinnedInUse DEF Shape
<1>2. PICK S \in SUBSET Backups(fw) : fw' = Collected([fw EXCEPT !.m_FwRules = @ \ S])
  BY DEF DropBackups
<1> DEFINE k == [fw EXCEPT !.m_FwRules = @ \ S]
<1>3. Spares(fw, k)
  BY <1>1, BackupsLess
<1> QED BY <1>1, <1>2, <1>3, SparesMoves

\* DelRule takes the object from the map.
LEMMA DelAnswers ==
    ASSUME Shape, NEW o, DelRule(o)
    PROVE  /\ o \in InUse(fw)
           /\ doubtful' = doubtful
           /\ Answers(fw.rule[o].guid)
<1> DEFINE g == fw.rule[o].guid
           k == [fw EXCEPT !.m_FwRules = @ \ {o}]
<1>1. Sound(fw) /\ Pinned \subseteq InUse(fw)
  BY PinnedInUse DEF Shape
<1>2. /\ o \in fw.m_FwRules /\ fw' = Collected(k) /\ UNCHANGED doubtful
      /\ fw.rule[o].backup => UNCHANGED winVars
      /\ ~fw.rule[o].backup => RemoveFromWindows(g)
  BY DEF DelRule
<1>3. o \in InUse(fw)
  BY <1>1, <1>2 DEF Sound
<1>4. g \in Guids
  BY <1>1, <1>3, InUseIsRule
<1>5. /\ Sound(k) /\ Keeps(fw, k) /\ (AllFine(fw) => AllFine(k))
      /\ \A a \in Guids : LiveAt(k, a) = LiveAt(fw, a) \ {o}
  BY <1>1, MapLess
<1> HIDE DEF k
<1>6. CASE fw.rule[o].backup
  <2>1. \A a \in Guids : o \notin LiveAt(fw, a)
    BY <1>1, <1>6, LiveAtIs
  <2>2. Spares(fw, k)
    BY <1>5, <2>1 DEF Spares
  <2>3. Moves(fw, fw', {})
    BY <1>1, <1>2, <2>2, SparesMoves
  <2>4. Moves(fw, fw', {g}) /\ Unmoved(fw, fw', g)
    BY <1>4, <2>3 DEF Moves
  <2>5. Once /\ g \notin doubtful => Alone(fw', g)
    BY <2>4 DEF Unmoved, Once, LiveAt, Alone
  <2> QED BY <1>2, <1>3, <1>6, <2>3, <2>4, <2>5 DEF Answers
<1>7. CASE ~fw.rule[o].backup
  <2>1. \A a \in Guids \ {g} : o \notin LiveAt(fw, a)
    BY <1>1, <1>3, LiveOnlyThere
  <2>2. \A a \in Guids \ {g} : LiveAt(k, a) = LiveAt(fw, a)
    BY <1>5, <2>1
  <2>3. \A a \in Guids : \A p \in LiveAt(fw, a) : k.rule[p].c = fw.rule[p].c
    BY <1>1, <1>5 DEF LiveAt, Live, Keeps, Sound
  <2>4. \A a \in Guids \ {g} : Unmoved(fw, k, a)
    BY <2>2, <2>3 DEF Unmoved
  <2>5. Retains(fw, k)
    BY <1>1, <1>5 DEF Retains, Keeps
  <2>6. Moves(fw, k, {g})
    BY <1>5, <2>4, <2>5 DEF Moves
  <2>7. Moves(fw, fw', {g}) /\ Unmoved(k, fw', g)
    BY <1>2, <1>4, <2>6, MovesThenCollected
  <2>8. o \in LiveAt(fw, g)
    BY <1>1, <1>2, <1>3, <1>7, LiveAtIs DEF InUse
  <2>9. Once /\ g \notin doubtful => \A p \in LiveAt(fw, g) : p = o
    BY <2>8 DEF Once, LiveAt
  <2>10. Once /\ g \notin doubtful => LiveAt(fw', g) = {}
    BY <1>4, <1>5, <2>7, <2>9 DEF Unmoved
  <2>11. Logs(g) \/ RemovedBefore(g)
    BY <1>2, <1>4, <1>7, RemoveLogs
  <2> QED BY <1>2, <1>3, <2>7, <2>10, <2>11 DEF Answers, Alone
<1> QED BY <1>6, <1>7

\* Lists get shorter, and what is to be undone is chosen anew.
LEMMA ListsTouch ==
    ASSUME NEW f, Sound(f), NEW w \in Seq(Withdrawn), NEW s \in Seq(Held), NEW t \in Seq(Ids),
           Listed(w) \subseteq Listed(f.m_WithdrawnRules), Listed(s) \subseteq Listed(f.m_HeldRules),
           Listed(t) \subseteq Listed(f.m_SettledRemovals),
           NEW S, S \subseteq InUse(f), NEW T, T \subseteq InUse(f)
    PROVE  Touches(f, [f EXCEPT !.m_RulesToRemove = S, !.m_RulesToRevert = T, !.m_WithdrawnRules = w,
                                !.m_HeldRules = s, !.m_SettledRemovals = t])
<1> DEFINE h == [f EXCEPT !.m_RulesToRemove = S, !.m_RulesToRevert = T]
           k == [h EXCEPT !.m_WithdrawnRules = w, !.m_HeldRules = s, !.m_SettledRemovals = t]
<1>1. Sound(h)
  BY SoundUndo
<1>2. h.rule = f.rule /\ h.m_FwRules = f.m_FwRules
  BY DEF Sound, Rules
<1>3. k = [f EXCEPT !.m_RulesToRemove = S, !.m_RulesToRevert = T, !.m_WithdrawnRules = w,
                    !.m_HeldRules = s, !.m_SettledRemovals = t]
  BY DEF Sound, Rules
<1> HIDE DEF h
<1>4. InUse(h) = InUse(f)
  BY <1>2 DEF InUse
<1>5. Sound(k)
  <2>1. \A e \in Listed(w) : e.pBackup \in InUse(h) /\ Aside(h, e.pBackup)
    BY <1>2, <1>4 DEF Sound, Aside
  <2>2. \A e \in Listed(s) : e.pRule \in InUse(h)
    BY <1>4 DEF Sound
  <2>3. Listed(t) \subseteq InUse(h)
    BY <1>4 DEF Sound
  <2> QED BY <1>1, <2>1, <2>2, <2>3, SoundLists
<1>6. k.rule = f.rule /\ k.m_FwRules = f.m_FwRules
  BY <1>1, <1>2 DEF Sound, Rules
<1> HIDE DEF k
<1>7. Touches(f, k)
  BY <1>5, <1>6, TouchesLists
<1> QED BY <1>3, <1>7

\* What has waited long enough, and what has not.
LEMMA SplitLists ==
    ASSUME NEW S, NEW s \in Seq(S), NEW n \in 0..Len(s)
    PROVE  /\ SubSeq(s, n + 1, Len(s)) \in Seq(S)
           /\ Halves(s, n, SubSeq(s, 1, n), SubSeq(s, n + 1, Len(s)))
<1> DEFINE a == SubSeq(s, 1, n)
           b == SubSeq(s, n + 1, Len(s))
           m == Len(s)
<1>1. m \in Nat /\ n \in Nat /\ n <= m /\ DOMAIN s = 1..m
  OBVIOUS
<1>2. /\ a \in Seq(S) /\ DOMAIN a = 1..n
      /\ \A i \in 1..n : a[i] = s[i]
  BY <1>1
<1>3. /\ b \in Seq(S) /\ DOMAIN b = 1..(m - n)
      /\ \A i \in 1..(m - n) : b[i] = s[n + i]
  BY <1>1
<1> HIDE DEF a, b, m
<1>4. \A i \in DOMAIN a : i \in DOMAIN s /\ i \in Nat /\ i <= n /\ a[i] = s[i]
  BY <1>1, <1>2
<1>5. \A i \in DOMAIN b : n + i \in DOMAIN s /\ i >= 1 /\ i \in Nat /\ b[i] = s[n + i]
  BY <1>1, <1>3
<1>6. Listed(a) \cup Listed(b) \subseteq Listed(s)
  BY <1>4, <1>5 DEF Listed
<1>7. ASSUME NEW i \in DOMAIN s
      PROVE  s[i] \in Listed(a) \cup Listed(b)
  <2>1. CASE i <= n
    BY <1>1, <1>2, <2>1 DEF Listed
  <2>2. CASE i > n
    <3>1. i - n \in 1..(m - n) /\ n + (i - n) = i
      BY <1>1, <2>2
    <3>2. i - n \in DOMAIN b /\ b[i - n] = s[i]
      BY <1>3, <3>1
    <3> QED BY <3>2 DEF Listed
  <2> QED BY <1>1, <2>1, <2>2
<1>8. Listed(s) = Listed(a) \cup Listed(b)
  BY <1>6, <1>7 DEF Listed
<1> QED BY <1>1, <1>3, <1>4, <1>5, <1>8 DEF a, b, m, Halves

\* The round asks about the withdrawn rules that wait longest.
LEMMA AskIs ==
    ASSUME Shape, AskAboutWithdrawnRules
    PROVE  \E k, n, a : Asks(k, n, a)
<1>1. Sound(fw) /\ fw.m_WithdrawnRules \in Seq(Withdrawn)
  BY SoundParts DEF Shape
<1>2. PICK n \in 0..Len(fw.m_WithdrawnRules) :
        LET late == Listed(SubSeq(fw.m_WithdrawnRules, 1, n))
        IN fw' = Collected([fw EXCEPT
                   !.m_WithdrawnRules = SubSeq(@, n + 1, Len(@)),
                   !.m_RulesToRevert = @ \cup {e.pBackup : e \in {x \in late : x.bRevert}}])
  BY DEF AskAboutWithdrawnRules
<1> DEFINE s == fw.m_WithdrawnRules
           a == SubSeq(s, 1, n)
           w == SubSeq(s, n + 1, Len(s))
           T == fw.m_RulesToRevert \cup {e.pBackup : e \in {x \in Listed(a) : x.bRevert}}
           k == [fw EXCEPT !.m_WithdrawnRules = w, !.m_RulesToRevert = T]
<1>3. w \in Seq(Withdrawn) /\ Halves(s, n, a, w)
  BY <1>1, SplitLists
<1>4. fw' = Collected(k)
  BY <1>2
<1> HIDE DEF w, a, s
<1>5. T \subseteq InUse(fw) /\ Listed(w) \subseteq Listed(s)
  BY <1>1, <1>3 DEF Sound, Halves, s
<1> HIDE DEF T
<1>6. /\ k.rule = fw.rule /\ k.m_FwRules = fw.m_FwRules /\ k.m_HeldRules = fw.m_HeldRules
      /\ k.m_RulesToRemove = fw.m_RulesToRemove /\ k.m_RulesToRevert = T /\ k.m_WithdrawnRules = w
  BY <1>1 DEF Sound, Rules
<1>7. Touches(fw, k)
  <2>1. k = [fw EXCEPT !.m_RulesToRemove = fw.m_RulesToRemove, !.m_RulesToRevert = T,
                       !.m_WithdrawnRules = w, !.m_HeldRules = fw.m_HeldRules,
                       !.m_SettledRemovals = fw.m_SettledRemovals]
    BY <1>1 DEF Sound, Rules
  <2> HIDE DEF k
  <2>2. fw.m_HeldRules \in Seq(Held) /\ fw.m_SettledRemovals \in Seq(Ids) /\ fw.m_RulesToRemove \subseteq InUse(fw)
    BY <1>1, SoundParts DEF Sound
  <2> QED BY <1>1, <1>3, <1>5, <2>1, <2>2, ListsTouch DEF s
<1> HIDE DEF k
<1>8. Asks(k, n, a)
  BY <1>3, <1>4, <1>6, <1>7 DEF Asks, s, T
<1> QED BY <1>8

\* The round releases the rules it holds longest.
LEMMA ReleaseIs ==
    ASSUME Shape, ReleaseHeldRules
    PROVE  \E k, n, a : Releases(k, n, a)
<1>1. Sound(fw) /\ fw.m_HeldRules \in Seq(Held)
  BY SoundParts DEF Shape
<1>2. PICK n \in 0..Len(fw.m_HeldRules) :
        LET late == Listed(SubSeq(fw.m_HeldRules, 1, n))
        IN fw' = Collected([fw EXCEPT
                   !.m_HeldRules = SubSeq(@, n + 1, Len(@)),
                   !.m_RulesToRemove = @ \cup {e.pRule : e \in {x \in late : x.bReject}}])
  BY DEF ReleaseHeldRules
<1> DEFINE s == fw.m_HeldRules
           a == SubSeq(s, 1, n)
           w == SubSeq(s, n + 1, Len(s))
           T == fw.m_RulesToRemove \cup {e.pRule : e \in {x \in Listed(a) : x.bReject}}
           k == [fw EXCEPT !.m_HeldRules = w, !.m_RulesToRemove = T]
<1>3. w \in Seq(Held) /\ Halves(s, n, a, w)
  BY <1>1, SplitLists
<1>4. fw' = Collected(k)
  BY <1>2
<1> HIDE DEF w, a, s
<1>5. T \subseteq InUse(fw) /\ Listed(w) \subseteq Listed(s)
  BY <1>1, <1>3 DEF Sound, Halves, s
<1> HIDE DEF T
<1>6. /\ k.rule = fw.rule /\ k.m_FwRules = fw.m_FwRules /\ k.m_HeldRules = w
      /\ k.m_RulesToRemove = T /\ k.m_RulesToRevert = fw.m_RulesToRevert
      /\ k.m_WithdrawnRules = fw.m_WithdrawnRules
  BY <1>1 DEF Sound, Rules
<1>7. Touches(fw, k)
  <2>1. k = [fw EXCEPT !.m_RulesToRemove = T, !.m_RulesToRevert = fw.m_RulesToRevert,
                       !.m_WithdrawnRules = fw.m_WithdrawnRules, !.m_HeldRules = w,
                       !.m_SettledRemovals = fw.m_SettledRemovals]
    BY <1>1 DEF Sound, Rules
  <2> HIDE DEF k
  <2>2. /\ fw.m_WithdrawnRules \in Seq(Withdrawn) /\ fw.m_SettledRemovals \in Seq(Ids)
        /\ fw.m_RulesToRevert \subseteq InUse(fw)
    BY <1>1, SoundParts DEF Sound
  <2> QED BY <1>1, <1>3, <1>5, <2>1, <2>2, ListsTouch DEF s
<1> HIDE DEF k
<1>8. Releases(k, n, a)
  BY <1>3, <1>4, <1>6, <1>7 DEF Releases, s, T
<1> QED BY <1>8

\* The round forgets the removal that was settled longest ago.
LEMMA ForgetIs ==
    ASSUME Shape, ForgetSettled
    PROVE  \E k : Forgets(k)
<1> DEFINE w == Tail(fw.m_SettledRemovals)
           k == [fw EXCEPT !.m_SettledRemovals = w]
<1>1. Sound(fw) /\ fw.m_SettledRemovals \in Seq(Ids)
  BY SoundParts DEF Shape
<1>2. fw' = Collected(k) /\ w \in Seq(Ids) /\ Listed(w) \subseteq Listed(fw.m_SettledRemovals)
  BY <1>1, TailLists DEF ForgetSettled
<1> HIDE DEF w
<1>3. /\ k.rule = fw.rule /\ k.m_FwRules = fw.m_FwRules /\ k.m_HeldRules = fw.m_HeldRules
      /\ k.m_RulesToRemove = fw.m_RulesToRemove /\ k.m_RulesToRevert = fw.m_RulesToRevert
      /\ k.m_WithdrawnRules = fw.m_WithdrawnRules
  BY <1>1 DEF Sound, Rules
<1>4. Touches(fw, k)
  <2>1. k = [fw EXCEPT !.m_RulesToRemove = fw.m_RulesToRemove, !.m_RulesToRevert = fw.m_RulesToRevert,
                       !.m_WithdrawnRules = fw.m_WithdrawnRules, !.m_HeldRules = fw.m_HeldRules,
                       !.m_SettledRemovals = w]
    BY <1>1 DEF Sound, Rules
  <2> HIDE DEF k
  <2>2. /\ fw.m_WithdrawnRules \in Seq(Withdrawn) /\ fw.m_HeldRules \in Seq(Held)
        /\ fw.m_RulesToRevert \subseteq InUse(fw) /\ fw.m_RulesToRemove \subseteq InUse(fw)
    BY <1>1, SoundParts DEF Sound
  <2> QED BY <1>1, <1>2, <2>1, <2>2, ListsTouch
<1> HIDE DEF k
<1>5. Forgets(k)
  BY <1>2, <1>3, <1>4 DEF Forgets
<1> QED BY <1>5

\* The timer's round moves entries from the lists to what is to be undone.
LEMMA RoundMoves ==
    ASSUME Shape, AskAboutWithdrawnRules \/ ReleaseHeldRules \/ ForgetSettled \/ FinishRevert
    PROVE  Moves(fw, fw', {})
<1>1. Sound(fw) /\ Pinned \subseteq InUse(fw)
  BY PinnedInUse DEF Shape
<1>2. \E k : Touches(fw, k) /\ fw' = Collected(k)
  <2>1. CASE AskAboutWithdrawnRules
    BY <2>1, AskIs DEF Asks
  <2>2. CASE ReleaseHeldRules
    BY <2>2, ReleaseIs DEF Releases
  <2>3. CASE ForgetSettled
    BY <2>3, ForgetIs DEF Forgets
  <2>4. CASE FinishRevert
    BY <1>1, <2>4, TouchesLists DEF FinishRevert
  <2> QED BY <2>1, <2>2, <2>3, <2>4
<1>3. PICK k : Touches(fw, k) /\ fw' = Collected(k)
  BY <1>2
<1> QED BY <1>1, <1>3, TouchesMoves

-----------------------------------------------------------------------------
(* The stored rules *)

\* SetToSeq numbers the elements of a finite set.
LEMMA SetToSeqNumbers ==
    ASSUME NEW S, IsFiniteSet(S)
    PROVE  /\ Cardinality(S) \in Nat
           /\ SetToSeq(S) \in Seq(S) /\ Len(SetToSeq(S)) = Cardinality(S)
           /\ \A i, j \in 1..Cardinality(S) : SetToSeq(S)[i] = SetToSeq(S)[j] => i = j
           /\ \A x \in S : \E i \in 1..Cardinality(S) : SetToSeq(S)[i] = x
<1> DEFINE n == Cardinality(S)
           s == SetToSeq(S)
<1>1. n \in Nat /\ ExistsBijection(1..n, S)
  BY FS_CardinalityType
<1>2. PICK f : f \in Bijection(1..n, S)
  BY <1>1 DEF ExistsBijection
<1>3. f \in [1..n -> S] /\ IsInjective(f)
  BY <1>2 DEF Bijection, Injection
<1>4. s \in [1..n -> S] /\ IsInjective(s)
  BY <1>3 DEF SetToSeq
<1> HIDE DEF s
<1>5. s \in Injection(1..n, S)
  BY <1>4 DEF Injection
<1>6. Cardinality(1..n) = n
  BY <1>1, FS_Interval
<1>7. s \in Surjection(1..n, S)
  BY <1>5, <1>6, FS_Injection
<1> HIDE DEF n
<1>8. \A i, j \in 1..n : s[i] = s[j] => i = j
  BY <1>4 DEF IsInjective
<1>9. \A x \in S : \E i \in 1..n : s[i] = x
  BY <1>7 DEF Surjection
<1>10. s \in Seq(S) /\ Len(s) = n
  BY <1>1, <1>4, SMT
<1> QED BY <1>1, <1>8, <1>9, <1>10 DEF n, s

\* LoadRules makes an object of every stored rule, and nothing waits.
LEMMA LoadedIs ==
    ASSUME NEW S, S \subseteq Saved, IsFiniteSet(S), Cardinality(S) <= MaxRules
    PROVE  /\ Sound(Loaded(S)) /\ Loaded(S).m_FwRules \subseteq Ids
           /\ \A o \in Loaded(S).m_FwRules : \E r \in S : Loaded(S).rule[o] = ObjectOf(r)
           /\ \A o \in Ids \ Loaded(S).m_FwRules : Loaded(S).rule[o] = Free
           /\ \A r \in S : \E o \in Loaded(S).m_FwRules : Loaded(S).rule[o] = ObjectOf(r)
           /\ \A o, p \in Loaded(S).m_FwRules : Loaded(S).rule[o] = Loaded(S).rule[p] => o = p
<1> DEFINE n == Cardinality(S)
           s == SetToSeq(S)
           q == [o \in Ids |-> IF o <= n THEN ObjectOf(s[o]) ELSE Free]
           f == [rule |-> q, m_FwRules |-> 1..n, m_RulesToRemove |-> {},
                 m_RulesToRevert |-> {}, m_WithdrawnRules |-> <<>>, m_HeldRules |-> <<>>,
                 m_SettledRemovals |-> <<>>]
<1>1. /\ n \in Nat /\ s \in Seq(S) /\ Len(s) = n
      /\ \A i, j \in 1..n : s[i] = s[j] => i = j
      /\ \A x \in S : \E i \in 1..n : s[i] = x
  BY SetToSeqNumbers
<1>2. Loaded(S) = f
  <2>1. Loaded(S) = [NoRules EXCEPT !.rule = [o \in Ids |-> IF o <= Len(s) THEN ObjectOf(s[o]) ELSE Free],
                                    !.m_FwRules = 1..Len(s)]
    BY DEF Loaded, ObjectOf
  <2> HIDE DEF s
  <2>2. Loaded(S) = [NoRules EXCEPT !.rule = q, !.m_FwRules = 1..n]
    BY <1>1, <2>1
  <2> HIDE DEF q, n
  <2> QED BY <2>2 DEF NoRules
<1> HIDE DEF s, n
<1>3. 1..n \subseteq Ids /\ \A o \in Ids : o <= n <=> o \in 1..n
  BY <1>1, FirewallAssumption DEF Ids, n
<1>4. \A o \in 1..n : s[o] \in S
  BY <1>1
<1>5. \A r \in S : ObjectOf(r) \in Rule
  BY DEF ObjectOf, Saved, Rule
<1>6. \A r, t \in S : ObjectOf(r) = ObjectOf(t) => r = t
  BY DEF ObjectOf, Saved
<1>7. \A o \in 1..n : q[o] = ObjectOf(s[o]) /\ q[o] \in Rule
  BY <1>3, <1>4, <1>5
<1>8. \A o \in Ids \ (1..n) : q[o] = Free
  BY <1>3
<1>9. q \in [Ids -> Object]
  BY <1>3, <1>4, <1>5 DEF Object
<1>10. DOMAIN q = Ids
  OBVIOUS
<1> HIDE DEF q
<1>11. f \in Rules
  BY <1>3, <1>9 DEF Rules
<1>12. f.rule = q /\ f.m_FwRules = 1..n
  OBVIOUS
<1>13. Sound(f)
  BY <1>3, <1>7, <1>12, RuleInUse, <1>11 DEF InUse, Listed, Sound
<1> HIDE DEF f
<1>14. \A o \in f.m_FwRules : \E r \in S : f.rule[o] = ObjectOf(r)
  BY <1>4, <1>7, <1>12
<1>15. \A r \in S : \E o \in f.m_FwRules : f.rule[o] = ObjectOf(r)
  BY <1>1, <1>7, <1>12
<1>16. \A o, p \in f.m_FwRules : f.rule[o] = f.rule[p] => o = p
  BY <1>1, <1>4, <1>6, <1>7, <1>12
<1> QED BY <1>2, <1>3, <1>8, <1>12, <1>13, <1>14, <1>15, <1>16

\* SaveRules writes a rule for every object of the map.
LEMMA ImageIs ==
    ASSUME NEW f, Sound(f)
    PROVE  /\ Image(f) = {SavedOf(f.rule[o]) : o \in f.m_FwRules}
           /\ Image(f) \subseteq Saved /\ IsFiniteSet(Image(f)) /\ Cardinality(Image(f)) <= MaxRules
<1> DEFINE M == f.m_FwRules
           I == {SavedOf(f.rule[o]) : o \in M}
           s == [o \in M |-> SavedOf(f.rule[o])]
<1>1. Image(f) = I
  BY DEF Image, SavedOf
<1>2. M \subseteq Ids /\ M \subseteq InUse(f)
  BY DEF Sound, Rules
<1>3. MaxRules \in Nat /\ Ids = 1..MaxRules
  BY FirewallAssumption DEF Ids
<1>4. IsFiniteSet(Ids) /\ Cardinality(Ids) = MaxRules
  BY <1>3, FS_Interval
<1>5. IsFiniteSet(M) /\ Cardinality(M) <= MaxRules
  BY <1>2, <1>4, FS_Subset
<1>6. s \in Surjection(M, I)
  BY DEF Surjection
<1>7. IsFiniteSet(I) /\ Cardinality(I) <= Cardinality(M)
  BY <1>5, <1>6, FS_Surjection
<1>8. Cardinality(I) \in Nat /\ Cardinality(M) \in Nat
  BY <1>5, <1>7, FS_CardinalityType
<1>9. I \subseteq Saved
  BY <1>2, InUseIsRule DEF SavedOf, Rule, Saved
<1>10. Cardinality(I) <= MaxRules
  BY <1>3, <1>5, <1>7, <1>8
<1> QED BY <1>1, <1>7, <1>9, <1>10

-----------------------------------------------------------------------------
(* Shape and verdicts are kept *)

LEMMA FineSame ==
    ASSUME UNCHANGED <<cfg, mistaken>>, NEW k
    PROVE  Fine(k)' <=> Fine(k)

BY DEF Fine, Answered

\* What stands aside goes on doing so.
LEMMA SoundGrows ==
    ASSUME Sound(fw'), doubtful \subseteq doubtful'
    PROVE  Sound(fw)'

BY DEF Sound, Aside

\* A step that keeps what is in hand and brings no verdict of its own.
LEMMA SafeStep ==
    ASSUME Safe, Sound(fw'), Retains(fw, fw'), AllFine(fw) => AllFine(fw'),
           UNCHANGED <<cfg, file, mistaken>>,
           win' \in [Guids -> Contents], log' \in Seq(LogEvent), cache' \subseteq Guids,
           guard' \in Reader, upd' \in Updater,
           upd'.pc = "apply" => upd.pc = "apply" /\ upd'.old \subseteq upd.old,
           user' \in {user, Idle}, tick' \in {"ask", "release", "released", "revert"},
           m_UpdateAllRules' \in BOOLEAN, wanted' \subseteq Content,
           doubtful \subseteq doubtful', doubtful' \subseteq Guids, overlapped' \in BOOLEAN
    PROVE  Safe'
<1>1. Idle.pc \notin Holding /\ Idle.pc = "idle" /\ Idle \in Request
  BY DEF Idle, Request, Holding
<1>2. \A k : Fine(k)' <=> Fine(k)
  BY FineSame
<1>3. Shape /\ Verdicts
  BY DEF Safe
<1>4. user' \in Request
  BY <1>1, <1>3 DEF Shape
<1>5. upd'.pc = "apply" => upd'.old \subseteq InUse(fw')
  BY DEF Retains, Pinned
<1>6. user'.pc \in Holding =>
        /\ user' = user /\ user.o \in InUse(fw') \cup {0}
        /\ user.o # 0 => /\ fw'.rule[user.o].c.k = fw.rule[user.o].c.k
                         /\ fw.rule[user.o].backup => fw'.rule[user.o].backup
  BY <1>1 DEF Retains, Pinned
<1>a. 0 \notin InUse(fw)
  BY FirewallAssumption DEF Ids, InUse
<1>b. user.pc \in {"approve", "restore"} => user.o # 0
  BY <1>3, <1>a, InHand
<1>c. Sound(fw)'
  BY SoundGrows
<1>7. Shape'
  BY <1>3, <1>4, <1>5, <1>6, <1>c DEF Shape
<1>8. AllFine(fw)
  BY <1>3 DEF Verdicts, AllFine
<1>9. (\A o \in Ids : fw.rule[o].state = "approved" => Fine(fw.rule[o].c.k))'
  <2>1. AllFine(fw')
    BY <1>8
  <2> QED BY <2>1, <1>2 DEF AllFine
<1>10. \A r \in file' : r.state = "approved" => Fine(r.c.k)'
  BY <1>2, <1>3 DEF Verdicts
<1>11. user'.pc = "restore" => fw'.rule[user'.o].backup /\ fw'.rule[user'.o].c.k \in Agreed \cup mistaken'
  BY <1>3, <1>6, <1>b DEF Verdicts, Holding
<1>12. user'.pc \in {"found", "write"} => user'.c.k \in Agreed
  BY <1>1, <1>3 DEF Verdicts
<1>d. user'.pc = "approve" => fw'.rule[user'.o].c.k \in Agreed
  BY <1>3, <1>6, <1>b DEF Verdicts, Holding
<1>13. Verdicts'
  BY <1>9, <1>10, <1>11, <1>12, <1>d DEF Verdicts
<1> QED BY <1>7, <1>13 DEF Safe

\* The effects of a write on what is kept of Windows.
LEMMA AnswersTyped ==
    ASSUME Shape, NEW g \in Guids, Answers(g)
    PROVE  /\ win' \in [Guids -> Contents] /\ log' \in Seq(LogEvent) /\ cache' \subseteq Guids
           /\ doubtful' \subseteq Guids
<1>1. win \in [Guids -> Contents] /\ log \in Seq(LogEvent) /\ cache \subseteq Guids /\ doubtful \subseteq Guids
  BY DEF Shape
<1>2. doubtful' \subseteq Guids
  BY <1>1 DEF Answers
<1>3. CASE Logs(g)
  BY <1>3, <1>1, <1>2 DEF Logs, Event, LogEvent
<1>4. CASE UNCHANGED winVars \/ RemovedBefore(g)
  BY <1>1, <1>2, <1>4 DEF winVars, RemovedBefore
<1> QED BY <1>3, <1>4 DEF Answers

LEMMA SafeAnswers ==
    ASSUME Safe, NEW g \in Guids, Answers(g),
           UNCHANGED <<cfg, guard, upd, m_UpdateAllRules, tick, file, mistaken>>, user' \in {user, Idle},
           wanted' \subseteq Content, overlapped' \in BOOLEAN
    PROVE  Safe'
  BY AnswersTyped, SafeStep DEF Safe, Answers, Moves, Shape

LEMMA SafeForeignChange ==
    ASSUME Safe, NEW g \in Guids, NEW c \in Contents, ForeignChange(g, c)
    PROVE  Safe'
  BY AppendLists, PinnedInUse, SafeStep DEF Safe, Event, LogEvent, Shape, ForeignChange, Retains,
     history

LEMMA SafeTakeEvent ==
    ASSUME Safe, TakeEvent
    PROVE  Safe'
<1>1. Shape
  BY DEF Safe
<1>2. log \in Seq(LogEvent) /\ log # <<>> /\ win \in [Guids -> Contents] /\ cache \subseteq Guids
  BY <1>1 DEF TakeEvent, Shape
<1> DEFINE e == Head(log)
           last == \A i \in 2..Len(log) : log[i].g # e.g
<1>3. /\ e \in LogEvent /\ log' \in Seq(LogEvent)
  BY <1>2 DEF TakeEvent
<1>4. e.g \in Guids /\ e.own \in BOOLEAN /\ win[e.g] \in Contents /\ Gone \in Contents
  BY <1>2, <1>3 DEF LogEvent, Contents
<1>5. /\ \E c \in Contents : guard' = [pc |-> "apply", g |-> e.g, c |-> c, own |-> e.own /\ last]
      /\ cache' \subseteq cache \cup {e.g}
      /\ doubtful' \in {doubtful, doubtful \cup {e.g}}
  BY <1>4 DEF TakeEvent, last
<1>6. guard' \in Reader /\ cache' \subseteq Guids
  BY <1>4, <1>2, <1>5 DEF Reader
<1> HIDE DEF e, last
<1>7. doubtful' \subseteq Guids /\ doubtful \subseteq doubtful'
  BY <1>1, <1>4, <1>5 DEF Shape
<1>8. Retains(fw, fw') /\ Sound(fw') /\ fw' = fw
  BY <1>1, PinnedInUse DEF TakeEvent, Retains, Shape
<1> QED BY <1>1, <1>2, <1>3, <1>6, <1>7, <1>8, SafeStep DEF TakeEvent, Shape

\* The live rule a change read from Windows is applied to.
LEMMA GetRuleIs ==
    ASSUME Shape, Once, NEW g, g \notin doubtful
    PROVE  \/ GetRule(fw, g) = 0 /\ LiveAt(fw, g) = {}
           \/ LiveAt(fw, g) = {GetRule(fw, g)}
  BY DEF GetRule, Once, LiveAt

\* OnFwGuardEvent applies what it read to a live rule of the guid or to none.
LEMMA EventChange ==
    ASSUME Shape, OnFwGuardEvent
    PROVE  /\ guard.g \in Guids /\ guard.c \in Contents
           /\ Change(guard.g, guard.c, GetRule(fw, guard.g))
           /\ Moves(fw, fw', {guard.g} \cup doubtful) /\ overlapped' \in BOOLEAN
<1> DEFINE o == GetRule(fw, guard.g)
<1>1. guard.g \in Guids /\ guard.c \in Contents
  BY InHand DEF OnFwGuardEvent
<1>2. o = 0 \/ o \in LiveAt(fw, guard.g)
  BY DEF GetRule
<1>3. o = 0 \/ (o \in InUse(fw) /\ ~fw.rule[o].backup /\ fw.rule[o].guid = guard.g)
  BY <1>2 DEF LiveAt, Live, Shape, Sound
<1>4. Change(guard.g, guard.c, o)
  BY DEF OnFwGuardEvent
<1> HIDE DEF o
<1> QED BY <1>1, <1>3, <1>4, ChangeSafe DEF o

LEMMA SafeOnFwGuardEvent ==
    ASSUME Safe, OnFwGuardEvent
    PROVE  Safe'
<1>1. Shape /\ guard' \in Reader
  BY DEF Safe, OnFwGuardEvent, Reader
<1> QED BY <1>1, EventChange, SafeStep DEF OnFwGuardEvent, winVars, Shape, Moves

LEMMA SafeStartUpdateRules ==
    ASSUME Safe, StartUpdateRules
    PROVE  Safe'
  BY PinnedInUse, SafeStep DEF Safe, Shape, Contents, StartUpdateRules, Updater, Retains

\* UpdateRules takes the map at hand for the old rules.
LEMMA SafeLockForUpdate ==
    ASSUME Safe, LockForUpdate
    PROVE  Safe'
<1>1. Shape /\ Verdicts
  BY DEF Safe
<1>2. upd.list \in [Guids -> Contents]
  BY <1>1, InHand DEF LockForUpdate
<1>3. fw.m_FwRules \subseteq InUse(fw) /\ InUse(fw) \subseteq Ids
  BY <1>1 DEF Shape, Sound, InUse
<1>4. upd' \in Updater /\ upd'.pc = "apply" /\ upd'.old = fw.m_FwRules
  BY <1>2, <1>3 DEF LockForUpdate, Updater
<1>5. Shape'
  BY <1>1, <1>3, <1>4 DEF LockForUpdate, Shape, winVars, history, InUse, Sound, Aside
<1>6. Verdicts'
  BY <1>1 DEF LockForUpdate, Verdicts, Fine, Answered, history
<1> QED BY <1>5, <1>6 DEF Safe

LEMMA SafeUpdateListed ==
    ASSUME Safe, NEW g \in Guids, UpdateListed(g)
    PROVE  Safe'
<1>1. Shape
  BY DEF Safe
<1> DEFINE old == {o \in upd.old : fw.rule[o].guid = g /\ ~fw.rule[o].backup}
           o   == IF old = {} THEN 0 ELSE CHOOSE p \in old : TRUE
<1>2. /\ upd.pc = "apply" /\ Change(g, upd.list[g], o)
      /\ upd' = [upd EXCEPT !.todo = @ \ {g}, !.old = @ \ old]
  BY DEF UpdateListed
<1>3. /\ upd.list \in [Guids -> Contents] /\ upd.old \subseteq InUse(fw) /\ upd.todo \subseteq Guids
      /\ upd = [pc |-> "apply", list |-> upd.list, old |-> upd.old, todo |-> upd.todo]
  BY <1>1, <1>2, InHand
<1>4. o = 0 \/ o \in old
  OBVIOUS
<1>5. o = 0 \/ (o \in InUse(fw) /\ ~fw.rule[o].backup /\ fw.rule[o].guid = g)
  BY <1>3, <1>4
<1>6. upd.list[g] \in Contents
  BY <1>3
<1> HIDE DEF o, old
<1>7. Moves(fw, fw', {g} \cup doubtful) /\ overlapped' \in BOOLEAN
  BY <1>1, <1>2, <1>5, <1>6, ChangeSafe
<1>8. upd' = [pc |-> "apply", list |-> upd.list, old |-> upd.old \ old, todo |-> upd.todo \ {g}]
  BY <1>2, <1>3
<1>9. upd' \in Updater /\ upd'.old \subseteq upd.old
  BY <1>3, <1>8 DEF Updater, InUse
<1>10. doubtful' \subseteq Guids /\ doubtful \subseteq doubtful'
  BY <1>1 DEF UpdateListed, Shape
<1> QED BY <1>1, <1>2, <1>7, <1>9, <1>10, SafeStep DEF UpdateListed, winVars, Shape, Moves

LEMMA SafeUpdateMissing ==
    ASSUME Safe, NEW o, UpdateMissing(o)
    PROVE  Safe'
<1>1. Shape
  BY DEF Safe
<1>2. /\ upd.pc = "apply" /\ o \in upd.old /\ Change(fw.rule[o].guid, Gone, o)
      /\ upd' = [upd EXCEPT !.old = @ \ {o}]
  BY DEF UpdateMissing
<1>3. /\ upd.list \in [Guids -> Contents] /\ upd.old \subseteq InUse(fw) /\ upd.todo \subseteq Guids
      /\ upd = [pc |-> "apply", list |-> upd.list, old |-> upd.old, todo |-> upd.todo]
  BY <1>1, <1>2, InHand
<1>4. o \in InUse(fw) /\ fw.rule[o].guid \in Guids /\ Gone \in Contents
  BY <1>1, <1>2, <1>3, InUseIsRule DEF Shape, Contents
<1>7. Moves(fw, fw', {fw.rule[o].guid} \cup doubtful) /\ overlapped' \in BOOLEAN
  BY <1>1, <1>2, <1>4, ChangeSafe
<1>8. upd' = [pc |-> "apply", list |-> upd.list, old |-> upd.old \ {o}, todo |-> upd.todo]
  BY <1>2, <1>3
<1>9. upd' \in Updater /\ upd'.old \subseteq upd.old
  BY <1>3, <1>8 DEF Updater, InUse
<1>10. doubtful' \subseteq Guids /\ doubtful \subseteq doubtful'
  BY <1>1, <1>4 DEF UpdateMissing, Shape
<1> QED BY <1>1, <1>2, <1>7, <1>9, <1>10, SafeStep DEF UpdateMissing, winVars, Shape, Moves

LEMMA SafeFinishUpdateRules ==
    ASSUME Safe, FinishUpdateRules
    PROVE  Safe'
  BY PinnedInUse, TouchesLists, TouchesMoves, SafeStep DEF Safe, Shape, FinishUpdateRules, Updater,
     Idle, winVars, history, Moves

\* Steps that leave Windows, the readers and what is stored alone.
LEMMA SafeCalm ==
    ASSUME Safe, Moves(fw, fw', {}),
           UNCHANGED <<cfg, winVars, guard, upd, m_UpdateAllRules, file, doubtful, mistaken>>,
           user' \in {user, Idle}, tick' \in {"ask", "release", "released", "revert"},
           wanted' \subseteq Content, overlapped' \in BOOLEAN
    PROVE  Safe'
  BY SafeStep DEF Safe, Moves, Shape, winVars

LEMMA SafeRound ==
    ASSUME Safe, AskAboutWithdrawnRules \/ ReleaseHeldRules \/ ForgetSettled \/ FinishRevert
    PROVE  Safe'
<1>1. Shape /\ wanted \subseteq Content /\ overlapped \in BOOLEAN
  BY DEF Safe, Shape
<1>2. Moves(fw, fw', {})
  BY <1>1, RoundMoves
<1>3. /\ UNCHANGED <<cfg, winVars, guard, upd, m_UpdateAllRules, file, user, history>>
      /\ tick' \in {tick, "ask", "release", "released"}
  BY DEF AskAboutWithdrawnRules, ReleaseHeldRules, ForgetSettled, FinishRevert
<1>4. tick' \in {"ask", "release", "released", "revert"}
  BY <1>1, <1>3 DEF Shape
<1> QED BY <1>1, <1>2, <1>3, <1>4, SafeCalm DEF history

LEMMA SafeLockForRevert ==
    ASSUME Safe, LockForRevert
    PROVE  Safe'
  BY PinnedInUse, SameMoves, SafeCalm DEF Safe, Shape, LockForRevert, history

\* A request is taken up or goes on.
LEMMA SafeRequest ==
    ASSUME Safe, NEW r \in Request, r.pc \in Holding => r.o \in InUse(fw) \cup {0},
           r.pc = "restore" => fw.rule[r.o].backup /\ fw.rule[r.o].c.k \in Agreed \cup mistaken',
           r.pc = "approve" => fw.rule[r.o].c.k \in Agreed,
           r.pc \in {"found", "write"} => r.c.k \in Agreed,
           user' = r, mistaken \subseteq mistaken', mistaken' \subseteq Kinds, overlapped' \in BOOLEAN,
           UNCHANGED <<cfg, winVars, fw, guard, upd, m_UpdateAllRules, tick, file, wanted, doubtful>>
    PROVE  Safe'
<1>1. Shape /\ Verdicts
  BY DEF Safe
<1>2. Sound(fw)'
  BY <1>1, SoundGrows DEF Shape
<1>3. Shape'
  BY <1>1, <1>2 DEF Shape, winVars
<1>4. Verdicts'
  BY <1>1 DEF Verdicts, Fine, Answered
<1> QED BY <1>3, <1>4 DEF Safe

LEMMA SafeSetRule ==
    ASSUME Safe, NEW g \in Guids, NEW c \in Content, SetRule(g, c)
    PROVE  Safe'
<1>1. GetRule(fw, g) \in InUse(fw) \cup {0}
  BY DEF GetRule, LiveAt, Live, Safe, Shape, Sound
<1> QED BY <1>1, SafeRequest DEF Request, SetRule, Safe, Shape, history, InUse

\* What SetRule makes of what it found.
LEMMA CompareIs ==
    ASSUME Shape, Compare
    PROVE  \/ /\ user.o \in InUse(fw) /\ fw.rule[user.o].backup /\ overlapped'
              /\ user' = [pc |-> "restore", o |-> user.o]
              /\ mistaken' = mistaken \cup {fw.rule[user.o].c.k} /\ fw.rule[user.o].c.k \in Kinds
           \/ /\ user.o \in InUse(fw) /\ ~fw.rule[user.o].backup /\ fw.rule[user.o].c = user.c
              /\ user' = [pc |-> "approve", o |-> user.o, c |-> user.c]
              /\ UNCHANGED <<mistaken, overlapped>>
           \/ /\ user' = [pc |-> "write", g |-> user.g, c |-> user.c]
              /\ UNCHANGED <<mistaken, overlapped>>
<1>1. user.o \in InUse(fw) \cup {0} /\ user.c \in Content
  BY InHand DEF Compare
<1>2. \A o \in InUse(fw) : fw.rule[o].c.k \in Kinds
  BY InUseIsRule DEF Shape, Content
<1>3. ~Free.backup /\ Free.c = Gone /\ user.c # Gone
  BY <1>1, FirewallAssumption DEF Free, Gone, Content
<1> QED BY <1>1, <1>2, <1>3 DEF Compare

LEMMA SafeCompare ==
    ASSUME Safe, Compare
    PROVE  Safe'
<1>1. Shape /\ Verdicts
  BY DEF Safe
<1>2. /\ user.pc = "found" /\ user.g \in Guids /\ user.c \in Content /\ user.c.k \in Agreed
      /\ UNCHANGED <<cfg, winVars, fw, guard, upd, m_UpdateAllRules, tick, file, wanted, doubtful>>
  BY <1>1, InHand DEF Compare, Verdicts
<1>3. mistaken \subseteq Kinds /\ overlapped \in BOOLEAN
  BY <1>1 DEF Shape
<1>4. CASE user.o \in InUse(fw) /\ fw.rule[user.o].backup /\ overlapped'
            /\ user' = [pc |-> "restore", o |-> user.o]
            /\ mistaken' = mistaken \cup {fw.rule[user.o].c.k} /\ fw.rule[user.o].c.k \in Kinds
  <2> DEFINE r == [pc |-> "restore", o |-> user.o]
  <2>1. r \in Request /\ r.pc = "restore" /\ r.o = user.o
    BY <1>4 DEF Request, InUse
  <2>2. mistaken \subseteq mistaken' /\ mistaken' \subseteq Kinds /\ fw.rule[r.o].c.k \in Agreed \cup mistaken'
    BY <1>3, <1>4, <2>1
  <2>3. overlapped' \in BOOLEAN
    BY <1>3 DEF Compare
  <2> HIDE DEF r
  <2> QED BY <1>2, <1>4, <2>1, <2>2, <2>3, SafeRequest DEF r
<1>5. CASE user.o \in InUse(fw) /\ fw.rule[user.o].c = user.c
            /\ user' = [pc |-> "approve", o |-> user.o, c |-> user.c]
            /\ UNCHANGED <<mistaken, overlapped>>
  BY <1>2, <1>3, <1>5, SafeRequest DEF Request, InUse
<1>6. CASE user' = [pc |-> "write", g |-> user.g, c |-> user.c] /\ UNCHANGED <<mistaken, overlapped>>
  BY <1>2, <1>3, <1>6, SafeRequest DEF Request, Holding
<1> QED BY <1>1, <1>4, <1>5, <1>6, CompareIs

\* Update makes the object the request has in hand a rule, or leaves it one.
LEMMA ApproveIs ==
    ASSUME Shape, Approve
    PROVE  \E r \in Rule :
             /\ r.c = fw.rule[user.o].c /\ r.state = "approved" /\ ~r.backup
             /\ fw' = [fw EXCEPT !.rule = [fw.rule EXCEPT ![user.o] = r]]
             /\ \/ /\ ~fw.rule[user.o].backup /\ r.guid = fw.rule[user.o].guid
                   /\ UNCHANGED <<doubtful, overlapped>>
                \/ /\ fw.rule[user.o].backup /\ r.guid \in Unused
                   /\ doubtful' = doubtful \cup {r.guid} /\ overlapped'
<1> DEFINE o == user.o
           x == fw.rule[o]
<1>1. o \in InUse(fw) /\ o \in Ids
  BY InHand DEF Approve, InUse
<1>2. x \in Rule /\ fw \in Rules /\ fw.rule \in [Ids -> Object]
  BY <1>1, InUseIsRule, SoundParts, RuleInUse DEF Shape, InUse, Sound
<1> HIDE DEF x
<1>3. CASE ~x.backup
  <2> DEFINE r == [x EXCEPT !.state = "approved"]
  <2>1. r \in Rule /\ r.c = x.c /\ r.state = "approved" /\ ~r.backup /\ r.guid = x.guid
    BY <1>2, <1>3 DEF Rule, States
  <2>2. fw' = [fw EXCEPT !.rule = [fw.rule EXCEPT ![o] = r]] /\ UNCHANGED <<doubtful, overlapped>>
    BY <1>1, <1>2, <1>3 DEF Approve, Rules, x
  <2> QED BY <1>3, <2>1, <2>2 DEF x
<1>4. CASE x.backup
  <2>1. PICK g \in Unused :
          /\ fw' = [[fw EXCEPT !.rule[o].state = "approved"]
                      EXCEPT !.rule[o].guid = g, !.rule[o].backup = FALSE]
          /\ doubtful' = doubtful \cup {g} /\ overlapped'
    BY <1>4 DEF Approve, x
  <2> DEFINE r == [x EXCEPT !.state = "approved", !.guid = g, !.backup = FALSE]
  <2>2. g \in Guids
    BY FirewallAssumption DEF Unused
  <2>3. r \in Rule /\ r.c = x.c /\ r.state = "approved" /\ ~r.backup /\ r.guid = g
    BY <1>2, <2>2 DEF Rule, States
  <2>4. fw' = [fw EXCEPT !.rule = [fw.rule EXCEPT ![o] = r]]
    BY <1>1, <1>2, <2>1 DEF Rules, x
  <2> QED BY <1>4, <2>1, <2>3, <2>4 DEF x
<1> QED BY <1>3, <1>4

LEMMA SafeApprove ==
    ASSUME Safe, Approve
    PROVE  Safe'
<1>1. Shape /\ Verdicts /\ Sound(fw)
  BY DEF Safe, Shape
<1>2. /\ user.pc = "approve" /\ user.o \in InUse(fw) /\ user.c \in Content /\ user.o \in Ids
      /\ user = [pc |-> user.pc, o |-> user.o, c |-> user.c] /\ fw.rule[user.o].c.k \in Agreed
  BY <1>1, InHand DEF Approve, InUse, Verdicts
<1>3. user' = [pc |-> "clear", o |-> user.o, c |-> user.c]
  BY <1>2 DEF Approve
<1>4. PICK r \in Rule :
         /\ r.c = fw.rule[user.o].c
         /\ fw' = [fw EXCEPT !.rule = [fw.rule EXCEPT ![user.o] = r]]
         /\ \/ /\ ~fw.rule[user.o].backup /\ r.guid = fw.rule[user.o].guid
               /\ UNCHANGED <<doubtful, overlapped>>
            \/ /\ fw.rule[user.o].backup /\ r.guid \in Guids
               /\ doubtful' = doubtful \cup {r.guid} /\ overlapped'
  BY <1>1, ApproveIs, FirewallAssumption DEF Unused
<1>5. /\ fw'.rule = [fw.rule EXCEPT ![user.o] = r] /\ fw' \in Rules /\ r # Free
      /\ fw'.m_FwRules = fw.m_FwRules /\ fw'.m_RulesToRemove = fw.m_RulesToRemove
      /\ fw'.m_RulesToRevert = fw.m_RulesToRevert /\ fw'.m_WithdrawnRules = fw.m_WithdrawnRules
      /\ fw'.m_HeldRules = fw.m_HeldRules /\ fw'.m_SettledRemovals = fw.m_SettledRemovals
  BY <1>1, <1>4, RuleInUse DEF Sound, Rules
<1>6. /\ \A p \in Ids \ {user.o} : fw'.rule[p] = fw.rule[p]
      /\ fw'.rule[user.o] = r
  BY <1>1, <1>2, <1>5, SoundParts
<1>7. InUse(fw') = InUse(fw)
  BY <1>2, <1>5, <1>6 DEF InUse
<1>8. Sound(fw)'
  <2>1. \A p \in InUse(fw) : Aside(fw, p) => Aside(fw, p)'
    BY <1>4, <1>6 DEF Aside, InUse
  <2>2. \A e \in Listed(fw'.m_WithdrawnRules) : e.pBackup \in InUse(fw') /\ Aside(fw, e.pBackup)'
    BY <1>1, <1>5, <1>7, <2>1 DEF Sound
  <2> QED BY <1>1, <1>5, <1>7, <2>2 DEF Sound
<1>9. Shape'
  <2>1. user' \in Request /\ user'.o \in InUse(fw')
    BY <1>2, <1>3, <1>7 DEF Request
  <2>2. doubtful' \subseteq Guids /\ overlapped' \in BOOLEAN
    BY <1>1, <1>4 DEF Shape
  <2> QED BY <1>1, <1>7, <1>8, <2>1, <2>2 DEF Approve, Shape, winVars
<1>10. Verdicts'
  <2>1. \A p \in Ids : fw'.rule[p].state = "approved" => Fine(fw'.rule[p].c.k)
    BY <1>1, <1>2, <1>4, <1>6 DEF Verdicts, Fine
  <2>2. UNCHANGED <<cfg, mistaken, file>> /\ user'.pc = "clear"
    BY <1>3 DEF Approve
  <2> QED BY <1>1, <2>1, <2>2 DEF Verdicts, Fine, Answered
<1> QED BY <1>9, <1>10 DEF Safe

LEMMA SafeDropBackups ==
    ASSUME Safe, DropBackups
    PROVE  Safe'
<1>1. Shape /\ user.c \in Content
  BY InHand DEF Safe, DropBackups
<1>2. Moves(fw, fw', {})
  BY <1>1, DropMoves
<1>3. wanted' \subseteq Content /\ overlapped' \in BOOLEAN
  BY <1>1 DEF DropBackups, Shape
<1> QED BY <1>1, <1>2, <1>3, SafeCalm DEF DropBackups, Shape

LEMMA SafeSetBackup ==
    ASSUME Safe, NEW b, SetBackup(b)
    PROVE  Safe'
  BY SafeRequest DEF SetBackup, Backups, Safe, Shape, Sound, InUse, Request, history

LEMMA SafeRejectRule ==
    ASSUME Safe, NEW o, RejectRule(o)
    PROVE  Safe'
  BY InUseIsRule, RejectAnswers, SafeAnswers DEF Safe, Shape, RejectRule, Sound

\* RevertRule, once a rule could not be restored, and before.
LEMMA RevertAnswers ==
    ASSUME Safe, NEW b, RevertRule(b)
    PROVE  b \in InUse(fw) /\ \E g \in Guids : Answers(g)
<1>1. Shape /\ Verdicts /\ Sound(fw) /\ Pinned \subseteq InUse(fw)
  BY PinnedInUse DEF Safe, Shape
<1>2. b \in InUse(fw)
  BY <1>1 DEF RevertRule, Sound
<1>3. fw.rule[b].guid \in Guids /\ fw.rule[b].state \in States /\ b \in Ids
  BY <1>1, <1>2, InUseIsRule
<1>4. CASE fw.rule[b].err
  <2> DEFINE h == [fw EXCEPT !.m_RulesToRevert = @ \ {b}]
             g == fw.rule[b].guid
  <2>1. fw' = h /\ UNCHANGED <<winVars, doubtful>>
    BY <1>4 DEF RevertRule
  <2> HIDE DEF h
  <2>2. Spares(fw, h)
    BY <1>1, RevertLessSpares DEF h
  <2>3. Moves(fw, fw', {})
    BY <1>1, <2>1, <2>2, SparesMoves
  <2>4. Moves(fw, fw', {g}) /\ Unmoved(fw, fw', g)
    BY <1>3, <2>3 DEF Moves
  <2>5. Once /\ g \notin doubtful => Alone(fw', g)
    BY <2>4 DEF Unmoved, Once, LiveAt, Alone
  <2> QED BY <1>2, <1>3, <2>1, <2>3, <2>4, <2>5 DEF Answers
<1>5. CASE ~fw.rule[b].err
  BY <1>5, <1>3, <1>1, <1>2, RestoreAnswers DEF RevertRule, AllFine
<1> QED BY <1>4, <1>5

LEMMA SafeRevertRule ==
    ASSUME Safe, NEW b, RevertRule(b)
    PROVE  Safe'
  BY RevertAnswers, SafeAnswers DEF Safe, Shape, RevertRule

LEMMA SafeWriteRule ==
    ASSUME Safe, WriteRule
    PROVE  Safe' /\ user.g \in Guids /\ Answers(user.g)
  BY InHand, WriteAnswers, SafeAnswers DEF Safe, WriteRule, Verdicts, Shape

LEMMA SafeRestoreBackup ==
    ASSUME Safe, RestoreBackup
    PROVE  /\ Safe' /\ user.o \in InUse(fw) /\ fw.rule[user.o].guid \in Guids
           /\ Answers(fw.rule[user.o].guid)
<1>1. Shape /\ Verdicts
  BY DEF Safe
<1>2. user.o \in InUse(fw)
  BY <1>1, InHand DEF RestoreBackup
<1>3. fw.rule[user.o].guid \in Guids /\ fw.rule[user.o].c \in Content
  BY <1>1, <1>2, InUseIsRule DEF Shape
<1>4. Fine(fw.rule[user.o].c.k) /\ "approved" \in States
  BY <1>1 DEF Verdicts, RestoreBackup, Fine, States
<1>8. fw.rule[user.o].backup
  BY <1>1 DEF Verdicts, RestoreBackup
<1>5. Answers(fw.rule[user.o].guid)
  BY <1>8, <1>1, <1>2, <1>4, RestoreAnswers DEF RestoreBackup
<1>6. wanted' \subseteq Content
  BY <1>1, <1>3 DEF RestoreBackup, Shape
<1>7. overlapped' \in BOOLEAN
  BY DEF RestoreBackup
<1> QED BY <1>2, <1>3, <1>5, <1>6, <1>7, SafeAnswers DEF RestoreBackup

LEMMA SafeDelRule ==
    ASSUME Safe, NEW o, DelRule(o)
    PROVE  Safe' /\ fw.rule[o].guid \in Guids /\ Answers(fw.rule[o].guid)
  BY DelAnswers, InUseIsRule, SafeAnswers DEF Safe, Shape, DelRule

LEMMA SafeStore ==
    ASSUME Safe, Store
    PROVE  Safe'
<1>1. Shape /\ Verdicts /\ Sound(fw)
  BY DEF Safe, Shape
<1>2. /\ file' = {SavedOf(fw.rule[o]) : o \in fw.m_FwRules}
      /\ file' \subseteq Saved /\ IsFiniteSet(file') /\ Cardinality(file') <= MaxRules
  BY <1>1, ImageIs DEF Store
<1>3. Shape'
  BY <1>1, <1>2, SoundGrows DEF Store, Shape, winVars, history
<1>4. \A o \in fw.m_FwRules : SavedOf(fw.rule[o]).state = "approved" => Fine(SavedOf(fw.rule[o]).c.k)
  BY <1>1 DEF SavedOf, Verdicts, Sound, InUse
<1>5. \A r \in file' : r.state = "approved" => Fine(r.c.k)
  BY <1>2, <1>4
<1>6. Verdicts'
  BY <1>1, <1>5 DEF Store, Verdicts, Fine, Answered, history
<1> QED BY <1>3, <1>6 DEF Safe

\* The rules a start finds stored.
LEMMA LoadedFine ==
    ASSUME NEW S, S \subseteq Saved, IsFiniteSet(S), Cardinality(S) <= MaxRules,
           \A r \in S : r.state = "approved" => Fine(r.c.k)
    PROVE  Sound(Loaded(S)) /\ AllFine(Loaded(S))
<1>1. /\ Sound(Loaded(S))
      /\ \A o \in Loaded(S).m_FwRules : \E r \in S : Loaded(S).rule[o] = ObjectOf(r)
      /\ \A o \in Ids \ Loaded(S).m_FwRules : Loaded(S).rule[o] = Free
  BY LoadedIs
<1>2. \A r \in S : ObjectOf(r).state = r.state /\ ObjectOf(r).c = r.c
  BY DEF ObjectOf
<1>3. Free.state # "approved"
  BY DEF Free
<1>4. ASSUME NEW o \in Ids, Loaded(S).rule[o].state = "approved"
      PROVE  Fine(Loaded(S).rule[o].c.k)
  BY <1>1, <1>3, <1>4, <1>2
<1> QED BY <1>1, <1>4 DEF AllFine

LEMMA SafeRestart ==
    ASSUME Safe, Restart
    PROVE  Safe'
<1>1. Shape /\ Verdicts
  BY DEF Safe
<1>2. Sound(Loaded(file)) /\ AllFine(Loaded(file))
  BY <1>1, LoadedFine DEF Shape, Verdicts
<1>3. Idle \in Reader /\ Idle \in Updater /\ Idle \in Request /\ Idle.pc = "idle"
  BY DEF Idle, Reader, Updater, Request
<1>4. <<>> \in Seq(LogEvent)
  OBVIOUS
<1>a. Sound(fw)'
  BY <1>2, SoundGrows DEF Restart
<1>5. Shape'
  BY <1>1, <1>a, <1>3, <1>4 DEF Restart, Shape, Holding
<1>6. AllFine(fw')
  BY <1>2 DEF Restart
<1>7. Verdicts'
  BY <1>1, <1>3, <1>6 DEF Restart, Verdicts, AllFine, Fine, Answered
<1> QED BY <1>5, <1>7 DEF Safe

LEMMA SafeInit ==
    ASSUME Init
    PROVE  Safe
<1>1. /\ cfg \in Settings /\ file \in Starts /\ fw = Loaded(file)
      /\ log = <<>> /\ guard = Idle /\ upd = Idle /\ user = Idle
  BY DEF Init
<1>2. /\ file \subseteq Saved /\ IsFiniteSet(file) /\ Cardinality(file) <= MaxRules
      /\ \A r \in file : r.c.k \in Agreed
  BY <1>1, FirewallAssumption
<1>3. \A r \in file : r.state = "approved" => Fine(r.c.k)
  BY <1>2 DEF Fine
<1>4. Sound(fw) /\ AllFine(fw)
  BY <1>1, <1>2, <1>3, LoadedFine
<1>5. Idle \in Reader /\ Idle \in Updater /\ Idle \in Request /\ Idle.pc = "idle"
  BY DEF Idle, Reader, Updater, Request
<1>6. \A r \in file : r.guid \in Guids /\ r.c \in Content
  BY <1>2 DEF Saved
<1>7. win \in [Guids -> Contents]
  BY <1>6 DEF Contents, Init
<1>8. cache \subseteq Guids /\ wanted \subseteq Content
  BY <1>6 DEF Init
<1>9. Shape
  <2>1. /\ tick = "ask" /\ m_UpdateAllRules = FALSE /\ doubtful = {} /\ mistaken = {} /\ overlapped = FALSE
    BY DEF Init
  <2>2. log \in Seq(LogEvent)
    BY <1>1
  <2>3. guard \in Reader /\ upd \in Updater /\ user \in Request /\ upd.pc # "apply" /\ user.pc \notin Holding
    BY <1>1, <1>5 DEF Holding
  <2> QED BY <1>1, <1>2, <1>4, <1>7, <1>8, <2>1, <2>2, <2>3 DEF Shape
<1>10. Verdicts
  BY <1>1, <1>3, <1>4, <1>5 DEF Verdicts, AllFine
<1> QED BY <1>9, <1>10 DEF Safe

LEMMA SafeNext ==
    ASSUME Safe, [Next]_vars
    PROVE  Safe'
<1>1. CASE \E g \in Guids \ Random, c \in Content \cup {Gone} : ForeignChange(g, c)
  BY <1>1, SafeForeignChange DEF Contents
<1>2. CASE \E g \in Guids, c \in Content : SetRule(g, c)
  BY <1>2, SafeSetRule
<1>3. CASE \E o \in Ids : SetBackup(o) \/ DelRule(o)
  BY <1>3, SafeSetBackup, SafeDelRule
<1>14. CASE Compare \/ Approve \/ DropBackups
  BY <1>14, SafeCompare, SafeApprove, SafeDropBackups
<1>4. CASE TakeEvent \/ OnFwGuardEvent
  BY <1>4, SafeTakeEvent, SafeOnFwGuardEvent
<1>5. CASE StartUpdateRules \/ LockForUpdate \/ FinishUpdateRules
  BY <1>5, SafeStartUpdateRules, SafeLockForUpdate, SafeFinishUpdateRules
<1>6. CASE \E g \in Guids : UpdateListed(g)
  BY <1>6, SafeUpdateListed
<1>7. CASE \E o \in Ids : UpdateMissing(o)
  BY <1>7, SafeUpdateMissing
<1>8. CASE AskAboutWithdrawnRules \/ ReleaseHeldRules \/ ForgetSettled \/ FinishRevert
  BY <1>8, SafeRound
<1>9. CASE LockForRevert
  BY <1>9, SafeLockForRevert
<1>10. CASE \E o \in Ids : RejectRule(o) \/ RevertRule(o)
  BY <1>10, SafeRejectRule, SafeRevertRule
<1>11. CASE WriteRule \/ RestoreBackup
  BY <1>11, SafeWriteRule, SafeRestoreBackup
<1>12. CASE Store \/ Restart
  BY <1>12, SafeStore, SafeRestart
<1>13. CASE UNCHANGED vars
  <2>1. Sound(fw)'
    BY <1>13, SoundGrows DEF vars, history, Safe, Shape
  <2> QED BY <1>13, <2>1 DEF vars, winVars, history, Safe, Shape, Verdicts, Fine, Answered
<1> QED BY <1>1, <1>2, <1>3, <1>4, <1>5, <1>6, <1>7, <1>8, <1>9, <1>10, <1>11, <1>12, <1>13, <1>14
        DEF Next, AgentNext

THEOREM SafeInductive == Spec => []Safe
<1>1. Init => Safe
  BY SafeInit
<1>2. Safe /\ [Next]_vars => Safe'
  BY SafeNext
<1> QED BY <1>1, <1>2, PTL DEF Spec

\* No list points at an object that was freed, whatever is held back, restored,
\* loaded or failed: the lists of OnFwGuardEvent, UpdateRules and Update().
THEOREM TypeCorrect == Spec => []TypeOK
<1>1. Safe => TypeOK
  <2> SUFFICES ASSUME Safe PROVE TypeOK
    OBVIOUS
  <2>1. Shape /\ Sound(fw)
    BY DEF Safe, Shape
  <2>2. \A e \in Listed(log) : e.g \in Guids /\ e.gone \in BOOLEAN /\ e.own \in BOOLEAN
    <3>1. Listed(log) \subseteq LogEvent
      BY <2>1, ListedType DEF Shape
    <3> QED BY <3>1 DEF LogEvent
  <2>3. /\ fw.rule \in [Ids -> Object]
        /\ RuleIds(fw.m_FwRules) /\ RuleIds(fw.m_RulesToRemove) /\ RuleIds(fw.m_RulesToRevert)
        /\ RuleIds(Listed(fw.m_SettledRemovals))
    BY <2>1, SoundParts DEF RuleIds, Sound, InUse
  <2>4. \A e \in Listed(fw.m_WithdrawnRules) : RuleIds({e.pBackup}) /\ e.bRevert \in BOOLEAN
    <3>1. \A e \in Listed(fw.m_WithdrawnRules) : e.bRevert \in BOOLEAN
      <4>1. Listed(fw.m_WithdrawnRules) \subseteq Withdrawn
        BY <2>1, SoundParts, ListedType
      <4> QED BY <4>1 DEF Withdrawn
    <3> QED BY <2>1, <3>1 DEF RuleIds, Sound, InUse
  <2>5. \A e \in Listed(fw.m_HeldRules) : RuleIds({e.pRule}) /\ e.bReject \in BOOLEAN
    <3>1. \A e \in Listed(fw.m_HeldRules) : e.bReject \in BOOLEAN
      <4>1. Listed(fw.m_HeldRules) \subseteq Held
        BY <2>1, SoundParts, ListedType
      <4> QED BY <4>1 DEF Held
    <3> QED BY <2>1, <3>1 DEF RuleIds, Sound, InUse
  <2>6. /\ guard.pc \in {"idle", "apply"} /\ upd.pc \in {"idle", "read", "apply"}
        /\ user.pc \in Holding \cup {"idle", "write"}
    BY <2>1 DEF Shape, Reader, Updater, Request, Idle, Holding
  <2>7. cfg \in Settings /\ win \in [Guids -> Content \cup {Gone}] /\ cache \subseteq Guids
    BY <2>1 DEF Shape, Contents
  <2>8. /\ tick \in {"ask", "release", "released", "revert"} /\ m_UpdateAllRules \in BOOLEAN
        /\ wanted \subseteq Content /\ doubtful \subseteq Guids
        /\ mistaken \subseteq Kinds /\ overlapped \in BOOLEAN
    BY <2>1 DEF Shape
  <2> QED BY <2>2, <2>3, <2>4, <2>5, <2>6, <2>7, <2>8 DEF TypeOK, Object
<1> QED BY <1>1, SafeInductive, PTL

\* TakeOver, SetApproved: a rule of the map counts as approved only if the user
\* agreed to such a rule, or a template or guard entry did for him, or SetRule took
\* it for the one it had looked up; over any sequence of replacements, verdicts
\* taken over, restores, failures and starts.
THEOREM ApprovedIsAgreed == Spec => []ApprovedWasAgreed
<1>1. Safe => ApprovedWasAgreed
  BY DEF Safe, Verdicts, ApprovedWasAgreed, Fine, Shape, Sound, InUse
<1> QED BY <1>1, SafeInductive, PTL

-----------------------------------------------------------------------------
(* The map follows Windows *)

\* Live rules that are not moved show what they showed.
LEMMA UnmovedShows ==
    ASSUME NEW f, NEW h, NEW g, Unmoved(f, h, g), NEW c
    PROVE  Shows(h, g, c) <=> Shows(f, g, c)

BY DEF Unmoved, Shows

LEMMA OnceKept ==
    ASSUME Shape, Once, fw'.rule \in [Ids -> Object], fw'.m_FwRules \subseteq InUse(fw'),
           doubtful \subseteq doubtful', file' = file,
           \A a \in Guids \ doubtful' : LiveAt(fw', a) = LiveAt(fw, a) \/ Alone(fw', a)
    PROVE  Once'
<1>1. ASSUME NEW o \in Live(fw'), NEW p \in Live(fw'), fw'.rule[o].guid = fw'.rule[p].guid,
             fw'.rule[o].guid \notin doubtful'
      PROVE  o = p
  <2>1. PICK a \in Guids \ doubtful' : a = fw'.rule[o].guid
    BY <1>1, RuleInUse DEF Live, InUse
  <2>2. o \in LiveAt(fw', a) /\ p \in LiveAt(fw', a)
    BY <1>1, <2>1 DEF LiveAt
  <2>3. CASE LiveAt(fw', a) = LiveAt(fw, a)
    BY <2>1, <2>2, <2>3 DEF LiveAt, Once
  <2> QED BY <2>1, <2>2, <2>3 DEF Alone
<1>2. \A r, t \in file' : ~r.backup /\ ~t.backup /\ r.guid = t.guid /\ r.guid \notin doubtful' => r = t
  BY DEF Once
<1> QED BY <1>1, <1>2 DEF Once

\* An event more: it is the newest about its rule.
LEMMA NewestAppend ==
    ASSUME Shape, NewestTells, NEW g \in Guids, NEW c \in Contents, NEW own \in BOOLEAN,
           win' = [win EXCEPT ![g] = c], log' = Append(log, Event(g, c, own))
    PROVE  /\ NewestTells'
           /\ Pending(g)'
           /\ \A a \in Guids \ {g} : win'[a] = win[a] /\ (Pending(a)' <=> Pending(a))
<1> DEFINE e == Event(g, c, own)
           n == Len(log) + 1
<1>1. win \in [Guids -> Contents] /\ log \in Seq(LogEvent)
  BY DEF Shape
<1>2. e \in LogEvent /\ e.g = g /\ (e.gone <=> c = Gone)
  BY DEF Event, LogEvent
<1> HIDE DEF e
<1>3. /\ Len(log) \in Nat /\ DOMAIN log = 1..Len(log) /\ DOMAIN log' = 1..n
      /\ \A i \in DOMAIN log : log'[i] = log[i]
      /\ log'[n] = e
  BY <1>1, <1>2 DEF e
<1>4. /\ \A i \in DOMAIN log' : i \in DOMAIN log \/ i = n
      /\ \A i \in DOMAIN log : i \in DOMAIN log' /\ i < n /\ i # n
      /\ n \in DOMAIN log' /\ n \in Nat
  BY <1>3
<1> HIDE DEF n
<1>5. win'[g] = c /\ \A a \in Guids \ {g} : win'[a] = win[a]
  BY <1>1
<1>6. \A i \in DOMAIN log : log[i].g \in Guids
  <2>1. \A i \in DOMAIN log : log[i] \in LogEvent
    BY <1>1
  <2> QED BY <2>1 DEF LogEvent
<1>7. ASSUME NEW i \in DOMAIN log', \A j \in DOMAIN log' : j > i => log'[j].g # log'[i].g
      PROVE  log'[i].gone <=> win'[log'[i].g] = Gone
  BY <1>2, <1>3, <1>5, <1>4, <1>7, <1>6 DEF NewestTells
<1>8. NewestTells'
  BY <1>7 DEF NewestTells
<1>9. Pending(g)'
  BY <1>2, <1>3, <1>4 DEF Pending
<1>10. ASSUME NEW a \in Guids \ {g}
       PROVE  Pending(a)' <=> Pending(a)
  BY <1>2, <1>3, <1>4 DEF Pending
<1> QED BY <1>5, <1>8, <1>9, <1>10

\* An event less: what it says of its rule holds unless another one follows.
LEMMA NewestTail ==
    ASSUME Shape, NewestTells, log # <<>>, log' = Tail(log), win' = win, NEW g, g = Head(log).g
    PROVE  /\ NewestTells'
           /\ g \in Guids
           /\ ~Pending(g)' => (Head(log).gone <=> win[g] = Gone)
           /\ \A a \in Guids \ {g} : Pending(a)' <=> Pending(a)
<1> DEFINE e == Head(log)
<1>1. log \in Seq(LogEvent)
  BY DEF Shape
<1>2. /\ Len(log) \in Nat \ {0} /\ DOMAIN log = 1..Len(log) /\ DOMAIN log' = 1..(Len(log) - 1)
      /\ \A i \in DOMAIN log' : log'[i] = log[i + 1]
      /\ e = log[1] /\ e \in LogEvent
  BY <1>1
<1>3. /\ \A i \in DOMAIN log' : i + 1 \in DOMAIN log
      /\ \A i \in DOMAIN log : i = 1 \/ (i - 1 \in DOMAIN log' /\ log'[i - 1] = log[i])
      /\ 1 \in DOMAIN log
      /\ \A i \in DOMAIN log : i \in Int /\ (i = 1 <=> ~(i > 1))
      /\ \A i \in DOMAIN log' : i \in Int
  BY <1>2
<1>4. ASSUME NEW i \in DOMAIN log', \A j \in DOMAIN log' : j > i => log'[j].g # log'[i].g
      PROVE  log'[i].gone <=> win[log'[i].g] = Gone
  <2>1. i + 1 \in DOMAIN log /\ log'[i] = log[i + 1] /\ i \in Nat
    BY <1>2, <1>3, <1>4
  <2>2. ASSUME NEW j \in DOMAIN log, j > i + 1
        PROVE  log[j].g # log[i + 1].g
    <3>1. j # 1 /\ j - 1 > i
      BY <1>2, <2>1, <2>2
    <3>2. j - 1 \in DOMAIN log' /\ log'[j - 1] = log[j]
      BY <1>3, <3>1
    <3> QED BY <1>4, <2>1, <3>1, <3>2
  <2> QED BY <2>1, <2>2 DEF NewestTells
<1>5. NewestTells'
  BY <1>4 DEF NewestTells
<1> HIDE DEF e
<1>6. g \in Guids
  BY <1>2 DEF LogEvent, e
<1>7. ASSUME ~Pending(g)'
      PROVE  e.gone <=> win[g] = Gone
  BY <1>7, <1>3, <1>2 DEF Pending, e, NewestTells
<1>8. ASSUME NEW a \in Guids \ {g}
      PROVE  Pending(a)' <=> Pending(a)
  <2>1. Pending(a)' => Pending(a)
    BY <1>2, <1>3 DEF Pending
  <2>2. Pending(a) => Pending(a)'
    <3> SUFFICES ASSUME NEW i \in DOMAIN log, log[i].g = a
                 PROVE  \E j \in DOMAIN log' : log'[j].g = a
      BY DEF Pending
    <3>1. i # 1
      BY <1>2 DEF e
    <3> QED BY <1>3, <3>1
  <2> QED BY <2>1, <2>2
<1> QED BY <1>5, <1>6, <1>7, <1>8 DEF e

\* What is said of a rule depends on the log, the readers and the map.
LEMMA SameLog ==
    ASSUME UNCHANGED <<win, log>>
    PROVE  /\ NewestTells' <=> NewestTells
           /\ \A a \in Guids : Pending(a)' <=> Pending(a)

BY DEF NewestTells, Pending

LEMMA SameReader ==
    ASSUME UNCHANGED guard
    PROVE  \A a \in Guids : Reading(a)' <=> Reading(a)

BY DEF Reading

LEMMA StillMirrored ==
    ASSUME NEW a \in Guids, Unmoved(fw, fw', a), win'[a] = win[a]
    PROVE  Mirrored(a) => Mirrored(a)'
<1>1. Shows(fw', a, win[a]) <=> Shows(fw, a, win[a])
  BY UnmovedShows
<1> QED BY <1>1 DEF Mirrored, Shows

\* A write of the agent, or one that failed, or one that was not needed.
LEMMA MirrorAnswers ==
    ASSUME Safe, MirrorInv, NEW g \in Guids, Answers(g),
           UNCHANGED <<guard, upd, m_UpdateAllRules, file>>, upd.pc # "apply", ~m_UpdateAllRules
    PROVE  MirrorInv'
<1>1. /\ Shape /\ Once /\ NewestTells /\ CacheKnows /\ ReadIsFresh /\ Follows
      /\ win \in [Guids -> Contents] /\ cache \subseteq Guids
  BY DEF Safe, Shape, MirrorInv
<1>2. /\ Moves(fw, fw', {g}) /\ doubtful' \in {doubtful, doubtful \cup {g}}
      /\ g \notin doubtful => Alone(fw', g)
  BY <1>1 DEF Answers
<1>3. Once'
  BY <1>1, <1>2, OnceKept DEF Moves, Unmoved, Sound, Rules
<1>4. WalkIsWhole' /\ StartIsQuiet'
  BY DEF WalkIsWhole, StartIsQuiet
<1>5. \A a \in Guids : Reading(a)' <=> Reading(a)
  BY SameReader
<1>6. \A a \in Guids : ~Caught(a)
  BY DEF Caught
<1>7. \A a \in Guids \ {g} : Unmoved(fw, fw', a)
  BY <1>2 DEF Moves
<1>8. ASSUME NEW a \in Guids \ {g}, a \notin doubtful', win'[a] = win[a], Pending(a)' <=> Pending(a)
      PROVE  (Pending(a) \/ Reading(a) \/ Mirrored(a) \/ Caught(a))'
  BY <1>1, <1>2, <1>6, <1>8, <1>7, StillMirrored, <1>5 DEF Follows
<1>9. CASE Logs(g)
  <2>1. PICK c \in Contents, own \in BOOLEAN :
          /\ win' = [win EXCEPT ![g] = c] /\ log' = Append(log, Event(g, c, own))
          /\ cache' \subseteq Guids /\ cache \ {g} \subseteq cache'
    BY <1>9 DEF Logs
  <2>2. /\ NewestTells' /\ Pending(g)'
        /\ \A a \in Guids \ {g} : win'[a] = win[a] /\ (Pending(a)' <=> Pending(a))
    BY <1>1, <2>1, NewestAppend
  <2>3. CacheKnows'
    BY <1>2, <2>2, <1>1, <2>1 DEF CacheKnows
  <2>4. ReadIsFresh'
    BY <1>2, <1>5, <2>2, <1>1 DEF ReadIsFresh
  <2>5. ASSUME NEW a \in Guids \ doubtful'
        PROVE  (Pending(a) \/ Reading(a) \/ Mirrored(a) \/ Caught(a))'
    BY <2>2, <1>8, <2>5
  <2>6. Follows'
    BY <2>5 DEF Follows
  <2> QED BY <1>3, <1>4, <2>2, <2>3, <2>4, <2>6 DEF MirrorInv
<1>10. CASE ~Logs(g)
  <2>1. \/ UNCHANGED winVars /\ g \in doubtful'
        \/ RemovedBefore(g) /\ (g \notin doubtful => LiveAt(fw', g) = {})
        \/ UNCHANGED winVars /\ Moves(fw, fw', {})
    BY <1>1, <1>10 DEF Answers
  <2>2. UNCHANGED <<win, log>>
    BY <2>1 DEF winVars, RemovedBefore
  <2>3. NewestTells' /\ \A a \in Guids : Pending(a)' <=> Pending(a)
    BY <1>1, <2>2, SameLog
  <2>4. CacheKnows'
    BY <1>2, <2>2, <2>3, <1>1, <2>1 DEF CacheKnows, winVars, RemovedBefore
  <2>5. ReadIsFresh'
    BY <1>2, <1>5, <2>2, <2>3, <1>1 DEF ReadIsFresh
  <2>6. ASSUME NEW a \in Guids \ doubtful'
        PROVE  (Pending(a) \/ Reading(a) \/ Mirrored(a) \/ Caught(a))'
    <3>1. CASE a # g
      BY <1>8, <2>2, <2>3, <2>6, <3>1
    <3>2. CASE a = g /\ Moves(fw, fw', {})
      <4>1. Unmoved(fw, fw', a)
        BY <3>2 DEF Moves
      <4>2. Mirrored(a) => Mirrored(a)'
        BY <2>2, <4>1, StillMirrored
      <4>3. Pending(a) \/ Reading(a) \/ Mirrored(a)
        BY <1>1, <1>2, <1>6, <2>6 DEF Follows
      <4> QED BY <1>5, <2>3, <4>2, <4>3
    <3>3. CASE a = g /\ RemovedBefore(g) /\ (g \notin doubtful => LiveAt(fw', g) = {})
      BY <1>1, <1>2, <2>6, <3>3, <2>2, <2>3 DEF CacheKnows, RemovedBefore, Mirrored, Shows
    <3> QED BY <2>1, <2>6, <3>1, <3>2, <3>3
  <2>7. Follows'
    BY <2>6 DEF Follows
  <2> QED BY <1>3, <1>4, <2>3, <2>4, <2>5, <2>7 DEF MirrorInv
<1> QED BY <1>9, <1>10

\* A step that leaves the live rules, Windows and the readers alone.
LEMMA MirrorStill ==
    ASSUME Safe, MirrorInv, Once', WalkIsWhole', StartIsQuiet', doubtful \subseteq doubtful',
           \A a \in Guids \ doubtful' : Unmoved(fw, fw', a),
           UNCHANGED <<winVars, guard, upd, m_UpdateAllRules>>
    PROVE  MirrorInv'
<1>1. Shape /\ NewestTells /\ CacheKnows /\ ReadIsFresh /\ Follows
  BY DEF Safe, MirrorInv
<1>2. UNCHANGED <<win, log, cache>>
  BY DEF winVars
<1>5. NewestTells' /\ (\A a \in Guids : Pending(a)' <=> Pending(a))
  BY <1>1, <1>2, SameLog
<1>6. \A a \in Guids : Reading(a)' <=> Reading(a)
  BY SameReader
<1>7. CacheKnows' /\ ReadIsFresh'
  BY <1>1, <1>2, <1>5, <1>6 DEF CacheKnows, ReadIsFresh
<1>8. ASSUME NEW a \in Guids \ doubtful'
      PROVE  (Pending(a) \/ Reading(a) \/ Mirrored(a) \/ Caught(a))'
  BY <1>1, <1>2, StillMirrored, <1>5, <1>6 DEF Follows, Caught
<1>9. Follows'
  BY <1>8 DEF Follows
<1> QED BY <1>5, <1>7, <1>9 DEF MirrorInv

\* What is left of the walk after a step that deals with the rules in G.
LEMMA WalkGoesOn ==
    ASSUME Shape, WalkIsWhole, upd.pc = "apply", NEW G \in SUBSET Guids, Moves(fw, fw', G),
           doubtful \subseteq G, doubtful \subseteq doubtful',
           upd'.pc = "apply", upd'.list = upd.list, upd'.todo \subseteq upd.todo,
           upd'.old \subseteq upd.old, tick' = tick,
           \A a \in Guids \ G : LiveAt(fw, a) \cap upd.old \subseteq upd'.old,
           \A a \in G \ doubtful' : a \notin upd'.todo /\ (upd.list[a] = Gone => LiveAt(fw', a) = {}),
           \A p \in upd'.old : Aside(fw, p) \/ fw.rule[p].guid \notin G
    PROVE  WalkIsWhole'
<1>1. Sound(fw) /\ \A p \in upd.old : p \in Pinned /\ p \in InUse(fw)
  BY DEF Shape, Pinned
<1>2. \A a \in Guids \ G : LiveAt(fw', a) = LiveAt(fw, a)
  BY DEF Moves, Unmoved
<1>3. ASSUME NEW a \in Guids \ doubtful', a \in upd'.todo \/ upd'.list[a] = Gone
      PROVE  LiveAt(fw', a) \subseteq upd'.old
  BY <1>2, <1>3 DEF WalkIsWhole
<1>4. ASSUME NEW p \in upd'.old
      PROVE  Aside(fw, p)' \/ p \in fw'.m_FwRules
  <2>1. CASE Aside(fw, p)
    BY <1>1, <1>4, <2>1 DEF Moves, Retains, Aside
  <2>2. CASE ~Aside(fw, p)
    <3>1. PICK a \in Guids \ G : a = fw.rule[p].guid
      BY <1>1, <1>4, <2>2, InUseIsRule
    <3>2. p \in LiveAt(fw, a)
      BY <1>4, <2>2, <3>1 DEF WalkIsWhole, Aside, LiveAt, Live
    <3> QED BY <1>2, <3>1, <3>2 DEF LiveAt, Live
  <2> QED BY <2>1, <2>2
<1> QED BY <1>3, <1>4 DEF WalkIsWhole

LEMMA MirrorCalm ==
    ASSUME Safe, MirrorInv, Moves(fw, fw', {}),
           UNCHANGED <<winVars, guard, upd, m_UpdateAllRules, file, doubtful>>,
           upd.pc = "apply" => tick' = tick, m_UpdateAllRules => tick' = "ask" /\ user' = Idle
    PROVE  MirrorInv'
<1>1. Shape /\ Once /\ WalkIsWhole /\ Sound(fw') /\ \A a \in Guids : Unmoved(fw, fw', a)
  BY DEF Safe, MirrorInv, Moves
<1>2. Once' /\ StartIsQuiet'
  BY <1>1, OnceKept DEF Unmoved, Sound, Rules, StartIsQuiet
<1>3. Moves(fw, fw', doubtful) /\ doubtful \in SUBSET Guids
  BY <1>1 DEF Moves, Shape
<1>4. WalkIsWhole'
  <2>1. CASE upd.pc = "apply"
    BY <1>1, <1>3, <2>1, WalkGoesOn DEF Aside
  <2> QED BY <2>1 DEF WalkIsWhole
<1> QED BY <1>1, <1>2, <1>4, MirrorStill

\* RejectRule, RevertRule and the requests: nobody goes through the list of
\* UpdateRules meanwhile, and none of them runs before the first one.
LEMMA MirrorWrites ==
    ASSUME Safe, MirrorInv,
           \/ WriteRule \/ RestoreBackup
           \/ \E o : RejectRule(o) \/ RevertRule(o) \/ DelRule(o)
    PROVE  MirrorInv'
<1>1. Shape /\ Sound(fw) /\ WalkIsWhole /\ StartIsQuiet
  BY DEF Safe, Shape, MirrorInv
<1>2. Idle.pc = "idle"
  BY DEF Idle
<1>3. /\ \E g \in Guids : Answers(g)
      /\ UNCHANGED <<guard, upd, m_UpdateAllRules, file>>
      /\ upd.pc # "apply" /\ ~m_UpdateAllRules
  <2>1. CASE WriteRule
    BY <1>1, <1>2, <2>1, SafeWriteRule DEF WriteRule, LockIsFree, StartIsQuiet
  <2>2. CASE RestoreBackup
    BY <1>1, <1>2, <2>2, SafeRestoreBackup DEF RestoreBackup, LockIsFree, StartIsQuiet
  <2>3. CASE \E o : RejectRule(o)
    BY <2>3, <1>1, InUseIsRule, RejectAnswers DEF RejectRule, Sound, WalkIsWhole, StartIsQuiet
  <2>4. CASE \E o : RevertRule(o)
    BY <2>4, RevertAnswers, <1>1, InUseIsRule DEF RevertRule, WalkIsWhole, StartIsQuiet
  <2>5. CASE \E o : DelRule(o)
    BY <2>5, SafeDelRule, <1>1 DEF DelRule, UserIsFree, LockIsFree
  <2> QED BY <2>1, <2>2, <2>3, <2>4, <2>5
<1> QED BY <1>3, MirrorAnswers

\* The timer's round and the requests that only move objects between the lists.
LEMMA MirrorLists ==
    ASSUME Safe, MirrorInv,
           \/ AskAboutWithdrawnRules \/ ReleaseHeldRules \/ ForgetSettled
           \/ LockForRevert \/ FinishRevert
           \/ Compare \/ DropBackups \/ \E o : SetBackup(o)
           \/ \E g \in Guids, c \in Content : SetRule(g, c)
    PROVE  MirrorInv'
<1>1. Shape /\ Sound(fw) /\ WalkIsWhole /\ StartIsQuiet /\ Pinned \subseteq InUse(fw)
  BY PinnedInUse DEF Safe, Shape, MirrorInv
<1>2. /\ Moves(fw, fw', {})
      /\ UNCHANGED <<winVars, guard, upd, m_UpdateAllRules, file, doubtful>>
      /\ upd.pc = "apply" => tick' = tick
      /\ m_UpdateAllRules => tick' = "ask" /\ user' = Idle
  <2>1. CASE AskAboutWithdrawnRules \/ ReleaseHeldRules \/ ForgetSettled \/ FinishRevert
    <3>1. Moves(fw, fw', {})
      BY <1>1, <2>1, RoundMoves
    <3> QED BY <1>1, <2>1, <3>1 DEF AskAboutWithdrawnRules, ReleaseHeldRules, ForgetSettled,
               FinishRevert, LockIsFree, StartIsQuiet, WalkIsWhole, history
  <2>2. CASE LockForRevert
    BY <1>1, <2>2, SameMoves DEF LockForRevert, LockIsFree, StartIsQuiet, history
  <2>3. CASE Compare
    BY <1>1, <2>3, SameMoves DEF Compare, StartIsQuiet, Idle
  <2>5. CASE DropBackups
    BY <1>1, <2>5, DropMoves DEF DropBackups, StartIsQuiet, Idle
  <2>4. CASE (\E o : SetBackup(o)) \/ (\E g \in Guids, c \in Content : SetRule(g, c))
    BY <2>4, <1>1, SameMoves DEF SetBackup, SetRule, UserIsFree, LockIsFree, history
  <2> QED BY <2>1, <2>2, <2>3, <2>4, <2>5
<1> QED BY <1>2, MirrorCalm

\* Update changes a verdict, or gives a backup a guid that is on record.
LEMMA MirrorApprove ==
    ASSUME Safe, MirrorInv, Approve
    PROVE  MirrorInv'
<1>1. Shape /\ Once /\ WalkIsWhole /\ StartIsQuiet /\ Sound(fw) /\ user.o \in Ids /\ doubtful \subseteq Guids
  BY InHand DEF Safe, MirrorInv, Shape, Approve, InUse
<1>2. PICK r \in Rule :
         /\ r.c = fw.rule[user.o].c /\ ~r.backup
         /\ fw' = [fw EXCEPT !.rule = [fw.rule EXCEPT ![user.o] = r]]
         /\ \/ /\ ~fw.rule[user.o].backup /\ r.guid = fw.rule[user.o].guid
               /\ UNCHANGED <<doubtful, overlapped>>
            \/ /\ fw.rule[user.o].backup /\ r.guid \in Unused
               /\ doubtful' = doubtful \cup {r.guid}
  BY <1>1, ApproveIs
<1>3. /\ fw'.rule = [fw.rule EXCEPT ![user.o] = r] /\ fw'.m_FwRules = fw.m_FwRules
      /\ fw.rule \in [Ids -> Object] /\ r # Free /\ r \in Object
  BY <1>1, <1>2, RuleInUse DEF Sound, Rules
<1>4. /\ \A p \in Ids \ {user.o} : fw'.rule[p] = fw.rule[p]
      /\ fw'.rule[user.o] = r
  BY <1>1, <1>3
<1>5. fw'.rule \in [Ids -> Object] /\ fw.m_FwRules \subseteq Ids /\ fw'.m_FwRules \subseteq InUse(fw')
  BY <1>1, <1>3, <1>4 DEF InUse, Sound
<1>6. doubtful \subseteq doubtful'
  BY <1>2
<1>7. ASSUME NEW a \in Guids \ doubtful'
      PROVE  Unmoved(fw, fw', a)
  <2>1. \A p \in fw.m_FwRules : p \in LiveAt(fw, a) <=> p \in LiveAt(fw', a)
    BY <1>2, <1>3, <1>4, <1>5, <1>7 DEF LiveAt, Live
  <2>2. LiveAt(fw', a) = LiveAt(fw, a)
    BY <1>3, <2>1 DEF LiveAt, Live
  <2> QED BY <1>2, <1>4, <1>5, <2>2 DEF Unmoved, LiveAt, Live
<1>8. Once'
  BY <1>1, <1>5, <1>6, <1>7, OnceKept DEF Approve, Unmoved
<1>9. WalkIsWhole'
  <2>1. \A o \in upd.old : Aside(fw, o) \/ o \in fw.m_FwRules => Aside(fw, o)' \/ o \in fw'.m_FwRules
    BY <1>1, <1>2, <1>3, <1>4 DEF Aside, WalkIsWhole, Shape, InUse
  <2> QED BY <1>1, <1>6, <1>7, <2>1 DEF WalkIsWhole, Unmoved, Approve
<1>10. StartIsQuiet'
  <2>1. user.pc = "approve" /\ UNCHANGED m_UpdateAllRules /\ Idle.pc = "idle"
    BY DEF Approve, Idle
  <2> QED BY <1>1, <2>1 DEF StartIsQuiet
<1> QED BY <1>6, <1>7, <1>8, <1>9, <1>10, MirrorStill DEF Approve

LEMMA MirrorStutter ==
    ASSUME MirrorInv, UNCHANGED vars
    PROVE  MirrorInv'

BY DEF MirrorInv, vars, winVars, history, Once, NewestTells, CacheKnows, ReadIsFresh, WalkIsWhole,
       StartIsQuiet, Follows, Pending, Reading, Mirrored, Shows, Caught, LiveAt, Live, Aside

\* SaveRules writes one rule for a guid, as the map has it.
LEMMA MirrorStore ==
    ASSUME Safe, MirrorInv, Store
    PROVE  MirrorInv'
<1>1. /\ Shape /\ Sound(fw) /\ Once /\ NewestTells /\ CacheKnows /\ ReadIsFresh /\ Follows
      /\ WalkIsWhole /\ StartIsQuiet
  BY DEF Safe, Shape, MirrorInv
<1>2. file' = {SavedOf(fw.rule[o]) : o \in fw.m_FwRules}
  BY <1>1, ImageIs DEF Store
<1>3. ASSUME NEW r \in file', NEW t \in file', ~r.backup, ~t.backup, r.guid = t.guid,
             r.guid \notin doubtful
      PROVE  r = t
  BY <1>2, <1>1, <1>3 DEF SavedOf, Once, Live
<1>4. Once'
  BY <1>1, <1>3 DEF Store, Once, Live, history
<1>5. UNCHANGED <<win, log, cache, fw, guard, upd, m_UpdateAllRules, tick, user, doubtful>>
  BY DEF Store, winVars, history
<1> QED BY <1>1, <1>4, <1>5 DEF MirrorInv, NewestTells, CacheKnows, ReadIsFresh, WalkIsWhole,
       StartIsQuiet, Follows, Pending, Reading, Mirrored, Shows, Caught, LiveAt, Live, Aside

\* A change by another program is answered by an event.
LEMMA MirrorForeignChange ==
    ASSUME Safe, MirrorInv, NEW g \in Guids, NEW c \in Contents, ForeignChange(g, c)
    PROVE  MirrorInv'
<1>1. /\ Shape /\ Once /\ NewestTells /\ CacheKnows /\ ReadIsFresh /\ Follows
      /\ WalkIsWhole /\ StartIsQuiet
  BY DEF Safe, MirrorInv
<1>2. /\ win' = [win EXCEPT ![g] = c] /\ log' = Append(log, Event(g, c, FALSE))
      /\ UNCHANGED <<cache, fw, guard, upd, m_UpdateAllRules, tick, user, file, doubtful>>
  BY DEF ForeignChange, history
<1>3. /\ NewestTells' /\ Pending(g)'
      /\ \A a \in Guids \ {g} : win'[a] = win[a] /\ (Pending(a)' <=> Pending(a))
  BY <1>1, <1>2, NewestAppend
<1>4. Once' /\ WalkIsWhole' /\ StartIsQuiet'
  BY <1>1, <1>2 DEF Once, WalkIsWhole, StartIsQuiet, LiveAt, Live, Aside
<1>5. CacheKnows'
  BY <1>2, <1>3, <1>1 DEF CacheKnows
<1>6. ReadIsFresh'
  BY <1>2, <1>3, <1>1 DEF ReadIsFresh, Reading
<1>7. ASSUME NEW a \in Guids \ doubtful'
      PROVE  (Pending(a) \/ Reading(a) \/ Mirrored(a) \/ Caught(a))'
  BY <1>3, <1>1, <1>2, <1>7, StillMirrored DEF Follows, Unmoved, Reading, Caught
<1>8. Follows'
  BY <1>7 DEF Follows
<1> QED BY <1>3, <1>4, <1>5, <1>6, <1>8 DEF MirrorInv

\* OnFwGuardEvent reads a rule: unless another event follows it is what it is.
LEMMA MirrorTakeEvent ==
    ASSUME Safe, MirrorInv, TakeEvent
    PROVE  MirrorInv'
<1>1. /\ Shape /\ Once /\ NewestTells /\ CacheKnows /\ ReadIsFresh /\ Follows
      /\ WalkIsWhole /\ StartIsQuiet
  BY DEF Safe, MirrorInv
<1>2. /\ log # <<>> /\ log' = Tail(log) /\ guard = Idle
      /\ UNCHANGED <<win, fw, upd, m_UpdateAllRules, tick, user, file>>
  BY DEF TakeEvent
<1>3. PICK g : g = Head(log).g
  OBVIOUS
<1>4. PICK gone : gone = Head(log).gone
  OBVIOUS
<1>5. /\ NewestTells' /\ g \in Guids
      /\ ~Pending(g)' => (gone <=> win[g] = Gone)
      /\ \A a \in Guids \ {g} : Pending(a)' <=> Pending(a)
  BY <1>1, <1>2, <1>3, <1>4, NewestTail
<1>6. /\ guard'.pc = "apply" /\ guard'.g = g
      /\ \/ /\ guard'.c = (IF gone THEN Gone ELSE win[g])
            /\ cache' = CASE gone -> cache
                          [] ~gone /\ win[g] = Gone -> cache \ {g}
                          [] OTHER -> cache \cup {g}
            /\ doubtful' = doubtful
         \/ cache' = cache \ {g} /\ doubtful' = doubtful \cup {g}
  BY <1>3, <1>4 DEF TakeEvent
<1>8. doubtful \subseteq doubtful'
  BY <1>6
<1>7. Once' /\ WalkIsWhole' /\ StartIsQuiet'
  BY <1>1, <1>2, <1>8 DEF Once, WalkIsWhole, StartIsQuiet, LiveAt, Live, Aside
<1>9. CacheKnows'
  BY <1>2, <1>5, <1>6, <1>1, <1>8 DEF CacheKnows
<1>10. ReadIsFresh'
  BY <1>6, <1>2, <1>5 DEF ReadIsFresh, Reading
<1>11. ASSUME NEW a \in Guids \ doubtful'
       PROVE  (Pending(a) \/ Reading(a) \/ Mirrored(a) \/ Caught(a))'
  <2>1. CASE a = g
    BY <1>6, <2>1 DEF Reading
  <2>2. CASE a # g
    <3>1. Pending(a) \/ Mirrored(a) \/ Caught(a)
      BY <1>1, <1>2, <1>8, <1>11 DEF Follows, Reading, Idle
    <3>2. (Mirrored(a)' <=> Mirrored(a)) /\ (Caught(a)' <=> Caught(a))
      BY <1>2 DEF Mirrored, Shows, Caught, LiveAt, Live
    <3> QED BY <1>5, <2>2, <3>1, <3>2
  <2> QED BY <2>1, <2>2
<1>12. Follows'
  BY <1>11 DEF Follows
<1> QED BY <1>5, <1>7, <1>9, <1>10, <1>12 DEF MirrorInv

\* OnFwGuardEvent gives the rule the form that was read.
LEMMA MirrorOnFwGuardEvent ==
    ASSUME Safe, MirrorInv, OnFwGuardEvent
    PROVE  MirrorInv'
<1>1. /\ Shape /\ Once /\ NewestTells /\ CacheKnows /\ ReadIsFresh /\ Follows
      /\ WalkIsWhole /\ StartIsQuiet
  BY DEF Safe, MirrorInv
<1>2. /\ UNCHANGED <<win, log, cache, upd, m_UpdateAllRules, tick, user, file, doubtful>>
      /\ guard.pc = "apply" /\ guard'.pc = "idle" /\ upd.pc # "apply"
  BY DEF OnFwGuardEvent, winVars, LockIsFree, Idle
<1>3. PICK g \in Guids : g = guard.g
  BY <1>1, <1>2, InHand
<1>4. PICK c \in Contents : c = guard.c
  BY <1>1, <1>2, InHand
<1>5. Moves(fw, fw', {g} \cup doubtful) /\ (g \notin doubtful => Single(fw', g, c))
  BY <1>3, <1>4, <1>1, EventChange, GetRuleIs, ChangeStep
<1>6. Once'
  BY <1>1, <1>2, <1>5, OnceKept DEF Single, Moves, Unmoved, Sound, Rules
<1>7. WalkIsWhole' /\ StartIsQuiet' /\ ReadIsFresh'
  BY <1>1, <1>2 DEF WalkIsWhole, StartIsQuiet, ReadIsFresh, Reading
<1>8. NewestTells' /\ \A a \in Guids : Pending(a)' <=> Pending(a)
  BY <1>1, <1>2, SameLog
<1>9. CacheKnows'
  BY <1>1, <1>2, <1>8 DEF CacheKnows
<1>10. ASSUME NEW a \in Guids \ doubtful'
       PROVE  (Pending(a) \/ Reading(a) \/ Mirrored(a) \/ Caught(a))'
  <2>1. CASE a = g
    <3>1. ~Pending(g) => c = win[g]
      BY <1>1, <1>2, <1>3, <1>4, <1>10, <2>1 DEF ReadIsFresh, Reading
    <3>2. c = win[g] => Mirrored(g)'
      BY <1>2, <1>5, <1>10, <2>1 DEF Single, Mirrored, Shows
    <3> QED BY <1>8, <2>1, <3>1, <3>2
  <2>2. CASE a # g
    <3>1. Pending(a) \/ Mirrored(a) \/ Caught(a)
      BY <1>1, <1>2, <1>3, <1>10, <2>2 DEF Follows, Reading
    <3>2. Unmoved(fw, fw', a)
      BY <1>2, <1>5, <1>10, <2>2 DEF Moves
    <3>3. Mirrored(a) => Mirrored(a)'
      BY <1>2, <3>2, StillMirrored
    <3>4. Caught(a) => Caught(a)'
      BY <1>2 DEF Caught
    <3> QED BY <1>8, <3>1, <3>3, <3>4
  <2> QED BY <2>1, <2>2
<1>11. Follows'
  BY <1>10 DEF Follows
<1> QED BY <1>6, <1>7, <1>8, <1>9, <1>11 DEF MirrorInv

\* UpdateRules reads the list.
LEMMA MirrorStartUpdateRules ==
    ASSUME Safe, MirrorInv, StartUpdateRules
    PROVE  MirrorInv'
<1>1. /\ Shape /\ Once /\ NewestTells /\ CacheKnows /\ ReadIsFresh /\ Follows
      /\ StartIsQuiet
  BY DEF Safe, MirrorInv
<1>2. /\ UNCHANGED <<win, log, fw, guard, m_UpdateAllRules, tick, user, file>>
      /\ upd = Idle /\ upd'.pc = "read"
      /\ \/ upd'.list = win /\ cache' = {a \in Guids : win[a] # Gone} /\ doubtful' = doubtful
         \/ doubtful' = Guids
  BY DEF StartUpdateRules
<1>3. upd.pc = "idle" /\ doubtful \subseteq doubtful'
  BY <1>1, <1>2 DEF Idle, Shape
<1>4. Once' /\ StartIsQuiet' /\ WalkIsWhole' /\ NewestTells'
  BY <1>1, <1>2, <1>3 DEF Once, StartIsQuiet, WalkIsWhole, NewestTells, Live
<1>5. CacheKnows' /\ ReadIsFresh'
  BY <1>1, <1>2, <1>3 DEF CacheKnows, ReadIsFresh, Reading, Pending
<1>6. ASSUME NEW a \in Guids \ doubtful'
      PROVE  (Pending(a) \/ Reading(a) \/ Mirrored(a) \/ Caught(a))'
  BY <1>1, <1>3, <1>6, <1>2, StillMirrored DEF Follows, Pending, Reading, Unmoved, Caught
<1>7. Follows'
  BY <1>6 DEF Follows
<1> QED BY <1>4, <1>5, <1>7 DEF MirrorInv

\* UpdateRules takes the map for the old rules.
LEMMA MirrorLockForUpdate ==
    ASSUME Safe, MirrorInv, LockForUpdate
    PROVE  MirrorInv'
<1>1. /\ Shape /\ Once /\ NewestTells /\ CacheKnows /\ ReadIsFresh /\ Follows
      /\ StartIsQuiet
  BY DEF Safe, MirrorInv
<1>2. /\ UNCHANGED <<win, log, cache, fw, guard, m_UpdateAllRules, tick, user, file, doubtful>>
      /\ upd.pc = "read" /\ upd'.pc = "apply" /\ tick # "revert"
      /\ upd'.list = upd.list /\ upd'.old = fw.m_FwRules
      /\ upd'.todo = {a \in Guids : upd.list[a] # Gone}
  BY DEF LockForUpdate, LockIsFree, winVars, history
<1>3. Once' /\ StartIsQuiet' /\ NewestTells'
  BY <1>1, <1>2 DEF Once, StartIsQuiet, NewestTells, Live
<1>4. CacheKnows' /\ ReadIsFresh'
  BY <1>1, <1>2 DEF CacheKnows, ReadIsFresh, Reading, Pending
<1>5. WalkIsWhole'
  BY <1>2 DEF WalkIsWhole, LiveAt, Live
<1>6. ASSUME NEW a \in Guids \ doubtful'
      PROVE  (Pending(a) \/ Reading(a) \/ Mirrored(a) \/ Caught(a))'
  BY <1>1, <1>2, <1>6, StillMirrored DEF Follows, Pending, Reading, Unmoved, Caught
<1>7. Follows'
  BY <1>6 DEF Follows
<1> QED BY <1>3, <1>4, <1>5, <1>7 DEF MirrorInv

\* A step of UpdateRules: it deals with the live rule of one guid or with none.
LEMMA MirrorWalk ==
    ASSUME Safe, MirrorInv, NEW G \in SUBSET Guids, Moves(fw, fw', G),
           \A g \in G \ doubtful' : Alone(fw', g),
           UNCHANGED <<win, log, cache, guard, m_UpdateAllRules, tick, user, file>>,
           upd.pc = "apply", upd'.pc = "apply" \/ ~m_UpdateAllRules,
           upd'.pc = "apply" => upd'.list = upd.list /\ upd.todo \ G \subseteq upd'.todo,
           doubtful \subseteq doubtful', WalkIsWhole',
           \A g \in G \ doubtful' : Mirrored(g)'
    PROVE  MirrorInv'
<1>1. /\ Shape /\ Once /\ NewestTells /\ CacheKnows /\ ReadIsFresh /\ Follows
      /\ StartIsQuiet
  BY DEF Safe, MirrorInv
<1>2. Once'
  BY <1>1, OnceKept DEF Moves, Unmoved, Sound, Rules
<1>3. NewestTells' /\ StartIsQuiet'
  BY <1>1, SameLog DEF StartIsQuiet
<1>4. CacheKnows' /\ ReadIsFresh'
  BY <1>1 DEF CacheKnows, ReadIsFresh, Reading, Pending
<1>5. ASSUME NEW a \in Guids \ doubtful'
      PROVE  (Pending(a) \/ Reading(a) \/ Mirrored(a) \/ Caught(a))'
  BY <1>1, <1>5, StillMirrored DEF Follows, Pending, Reading, Moves, Caught
<1>6. Follows'
  BY <1>5 DEF Follows
<1> QED BY <1>2, <1>3, <1>4, <1>6 DEF MirrorInv

\* UpdateRules gives the rule the form in the list, or adds it.
LEMMA MirrorUpdateListed ==
    ASSUME Safe, MirrorInv, NEW g \in Guids, UpdateListed(g)
    PROVE  MirrorInv'
<1>1. Shape /\ Once /\ WalkIsWhole /\ Sound(fw) /\ doubtful \subseteq Guids
  BY DEF Safe, MirrorInv, Shape
<1> DEFINE old == {p \in upd.old : fw.rule[p].guid = g /\ ~fw.rule[p].backup}
           o   == IF old = {} THEN 0 ELSE CHOOSE p \in old : TRUE
<1>2. /\ upd.pc = "apply" /\ g \in upd.todo /\ Change(g, upd.list[g], o)
      /\ upd' = [upd EXCEPT !.todo = @ \ {g}, !.old = @ \ old]
      /\ doubtful' = IF upd.list[g] = win[g] THEN doubtful ELSE doubtful \cup {g}
      /\ UNCHANGED <<win, log, cache, guard, m_UpdateAllRules, tick, user, file>>
  BY DEF UpdateListed, winVars
<1>3. /\ upd.list \in [Guids -> Contents] /\ upd.old \subseteq InUse(fw) /\ upd.todo \subseteq Guids
      /\ upd = [pc |-> "apply", list |-> upd.list, old |-> upd.old, todo |-> upd.todo]
  BY <1>1, <1>2, InHand
<1>4. g \notin doubtful => LiveAt(fw, g) = old
  BY <1>1, <1>2 DEF WalkIsWhole, LiveAt, Live, Aside
<1>5. g \notin doubtful => \/ o = 0 /\ LiveAt(fw, g) = {}
                           \/ LiveAt(fw, g) = {o}
  BY <1>4, <1>1 DEF Once, LiveAt
<1>14. o = 0 \/ (o \in InUse(fw) /\ ~fw.rule[o].backup /\ fw.rule[o].guid = g)
  BY <1>3
<1>6. upd.list[g] \in Contents
  BY <1>3
<1>7. upd' = [pc |-> "apply", list |-> upd.list, old |-> upd.old \ old, todo |-> upd.todo \ {g}]
  BY <1>2, <1>3
<1>8. /\ upd'.pc = "apply" /\ upd'.list = upd.list /\ upd'.old = upd.old \ old
      /\ upd'.todo = upd.todo \ {g}
  BY <1>7
<1>9. /\ \A p \in upd.old \ old : Aside(fw, p) \/ fw.rule[p].guid \notin {g} \cup doubtful
      /\ \A a \in Guids \ {g} : LiveAt(fw, a) \cap upd.old \subseteq upd.old \ old
  BY DEF Aside, LiveAt
<1> HIDE DEF o, old
<1>10. Moves(fw, fw', {g} \cup doubtful) /\ (g \notin doubtful => Single(fw', g, upd.list[g]))
  BY <1>1, <1>2, <1>5, <1>6, <1>14, ChangeStep, ChangeSafe
<1>13. doubtful \subseteq doubtful' /\ (g \notin doubtful' => Alone(fw', g))
  BY <1>2, <1>10 DEF Single
<1>11. WalkIsWhole'
  <2>1. upd.list[g] # Gone
    BY <1>1, <1>2 DEF WalkIsWhole
  <2> QED BY <1>8, <1>1, <1>2, <1>9, <1>10, <1>13, <2>1, WalkGoesOn
<1>12. g \notin doubtful' => Mirrored(g)'
  BY <1>2, <1>10, <1>13 DEF Single, Mirrored, Shows
<1> QED BY <1>1, <1>2, <1>8, <1>10, <1>11, <1>12, <1>13, MirrorWalk

\* UpdateRules takes a rule that is not in the list for removed.
LEMMA MirrorUpdateMissing ==
    ASSUME Safe, MirrorInv, NEW o, UpdateMissing(o)
    PROVE  MirrorInv'
<1>1. Shape /\ Once /\ WalkIsWhole /\ Sound(fw) /\ doubtful \in SUBSET Guids
  BY DEF Safe, MirrorInv, Shape
<1>2. /\ upd.pc = "apply" /\ upd.todo = {} /\ o \in upd.old /\ Change(fw.rule[o].guid, Gone, o)
      /\ upd' = [upd EXCEPT !.old = @ \ {o}]
      /\ UNCHANGED <<win, log, cache, guard, m_UpdateAllRules, tick, user, file>>
      /\ doubtful \subseteq doubtful'
  BY DEF UpdateMissing, winVars
<1>3. /\ upd.list \in [Guids -> Contents] /\ upd.old \subseteq InUse(fw)
      /\ upd = [pc |-> "apply", list |-> upd.list, old |-> upd.old, todo |-> upd.todo]
  BY <1>1, <1>2, InHand
<1>4. upd' = [pc |-> "apply", list |-> upd.list, old |-> upd.old \ {o}, todo |-> upd.todo]
  BY <1>2, <1>3
<1>5. /\ upd'.pc = "apply" /\ upd'.list = upd.list /\ upd'.old = upd.old \ {o}
      /\ upd'.todo = {}
  BY <1>2, <1>4
<1>6. o \in InUse(fw) /\ Gone \in Contents
  BY <1>2, <1>3 DEF Contents
<1>7. PICK g \in Guids : g = fw.rule[o].guid
  BY <1>1, <1>6, InUseIsRule
<1>10. /\ \A a \in Guids \ {g} : LiveAt(fw, a) \cap upd.old \subseteq upd'.old
       /\ \A p \in upd'.old : Aside(fw, p) \/ fw.rule[p].guid \notin doubtful
  BY <1>5, <1>7 DEF LiveAt, Aside
<1>11. CASE fw.rule[o].backup \/ g \in doubtful
  <2>1. ASSUME fw.rule[o].backup
        PROVE  Moves(fw, fw', doubtful)
    BY <1>1, <1>2, <1>6, <2>1, BackupStep DEF Moves
  <2>2. ASSUME g \in doubtful
        PROVE  Moves(fw, fw', doubtful)
    <3>1. Moves(fw, fw', {g} \cup doubtful)
      BY <1>1, <1>2, <1>6, <1>7, ChangeSafe
    <3> QED BY <2>2, <3>1 DEF Moves
  <2>3. Moves(fw, fw', doubtful)
    BY <1>11, <2>1, <2>2
  <2>4. \A a \in Guids \ doubtful : LiveAt(fw, a) \cap upd.old \subseteq upd'.old
    BY <1>5, <1>7, <1>10, <1>11 DEF LiveAt, Live
  <2>5. WalkIsWhole'
    BY <1>1, <1>2, <1>5, <1>10, <2>3, <2>4, WalkGoesOn
  <2> QED BY <1>1, <1>2, <1>5, <2>3, <2>5, MirrorWalk
<1>12. CASE ~fw.rule[o].backup /\ g \notin doubtful
  <2> DEFINE G == {g} \cup doubtful
  <2>1. o \in LiveAt(fw, g)
    BY <1>1, <1>2, <1>7, <1>12 DEF WalkIsWhole, LiveAt, Live, Aside
  <2>2. LiveAt(fw, g) = {o}
    BY <1>1, <1>12, <2>1 DEF Once, LiveAt
  <2>3. Moves(fw, fw', G) /\ Single(fw', g, Gone)
    BY <1>1, <1>2, <1>6, <1>7, <1>12, <2>2, ChangeStep, ChangeSafe
  <2>4. LiveAt(fw', g) = {} /\ Alone(fw', g)
    BY <2>3 DEF Single, Shows
  <2>6. \A p \in upd'.old : Aside(fw, p) \/ fw.rule[p].guid \notin G
    BY <1>1, <1>2, <1>5, <2>2 DEF WalkIsWhole, LiveAt, Live, Aside
  <2>7. WalkIsWhole'
    BY <1>1, <1>2, <1>5, <1>10, <2>3, <2>4, <2>6, WalkGoesOn
  <2>8. g \notin doubtful' => win[g] = Gone
    BY <1>7, <1>12 DEF UpdateMissing
  <2>9. g \notin doubtful' => Mirrored(g)'
    BY <1>2, <2>4, <2>8 DEF Mirrored, Shows
  <2> QED BY <1>1, <1>2, <1>5, <2>3, <2>4, <2>7, <2>9, MirrorWalk
<1> QED BY <1>11, <1>12

\* UpdateRules has gone through the list: what the map still shows is in it.
LEMMA MirrorFinishUpdateRules ==
    ASSUME Safe, MirrorInv, FinishUpdateRules
    PROVE  MirrorInv'
<1>1. /\ Shape /\ Once /\ NewestTells /\ CacheKnows /\ ReadIsFresh /\ Follows
      /\ StartIsQuiet /\ WalkIsWhole /\ Sound(fw) /\ Pinned \subseteq InUse(fw)
  BY PinnedInUse DEF Safe, MirrorInv, Shape
<1>2. /\ upd.pc = "apply" /\ upd.todo = {} /\ upd.old = {} /\ upd'.pc = "idle"
      /\ fw' = Collected(fw) /\ ~m_UpdateAllRules'
      /\ UNCHANGED <<win, log, cache, guard, tick, user, file, doubtful>>
  BY DEF FinishUpdateRules, winVars, history, Idle
<1>3. Moves(fw, fw', {})
  BY <1>1, TouchesLists, <1>2, TouchesMoves
<1>4. Once'
  BY <1>1, <1>2, <1>3, OnceKept DEF Moves, Unmoved, Sound, Rules
<1>5. NewestTells' /\ StartIsQuiet' /\ WalkIsWhole'
  BY <1>1, <1>2, SameLog DEF StartIsQuiet, WalkIsWhole
<1>6. CacheKnows' /\ ReadIsFresh'
  BY <1>1, <1>2 DEF CacheKnows, ReadIsFresh, Reading, Pending
<1>7. ASSUME NEW a \in Guids \ doubtful'
      PROVE  (Pending(a) \/ Reading(a) \/ Mirrored(a) \/ Caught(a))'
  <2>1. Pending(a) \/ Reading(a) \/ Mirrored(a) \/ Caught(a)
    BY <1>1, <1>2, <1>7 DEF Follows
  <2>2. (Pending(a) => Pending(a)') /\ (Reading(a) => Reading(a)')
    BY <1>2 DEF Pending, Reading
  <2>3. Unmoved(fw, fw', a)
    BY <1>3 DEF Moves
  <2>4. Mirrored(a) => Mirrored(a)'
    BY <1>2, <2>3, StillMirrored
  <2>5. Caught(a) => Mirrored(a)
    BY <1>1, <1>2 DEF Caught, WalkIsWhole, Mirrored, Shows
  <2> QED BY <2>1, <2>2, <2>4, <2>5
<1>8. Follows'
  BY <1>7 DEF Follows
<1> QED BY <1>4, <1>5, <1>6, <1>8 DEF MirrorInv

\* The map that LoadRules makes of a stored one has one live rule for a guid.
LEMMA LoadedLive ==
    ASSUME NEW S, S \subseteq Saved, IsFiniteSet(S), Cardinality(S) <= MaxRules,
           NEW D,
           \A r, t \in S : ~r.backup /\ ~t.backup /\ r.guid = t.guid /\ r.guid \notin D => r = t
    PROVE  /\ \A o, p \in Live(Loaded(S)) :
                Loaded(S).rule[o].guid = Loaded(S).rule[p].guid /\ Loaded(S).rule[o].guid \notin D => o = p
           /\ \A o \in Live(Loaded(S)) : \E r \in S : ~r.backup /\ Loaded(S).rule[o] = ObjectOf(r)
           /\ \A r \in S : ~r.backup => \E o \in Live(Loaded(S)) : Loaded(S).rule[o] = ObjectOf(r)
<1>1. PICK f : f = Loaded(S)
  OBVIOUS
<1>2. /\ \A o \in f.m_FwRules : \E r \in S : f.rule[o] = ObjectOf(r)
      /\ \A r \in S : \E o \in f.m_FwRules : f.rule[o] = ObjectOf(r)
      /\ \A o, p \in f.m_FwRules : f.rule[o] = f.rule[p] => o = p
  BY <1>1, LoadedIs
<1>3. \A r : ObjectOf(r).guid = r.guid /\ ObjectOf(r).backup = r.backup
  BY DEF ObjectOf
<1>4. \A o \in Live(f) : \E r \in S : ~r.backup /\ f.rule[o] = ObjectOf(r)
  BY <1>2, <1>3 DEF Live
<1>5. \A r \in S : ~r.backup => \E o \in Live(f) : f.rule[o] = ObjectOf(r)
  BY <1>2, <1>3 DEF Live
<1>6. ASSUME NEW o \in Live(f), NEW p \in Live(f), f.rule[o].guid = f.rule[p].guid, f.rule[o].guid \notin D
      PROVE  o = p
  BY <1>4, <1>3, <1>6, <1>2 DEF Live
<1> QED BY <1>1, <1>4, <1>5, <1>6

\* A start reads the stored map, and UpdateRules is to come.
LEMMA MirrorRestart ==
    ASSUME Safe, MirrorInv, Restart
    PROVE  MirrorInv'
<1>1. /\ file \subseteq Saved /\ IsFiniteSet(file) /\ Cardinality(file) <= MaxRules
      /\ \A r, t \in file : ~r.backup /\ ~t.backup /\ r.guid = t.guid /\ r.guid \notin doubtful => r = t
  BY DEF Safe, Shape, MirrorInv, Once
<1>2. /\ fw' = Loaded(file) /\ file' = file /\ log' = <<>>
      /\ guard'.pc = "idle" /\ upd'.pc = "idle" /\ user' = Idle /\ tick' = "ask"
      /\ m_UpdateAllRules' /\ doubtful' = doubtful
  BY DEF Restart, Idle
<1>3. Once'
  BY <1>1, <1>2, LoadedLive DEF Once
<1>4. DOMAIN log' = {}
  BY <1>2
<1>5. NewestTells' /\ CacheKnows' /\ ReadIsFresh' /\ WalkIsWhole' /\ StartIsQuiet'
  BY <1>2, <1>4 DEF NewestTells, CacheKnows, ReadIsFresh, Reading, WalkIsWhole, StartIsQuiet
<1>6. Follows'
  BY <1>2 DEF Follows, Caught
<1> QED BY <1>3, <1>5, <1>6 DEF MirrorInv

LEMMA MirrorInit ==
    ASSUME Init
    PROVE  MirrorInv
<1>1. /\ file \in Starts /\ fw = Loaded(file) /\ log = <<>> /\ cache = {r.guid : r \in file}
      /\ guard.pc = "idle" /\ upd.pc = "idle" /\ user = Idle /\ tick = "ask" /\ ~m_UpdateAllRules
      /\ \A g \in Guids : win[g] = IF \E r \in file : r.guid = g
                                   THEN (CHOOSE r \in file : r.guid = g).c ELSE Gone
  BY DEF Init, Idle
<1>2. /\ file \subseteq Saved /\ IsFiniteSet(file) /\ Cardinality(file) <= MaxRules
      /\ \A r, t \in file : ~r.backup /\ (r.guid = t.guid => r = t)
  BY <1>1, FirewallAssumption
<1>3. /\ \A o, p \in Live(fw) : fw.rule[o].guid = fw.rule[p].guid => o = p
      /\ \A o \in Live(fw) : \E r \in file : fw.rule[o] = ObjectOf(r)
      /\ \A r \in file : \E o \in Live(fw) : fw.rule[o] = ObjectOf(r)
  <2>1. PICK D : D = {}
    OBVIOUS
  <2>2. \A r, t \in file : ~r.backup /\ ~t.backup /\ r.guid = t.guid /\ r.guid \notin D => r = t
    BY <1>2
  <2>3. /\ file \subseteq Saved /\ IsFiniteSet(file) /\ Cardinality(file) <= MaxRules
        /\ \A g : g \notin D
    BY <1>2, <2>1
  <2> QED BY <1>1, <1>2, <2>2, <2>3, LoadedLive
<1>4. Once
  BY <1>2, <1>3 DEF Once
<1>5. \A r : ObjectOf(r).guid = r.guid /\ ObjectOf(r).c = r.c
  BY DEF ObjectOf
<1>6. "none" \notin Kinds /\ \A r \in file : r.c \in Content
  BY <1>2, FirewallAssumption DEF Saved
<1>7. \A r \in file : r.c # Gone
  BY <1>6 DEF Content, Gone
<1>8. ASSUME NEW g \in Guids
      PROVE  Mirrored(g) /\ (win[g] # Gone => g \in cache)
  BY <1>2, <1>1, <1>3, <1>5, <1>7 DEF LiveAt, Mirrored, Shows
<1>9. DOMAIN log = {}
  BY <1>1
<1>10. NewestTells /\ CacheKnows /\ ReadIsFresh /\ WalkIsWhole /\ StartIsQuiet /\ Follows
  BY <1>1, <1>8, <1>9 DEF NewestTells, CacheKnows, ReadIsFresh, Reading, WalkIsWhole, StartIsQuiet, Follows
<1> QED BY <1>4, <1>10 DEF MirrorInv

LEMMA MirrorNext ==
    ASSUME Safe, MirrorInv, [Next]_vars
    PROVE  MirrorInv'
<1>1. CASE \E g \in Guids \ Random, c \in Content \cup {Gone} : ForeignChange(g, c)
  BY <1>1, MirrorForeignChange DEF Contents
<1>2. CASE \/ \E g \in Guids, c \in Content : SetRule(g, c)
           \/ Compare \/ DropBackups \/ \E o \in Ids : SetBackup(o)
           \/ AskAboutWithdrawnRules \/ ReleaseHeldRules \/ ForgetSettled
           \/ LockForRevert \/ FinishRevert
  BY <1>2, MirrorLists
<1>3. CASE \/ \E o \in Ids : DelRule(o) \/ RejectRule(o) \/ RevertRule(o)
           \/ WriteRule \/ RestoreBackup
  BY <1>3, MirrorWrites
<1>4. CASE TakeEvent \/ OnFwGuardEvent
  BY <1>4, MirrorTakeEvent, MirrorOnFwGuardEvent
<1>5. CASE StartUpdateRules \/ LockForUpdate \/ FinishUpdateRules
  BY <1>5, MirrorStartUpdateRules, MirrorLockForUpdate, MirrorFinishUpdateRules
<1>6. CASE \E g \in Guids : UpdateListed(g)
  BY <1>6, MirrorUpdateListed
<1>7. CASE \E o \in Ids : UpdateMissing(o)
  BY <1>7, MirrorUpdateMissing
<1>8. CASE Approve \/ Store \/ Restart
  BY <1>8, MirrorApprove, MirrorStore, MirrorRestart
<1>9. CASE UNCHANGED vars
  BY <1>9, MirrorStutter
<1> QED BY <1>1, <1>2, <1>3, <1>4, <1>5, <1>6, <1>7, <1>8, <1>9 DEF Next, AgentNext

THEOREM MirrorInductive == Spec => [](Safe /\ MirrorInv)
<1>1. Init => Safe /\ MirrorInv
  BY SafeInit, MirrorInit
<1>2. Safe /\ MirrorInv /\ [Next]_vars => (Safe /\ MirrorInv)'
  BY SafeNext, MirrorNext
<1> QED BY <1>1, <1>2, PTL DEF Spec

\* OnFwGuardEvent, UpdateRules, RestoreRule: once every event is handled the map
\* has one rule for each rule in Windows, and the same, unless a call about it
\* failed, the whole list was applied late, or SetRule has left a backup in the map
\* under its random guid; through changes of other programs, requests and their
\* steps without the lock, undone changes and restarts.
THEOREM MapMirrors == Spec => []MirrorsWindows
<1>1. Safe /\ MirrorInv => MirrorsWindows
  <2> SUFFICES ASSUME Safe, MirrorInv, Handled, NEW g \in Guids \ doubtful
               PROVE  {fw.rule[o].c : o \in LiveAt(fw, g)} = {win[g]} \ {Gone}
    BY DEF MirrorsWindows
  <2>1. ~Pending(g) /\ ~Reading(g) /\ ~Caught(g)
    BY DEF Handled, Pending, Reading, Caught, Idle
  <2>2. Mirrored(g)
    BY <2>1 DEF MirrorInv, Follows
  <2> QED BY <2>2 DEF Mirrored, Shows
<1> QED BY <1>1, MirrorInductive, PTL

-----------------------------------------------------------------------------
(* What waits in the lists.  The agent's own write of a rule it turned down  *)
(* matches the map only if the rule is still in the map; so every rule in    *)
(* m_RulesToRemove has to be a live one, and what leads there has to be kept *)
(* clear of what takes rules out of the map.                                 *)

\* Without one of its elements a sequence lists the others as often as before.
LEMMA RemoveAtIs ==
    ASSUME NEW S, NEW s \in Seq(S), NEW i \in DOMAIN s
    PROVE  /\ RemoveAt(s, i) \in Seq(S) /\ Len(RemoveAt(s, i)) = Len(s) - 1
           /\ \A j \in DOMAIN RemoveAt(s, i) :
                RemoveAt(s, i)[j] = IF j < i THEN s[j] ELSE s[j + 1]
<1> DEFINE a == SubSeq(s, 1, i - 1)
           b == SubSeq(s, i + 1, Len(s))
<1>1. i \in 1..Len(s) /\ Len(s) \in Nat
  OBVIOUS
<1>2. /\ a \in Seq(S) /\ Len(a) = i - 1
      /\ \A j \in 1..(i - 1) : a[j] = s[j]
  BY <1>1
<1>3. /\ b \in Seq(S) /\ Len(b) = Len(s) - i
      /\ \A j \in 1..(Len(s) - i) : b[j] = s[i + j]
  BY <1>1
<1>4. RemoveAt(s, i) = a \o b
  BY DEF RemoveAt
<1> HIDE DEF a, b
<1>5. /\ a \o b \in Seq(S) /\ Len(a \o b) = Len(s) - 1
      /\ \A j \in 1..Len(a \o b) :
            (a \o b)[j] = IF j <= Len(a) THEN a[j] ELSE b[j - Len(a)]
  BY <1>1, <1>2, <1>3
<1>6. ASSUME NEW j \in DOMAIN (a \o b)
      PROVE  (a \o b)[j] = IF j < i THEN s[j] ELSE s[j + 1]
  <2>1. j \in 1..(Len(s) - 1)
    BY <1>5
  <2>2. CASE j < i
    BY <1>1, <1>2, <1>5, <2>1, <2>2
  <2>3. CASE ~(j < i)
    <3>1. j - Len(a) \in 1..(Len(s) - i) /\ i + (j - Len(a)) = j + 1
      BY <1>1, <1>2, <2>1, <2>3
    <3> QED BY <1>1, <1>2, <1>3, <1>5, <2>1, <2>3, <3>1
  <2> QED BY <2>2, <2>3
<1> QED BY <1>4, <1>5, <1>6

LEMMA RemoveAtLists ==
    ASSUME NEW S, NEW s \in Seq(S), NEW i \in DOMAIN s
    PROVE  /\ Listed(s) \subseteq Listed(RemoveAt(s, i)) \cup {s[i]}
           /\ \A x \in Listed(RemoveAt(s, i)) : \E j \in DOMAIN s \ {i} : s[j] = x
<1> DEFINE t == RemoveAt(s, i)
<1>1. /\ t \in Seq(S) /\ Len(t) = Len(s) - 1
      /\ \A j \in DOMAIN t : t[j] = IF j < i THEN s[j] ELSE s[j + 1]
  BY RemoveAtIs
<1>2. i \in 1..Len(s) /\ Len(s) \in Nat /\ DOMAIN s = 1..Len(s)
  OBVIOUS
<1> HIDE DEF t
<1>3. DOMAIN t = 1..(Len(s) - 1)
  BY <1>1
<1>4. ASSUME NEW j \in DOMAIN s, j # i
      PROVE  s[j] \in Listed(t)
  <2>1. CASE j < i
    BY <1>1, <1>2, <1>3, <1>4, <2>1 DEF Listed
  <2>2. CASE ~(j < i)
    <3>1. j - 1 \in DOMAIN t /\ t[j - 1] = s[j]
      BY <1>1, <1>2, <1>3, <1>4, <2>2
    <3> QED BY <3>1 DEF Listed
  <2> QED BY <2>1, <2>2
<1>5. ASSUME NEW j \in DOMAIN t
      PROVE  \E k \in DOMAIN s \ {i} : s[k] = t[j]
  BY <1>1, <1>2, <1>3, <1>5
<1> QED BY <1>4, <1>5 DEF Listed, t

\* A rule taken out of the held ones is not in the list any more.
LEMMA TakeHeldIs ==
    ASSUME NEW f, Sound(f), HeldOnce(f), NEW o
    PROVE  /\ HeldOnce(TakeHeldRule(f, o))
           /\ InHeld(TakeHeldRule(f, o)) = InHeld(f) \ {o}
           /\ Listed(TakeHeldRule(f, o).m_HeldRules) \subseteq Listed(f.m_HeldRules)
<1> DEFINE s == f.m_HeldRules
           I == {i \in 1..Len(s) : s[i].pRule = o}
           i == IF I # {} THEN Min(I) ELSE 0
           t == RemoveAt(s, i)
           h == TakeHeldRule(f, o)
<1>1. h = IF i = 0 THEN f ELSE [f EXCEPT !.m_HeldRules = t]
  BY DEF TakeHeldRule, SelectInSeq
<1>2. s \in Seq(Held) /\ DOMAIN s = 1..Len(s) /\ f \in Rules
  BY SoundParts DEF Sound
<1>3. I # {} => i \in I
  BY MinIsIn
<1>4. 0 \notin I /\ 0 \notin DOMAIN s
  BY <1>2
<1> HIDE DEF i
<1>5. CASE I = {}
  BY <1>5, <1>2, <1>1 DEF i, InHeld, Listed
<1>6. CASE I # {}
  <2>1. i \in DOMAIN s /\ s[i].pRule = o /\ i # 0
    BY <1>2, <1>3, <1>4, <1>6
  <2>2. h.m_HeldRules = t
    BY <1>1, <1>2, <2>1 DEF Rules
  <2>3. /\ t \in Seq(Held) /\ Len(t) = Len(s) - 1
        /\ \A j \in DOMAIN t : t[j] = IF j < i THEN s[j] ELSE s[j + 1]
    BY <1>2, <2>1, RemoveAtIs
  <2>4. /\ Listed(s) \subseteq Listed(t) \cup {s[i]}
        /\ \A x \in Listed(t) : \E j \in DOMAIN s \ {i} : s[j] = x
    BY <1>2, <2>1, RemoveAtLists
  <2> HIDE DEF t, h
  <2>5. HeldOnce(h)
    <3> SUFFICES ASSUME NEW j \in DOMAIN t, NEW k \in DOMAIN t, t[j].pRule = t[k].pRule
                 PROVE  j = k
      BY <2>2 DEF HeldOnce
    <3>1. j \in 1..(Len(s) - 1) /\ k \in 1..(Len(s) - 1) /\ i \in 1..Len(s) /\ Len(s) \in Nat
      BY <1>2, <2>1, <2>3
    <3>2. PICK a \in DOMAIN s : a = IF j < i THEN j ELSE j + 1
      BY <1>2, <3>1
    <3>3. PICK b \in DOMAIN s : b = IF k < i THEN k ELSE k + 1
      BY <1>2, <3>1
    <3>4. t[j] = s[a] /\ t[k] = s[b]
      BY <2>3, <3>2, <3>3
    <3>5. a = b
      BY <3>4 DEF HeldOnce
    <3> QED BY <3>1, <3>2, <3>3, <3>5
  <2>6. InHeld(h) \subseteq InHeld(f) \ {o}
    BY <2>2, <2>4, <2>1 DEF InHeld, HeldOnce, Listed
  <2>7. InHeld(f) \ {o} \subseteq InHeld(h)
    BY <2>1, <2>2, <2>4 DEF InHeld
  <2>8. Listed(h.m_HeldRules) \subseteq Listed(f.m_HeldRules)
    BY <2>2, <2>4 DEF Listed
  <2> QED BY <2>5, <2>6, <2>7, <2>8 DEF h
<1> QED BY <1>5, <1>6 DEF h

LEMMA UndoingInUse ==
    ASSUME NEW f, Sound(f)
    PROVE  Undoing(f) \subseteq InUse(f) /\ InHeld(f) \subseteq InUse(f) /\ Live(f) \subseteq InUse(f)

BY DEF Undoing, Waiting, InHeld, Sound, Live

LEMMA ResolvesPlaced ==
    ASSUME NEW f, Sound(f), Placed(f), NEW h, Sound(h), NEW g, NEW o, NEW N, Resolves(f, h, g, o, N),
           o = 0 \/ o \in InUse(f), o \notin f.m_RulesToRemove, o \notin InHeld(f),
           \* o is the live rule of g, if it is one at all
           cfg.GuardFwRules => \A p \in Live(f) :
               \/ p = o \/ o = 0 \/ o \in Undoing(f) \/ o \notin Undoing(h)
               \/ f.rule[p].guid # f.rule[o].guid,
           \* a new rule is held back only where nothing is to be restored
           cfg.GuardFwRules /\ InHeld(h) \cap N # {} =>
               o = 0 /\ \A b \in Undoing(f) : f.rule[b].guid # g
    PROVE  Placed(h)
<1>1. /\ Undoing(f) \subseteq InUse(f) /\ InHeld(f) \subseteq InUse(f) /\ Live(f) \subseteq InUse(f)
      /\ Undoing(h) \subseteq InUse(h) /\ 0 \notin InUse(f) /\ f.m_RulesToRemove \subseteq Live(f)
  BY UndoingInUse DEF InUse, Ids, Placed
<1>2. ASSUME NEW p \in Live(f), p # o
      PROVE  p \in Live(h)
  BY <1>1, <1>2 DEF Resolves, Live
<1>3. \A n \in N : n \in Live(h)
  BY DEF Resolves, Live
<1>4. h.m_RulesToRemove \subseteq Live(h)
  BY <1>1, <1>2, <1>3 DEF Resolves, Placed
<1>5. InHeld(h) \cap h.m_RulesToRemove = {}
  BY <1>1 DEF Resolves, Placed
<1>6. \A b \in Undoing(h) : h.rule[b].backup
  BY <1>1 DEF Resolves, Placed
<1>7. \A p \in InUse(h) : ~h.rule[p].err
  BY DEF Resolves, Placed
<1>8. ASSUME cfg.GuardFwRules
      PROVE  /\ InHeld(h) \subseteq Live(h)
             /\ Backups(h) \subseteq Undoing(h)
             /\ \A b \in Undoing(h), n \in InHeld(h) : h.rule[b].guid # h.rule[n].guid
  BY <1>8, <1>2, <1>3, <1>1, <1>6 DEF Placed, Resolves, Backups, Sound
<1> QED BY <1>4, <1>5, <1>6, <1>7, <1>8 DEF Placed

LEMMA StateKept ==
    ASSUME NEW f, Sound(f), NEW o \in InUse(f), NEW s
    PROVE  LET h == [f EXCEPT !.rule[o].state = s]
           IN SameObjects(f, h) /\ h.m_FwRules = f.m_FwRules /\ SameLists(f, h)
<1> DEFINE r == [f.rule[o] EXCEPT !.state = s]
           h == [f EXCEPT !.rule[o].state = s]
<1>1. f \in Rules /\ f.rule \in [Ids -> Object] /\ o \in Ids /\ f.rule[o] \in Rule
  BY InUseIsRule, SoundParts DEF Sound
<1>2. h.rule = [f.rule EXCEPT ![o] = r]
  BY <1>1 DEF Rules
<1>3. h.m_FwRules = f.m_FwRules /\ SameLists(f, h)
  BY <1>1 DEF Rules, SameLists
<1>4. r.guid = f.rule[o].guid /\ r.err = f.rule[o].err /\ r.backup = f.rule[o].backup
  BY <1>1 DEF Rule
<1>5. r # Free
  BY <1>1, <1>4, FirewallAssumption DEF Rule, Free
<1> HIDE DEF r, h
<1>6. h.rule[o] = r /\ \A p \in Ids \ {o} : h.rule[p] = f.rule[p]
  BY <1>1, <1>2
<1>7. InUse(h) = InUse(f)
  BY <1>5, <1>6 DEF InUse
<1>8. SameObjects(f, h)
  BY <1>4, <1>6, <1>7 DEF SameObjects, InUse
<1> QED BY <1>3, <1>8 DEF h

\* Lists that are no longer than they were, of objects that are the same.
LEMMA MarkedLess ==
    ASSUME NEW f, Marked(f), NEW h,
           Listed(h.m_WithdrawnRules) \subseteq Listed(f.m_WithdrawnRules),
           Listed(h.m_HeldRules) \subseteq Listed(f.m_HeldRules)
    PROVE  Marked(h)

BY DEF Marked

LEMMA SameListsSame ==
    ASSUME NEW f, NEW h, SameLists(f, h)
    PROVE  /\ InHeld(h) = InHeld(f) /\ Undoing(h) = Undoing(f) /\ Waiting(h) = Waiting(f)
           /\ HeldOnce(f) => HeldOnce(h)
           /\ Marked(f) => Marked(h)

BY DEF SameLists, InHeld, Undoing, Waiting, HeldOnce, Marked

LEMMA RemovalIs ==
    ASSUME NEW f, Sound(f), HeldOnce(f), NEW o \in InUse(f), NEW twin, NEW wasHeld,
           twin # 0 => twin \in InUse(f) /\ f.rule[twin].c = f.rule[o].c
    PROVE  Removes(f, RemovalApproved(f, o, twin, wasHeld), o, twin)
<1> DEFINE f1 == [f EXCEPT !.m_FwRules = f.m_FwRules \ {o}]
           f2 == IF f1.rule[twin].state = "approved" THEN f1 ELSE TakeOver(f1, twin, o)
           f3 == TakeHeldRule(f2, twin)
           f4 == [f3 EXCEPT !.m_RulesToRemove = f3.m_RulesToRemove \ {twin}]
           f5 == [f1 EXCEPT !.m_SettledRemovals = Append(f1.m_SettledRemovals, o)]
           h  == RemovalApproved(f, o, twin, wasHeld)
<1>1. h = CASE twin # 0 -> f4
            [] twin = 0 /\ ~wasHeld -> f5
            [] OTHER -> f1
  BY DEF RemovalApproved
<1> HIDE DEF h
<1>2. f \in Rules
  BY DEF Sound
<1>3. /\ Drops(f, f1, o) /\ SameLists(f, f1) /\ f1.rule = f.rule
      /\ f1.m_FwRules = f.m_FwRules \ {o}
  BY <1>2, LeaveMap DEF Rules
<1> HIDE DEF f1
<1>4. Sound(f1) /\ InUse(f1) = InUse(f) /\ SameObjects(f, f1)
  BY <1>3 DEF Drops, InUse, SameObjects
<1>5. HeldOnce(f1) /\ InHeld(f1) = InHeld(f)
  BY <1>3, SameListsSame
<1>6. /\ f1.m_RulesToRemove = f.m_RulesToRemove /\ f1.m_RulesToRevert = f.m_RulesToRevert
      /\ f1.m_WithdrawnRules = f.m_WithdrawnRules /\ f1.m_HeldRules = f.m_HeldRules
  BY <1>3 DEF SameLists
<1>7. ASSUME twin # 0
      PROVE  Removes(f, f4, o, twin)
  <2>1. twin \in InUse(f1) /\ o \in InUse(f1) /\ f1.rule[twin].c = f1.rule[o].c
    BY <1>3, <1>4, <1>7
  <2>2. /\ Sound(f2) /\ SameLists(f1, f2) /\ SameObjects(f1, f2) /\ f2.m_FwRules = f1.m_FwRules
        /\ \A p \in InUse(f1) : f2.rule[p].c = f1.rule[p].c
        /\ \A p \in InUse(f1) \ {twin} : f2.rule[p].state = f1.rule[p].state
        /\ f2.rule[twin].state \in {"approved", f1.rule[o].state}
    <3>1. CASE f1.rule[twin].state = "approved"
      BY <1>4, <3>1 DEF SameLists, SameObjects
    <3>2. CASE f1.rule[twin].state # "approved"
      <4> DEFINE s == f1.rule[o].state
                 k == [f1 EXCEPT !.rule[twin].state = s]
      <4>1. f2 = k /\ k = TakeOver(f1, twin, o)
        BY <3>2 DEF TakeOver
      <4>2. Sound(TakeOver(f1, twin, o))
        BY <1>4, <2>1, TakeOverEffect DEF Touches
      <4>3. SameObjects(f1, k) /\ k.m_FwRules = f1.m_FwRules /\ SameLists(f1, k)
        BY <1>4, <2>1, StateKept
      <4>4. /\ \A p \in InUse(f1) : k.rule[p].c = f1.rule[p].c
            /\ \A p \in InUse(f1) \ {twin} : k.rule[p].state = f1.rule[p].state
            /\ k.rule[twin].state = s
        BY <1>4, <2>1, InUseIsRule, SoundParts DEF Sound, Rules, Rule, InUse
      <4> HIDE DEF k
      <4> QED BY <4>1, <4>2, <4>3, <4>4
    <3> QED BY <3>1, <3>2
  <2> HIDE DEF f2
  <2>3. HeldOnce(f2) /\ InHeld(f2) = InHeld(f1)
    BY <1>5, <2>2, SameListsSame
  <2>4. /\ Sound(f3) /\ f3.rule = f2.rule /\ f3.m_FwRules = f2.m_FwRules
        /\ f3.m_RulesToRemove = f2.m_RulesToRemove /\ f3.m_RulesToRevert = f2.m_RulesToRevert
        /\ f3.m_WithdrawnRules = f2.m_WithdrawnRules
    BY <2>2, TakeHeldEffect
  <2>5. /\ HeldOnce(f3) /\ InHeld(f3) = InHeld(f2) \ {twin}
        /\ Listed(f3.m_HeldRules) \subseteq Listed(f2.m_HeldRules)
    BY <2>2, <2>3, TakeHeldIs
  <2> HIDE DEF f3
  <2>6. /\ f4.rule = f3.rule /\ f4.m_FwRules = f3.m_FwRules /\ f4.m_RulesToRevert = f3.m_RulesToRevert
        /\ f4.m_HeldRules = f3.m_HeldRules /\ f4.m_WithdrawnRules = f3.m_WithdrawnRules
        /\ f4.m_RulesToRemove = f3.m_RulesToRemove \ {twin}
    BY <2>4 DEF Sound, Rules
  <2> HIDE DEF f4
  <2>7. HeldOnce(f4) /\ InHeld(f4) = InHeld(f3)
    BY <2>5, <2>6 DEF HeldOnce, InHeld
  <2>8. SameObjects(f, f4)
    BY <1>3, <2>4, <2>6, <2>2 DEF SameObjects, InUse
  <2>9. /\ f4.m_RulesToRevert = f.m_RulesToRevert /\ f4.m_WithdrawnRules = f.m_WithdrawnRules
        /\ f4.m_RulesToRemove = f.m_RulesToRemove \ {twin} /\ f4.m_FwRules = f.m_FwRules \ {o}
        /\ Listed(f4.m_HeldRules) \subseteq Listed(f.m_HeldRules)
    BY <1>3, <1>6, <2>2, <2>4, <2>5, <2>6 DEF SameLists
  <2>10. InHeld(f4) = InHeld(f) \ {twin}
    BY <1>5, <2>3, <2>5, <2>7
  <2>11. /\ \A p \in InUse(f) : f4.rule[p].c = f.rule[p].c
         /\ \A p \in InUse(f) \ {twin} : f4.rule[p].state = f.rule[p].state
         /\ f4.rule[twin].state \in {"approved", f.rule[o].state}
    BY <1>3, <1>4, <2>2, <2>4, <2>6
  <2> QED BY <2>7, <2>8, <2>9, <2>10, <2>11 DEF Removes
<1>8. ASSUME twin = 0
      PROVE  Removes(f, f1, o, twin) /\ Removes(f, f5, o, twin)
  BY <1>4, UndoingInUse, <1>8, <1>3, <1>5, <1>6 DEF Sound, Rules, InUse, Ids, SameObjects, HeldOnce,
     InHeld, Removes
<1> HIDE DEF f4, f5
<1>9. Removes(f, h, o, twin)
  BY <1>1, <1>7, <1>8
<1> QED BY <1>9 DEF h

\* RemovalApproved keeps the lists in order.
LEMMA RemovalPlaces ==
    ASSUME NEW f, Sound(f), Tidy(f), NEW o \in InUse(f), NEW twin, NEW wasHeld, NEW g,
           twin # 0 => twin \in InUse(f) /\ f.rule[twin].c = f.rule[o].c
    PROVE  LET h == RemovalApproved(f, o, twin, wasHeld)
           IN Resolves(f, h, g, o, {}) /\ HeldOnce(h) /\ Marked(h)
<1> DEFINE h == RemovalApproved(f, o, twin, wasHeld)
<1>1. HeldOnce(f) /\ Marked(f) /\ Placed(f)
  BY DEF Tidy
<1>2. /\ SameObjects(f, h) /\ h.m_FwRules = f.m_FwRules \ {o}
      /\ h.m_RulesToRevert = f.m_RulesToRevert /\ h.m_WithdrawnRules = f.m_WithdrawnRules
      /\ h.m_RulesToRemove = f.m_RulesToRemove \ {twin} /\ InHeld(h) = InHeld(f) \ {twin}
      /\ HeldOnce(h) /\ Listed(h.m_HeldRules) \subseteq Listed(f.m_HeldRules)
  <2>1. Removes(f, h, o, twin)
    BY <1>1, RemovalIs
  <2> HIDE DEF h
  <2> QED BY <2>1 DEF Removes
<1> HIDE DEF h
<1>3. Undoing(h) = Undoing(f)
  BY <1>2 DEF Undoing, Waiting
<1>4. o \in Undoing(f) => f.rule[o].backup
  BY <1>1 DEF Placed
<1>5. \A p \in InUse(f) :
         /\ h.rule[p].guid = f.rule[p].guid
         /\ h.rule[p].err <=> f.rule[p].err
         /\ h.rule[p].backup <=> f.rule[p].backup
  BY <1>2 DEF SameObjects
<1>6. InUse(h) = InUse(f)
  BY <1>2 DEF SameObjects
<1>7. Resolves(f, h, g, o, {})
  BY <1>2, <1>3, <1>4, <1>5, <1>6 DEF Resolves, Live
<1>8. Marked(h)
  BY <1>1, <1>2, MarkedLess
<1> QED BY <1>2, <1>7, <1>8 DEF h

LEMMA BackupKept ==
    ASSUME NEW f, Sound(f), NEW o \in InUse(f), o \in f.m_FwRules
    PROVE  LET h == SetAsBackup(f, o)
           IN /\ Sound(h) /\ InUse(h) = InUse(f) /\ h.m_FwRules = f.m_FwRules /\ SameLists(f, h)
              /\ h.rule[o].backup
              /\ \A p \in InUse(f) :
                   h.rule[p].guid = f.rule[p].guid /\ (h.rule[p].err <=> f.rule[p].err)
              /\ \A p \in InUse(f) \ {o} : h.rule[p].backup <=> f.rule[p].backup
<1> DEFINE r == [f.rule[o] EXCEPT !.backup = TRUE]
           h == SetAsBackup(f, o)
<1>1. f \in Rules /\ f.rule \in [Ids -> Object] /\ o \in Ids /\ f.rule[o] \in Rule
  BY InUseIsRule, SoundParts DEF Sound
<1>2. h.rule = [f.rule EXCEPT ![o] = r]
  BY <1>1 DEF Rules, SetAsBackup
<1>3. r.guid = f.rule[o].guid /\ r.err = f.rule[o].err
  BY <1>1 DEF Rule
<1>4. /\ Sound(h) /\ h.m_FwRules = f.m_FwRules /\ SameLists(f, h) /\ h.rule[o].backup
      /\ \A p \in Ids \ {o} : h.rule[p] = f.rule[p]
      /\ InUse(f) \subseteq InUse(h)
  <2>1. f.m_FwRules \cup {o} = f.m_FwRules
    OBVIOUS
  <2> QED BY <2>1, SetAsBackupEffect DEF Keeps
<1> HIDE DEF h
<1>5. h.rule[o] = r
  BY <1>1, <1>2
<1> HIDE DEF r
<1>6. InUse(h) \subseteq InUse(f)
  BY <1>4 DEF InUse
<1>7. \A p \in InUse(f) : p = o \/ h.rule[p] = f.rule[p]
  BY <1>4 DEF InUse
<1> QED BY <1>3, <1>4, <1>5, <1>6, <1>7 DEF h

\* The rule becomes a backup, which is to be restored under the blanket guard.
LEMMA BackupPlaces ==
    ASSUME NEW f, Sound(f), Tidy(f), NEW o \in InUse(f), o \in f.m_FwRules, NEW h, NEW g,
           h.rule = SetAsBackup(f, o).rule, h.m_FwRules = f.m_FwRules,
           h.m_RulesToRemove = f.m_RulesToRemove, h.m_HeldRules = f.m_HeldRules,
           \/ Undoing(h) = Undoing(f) /\ ~cfg.GuardFwRules
           \/ Undoing(h) = Undoing(f) \cup {o}
    PROVE  Resolves(f, h, g, o, {}) /\ HeldOnce(h)
  BY BackupKept DEF InUse, InHeld, HeldOnce, Tidy, Resolves, Live

LEMMA RuleRemovedPlaces ==
    ASSUME NEW f, Sound(f), Tidy(f), NEW o \in InUse(f), o \in f.m_FwRules, NEW act,
           NEW looks \in BOOLEAN, NEW wasHeld, NEW g, looks => act # "approve", cfg \in Setting,
           cfg.GuardFwRules /\ ~looks => act \in {"approve", "reject"}
    PROVE  LET h == RuleRemoved(f, o, act, looks, wasHeld)
           IN Resolves(f, h, g, o, {}) /\ HeldOnce(h) /\ Marked(h)
<1> DEFINE c    == f.rule[o].c
           held == HeldTwin(f, c)
           live == FindLiveTwin(f, c, o)
           twin == IF held = 0 THEN 0 ELSE f.m_HeldRules[held].pRule
           b    == SetAsBackup(f, o)
           e    == [pBackup |-> o, bRevert |-> cfg.GuardFwRules]
           r1   == RemovalApproved(f, o, twin, wasHeld)
           r2   == RemovalApproved(f, o, live, wasHeld)
           r3   == [b EXCEPT !.m_WithdrawnRules = Append(b.m_WithdrawnRules, e)]
           r4   == [b EXCEPT !.m_RulesToRevert = b.m_RulesToRevert \cup {o}]
           Good(h) == Resolves(f, h, g, o, {}) /\ HeldOnce(h) /\ Marked(h)
<1>1. RuleRemoved(f, o, act, looks, wasHeld) =
        CASE act = "approve" -> r1
          [] looks /\ live # 0 -> r2
          [] looks /\ live = 0 -> r3
          [] ~looks /\ act = "reject" -> r4
          [] OTHER -> b
  BY DEF RuleRemoved
<1>2. twin # 0 => twin \in InUse(f) /\ f.rule[twin].c = f.rule[o].c
  BY HeldTwinMatches
<1>3. live # 0 => live \in InUse(f) /\ f.rule[live].c = f.rule[o].c
  BY LiveTwinMatches
<1> HIDE DEF twin, live
<1>4. Good(r1) /\ Good(r2)
  BY <1>2, <1>3, RemovalPlaces
<1>5. Sound(b) /\ b.m_FwRules = f.m_FwRules /\ SameLists(f, b)
  BY BackupKept
<1>6. Marked(b) /\ Undoing(b) = Undoing(f) /\ Waiting(b) = Waiting(f) /\ b \in Rules
  BY <1>5, SameListsSame DEF Tidy, Sound
<1> HIDE DEF r1, r2
<1>7. Good(r3)
  <2>1. e \in Withdrawn /\ e.pBackup = o /\ (e.bRevert <=> cfg.GuardFwRules) /\ o \in Ids
    BY DEF Withdrawn, Setting, InUse
  <2> HIDE DEF e
  <2>2. b.m_WithdrawnRules \in Seq(Withdrawn)
    BY <1>5, SoundParts
  <2>3. Listed(Append(b.m_WithdrawnRules, e)) = Listed(b.m_WithdrawnRules) \cup {e}
    BY <2>1, <2>2, AppendLists
  <2>4. /\ r3.rule = b.rule /\ r3.m_FwRules = b.m_FwRules /\ r3.m_RulesToRemove = b.m_RulesToRemove
        /\ r3.m_RulesToRevert = b.m_RulesToRevert /\ r3.m_HeldRules = b.m_HeldRules
        /\ r3.m_WithdrawnRules = Append(b.m_WithdrawnRules, e)
    BY <1>6 DEF Rules
  <2> HIDE DEF r3
  <2>5. Waiting(r3) = Waiting(b) \cup {o}
    BY <2>1, <2>3, <2>4 DEF Waiting
  <2>6. Undoing(r3) = Undoing(f) \cup {o}
    BY <1>6, <2>4, <2>5 DEF Undoing
  <2>7. Marked(r3)
    BY <1>6, <2>1, <2>3, <2>4 DEF Marked
  <2>8. /\ r3.rule = SetAsBackup(f, o).rule /\ r3.m_FwRules = f.m_FwRules
        /\ r3.m_RulesToRemove = f.m_RulesToRemove /\ r3.m_HeldRules = f.m_HeldRules
    BY <1>5, <2>4 DEF SameLists
  <2>9. Resolves(f, r3, g, o, {}) /\ HeldOnce(r3)
    BY <2>6, <2>8, BackupPlaces
  <2> QED BY <2>7, <2>9
<1>8. Good(r4)
  <2>1. /\ r4.rule = b.rule /\ r4.m_FwRules = b.m_FwRules /\ r4.m_RulesToRemove = b.m_RulesToRemove
        /\ r4.m_RulesToRevert = b.m_RulesToRevert \cup {o} /\ r4.m_HeldRules = b.m_HeldRules
        /\ r4.m_WithdrawnRules = b.m_WithdrawnRules
    BY <1>6 DEF Rules
  <2> HIDE DEF r4
  <2>2. Undoing(r4) = Undoing(f) \cup {o}
    BY <1>6, <2>1 DEF Undoing, Waiting
  <2>3. Marked(r4)
    BY <1>6, <2>1 DEF Marked
  <2>4. /\ r4.rule = SetAsBackup(f, o).rule /\ r4.m_FwRules = f.m_FwRules
        /\ r4.m_RulesToRemove = f.m_RulesToRemove /\ r4.m_HeldRules = f.m_HeldRules
    BY <1>5, <2>1 DEF SameLists
  <2>5. Resolves(f, r4, g, o, {}) /\ HeldOnce(r4)
    BY <2>2, <2>4, BackupPlaces
  <2> QED BY <2>3, <2>5
<1>9. ~cfg.GuardFwRules => Good(b)
  BY <1>5, <1>6, BackupPlaces DEF SameLists
<1> DEFINE h == RuleRemoved(f, o, act, looks, wasHeld)
<1>10. h = r1 \/ h = r2 \/ h = r3 \/ h = r4 \/ (h = b /\ ~cfg.GuardFwRules)
  BY <1>1
<1> HIDE DEF h, r3, r4, b, Good
<1>11. Good(h)
  BY <1>4, <1>7, <1>8, <1>9, <1>10
<1> QED BY <1>11 DEF Good, h

\* A rule more in the map, which no list has yet.
LEMMA ResolvesAdds ==
    ASSUME NEW f, Sound(f), NEW k, Sound(k), NEW g, NEW o, o = 0 \/ o \in InUse(f),
           Resolves(f, k, g, o, {}), HeldOnce(k), Marked(k),
           NEW r \in Rule, r.guid = g, ~r.backup, ~r.err, \E p \in Ids : k.rule[p] = Free
    PROVE  LET h == AddRule(k, r)
               n == NextId(k)
           IN /\ Sound(h) /\ Resolves(f, h, g, o, {n}) /\ HeldOnce(h) /\ Marked(h)
              /\ n \notin InHeld(h) /\ n \notin h.m_RulesToRemove /\ n \in InUse(h)
<1> DEFINE h == AddRule(k, r)
           n == NextId(k)
<1>a. Sound(h)
  BY AddRuleEffect
<1>d. n \in Ids /\ n \notin InUse(k)
  BY NextIdIsFree DEF InUse
<1>e. h.rule[n] = r
  <2>1. h.rule = [k.rule EXCEPT ![n] = r] /\ k.rule \in [Ids -> Object]
    BY AddRuleEffect, SoundParts
  <2> HIDE DEF h, n
  <2> QED BY <1>d, <2>1
<1>b. /\ \A p \in Ids \ {n} : h.rule[p] = k.rule[p]
      /\ h.m_FwRules = k.m_FwRules \cup {n}
  BY AddRuleEffect
<1>c. SameLists(k, h)
  BY AddRuleEffect DEF SameLists
<1> HIDE DEF h, n
<1>1. /\ Sound(h) /\ n \in Ids /\ n \notin InUse(k) /\ h.rule[n] = r
      /\ \A p \in Ids \ {n} : h.rule[p] = k.rule[p]
      /\ h.m_FwRules = k.m_FwRules \cup {n}
      /\ h.m_RulesToRemove = k.m_RulesToRemove /\ h.m_RulesToRevert = k.m_RulesToRevert
      /\ h.m_WithdrawnRules = k.m_WithdrawnRules /\ h.m_HeldRules = k.m_HeldRules
      /\ h.m_SettledRemovals = k.m_SettledRemovals
  BY <1>a, <1>b, <1>c, <1>d, <1>e DEF SameLists
<1>2. SameLists(k, h)
  BY <1>1 DEF SameLists
<1>3. InHeld(h) = InHeld(k) /\ Undoing(h) = Undoing(k) /\ HeldOnce(h) /\ Marked(h)
  BY <1>2, SameListsSame
<1>4. InUse(h) = InUse(k) \cup {n}
  BY <1>1, RuleInUse DEF InUse
<1>5. /\ InHeld(k) \subseteq InUse(k) /\ Undoing(k) \subseteq InUse(k)
      /\ k.m_RulesToRemove \subseteq InUse(k) /\ k.m_FwRules \subseteq InUse(k)
  BY UndoingInUse DEF Sound
<1>6. n \notin InHeld(h) /\ n \notin h.m_RulesToRemove
  BY <1>1, <1>3, <1>5
<1>7. InUse(f) = InUse(k) /\ n # o
  BY <1>1 DEF Resolves, Ids
<1>8. \A p \in InUse(f) : h.rule[p] = k.rule[p]
  BY <1>1, <1>7 DEF InUse
<1>9. Resolves(f, h, g, o, {n})
  <2>1. /\ \A p \in InUse(f) : h.rule[p].guid = f.rule[p].guid /\ (h.rule[p].err <=> f.rule[p].err)
        /\ \A p \in InUse(f) \ {o} : h.rule[p].backup <=> f.rule[p].backup
    BY <1>8 DEF Resolves
  <2>2. h.m_FwRules \subseteq f.m_FwRules \cup {n} /\ Live(f) \ {o} \subseteq h.m_FwRules
    BY <1>1 DEF Resolves
  <2>3. h.m_RulesToRemove \subseteq f.m_RulesToRemove /\ InHeld(h) \subseteq InHeld(f)
    BY <1>1, <1>3 DEF Resolves
  <2>4. Undoing(h) \subseteq Undoing(f) \cup {o} /\ Undoing(f) \cap h.m_FwRules \subseteq Undoing(h)
    BY UndoingInUse, <1>1, <1>7, <1>3 DEF Resolves
  <2>5. o \in Undoing(h) => h.rule[o].backup
    BY <1>5, <1>3, <1>7, <1>8 DEF Resolves
  <2>6. cfg.GuardFwRules /\ o \in h.m_FwRules => o \in Undoing(h)
    BY <1>1, <1>3, <1>7 DEF Resolves
  <2>7. {n} \cap InUse(f) = {} /\ InUse(f) \subseteq InUse(h) /\ InUse(h) \subseteq InUse(f) \cup {n}
    BY <1>1, <1>4, <1>7
  <2>8. n \in h.m_FwRules /\ ~h.rule[n].backup /\ ~h.rule[n].err /\ h.rule[n].guid = g
    BY <1>1
  <2> QED BY <1>6, <2>1, <2>2, <2>3, <2>4, <2>5, <2>6, <2>7, <2>8 DEF Resolves
<1> QED BY <1>1, <1>3, <1>4, <1>6, <1>9 DEF h, n

\* Verdicts and what is kept in mind of removals do not matter here.
LEMMA ResolvesTouched ==
    ASSUME NEW f, Sound(f), NEW k, Sound(k), NEW h, NEW g, NEW o, NEW N, o = 0 \/ o \in InUse(f),
           Resolves(f, k, g, o, N), HeldOnce(k), Marked(k), SameObjects(k, h),
           h.m_FwRules = k.m_FwRules, h.m_RulesToRemove = k.m_RulesToRemove,
           h.m_RulesToRevert = k.m_RulesToRevert, h.m_HeldRules = k.m_HeldRules,
           h.m_WithdrawnRules = k.m_WithdrawnRules, N \subseteq InUse(k)
    PROVE  Resolves(f, h, g, o, N) /\ HeldOnce(h) /\ Marked(h)
<1>1. /\ InHeld(h) = InHeld(k) /\ Undoing(h) = Undoing(k) /\ HeldOnce(h) /\ Marked(h)
  BY DEF InHeld, Undoing, Waiting, HeldOnce, Marked
<1>2. /\ InUse(h) = InUse(k) /\ InUse(f) \subseteq InUse(k)
      /\ \A p \in InUse(k) : /\ h.rule[p].guid = k.rule[p].guid
                             /\ h.rule[p].err <=> k.rule[p].err
                             /\ h.rule[p].backup <=> k.rule[p].backup
  BY DEF SameObjects, Resolves
<1>3. o \in Undoing(h) => h.rule[o].backup
  BY <1>2, <1>1, UndoingInUse DEF Resolves, InUse, Ids
<1>4. \A n \in N : n \in h.m_FwRules /\ ~h.rule[n].backup /\ ~h.rule[n].err /\ h.rule[n].guid = g
  BY <1>2 DEF Resolves
<1>5. /\ \A p \in InUse(f) : h.rule[p].guid = f.rule[p].guid /\ (h.rule[p].err <=> f.rule[p].err)
      /\ \A p \in InUse(f) \ {o} : h.rule[p].backup <=> f.rule[p].backup
  BY <1>2 DEF Resolves
<1>6. /\ N \cap InUse(f) = {} /\ InUse(f) \subseteq InUse(h) /\ InUse(h) \subseteq InUse(f) \cup N
      /\ h.m_FwRules \subseteq f.m_FwRules \cup N /\ Live(f) \ {o} \subseteq h.m_FwRules
      /\ h.m_RulesToRemove \subseteq f.m_RulesToRemove \cup N
      /\ InHeld(h) \subseteq InHeld(f) \cup N
      /\ InHeld(h) \cap N = {} \/ h.m_RulesToRemove \cap N = {}
      /\ Undoing(h) \subseteq Undoing(f) \cup {o}
      /\ Undoing(f) \cap h.m_FwRules \subseteq Undoing(h)
      /\ cfg.GuardFwRules /\ o \in h.m_FwRules => o \in Undoing(h)
  BY <1>1, <1>2 DEF Resolves
<1> QED BY <1>1, <1>3, <1>4, <1>5, <1>6 DEF Resolves

\* RuleReturned: the backup leaves the list and the map.
LEMMA RuleReturnedPlaces ==
    ASSUME NEW f, Sound(f), Tidy(f), NEW g \in Guids, NEW c \in Content, NEW o,
           o = 0 \/ o \in InUse(f), WithdrawnTwin(f, c) # 0, \E p \in Ids : f.rule[p] = Free
    PROVE  LET h == RuleReturned(f, g, c, o)
           IN \E n : /\ Resolves(f, h, g, o, {n}) /\ n \notin InHeld(h)
                     /\ Undoing(h) \subseteq Undoing(f) /\ HeldOnce(h) /\ Marked(h)
<1> DEFINE w    == WithdrawnTwin(f, c)
           twin == f.m_WithdrawnRules[w].pBackup
           t    == RemoveAt(f.m_WithdrawnRules, w)
           k    == [f EXCEPT !.m_WithdrawnRules = t, !.m_FwRules = f.m_FwRules \ {o, twin}]
           r    == [NewRule(g, c) EXCEPT !.state = f.rule[twin].state]
<1>1. RuleReturned(f, g, c, o) = AddRule(k, r)
  BY DEF RuleReturned
<1>2. w \in DOMAIN f.m_WithdrawnRules /\ twin \in InUse(f) /\ f.rule[twin].backup
  <2>1. w \in DOMAIN f.m_WithdrawnRules /\ twin \in InUse(f)
    BY WithdrawnTwinMatches
  <2>2. twin \in Undoing(f)
    BY <2>1 DEF Undoing, Waiting, Listed
  <2> QED BY <2>1, <2>2 DEF Tidy, Placed
<1>3. f \in Rules /\ f.m_WithdrawnRules \in Seq(Withdrawn) /\ f.m_FwRules \subseteq InUse(f)
  BY SoundParts DEF Sound
<1>4. f.rule[twin].state \in States
  BY <1>2, InUseIsRule
<1>5. r \in Rule /\ r.guid = g /\ ~r.backup
  BY <1>4, NewRuleType
<1>6. ~r.err
  BY DEF NewRule
<1>7. /\ t \in Seq(Withdrawn) /\ Listed(t) \subseteq Listed(f.m_WithdrawnRules)
      /\ Listed(f.m_WithdrawnRules) \subseteq Listed(t) \cup {f.m_WithdrawnRules[w]}
  BY <1>2, <1>3, RemoveAtShrinks, RemoveAtLists
<1> HIDE DEF w, r, t
<1>8. Sound(k)
  <2> DEFINE d == [f EXCEPT !.m_FwRules = f.m_FwRules \ {o, twin}]
  <2>1. f.m_FwRules \ {o, twin} \subseteq InUse(f)
    BY <1>3
  <2>2. Sound(d)
    BY <2>1, SoundMap
  <2>3. /\ d \in Rules /\ d.rule = f.rule /\ d.m_WithdrawnRules = f.m_WithdrawnRules
        /\ d.m_HeldRules = f.m_HeldRules /\ d.m_SettledRemovals = f.m_SettledRemovals
    BY <1>3, <2>2 DEF Rules, Sound
  <2>4. k = [d EXCEPT !.m_WithdrawnRules = t, !.m_HeldRules = d.m_HeldRules,
                      !.m_SettledRemovals = d.m_SettledRemovals]
    BY <1>3 DEF Rules
  <2> HIDE DEF d, k
  <2>5. d.m_HeldRules \in Seq(Held) /\ d.m_SettledRemovals \in Seq(Ids)
    BY <2>2, SoundParts
  <2>6. /\ \A e \in Listed(t) : e.pBackup \in InUse(d) /\ Aside(d, e.pBackup)
        /\ \A e \in Listed(d.m_HeldRules) : e.pRule \in InUse(d)
        /\ Listed(d.m_SettledRemovals) \subseteq InUse(d)
    BY <1>7, <2>2, <2>3 DEF Sound, Aside
  <2> QED BY <1>7, <2>2, <2>4, <2>5, <2>6, SoundLists
<1>9. /\ k.rule = f.rule /\ k.m_FwRules = f.m_FwRules \ {o, twin}
      /\ k.m_RulesToRemove = f.m_RulesToRemove /\ k.m_RulesToRevert = f.m_RulesToRevert
      /\ k.m_HeldRules = f.m_HeldRules /\ k.m_WithdrawnRules = t
  BY <1>3 DEF Rules
<1> HIDE DEF k
<1>10. InUse(k) = InUse(f) /\ InHeld(k) = InHeld(f) /\ HeldOnce(k)
  BY <1>9 DEF InUse, InHeld, HeldOnce, Tidy
<1>11. Marked(k)
  BY <1>7, <1>9, MarkedLess DEF Tidy
<1>12. Undoing(k) \subseteq Undoing(f) /\ Undoing(f) \subseteq Undoing(k) \cup {twin}
  BY <1>7, <1>9 DEF Undoing, Waiting
<1>13. Resolves(f, k, g, o, {})
  BY <1>2, <1>9, <1>12, <1>10 DEF Live, Tidy, Placed, Resolves
<1>14. \E p \in Ids : k.rule[p] = Free
  BY <1>9
<1> DEFINE h == AddRule(k, r)
           n == NextId(k)
<1>15. /\ Resolves(f, h, g, o, {n}) /\ HeldOnce(h) /\ Marked(h) /\ n \notin InHeld(h)
  BY <1>5, <1>6, <1>8, <1>10, <1>11, <1>13, <1>14, ResolvesAdds
<1>16. Undoing(h) \subseteq Undoing(f)
  <2>1. SameLists(k, h)
    BY <1>5, <1>8, <1>14, AddRuleEffect DEF SameLists
  <2> HIDE DEF h
  <2> QED BY <1>12, <2>1, SameListsSame
<1> HIDE DEF h, n
<1> QED BY <1>1, <1>15, <1>16 DEF h

\* RuleModified: the old form leaves the map or becomes a backup.
LEMMA RuleModifiedPlaces ==
    ASSUME NEW f, Sound(f), Tidy(f), NEW g \in Guids, NEW c \in Content, NEW o \in InUse(f),
           o \in f.m_FwRules, NEW act, cfg.GuardFwRules => act \in {"approve", "reject"},
           \E p \in Ids : f.rule[p] = Free
    PROVE  LET h == RuleModified(f, g, c, o, act)
           IN \E n : Resolves(f, h, g, o, {n}) /\ n \notin InHeld(h) /\ HeldOnce(h) /\ Marked(h)
<1> DEFINE a  == [f EXCEPT !.m_FwRules = f.m_FwRules \ {o}]
           ra == [NewRule(g, c) EXCEPT !.state = "approved"]
           b  == SetAsBackup(f, o)
           b2 == [b EXCEPT !.m_RulesToRevert = b.m_RulesToRevert \cup {o}]
           r  == NewRule(g, c)
           Good(h) == \E n : /\ Resolves(f, h, g, o, {n}) /\ n \notin InHeld(h)
                             /\ HeldOnce(h) /\ Marked(h)
<1>1. RuleModified(f, g, c, o, act) =
        CASE act = "approve" -> AddRule(a, ra)
          [] act = "reject" -> AddRule(b2, r)
          [] OTHER -> AddRule(b, r)
  BY DEF RuleModified
<1>2. /\ ra \in Rule /\ ra.guid = g /\ ~ra.backup /\ ~ra.err
      /\ r \in Rule /\ r.guid = g /\ ~r.backup /\ ~r.err
  BY DEF NewRule, Rule, States
<1> HIDE DEF r, ra
<1>3. ASSUME NEW k, Sound(k), Resolves(f, k, g, o, {}), HeldOnce(k), Marked(k),
             \A p \in Ids \ {o} : k.rule[p] = f.rule[p]
      PROVE  Good(AddRule(k, r)) /\ Good(AddRule(k, ra))
  BY <1>3, <1>2, ResolvesAdds DEF InUse
<1>4. Sound(b) /\ b.m_FwRules = f.m_FwRules /\ SameLists(f, b) /\ \A p \in Ids \ {o} : b.rule[p] = f.rule[p]
  BY BackupKept, SetAsBackupEffect
<1>5. Marked(b) /\ Undoing(b) = Undoing(f) /\ b \in Rules
  BY <1>4, SameListsSame DEF Tidy, Sound
<1>6. Good(AddRule(a, ra))
  <2>1. Sound(a) /\ a.rule = f.rule /\ SameLists(f, a)
    BY LeaveMap DEF Drops
  <2>2. a.m_FwRules = f.m_FwRules \ {o}
    BY DEF Sound, Rules
  <2> HIDE DEF a
  <2>3. InUse(a) = InUse(f)
    BY <2>1 DEF InUse
  <2>4. HeldOnce(a) /\ Marked(a) /\ InHeld(a) = InHeld(f) /\ Undoing(a) = Undoing(f)
    BY <2>1, SameListsSame DEF Tidy
  <2>5. a.m_RulesToRemove = f.m_RulesToRemove
    BY <2>1 DEF SameLists
  <2>6. o \in Undoing(a) => a.rule[o].backup
    BY <2>1, <2>4 DEF Tidy, Placed
  <2>7. Resolves(f, a, g, o, {})
    BY <2>1, <2>2, <2>3, <2>4, <2>5, <2>6 DEF Resolves, Live
  <2> QED BY <1>3, <2>1, <2>4, <2>7
<1>7. Good(AddRule(b2, r))
  <2>1. /\ b2.rule = b.rule /\ b2.m_FwRules = b.m_FwRules /\ b2.m_RulesToRemove = b.m_RulesToRemove
        /\ b2.m_RulesToRevert = b.m_RulesToRevert \cup {o} /\ b2.m_HeldRules = b.m_HeldRules
        /\ b2.m_WithdrawnRules = b.m_WithdrawnRules
    BY <1>5 DEF Rules
  <2>2. o \in InUse(b)
    BY BackupKept
  <2>3. Sound(b2)
    BY <1>4, <2>2, RemoveMore DEF Touches
  <2> HIDE DEF b2
  <2>4. Undoing(b2) = Undoing(f) \cup {o}
    BY <1>5, <2>1 DEF Undoing, Waiting
  <2>5. Marked(b2)
    BY <1>5, <2>1 DEF Marked
  <2>6. /\ b2.rule = SetAsBackup(f, o).rule /\ b2.m_FwRules = f.m_FwRules
        /\ b2.m_RulesToRemove = f.m_RulesToRemove /\ b2.m_HeldRules = f.m_HeldRules
    BY <1>4, <2>1 DEF SameLists
  <2>7. Resolves(f, b2, g, o, {}) /\ HeldOnce(b2)
    BY <2>4, <2>6, BackupPlaces
  <2>8. \A p \in Ids \ {o} : b2.rule[p] = f.rule[p]
    BY <1>4, <2>1
  <2> HIDE DEF b, Good
  <2> QED BY <1>3, <2>3, <2>5, <2>7, <2>8
<1>8. ~cfg.GuardFwRules => Good(AddRule(b, r))
  BY <1>4, <1>5, BackupPlaces, <1>3 DEF SameLists
<1> DEFINE h == RuleModified(f, g, c, o, act)
<1>9. h = AddRule(a, ra) \/ h = AddRule(b2, r) \/ (h = AddRule(b, r) /\ ~cfg.GuardFwRules)
  BY <1>1
<1> HIDE DEF h, a, b, b2, Good
<1>10. Good(h)
  BY <1>6, <1>7, <1>8, <1>9
<1> QED BY <1>10 DEF Good, h

\* RuleAdded: the new rule is turned down, held back or neither.
LEMMA RuleAddedPlaces ==
    ASSUME NEW f, Sound(f), Tidy(f), NEW g \in Guids, NEW c \in Content, NEW act,
           NEW looks \in BOOLEAN, cfg \in Setting, \E p \in Ids : f.rule[p] = Free
    PROVE  LET h == RuleAdded(f, g, c, act, looks)
           IN \E n : Resolves(f, h, g, 0, {n}) /\ HeldOnce(h) /\ Marked(h)
<1> DEFINE s  == SettledTwin(f, c)
           n  == NextId(f)
           f1 == AddRule(f, NewRule(g, c))
           t  == TakeOver(f1, n, f.m_SettledRemovals[s])
           e  == [pRule |-> n, bReject |-> cfg.GuardFwRules]
           k1 == [t EXCEPT !.m_SettledRemovals = RemoveAt(t.m_SettledRemovals, s)]
           k2 == [f1 EXCEPT !.rule[n].state = "approved"]
           k3 == [f1 EXCEPT !.m_HeldRules = Append(f1.m_HeldRules, e)]
           k4 == [f1 EXCEPT !.m_RulesToRemove = f1.m_RulesToRemove \cup {n}]
           live == FindLiveTwin(f, c, 0)
           Good(h) == Resolves(f, h, g, 0, {n}) /\ HeldOnce(h) /\ Marked(h)
<1>1. RuleAdded(f, g, c, act, looks) =
        CASE looks /\ s # 0 -> k1
          [] act = "approve" -> k2
          [] looks /\ s = 0 /\ live # 0 -> k3
          [] ~(looks /\ (s # 0 \/ live # 0)) /\ act = "reject" -> k4
          [] OTHER -> f1
  BY DEF RuleAdded
<1>2. NewRule(g, c) \in Rule /\ NewRule(g, c).guid = g /\ ~NewRule(g, c).backup /\ ~NewRule(g, c).err
  BY DEF NewRule, Rule, States
<1>3. Resolves(f, f, g, 0, {}) /\ HeldOnce(f) /\ Marked(f)
  BY UndoingInUse DEF InUse, Ids, Sound, Resolves, Tidy, Live
<1>4. /\ Sound(f1) /\ Resolves(f, f1, g, 0, {n}) /\ HeldOnce(f1) /\ Marked(f1)
      /\ n \notin InHeld(f1) /\ n \notin f1.m_RulesToRemove /\ n \in InUse(f1)
  BY <1>2, <1>3, ResolvesAdds
<1> HIDE DEF f1, n, s, live
<1>5. Good(f1) /\ f1 \in Rules
  BY <1>4 DEF Sound
<1>6. Good(k2)
  <2>1. SameObjects(f1, k2) /\ k2.m_FwRules = f1.m_FwRules /\ SameLists(f1, k2)
    BY <1>4, StateKept
  <2> HIDE DEF k2
  <2>2. /\ k2.m_RulesToRemove = f1.m_RulesToRemove /\ k2.m_RulesToRevert = f1.m_RulesToRevert
        /\ k2.m_HeldRules = f1.m_HeldRules /\ k2.m_WithdrawnRules = f1.m_WithdrawnRules
    BY <2>1 DEF SameLists
  <2> QED BY <1>4, <2>1, <2>2, ResolvesTouched
<1>7. Good(k1)
  <2>1. t = [f1 EXCEPT !.rule[n].state = f1.rule[f.m_SettledRemovals[s]].state]
    BY DEF TakeOver
  <2>2. SameObjects(f1, t) /\ t.m_FwRules = f1.m_FwRules /\ SameLists(f1, t)
    BY <1>4, <2>1, StateKept
  <2>3. /\ k1.rule = t.rule /\ k1.m_FwRules = t.m_FwRules /\ k1.m_RulesToRemove = t.m_RulesToRemove
        /\ k1.m_RulesToRevert = t.m_RulesToRevert /\ k1.m_HeldRules = t.m_HeldRules
        /\ k1.m_WithdrawnRules = t.m_WithdrawnRules
    OBVIOUS
  <2> HIDE DEF k1, t
  <2>4. SameObjects(f1, k1)
    BY <2>2, <2>3 DEF SameObjects, InUse
  <2>5. /\ k1.m_FwRules = f1.m_FwRules
        /\ k1.m_RulesToRemove = f1.m_RulesToRemove /\ k1.m_RulesToRevert = f1.m_RulesToRevert
        /\ k1.m_HeldRules = f1.m_HeldRules /\ k1.m_WithdrawnRules = f1.m_WithdrawnRules
    BY <2>2, <2>3 DEF SameLists
  <2> QED BY <1>4, <2>4, <2>5, ResolvesTouched
<1>8. Good(k3)
  <2>1. e \in Held /\ e.pRule = n /\ (e.bReject <=> cfg.GuardFwRules)
    BY <1>4 DEF Held, Setting, InUse
  <2> HIDE DEF e
  <2>2. f1.m_HeldRules \in Seq(Held)
    BY <1>4, SoundParts
  <2>3. Listed(Append(f1.m_HeldRules, e)) = Listed(f1.m_HeldRules) \cup {e}
    BY <2>1, <2>2, AppendLists
  <2>4. /\ k3.rule = f1.rule /\ k3.m_FwRules = f1.m_FwRules /\ k3.m_RulesToRemove = f1.m_RulesToRemove
        /\ k3.m_RulesToRevert = f1.m_RulesToRevert /\ k3.m_WithdrawnRules = f1.m_WithdrawnRules
        /\ k3.m_HeldRules = Append(f1.m_HeldRules, e)
    BY <1>5 DEF Rules
  <2> HIDE DEF k3
  <2>5. InHeld(k3) = InHeld(f1) \cup {n}
    BY <2>1, <2>3, <2>4 DEF InHeld
  <2>6. Marked(k3)
    BY <1>4, <2>1, <2>3, <2>4 DEF Marked
  <2>7. HeldOnce(k3)
    BY <2>1, <2>2, <2>4, <1>4 DEF InHeld, Listed, HeldOnce
  <2>8. Undoing(k3) = Undoing(f1) /\ InUse(k3) = InUse(f1)
    BY <2>4 DEF Undoing, Waiting, InUse
  <2>9. Resolves(f, k3, g, 0, {n})
    BY <1>4, <2>4, <2>5, <2>8 DEF Resolves
  <2> QED BY <2>6, <2>7, <2>9
<1>9. Good(k4)
  <2>1. /\ k4.rule = f1.rule /\ k4.m_FwRules = f1.m_FwRules
        /\ k4.m_RulesToRemove = f1.m_RulesToRemove \cup {n}
        /\ k4.m_RulesToRevert = f1.m_RulesToRevert /\ k4.m_WithdrawnRules = f1.m_WithdrawnRules
        /\ k4.m_HeldRules = f1.m_HeldRules
    BY <1>5 DEF Rules
  <2> HIDE DEF k4
  <2>2. /\ Undoing(k4) = Undoing(f1) /\ InUse(k4) = InUse(f1) /\ InHeld(k4) = InHeld(f1)
        /\ HeldOnce(k4) /\ Marked(k4)
    BY <1>4, <2>1 DEF Undoing, Waiting, InUse, InHeld, HeldOnce, Marked
  <2>3. Resolves(f, k4, g, 0, {n})
    BY <1>4, <2>1, <2>2 DEF Resolves
  <2> QED BY <2>2, <2>3
<1> DEFINE h == RuleAdded(f, g, c, act, looks)
<1>10. h \in {k1, k2, k3, k4, f1}
  BY <1>1
<1> HIDE DEF h, k1, k2, k3, k4, Good
<1>11. Good(h)
  BY <1>5, <1>6, <1>7, <1>8, <1>9, <1>10
<1> QED BY <1>11 DEF Good, h

\* BackupMet: a backup of the map is to be restored already.
LEMMA BackupMetPlaces ==
    ASSUME NEW f, Sound(f), Tidy(f), NEW o \in InUse(f), f.rule[o].backup, NEW act, NEW g
    PROVE  LET h == BackupMet(f, o, act)
           IN /\ Resolves(f, h, g, o, {}) /\ HeldOnce(h) /\ Marked(h)
              /\ act # "reject" => Undoing(h) = Undoing(f)
<1> DEFINE k == [f EXCEPT !.m_RulesToRevert = f.m_RulesToRevert \cup {o}]
           h == BackupMet(f, o, act)
<1>1. h = f \/ (h = k /\ act = "reject")
  BY DEF BackupMet
<1>2. /\ k.rule = f.rule /\ k.m_FwRules = f.m_FwRules /\ k.m_RulesToRemove = f.m_RulesToRemove
      /\ k.m_RulesToRevert = f.m_RulesToRevert \cup {o} /\ k.m_WithdrawnRules = f.m_WithdrawnRules
      /\ k.m_HeldRules = f.m_HeldRules
  BY DEF Sound, Rules
<1> HIDE DEF h, k
<1>3. /\ Undoing(k) = Undoing(f) \cup {o} /\ InUse(k) = InUse(f) /\ InHeld(k) = InHeld(f)
      /\ HeldOnce(k) /\ Marked(k) /\ HeldOnce(f) /\ Marked(f)
  BY <1>2 DEF Undoing, Waiting, InUse, InHeld, HeldOnce, Marked, Tidy
<1>4. Resolves(f, k, g, o, {})
  BY <1>2, <1>3 DEF Resolves, Live
<1>5. Resolves(f, f, g, o, {})
  BY DEF Tidy, Placed, Backups, Resolves, Live
<1> QED BY <1>1, <1>3, <1>4, <1>5 DEF h

\* With the blanket guard every change is decided.
LEMMA GuardDecides ==
    ASSUME NEW f, Sound(f), NEW c \in Contents, NEW o, o \in InUse(f) \/ (o = 0 /\ c # Gone),
           cfg \in Setting, cfg.GuardFwRules
    PROVE  Unanswered(f, c, o) \in {"approve", "reject"}
<1> DEFINE k     == IF o # 0 THEN f.rule[o].c.k ELSE c.k
           entry == IF ProgramChanged(f, c, o) THEN "none" ELSE cfg.entry[Prog[k]]
<1>1. k \in Kinds /\ Prog[k] \in Progs
  BY InUseIsRule, FirewallAssumption DEF Contents, Content, InUse, Ids
<1>2. entry \in Modes
  BY <1>1 DEF Setting, Modes
<1>3. DecideRuleChange(f, c, o) \in Modes
  BY DEF DecideRuleChange, Modes
<1>4. GuardAction(f, c, o) \in {"approve", entry, DecideRuleChange(f, c, o)}
  BY DEF GuardAction
<1>5. GuardAction(f, c, o) \in Modes
  BY <1>2, <1>3, <1>4 DEF Modes
<1> QED BY <1>5 DEF Unanswered, Modes

\* FWRuleChanged begins with taking the rule out of what waits.
LEMMA TakeOutTidy ==
    ASSUME NEW f, Sound(f), Tidy(f), NEW o
    PROVE  LET k == TakeHeldRule([f EXCEPT !.m_RulesToRemove = f.m_RulesToRemove \ {o}], o)
           IN /\ Sound(k) /\ Tidy(k) /\ k.rule = f.rule /\ k.m_FwRules = f.m_FwRules
              /\ Undoing(k) = Undoing(f) /\ k.m_WithdrawnRules = f.m_WithdrawnRules
              /\ o \notin k.m_RulesToRemove /\ o \notin InHeld(k)
<1> DEFINE d == [f EXCEPT !.m_RulesToRemove = f.m_RulesToRemove \ {o}]
           k == TakeHeldRule(d, o)
<1>1. /\ Sound(d) /\ d.rule = f.rule /\ d.m_FwRules = f.m_FwRules
      /\ d.m_RulesToRevert = f.m_RulesToRevert /\ d.m_HeldRules = f.m_HeldRules
      /\ d.m_WithdrawnRules = f.m_WithdrawnRules
  BY RemoveLess
<1>2. d.m_RulesToRemove = f.m_RulesToRemove \ {o}
  BY DEF Sound, Rules
<1> HIDE DEF d
<1>3. /\ InHeld(d) = InHeld(f) /\ Undoing(d) = Undoing(f) /\ InUse(d) = InUse(f)
      /\ HeldOnce(d) /\ Marked(d)
  BY <1>1 DEF InHeld, Undoing, Waiting, InUse, HeldOnce, Marked, Tidy
<1>4. /\ Sound(k) /\ k.rule = d.rule /\ k.m_FwRules = d.m_FwRules
      /\ k.m_RulesToRemove = d.m_RulesToRemove /\ k.m_RulesToRevert = d.m_RulesToRevert
      /\ k.m_WithdrawnRules = d.m_WithdrawnRules
  BY <1>1, TakeHeldEffect
<1>5. HeldOnce(k) /\ InHeld(k) = InHeld(d) \ {o} /\ Listed(k.m_HeldRules) \subseteq Listed(d.m_HeldRules)
  BY <1>1, <1>3, TakeHeldIs
<1> HIDE DEF k
<1>6. Marked(k)
  BY <1>3, <1>4, <1>5, MarkedLess
<1>7. /\ Undoing(k) = Undoing(f) /\ InUse(k) = InUse(f) /\ Live(k) = Live(f)
      /\ Backups(k) = Backups(f)
  BY <1>1, <1>3, <1>4 DEF Undoing, Waiting, InUse, Live, Backups
<1>8. k.rule = f.rule /\ k.m_RulesToRemove = f.m_RulesToRemove \ {o} /\ InHeld(k) = InHeld(f) \ {o}
  BY <1>1, <1>2, <1>3, <1>4, <1>5
<1>9. Placed(k)
  BY <1>7, <1>8 DEF Tidy, Placed
<1> QED BY <1>1, <1>4, <1>5, <1>6, <1>7, <1>8, <1>9 DEF Tidy, k, d

\* No list is disturbed by what frees the objects nothing refers to.
LEMMA CollectedTidy ==
    ASSUME NEW k, Sound(k), Tidy(k)
    PROVE  Tidy(Collected(k))
<1> DEFINE q == [o \in Ids |-> IF o \in Referenced(k) THEN k.rule[o] ELSE Free]
           h == [k EXCEPT !.rule = q]
<1>1. Collected(k) = h
  BY DEF Collected
<1>2. q \in [Ids -> Object] /\ \A o \in Ids : q[o] = k.rule[o] \/ q[o] = Free
  BY SoundParts DEF Object
<1>3. \A o \in Ids : o \in Referenced(k) => q[o] = k.rule[o]
  OBVIOUS
<1> HIDE DEF q
<1>4. /\ h.rule = q /\ h.m_FwRules = k.m_FwRules
      /\ h.m_RulesToRemove = k.m_RulesToRemove
      /\ h.m_RulesToRevert = k.m_RulesToRevert /\ h.m_WithdrawnRules = k.m_WithdrawnRules
      /\ h.m_HeldRules = k.m_HeldRules
  BY <1>2 DEF Sound, Rules
<1> HIDE DEF h
<1>5. /\ k.m_FwRules \subseteq Referenced(k) /\ Undoing(k) \subseteq Referenced(k)
      /\ InHeld(k) \subseteq Referenced(k)
  BY DEF Referenced, Undoing, Waiting, InHeld
<1>6. /\ InHeld(h) = InHeld(k) /\ Undoing(h) = Undoing(k) /\ HeldOnce(h) /\ Marked(h)
  BY <1>4 DEF InHeld, Undoing, Waiting, HeldOnce, Marked, Tidy
<1>7. Undoing(k) \subseteq Ids /\ InHeld(k) \subseteq Ids /\ k.m_FwRules \subseteq Ids
  BY UndoingInUse DEF InUse, Sound
<1>8. \A o \in k.m_FwRules \cup Undoing(k) \cup InHeld(k) : h.rule[o] = k.rule[o]
  BY <1>3, <1>4, <1>5, <1>7
<1>9. Live(h) = Live(k) /\ Backups(h) = Backups(k)
  BY <1>4, <1>8 DEF Live, Backups
<1>10. \A o \in InUse(h) : o \in InUse(k) /\ h.rule[o] = k.rule[o]
  BY <1>2, <1>4 DEF InUse
<1>11. Placed(h)
  BY <1>4, <1>6, <1>8, <1>9, <1>10 DEF Placed, Tidy
<1> QED BY <1>1, <1>6, <1>11 DEF Tidy

\* FWRuleChanged keeps the lists in order where the changes do not overlap.
LEMMA ChangedTidy ==
    ASSUME NEW f, Sound(f), Tidy(f), NEW g \in Guids, NEW c \in Contents, NEW o,
           o = 0 \/ o \in InUse(f), cfg \in Setting, \E p \in Ids : f.rule[p] = Free,
           o # 0 /\ ~f.rule[o].backup =>
               o \in f.m_FwRules /\ \A p \in Live(f) : f.rule[p].guid = f.rule[o].guid => p = o,
           o # 0 /\ f.rule[o].backup =>
               c = Gone /\ (o \in f.m_FwRules \/ Unanswered(f, c, o) # "reject"),
           o = 0 /\ c # Gone /\ ~(LooksForTwin(f, c, o) /\ WithdrawnTwin(f, c) # 0) =>
               \A b \in Undoing(f) : f.rule[b].guid # g
    PROVE  Tidy(FWRuleChanged(f, g, c, o))
<1> DEFINE f1    == TakeHeldRule([f EXCEPT !.m_RulesToRemove = f.m_RulesToRemove \ {o}], o)
           act   == Unanswered(f, c, o)
           looks == LooksForTwin(f, c, o)
           held  == \E e \in Listed(f.m_HeldRules) : e.pRule = o
           twin  == WithdrawnTwin(f, c)
           returns == c # Gone /\ looks /\ twin # 0
           nothing == IF c = Gone THEN o = 0 ELSE o # 0 /\ f.rule[o].c = c
           h     == FWRuleChanged(f, g, c, o)
<1>1. h = CASE nothing -> f
            [] ~nothing /\ c = Gone /\ f.rule[o].backup -> BackupMet(f1, o, act)
            [] ~nothing /\ c = Gone /\ ~f.rule[o].backup ->
                 RuleRemoved(f1, o, IF looks THEN "none" ELSE act, looks, held)
            [] ~nothing /\ returns -> RuleReturned(f1, g, c, o)
            [] ~nothing /\ c # Gone /\ ~returns /\ o = 0 -> RuleAdded(f1, g, c, act, looks)
            [] OTHER -> RuleModified(f1, g, c, o, act)
  BY DEF FWRuleChanged
<1>2. Sound(h)
  BY InUseIsRule, ChangedEffect DEF Rule, h, Touches, Drops, Trades
<1> HIDE DEF h
<1>3. /\ Sound(f1) /\ Tidy(f1) /\ f1.rule = f.rule /\ f1.m_FwRules = f.m_FwRules
      /\ Undoing(f1) = Undoing(f) /\ f1.m_WithdrawnRules = f.m_WithdrawnRules
      /\ o \notin f1.m_RulesToRemove /\ o \notin InHeld(f1)
  BY TakeOutTidy
<1> HIDE DEF f1
<1>4. InUse(f1) = InUse(f) /\ Live(f1) = Live(f) /\ \E p \in Ids : f1.rule[p] = Free
  BY <1>3 DEF InUse, Live
<1>5. looks \in BOOLEAN /\ (looks => act # "approve")
  BY LooksLeavesOpen DEF LooksForTwin, Setting
<1>6. cfg.GuardFwRules /\ (c = Gone => o # 0) => act \in {"approve", "reject"}
  BY GuardDecides
<1>7. twin = WithdrawnTwin(f1, c)
  BY <1>3, SameTwin
<1>8. ASSUME NEW N, Resolves(f1, h, g, o, N), HeldOnce(h), Marked(h),
             cfg.GuardFwRules => \A p \in Live(f1) :
                 \/ p = o \/ o = 0 \/ o \in Undoing(f1) \/ o \notin Undoing(h)
                 \/ f1.rule[p].guid # f1.rule[o].guid,
             cfg.GuardFwRules /\ InHeld(h) \cap N # {} =>
                 o = 0 /\ \A b \in Undoing(f1) : f1.rule[b].guid # g
      PROVE  Tidy(h)
  BY <1>3, <1>4, <1>2, <1>8, ResolvesPlaced DEF Tidy
<1>9. o # 0 /\ ~f.rule[o].backup =>
        \A p \in Live(f1) : p = o \/ f1.rule[p].guid # f1.rule[o].guid
  BY <1>3, <1>4
<1> HIDE DEF act, looks, held, twin
<1>10. c # Gone => c \in Content
  BY DEF Contents
<1>11. CASE nothing
  <2>1. h = f
    BY <1>1, <1>11
  <2> QED BY <2>1 DEF h
<1>12. CASE o # 0 /\ c = Gone /\ f.rule[o].backup
  <2>1. h = BackupMet(f1, o, act) /\ o \in InUse(f1) /\ f1.rule[o].backup
    BY <1>1, <1>3, <1>4, <1>12
  <2>2. /\ Resolves(f1, h, g, o, {}) /\ HeldOnce(h) /\ Marked(h)
        /\ act # "reject" => Undoing(h) = Undoing(f1)
    BY <1>3, <2>1, BackupMetPlaces
  <2>3. cfg.GuardFwRules => o \in Undoing(f1) \/ o \notin Undoing(h)
    BY <1>12, <1>3, <2>2 DEF Tidy, Placed, Backups, act
  <2>4. Tidy(h)
    BY <1>8, <2>2, <2>3
  <2> QED BY <2>4 DEF h
<1>13. CASE o # 0 /\ c = Gone /\ ~f.rule[o].backup
  <2> DEFINE a == IF looks THEN "none" ELSE act
  <2>1. h = RuleRemoved(f1, o, a, looks, held) /\ o \in InUse(f1) /\ o \in f1.m_FwRules
    BY <1>1, <1>3, <1>4, <1>13
  <2>2. (looks => a # "approve") /\ (cfg.GuardFwRules /\ ~looks => a \in {"approve", "reject"})
    BY <1>6, <1>13
  <2> HIDE DEF a
  <2> DEFINE q == RuleRemoved(f1, o, a, looks, held)
  <2>3. Resolves(f1, q, g, o, {}) /\ HeldOnce(q) /\ Marked(q)
    BY <1>3, <1>5, <2>1, <2>2, RuleRemovedPlaces
  <2> HIDE DEF q
  <2>4. h = q
    BY <2>1 DEF q
  <2>5. Tidy(h)
    BY <1>8, <1>9, <1>13, <2>3, <2>4
  <2> QED BY <2>5 DEF h
<1>14. CASE ~nothing /\ c # Gone /\ looks /\ twin # 0
  <2>1. h = RuleReturned(f1, g, c, o)
    BY <1>1, <1>14
  <2>2. (o = 0 \/ o \in InUse(f1)) /\ WithdrawnTwin(f1, c) # 0 /\ c \in Content
    BY <1>4, <1>7, <1>10, <1>14
  <2> DEFINE q == RuleReturned(f1, g, c, o)
  <2>3. PICK n : /\ Resolves(f1, q, g, o, {n}) /\ n \notin InHeld(q)
                 /\ Undoing(q) \subseteq Undoing(f1) /\ HeldOnce(q) /\ Marked(q)
    BY <1>3, <1>4, <2>2, RuleReturnedPlaces
  <2> HIDE DEF q
  <2>4. h = q
    BY <2>1 DEF q
  <2>5. Tidy(h)
    BY <1>8, <2>3, <2>4
  <2> QED BY <2>5 DEF h
<1>15. CASE c # Gone /\ o = 0 /\ ~(looks /\ twin # 0)
  <2>1. h = RuleAdded(f1, g, c, act, looks) /\ c \in Content
    BY <1>1, <1>10, <1>15
  <2>2. PICK n : Resolves(f1, h, g, 0, {n}) /\ HeldOnce(h) /\ Marked(h)
    BY <1>3, <1>4, <1>5, <2>1, RuleAddedPlaces
  <2>3. \A b \in Undoing(f1) : f1.rule[b].guid # g
    BY <1>15, <1>3 DEF looks, twin
  <2>4. Tidy(h)
    BY <1>8, <1>15, <2>2, <2>3
  <2> QED BY <2>4 DEF h
<1>16. CASE c # Gone /\ o # 0 /\ f.rule[o].c # c /\ ~(looks /\ twin # 0)
  <2>1. h = RuleModified(f1, g, c, o, act) /\ c \in Content /\ o \in InUse(f1) /\ o \in f1.m_FwRules
    BY <1>1, <1>3, <1>4, <1>10, <1>16
  <2>2. cfg.GuardFwRules => act \in {"approve", "reject"}
    BY <1>6, <1>16
  <2>3. PICK n : Resolves(f1, h, g, o, {n}) /\ n \notin InHeld(h) /\ HeldOnce(h) /\ Marked(h)
    BY <1>3, <1>4, <2>1, <2>2, RuleModifiedPlaces
  <2>4. ~f.rule[o].backup
    BY <1>16
  <2>5. Tidy(h)
    BY <1>8, <1>9, <1>16, <2>3, <2>4
  <2> QED BY <2>5 DEF h
<1> QED BY <1>11, <1>12, <1>13, <1>14, <1>15, <1>16 DEF h

\* A change of a rule of Windows, as OnFwGuardEvent and UpdateRules apply it.
LEMMA ChangeTidy ==
    ASSUME Shape, Once, Tidy(fw), NEW g \in Guids, NEW c \in Contents, NEW o, Change(g, c, o),
           ~overlapped',
           \/ o = 0 /\ LiveAt(fw, g) = {}
           \/ LiveAt(fw, g) = {o}
           \/ c = Gone /\ o \in InUse(fw) /\ fw.rule[o].backup
    PROVE  Tidy(fw')
<1> DEFINE k == FWRuleChanged(fw, g, c, o)
<1>1. Sound(fw) /\ cfg \in Setting
  BY CfgIsSetting DEF Shape
<1>2. fw' = Collected(k) /\ (\E p \in Ids : fw.rule[p] = Free) /\ ~Overlaps(g, c, o)
  BY DEF Change, HasRoom
<1>3. o = 0 \/ o \in InUse(fw)
  BY <1>1, UndoingInUse DEF LiveAt
<1>4. o # 0 /\ ~fw.rule[o].backup =>
        o \in fw.m_FwRules /\ \A p \in Live(fw) : fw.rule[p].guid = fw.rule[o].guid => p = o
  BY DEF LiveAt, Live
<1>5. o # 0 /\ fw.rule[o].backup => c = Gone /\ (o \in fw.m_FwRules \/ Unanswered(fw, c, o) # "reject")
  BY <1>2 DEF Overlaps, LiveAt, Live
<1>6. ASSUME o = 0, c # Gone, ~(LooksForTwin(fw, c, o) /\ WithdrawnTwin(fw, c) # 0),
             NEW b \in Undoing(fw), fw.rule[b].guid = g
      PROVE  FALSE
  BY <1>1, UndoingInUse, <1>6, <1>2 DEF Undoing, Waiting, Unsettled, Tidy, Placed, InUse, Ids,
     Overlaps
<1>7. Tidy(k)
  BY <1>1, <1>2, <1>3, <1>4, <1>5, <1>6, ChangedTidy
<1>8. Sound(k)
  BY <1>1, <1>2, <1>3, ChangedEffect DEF LiveAt, Live, k, Touches, Drops, Trades
<1> HIDE DEF k
<1> QED BY <1>2, <1>7, <1>8, CollectedTidy

LEMMA RedoesTidy ==
    ASSUME NEW f, Sound(f), Tidy(f), NEW h, NEW g, Redoes(f, h, g),
           \A p \in h.m_RulesToRemove : p \in h.m_FwRules \/ f.rule[p].guid # g,
           cfg.GuardFwRules => \A p \in InHeld(f) : p \in h.m_FwRules \/ f.rule[p].guid # g
    PROVE  Tidy(h)
<1>1. /\ Undoing(f) \subseteq InUse(f) /\ InHeld(f) \subseteq InUse(f) /\ Live(f) \subseteq InUse(f)
      /\ Placed(f) /\ HeldOnce(f) /\ Marked(f)
  BY UndoingInUse DEF Tidy
<1>2. InHeld(h) = InHeld(f) /\ Waiting(h) = Waiting(f) /\ HeldOnce(h) /\ Marked(h)
  BY <1>1 DEF Redoes, InHeld, Waiting, HeldOnce, Marked
<1>3. Undoing(h) \subseteq Undoing(f)
  BY <1>2 DEF Redoes, Undoing
<1>4. ASSUME NEW p \in Live(f), p \in h.m_FwRules \/ f.rule[p].guid # g
      PROVE  p \in Live(h)
  BY <1>1, <1>4 DEF Redoes, Live
<1>5. h.m_RulesToRemove \subseteq Live(h)
  BY <1>1, <1>4 DEF Redoes, Placed
<1>6. InHeld(h) \cap h.m_RulesToRemove = {}
  BY <1>1, <1>2 DEF Redoes, Placed
<1>7. \A b \in Undoing(h) : h.rule[b].backup
  BY <1>1, <1>3 DEF Redoes, Placed
<1>8. \A p \in InUse(h) : ~h.rule[p].err
  BY <1>1 DEF Redoes, Placed
<1>9. ASSUME cfg.GuardFwRules
      PROVE  /\ InHeld(h) \subseteq Live(h)
             /\ Backups(h) \subseteq Undoing(h)
             /\ \A b \in Undoing(h), n \in InHeld(h) : h.rule[b].guid # h.rule[n].guid
  BY <1>1, <1>9, <1>2, <1>4, <1>3 DEF Placed, Backups, Sound, Redoes, Undoing
<1>10. Placed(h)
  BY <1>5, <1>6, <1>7, <1>8, <1>9 DEF Placed
<1> QED BY <1>2, <1>10 DEF Tidy

LEMMA RedoesTwice ==
    ASSUME NEW f, Sound(f), NEW h, NEW k, NEW g, Redoes(f, h, g), Redoes(h, k, g)
    PROVE  Redoes(f, k, g)
  BY DEF Sound, Redoes

\* The map loses rules and backups of g.
LEMMA RedoesMapLess ==
    ASSUME NEW f, Sound(f), NEW g, NEW S, \A p \in S \cap f.m_FwRules : f.rule[p].guid = g
    PROVE  LET h == [f EXCEPT !.m_FwRules = f.m_FwRules \ S]
           IN Redoes(f, h, g) /\ h.rule = f.rule /\ h.m_FwRules = f.m_FwRules \ S /\ SameLists(f, h)
  BY MapLess DEF Sound, Rules, SameLists, InUse, Redoes

\* The map gains a rule.
LEMMA RedoesAdd ==
    ASSUME NEW f, Sound(f), NEW g, NEW r \in Rule, ~r.backup, ~r.err,
           \E p \in Ids : f.rule[p] = Free
    PROVE  LET h == AddRule(f, r)
           IN /\ Redoes(f, h, g) /\ SameLists(f, h)
              /\ \A p \in InUse(f) : h.rule[p] = f.rule[p]
              /\ f.m_FwRules \subseteq h.m_FwRules
<1> DEFINE h == AddRule(f, r)
           n == NextId(f)
<1>1. Sound(h)
  BY AddRuleEffect
<1>2. n \in Ids /\ n \notin InUse(f)
  BY NextIdIsFree DEF InUse
<1>3. /\ \A p \in Ids \ {n} : h.rule[p] = f.rule[p]
      /\ h.m_FwRules = f.m_FwRules \cup {n}
  BY AddRuleEffect
<1>4. SameLists(f, h)
  BY AddRuleEffect DEF SameLists
<1>5. h.rule = [f.rule EXCEPT ![n] = r] /\ f.rule \in [Ids -> Object]
  BY AddRuleEffect, SoundParts
<1> HIDE DEF h, n
<1>6. h.rule[n] = r
  BY <1>2, <1>5
<1>7. \A p \in InUse(f) : h.rule[p] = f.rule[p]
  BY <1>2, <1>3 DEF InUse
<1>8. InUse(f) \subseteq InUse(h) /\ InUse(h) \subseteq InUse(f) \cup {n}
  BY <1>2, <1>3 DEF InUse
<1>9. \A p \in InUse(h) \ InUse(f) : ~h.rule[p].backup /\ ~h.rule[p].err
  BY <1>6, <1>8
<1>10. Redoes(f, h, g)
  BY <1>1, <1>2, <1>3, <1>4, <1>7, <1>8, <1>9 DEF Redoes, SameLists
<1> QED BY <1>3, <1>4, <1>7, <1>10 DEF h

\* Contents and verdicts change.
LEMMA RedoesSame ==
    ASSUME NEW f, Sound(f), NEW h, Sound(h), NEW g, SameObjects(f, h), h.m_FwRules = f.m_FwRules,
           SameLists(f, h)
    PROVE  Redoes(f, h, g)

BY DEF SameObjects, SameLists, Redoes

\* What has been undone leaves the sets of what is to be undone.
LEMMA RedoesUndone ==
    ASSUME NEW f, Sound(f), NEW g, NEW o
    PROVE  /\ Redoes(f, [f EXCEPT !.m_RulesToRemove = f.m_RulesToRemove \ {o}], g)
           /\ o \notin f.m_FwRules => Redoes(f, [f EXCEPT !.m_RulesToRevert = f.m_RulesToRevert \ {o}], g)
<1> DEFINE h == [f EXCEPT !.m_RulesToRemove = f.m_RulesToRemove \ {o}]
           k == [f EXCEPT !.m_RulesToRevert = f.m_RulesToRevert \ {o}]
<1>1. Sound(h) /\ Sound(k)
  BY RemoveLessTouches DEF Touches
<1>2. /\ h.rule = f.rule /\ h.m_FwRules = f.m_FwRules /\ h.m_HeldRules = f.m_HeldRules
      /\ h.m_RulesToRemove = f.m_RulesToRemove \ {o} /\ h.m_RulesToRevert = f.m_RulesToRevert
      /\ h.m_WithdrawnRules = f.m_WithdrawnRules
  BY DEF Sound, Rules
<1>3. /\ k.rule = f.rule /\ k.m_FwRules = f.m_FwRules /\ k.m_HeldRules = f.m_HeldRules
      /\ k.m_RulesToRemove = f.m_RulesToRemove /\ k.m_RulesToRevert = f.m_RulesToRevert \ {o}
      /\ k.m_WithdrawnRules = f.m_WithdrawnRules
  BY DEF Sound, Rules
<1> HIDE DEF h, k
<1>4. InUse(h) = InUse(f) /\ InUse(k) = InUse(f)
  BY <1>2, <1>3 DEF InUse
<1>5. Redoes(f, h, g)
  BY <1>1, <1>2, <1>4 DEF Redoes
<1>6. o \notin f.m_FwRules => Redoes(f, k, g)
  BY <1>1, <1>3, <1>4 DEF Redoes
<1> QED BY <1>5, <1>6 DEF h, k

\* An object is edited where it is.
LEMMA EditSame ==
    ASSUME NEW f, Sound(f), NEW o \in InUse(f), NEW r \in Rule, r.guid = f.rule[o].guid,
           r.err <=> f.rule[o].err, r.backup <=> f.rule[o].backup
    PROVE  LET h == [f EXCEPT !.rule[o] = r]
           IN /\ Sound(h) /\ SameObjects(f, h) /\ h.m_FwRules = f.m_FwRules /\ SameLists(f, h)
              /\ h.rule = [f.rule EXCEPT ![o] = r]
<1> DEFINE q == [f.rule EXCEPT ![o] = r]
           h == [f EXCEPT !.rule = q]
<1>1. f \in Rules /\ f.rule \in [Ids -> Object] /\ o \in Ids
  BY SoundParts DEF Sound, InUse
<1>2. [f EXCEPT !.rule[o] = r] = h
  OBVIOUS
<1>3. q[o] = r /\ (\A p \in Ids \ {o} : q[p] = f.rule[p]) /\ q \in [Ids -> Object]
  BY <1>1, RuleInUse
<1>4. r # Free
  BY RuleInUse
<1>5. /\ h.rule = q /\ h.m_FwRules = f.m_FwRules /\ SameLists(f, h)
  BY <1>1 DEF Rules, SameLists
<1> HIDE DEF q
<1>6. Sound(h)
  BY <1>3, <1>4, SoundObjects DEF InUse
<1> HIDE DEF h
<1>7. InUse(h) = InUse(f)
  BY <1>3, <1>4, <1>5 DEF InUse
<1>8. SameObjects(f, h)
  BY <1>3, <1>5, <1>7 DEF SameObjects, InUse
<1> QED BY <1>2, <1>5, <1>6, <1>8 DEF q

\* RejectRule with a call that does not fail: the rule is deleted, or disabled, or
\* was gone already.
LEMMA RejectIs ==
    ASSUME Shape, Calm, Once, Tidy(fw), NEW o, RejectRule(o), doubtful' = {}
    PROVE  Rejected(fw', o, fw.rule[o].guid)
<1> DEFINE g == fw.rule[o].guid
           c == [fw.rule[o].c EXCEPT !.on = FALSE]
<1>1. Sound(fw) /\ Placed(fw)
  BY DEF Shape, Tidy
<1>2. /\ o \in fw.m_RulesToRemove /\ o \in Live(fw) /\ o \notin InHeld(fw) /\ o \in InUse(fw)
      /\ o \in Suspect(fw)
  BY <1>1, UndoingInUse DEF RejectRule, Placed, Suspect
<1>3. fw.rule[o] \in Rule /\ fw.rule[o].c \in Content /\ c \in Content /\ ~Rogue(c)
  BY <1>1, <1>2, InUseIsRule DEF Content, Rogue
<1>4. \A p \in Live(fw) : fw.rule[p].guid = g => p = o
  BY <1>2 DEF Once, Calm
<1> DEFINE f1 == [fw EXCEPT !.m_RulesToRemove = fw.m_RulesToRemove \ {o}]
<1>5. Redoes(fw, f1, g)
  BY <1>1, RedoesUndone
<1>6. /\ f1.rule = fw.rule /\ f1.m_FwRules = fw.m_FwRules
      /\ f1.m_RulesToRemove = fw.m_RulesToRemove \ {o}
      /\ f1.m_RulesToRevert = fw.m_RulesToRevert
  BY <1>1 DEF Sound, Rules
<1>7. Sound(f1)
  BY <1>5 DEF Redoes
<1>8. \/ fw' = RemoveLive(f1, g)
      \/ fw' = f1 /\ ~fw.rule[o].c.on
      \/ fw' = [f1 EXCEPT !.rule[o].c = c, !.rule[o].state = "disabled"]
  <2>1. doubtful' # doubtful \cup {g}
    OBVIOUS
  <2> QED BY <2>1 DEF RejectRule, DeleteRogue, DisableRogue
<1> HIDE DEF f1
<1>9. ASSUME NEW h, Redoes(f1, h, g), InUse(h) = InUse(fw),
             \A p \in InUse(fw) \ {o} : h.rule[p] = fw.rule[p],
             h.m_RulesToRemove = f1.m_RulesToRemove, h.m_RulesToRevert = f1.m_RulesToRevert,
             fw.m_FwRules \ {o} \subseteq h.m_FwRules,
             o \in h.m_FwRules => ~Rogue(h.rule[o].c)
      PROVE  Rejected(h, o, g)
  <2>1. Redoes(fw, h, g)
    BY <1>1, <1>5, <1>9, RedoesTwice
  <2> HIDE DEF g
  <2> QED BY <1>6, <1>9, <2>1 DEF Rejected
<1>10. CASE fw' = RemoveLive(f1, g)
  <2> DEFINE S == LiveAt(f1, g)
             h == [f1 EXCEPT !.m_FwRules = f1.m_FwRules \ S]
  <2>1. S \subseteq {o} /\ \A p \in S \cap f1.m_FwRules : f1.rule[p].guid = g
    BY <1>4, <1>6 DEF LiveAt, Live
  <2>2. o \in S
    BY <1>2, <1>6 DEF LiveAt, Live
  <2>3. RemoveLive(f1, g) = h
    BY DEF RemoveLive
  <2> HIDE DEF S
  <2>4. Redoes(f1, h, g)
    BY <1>7, <2>1, RedoesMapLess
  <2>5. h.rule = f1.rule /\ SameLists(f1, h) /\ h.m_FwRules = f1.m_FwRules \ S
    BY <1>7 DEF Sound, Rules, SameLists
  <2> HIDE DEF h
  <2>6. InUse(h) = InUse(fw)
    BY <1>6, <2>5 DEF InUse
  <2>7. o \notin h.m_FwRules /\ fw.m_FwRules \ {o} \subseteq h.m_FwRules
    BY <1>6, <2>1, <2>2, <2>5
  <2>8. Rejected(h, o, g)
    BY <1>6, <1>9, <2>4, <2>5, <2>6, <2>7 DEF SameLists
  <2> QED BY <1>10, <2>3, <2>8
<1>11. CASE fw' = f1 /\ ~fw.rule[o].c.on
  <2>1. SameObjects(f1, f1) /\ SameLists(f1, f1)
    BY DEF SameObjects, SameLists
  <2>2. Redoes(f1, f1, g)
    BY <1>7, <2>1, RedoesSame
  <2>3. InUse(f1) = InUse(fw) /\ ~Rogue(f1.rule[o].c)
    BY <1>6, <1>11 DEF InUse, Rogue
  <2>4. Rejected(f1, o, g)
    BY <1>6, <1>9, <2>2, <2>3
  <2> QED BY <1>11, <2>4
<1>12. CASE fw' = [f1 EXCEPT !.rule[o].c = c, !.rule[o].state = "disabled"]
  <2> DEFINE r == NewForm(fw.rule[o], c, "disabled")
             h == [f1 EXCEPT !.rule[o] = r]
  <2> HIDE DEF c
  <2>1. /\ r \in Rule /\ r.guid = g /\ (r.err <=> fw.rule[o].err)
        /\ (r.backup <=> fw.rule[o].backup) /\ r.c = c
    BY <1>3 DEF Rule, States, NewForm
  <2>2. f1.rule[o] = fw.rule[o] /\ f1 \in Rules /\ o \in Ids /\ o \in InUse(f1)
    BY <1>2, <1>6, <1>7 DEF Sound, InUse
  <2>3. AtOnce(f1, o, c, "disabled") = [f1 EXCEPT !.rule[o] = NewForm(f1.rule[o], c, "disabled")]
    BY <1>3, <2>2, EditIs
  <2>4. fw' = h
    BY <1>12, <2>2, <2>3 DEF AtOnce
  <2> HIDE DEF r
  <2>5. /\ Sound(h) /\ SameObjects(f1, h) /\ h.m_FwRules = f1.m_FwRules /\ SameLists(f1, h)
        /\ h.rule = [f1.rule EXCEPT ![o] = r]
    BY <1>7, <2>1, <2>2, EditSame
  <2> HIDE DEF h
  <2>6. Redoes(f1, h, g)
    BY <1>7, <2>5, RedoesSame
  <2>7. f1.rule \in [Ids -> Object]
    BY <1>7, SoundParts
  <2>8. h.rule[o].c = c /\ \A p \in InUse(fw) \ {o} : h.rule[p] = fw.rule[p]
    BY <1>6, <2>1, <2>2, <2>5, <2>7 DEF InUse
  <2>9. InUse(h) = InUse(fw)
    BY <1>6, <2>5 DEF SameObjects, InUse
  <2>10. Rejected(h, o, g)
    BY <1>3, <1>6, <1>9, <2>5, <2>6, <2>8, <2>9 DEF SameLists
  <2> QED BY <2>4, <2>10
<1> QED BY <1>8, <1>10, <1>11, <1>12

\* A rule that was turned down is deleted, or disabled where it is: it is live, so
\* no other rule has its guid.
LEMMA RejectTidy ==
    ASSUME Shape, Once, Tidy(fw), NEW o, RejectRule(o), Calm, doubtful' = {}
    PROVE  Tidy(fw')
<1> DEFINE g == fw.rule[o].guid
<1>1. Sound(fw) /\ Placed(fw) /\ o \in fw.m_RulesToRemove
  BY DEF Shape, Tidy, RejectRule
<1>2. PICK h : h = fw'
  OBVIOUS
<1>3. Redoes(fw, h, g) /\ fw.m_FwRules \ {o} \subseteq h.m_FwRules
      /\ h.m_RulesToRemove = fw.m_RulesToRemove \ {o}
  BY <1>2, RejectIs DEF Rejected
<1>4. \A p \in h.m_RulesToRemove : p \in h.m_FwRules
  BY <1>1, <1>3 DEF Placed, Live
<1>5. cfg.GuardFwRules => \A p \in InHeld(fw) : p \in h.m_FwRules
  BY <1>1, <1>3 DEF Placed, Live
<1>6. Tidy(h)
  BY <1>1, <1>3, <1>4, <1>5, RedoesTidy
<1> QED BY <1>2, <1>6

\* Nothing about a rule waits when a request for it collides with nothing.
LEMMA NoneWaits ==
    ASSUME NEW g, ~Collides(g)
    PROVE  \A o \in fw.m_RulesToRemove \cup Undoing(fw) \cup InHeld(fw) : fw.rule[o].guid # g

BY DEF Collides, Unsettled, Undoing, Waiting, InHeld

\* The map after a restore: of the guid it has the restored rule only.
LEMMA RestoredIs ==
    ASSUME Sound(fw), NEW b \in InUse(fw), fw.rule[b].backup, NEW state \in States,
           HasRoom, Restored(fw.rule[b], b, state)
    PROVE  /\ BackInForce(fw, fw', b)
           /\ \E n \in Ids \ InUse(fw) : BackAs(fw, fw', b, state, n)
<1> DEFINE g  == fw.rule[b].guid
           r  == [NewRule(g, fw.rule[b].c) EXCEPT !.state = state]
           S  == LiveAt(fw, g)
           f1 == [fw EXCEPT !.m_FwRules = fw.m_FwRules \ S]
           n  == NextId(f1)
           f2 == AddRule(f1, r)
           T  == {x \in Backups(f2) : f2.rule[x].guid = g}
           f3 == [f2 EXCEPT !.m_FwRules = f2.m_FwRules \ T]
           f4 == [f3 EXCEPT !.m_RulesToRevert = f3.m_RulesToRevert \ {b}]
<1>1. g \in Guids /\ fw.rule[b].c \in Content
  BY InUseIsRule
<1>2. fw' = f4
  BY DEF Restored, RemoveLive, ClearBackups
<1>3. r \in Rule /\ ~r.backup /\ ~r.err /\ r.guid = g /\ r.c = fw.rule[b].c /\ r.state = state
  <2>1. /\ r \in Rule /\ ~r.backup /\ r.guid = g /\ r.c = fw.rule[b].c /\ r.state = state
    BY <1>1, NewRuleType
  <2>2. ~r.err
    BY DEF NewRule
  <2> QED BY <2>1, <2>2
<1> HIDE DEF r
<1>4. /\ Redoes(fw, f1, g) /\ f1.rule = fw.rule /\ SameLists(fw, f1)
      /\ f1.m_FwRules = fw.m_FwRules \ S
  <2>1. \A p \in S \cap fw.m_FwRules : fw.rule[p].guid = g
    BY DEF LiveAt
  <2> HIDE DEF S, g
  <2>2. Redoes(fw, f1, g)
    BY <2>1, RedoesMapLess
  <2>3. f1.rule = fw.rule /\ SameLists(fw, f1) /\ f1.m_FwRules = fw.m_FwRules \ S
    BY DEF Sound, Rules, SameLists
  <2> QED BY <2>2, <2>3
<1> HIDE DEF f1
<1>5. Sound(f1) /\ (\E p \in Ids : f1.rule[p] = Free) /\ InUse(f1) = InUse(fw)
  BY <1>4 DEF Redoes, HasRoom, InUse
<1>6. /\ Redoes(f1, f2, g) /\ SameLists(f1, f2)
      /\ \A p \in InUse(f1) : f2.rule[p] = f1.rule[p]
  <2> HIDE DEF g
  <2> QED BY <1>3, <1>5, RedoesAdd
<1>7. /\ n \in Ids /\ f2.rule[n] = r /\ f1.rule[n] = Free
      /\ (\A p \in Ids \ {n} : f2.rule[p] = f1.rule[p])
      /\ f2.m_FwRules = f1.m_FwRules \cup {n}
  BY <1>3, <1>5, AddRuleEffect
<1> HIDE DEF f2, n
<1>8. InUse(f2) = InUse(fw) \cup {n} /\ n \notin InUse(fw)
  <2>1. r # Free
    BY <1>3, RuleInUse
  <2> QED BY <1>4, <1>7, <2>1 DEF InUse
<1>9. Sound(f2)
  BY <1>6 DEF Redoes
<1>10. /\ Redoes(f2, f3, g) /\ f3.m_FwRules = f2.m_FwRules \ T /\ f3.rule = f2.rule
       /\ SameLists(f2, f3)
  <2>1. \A p \in T \cap f2.m_FwRules : f2.rule[p].guid = g
    OBVIOUS
  <2> HIDE DEF T, g
  <2>2. Redoes(f2, f3, g)
    BY <1>9, <2>1, RedoesMapLess
  <2>3. f3.m_FwRules = f2.m_FwRules \ T /\ f3.rule = f2.rule /\ SameLists(f2, f3)
    BY <1>9 DEF Sound, Rules, SameLists
  <2> QED BY <2>2, <2>3
<1> HIDE DEF f3
<1>11. Sound(f3)
  BY <1>10 DEF Redoes
<1>12. /\ f4.rule = f3.rule /\ f4.m_FwRules = f3.m_FwRules
       /\ f4.m_RulesToRemove = f3.m_RulesToRemove
       /\ f4.m_RulesToRevert = f3.m_RulesToRevert \ {b}
  BY <1>11 DEF Sound, Rules
<1>13. fw.m_FwRules \subseteq InUse(fw)
  BY DEF Sound
<1>14. f3.m_FwRules = {p \in fw.m_FwRules : fw.rule[p].guid # g} \cup {n}
  <2>1. \A p \in InUse(fw) : f2.rule[p] = fw.rule[p]
    BY <1>4, <1>5, <1>6
  <2>2. T = {x \in Backups(fw) : fw.rule[x].guid = g}
    <3>1. n \notin T
      BY <1>3, <1>7 DEF Backups
    <3>2. Backups(fw) \subseteq f1.m_FwRules
      BY <1>4 DEF Backups, LiveAt, Live
    <3>3. \A p \in InUse(fw) : p \in T <=> p \in Backups(fw) /\ fw.rule[p].guid = g
      BY <1>4, <1>7, <1>8, <2>1, <3>2 DEF Backups
    <3>4. T \subseteq InUse(fw) \cup {n} /\ Backups(fw) \subseteq InUse(fw)
      BY <1>4, <1>7, <1>13 DEF Backups
    <3> QED BY <3>1, <3>3, <3>4
  <2> HIDE DEF T
  <2>3. f3.m_FwRules = ((fw.m_FwRules \ S) \cup {n}) \ T
    BY <1>4, <1>7, <1>10
  <2>4. S = {x \in fw.m_FwRules : ~fw.rule[x].backup /\ fw.rule[x].guid = g}
    BY DEF LiveAt, Live
  <2>5. T = {x \in fw.m_FwRules : fw.rule[x].backup /\ fw.rule[x].guid = g}
    BY <2>2 DEF Backups
  <2>6. n \notin T
    BY <1>8, <1>13, <2>5
  <2> HIDE DEF S, g
  <2> QED BY <2>3, <2>4, <2>5, <2>6
<1>15. b \notin f3.m_FwRules
  BY <1>8, <1>14
<1>16. Redoes(f3, f4, g)
  <2> HIDE DEF g
  <2> QED BY <1>11, <1>15, RedoesUndone
<1> HIDE DEF f4, S, T
<1>17. Redoes(fw, f4, g)
  <2> HIDE DEF g
  <2>1. Redoes(fw, f2, g)
    BY <1>4, <1>6, RedoesTwice
  <2>2. Redoes(fw, f3, g)
    BY <1>10, <2>1, RedoesTwice
  <2> QED BY <1>16, <2>2, RedoesTwice
<1>18. \A p \in InUse(fw) : f4.rule[p] = fw.rule[p]
  BY <1>4, <1>5, <1>6, <1>10, <1>12
<1>19. /\ f4.m_RulesToRemove = fw.m_RulesToRemove
       /\ f4.m_RulesToRevert = fw.m_RulesToRevert \ {b}
  BY <1>4, <1>6, <1>10, <1>12 DEF SameLists
<1>20. InUse(f4) = InUse(fw) \cup {n} /\ f4.rule[n] = r
  BY <1>7, <1>8, <1>10, <1>12 DEF InUse
<1>21. f4.m_FwRules = {p \in fw.m_FwRules : fw.rule[p].guid # g} \cup {n}
  BY <1>12, <1>14
<1>22. BackInForce(fw, f4, b)
  BY <1>17, <1>18, <1>19 DEF BackInForce, g
<1>23. BackAs(fw, f4, b, state, n)
  BY <1>3, <1>20, <1>21 DEF BackAs, g
<1> QED BY <1>2, <1>7, <1>8, <1>22, <1>23

\* RestoreRule puts the backup's rule into the map, and takes the rule and the
\* backups it replaces out of it.
LEMMA RestoredTidy ==
    ASSUME Sound(fw), Tidy(fw), NEW b \in InUse(fw), fw.rule[b].backup, NEW state \in States,
           HasRoom, Restored(fw.rule[b], b, state),
           \A p \in fw.m_RulesToRemove : fw.rule[p].guid # fw.rule[b].guid,
           cfg.GuardFwRules => \A p \in InHeld(fw) : fw.rule[p].guid # fw.rule[b].guid
    PROVE  Tidy(fw')
<1>1. PICK h : h = fw'
  OBVIOUS
<1>2. Redoes(fw, h, fw.rule[b].guid)
  BY <1>1, RestoredIs DEF BackInForce
<1>3. \A p \in h.m_RulesToRemove : fw.rule[p].guid # fw.rule[b].guid
  BY <1>2 DEF Redoes
<1>4. Tidy(h)
  BY <1>2, <1>3, RedoesTidy
<1> QED BY <1>1, <1>4

\* A restore of which nothing is in doubt went as it should.
LEMMA RestoreIsSure ==
    ASSUME Sound(fw), NEW b \in InUse(fw), fw.rule[b].backup, NEW state, RestoreRule(b, state),
           doubtful' = {}
    PROVE  Restored(fw.rule[b], b, state) /\ HasRoom
<1>1. HasRoom /\ PutBack(b, fw.rule[b].guid, state)
  BY DEF RestoreRule, PutBack
<1>2. [fw.rule[b] EXCEPT !.guid = fw.rule[b].guid] = fw.rule[b]
  BY InUseIsRule DEF Rule
<1> QED BY <1>1, <1>2 DEF PutBack, NotRestored, RestoredAs, RestoredUnread

LEMMA RevertTidy ==
    ASSUME Shape, Tidy(fw), NEW b, RevertRule(b), doubtful' = {}
    PROVE  /\ Tidy(fw') /\ b \in InUse(fw) /\ fw.rule[b].backup
           /\ Restored(fw.rule[b], b, fw.rule[b].state) /\ HasRoom
<1>1. /\ Sound(fw) /\ b \in InUse(fw) /\ fw.rule[b].backup /\ fw.rule[b].state \in States
      /\ RestoreRule(b, fw.rule[b].state) /\ fw.m_RulesToRemove = {}
      /\ cfg.GuardFwRules => \A p \in InHeld(fw) : fw.rule[p].guid # fw.rule[b].guid
  BY UndoingInUse, InUseIsRule DEF Shape, Tidy, RevertRule, Undoing, Placed
<1>2. Restored(fw.rule[b], b, fw.rule[b].state) /\ HasRoom
  BY <1>1, RestoreIsSure
<1> QED BY <1>1, <1>2, RestoredTidy

LEMMA RestoreBackupTidy ==
    ASSUME Shape, Verdicts, Tidy(fw), RestoreBackup, doubtful' = {}, ~overlapped'
    PROVE  Tidy(fw')
<1>1. /\ Sound(fw) /\ user.o \in InUse(fw) /\ fw.rule[user.o].backup /\ "approved" \in States
      /\ RestoreRule(user.o, "approved") /\ ~Collides(fw.rule[user.o].guid)
  BY InHand DEF Shape, Verdicts, RestoreBackup, States
<1>2. Restored(fw.rule[user.o], user.o, "approved") /\ HasRoom
  BY <1>1, RestoreIsSure
<1> QED BY <1>1, <1>2, NoneWaits, RestoredTidy

\* A rule is given a verdict.
LEMMA StateRedoes ==
    ASSUME NEW f, Sound(f), NEW o \in InUse(f), NEW s \in States, NEW g
    PROVE  Redoes(f, [f EXCEPT !.rule[o].state = s], g)
<1> DEFINE r == [f.rule[o] EXCEPT !.state = s]
           h == [f EXCEPT !.rule[o] = r]
<1>1. f.rule[o] \in Rule
  BY InUseIsRule
<1>2. /\ r \in Rule /\ r.guid = f.rule[o].guid
      /\ (r.err <=> f.rule[o].err) /\ (r.backup <=> f.rule[o].backup)
  BY <1>1 DEF Rule
<1>3. [f EXCEPT !.rule[o].state = s] = h
  OBVIOUS
<1> HIDE DEF r
<1>4. Sound(h) /\ SameObjects(f, h) /\ h.m_FwRules = f.m_FwRules /\ SameLists(f, h)
  BY <1>2, EditSame
<1> HIDE DEF h
<1>5. Redoes(f, h, g)
  BY <1>4, RedoesSame
<1> QED BY <1>3, <1>5

\* A request for a rule nothing waits about.
LEMMA RequestTidy ==
    ASSUME Sound(fw), Tidy(fw), NEW g, ~Collides(g), NEW k, Redoes(fw, k, g)
    PROVE  Tidy(Collected(k))
  BY NoneWaits, RedoesTidy, CollectedTidy DEF Redoes

\* The verdict of a request, where no other change came in between.
LEMMA ApproveTidy ==
    ASSUME Safe, Tidy(fw), Approve, ~overlapped'
    PROVE  /\ fw' = [fw EXCEPT !.rule[user.o].state = "approved"]
           /\ user.o \in InUse(fw) /\ doubtful' = doubtful /\ Tidy(fw')
<1>1. Sound(fw) /\ user.o \in InUse(fw) /\ "approved" \in States /\ Placed(fw)
  BY InHand DEF Safe, Shape, Approve, States, Tidy
<1> DEFINE h == [fw EXCEPT !.rule[user.o].state = "approved"]
<1>2. fw' = h /\ doubtful' = doubtful
  BY DEF Approve
<1>3. h.m_FwRules = fw.m_FwRules
  BY <1>1 DEF Sound, Rules
<1>4. Redoes(fw, h, 0)
  BY <1>1, StateRedoes
<1> HIDE DEF h
<1>5. /\ \A p \in h.m_RulesToRemove : p \in h.m_FwRules
      /\ cfg.GuardFwRules => \A p \in InHeld(fw) : p \in h.m_FwRules
  BY <1>1, <1>3, <1>4 DEF Redoes, Placed, Live
<1>6. Tidy(h)
  BY <1>1, <1>4, <1>5, RedoesTidy
<1> QED BY <1>1, <1>2, <1>6 DEF h

\* A request that was overtaken by nothing drops every backup of its rule.
LEMMA DropIs ==
    ASSUME DropBackups, ~overlapped'
    PROVE  /\ user.o \in Live(fw) /\ fw.rule[user.o].c = user.c
           /\ fw.rule[user.o].state = "approved" /\ ~Collides(fw.rule[user.o].guid)
           /\ fw' = Collected(ClearBackups(fw, fw.rule[user.o].guid))
           /\ wanted' = (wanted \ FormsOf(fw.rule[user.o].guid)) \cup {user.c}
<1> DEFINE g   == fw.rule[user.o].guid
           old == IF fw.rule[user.o].backup THEN {} ELSE {b \in Backups(fw) : fw.rule[b].guid = g}
<1>1. PICK S : /\ fw' = Collected([fw EXCEPT !.m_FwRules = @ \ S])
               /\ overlapped' = (overlapped \/ S # old \/ Replaced(user.o) \/ Collides(g))
  BY DEF DropBackups
<1>2. S = old /\ ~Replaced(user.o) /\ ~Collides(g)
  BY <1>1
<1>3. /\ user.o \in Live(fw) /\ fw.rule[user.o].c = user.c
      /\ fw.rule[user.o].state = "approved" /\ ~fw.rule[user.o].backup
  BY <1>2 DEF Replaced, Live
<1>4. fw' = Collected(ClearBackups(fw, g))
  BY <1>1, <1>2, <1>3 DEF ClearBackups
<1> QED BY <1>2, <1>3, <1>4 DEF DropBackups

LEMMA DropTidy ==
    ASSUME Shape, Tidy(fw), DropBackups, ~overlapped'
    PROVE  Tidy(fw')
<1> DEFINE g == fw.rule[user.o].guid
           T == {b \in Backups(fw) : fw.rule[b].guid = g}
           k == [fw EXCEPT !.m_FwRules = fw.m_FwRules \ T]
<1>1. Sound(fw) /\ ~Collides(g) /\ fw' = Collected(k)
  BY DropIs DEF Shape, ClearBackups
<1>2. \A p \in T \cap fw.m_FwRules : fw.rule[p].guid = g
  OBVIOUS
<1>3. Redoes(fw, k, g)
  <2> HIDE DEF T, g
  <2> QED BY <1>1, <1>2, RedoesMapLess
<1> HIDE DEF k
<1> QED BY <1>1, <1>3, RequestTidy

LEMMA DelTidy ==
    ASSUME Shape, Tidy(fw), NEW o, DelRule(o), ~overlapped'
    PROVE  Tidy(fw')
<1> DEFINE g == fw.rule[o].guid
           S == {o}
           k == [fw EXCEPT !.m_FwRules = fw.m_FwRules \ S]
<1>1. Sound(fw) /\ ~Collides(g) /\ fw' = Collected(k)
  BY DEF Shape, DelRule
<1>2. \A p \in S \cap fw.m_FwRules : fw.rule[p].guid = g
  OBVIOUS
<1>3. Redoes(fw, k, g)
  <2> HIDE DEF S, g
  <2> QED BY <1>1, <1>2, RedoesMapLess
<1> HIDE DEF k
<1> QED BY <1>1, <1>3, RequestTidy

\* UpdateFWRule edits the live rule of the guid, or puts a new one in its place.
LEMMA WritesOne ==
    ASSUME Shape, Once, Calm, HasRoom, NEW g \in Guids, NEW c \in Content
    PROVE  Writes(UpdateFWRule(fw, g, c), g, c)
<1> DEFINE S == LiveAt(fw, g)
           h == UpdateFWRule(fw, g, c)
           o == GetRule(fw, g)
<1>1. Sound(fw) /\ \E p \in Ids : fw.rule[p] = Free
  BY DEF Shape, HasRoom
<1>2. g \in Guids /\ c \in Content /\ c # Gone
  BY FirewallAssumption DEF Content, Gone
<1>4. fw.m_FwRules \subseteq InUse(fw) /\ S \subseteq InUse(fw)
  BY <1>1 DEF Sound, LiveAt, Live
<1>5. /\ Redoes(fw, h, g) /\ SameLists(fw, h)
      /\ \A p \in InUse(fw) \ S : h.rule[p] = fw.rule[p]
      /\ fw.m_FwRules \ S \subseteq h.m_FwRules
      /\ \A p \in InUse(h) \ InUse(fw) : h.rule[p].guid = g
      /\ \E n \in LiveAt(h, g) : h.rule[n].c = c /\ LiveAt(h, g) = {n}
  <2>1. CASE o # 0 /\ Prog[fw.rule[o].c.k] = Prog[c.k]
    <3> DEFINE r == [fw.rule[o] EXCEPT !.c = c]
               m == [fw EXCEPT !.rule[o] = r]
    <3>1. o \in LiveAt(fw, g)
      BY <2>1 DEF GetRule
    <3>2. o \in InUse(fw) /\ fw.rule[o] \in Rule
      BY <1>1, <3>1, UndoingInUse, InUseIsRule DEF LiveAt
    <3>3. h = m
      BY <1>2, <2>1 DEF UpdateFWRule
    <3> HIDE DEF o, h
    <3>4. /\ r \in Rule /\ r.guid = fw.rule[o].guid /\ r.c = c
          /\ (r.err <=> fw.rule[o].err) /\ (r.backup <=> fw.rule[o].backup)
      BY <1>2, <3>2 DEF Rule
    <3> HIDE DEF r
    <3>5. /\ Sound(m) /\ SameObjects(fw, m) /\ m.m_FwRules = fw.m_FwRules /\ SameLists(fw, m)
          /\ m.rule = [fw.rule EXCEPT ![o] = r]
      BY <1>1, <3>2, <3>4, EditSame
    <3> HIDE DEF m
    <3>6. Redoes(fw, m, g)
      BY <1>1, <3>5, RedoesSame
    <3>7. m.rule[o] = r /\ \A p \in InUse(fw) \ {o} : m.rule[p] = fw.rule[p]
      <4>1. fw.rule \in [Ids -> Object] /\ o \in Ids
        BY <1>1, <3>2, SoundParts DEF InUse
      <4> QED BY <3>5, <4>1 DEF InUse
    <3>8. LiveAt(m, g) = {o} /\ S = {o}
      <4>1. S = {o}
        BY <3>1 DEF LiveAt, Once, Calm
      <4>2. LiveAt(m, g) = LiveAt(fw, g)
        BY <1>4, <3>5 DEF LiveAt, Live, SameObjects
      <4> QED BY <4>1, <4>2
    <3>9. InUse(m) = InUse(fw)
      BY <3>5 DEF SameObjects
    <3> QED BY <3>3, <3>4, <3>5, <3>6, <3>7, <3>8, <3>9
  <2>2. CASE ~(o # 0 /\ Prog[fw.rule[o].c.k] = Prog[c.k])
    <3> DEFINE r == NewRule(g, c)
               f1 == [fw EXCEPT !.m_FwRules = fw.m_FwRules \ S]
               m == AddRule(f1, r)
               n == NextId(f1)
    <3>1. h = m
      BY <1>2, <2>2 DEF UpdateFWRule, RemoveLive
    <3> HIDE DEF h, o
    <3>2. r \in Rule /\ ~r.backup /\ ~r.err /\ r.guid = g /\ r.c = c
      <4>1. "unapproved" \in States
        BY DEF States
      <4>2. r \in Rule /\ ~r.backup /\ r.guid = g /\ r.c = c
        BY <1>2, <4>1, NewRuleType
      <4>3. ~r.err
        BY DEF NewRule
      <4> QED BY <4>2, <4>3
    <3> HIDE DEF r
    <3>3. \A p \in S \cap fw.m_FwRules : fw.rule[p].guid = g
      BY DEF LiveAt
    <3>4. S = {p \in fw.m_FwRules : ~fw.rule[p].backup /\ fw.rule[p].guid = g}
      BY DEF LiveAt, Live
    <3> HIDE DEF S
    <3>5. Redoes(fw, f1, g)
      BY <1>1, <3>3, RedoesMapLess
    <3>6. f1.rule = fw.rule /\ SameLists(fw, f1) /\ f1.m_FwRules = fw.m_FwRules \ S
      BY <1>1 DEF Sound, Rules, SameLists
    <3> HIDE DEF f1
    <3>7. Sound(f1) /\ (\E p \in Ids : f1.rule[p] = Free) /\ InUse(f1) = InUse(fw)
      BY <1>1, <3>5, <3>6 DEF Redoes, InUse
    <3>8. Redoes(f1, m, g) /\ SameLists(f1, m)
      BY <3>2, <3>7, RedoesAdd
    <3>9. /\ n \in Ids /\ m.rule[n] = r /\ n \notin InUse(f1)
          /\ (\A p \in Ids \ {n} : m.rule[p] = f1.rule[p])
          /\ m.m_FwRules = f1.m_FwRules \cup {n}
      BY <3>2, <3>7, AddRuleEffect
    <3> HIDE DEF m, n
    <3>10. Redoes(fw, m, g)
      BY <1>1, <3>5, <3>8, RedoesTwice
    <3>11. SameLists(fw, m)
      BY <3>6, <3>8 DEF SameLists
    <3>12. \A p \in InUse(fw) : m.rule[p] = fw.rule[p]
      BY <3>6, <3>7, <3>9 DEF InUse
    <3>13. InUse(m) \subseteq InUse(fw) \cup {n}
      BY <3>6, <3>9 DEF InUse
    <3>14. LiveAt(m, g) = {n}
      <4>1. n \in LiveAt(m, g)
        BY <3>2, <3>9 DEF LiveAt, Live
      <4>2. ASSUME NEW p \in LiveAt(m, g), p # n
            PROVE  FALSE
        <5>1. p \in fw.m_FwRules /\ p \notin S
          BY <3>6, <3>9, <4>2 DEF LiveAt, Live
        <5>2. m.rule[p] = fw.rule[p]
          BY <1>4, <3>12, <5>1
        <5> QED BY <3>4, <4>2, <5>1, <5>2 DEF LiveAt, Live
      <4> QED BY <4>1, <4>2
    <3>15. fw.m_FwRules \ S \subseteq m.m_FwRules
      BY <3>6, <3>9
    <3> QED BY <3>1, <3>2, <3>9, <3>10, <3>11, <3>12, <3>13, <3>14, <3>15
  <2> QED BY <2>1, <2>2
<1> QED BY <1>5 DEF Writes

\* The rule is written in place, or leaves the map and comes anew.
LEMMA WriteTidy ==
    ASSUME Shape, Once, Calm, Tidy(fw), WriteRule, doubtful' = {}, ~overlapped'
    PROVE  Tidy(fw')
<1> DEFINE g == user.g
           c == user.c
           h == UpdateFWRule(fw, g, c)
           k == WithState(h, g, "approved")
<1>1. Sound(fw) /\ ~Collides(g) /\ "approved" \in States /\ HasRoom
  BY DEF Shape, WriteRule, States
<1>2. g \in Guids /\ c \in Content
  BY FirewallAssumption DEF Shape, WriteRule, Request, Idle
<1>3. fw' = Collected(k)
  BY DEF WriteRule, NotSet
<1> HIDE DEF g, c
<1>4. Redoes(fw, h, g) /\ LiveAt(h, g) # {}
  BY <1>1, <1>2, WritesOne DEF Writes
<1> DEFINE p == GetRule(h, g)
<1>5. k = [h EXCEPT !.rule[p].state = "approved"]
  BY DEF WithState
<1> HIDE DEF h
<1>6. p \in LiveAt(h, g) /\ Sound(h)
  BY <1>4 DEF GetRule, Redoes
<1>7. p \in InUse(h)
  BY <1>6, UndoingInUse DEF LiveAt
<1> HIDE DEF k, p
<1>8. Redoes(h, k, g)
  BY <1>1, <1>5, <1>6, <1>7, StateRedoes
<1>9. Redoes(fw, k, g)
  BY <1>1, <1>4, <1>8, RedoesTwice
<1>10. Tidy(Collected(k))
  BY <1>1, <1>9, RequestTidy
<1> QED BY <1>3, <1>10

\* The same objects in the same map, other lists.
LEMMA PlacedAgain ==
    ASSUME NEW f, Sound(f), Placed(f), NEW k, k.rule = f.rule, k.m_FwRules = f.m_FwRules,
           InHeld(k) \subseteq InHeld(f), Undoing(k) \subseteq Undoing(f),
           cfg.GuardFwRules => Undoing(k) = Undoing(f),
           k.m_RulesToRemove \subseteq Live(f), InHeld(k) \cap k.m_RulesToRemove = {}
    PROVE  Placed(k)
  BY DEF Live, Backups, InUse, Placed

\* AskAboutWithdrawnRules: under the blanket guard all that waited are restored.
LEMMA AskTidy ==
    ASSUME Shape, Tidy(fw), AskAboutWithdrawnRules
    PROVE  Tidy(fw')
<1>1. Sound(fw) /\ Placed(fw)
  BY DEF Shape, Tidy
<1>2. PICK k, n, a : Asks(k, n, a)
  BY AskIs
<1> DEFINE s == fw.m_WithdrawnRules
           w == k.m_WithdrawnRules
<1>3. Halves(s, n, a, w)
  BY <1>2 DEF Asks
<1>4. /\ k.rule = fw.rule /\ k.m_FwRules = fw.m_FwRules /\ k.m_HeldRules = fw.m_HeldRules
      /\ k.m_RulesToRemove = fw.m_RulesToRemove
      /\ k.m_RulesToRevert = fw.m_RulesToRevert \cup {e.pBackup : e \in {x \in Listed(a) : x.bRevert}}
      /\ Sound(k) /\ fw' = Collected(k)
  BY <1>2 DEF Asks, Touches
<1>5. HeldOnce(k) /\ Marked(k)
  BY <1>3, <1>4 DEF HeldOnce, Marked, Tidy, Halves
<1>6. InHeld(k) = InHeld(fw) /\ Undoing(k) \subseteq Undoing(fw)
  BY <1>3, <1>4 DEF InHeld, Undoing, Waiting, Halves
<1>7. ASSUME cfg.GuardFwRules
      PROVE  Undoing(k) = Undoing(fw)
  BY <1>3, <1>4, <1>7 DEF Marked, Tidy, Undoing, Waiting, Halves
<1>8. Placed(k)
  BY <1>1, <1>4, <1>6, <1>7, PlacedAgain DEF Placed
<1> QED BY <1>4, <1>5, <1>8, CollectedTidy DEF Tidy

\* ReleaseHeldRules: what is turned down now was held back once, and is live.
LEMMA ReleaseTidy ==
    ASSUME Shape, Tidy(fw), ReleaseHeldRules
    PROVE  Tidy(fw')
<1>1. Sound(fw) /\ Placed(fw)
  BY DEF Shape, Tidy
<1>2. PICK k, n, a : Releases(k, n, a)
  BY ReleaseIs
<1> DEFINE s == fw.m_HeldRules
           w == k.m_HeldRules
           N == {e.pRule : e \in {x \in Listed(a) : x.bReject}}
<1>3. /\ n \in Nat /\ Listed(s) = Listed(a) \cup Listed(w)
      /\ \A i \in DOMAIN a : i \in DOMAIN s /\ i \in Nat /\ i <= n /\ a[i] = s[i]
      /\ \A i \in DOMAIN w : n + i \in DOMAIN s /\ i >= 1 /\ i \in Nat /\ w[i] = s[n + i]
  BY <1>2 DEF Releases, Halves
<1>4. /\ k.rule = fw.rule /\ k.m_FwRules = fw.m_FwRules
      /\ k.m_RulesToRemove = fw.m_RulesToRemove \cup N
      /\ k.m_RulesToRevert = fw.m_RulesToRevert /\ k.m_WithdrawnRules = fw.m_WithdrawnRules
      /\ Sound(k) /\ fw' = Collected(k)
  BY <1>2 DEF Releases, Touches
<1>5. N \subseteq InHeld(fw) /\ N \subseteq Live(fw)
  BY <1>3, <1>1 DEF InHeld, Marked, Tidy, Placed
<1>6. \A x \in N : \E j \in DOMAIN a : a[j].pRule = x
  BY DEF Listed
<1> HIDE DEF N
<1>7. InHeld(k) \subseteq InHeld(fw) /\ Undoing(k) = Undoing(fw)
  BY <1>3, <1>4 DEF InHeld, Undoing, Waiting
<1>8. HeldOnce(k) /\ Marked(k)
  BY <1>3, <1>4 DEF HeldOnce, Marked, Tidy
<1>9. InHeld(k) \cap N = {}
  <2>1. InHeld(k) = {e.pRule : e \in Listed(w)}
    BY DEF InHeld
  <2> HIDE DEF w
  <2> SUFFICES ASSUME NEW i \in DOMAIN w, NEW j \in DOMAIN a, w[i].pRule = a[j].pRule
               PROVE  FALSE
    BY <1>6, <2>1 DEF Listed
  <2>2. n + i = j
    BY <1>3 DEF HeldOnce, Tidy
  <2> QED BY <1>3, <2>2
<1>10. k.m_RulesToRemove \subseteq Live(fw) /\ InHeld(k) \cap k.m_RulesToRemove = {}
  BY <1>1, <1>4, <1>5, <1>7, <1>9 DEF Placed
<1>11. Placed(k)
  BY <1>1, <1>4, <1>7, <1>10, PlacedAgain
<1> QED BY <1>4, <1>8, <1>11, CollectedTidy DEF Tidy

LEMMA ForgetTidy ==
    ASSUME Shape, Tidy(fw), ForgetSettled
    PROVE  Tidy(fw')
<1>1. PICK k : Forgets(k)
  BY ForgetIs
<1>2. Sound(k) /\ fw' = Collected(k)
  BY <1>1 DEF Forgets, Touches
<1>3. InHeld(k) = InHeld(fw) /\ Undoing(k) = Undoing(fw) /\ HeldOnce(k) /\ Marked(k)
  BY <1>1 DEF Forgets, InHeld, Undoing, Waiting, HeldOnce, Marked, Tidy
<1>4. Placed(k)
  BY <1>1, <1>3, PlacedAgain DEF Forgets, Placed, Shape, Tidy
<1> QED BY <1>2, <1>3, <1>4, CollectedTidy DEF Tidy

LEMMA EventAims ==
    ASSUME Shape, Once, Calm, OnFwGuardEvent
    PROVE  \E g \in Guids, c \in Contents : \E o : Aims(g, c, o)
  BY InHand, GetRuleIs DEF OnFwGuardEvent, Aims, Calm

LEMMA ListedAims ==
    ASSUME Shape, Once, WalkIsWhole, Calm, NEW g \in Guids, UpdateListed(g)
    PROVE  \E c \in Contents : \E o : Aims(g, c, o)
  BY InHand DEF UpdateListed, WalkIsWhole, Aside, Calm, LiveAt, Live, Aims, Once

LEMMA MissingAims ==
    ASSUME Shape, Once, WalkIsWhole, Calm, NEW o, UpdateMissing(o)
    PROVE  \E g \in Guids, c \in Contents : Aims(g, c, o)
  BY InUseIsRule DEF UpdateMissing, Shape, Contents, Aims, WalkIsWhole, Aside, Calm, LiveAt, Live, Once

\* After a start nothing waits, and with the blanket guard nothing should.
LEMMA LoadedTidy ==
    ASSUME NEW S, S \subseteq Saved, IsFiniteSet(S), Cardinality(S) <= MaxRules,
           cfg.GuardFwRules => \A r \in S : ~r.backup
    PROVE  Tidy(Loaded(S))
<1>1. PICK f : f = Loaded(S)
  OBVIOUS
<1>2. /\ f.m_RulesToRemove = {} /\ f.m_RulesToRevert = {}
      /\ f.m_WithdrawnRules = <<>> /\ f.m_HeldRules = <<>>
  BY <1>1 DEF Loaded, NoRules
<1>3. InHeld(f) = {} /\ Undoing(f) = {} /\ HeldOnce(f) /\ Marked(f)
  BY <1>2 DEF InHeld, Undoing, Waiting, HeldOnce, Marked, Listed
<1>4. /\ \A o \in f.m_FwRules : \E r \in S : f.rule[o] = ObjectOf(r)
      /\ \A o \in Ids \ f.m_FwRules : f.rule[o] = Free
  BY <1>1, LoadedIs
<1>5. \A r : ~ObjectOf(r).err /\ ObjectOf(r).backup = r.backup
  BY DEF ObjectOf
<1>6. \A o \in InUse(f) : ~f.rule[o].err
  BY <1>4, <1>5 DEF InUse
<1>7. cfg.GuardFwRules => Backups(f) = {}
  BY <1>4, <1>5 DEF Backups
<1>8. Placed(f)
  BY <1>2, <1>3, <1>6, <1>7 DEF Placed
<1> QED BY <1>1, <1>3, <1>8 DEF Tidy

LEMMA RestartTidy ==
    ASSUME Shape, Tidy(fw), Restart, ~overlapped'
    PROVE  Tidy(fw')
<1>1. /\ file \subseteq Saved /\ IsFiniteSet(file) /\ Cardinality(file) <= MaxRules
      /\ fw' = Loaded(file) /\ file = Image(fw) /\ ~Busy /\ Sound(fw) /\ Placed(fw)
  BY DEF Shape, Restart, Tidy
<1>2. file = {SavedOf(fw.rule[o]) : o \in fw.m_FwRules}
  BY <1>1, ImageIs
<1>3. Undoing(fw) = {}
  BY <1>1 DEF Busy, Undoing, Waiting, Listed
<1>4. cfg.GuardFwRules => \A r \in file : ~r.backup
  BY <1>2, <1>1, <1>3 DEF Placed, Backups, SavedOf
<1> QED BY <1>1, <1>4, LoadedTidy

LEMMA InitTidy ==
    ASSUME Init
    PROVE  Tidy(fw)
  BY FirewallAssumption, LoadedTidy DEF Init

\* What was in doubt stays so.
LEMMA DoubtStays ==
    ASSUME Shape, [Next]_vars
    PROVE  doubtful \subseteq doubtful' /\ (overlapped => overlapped')
<1>1. doubtful \subseteq Guids
  BY DEF Shape
<1>2. ASSUME NEW b, NEW state, RestoreRule(b, state)
      PROVE  doubtful \subseteq doubtful'
  BY <1>2 DEF RestoreRule, Restored, NotRestored, RestoredAs, RestoredUnread
<1>3. ASSUME NEW g, NEW c, NEW o, Change(g, c, o)
      PROVE  overlapped => overlapped'
  BY <1>3 DEF Change
<1>4. CASE TakeEvent
  BY <1>4 DEF TakeEvent
<1>5. CASE OnFwGuardEvent
  BY <1>3, <1>5 DEF OnFwGuardEvent
<1>6. CASE StartUpdateRules
  BY <1>1, <1>6 DEF StartUpdateRules
<1>7. CASE \E g \in Guids : UpdateListed(g)
  BY <1>3, <1>7 DEF UpdateListed
<1>8. CASE \E o \in Ids : UpdateMissing(o)
  BY <1>3, <1>8 DEF UpdateMissing
<1>9. CASE \/ LockForUpdate \/ FinishUpdateRules \/ ForgetSettled \/ LockForRevert
           \/ FinishRevert \/ Store
           \/ \E g \in Guids, c \in Content : SetRule(g, c)
           \/ \E o \in Ids : SetBackup(o)
           \/ \E g \in Guids \ Random, c \in Content \cup {Gone} : ForeignChange(g, c)
  <2>1. UNCHANGED history
    BY <1>9 DEF ForeignChange, LockForUpdate, FinishUpdateRules, ForgetSettled, LockForRevert, FinishRevert, Store,
                SetRule, SetBackup
  <2> QED BY <2>1 DEF history
<1>10. CASE AskAboutWithdrawnRules \/ ReleaseHeldRules
  <2>1. UNCHANGED history
    BY <1>10 DEF AskAboutWithdrawnRules, ReleaseHeldRules
  <2> QED BY <2>1 DEF history
<1>11. CASE UNCHANGED vars
  BY <1>11 DEF history, vars
<1>12. CASE Restart
  BY <1>12 DEF Restart
<1>13. CASE \E o \in Ids : RejectRule(o)
  BY <1>13 DEF RejectRule, DeleteRogue, DisableRogue, NotSet
<1>14. CASE \E o \in Ids : RevertRule(o)
  BY <1>14, <1>2 DEF RevertRule
<1>15. CASE WriteRule
  BY <1>15 DEF WriteRule, NotSet
<1>16. CASE RestoreBackup
  BY <1>16, <1>2 DEF RestoreBackup
<1>17. CASE Compare \/ Approve \/ DropBackups
  BY <1>17 DEF Compare, Approve, DropBackups
<1>18. CASE \E o \in Ids : DelRule(o)
  BY <1>18 DEF DelRule
<1> QED BY <1>4, <1>5, <1>6, <1>7, <1>8, <1>9, <1>10, <1>11, <1>12, <1>13, <1>14, <1>15, <1>16,
           <1>17, <1>18 DEF Next, AgentNext

\* As long as no call failed and no changes overlapped, the lists are in order.
LEMMA TidyNext ==
    ASSUME Safe, MirrorInv, Calm => Tidy(fw), [Next]_vars, Calm'
    PROVE  Tidy(fw')
<1>1. Shape /\ Verdicts /\ Once /\ WalkIsWhole /\ Sound(fw) /\ doubtful' = {} /\ ~overlapped'
  BY DEF Safe, Shape, MirrorInv, Calm
<1>2. Calm
  BY <1>1, DoubtStays DEF Calm
<1>3. Tidy(fw)
  BY <1>2
<1>4. ASSUME NEW g \in Guids, NEW c \in Contents, NEW o, Aims(g, c, o)
      PROVE  Tidy(fw')
  BY <1>1, <1>3, <1>4, ChangeTidy DEF Aims
<1>5. CASE OnFwGuardEvent
  BY <1>1, <1>2, <1>4, <1>5, EventAims
<1>6. CASE \E g \in Guids : UpdateListed(g)
  BY <1>1, <1>2, <1>4, <1>6, ListedAims
<1>7. CASE \E o \in Ids : UpdateMissing(o)
  BY <1>1, <1>2, <1>4, <1>7, MissingAims
<1>8. CASE FinishUpdateRules \/ FinishRevert
  BY <1>1, <1>3, <1>8, CollectedTidy DEF FinishUpdateRules, FinishRevert
<1>9. CASE AskAboutWithdrawnRules \/ ReleaseHeldRules \/ ForgetSettled
  BY <1>1, <1>3, <1>9, AskTidy, ReleaseTidy, ForgetTidy
<1>10. CASE \E o \in Ids : RejectRule(o) \/ RevertRule(o)
  BY <1>1, <1>2, <1>3, <1>10, RejectTidy, RevertTidy
<1>11. CASE WriteRule \/ RestoreBackup
  BY <1>1, <1>2, <1>3, <1>11, WriteTidy, RestoreBackupTidy
<1>12. CASE Approve \/ DropBackups \/ \E o \in Ids : DelRule(o)
  BY <1>1, <1>3, <1>12, ApproveTidy, DropTidy, DelTidy
<1>13. CASE Restart
  BY <1>1, <1>3, <1>13, RestartTidy
<1>14. CASE \/ TakeEvent \/ Compare \/ StartUpdateRules \/ LockForUpdate \/ LockForRevert \/ Store
            \/ \E g \in Guids \ Random, c \in Content \cup {Gone} : ForeignChange(g, c)
            \/ \E g \in Guids, c \in Content : SetRule(g, c)
            \/ \E o \in Ids : SetBackup(o)
            \/ UNCHANGED vars
  <2>1. fw' = fw
    BY <1>14 DEF TakeEvent, Compare, StartUpdateRules, LockForUpdate, LockForRevert, Store, ForeignChange,
                 SetRule, SetBackup, vars
  <2> QED BY <1>3, <2>1
<1> QED BY <1>5, <1>6, <1>7, <1>8, <1>9, <1>10, <1>11, <1>12, <1>13, <1>14 DEF Next, AgentNext

-----------------------------------------------------------------------------
(* The agent's own writes.  When the newest event about a rule is the      *)
(* agent's own, the map has the rule as it is in Windows: what comes back  *)
(* is no news.                                                             *)

\* An event more: the newest about its rule is the agent's own only if this is.
LEMMA OwnAppend ==
    ASSUME Shape, NEW g \in Guids, NEW c \in Contents, NEW own \in BOOLEAN,
           log' = Append(log, Event(g, c, own)), guard' = guard
    PROVE  /\ NewestOwn(g)' => own
           /\ \A a \in Guids \ {g} : NewestOwn(a)' => NewestOwn(a)
<1> DEFINE e == Event(g, c, own)
           n == Len(log) + 1
<1>1. log \in Seq(LogEvent)
  BY DEF Shape
<1>2. e \in LogEvent /\ e.g = g /\ (e.own <=> own)
  BY DEF Event, LogEvent
<1> HIDE DEF e
<1>3. /\ Len(log) \in Nat /\ DOMAIN log = 1..Len(log) /\ DOMAIN log' = 1..n
      /\ \A i \in DOMAIN log : log'[i] = log[i]
      /\ log'[n] = e
  BY <1>1, <1>2 DEF e
<1>4. /\ \A i \in DOMAIN log' : i \in DOMAIN log \/ i = n
      /\ \A i \in DOMAIN log : i \in DOMAIN log' /\ n > i
      /\ n \in DOMAIN log'
  BY <1>3
<1> HIDE DEF n
<1>5. Pending(g)'
  BY <1>2, <1>3, <1>4 DEF Pending
<1>6. NewestOwn(g)' => own
  BY <1>5, <1>2, <1>3, <1>4 DEF NewestOwn
<1>7. ASSUME NEW a \in Guids \ {g}, NewestOwn(a)'
      PROVE  NewestOwn(a)
  BY <1>2, <1>3, <1>4, <1>7 DEF Pending, NewestOwn, Reading
<1> QED BY <1>6, <1>7

\* The same log; the reader is done, or where it was.
LEMMA OwnSame ==
    ASSUME log' = log, guard' = guard \/ guard'.pc # "apply", NEW a
    PROVE  NewestOwn(a)' => NewestOwn(a)
  BY DEF Pending, Reading, NewestOwn

\* A step that leaves the rules and Windows alone.
LEMMA OwnCalm ==
    ASSUME OwnMirrored, Moves(fw, fw', {}), win' = win, log' = log, cache' = cache,
           guard' = guard \/ guard'.pc # "apply"
    PROVE  OwnMirrored'
  BY OwnSame, StillMirrored DEF OwnMirrored, Moves

\* A write of the agent.
LEMMA OwnEchoes ==
    ASSUME Safe, OwnMirrored, NEW g \in Guids, Echoes(g), guard' = guard
    PROVE  OwnMirrored'
<1>1. Shape /\ win \in [Guids -> Contents] /\ \A a \in Guids \ {g} : Unmoved(fw, fw', a)
  BY DEF Safe, Shape, Echoes, Moves
<1>2. CASE \E c \in Contents : Write(g, c) /\ Shows(fw', g, c)
  BY <1>2, <1>1, OwnAppend, StillMirrored DEF Write, Mirrored, Shows, OwnMirrored
<1>3. CASE RemovedBefore(g) /\ LiveAt(fw', g) = {}
  BY <1>3, OwnSame, <1>1, StillMirrored DEF RemovedBefore, OwnMirrored, Mirrored, Shows
<1> QED BY <1>2, <1>3 DEF Echoes

\* A change by another program is no longer the agent's own.
LEMMA OwnForeignChange ==
    ASSUME Safe, OwnMirrored, NEW g \in Guids, NEW c \in Contents, ForeignChange(g, c)
    PROVE  OwnMirrored'
  BY OwnAppend, StillMirrored DEF Safe, Shape, ForeignChange, Unmoved, OwnMirrored

\* TakeEvent: the event that is read was the newest, or another one follows.
LEMMA OwnTakeEvent ==
    ASSUME Safe, OwnMirrored, TakeEvent, doubtful' = {}
    PROVE  OwnMirrored'
<1>1. Shape /\ log \in Seq(LogEvent)
  BY DEF Safe, Shape
<1>2. PICK e : e = Head(log)
  OBVIOUS
<1>3. PICK last \in BOOLEAN : last <=> \A i \in 2..Len(log) : log[i].g # e.g
  OBVIOUS
<1>4. /\ log # <<>> /\ log' = Tail(log) /\ win' = win /\ fw' = fw
      /\ guard'.g = e.g /\ (guard'.own => e.own /\ last)
      /\ cache' = CASE e.gone -> cache
                    [] ~e.gone /\ win[e.g] = Gone -> cache \ {e.g}
                    [] OTHER -> cache \cup {e.g}
  <2> DEFINE l == \A i \in 2..Len(log) : log[i].g # e.g
  <2>1. /\ log # <<>> /\ log' = Tail(log) /\ win' = win /\ fw' = fw
        /\ \E c : guard' = [pc |-> "apply", g |-> e.g, c |-> c, own |-> e.own /\ l]
        /\ cache' = CASE e.gone -> cache
                      [] ~e.gone /\ win[e.g] = Gone -> cache \ {e.g}
                      [] OTHER -> cache \cup {e.g}
    BY <1>2 DEF TakeEvent
  <2>2. l <=> last
    BY <1>3
  <2> HIDE DEF l
  <2>3. PICK c : guard' = [pc |-> "apply", g |-> e.g, c |-> c, own |-> e.own /\ l]
    BY <2>1
  <2>4. guard'.g = e.g /\ guard'.own = (e.own /\ l)
    BY <2>3
  <2>5. guard'.own => e.own /\ last
    BY <2>2, <2>4
  <2> QED BY <2>1, <2>4, <2>5
<1>5. /\ Len(log) \in Nat \ {0} /\ DOMAIN log = 1..Len(log) /\ DOMAIN log' = 1..(Len(log) - 1)
      /\ \A i \in DOMAIN log' : log'[i] = log[i + 1]
      /\ e = log[1] /\ e \in LogEvent
  BY <1>1, <1>2, <1>4
<1>6. /\ \A i \in DOMAIN log' : i + 1 \in DOMAIN log /\ i \in Int
      /\ \A i \in DOMAIN log : i > 1 => i - 1 \in DOMAIN log' /\ log'[i - 1] = log[i] /\ i \in 2..Len(log)
      /\ \A i \in DOMAIN log : i \in Int
      /\ 1 \in DOMAIN log
  BY <1>5
<1>7. ASSUME NEW a \in Guids, NewestOwn(a)'
      PROVE  NewestOwn(a)
  <2>1. ASSUME NEW i \in DOMAIN log', log'[i].g = a, log'[i].own,
               \A j \in DOMAIN log' : j > i => log'[j].g # a
        PROVE  NewestOwn(a)
    BY <1>5, <1>6, <2>1 DEF NewestOwn
  <2>2. CASE ~Pending(a)' /\ Reading(a)' /\ guard'.own
    <3>1. a = e.g /\ e.own /\ last
      BY <1>4, <2>2 DEF Reading
    <3>2. \A j \in DOMAIN log : j > 1 => log[j].g # a
      BY <1>3, <1>6, <3>1
    <3> QED BY <1>5, <1>6, <3>1, <3>2 DEF NewestOwn
  <2> QED BY <1>7, <2>1, <2>2 DEF NewestOwn
<1>8. ASSUME NEW a \in Guids, NewestOwn(a)'
      PROVE  Mirrored(a)' /\ (win'[a] # Gone => a \in cache')
  BY <1>7, <1>8, <1>4 DEF OwnMirrored, Mirrored, Shows, LiveAt, Live
<1> QED BY <1>8 DEF OwnMirrored

\* While no guid is on record, a change is one of its rule alone.
LEMMA CalmChange ==
    ASSUME Shape, Calm, NEW g \in Guids, NEW c \in Contents, NEW o, Change(g, c, o),
           \/ o = 0 /\ LiveAt(fw, g) = {}
           \/ LiveAt(fw, g) = {o}
    PROVE  Moves(fw, fw', {g}) /\ Single(fw', g, c)
<1>1. {g} \cup doubtful = {g} /\ g \notin doubtful
  BY DEF Calm
<1>2. o = 0 \/ (o \in InUse(fw) /\ fw.rule[o].guid = g /\ ~fw.rule[o].backup)
  BY LiveAtIs DEF Shape, Sound, LiveAt
<1>3. Moves(fw, fw', {g} \cup doubtful)
  BY <1>2, ChangeSafe
<1> QED BY <1>1, <1>3, ChangeStep

\* OnFwGuardEvent: with an event of the agent's own still to come, what was read
\* is what the agent wrote, or the change overlaps.
LEMMA OwnOnFwGuardEvent ==
    ASSUME Safe, MirrorInv, OwnMirrored, OnFwGuardEvent, Calm, ~overlapped'
    PROVE  OwnMirrored'
<1>1. Shape /\ Once
  BY DEF Safe, MirrorInv
<1>2. /\ win' = win /\ log' = log /\ cache' = cache
      /\ guard.pc = "apply" /\ guard'.pc # "apply"
  BY DEF OnFwGuardEvent, winVars, Idle
<1>3. PICK g \in Guids : g = guard.g
  BY <1>1, <1>2, InHand
<1>4. PICK c \in Contents : c = guard.c
  BY <1>1, <1>2, InHand
<1>5. PICK o : o = GetRule(fw, g)
  OBVIOUS
<1>6. Change(g, c, o)
  BY <1>3, <1>4, <1>5 DEF OnFwGuardEvent
<1>7. Moves(fw, fw', {g}) /\ Single(fw', g, c)
  BY <1>1, <1>5, GetRuleIs, <1>6, CalmChange DEF Calm
<1>8. ASSUME NEW a \in Guids, NewestOwn(a)'
      PROVE  Mirrored(a)' /\ (win'[a] # Gone => a \in cache')
  <2>1. NewestOwn(a)
    BY <1>2, <1>8, OwnSame
  <2>2. win[a] # Gone => a \in cache
    BY <2>1 DEF OwnMirrored
  <2>3. CASE a = g
    BY <1>2, <1>8, <2>3, <1>6, <1>7, <2>2 DEF NewestOwn, Reading, Listed, Change, Overtaken, Single,
       Mirrored, Shows
  <2>4. CASE a # g
    BY <1>7, <2>4, <1>2, StillMirrored, <2>1 DEF Moves, OwnMirrored
  <2> QED BY <2>3, <2>4
<1> QED BY <1>8 DEF OwnMirrored

\* A step that gives one rule the form it has in Windows.
LEMMA OwnGiven ==
    ASSUME OwnMirrored, NEW g \in Guids, Moves(fw, fw', {g}), Single(fw', g, win[g]),
           win' = win, log' = log, cache' = cache, guard' = guard
    PROVE  OwnMirrored'
  BY OwnSame, StillMirrored DEF OwnMirrored, Single, Mirrored, Shows, Moves

LEMMA OwnUpdateListed ==
    ASSUME Safe, MirrorInv, OwnMirrored, NEW g \in Guids, UpdateListed(g), Calm, doubtful' = {}
    PROVE  OwnMirrored'
<1>1. Shape /\ Once /\ WalkIsWhole /\ Sound(fw)
  BY DEF Safe, MirrorInv, Shape
<1> DEFINE old == {p \in upd.old : fw.rule[p].guid = g /\ ~fw.rule[p].backup}
           o   == IF old = {} THEN 0 ELSE CHOOSE p \in old : TRUE
<1>2. /\ upd.pc = "apply" /\ g \in upd.todo /\ Change(g, upd.list[g], o)
      /\ doubtful' = IF upd.list[g] = win[g] THEN doubtful ELSE doubtful \cup {g}
      /\ win' = win /\ log' = log /\ cache' = cache /\ guard' = guard
  BY DEF UpdateListed, winVars
<1>3. upd.list[g] \in Contents
  BY <1>1, <1>2, InHand
<1>4. LiveAt(fw, g) = old
  BY <1>1, <1>2 DEF WalkIsWhole, Aside, Calm, LiveAt, Live
<1>5. \/ o = 0 /\ LiveAt(fw, g) = {}
      \/ LiveAt(fw, g) = {o}
  BY <1>4, <1>1 DEF Once, LiveAt, Calm
<1> HIDE DEF o, old
<1>6. Moves(fw, fw', {g}) /\ Single(fw', g, upd.list[g])
  BY <1>1, <1>2, <1>3, <1>5, CalmChange
<1>7. upd.list[g] = win[g]
  BY <1>2
<1> QED BY <1>2, <1>6, <1>7, OwnGiven

LEMMA OwnUpdateMissing ==
    ASSUME Safe, MirrorInv, OwnMirrored, NEW o, UpdateMissing(o), Calm, doubtful' = {}
    PROVE  OwnMirrored'
<1>1. Shape /\ Once /\ WalkIsWhole /\ Sound(fw)
  BY DEF Safe, MirrorInv, Shape
<1>2. /\ upd.pc = "apply" /\ o \in upd.old /\ Change(fw.rule[o].guid, Gone, o)
      /\ win' = win /\ log' = log /\ cache' = cache /\ guard' = guard
  BY DEF UpdateMissing, winVars
<1>3. o \in InUse(fw) /\ Gone \in Contents
  BY <1>1, <1>2, InHand DEF Contents
<1>4. PICK g \in Guids : g = fw.rule[o].guid
  BY <1>1, <1>3, InUseIsRule
<1>5. CASE fw.rule[o].backup
  BY <1>1, <1>2, <1>3, <1>5, BackupStep, OwnCalm
<1>6. CASE ~fw.rule[o].backup
  <2>1. o \in LiveAt(fw, g)
    BY <1>1, <1>2, <1>4, <1>6 DEF WalkIsWhole, Aside, Calm, LiveAt, Live
  <2>2. LiveAt(fw, g) = {o}
    BY <1>1, <2>1 DEF Once, LiveAt, Calm
  <2>3. Moves(fw, fw', {g}) /\ Single(fw', g, Gone)
    BY <1>1, <1>2, <1>3, <1>4, <2>2, CalmChange
  <2>4. win[g] = Gone
    BY <1>4, <1>6 DEF UpdateMissing
  <2> QED BY <1>2, <2>3, <2>4, OwnGiven
<1> QED BY <1>5, <1>6

LEMMA OwnStartUpdateRules ==
    ASSUME Safe, OwnMirrored, StartUpdateRules, doubtful' = {}
    PROVE  OwnMirrored'
  BY OwnSame, StillMirrored DEF StartUpdateRules, Unmoved, OwnMirrored

\* The steps that leave the rules, Windows and the log alone.
LEMMA OwnStays ==
    ASSUME Safe, OwnMirrored, ~overlapped',
           \/ LockForUpdate \/ FinishUpdateRules
           \/ AskAboutWithdrawnRules \/ ReleaseHeldRules \/ ForgetSettled
           \/ LockForRevert \/ FinishRevert \/ Store \/ UNCHANGED vars
           \/ Compare \/ Approve \/ DropBackups
           \/ \E o \in Ids : SetBackup(o)
           \/ \E g \in Guids, c \in Content : SetRule(g, c)
    PROVE  OwnMirrored'
<1>1. Shape /\ Sound(fw) /\ Pinned \subseteq InUse(fw)
  BY PinnedInUse DEF Safe, Shape
<1>2. Moves(fw, fw', {}) /\ UNCHANGED <<winVars, guard>>
  <2>1. CASE AskAboutWithdrawnRules \/ ReleaseHeldRules \/ ForgetSettled \/ FinishRevert
    <3>1. Moves(fw, fw', {})
      BY <1>1, <2>1, RoundMoves
    <3> QED BY <2>1, <3>1 DEF AskAboutWithdrawnRules, ReleaseHeldRules, ForgetSettled, FinishRevert
  <2>2. CASE FinishUpdateRules
    BY <2>2, <1>1, SameMoves, CollectedEffect DEF FinishUpdateRules, Keeps, Moves
  <2>3. CASE Approve \/ DropBackups
    <3>1. Approve => ~fw.rule[user.o].backup
      BY DEF Approve
    <3>2. Moves(fw, fw', {})
      BY <1>1, <2>3, <3>1, ApproveMoves, DropMoves DEF Safe
    <3> QED BY <2>3, <3>2 DEF Approve, DropBackups
  <2>4. CASE \/ Compare \/ LockForUpdate \/ LockForRevert \/ Store \/ UNCHANGED vars
             \/ \E o \in Ids : SetBackup(o)
             \/ \E g \in Guids, c \in Content : SetRule(g, c)
    BY <2>4, <1>1, SameMoves DEF Compare, LockForUpdate, LockForRevert, Store, SetBackup, SetRule, vars
  <2> QED BY <2>1, <2>2, <2>3, <2>4
<1> QED BY <1>2, OwnCalm DEF winVars

\* After a start no event is waited for.
LEMMA OwnRestart ==
    ASSUME Restart
    PROVE  OwnMirrored'
  BY DEF Restart, Idle, OwnMirrored, NewestOwn, Reading

LEMMA OwnInit ==
    ASSUME Init
    PROVE  OwnMirrored
  BY DEF Init, Idle, OwnMirrored, NewestOwn, Reading

\* RestoreRule that went well: the rule is in Windows and in the map.
LEMMA RestoredEchoes ==
    ASSUME Shape, NEW b \in InUse(fw), NEW state \in States, HasRoom, Restored(fw.rule[b], b, state),
           Moves(fw, fw', {fw.rule[b].guid}), AllFine(fw) /\ state = "approved" => Fine(fw.rule[b].c.k)
    PROVE  Echoes(fw.rule[b].guid)
<1> DEFINE g == fw.rule[b].guid
           c == fw.rule[b].c
           r == [NewRule(g, c) EXCEPT !.state = state]
           h == AddRule(RemoveLive(fw, g), r)
           k == ClearBackups(h, g)
           m == [k EXCEPT !.m_RulesToRevert = @ \ {b}]
<1>1. Sound(fw) /\ Pinned \subseteq InUse(fw) /\ \E p \in Ids : fw.rule[p] = Free
  BY PinnedInUse DEF Shape, HasRoom
<1>2. g \in Guids /\ c \in Content /\ c \in Contents
  BY <1>1, InUseIsRule DEF Contents
<1>3. AllFine(fw) /\ state = "approved" => Fine(c.k)
  OBVIOUS
<1>4. fw' = m /\ Write(g, c)
  BY DEF Restored
<1>5. r \in Rule /\ r.guid = g /\ r.c = c /\ ~r.backup /\ r.state = state
  BY <1>2, NewRuleType
<1> HIDE DEF r
<1>6. Puts(fw, AddRule(RemoveLive(fw, r.guid), r), r.guid, r.c)
  BY <1>1, <1>3, <1>5, AddAfterRemove
<1>7. Puts(fw, h, g, c)
  BY <1>5, <1>6
<1> HIDE DEF h
<1>8. Sound(h)
  BY <1>7 DEF Puts
<1>9. Spares(h, k)
  BY <1>8, ClearBackupsSpares
<1> HIDE DEF k
<1>10. Sound(k)
  BY <1>9 DEF Spares
<1>11. Spares(k, m)
  BY <1>10, RevertLessSpares
<1> HIDE DEF m
<1>12. Spares(h, m)
  BY <1>9, <1>11, SparesTwice
<1>13. Puts(fw, m, g, c)
  BY <1>2, <1>7, <1>12, PutsThenSpares
<1>14. Shows(fw', g, c)
  BY <1>4, <1>13 DEF Puts, Single
<1> QED BY <1>2, <1>4, <1>14 DEF Echoes

LEMMA OwnRevertRule ==
    ASSUME Safe, MirrorInv, OwnMirrored, Tidy(fw), NEW b, RevertRule(b), doubtful' = {}
    PROVE  OwnMirrored'
<1>1. /\ Shape /\ b \in InUse(fw) /\ fw.rule[b].backup /\ guard' = guard
      /\ Restored(fw.rule[b], b, fw.rule[b].state) /\ HasRoom
  BY RevertTidy DEF Safe, RevertRule
<1>2. /\ fw.rule[b].state \in States /\ fw.rule[b].guid \in Guids /\ ~fw.rule[b].err
      /\ AllFine(fw) /\ fw.rule[b].state = "approved" => Fine(fw.rule[b].c.k)
  BY <1>1, InUseIsRule DEF Shape, Tidy, Placed, AllFine
<1>3. RestoreRule(b, fw.rule[b].state)
  BY <1>2 DEF RevertRule
<1>4. Moves(fw, fw', {fw.rule[b].guid})
  BY <1>1, <1>2, <1>3, RestoreAnswers DEF Answers
<1> QED BY <1>1, <1>2, <1>4, RestoredEchoes, OwnEchoes

LEMMA OwnRestoreBackup ==
    ASSUME Safe, OwnMirrored, RestoreBackup, doubtful' = {}
    PROVE  OwnMirrored'
<1> DEFINE b == user.o
<1>1. Shape /\ Verdicts
  BY DEF Safe
<1>2. /\ b \in InUse(fw) /\ fw.rule[b].guid \in Guids
      /\ Moves(fw, fw', {fw.rule[b].guid})
  BY SafeRestoreBackup DEF Answers
<1>3. RestoreRule(b, "approved") /\ guard' = guard
  BY DEF RestoreBackup
<1>4. Fine(fw.rule[b].c.k) /\ "approved" \in States
  BY <1>1 DEF Verdicts, RestoreBackup, Fine, States
<1>b. fw.rule[b].backup
  BY <1>1 DEF Verdicts, RestoreBackup
<1> HIDE DEF b
<1>5. Restored(fw.rule[b], b, "approved") /\ HasRoom
  BY <1>1, <1>2, <1>3, <1>b, RestoreIsSure DEF Shape
<1>6. Echoes(fw.rule[b].guid)
  BY <1>1, <1>2, <1>4, <1>5, RestoredEchoes
<1> QED BY <1>2, <1>3, <1>6, OwnEchoes

LEMMA OwnWriteRule ==
    ASSUME Safe, MirrorInv, OwnMirrored, WriteRule, Calm, doubtful' = {}
    PROVE  OwnMirrored'
<1> DEFINE g == user.g
           c == user.c
           k == WithState(UpdateFWRule(fw, g, c), g, "approved")
<1>1. Shape /\ Verdicts /\ Once
  BY DEF Safe, MirrorInv
<1>2. g \in Guids /\ c \in Content /\ c \in Contents /\ Moves(fw, fw', {g})
  BY <1>1, SafeWriteRule, InHand DEF WriteRule, Answers, Contents
<1>3. c.k \in Agreed /\ Pinned = {} /\ \E p \in Ids : fw.rule[p] = Free
  BY <1>1 DEF WriteRule, Verdicts, LockIsFree, Pinned, Holding, HasRoom
<1>4. Write(g, c) /\ fw' = Collected(k) /\ guard' = guard
  BY DEF WriteRule, NotSet
<1> HIDE DEF g, c
<1>5. Moves(fw, k, {g}) /\ Single(k, g, c)
  BY <1>1, <1>2, <1>3, WrittenMoves DEF Calm
<1> HIDE DEF k
<1>6. Unmoved(k, fw', g)
  BY <1>2, <1>4, <1>5, MovesThenCollected
<1>7. Shows(fw', g, c)
  BY <1>5, <1>6, UnmovedShows DEF Single, Alone
<1>8. Echoes(g)
  BY <1>2, <1>4, <1>7 DEF Echoes
<1> QED BY <1>2, <1>4, <1>8, OwnEchoes

\* A rule is removed from Windows, and has left the map.
LEMMA RemoveEchoes ==
    ASSUME NEW g \in Guids, RemoveFromWindows(g), Moves(fw, fw', {g}), LiveAt(fw', g) = {}
    PROVE  Echoes(g)
  BY DEF Contents, Shows, Echoes, RemoveFromWindows, RemovedBefore

LEMMA OwnDelRule ==
    ASSUME Safe, MirrorInv, OwnMirrored, NEW o, DelRule(o), Calm
    PROVE  OwnMirrored'
<1> DEFINE g == fw.rule[o].guid
           k == [fw EXCEPT !.m_FwRules = @ \ {o}]
<1>1. Shape /\ Sound(fw) /\ Once /\ Pinned \subseteq InUse(fw)
  BY PinnedInUse DEF Safe, MirrorInv, Shape
<1>2. o \in InUse(fw) /\ g \in Guids /\ Moves(fw, fw', {g})
  BY <1>1, SafeDelRule, DelAnswers DEF Answers
<1>3. /\ o \in fw.m_FwRules /\ fw' = Collected(k) /\ guard' = guard
      /\ fw.rule[o].backup => UNCHANGED winVars
      /\ ~fw.rule[o].backup => RemoveFromWindows(g)
  BY DEF DelRule
<1>4. /\ Sound(k) /\ Keeps(fw, k) /\ (AllFine(fw) => AllFine(k))
      /\ \A a \in Guids : LiveAt(k, a) = LiveAt(fw, a) \ {o}
  BY <1>1, MapLess
<1> HIDE DEF k
<1>5. \A a \in Guids : Unmoved(k, fw', a)
  BY <1>1, <1>3, <1>4, CollectedEffect
<1>6. CASE fw.rule[o].backup
  <2>1. \A a \in Guids : o \notin LiveAt(fw, a)
    BY <1>1, <1>6, LiveAtIs
  <2>2. Spares(fw, k)
    BY <1>4, <2>1 DEF Spares
  <2>3. Moves(fw, fw', {})
    BY <1>1, <1>3, <2>2, SparesMoves
  <2> QED BY <1>3, <1>6, <2>3, OwnCalm DEF winVars
<1>7. CASE ~fw.rule[o].backup
  <2>1. \A p \in LiveAt(fw, g) : p = o
    BY <1>1, <1>3, <1>7 DEF Once, LiveAt, Live, Calm
  <2>2. LiveAt(fw', g) = {}
    BY <1>2, <1>4, <1>5, <2>1 DEF Unmoved
  <2>3. Echoes(g)
    BY <1>2, <1>3, <1>7, <2>2, RemoveEchoes
  <2> QED BY <1>2, <1>3, <2>3, OwnEchoes
<1> QED BY <1>6, <1>7

\* A rule that was turned down is live: deleted or disabled, it is in Windows what
\* it is in the map.
LEMMA OwnRejectRule ==
    ASSUME Safe, MirrorInv, OwnMirrored, Tidy(fw), NEW o, RejectRule(o), Calm, doubtful' = {}
    PROVE  OwnMirrored'
<1> DEFINE g  == fw.rule[o].guid
           f1 == [fw EXCEPT !.m_RulesToRemove = @ \ {o}]
           c  == [fw.rule[o].c EXCEPT !.on = FALSE]
           f2 == [f1 EXCEPT !.rule[o].c = c, !.rule[o].state = "disabled"]
<1>1. Shape /\ Sound(fw) /\ Once /\ Placed(fw) /\ Pinned \subseteq InUse(fw)
  BY PinnedInUse DEF Safe, MirrorInv, Shape, Tidy
<1>2. o \in Live(fw) /\ o \in InUse(fw)
  BY <1>1 DEF RejectRule, Placed, Sound
<1>3. g \in Guids /\ fw.rule[o] \in Rule /\ fw.rule[o].c \in Content
  BY <1>1, <1>2, InUseIsRule
<1>4. Moves(fw, fw', {g}) /\ guard' = guard
  BY <1>1, <1>2, RejectAnswers DEF RejectRule, Answers
<1>5. LiveAt(fw, g) = {o}
  BY <1>1, <1>2 DEF Once, LiveAt, Live, Calm
<1>6. /\ f1.rule = fw.rule /\ f1.m_FwRules = fw.m_FwRules /\ f1 \in Rules
      /\ \A a \in Guids : LiveAt(f1, a) = LiveAt(fw, a)
  BY <1>1 DEF Sound, Rules, LiveAt, Live
<1>7. \/ RemoveFromWindows(g) /\ fw' = RemoveLive(f1, g)
      \/ fw' = f1 /\ UNCHANGED winVars
      \/ Write(g, c) /\ fw' = f2
      \/ g \in doubtful'
  BY DEF RejectRule, DeleteRogue, DisableRogue, NotSet
<1>8. CASE RemoveFromWindows(g) /\ fw' = RemoveLive(f1, g)
  <2>1. fw'.m_FwRules = f1.m_FwRules \ LiveAt(f1, g) /\ fw'.rule = f1.rule
    BY <1>6, <1>8 DEF RemoveLive, Rules
  <2>2. LiveAt(fw', g) = {}
    BY <2>1 DEF LiveAt, Live
  <2>3. Echoes(g)
    BY <1>3, <1>4, <1>8, <2>2, RemoveEchoes
  <2> QED BY <1>3, <1>4, <2>3, OwnEchoes
<1>9. CASE fw' = f1 /\ UNCHANGED winVars
  BY <1>3, <1>6, <1>9, <1>4, OwnCalm DEF Unmoved, Moves, winVars
<1>10. CASE Write(g, c) /\ fw' = f2
  <2> DEFINE r == NewForm(fw.rule[o], c, "disabled")
             q == [fw.rule EXCEPT ![o] = r]
  <2>1. c \in Content /\ c \in Contents
    BY <1>3 DEF Content, Contents
  <2>2. c # Gone
    BY <2>1, FirewallAssumption DEF Content, Gone
  <2> HIDE DEF c
  <2>3. r.guid = g /\ r.c = c /\ (r.backup <=> fw.rule[o].backup)
    BY <1>3 DEF Rule, NewForm
  <2>4. o \in Ids /\ f1.rule[o] = fw.rule[o] /\ fw.rule \in [Ids -> Object]
    BY <1>1, <1>2, <1>6 DEF InUse, Sound, Rules
  <2> HIDE DEF f1, g
  <2>5. AtOnce(f1, o, c, "disabled") = [f1 EXCEPT !.rule[o] = NewForm(f1.rule[o], c, "disabled")]
    BY <1>3, <1>6, <2>4, EditIs
  <2>6. fw' = [f1 EXCEPT !.rule[o] = r]
    BY <1>10, <2>4, <2>5 DEF AtOnce
  <2> HIDE DEF r
  <2>7. fw'.rule = q /\ fw'.m_FwRules = fw.m_FwRules
    BY <1>6, <2>6 DEF Rules
  <2>8. q[o] = r /\ \A p \in Ids \ {o} : q[p] = fw.rule[p]
    BY <2>4
  <2> HIDE DEF q
  <2>9. \A p \in fw.m_FwRules : p \in Ids
    BY <1>1 DEF Sound, InUse
  <2>10. ASSUME NEW p
         PROVE  p \in LiveAt(fw', g) <=> p \in LiveAt(fw, g)
    BY <2>3, <2>7, <2>8, <2>9 DEF LiveAt, Live, g
  <2>11. LiveAt(fw', g) = {o} /\ fw'.rule[o].c = c
    BY <1>5, <2>3, <2>7, <2>8, <2>10
  <2>12. Shows(fw', g, c)
    BY <2>2, <2>11 DEF Shows
  <2>13. Echoes(g)
    BY <1>4, <1>10, <2>1, <2>12 DEF Echoes
  <2> QED BY <1>3, <1>4, <2>13, OwnEchoes
<1> QED BY <1>7, <1>8, <1>9, <1>10

\* As long as no call failed and no changes overlapped, what the agent wrote last
\* is in the map.
LEMMA OwnNext ==
    ASSUME Safe, MirrorInv, Tidy(fw), OwnMirrored, [Next]_vars, Calm, doubtful' = {},
           ~overlapped'
    PROVE  OwnMirrored'
<1>1. CASE TakeEvent \/ StartUpdateRules \/ OnFwGuardEvent
  BY <1>1, OwnTakeEvent, OwnStartUpdateRules, OwnOnFwGuardEvent
<1>2. CASE \E g \in Guids : UpdateListed(g)
  BY <1>2, OwnUpdateListed
<1>3. CASE \E o \in Ids : UpdateMissing(o)
  BY <1>3, OwnUpdateMissing
<1>4. CASE \/ LockForUpdate \/ FinishUpdateRules
           \/ AskAboutWithdrawnRules \/ ReleaseHeldRules \/ ForgetSettled
           \/ LockForRevert \/ FinishRevert \/ Store \/ UNCHANGED vars
           \/ Compare \/ Approve \/ DropBackups
           \/ \E o \in Ids : SetBackup(o)
           \/ \E g \in Guids, c \in Content : SetRule(g, c)
  BY <1>4, OwnStays
<1>5. CASE \E o \in Ids : RejectRule(o) \/ RevertRule(o)
  BY <1>5, OwnRejectRule, OwnRevertRule
<1>6. CASE WriteRule \/ RestoreBackup
  BY <1>6, OwnWriteRule, OwnRestoreBackup
<1>7. CASE \E o \in Ids : DelRule(o)
  BY <1>7, OwnDelRule
<1>8. CASE Restart
  BY <1>8, OwnRestart
<1>9. CASE \E g \in Guids \ Random, c \in Content \cup {Gone} : ForeignChange(g, c)
  BY <1>9, OwnForeignChange DEF Contents
<1> QED BY <1>1, <1>2, <1>3, <1>4, <1>5, <1>6, <1>7, <1>8, <1>9 DEF Next, AgentNext

\* The settings stay: the lists are in order after a step by the settings then.
LEMMA TidyPrime ==
    ASSUME Tidy(fw'), cfg' = cfg
    PROVE  Tidy(fw)'
<1>1. HeldOnce(fw)' /\ InHeld(fw)' = InHeld(fw') /\ Undoing(fw)' = Undoing(fw')
  BY DEF Tidy, HeldOnce, InHeld, Undoing, Waiting
<1>2. Marked(fw)'
  BY DEF Tidy, Marked
<1>3. Placed(fw)'
  BY <1>1 DEF Tidy, Placed, Live, Backups, InUse
<1> QED BY <1>1, <1>2, <1>3 DEF Tidy

LEMMA CfgStays ==
    ASSUME [Next]_vars
    PROVE  cfg' = cfg

BY DEF Next, AgentNext, vars, TakeEvent, OnFwGuardEvent, StartUpdateRules, LockForUpdate,
       FinishUpdateRules, UpdateListed, UpdateMissing, AskAboutWithdrawnRules, ReleaseHeldRules,
       ForgetSettled, LockForRevert, FinishRevert, RejectRule, RevertRule, WriteRule,
       RestoreBackup, Store, Restart, ForeignChange, SetRule, Compare, Approve, DropBackups, SetBackup, DelRule

\* The inductive invariant of what the agent wrote: with the map like Windows,
\* the lists in order, and what was written last in both.
THEOREM OwnInductive == Spec => [](Safe /\ MirrorInv /\ OwnInv)
<1>1. Init => OwnInv
  BY InitTidy, OwnInit DEF OwnInv
<1>2. Safe /\ MirrorInv /\ OwnInv /\ [Next]_vars => OwnInv'
  BY DoubtStays, TidyNext, CfgStays, TidyPrime, OwnNext DEF OwnInv, Calm, Safe
<1>3. Spec => [](Safe /\ MirrorInv)
  BY MirrorInductive
<1> QED BY <1>1, <1>2, <1>3, PTL DEF Spec

\* OnFwGuardEvent finds in the map what it has read.
LEMMA NothingNew ==
    ASSUME Safe, MirrorInv, OwnInv, OnFwGuardEvent, Calm, guard.own,
           \A e \in Listed(log) : e.g # guard.g
    PROVE  fw'.m_FwRules = fw.m_FwRules
<1>1. Shape /\ Sound(fw) /\ Once /\ ReadIsFresh /\ OwnMirrored /\ Pinned \subseteq InUse(fw)
  BY PinnedInUse DEF Safe, Shape, MirrorInv, OwnInv
<1>2. PICK g \in Guids : g = guard.g
  BY <1>1, InHand DEF OnFwGuardEvent
<1>3. PICK c \in Contents : c = guard.c
  BY <1>1, InHand DEF OnFwGuardEvent
<1>4. PICK o : o = GetRule(fw, g)
  OBVIOUS
<1>5. fw' = Collected(FWRuleChanged(fw, g, c, o))
  BY <1>2, <1>3, <1>4 DEF OnFwGuardEvent, Change
<1>6. Reading(g) /\ ~Pending(g)
  BY <1>2 DEF OnFwGuardEvent, Reading, Pending, Listed
<1>7. c = win[g]
  BY <1>1, <1>3, <1>6 DEF ReadIsFresh, Calm
<1>8. Mirrored(g)
  BY <1>1, <1>6 DEF OwnMirrored, NewestOwn
<1>9. \/ o = 0 /\ LiveAt(fw, g) = {}
      \/ LiveAt(fw, g) = {o}
  BY <1>1, <1>4, GetRuleIs DEF Calm
<1>10. o # 0 => o \in LiveAt(fw, g)
  BY <1>9
<1>11. IF c = Gone THEN o = 0 ELSE o # 0 /\ fw.rule[o].c = c
  <2>1. {fw.rule[p].c : p \in LiveAt(fw, g)} = {c} \ {Gone}
    BY <1>7, <1>8 DEF Mirrored, Shows
  <2>2. 0 \notin LiveAt(fw, g)
    BY FirewallAssumption, <1>1, LiveAtIs DEF Ids
  <2>3. CASE c = Gone
    BY <2>1, <2>3, <1>10
  <2>4. CASE c # Gone
    BY <2>1, <2>4, <1>9, <2>2
  <2> QED BY <2>3, <2>4
<1>12. FWRuleChanged(fw, g, c, o) = fw
  BY <1>11 DEF FWRuleChanged
<1>13. Keeps(fw, fw)
  BY <1>1 DEF Keeps
<1> QED BY <1>1, <1>5, <1>12, <1>13, CollectedEffect

\* OnFwGuardEvent: the agent does not take its own writes for changes, however
\* they mix with those of others, its reads, the lists and the requests, as long
\* as no call fails and no two changes of a rule meet in the ways Overlaps names.
THEOREM OnlyOthersAnswered == Spec => AnswersOnlyOthers
<1> DEFINE Returned == guard.pc = "apply" /\ guard.own /\ (\A e \in Listed(log) : e.g # guard.g)
                          /\ guard' = Idle /\ ~m_UpdateAllRules' /\ doubtful' = {} /\ ~overlapped'
           AsBefore == Returned => fw'.m_FwRules = fw.m_FwRules
<1>1. Safe /\ MirrorInv /\ OwnInv /\ [Next]_vars => [AsBefore]_vars
  <2> SUFFICES ASSUME Safe, MirrorInv, OwnInv, [Next]_vars, Returned
               PROVE  fw'.m_FwRules = fw.m_FwRules
    OBVIOUS
  <2>1. guard' # guard /\ guard # Idle
    BY DEF Idle
  <2>2. doubtful \subseteq doubtful' /\ (overlapped => overlapped')
    BY DoubtStays DEF Safe
  <2>3. Calm
    BY <2>2 DEF Calm
  <2>4. OnFwGuardEvent
    <3>1. ~TakeEvent /\ ~Restart
      BY <2>1 DEF TakeEvent, Restart
    <3> QED BY <2>1, <3>1
        DEF Next, AgentNext, vars, StartUpdateRules, LockForUpdate, FinishUpdateRules,
            UpdateListed, UpdateMissing, AskAboutWithdrawnRules, ReleaseHeldRules,
            ForgetSettled, LockForRevert, FinishRevert, RejectRule, RevertRule, WriteRule,
            RestoreBackup, Store, ForeignChange, SetRule, Compare, Approve, DropBackups, SetBackup, DelRule
  <2> QED BY <2>3, <2>4, NothingNew
<1> QED BY <1>1, OwnInductive, PTL DEF Spec, AnswersOnlyOthers

-----------------------------------------------------------------------------
(* What the user wants.  Each of its contents is carried by a rule of the    *)
(* map that no list takes away again, or by a backup; and under the blanket  *)
(* guard a rule he did not agree to is in a list, or an earlier form of it   *)
(* is about to be put back.                                                  *)

\* Nobody points at no object.
LEMMA NoneInUse ==
    ASSUME NEW f, Sound(f)
    PROVE  /\ 0 \notin InUse(f) /\ 0 \notin f.m_FwRules /\ 0 \notin Undoing(f) /\ 0 \notin Suspect(f)
           /\ Suspect(f) \subseteq InUse(f)
  BY UndoingInUse DEF InUse, Ids, Suspect, Sound

LEMMA RemovalTurns ==
    ASSUME NEW f, Sound(f), NEW h, NEW o, NEW t, Removes(f, h, o, t)
    PROVE  /\ Turns(f, h, o, 0, t, 0) /\ o \notin h.m_FwRules /\ t \notin Suspect(h)
           /\ Undoing(h) = Undoing(f)
  BY NoneInUse DEF Removes, SameObjects, Suspect, Waiting, Undoing, WaitsOnce, Turns

\* The rule becomes a backup, held back, to be restored or neither.
LEMMA BackupTurns ==
    ASSUME NEW f, Sound(f), NEW o \in InUse(f), o \notin Undoing(f), o \in f.m_FwRules, NEW h,
           h.rule = SetAsBackup(f, o).rule, h.m_FwRules = f.m_FwRules,
           h.m_RulesToRemove = f.m_RulesToRemove, h.m_HeldRules = f.m_HeldRules,
           \/ /\ h.m_RulesToRevert = f.m_RulesToRevert
              /\ \/ h.m_WithdrawnRules = f.m_WithdrawnRules
                 \/ \E e \in Withdrawn :
                      e.pBackup = o /\ h.m_WithdrawnRules = Append(f.m_WithdrawnRules, e)
           \/ /\ h.m_RulesToRevert = f.m_RulesToRevert \cup {o} /\ cfg.GuardFwRules
              /\ h.m_WithdrawnRules = f.m_WithdrawnRules
    PROVE  Turns(f, h, o, 0, 0, 0) /\ h.rule[o].backup
<1> DEFINE q == SetAsBackup(f, o)
<1>1. /\ InUse(q) = InUse(f) /\ q.rule[o].backup
      /\ \A p \in InUse(f) : q.rule[p].guid = f.rule[p].guid
      /\ \A p \in InUse(f) \ {o} : q.rule[p].backup <=> f.rule[p].backup
  BY BackupKept
<1>2. \A p \in InUse(f) : q.rule[p].c = f.rule[p].c
  BY SetAsBackupEffect DEF Keeps
<1>3. \A p \in InUse(f) : q.rule[p].state = f.rule[p].state
  BY SoundParts, InUseIsRule DEF Sound, SetAsBackup, Rules, Rule, InUse
<1> HIDE DEF q
<1>4. h.rule = q.rule /\ InUse(h) = InUse(f)
  BY <1>1 DEF q, InUse
<1>5. InHeld(h) = InHeld(f) /\ Suspect(h) = Suspect(f)
  BY DEF InHeld, Suspect
<1>6. 0 \notin Undoing(f) /\ o # 0 /\ f.m_WithdrawnRules \in Seq(Withdrawn)
  BY NoneInUse, SoundParts
<1>7. /\ Undoing(h) \subseteq Undoing(f) \cup {o} /\ f.m_RulesToRevert \subseteq h.m_RulesToRevert
      /\ ~cfg.GuardFwRules => h.m_RulesToRevert = f.m_RulesToRevert
      /\ WaitsOnce(f) => WaitsOnce(h)
  <2>1. CASE /\ h.m_RulesToRevert = f.m_RulesToRevert
             /\ h.m_WithdrawnRules = f.m_WithdrawnRules
    BY <2>1 DEF Undoing, Waiting, WaitsOnce
  <2>2. ASSUME h.m_RulesToRevert = f.m_RulesToRevert, NEW e \in Withdrawn, e.pBackup = o,
               h.m_WithdrawnRules = Append(f.m_WithdrawnRules, e)
        PROVE  Undoing(h) \subseteq Undoing(f) \cup {o} /\ (WaitsOnce(f) => WaitsOnce(h))
    BY <1>6, <2>2, AppendLists DEF Waiting, Undoing, Listed, WaitsOnce
  <2>3. CASE /\ h.m_RulesToRevert = f.m_RulesToRevert \cup {o} /\ cfg.GuardFwRules
             /\ h.m_WithdrawnRules = f.m_WithdrawnRules
    BY <2>3 DEF Undoing, Waiting, WaitsOnce
  <2> QED BY <2>1, <2>2, <2>3
<1>8. 0 \notin Undoing(h)
  BY <1>6, <1>7
<1> QED BY <1>1, <1>2, <1>3, <1>4, <1>5, <1>7, <1>8 DEF Turns

\* What is true of a change after the rule was taken out of what waits is true of
\* the change.
LEMMA TakeOutTurns ==
    ASSUME NEW f, Sound(f), Tidy(f), NEW o
    PROVE  LET k == TakeHeldRule([f EXCEPT !.m_RulesToRemove = f.m_RulesToRemove \ {o}], o)
           IN /\ Suspect(k) = Suspect(f) \ {o} /\ InHeld(k) = InHeld(f) \ {o}
              /\ k.m_RulesToRevert = f.m_RulesToRevert
              /\ k.m_SettledRemovals = f.m_SettledRemovals
<1> DEFINE d == [f EXCEPT !.m_RulesToRemove = f.m_RulesToRemove \ {o}]
           k == TakeHeldRule(d, o)
<1>1. /\ Sound(d) /\ d.m_RulesToRevert = f.m_RulesToRevert /\ d.m_HeldRules = f.m_HeldRules
      /\ d.m_SettledRemovals = f.m_SettledRemovals
  BY RemoveLess
<1>2. d.m_RulesToRemove = f.m_RulesToRemove \ {o}
  BY DEF Sound, Rules
<1> HIDE DEF d
<1>3. InHeld(d) = InHeld(f) /\ HeldOnce(d)
  BY <1>1 DEF InHeld, HeldOnce, Tidy
<1>4. /\ k.m_RulesToRemove = d.m_RulesToRemove /\ k.m_RulesToRevert = d.m_RulesToRevert
      /\ k.m_SettledRemovals = d.m_SettledRemovals
  BY <1>1, TakeHeldEffect
<1>5. InHeld(k) = InHeld(d) \ {o}
  BY <1>1, <1>3, TakeHeldIs
<1> HIDE DEF k
<1> QED BY <1>1, <1>2, <1>3, <1>4, <1>5 DEF Suspect, k, d

LEMMA TurnsBefore ==
    ASSUME NEW f, NEW k, NEW h, NEW o, NEW r, NEW t, NEW n, Turns(k, h, o, r, t, n),
           k.rule = f.rule, k.m_FwRules = f.m_FwRules, Undoing(k) = Undoing(f),
           k.m_WithdrawnRules = f.m_WithdrawnRules, k.m_RulesToRevert = f.m_RulesToRevert,
           Suspect(k) = Suspect(f) \ {o}, InHeld(k) = InHeld(f) \ {o}
    PROVE  Turns(f, h, o, r, t, n)
  BY DEF InUse, WaitsOnce, Waiting, Turns

LEMMA AddTurns ==
    ASSUME NEW f, NEW k, Sound(k), NEW o, NEW r, NEW t, Turns(f, k, o, r, t, 0),
           NEW x \in Rule, ~x.backup, \E p \in Ids : k.rule[p] = Free
    PROVE  LET h == AddRule(k, x)
               n == NextId(k)
           IN /\ Turns(f, h, o, r, t, n) /\ IsNew(f, h, n, x.guid, x.c) /\ h.rule[n].state = x.state
              /\ IsNew(k, h, n, x.guid, x.c)
              /\ Sound(h) /\ SameLists(k, h) /\ n \notin Suspect(h) /\ n \notin Undoing(h)
              /\ \A p \in InUse(f) : h.rule[p] = k.rule[p]
              /\ h.m_FwRules = k.m_FwRules \cup {n}
<1> DEFINE h == AddRule(k, x)
           n == NextId(k)
<1>1. n \in Ids /\ n \notin InUse(k)
  BY NextIdIsFree DEF InUse
<1>2. h.rule[n] = x
  <2>1. h.rule = [k.rule EXCEPT ![n] = x] /\ k.rule \in [Ids -> Object]
    BY AddRuleEffect, SoundParts
  <2> HIDE DEF h, n
  <2> QED BY <1>1, <2>1
<1>3. /\ Sound(h) /\ \A p \in Ids \ {n} : h.rule[p] = k.rule[p]
      /\ h.m_FwRules = k.m_FwRules \cup {n}
  BY AddRuleEffect
<1>4. SameLists(k, h)
  BY AddRuleEffect DEF SameLists
<1> HIDE DEF h, n
<1>5. /\ InHeld(h) = InHeld(k) /\ Undoing(h) = Undoing(k) /\ Waiting(h) = Waiting(k)
      /\ Suspect(h) = Suspect(k) /\ h.m_RulesToRevert = k.m_RulesToRevert
      /\ h.m_WithdrawnRules = k.m_WithdrawnRules
  BY <1>4, SameListsSame DEF Suspect, SameLists
<1>6. InUse(h) = InUse(k) \cup {n}
  BY <1>1, <1>2, <1>3, RuleInUse DEF InUse
<1>7. n \notin Undoing(k) /\ n \notin Suspect(k) /\ 0 \notin k.m_FwRules /\ 0 \notin Suspect(k)
      /\ 0 \notin InHeld(k)
  BY <1>1, NoneInUse, UndoingInUse
<1>8. InUse(f) \subseteq InUse(k)
  BY DEF Turns
<1>9. \A p \in InUse(f) : h.rule[p] = k.rule[p]
  BY <1>1, <1>3, <1>8 DEF InUse
<1>10. Turns(f, h, o, r, t, n)
  BY <1>5, <1>6, <1>8, <1>9, <1>3, <1>7 DEF Turns, WaitsOnce
<1>11. IsNew(f, h, n, x.guid, x.c) /\ IsNew(k, h, n, x.guid, x.c)
  BY <1>1, <1>2, <1>3, <1>6, <1>8 DEF IsNew
<1> QED BY <1>2, <1>3, <1>4, <1>5, <1>7, <1>9, <1>10, <1>11 DEF h, n

\* What comes with a change for the rest to be as it should be.
LEMMA TurnsOrderly ==
    ASSUME NEW f, Sound(f), Orderly(f), NEW h, NEW o, NEW r, NEW t, NEW n, Sound(h),
           Turns(f, h, o, r, t, n), o = 0 \/ o \in InUse(f), n \in InHeld(h) => ~h.rule[n].backup,
           o \notin InHeld(h),
           o \in Undoing(h) \ Undoing(f) =>
               \A b \in Undoing(f) : f.rule[b].guid # f.rule[o].guid
    PROVE  Orderly(h)
  BY UndoingInUse, NoneInUse DEF Orderly, Turns

LEMMA TurnsCarried ==
    ASSUME NEW f, Sound(f), NEW h, Sound(h), NEW o, NEW r, NEW t, NEW n,
           Turns(f, h, o, r, t, n), n \notin InUse(f), o = 0 \/ o \in InUse(f),
           \A c : Carries(f, o, c) \/ Carries(f, r, c) => \E p \in InUse(h) : Carries(h, p, c),
           \A c : Carries(f, t, c) => h.rule[t].state # "disabled",
           o \in Undoing(h) \ Undoing(f) =>
               \A p \in Live(f) \ {o} : f.rule[p].guid # f.rule[o].guid
    PROVE  \A W : Carried(f, W) => Carried(h, W)
<1> SUFFICES ASSUME NEW W, Carried(f, W), NEW c \in W
             PROVE  \E p \in InUse(h) : Carries(h, p, c)
  BY DEF Carried
<1>1. PICK p \in InUse(f) : Carries(f, p, c)
  BY DEF Carried
<1>2. CASE p \in {o, r}
  BY <1>1, <1>2
<1>3. CASE p \notin {o, r}
  BY <1>1, <1>3, UndoingInUse, NoneInUse DEF Turns, Carries, Live
<1> QED BY <1>2, <1>3

LEMMA TurnsTrapped ==
    ASSUME NEW f, Sound(f), Trapped(f), NEW h, Sound(h), NEW o, NEW r, NEW t, NEW n,
           Turns(f, h, o, r, t, n), o = 0 \/ o \in InUse(f), o \notin Live(h),
           t \in InUse(f) => ~Rogue(f.rule[t].c),
           n \in Live(h) /\ Rogue(h.rule[n].c) =>
               \/ n \in Suspect(h)
               \/ \E b \in h.m_RulesToRevert : h.rule[b].guid = h.rule[n].guid,
           o \in Undoing(h) \ Undoing(f) => ~Rogue(f.rule[o].c)
    PROVE  Trapped(h)
  BY UndoingInUse, NoneInUse DEF Live, Turns, Sound, Trapped

LEMMA OnlyTheGuard ==
    ASSUME NothingAnswers, cfg \in Setting, NEW f, Sound(f), NEW c \in Contents, NEW o,
           o \in InUse(f) \/ (o = 0 /\ c # Gone)
    PROVE  /\ LetGo(f, c, o) => Unanswered(f, c, o) = "approve" /\ ~LooksForTwin(f, c, o)
           /\ ~LetGo(f, c, o) =>
                Unanswered(f, c, o) = IF cfg.GuardFwRules THEN "reject" ELSE "none"
<1> DEFINE k     == IF o # 0 THEN f.rule[o].c.k ELSE c.k
           entry == IF ProgramChanged(f, c, o) THEN "none" ELSE cfg.entry[Prog[k]]
<1>1. c # Gone => c.k \in Kinds /\ Prog[c.k] \in Progs
  BY FirewallAssumption DEF Contents, Content
<1>2. k \in Kinds /\ Prog[k] \in Progs
  BY InUseIsRule, <1>1, FirewallAssumption DEF Content, InUse, Ids
<1>3. entry = "none"
  BY <1>2 DEF NothingAnswers
<1>4. DecideRuleChange(f, c, o) = "none"
  <2>1. CASE c = Gone
    BY <2>1 DEF DecideRuleChange, NothingAnswers
  <2>2. CASE c # Gone
    BY <1>1, <2>2 DEF NothingAnswers, AskTemplates, DecideRuleChange
  <2> QED BY <2>1, <2>2
<1> DEFINE let == /\ c = Gone
                  /\ \/ o \in f.m_RulesToRemove
                     \/ f.rule[o].state = "disabled"
                     \/ \E e \in Listed(f.m_HeldRules) : e.pRule = o
<1>5. LetGo(f, c, o) <=> let
  BY DEF LetGo, InHeld
<1>6. GuardAction(f, c, o) = IF let THEN "approve"
                             ELSE IF entry # "none" THEN entry ELSE DecideRuleChange(f, c, o)
  BY DEF GuardAction
<1> HIDE DEF let, entry
<1>7. GuardAction(f, c, o) = IF LetGo(f, c, o) THEN "approve" ELSE "none"
  BY <1>3, <1>4, <1>5, <1>6
<1>8. CASE LetGo(f, c, o)
  BY <1>7, <1>8 DEF Unanswered, LooksForTwin
<1>9. CASE ~LetGo(f, c, o)
  BY <1>7, <1>9 DEF Unanswered
<1> QED BY <1>8, <1>9

LEMMA TakenOutTurns ==
    ASSUME NEW f, NEW o, NEW k, TakenOut(f, k, o), NEW h, NEW r, NEW t, NEW n,
           Turns(k, h, o, r, t, n)
    PROVE  Turns(f, h, o, r, t, n)

BY TurnsBefore DEF TakenOut

\* The removal of a rule is let through.
LEMMA RemovalUpholds ==
    ASSUME NEW f, Sound(f), Tidy(f), Orderly(f), NEW o \in Live(f), NEW k, TakenOut(f, k, o),
           NEW h, Sound(h), NEW t, Removes(k, h, o, t),
           t # 0 => t \in InUse(f) /\ f.rule[t].c = f.rule[o].c,
           \A c : Carries(f, o, c) => t # 0 /\ Carries(h, t, c),
           \A c : Carries(f, t, c) => h.rule[t].state # "disabled",
           cfg.GuardFwRules /\ Trapped(f) /\ t # 0 => ~Rogue(f.rule[o].c)
    PROVE  Upholds(f, h)
<1>1. /\ Turns(k, h, o, 0, t, 0) /\ o \notin h.m_FwRules /\ Undoing(h) = Undoing(k)
  BY RemovalTurns DEF TakenOut
<1>2. Turns(f, h, o, 0, t, 0) /\ Undoing(h) = Undoing(f)
  BY <1>1, TakenOutTurns DEF TakenOut
<1>3. o \in InUse(f) /\ 0 \notin InUse(f) /\ o \notin InHeld(h) /\ o # 0
  BY NoneInUse, <1>1 DEF Live, Sound, Turns, TakenOut
<1>4. /\ 0 \notin InHeld(h) /\ 0 \notin h.m_FwRules /\ 0 \notin f.m_FwRules
  BY NoneInUse DEF Suspect
<1>5. Orderly(h)
  BY <1>2, <1>3, <1>4, TurnsOrderly
<1>6. \A c : Carries(f, o, c) \/ Carries(f, 0, c) => \E p \in InUse(h) : Carries(h, p, c)
  BY <1>2, <1>4 DEF Turns, Carries
<1>7. \A W : Carried(f, W) => Carried(h, W)
  BY <1>2, <1>3, <1>6, TurnsCarried
<1>8. ASSUME cfg.GuardFwRules, Trapped(f)
      PROVE  Trapped(h)
  BY <1>3, <1>8, <1>1, <1>4, <1>2, TurnsTrapped DEF Live
<1> QED BY <1>5, <1>7, <1>8 DEF Upholds

\* The rule becomes a backup.
LEMMA BackupUpholds ==
    ASSUME NEW f, Sound(f), Tidy(f), Orderly(f), NEW o \in Live(f), NEW k, TakenOut(f, k, o),
           NEW h, Sound(h), Turns(k, h, o, 0, 0, 0), h.rule[o].backup, o \in h.m_FwRules,
           \A p \in Live(f) : f.rule[p].guid = f.rule[o].guid => p = o,
           \A b \in Undoing(f) : f.rule[b].guid # f.rule[o].guid,
           cfg.GuardFwRules /\ Trapped(f) => ~Rogue(f.rule[o].c)
    PROVE  Upholds(f, h)
<1>1. Turns(f, h, o, 0, 0, 0)
  BY TakenOutTurns
<1>2. o \in InUse(f) /\ 0 \notin InUse(f) /\ o \notin InHeld(h) /\ o # 0
  BY NoneInUse DEF Live, Sound, Turns, TakenOut
<1>3. 0 \notin InHeld(h) /\ 0 \notin h.m_FwRules /\ 0 \notin f.m_FwRules
  BY NoneInUse DEF Suspect
<1>4. Orderly(h)
  BY <1>1, <1>2, <1>3, TurnsOrderly
<1>5. \A c : Carries(f, o, c) => Carries(h, o, c)
  BY <1>1, <1>2 DEF Turns, Carries
<1>6. \A c : Carries(f, o, c) \/ Carries(f, 0, c) => \E p \in InUse(h) : Carries(h, p, c)
  BY <1>1, <1>3, <1>2, <1>5 DEF Turns, Carries
<1>7. \A c : Carries(f, 0, c) => h.rule[0].state # "disabled"
  BY <1>3 DEF Carries
<1>8. \A p \in Live(f) \ {o} : f.rule[p].guid # f.rule[o].guid
  OBVIOUS
<1>9. \A W : Carried(f, W) => Carried(h, W)
  BY <1>1, <1>2, <1>6, <1>7, <1>8, TurnsCarried
<1>10. ASSUME cfg.GuardFwRules, Trapped(f)
      PROVE  Trapped(h)
  BY <1>3, <1>1, <1>2, <1>10, TurnsTrapped DEF Live
<1> QED BY <1>4, <1>9, <1>10 DEF Upholds

LEMMA RemovedUpholds ==
    ASSUME NEW f, Sound(f), Tidy(f), Orderly(f), NothingAnswers, cfg \in Setting,
           NEW g, NEW o \in InUse(f), Apart(f, g, Gone, o), ~f.rule[o].backup,
           NEW k, TakenOut(f, k, o), NEW wasHeld,
           NEW act, act = IF LooksForTwin(f, Gone, o) THEN "none" ELSE Unanswered(f, Gone, o),
           Sound(RuleRemoved(k, o, act, LooksForTwin(f, Gone, o), wasHeld))
    PROVE  Upholds(f, RuleRemoved(k, o, act, LooksForTwin(f, Gone, o), wasHeld))
<1> DEFINE looks == LooksForTwin(f, Gone, o)
           c    == k.rule[o].c
           held == HeldTwin(k, c)
           live == FindLiveTwin(k, c, o)
           twin == IF held = 0 THEN 0 ELSE k.m_HeldRules[held].pRule
           b    == SetAsBackup(k, o)
           e    == [pBackup |-> o, bRevert |-> cfg.GuardFwRules]
           r1   == RemovalApproved(k, o, twin, wasHeld)
           r2   == RemovalApproved(k, o, live, wasHeld)
           r3   == [b EXCEPT !.m_WithdrawnRules = Append(b.m_WithdrawnRules, e)]
           r4   == [b EXCEPT !.m_RulesToRevert = b.m_RulesToRevert \cup {o}]
           h    == RuleRemoved(k, o, act, looks, wasHeld)
<1>1. h = CASE act = "approve" -> r1
            [] looks /\ live # 0 -> r2
            [] looks /\ live = 0 -> r3
            [] ~looks /\ act = "reject" -> r4
            [] OTHER -> b
  BY DEF RuleRemoved
<1>2. /\ Sound(k) /\ Tidy(k) /\ HeldOnce(k) /\ k.rule = f.rule /\ k.m_FwRules = f.m_FwRules
      /\ Undoing(k) = Undoing(f) /\ Suspect(k) = Suspect(f) \ {o} /\ InHeld(k) = InHeld(f) \ {o}
      /\ InUse(k) = InUse(f) /\ Live(k) = Live(f)
  BY DEF TakenOut, Tidy, InUse, Live
<1>3. o # 0 /\ f.rule[o].c # Gone /\ c = f.rule[o].c
  BY InUseIsRule, <1>2, FirewallAssumption DEF InUse, Ids, Content, Gone
<1>4. /\ o \in Live(f) /\ \A p \in Live(f) : f.rule[p].guid = f.rule[o].guid => p = o
      /\ \A d \in Undoing(f) : f.rule[d].guid # f.rule[o].guid
  BY <1>3 DEF Apart
<1>5. ASSUME cfg.GuardFwRules, Trapped(f), Rogue(f.rule[o].c)
      PROVE  o \in Suspect(f) /\ \A p \in InHeld(f) \ {o} : f.rule[p].c # f.rule[o].c
  BY <1>3, <1>5 DEF Apart
<1>6. LetGo(f, Gone, o) <=> o \in Suspect(f) \/ f.rule[o].state = "disabled"
  BY DEF LetGo, Suspect
<1>7. /\ looks \in BOOLEAN
      /\ LetGo(f, Gone, o) => act = "approve" /\ ~looks
      /\ ~LetGo(f, Gone, o) => act # "approve" /\ (act = "reject" => cfg.GuardFwRules)
  BY OnlyTheGuard DEF LooksForTwin, Setting, Contents
<1>8. o \notin Undoing(f)
  BY <1>4
<1> HIDE DEF h, looks
<1>9. CASE LetGo(f, Gone, o)
  <2>1. h = r1 /\ Sound(h)
    BY <1>1, <1>7, <1>9 DEF h, looks
  <2>2. twin # 0 => twin \in InUse(k) /\ k.rule[twin].c = c /\ twin \in InHeld(k)
    BY <1>2, HeldTwinMatches DEF InHeld, Listed
  <2> HIDE DEF twin
  <2>3. Removes(k, r1, o, twin)
    BY <1>2, <1>3, <2>2, RemovalIs
  <2>4. \A d : ~Carries(f, o, d)
    BY <1>4, <1>6, <1>9 DEF Carries, Live
  <2>5. \A d : ~Carries(f, twin, d)
    BY NoneInUse, <1>2, <2>2 DEF Carries, Orderly, Suspect
  <2>6. cfg.GuardFwRules /\ Trapped(f) /\ twin # 0 => ~Rogue(f.rule[o].c)
    BY <1>2, <1>3, <1>5, <2>2
  <2>7. twin # 0 => twin \in InUse(f) /\ f.rule[twin].c = f.rule[o].c
    BY <1>2, <1>3, <2>2
  <2> HIDE DEF r1
  <2>8. Upholds(f, r1)
    BY <1>4, <2>1, <2>3, <2>4, <2>5, <2>6, <2>7, RemovalUpholds
  <2> QED BY <2>1, <2>8 DEF h, looks
<1>10. CASE ~LetGo(f, Gone, o) /\ looks /\ live # 0
  <2>1. h = r2 /\ Sound(h)
    BY <1>1, <1>7, <1>10 DEF h, looks
  <2>2. live \in InUse(k) /\ k.rule[live].c = c /\ live \in Live(k) \ {o}
    BY <1>2, <1>10, LiveTwinMatches
  <2>3. live = FindLiveTwin(f, f.rule[o].c, o)
    BY <1>2, <1>3 DEF FindLiveTwin
  <2>4. \A d \in Undoing(f) : f.rule[d].guid # f.rule[live].guid
    BY <1>3, <1>10, <2>3 DEF Apart, looks
  <2> HIDE DEF live
  <2>5. Removes(k, r2, o, live)
    BY <1>2, <1>3, <2>2, RemovalIs
  <2> HIDE DEF r2
  <2>6. h.rule[live].state # "disabled"
    BY <1>10, <2>1, <2>5, <1>2, <1>6 DEF Removes
  <2>7. ASSUME NEW d, Carries(f, o, d)
        PROVE  Carries(h, live, d)
    <3>1. h.rule[live].c = d
      BY <1>2, <1>3, <2>1, <2>2, <2>5, <2>7 DEF Removes, Carries
    <3>2. /\ live \in h.m_FwRules /\ live \notin Suspect(h) /\ Undoing(h) = Undoing(f)
          /\ h.rule[live].guid = f.rule[live].guid
          /\ \A x \in Undoing(f) : h.rule[x].guid = f.rule[x].guid
      <4>1. Turns(k, h, o, 0, live, 0) /\ live \notin Suspect(h) /\ Undoing(h) = Undoing(k)
        BY <1>2, <2>1, <2>5, RemovalTurns
      <4>2. live \in h.m_FwRules
        BY <2>1, <2>2, <2>5 DEF Removes, Live
      <4>3. Undoing(f) \subseteq InUse(k)
        BY <1>2, UndoingInUse
      <4> QED BY <1>2, <2>2, <4>1, <4>2, <4>3 DEF Turns
    <3> QED BY <2>4, <2>6, <3>1, <3>2 DEF Carries
  <2>8. live \in InUse(f) /\ f.rule[live].c = f.rule[o].c
    BY <1>2, <1>3, <2>2
  <2>9. cfg.GuardFwRules /\ Trapped(f) => ~Rogue(f.rule[o].c)
    BY <1>5, <1>6, <1>10
  <2>10. Upholds(f, h)
    BY <1>4, <1>10, <2>1, <2>5, <2>6, <2>7, <2>8, <2>9, RemovalUpholds
  <2> QED BY <2>10 DEF h, looks
<1>11. CASE ~LetGo(f, Gone, o) /\ ~(looks /\ live # 0)
  <2>1. (h = r3 \/ h = b \/ (h = r4 /\ cfg.GuardFwRules)) /\ Sound(h)
    BY <1>1, <1>7, <1>11 DEF h, looks
  <2>0. o \in k.m_FwRules /\ o \in InUse(k)
    BY <1>2, <1>4 DEF Live
  <2>2. SameLists(k, b) /\ b.m_FwRules = k.m_FwRules /\ b \in Rules
    BY <1>2, <2>0, BackupKept DEF Sound
  <2>3. e \in Withdrawn /\ e.pBackup = o
    BY DEF Withdrawn, Setting, InUse
  <2> HIDE DEF e, live
  <2>4. h.rule = b.rule /\ h.m_FwRules = k.m_FwRules /\ h.m_RulesToRemove = k.m_RulesToRemove
        /\ h.m_HeldRules = k.m_HeldRules
        /\ \/ /\ h.m_RulesToRevert = k.m_RulesToRevert
              /\ \/ h.m_WithdrawnRules = k.m_WithdrawnRules
                 \/ h.m_WithdrawnRules = Append(k.m_WithdrawnRules, e)
           \/ /\ h.m_RulesToRevert = k.m_RulesToRevert \cup {o} /\ cfg.GuardFwRules
              /\ h.m_WithdrawnRules = k.m_WithdrawnRules
    BY <2>2, <2>1 DEF SameLists, Rules
  <2> HIDE DEF r3, r4
  <2>5. o \in InUse(k) /\ o \notin Undoing(k)
    BY <1>2, <1>8
  <2>6. Turns(k, h, o, 0, 0, 0) /\ h.rule[o].backup
    BY <1>2, <2>0, <2>3, <2>4, <2>5, BackupTurns
  <2>7. o \in h.m_FwRules
    BY <1>2, <1>4, <2>4 DEF Live
  <2>8. cfg.GuardFwRules /\ Trapped(f) => ~Rogue(f.rule[o].c)
    BY <1>5, <1>6, <1>11
  <2>9. Upholds(f, h)
    BY <1>4, <2>1, <2>6, <2>7, <2>8, BackupUpholds
  <2> QED BY <2>9 DEF h, looks
<1> QED BY <1>9, <1>10, <1>11

\* A removal taken out of the withdrawn ones is not in the list any more.
LEMMA TakeWithdrawn ==
    ASSUME NEW f, Sound(f), WaitsOnce(f), NEW w \in DOMAIN f.m_WithdrawnRules, NEW m,
           m.m_WithdrawnRules = RemoveAt(f.m_WithdrawnRules, w),
           m.m_RulesToRevert = f.m_RulesToRevert
    PROVE  WaitsOnce(m) /\ f.m_WithdrawnRules[w].pBackup \notin Undoing(m)
<1> DEFINE s == f.m_WithdrawnRules
           t == RemoveAt(s, w)
<1>1. s \in Seq(Withdrawn) /\ DOMAIN s = 1..Len(s) /\ Len(s) \in Nat
  BY SoundParts
<1>2. /\ t \in Seq(Withdrawn) /\ Len(t) = Len(s) - 1
      /\ \A j \in DOMAIN t : t[j] = IF j < w THEN s[j] ELSE s[j + 1]
  BY <1>1, RemoveAtIs
<1>3. \A x \in Listed(t) : \E j \in DOMAIN s \ {w} : s[j] = x
  BY <1>1, RemoveAtLists
<1> HIDE DEF t
<1>4. m.m_WithdrawnRules = t
  BY DEF t
<1>5. s[w].pBackup \notin Waiting(m) /\ Waiting(m) \subseteq Waiting(f)
  <2>1. ASSUME NEW x \in Listed(t)
        PROVE  x.pBackup # s[w].pBackup /\ x.pBackup \in Waiting(f)
    BY <1>3 DEF WaitsOnce, Waiting, Listed
  <2> QED BY <1>4, <2>1 DEF Waiting
<1>6. s[w].pBackup \in Waiting(f)
  BY DEF Waiting, Listed
<1>7. ASSUME NEW j \in DOMAIN t, NEW k \in DOMAIN t, t[j].pBackup = t[k].pBackup
      PROVE  j = k
  <2>1. j \in 1..(Len(s) - 1) /\ k \in 1..(Len(s) - 1) /\ w \in 1..Len(s)
    BY <1>1, <1>2
  <2>2. PICK a \in DOMAIN s : a = IF j < w THEN j ELSE j + 1
    BY <1>1, <2>1
  <2>3. PICK b \in DOMAIN s : b = IF k < w THEN k ELSE k + 1
    BY <1>1, <2>1
  <2>4. t[j] = s[a] /\ t[k] = s[b]
    BY <1>2, <2>2, <2>3
  <2>5. a = b
    BY <1>7, <2>4 DEF WaitsOnce
  <2> QED BY <1>1, <2>1, <2>2, <2>3, <2>5
<1> QED BY <1>4, <1>5, <1>6, <1>7 DEF WaitsOnce, Undoing

\* A rule came back, in the place of the backup that waited for it.
LEMMA ReturnTurns ==
    ASSUME NEW f, Sound(f), Tidy(f), NEW g \in Guids, NEW c \in Content, WithdrawnTwin(f, c) # 0,
           \E p \in Ids : f.rule[p] = Free
    PROVE  LET h == RuleReturned(f, g, c, 0)
               r == f.m_WithdrawnRules[WithdrawnTwin(f, c)].pBackup
           IN \E n : /\ Turns(f, h, 0, r, 0, n) /\ IsNew(f, h, n, g, c)
                     /\ n \notin Suspect(h) /\ h.rule[n].state = f.rule[r].state
                     /\ r \in Undoing(f) /\ f.rule[r].backup /\ f.rule[r].c = c
                     /\ Undoing(h) \subseteq Undoing(f)
<1> DEFINE w == WithdrawnTwin(f, c)
           r == f.m_WithdrawnRules[w].pBackup
           a == [f EXCEPT !.m_WithdrawnRules = RemoveAt(f.m_WithdrawnRules, w)]
           m == [f EXCEPT !.m_WithdrawnRules = RemoveAt(f.m_WithdrawnRules, w),
                          !.m_FwRules = f.m_FwRules \ {0, r}]
           x == [NewRule(g, c) EXCEPT !.state = f.rule[r].state]
<1>1. RuleReturned(f, g, c, 0) = AddRule(m, x)
  BY DEF RuleReturned
<1>16. w \in DOMAIN f.m_WithdrawnRules /\ r \in InUse(f) /\ f.rule[r].c = c
  BY WithdrawnTwinMatches
<1>3. r \in Waiting(f) /\ r \in Undoing(f)
  BY <1>16 DEF Waiting, Undoing, Listed
<1>2. w \in DOMAIN f.m_WithdrawnRules /\ r \in InUse(f) /\ f.rule[r].backup /\ f.rule[r].c = c
  BY <1>16, <1>3 DEF Tidy, Placed
<1>4. x \in Rule /\ x.guid = g /\ x.c = c /\ ~x.backup /\ x.state = f.rule[r].state
  BY <1>2, InUseIsRule DEF NewRule, Rule
<1> HIDE DEF w, x
<1>5. f \in Rules /\ f.m_WithdrawnRules \in Seq(Withdrawn) /\ f.m_FwRules \subseteq InUse(f)
  BY SoundParts DEF Sound
<1>6. /\ m.rule = f.rule /\ m.m_FwRules = f.m_FwRules \ {0, r}
      /\ m.m_RulesToRemove = f.m_RulesToRemove /\ m.m_RulesToRevert = f.m_RulesToRevert
      /\ m.m_HeldRules = f.m_HeldRules
      /\ m.m_WithdrawnRules = RemoveAt(f.m_WithdrawnRules, w)
  BY <1>5 DEF Rules
<1>7. Sound(m)
  BY <1>2, WithdrawnLess, <1>5, SoundMap DEF Touches, Rules, InUse
<1>8. Listed(m.m_WithdrawnRules) \subseteq Listed(f.m_WithdrawnRules)
  BY <1>2, <1>5, <1>6, RemoveAtShrinks
<1> HIDE DEF m, a
<1>9. /\ InUse(m) = InUse(f) /\ InHeld(m) = InHeld(f) /\ Suspect(m) = Suspect(f)
      /\ Undoing(m) \subseteq Undoing(f)
  BY <1>6, <1>8 DEF InUse, InHeld, Suspect, Undoing, Waiting
<1>10. WaitsOnce(f) => WaitsOnce(m) /\ r \notin Undoing(m)
  BY <1>2, <1>6, TakeWithdrawn
<1>11. Turns(f, m, 0, r, 0, 0)
  BY <1>6, <1>9, <1>10 DEF Turns
<1>12. \E p \in Ids : m.rule[p] = Free
  BY <1>6
<1> DEFINE h == AddRule(m, x)
           n == NextId(m)
<1>13. /\ Turns(f, h, 0, r, 0, n) /\ IsNew(f, h, n, g, c) /\ h.rule[n].state = f.rule[r].state
       /\ SameLists(m, h) /\ n \notin Suspect(h)
  BY <1>4, <1>7, <1>11, <1>12, AddTurns
<1> HIDE DEF h, n
<1>14. Undoing(h) \subseteq Undoing(f)
  BY <1>9, <1>13, SameListsSame
<1>15. \E y : /\ Turns(f, h, 0, r, 0, y) /\ IsNew(f, h, y, g, c) /\ y \notin Suspect(h)
              /\ h.rule[y].state = f.rule[r].state
  BY <1>13
<1> QED BY <1>1, <1>2, <1>3, <1>14, <1>15 DEF h, w

LEMMA ReturnedUpholds ==
    ASSUME NEW f, Sound(f), Tidy(f), Orderly(f), NEW g \in Guids, NEW c \in Content,
           Apart(f, g, c, 0), LooksForTwin(f, c, 0), WithdrawnTwin(f, c) # 0,
           NEW k, TakenOut(f, k, 0), \E p \in Ids : k.rule[p] = Free,
           Sound(RuleReturned(k, g, c, 0))
    PROVE  Upholds(f, RuleReturned(k, g, c, 0))
<1> DEFINE h == RuleReturned(k, g, c, 0)
           r == f.m_WithdrawnRules[WithdrawnTwin(f, c)].pBackup
<1>1. Sound(k) /\ Tidy(k) /\ k.rule = f.rule /\ k.m_WithdrawnRules = f.m_WithdrawnRules /\ Undoing(k) = Undoing(f)
  BY DEF TakenOut
<1>2. WithdrawnTwin(k, c) = WithdrawnTwin(f, c)
  BY <1>1, SameTwin
<1>3. \E n : /\ Turns(k, h, 0, r, 0, n) /\ IsNew(k, h, n, g, c)
             /\ n \notin Suspect(h) /\ h.rule[n].state = k.rule[r].state
             /\ r \in Undoing(k) /\ k.rule[r].backup /\ k.rule[r].c = c
             /\ Undoing(h) \subseteq Undoing(k)
  BY <1>1, <1>2, ReturnTurns
<1>4. c # Gone
  BY FirewallAssumption DEF Content, Gone
<1>5. \A b \in Undoing(f) : f.rule[b].guid # g \/ b = r
  BY <1>4 DEF Apart
<1> HIDE DEF h, r
<1>6. PICK n : /\ Turns(k, h, 0, r, 0, n) /\ IsNew(k, h, n, g, c)
               /\ n \notin Suspect(h) /\ h.rule[n].state = k.rule[r].state
               /\ r \in Undoing(k) /\ k.rule[r].backup /\ k.rule[r].c = c
               /\ Undoing(h) \subseteq Undoing(k)
  BY <1>3
<1>7. Turns(f, h, 0, r, 0, n) /\ IsNew(f, h, n, g, c) /\ InUse(k) = InUse(f)
  BY <1>1, <1>6, TakenOutTurns DEF IsNew, InUse
<1>8. Sound(h)
  BY DEF h
<1>9. 0 \notin InHeld(h) /\ 0 \notin f.m_FwRules /\ 0 \notin Undoing(h) /\ 0 \notin h.m_FwRules
  BY <1>8, NoneInUse DEF Suspect
<1>10. Orderly(h)
  BY <1>6, <1>7, <1>8, <1>9, TurnsOrderly DEF IsNew
<1>11. r \notin Undoing(h)
  BY <1>7 DEF Turns, Orderly
<1>12. ASSUME NEW d, Carries(f, r, d)
       PROVE  Carries(h, n, d)
  BY <1>1, <1>6, <1>7, <1>12, <1>11, UndoingInUse, <1>5 DEF Carries, IsNew, Turns
<1>13. \A d : Carries(f, 0, d) \/ Carries(f, r, d) => \E p \in InUse(h) : Carries(h, p, d)
  BY <1>7, <1>9, <1>12 DEF IsNew, Carries
<1>14. \A d : Carries(f, 0, d) => h.rule[0].state # "disabled"
  BY <1>9 DEF Carries
<1>15. \A W : Carried(f, W) => Carried(h, W)
  BY <1>7, <1>8, <1>9, <1>13, <1>14, TurnsCarried DEF IsNew
<1>16. ASSUME cfg.GuardFwRules, Trapped(f)
       PROVE  Trapped(h)
  <2>1. h.rule[n].c = f.rule[r].c /\ r \in Undoing(f)
    BY <1>1, <1>6 DEF IsNew
  <2>2. ~Rogue(h.rule[n].c)
    BY <1>16, <2>1 DEF Trapped
  <2>3. 0 \notin Live(h) /\ 0 \notin InUse(f)
    BY <1>9, NoneInUse DEF Live
  <2> QED BY <1>7, <1>8, <1>9, <1>16, <2>2, <2>3, TurnsTrapped
<1>17. Upholds(f, h)
  BY <1>10, <1>15, <1>16 DEF Upholds
<1> QED BY <1>17 DEF h

\* A new rule, which may be turned down or held back.
LEMMA NewUpholds ==
    ASSUME NEW f, Sound(f), Tidy(f), Orderly(f), NEW h, Sound(h), NEW n, NEW g, NEW c,
           Turns(f, h, 0, 0, 0, n), IsNew(f, h, n, g, c), Undoing(h) = Undoing(f),
           cfg.GuardFwRules /\ Rogue(c) => n \in Suspect(h)
    PROVE  Upholds(f, h)
  BY NoneInUse, TurnsOrderly, TurnsCarried, TurnsTrapped DEF Suspect, IsNew, Carries, Live, Upholds

LEMMA AddedUpholds ==
    ASSUME NEW f, Sound(f), Tidy(f), Orderly(f), AllFine(f), mistaken = {}, NothingAnswers, cfg \in Setting,
           NEW g \in Guids, NEW c \in Content, Apart(f, g, c, 0),
           NEW k, TakenOut(f, k, 0), \E p \in Ids : k.rule[p] = Free,
           NEW act, act = Unanswered(f, c, 0),
           Sound(RuleAdded(k, g, c, act, LooksForTwin(f, c, 0)))
    PROVE  Upholds(f, RuleAdded(k, g, c, act, LooksForTwin(f, c, 0)))
<1> DEFINE looks == LooksForTwin(f, c, 0)
           s  == SettledTwin(k, c)
           n  == NextId(k)
           f1 == AddRule(k, NewRule(g, c))
           t  == TakeOver(f1, n, k.m_SettledRemovals[s])
           e  == [pRule |-> n, bReject |-> cfg.GuardFwRules]
           k1 == [t EXCEPT !.m_SettledRemovals = RemoveAt(t.m_SettledRemovals, s)]
           k3 == [f1 EXCEPT !.m_HeldRules = Append(f1.m_HeldRules, e)]
           k4 == [f1 EXCEPT !.m_RulesToRemove = f1.m_RulesToRemove \cup {n}]
           live == FindLiveTwin(k, c, 0)
           h  == RuleAdded(k, g, c, act, looks)
<1>1. c # Gone /\ c \in Contents
  BY FirewallAssumption DEF Content, Gone, Contents
<1>2. act = IF cfg.GuardFwRules THEN "reject" ELSE "none"
  BY <1>1, OnlyTheGuard DEF LetGo
<1>3. \/ looks /\ s # 0 /\ h = k1
      \/ h = k3
      \/ h = k4
      \/ ~cfg.GuardFwRules /\ h = f1
  <2> DEFINE k2 == [f1 EXCEPT !.rule[n].state = "approved"]
  <2>1. h = CASE looks /\ s # 0 -> k1
              [] act = "approve" -> k2
              [] looks /\ s = 0 /\ live # 0 -> k3
              [] ~(looks /\ (s # 0 \/ live # 0)) /\ act = "reject" -> k4
              [] OTHER -> f1
    BY DEF RuleAdded
  <2> HIDE DEF h, k1, k2, k3, k4, f1, looks, s, live
  <2>2. CASE looks /\ s # 0
    BY <1>2, <2>1, <2>2
  <2>3. CASE ~(looks /\ s # 0)
    BY <1>2, <2>1, <2>3
  <2> QED BY <2>2, <2>3
<1>4. /\ Sound(k) /\ k.rule = f.rule /\ Undoing(k) = Undoing(f) /\ InUse(k) = InUse(f)
      /\ k.m_SettledRemovals = f.m_SettledRemovals
  BY DEF TakenOut, InUse
<1>5. Turns(k, k, 0, 0, 0, 0)
  <2>1. 0 \notin Undoing(k)
    BY <1>4, NoneInUse
  <2> QED BY <2>1 DEF Turns
<1>6. NewRule(g, c) \in Rule /\ ~NewRule(g, c).backup /\ NewRule(g, c).guid = g /\ NewRule(g, c).c = c
  BY DEF NewRule, Rule, States
<1>7. /\ Turns(k, f1, 0, 0, 0, n) /\ IsNew(k, f1, n, g, c) /\ Sound(f1) /\ SameLists(k, f1)
      /\ n \notin Suspect(f1)
  <2>1. /\ Turns(k, f1, 0, 0, 0, n) /\ IsNew(k, f1, n, NewRule(g, c).guid, NewRule(g, c).c)
        /\ Sound(f1) /\ SameLists(k, f1) /\ n \notin Suspect(f1)
    BY <1>4, <1>5, <1>6, AddTurns
  <2> QED BY <1>6, <2>1
<1> HIDE DEF f1, n
<1>8. /\ Turns(f, f1, 0, 0, 0, n) /\ IsNew(f, f1, n, g, c) /\ Undoing(f1) = Undoing(f) /\ f1 \in Rules
  BY <1>4, <1>7, TakenOutTurns, SameListsSame DEF IsNew, Sound
<1> HIDE DEF h, looks
<1>9. Sound(h)
  BY DEF h, looks

\* The same up to the verdict on the new rule and the lists it is put in.
<1>10. ASSUME NEW q, Sound(q), SameObjects(f1, q), \A p \in InUse(f1) : q.rule[p].c = f1.rule[p].c,
              \A p \in InUse(f1) \ {n} : q.rule[p].state = f1.rule[p].state,
              q.m_FwRules = f1.m_FwRules, q.m_RulesToRevert = f1.m_RulesToRevert,
              q.m_WithdrawnRules = f1.m_WithdrawnRules,
              f1.m_RulesToRemove \subseteq q.m_RulesToRemove,
              q.m_RulesToRemove \subseteq f1.m_RulesToRemove \cup {n},
              InHeld(f1) \subseteq InHeld(q), InHeld(q) \subseteq InHeld(f1) \cup {n},
              cfg.GuardFwRules /\ Rogue(c) => n \in Suspect(q)
       PROVE  Upholds(f, q)
  <2>1. Undoing(q) = Undoing(f1) /\ Waiting(q) = Waiting(f1) /\ (WaitsOnce(f1) <=> WaitsOnce(q))
    BY <1>10 DEF Undoing, Waiting, WaitsOnce
  <2>2. /\ InUse(q) = InUse(f1) /\ InUse(f) \subseteq InUse(f1) /\ n \notin InUse(f) /\ n \in InUse(f1)
        /\ \A p \in InUse(f1) : /\ q.rule[p].guid = f1.rule[p].guid
                                /\ q.rule[p].backup <=> f1.rule[p].backup
    BY <1>8, <1>10 DEF SameObjects, Turns, IsNew
  <2>3. /\ Suspect(q) \subseteq Suspect(f1) \cup {n} /\ Suspect(f1) \subseteq Suspect(q)
    BY <1>10 DEF Suspect
  <2>4. Turns(f, q, 0, 0, 0, n)
    <3>1. /\ \A p \in InUse(f) : q.rule[p].guid = f.rule[p].guid /\ q.rule[p].c = f.rule[p].c
          /\ \A p \in InUse(f) \ {0} : q.rule[p].backup <=> f.rule[p].backup
          /\ \A p \in InUse(f) \ {0} : q.rule[p].state = f.rule[p].state
      BY <1>8, <1>10, <2>2 DEF Turns
    <3>2. /\ q.m_FwRules \subseteq f.m_FwRules \cup {n} /\ f.m_FwRules \ {0, 0} \subseteq q.m_FwRules
          /\ Suspect(q) \subseteq Suspect(f) \cup {n} /\ Suspect(f) \subseteq Suspect(q) \cup {0, 0}
          /\ InHeld(q) \subseteq InHeld(f) \cup {n}
          /\ Undoing(q) \subseteq Undoing(f) \cup {0}
          /\ f.m_RulesToRevert \subseteq q.m_RulesToRevert
          /\ ~cfg.GuardFwRules => q.m_RulesToRevert = f.m_RulesToRevert
      BY <1>8, <1>10, <2>1, <2>3 DEF Turns
    <3>3. WaitsOnce(f) => WaitsOnce(q) /\ 0 \notin Undoing(q)
      BY <1>8, <2>1 DEF Turns
    <3> QED BY <2>2, <3>1, <3>2, <3>3 DEF Turns
  <2>5. IsNew(f, q, n, g, c)
    BY <1>8, <1>10, <2>2 DEF IsNew
  <2>6. Undoing(q) = Undoing(f)
    BY <1>8, <2>1
  <2> QED BY <1>10, <2>4, <2>5, <2>6, NewUpholds
<1>11. SameObjects(f1, f1)
  BY DEF SameObjects
<1>12. CASE h = f1 /\ ~cfg.GuardFwRules
  <2>1. Upholds(f, h)
    BY <1>9, <1>10, <1>11, <1>12
  <2> QED BY <2>1 DEF h, looks
<1>13. CASE h = k4
  <2>1. /\ k4.rule = f1.rule /\ k4.m_FwRules = f1.m_FwRules
        /\ k4.m_RulesToRemove = f1.m_RulesToRemove \cup {n}
        /\ k4.m_RulesToRevert = f1.m_RulesToRevert /\ k4.m_WithdrawnRules = f1.m_WithdrawnRules
        /\ k4.m_HeldRules = f1.m_HeldRules
    BY <1>8 DEF Rules
  <2> HIDE DEF k4
  <2>2. SameObjects(f1, k4) /\ InHeld(k4) = InHeld(f1) /\ n \in Suspect(k4)
    BY <2>1 DEF SameObjects, InUse, InHeld, Suspect
  <2>3. Upholds(f, h)
    BY <1>9, <1>10, <1>13, <2>1, <2>2
  <2> QED BY <2>3 DEF h, looks
<1>14. CASE h = k3
  <2>1. e \in Held /\ e.pRule = n
    BY <1>8 DEF Held, Setting, IsNew
  <2> HIDE DEF e
  <2>2. Listed(Append(f1.m_HeldRules, e)) = Listed(f1.m_HeldRules) \cup {e}
    BY <1>7, <2>1, AppendLists, SoundParts
  <2>3. /\ k3.rule = f1.rule /\ k3.m_FwRules = f1.m_FwRules
        /\ k3.m_RulesToRemove = f1.m_RulesToRemove
        /\ k3.m_RulesToRevert = f1.m_RulesToRevert /\ k3.m_WithdrawnRules = f1.m_WithdrawnRules
        /\ k3.m_HeldRules = Append(f1.m_HeldRules, e)
    BY <1>8 DEF Rules
  <2> HIDE DEF k3
  <2>4. InHeld(k3) = InHeld(f1) \cup {n}
    BY <2>1, <2>2, <2>3 DEF InHeld
  <2>5. SameObjects(f1, k3) /\ n \in Suspect(k3)
    BY <2>3, <2>4 DEF SameObjects, InUse, Suspect
  <2>6. Upholds(f, h)
    BY <1>9, <1>10, <1>14, <2>3, <2>4, <2>5
  <2> QED BY <2>6 DEF h, looks
<1>15. CASE looks /\ s # 0 /\ h = k1
  <2>1. s = SettledTwin(f, c)
    BY <1>4 DEF SettledTwin, SelectInSeq
  <2>2. f.rule[f.m_SettledRemovals[s]].state = "approved"
    BY <1>1, <1>15, <2>1 DEF Apart, looks
  <2>3. f.m_SettledRemovals[s] \in InUse(f) /\ f.rule[f.m_SettledRemovals[s]].c = c
    BY <1>15, <2>1, SettledTwinMatches
  <2>4. ~Rogue(c)
    <3>1. Fine(c.k)
      BY <2>2, <2>3 DEF AllFine, InUse
    <3>2. Prog[c.k] \in Progs
      BY FirewallAssumption DEF Content
    <3>3. c.k \in Agreed
      BY <3>1, <3>2 DEF Fine, Answered, NothingAnswers
    <3> QED BY <3>3 DEF Rogue
  <2>5. t = [f1 EXCEPT !.rule[n].state = f1.rule[k.m_SettledRemovals[s]].state]
    BY DEF TakeOver
  <2>6. n \in InUse(f1)
    BY <1>8 DEF IsNew
  <2>7. SameObjects(f1, t) /\ t.m_FwRules = f1.m_FwRules /\ SameLists(f1, t)
    <3> DEFINE v == f1.rule[k.m_SettledRemovals[s]].state
    <3> HIDE DEF v, t
    <3>1. LET q == [f1 EXCEPT !.rule[n].state = v]
          IN SameObjects(f1, q) /\ q.m_FwRules = f1.m_FwRules /\ SameLists(f1, q)
      BY <1>7, <2>6, StateKept
    <3> QED BY <2>5, <3>1 DEF v
  <2>8. /\ \A p \in InUse(f1) : t.rule[p].c = f1.rule[p].c
        /\ \A p \in InUse(f1) \ {n} : t.rule[p].state = f1.rule[p].state
    <3> DEFINE v == f1.rule[k.m_SettledRemovals[s]].state
               y == [f1.rule[n] EXCEPT !.state = v]
    <3>1. f1.rule \in [Ids -> Object] /\ f1.rule[n] \in Rule /\ n \in Ids
      BY <1>7, <2>6, SoundParts, InUseIsRule DEF InUse
    <3> HIDE DEF v
    <3>2. t.rule = [f1.rule EXCEPT ![n] = y]
      BY <1>8, <2>5 DEF Rules, v
    <3>3. y.c = f1.rule[n].c
      BY <3>1 DEF Rule
    <3> HIDE DEF y, t
    <3>4. \A p \in Ids : t.rule[p] = IF p = n THEN y ELSE f1.rule[p]
      BY <3>1, <3>2
    <3> QED BY <3>3, <3>4 DEF InUse
  <2>9. /\ k1.rule = t.rule /\ k1.m_FwRules = t.m_FwRules /\ k1.m_RulesToRemove = t.m_RulesToRemove
        /\ k1.m_RulesToRevert = t.m_RulesToRevert /\ k1.m_HeldRules = t.m_HeldRules
        /\ k1.m_WithdrawnRules = t.m_WithdrawnRules
    OBVIOUS
  <2> HIDE DEF k1, t
  <2>10. SameObjects(f1, k1) /\ InHeld(k1) = InHeld(f1)
    BY <2>7, <2>9 DEF SameObjects, InUse, InHeld, SameLists
  <2>11. /\ k1.m_FwRules = f1.m_FwRules
         /\ k1.m_RulesToRemove = f1.m_RulesToRemove /\ k1.m_RulesToRevert = f1.m_RulesToRevert
         /\ k1.m_WithdrawnRules = f1.m_WithdrawnRules
    BY <2>7, <2>9 DEF SameLists
  <2>12. Upholds(f, h)
    BY <1>9, <1>10, <1>15, <2>4, <2>8, <2>9, <2>10, <2>11
  <2> QED BY <2>12 DEF h, looks
<1> QED BY <1>3, <1>12, <1>13, <1>14, <1>15

LEMMA ModifiedUpholds ==
    ASSUME NEW f, Sound(f), Tidy(f), Orderly(f), NothingAnswers, cfg \in Setting,
           NEW g \in Guids, NEW c \in Content, NEW o \in InUse(f), Apart(f, g, c, o),
           ~f.rule[o].backup, f.rule[o].c # c,
           NEW k, TakenOut(f, k, o), \E p \in Ids : k.rule[p] = Free,
           NEW act, act = Unanswered(f, c, o), Sound(RuleModified(k, g, c, o, act))
    PROVE  Upholds(f, RuleModified(k, g, c, o, act))
<1> DEFINE b  == SetAsBackup(k, o)
           b2 == [b EXCEPT !.m_RulesToRevert = b.m_RulesToRevert \cup {o}]
           x  == NewRule(g, c)
           h  == RuleModified(k, g, c, o, act)
<1>1. c # Gone /\ c \in Contents
  BY FirewallAssumption DEF Content, Gone, Contents
<1>2. act = IF cfg.GuardFwRules THEN "reject" ELSE "none"
  BY <1>1, OnlyTheGuard DEF LetGo
<1>3. h = IF cfg.GuardFwRules THEN AddRule(b2, x) ELSE AddRule(b, x)
  BY <1>2 DEF RuleModified
<1>4. o # 0
  BY DEF InUse, Ids
<1>5. /\ o \in Live(f) /\ f.rule[o].guid = g
      /\ \A p \in Live(f) : f.rule[p].guid = g => p = o
      /\ \A d \in Undoing(f) : f.rule[d].guid # g
      /\ cfg.GuardFwRules /\ Trapped(f) => ~Rogue(f.rule[o].c)
  BY <1>1, <1>4 DEF Apart
<1>6. /\ Sound(k) /\ k.rule = f.rule /\ k.m_FwRules = f.m_FwRules /\ Undoing(k) = Undoing(f)
      /\ InUse(k) = InUse(f)
  BY DEF TakenOut, InUse
<1>21. o \in k.m_FwRules
  BY <1>5, <1>6 DEF Live
<1>7. /\ Sound(b) /\ SameLists(k, b) /\ b.m_FwRules = k.m_FwRules /\ b \in Rules
      /\ \A p \in Ids \ {o} : b.rule[p] = k.rule[p]
      /\ b.rule[o].backup
  BY <1>6, <1>21, BackupKept, SetAsBackupEffect DEF Sound
<1>8. x \in Rule /\ ~x.backup /\ x.guid = g /\ x.c = c
  BY DEF NewRule, Rule, States
<1>9. o \notin Undoing(k) /\ o \in InUse(k)
  BY <1>5, <1>6
<1>10. PICK m : /\ h = AddRule(m, x) /\ m.rule = b.rule /\ m.m_FwRules = k.m_FwRules /\ Sound(m)
                /\ Turns(k, m, o, 0, 0, 0) /\ (cfg.GuardFwRules => o \in m.m_RulesToRevert)
  <2>1. CASE cfg.GuardFwRules
    <3>1. /\ b2.rule = b.rule /\ b2.m_FwRules = k.m_FwRules /\ b2.m_RulesToRemove = k.m_RulesToRemove
          /\ b2.m_RulesToRevert = k.m_RulesToRevert \cup {o} /\ b2.m_HeldRules = k.m_HeldRules
          /\ b2.m_WithdrawnRules = k.m_WithdrawnRules
      <4> HIDE DEF b
      <4> QED BY <1>7 DEF Rules, SameLists
    <3>2. Sound(b2)
      <4>1. o \in InUse(b)
        BY <1>6, <1>21, BackupKept
      <4> QED BY <1>7, <4>1, RemoveMore DEF Touches
    <3> HIDE DEF b2
    <3>3. Turns(k, b2, o, 0, 0, 0)
      BY <1>6, <1>9, <1>21, <2>1, <3>1, BackupTurns
    <3> QED BY <1>3, <2>1, <3>1, <3>2, <3>3
  <2>2. CASE ~cfg.GuardFwRules
    <3>1. /\ b.rule = SetAsBackup(k, o).rule /\ b.m_FwRules = k.m_FwRules
          /\ b.m_RulesToRemove = k.m_RulesToRemove
          /\ b.m_RulesToRevert = k.m_RulesToRevert /\ b.m_HeldRules = k.m_HeldRules
          /\ b.m_WithdrawnRules = k.m_WithdrawnRules
      BY <1>7 DEF SameLists
    <3> HIDE DEF b
    <3>2. Turns(k, b, o, 0, 0, 0)
      BY <1>6, <1>9, <1>21, <2>2, <3>1, BackupTurns
    <3> QED BY <1>3, <1>7, <2>2, <3>2
  <2> QED BY <2>1, <2>2
<1> HIDE DEF h, b, b2, x
<1> DEFINE n == NextId(m)
<1>11. \E p \in Ids : m.rule[p] = Free
  BY <1>6, <1>7, <1>10 DEF InUse
<1>12. /\ Turns(k, h, o, 0, 0, n) /\ IsNew(k, h, n, g, c) /\ n \notin Suspect(h)
       /\ SameLists(m, h) /\ h.m_FwRules = m.m_FwRules \cup {n}
       /\ \A p \in InUse(k) : h.rule[p] = m.rule[p]
  <2> DEFINE q == AddRule(m, x)
  <2>1. Sound(m) /\ Turns(k, m, o, 0, 0, 0)
    BY <1>10
  <2>2. /\ Turns(k, q, o, 0, 0, n) /\ IsNew(k, q, n, x.guid, x.c) /\ n \notin Suspect(q)
        /\ SameLists(m, q) /\ q.m_FwRules = m.m_FwRules \cup {n}
        /\ \A p \in InUse(k) : q.rule[p] = m.rule[p]
    BY <1>8, <1>11, <2>1, AddTurns
  <2>3. h = q
    BY <1>10
  <2> HIDE DEF q, n
  <2> QED BY <1>8, <2>2, <2>3
<1> HIDE DEF n
<1>13. /\ Turns(f, h, o, 0, 0, n) /\ IsNew(f, h, n, g, c) /\ Sound(h)
       /\ h.rule[o].backup /\ o \in h.m_FwRules /\ o \in InUse(h)
       /\ cfg.GuardFwRules => o \in h.m_RulesToRevert
  <2>1. Turns(f, h, o, 0, 0, n) /\ IsNew(f, h, n, g, c)
    BY <1>6, <1>12, TakenOutTurns DEF IsNew
  <2>2. h.rule[o].backup /\ o \in h.m_FwRules
    BY <1>5, <1>6, <1>7, <1>9, <1>10, <1>12 DEF Live
  <2>3. cfg.GuardFwRules => o \in h.m_RulesToRevert
    BY <1>10, <1>12 DEF SameLists
  <2> QED BY <2>1, <2>2, <2>3 DEF h, Turns
<1>14. 0 \notin f.m_FwRules /\ 0 \notin InUse(f) /\ o \notin InHeld(h)
  <2>1. o \notin InHeld(k) /\ n # o
    BY <1>9, <1>12 DEF TakenOut, IsNew
  <2> QED BY <1>12, <2>1, NoneInUse DEF Turns
<1>15. Orderly(h)
  BY <1>5, <1>13, <1>14, TurnsOrderly DEF IsNew
<1>16. \A d : Carries(f, o, d) => Carries(h, o, d)
  BY <1>13, <1>14 DEF Turns, Carries
<1>17. \A d : ~Carries(f, 0, d)
  BY <1>14 DEF Carries
<1>18. \A W : Carried(f, W) => Carried(h, W)
  <2>1. n \notin InUse(f) /\ \A p \in Live(f) \ {o} : f.rule[p].guid # f.rule[o].guid
    BY <1>5, <1>13 DEF IsNew
  <2>2. \A d : Carries(f, o, d) \/ Carries(f, 0, d) => \E p \in InUse(h) : Carries(h, p, d)
    BY <1>13, <1>16, <1>17
  <2> QED BY <1>13, <1>17, <2>1, <2>2, TurnsCarried
<1>19. ASSUME cfg.GuardFwRules, Trapped(f)
       PROVE  Trapped(h)
  <2>1. h.rule[o].guid = h.rule[n].guid
    BY <1>5, <1>13 DEF Turns, IsNew
  <2>2. o \notin Live(h)
    BY <1>13 DEF Live
  <2> QED BY <1>5, <1>13, <1>14, <1>19, <2>1, <2>2, TurnsTrapped
<1>20. Upholds(f, h)
  BY <1>15, <1>18, <1>19 DEF Upholds
<1> QED BY <1>20 DEF h

\* A backup is met whose restoring is decided already, or not decided now.
LEMMA BackupMetUpholds ==
    ASSUME NEW f, Sound(f), Tidy(f), Orderly(f), NEW g, NEW o \in InUse(f), Apart(f, g, Gone, o),
           f.rule[o].backup, NothingAnswers, cfg \in Setting,
           NEW k, TakenOut(f, k, o), NEW act, act = Unanswered(f, Gone, o),
           Sound(BackupMet(k, o, act))
    PROVE  Upholds(f, BackupMet(k, o, act))
<1> DEFINE q == [k EXCEPT !.m_RulesToRevert = k.m_RulesToRevert \cup {o}]
           h == BackupMet(k, o, act)
<1>1. h = k \/ (h = q /\ act = "reject" /\ o \notin Waiting(k))
  BY DEF BackupMet, Waiting
<1>2. /\ q.rule = k.rule /\ q.m_FwRules = k.m_FwRules /\ q.m_RulesToRemove = k.m_RulesToRemove
      /\ q.m_RulesToRevert = k.m_RulesToRevert \cup {o} /\ q.m_WithdrawnRules = k.m_WithdrawnRules
      /\ q.m_HeldRules = k.m_HeldRules
  BY DEF TakenOut, Sound, Rules
<1> HIDE DEF h, q
<1>3. o # 0 /\ 0 \notin InUse(f)
  BY DEF InUse, Ids
<1>4. o \in Undoing(f) \/ act # "reject"
  BY <1>3 DEF Apart

\* It is in the set already.
<1>5. h.m_RulesToRevert = k.m_RulesToRevert
  BY <1>1, <1>2, <1>4 DEF TakenOut, Undoing
<1>6. /\ h.rule = f.rule /\ h.m_FwRules = f.m_FwRules /\ h.m_RulesToRevert = f.m_RulesToRevert
      /\ h.m_WithdrawnRules = f.m_WithdrawnRules /\ h.m_RulesToRemove = k.m_RulesToRemove
      /\ InHeld(h) = InHeld(f) \ {o} /\ Suspect(h) = Suspect(f) \ {o}
  BY <1>1, <1>2, <1>5 DEF TakenOut, InHeld, Suspect
<1>7. /\ Undoing(h) = Undoing(f) /\ Waiting(h) = Waiting(f) /\ InUse(h) = InUse(f)
      /\ Live(h) = Live(f) /\ o \notin Live(f)
  BY <1>6 DEF Undoing, Waiting, InUse, Live
<1>8. Orderly(h)
  BY <1>6, <1>7 DEF Orderly, WaitsOnce
<1>9. \A p, d : Carries(f, p, d) => Carries(h, p, d)
  BY <1>6, <1>7 DEF Carries
<1>10. \A W : Carried(f, W) => Carried(h, W)
  BY <1>7, <1>9 DEF Carried
<1>11. Trapped(f) => Trapped(h)
  BY <1>6, <1>7 DEF Trapped
<1>12. Upholds(f, h)
  BY <1>8, <1>10, <1>11 DEF Upholds
<1> QED BY <1>12 DEF h

LEMMA ChangedUpholds ==
    ASSUME NEW f, Sound(f), Tidy(f), Orderly(f), AllFine(f), mistaken = {}, NothingAnswers, cfg \in Setting,
           NEW g \in Guids, NEW c \in Contents, NEW o, o = 0 \/ o \in InUse(f),
           \E p \in Ids : f.rule[p] = Free, Apart(f, g, c, o)
    PROVE  Upholds(f, FWRuleChanged(f, g, c, o))
<1> DEFINE f1    == TakeHeldRule([f EXCEPT !.m_RulesToRemove = f.m_RulesToRemove \ {o}], o)
           act   == Unanswered(f, c, o)
           looks == LooksForTwin(f, c, o)
           held  == \E e \in Listed(f.m_HeldRules) : e.pRule = o
           twin  == WithdrawnTwin(f, c)
           returns == c # Gone /\ looks /\ twin # 0
           nothing == IF c = Gone THEN o = 0 ELSE o # 0 /\ f.rule[o].c = c
           h     == FWRuleChanged(f, g, c, o)
<1>1. h = CASE nothing -> f
            [] ~nothing /\ c = Gone /\ f.rule[o].backup -> BackupMet(f1, o, act)
            [] ~nothing /\ c = Gone /\ ~f.rule[o].backup ->
                 RuleRemoved(f1, o, IF looks THEN "none" ELSE act, looks, held)
            [] ~nothing /\ returns -> RuleReturned(f1, g, c, o)
            [] ~nothing /\ c # Gone /\ ~returns /\ o = 0 -> RuleAdded(f1, g, c, act, looks)
            [] OTHER -> RuleModified(f1, g, c, o, act)
  BY DEF FWRuleChanged
<1>2. o # 0 /\ c # Gone => ~f.rule[o].backup
  <2>1. o # 0 /\ f.rule[o].backup => c = Gone
    BY DEF Apart
  <2>2. o # 0 => f.rule[o].backup \in BOOLEAN
    BY InUseIsRule DEF Rule
  <2> QED BY <2>1, <2>2
<1>3. Sound(h)
  <2> HIDE DEF h
  <2>1. \/ Touches(f, h)
        \/ Drops(f, h, o)
        \/ Trades(f, h, g, c, o)
    BY <1>2, ChangedEffect DEF h
  <2> QED BY <2>1 DEF Touches, Drops, Trades
<1>4. TakenOut(f, f1, o)
  <2>1. /\ Sound(f1) /\ Tidy(f1) /\ f1.rule = f.rule /\ f1.m_FwRules = f.m_FwRules
        /\ Undoing(f1) = Undoing(f) /\ f1.m_WithdrawnRules = f.m_WithdrawnRules
    BY TakeOutTidy
  <2>2. /\ Suspect(f1) = Suspect(f) \ {o} /\ InHeld(f1) = InHeld(f) \ {o}
        /\ f1.m_RulesToRevert = f.m_RulesToRevert
        /\ f1.m_SettledRemovals = f.m_SettledRemovals
    BY TakeOutTurns
  <2> HIDE DEF f1
  <2> QED BY <2>1, <2>2 DEF TakenOut
<1> HIDE DEF h, f1
<1>5. \E p \in Ids : f1.rule[p] = Free
  BY <1>4 DEF TakenOut
<1>6. c # Gone => c \in Content
  BY DEF Contents
<1>7. o # 0 /\ ~f.rule[o].backup /\ f.rule[o].c # c => ~returns
  BY DEF Apart
<1> HIDE DEF act, looks, held, twin
<1>8. CASE nothing
  <2>1. h = f
    BY <1>1, <1>8
  <2> QED BY <2>1 DEF h, Upholds
<1>9. CASE o # 0 /\ c = Gone /\ f.rule[o].backup
  <2>1. h = BackupMet(f1, o, act) /\ o \in InUse(f)
    BY <1>1, <1>9
  <2>2. Sound(BackupMet(f1, o, act))
    BY <1>3, <2>1
  <2>3. Upholds(f, BackupMet(f1, o, act))
    BY <1>4, <1>9, <2>1, <2>2, BackupMetUpholds DEF act
  <2> QED BY <2>1, <2>3 DEF h
<1>10. CASE o # 0 /\ c = Gone /\ ~f.rule[o].backup
  <2> DEFINE a == IF looks THEN "none" ELSE act
             q == RuleRemoved(f1, o, a, looks, held)
  <2>1. h = q /\ o \in InUse(f) /\ Sound(q)
    BY <1>1, <1>3, <1>10
  <2>2. a = IF LooksForTwin(f, Gone, o) THEN "none" ELSE Unanswered(f, Gone, o)
    BY <1>10 DEF act, looks
  <2>3. looks = LooksForTwin(f, Gone, o) /\ Apart(f, g, Gone, o)
    BY <1>10 DEF looks
  <2> HIDE DEF a
  <2>4. Sound(RuleRemoved(f1, o, a, LooksForTwin(f, Gone, o), held))
    BY <2>1, <2>3
  <2> HIDE DEF q
  <2>5. Upholds(f, RuleRemoved(f1, o, a, LooksForTwin(f, Gone, o), held))
    BY <1>4, <1>10, <2>1, <2>2, <2>3, <2>4, RemovedUpholds
  <2>6. Upholds(f, h)
    BY <2>1, <2>3, <2>5 DEF q
  <2> QED BY <2>6 DEF h
<1>11. CASE ~nothing /\ returns
  <2>1. h = RuleReturned(f1, g, c, o)
    BY <1>1, <1>11
  <2>2. o = 0
    BY <1>2, <1>7, <1>11
  <2>3. Sound(RuleReturned(f1, g, c, 0)) /\ c \in Content
    BY <1>3, <1>6, <1>11, <2>1, <2>2
  <2>4. TakenOut(f, f1, 0) /\ Apart(f, g, c, 0)
    BY <1>4, <2>2
  <2>5. LooksForTwin(f, c, 0) /\ WithdrawnTwin(f, c) # 0
    BY <1>11, <2>2 DEF looks, twin
  <2>6. Upholds(f, RuleReturned(f1, g, c, 0))
    BY <1>5, <2>3, <2>4, <2>5, ReturnedUpholds
  <2> QED BY <2>1, <2>2, <2>6 DEF h
<1>12. CASE c # Gone /\ o = 0 /\ ~returns
  <2>1. h = RuleAdded(f1, g, c, act, looks) /\ c \in Content /\ o = 0
    BY <1>1, <1>6, <1>12
  <2>2. looks = LooksForTwin(f, c, 0) /\ act = Unanswered(f, c, 0)
    BY <2>1 DEF looks, act
  <2>3. Sound(RuleAdded(f1, g, c, act, LooksForTwin(f, c, 0)))
    BY <1>3, <2>1, <2>2
  <2>4. TakenOut(f, f1, 0) /\ Apart(f, g, c, 0)
    BY <1>4, <2>1
  <2>5. Upholds(f, RuleAdded(f1, g, c, act, LooksForTwin(f, c, 0)))
    BY <1>5, <2>1, <2>2, <2>3, <2>4, AddedUpholds
  <2>6. Upholds(f, h)
    BY <2>1, <2>2, <2>5
  <2> QED BY <2>6 DEF h
<1>13. CASE c # Gone /\ o # 0 /\ f.rule[o].c # c /\ ~returns
  <2>1. h = RuleModified(f1, g, c, o, act) /\ c \in Content /\ o \in InUse(f)
    BY <1>1, <1>6, <1>13
  <2>2. act = Unanswered(f, c, o) /\ Sound(RuleModified(f1, g, c, o, act)) /\ ~f.rule[o].backup
    BY <1>2, <1>3, <1>13, <2>1 DEF act
  <2>3. Upholds(f, RuleModified(f1, g, c, o, act))
    BY <1>4, <1>5, <1>13, <2>1, <2>2, ModifiedUpholds
  <2> QED BY <2>1, <2>3 DEF h
<1> QED BY <1>8, <1>9, <1>10, <1>11, <1>12, <1>13

LEMMA UpholdsTwice ==
    ASSUME NEW f, NEW k, NEW h, Upholds(f, k), Upholds(k, h)
    PROVE  Upholds(f, h)

BY DEF Upholds

\* What is freed was in no list and not in the map.
LEMMA CollectedUpholds ==
    ASSUME NEW k, Sound(k), Orderly(k)
    PROVE  Upholds(k, Collected(k))
<1> DEFINE q == [o \in Ids |-> IF o \in Referenced(k) THEN k.rule[o] ELSE Free]
           h == [k EXCEPT !.rule = q]
<1>1. Collected(k) = h
  BY DEF Collected
<1>2. q \in [Ids -> Object] /\ \A o \in Ids : q[o] = k.rule[o] \/ q[o] = Free
  BY SoundParts DEF Object
<1>3. \A o \in Ids : o \in Referenced(k) => q[o] = k.rule[o]
  OBVIOUS
<1> HIDE DEF q
<1>4. /\ h.rule = q /\ h.m_FwRules = k.m_FwRules
      /\ h.m_RulesToRemove = k.m_RulesToRemove
      /\ h.m_RulesToRevert = k.m_RulesToRevert /\ h.m_WithdrawnRules = k.m_WithdrawnRules
      /\ h.m_HeldRules = k.m_HeldRules
  BY <1>2 DEF Sound, Rules
<1> HIDE DEF h
<1>5. /\ k.m_FwRules \subseteq Referenced(k) /\ Undoing(k) \subseteq Referenced(k)
      /\ InHeld(k) \subseteq Referenced(k) /\ k.m_RulesToRevert \subseteq Undoing(k)
  BY DEF Referenced, Undoing, Waiting, InHeld
<1>6. /\ InHeld(h) = InHeld(k) /\ Undoing(h) = Undoing(k) /\ Waiting(h) = Waiting(k)
      /\ Suspect(h) = Suspect(k)
  BY <1>4 DEF InHeld, Undoing, Waiting, Suspect
<1>7. Undoing(k) \subseteq Ids /\ InHeld(k) \subseteq Ids /\ k.m_FwRules \subseteq InUse(k)
  BY UndoingInUse DEF InUse, Sound
<1>8. \A o \in k.m_FwRules \cup Undoing(k) \cup InHeld(k) : h.rule[o] = k.rule[o]
  BY <1>3, <1>4, <1>5, <1>7 DEF InUse
<1>9. Live(h) = Live(k)
  BY <1>4, <1>8 DEF Live
<1>10. Orderly(h)
  BY <1>4, <1>6, <1>8 DEF Orderly, WaitsOnce
<1>11. ASSUME NEW W, Carried(k, W)
       PROVE  Carried(h, W)
  <2> SUFFICES ASSUME NEW c \in W
               PROVE  \E o \in InUse(h) : Carries(h, o, c)
    BY DEF Carried
  <2>1. PICK o \in InUse(k) : Carries(k, o, c)
    BY <1>11 DEF Carried
  <2>2. o \in k.m_FwRules /\ o \in Ids /\ k.rule[o] # Free
    BY <2>1 DEF Carries, InUse
  <2>3. h.rule[o] = k.rule[o] /\ o \in InUse(h)
    BY <1>8, <2>2 DEF InUse
  <2>4. \A b \in Undoing(h) : h.rule[b].guid = k.rule[b].guid
    BY <1>6, <1>8
  <2>5. Carries(h, o, c)
    BY <1>4, <1>6, <2>1, <2>3, <2>4 DEF Carries
  <2> QED BY <2>3, <2>5
<1>12. Trapped(k) => Trapped(h)
  BY <1>4, <1>5, <1>6, <1>8, <1>9 DEF Trapped, Live
<1>13. Upholds(k, h)
  BY <1>10, <1>11, <1>12 DEF Upholds
<1> QED BY <1>1, <1>13

LEMMA KeptApart ==
    ASSUME Shape, Once, Tidy(fw), Orderly(fw), NothingAnswers,
           NEW g \in Guids, NEW c \in Contents, NEW o, ~Overlaps(g, c, o),
           \/ o = 0 /\ LiveAt(fw, g) = {}
           \/ LiveAt(fw, g) = {o}
           \/ c = Gone /\ o \in InUse(fw) /\ fw.rule[o].backup
    PROVE  Apart(fw, g, c, o)
<1> DEFINE looks    == LooksForTwin(fw, c, o)
           w        == WithdrawnTwin(fw, c)
           back     == fw.m_WithdrawnRules[w].pBackup
           returned == IF c = Gone \/ ~looks \/ w = 0 THEN 0 ELSE back
           HasBackup(a) == \E b \in Unsettled(a) \ {returned} : fw.rule[b].backup
           settled  == SettledTwin(fw, c)
           held     == {e.pRule : e \in Listed(fw.m_HeldRules)}
           live     == FindLiveTwin(fw, fw.rule[o].c, o)
<1>1. Overlaps(g, c, o) <=>
       IF o = 0
       THEN /\ c # Gone
            /\ \/ HasBackup(g)
               \/ looks /\ settled # 0 /\ fw.rule[fw.m_SettledRemovals[settled]].state # "approved"
       ELSE \/ /\ fw.rule[o].c # c
               /\ ~fw.rule[o].backup
               /\ \/ HasBackup(g)
                  \/ c # Gone /\ (returned # 0 \/ o \in fw.m_RulesToRemove)
                  \/ c # Gone /\ o \in held /\ ~Stands(fw.rule[o].c)
                  \/ /\ c = Gone /\ o \in held \cup fw.m_RulesToRemove
                     /\ \E p \in held \ {o} : fw.rule[p].c = fw.rule[o].c
                     /\ ~Stands(fw.rule[o].c)
                  \/ c = Gone /\ looks /\ live # 0 /\ HasBackup(fw.rule[live].guid)
            \/ fw.rule[o].backup /\ o \notin fw.m_FwRules /\ Unanswered(fw, c, o) = "reject"
  BY DEF Overlaps
<1>2. Sound(fw) /\ cfg \in Setting
  BY CfgIsSetting DEF Shape
<1>3. held = InHeld(fw)
  BY DEF InHeld
<1>4. \A b \in Undoing(fw) : b \in Unsettled(fw.rule[b].guid) /\ fw.rule[b].backup /\ b # 0
  BY <1>2, NoneInUse DEF Unsettled, Undoing, Waiting, Tidy, Placed
<1>5. \A p \in Suspect(fw) : p \in Unsettled(fw.rule[p].guid)
  BY DEF Unsettled, Suspect, InHeld
<1>6. \A a : ~HasBackup(a) => \A b \in Undoing(fw) : fw.rule[b].guid # a \/ b = returned
  BY <1>4
<1>7. looks /\ w # 0 => back # 0
  <2>1. w # 0 => back \in InUse(fw)
    BY <1>2, WithdrawnTwinMatches
  <2> QED BY <2>1 DEF InUse, Ids
<1> HIDE DEF looks, w, back, HasBackup, settled, held, live
<1>8. ASSUME o = 0, c # Gone
      PROVE  /\ \A b \in Undoing(fw) : fw.rule[b].guid # g \/ (c # Gone /\ looks /\ w # 0 /\ b = back)
             /\ looks /\ settled # 0 => fw.rule[fw.m_SettledRemovals[settled]].state = "approved"
  BY <1>1, <1>4, <1>6, <1>8
<1>9. ASSUME o # 0, fw.rule[o].backup
      PROVE  c = Gone /\ (o \in Undoing(fw) \/ Unanswered(fw, c, o) # "reject")
  <2>1. c = Gone /\ o \in InUse(fw)
    BY <1>9 DEF LiveAt, Live
  <2>2. o \in fw.m_FwRules \/ Unanswered(fw, c, o) # "reject"
    BY <1>1, <1>9
  <2>3. ~cfg.GuardFwRules => Unanswered(fw, c, o) # "reject"
    BY <1>2, <2>1, OnlyTheGuard
  <2>4. cfg.GuardFwRules /\ o \in fw.m_FwRules => o \in Undoing(fw)
    BY <1>9 DEF Tidy, Placed, Backups
  <2> QED BY <2>1, <2>2, <2>3, <2>4
<1>10. ASSUME o # 0, ~fw.rule[o].backup, fw.rule[o].c # c
       PROVE  /\ ~(c # Gone /\ looks /\ w # 0)
              /\ o \in Live(fw) /\ fw.rule[o].guid = g
              /\ \A p \in Live(fw) : fw.rule[p].guid = g => p = o
              /\ \A b \in Undoing(fw) : fw.rule[b].guid # g
              /\ c = Gone /\ looks /\ live # 0 =>
                   \A b \in Undoing(fw) : fw.rule[b].guid # fw.rule[live].guid
              /\ cfg.GuardFwRules /\ Trapped(fw) /\ Rogue(fw.rule[o].c) =>
                   /\ c = Gone /\ o \in Suspect(fw)
                   /\ \A p \in InHeld(fw) \ {o} : fw.rule[p].c # fw.rule[o].c
  <2>1. ~(c # Gone /\ looks /\ w # 0) /\ returned = 0
    BY <1>1, <1>7, <1>10
  <2>2. /\ o \in Live(fw) /\ fw.rule[o].guid = g
        /\ \A p \in Live(fw) : fw.rule[p].guid = g => p = o
    BY <1>10 DEF LiveAt
  <2>3. \A b \in Undoing(fw) : fw.rule[b].guid # g
    BY <1>1, <1>4, <1>6, <1>10, <2>1
  <2>4. c = Gone /\ looks /\ live # 0 => \A b \in Undoing(fw) : fw.rule[b].guid # fw.rule[live].guid
    BY <1>1, <1>4, <1>6, <1>10, <2>1
  <2>5. ASSUME cfg.GuardFwRules, Trapped(fw), Rogue(fw.rule[o].c)
        PROVE  /\ c = Gone /\ o \in Suspect(fw)
               /\ \A p \in InHeld(fw) \ {o} : fw.rule[p].c # fw.rule[o].c
    <3>1. fw.m_RulesToRevert \subseteq Undoing(fw)
      BY DEF Undoing
    <3>2. o \in Suspect(fw)
      BY <2>2, <2>3, <2>5, <3>1 DEF Trapped
    <3>3. ~Stands(fw.rule[o].c)
      <4> SUFFICES ASSUME NEW p \in Live(fw), fw.rule[p].c = fw.rule[o].c,
                          Unsettled(fw.rule[p].guid) = {}
                   PROVE  FALSE
        BY DEF Stands
      <4>1. \/ p \in Suspect(fw)
            \/ \E b \in fw.m_RulesToRevert : fw.rule[b].guid = fw.rule[p].guid
        BY <2>5 DEF Trapped
      <4> QED BY <1>4, <1>5, <3>1, <4>1
    <3>4. o \in held \/ o \in fw.m_RulesToRemove
      BY <1>3, <3>2 DEF Suspect
    <3> QED BY <1>1, <1>3, <1>10, <3>2, <3>3, <3>4
  <2> QED BY <2>1, <2>2, <2>3, <2>4, <2>5
<1> QED BY <1>8, <1>9, <1>10 DEF Apart, looks, w, back, settled, live

LEMMA ChangeUpholds ==
    ASSUME Safe, Once, Tidy(fw), Orderly(fw), NothingAnswers, mistaken = {},
           NEW g \in Guids, NEW c \in Contents, NEW o, Change(g, c, o), ~overlapped',
           \/ o = 0 /\ LiveAt(fw, g) = {}
           \/ LiveAt(fw, g) = {o}
           \/ c = Gone /\ o \in InUse(fw) /\ fw.rule[o].backup
    PROVE  Upholds(fw, fw')
<1> DEFINE k == FWRuleChanged(fw, g, c, o)
<1>1. Shape /\ Sound(fw) /\ cfg \in Setting /\ AllFine(fw)
  BY CfgIsSetting DEF Safe, Shape, Verdicts, AllFine
<1>2. fw' = Collected(k) /\ (\E p \in Ids : fw.rule[p] = Free) /\ ~Overlaps(g, c, o)
  BY DEF Change, HasRoom
<1>3. o = 0 \/ o \in InUse(fw)
  BY <1>1, UndoingInUse DEF LiveAt
<1>4. Apart(fw, g, c, o)
  BY <1>1, <1>2, KeptApart
<1>5. Upholds(fw, k)
  BY <1>1, <1>2, <1>3, <1>4, ChangedUpholds
<1>6. Sound(k)
  <2>1. c # Gone /\ o # 0 => ~fw.rule[o].backup
    BY DEF LiveAt, Live
  <2> HIDE DEF k
  <2>2. \/ Touches(fw, k)
        \/ Drops(fw, k, o)
        \/ Trades(fw, k, g, c, o)
    BY <1>1, <1>2, <1>3, <2>1, ChangedEffect DEF k
  <2> QED BY <2>2 DEF Touches, Drops, Trades
<1> HIDE DEF k
<1>7. Upholds(k, Collected(k))
  BY <1>5, <1>6, CollectedUpholds DEF Upholds
<1> QED BY <1>2, <1>5, <1>7, UpholdsTwice

\* What was written, deleted, restored or given a verdict leaves the lists in
\* order, and every rule that stays as it was stands for what it stood for.
LEMMA RedoesCarries ==
    ASSUME NEW f, Sound(f), Tidy(f), Orderly(f), NEW h, NEW g, Redoes(f, h, g)
    PROVE  /\ Orderly(h)
           /\ \A p \in InUse(f) : \A c :
                /\ Carries(f, p, c) /\ p \in h.m_FwRules
                /\ h.rule[p].c = f.rule[p].c /\ h.rule[p].state = f.rule[p].state
                => Carries(h, p, c)
<1>1. /\ Undoing(f) \subseteq InUse(f) /\ InHeld(f) \subseteq InUse(f)
  BY UndoingInUse
<1>2. InHeld(h) = InHeld(f) /\ Waiting(h) = Waiting(f) /\ Undoing(h) \subseteq Undoing(f)
  BY DEF Redoes, InHeld, Waiting, Undoing
<1>3. Suspect(h) \subseteq Suspect(f)
  BY <1>2 DEF Redoes, Suspect
<1>4. Orderly(h)
  <2>1. WaitsOnce(h)
    BY <1>2 DEF Orderly, WaitsOnce, Redoes
  <2>2. \A b, d \in Undoing(h) : h.rule[b].guid = h.rule[d].guid => b = d
    BY <1>1, <1>2 DEF Orderly, Redoes
  <2>3. \A p \in InHeld(h) : ~h.rule[p].backup
    BY <1>1, <1>2 DEF Orderly, Redoes
  <2>4. ~cfg.GuardFwRules => h.m_RulesToRevert = {}
    BY DEF Orderly, Redoes
  <2> QED BY <2>1, <2>2, <2>3, <2>4 DEF Orderly
<1>5. ASSUME NEW p \in InUse(f), NEW c, Carries(f, p, c), p \in h.m_FwRules,
             h.rule[p].c = f.rule[p].c, h.rule[p].state = f.rule[p].state
      PROVE  Carries(h, p, c)
  <2>1. h.rule[p].guid = f.rule[p].guid /\ (h.rule[p].backup <=> f.rule[p].backup)
    BY DEF Redoes
  <2>2. \A b \in Undoing(h) : h.rule[b].guid = f.rule[b].guid
    BY <1>1, <1>2 DEF Redoes
  <2> QED BY <1>2, <1>3, <1>5, <2>1, <2>2 DEF Carries
<1> QED BY <1>4, <1>5

LEMMA RedoesTraps ==
    ASSUME NEW f, Sound(f), Trapped(f), NEW h, NEW g, Redoes(f, h, g), Confined(f, h, g),
           \A o \in Live(h) : h.rule[o].guid = g => ~Rogue(h.rule[o].c),
           \A b \in Undoing(h) : f.rule[b].guid # g \/ ~Rogue(h.rule[b].c)
    PROVE  Trapped(h)
<1>1. /\ Undoing(f) \subseteq InUse(f) /\ InHeld(f) \subseteq InUse(f)
      /\ h.m_FwRules \subseteq InUse(h)
  BY UndoingInUse DEF Redoes, Sound
<1>2. InHeld(h) = InHeld(f) /\ Undoing(h) \subseteq Undoing(f)
  BY DEF Redoes, InHeld, Undoing, Waiting
<1>3. ASSUME NEW o \in Live(h), Rogue(h.rule[o].c)
      PROVE  \/ o \in Suspect(h)
             \/ \E b \in h.m_RulesToRevert : h.rule[b].guid = h.rule[o].guid
  <2>1. h.rule[o].guid # g /\ o \in InUse(h)
    BY <1>1, <1>3 DEF Live
  <2>2. o \in InUse(f)
    BY <2>1 DEF Confined
  <2>3. f.rule[o].guid = h.rule[o].guid /\ h.rule[o].c = f.rule[o].c
    BY <2>1, <2>2 DEF Redoes, Confined
  <2>4. o \in Live(f)
    BY <2>2 DEF Redoes, Live
  <2>5. \/ o \in Suspect(f)
        \/ \E b \in f.m_RulesToRevert : f.rule[b].guid = f.rule[o].guid
    BY <1>3, <2>3, <2>4 DEF Trapped
  <2>6. CASE o \in Suspect(f)
    BY <1>2, <2>1, <2>3, <2>6 DEF Suspect, Confined
  <2>7. CASE \E b \in f.m_RulesToRevert : f.rule[b].guid = f.rule[o].guid
    <3>1. PICK b \in f.m_RulesToRevert : f.rule[b].guid = f.rule[o].guid
      BY <2>7
    <3>2. b \in h.m_RulesToRevert /\ b \in InUse(f)
      BY <1>1, <2>1, <2>3, <3>1 DEF Confined, Undoing
    <3>3. h.rule[b].guid = f.rule[b].guid
      BY <3>2 DEF Redoes
    <3> QED BY <2>3, <3>1, <3>2, <3>3
  <2> QED BY <2>5, <2>6, <2>7
<1>4. ASSUME NEW b \in Undoing(h)
      PROVE  ~Rogue(h.rule[b].c)
  <2>1. b \in Undoing(f) /\ b \in InUse(f)
    BY <1>1, <1>2
  <2>2. CASE f.rule[b].guid # g
    <3>1. h.rule[b].c = f.rule[b].c /\ ~Rogue(f.rule[b].c)
      BY <2>1, <2>2 DEF Confined, Trapped
    <3> QED BY <3>1
  <2> QED BY <2>2
<1> QED BY <1>3, <1>4 DEF Trapped

\* RevertRule: the one form of the rule that is to be restored takes the place of
\* what the map had of it.
LEMMA RevertUpholds ==
    ASSUME Shape, Tidy(fw), Orderly(fw), NEW b, RevertRule(b), doubtful' = {}
    PROVE  Upholds(fw, fw')
<1> DEFINE g == fw.rule[b].guid
<1>1. Sound(fw) /\ Placed(fw)
  BY DEF Shape, Tidy
<1>2. b \in fw.m_RulesToRevert /\ b \in Undoing(fw) /\ b \in InUse(fw)
  BY <1>1, UndoingInUse DEF RevertRule, Undoing
<1>3. fw.rule[b].backup /\ ~fw.rule[b].err /\ fw.rule[b].state \in States
  BY <1>1, <1>2, InUseIsRule DEF Placed
<1>4. Restored(fw.rule[b], b, fw.rule[b].state) /\ HasRoom
  BY RevertTidy
<1>5. PICK h : h = fw'
  OBVIOUS
<1>6. PICK state : state = fw.rule[b].state
  OBVIOUS
<1>7. /\ BackInForce(fw, h, b)
      /\ \E n \in Ids \ InUse(fw) : BackAs(fw, h, b, state, n)
  BY <1>1, <1>2, <1>3, <1>4, <1>5, <1>6, RestoredIs
<1>8. PICK n \in Ids \ InUse(fw) :
        /\ InUse(h) = InUse(fw) \cup {n}
        /\ h.rule[n].guid = g /\ h.rule[n].c = fw.rule[b].c
        /\ h.rule[n].state = state /\ ~h.rule[n].backup
        /\ h.m_FwRules = {p \in fw.m_FwRules : fw.rule[p].guid # g} \cup {n}
  BY <1>7 DEF BackAs
<1>19. /\ Redoes(fw, h, g)
       /\ \A p \in InUse(fw) : h.rule[p] = fw.rule[p]
       /\ h.m_RulesToRemove = fw.m_RulesToRemove
       /\ h.m_RulesToRevert = fw.m_RulesToRevert \ {b}
  BY <1>7 DEF BackInForce
<1>9. /\ Orderly(h)
      /\ \A p \in InUse(fw) : \A c :
           /\ Carries(fw, p, c) /\ p \in h.m_FwRules
           /\ h.rule[p].c = fw.rule[p].c /\ h.rule[p].state = fw.rule[p].state
           => Carries(h, p, c)
  <2> HIDE DEF g
  <2> QED BY <1>1, <1>19, RedoesCarries
<1>10. InHeld(h) = InHeld(fw) /\ Waiting(h) = Waiting(fw)
  BY <1>19 DEF Redoes, InHeld, Waiting
<1>11. /\ Suspect(h) = Suspect(fw) /\ Suspect(fw) \subseteq InUse(fw)
       /\ Undoing(fw) \subseteq InUse(fw)
  BY <1>1, <1>19, <1>10, NoneInUse, UndoingInUse DEF Suspect
<1>12. Undoing(h) = Undoing(fw) \ {b}
  BY <1>2, <1>19, <1>10 DEF Undoing, Orderly, WaitsOnce
<1>13. \A d \in Undoing(fw) : fw.rule[d].guid = g => d = b
  BY <1>2 DEF Orderly
<1>14. \A d \in Undoing(h) : h.rule[d].guid # g
  BY <1>19, <1>11, <1>12, <1>13
<1> HIDE DEF g
<1>15. cfg.GuardFwRules
  BY <1>2 DEF Orderly
<1>16. ASSUME NEW W, Carried(fw, W)
       PROVE  Carried(h, W)
  <2> SUFFICES ASSUME NEW c \in W
               PROVE  \E o \in InUse(h) : Carries(h, o, c)
    BY DEF Carried
  <2>1. PICK p \in InUse(fw) : Carries(fw, p, c)
    BY <1>16 DEF Carried
  <2>2. p \in InUse(h) /\ h.rule[p] = fw.rule[p] /\ p \in fw.m_FwRules
    BY <1>19, <1>8, <2>1 DEF Carries
  <2>3. CASE fw.rule[p].guid # g
    <3>1. p \in h.m_FwRules
      BY <1>8, <2>2, <2>3
    <3> QED BY <1>9, <2>1, <2>2, <3>1
  <2>4. CASE fw.rule[p].guid = g
    <3>1. fw.rule[p].backup
      BY <1>2, <2>1, <2>4 DEF Carries, g
    <3>2. p \in Undoing(fw)
      BY <1>1, <1>15, <2>2, <3>1 DEF Placed, Backups
    <3>3. p = b
      BY <1>13, <2>4, <3>2
    <3>4. h.rule[n].c = c /\ h.rule[n].state # "disabled" /\ n \in h.m_FwRules /\ n \in InUse(h)
      BY <1>6, <1>8, <2>1, <3>3 DEF Carries
    <3>5. n \notin Suspect(h)
      BY <1>8, <1>11
    <3>6. Carries(h, n, c)
      BY <1>8, <1>14, <3>4, <3>5 DEF Carries
    <3> QED BY <3>4, <3>6
  <2> QED BY <2>3, <2>4
<1>17. ASSUME Trapped(fw)
       PROVE  Trapped(h)
  <2>1. Confined(fw, h, g)
    BY <1>19, <1>8 DEF Confined, g
  <2>2. ASSUME NEW o \in Live(h), h.rule[o].guid = g
        PROVE  ~Rogue(h.rule[o].c)
    <3>1. fw.m_FwRules \subseteq InUse(fw)
      BY <1>1 DEF Sound
    <3>2. o = n
      BY <1>19, <1>8, <2>2, <3>1 DEF Live
    <3> QED BY <1>2, <1>8, <1>17, <3>2 DEF Trapped
  <2>3. \A d \in Undoing(h) : fw.rule[d].guid # g
    BY <1>12, <1>13
  <2> QED BY <1>1, <1>19, <1>17, <2>1, <2>2, <2>3, RedoesTraps
<1>18. Upholds(fw, h)
  BY <1>9, <1>16, <1>17 DEF Upholds
<1> QED BY <1>5, <1>18

\* RejectRule: what was turned down carried nothing.
LEMMA RejectUpholds ==
    ASSUME Shape, Calm, Once, Tidy(fw), Orderly(fw), NEW o, RejectRule(o), doubtful' = {}
    PROVE  Upholds(fw, fw')
<1> DEFINE g == fw.rule[o].guid
<1>1. Sound(fw) /\ Placed(fw)
  BY DEF Shape, Tidy
<1>2. o \in fw.m_RulesToRemove /\ o \in Live(fw) /\ o \in Suspect(fw)
  BY <1>1 DEF RejectRule, Placed, Suspect
<1>3. \A p \in Live(fw) : fw.rule[p].guid = g => p = o
  BY <1>2 DEF Once, Calm
<1>4. PICK h : h = fw'
  OBVIOUS
<1>5. Rejected(h, o, g)
  BY <1>4, RejectIs
<1>6. /\ Redoes(fw, h, g) /\ InUse(h) = InUse(fw)
      /\ \A p \in InUse(fw) \ {o} : h.rule[p] = fw.rule[p]
      /\ fw.m_FwRules \ {o} \subseteq h.m_FwRules
      /\ o \in h.m_FwRules => ~Rogue(h.rule[o].c)
  BY <1>5 DEF Rejected
<1>7. Confined(fw, h, g)
  BY <1>5, <1>6 DEF Rejected, Confined
<1> HIDE DEF g
<1>8. /\ Orderly(h)
      /\ \A p \in InUse(fw) : \A d :
           /\ Carries(fw, p, d) /\ p \in h.m_FwRules
           /\ h.rule[p].c = fw.rule[p].c /\ h.rule[p].state = fw.rule[p].state
           => Carries(h, p, d)
  BY <1>1, <1>6, RedoesCarries
<1>9. ASSUME NEW W, Carried(fw, W)
      PROVE  Carried(h, W)
  <2> SUFFICES ASSUME NEW d \in W
               PROVE  \E p \in InUse(h) : Carries(h, p, d)
    BY DEF Carried
  <2>1. PICK p \in InUse(fw) : Carries(fw, p, d)
    BY <1>9 DEF Carried
  <2>2. p # o
    BY <1>2, <2>1 DEF Carries, Live
  <2>3. p \in h.m_FwRules /\ h.rule[p] = fw.rule[p] /\ p \in InUse(h)
    BY <1>6, <2>1, <2>2 DEF Carries
  <2> QED BY <1>8, <2>1, <2>3
<1>10. ASSUME Trapped(fw)
       PROVE  Trapped(h)
  <2>1. ASSUME NEW p \in Live(h), h.rule[p].guid = g
        PROVE  ~Rogue(h.rule[p].c)
    <3>1. p \in InUse(fw)
      BY <1>6 DEF Redoes, Sound, Live
    <3>2. p \in Live(fw) /\ fw.rule[p].guid = g
      BY <1>6, <2>1, <3>1 DEF Redoes, Live
    <3> QED BY <1>3, <1>6, <3>2 DEF Live
  <2>2. \A b \in Undoing(h) : fw.rule[b].guid # g \/ ~Rogue(h.rule[b].c)
    <3>1. Undoing(h) \subseteq Undoing(fw) /\ Undoing(fw) \subseteq InUse(fw)
      BY <1>1, <1>6, UndoingInUse DEF Redoes, Undoing, Waiting
    <3>2. \A b \in Undoing(fw) : b # o
      BY <1>1, <1>2 DEF Placed, Live
    <3> QED BY <1>6, <1>10, <3>1, <3>2 DEF Trapped
  <2> QED BY <1>1, <1>6, <1>7, <1>10, <2>1, <2>2, RedoesTraps
<1>11. Upholds(fw, h)
  BY <1>8, <1>9, <1>10 DEF Upholds
<1> QED BY <1>4, <1>11

\* The same objects in the same map; lists that are to undo the same.
LEMMA ListsUphold ==
    ASSUME NEW f, NEW k, k.rule = f.rule, k.m_FwRules = f.m_FwRules, Orderly(f),
           WaitsOnce(k), Undoing(k) \subseteq Undoing(f), InHeld(k) \subseteq InHeld(f),
           Suspect(k) \subseteq Suspect(f), ~cfg.GuardFwRules => k.m_RulesToRevert = {},
           cfg.GuardFwRules => Suspect(k) = Suspect(f),
           f.m_RulesToRevert \subseteq k.m_RulesToRevert
    PROVE  Upholds(f, k)
<1>1. Live(k) = Live(f) /\ InUse(k) = InUse(f)
  BY DEF Live, InUse
<1>2. Orderly(k)
  BY DEF Orderly
<1>3. \A o, c : Carries(f, o, c) => Carries(k, o, c)
  BY DEF Carries
<1>4. \A W : Carried(f, W) => Carried(k, W)
  BY <1>1, <1>3 DEF Carried
<1>5. cfg.GuardFwRules /\ Trapped(f) => Trapped(k)
  BY <1>1 DEF Trapped
<1> QED BY <1>2, <1>4, <1>5 DEF Upholds

\* AskAboutWithdrawnRules: what waited once is to be restored once.
LEMMA AskUpholds ==
    ASSUME Shape, Tidy(fw), Orderly(fw), AskAboutWithdrawnRules
    PROVE  Upholds(fw, fw')
<1>1. PICK k, n, a : Asks(k, n, a)
  BY AskIs
<1> DEFINE s == fw.m_WithdrawnRules
           w == k.m_WithdrawnRules
           N == {e.pBackup : e \in {x \in Listed(a) : x.bRevert}}
<1>2. /\ n \in Nat /\ Listed(s) = Listed(a) \cup Listed(w)
      /\ \A i \in DOMAIN a : i \in DOMAIN s /\ i \in Nat /\ i <= n /\ a[i] = s[i]
      /\ \A i \in DOMAIN w : n + i \in DOMAIN s /\ i >= 1 /\ i \in Nat /\ w[i] = s[n + i]
  BY <1>1 DEF Asks, Halves
<1>3. /\ k.rule = fw.rule /\ k.m_FwRules = fw.m_FwRules /\ k.m_HeldRules = fw.m_HeldRules
      /\ k.m_RulesToRemove = fw.m_RulesToRemove /\ k.m_RulesToRevert = fw.m_RulesToRevert \cup N
      /\ Sound(k) /\ fw' = Collected(k)
  BY <1>1 DEF Asks, Touches
<1>4. N \subseteq Waiting(fw)
  BY <1>2 DEF Waiting
<1>5. ~cfg.GuardFwRules => N = {}
  BY <1>2 DEF Marked, Tidy
<1>6. \A x \in N : \E j \in DOMAIN a : a[j].pBackup = x
  BY DEF Listed
<1>7. Waiting(k) = {e.pBackup : e \in Listed(w)}
  BY DEF Waiting
<1> HIDE DEF N, w
<1>8. InHeld(k) = InHeld(fw) /\ Suspect(k) = Suspect(fw)
  BY <1>3 DEF InHeld, Suspect
<1>9. Waiting(k) \subseteq Waiting(fw)
  BY <1>2, <1>7 DEF Waiting
<1>10. Undoing(k) \subseteq Undoing(fw)
  BY <1>3, <1>4, <1>9 DEF Undoing
<1>11. Waiting(k) \cap N = {}
  <2> SUFFICES ASSUME NEW i \in DOMAIN w, NEW j \in DOMAIN a, w[i].pBackup = a[j].pBackup
               PROVE  FALSE
    BY <1>6, <1>7 DEF Listed
  <2>1. n + i = j
    BY <1>2 DEF Orderly, WaitsOnce
  <2> QED BY <1>2, <2>1
<1>12. WaitsOnce(k)
  <2>1. ASSUME NEW i \in DOMAIN w, NEW j \in DOMAIN w, w[i].pBackup = w[j].pBackup
        PROVE  i = j
    <3>1. n + i = n + j
      BY <1>2, <2>1 DEF Orderly, WaitsOnce
    <3> QED BY <1>2, <3>1
  <2>2. Waiting(k) \cap k.m_RulesToRevert = {}
    BY <1>3, <1>9, <1>11 DEF Orderly, WaitsOnce
  <2> QED BY <2>1, <2>2 DEF WaitsOnce, w
<1>13. /\ fw.m_RulesToRevert \subseteq k.m_RulesToRevert
       /\ ~cfg.GuardFwRules => k.m_RulesToRevert = {}
  BY <1>3, <1>5 DEF Orderly
<1>14. Upholds(fw, k)
  BY <1>3, <1>8, <1>10, <1>12, <1>13, ListsUphold
<1>15. Upholds(k, Collected(k))
  BY <1>3, <1>14, CollectedUpholds DEF Upholds
<1> QED BY <1>3, <1>14, <1>15, UpholdsTwice

\* ReleaseHeldRules: under the blanket guard what was held back is turned down.
LEMMA ReleaseUpholds ==
    ASSUME Shape, Tidy(fw), Orderly(fw), ReleaseHeldRules
    PROVE  Upholds(fw, fw')
<1>1. PICK k, n, a : Releases(k, n, a)
  BY ReleaseIs
<1> DEFINE N == {e.pRule : e \in {x \in Listed(a) : x.bReject}}
<1>2. Listed(fw.m_HeldRules) = Listed(a) \cup Listed(k.m_HeldRules)
  BY <1>1 DEF Releases, Halves
<1>3. /\ k.rule = fw.rule /\ k.m_FwRules = fw.m_FwRules
      /\ k.m_RulesToRemove = fw.m_RulesToRemove \cup N
      /\ k.m_RulesToRevert = fw.m_RulesToRevert /\ k.m_WithdrawnRules = fw.m_WithdrawnRules
      /\ Sound(k) /\ fw' = Collected(k)
  BY <1>1 DEF Releases, Touches
<1>4. N \subseteq InHeld(fw)
  BY <1>2 DEF InHeld
<1>5. ASSUME cfg.GuardFwRules
      PROVE  InHeld(fw) \subseteq InHeld(k) \cup N
  <2>1. \A e \in Listed(a) : e.bReject
    BY <1>2, <1>5 DEF Marked, Tidy
  <2> QED BY <1>2, <2>1 DEF InHeld
<1> HIDE DEF N
<1>6. InHeld(k) \subseteq InHeld(fw) /\ Undoing(k) = Undoing(fw) /\ Waiting(k) = Waiting(fw)
  BY <1>2, <1>3 DEF InHeld, Undoing, Waiting
<1>7. Suspect(k) \subseteq Suspect(fw)
  BY <1>3, <1>4, <1>6 DEF Suspect
<1>8. cfg.GuardFwRules => Suspect(k) = Suspect(fw)
  BY <1>3, <1>5, <1>7 DEF Suspect
<1>9. WaitsOnce(k)
  BY <1>3, <1>6 DEF WaitsOnce, Orderly
<1>10. Upholds(fw, k)
  BY <1>3, <1>6, <1>7, <1>8, <1>9, ListsUphold DEF Orderly
<1>11. Upholds(k, Collected(k))
  BY <1>3, <1>10, CollectedUpholds DEF Upholds
<1> QED BY <1>3, <1>10, <1>11, UpholdsTwice

LEMMA ForgetUpholds ==
    ASSUME Shape, Orderly(fw), ForgetSettled
    PROVE  Upholds(fw, fw')
<1>1. PICK k : Forgets(k)
  BY ForgetIs
<1>2. Sound(k) /\ fw' = Collected(k)
  BY <1>1 DEF Forgets, Touches
<1>3. /\ InHeld(k) = InHeld(fw) /\ Undoing(k) = Undoing(fw) /\ Waiting(k) = Waiting(fw)
      /\ Suspect(k) = Suspect(fw)
  BY <1>1 DEF Forgets, InHeld, Undoing, Waiting, Suspect
<1>4. WaitsOnce(k)
  BY <1>1, <1>3 DEF Forgets, WaitsOnce, Orderly
<1>5. Upholds(fw, k)
  BY <1>1, <1>3, <1>4, ListsUphold DEF Forgets, Orderly
<1>6. Upholds(k, Collected(k))
  BY <1>2, <1>5, CollectedUpholds DEF Upholds
<1> QED BY <1>2, <1>5, <1>6, UpholdsTwice

LEMMA KeptCollected ==
    ASSUME NEW k, Sound(k), NEW W, Kept(k, W)
    PROVE  Kept(Collected(k), W)
<1>1. Upholds(k, Collected(k))
  BY CollectedUpholds DEF Kept
<1> QED BY <1>1 DEF Upholds, Kept

\* A rule nothing waits about is one the user agreed to.
LEMMA QuietAt ==
    ASSUME Sound(fw), Trapped(fw), NEW g, ~Collides(g), NEW o \in LiveAt(fw, g)
    PROVE  ~Rogue(fw.rule[o].c)
<1>1. \A p \in Suspect(fw) \cup Undoing(fw) : fw.rule[p].guid # g
  BY NoneWaits DEF Suspect
<1>2. fw.m_RulesToRevert \subseteq Undoing(fw)
  BY DEF Undoing
<1> QED BY <1>1, <1>2 DEF LiveAt, Trapped

\* A request for a rule nothing waits about: of what is wanted after it, the rule
\* it leaves in place stands for one, what stays as it was for the others.
LEMMA RequestKeeps ==
    ASSUME Sound(fw), Tidy(fw), NEW V, Kept(fw, V), NEW g, ~Collides(g),
           NEW k, Redoes(fw, k, g), Confined(fw, k, g), NEW W,
           \A c \in W :
               \/ \E o \in LiveAt(k, g) : k.rule[o].c = c /\ k.rule[o].state # "disabled"
               \/ \E p \in InUse(fw) : /\ Carries(fw, p, c) /\ p \in k.m_FwRules
                                       /\ k.rule[p].c = fw.rule[p].c
                                       /\ k.rule[p].state = fw.rule[p].state,
           cfg.GuardFwRules => \A o \in LiveAt(k, g) : ~Rogue(k.rule[o].c)
    PROVE  Kept(k, W)
<1>1. \A p \in Suspect(fw) \cup Undoing(fw) : fw.rule[p].guid # g /\ p \in InUse(fw)
  BY NoneWaits, NoneInUse, UndoingInUse DEF Suspect
<1>2. Suspect(k) \subseteq Suspect(fw) /\ Undoing(k) \subseteq Undoing(fw)
  BY DEF Redoes, Suspect, Undoing, InHeld, Waiting
<1>3. k.m_FwRules \subseteq InUse(k) /\ InUse(fw) \subseteq InUse(k)
  BY DEF Redoes, Sound
<1>4. /\ Orderly(k)
      /\ \A p \in InUse(fw) : \A c :
           /\ Carries(fw, p, c) /\ p \in k.m_FwRules
           /\ k.rule[p].c = fw.rule[p].c /\ k.rule[p].state = fw.rule[p].state
           => Carries(k, p, c)
  BY RedoesCarries DEF Kept
<1>5. \A p \in Suspect(k) \cup Undoing(k) : k.rule[p].guid # g
  BY <1>1, <1>2 DEF Redoes
<1>6. ASSUME NEW c \in W
      PROVE  \E o \in InUse(k) : Carries(k, o, c)
  <2>1. CASE \E o \in LiveAt(k, g) : k.rule[o].c = c /\ k.rule[o].state # "disabled"
    <3>1. PICK o \in LiveAt(k, g) : k.rule[o].c = c /\ k.rule[o].state # "disabled"
      BY <2>1
    <3>2. o \in k.m_FwRules /\ k.rule[o].guid = g
      BY DEF LiveAt, Live
    <3>3. o \notin Suspect(k) /\ \A b \in Undoing(k) : k.rule[b].guid # k.rule[o].guid
      BY <1>5, <3>2
    <3>4. Carries(k, o, c)
      BY <3>1, <3>2, <3>3 DEF Carries
    <3> QED BY <1>3, <3>2, <3>4
  <2>2. CASE \E p \in InUse(fw) : /\ Carries(fw, p, c) /\ p \in k.m_FwRules
                                  /\ k.rule[p].c = fw.rule[p].c
                                  /\ k.rule[p].state = fw.rule[p].state
    BY <1>3, <1>4, <2>2
  <2> QED BY <2>1, <2>2
<1>7. ASSUME cfg.GuardFwRules
      PROVE  Trapped(k)
  <2>1. \A o \in Live(k) : k.rule[o].guid = g => ~Rogue(k.rule[o].c)
    BY <1>7 DEF LiveAt
  <2>2. \A b \in Undoing(k) : fw.rule[b].guid # g
    BY <1>1, <1>2
  <2>3. Trapped(fw)
    BY <1>7 DEF Kept
  <2> QED BY <2>1, <2>2, <2>3, RedoesTraps
<1> QED BY <1>4, <1>6, <1>7 DEF Kept, Carried

LEMMA ApproveUpholds ==
    ASSUME Safe, Tidy(fw), Orderly(fw), Approve, ~overlapped'
    PROVE  Upholds(fw, fw') /\ wanted' = wanted
<1> DEFINE o == user.o
           r == [fw.rule[o] EXCEPT !.state = "approved"]
           h == [fw EXCEPT !.rule[o] = r]
<1>1. Sound(fw) /\ o \in InUse(fw) /\ fw.rule[o] \in Rule
  BY ApproveTidy, InUseIsRule DEF Safe, Shape
<1>2. fw' = h
  BY ApproveTidy
<1>3. /\ r \in Rule /\ r.guid = fw.rule[o].guid /\ (r.err <=> fw.rule[o].err)
      /\ (r.backup <=> fw.rule[o].backup) /\ r.c = fw.rule[o].c /\ r.state = "approved"
  BY <1>1 DEF Rule, States
<1> HIDE DEF r, o
<1>4. /\ SameObjects(fw, h) /\ h.m_FwRules = fw.m_FwRules /\ SameLists(fw, h)
      /\ h.rule = [fw.rule EXCEPT ![o] = r]
  BY <1>1, <1>3, EditSame
<1> HIDE DEF h
<1>5. h.rule[o] = r /\ \A p \in InUse(fw) \ {o} : h.rule[p] = fw.rule[p]
  <2>1. fw.rule \in [Ids -> Object] /\ o \in Ids
    BY <1>1, SoundParts DEF InUse
  <2> QED BY <1>4, <2>1 DEF InUse
<1>6. /\ InUse(h) = InUse(fw)
      /\ \A p \in InUse(fw) :
           /\ h.rule[p].guid = fw.rule[p].guid /\ h.rule[p].c = fw.rule[p].c
           /\ h.rule[p].backup <=> fw.rule[p].backup
           /\ h.rule[p].state \in {fw.rule[p].state, "approved"}
  BY <1>3, <1>4, <1>5 DEF SameObjects
<1>7. /\ InHeld(h) = InHeld(fw) /\ Waiting(h) = Waiting(fw) /\ Undoing(h) = Undoing(fw)
      /\ Suspect(h) = Suspect(fw) /\ h.m_RulesToRevert = fw.m_RulesToRevert
      /\ h.m_WithdrawnRules = fw.m_WithdrawnRules
  BY <1>4 DEF SameLists, InHeld, Waiting, Undoing, Suspect
<1>8. Undoing(fw) \subseteq InUse(fw) /\ InHeld(fw) \subseteq InUse(fw)
  BY <1>1, UndoingInUse
<1>9. Orderly(h)
  BY <1>6, <1>7, <1>8 DEF Orderly, WaitsOnce
<1>10. \A p \in InUse(fw) : \A c : Carries(fw, p, c) => Carries(h, p, c)
  BY <1>4, <1>6, <1>7, <1>8 DEF Carries
<1>11. \A W : Carried(fw, W) => Carried(h, W)
  BY <1>6, <1>10 DEF Carried
<1>12. Trapped(fw) => Trapped(h)
  <2>1. fw.m_FwRules \subseteq InUse(fw)
    BY <1>1 DEF Sound
  <2>2. Live(h) = Live(fw) /\ Live(fw) \subseteq InUse(fw)
    BY <1>4, <1>6, <2>1 DEF Live
  <2>3. fw.m_RulesToRevert \subseteq InUse(fw)
    BY <1>1 DEF Sound
  <2> QED BY <1>6, <1>7, <1>8, <2>2, <2>3 DEF Trapped
<1>13. Upholds(fw, h)
  BY <1>9, <1>11, <1>12 DEF Upholds
<1> QED BY <1>2, <1>13 DEF Approve

\* ClearBackups, for a rule that nothing waits about: what is wanted of the rule
\* now is what the rule has.
LEMMA DropKeeps ==
    ASSUME Shape, Tidy(fw), Kept(fw, wanted), DropBackups, ~overlapped'
    PROVE  Kept(fw', wanted')
<1> DEFINE o == user.o
           g == fw.rule[o].guid
           T == {b \in Backups(fw) : fw.rule[b].guid = g}
           k == [fw EXCEPT !.m_FwRules = fw.m_FwRules \ T]
<1>1. /\ Sound(fw) /\ o \in Live(fw) /\ ~Collides(g) /\ fw.rule[o].state = "approved"
      /\ fw' = Collected(k) /\ wanted' = (wanted \ FormsOf(g)) \cup {fw.rule[o].c}
  BY DropIs DEF Shape, ClearBackups
<1>2. \A p \in T \cap fw.m_FwRules : fw.rule[p].guid = g
  OBVIOUS
<1>3. Redoes(fw, k, g)
  <2> HIDE DEF T, g
  <2> QED BY <1>1, <1>2, RedoesMapLess
<1>4. k.rule = fw.rule /\ SameLists(fw, k) /\ k.m_FwRules = fw.m_FwRules \ T
  BY <1>1 DEF Sound, Rules, SameLists
<1> HIDE DEF k
<1>5. InUse(k) = InUse(fw)
  BY <1>4 DEF InUse
<1>6. Confined(fw, k, g)
  BY <1>4, <1>5 DEF Confined, SameLists
<1>7. LiveAt(k, g) = LiveAt(fw, g) /\ o \in LiveAt(k, g)
  BY <1>1, <1>4 DEF LiveAt, Live, Backups
<1>8. ASSUME NEW c \in wanted'
      PROVE  \/ \E p \in LiveAt(k, g) : k.rule[p].c = c /\ k.rule[p].state # "disabled"
             \/ \E p \in InUse(fw) : /\ Carries(fw, p, c) /\ p \in k.m_FwRules
                                     /\ k.rule[p].c = fw.rule[p].c
                                     /\ k.rule[p].state = fw.rule[p].state
  <2>1. CASE c = fw.rule[o].c
    BY <1>1, <1>4, <1>7, <2>1
  <2>2. CASE c # fw.rule[o].c
    <3>1. c \in wanted /\ c \notin FormsOf(g)
      BY <1>1, <2>2
    <3>2. PICK p \in InUse(fw) : Carries(fw, p, c)
      BY <3>1 DEF Kept, Carried
    <3>3. p \in fw.m_FwRules /\ fw.rule[p].guid # g
      BY <3>1, <3>2 DEF FormsOf, Carries
    <3> QED BY <1>4, <3>2, <3>3
  <2> QED BY <2>1, <2>2
<1>9. ASSUME cfg.GuardFwRules, NEW p \in LiveAt(k, g)
      PROVE  ~Rogue(k.rule[p].c)
  BY <1>1, <1>4, <1>7, <1>9, QuietAt DEF Kept
<1> HIDE DEF g
<1>10. PICK W : W = wanted'
  OBVIOUS
<1>11. Kept(k, W)
  BY <1>1, <1>3, <1>6, <1>8, <1>9, <1>10, RequestKeeps
<1>12. Kept(Collected(k), W)
  BY <1>3, <1>11, KeptCollected DEF Redoes
<1> QED BY <1>1, <1>10, <1>12

LEMMA DelKeeps ==
    ASSUME Shape, Tidy(fw), Kept(fw, wanted), NEW o, DelRule(o), ~overlapped'
    PROVE  Kept(fw', wanted')
<1> DEFINE g == fw.rule[o].guid
           S == {o}
           k == [fw EXCEPT !.m_FwRules = fw.m_FwRules \ S]
<1>1. /\ Sound(fw) /\ ~Collides(g) /\ fw' = Collected(k)
      /\ wanted' = wanted \ {fw.rule[o].c}
  BY DEF Shape, DelRule
<1>2. \A p \in S \cap fw.m_FwRules : fw.rule[p].guid = g
  OBVIOUS
<1>3. Redoes(fw, k, g)
  <2> HIDE DEF S, g
  <2> QED BY <1>1, <1>2, RedoesMapLess
<1>4. k.rule = fw.rule /\ SameLists(fw, k) /\ k.m_FwRules = fw.m_FwRules \ {o}
  BY <1>1 DEF Sound, Rules, SameLists
<1> HIDE DEF k
<1>5. InUse(k) = InUse(fw)
  BY <1>4 DEF InUse
<1>6. Confined(fw, k, g)
  BY <1>4, <1>5 DEF Confined, SameLists
<1>7. ASSUME NEW c \in wanted'
      PROVE  \E p \in InUse(fw) : /\ Carries(fw, p, c) /\ p \in k.m_FwRules
                                  /\ k.rule[p].c = fw.rule[p].c
                                  /\ k.rule[p].state = fw.rule[p].state
  <2>1. c \in wanted /\ c # fw.rule[o].c
    BY <1>1
  <2>2. PICK p \in InUse(fw) : Carries(fw, p, c)
    BY <2>1 DEF Kept, Carried
  <2>3. p \in k.m_FwRules
    BY <1>4, <2>1, <2>2 DEF Carries
  <2> QED BY <1>4, <2>2, <2>3
<1>8. ASSUME cfg.GuardFwRules, NEW p \in LiveAt(k, g)
      PROVE  ~Rogue(k.rule[p].c)
  <2>1. p \in LiveAt(fw, g)
    BY <1>4 DEF LiveAt, Live
  <2>2. Trapped(fw)
    BY <1>8 DEF Kept
  <2> QED BY <1>1, <1>4, <2>1, <2>2, QuietAt
<1> HIDE DEF g
<1>9. PICK W : W = wanted'
  OBVIOUS
<1>10. Kept(k, W)
  BY <1>1, <1>3, <1>6, <1>7, <1>8, <1>9, RequestKeeps
<1>11. Sound(k)
  BY <1>3 DEF Redoes
<1>12. Kept(Collected(k), W)
  BY <1>10, <1>11, KeptCollected
<1> QED BY <1>1, <1>9, <1>12

\* RestoreBackup: of the forms the map had of the rule the chosen one is left.
LEMMA RestoreBackupKeeps ==
    ASSUME Safe, mistaken = {}, Tidy(fw), Kept(fw, wanted), RestoreBackup, doubtful' = {}, ~overlapped'
    PROVE  Kept(fw', wanted')
<1> DEFINE b == user.o
           g == fw.rule[b].guid
<1>1. /\ Sound(fw) /\ b \in InUse(fw) /\ fw.rule[b].backup /\ fw.rule[b].c.k \in Agreed
      /\ RestoreRule(b, "approved") /\ ~Collides(g)
      /\ wanted' = (wanted \ FormsOf(g)) \cup {fw.rule[b].c}
  BY InHand DEF Safe, Shape, Verdicts, RestoreBackup
<1> HIDE DEF b
<1>2. Restored(fw.rule[b], b, "approved") /\ HasRoom /\ "approved" \in States
  BY <1>1, RestoreIsSure DEF States
<1>3. PICK h : h = fw'
  OBVIOUS
<1>4. /\ BackInForce(fw, h, b)
      /\ \E n \in Ids \ InUse(fw) : BackAs(fw, h, b, "approved", n)
  BY <1>1, <1>2, <1>3, RestoredIs
<1>5. PICK n \in Ids \ InUse(fw) :
        /\ InUse(h) = InUse(fw) \cup {n}
        /\ h.rule[n].guid = g /\ h.rule[n].c = fw.rule[b].c
        /\ h.rule[n].state = "approved" /\ ~h.rule[n].backup
        /\ h.m_FwRules = {p \in fw.m_FwRules : fw.rule[p].guid # g} \cup {n}
  BY <1>4 DEF BackAs
<1>12. /\ Redoes(fw, h, g)
       /\ \A p \in InUse(fw) : h.rule[p] = fw.rule[p]
       /\ h.m_RulesToRemove = fw.m_RulesToRemove
       /\ h.m_RulesToRevert = fw.m_RulesToRevert \ {b}
  BY <1>4 DEF BackInForce
<1>6. Confined(fw, h, g)
  BY <1>12, <1>5 DEF Confined
<1>7. n \in LiveAt(h, g)
  BY <1>5 DEF LiveAt, Live
<1>8. ASSUME NEW c \in wanted'
      PROVE  \/ \E p \in LiveAt(h, g) : h.rule[p].c = c /\ h.rule[p].state # "disabled"
             \/ \E p \in InUse(fw) : /\ Carries(fw, p, c) /\ p \in h.m_FwRules
                                     /\ h.rule[p].c = fw.rule[p].c
                                     /\ h.rule[p].state = fw.rule[p].state
  <2>1. CASE c = fw.rule[b].c
    BY <1>5, <1>7, <2>1
  <2>2. CASE c # fw.rule[b].c
    <3>1. c \in wanted /\ c \notin FormsOf(g)
      BY <1>1, <2>2
    <3>2. PICK p \in InUse(fw) : Carries(fw, p, c)
      BY <3>1 DEF Kept, Carried
    <3>3. p \in fw.m_FwRules /\ fw.rule[p].guid # g
      BY <3>1, <3>2 DEF FormsOf, Carries
    <3> QED BY <1>12, <1>5, <3>2, <3>3
  <2> QED BY <2>1, <2>2
<1>9. ASSUME cfg.GuardFwRules, NEW p \in LiveAt(h, g)
      PROVE  ~Rogue(h.rule[p].c)
  <2>1. fw.m_FwRules \subseteq InUse(fw)
    BY <1>1 DEF Sound
  <2>2. p = n
    BY <1>12, <1>5, <2>1 DEF LiveAt, Live
  <2> QED BY <1>1, <1>5, <2>2 DEF Rogue
<1> HIDE DEF g
<1>10. PICK W : W = wanted'
  OBVIOUS
<1>11. Kept(h, W)
  BY <1>1, <1>12, <1>6, <1>8, <1>9, <1>10, RequestKeeps
<1> QED BY <1>3, <1>10, <1>11

\* WriteRule: the written form takes the place of the one the map had; backups
\* of the rule stay.
LEMMA WriteKeeps ==
    ASSUME Safe, Calm, Once, Tidy(fw), Kept(fw, wanted), WriteRule, doubtful' = {}, ~overlapped'
    PROVE  Kept(fw', wanted')
<1> DEFINE g == user.g
           c == user.c
           S == LiveAt(fw, g)
           h == UpdateFWRule(fw, g, c)
           k == WithState(h, g, "approved")
<1>1. Shape /\ Sound(fw) /\ ~Collides(g) /\ "approved" \in States /\ HasRoom
  BY DEF Safe, Shape, WriteRule, States
<1>2. g \in Guids /\ c \in Content /\ c # Gone /\ c.k \in Agreed
  BY FirewallAssumption DEF Safe, Shape, Verdicts, WriteRule, Request, Idle, Contents, Content, Gone
<1>3. fw' = Collected(k) /\ wanted' = (wanted \ StandingAt(g)) \cup {c}
  BY DEF WriteRule, NotSet
<1> HIDE DEF g, c
<1>4. fw.m_FwRules \subseteq InUse(fw) /\ S \subseteq InUse(fw)
  BY <1>1 DEF Sound, LiveAt, Live
<1>5. /\ Redoes(fw, h, g) /\ SameLists(fw, h)
      /\ \A p \in InUse(fw) \ S : h.rule[p] = fw.rule[p]
      /\ fw.m_FwRules \ S \subseteq h.m_FwRules
      /\ \A p \in InUse(h) \ InUse(fw) : h.rule[p].guid = g
      /\ \E n \in LiveAt(h, g) : h.rule[n].c = c /\ LiveAt(h, g) = {n}
  BY <1>1, <1>2, WritesOne DEF Writes
<1> DEFINE q == GetRule(h, g)
           r == [h.rule[q] EXCEPT !.state = "approved"]
           m == [h EXCEPT !.rule[q] = r]
<1>6. k = m
  BY DEF WithState
<1>7. q \in LiveAt(h, g) /\ Sound(h)
  BY <1>5 DEF GetRule, Redoes
<1>8. q \in InUse(h) /\ h.rule[q] \in Rule
  BY <1>7, UndoingInUse, InUseIsRule DEF LiveAt
<1>9. LiveAt(h, g) = {q} /\ h.rule[q].c = c
  <2> HIDE DEF h, q
  <2> QED BY <1>5, <1>7
<1> HIDE DEF h, q
<1>10. /\ r \in Rule /\ r.guid = h.rule[q].guid /\ r.c = c /\ r.state = "approved"
       /\ (r.err <=> h.rule[q].err) /\ (r.backup <=> h.rule[q].backup)
  BY <1>8, <1>9 DEF Rule, States
<1> HIDE DEF r
<1>11. /\ Sound(m) /\ SameObjects(h, m) /\ m.m_FwRules = h.m_FwRules /\ SameLists(h, m)
       /\ m.rule = [h.rule EXCEPT ![q] = r]
  BY <1>7, <1>8, <1>10, EditSame
<1> HIDE DEF m, k
<1>12. Redoes(h, m, g)
  BY <1>7, <1>11, RedoesSame
<1>13. Redoes(fw, m, g)
  BY <1>1, <1>5, <1>12, RedoesTwice
<1>14. m.rule[q] = r /\ \A p \in InUse(h) \ {q} : m.rule[p] = h.rule[p]
  <2>1. h.rule \in [Ids -> Object] /\ q \in Ids
    BY <1>7, <1>8, SoundParts DEF InUse
  <2> QED BY <1>11, <2>1 DEF InUse
<1>15. InUse(m) = InUse(h) /\ InUse(fw) \subseteq InUse(h)
  BY <1>5, <1>11 DEF SameObjects, Redoes
<1>16. LiveAt(m, g) = {q} /\ m.rule[q].c = c /\ m.rule[q].state = "approved"
  <2>1. h.m_FwRules \subseteq InUse(h)
    BY <1>7 DEF Sound
  <2>2. LiveAt(m, g) = LiveAt(h, g)
    BY <1>11, <2>1 DEF LiveAt, Live, SameObjects
  <2> QED BY <1>9, <1>10, <1>14, <2>2
<1>17. ASSUME NEW p \in InUse(fw), p \notin S, p # q
       PROVE  m.rule[p] = fw.rule[p]
  BY <1>5, <1>14, <1>15, <1>17
<1>18. q \in InUse(fw) => q \in S
  <2> SUFFICES ASSUME q \in InUse(fw)
               PROVE  q \in S
    OBVIOUS
  <2>1. q \in fw.m_FwRules
    BY <1>5, <1>7 DEF Redoes, LiveAt, Live
  <2> QED BY <1>5, <1>7, <2>1 DEF Redoes, LiveAt, Live
<1>19. Confined(fw, m, g)
  <2>1. \A p \in InUse(fw) : fw.rule[p].guid # g => m.rule[p].c = fw.rule[p].c
    <3>1. \A p \in S : fw.rule[p].guid = g
      BY DEF LiveAt
    <3> HIDE DEF S
    <3> QED BY <1>17, <1>18, <3>1
  <2>2. \A p \in InUse(m) \ InUse(fw) : m.rule[p].guid = g
    <3>1. \A p \in InUse(h) : m.rule[p].guid = h.rule[p].guid
      BY <1>11 DEF SameObjects
    <3> QED BY <1>5, <1>15, <3>1
  <2>3. m.m_RulesToRemove = fw.m_RulesToRemove /\ m.m_RulesToRevert = fw.m_RulesToRevert
    BY <1>5, <1>11 DEF SameLists
  <2> QED BY <2>1, <2>2, <2>3 DEF Confined
<1>20. ASSUME NEW d \in wanted'
       PROVE  \/ \E p \in LiveAt(m, g) : m.rule[p].c = d /\ m.rule[p].state # "disabled"
              \/ \E p \in InUse(fw) : /\ Carries(fw, p, d) /\ p \in m.m_FwRules
                                      /\ m.rule[p].c = fw.rule[p].c
                                      /\ m.rule[p].state = fw.rule[p].state
  <2>1. CASE d = c
    BY <1>16, <2>1
  <2>2. CASE d # c
    <3>1. d \in wanted /\ d \notin StandingAt(g)
      BY <1>3, <2>2
    <3>2. PICK p \in InUse(fw) : Carries(fw, p, d)
      BY <3>1 DEF Kept, Carried
    <3>3. p \in fw.m_FwRules /\ p \notin S
      BY <3>1, <3>2 DEF StandingAt, Carries
    <3>4. p # q
      BY <1>18, <3>2, <3>3
    <3>5. m.rule[p] = fw.rule[p]
      BY <1>17, <3>2, <3>3, <3>4
    <3>6. p \in m.m_FwRules
      <4> HIDE DEF S
      <4> QED BY <1>5, <1>11, <3>3
    <3> QED BY <3>2, <3>5, <3>6
  <2> QED BY <2>1, <2>2
<1>21. \A p \in LiveAt(m, g) : ~Rogue(m.rule[p].c)
  BY <1>2, <1>16 DEF Rogue
<1>22. PICK W : W = wanted'
  OBVIOUS
<1>23. Kept(m, W)
  BY <1>1, <1>13, <1>19, <1>20, <1>21, <1>22, RequestKeeps
<1>24. Kept(Collected(m), W)
  BY <1>11, <1>23, KeptCollected
<1> QED BY <1>3, <1>6, <1>22, <1>24

\* A map read from the file has a rule for each stored one, and nothing waits.
LEMMA LoadedKeeps ==
    ASSUME NEW S, S \subseteq Saved, IsFiniteSet(S), Cardinality(S) <= MaxRules,
           NEW W, \A c \in W : \E r \in S : r.c = c /\ r.state # "disabled",
           cfg.GuardFwRules => \A r \in S : r.backup \/ ~Rogue(r.c)
    PROVE  Kept(Loaded(S), W)
<1>1. PICK f : f = Loaded(S)
  OBVIOUS
<1>2. /\ f.m_RulesToRemove = {} /\ f.m_RulesToRevert = {}
      /\ f.m_WithdrawnRules = <<>> /\ f.m_HeldRules = <<>>
  BY <1>1 DEF Loaded, NoRules
<1>3. /\ InHeld(f) = {} /\ Waiting(f) = {} /\ Undoing(f) = {} /\ Suspect(f) = {}
      /\ DOMAIN f.m_WithdrawnRules = {}
  BY <1>2 DEF InHeld, Undoing, Waiting, Suspect, Listed
<1>4. /\ \A o \in f.m_FwRules : \E r \in S : f.rule[o] = ObjectOf(r)
      /\ \A r \in S : \E o \in f.m_FwRules : f.rule[o] = ObjectOf(r)
      /\ f.m_FwRules \subseteq InUse(f)
  BY <1>1, LoadedIs DEF Sound
<1>5. \A r : ObjectOf(r).c = r.c /\ ObjectOf(r).state = r.state /\ ObjectOf(r).backup = r.backup
  BY DEF ObjectOf
<1>6. Orderly(f)
  BY <1>2, <1>3 DEF Orderly, WaitsOnce
<1>7. Carried(f, W)
  <2> SUFFICES ASSUME NEW c \in W
               PROVE  \E o \in InUse(f) : Carries(f, o, c)
    BY DEF Carried
  <2>1. PICK r \in S : r.c = c /\ r.state # "disabled"
    OBVIOUS
  <2>2. PICK o \in f.m_FwRules : f.rule[o] = ObjectOf(r)
    BY <1>4
  <2>3. f.rule[o].c = c /\ f.rule[o].state # "disabled"
    BY <1>5, <2>1, <2>2
  <2>4. Carries(f, o, c)
    BY <1>3, <2>3 DEF Carries
  <2> QED BY <1>4, <2>4
<1>8. ASSUME cfg.GuardFwRules
      PROVE  Trapped(f)
  <2>1. ASSUME NEW o \in Live(f)
        PROVE  ~Rogue(f.rule[o].c)
    <3>1. PICK r \in S : f.rule[o] = ObjectOf(r)
      BY <1>4 DEF Live
    <3>2. ~r.backup /\ f.rule[o].c = r.c
      BY <1>5, <3>1 DEF Live
    <3> QED BY <1>8, <3>2
  <2> QED BY <1>3, <2>1 DEF Trapped
<1> QED BY <1>1, <1>6, <1>7, <1>8 DEF Kept

\* Restart: with everything settled and stored, what is read is what was there.
LEMMA RestartKeeps ==
    ASSUME Shape, Kept(fw, wanted), Restart, ~overlapped'
    PROVE  Kept(fw', wanted)
<1>1. /\ file \subseteq Saved /\ IsFiniteSet(file) /\ Cardinality(file) <= MaxRules
      /\ fw' = Loaded(file) /\ file = Image(fw) /\ ~Busy /\ Sound(fw)
  BY DEF Shape, Restart
<1>2. file = {SavedOf(fw.rule[o]) : o \in fw.m_FwRules}
  BY <1>1, ImageIs
<1>3. \A r : SavedOf(r).c = r.c /\ SavedOf(r).state = r.state /\ SavedOf(r).backup = r.backup
  BY DEF SavedOf
<1>4. Undoing(fw) = {} /\ Suspect(fw) = {} /\ fw.m_RulesToRevert = {}
  BY <1>1 DEF Busy, Undoing, Waiting, Suspect, InHeld, Listed
<1>5. ASSUME NEW c \in wanted
      PROVE  \E r \in file : r.c = c /\ r.state # "disabled"
  <2>1. PICK p \in InUse(fw) : Carries(fw, p, c)
    BY <1>5 DEF Kept, Carried
  <2>2. /\ SavedOf(fw.rule[p]) \in file /\ SavedOf(fw.rule[p]).c = c
        /\ SavedOf(fw.rule[p]).state # "disabled"
    BY <1>2, <1>3, <2>1 DEF Carries
  <2> QED BY <2>2
<1>6. ASSUME cfg.GuardFwRules, NEW r \in file
      PROVE  r.backup \/ ~Rogue(r.c)
  <2>1. PICK p \in fw.m_FwRules : r = SavedOf(fw.rule[p])
    BY <1>2, <1>6
  <2>2. r.backup = fw.rule[p].backup /\ r.c = fw.rule[p].c
    BY <1>3, <2>1
  <2>3. fw.rule[p].backup \/ ~Rogue(fw.rule[p].c)
    BY <1>4, <1>6 DEF Kept, Trapped, Live
  <2> QED BY <2>2, <2>3
<1>7. PICK W : W = wanted
  OBVIOUS
<1>8. Kept(Loaded(file), W)
  BY <1>1, <1>5, <1>6, <1>7, LoadedKeeps
<1> QED BY <1>1, <1>7, <1>8

LEMMA InitKeeps ==
    ASSUME Init
    PROVE  Kept(fw, wanted)
<1>1. /\ file \in Starts /\ fw = Loaded(file)
      /\ wanted = {r.c : r \in {x \in file : x.state # "disabled"}}
  BY DEF Init
<1>2. /\ file \subseteq Saved /\ IsFiniteSet(file) /\ Cardinality(file) <= MaxRules
      /\ \A r \in file : r.c.k \in Agreed
  BY <1>1, FirewallAssumption
<1>3. \A r \in file : ~Rogue(r.c)
  BY <1>2 DEF Rogue
<1>4. \A c \in wanted : \E r \in file : r.c = c /\ r.state # "disabled"
  BY <1>1
<1> QED BY <1>1, <1>2, <1>3, <1>4, LoadedKeeps

LEMMA UpholdsKeeps ==
    ASSUME NEW f, NEW h, NEW W, Kept(f, W), Upholds(f, h)
    PROVE  Kept(h, W)

BY DEF Kept, Upholds

\* As long as no call failed and no changes overlapped, what the user wants is
\* carried, and under the blanket guard the rest trapped.
LEMMA WantedNext ==
    ASSUME Safe, MirrorInv, Calm, mistaken = {}, Tidy(fw), Kept(fw, wanted), NothingAnswers,
           [Next]_vars, doubtful' = {}, ~overlapped'
    PROVE  Kept(fw', wanted')
<1>1. Shape /\ Once /\ WalkIsWhole /\ Sound(fw) /\ Orderly(fw)
  BY DEF Safe, Shape, MirrorInv, Kept
<1>2. ASSUME Upholds(fw, fw'), wanted' = wanted
      PROVE  Kept(fw', wanted')
  <2>1. PICK W, h : W = wanted /\ h = fw'
    OBVIOUS
  <2>2. Kept(h, W)
    BY <1>2, <2>1, UpholdsKeeps
  <2> QED BY <1>2, <2>1, <2>2
<1>3. ASSUME NEW g \in Guids, NEW c \in Contents, NEW o, Aims(g, c, o)
      PROVE  Upholds(fw, fw')
  BY <1>1, <1>3, ChangeUpholds DEF Aims
<1>4. CASE OnFwGuardEvent
  <2>1. wanted' = wanted
    BY <1>4 DEF OnFwGuardEvent
  <2>2. Upholds(fw, fw')
    BY <1>1, <1>3, <1>4, EventAims
  <2> QED BY <1>2, <2>1, <2>2
<1>5. CASE \E g \in Guids : UpdateListed(g)
  <2>1. wanted' = wanted
    BY <1>5 DEF UpdateListed
  <2>2. Upholds(fw, fw')
    BY <1>1, <1>3, <1>5, ListedAims
  <2> QED BY <1>2, <2>1, <2>2
<1>6. CASE \E o \in Ids : UpdateMissing(o)
  <2>1. wanted' = wanted
    BY <1>6 DEF UpdateMissing
  <2>2. Upholds(fw, fw')
    BY <1>1, <1>3, <1>6, MissingAims
  <2> QED BY <1>2, <2>1, <2>2
<1>7. CASE FinishUpdateRules \/ FinishRevert
  <2>1. UNCHANGED history /\ fw' = Collected(fw)
    BY <1>7 DEF FinishUpdateRules, FinishRevert
  <2>2. Upholds(fw, fw')
    BY <1>1, <2>1, CollectedUpholds
  <2> QED BY <1>2, <2>1, <2>2 DEF history
<1>8. CASE AskAboutWithdrawnRules \/ ReleaseHeldRules \/ ForgetSettled
  <2>1. UNCHANGED history
    BY <1>8 DEF AskAboutWithdrawnRules, ReleaseHeldRules, ForgetSettled
  <2>2. Upholds(fw, fw')
    BY <1>1, <1>8, AskUpholds, ReleaseUpholds, ForgetUpholds
  <2> QED BY <1>2, <2>1, <2>2 DEF history
<1>9. CASE \E o \in Ids : RejectRule(o) \/ RevertRule(o)
  <2>1. wanted' = wanted
    BY <1>9 DEF RejectRule, RevertRule
  <2>2. Upholds(fw, fw')
    BY <1>1, <1>9, RejectUpholds, RevertUpholds
  <2> QED BY <1>2, <2>1, <2>2
<1>10. CASE WriteRule \/ RestoreBackup
  BY <1>1, <1>10, WriteKeeps, RestoreBackupKeeps
<1>11. CASE DropBackups \/ \E o \in Ids : DelRule(o)
  BY <1>1, <1>11, DropKeeps, DelKeeps
<1>15. CASE Approve
  BY <1>1, <1>2, <1>15, ApproveUpholds
<1>12. CASE Restart
  <2>1. wanted' = wanted
    BY <1>12 DEF Restart
  <2>2. Kept(fw', wanted)
    BY <1>1, <1>12, RestartKeeps
  <2> QED BY <2>1, <2>2
<1>13. CASE \/ LockForUpdate \/ LockForRevert \/ Store
            \/ \E g \in Guids \ Random, c \in Content \cup {Gone} : ForeignChange(g, c)
            \/ \E g \in Guids, c \in Content : SetRule(g, c)
            \/ \E o \in Ids : SetBackup(o)
            \/ UNCHANGED vars
  <2>1. UNCHANGED history /\ fw' = fw
    BY <1>13 DEF LockForUpdate, LockForRevert, Store, ForeignChange, SetRule, SetBackup, vars
  <2> QED BY <2>1 DEF history
<1>14. CASE TakeEvent \/ StartUpdateRules \/ Compare
  <2>1. wanted' = wanted /\ fw' = fw
    BY <1>14 DEF TakeEvent, StartUpdateRules, Compare
  <2> QED BY <2>1
<1> QED BY <1>4, <1>5, <1>6, <1>7, <1>8, <1>9, <1>10, <1>11, <1>12, <1>13, <1>14, <1>15
        DEF Next, AgentNext

\* A request is on record when it took another rule for the one it looked up.
LEMMA MistakenNext ==
    ASSUME Shape, Unmistaken, [Next]_vars, ~overlapped'
    PROVE  mistaken' = {}
<1>1. mistaken = {}
  BY DoubtStays DEF Unmistaken
<1>2. CASE Compare
  BY <1>1, <1>2 DEF Compare
<1>3. CASE ~Compare
  BY <1>1, <1>3
     DEF Next, AgentNext, vars, history, TakeEvent, OnFwGuardEvent, StartUpdateRules,
         LockForUpdate, FinishUpdateRules, UpdateListed, UpdateMissing,
         AskAboutWithdrawnRules, ReleaseHeldRules, ForgetSettled, LockForRevert,
         FinishRevert, RejectRule, RevertRule, Approve, DropBackups, WriteRule,
         RestoreBackup, Store, Restart, ForeignChange, SetRule, SetBackup, DelRule
<1> QED BY <1>2, <1>3

LEMMA KeptPrime ==
    ASSUME Kept(fw', wanted'), cfg' = cfg
    PROVE  Kept(fw, wanted)'
<1>1. /\ InHeld(fw)' = InHeld(fw') /\ Undoing(fw)' = Undoing(fw') /\ Waiting(fw)' = Waiting(fw')
      /\ Suspect(fw)' = Suspect(fw') /\ Live(fw)' = Live(fw') /\ InUse(fw)' = InUse(fw')
  BY DEF InHeld, Undoing, Waiting, Suspect, Live, InUse
<1>2. WaitsOnce(fw)'
  BY <1>1 DEF Kept, Orderly, WaitsOnce
<1>3. Orderly(fw)'
  BY <1>1, <1>2 DEF Kept, Orderly
<1>4. Carried(fw, wanted)'
  BY <1>1 DEF Kept, Carried, Carries
<1>5. (cfg.GuardFwRules => Trapped(fw))'
  BY <1>1 DEF Kept, Trapped, Rogue
<1> QED BY <1>3, <1>4, <1>5 DEF Kept

\* The inductive invariant of what the user wants.
THEOREM WantedInductive == Spec => [](Safe /\ MirrorInv /\ OwnInv /\ Unmistaken /\ WantedInv)
<1>1. Init => Unmistaken /\ WantedInv
  BY InitKeeps DEF Unmistaken, WantedInv, Init
<1>4. Safe /\ Unmistaken /\ [Next]_vars => Unmistaken'
  BY MistakenNext DEF Safe, Unmistaken
<1>2. Safe /\ MirrorInv /\ OwnInv /\ Unmistaken /\ WantedInv /\ [Next]_vars => WantedInv'
  <2> SUFFICES ASSUME Safe, MirrorInv, OwnInv, Unmistaken, WantedInv, [Next]_vars, NothingAnswers', Calm'
               PROVE  Kept(fw, wanted)'
    BY DEF WantedInv
  <2>1. doubtful' = {} /\ ~overlapped' /\ cfg' = cfg
    BY CfgStays DEF Calm
  <2>2. doubtful \subseteq doubtful' /\ (overlapped => overlapped')
    BY DoubtStays DEF Safe
  <2>3. Calm /\ NothingAnswers
    BY <2>1, <2>2 DEF Calm, NothingAnswers
  <2>4. Tidy(fw) /\ Kept(fw, wanted) /\ mistaken = {}
    BY <2>3 DEF OwnInv, WantedInv, Unmistaken, Calm
  <2>5. Kept(fw', wanted')
    BY <2>1, <2>3, <2>4, WantedNext
  <2> QED BY <2>1, <2>5, KeptPrime
<1>3. Spec => [](Safe /\ MirrorInv /\ OwnInv)
  BY OwnInductive
<1> QED BY <1>1, <1>2, <1>3, <1>4, PTL DEF Spec

\* SetAsBackup, TakeWithdrawnTwin, FindLiveTwin: whatever other programs change,
\* and in whatever order it is handled, stored and undone, a rule the user wants
\* is in Windows or there is a backup to restore it from; but for changes that meet
\* each other, or a request in its steps without the lock (Undisturbed).
THEOREM AgreedStaysKept == Spec => []AgreedKept
<1>1. Safe /\ MirrorInv /\ WantedInv /\ MirrorsWindows => AgreedKept
  <2> SUFFICES ASSUME Safe, MirrorInv, WantedInv, MirrorsWindows, NothingAnswers, Handled,
                      Undisturbed, NEW c \in wanted
               PROVE  \/ \E g \in Guids : win[g] = c
                      \/ \E b \in Backups(fw) : fw.rule[b].c = c
    BY DEF AgreedKept
  <2>1. doubtful = {} /\ Kept(fw, wanted)
    BY DEF Undisturbed, WantedInv, Calm
  <2>2. PICK o \in InUse(fw) : Carries(fw, o, c)
    BY <2>1 DEF Kept, Carried
  <2>3. CASE fw.rule[o].backup
    <3>1. o \in Backups(fw) /\ fw.rule[o].c = c
      BY <2>2, <2>3 DEF Carries, Backups
    <3> QED BY <3>1
  <2>4. CASE ~fw.rule[o].backup
    <3>1. PICK g \in Guids : g = fw.rule[o].guid
      BY InUseIsRule DEF Safe, Shape
    <3>2. o \in LiveAt(fw, g) /\ fw.rule[o].c = c
      BY <2>2, <2>4, <3>1 DEF Carries, LiveAt, Live
    <3>3. {fw.rule[p].c : p \in LiveAt(fw, g)} = {win[g]} \ {Gone}
      BY <2>1 DEF MirrorsWindows
    <3> QED BY <3>2, <3>3
  <2> QED BY <2>3, <2>4
<1> QED BY <1>1, WantedInductive, MapMirrors, PTL

\* AskAboutWithdrawnRules, ReleaseHeldRules, RevertChanges: under the blanket
\* guard, at rest, what is in force is what the user agreed to, and all of it; but
\* for changes that meet each other, or a request in its steps without the lock
\* (Undisturbed).
THEOREM GuardAlwaysHolds == Spec => []GuardHolds
<1>1. Safe /\ MirrorInv /\ OwnInv /\ WantedInv /\ MirrorsWindows => GuardHolds
  <2> SUFFICES ASSUME Safe, MirrorInv, OwnInv, WantedInv, MirrorsWindows, cfg.GuardFwRules,
                      NothingAnswers, AtRest, Undisturbed
               PROVE  /\ \A g \in Guids : win[g] # Gone /\ win[g].on => win[g].k \in Agreed
                      /\ \A c \in wanted : \E g \in Guids : win[g] = c
    BY DEF GuardHolds
  <2>1. doubtful = {} /\ Kept(fw, wanted) /\ Trapped(fw) /\ Placed(fw) /\ Handled /\ ~Busy
    BY DEF Undisturbed, WantedInv, OwnInv, Calm, AtRest, Kept, Tidy
  <2>2. Suspect(fw) = {} /\ Undoing(fw) = {} /\ fw.m_RulesToRevert = {}
    BY <2>1 DEF Busy, Suspect, InHeld, Undoing, Waiting, Listed
  <2>3. \A g \in Guids : {fw.rule[p].c : p \in LiveAt(fw, g)} = {win[g]} \ {Gone}
    BY <2>1 DEF MirrorsWindows
  <2>4. ASSUME NEW g \in Guids, win[g] # Gone, win[g].on
        PROVE  win[g].k \in Agreed
    <3>1. PICK p \in LiveAt(fw, g) : fw.rule[p].c = win[g]
      BY <2>3, <2>4
    <3>2. ~Rogue(win[g])
      BY <2>1, <2>2, <3>1 DEF Trapped, LiveAt
    <3> QED BY <2>4, <3>2 DEF Rogue
  <2>5. ASSUME NEW c \in wanted
        PROVE  \E g \in Guids : win[g] = c
    <3>1. PICK o \in InUse(fw) : Carries(fw, o, c)
      BY <2>1 DEF Kept, Carried
    <3>2. ~fw.rule[o].backup
      BY <2>1, <2>2, <3>1 DEF Placed, Backups, Carries
    <3>3. PICK g \in Guids : g = fw.rule[o].guid
      BY InUseIsRule DEF Safe, Shape
    <3>4. o \in LiveAt(fw, g) /\ fw.rule[o].c = c
      BY <3>1, <3>2, <3>3 DEF Carries, LiveAt, Live
    <3> QED BY <2>3, <3>4
  <2> QED BY <2>4, <2>5
<1> QED BY <1>1, WantedInductive, MapMirrors, PTL

=============================================================================
