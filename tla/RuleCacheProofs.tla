--------------------------- MODULE RuleCacheProofs ---------------------------
(***************************************************************************)
(* Theorems about RuleCache and the store of script state, for any number  *)
(* of items, paths, threads, changes and faults.                           *)
(*                                                                         *)
(* Here gives the paths their kind.  Truthful says what a reading that is  *)
(* as new as the driver's item tells about it, Tracked that a change the   *)
(* map has not seen is still on its way to it: in a notification, in a     *)
(* handler's call or in a reading that waits for the mutex.  Linked and    *)
(* Leftover are the two lists the handlers keep beside the map.            *)
(***************************************************************************)
EXTENDS RuleCache, TLAPS

\* Items as the manager at hand has them.
HereItem == [path : PathsHere \cup {None}, temp : BOOLEAN, rev : Nat]

Here ==
    /\ driver \in [Guids -> HereItem] /\ m_Rules \in [Guids -> HereItem]
    /\ \A t \in Threads : thr[t].pc = "apply" => thr[t].got \in [thr[t].msg.about -> HereItem]

\* A notification of everything is about everything; one of a removal tells
\* the truth unless the item was changed again.
Honest(m) ==
    /\ m.ev = "all" => m.about = Guids
    /\ m.ev = "removed" => \A g \in m.about :
         /\ m.rev <= driver[g].rev
         /\ m.rev = driver[g].rev => driver[g] = Gone(m.rev)

\* A reading r of g is not newer than the driver's item; one as new is equal
\* to it, or stands for a reading that failed.
Fits(r, g) ==
    /\ r.rev <= driver[g].rev
    /\ r.rev = driver[g].rev => \/ r = driver[g]
                                \/ r = Gone(driver[g].rev) /\ missed[g] = driver[g].rev

Truthful ==
    /\ \A i \in 1 .. Len(port) : Honest(port[i])
    /\ \A t \in Threads : thr[t].pc \in {"call", "apply"} => Honest(thr[t].msg)
    /\ \A t \in Threads : thr[t].pc = "apply" => \A g \in DOMAIN thr[t].got : Fits(thr[t].got[g], g)
    /\ \A g \in Guids :
         /\ Fits(m_Rules[g], g)
         /\ driver[g].rev <= changes
         /\ driver[g].rev = 0 => driver[g] = Gone(0)
         /\ newest[g] <= driver[g].rev /\ missed[g] <= driver[g].rev
         /\ g \notin overtaken => m_Rules[g].rev = newest[g]

\* A notification whose handling will read g as it is now.
Covers(m, g) == g \in m.about /\ (m.ev = "removed" => m.rev = driver[g].rev)

\* A reading of g as it is now, to be applied.
Brings(r, g) == r.pc = "apply" /\ g \in DOMAIN r.got /\ r.got[g].rev = driver[g].rev

OnItsWay(g) ==
    \/ \E i \in 1 .. Len(port) : Covers(port[i], g)
    \/ \E h \in Handlers : thr[h].pc = "call" /\ Covers(thr[h].msg, g)
    \/ \E t \in Threads : Brings(thr[t], g)

\* A full reading that missed the last change of g.
Stale(g) == \E t \in Threads :
    thr[t].pc = "apply" /\ thr[t].msg.ev = "all" /\ thr[t].got[g].rev # driver[g].rev

Tracked ==
    \A g \in Guids : Behind(g) /\ (~m_UpdateAllRules \/ Stale(g)) => OnItsWay(g)

Linked ==
    HasPaths =>
        /\ \A p \in Paths : \A g \in rulesOf[p] :
             p \in m_Items /\ p # None /\ m_Rules[g].path = p
        /\ \A g \in Guids : Cached(g) /\ g \notin orphans => g \in rulesOf[m_Rules[g].path]

Leftover ==
    /\ \A g \in Scripts : HoldsStateOf(g) => Cached(g) \/ g \in late \cup unclean
    /\ kind = "Hash" => running = {} /\ \A g \in Scripts : ~HoldsStateOf(g)

Purging == \A g \in purge : m_Rules[g].temp

-----------------------------------------------------------------------------
(* What a step does to the driver, the port, the threads and the map.      *)

\* The items S were changed in the driver, and the change was notified.
DriverChange(S) ==
    /\ S \subseteq Guids
    /\ driver' \in [Guids -> HereItem]
    /\ \A g \in Guids : IF g \in S THEN driver'[g].rev = changes + 1 ELSE driver'[g] = driver[g]
    /\ changes' = changes + 1
    /\ \E m \in Message :
         /\ port' = Append(port, m) /\ m.about = S
         /\ m.ev = "all" => S = Guids
         /\ m.ev = "removed" => m.rev = changes + 1 /\ \A g \in S : driver'[g] = Gone(changes + 1)
    /\ UNCHANGED <<kind, cacheVars, thr>>

\* Every step is of one of these sorts.
StepCase ==
    \/ \E S : DriverChange(S)
    \/ \E h \in Handlers : TakeNotification(h)
    \/ StartLoad
    \/ \E t \in Threads : ThreadStep(t)
    \/ StartAgent /\ UNCHANGED <<kind, driver, changes>>
    \/ UNCHANGED <<kind, driverVars, cacheVars, thr>>

\* Adding and changing an item is a change of that item.
LEMMA SetChanges ==
    ASSUME TypeOK, Here, NEW g \in Guids, NEW p \in PathsHere, NEW b \in BOOLEAN,
           Set(g, p, b), UNCHANGED <<kind, cacheVars, thr>>
    PROVE  DriverChange({g})
<1> DEFINE r == [path |-> p, temp |-> b, rev |-> changes + 1]
<1> DEFINE m == [ev |-> "changed", about |-> {g}, rev |-> changes + 1]
<1>1. changes \in Nat /\ driver \in [Guids -> HereItem]
  BY DEF TypeOK, Here
<1>2. r \in HereItem /\ r.rev = changes + 1
  BY <1>1 DEF HereItem
<1>3. m \in Message /\ m.about = {g} /\ m.ev = "changed"
  BY <1>1 DEF Message
<1>4. driver' = [driver EXCEPT ![g] = r] /\ port' = Append(port, m) /\ changes' = changes + 1
  BY DEF Set
<1> HIDE DEF r, m
<1>5. driver' \in [Guids -> HereItem] /\ driver'[g] = r /\ \A h \in Guids : h # g => driver'[h] = driver[h]
  BY <1>1, <1>2, <1>4
<1> QED BY <1>2, <1>3, <1>4, <1>5 DEF DriverChange

\* So is a removal.
LEMMA DeleteChanges ==
    ASSUME TypeOK, Here, NEW g \in Guids, Delete(g), UNCHANGED <<kind, cacheVars, thr>>
    PROVE  DriverChange({g})
<1> DEFINE r == Gone(changes + 1)
<1> DEFINE m == [ev |-> "removed", about |-> {g}, rev |-> changes + 1]
<1>1. changes \in Nat /\ driver \in [Guids -> HereItem]
  BY DEF TypeOK, Here
<1>2. r \in HereItem /\ r.rev = changes + 1
  BY <1>1 DEF HereItem, Gone
<1>3. m \in Message /\ m.about = {g} /\ m.ev = "removed" /\ m.rev = changes + 1
  BY <1>1 DEF Message
<1>4. driver' = [driver EXCEPT ![g] = r] /\ port' = Append(port, m) /\ changes' = changes + 1
  BY DEF Delete
<1> HIDE DEF m
<1>5. driver' \in [Guids -> HereItem] /\ driver'[g] = r /\ \A h \in Guids : h # g => driver'[h] = driver[h]
  BY <1>1, <1>2, <1>4
<1> QED BY <1>2, <1>3, <1>4, <1>5 DEF DriverChange

\* Replacing the driver's configuration changes every item.
LEMMA ReplaceChanges ==
    ASSUME TypeOK, Here, ReplaceRules
    PROVE  DriverChange(Guids)
<1> DEFINE m == [ev |-> "all", about |-> Guids, rev |-> changes + 1]
<1>1. changes \in Nat
  BY DEF TypeOK
<1>2. PICK p \in [Guids -> PathsHere \cup {None}] :
        driver' = [g \in Guids |-> [path |-> p[g], temp |-> FALSE, rev |-> changes + 1]]
  BY DEF ReplaceRules
<1>3. driver' \in [Guids -> HereItem] /\ \A g \in Guids : driver'[g].rev = changes + 1
  BY <1>1, <1>2 DEF HereItem
<1>4. m \in Message /\ m.about = Guids /\ m.ev = "all"
  BY <1>1 DEF Message
<1>5. port' = Append(port, m) /\ changes' = changes + 1 /\ UNCHANGED <<kind, cacheVars, thr>>
  BY DEF ReplaceRules
<1> HIDE DEF m
<1> QED BY <1>3, <1>4, <1>5 DEF DriverChange

LEMMA StepCases ==
    ASSUME TypeOK, Here, [Next]_vars
    PROVE  StepCase
<1>1. ASSUME NEW g \in Guids, AddRule(g) PROVE StepCase
  <2>1. PICK p \in PathsHere, b \in {FALSE, kind = "Access"} : Set(g, p, b)
    BY <1>1 DEF AddRule
  <2>2. b \in BOOLEAN /\ UNCHANGED <<kind, cacheVars, thr>>
    BY <1>1 DEF AddRule
  <2> QED BY <2>1, <2>2, SetChanges DEF StepCase
<1>2. ASSUME NEW g \in Guids, RemoveRule(g) PROVE StepCase
  BY <1>2, DeleteChanges DEF RemoveRule, StepCase
<1>3. ASSUME ReplaceRules PROVE StepCase
  BY <1>3, ReplaceChanges DEF StepCase
<1>4. ASSUME NEW g \in Guids, PurgeOne(g) PROVE StepCase
  BY <1>4, DeleteChanges DEF PurgeOne, StepCase
<1>5. ASSUME NEW g \in Guids, RemoveAllRules(g) PROVE StepCase
  BY <1>5, DeleteChanges DEF RemoveAllRules, StepCase
<1>6. ASSUME RestartAgent PROVE StepCase
  BY <1>6 DEF RestartAgent, StepCase
<1>7. ASSUME NEW t \in Threads, ReloadFaults(t) PROVE StepCase
  BY <1>6, <1>7 DEF ReloadFaults
<1>8. ASSUME NEW h \in Handlers, HandlerNext(h) PROVE StepCase
  BY <1>8 DEF HandlerNext, StepCase, Threads
<1>9. ASSUME TimerNext PROVE StepCase
  BY <1>4, <1>9 DEF TimerNext, StepCase, Threads
<1>10. ASSUME \/ StartPurge
              \/ \E p \in Paths, bDelRules \in BOOLEAN : RemoveProgramFrom(p, bDelRules)
              \/ RemoveProgramImpl
              \/ \E g \in Scripts : StartScript(g) \/ EndScript(g) \/ UseState(g)
              \/ UNCHANGED vars
       PROVE  StepCase
  BY <1>10 DEF StartPurge, RemoveProgramFrom, RemoveProgramImpl, StartScript, EndScript, UseState,
               vars, StepCase
<1> QED BY <1>1, <1>2, <1>3, <1>5, <1>6, <1>7, <1>8, <1>9, <1>10 DEF Next, Environment

\* The manager that is modelled stays the one it is.
LEMMA KindStays == StepCase => kind' = kind
BY DEF StepCase, DriverChange, TakeNotification, StartLoad, ThreadStep, ReadDriver, ReadRemoved,
       GetFails, LoadFails, Apply

-----------------------------------------------------------------------------
(* Types *)

\* What a thread's state looks like when it is about to call or to apply.
LEMMA ThreadShape ==
    ASSUME TypeOK, Here, NEW t \in Threads
    PROVE  /\ thr[t] = Idle \/ thr[t].pc \in {"call", "apply"}
           /\ Idle.pc = "idle"
           /\ thr[t].pc \in {"call", "apply"} => thr[t].msg \in Message
           /\ thr[t].pc = "apply" => /\ thr[t].got \in [thr[t].msg.about -> HereItem]
                                     /\ DOMAIN thr[t].got = thr[t].msg.about
                                     /\ thr[t].msg.about \subseteq Guids
<1>1. ThreadTypeOK(thr[t])
  BY DEF TypeOK
<1>2. thr[t] = Idle \/ thr[t].pc \in {"call", "apply"}
  BY <1>1 DEF ThreadTypeOK
<1>3. thr[t].pc \in {"call", "apply"} => thr[t].msg \in Message
  BY <1>1 DEF ThreadTypeOK, Idle
<1>4. thr[t].pc = "apply" => thr[t].got \in [thr[t].msg.about -> HereItem]
  BY DEF Here
<1>5. thr[t].pc = "apply" => thr[t].msg.about \subseteq Guids
  BY <1>3 DEF Message
<1> QED BY <1>2, <1>3, <1>4, <1>5 DEF Idle

\* A thread that holds readings is in order.
LEMMA HoldingType ==
    ASSUME TypeOK, Here, NEW t \in Threads, thr[t].pc = "call", NEW got,
           got \in [thr[t].msg.about -> HereItem], Holding(t, got)
    PROVE  /\ thr' = [thr EXCEPT ![t] = [pc |-> "apply", msg |-> thr[t].msg, got |-> got]]
           /\ thr'[t].pc = "apply" /\ thr'[t].msg = thr[t].msg /\ thr'[t].got = got
           /\ DOMAIN thr' = Threads
           /\ \A u \in Threads : u # t => thr'[u] = thr[u]
           /\ ThreadTypeOK(thr'[t])
<1> DEFINE r == [pc |-> "apply", msg |-> thr[t].msg, got |-> got]
<1>1. thr' = [thr EXCEPT ![t] = r] /\ DOMAIN thr = Threads
  BY DEF Holding, TypeOK
<1>2. thr[t].msg \in Message
  BY ThreadShape
<1>3. r.pc = "apply" /\ r.msg = thr[t].msg /\ r.got = got
  OBVIOUS
<1>4. HereItem \subseteq Item
  <2>1. PathsHere \cup {None} \subseteq Paths \cup {"any", None}
    BY DEF PathsHere
  <2> QED BY <2>1 DEF HereItem, Item
<1>5. got \in [thr[t].msg.about -> Item]
  BY <1>4
<1>6. ThreadTypeOK(r)
  BY <1>2, <1>3, <1>5 DEF ThreadTypeOK
<1> HIDE DEF r
<1>7. thr'[t] = r /\ DOMAIN thr' = Threads /\ \A u \in Threads : u # t => thr'[u] = thr[u]
  BY <1>1
<1> QED BY <1>1, <1>3, <1>6, <1>7 DEF r

\* What a thread that has made its driver call holds.
LEMMA ReadingType ==
    ASSUME TypeOK, Here, NEW t \in Threads, ReadDriver(t) \/ ReadRemoved(t) \/ GetFails(t)
    PROVE  \E got \in [thr[t].msg.about -> HereItem] :
             /\ Holding(t, got) /\ thr[t].pc = "call"
             /\ \/ /\ ReadDriver(t) /\ thr[t].msg.ev # "removed"
                   /\ \A g \in thr[t].msg.about : got[g] = driver[g]
                \/ /\ ReadRemoved(t) /\ thr[t].msg.ev = "removed"
                   /\ \A g \in thr[t].msg.about : got[g] = Gone(thr[t].msg.rev)
                \/ /\ GetFails(t) /\ thr[t].msg.ev = "changed"
                   /\ \A g \in thr[t].msg.about : got[g] = Gone(driver[g].rev)
<1>1. thr[t].pc = "call"
  BY DEF ReadDriver, ReadRemoved, GetFails
<1>2. thr[t].msg \in Message
  BY <1>1, ThreadShape
<1>3. thr[t].msg.about \subseteq Guids /\ thr[t].msg.rev \in Nat /\ driver \in [Guids -> HereItem]
  BY <1>2 DEF Message, Here
<1>4. \A n \in Nat : Gone(n) \in HereItem
  BY DEF Gone, HereItem
<1>5. \A g \in Guids : driver[g].rev \in Nat
  BY <1>3 DEF HereItem
<1>6. CASE ReadDriver(t)
  <2> DEFINE got == [g \in thr[t].msg.about |-> driver[g]]
  <2>1. got \in [thr[t].msg.about -> HereItem] /\ \A g \in thr[t].msg.about : got[g] = driver[g]
    BY <1>3
  <2>2. Holding(t, got) /\ thr[t].msg.ev # "removed"
    BY <1>6 DEF ReadDriver
  <2> HIDE DEF got
  <2> QED BY <1>1, <1>6, <2>1, <2>2
<1>7. CASE ReadRemoved(t)
  <2> DEFINE got == [g \in thr[t].msg.about |-> Gone(thr[t].msg.rev)]
  <2>1. got \in [thr[t].msg.about -> HereItem] /\ \A g \in thr[t].msg.about : got[g] = Gone(thr[t].msg.rev)
    BY <1>3, <1>4
  <2>2. Holding(t, got) /\ thr[t].msg.ev = "removed"
    BY <1>7 DEF ReadRemoved
  <2> HIDE DEF got
  <2> QED BY <1>1, <1>7, <2>1, <2>2
<1>8. CASE GetFails(t)
  <2> DEFINE got == [g \in thr[t].msg.about |-> Gone(driver[g].rev)]
  <2>1. got \in [thr[t].msg.about -> HereItem] /\ \A g \in thr[t].msg.about : got[g] = Gone(driver[g].rev)
    BY <1>3, <1>4, <1>5
  <2>2. Holding(t, got) /\ thr[t].msg.ev = "changed"
    BY <1>8 DEF GetFails
  <2> HIDE DEF got
  <2> QED BY <1>1, <1>8, <2>1, <2>2
<1> QED BY <1>6, <1>7, <1>8

\* A thread that takes up a message to handle.
LEMMA CallType ==
    ASSUME TypeOK, NEW t \in Threads, NEW m \in Message,
           thr' = [thr EXCEPT ![t] = [pc |-> "call", msg |-> m]]
    PROVE  /\ thr'[t].pc = "call" /\ thr'[t].msg = m
           /\ DOMAIN thr' = Threads
           /\ \A u \in Threads : u # t => thr'[u] = thr[u]
           /\ ThreadTypeOK(thr'[t])
BY DEF TypeOK, ThreadTypeOK

\* A thread that is done.
LEMMA DoneType ==
    ASSUME TypeOK, NEW t \in Threads, thr' = [thr EXCEPT ![t] = Idle]
    PROVE  /\ thr'[t] = Idle /\ thr'[t].pc = "idle" /\ DOMAIN thr' = Threads
           /\ \A u \in Threads : u # t => thr'[u] = thr[u]
           /\ ThreadTypeOK(thr'[t])
BY DEF TypeOK, ThreadTypeOK, Idle

\* The map after readings were applied.
LEMMA MergedType ==
    ASSUME TypeOK, Here, NEW t \in Threads, Apply(t)
    PROVE  /\ m_Rules' \in [Guids -> HereItem]
           /\ \A g \in Guids : m_Rules'[g] = IF g \in thr[t].msg.about THEN thr[t].got[g] ELSE m_Rules[g]
<1>1. thr[t].pc = "apply" /\ m_Rules' = Merged(thr[t].got)
  BY DEF Apply
<1>2. thr[t].got \in [thr[t].msg.about -> HereItem] /\ thr[t].msg.about \subseteq Guids
  BY <1>1, ThreadShape
<1>3. m_Rules \in [Guids -> HereItem]
  BY DEF Here
<1> QED BY <1>1, <1>2, <1>3 DEF Merged

\* Every step keeps paths to the kind of item.
LEMMA HereStep ==
    ASSUME TypeOK, Here, StepCase
    PROVE  Here'
<1>0. HereItem' = HereItem
  BY KindStays DEF HereItem, PathsHere, HasPaths
<1> DEFINE Got(t) == thr[t].pc = "apply" => thr[t].got \in [thr[t].msg.about -> HereItem]
<1>a. driver \in [Guids -> HereItem] /\ m_Rules \in [Guids -> HereItem] /\ \A t \in Threads : Got(t)
  BY DEF Here
<1>1. ASSUME NEW S, DriverChange(S) PROVE Here'
  BY <1>0, <1>1 DEF DriverChange, cacheVars, Here
<1>2. ASSUME NEW h \in Handlers, TakeNotification(h) PROVE Here'
  <2>1. h \in Threads /\ port \in Seq(Message) /\ port # <<>>
    BY <1>2 DEF Threads, TypeOK, TakeNotification
  <2>2. Head(port) \in Message
    BY <2>1
  <2>3. thr'[h].pc = "call" /\ \A u \in Threads : u # h => thr'[u] = thr[u]
    BY <1>2, <2>1, <2>2, CallType DEF TakeNotification
  <2>4. UNCHANGED <<driver, m_Rules>>
    BY <1>2 DEF TakeNotification, cacheVars
  <2> QED BY <1>0, <1>a, <2>3, <2>4 DEF Here
<1>3. ASSUME StartLoad PROVE Here'
  <2>1. [ev |-> "all", about |-> Guids, rev |-> 0] \in Message
    BY DEF Message
  <2>2. thr'[Timer].pc = "call" /\ \A u \in Threads : u # Timer => thr'[u] = thr[u]
    BY <1>3, <2>1, CallType DEF StartLoad, Threads
  <2>3. UNCHANGED <<driver, m_Rules>>
    BY <1>3 DEF StartLoad, cacheVars, driverVars
  <2> QED BY <1>0, <1>a, <2>2, <2>3 DEF Here
<1>4. ASSUME NEW t \in Threads, ReadDriver(t) \/ ReadRemoved(t) \/ GetFails(t) PROVE Here'
  <2>1. PICK got \in [thr[t].msg.about -> HereItem] : Holding(t, got) /\ thr[t].pc = "call"
    BY <1>4, ReadingType
  <2>2. thr'[t].got = got /\ thr'[t].msg = thr[t].msg /\ \A u \in Threads : u # t => thr'[u] = thr[u]
    BY <2>1, HoldingType
  <2>3. UNCHANGED <<driver, m_Rules>>
    BY <1>4 DEF ReadDriver, ReadRemoved, GetFails, cacheVars, driverVars
  <2> QED BY <1>0, <1>a, <2>2, <2>3 DEF Here
<1>5. ASSUME NEW t \in Threads, LoadFails(t) PROVE Here'
  <2>1. thr'[t].pc = "idle" /\ \A u \in Threads : u # t => thr'[u] = thr[u]
    BY <1>5, DoneType DEF LoadFails
  <2>2. UNCHANGED <<driver, m_Rules>>
    BY <1>5 DEF LoadFails, driverVars
  <2> QED BY <1>0, <1>a, <2>1, <2>2 DEF Here
<1>6. ASSUME NEW t \in Threads, Apply(t) PROVE Here'
  <2>1. thr'[t].pc = "idle" /\ \A u \in Threads : u # t => thr'[u] = thr[u]
    BY <1>6, DoneType DEF Apply
  <2>2. driver' = driver
    BY <1>6 DEF Apply, driverVars
  <2> QED BY <1>0, <1>6, <1>a, <2>1, <2>2, MergedType DEF Here
<1>7. ASSUME StartAgent, UNCHANGED <<kind, driver, changes>> PROVE Here'
  <2>1. Gone(0) \in HereItem
    BY DEF Gone, HereItem
  <2>2. m_Rules' \in [Guids -> HereItem] /\ \A t \in Threads : thr'[t].pc = "idle"
    BY <1>7, <2>1 DEF StartAgent, Idle
  <2> QED BY <1>0, <1>7, <1>a, <2>2 DEF Here
<1>8. ASSUME UNCHANGED <<kind, driverVars, cacheVars, thr>> PROVE Here'
  BY <1>0, <1>8, <1>a DEF Here, driverVars, cacheVars
<1> QED BY <1>1, <1>2, <1>3, <1>4, <1>5, <1>6, <1>7, <1>8 DEF StepCase, ThreadStep

\* The part of TypeOK that StepCase is about.
CoreTypes ==
    /\ kind \in Kinds
    /\ driver \in [Guids -> Item] /\ m_Rules \in [Guids -> Item]
    /\ port \in Seq(Message)
    /\ m_UpdateAllRules \in BOOLEAN
    /\ DOMAIN thr = Threads /\ \A t \in Threads : ThreadTypeOK(thr[t])
    /\ overtaken \subseteq Guids
    /\ newest \in [Guids -> Nat] /\ missed \in [Guids -> Nat]
    /\ changes \in Nat

\* Every item of the manager at hand is an item.
LEMMA HereItems == HereItem \subseteq Item
<1>1. PathsHere \cup {None} \subseteq Paths \cup {"any", None}
  BY DEF PathsHere
<1> QED BY <1>1 DEF HereItem, Item

\* Revisions are numbers.
LEMMA RevTypes ==
    ASSUME TypeOK, Here
    PROVE  /\ changes \in Nat /\ newest \in [Guids -> Nat] /\ missed \in [Guids -> Nat]
           /\ \A g \in Guids : driver[g] \in HereItem /\ driver[g].rev \in Nat
           /\ \A g \in Guids : m_Rules[g] \in HereItem /\ m_Rules[g].rev \in Nat
           /\ \A t \in Threads : thr[t].pc = "apply" =>
                \A g \in thr[t].msg.about : g \in Guids /\ thr[t].got[g] \in HereItem /\ thr[t].got[g].rev \in Nat
<1>1. \A r \in HereItem : r.rev \in Nat
  BY DEF HereItem
<1> QED BY <1>1, ThreadShape DEF TypeOK, Here

\* Which change of an item was missed when readings fail.
LEMMA MissedType ==
    ASSUME TypeOK, Here, NEW S
    PROVE  MissedNow(S) \in [Guids -> Nat]
BY RevTypes DEF MissedNow

LEMMA CoreTypeStep ==
    ASSUME TypeOK, Here, StepCase
    PROVE  CoreTypes'
<1>0. Item' = Item /\ HereItem' = HereItem /\ HereItem \subseteq Item /\ CoreTypes
  BY HereItems, KindStays DEF HereItem, PathsHere, HasPaths, Item, CoreTypes, TypeOK
<1>a. driver' \in [Guids -> Item] /\ m_Rules' \in [Guids -> Item] /\ kind' = kind
  <2>1. driver' \in [Guids -> HereItem] /\ m_Rules' \in [Guids -> HereItem]
    BY HereStep, <1>0 DEF Here
  <2> QED BY <2>1, <1>0, KindStays
<1>1. ASSUME NEW S, DriverChange(S) PROVE CoreTypes'
  <2>1. PICK m \in Message : port' = Append(port, m)
    BY <1>1 DEF DriverChange
  <2>2. port' \in Seq(Message)
    BY <2>1, <1>0 DEF CoreTypes
  <2>3. changes' \in Nat /\ UNCHANGED <<cacheVars, thr>>
    BY <1>0, <1>1 DEF CoreTypes, DriverChange
  <2> QED BY <1>0, <1>a, <2>2, <2>3 DEF CoreTypes, cacheVars
<1>2. ASSUME NEW h \in Handlers, TakeNotification(h) PROVE CoreTypes'
  <2>1. h \in Threads /\ port \in Seq(Message) /\ port # <<>>
    BY <1>2 DEF Threads, TypeOK, TakeNotification
  <2>2. Head(port) \in Message /\ Tail(port) \in Seq(Message)
    BY <2>1
  <2>3. DOMAIN thr' = Threads /\ ThreadTypeOK(thr'[h]) /\ \A u \in Threads : u # h => thr'[u] = thr[u]
    BY <1>2, <2>1, <2>2, CallType DEF TakeNotification
  <2>4. port' = Tail(port) /\ UNCHANGED <<changes, cacheVars>>
    BY <1>2 DEF TakeNotification
  <2> QED BY <1>0, <1>a, <2>2, <2>3, <2>4 DEF CoreTypes, cacheVars
<1>3. ASSUME StartLoad PROVE CoreTypes'
  <2>1. [ev |-> "all", about |-> Guids, rev |-> 0] \in Message
    BY DEF Message
  <2>2. DOMAIN thr' = Threads /\ ThreadTypeOK(thr'[Timer]) /\ \A u \in Threads : u # Timer => thr'[u] = thr[u]
    BY <1>3, <2>1, CallType DEF StartLoad, Threads
  <2>3. UNCHANGED <<driverVars, cacheVars>>
    BY <1>3 DEF StartLoad
  <2> QED BY <1>0, <1>a, <2>2, <2>3 DEF CoreTypes, cacheVars, driverVars
<1>4. ASSUME NEW t \in Threads, ReadDriver(t) \/ ReadRemoved(t) \/ GetFails(t) PROVE CoreTypes'
  <2>1. PICK got \in [thr[t].msg.about -> HereItem] : Holding(t, got) /\ thr[t].pc = "call"
    BY <1>4, ReadingType
  <2>2. DOMAIN thr' = Threads /\ ThreadTypeOK(thr'[t]) /\ \A u \in Threads : u # t => thr'[u] = thr[u]
    BY <2>1, HoldingType
  <2>3. UNCHANGED <<driverVars, m_UpdateAllRules, newest, overtaken>> /\ missed' \in [Guids -> Nat]
    BY <1>0, <1>4, MissedType DEF ReadDriver, ReadRemoved, GetFails, cacheVars, CoreTypes
  <2> QED BY <1>0, <1>a, <2>2, <2>3 DEF CoreTypes, driverVars
<1>5. ASSUME NEW t \in Threads, LoadFails(t) PROVE CoreTypes'
  <2>1. DOMAIN thr' = Threads /\ ThreadTypeOK(thr'[t]) /\ \A u \in Threads : u # t => thr'[u] = thr[u]
    BY <1>5, DoneType DEF LoadFails
  <2>2. UNCHANGED <<driverVars, m_UpdateAllRules, newest, overtaken>> /\ missed' \in [Guids -> Nat]
    BY <1>0, <1>5, MissedType DEF LoadFails, CoreTypes
  <2> QED BY <1>0, <1>a, <2>1, <2>2 DEF CoreTypes, driverVars
<1>6. ASSUME NEW t \in Threads, Apply(t) PROVE CoreTypes'
  <2>1. DOMAIN thr' = Threads /\ ThreadTypeOK(thr'[t]) /\ \A u \in Threads : u # t => thr'[u] = thr[u]
    BY <1>6, DoneType DEF Apply
  <2>2. thr[t].pc = "apply" /\ DOMAIN thr[t].got = thr[t].msg.about /\ thr[t].msg.about \subseteq Guids
    BY <1>6, ThreadShape DEF Apply
  <2>3. newest' \in [Guids -> Nat]
    <3>1. newest' = [g \in Guids |-> IF g \in DOMAIN thr[t].got /\ thr[t].got[g].rev > newest[g]
                                     THEN thr[t].got[g].rev ELSE newest[g]]
      BY <1>6 DEF Apply
    <3> QED BY <3>1, <2>2, RevTypes
  <2>4. overtaken' \subseteq Guids
    BY <1>0, <1>6, <2>2 DEF Apply, CoreTypes
  <2>5. UNCHANGED <<driverVars, missed>> /\ m_UpdateAllRules' \in BOOLEAN
    BY <1>6 DEF Apply
  <2> QED BY <1>0, <1>a, <2>1, <2>3, <2>4, <2>5 DEF CoreTypes, driverVars
<1>7. ASSUME StartAgent, UNCHANGED <<kind, driver, changes>> PROVE CoreTypes'
  <2>1. port' \in Seq(Message)
    BY <1>7 DEF StartAgent
  <2>2. DOMAIN thr' = Threads /\ \A t \in Threads : ThreadTypeOK(thr'[t])
    BY <1>7 DEF StartAgent, ThreadTypeOK
  <2>3. newest' \in [Guids -> Nat] /\ missed' \in [Guids -> Nat] /\ overtaken' = {} /\ m_UpdateAllRules' = TRUE
    BY <1>7 DEF StartAgent
  <2> QED BY <1>0, <1>7, <1>a, <2>1, <2>2, <2>3 DEF CoreTypes
<1>8. ASSUME UNCHANGED <<kind, driverVars, cacheVars, thr>> PROVE CoreTypes'
  BY <1>0, <1>8, <1>a DEF CoreTypes, driverVars, cacheVars
<1> QED BY <1>1, <1>2, <1>3, <1>4, <1>5, <1>6, <1>7, <1>8 DEF StepCase, ThreadStep

\* The store of script state keeps its shape, whatever a script does to it.
LEMMA ScriptOperationType ==
    ASSUME ScriptTypeOK, NEW s \in Scripts, ScriptOperation(s)
    PROVE  ScriptTypeOK'
<1>1. ASSUME NEW key \in Keys, SetPrivate(s, key) \/ DeletePrivate(s, key) PROVE ScriptTypeOK'
  BY <1>1 DEF SetPrivate, DeletePrivate, ScriptTypeOK
<1>2. ASSUME NEW n \in Names, NEW writable \in BOOLEAN, CreateGlobalState(s, n, writable) PROVE ScriptTypeOK'
  <2>1. [owner |-> s, writable |-> writable, entries |-> {}] \in SGlobalState
    BY DEF SGlobalState
  <2> QED BY <1>2, <2>1 DEF CreateGlobalState, ScriptTypeOK
<1>3. ASSUME NEW n \in Names, DestroyGlobalState(s, n) PROVE ScriptTypeOK'
  BY <1>3 DEF DestroyGlobalState, ScriptTypeOK
<1>4. ASSUME NEW n \in Names, NEW key \in Keys, SetGlobal(s, n, key) \/ DeleteGlobal(s, n, key) PROVE ScriptTypeOK'
  <2>1. m_GlobalStates[n] \in SGlobalState
    BY <1>4 DEF SetGlobal, DeleteGlobal, MayWrite, GlobalStateExists, ScriptTypeOK
  <2>2. PICK E \in SUBSET Keys : m_GlobalStates' = [m_GlobalStates EXCEPT ![n].entries = E]
    BY <1>4, <2>1 DEF SetGlobal, DeleteGlobal, SGlobalState
  <2>3. [m_GlobalStates[n] EXCEPT !.entries = E] \in SGlobalState
    BY <2>1, <2>2 DEF SGlobalState
  <2>4. m_PrivateState' = m_PrivateState
    BY <1>4 DEF SetGlobal, DeleteGlobal
  <2> QED BY <2>2, <2>3, <2>4 DEF ScriptTypeOK
<1> QED BY <1>1, <1>2, <1>3, <1>4 DEF ScriptOperation

LEMMA CleanupType ==
    ASSUME ScriptTypeOK, NEW gone, CleanupScriptState(gone)
    PROVE  ScriptTypeOK'
BY DEF CleanupScriptState, ScriptTypeOK

\* The rest of TypeOK: the program items, the purge, the scripts.
SideTypes ==
    /\ m_Items \subseteq Paths /\ rulesOf \in [Paths -> SUBSET Guids]
    /\ removal = Idle \/ removal \in [pc : {"rules"}, path : Paths, todo : SUBSET Guids]
    /\ purge \subseteq Guids
    /\ ScriptTypeOK
    /\ running \subseteq Scripts /\ late \subseteq Scripts
    /\ orphans \subseteq Guids /\ unclean \subseteq Guids
    /\ faults \in Nat

LEMMA TypeParts == TypeOK <=> CoreTypes /\ SideTypes
BY DEF TypeOK, CoreTypes, SideTypes

\* Applying readings keeps the program items and the scripts in order.
LEMMA ApplySideTypes ==
    ASSUME TypeOK, Here, NEW t \in Threads, Apply(t)
    PROVE  SideTypes'
<1> DEFINE got == thr[t].got
<1>0. SideTypes
  BY TypeParts
<1>1. thr[t].pc = "apply" /\ got \in [thr[t].msg.about -> HereItem] /\ thr[t].msg.about \subseteq Guids
  BY ThreadShape DEF Apply
<1>2. Leaving(got) \subseteq Guids /\ Entering(got) \subseteq Guids
  BY <1>1 DEF Leaving, Entering
<1>3. HasPaths => \A g \in Entering(got) : got[g].path \in Paths
  <2>1. HasPaths => \A r \in HereItem : r.path # None => r.path \in Paths
    BY DEF HereItem, PathsHere
  <2> QED BY <1>1, <2>1 DEF Entering
<1>4. m_Items' \subseteq Paths /\ rulesOf' \in [Paths -> SUBSET Guids] /\ orphans' \subseteq Guids
  <2>1. Relist(got)
    BY DEF Apply
  <2>2. m_Items' \subseteq Paths
    BY <2>1, <1>0, <1>3 DEF Relist, SideTypes
  <2>3. rulesOf' \in [Paths -> SUBSET Guids]
    BY <2>1, <1>0, <1>2 DEF Relist, SideTypes
  <2> QED BY <2>1, <2>2, <2>3, <1>0 DEF Relist, SideTypes
<1>5. ScriptTypeOK'
  BY <1>0, CleanupType DEF Apply, SideTypes
<1>6. late' \subseteq Scripts /\ unclean' \subseteq Guids
  BY <1>0, <1>2 DEF Apply, SideTypes
<1>7. UNCHANGED <<removal, purge, running, faults>>
  BY DEF Apply
<1> QED BY <1>0, <1>4, <1>5, <1>6, <1>7 DEF SideTypes

LEMMA SideTypeStep ==
    ASSUME TypeOK, Here, [Next]_vars
    PROVE  SideTypes'
<1> USE RuleCacheAssumption
<1>0. SideTypes
  BY TypeParts
<1>1. ASSUME StartAgent, faults' = faults + 1 PROVE SideTypes'
  <2>1. ScriptTypeOK'
    BY <1>1 DEF StartAgent, ScriptTypeOK
  <2> QED BY <1>0, <1>1, <2>1 DEF SideTypes, StartAgent
<1>2. ASSUME NEW t \in Threads, Apply(t) PROVE SideTypes'
  BY <1>2, ApplySideTypes
<1>3. ASSUME NEW t \in Threads, ReadDriver(t) \/ ReadRemoved(t) \/ GetFails(t) \/ LoadFails(t) PROVE SideTypes'
  <2>1. UNCHANGED <<itemVars, purge, scriptVars>> /\ faults' \in Nat
    BY <1>0, <1>3 DEF ReadDriver, ReadRemoved, GetFails, LoadFails, SideTypes
  <2> QED BY <1>0, <2>1 DEF SideTypes, ScriptTypeOK, itemVars, scriptVars
<1>4. ASSUME StartPurge PROVE SideTypes'
  <2>1. purge' \subseteq Guids
    BY <1>4 DEF StartPurge
  <2>2. UNCHANGED <<itemVars, scriptVars, faults>>
    BY <1>4 DEF StartPurge
  <2> QED BY <1>0, <2>1, <2>2 DEF SideTypes, ScriptTypeOK, itemVars, scriptVars
<1>5. ASSUME NEW g \in Guids, PurgeOne(g) PROVE SideTypes'
  <2>1. purge' = purge \ {g} /\ UNCHANGED <<itemVars, scriptVars, faults>>
    BY <1>5 DEF PurgeOne
  <2> QED BY <1>0, <2>1 DEF SideTypes, ScriptTypeOK, itemVars, scriptVars
<1>6. ASSUME NEW p \in Paths, NEW b \in BOOLEAN, RemoveProgramFrom(p, b) PROVE SideTypes'
  <2>1. removal' \in [pc : {"rules"}, path : Paths, todo : SUBSET Guids]
    BY <1>0, <1>6 DEF RemoveProgramFrom, SideTypes
  <2>2. UNCHANGED <<m_Items, rulesOf, orphans, purge, scriptVars, faults>>
    BY <1>6 DEF RemoveProgramFrom
  <2> QED BY <1>0, <2>1, <2>2 DEF SideTypes, ScriptTypeOK, scriptVars
<1>7. ASSUME NEW g \in Guids, RemoveAllRules(g) PROVE SideTypes'
  <2>1. removal \in [pc : {"rules"}, path : Paths, todo : SUBSET Guids]
    BY <1>0, <1>7 DEF RemoveAllRules, SideTypes, Idle
  <2>2. [removal EXCEPT !.todo = @ \ {g}] \in [pc : {"rules"}, path : Paths, todo : SUBSET Guids]
    BY <2>1
  <2>3. removal' = Idle \/ removal' \in [pc : {"rules"}, path : Paths, todo : SUBSET Guids]
    BY <1>7, <2>2 DEF RemoveAllRules
  <2>4. UNCHANGED <<m_Items, rulesOf, orphans, purge, scriptVars, faults>>
    BY <1>7 DEF RemoveAllRules
  <2> QED BY <1>0, <2>3, <2>4 DEF SideTypes, ScriptTypeOK, scriptVars
<1>8. ASSUME RemoveProgramImpl PROVE SideTypes'
  <2>1. removal.path \in Paths
    BY <1>0, <1>8 DEF RemoveProgramImpl, SideTypes, Idle
  <2>2. m_Items' \subseteq Paths /\ orphans' \subseteq Guids /\ rulesOf' \in [Paths -> SUBSET Guids] /\ removal' = Idle
    BY <1>0, <1>8, <2>1 DEF RemoveProgramImpl, SideTypes
  <2>3. UNCHANGED <<purge, scriptVars, faults>>
    BY <1>8 DEF RemoveProgramImpl
  <2> QED BY <1>0, <2>2, <2>3 DEF SideTypes, ScriptTypeOK, scriptVars
<1>9. ASSUME NEW g \in Scripts, StartScript(g) \/ EndScript(g) PROVE SideTypes'
  <2>1. running' \subseteq Scripts /\ UNCHANGED <<itemVars, purge, m_PrivateState, m_GlobalStates, late, unclean, faults>>
    BY <1>0, <1>9 DEF StartScript, EndScript, SideTypes
  <2> QED BY <1>0, <2>1 DEF SideTypes, ScriptTypeOK, itemVars
<1>10. ASSUME NEW g \in Scripts, UseState(g) PROVE SideTypes'
  <2>1. ScriptTypeOK'
    BY <1>0, <1>10, ScriptOperationType DEF UseState, SideTypes
  <2>2. late' \subseteq Scripts /\ UNCHANGED <<itemVars, purge, running, unclean, faults>>
    BY <1>0, <1>10 DEF UseState, SideTypes
  <2> QED BY <1>0, <2>1, <2>2 DEF SideTypes, itemVars
<1>11. ASSUME UNCHANGED <<itemVars, purge, scriptVars, faults>> PROVE SideTypes'
  BY <1>0, <1>11 DEF SideTypes, ScriptTypeOK, itemVars, scriptVars
<1>12. ASSUME HandlerNext(Timer) \/ \E h \in Handlers : HandlerNext(h) PROVE SideTypes'
  BY <1>12, <1>2, <1>3, <1>11 DEF HandlerNext, ThreadStep, TakeNotification, Threads
<1>13. ASSUME TimerNext PROVE SideTypes'
  BY <1>13, <1>5, <1>11, <1>12 DEF TimerNext, StartLoad, HandlerNext
<1>14. ASSUME \E g \in Guids : AddRule(g) \/ RemoveRule(g) PROVE SideTypes'
  BY <1>14, <1>11 DEF AddRule, RemoveRule
<1>15. ASSUME ReplaceRules \/ UNCHANGED vars PROVE SideTypes'
  BY <1>15, <1>11 DEF ReplaceRules, vars
<1>16. ASSUME RestartAgent \/ \E t \in Threads : ReloadFaults(t) PROVE SideTypes'
  BY <1>16, <1>1 DEF RestartAgent, ReloadFaults
<1> QED BY <1>4, <1>6, <1>7, <1>8, <1>9, <1>10, <1>12, <1>13, <1>14, <1>15, <1>16 DEF Next, Environment

LEMMA TypeInit == Init => TypeOK /\ Here
<1> SUFFICES ASSUME Init PROVE TypeOK /\ Here
  OBVIOUS
<1>1. PICK p \in [Guids -> PathsHere \cup {None}] :
        driver = [g \in Guids |-> [path |-> p[g], temp |-> FALSE, rev |-> IF p[g] = None THEN 0 ELSE 1]]
  BY DEF Init
<1>2. driver \in [Guids -> HereItem]
  BY <1>1 DEF HereItem
<1>3. m_Rules \in [Guids -> HereItem]
  BY DEF Init, Gone, HereItem
<1>4. \A t \in Threads : thr[t] = Idle /\ thr[t].pc = "idle"
  BY DEF Init, Idle
<1>5. Here
  BY <1>2, <1>3, <1>4 DEF Here
<1>6. CoreTypes
  <2>1. driver \in [Guids -> Item] /\ m_Rules \in [Guids -> Item]
    BY <1>2, <1>3, HereItems
  <2>2. \A t \in Threads : ThreadTypeOK(thr[t])
    BY <1>4 DEF ThreadTypeOK
  <2> QED BY <2>1, <2>2 DEF CoreTypes, Init
<1>7. SideTypes
  <2>1. ScriptTypeOK
    BY DEF Init, ScriptInit, ScriptTypeOK
  <2> QED BY <2>1 DEF SideTypes, Init
<1> QED BY <1>5, <1>6, <1>7, TypeParts

LEMMA TypeStep == TypeOK /\ Here /\ [Next]_vars => (TypeOK /\ Here)'
<1> SUFFICES ASSUME TypeOK, Here, [Next]_vars PROVE TypeOK' /\ Here'
  OBVIOUS
<1>1. CoreTypes' /\ SideTypes' /\ Here'
  BY StepCases, CoreTypeStep, SideTypeStep, HereStep
<1>2. TypeOK'
  BY <1>1 DEF TypeOK, CoreTypes, SideTypes, ScriptTypeOK
<1> QED BY <1>1, <1>2

\* The driver's items, the port, the map, the handlers under way, the program
\* items and the script store keep their shape.
THEOREM TypeCorrect == Spec => []TypeOK
BY TypeInit, TypeStep, PTL DEF Spec

-----------------------------------------------------------------------------
(* The program items *)

\* Steps that change the map, the program items or what they list.
LEMMA LinkSteps ==
    ASSUME [Next]_vars
    PROVE  \/ \E t \in Threads : Apply(t)
           \/ RemoveProgramImpl
           \/ StartAgent /\ kind' = kind
           \/ UNCHANGED <<kind, m_Items, rulesOf, orphans, m_Rules>>
<1>1. ASSUME NEW t \in Threads, ThreadStep(t)
      PROVE  Apply(t) \/ UNCHANGED <<kind, m_Items, rulesOf, orphans, m_Rules>>
  BY <1>1 DEF ThreadStep, ReadDriver, ReadRemoved, GetFails, LoadFails, itemVars, cacheVars
<1>2. ASSUME \E h \in Handlers : HandlerNext(h)
      PROVE  \/ \E t \in Threads : Apply(t)
             \/ UNCHANGED <<kind, m_Items, rulesOf, orphans, m_Rules>>
  BY <1>1, <1>2 DEF HandlerNext, TakeNotification, Threads, itemVars, cacheVars
<1>3. ASSUME TimerNext
      PROVE  \/ \E t \in Threads : Apply(t)
             \/ UNCHANGED <<kind, m_Items, rulesOf, orphans, m_Rules>>
  BY <1>1, <1>3 DEF TimerNext, StartLoad, PurgeOne, Threads, itemVars, cacheVars
<1>4. ASSUME Environment
      PROVE  \/ RemoveProgramImpl
             \/ StartAgent /\ kind' = kind
             \/ UNCHANGED <<kind, m_Items, rulesOf, orphans, m_Rules>>
  BY <1>4 DEF Environment, AddRule, RemoveRule, ReplaceRules, StartPurge, RemoveProgramFrom, RemoveAllRules,
              StartScript, EndScript, UseState, ReloadFaults, RestartAgent, itemVars, cacheVars
<1> QED BY <1>2, <1>3, <1>4 DEF Next, vars, itemVars, cacheVars

\* Applying readings lists and unlists every item that moves.
LEMMA ApplyLinked ==
    ASSUME TypeOK, Here, Linked, NEW t \in Threads, Apply(t)
    PROVE  Linked'
<1> DEFINE got == thr[t].got
<1>1. thr[t].pc = "apply" /\ got \in [thr[t].msg.about -> HereItem] /\ DOMAIN got = thr[t].msg.about
      /\ thr[t].msg.about \subseteq Guids
  BY ThreadShape DEF Apply
<1>2. /\ HasPaths' = HasPaths
      /\ HasPaths => m_Items' = m_Items \cup {got[g].path : g \in Entering(got)}
      /\ rulesOf' = [p \in Paths |-> (rulesOf[p] \ Leaving(got)) \cup {g \in Entering(got) : got[g].path = p}]
      /\ orphans' = orphans \ Leaving(got)
  BY DEF Apply, Relist, HasPaths
<1>3. \A g \in Guids : m_Rules'[g] = IF g \in DOMAIN got THEN got[g] ELSE m_Rules[g]
  BY <1>1, MergedType
<1>4. HasPaths => \A r \in HereItem : r.path # None => r.path \in Paths
  BY DEF HereItem, PathsHere
<1>5. rulesOf \in [Paths -> SUBSET Guids] /\ \A g \in Guids : m_Rules[g] \in HereItem
  BY DEF TypeOK, Here
<1> HIDE DEF got
<1> SUFFICES ASSUME HasPaths PROVE Linked'
  BY <1>2 DEF Linked
<1>6. ASSUME NEW p \in Paths, NEW g \in rulesOf'[p]
      PROVE  p \in m_Items' /\ p # None /\ m_Rules'[g].path = p
  <2>0. g \in Guids
    BY <1>1, <1>2, <1>5 DEF Entering
  <2>1. CASE g \in rulesOf[p] /\ g \notin Leaving(got)
    <3>1. p \in m_Items /\ p # None /\ m_Rules[g].path = p
      BY <2>1 DEF Linked
    <3>2. g \in DOMAIN got => got[g].path = p
      BY <2>1, <3>1 DEF Leaving, Cached
    <3> QED BY <1>2, <1>3, <2>0, <3>1, <3>2
  <2>2. CASE g \in Entering(got) /\ got[g].path = p
    BY <1>2, <1>3, <2>0, <2>2 DEF Entering
  <2> QED BY <1>2, <2>1, <2>2
<1>7. ASSUME NEW g \in Guids, m_Rules'[g].path # None, g \notin orphans'
      PROVE  g \in rulesOf'[m_Rules'[g].path]
  <2>1. CASE g \notin DOMAIN got
    <3>1. g \in rulesOf[m_Rules[g].path] /\ m_Rules'[g] = m_Rules[g] /\ g \notin Leaving(got)
      BY <1>2, <1>3, <1>7, <2>1 DEF Linked, Cached, Leaving
    <3>2. m_Rules[g].path \in Paths
      BY <1>4, <1>5, <1>7, <3>1
    <3> QED BY <1>2, <3>1, <3>2
  <2>2. CASE g \in DOMAIN got /\ got[g].path = m_Rules[g].path
    <3>1. g \notin Leaving(got) /\ m_Rules'[g] = got[g] /\ Cached(g)
      BY <1>3, <1>7, <2>2 DEF Leaving, Cached
    <3>2. g \in rulesOf[m_Rules[g].path]
      BY <1>2, <1>7, <3>1 DEF Linked
    <3>3. m_Rules[g].path \in Paths
      BY <1>4, <1>5, <3>1 DEF Cached
    <3> QED BY <1>2, <2>2, <3>1, <3>2, <3>3
  <2>3. CASE g \in DOMAIN got /\ got[g].path # m_Rules[g].path
    <3>1. m_Rules'[g] = got[g] /\ g \in Entering(got)
      BY <1>3, <1>7, <2>3 DEF Entering
    <3>2. got[g].path \in Paths
      BY <1>1, <1>4, <1>7, <2>3, <3>1
    <3> QED BY <1>2, <3>1, <3>2
  <2> QED BY <2>1, <2>2, <2>3
<1> QED BY <1>6, <1>7 DEF Linked, Cached

LEMMA LinkedStep ==
    ASSUME TypeOK, Here, Linked, [Next]_vars
    PROVE  Linked'
<1>1. ASSUME NEW t \in Threads, Apply(t) PROVE Linked'
  BY <1>1, ApplyLinked
<1>2. ASSUME RemoveProgramImpl PROVE Linked'
  <2>1. removal.path \in Paths
    BY <1>2 DEF RemoveProgramImpl, TypeOK, Idle
  <2>2. /\ m_Items' = m_Items \ {removal.path} /\ orphans' = orphans \cup rulesOf[removal.path]
        /\ rulesOf' = [rulesOf EXCEPT ![removal.path] = {}] /\ kind' = kind /\ m_Rules' = m_Rules
    BY <1>2 DEF RemoveProgramImpl, cacheVars
  <2>3. rulesOf \in [Paths -> SUBSET Guids]
    BY DEF TypeOK
  <2>4. HasPaths => \A g \in Guids : Cached(g) => m_Rules[g].path \in Paths
    BY DEF Here, HereItem, PathsHere, Cached
  <2>5. \A p \in Paths : rulesOf'[p] = IF p = removal.path THEN {} ELSE rulesOf[p]
    BY <2>1, <2>2, <2>3
  <2> QED BY <2>2, <2>4, <2>5 DEF Linked, HasPaths, Cached
<1>3. ASSUME StartAgent, kind' = kind PROVE Linked'
  <2>1. \A g \in Guids : m_Rules'[g].path = None
    BY <1>3 DEF StartAgent, Gone
  <2>2. \A p \in Paths : rulesOf'[p] = {}
    BY <1>3 DEF StartAgent
  <2> QED BY <2>1, <2>2 DEF Linked, Cached
<1>4. ASSUME UNCHANGED <<kind, m_Items, rulesOf, orphans, m_Rules>> PROVE Linked'
  BY <1>4 DEF Linked, HasPaths, Cached
<1> QED BY <1>1, <1>2, <1>3, <1>4, LinkSteps

\* However readings, reloads and removals of programs interleave, a program
\* item lists exactly the rules of the map with its path, except the rules
\* whose item was removed under them.
THEOREM ProgramItemsFollow == Spec => []ListsInStep
<1>1. Init => Linked
  <2> SUFFICES ASSUME Init PROVE Linked
    OBVIOUS
  <2>1. \A g \in Guids : m_Rules[g].path = None
    BY DEF Init, Gone
  <2>2. \A p \in Paths : rulesOf[p] = {}
    BY DEF Init
  <2> QED BY <2>1, <2>2 DEF Linked, Cached
<1>2. Linked => ListsInStep
  BY DEF Linked, ListsInStep
<1>3. TypeOK /\ Here /\ Linked /\ [Next]_vars => Linked'
  BY LinkedStep
<1> QED BY <1>1, <1>2, <1>3, TypeInit, TypeStep, PTL DEF Spec

-----------------------------------------------------------------------------
(* Script state *)

\* What a script does to the store concerns what it holds itself.
LEMMA OperationHolds ==
    ASSUME ScriptTypeOK, NEW s \in Scripts, ScriptOperation(s), NEW g \in Scripts, g # s, HoldsStateOf(g)'
    PROVE  HoldsStateOf(g)
<1>0. ASSUME NEW n \in Names, m_GlobalStates'[n].owner = g,
             m_GlobalStates'[n] = m_GlobalStates[n] \/ m_GlobalStates'[n].owner = m_GlobalStates[n].owner
      PROVE  HoldsStateOf(g)
  BY <1>0 DEF HoldsStateOf
<1>n. NoState.owner = "none" /\ g # "none"
  BY ScriptAssumption DEF NoState
<1>1. ASSUME NEW key \in Keys, SetPrivate(s, key) \/ DeletePrivate(s, key) PROVE HoldsStateOf(g)
  <2>1. m_PrivateState'[g] = m_PrivateState[g] /\ m_GlobalStates' = m_GlobalStates
    BY <1>1 DEF SetPrivate, DeletePrivate, ScriptTypeOK
  <2> QED BY <2>1 DEF HoldsStateOf
<1>2. ASSUME NEW n \in Names, NEW writable \in BOOLEAN, CreateGlobalState(s, n, writable) PROVE HoldsStateOf(g)
  <2> DEFINE r == [owner |-> s, writable |-> writable, entries |-> {}]
  <2>1. m_GlobalStates' = [m_GlobalStates EXCEPT ![n] = r] /\ r.owner = s /\ m_PrivateState' = m_PrivateState
    BY <1>2 DEF CreateGlobalState
  <2> HIDE DEF r
  <2> QED BY <1>0, <2>1 DEF HoldsStateOf, ScriptTypeOK
<1>3. ASSUME NEW n \in Names, DestroyGlobalState(s, n) PROVE HoldsStateOf(g)
  BY <1>0, <1>n, <1>3 DEF DestroyGlobalState, HoldsStateOf, ScriptTypeOK
<1>4. ASSUME NEW n \in Names, NEW key \in Keys, SetGlobal(s, n, key) \/ DeleteGlobal(s, n, key)
      PROVE  HoldsStateOf(g)
  <2>1. m_GlobalStates[n] \in SGlobalState
    BY <1>4 DEF SetGlobal, DeleteGlobal, MayWrite, GlobalStateExists, ScriptTypeOK
  <2>2. PICK E : m_GlobalStates' = [m_GlobalStates EXCEPT ![n].entries = E]
    BY <1>4, <2>1 DEF SetGlobal, DeleteGlobal, SGlobalState
  <2> DEFINE r == [m_GlobalStates[n] EXCEPT !.entries = E]
  <2>3. r.owner = m_GlobalStates[n].owner
    BY <2>1 DEF SGlobalState
  <2>4. m_PrivateState' = m_PrivateState /\ m_GlobalStates' = [m_GlobalStates EXCEPT ![n] = r]
    BY <1>4, <2>2 DEF SetGlobal, DeleteGlobal
  <2> HIDE DEF r
  <2>5. \A k \in Names : m_GlobalStates'[k].owner = m_GlobalStates[k].owner
    BY <2>3, <2>4 DEF ScriptTypeOK
  <2> QED BY <2>4, <2>5 DEF HoldsStateOf
<1> QED BY <1>1, <1>2, <1>3, <1>4 DEF ScriptOperation

\* What is left after a cleanup was there before and is of no cleaned script.
LEMMA CleanupHolds ==
    ASSUME ScriptTypeOK, NEW gone, CleanupScriptState(gone), NEW g \in Scripts, HoldsStateOf(g)'
    PROVE  g \notin gone /\ HoldsStateOf(g)
<1>1. NoState.owner = "none" /\ g # "none"
  BY ScriptAssumption DEF NoState
<1>2. CASE m_PrivateState'[g] # {}
  BY <1>2 DEF CleanupScriptState, HoldsStateOf
<1>3. ASSUME NEW n \in Names, m_GlobalStates'[n].owner = g PROVE g \notin gone /\ HoldsStateOf(g)
  BY <1>1, <1>3 DEF CleanupScriptState, HoldsStateOf
<1> QED BY <1>2, <1>3 DEF HoldsStateOf

\* Steps that change the map, the scripts or their state.
LEMMA ScriptSteps ==
    ASSUME [Next]_vars
    PROVE  \/ \E t \in Threads : Apply(t)
           \/ \E g \in Scripts : StartScript(g) \/ EndScript(g) \/ UseState(g)
           \/ StartAgent /\ kind' = kind
           \/ UNCHANGED <<kind, m_Rules, scriptVars>>
<1>1. ASSUME NEW t \in Threads, ThreadStep(t) PROVE Apply(t) \/ UNCHANGED <<kind, m_Rules, scriptVars>>
  BY <1>1 DEF ThreadStep, ReadDriver, ReadRemoved, GetFails, LoadFails, cacheVars
<1>2. ASSUME \E h \in Handlers : HandlerNext(h)
      PROVE  (\E t \in Threads : Apply(t)) \/ UNCHANGED <<kind, m_Rules, scriptVars>>
  BY <1>1, <1>2 DEF HandlerNext, TakeNotification, Threads, cacheVars
<1>3. ASSUME TimerNext
      PROVE  (\E t \in Threads : Apply(t)) \/ UNCHANGED <<kind, m_Rules, scriptVars>>
  BY <1>1, <1>3 DEF TimerNext, StartLoad, PurgeOne, Threads, cacheVars
<1>4. ASSUME Environment
      PROVE  \/ \E g \in Scripts : StartScript(g) \/ EndScript(g) \/ UseState(g)
             \/ StartAgent /\ kind' = kind
             \/ UNCHANGED <<kind, m_Rules, scriptVars>>
  BY <1>4 DEF Environment, AddRule, RemoveRule, ReplaceRules, StartPurge, RemoveProgramFrom, RemoveAllRules,
              RemoveProgramImpl, ReloadFaults, RestartAgent, cacheVars
<1> QED BY <1>2, <1>3, <1>4 DEF Next, vars, cacheVars

LEMMA LeftoverStep ==
    ASSUME TypeOK, Here, Leftover, [Next]_vars
    PROVE  Leftover'
<1>0. ScriptTypeOK
  BY DEF TypeOK
<1>1. ASSUME NEW t \in Threads, Apply(t) PROVE Leftover'
  <2> DEFINE got == thr[t].got
  <2> DEFINE ev == thr[t].msg.ev
  <2> DEFINE gone == Cleaned(ev, got)
  <2>1. thr[t].pc = "apply" /\ DOMAIN got = thr[t].msg.about /\ thr[t].msg.about \subseteq Guids
    BY <1>1, ThreadShape DEF Apply
  <2>2. /\ CleanupScriptState(gone) /\ late' = late \ gone /\ kind' = kind /\ running' = running
        /\ unclean' = IF kind = "Enclave" /\ ev = "all" THEN unclean \cup Leaving(got) ELSE unclean \ gone
    BY <1>1 DEF Apply
  <2>3. \A g \in Guids : m_Rules'[g] = IF g \in DOMAIN got THEN got[g] ELSE m_Rules[g]
    BY <1>1, <2>1, MergedType
  <2>4. kind \in {"Access", "Program", "Enclave", "Hash"} /\ Scripts \subseteq Guids
    BY RuleCacheAssumption DEF TypeOK
  <2>5. /\ kind \in {"Access", "Program"} => gone = Leaving(got)
        /\ kind = "Enclave" /\ ev # "all" => gone = Leaving(got)
        /\ kind = "Enclave" /\ ev = "all" => gone = {}
    BY DEF Cleaned, HasPaths
  <2> HIDE DEF got, ev, gone
  <2>6. ASSUME NEW g \in Scripts, HoldsStateOf(g)'
        PROVE  kind # "Hash" /\ (Cached(g)' \/ g \in late' \cup unclean')
    <3>1. g \notin gone /\ HoldsStateOf(g)
      BY <1>0, <2>2, <2>6, CleanupHolds
    <3>2. kind # "Hash" /\ (Cached(g) \/ g \in late \cup unclean)
      BY <3>1 DEF Leftover
    <3>3. CASE g \in late \cup unclean
      BY <2>2, <3>1, <3>2, <3>3
    <3>4. CASE Cached(g) /\ g \in Leaving(got)
      BY <2>2, <2>4, <2>5, <3>1, <3>2, <3>4
    <3>5. CASE Cached(g) /\ g \notin Leaving(got)
      BY <2>3, <2>4, <3>2, <3>5 DEF Leaving, Cached
    <3> QED BY <3>2, <3>3, <3>4, <3>5
  <2> QED BY <2>2, <2>6 DEF Leftover
<1>2. ASSUME NEW g \in Scripts, StartScript(g) \/ EndScript(g) PROVE Leftover'
  <2>1. UNCHANGED <<kind, m_Rules, m_PrivateState, m_GlobalStates, late, unclean>>
    BY <1>2 DEF StartScript, EndScript, cacheVars
  <2>2. kind = "Hash" => running' = {}
    BY <1>2 DEF StartScript, EndScript, Leftover
  <2> QED BY <2>1, <2>2 DEF Leftover, HoldsStateOf, Cached
<1>3. ASSUME NEW s \in Scripts, UseState(s) PROVE Leftover'
  <2>1. /\ ScriptOperation(s) /\ s \in running /\ UNCHANGED <<kind, m_Rules, running, unclean>>
        /\ late' = IF Cached(s) THEN late ELSE late \cup {s}
    BY <1>3 DEF UseState, cacheVars
  <2>2. kind # "Hash"
    BY <2>1 DEF Leftover
  <2>3. ASSUME NEW g \in Scripts, HoldsStateOf(g)' PROVE Cached(g)' \/ g \in late' \cup unclean'
    <3>1. CASE g = s
      BY <2>1, <3>1 DEF Cached
    <3>2. CASE g # s
      BY <1>0, <2>1, <2>3, <3>2, OperationHolds DEF Leftover, Cached
    <3> QED BY <3>1, <3>2
  <2> QED BY <2>1, <2>2, <2>3 DEF Leftover
<1>4. ASSUME StartAgent, kind' = kind PROVE Leftover'
  <2>1. NoState.owner = "none" /\ \A g \in Scripts : g # "none"
    BY ScriptAssumption DEF NoState
  <2>2. \A g \in Scripts : ~HoldsStateOf(g)'
    BY <1>4, <2>1 DEF StartAgent, HoldsStateOf
  <2>3. running' = {}
    BY <1>4 DEF StartAgent
  <2> QED BY <2>2, <2>3 DEF Leftover
<1>5. ASSUME UNCHANGED <<kind, m_Rules, scriptVars>> PROVE Leftover'
  BY <1>5 DEF Leftover, HoldsStateOf, Cached, scriptVars
<1> QED BY <1>1, <1>2, <1>3, <1>4, <1>5, ScriptSteps

\* However scripts, notifications and reloads interleave, script state of an
\* item that is not in the map was stored by a script that ran outside the
\* item's time there, or belongs to an enclave a reload dropped.
THEOREM LeftoversAreLate == Spec => []LeftoverIsLate
<1>1. Init => Leftover
  <2> SUFFICES ASSUME Init PROVE Leftover
    OBVIOUS
  <2>1. NoState.owner = "none" /\ \A g \in Scripts : g # "none"
    BY ScriptAssumption DEF NoState
  <2>2. \A g \in Scripts : ~HoldsStateOf(g)
    BY <2>1 DEF Init, ScriptInit, HoldsStateOf
  <2> QED BY <2>2 DEF Init, Leftover
<1>2. Leftover => LeftoverIsLate
  BY DEF Leftover, LeftoverIsLate
<1>3. TypeOK /\ Here /\ Leftover /\ [Next]_vars => Leftover'
  BY LeftoverStep
<1> QED BY <1>1, <1>2, <1>3, TypeInit, TypeStep, PTL DEF Spec

-----------------------------------------------------------------------------
(* Readings and the driver *)

\* Honest and Fits of a message and a reading after the step.
HonestNext(m) ==
    /\ m.ev = "all" => m.about = Guids
    /\ m.ev = "removed" => \A g \in m.about :
         /\ m.rev <= driver'[g].rev
         /\ m.rev = driver'[g].rev => driver'[g] = Gone(m.rev)

FitsNext(r, g) ==
    /\ r.rev <= driver'[g].rev
    /\ r.rev = driver'[g].rev => \/ r = driver'[g]
                                 \/ r = Gone(driver'[g].rev) /\ missed'[g] = driver'[g].rev

\* A change in the driver makes no message and no reading false: they are
\* older than it.
LEMMA OlderThanChange ==
    ASSUME TypeOK, Here, Truthful, NEW S, DriverChange(S)
    PROVE  /\ \A m \in Message : Honest(m) => HonestNext(m)
           /\ \A g \in Guids, r \in HereItem : Fits(r, g) => FitsNext(r, g)
<1>1. changes \in Nat /\ \A g \in Guids : driver[g].rev \in Nat /\ driver[g].rev <= changes
  BY RevTypes DEF Truthful
<1>2. \A g \in Guids : driver'[g] = driver[g] \/ driver'[g].rev = changes + 1
  BY DEF DriverChange
<1>3. missed' = missed
  BY DEF DriverChange, cacheVars
<1>4. ASSUME NEW m \in Message, Honest(m) PROVE HonestNext(m)
  <2>1. m.rev \in Nat /\ m.about \subseteq Guids
    BY DEF Message
  <2>2. ASSUME m.ev = "removed", NEW g \in m.about
        PROVE  m.rev <= driver'[g].rev /\ (m.rev = driver'[g].rev => driver'[g] = Gone(m.rev))
    <3>1. g \in Guids /\ m.rev <= driver[g].rev /\ (m.rev = driver[g].rev => driver[g] = Gone(m.rev))
      BY <1>4, <2>1, <2>2 DEF Honest
    <3>2. CASE driver'[g] = driver[g]
      BY <3>1, <3>2
    <3>3. CASE driver'[g].rev = changes + 1
      BY <1>1, <2>1, <3>1, <3>3
    <3> QED BY <1>2, <3>1, <3>2, <3>3
  <2> QED BY <1>4, <2>2 DEF Honest, HonestNext
<1>5. ASSUME NEW g \in Guids, NEW r \in HereItem, Fits(r, g) PROVE FitsNext(r, g)
  <2>1. r.rev \in Nat
    BY DEF HereItem
  <2>2. CASE driver'[g] = driver[g]
    BY <1>3, <1>5, <2>2 DEF Fits, FitsNext
  <2>3. CASE driver'[g].rev = changes + 1
    <3>1. r.rev < driver'[g].rev
      BY <1>1, <1>5, <2>1, <2>3 DEF Fits
    <3> QED BY <3>1, <2>1, <2>3, <1>1 DEF FitsNext
  <2> QED BY <1>2, <2>2, <2>3
<1> QED BY <1>4, <1>5

\* A change in the driver and its notification.
LEMMA ChangeTruthful ==
    ASSUME TypeOK, Here, Truthful, NEW S, DriverChange(S)
    PROVE  Truthful'
<1>1. PICK m \in Message :
        /\ port' = Append(port, m) /\ m.about = S
        /\ m.ev = "all" => S = Guids
        /\ m.ev = "removed" => m.rev = changes + 1 /\ \A g \in S : driver'[g] = Gone(changes + 1)
  BY DEF DriverChange
<1>2. UNCHANGED <<cacheVars, thr>> /\ changes' = changes + 1 /\ S \subseteq Guids
  BY DEF DriverChange
<1>3. \A i \in 1 .. Len(port) : port[i] \in Message /\ Honest(port[i])
  BY DEF TypeOK, Truthful
<1>4. HonestNext(m)
  <2>1. changes + 1 \in Nat
    BY RevTypes
  <2>2. Gone(changes + 1).rev = changes + 1
    BY DEF Gone
  <2> QED BY <1>1, <2>1, <2>2 DEF HonestNext
<1>5. \A i \in 1 .. Len(port') : HonestNext(port'[i])
  <2>1. port \in Seq(Message)
    BY DEF TypeOK
  <2>2. \A i \in 1 .. Len(port') : (i \in 1 .. Len(port) /\ port'[i] = port[i]) \/ port'[i] = m
    BY <1>1, <2>1
  <2> QED BY <1>3, <1>4, <2>2, OlderThanChange
<1>6. \A t \in Threads : thr[t].pc \in {"call", "apply"} => HonestNext(thr[t].msg)
  BY ThreadShape, OlderThanChange DEF Truthful
<1>7. \A t \in Threads : thr[t].pc = "apply" => \A g \in DOMAIN thr[t].got : FitsNext(thr[t].got[g], g)
  BY ThreadShape, RevTypes, OlderThanChange DEF Truthful
<1>8. ASSUME NEW g \in Guids
      PROVE  /\ FitsNext(m_Rules[g], g)
             /\ driver'[g].rev <= changes'
             /\ driver'[g].rev = 0 => driver'[g] = Gone(0)
             /\ newest[g] <= driver'[g].rev /\ missed[g] <= driver'[g].rev
  <2>1. /\ changes \in Nat /\ driver[g].rev \in Nat /\ newest[g] \in Nat /\ missed[g] \in Nat
        /\ m_Rules[g] \in HereItem
    BY RevTypes
  <2>2. /\ Fits(m_Rules[g], g) /\ driver[g].rev <= changes
        /\ driver[g].rev = 0 => driver[g] = Gone(0)
        /\ newest[g] <= driver[g].rev /\ missed[g] <= driver[g].rev
    BY DEF Truthful
  <2>3. FitsNext(m_Rules[g], g)
    BY <2>1, <2>2, OlderThanChange
  <2>4. CASE driver'[g] = driver[g]
    BY <1>2, <2>1, <2>2, <2>3, <2>4
  <2>5. CASE driver'[g].rev = changes + 1
    BY <1>2, <2>1, <2>2, <2>3, <2>5
  <2> QED BY <2>4, <2>5 DEF DriverChange
<1>9. \A g \in Guids : g \notin overtaken => m_Rules[g].rev = newest[g]
  BY DEF Truthful
<1>10. UNCHANGED <<m_Rules, newest, missed, overtaken, thr>>
  BY <1>2 DEF cacheVars
<1> QED BY <1>5, <1>6, <1>7, <1>8, <1>9, <1>10 DEF Truthful, Honest, HonestNext, Fits, FitsNext

\* Reading the driver, or failing to.
LEMMA ReadTruthful ==
    ASSUME TypeOK, Here, Truthful, NEW t \in Threads, ReadDriver(t) \/ ReadRemoved(t) \/ GetFails(t)
    PROVE  Truthful'
<1>1. PICK got \in [thr[t].msg.about -> HereItem] :
        /\ Holding(t, got) /\ thr[t].pc = "call"
        /\ \/ /\ ReadDriver(t) /\ thr[t].msg.ev # "removed"
              /\ \A g \in thr[t].msg.about : got[g] = driver[g]
           \/ /\ ReadRemoved(t) /\ thr[t].msg.ev = "removed"
              /\ \A g \in thr[t].msg.about : got[g] = Gone(thr[t].msg.rev)
           \/ /\ GetFails(t) /\ thr[t].msg.ev = "changed"
              /\ \A g \in thr[t].msg.about : got[g] = Gone(driver[g].rev)
  BY ReadingType
<1>2. /\ thr'[t].pc = "apply" /\ thr'[t].msg = thr[t].msg /\ thr'[t].got = got
      /\ \A u \in Threads : u # t => thr'[u] = thr[u]
  BY <1>1, HoldingType
<1>3. UNCHANGED <<driver, port, changes, m_Rules, newest, overtaken>>
  BY DEF ReadDriver, ReadRemoved, GetFails, cacheVars, driverVars
<1>4. /\ thr[t].msg \in Message /\ thr[t].msg.about \subseteq Guids /\ thr[t].msg.rev \in Nat
      /\ Honest(thr[t].msg)
  BY <1>1, ThreadShape DEF Message, Truthful
<1>5. \A g \in Guids : \/ missed'[g] = missed[g]
                       \/ missed'[g] = driver[g].rev
  BY DEF ReadDriver, ReadRemoved, GetFails, cacheVars, MissedNow
<1>6. GetFails(t) => \A g \in thr[t].msg.about : missed'[g] = driver[g].rev
  BY <1>4 DEF GetFails, MissedNow
<1>7. \A g \in Guids : missed'[g] <= driver[g].rev
  BY <1>5, RevTypes DEF Truthful
<1>8. \A r, g : g \in Guids /\ Fits(r, g) => FitsNext(r, g)
  BY <1>3, <1>5 DEF Fits, FitsNext
<1>9. \A n : Gone(n).rev = n
  BY DEF Gone
<1>10. ASSUME NEW g \in thr[t].msg.about PROVE FitsNext(got[g], g)
  <2>0. g \in Guids /\ driver[g].rev \in Nat
    BY <1>4, RevTypes
  <2>1. CASE got[g] = driver[g]
    BY <2>0, <2>1, <1>3 DEF FitsNext
  <2>2. CASE thr[t].msg.ev = "removed" /\ got[g] = Gone(thr[t].msg.rev)
    <3>1. thr[t].msg.rev <= driver[g].rev /\ (thr[t].msg.rev = driver[g].rev => driver[g] = Gone(thr[t].msg.rev))
      BY <1>4, <2>2 DEF Honest
    <3> QED BY <1>3, <1>9, <2>2, <3>1 DEF FitsNext
  <2>3. CASE GetFails(t) /\ got[g] = Gone(driver[g].rev)
    BY <1>3, <1>6, <1>9, <2>0, <2>3 DEF FitsNext
  <2> QED BY <1>1, <2>1, <2>2, <2>3
<1>11. \A i \in 1 .. Len(port) : Honest(port[i])
  BY DEF Truthful
<1>12. \A u \in Threads : thr'[u].pc \in {"call", "apply"} => Honest(thr'[u].msg)
  BY <1>2, <1>4 DEF Truthful
<1>13. \A u \in Threads : thr'[u].pc = "apply" => \A g \in DOMAIN thr'[u].got : FitsNext(thr'[u].got[g], g)
  <2>1. \A u \in Threads : thr[u].pc = "apply" => \A g \in DOMAIN thr[u].got : g \in Guids /\ Fits(thr[u].got[g], g)
    BY ThreadShape DEF Truthful
  <2> QED BY <1>2, <1>8, <1>10, <2>1
<1>14. \A g \in Guids :
         /\ FitsNext(m_Rules[g], g) /\ driver[g].rev <= changes
         /\ driver[g].rev = 0 => driver[g] = Gone(0)
         /\ newest[g] <= driver[g].rev
         /\ g \notin overtaken => m_Rules[g].rev = newest[g]
  BY <1>8 DEF Truthful
<1> QED BY <1>3, <1>7, <1>11, <1>12, <1>13, <1>14 DEF Truthful, Honest, Fits, FitsNext

\* A full load that fails.
LEMMA LoadFailsTruthful ==
    ASSUME TypeOK, Here, Truthful, NEW t \in Threads, LoadFails(t)
    PROVE  Truthful'
<1>1. thr'[t].pc = "idle" /\ \A u \in Threads : u # t => thr'[u] = thr[u]
  BY DoneType DEF LoadFails
<1>2. UNCHANGED <<driver, port, changes, m_Rules, newest, overtaken>>
  BY DEF LoadFails, driverVars
<1>3. \A g \in Guids : missed'[g] = missed[g] \/ missed'[g] = driver[g].rev
  BY DEF LoadFails, MissedNow
<1>4. \A g \in Guids : missed'[g] <= driver[g].rev
  BY <1>3, RevTypes DEF Truthful
<1>5. \A r, g : g \in Guids /\ Fits(r, g) => FitsNext(r, g)
  BY <1>2, <1>3 DEF Fits, FitsNext
<1>6. \A u \in Threads : thr'[u].pc \in {"call", "apply"} => Honest(thr'[u].msg)
  BY <1>1 DEF Truthful
<1>7. \A u \in Threads : thr'[u].pc = "apply" => \A g \in DOMAIN thr'[u].got : FitsNext(thr'[u].got[g], g)
  <2>1. \A u \in Threads : thr[u].pc = "apply" => \A g \in DOMAIN thr[u].got : g \in Guids /\ Fits(thr[u].got[g], g)
    BY ThreadShape DEF Truthful
  <2> QED BY <1>1, <1>5, <2>1
<1>8. \A g \in Guids :
        /\ FitsNext(m_Rules[g], g) /\ driver[g].rev <= changes
        /\ driver[g].rev = 0 => driver[g] = Gone(0)
        /\ newest[g] <= driver[g].rev
        /\ g \notin overtaken => m_Rules[g].rev = newest[g]
  BY <1>5 DEF Truthful
<1>9. \A i \in 1 .. Len(port) : Honest(port[i])
  BY DEF Truthful
<1> QED BY <1>2, <1>4, <1>6, <1>7, <1>8, <1>9 DEF Truthful, Honest, Fits, FitsNext

\* Applying what a thread holds.
LEMMA ApplyTruthful ==
    ASSUME TypeOK, Here, Truthful, NEW t \in Threads, Apply(t)
    PROVE  /\ Truthful'
           /\ UNCHANGED <<driver, port, changes, missed>>
           /\ \A g \in Guids : newest'[g] >= newest[g]
           /\ \A g \in thr[t].msg.about : newest'[g] >= thr[t].got[g].rev
<1> DEFINE got == thr[t].got
<1>1. thr'[t].pc = "idle" /\ \A u \in Threads : u # t => thr'[u] = thr[u]
  BY DoneType DEF Apply
<1>2. UNCHANGED <<driver, port, changes, missed>>
  BY DEF Apply, driverVars
<1>3. thr[t].pc = "apply" /\ DOMAIN got = thr[t].msg.about /\ thr[t].msg.about \subseteq Guids
  BY ThreadShape DEF Apply
<1>4. \A g \in Guids : m_Rules'[g] = IF g \in DOMAIN got THEN got[g] ELSE m_Rules[g]
  BY <1>3, MergedType
<1>5. /\ newest' = [g \in Guids |-> IF g \in DOMAIN got /\ got[g].rev > newest[g] THEN got[g].rev ELSE newest[g]]
      /\ overtaken' = (overtaken \ DOMAIN got) \cup {g \in DOMAIN got : got[g].rev < newest[g]}
  BY DEF Apply
<1>6. /\ \A g \in Guids : newest[g] \in Nat /\ driver[g].rev \in Nat
      /\ \A g \in DOMAIN got : g \in Guids /\ got[g].rev \in Nat /\ Fits(got[g], g)
  BY <1>3, RevTypes DEF Truthful
<1> HIDE DEF got
<1>7. ASSUME NEW g \in Guids
      PROVE  /\ Fits(m_Rules'[g], g)
             /\ newest'[g] <= driver[g].rev /\ newest'[g] >= newest[g]
             /\ g \in DOMAIN got => newest'[g] >= got[g].rev
             /\ g \notin overtaken' => m_Rules'[g].rev = newest'[g]
  <2>1. Fits(m_Rules[g], g) /\ newest[g] <= driver[g].rev /\ (g \notin overtaken => m_Rules[g].rev = newest[g])
    BY DEF Truthful
  <2>2. CASE g \notin DOMAIN got
    BY <1>4, <1>5, <1>6, <2>1, <2>2
  <2>3. CASE g \in DOMAIN got
    <3>1. m_Rules'[g] = got[g] /\ Fits(got[g], g) /\ got[g].rev <= driver[g].rev
      BY <1>4, <1>6, <2>3 DEF Fits
    <3>2. newest'[g] = IF got[g].rev > newest[g] THEN got[g].rev ELSE newest[g]
      BY <1>5, <2>3
    <3>3. g \notin overtaken' => ~(got[g].rev < newest[g])
      BY <1>5, <2>3
    <3> QED BY <1>6, <2>1, <2>3, <3>1, <3>2, <3>3
  <2> QED BY <2>2, <2>3
<1>8. \A u \in Threads : thr'[u].pc \in {"call", "apply"} => Honest(thr'[u].msg)
  BY <1>1 DEF Truthful
<1>9. \A u \in Threads : thr'[u].pc = "apply" => \A g \in DOMAIN thr'[u].got : Fits(thr'[u].got[g], g)
  BY <1>1 DEF Truthful
<1>10. /\ \A i \in 1 .. Len(port) : Honest(port[i])
       /\ \A g \in Guids : /\ driver[g].rev <= changes /\ missed[g] <= driver[g].rev
                           /\ driver[g].rev = 0 => driver[g] = Gone(0)
  BY DEF Truthful
<1>11. Truthful'
  BY <1>2, <1>7, <1>8, <1>9, <1>10 DEF Truthful, Honest, Fits
<1> QED BY <1>2, <1>3, <1>7, <1>11 DEF got

LEMMA TruthfulStep ==
    ASSUME TypeOK, Here, Truthful, StepCase
    PROVE  Truthful'
<1>1. ASSUME NEW h \in Handlers, TakeNotification(h) PROVE Truthful'
  <2>1. h \in Threads /\ port \in Seq(Message) /\ port # <<>>
    BY <1>1 DEF Threads, TypeOK, TakeNotification
  <2>2. /\ Head(port) = port[1] /\ 1 \in 1 .. Len(port) /\ Head(port) \in Message
        /\ \A i \in 1 .. Len(Tail(port)) : Tail(port)[i] = port[i + 1] /\ i + 1 \in 1 .. Len(port)
    BY <2>1
  <2>3. thr'[h].pc = "call" /\ thr'[h].msg = Head(port) /\ \A u \in Threads : u # h => thr'[u] = thr[u]
    BY <1>1, <2>1, <2>2, CallType DEF TakeNotification
  <2>4. UNCHANGED <<driver, changes, m_Rules, newest, missed, overtaken>> /\ port' = Tail(port)
    BY <1>1 DEF TakeNotification, cacheVars
  <2>5. \A i \in 1 .. Len(port') : Honest(port'[i])
    BY <2>2, <2>4 DEF Truthful
  <2>6. \A u \in Threads : thr'[u].pc \in {"call", "apply"} => Honest(thr'[u].msg)
    BY <2>2, <2>3 DEF Truthful
  <2>7. \A u \in Threads : thr'[u].pc = "apply" => \A g \in DOMAIN thr'[u].got : Fits(thr'[u].got[g], g)
    BY <2>3 DEF Truthful
  <2> QED BY <2>4, <2>5, <2>6, <2>7 DEF Truthful, Honest, Fits
<1>2. ASSUME StartLoad PROVE Truthful'
  <2> DEFINE m == [ev |-> "all", about |-> Guids, rev |-> 0]
  <2>1. m \in Message /\ m.ev = "all" /\ m.about = Guids
    BY DEF Message
  <2>2. Honest(m)
    BY <2>1 DEF Honest
  <2>3. thr' = [thr EXCEPT ![Timer] = [pc |-> "call", msg |-> m]] /\ Timer \in Threads
    BY <1>2 DEF StartLoad, Threads
  <2> HIDE DEF m
  <2>4. thr'[Timer].pc = "call" /\ thr'[Timer].msg = m /\ \A u \in Threads : u # Timer => thr'[u] = thr[u]
    BY <2>1, <2>3, CallType
  <2>5. UNCHANGED <<driver, changes, m_Rules, newest, missed, overtaken, port>>
    BY <1>2 DEF StartLoad, cacheVars, driverVars
  <2>6. \A u \in Threads : thr'[u].pc \in {"call", "apply"} => Honest(thr'[u].msg)
    BY <2>2, <2>4 DEF Truthful
  <2>7. \A u \in Threads : thr'[u].pc = "apply" => \A g \in DOMAIN thr'[u].got : Fits(thr'[u].got[g], g)
    BY <2>4 DEF Truthful
  <2> QED BY <2>5, <2>6, <2>7 DEF Truthful, Honest, Fits
<1>3. ASSUME StartAgent, UNCHANGED <<kind, driver, changes>> PROVE Truthful'
  <2>1. Len(port') = 0 /\ \A t \in Threads : thr'[t].pc = "idle"
    BY <1>3 DEF StartAgent, Idle
  <2>2. ASSUME NEW g \in Guids
        PROVE  /\ m_Rules'[g] = Gone(0) /\ newest'[g] = 0 /\ missed'[g] = 0
               /\ m_Rules'[g].rev = 0 /\ driver[g].rev \in Nat
               /\ driver[g].rev <= changes /\ (driver[g].rev = 0 => driver[g] = Gone(0))
    BY <1>3, RevTypes DEF StartAgent, Gone, Truthful
  <2>3. \A g \in Guids : FitsNext(m_Rules'[g], g)
    BY <1>3, <2>2 DEF FitsNext
  <2>4. \A g \in Guids : newest'[g] <= driver[g].rev /\ missed'[g] <= driver[g].rev /\ m_Rules'[g].rev = newest'[g]
    BY <2>2
  <2> QED BY <1>3, <2>1, <2>2, <2>3, <2>4 DEF Truthful, Fits, FitsNext
<1>4. ASSUME UNCHANGED <<kind, driverVars, cacheVars, thr>> PROVE Truthful'
  BY <1>4 DEF Truthful, Honest, Fits, driverVars, cacheVars
<1> QED BY <1>1, <1>2, <1>3, <1>4, ChangeTruthful, ReadTruthful, LoadFailsTruthful, ApplyTruthful
        DEF StepCase, ThreadStep

-----------------------------------------------------------------------------
(* Changes on their way to the map *)

\* A change stays on its way while the driver's item is the same and neither
\* the message nor the reading that has it is used up.
LEMMA StaysOnItsWay ==
    ASSUME NEW g, driver'[g] = driver[g], OnItsWay(g),
           \A i \in 1 .. Len(port) : Covers(port[i], g) =>
              \/ \E j \in 1 .. Len(port') : port'[j] = port[i]
              \/ \E h \in Handlers : thr'[h].pc = "call" /\ thr'[h].msg = port[i],
           \A h \in Handlers : thr[h].pc = "call" /\ Covers(thr[h].msg, g) =>
              \/ thr'[h] = thr[h]
              \/ thr'[h].pc = "apply" /\ g \in DOMAIN thr'[h].got /\ thr'[h].got[g].rev = driver[g].rev,
           \A t \in Threads : Brings(thr[t], g) => thr'[t] = thr[t]
    PROVE  OnItsWay(g)'
<1>1. ASSUME NEW i \in 1 .. Len(port), Covers(port[i], g) PROVE OnItsWay(g)'
  BY <1>1 DEF OnItsWay, Covers
<1>2. ASSUME NEW h \in Handlers, thr[h].pc = "call", Covers(thr[h].msg, g) PROVE OnItsWay(g)'
  <2>1. CASE thr'[h] = thr[h]
    BY <1>2, <2>1 DEF OnItsWay, Covers
  <2>2. CASE thr'[h].pc = "apply" /\ g \in DOMAIN thr'[h].got /\ thr'[h].got[g].rev = driver[g].rev
    <3>1. h \in Threads
      BY DEF Threads
    <3> QED BY <2>2, <3>1 DEF OnItsWay, Brings
  <2> QED BY <1>2, <2>1, <2>2
<1>3. ASSUME NEW t \in Threads, Brings(thr[t], g) PROVE OnItsWay(g)'
  BY <1>3 DEF OnItsWay, Brings
<1> QED BY <1>1, <1>2, <1>3 DEF OnItsWay

\* A change in the driver is on its way by its notification.
LEMMA ChangeTracked ==
    ASSUME TypeOK, Here, Truthful, Tracked, NEW S, DriverChange(S)
    PROVE  Tracked'
<1>1. PICK m \in Message :
        /\ port' = Append(port, m) /\ m.about = S
        /\ m.ev = "removed" => m.rev = changes + 1
  BY DEF DriverChange
<1>2. UNCHANGED <<cacheVars, thr>> /\ S \subseteq Guids
      /\ \A g \in Guids : IF g \in S THEN driver'[g].rev = changes + 1 ELSE driver'[g] = driver[g]
  BY DEF DriverChange
<1>3. /\ \A i \in 1 .. Len(port) : i \in 1 .. Len(port') /\ port'[i] = port[i]
      /\ Len(port) + 1 \in 1 .. Len(port') /\ port'[Len(port) + 1] = m
  <2>1. port \in Seq(Message)
    BY DEF TypeOK
  <2> QED BY <1>1, <2>1
<1>4. ASSUME NEW g \in Guids, Behind(g)', (~m_UpdateAllRules \/ Stale(g))' PROVE OnItsWay(g)'
  <2>1. CASE g \in S
    <3>1. g \in m.about /\ (m.ev = "removed" => m.rev = driver'[g].rev)
      BY <1>1, <1>2, <2>1
    <3> QED BY <1>3, <3>1 DEF OnItsWay, Covers
  <2>2. CASE g \notin S
    <3>1. driver'[g] = driver[g]
      BY <1>2, <2>2
    <3>2. Behind(g) /\ (~m_UpdateAllRules \/ Stale(g))
      BY <1>2, <1>4, <3>1 DEF Behind, Stale, cacheVars
    <3>3. OnItsWay(g)
      BY <3>2 DEF Tracked
    <3> QED BY <1>2, <1>3, <3>1, <3>3, StaysOnItsWay
  <2> QED BY <2>1, <2>2
<1> QED BY <1>4 DEF Tracked

\* A driver call brings what the message was about, or it failed.
LEMMA ReadTracked ==
    ASSUME TypeOK, Here, Truthful, Tracked, NEW t \in Threads, ReadDriver(t) \/ ReadRemoved(t) \/ GetFails(t)
    PROVE  Tracked'
<1>1. PICK got \in [thr[t].msg.about -> HereItem] :
        /\ Holding(t, got) /\ thr[t].pc = "call"
        /\ \/ /\ ReadDriver(t) /\ thr[t].msg.ev # "removed"
              /\ \A g \in thr[t].msg.about : got[g] = driver[g]
           \/ /\ ReadRemoved(t) /\ thr[t].msg.ev = "removed"
              /\ \A g \in thr[t].msg.about : got[g] = Gone(thr[t].msg.rev)
           \/ /\ GetFails(t) /\ thr[t].msg.ev = "changed"
              /\ \A g \in thr[t].msg.about : got[g] = Gone(driver[g].rev)
  BY ReadingType
<1>2. /\ thr'[t].pc = "apply" /\ thr'[t].msg = thr[t].msg /\ thr'[t].got = got
      /\ \A u \in Threads : u # t => thr'[u] = thr[u]
  BY <1>1, HoldingType
<1>3. UNCHANGED <<driver, port, newest, m_UpdateAllRules>>
  BY DEF ReadDriver, ReadRemoved, GetFails, cacheVars, driverVars
<1>4. thr[t].msg.about \subseteq Guids /\ DOMAIN got = thr[t].msg.about /\ Honest(thr[t].msg)
  BY <1>1, ThreadShape DEF Message, Truthful
<1>5. ASSUME NEW g \in Guids, Behind(g)', (~m_UpdateAllRules \/ Stale(g))' PROVE OnItsWay(g)'
  <2>1. missed'[g] = missed[g] /\ ~(GetFails(t) /\ g \in thr[t].msg.about)
    <3>1. missed'[g] # driver[g].rev
      BY <1>3, <1>5, RevTypes DEF Behind
    <3>2. CASE GetFails(t)
      <4>1. missed'[g] = IF g \in thr[t].msg.about THEN driver[g].rev ELSE missed[g]
        BY <3>2 DEF GetFails, MissedNow
      <4> QED BY <3>1, <4>1
    <3>3. CASE ~GetFails(t)
      BY <3>3 DEF ReadDriver, ReadRemoved, cacheVars
    <3> QED BY <3>2, <3>3
  <2>2. Behind(g)
    BY <1>3, <1>5, <2>1 DEF Behind
  <2>3. g \in thr[t].msg.about => \/ got[g].rev = driver[g].rev
                                  \/ thr[t].msg.ev = "removed" /\ got[g].rev = thr[t].msg.rev
    <3>1. \A n : Gone(n).rev = n
      BY DEF Gone
    <3> QED BY <1>1, <2>1, <3>1
  <2>4. Stale(g)' => Stale(g)
    <3>1. SUFFICES ASSUME NEW u \in Threads, thr'[u].pc = "apply", thr'[u].msg.ev = "all",
                          thr'[u].got[g].rev # driver[g].rev
                   PROVE  Stale(g)
      BY <1>3 DEF Stale
    <3>2. u # t
      BY <1>2, <1>4, <2>3, <3>1 DEF Honest
    <3> QED BY <1>2, <3>1, <3>2 DEF Stale
  <2>5. OnItsWay(g)
    BY <1>3, <1>5, <2>2, <2>4 DEF Tracked
  <2>6. \A u \in Threads : Brings(thr[u], g) => thr'[u] = thr[u]
    BY <1>1, <1>2 DEF Brings
  <2>7. ASSUME NEW h \in Handlers, thr[h].pc = "call", Covers(thr[h].msg, g)
        PROVE  \/ thr'[h] = thr[h]
               \/ thr'[h].pc = "apply" /\ g \in DOMAIN thr'[h].got /\ thr'[h].got[g].rev = driver[g].rev
    <3>1. h \in Threads
      BY DEF Threads
    <3>2. CASE h = t
      BY <1>2, <1>4, <2>3, <2>7, <3>2 DEF Covers
    <3> QED BY <1>2, <3>1, <3>2
  <2> QED BY <1>3, <2>5, <2>6, <2>7, StaysOnItsWay
<1> QED BY <1>5 DEF Tracked

\* A full load that fails is tried again while the first one is outstanding;
\* otherwise the changes count as missed.
LEMMA LoadFailsTracked ==
    ASSUME TypeOK, Here, Tracked, NEW t \in Threads, LoadFails(t)
    PROVE  Tracked'
<1>1. thr'[t].pc = "idle" /\ \A u \in Threads : u # t => thr'[u] = thr[u]
  BY DoneType DEF LoadFails
<1>2. UNCHANGED <<driver, port, newest, m_UpdateAllRules>> /\ thr[t].pc = "call"
  BY DEF LoadFails, driverVars
<1>3. ASSUME NEW g \in Guids, Behind(g)', (~m_UpdateAllRules \/ Stale(g))' PROVE OnItsWay(g)'
  <2>1. t = Timer /\ missed' = missed
    <3>1. missed'[g] # driver[g].rev
      BY <1>2, <1>3, RevTypes DEF Behind
    <3> QED BY <3>1 DEF LoadFails, MissedNow
  <2>2. Behind(g) /\ (~m_UpdateAllRules \/ Stale(g))
    BY <1>1, <1>2, <1>3, <2>1 DEF Behind, Stale
  <2>3. OnItsWay(g)
    BY <2>2 DEF Tracked
  <2>4. \A h \in Handlers : h \in Threads /\ h # t
    BY <2>1, RuleCacheAssumption DEF Threads
  <2>5. \A u \in Threads : Brings(thr[u], g) => thr'[u] = thr[u]
    BY <1>1, <1>2 DEF Brings
  <2> QED BY <1>1, <1>2, <2>3, <2>4, <2>5, StaysOnItsWay
<1> QED BY <1>3 DEF Tracked

\* What is applied is seen; a full load that was applied leaves no change
\* that is not on its way.
LEMMA ApplyTracked ==
    ASSUME TypeOK, Here, Truthful, Tracked, NEW t \in Threads, Apply(t)
    PROVE  Tracked'
<1>1. thr'[t].pc = "idle" /\ \A u \in Threads : u # t => thr'[u] = thr[u]
  BY DoneType DEF Apply
<1>2. /\ UNCHANGED <<driver, port, changes, missed>>
      /\ \A g \in Guids : newest'[g] >= newest[g]
      /\ \A g \in thr[t].msg.about : newest'[g] >= thr[t].got[g].rev
  BY ApplyTruthful
<1>3. /\ thr[t].pc = "apply" /\ DOMAIN thr[t].got = thr[t].msg.about /\ Honest(thr[t].msg)
      /\ (m_UpdateAllRules' <=> m_UpdateAllRules /\ thr[t].msg.ev # "all")
  BY ThreadShape DEF Apply, Truthful
<1>a. newest' \in [Guids -> Nat]
  BY CoreTypeStep DEF StepCase, ThreadStep, CoreTypes
<1>4. ASSUME NEW g \in Guids, Behind(g)', (~m_UpdateAllRules \/ Stale(g))' PROVE OnItsWay(g)'
  <2>1. newest[g] \in Nat /\ newest'[g] \in Nat /\ driver[g].rev \in Nat /\ missed[g] \in Nat
        /\ (g \in thr[t].msg.about => thr[t].got[g].rev \in Nat)
    BY <1>3, <1>a, RevTypes
  <2>2. driver[g].rev > newest'[g] /\ driver[g].rev > missed[g]
    BY <1>2, <1>4 DEF Behind
  <2>3. Behind(g)
    BY <1>2, <2>1, <2>2 DEF Behind
  <2>4. g \in thr[t].msg.about => thr[t].got[g].rev # driver[g].rev
    BY <1>2, <2>1, <2>2
  <2>5. Stale(g)' => Stale(g)
    BY <1>1, <1>2 DEF Stale
  <2>6. m_UpdateAllRules /\ ~m_UpdateAllRules' => Stale(g)
    BY <1>3, <2>4 DEF Stale, Honest
  <2>7. OnItsWay(g)
    BY <1>4, <2>3, <2>5, <2>6 DEF Tracked
  <2>8. \A u \in Threads : Brings(thr[u], g) => thr'[u] = thr[u]
    BY <1>1, <1>3, <2>4 DEF Brings
  <2>9. \A h \in Handlers : thr[h].pc = "call" => thr'[h] = thr[h]
    BY <1>1, <1>3 DEF Threads
  <2> QED BY <1>2, <2>7, <2>8, <2>9, StaysOnItsWay
<1> QED BY <1>4 DEF Tracked

LEMMA TrackedStep ==
    ASSUME TypeOK, Here, Truthful, Tracked, StepCase
    PROVE  Tracked'
<1>1. ASSUME NEW h \in Handlers, TakeNotification(h) PROVE Tracked'
  <2>1. h \in Threads /\ port \in Seq(Message) /\ port # <<>> /\ thr[h] = Idle
    BY <1>1 DEF Threads, TypeOK, TakeNotification
  <2>2. /\ Head(port) \in Message
        /\ \A i \in 1 .. Len(port) : port[i] = Head(port) \/ \E j \in 1 .. Len(Tail(port)) : Tail(port)[j] = port[i]
    <3>1. ASSUME NEW i \in 1 .. Len(port)
          PROVE  port[i] = Head(port) \/ \E j \in 1 .. Len(Tail(port)) : Tail(port)[j] = port[i]
      <4>1. CASE i = 1
        BY <2>1, <4>1
      <4>2. CASE i # 1
        <5>1. i - 1 \in 1 .. Len(Tail(port)) /\ Tail(port)[i - 1] = port[i]
          BY <2>1, <4>2
        <5> QED BY <5>1
      <4> QED BY <4>1, <4>2
    <3> QED BY <2>1, <3>1
  <2>3. thr'[h].pc = "call" /\ thr'[h].msg = Head(port) /\ \A u \in Threads : u # h => thr'[u] = thr[u]
    BY <1>1, <2>1, <2>2, CallType DEF TakeNotification
  <2>4. UNCHANGED <<driver, newest, missed, m_UpdateAllRules>> /\ port' = Tail(port)
    BY <1>1 DEF TakeNotification, cacheVars
  <2>5. thr[h].pc = "idle"
    BY <2>1 DEF Idle
  <2>6. \A g \in Guids : (Behind(g)' => Behind(g)) /\ (Stale(g)' => Stale(g))
    BY <2>3, <2>4 DEF Behind, Stale
  <2>7. ASSUME NEW g \in Guids, OnItsWay(g) PROVE OnItsWay(g)'
    <3>1. \A i \in 1 .. Len(port) :
            \/ \E j \in 1 .. Len(port') : port'[j] = port[i]
            \/ \E u \in Handlers : thr'[u].pc = "call" /\ thr'[u].msg = port[i]
      BY <2>2, <2>3, <2>4
    <3>2. \A u \in Handlers : thr[u].pc = "call" => thr'[u] = thr[u]
      BY <2>3, <2>5 DEF Threads
    <3>3. \A u \in Threads : Brings(thr[u], g) => thr'[u] = thr[u]
      BY <2>3, <2>5 DEF Brings
    <3> QED BY <2>4, <2>7, <3>1, <3>2, <3>3, StaysOnItsWay
  <2> QED BY <2>4, <2>6, <2>7 DEF Tracked
<1>2. ASSUME StartLoad PROVE Tracked'
  <2>1. [ev |-> "all", about |-> Guids, rev |-> 0] \in Message /\ Timer \in Threads
    BY DEF Message, Threads
  <2>2. thr'[Timer].pc = "call" /\ \A u \in Threads : u # Timer => thr'[u] = thr[u]
    BY <1>2, <2>1, CallType DEF StartLoad
  <2>3. UNCHANGED <<driver, port, newest, missed, m_UpdateAllRules>> /\ thr[Timer].pc = "idle"
    BY <1>2 DEF StartLoad, cacheVars, driverVars, Idle
  <2>4. \A g \in Guids : (Behind(g)' => Behind(g)) /\ (Stale(g)' => Stale(g))
    BY <2>2, <2>3 DEF Behind, Stale
  <2>5. ASSUME NEW g \in Guids, OnItsWay(g) PROVE OnItsWay(g)'
    <3>1. \A u \in Handlers : thr[u].pc = "call" => thr'[u] = thr[u]
      BY <2>2, <2>3 DEF Threads
    <3>2. \A u \in Threads : Brings(thr[u], g) => thr'[u] = thr[u]
      BY <2>2, <2>3 DEF Brings
    <3> QED BY <2>3, <2>5, <3>1, <3>2, StaysOnItsWay
  <2> QED BY <2>3, <2>4, <2>5 DEF Tracked
<1>3. ASSUME StartAgent PROVE Tracked'
  <2>1. m_UpdateAllRules' = TRUE /\ \A t \in Threads : thr'[t].pc = "idle"
    BY <1>3 DEF StartAgent, Idle
  <2> QED BY <2>1 DEF Tracked, Stale
<1>4. ASSUME UNCHANGED <<kind, driverVars, cacheVars, thr>> PROVE Tracked'
  BY <1>4 DEF Tracked, Behind, Stale, OnItsWay, Covers, Brings, driverVars, cacheVars
<1> QED BY <1>1, <1>2, <1>3, <1>4, ChangeTracked, ReadTracked, LoadFailsTracked, ApplyTracked
        DEF StepCase, ThreadStep

LEMMA ReadingsInit == Init => Truthful /\ Tracked
<1> SUFFICES ASSUME Init PROVE Truthful /\ Tracked
  OBVIOUS
<1>1. PICK p \in [Guids -> PathsHere \cup {None}] :
        driver = [g \in Guids |-> [path |-> p[g], temp |-> FALSE, rev |-> IF p[g] = None THEN 0 ELSE 1]]
  BY DEF Init
<1>2. ASSUME NEW g \in Guids
      PROVE  /\ driver[g].rev \in Nat /\ driver[g].rev <= changes
             /\ driver[g].rev = 0 => driver[g] = Gone(0)
  <2>1. changes = 1
    BY DEF Init
  <2>2. CASE p[g] = None
    <3>1. driver[g] = Gone(0) /\ Gone(0).rev = 0
      BY <1>1, <2>2 DEF Gone
    <3> QED BY <2>1, <3>1
  <2>3. CASE p[g] # None
    <3>1. driver[g].rev = 1
      BY <1>1, <2>3
    <3> QED BY <2>1, <3>1
  <2> QED BY <2>2, <2>3
<1>3. ASSUME NEW g \in Guids
      PROVE  m_Rules[g] = Gone(0) /\ m_Rules[g].rev = 0 /\ newest[g] = 0 /\ missed[g] = 0
  BY DEF Init, Gone
<1>4. Len(port) = 0 /\ m_UpdateAllRules /\ \A t \in Threads : thr[t].pc = "idle"
  BY DEF Init, Idle
<1>5. \A g \in Guids : Fits(m_Rules[g], g) /\ newest[g] <= driver[g].rev /\ missed[g] <= driver[g].rev
  BY <1>2, <1>3 DEF Fits
<1>6. Truthful
  BY <1>2, <1>3, <1>4, <1>5 DEF Truthful
<1> QED BY <1>4, <1>6 DEF Tracked, Stale

\* The four parts hold together in every reachable state.
LEMMA ReadingsInv == Spec => [](TypeOK /\ Here /\ Truthful /\ Tracked)
<1>1. TypeOK /\ Here /\ Truthful /\ Tracked /\ [Next]_vars => (Truthful /\ Tracked)'
  BY StepCases, TruthfulStep, TrackedStep
<1> QED BY <1>1, ReadingsInit, TypeInit, TypeStep, PTL DEF Spec

\* Once everything is handled, nobody has overlooked a change of the driver:
\* the newest state of every item was applied, or the call to read it failed.
THEOREM ChangesAreSeen == Spec => []NoChangeMissed
<1>1. TypeOK /\ Here /\ Truthful /\ Tracked => NoChangeMissed
  <2> SUFFICES ASSUME Tracked, AtRest, NEW g \in Guids, Behind(g) PROVE FALSE
    BY DEF NoChangeMissed
  <2>1. \A t \in Threads : thr[t].pc = "idle"
    BY DEF AtRest, Idle
  <2>2. Len(port) = 0 /\ ~m_UpdateAllRules
    BY DEF AtRest
  <2>3. OnItsWay(g)
    BY <2>2 DEF Tracked
  <2> QED BY <2>1, <2>2, <2>3 DEF OnItsWay, Brings, Threads
<1> QED BY <1>1, ReadingsInv, PTL

\* Once everything is handled, the map is the driver's except where an older
\* reading was applied after a newer one or a failed read passed for a removal.
THEOREM WrongIsExplained == Spec => []WrongOnlyIfOvertaken
<1>1. TypeOK /\ Here /\ Truthful /\ NoChangeMissed => WrongOnlyIfOvertaken
  <2> SUFFICES ASSUME TypeOK, Here, Truthful, NoChangeMissed, AtRest, NEW g \in Guids,
                      g \notin overtaken, missed[g] # driver[g].rev
               PROVE  m_Rules[g] = driver[g]
    BY DEF WrongOnlyIfOvertaken
  <2>1. driver[g].rev \in Nat /\ newest[g] \in Nat /\ missed[g] \in Nat
    BY RevTypes
  <2>2. /\ Fits(m_Rules[g], g) /\ newest[g] <= driver[g].rev /\ missed[g] <= driver[g].rev
        /\ m_Rules[g].rev = newest[g]
    BY DEF Truthful
  <2>3. ~(driver[g].rev > newest[g] /\ driver[g].rev > missed[g])
    BY DEF NoChangeMissed, Behind
  <2>4. m_Rules[g].rev = driver[g].rev
    BY <2>1, <2>2, <2>3
  <2> QED BY <2>2, <2>4 DEF Fits
<1> QED BY <1>1, ReadingsInv, ChangesAreSeen, PTL

-----------------------------------------------------------------------------
(* Expired rules *)

LEMMA PurgingStep ==
    ASSUME TypeOK, Purging, [Next]_vars
    PROVE  Purging'
<1>1. ASSUME NEW t \in Threads, ThreadStep(t) PROVE purge' = {} \/ UNCHANGED <<purge, m_Rules>>
  BY <1>1 DEF ThreadStep, ReadDriver, ReadRemoved, GetFails, LoadFails, Apply, cacheVars
<1>2. ASSUME \E h \in Handlers : HandlerNext(h) PROVE purge' = {} \/ UNCHANGED <<purge, m_Rules>>
  BY <1>1, <1>2 DEF HandlerNext, TakeNotification, Threads, cacheVars
<1>3. ASSUME TimerNext PROVE purge' = {} \/ (purge' \subseteq purge /\ m_Rules' = m_Rules)
  BY <1>1, <1>3 DEF TimerNext, StartLoad, PurgeOne, Threads, cacheVars
<1>4. ASSUME StartPurge PROVE m_Rules' = m_Rules /\ \A g \in purge' : m_Rules[g].temp
  BY <1>4 DEF StartPurge, cacheVars
<1>5. ASSUME Environment, ~StartPurge PROVE purge' = {} \/ UNCHANGED <<purge, m_Rules>>
  BY <1>5 DEF Environment, AddRule, RemoveRule, ReplaceRules, RemoveProgramFrom, RemoveAllRules, RemoveProgramImpl,
              StartScript, EndScript, UseState, ReloadFaults, RestartAgent, StartAgent, cacheVars
<1>6. ASSUME UNCHANGED vars PROVE UNCHANGED <<purge, m_Rules>>
  BY <1>6 DEF vars, cacheVars
<1> QED BY <1>2, <1>3, <1>4, <1>5, <1>6 DEF Purging, Next

\* PurgeExpired, which decides by the map, deletes nothing in the driver but
\* rules that expire and rules the map has not caught up with.
THEOREM OnlyExpiringArePurged == Spec => PurgesOnlyExpiring
<1>1. Init => Purging
  BY DEF Init, Purging
<1>2. TypeOK /\ Purging /\ [Next]_vars => Purging'
  BY PurgingStep
<1>3. TypeOK /\ Here /\ Truthful /\ Purging /\ [Next]_vars =>
        [\A g \in Guids : g \in purge /\ g \notin purge' /\ driver'[g] # driver[g]
            => driver[g].temp \/ m_Rules[g].rev # driver[g].rev]_vars
  <2> SUFFICES ASSUME TypeOK, Here, Truthful, Purging, NEW g \in Guids, g \in purge,
                      m_Rules[g].rev = driver[g].rev
               PROVE  driver[g].temp
    OBVIOUS
  <2>1. m_Rules[g].temp = TRUE
    <3>1. m_Rules[g] \in HereItem /\ m_Rules[g].temp
      BY RevTypes DEF Purging
    <3> QED BY <3>1, Zenon DEF HereItem
  <2>2. m_Rules[g] = driver[g] \/ m_Rules[g] = Gone(driver[g].rev)
    BY DEF Truthful, Fits
  <2>3. Gone(driver[g].rev).temp = FALSE
    BY DEF Gone
  <2> QED BY <2>1, <2>2, <2>3
<1> QED BY <1>1, <1>2, <1>3, ReadingsInv, PTL DEF Spec, PurgesOnlyExpiring
=============================================================================
