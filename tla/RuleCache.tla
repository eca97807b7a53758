----------------------------- MODULE RuleCache -----------------------------
(***************************************************************************)
(* The agent's copies of what the driver enforces: access rules            *)
(* (CAccessManager), program rules (CProgramManager), enclaves             *)
(* (CEnclaveManager) and hashes (CHashDB).  The four managers follow one   *)
(* scheme: a change is made in the driver only, the driver notifies, a     *)
(* thread of the filter port's pool reads the changed item back and        *)
(* applies it under the manager's mutex.  A full reload runs at start, is  *)
(* retried by the timer, and runs again when everything changed.  What     *)
(* differs between the four is told apart by the variable kind.            *)
(*                                                                         *)
(* An item's contents are its program path, whether it expires and the     *)
(* number of the change that made them; an item that is not there has no   *)
(* path.  The program items that list the rules of their path, and the     *)
(* store of script state (ScriptState), are part of the model because the  *)
(* same handlers keep them in step.                                        *)
(***************************************************************************)
EXTENDS Integers, Sequences, ScriptState

CONSTANTS
    Kinds,        \* managers to model: subset of {"Access","Program","Enclave","Hash"}
    Guids,        \* items
    Paths,        \* program paths
    Handlers,     \* threads of the filter port's pool
    Timer,        \* the thread that runs Init and then Update once a second
    MaxChanges,   \* bound on changes requested of the driver
    MaxFaults     \* bound on failing driver calls and restarts of the agent

ASSUME RuleCacheAssumption ==
    /\ Kinds \subseteq {"Access", "Program", "Enclave", "Hash"}
    /\ Scripts \subseteq Guids
    /\ Timer \notin Handlers
    /\ MaxChanges \in Nat /\ MaxFaults \in Nat

VARIABLES
    kind,              \* the manager modelled
    driver,            \* item -> contents in the driver
    port,              \* notifications the driver has sent
    m_Rules,           \* item -> contents in the agent's map
    m_UpdateAllRules,  \* a full load has not succeeded yet
    thr,               \* thread -> handler under way
    m_Items,           \* paths that have a program item
    rulesOf,           \* path -> items its program item lists
    removal,           \* RemoveProgramFrom of a client
    purge,             \* expired rules PurgeExpired has still to remove
    running,           \* items whose script runs
    changes, faults,   \* counters for the bounds
    newest,            \* history: item -> newest change applied to m_Rules
    missed,            \* history: item -> newest change whose reading failed
    overtaken,         \* history: items whose last reading was older than
                       \*   one applied before
    orphans,           \* history: items listed when their program item went
    late,              \* history: scripts that stored something while their
                       \*   item was not in m_Rules
    unclean            \* history: enclaves a reload dropped

driverVars  == <<driver, port, changes>>
cacheVars   == <<m_Rules, m_UpdateAllRules, newest, missed, overtaken>>
itemVars    == <<m_Items, rulesOf, removal, orphans>>
scriptVars  == <<m_PrivateState, m_GlobalStates, running, late, unclean>>
vars == <<kind, driverVars, cacheVars, thr, itemVars, purge, scriptVars,
          faults>>

None    == "none"
Threads == Handlers \cup {Timer}
Idle    == [pc |-> "idle"]

(* Only rules have a path and are listed by program items. *)
HasPaths  == kind \in {"Access", "Program"}
PathsHere == IF HasPaths THEN Paths ELSE {"any"}

Item     == [path : Paths \cup {"any", None}, temp : BOOLEAN, rev : Nat]
Gone(n)  == [path |-> None, temp |-> FALSE, rev |-> n]
Cached(g) == m_Rules[g].path # None

------------------------------------------------------------------------
(* The driver: a change takes effect at once and is notified in order.     *)

Set(g, p, t) ==
    /\ driver' = [driver EXCEPT ![g] = [path |-> p, temp |-> t, rev |-> changes + 1]]
    /\ port' = Append(port, [ev |-> "changed", about |-> {g}, rev |-> changes + 1])
    /\ changes' = changes + 1

Delete(g) ==
    /\ driver[g].path # None
    /\ driver' = [driver EXCEPT ![g] = Gone(changes + 1)]
    /\ port' = Append(port, [ev |-> "removed", about |-> {g}, rev |-> changes + 1])
    /\ changes' = changes + 1

(* AddRule, AddEnclave, SetEntry: the request of a client, a preset or a   *)
(* volume.  The map is not touched: "will be done by the notification      *)
(* event".  Only access rules are purged when they expire.                 *)
AddRule(g) ==
    /\ changes < MaxChanges
    /\ \E p \in PathsHere, t \in {FALSE, kind = "Access"} : Set(g, p, t)
    /\ UNCHANGED <<kind, cacheVars, thr, itemVars, purge, scriptVars, faults>>

RemoveRule(g) ==
    /\ changes < MaxChanges
    /\ Delete(g)
    /\ UNCHANGED <<kind, cacheVars, thr, itemVars, purge, scriptVars, faults>>

(* The driver's configuration is replaced as a whole: one notification.    *)
ReplaceRules ==
    /\ changes < MaxChanges
    /\ \E p \in [Guids -> PathsHere \cup {None}] :
         driver' = [g \in Guids |-> [path |-> p[g], temp |-> FALSE, rev |-> changes + 1]]
    /\ port' = Append(port, [ev |-> "all", about |-> Guids, rev |-> changes + 1])
    /\ changes' = changes + 1
    /\ UNCHANGED <<kind, cacheVars, thr, itemVars, purge, scriptVars, faults>>

------------------------------------------------------------------------
(* Notifications and reloads.                                              *)

(* A thread of the pool takes the next notification off the port.          *)
TakeNotification(h) ==
    /\ thr[h] = Idle
    /\ port # <<>>
    /\ thr' = [thr EXCEPT ![h] = [pc |-> "call", msg |-> Head(port)]]
    /\ port' = Tail(port)
    /\ UNCHANGED <<kind, driver, changes, cacheVars, itemVars, purge, scriptVars,
                   faults>>

(* Mutant of StartLoad: the load is retried only for a map that has rules. *)
StartLoadIfAny ==
    /\ thr[Timer] = Idle
    /\ purge = {}
    /\ m_UpdateAllRules
    /\ \E g \in Guids : Cached(g)
    /\ thr' = [thr EXCEPT ![Timer] =
                 [pc |-> "call", msg |-> [ev |-> "all", about |-> Guids, rev |-> 0]]]
    /\ UNCHANGED <<kind, driverVars, cacheVars, itemVars, purge, scriptVars,
                   faults>>

(* Init, and Update once a second: load everything that is not loaded yet. *)
StartLoad ==
    /\ thr[Timer] = Idle
    /\ purge = {}
    /\ m_UpdateAllRules
    /\ thr' = [thr EXCEPT ![Timer] =
                 [pc |-> "call", msg |-> [ev |-> "all", about |-> Guids, rev |-> 0]]]
    /\ UNCHANGED <<kind, driverVars, cacheVars, itemVars, purge, scriptVars,
                   faults>>

(* What the thread holds between its driver call and the mutex: for each   *)
(* item the call was about, what the driver said.  OnRuleChanged hands it  *)
(* to the volume manager before it applies it.                             *)
Holding(t, got) ==
    thr' = [thr EXCEPT ![t] = [pc |-> "apply", msg |-> thr[t].msg, got |-> got]]

(* GET_ACCESS_RULE or GET_ACCESS_RULES answers with what is there now.     *)
ReadDriver(t) ==
    /\ thr[t].pc = "call"
    /\ thr[t].msg.ev # "removed"
    /\ Holding(t, [g \in thr[t].msg.about |-> driver[g]])
    /\ UNCHANGED <<kind, driverVars, cacheVars, itemVars, purge, scriptVars,
                   faults>>

(* eRemoved: the driver is not asked.                                      *)
ReadRemoved(t) ==
    /\ thr[t].pc = "call"
    /\ thr[t].msg.ev = "removed"
    /\ Holding(t, [g \in thr[t].msg.about |-> Gone(thr[t].msg.rev)])
    /\ UNCHANGED <<kind, driverVars, cacheVars, itemVars, purge, scriptVars,
                   faults>>

MissedNow(S) == [g \in Guids |-> IF g \in S THEN driver[g].rev ELSE missed[g]]

(* An item that cannot be read is taken for removed.                       *)
GetFails(t) ==
    /\ faults < MaxFaults
    /\ thr[t].pc = "call"
    /\ thr[t].msg.ev = "changed"
    /\ Holding(t, [g \in thr[t].msg.about |-> Gone(driver[g].rev)])
    /\ missed' = MissedNow(thr[t].msg.about)
    /\ faults' = faults + 1
    /\ UNCHANGED <<kind, driverVars, m_Rules, m_UpdateAllRules, newest, overtaken,
                   itemVars, purge, scriptVars>>

(* Mutant of LoadFails: the flag is cleared before the call has succeeded. *)
LoadFailsForGood(t) ==
    /\ faults < MaxFaults
    /\ thr[t].pc = "call"
    /\ thr[t].msg.ev = "all"
    /\ thr' = [thr EXCEPT ![t] = Idle]
    /\ missed' = IF t = Timer THEN missed ELSE MissedNow(Guids)
    /\ m_UpdateAllRules' = FALSE
    /\ faults' = faults + 1
    /\ UNCHANGED <<kind, driverVars, m_Rules, newest, overtaken, itemVars, purge, scriptVars>>

(* A load that fails returns at once and leaves m_UpdateAllRules as it is: *)
(* the timer tries again only while the first load is outstanding.         *)
LoadFails(t) ==
    /\ faults < MaxFaults
    /\ thr[t].pc = "call"
    /\ thr[t].msg.ev = "all"
    /\ thr' = [thr EXCEPT ![t] = Idle]
    /\ missed' = IF t = Timer THEN missed ELSE MissedNow(Guids)
    /\ faults' = faults + 1
    /\ UNCHANGED <<kind, driverVars, m_Rules, m_UpdateAllRules, newest, overtaken,
                   itemVars, purge, scriptVars>>

(* Of the items got is about: the ones that leave the map, for good or     *)
(* because their path changed, and the ones that enter it.                 *)
Leaving(got)  == {g \in DOMAIN got : Cached(g) /\ got[g].path # m_Rules[g].path}
Entering(got) == {g \in DOMAIN got : got[g].path # None /\ got[g].path # m_Rules[g].path}

(* Mutant of Cleaned: only a rule that moves to another program is cleaned. *)
CleanedIfMoved(ev, got) == {g \in Leaving(got) : got[g].path # None}

(* Items whose script state goes with them: LoadEnclaves erases without    *)
(* the cleanup that OnEnclaveChanged does, hashes have no scripts.         *)
Cleaned(ev, got) ==
    CASE HasPaths         -> Leaving(got)
      [] kind = "Enclave" -> IF ev = "all" THEN {} ELSE Leaving(got)
      [] kind = "Hash"    -> {}

(* Mutant of Relist: a moved rule stays in the list of its old program.    *)
RelistOnly(got) ==
    /\ m_Items' = IF HasPaths THEN m_Items \cup {got[g].path : g \in Entering(got)}
                  ELSE m_Items
    /\ rulesOf' = [p \in Paths |-> rulesOf[p] \cup {g \in Entering(got) : got[g].path = p}]
    /\ orphans' = orphans \ Leaving(got)

(* Mutant of Relist: enclaves and hashes are listed as well.               *)
RelistAll(got) ==
    /\ m_Items' = m_Items \cup {got[g].path : g \in Entering(got)}
    /\ rulesOf' = [p \in Paths |-> (rulesOf[p] \ Leaving(got))
                     \cup {g \in Entering(got) : got[g].path = p}]
    /\ orphans' = orphans \ Leaving(got)

(* AddResRule and RemoveResRule: the item of the new path is made when it  *)
(* is missing, the item of the old one is asked only if it is there.       *)
Relist(got) ==
    /\ m_Items' = IF HasPaths THEN m_Items \cup {got[g].path : g \in Entering(got)}
                  ELSE m_Items
    /\ rulesOf' = [p \in Paths |-> (rulesOf[p] \ Leaving(got))
                     \cup {g \in Entering(got) : got[g].path = p}]
    /\ orphans' = orphans \ Leaving(got)

(* Mutant of Merged: what is gone in the driver is not removed.            *)
MergedKeepsOld(got) ==
    [g \in Guids |-> IF g \in DOMAIN got /\ got[g].path # None THEN got[g] ELSE m_Rules[g]]

(* The map after the readings got: updated in place or replaced.           *)
Merged(got) == [g \in Guids |-> IF g \in DOMAIN got THEN got[g] ELSE m_Rules[g]]

(* UpdateRule, or the second half of LoadRules, under the mutex.  An item  *)
(* whose path is unchanged is updated in place; otherwise it is removed    *)
(* with its script state and added anew.                                   *)
Apply(t) ==
    /\ thr[t].pc = "apply"
    /\ purge = {}
    /\ LET got == thr[t].got
           ev  == thr[t].msg.ev
       IN /\ m_Rules' = Merged(got)
          /\ newest' = [g \in Guids |->
                          IF g \in DOMAIN got /\ got[g].rev > newest[g]
                          THEN got[g].rev ELSE newest[g]]
          /\ overtaken' = (overtaken \ DOMAIN got)
                             \cup {g \in DOMAIN got : got[g].rev < newest[g]}
          /\ m_UpdateAllRules' = (m_UpdateAllRules /\ ev # "all")
          /\ Relist(got)
          /\ CleanupScriptState(Cleaned(ev, got))
          /\ late' = late \ Cleaned(ev, got)
          /\ unclean' = IF kind = "Enclave" /\ ev = "all"
                        THEN unclean \cup Leaving(got) ELSE unclean \ Cleaned(ev, got)
    /\ thr' = [thr EXCEPT ![t] = Idle]
    /\ UNCHANGED <<kind, driverVars, missed, removal, purge, running, faults>>

------------------------------------------------------------------------
(* Mutant of StartPurge: every rule of the map is taken for expired.       *)
StartPurgeAll ==
    /\ kind = "Access"
    /\ thr[Timer] = Idle
    /\ purge = {}
    /\ purge' = {g \in Guids : Cached(g)}
    /\ UNCHANGED <<kind, driverVars, cacheVars, thr, itemVars, scriptVars, faults>>

(* PurgeExpired, once a minute: under the mutex, one driver call for each  *)
(* rule whose copy in the map has expired.  Time passes unseen: a rule     *)
(* that expires may have expired by now.                                   *)
StartPurge ==
    /\ kind = "Access"
    /\ thr[Timer] = Idle
    /\ purge = {}
    /\ \E S \in SUBSET {g \in Guids : m_Rules[g].temp} : S # {} /\ purge' = S
    /\ UNCHANGED <<kind, driverVars, cacheVars, thr, itemVars, scriptVars, faults>>

PurgeOne(g) ==
    /\ g \in purge
    /\ purge' = purge \ {g}
    /\ IF driver[g].path # None THEN Delete(g) ELSE UNCHANGED driverVars
    /\ UNCHANGED <<kind, cacheVars, thr, itemVars, scriptVars, faults>>

------------------------------------------------------------------------
(* RemoveProgramFrom for a program that goes for good, also called by      *)
(* CleanUp.  The rules its item lists are deleted in the driver one by     *)
(* one, then the item goes; nothing is locked in between.  AddResRule      *)
(* fetches the item before it locks it, which is no different from adding  *)
(* the rule just before the item goes.                                     *)
RemoveProgramFrom(p, bDelRules) ==
    /\ changes < MaxChanges
    /\ removal = Idle
    /\ p \in m_Items
    /\ rulesOf[p] # {} => bDelRules
    /\ removal' = [pc |-> "rules", path |-> p, todo |-> rulesOf[p]]
    /\ UNCHANGED <<kind, driverVars, cacheVars, thr, m_Items, rulesOf, orphans, purge,
                   scriptVars, faults>>

(* RemoveAllRules: an error ends it, and the program stays.                *)
RemoveAllRules(g) ==
    /\ removal.pc = "rules"
    /\ g \in removal.todo
    /\ \/ /\ Delete(g)
          /\ removal' = [removal EXCEPT !.todo = @ \ {g}]
       \/ /\ driver[g].path = None
          /\ removal' = Idle
          /\ UNCHANGED driverVars
    /\ UNCHANGED <<kind, cacheVars, thr, m_Items, rulesOf, orphans, purge, scriptVars,
                   faults>>

RemoveProgramImpl ==
    /\ removal.pc = "rules"
    /\ removal.todo = {}
    /\ m_Items' = m_Items \ {removal.path}
    /\ orphans' = orphans \cup rulesOf[removal.path]
    /\ rulesOf' = [rulesOf EXCEPT ![removal.path] = {}]
    /\ removal' = Idle
    /\ UNCHANGED <<kind, driverVars, cacheVars, thr, purge, scriptVars, faults>>

------------------------------------------------------------------------
(* A script runs when an object is built from a reading (FromVariant, so   *)
(* before OnRuleChanged applies it) and when an event finds its item in    *)
(* the map.  It is not stopped when the item goes.                         *)
Building(g) == \E t \in Threads :
    /\ thr[t].pc = "apply"
    /\ thr[t].msg.ev = "changed"
    /\ g \in DOMAIN thr[t].got
    /\ thr[t].got[g].path # None

StartScript(g) ==
    /\ kind # "Hash"
    /\ Cached(g) \/ Building(g)
    /\ g \notin running
    /\ running' = running \cup {g}
    /\ UNCHANGED <<kind, driverVars, cacheVars, thr, itemVars, purge, m_PrivateState,
                   m_GlobalStates, late, unclean, faults>>

EndScript(g) ==
    /\ g \in running
    /\ running' = running \ {g}
    /\ UNCHANGED <<kind, driverVars, cacheVars, thr, itemVars, purge, m_PrivateState,
                   m_GlobalStates, late, unclean, faults>>

UseState(g) ==
    /\ g \in running
    /\ ScriptOperation(g)
    /\ late' = IF Cached(g) THEN late ELSE late \cup {g}
    /\ UNCHANGED <<kind, driverVars, cacheVars, thr, itemVars, purge, running, unclean,
                   faults>>

------------------------------------------------------------------------
(* The agent ends and is started again: everything it kept is gone, and    *)
(* so are the notifications nobody took; the driver keeps its items.       *)
StartAgent ==
    /\ port' = <<>>
    /\ m_Rules' = [g \in Guids |-> Gone(0)]
    /\ m_UpdateAllRules' = TRUE
    /\ thr' = [t \in Threads |-> Idle]
    /\ m_Items' = {}
    /\ rulesOf' = [p \in Paths |-> {}]
    /\ removal' = Idle
    /\ purge' = {}
    /\ m_PrivateState' = [s \in Scripts |-> {}]
    /\ m_GlobalStates' = [n \in Names |-> NoState]
    /\ running' = {} /\ late' = {} /\ unclean' = {} /\ orphans' = {} /\ overtaken' = {}
    /\ newest' = [g \in Guids |-> 0]
    /\ missed' = [g \in Guids |-> 0]

RestartAgent ==
    /\ faults < MaxFaults
    /\ faults' = faults + 1
    /\ StartAgent
    /\ UNCHANGED <<kind, driver, changes>>

(* CAccessManager::LoadRules uses the iterator of the entry it has just    *)
(* erased when a rule's path changed: it works as in Apply, or it faults.  *)
ReloadFaults(t) ==
    /\ kind = "Access"
    /\ thr[t].pc = "apply"
    /\ thr[t].msg.ev = "all"
    /\ purge = {}
    /\ \E g \in Leaving(thr[t].got) : thr[t].got[g].path # None
    /\ RestartAgent

------------------------------------------------------------------------
Init ==
    /\ kind \in Kinds
    /\ \E p \in [Guids -> PathsHere \cup {None}] :
         driver = [g \in Guids |-> [path |-> p[g], temp |-> FALSE,
                                    rev  |-> IF p[g] = None THEN 0 ELSE 1]]
    /\ port = <<>>
    /\ m_Rules = [g \in Guids |-> Gone(0)]
    /\ m_UpdateAllRules = TRUE
    /\ thr = [t \in Threads |-> Idle]
    /\ m_Items = {} /\ rulesOf = [p \in Paths |-> {}] /\ removal = Idle
    /\ purge = {}
    /\ ScriptInit
    /\ running = {} /\ late = {} /\ unclean = {} /\ orphans = {} /\ overtaken = {}
    /\ changes = 1 /\ faults = 0
    /\ newest = [g \in Guids |-> 0]
    /\ missed = [g \in Guids |-> 0]

ThreadStep(t) == ReadDriver(t) \/ ReadRemoved(t) \/ GetFails(t) \/ LoadFails(t) \/ Apply(t)

HandlerNext(h) == TakeNotification(h) \/ ThreadStep(h)

TimerNext == StartLoad \/ ThreadStep(Timer) \/ \E g \in Guids : PurgeOne(g)

Environment ==
    \/ \E g \in Guids : AddRule(g) \/ RemoveRule(g)
    \/ ReplaceRules
    \/ StartPurge
    \/ \E p \in Paths, bDelRules \in BOOLEAN : RemoveProgramFrom(p, bDelRules)
    \/ \E g \in Guids : RemoveAllRules(g)
    \/ RemoveProgramImpl
    \/ \E g \in Scripts : StartScript(g) \/ EndScript(g) \/ UseState(g)
    \/ \E t \in Threads : ReloadFaults(t)
    \/ RestartAgent

Next ==
    \/ \E h \in Handlers : HandlerNext(h)
    \/ TimerNext
    \/ Environment

Spec == Init /\ [][Next]_vars

(* The pool's threads and the timer's keep running; what is asked of the   *)
(* agent, and what scripts do, need not happen.  PurgeExpired gives the    *)
(* mutex back for a minute each time, so a waiting handler gets it.        *)
FairSpec ==
    /\ Spec
    /\ \A h \in Handlers : WF_vars(HandlerNext(h))
    /\ WF_vars(TimerNext)
    /\ \A t \in Threads : SF_vars(Apply(t))

------------------------------------------------------------------------
Message == [ev : {"changed", "removed", "all"}, about : SUBSET Guids, rev : Nat]

ThreadTypeOK(r) ==
    \/ r = Idle
    \/ /\ r.pc = "call"
       /\ r = [pc |-> "call", msg |-> r.msg]
       /\ r.msg \in Message
    \/ /\ r.pc = "apply"
       /\ r = [pc |-> "apply", msg |-> r.msg, got |-> r.got]
       /\ r.msg \in Message
       /\ r.got \in [r.msg.about -> Item]

(* The shape of the driver's items, the port, the map, the handlers under  *)
(* way, the program items and the script store.                            *)
TypeOK ==
    /\ kind \in Kinds
    /\ driver \in [Guids -> Item] /\ m_Rules \in [Guids -> Item]
    /\ port \in Seq(Message)
    /\ m_UpdateAllRules \in BOOLEAN
    /\ DOMAIN thr = Threads /\ \A t \in Threads : ThreadTypeOK(thr[t])
    /\ m_Items \subseteq Paths /\ rulesOf \in [Paths -> SUBSET Guids]
    /\ removal = Idle \/ removal \in [pc : {"rules"}, path : Paths, todo : SUBSET Guids]
    /\ purge \subseteq Guids
    /\ ScriptTypeOK
    /\ running \subseteq Scripts /\ late \subseteq Scripts
    /\ orphans \subseteq Guids /\ unclean \subseteq Guids /\ overtaken \subseteq Guids
    /\ newest \in [Guids -> Nat] /\ missed \in [Guids -> Nat]
    /\ changes \in Nat /\ faults \in Nat

(* Every notification is handled and the first load is done.               *)
AtRest ==
    /\ port = <<>>
    /\ \A t \in Threads : thr[t] = Idle
    /\ ~m_UpdateAllRules

(* The driver has a state of the item that nobody has applied or failed to *)
(* read.                                                                   *)
Behind(g) == driver[g].rev > newest[g] /\ driver[g].rev > missed[g]

(* OnRuleChanged and LoadRules: once everything is handled, the newest     *)
(* state of every item in the driver was applied to the map by somebody,   *)
(* or the driver call that would have read it failed.                      *)
NoChangeMissed ==
    AtRest => \A g \in Guids : ~Behind(g)

(* OnRuleChanged and LoadRules read before they lock: once everything is   *)
(* handled, the map differs from the driver only where an older reading    *)
(* was applied after a newer one, or where a failed read passed for a      *)
(* removal.                                                                *)
WrongOnlyIfOvertaken ==
    AtRest => \A g \in Guids :
        \/ m_Rules[g] = driver[g]
        \/ g \in overtaken
        \/ missed[g] = driver[g].rev

(* AddRuleUnsafe and RemoveRuleUnsafe: a program item lists only rules     *)
(* that are in the map with its path, and lists each of them unless the    *)
(* item was removed under the rule by RemoveProgramFrom.                   *)
ListsInStep ==
    HasPaths =>
        /\ \A p \in Paths : \A g \in rulesOf[p] :
             p \in m_Items /\ m_Rules[g].path = p
        /\ \A g \in Guids : Cached(g) /\ g \notin orphans => g \in rulesOf[m_Rules[g].path]

(* RemoveRuleUnsafe and OnEnclaveChanged clean up an item's script state:  *)
(* state of an item that is not in the map was stored by a script that ran *)
(* before its item came or outlived it, or belongs to an enclave a reload  *)
(* dropped.                                                                *)
LeftoverIsLate ==
    \A g \in Scripts : HoldsStateOf(g) => Cached(g) \/ g \in late \cup unclean

(* PurgeExpired deletes in the driver by the map's copy: what it deletes   *)
(* there expires, unless the map has not caught up with the rule.          *)
PurgesOnlyExpiring ==
    [][\A g \in Guids :
         g \in purge /\ g \notin purge' /\ driver'[g] # driver[g]
           => driver[g].temp \/ m_Rules[g].rev # driver[g].rev]_vars

(* Notifications, the first load and its retries: when the driver has a    *)
(* newer state of an item than the map has seen, the map sees it or the    *)
(* call fails, also across a restart of the agent.                         *)
CatchesUp == \A g \in Guids : Behind(g) ~> ~Behind(g)
============================================================================
