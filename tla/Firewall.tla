------------------------------ MODULE Firewall ------------------------------
(***************************************************************************)
(* The guard of the Windows firewall's rules (CFirewall, CFirewallRule,    *)
(* CWindowsFwGuard).  Windows keeps the rules and anybody may change them; *)
(* each change is logged, the guard reads the rule back and decides        *)
(* whether the change is let through, put to the user or undone.  A rule   *)
(* that goes and a rule that comes are held back for a moment each, in     *)
(* case they are the two halves of a replacement by an identical rule.     *)
(* What is to be undone waits in two sets for the timer's next round.      *)
(*                                                                         *)
(* All that Match compares, except whether a rule is enabled, is its kind; *)
(* a kind has a program and either allows or blocks.  The kinds in Agreed  *)
(* are those the user may want, the others come from other programs only.  *)
(* The objects (CFirewallRulePtr) are numbered, because sets and lists of  *)
(* pointers outlive an object's place in the map.  An object that is a     *)
(* backup keeps, as guid, the guid of the rule it was taken from: its own  *)
(* is random, never met in Windows, and made up only when it is needed.    *)
(*                                                                         *)
(* SetRule holds m_RulesMutex while it looks a rule up and while it        *)
(* writes, not in between: what it does with an object that it found so    *)
(* are steps of their own, and anything may come before each of them.      *)
(*                                                                         *)
(* Templates and guard entries are fixed settings here; rules that expire, *)
(* rules derived from templates and ReLoad are left out.                   *)
(***************************************************************************)
EXTENDS Integers, FiniteSets, Sequences, SequencesExt

CONSTANTS
    Guids,        \* guids, numbers in the map's order
    Random,       \* those that only the agent makes up
    Kinds,        \* rules up to guid and Enabled
    Progs,        \* programs
    Prog,         \* kind -> program it applies to
    Allows,       \* kinds whose action is Allow
    Agreed,       \* kinds the user agrees to
    Settings,     \* configurations to model
    Starts,       \* sets of stored rules to start from
    MaxRules,     \* bound on rule objects alive at a time
    MaxOutside    \* bound on what happens from outside: changes by other
                  \*   programs, requests, failing calls and restarts

Modes == {"none", "approve", "reject"}

Setting == [GuardFwRules : BOOLEAN, FwAutoApproveRecreate : BOOLEAN,
            FwAutoApproveAllowRemoval : BOOLEAN, DeleteRogueFwRules : BOOLEAN,
            entry : [Progs -> Modes],
            template : [Progs -> {"none", "block", "allow", "allow2"}]]

Content == [k : Kinds, on : BOOLEAN]
Gone    == [k |-> "none", on |-> FALSE]
States  == {"unapproved", "approved", "disabled", "diverged"}

(* A rule as SaveRules writes it.                                          *)
Saved == [guid : Guids, backup : BOOLEAN, c : Content, state : States]

ASSUME FirewallAssumption ==
    /\ Guids \subseteq Nat \ {0} /\ Random \subseteq Guids
    /\ "none" \notin Kinds
    /\ Prog \in [Kinds -> Progs]
    /\ Allows \subseteq Kinds /\ Agreed \subseteq Kinds
    /\ Settings \subseteq Setting
    /\ \A S \in Starts :
         /\ S \subseteq Saved /\ IsFiniteSet(S) /\ Cardinality(S) <= MaxRules
         /\ \A r \in S : ~r.backup /\ r.c.k \in Agreed /\ r.guid \notin Random
         /\ \A r, t \in S : r.guid = t.guid => r = t
    /\ MaxRules \in Nat /\ MaxOutside \in Nat

VARIABLES
    cfg,               \* the settings
    win,               \* guid -> rule in Windows
    log,               \* rule change events not handled yet
    cache,             \* guids in CWindowsFirewall::m_FwRules
    fw,                \* what m_RulesMutex protects: rule objects, m_FwRules,
                       \*   m_RulesToRemove, m_RulesToRevert, m_WithdrawnRules,
                       \*   m_HeldRules, m_SettledRemovals
    guard,             \* OnFwGuardEvent under way
    upd,               \* UpdateRules under way
    m_UpdateAllRules,  \* no UpdateRules since the start yet
    tick,              \* where Update() of the timer stands
    user,              \* SetRule under way
    file,              \* rules in the stored file
    outside,           \* counts what MaxOutside bounds
    wanted,            \* history: what the user wants to be in force
    doubtful,          \* history: guids for which a call failed or UpdateRules
                       \*   applied a list that was not current, or under which a
                       \*   request left a backup in the map as if it were a rule
    mistaken,          \* history: kinds a request took for the rule it looked up
    overlapped         \* history: a change came on top of one not undone yet

winVars  == <<win, log, cache>>
history  == <<wanted, doubtful, mistaken, overlapped>>
vars == <<cfg, winVars, fw, guard, upd, m_UpdateAllRules, tick, user, file, outside, history>>

Ids     == 1..MaxRules
Rule    == [guid : Guids, backup : BOOLEAN, c : Content, state : States, err : BOOLEAN]
Free    == [guid |-> 0, backup |-> FALSE, c |-> Gone, state |-> "free", err |-> FALSE]
Idle    == [pc |-> "idle"]

NewRule(g, c) == [guid |-> g, backup |-> FALSE, c |-> c, state |-> "unapproved", err |-> FALSE]

------------------------------------------------------------------------
(* The map and its objects.                                                *)

Live(f)      == {o \in f.m_FwRules : ~f.rule[o].backup}
Backups(f)   == {o \in f.m_FwRules : f.rule[o].backup}
LiveAt(f, g) == {o \in Live(f) : f.rule[o].guid = g}

(* m_FwRules.find: 0 when there is no rule with that guid.                 *)
GetRule(f, g) == IF LiveAt(f, g) = {} THEN 0 ELSE CHOOSE o \in LiveAt(f, g) : TRUE

Listed(s) == {s[i] : i \in DOMAIN s}

(* Where SetRule has a pointer to an object in hand.                       *)
Holding == {"found", "approve", "clear", "restore"}

Referenced(f) ==
    f.m_FwRules \cup f.m_RulesToRemove \cup f.m_RulesToRevert
      \cup {e.pBackup : e \in Listed(f.m_WithdrawnRules)}
      \cup {e.pRule : e \in Listed(f.m_HeldRules)}
      \cup Listed(f.m_SettledRemovals)
      \cup (IF user.pc \in Holding THEN {user.o} \ {0} ELSE {})
      \cup (IF upd.pc = "apply" THEN upd.old ELSE {})

(* The last reference to an object frees it.                               *)
Collected(f) ==
    [f EXCEPT !.rule = [o \in Ids |-> IF o \in Referenced(f) THEN f.rule[o] ELSE Free]]

(* The bound on objects: a step that may need another one waits for room.  *)
HasRoom == {o \in Ids : fw.rule[o] = Free} # {}

NextId(f) == CHOOSE o \in Ids : f.rule[o] = Free /\ \A p \in Ids : f.rule[p] = Free => o <= p

(* AddRuleUnsafe for a new object.                                         *)
AddRule(f, r) ==
    LET n == NextId(f)
    IN [f EXCEPT !.rule[n] = r, !.m_FwRules = @ \cup {n}]

RemoveLive(f, g) == [f EXCEPT !.m_FwRules = @ \ LiveAt(f, g)]

(* ClearBackups: every backup taken from the rule g.                       *)
ClearBackups(f, g) == [f EXCEPT !.m_FwRules = @ \ {b \in Backups(f) : f.rule[b].guid = g}]

(* UpdateFWRuleUnsafe: in place while the program stays the same, else     *)
(* removed and added anew.                                                 *)
UpdateFWRule(f, g, c) ==
    LET o == GetRule(f, g)
    IN IF c = Gone THEN RemoveLive(f, g)
       ELSE IF o # 0 /\ Prog[f.rule[o].c.k] = Prog[c.k]
            THEN [f EXCEPT !.rule[o].c = c]
            ELSE AddRule(RemoveLive(f, g), NewRule(g, c))

WithState(f, g, s) == [f EXCEPT !.rule[GetRule(f, g)].state = s]

------------------------------------------------------------------------
(* Twins: rules that match in every field.                                 *)

(* Mutant of WithdrawnTwin: a comparison that forgets Enabled.             *)
TwinButEnabled(f, c) ==
    SelectInSeq(f.m_WithdrawnRules, LAMBDA e : f.rule[e.pBackup].c.k = c.k)

(* TakeWithdrawnTwinUnsafe, TakeSettledTwinUnsafe, the held copy of a      *)
(* rule: the place in the list of the first that matches, 0 if none does.  *)
WithdrawnTwin(f, c) == SelectInSeq(f.m_WithdrawnRules, LAMBDA e : f.rule[e.pBackup].c = c)
SettledTwin(f, c)   == SelectInSeq(f.m_SettledRemovals, LAMBDA o : f.rule[o].c = c)
HeldTwin(f, c)      == SelectInSeq(f.m_HeldRules, LAMBDA e : f.rule[e.pRule].c = c)

(* FindLiveTwinUnsafe, both forms: another rule of the map that matches.   *)
FindLiveTwin(f, c, o) ==
    LET T == {p \in Live(f) \ {o} : f.rule[p].c = c}
    IN IF T = {} THEN 0
       ELSE CHOOSE p \in T : \A q \in T : f.rule[p].guid <= f.rule[q].guid

TakeHeldRule(f, o) ==
    LET i == SelectInSeq(f.m_HeldRules, LAMBDA e : e.pRule = o)
    IN IF i = 0 THEN f ELSE [f EXCEPT !.m_HeldRules = RemoveAt(@, i)]

(* CFirewallRule::TakeOver: the verdict on the rule that went.             *)
TakeOver(f, o, from) == [f EXCEPT !.rule[o].state = f.rule[from].state]

(* The object gets a random guid, and its place in the map under it.       *)
SetAsBackup(f, o) == [f EXCEPT !.rule[o].backup = TRUE, !.m_FwRules = @ \cup {o}]

------------------------------------------------------------------------
(* What the settings say of a change.                                      *)

(* AskTemplatesUnsafe, with at most one template that covers a path.       *)
AskTemplates(k) ==
    LET t == cfg.template[Prog[k]]
    IN CASE t = "none"  -> "unknown"
         [] t = "block" -> IF k \in Allows THEN "reject" ELSE "approve"
         [] OTHER       -> IF k \in Allows THEN "approve" ELSE "unknown"

(* DecideRuleChangeUnsafe. *)
DecideRuleChange(f, c, o) ==
    IF c = Gone
    THEN IF f.rule[o].c.k \in Allows /\ cfg.FwAutoApproveAllowRemoval THEN "approve" ELSE "none"
    ELSE CASE AskTemplates(c.k) = "reject"  -> "reject"
           [] AskTemplates(c.k) = "unknown" -> "none"
           [] OTHER ->
                IF \/ o = 0
                   \/ LET k == f.rule[o].c.k
                      IN \/ Prog[k] = Prog[c.k]
                         \/ /\ AskTemplates(k) = "approve"
                            /\ cfg.template[Prog[k]] = cfg.template[Prog[c.k]]
                THEN "approve" ELSE "none"

ProgramChanged(f, c, o) == c # Gone /\ o # 0 /\ Prog[c.k] # Prog[f.rule[o].c.k]

(* The guard entry of the path if there is one, else the templates; the    *)
(* removal of a rule the guard turned down, or of a held copy, is what the *)
(* guard was after.                                                        *)
GuardAction(f, c, o) ==
    LET k     == IF o # 0 THEN f.rule[o].c.k ELSE c.k
        entry == IF ProgramChanged(f, c, o) THEN "none" ELSE cfg.entry[Prog[k]]
    IN IF /\ c = Gone
          /\ \/ o \in f.m_RulesToRemove
             \/ f.rule[o].state = "disabled"
             \/ \E e \in Listed(f.m_HeldRules) : e.pRule = o
       THEN "approve"
       ELSE IF entry # "none" THEN entry ELSE DecideRuleChange(f, c, o)

(* Whether the two halves of a replacement are looked for.                 *)
LooksForTwin(f, c, o) ==
    GuardAction(f, c, o) = "none" /\ ~ProgramChanged(f, c, o) /\ cfg.FwAutoApproveRecreate

(* The verdict when no twin answers: the blanket guard turns down what     *)
(* nothing else decides.                                                   *)
Unanswered(f, c, o) ==
    IF GuardAction(f, c, o) = "none" /\ cfg.GuardFwRules THEN "reject" ELSE GuardAction(f, c, o)

------------------------------------------------------------------------
(* FWRuleChangedUnsafe(pRule, pFwRule), by what came: f is the state with  *)
(* o taken out of m_RulesToRemove and m_HeldRules.                         *)

(* A rule went, and its going is let through.  A twin that stands in for   *)
(* it takes over its verdict; without one the removal is kept in mind.     *)
RemovalApproved(f, o, twin, wasHeld) ==
    LET f1 == [f EXCEPT !.m_FwRules = @ \ {o}]
        f2 == IF f1.rule[twin].state = "approved" THEN f1 ELSE TakeOver(f1, twin, o)
    IN CASE twin # 0 -> [TakeHeldRule(f2, twin) EXCEPT !.m_RulesToRemove = @ \ {twin}]
         [] twin = 0 /\ ~wasHeld -> [f1 EXCEPT !.m_SettledRemovals = Append(@, o)]
         [] OTHER -> f1

RuleRemoved(f, o, act, looks, wasHeld) ==
    LET c    == f.rule[o].c
        held == HeldTwin(f, c)
        live == FindLiveTwin(f, c, o)
    IN CASE act = "approve" ->
              RemovalApproved(f, o, IF held = 0 THEN 0 ELSE f.m_HeldRules[held].pRule, wasHeld)
         [] looks /\ live # 0 -> RemovalApproved(f, o, live, wasHeld)
         [] looks /\ live = 0 ->
              [SetAsBackup(f, o) EXCEPT
                 !.m_WithdrawnRules = Append(@, [pBackup |-> o, bRevert |-> cfg.GuardFwRules])]
         [] ~looks /\ act = "reject" ->
              [SetAsBackup(f, o) EXCEPT !.m_RulesToRevert = @ \cup {o}]
         [] OTHER -> SetAsBackup(f, o)

(* Mutant of RuleReturned: only the backup is taken from the map.          *)
ReturnedBeside(f, g, c, o) ==
    LET w == WithdrawnTwin(f, c)
        twin == f.m_WithdrawnRules[w].pBackup
    IN AddRule([f EXCEPT !.m_WithdrawnRules = RemoveAt(@, w), !.m_FwRules = @ \ {twin}],
               [NewRule(g, c) EXCEPT !.state = f.rule[twin].state])

(* A rule came that a held back removal was waiting for.                   *)
RuleReturned(f, g, c, o) ==
    LET w    == WithdrawnTwin(f, c)
        twin == f.m_WithdrawnRules[w].pBackup
        f1   == [f EXCEPT !.m_WithdrawnRules = RemoveAt(@, w),
                          !.m_FwRules = @ \ {o, twin}]
    IN AddRule(f1, [NewRule(g, c) EXCEPT !.state = f.rule[twin].state])

RuleAdded(f, g, c, act, looks) ==
    LET s == SettledTwin(f, c)
        n == NextId(f)
        f1 == AddRule(f, NewRule(g, c))
    IN CASE looks /\ s # 0 ->
              [TakeOver(f1, n, f.m_SettledRemovals[s]) EXCEPT
                 !.m_SettledRemovals = RemoveAt(@, s)]
         [] act = "approve" -> [f1 EXCEPT !.rule[n].state = "approved"]
         [] looks /\ s = 0 /\ FindLiveTwin(f, c, 0) # 0 ->
              [f1 EXCEPT !.m_HeldRules = Append(@, [pRule |-> n, bReject |-> cfg.GuardFwRules])]
         [] ~(looks /\ (s # 0 \/ FindLiveTwin(f, c, 0) # 0)) /\ act = "reject" ->
              [f1 EXCEPT !.m_RulesToRemove = @ \cup {n}]
         [] OTHER -> f1

RuleModified(f, g, c, o, act) ==
    CASE act = "approve" ->
           AddRule([f EXCEPT !.m_FwRules = @ \ {o}], [NewRule(g, c) EXCEPT !.state = "approved"])
      [] act = "reject"  ->
           AddRule([SetAsBackup(f, o) EXCEPT !.m_RulesToRevert = @ \cup {o}], NewRule(g, c))
      [] OTHER -> AddRule(SetAsBackup(f, o), NewRule(g, c))

(* A backup, met by UpdateRules only: the blanket guard reverts it unless  *)
(* it is still waiting for its twin.                                       *)
BackupMet(f, o, act) ==
    IF act = "reject" /\ \A e \in Listed(f.m_WithdrawnRules) : e.pBackup # o
    THEN [f EXCEPT !.m_RulesToRevert = @ \cup {o}] ELSE f

FWRuleChanged(f, g, c, o) ==
    LET f1    == TakeHeldRule([f EXCEPT !.m_RulesToRemove = @ \ {o}], o)
        act   == Unanswered(f, c, o)
        looks == LooksForTwin(f, c, o)
        held  == \E e \in Listed(f.m_HeldRules) : e.pRule = o
        returns == c # Gone /\ looks /\ WithdrawnTwin(f, c) # 0
        nothing == IF c = Gone THEN o = 0 ELSE o # 0 /\ f.rule[o].c = c
    IN CASE nothing -> f
         [] ~nothing /\ c = Gone /\ f.rule[o].backup -> BackupMet(f1, o, act)
         [] ~nothing /\ c = Gone /\ ~f.rule[o].backup ->
              RuleRemoved(f1, o, IF looks THEN "none" ELSE act, looks, held)
         [] ~nothing /\ returns -> RuleReturned(f1, g, c, o)
         [] ~nothing /\ c # Gone /\ ~returns /\ o = 0 -> RuleAdded(f1, g, c, act, looks)
         [] OTHER -> RuleModified(f1, g, c, o, act)

(* Objects with guid g whose change is not settled.                        *)
Unsettled(g) ==
    {o \in fw.m_RulesToRemove \cup fw.m_RulesToRevert
             \cup {e.pRule : e \in Listed(fw.m_HeldRules)}
             \cup {e.pBackup : e \in Listed(fw.m_WithdrawnRules)} : fw.rule[o].guid = g}

(* A rule that no change waits for says this.                              *)
Stands(c) == \E p \in Live(fw) : fw.rule[p].c = c /\ Unsettled(fw.rule[p].guid) = {}

(* The ways in which two changes meet before the first is settled: the     *)
(* rule has an earlier form that waits to be restored, or was turned down  *)
(* and changes instead of going; it takes the form of another rule that    *)
(* went; it goes and the twin that stands in for it is a change that is    *)
(* yet to be undone; or it was turned down, went before that was carried   *)
(* out, and comes back as if its removal had been let through.  Rules that *)
(* are the same while none of them stands answer for each other: one that  *)
(* was turned down or held back goes and a held copy takes its place, or a *)
(* held copy changes and is taken for what is to be restored.  And         *)
(* UpdateRules may meet, in its copy of the map, a backup whose            *)
(* replacement it has just accepted, and have it restored all the same.    *)
Overlaps(g, c, o) ==
    LET looks == LooksForTwin(fw, c, o)
        returned == IF c = Gone \/ ~looks \/ WithdrawnTwin(fw, c) = 0 THEN 0
                    ELSE fw.m_WithdrawnRules[WithdrawnTwin(fw, c)].pBackup
        HasBackup(h) == \E b \in Unsettled(h) \ {returned} : fw.rule[b].backup
        settled == SettledTwin(fw, c)
        held == {e.pRule : e \in Listed(fw.m_HeldRules)}
    IN IF o = 0
       THEN /\ c # Gone
            /\ \/ HasBackup(g)
               \/ looks /\ settled # 0 /\ fw.rule[fw.m_SettledRemovals[settled]].state # "approved"
       ELSE \/ /\ fw.rule[o].c # c
               /\ ~fw.rule[o].backup
               /\ \/ HasBackup(g)
                  \/ c # Gone /\ (returned # 0 \/ o \in fw.m_RulesToRemove)
                  \/ c # Gone /\ o \in held /\ ~Stands(fw.rule[o].c)
                  \/ /\ c = Gone /\ o \in held \cup fw.m_RulesToRemove
                     /\ \E p \in held \ {o} : fw.rule[p].c = fw.rule[o].c
                     /\ ~Stands(fw.rule[o].c)
                  \/ /\ c = Gone /\ looks
                     /\ LET twin == FindLiveTwin(fw, fw.rule[o].c, o)
                        IN twin # 0 /\ HasBackup(fw.rule[twin].guid)
            \/ /\ fw.rule[o].backup /\ o \notin fw.m_FwRules
               /\ Unanswered(fw, c, o) = "reject"

(* A request of the user about a rule with a change that is not settled.   *)
Collides(g) ==
    \/ Unsettled(g) # {}
    \/ \E e \in Listed(log) : e.g = g
    \/ guard.pc = "apply" /\ guard.g = g

(* What was read before the lock is older than what the agent wrote, or    *)
(* took from a whole list, since.                                          *)
Overtaken(g, c) ==
    /\ c # win[g]
    /\ \/ \E e \in Listed(log) : e.g = g /\ e.own
       \/ {fw.rule[o].c : o \in LiveAt(fw, g)} = {win[g]} \ {Gone}

(* Guids made up anew.                                                     *)
Unused ==
    {g \in Random : /\ win[g] = Gone /\ g \notin cache
                    /\ \A o \in Ids : fw.rule[o].guid # g
                    /\ ~Collides(g)
                    /\ upd.pc # "idle" => upd.list[g] = Gone}

Change(g, c, o) ==
    /\ HasRoom
    /\ fw' = Collected(FWRuleChanged(fw, g, c, o))
    /\ overlapped' = (overlapped \/ Overlaps(g, c, o) \/ Overtaken(g, c))

------------------------------------------------------------------------
(* Windows.                                                                *)

Outside(n) == outside + n <= MaxOutside /\ outside' = outside + n
Fault == Outside(1)

Event(g, c, own) == [g |-> g, gone |-> c = Gone, own |-> own]

(* Another program changes, adds or removes a rule.                        *)
ForeignChange(g, c) ==
    /\ Outside(1)
    /\ c # win[g]
    /\ win' = [win EXCEPT ![g] = c]
    /\ log' = Append(log, Event(g, c, FALSE))
    /\ UNCHANGED <<cfg, cache, fw, guard, upd, m_UpdateAllRules, tick, user, file, history>>

(* CWindowsFirewall::UpdateRule adds a rule that is not in its cache, which *)
(* Windows refuses if the guid is taken; it also fails by a fault.         *)
Refused(g) == g \notin cache /\ win[g] # Gone

Write(g, c) ==
    /\ win' = [win EXCEPT ![g] = c]
    /\ log' = Append(log, Event(g, c, TRUE))
    /\ cache' = IF c = Gone THEN cache \ {g} ELSE cache \cup {g}

(* The rule is written, and the query that reads it back fails.            *)
WriteUnread(g, c) ==
    /\ win' = [win EXCEPT ![g] = c]
    /\ log' = Append(log, Event(g, c, TRUE))
    /\ cache' = cache \ {g}

(* CWindowsFirewall::RemoveRule: a rule that is not in the cache counts as *)
(* removed already.                                                        *)
RemoveFromWindows(g) ==
    IF g \in cache /\ win[g] # Gone THEN Write(g, Gone)
    ELSE cache' = cache \ {g} /\ UNCHANGED <<win, log>>

(* UpdateRuleAndTest reports an error: nothing was written, or what is     *)
(* read back differs.                                                      *)
NotSet(g, c) ==
    /\ \/ Refused(g) /\ UNCHANGED <<winVars, outside>>
       \/ Fault /\ UNCHANGED winVars
       \/ ~Refused(g) /\ Fault /\ \E d \in Content \ {c} : Write(g, d)
       \/ ~Refused(g) /\ Fault /\ WriteUnread(g, c)
    /\ doubtful' = doubtful \cup {g}

LockIsFree == tick # "revert" /\ upd.pc # "apply"

------------------------------------------------------------------------
(* OnFwGuardEvent: reads the rule unless it was removed, then locks.       *)

TakeEvent ==
    /\ guard = Idle
    /\ log # <<>>
    /\ LET e == Head(log)
           last == \A i \in 2..Len(log) : log[i].g # e.g
           Read(c) == guard' = [pc |-> "apply", g |-> e.g, c |-> c, own |-> e.own /\ last]
       IN \/ /\ Read(IF e.gone THEN Gone ELSE win[e.g])
             /\ cache' = CASE e.gone -> cache
                           [] ~e.gone /\ win[e.g] = Gone -> cache \ {e.g}
                           [] OTHER -> cache \cup {e.g}
             /\ UNCHANGED <<outside, doubtful>>
          \/ /\ ~e.gone
             /\ Fault      \* a query that fails yields no rule: taken for removed
             /\ Read(Gone)
             /\ cache' = cache \ {e.g}
             /\ doubtful' = doubtful \cup {e.g}
    /\ log' = Tail(log)
    /\ UNCHANGED <<cfg, win, fw, upd, m_UpdateAllRules, tick, user, file, wanted, mistaken, overlapped>>

OnFwGuardEvent ==
    /\ guard.pc = "apply"
    /\ LockIsFree
    /\ Change(guard.g, guard.c, GetRule(fw, guard.g))
    /\ guard' = Idle
    /\ UNCHANGED <<cfg, winVars, upd, m_UpdateAllRules, tick, user, file, outside, wanted, doubtful,
                   mistaken>>

------------------------------------------------------------------------
(* UpdateRules: reads the whole list, then locks and goes through the list *)
(* and the rules that are no longer in it.                                 *)

StartUpdateRules ==
    /\ upd = Idle
    /\ \/ /\ IF m_UpdateAllRules THEN UNCHANGED outside ELSE Outside(1)
          /\ upd' = [pc |-> "read", list |-> win]
          /\ cache' = {g \in Guids : win[g] # Gone}
          /\ UNCHANGED doubtful
       \/ /\ Outside(IF m_UpdateAllRules THEN 1 ELSE 2)
          \* an enumeration that fails yields an empty list
          /\ upd' = [pc |-> "read", list |-> [g \in Guids |-> Gone]]
          /\ cache' = {}
          /\ doubtful' = Guids
    /\ UNCHANGED <<cfg, win, log, fw, guard, m_UpdateAllRules, tick, user, file, wanted, mistaken,
                   overlapped>>

LockForUpdate ==
    /\ upd.pc = "read"
    /\ LockIsFree
    /\ upd' = [pc |-> "apply", list |-> upd.list, old |-> fw.m_FwRules,
               todo |-> {g \in Guids : upd.list[g] # Gone}]
    /\ UNCHANGED <<cfg, winVars, fw, guard, m_UpdateAllRules, tick, user, file, outside, history>>

UpdateListed(g) ==
    /\ upd.pc = "apply"
    /\ g \in upd.todo
    /\ LET old == {o \in upd.old : fw.rule[o].guid = g /\ ~fw.rule[o].backup}
           o   == IF old = {} THEN 0 ELSE CHOOSE p \in old : TRUE
       IN /\ Change(g, upd.list[g], o)
          /\ upd' = [upd EXCEPT !.todo = @ \ {g}, !.old = @ \ old]
    /\ doubtful' = IF upd.list[g] = win[g] THEN doubtful ELSE doubtful \cup {g}
    /\ UNCHANGED <<cfg, winVars, guard, m_UpdateAllRules, tick, user, file, outside, wanted, mistaken>>

UpdateMissing(o) ==
    /\ upd.pc = "apply"
    /\ upd.todo = {}
    /\ o \in upd.old
    /\ Change(fw.rule[o].guid, Gone, o)
    /\ upd' = [upd EXCEPT !.old = @ \ {o}]
    /\ doubtful' = IF fw.rule[o].backup \/ win[fw.rule[o].guid] = Gone THEN doubtful
                   ELSE doubtful \cup {fw.rule[o].guid}
    /\ UNCHANGED <<cfg, winVars, guard, m_UpdateAllRules, tick, user, file, outside, wanted, mistaken>>

FinishUpdateRules ==
    /\ upd.pc = "apply"
    /\ upd.todo = {} /\ upd.old = {}
    /\ upd' = Idle
    /\ fw' = Collected(fw)
    /\ m_UpdateAllRules' = FALSE
    /\ UNCHANGED <<cfg, winVars, guard, tick, user, file, outside, history>>

------------------------------------------------------------------------
(* RestoreRule: the changed rule leaves the map, the backup's rule is      *)
(* written and read back.  r is that rule under the guid it is written to. *)
Restored(r, b, state) ==
    /\ ~Refused(r.guid)
    /\ Write(r.guid, r.c)
    /\ fw' = [ClearBackups(AddRule(RemoveLive(fw, r.guid),
                                   [NewRule(r.guid, r.c) EXCEPT !.state = state]), r.guid)
                EXCEPT !.m_RulesToRevert = @ \ {b}]
    /\ UNCHANGED <<outside, doubtful>>

NotRestored(r, b) ==
    /\ IF Refused(r.guid) THEN UNCHANGED outside ELSE Fault
    /\ fw' = [RemoveLive(fw, r.guid) EXCEPT !.rule[b].err = TRUE, !.m_RulesToRevert = @ \ {b}]
    /\ doubtful' = doubtful \cup {r.guid}
    /\ UNCHANGED winVars

(* What is read back differs; if in its program or action it is deleted.   *)
RestoredAs(r, b, c) ==
    LET f == [RemoveLive(fw, r.guid) EXCEPT !.rule[b].err = TRUE, !.m_RulesToRevert = @ \ {b}]
        same == Prog[c.k] = Prog[r.c.k] /\ (c.k \in Allows <=> r.c.k \in Allows)
    IN /\ c # r.c
       /\ ~Refused(r.guid) /\ Fault
       /\ Write(r.guid, IF same THEN c ELSE Gone)
       /\ fw' = IF same THEN AddRule(f, [NewRule(r.guid, c) EXCEPT !.state = "diverged"]) ELSE f
       /\ doubtful' = doubtful \cup {r.guid}

(* Nothing is read back, which is no error to the code.                    *)
RestoredUnread(r, b) ==
    /\ ~Refused(r.guid) /\ Fault
    /\ WriteUnread(r.guid, r.c)
    /\ fw' = [RemoveLive(fw, r.guid) EXCEPT !.m_RulesToRevert = @ \ {b}]
    /\ doubtful' = doubtful \cup {r.guid}

(* Without a backup link the guid is empty, and CWindowsFirewall makes one *)
(* up: the rule comes beside the one that is to be undone.  A new guid is  *)
(* waited for, like a new object.                                          *)
RestoreRule(b, state) ==
    /\ HasRoom
    /\ \E g \in IF fw.rule[b].backup THEN {fw.rule[b].guid} ELSE Unused :
         LET r == [fw.rule[b] EXCEPT !.guid = g]
         IN \/ Restored(r, b, state)
            \/ NotRestored(r, b)
            \/ \E c \in Content : RestoredAs(r, b, c)
            \/ RestoredUnread(r, b)

------------------------------------------------------------------------
(* Update(), the timer's round: AskAboutWithdrawnRules, ReleaseHeldRules,  *)
(* RevertChanges.  The lists are in the order of time, so those that have  *)
(* waited long enough come first.                                          *)

Busy == \/ fw.m_WithdrawnRules # <<>> \/ fw.m_HeldRules # <<>>
        \/ fw.m_RulesToRemove # {} \/ fw.m_RulesToRevert # {}

(* A round that finds all lists empty changes nothing.                     *)
AskAboutWithdrawnRules ==
    /\ tick = "ask"
    /\ ~m_UpdateAllRules
    /\ LockIsFree
    /\ Busy
    /\ \E n \in 0..Len(fw.m_WithdrawnRules) :
         LET late == Listed(SubSeq(fw.m_WithdrawnRules, 1, n))
         IN fw' = Collected([fw EXCEPT
                     !.m_WithdrawnRules = SubSeq(@, n + 1, Len(@)),
                     !.m_RulesToRevert = @ \cup {e.pBackup : e \in {x \in late : x.bRevert}}])
    /\ tick' = "release"
    /\ UNCHANGED <<cfg, winVars, guard, upd, m_UpdateAllRules, user, file, outside, history>>

(* Mutant of ReleaseHeldRules: bReject is not looked at.                   *)
ReleaseUnasked ==
    /\ tick = "release"
    /\ LockIsFree
    /\ \E n \in 0..Len(fw.m_HeldRules) :
         fw' = Collected([fw EXCEPT !.m_HeldRules = SubSeq(@, n + 1, Len(@))])
    /\ tick' = "released"
    /\ UNCHANGED <<cfg, winVars, guard, upd, m_UpdateAllRules, user, file, outside, history>>

ReleaseHeldRules ==
    /\ tick = "release"
    /\ LockIsFree
    /\ \E n \in 0..Len(fw.m_HeldRules) :
         LET late == Listed(SubSeq(fw.m_HeldRules, 1, n))
         IN fw' = Collected([fw EXCEPT
                     !.m_HeldRules = SubSeq(@, n + 1, Len(@)),
                     !.m_RulesToRemove = @ \cup {e.pRule : e \in {x \in late : x.bReject}}])
    /\ tick' = "released"
    /\ UNCHANGED <<cfg, winVars, guard, upd, m_UpdateAllRules, user, file, outside, history>>

(* A settled removal is forgotten when its time is up: TakeSettledTwin     *)
(* passes over it then and ReleaseHeldRules erases it.                     *)
ForgetSettled ==
    /\ fw.m_SettledRemovals # <<>>
    /\ upd.pc # "apply"
    /\ fw' = Collected([fw EXCEPT !.m_SettledRemovals = Tail(@)])
    /\ UNCHANGED <<cfg, winVars, guard, upd, m_UpdateAllRules, tick, user, file, outside, history>>

LockForRevert ==
    /\ tick = "released"
    /\ LockIsFree
    /\ tick' = "revert"
    /\ UNCHANGED <<cfg, winVars, fw, guard, upd, m_UpdateAllRules, user, file, outside, history>>

(* DeleteRogueFwRules: the rule is deleted, and leaves the map if that     *)
(* worked.                                                                 *)
DeleteRogue(o) ==
    /\ cfg.DeleteRogueFwRules
    /\ LET g  == fw.rule[o].guid
           f1 == [fw EXCEPT !.m_RulesToRemove = @ \ {o}]
       IN \/ RemoveFromWindows(g) /\ fw' = RemoveLive(f1, g) /\ UNCHANGED <<outside, doubtful>>
          \/ Fault /\ fw' = f1 /\ doubtful' = doubtful \cup {g} /\ UNCHANGED winVars

(* Mutant of DisableRogue: a copy is written, the object stays enabled.    *)
DisableCopy(o) ==
    /\ ~cfg.DeleteRogueFwRules
    /\ LET r  == fw.rule[o]
       IN IF r.c.on THEN Write(r.guid, [r.c EXCEPT !.on = FALSE]) ELSE UNCHANGED winVars
    /\ fw' = [fw EXCEPT !.m_RulesToRemove = @ \ {o}]
    /\ UNCHANGED <<outside, doubtful>>

(* Otherwise the object is disabled and written.                           *)
DisableRogue(o) ==
    /\ ~cfg.DeleteRogueFwRules
    /\ LET r  == fw.rule[o]
           c  == [r.c EXCEPT !.on = FALSE]
           f1 == [fw EXCEPT !.m_RulesToRemove = @ \ {o}]
           f2 == [f1 EXCEPT !.rule[o].c = c, !.rule[o].state = "disabled"]
       IN \/ ~r.c.on /\ fw' = f1 /\ UNCHANGED <<winVars, outside, doubtful>>
          \/ r.c.on /\ ~Refused(r.guid) /\ Write(r.guid, c) /\ fw' = f2
               /\ UNCHANGED <<outside, doubtful>>
          \/ r.c.on /\ NotSet(r.guid, c) /\ fw' = f2

(* One rule of m_RulesToRemove, a set of pointers walked in no order.      *)
RejectRule(o) ==
    /\ tick = "revert"
    /\ o \in fw.m_RulesToRemove
    /\ DeleteRogue(o) \/ DisableRogue(o)
    /\ UNCHANGED <<cfg, guard, upd, m_UpdateAllRules, tick, user, file, wanted, mistaken, overlapped>>

(* Mutant of RevertRule: bApprove left at its default.                     *)
RevertApproving(b) ==
    /\ tick = "revert"
    /\ fw.m_RulesToRemove = {}
    /\ b \in fw.m_RulesToRevert
    /\ RestoreRule(b, "approved")
    /\ UNCHANGED <<cfg, guard, upd, m_UpdateAllRules, tick, user, file, wanted, mistaken, overlapped>>

(* One backup of m_RulesToRevert, also one that has left the map.          *)
RevertRule(b) ==
    /\ tick = "revert"
    /\ fw.m_RulesToRemove = {}
    /\ b \in fw.m_RulesToRevert
    /\ IF fw.rule[b].err
       THEN fw' = [fw EXCEPT !.m_RulesToRevert = @ \ {b}] /\ UNCHANGED <<winVars, outside, doubtful>>
       ELSE RestoreRule(b, fw.rule[b].state)
    /\ UNCHANGED <<cfg, guard, upd, m_UpdateAllRules, tick, user, file, wanted, mistaken, overlapped>>

FinishRevert ==
    /\ tick = "revert"
    /\ fw.m_RulesToRemove = {} /\ fw.m_RulesToRevert = {}
    /\ tick' = "ask"
    /\ fw' = Collected(fw)
    /\ UNCHANGED <<cfg, winVars, guard, upd, m_UpdateAllRules, user, file, outside, history>>
------------------------------------------------------------------------
(* Requests of the user: SetRule, DelRule, Store.                          *)

UserIsFree == user = Idle /\ ~m_UpdateAllRules

(* The contents of a rule in the map and of the backups taken from it.     *)
FormsOf(g) == {fw.rule[o].c : o \in {x \in fw.m_FwRules : fw.rule[x].guid = g}}

(* SetRule looks up the rule with the guid of the request, and has the     *)
(* lock no longer when it looks at what it found.                          *)
SetRule(g, c) ==
    /\ UserIsFree
    /\ LockIsFree
    /\ c.k \in Agreed
    /\ g \in Random => LiveAt(fw, g) # {}
    /\ user' = [pc |-> "found", o |-> GetRule(fw, g), g |-> g, c |-> c]
    /\ Outside(1)
    /\ UNCHANGED <<cfg, winVars, fw, guard, upd, m_UpdateAllRules, tick, file, history>>

(* IsBackup, Match.  If the rule was made a backup meanwhile it is not the *)
(* rule of the request that will be restored and approved, but that one.   *)
Compare ==
    /\ user.pc = "found"
    /\ LET o == user.o
           rule == IF o = 0 THEN Free ELSE fw.rule[o]
       IN \/ /\ rule.backup
             /\ user' = [pc |-> "restore", o |-> o]
             /\ mistaken' = mistaken \cup {rule.c.k}
             /\ overlapped' = TRUE
          \/ /\ ~rule.backup
             /\ user' = IF rule.c = user.c THEN [pc |-> "approve", o |-> o, c |-> user.c]
                        ELSE [pc |-> "write", g |-> user.g, c |-> user.c]
             /\ UNCHANGED <<mistaken, overlapped>>
    /\ UNCHANGED <<cfg, winVars, fw, guard, upd, m_UpdateAllRules, tick, file, outside, wanted,
                   doubtful>>

(* Update(pFwRule): the rule is as it should be, only the verdict changes. *)
(* But Update takes the backup link of the request's rule as well, which   *)
(* has none: an object that was made a backup after IsBackup stands in the *)
(* map, and in the lists, like a rule with the random guid of the backup.  *)
Approve ==
    /\ user.pc = "approve"
    /\ LET o == user.o
           f == [fw EXCEPT !.rule[o].state = "approved"]
       IN IF fw.rule[o].backup
          THEN \E g \in Unused :
                 /\ fw' = [f EXCEPT !.rule[o].guid = g, !.rule[o].backup = FALSE]
                 /\ doubtful' = doubtful \cup {g}
                 /\ overlapped' = TRUE
          ELSE fw' = f /\ UNCHANGED <<doubtful, overlapped>>
    /\ user' = [user EXCEPT !.pc = "clear"]
    /\ UNCHANGED <<cfg, winVars, guard, upd, m_UpdateAllRules, tick, file, outside, wanted, mistaken>>

(* Another thread may be in the map.                                       *)
MapInUse == guard.pc = "apply" \/ upd.pc # "idle" \/ tick \in {"released", "revert"}

(* The rule that was approved is no longer what the request looked up.     *)
Replaced(o) == o \notin Live(fw) \/ fw.rule[o].c # user.c \/ fw.rule[o].state # "approved"

(* ClearBackups for the guid that the object has by now.  It walks         *)
(* m_FwRules without the lock and may pass over entries that another       *)
(* thread inserts or erases at the time.                                   *)
DropBackups ==
    /\ user.pc = "clear"
    /\ LET o == user.o
           g == fw.rule[o].guid
           old == IF fw.rule[o].backup THEN {} ELSE {b \in Backups(fw) : fw.rule[b].guid = g}
       IN /\ \E S \in SUBSET old :
               /\ S # old => MapInUse
               /\ fw' = Collected([fw EXCEPT !.m_FwRules = @ \ S])
               /\ overlapped' = (overlapped \/ S # old \/ Replaced(o) \/ Collides(g))
          /\ wanted' = (wanted \ FormsOf(g)) \cup {user.c}
    /\ user' = Idle
    /\ UNCHANGED <<cfg, winVars, guard, upd, m_UpdateAllRules, tick, file, outside, doubtful, mistaken>>

(* SetRule for a backup.                                                   *)
SetBackup(b) ==
    /\ UserIsFree
    /\ LockIsFree
    /\ b \in Backups(fw)
    /\ fw.rule[b].c.k \in Agreed
    /\ user' = [pc |-> "restore", o |-> b]
    /\ Outside(1)
    /\ UNCHANGED <<cfg, winVars, fw, guard, upd, m_UpdateAllRules, tick, file, history>>

(* The contents a new form of the rule g puts an end to.                   *)
StandingAt(g) == {fw.rule[o].c : o \in LiveAt(fw, g)}

(* UpdateRuleAndTest; an error leaves the map to the event.                *)
WriteRule ==
    /\ user.pc = "write"
    /\ LockIsFree
    /\ HasRoom
    /\ \/ /\ ~Refused(user.g)
          /\ Write(user.g, user.c)
          /\ fw' = Collected(WithState(UpdateFWRule(fw, user.g, user.c), user.g, "approved"))
          /\ wanted' = (wanted \ StandingAt(user.g)) \cup {user.c}
          /\ UNCHANGED <<outside, doubtful>>
       \/ NotSet(user.g, user.c) /\ UNCHANGED <<fw, wanted>>
    /\ overlapped' = (overlapped \/ Collides(user.g))
    /\ user' = Idle
    /\ UNCHANGED <<cfg, guard, upd, m_UpdateAllRules, tick, file, mistaken>>

RestoreBackup ==
    /\ user.pc = "restore"
    /\ LockIsFree
    /\ RestoreRule(user.o, "approved")
    /\ wanted' = (wanted \ FormsOf(fw.rule[user.o].guid)) \cup {fw.rule[user.o].c}
    /\ overlapped' = (overlapped \/ Collides(fw.rule[user.o].guid))
    /\ user' = Idle
    /\ UNCHANGED <<cfg, guard, upd, m_UpdateAllRules, tick, file, mistaken>>

(* DelRule: a backup only leaves the map, a rule leaves Windows as well.   *)
DelRule(o) ==
    /\ UserIsFree
    /\ LockIsFree
    /\ o \in fw.m_FwRules
    /\ Outside(1)
    /\ wanted' = wanted \ {fw.rule[o].c}
    /\ fw' = Collected([fw EXCEPT !.m_FwRules = @ \ {o}])
    /\ IF fw.rule[o].backup THEN UNCHANGED winVars ELSE RemoveFromWindows(fw.rule[o].guid)
    /\ overlapped' = (overlapped \/ Collides(fw.rule[o].guid))
    /\ UNCHANGED <<cfg, guard, upd, m_UpdateAllRules, tick, user, file, doubtful, mistaken>>

(* SaveRules: the rules and backups, without what waits in the lists.      *)
Image(f) == {[guid |-> r.guid, backup |-> r.backup, c |-> r.c, state |-> r.state] :
               r \in {f.rule[o] : o \in f.m_FwRules}}

(* What is stored matters only while a restart can follow.                 *)
Store ==
    /\ LockIsFree
    /\ outside < MaxOutside
    /\ file # Image(fw)
    /\ file' = Image(fw)
    /\ UNCHANGED <<cfg, winVars, fw, guard, upd, m_UpdateAllRules, tick, user, outside, history>>

------------------------------------------------------------------------
NoRules ==
    [rule |-> [o \in Ids |-> Free], m_FwRules |-> {}, m_RulesToRemove |-> {},
     m_RulesToRevert |-> {}, m_WithdrawnRules |-> <<>>, m_HeldRules |-> <<>>,
     m_SettledRemovals |-> <<>>]

(* LoadRules from the stored file: objects numbered in some order.         *)
Loaded(S) ==
    LET s == SetToSeq(S)
    IN [NoRules EXCEPT
          !.rule = [o \in Ids |-> IF o <= Len(s)
                                  THEN [guid |-> s[o].guid, backup |-> s[o].backup, c |-> s[o].c,
                                        state |-> s[o].state, err |-> FALSE]
                                  ELSE Free],
          !.m_FwRules = 1..Len(s)]

(* The agent ends and is started again: Init loads the file and calls      *)
(* UpdateRules; what happened in between was not logged for it.  What was  *)
(* not settled, or not stored, is not known any more.                      *)
Restart ==
    /\ Fault
    /\ fw' = Loaded(file)
    /\ log' = <<>> /\ cache' = {}
    /\ guard' = Idle /\ upd' = Idle /\ user' = Idle /\ tick' = "ask"
    /\ m_UpdateAllRules' = TRUE
    /\ overlapped' = (overlapped \/ file # Image(fw) \/ Busy)
    /\ UNCHANGED <<cfg, win, file, wanted, doubtful, mistaken>>

(* The agent knows the rules in Windows, approved or not, and has stored   *)
(* them.                                                                   *)
Init ==
    /\ cfg \in Settings
    /\ file \in Starts
    /\ win = [g \in Guids |-> IF \E r \in file : r.guid = g
                              THEN (CHOOSE r \in file : r.guid = g).c ELSE Gone]
    /\ log = <<>> /\ cache = {r.guid : r \in file}
    /\ fw = Loaded(file)
    /\ guard = Idle /\ upd = Idle /\ user = Idle /\ tick = "ask"
    /\ m_UpdateAllRules = FALSE
    /\ outside = 0
    /\ wanted = {r.c : r \in {x \in file : x.state # "disabled"}}
    /\ doubtful = {} /\ mistaken = {} /\ overlapped = FALSE

AgentNext ==
    \/ TakeEvent \/ OnFwGuardEvent
    \/ StartUpdateRules \/ LockForUpdate \/ FinishUpdateRules
    \/ \E g \in Guids : UpdateListed(g)
    \/ \E o \in Ids : UpdateMissing(o)
    \/ AskAboutWithdrawnRules \/ ReleaseHeldRules \/ ForgetSettled
    \/ LockForRevert \/ FinishRevert
    \/ \E o \in Ids : RejectRule(o) \/ RevertRule(o)
    \/ Compare \/ Approve \/ DropBackups \/ WriteRule \/ RestoreBackup
    \/ Store \/ Restart

Next ==
    \/ AgentNext
    \/ \E g \in Guids \ Random, c \in Content \cup {Gone} : ForeignChange(g, c)
    \/ \E g \in Guids, c \in Content : SetRule(g, c)
    \/ \E o \in Ids : SetBackup(o) \/ DelRule(o)

Spec == Init /\ [][Next]_vars

------------------------------------------------------------------------
RuleIds(S) == S \subseteq {o \in Ids : fw.rule[o] # Free}

(* The shape of Windows' rules, the log, the objects and the lists that    *)
(* point at them: no list points at an object that was freed.              *)
TypeOK ==
    /\ cfg \in Settings
    /\ win \in [Guids -> Content \cup {Gone}]
    /\ \A e \in Listed(log) : e.g \in Guids /\ e.gone \in BOOLEAN /\ e.own \in BOOLEAN
    /\ cache \subseteq Guids
    /\ fw.rule \in [Ids -> Rule \cup {Free}]
    /\ RuleIds(fw.m_FwRules) /\ RuleIds(fw.m_RulesToRemove) /\ RuleIds(fw.m_RulesToRevert)
    /\ \A e \in Listed(fw.m_WithdrawnRules) : RuleIds({e.pBackup}) /\ e.bRevert \in BOOLEAN
    /\ \A e \in Listed(fw.m_HeldRules) : RuleIds({e.pRule}) /\ e.bReject \in BOOLEAN
    /\ RuleIds(Listed(fw.m_SettledRemovals))
    /\ guard.pc \in {"idle", "apply"} /\ upd.pc \in {"idle", "read", "apply"}
    /\ user.pc \in Holding \cup {"idle", "write"}
    /\ tick \in {"ask", "release", "released", "revert"}
    /\ m_UpdateAllRules \in BOOLEAN
    /\ wanted \subseteq Content /\ doubtful \subseteq Guids
    /\ mistaken \subseteq Kinds /\ overlapped \in BOOLEAN

(* A template or a guard entry stands for the user's word.                 *)
Answered(k) ==
    LET p == Prog[k]
    IN \/ cfg.entry[p] = "approve"
       \/ cfg.template[p] = "block" /\ k \notin Allows
       \/ cfg.template[p] \in {"allow", "allow2"} /\ k \in Allows

(* TakeOver, SetApproved: a rule of the map counts as approved only if the *)
(* user agreed to such a rule, or a template or guard entry did for him,   *)
(* or SetRule took it for the rule it had looked up.                       *)
ApprovedWasAgreed ==
    \A o \in fw.m_FwRules :
        fw.rule[o].state = "approved" =>
            fw.rule[o].c.k \in Agreed \cup mistaken \/ Answered(fw.rule[o].c.k)

Handled == log = <<>> /\ guard = Idle /\ upd = Idle /\ ~m_UpdateAllRules /\ user = Idle

(* OnFwGuardEvent, UpdateRules, RestoreRule: one rule of the map for each  *)
(* rule in Windows, and the same.                                          *)
MirrorsWindows ==
    Handled =>
        \A g \in Guids \ doubtful :
            {fw.rule[o].c : o \in LiveAt(fw, g)} = {win[g]} \ {Gone}

AtRest == Handled /\ tick = "ask" /\ ~Busy

(* Only the user and the blanket guard decide.                             *)
NothingAnswers ==
    /\ ~cfg.FwAutoApproveAllowRemoval
    /\ \A p \in Progs : cfg.entry[p] = "none" /\ cfg.template[p] = "none"

Undisturbed == doubtful = {} /\ ~overlapped

(* AskAboutWithdrawnRules, ReleaseHeldRules, RevertChanges: with the       *)
(* blanket guard, once it has come to rest, no rule is in force that the   *)
(* user did not agree to and every rule he wants is there.                 *)
GuardHolds ==
    cfg.GuardFwRules /\ NothingAnswers /\ AtRest /\ Undisturbed =>
        /\ \A g \in Guids : win[g] # Gone /\ win[g].on => win[g].k \in Agreed
        /\ \A c \in wanted : \E g \in Guids : win[g] = c

(* SetAsBackup, TakeWithdrawnTwin, FindLiveTwin: whatever is changed, the  *)
(* rule the user wants is in Windows or there is a backup to restore.      *)
AgreedKept ==
    NothingAnswers /\ Handled /\ Undisturbed =>
        \A c \in wanted :
            \/ \E g \in Guids : win[g] = c
            \/ \E b \in Backups(fw) : fw.rule[b].c = c

(* OnFwGuardEvent: the agent's own writes are logged like those of others  *)
(* and come back to it.  Unless another change of the rule has followed,   *)
(* it does not take them for changes, so it never goes on answering itself.*)
AnswersOnlyOthers ==
    [][guard.pc = "apply" /\ guard.own /\ (\A e \in Listed(log) : e.g # guard.g) /\ guard' = Idle
         /\ ~m_UpdateAllRules' /\ doubtful' = {} /\ ~overlapped' => fw'.m_FwRules = fw.m_FwRules]_vars
=============================================================================
