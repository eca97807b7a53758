------------------------- MODULE FirewallInvariants -------------------------
(***************************************************************************)
(* What holds of every state of Firewall and keeps its promises, in named  *)
(* parts, and what a step does to the rules and the lists, in the terms    *)
(* the parts need.  FirewallProofs proves that they hold.                  *)
(***************************************************************************)
EXTENDS Firewall

-----------------------------------------------------------------------------
(* The shape of the state, and the map as a mirror of Windows *)

Contents  == Content \cup {Gone}
Object    == Rule \cup {Free}
LogEvent  == [g : Guids, gone : BOOLEAN, own : BOOLEAN]
Withdrawn == [pBackup : Ids, bRevert : BOOLEAN]
Held      == [pRule : Ids, bReject : BOOLEAN]

Rules == [rule : [Ids -> Object], m_FwRules : SUBSET Ids, m_RulesToRemove : SUBSET Ids,
          m_RulesToRevert : SUBSET Ids, m_WithdrawnRules : Seq(Withdrawn),
          m_HeldRules : Seq(Held), m_SettledRemovals : Seq(Ids)]

\* A request may have left what was a backup in the map, under a guid that is on
\* record then.
Aside(f, b) == f.rule[b].backup \/ f.rule[b].guid \in doubtful

\* No list points at an object that was freed, and a rule that is held back as
\* withdrawn is a backup.
InUse(f) == {o \in Ids : f.rule[o] # Free}

Sound(f) ==
    /\ f \in Rules
    /\ f.m_FwRules \subseteq InUse(f)
    /\ f.m_RulesToRemove \subseteq InUse(f) /\ f.m_RulesToRevert \subseteq InUse(f)
    /\ \A e \in Listed(f.m_WithdrawnRules) : e.pBackup \in InUse(f) /\ Aside(f, e.pBackup)
    /\ \A e \in Listed(f.m_HeldRules) : e.pRule \in InUse(f)
    /\ \A o \in Listed(f.m_SettledRemovals) : o \in InUse(f)

Reader  == {Idle} \cup [pc : {"apply"}, g : Guids, c : Contents, own : BOOLEAN]
Updater == {Idle} \cup [pc : {"read"}, list : [Guids -> Contents]]
             \cup [pc : {"apply"}, list : [Guids -> Contents], old : SUBSET Ids, todo : SUBSET Guids]
Request == {Idle} \cup [pc : {"found"}, o : Ids \cup {0}, g : Guids, c : Content]
             \cup [pc : {"approve", "clear"}, o : Ids, c : Content]
             \cup [pc : {"write"}, g : Guids, c : Content] \cup [pc : {"restore"}, o : Ids]

Shape ==
    /\ cfg \in Settings
    /\ win \in [Guids -> Contents]
    /\ log \in Seq(LogEvent)
    /\ cache \subseteq Guids
    /\ Sound(fw)
    /\ guard \in Reader /\ upd \in Updater /\ user \in Request
    /\ upd.pc = "apply" => upd.old \subseteq InUse(fw)
    /\ user.pc \in Holding => user.o \in InUse(fw) \cup {0}
    /\ tick \in {"ask", "release", "released", "revert"}
    /\ m_UpdateAllRules \in BOOLEAN
    /\ file \subseteq Saved /\ IsFiniteSet(file) /\ Cardinality(file) <= MaxRules
    /\ wanted \subseteq Content /\ doubtful \subseteq Guids
    /\ mistaken \subseteq Kinds /\ overlapped \in BOOLEAN

\* Every object, in the map or not, that counts as approved has a kind the user
\* or a setting agreed to, or one a request mistook for its own, and so has every
\* stored rule; so has a backup the user asked for, and what he asks for has a
\* kind he agrees to.
Fine(k) == k \in Agreed \cup mistaken \/ Answered(k)

Verdicts ==
    /\ \A o \in Ids : fw.rule[o].state = "approved" => Fine(fw.rule[o].c.k)
    /\ \A r \in file : r.state = "approved" => Fine(r.c.k)
    /\ user.pc = "restore" =>
         fw.rule[user.o].backup /\ fw.rule[user.o].c.k \in Agreed \cup mistaken
    /\ user.pc = "approve" => fw.rule[user.o].c.k \in Agreed
    /\ user.pc \in {"found", "write"} => user.c.k \in Agreed

\* One rule of the map for a guid; what is stored is such a map.
Once ==
    /\ \A o, p \in Live(fw) :
         fw.rule[o].guid = fw.rule[p].guid /\ fw.rule[o].guid \notin doubtful => o = p
    /\ \A r, t \in file :
         ~r.backup /\ ~t.backup /\ r.guid = t.guid /\ r.guid \notin doubtful => r = t

Pending(g)   == \E i \in DOMAIN log : log[i].g = g
Reading(g)   == guard.pc = "apply" /\ guard.g = g
Shows(f, g, c) == {f.rule[o].c : o \in LiveAt(f, g)} = {c} \ {Gone}
Mirrored(g)  == Shows(fw, g, win[g])

\* The newest event about a rule says whether there still is one.
NewestTells ==
    \A i \in DOMAIN log :
        (\A j \in DOMAIN log : j > i => log[j].g # log[i].g) => (log[i].gone <=> win[log[i].g] = Gone)

\* The cache of the Windows interface holds a rule unless an event will add it.
CacheKnows ==
    ~m_UpdateAllRules \/ upd.pc # "idle" =>
        \A g \in Guids \ doubtful : ~Pending(g) /\ win[g] # Gone => g \in cache

\* What was read of a rule is what it is, or another event follows.
ReadIsFresh == \A g \in Guids \ doubtful : Reading(g) /\ ~Pending(g) => guard.c = win[g]

\* UpdateRules has the lock for itself, the rules it has still to look at are in
\* its list of old ones, and nothing else of the map is.
WalkIsWhole ==
    upd.pc = "apply" =>
        /\ tick # "revert"
        /\ \A g \in Guids \ doubtful :
             g \in upd.todo \/ upd.list[g] = Gone => LiveAt(fw, g) \subseteq upd.old
        /\ \A g \in upd.todo : upd.list[g] # Gone
        /\ \A o \in upd.old : Aside(fw, o) \/ o \in fw.m_FwRules

\* Between a start and its UpdateRules nobody writes.
StartIsQuiet == m_UpdateAllRules => tick = "ask" /\ user = Idle

\* After a start the map follows Windows once UpdateRules came by.
Caught(g) ==
    m_UpdateAllRules /\
        \/ upd.pc = "idle"
        \/ upd.pc = "read"  /\ upd.list[g] = win[g]
        \/ upd.pc = "apply" /\ upd.list[g] = win[g] /\ (g \in upd.todo \/ win[g] = Gone)

Follows ==
    \A g \in Guids \ doubtful : Pending(g) \/ Reading(g) \/ Mirrored(g) \/ Caught(g)

MirrorInv ==
    /\ Once /\ NewestTells /\ CacheKnows /\ ReadIsFresh
    /\ WalkIsWhole /\ StartIsQuiet /\ Follows

-----------------------------------------------------------------------------
(* What a step may do to the objects and to the live rules of a guid *)

Keeps(f, h) ==
    \A o \in InUse(f) :
        /\ o \in InUse(h)
        /\ h.rule[o].guid = f.rule[o].guid /\ h.rule[o].c = f.rule[o].c
        /\ f.rule[o].backup => h.rule[o].backup

AllFine(f) == \A o \in Ids : f.rule[o].state = "approved" => Fine(f.rule[o].c.k)

\* h is f with o no longer a live rule of the map.
Drops(f, h, o) ==
    /\ Sound(h) /\ Keeps(f, h)
    /\ AllFine(f) => AllFine(h)
    /\ \A g \in Guids : LiveAt(h, g) = LiveAt(f, g) \ {o}

\* h is f with a new live rule for the guid g instead of o.
Brings(f, h, g, c, o) ==
    /\ Sound(h) /\ Keeps(f, h)
    /\ AllFine(f) => AllFine(h)
    /\ \A a \in Guids \ {g} : LiveAt(h, a) = LiveAt(f, a) \ {o}
    /\ \E n \in Ids \ InUse(f) :
         LiveAt(h, g) = (LiveAt(f, g) \ {o}) \cup {n} /\ h.rule[n].c = c

\* The same, but that a rule of a guid on record may have gone for it.
Trades(f, h, g, c, o) ==
    /\ Sound(h) /\ Keeps(f, h)
    /\ AllFine(f) => AllFine(h)
    /\ \A a \in Guids \ ({g} \cup doubtful) : LiveAt(h, a) = LiveAt(f, a) \ {o}
    /\ g \notin doubtful =>
         \E n \in Ids \ InUse(f) :
            LiveAt(h, g) = (LiveAt(f, g) \ {o}) \cup {n} /\ h.rule[n].c = c

-----------------------------------------------------------------------------
(* FWRuleChanged, outcome by outcome *)

\* h is f with other lists and verdicts.
Touches(f, h) ==
    /\ Sound(h) /\ Keeps(f, h)
    /\ AllFine(f) => AllFine(h)
    /\ h.m_FwRules = f.m_FwRules
    /\ \A o \in Ids : h.rule[o].backup <=> f.rule[o].backup

SameLists(f, h) ==
    /\ h.m_RulesToRemove = f.m_RulesToRemove /\ h.m_RulesToRevert = f.m_RulesToRevert
    /\ h.m_WithdrawnRules = f.m_WithdrawnRules /\ h.m_HeldRules = f.m_HeldRules
    /\ h.m_SettledRemovals = f.m_SettledRemovals

Quiet(f, g, c, o) ==
    \/ c = Gone /\ o = 0
    \/ c = Gone /\ o # 0 /\ f.rule[o].backup
    \/ c # Gone /\ o # 0 /\ f.rule[o].c = c

-----------------------------------------------------------------------------
(* What a step does to the map, its freed objects left aside *)

\* Objects a request or UpdateRules has in hand.
Pinned ==
    (IF user.pc \in Holding THEN {user.o} \ {0} ELSE {}) \cup (IF upd.pc = "apply" THEN upd.old ELSE {})

Retains(f, h) ==
    \A o \in Pinned :
        /\ o \in InUse(h)
        /\ h.rule[o].guid = f.rule[o].guid /\ h.rule[o].c.k = f.rule[o].c.k
        /\ f.rule[o].backup => h.rule[o].backup

Unmoved(f, h, g) ==
    LiveAt(h, g) = LiveAt(f, g) /\ \A o \in LiveAt(f, g) : h.rule[o].c = f.rule[o].c

\* Only the live rules of the guids in G change.
Moves(f, h, G) ==
    /\ Sound(h) /\ Retains(f, h)
    /\ AllFine(f) => AllFine(h)
    /\ \A g \in Guids \ G : Unmoved(f, h, g)

\* One live rule of g, with the contents c, or none.
Alone(h, g)     == \A o, p \in LiveAt(h, g) : o = p
Single(h, g, c) == Shows(h, g, c) /\ Alone(h, g)

\* A rule of g with the contents c is live in h instead of o, as in Trades.
Swaps(f, h, g, c, o) ==
    /\ Sound(h) /\ Retains(f, h)
    /\ AllFine(f) => AllFine(h)
    /\ \A a \in Guids \ ({g} \cup doubtful) : LiveAt(h, a) = LiveAt(f, a) \ {o}
    /\ \A a \in Guids \ ({g} \cup doubtful) :
         \A p \in LiveAt(f, a) \ {o} : h.rule[p].c = f.rule[p].c
    /\ g \notin doubtful =>
         \E n \in Ids : LiveAt(h, g) = (LiveAt(f, g) \ {o}) \cup {n} /\ h.rule[n].c = c

-----------------------------------------------------------------------------
(* RestoreRule and the requests, by what they do to the live rules *)

\* h is f with the same live rules.
Spares(f, h) ==
    /\ Sound(h) /\ Keeps(f, h)
    /\ AllFine(f) => AllFine(h)
    /\ \A g \in Guids : LiveAt(h, g) = LiveAt(f, g)

\* h is f with one live rule of g, of the contents c, or none.
Puts(f, h, g, c) ==
    /\ Sound(h) /\ Keeps(f, h)
    /\ AllFine(f) => AllFine(h)
    /\ \A a \in Guids \ {g} : LiveAt(h, a) = LiveAt(f, a)
    /\ Single(h, g, c)

\* A write of the agent to the rule g: an event for it follows.
Logs(g) ==
    \E c \in Contents, own \in BOOLEAN :
        /\ win' = [win EXCEPT ![g] = c]
        /\ log' = Append(log, Event(g, c, own))
        /\ cache' \subseteq Guids /\ cache \ {g} \subseteq cache'

\* RemoveRule that finds no rule in the cache writes nothing.
RemovedBefore(g) ==
    /\ UNCHANGED <<win, log>>
    /\ ~(g \in cache /\ win[g] # Gone)
    /\ cache' = cache \ {g}

\* RestoreRule for the backup b, whose rule it writes under the guid g.
PutBack(b, g, state) ==
    LET r == [fw.rule[b] EXCEPT !.guid = g]
    IN \/ Restored(r, b, state) \/ NotRestored(r, b)
       \/ \E c \in Content : RestoredAs(r, b, c)
       \/ RestoredUnread(r, b)

\* A step that deals with the rule g: it writes to Windows, or a call about g is
\* known to have failed, or it finds the rule removed already, or it leaves the
\* live rules alone.
Answers(g) ==
    /\ Moves(fw, fw', {g})
    /\ Once /\ g \notin doubtful => Alone(fw', g)
    /\ doubtful' \in {doubtful, doubtful \cup {g}}
    /\ \/ Logs(g)
       \/ UNCHANGED winVars /\ g \in doubtful'
       \/ RemovedBefore(g) /\ (Once /\ g \notin doubtful => LiveAt(fw', g) = {})
       \/ UNCHANGED winVars /\ Moves(fw, fw', {})

\* Contents and state of an object, at once or one after the other.
AtOnce(f, o, c, s)  == [f EXCEPT !.rule[o].c = c, !.rule[o].state = s]
InTurn(f, o, c, s)  == [[f EXCEPT !.rule[o].c = c] EXCEPT !.rule[o].state = s]
NewForm(r, c, s)    == [r EXCEPT !.c = c, !.state = s]

-----------------------------------------------------------------------------
(* The stored rules *)

ObjectOf(r) == [guid |-> r.guid, backup |-> r.backup, c |-> r.c, state |-> r.state, err |-> FALSE]

SavedOf(r) == [guid |-> r.guid, backup |-> r.backup, c |-> r.c, state |-> r.state]

-----------------------------------------------------------------------------
(* Shape and verdicts are kept *)

Safe == Shape /\ Verdicts

-----------------------------------------------------------------------------
(* What waits in the lists.  The agent's own write of a rule it turned down  *)
(* matches the map only if the rule is still in the map; so every rule in    *)
(* m_RulesToRemove has to be a live one, and what leads there has to be kept *)
(* clear of what takes rules out of the map.                                 *)

Waiting(f) == {e.pBackup : e \in Listed(f.m_WithdrawnRules)}
InHeld(f)  == {e.pRule : e \in Listed(f.m_HeldRules)}
Undoing(f) == f.m_RulesToRevert \cup Waiting(f)

\* A rule is held back once.
HeldOnce(f) ==
    \A i, j \in DOMAIN f.m_HeldRules :
        f.m_HeldRules[i].pRule = f.m_HeldRules[j].pRule => i = j

\* The lists were filled under the setting in force.
Marked(f) ==
    /\ \A e \in Listed(f.m_WithdrawnRules) : e.bRevert <=> cfg.GuardFwRules
    /\ \A e \in Listed(f.m_HeldRules) : e.bReject <=> cfg.GuardFwRules

\* What is to be disabled is in the map, what is to be restored is a backup.
\* With the blanket guard every backup of the map is to be restored, and no
\* rule is held back while an earlier form of it is to be restored.
Placed(f) ==
    /\ f.m_RulesToRemove \subseteq Live(f)
    /\ InHeld(f) \cap f.m_RulesToRemove = {}
    /\ \A b \in Undoing(f) : f.rule[b].backup
    /\ \A o \in InUse(f) : ~f.rule[o].err
    /\ cfg.GuardFwRules =>
         /\ InHeld(f) \subseteq Live(f)
         /\ Backups(f) \subseteq Undoing(f)
         /\ \A b \in Undoing(f), n \in InHeld(f) : f.rule[b].guid # f.rule[n].guid

Tidy(f) == HeldOnce(f) /\ Marked(f) /\ Placed(f)

\* h is f with o no longer a live rule and the objects N new: rules of g which
\* come to be turned down or held back, or neither.  o is in none of the lists of
\* what is turned down or held back, and if it has become a backup in the map it
\* may have to be restored.
Resolves(f, h, g, o, N) ==
    /\ N \cap InUse(f) = {}
    /\ InUse(f) \subseteq InUse(h) /\ InUse(h) \subseteq InUse(f) \cup N
    /\ \A p \in InUse(f) : h.rule[p].guid = f.rule[p].guid /\ (h.rule[p].err <=> f.rule[p].err)
    /\ \A p \in InUse(f) \ {o} : h.rule[p].backup <=> f.rule[p].backup
    /\ \A n \in N : n \in h.m_FwRules /\ ~h.rule[n].backup /\ ~h.rule[n].err /\ h.rule[n].guid = g
    /\ h.m_FwRules \subseteq f.m_FwRules \cup N
    /\ Live(f) \ {o} \subseteq h.m_FwRules
    /\ h.m_RulesToRemove \subseteq f.m_RulesToRemove \cup N
    /\ InHeld(h) \subseteq InHeld(f) \cup N
    /\ InHeld(h) \cap N = {} \/ h.m_RulesToRemove \cap N = {}
    /\ Undoing(h) \subseteq Undoing(f) \cup {o}
    /\ o \in Undoing(h) => h.rule[o].backup
    /\ Undoing(f) \cap h.m_FwRules \subseteq Undoing(h)
    /\ cfg.GuardFwRules /\ o \in h.m_FwRules => o \in Undoing(h)

\* The same objects, up to contents and verdicts.
SameObjects(f, h) ==
    /\ InUse(h) = InUse(f)
    /\ \A p \in InUse(f) :
         /\ h.rule[p].guid = f.rule[p].guid
         /\ h.rule[p].err <=> f.rule[p].err
         /\ h.rule[p].backup <=> f.rule[p].backup

\* h is f with o out of the map and its twin out of the lists; nothing else has
\* changed but the twin's verdict and what is kept in mind.
Removes(f, h, o, twin) ==
    /\ SameObjects(f, h) /\ h.m_FwRules = f.m_FwRules \ {o}
    /\ h.m_RulesToRevert = f.m_RulesToRevert /\ h.m_WithdrawnRules = f.m_WithdrawnRules
    /\ h.m_RulesToRemove = f.m_RulesToRemove \ {twin} /\ InHeld(h) = InHeld(f) \ {twin}
    /\ HeldOnce(h) /\ Listed(h.m_HeldRules) \subseteq Listed(f.m_HeldRules)
    /\ \A p \in InUse(f) : h.rule[p].c = f.rule[p].c
    /\ \A p \in InUse(f) \ {twin} : h.rule[p].state = f.rule[p].state
    /\ twin # 0 => h.rule[twin].state \in {"approved", f.rule[o].state}

\* h is f after a rule of g was written, deleted, restored or given a verdict:
\* rules and backups of g may have left the map, new rules may have come, and what
\* left the lists of what is to be undone is done.
Redoes(f, h, g) ==
    /\ Sound(h) /\ InUse(f) \subseteq InUse(h)
    /\ \A p \in InUse(f) :
         /\ h.rule[p].guid = f.rule[p].guid
         /\ h.rule[p].err <=> f.rule[p].err
         /\ h.rule[p].backup <=> f.rule[p].backup
    /\ \A p \in InUse(h) \ InUse(f) : ~h.rule[p].backup /\ ~h.rule[p].err
    /\ \A p \in f.m_FwRules : f.rule[p].guid # g => p \in h.m_FwRules
    /\ h.m_FwRules \cap InUse(f) \subseteq f.m_FwRules
    /\ h.m_HeldRules = f.m_HeldRules /\ h.m_WithdrawnRules = f.m_WithdrawnRules
    /\ h.m_RulesToRemove \subseteq f.m_RulesToRemove /\ h.m_RulesToRevert \subseteq f.m_RulesToRevert
    /\ (f.m_RulesToRevert \ h.m_RulesToRevert) \cap h.m_FwRules = {}

\* What OnFwGuardEvent and UpdateRules apply a change to: the live rule of the
\* guid, or none if there is none; or a backup UpdateRules does not find listed.
Aims(g, c, o) ==
    /\ Change(g, c, o)
    /\ \/ o = 0 /\ LiveAt(fw, g) = {}
       \/ LiveAt(fw, g) = {o}
       \/ c = Gone /\ o \in InUse(fw) /\ fw.rule[o].backup

Calm == doubtful = {} /\ ~overlapped

-----------------------------------------------------------------------------
(* The agent's own writes.  When the newest event about a rule is the      *)
(* agent's own, the map has the rule as it is in Windows: what comes back  *)
(* is no news.                                                             *)

NewestOwn(g) ==
    \/ \E i \in DOMAIN log : /\ log[i].g = g /\ log[i].own
                             /\ \A j \in DOMAIN log : j > i => log[j].g # g
    \/ ~Pending(g) /\ Reading(g) /\ guard.own

OwnMirrored == \A g \in Guids : NewestOwn(g) => Mirrored(g) /\ (win[g] # Gone => g \in cache)

\* A step of the agent that deals with the rule g, and that nothing went wrong
\* with: what it writes to Windows it writes to the map.
Echoes(g) ==
    /\ Moves(fw, fw', {g})
    /\ \/ \E c \in Contents : Write(g, c) /\ Shows(fw', g, c)
       \/ RemovedBefore(g) /\ LiveAt(fw', g) = {}

OwnInv == Calm => Tidy(fw) /\ OwnMirrored

-----------------------------------------------------------------------------
(* What the user wants.  Each of its contents is carried by a rule of the    *)
(* map that no list takes away again, or by a backup; and under the blanket  *)
(* guard a rule he did not agree to is in a list, or an earlier form of it   *)
(* is about to be put back.                                                  *)

Suspect(f) == f.m_RulesToRemove \cup InHeld(f)

\* A removal is held back once, and not undone yet.
WaitsOnce(f) ==
    /\ \A i, j \in DOMAIN f.m_WithdrawnRules :
         f.m_WithdrawnRules[i].pBackup = f.m_WithdrawnRules[j].pBackup => i = j
    /\ Waiting(f) \cap f.m_RulesToRevert = {}

\* A rule has one earlier form to be restored, and only under the blanket guard
\* is it restored without a request; a rule that is held back is no backup.
Orderly(f) ==
    /\ WaitsOnce(f)
    /\ \A b, d \in Undoing(f) : f.rule[b].guid = f.rule[d].guid => b = d
    /\ \A p \in InHeld(f) : ~f.rule[p].backup
    /\ ~cfg.GuardFwRules => f.m_RulesToRevert = {}

\* The object o of the map stands for the contents c.
Carries(f, o, c) ==
    /\ o \in f.m_FwRules /\ f.rule[o].c = c /\ f.rule[o].state # "disabled"
    /\ \/ f.rule[o].backup
       \/ o \notin Suspect(f) /\ \A b \in Undoing(f) : f.rule[b].guid # f.rule[o].guid

Carried(f, W) == \A c \in W : \E o \in InUse(f) : Carries(f, o, c)

Rogue(c) == c.on /\ c.k \notin Agreed

Trapped(f) ==
    /\ \A o \in Live(f) : Rogue(f.rule[o].c) =>
         \/ o \in Suspect(f)
         \/ \E b \in f.m_RulesToRevert : f.rule[b].guid = f.rule[o].guid
    /\ \A b \in Undoing(f) : ~Rogue(f.rule[b].c)

\* h is f after a change: o is no longer as it was, r is the backup whose rule
\* came back, t the twin that stands in for o, n the new object; 0 stands for none.
Turns(f, h, o, r, t, n) ==
    /\ InUse(f) \subseteq InUse(h)
    /\ \A p \in InUse(f) : h.rule[p].guid = f.rule[p].guid /\ h.rule[p].c = f.rule[p].c
    /\ \A p \in InUse(f) \ {o} : h.rule[p].backup <=> f.rule[p].backup
    /\ \A p \in InUse(f) \ {t} : h.rule[p].state = f.rule[p].state
    /\ h.m_FwRules \subseteq f.m_FwRules \cup {n} /\ f.m_FwRules \ {o, r} \subseteq h.m_FwRules
    /\ Suspect(h) \subseteq Suspect(f) \cup {n} /\ Suspect(f) \subseteq Suspect(h) \cup {o, t}
    /\ InHeld(h) \subseteq InHeld(f) \cup {n}
    /\ Undoing(h) \subseteq Undoing(f) \cup {o}
    /\ f.m_RulesToRevert \subseteq h.m_RulesToRevert
    /\ ~cfg.GuardFwRules => h.m_RulesToRevert = f.m_RulesToRevert
    /\ WaitsOnce(f) => WaitsOnce(h) /\ r \notin Undoing(h)

\* A new rule of the map, which no list has yet.
IsNew(f, h, n, g, c) ==
    /\ n \in Ids /\ n \notin InUse(f) /\ n \in h.m_FwRules /\ n \in InUse(h)
    /\ h.rule[n].guid = g /\ h.rule[n].c = c /\ ~h.rule[n].backup

\* Only the blanket guard has a say where nothing answers for the user, apart from
\* the removal of what it turned down or holds back.
LetGo(f, c, o) ==
    c = Gone /\ (o \in f.m_RulesToRemove \cup InHeld(f) \/ f.rule[o].state = "disabled")

\* The change does not meet one that is not settled.
Apart(f, g, c, o) ==
    LET looks    == LooksForTwin(f, c, o)
        w        == WithdrawnTwin(f, c)
        returns  == c # Gone /\ looks /\ w # 0
        settled  == SettledTwin(f, c)
        live     == FindLiveTwin(f, f.rule[o].c, o)
    IN /\ o = 0 /\ c # Gone =>
            /\ \A b \in Undoing(f) :
                 f.rule[b].guid # g \/ (returns /\ b = f.m_WithdrawnRules[w].pBackup)
            /\ looks /\ settled # 0 => f.rule[f.m_SettledRemovals[settled]].state = "approved"
       /\ o # 0 /\ f.rule[o].backup =>
            /\ c = Gone
            /\ o \in Undoing(f) \/ Unanswered(f, c, o) # "reject"
       /\ o # 0 /\ ~f.rule[o].backup /\ f.rule[o].c # c =>
            /\ ~returns
            /\ o \in Live(f) /\ f.rule[o].guid = g
            /\ \A p \in Live(f) : f.rule[p].guid = g => p = o
            /\ \A b \in Undoing(f) : f.rule[b].guid # g
            /\ c = Gone /\ looks /\ live # 0 =>
                 \A b \in Undoing(f) : f.rule[b].guid # f.rule[live].guid
            /\ cfg.GuardFwRules /\ Trapped(f) /\ Rogue(f.rule[o].c) =>
                 /\ c = Gone /\ o \in Suspect(f)
                 /\ \A p \in InHeld(f) \ {o} : f.rule[p].c # f.rule[o].c

\* k is f with o taken out of what waits.
TakenOut(f, k, o) ==
    /\ Sound(k) /\ Tidy(k) /\ k.rule = f.rule /\ k.m_FwRules = f.m_FwRules
    /\ Undoing(k) = Undoing(f) /\ k.m_WithdrawnRules = f.m_WithdrawnRules
    /\ k.m_RulesToRevert = f.m_RulesToRevert /\ k.m_SettledRemovals = f.m_SettledRemovals
    /\ Suspect(k) = Suspect(f) \ {o} /\ InHeld(k) = InHeld(f) \ {o}

Upholds(f, h) ==
    /\ Orderly(h)
    /\ \A W : Carried(f, W) => Carried(h, W)
    /\ cfg.GuardFwRules /\ Trapped(f) => Trapped(h)

\* Rules of other guids stay as they were, and so does what waits for them.
Confined(f, h, g) ==
    /\ \A p \in InUse(f) : f.rule[p].guid # g => h.rule[p].c = f.rule[p].c
    /\ \A p \in f.m_RulesToRemove : p \in h.m_RulesToRemove \/ f.rule[p].guid = g
    /\ \A p \in f.m_RulesToRevert : p \in h.m_RulesToRevert \/ f.rule[p].guid = g
    /\ \A p \in InUse(h) \ InUse(f) : h.rule[p].guid = g

\* What the user wants is carried; under the blanket guard the rest is trapped.
Kept(f, W) == Orderly(f) /\ Carried(f, W) /\ (cfg.GuardFwRules => Trapped(f))

\* A request that took another rule for the one it looked up is on record.
Unmistaken == ~overlapped => mistaken = {}

WantedInv == NothingAnswers /\ Calm => Kept(fw, wanted)

\* a is the first part of s, of length n, and w the rest of it.
Halves(s, n, a, w) ==
    /\ n \in Nat /\ Listed(s) = Listed(a) \cup Listed(w)
    /\ \A i \in DOMAIN a : i \in DOMAIN s /\ i \in Nat /\ i <= n /\ a[i] = s[i]
    /\ \A i \in DOMAIN w : n + i \in DOMAIN s /\ i >= 1 /\ i \in Nat /\ w[i] = s[n + i]

\* What AskAboutWithdrawnRules, ReleaseHeldRules and ForgetSettled make of fw, before
\* the objects nothing refers to any more are gone: the first part a of the list
\* they look at has left it, and what it asked for is to be undone.
Asks(k, n, a) ==
    /\ fw' = Collected(k) /\ Touches(fw, k)
    /\ Halves(fw.m_WithdrawnRules, n, a, k.m_WithdrawnRules)
    /\ k.rule = fw.rule /\ k.m_FwRules = fw.m_FwRules /\ k.m_HeldRules = fw.m_HeldRules
    /\ k.m_RulesToRemove = fw.m_RulesToRemove
    /\ k.m_RulesToRevert = fw.m_RulesToRevert \cup {e.pBackup : e \in {x \in Listed(a) : x.bRevert}}

Releases(k, n, a) ==
    /\ fw' = Collected(k) /\ Touches(fw, k)
    /\ Halves(fw.m_HeldRules, n, a, k.m_HeldRules)
    /\ k.rule = fw.rule /\ k.m_FwRules = fw.m_FwRules /\ k.m_WithdrawnRules = fw.m_WithdrawnRules
    /\ k.m_RulesToRevert = fw.m_RulesToRevert
    /\ k.m_RulesToRemove = fw.m_RulesToRemove \cup {e.pRule : e \in {x \in Listed(a) : x.bReject}}

Forgets(k) ==
    /\ fw' = Collected(k) /\ Touches(fw, k)
    /\ k.rule = fw.rule /\ k.m_FwRules = fw.m_FwRules /\ k.m_HeldRules = fw.m_HeldRules
    /\ k.m_RulesToRemove = fw.m_RulesToRemove /\ k.m_RulesToRevert = fw.m_RulesToRevert
    /\ k.m_WithdrawnRules = fw.m_WithdrawnRules

\* What RestoreRule leaves: the backup b is a live rule again, in state s and under
\* the object n, and no other rule or backup of its guid is in the map.
BackInForce(f, h, b) ==
    /\ Redoes(f, h, f.rule[b].guid)
    /\ \A p \in InUse(f) : h.rule[p] = f.rule[p]
    /\ h.m_RulesToRemove = f.m_RulesToRemove
    /\ h.m_RulesToRevert = f.m_RulesToRevert \ {b}

BackAs(f, h, b, s, n) ==
    /\ InUse(h) = InUse(f) \cup {n}
    /\ h.rule[n].guid = f.rule[b].guid /\ h.rule[n].c = f.rule[b].c
    /\ h.rule[n].state = s /\ ~h.rule[n].backup
    /\ h.m_FwRules = {p \in f.m_FwRules : f.rule[p].guid # f.rule[b].guid} \cup {n}

\* What RejectRule does to the rule o of the guid g, deleted or disabled: nothing
\* else of fw is disturbed, and o is not in force with what nobody agreed to.
Rejected(h, o, g) ==
    /\ Redoes(fw, h, g) /\ InUse(h) = InUse(fw)
    /\ \A p \in InUse(fw) \ {o} : h.rule[p] = fw.rule[p]
    /\ h.m_RulesToRemove = fw.m_RulesToRemove \ {o} /\ h.m_RulesToRevert = fw.m_RulesToRevert
    /\ fw.m_FwRules \ {o} \subseteq h.m_FwRules
    /\ o \in h.m_FwRules => ~Rogue(h.rule[o].c)

\* What UpdateFWRule leaves: one live rule of g, which has the content c.
Writes(h, g, c) ==
    /\ Redoes(fw, h, g) /\ SameLists(fw, h)
    /\ \A p \in InUse(fw) \ LiveAt(fw, g) : h.rule[p] = fw.rule[p]
    /\ fw.m_FwRules \ LiveAt(fw, g) \subseteq h.m_FwRules
    /\ \A p \in InUse(h) \ InUse(fw) : h.rule[p].guid = g
    /\ \E n \in LiveAt(h, g) : h.rule[n].c = c /\ LiveAt(h, g) = {n}

=============================================================================
