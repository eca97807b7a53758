------------------------------ MODULE Presets ------------------------------
(***************************************************************************)
(* The preset manager of the privacy agent (Service/Presets).              *)
(*                                                                         *)
(* A preset is a list of wishes "enable / disable this rule or tweak".     *)
(* Activating one saves the state each item had (m_ItemOwnership) and      *)
(* applies the wish; deactivating it puts the saved state back.  Requests  *)
(* of different clients run on different threads; m_Mutex is dropped while *)
(* a script runs and while the file is written, so a request is a critical *)
(* section followed by the separate steps of Store().                      *)
(*                                                                         *)
(* The rules live elsewhere: "live" is the state in the driver, the        *)
(* Windows firewall or the system, "cached" what the agent's own object    *)
(* says.  Program and access rules are cached and refreshed by a           *)
(* notification of the driver that arrives later ("pending").              *)
(***************************************************************************)
EXTENDS Naturals

CONSTANTS
    Presets,        \* guids of presets, numbers because std::set is ordered
    Items,          \* guids of rules and tweaks a preset may name
    Derived,        \* firewall rules made from a template
    Template,       \* the template of each derived rule
    Type,           \* what an item is: "rule", "fw" or "tweak"
    Clients,        \* request threads
    Edits,          \* the item lists a client may write into a preset
    Ops,            \* the requests each client makes
    Env,            \* what else happens: crashes, changes by the user
    NoFile,         \* no Presets.dat, no list to import
    MayFail         \* whose writes may be refused: "Items" by the driver, firewall
                    \* or registry, "Disk" by the file system

Wish == {"skip", "enable", "disable"}
OpNames == {"Activate", "Force", "Deactivate", "DeactivateAll", "SetEntry",
            "DelEntry", "SetPresets", "Commit", "Discard"}

ASSUME PresetsAreOrdered == Presets \subseteq Nat \ {0}
ASSUME EditsAreItemLists == Edits \subseteq [Items -> Wish]
ASSUME TypesOfItems == Type \in [Items -> {"rule", "fw", "tweak"}]
ASSUME DerivedRules ==
    /\ Derived \cap Items = {}
    /\ Template \in [Derived -> {i \in Items : Type[i] = "fw"}]
ASSUME EnvironmentConstants ==
    /\ Ops \in [Clients -> SUBSET OpNames]
    /\ Env \subseteq {"Crash", "User"}
    /\ MayFail \subseteq {"Items", "Disk"}

VARIABLES
    m_Presets,        \* guid -> item list, for the presets that exist
    m_ActivePresets,
    m_ItemOwnership,  \* item -> who owns it and the state to restore
    live, cached, pending,
    file,             \* Presets.dat
    tmp,              \* Presets.dat.tmp; the .bak is written and never read
    pc,               \* where each client's request is
    at,               \* DeactivateAllPresets: the element its iterator stands
                      \* on, 0 once that element is gone from the set
    left,             \* SVC_API_SET_PRESETS: presets still to deactivate
    import,           \* SVC_API_SET_PRESETS: the list to install, or NoFile
    snap,             \* what Store() has collected so far
    null,             \* the request holds a null preset pointer
    orig,             \* history: the state the user last gave a free item
                      \* ("absent" for one deleted while a preset owned it)
    excused           \* history: items whose original state was really lost

mem  == <<m_Presets, m_ActivePresets, m_ItemOwnership>>
rules == <<live, cached, pending>>
call == <<pc, at, left, import, snap, null>>
hist == <<orig, excused>>
vars == <<mem, rules, file, tmp, call, hist>>

-----------------------------------------------------------------------------
(* Types *)

Rules == Items \cup Derived
State == {"on", "off", "applied", "absent"}
PartialFunctions(S, T) == UNION {[D -> T] : D \in SUBSET S}
Ownership == [PresetGuid : Presets, bWasEnabled : BOOLEAN]
PresetLists == PartialFunctions(Presets, [Items -> Wish])
Owners == PartialFunctions(Items, Ownership)
Image == [presets : PresetLists, active : SUBSET Presets, own : Owners]

ASSUME NoFileIsNoImage == NoFile \notin Image /\ NoFile \notin PresetLists

PCs == {"idle", "all", "import", "entries", "ownership", "write", "away",
        "rename", "event"}

\* The members, the file and the requests under way keep their shape; what is
\* saved for an item (ApplyPresetItems) names a preset, never the empty guid.
TypeOK ==
    /\ m_Presets \in PresetLists
    /\ m_ActivePresets \subseteq Presets
    /\ m_ItemOwnership \in Owners
    /\ live \in [Rules -> State]
    /\ cached \in [Rules -> State]
    /\ pending \subseteq Items
    /\ file \in Image \cup {NoFile}
    /\ tmp \in Image \cup {NoFile}
    /\ pc \in [Clients -> PCs]
    /\ at \in [Clients -> Presets \cup {0}]
    /\ left \in [Clients -> SUBSET Presets]
    /\ import \in [Clients -> PresetLists \cup {NoFile}]
    /\ snap \in [Clients -> Image]
    /\ null \in [Clients -> BOOLEAN]
    /\ orig \in [Items -> State]
    /\ excused \subseteq Items

-----------------------------------------------------------------------------
(* Items *)

Owned == DOMAIN m_ItemOwnership
OwnedBy(p) == {i \in Owned : m_ItemOwnership[i].PresetGuid = p}
Wanted(p) == {i \in Items : m_Presets[p][i] # "skip"}
Target(w) == IF w = "enable" THEN "on" ELSE "off"
\* Mutant of Restored: what is given back is always switched off.
RestoredOff(o) == "off"

Restored(o) == IF o.bWasEnabled THEN "on" ELSE "off"

\* Items whose write the driver, firewall or system may refuse.
Failures(S) == IF "Items" \in MayFail THEN SUBSET S ELSE {{}}

\* The writes of ApplyPresetItems and DeactivatePresetInternal: item i is set
\* to val[i] when the agent knows the item at all.  The cached object of a
\* program or access rule is changed first and keeps the change when the
\* driver refuses; a driver write is announced by a notification later.  A
\* firewall template takes its derived rules along.
WriteItems(val, fails) ==
    LET known == {i \in DOMAIN val : cached[i] # "absent"}
        done  == known \ fails
        drag(d) == Template[d] \in known /\ cached[d] # "absent" /\ d \notin fails
    IN /\ live' = [i \in Rules |->
            IF i \in done THEN val[i]
            ELSE IF i \in Derived /\ drag(i) THEN val[Template[i]]
            ELSE live[i]]
       /\ cached' = [i \in Rules |->
            IF i \in done \/ (i \in known /\ Type[i] = "rule") THEN val[i]
            ELSE IF i \in Derived /\ drag(i) THEN val[Template[i]]
            ELSE cached[i]]
       /\ pending' = pending \cup {i \in done : Type[i] = "rule"}

\* Items a write was meant for and did not reach: refused, or unknown to the
\* agent although they exist.
Missed(S, fails) ==
    {i \in S : i \in fails \/ (cached[i] = "absent" /\ live[i] # "absent")}

\* Items whose saved state would not be their real one, because a
\* notification is still on its way or an earlier write failed.
ReadStale(S) == {i \in S : cached[i] # live[i]}

DeactivatePresetInternal(p, fails) ==
    /\ WriteItems([i \in OwnedBy(p) |-> Restored(m_ItemOwnership[i])], fails)
    /\ m_ItemOwnership' = [i \in Owned \ OwnedBy(p) |-> m_ItemOwnership[i]]
    /\ excused' = excused \cup Missed(OwnedBy(p), fails)
    /\ orig' = [i \in Items |-> IF i \in OwnedBy(p) /\ live'[i] = "absent"
                                THEN "absent" ELSE orig[i]]

CheckPresetConflicts(p) ==
    {i \in Wanted(p) \cap Owned : m_ItemOwnership[i].PresetGuid # p}

\* Mutant of Applied: the force flag is not looked at.
AppliedAlwaysForced(p, bForce) == Wanted(p)

\* Items ApplyPresetItems goes over; without force it leaves an item of
\* another preset alone ("Unexpected ownership conflict").
Applied(p, bForce) == IF bForce THEN Wanted(p)
                      ELSE Wanted(p) \ CheckPresetConflicts(p)

\* Mutant of TakeOwnership: a takeover saves the state of the moment.
TakeOwnershipResaves(p, i) == [PresetGuid |-> p, bWasEnabled |-> cached[i] = "on"]

\* Mutant of TakeOwnership: a new entry is stored without its owner; 0 is the
\* empty guid SItemOwnership starts with.
TakeOwnershipUnnamed(p, i) ==
    IF i \in Owned
    THEN [m_ItemOwnership[i] EXCEPT !.PresetGuid = p]
    ELSE [PresetGuid |-> 0, bWasEnabled |-> cached[i] = "on"]

TakeOwnership(p, i) ==
    IF i \in Owned
    THEN [m_ItemOwnership[i] EXCEPT !.PresetGuid = p]
    ELSE [PresetGuid |-> p, bWasEnabled |-> cached[i] = "on"]

ApplyPresetItems(p, bForce, fails) ==
    LET S == Applied(p, bForce)
    IN /\ m_ItemOwnership' = [i \in Owned \cup S |->
             IF i \in S THEN TakeOwnership(p, i) ELSE m_ItemOwnership[i]]
       /\ WriteItems([i \in S |-> Target(m_Presets[p][i])], fails)
       /\ excused' = excused \cup ReadStale(S \ Owned)
       /\ UNCHANGED orig

-----------------------------------------------------------------------------
(* Requests.  A request starts when its client is idle. *)

Begin(c, op) == op \in Ops[c] /\ pc[c] = "idle"
Goto(c, l) == pc' = [pc EXCEPT ![c] = l]
\* Erasing elements of m_ActivePresets invalidates iterators that stand on them.
EraseActive(S) ==
    /\ m_ActivePresets' = m_ActivePresets \ S
    /\ at' = [c \in Clients |-> IF at[c] \in S THEN 0 ELSE at[c]]
HoldPreset(c, p) == null' = [null EXCEPT ![c] = p \notin DOMAIN m_Presets]

\* What ActivatePreset asks before it applies a preset without force.
PassesCheck(p) == p \in m_ActivePresets \/ CheckPresetConflicts(p) = {}

ActivatePreset(c, p, bForce) ==
    /\ Begin(c, IF bForce THEN "Force" ELSE "Activate")
    /\ p \in DOMAIN m_Presets
    /\ bForce \/ PassesCheck(p)
    /\ \E fails \in Failures(Applied(p, bForce) \cup Derived) :
          ApplyPresetItems(p, bForce, fails)
    /\ m_ActivePresets' = m_ActivePresets \cup {p}
    /\ Goto(c, "entries")
    /\ UNCHANGED <<m_Presets, file, tmp, at, left, import, snap, null>>

\* Mutant of DeactivateLocked: the request ends without Store().
DeactivateNoStore(c, p) ==
    /\ p \in m_ActivePresets
    /\ \E fails \in Failures(OwnedBy(p) \cup Derived) :
          DeactivatePresetInternal(p, fails)
    /\ EraseActive({p})
    /\ HoldPreset(c, p)
    /\ Goto(c, "idle")

\* The critical section of DeactivatePreset(p).
DeactivateLocked(c, p) ==
    /\ p \in m_ActivePresets
    /\ \E fails \in Failures(OwnedBy(p) \cup Derived) :
          DeactivatePresetInternal(p, fails)
    /\ EraseActive({p})
    /\ HoldPreset(c, p)
    /\ Goto(c, "entries")

DeactivatePreset(c, p) ==
    /\ Begin(c, "Deactivate")
    /\ DeactivateLocked(c, p)
    /\ UNCHANGED <<m_Presets, file, tmp, left, import, snap>>

\* The element begin() or ++ yields: the smallest, std::set being ordered.
First(S) == {p \in S : \A q \in S : p <= q}
\* Mutant of Above: the loop does not advance.
AboveOrAt(p) == {q \in m_ActivePresets : q >= p}

Above(p) == {q \in m_ActivePresets : q > p}

\* One turn of the loop of DeactivateAllPresets, up to Lock.unlock().
VisitPreset(c, p) ==
    /\ \E fails \in Failures(OwnedBy(p) \cup Derived) :
          DeactivatePresetInternal(p, fails)
    /\ at' = [at EXCEPT ![c] = p]
    /\ Goto(c, "all")
    /\ UNCHANGED <<m_Presets, m_ActivePresets, file, tmp, left, import, snap, null>>

FinishDeactivateAll(c) ==
    /\ EraseActive(m_ActivePresets)
    /\ Goto(c, "entries")
    /\ UNCHANGED <<m_Presets, m_ItemOwnership, rules, file, tmp, left, import, snap,
                   null, hist>>

DeactivateAllPresets(c) ==
    /\ Begin(c, "DeactivateAll")
    /\ \/ m_ActivePresets = {} /\ FinishDeactivateAll(c)
       \/ \E p \in First(m_ActivePresets) : VisitPreset(c, p)

\* Lock.lock() after the script; the set may have grown meanwhile.
DeactivateAllNext(c) ==
    /\ pc[c] = "all"
    /\ at[c] # 0
    /\ \/ Above(at[c]) = {} /\ FinishDeactivateAll(c)
       \/ \E p \in First(Above(at[c])) : VisitPreset(c, p)

\* Another request erased the element: incrementing the iterator is undefined.
\* It may land on any element or on the end.
DeactivateAllDangling(c) ==
    /\ pc[c] = "all"
    /\ at[c] = 0
    /\ \/ FinishDeactivateAll(c)
       \/ \E p \in m_ActivePresets : VisitPreset(c, p)

SetEntry(c, p, e) ==
    /\ Begin(c, "SetEntry")
    /\ m_Presets' = [q \in DOMAIN m_Presets \cup {p} |->
                        IF q = p THEN e ELSE m_Presets[q]]
    /\ UNCHANGED <<m_ActivePresets, m_ItemOwnership, rules, file, tmp, call, hist>>

DelEntry(c, p) ==
    /\ Begin(c, "DelEntry")
    /\ p \in DOMAIN m_Presets
    /\ m_Presets' = [q \in DOMAIN m_Presets \ {p} |-> m_Presets[q]]
    /\ UNCHANGED <<m_ActivePresets, m_ItemOwnership, rules, file, tmp, call, hist>>

-----------------------------------------------------------------------------
(* SVC_API_SET_PRESETS: deactivate what was active, then replace the list *)

ImportPresets(c, list) ==
    /\ Begin(c, "SetPresets")
    /\ left' = [left EXCEPT ![c] = m_ActivePresets]
    /\ import' = [import EXCEPT ![c] = list]
    /\ Goto(c, "import")
    /\ UNCHANGED <<mem, rules, file, tmp, at, snap, null, hist>>

ImportDeactivate(c) ==
    /\ pc[c] = "import"
    /\ \E p \in First(left[c]) :
          /\ left' = [left EXCEPT ![c] = @ \ {p}]
          /\ \/ DeactivateLocked(c, p)
             \/ /\ p \notin m_ActivePresets
                /\ UNCHANGED <<m_ActivePresets, m_ItemOwnership, rules, hist,
                               null, pc, at>>
    /\ UNCHANGED <<m_Presets, file, tmp, import, snap>>

SetPresets(c) ==
    /\ pc[c] = "import"
    /\ left[c] = {} /\ import[c] # NoFile
    /\ m_Presets' = import[c]
    /\ import' = [import EXCEPT ![c] = NoFile]
    /\ Goto(c, "entries")
    /\ UNCHANGED <<m_ActivePresets, m_ItemOwnership, rules, file, tmp, at, left,
                   snap, null, hist>>

-----------------------------------------------------------------------------
(* Store() and Load() *)

EmptyImage == [presets |-> [p \in {} |-> {}], active |-> {}, own |-> [i \in {} |-> {}]]

CommitConfig(c) ==
    /\ Begin(c, "Commit")
    /\ Goto(c, "entries")
    /\ UNCHANGED <<mem, rules, file, tmp, at, left, import, snap, null, hist>>

\* SaveEntries: the presets with their IsActive flags, under one lock ...
SaveEntries(c) ==
    /\ pc[c] = "entries"
    /\ snap' = [snap EXCEPT ![c].presets = m_Presets,
                            ![c].active = m_ActivePresets \cap DOMAIN m_Presets]
    /\ Goto(c, "ownership")
    /\ UNCHANGED <<mem, rules, file, tmp, at, left, import, null, hist>>

\* ... and the ownership list under another.
SaveOwnership(c) ==
    /\ pc[c] = "ownership"
    /\ snap' = [snap EXCEPT ![c].own = m_ItemOwnership]
    /\ Goto(c, "write")
    /\ UNCHANGED <<mem, rules, file, tmp, at, left, import, null, hist>>

\* WriteFileSafe writes the .tmp file, which every request shares ...
WriteFile(c) ==
    /\ pc[c] = "write"
    /\ \/ tmp' = snap[c] /\ Goto(c, "away")
       \/ "Disk" \in MayFail /\ tmp' = tmp /\ Goto(c, "event")
    /\ snap' = [snap EXCEPT ![c] = EmptyImage]
    /\ UNCHANGED <<mem, rules, file, at, left, import, null, hist>>

\* ... renames the old file to .bak, or removes it ...
MoveAway(c) ==
    /\ pc[c] = "away"
    /\ \/ file' = NoFile
       \/ "Disk" \in MayFail /\ file' = file
    /\ Goto(c, "rename")
    /\ UNCHANGED <<mem, rules, tmp, at, left, import, snap, null, hist>>

\* Some other request is between its own write of the .tmp file and its rename.
AwaitsRename(c) == \E d \in Clients \ {c} : pc[d] \in {"away", "rename"}

\* ... and gives the new one its name.  Nobody looks at the result; a .tmp file
\* no request is about to rename is overwritten before anyone reads it.
RenameFile(c) ==
    /\ pc[c] = "rename"
    /\ \/ tmp # NoFile /\ file' = tmp /\ tmp' = NoFile
       \/ /\ tmp = NoFile \/ "Disk" \in MayFail
          /\ file' = file
          /\ tmp' = IF AwaitsRename(c) THEN tmp ELSE NoFile
    /\ Goto(c, "event")
    /\ UNCHANGED <<mem, rules, at, left, import, snap, null, hist>>

\* The change event names the preset, if the request still has one.
EmitChangeEvent(c) ==
    /\ pc[c] = "event"
    /\ ~null[c]
    /\ Goto(c, IF import[c] = NoFile THEN "idle" ELSE "import")
    /\ UNCHANGED <<mem, rules, file, tmp, at, left, import, snap, null, hist>>

\* Items whose ownership in memory is not the one in the file.
Unsaved(own) ==
    {i \in Items : \/ (i \in Owned) # (i \in DOMAIN own)
                   \/ i \in Owned /\ m_ItemOwnership[i] # own[i]}

\* Mutant of Load: the IsActive flags are not read back.
LoadNoActive(image) ==
    /\ m_Presets' = image.presets
    /\ m_ActivePresets' = {}
    /\ m_ItemOwnership' = image.own
    /\ at' = [c \in Clients |-> 0]
    /\ excused' = excused \cup Unsaved(image.own)
    /\ UNCHANGED orig

Load(image) ==
    /\ m_Presets' = image.presets
    /\ m_ActivePresets' = image.active
    /\ m_ItemOwnership' = image.own
    /\ at' = [c \in Clients |-> 0]
    /\ excused' = excused \cup Unsaved(image.own)
    /\ UNCHANGED orig

\* ReLoad.  Without a file Init adds one more default preset and keeps the rest.
DiscardConfig(c) ==
    /\ Begin(c, "Discard")
    /\ \/ file # NoFile /\ Load(file)
       \/ /\ file = NoFile
          /\ \E p \in Presets \ DOMAIN m_Presets :
                m_Presets' = [q \in DOMAIN m_Presets \cup {p} |->
                    IF q = p THEN [i \in Items |-> "skip"] ELSE m_Presets[q]]
          /\ UNCHANGED <<m_ActivePresets, m_ItemOwnership, at, hist>>
    /\ UNCHANGED <<rules, file, tmp, pc, left, import, snap, null>>

DefaultPreset(p) == [q \in {p} |-> [i \in Items |-> "skip"]]

\* The agent dies and is started again: Init loads the file or makes the
\* default preset; the rule caches are read anew.  The rules stay.
Restart ==
    /\ \/ file # NoFile /\ Load(file)
       \/ /\ file = NoFile
          /\ \E p \in Presets : Load([EmptyImage EXCEPT !.presets = DefaultPreset(p)])
    /\ cached' = live
    /\ pending' = {}
    /\ pc' = [c \in Clients |-> "idle"]
    /\ left' = [c \in Clients |-> {}]
    /\ import' = [c \in Clients |-> NoFile]
    /\ snap' = [c \in Clients |-> EmptyImage]
    /\ null' = [c \in Clients |-> FALSE]
    /\ tmp' = NoFile
    /\ UNCHANGED <<live, file>>

Crash == "Crash" \in Env /\ Restart

\* DeactivatePreset asks a null pPreset for its name when the preset was
\* deleted while it was active: the agent dies.
NullPreset(c) ==
    /\ pc[c] = "event"
    /\ null[c]
    /\ Restart

-----------------------------------------------------------------------------
(* The rest of the agent and the user *)

\* The user changes, deletes or creates a rule or a tweak, owned or not.
UserSet(i, s) ==
    /\ "User" \in Env
    /\ live[i] # s
    /\ s = "applied" => Type[i] = "tweak"
    /\ live' = [live EXCEPT ![i] = s]
    /\ IF Type[i] = "rule"
       THEN pending' = pending \cup {i} /\ UNCHANGED cached
       ELSE cached' = [cached EXCEPT ![i] = s] /\ UNCHANGED pending
    /\ IF i \in Owned THEN UNCHANGED hist
       ELSE /\ orig' = [orig EXCEPT ![i] = s]
            /\ excused' = excused \ {i}
    /\ UNCHANGED <<mem, file, tmp, call>>

\* OnRuleChanged: the agent fetches the rule the driver has now.
OnRuleChanged(i) ==
    /\ i \in pending
    /\ cached' = [cached EXCEPT ![i] = live[i]]
    /\ pending' = pending \ {i}
    /\ UNCHANGED <<mem, live, file, tmp, call, hist>>

-----------------------------------------------------------------------------

\* A fresh installation: no file yet, Init made a default preset.
Init ==
    /\ \E p \in Presets : m_Presets = DefaultPreset(p)
    /\ m_ActivePresets = {}
    /\ m_ItemOwnership = [i \in {} |-> {}]
    /\ live \in [Rules -> {"on", "off"}]
    /\ cached = live
    /\ pending = {}
    /\ file = NoFile /\ tmp = NoFile
    /\ pc = [c \in Clients |-> "idle"]
    /\ at = [c \in Clients |-> 0]
    /\ left = [c \in Clients |-> {}]
    /\ import = [c \in Clients |-> NoFile]
    /\ snap = [c \in Clients |-> EmptyImage]
    /\ null = [c \in Clients |-> FALSE]
    /\ orig = [i \in Items |-> live[i]]
    /\ excused = {}

\* The lists a client may import.
ImportLists == PartialFunctions(Presets, Edits)

Request(c) ==
    \/ \E p \in Presets : \/ \E bForce \in BOOLEAN : ActivatePreset(c, p, bForce)
                          \/ DeactivatePreset(c, p)
                          \/ DelEntry(c, p)
                          \/ \E e \in Edits : SetEntry(c, p, e)
    \/ DeactivateAllPresets(c)
    \/ \E list \in ImportLists : ImportPresets(c, list)
    \/ CommitConfig(c)
    \/ DiscardConfig(c)

Continue(c) ==
    \/ DeactivateAllNext(c)
    \/ DeactivateAllDangling(c)
    \/ ImportDeactivate(c)
    \/ SetPresets(c)
    \/ SaveEntries(c)
    \/ SaveOwnership(c)
    \/ WriteFile(c)
    \/ MoveAway(c)
    \/ RenameFile(c)
    \/ EmitChangeEvent(c)
    \/ NullPreset(c)

Next ==
    \/ \E c \in Clients : Request(c) \/ Continue(c)
    \/ \E i \in Items : OnRuleChanged(i) \/ \E s \in State : UserSet(i, s)
    \/ Crash

Spec == Init /\ [][Next]_vars

\* Threads are scheduled: a request that has begun goes on.
FairSpec == Spec /\ \A c \in Clients : WF_vars(Continue(c))

-----------------------------------------------------------------------------
(* Properties *)

\* What an item may look like when no preset owns it: what the user last gave
\* it, or what is left of that in the on/off state the manager saves.
Undisturbed(i) == live[i] \in {orig[i], IF orig[i] = "on" THEN "on" ELSE "off"}

\* ApplyPresetItems saves the state an item had before any preset touched it
\* and every later takeover, edit, deletion, reload or restart keeps it: the
\* saved bWasEnabled of an owned item is the user's own setting.
OwnedRemembersOriginal ==
    \A i \in Owned \ excused : m_ItemOwnership[i].bWasEnabled = (orig[i] = "on")

\* DeactivatePresetInternal gives every item back the way it was: an item no
\* preset owns is in the user's own setting, unless a write was refused, the
\* setting was read before its notification arrived, or the ownership was not
\* in the file the manager was loaded from.
UnownedIsOriginal == \A i \in Items \ (Owned \cup excused) : Undisturbed(i)

\* Only an active preset owns items, so that DeactivatePreset can return them
\* (it refuses an inactive preset).
OwnerIsActive == \A i \in Owned : m_ItemOwnership[i].PresetGuid \in m_ActivePresets

\* Store() at the end of every request that changes it: when no request is
\* under way, the file holds the ownership and the active presets in memory.
StoredAtRest ==
    (\A c \in Clients : pc[c] = "idle") =>
        \/ file = NoFile /\ m_ActivePresets = {} /\ Owned = {}
        \/ /\ file # NoFile
           /\ file.own = m_ItemOwnership
           /\ file.active \cap DOMAIN m_Presets = m_ActivePresets \cap DOMAIN m_Presets

\* ActivatePreset without force leaves the items other presets own alone: who
\* owns them, the state saved for them and the state they are in.
UnforcedLeavesOthers ==
    [][\A c \in Clients, p \in Presets : ActivatePreset(c, p, FALSE) =>
          \A i \in Owned \ OwnedBy(p) :
             m_ItemOwnership'[i] = m_ItemOwnership[i] /\ live'[i] = live[i]]_vars

\* The element the walk of DeactivateAllPresets stands on was erased meanwhile.
Dangling(c) == pc[c] = "all" /\ at[c] = 0

\* Every request ends, DeactivateAllPresets too, although other clients add to
\* the set it walks over while its lock is dropped, unless they erase the
\* element it stands on: from there the walk may go anywhere.
RequestsFinish == \A c \in Clients : pc[c] # "idle" ~> (pc[c] = "idle" \/ Dangling(c))
=============================================================================
