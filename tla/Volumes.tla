------------------------------ MODULE Volumes ------------------------------
(***************************************************************************)
(* CVolumeManager: secure volumes.  An image is attached as an ImDisk      *)
(* device by a helper process; the rules stored in it are given to the     *)
(* driver for the device's path while it is mounted, changes made to them  *)
(* are written back, and everything is taken out of the driver again when  *)
(* the volume goes.  Requests of several clients run on the threads of the *)
(* port server; notifications of rule changes arrive on another thread and *)
(* reach the manager before the rule map (RuleCache) has them.             *)
(*                                                                         *)
(* A rule is a record: "volume" rules belong to an image and have an       *)
(* identity, "host" rules are rules of the host that name an image,        *)
(* "clone" rules are their copies for a device, "protect" rules guard a    *)
(* device while it is being mounted.  Enclaves, hashes and program rules   *)
(* of a volume take the same way through maps of their own and are stood   *)
(* for by the volume rules.  The order of notifications is RuleCache's     *)
(* subject: here one thread handles them one after the other.              *)
(***************************************************************************)
EXTENDS Naturals, FiniteSets, SequencesExt

CONSTANTS
    Clients,    \* threads that serve requests
    Images,     \* image files; the GUID of a volume is made of its path
    Hosted,     \* images that a rule of the host names
    Filled,     \* images that may hold rules at the start
    MaxDevice,  \* highest ImDisk device number
    Rules,      \* identities of volume rules
    MaxMounts,  \* bound on mount requests
    MaxEdits,   \* bound on edits by the user
    MaxFaults   \* bound on failing calls, dying helpers and restarts

ASSUME VolumesAssumption ==
    /\ Hosted \subseteq Images /\ Filled \subseteq Images
    /\ IsFiniteSet(Images) /\ IsFiniteSet(Rules)
    /\ "none" \notin Images
    /\ MaxDevice \in Nat \ {0}
    /\ MaxMounts \in Nat /\ MaxEdits \in Nat /\ MaxFaults \in Nat

VARIABLES
    attached,         \* ImDisk: device -> image, or None
    late,             \* mounts given up while the helper still runs: <<image, device>>
    disk,             \* image -> rules stored in it
    driver,           \* rules in the driver
    port,             \* notifications of rule changes
    seen,             \* the notification whose rule is not in the map yet, or NoRule
    rules,            \* the agent's map of access rules
    m_Volumes,        \* device -> volume, or NoVolume
    m_VolumesByGuid,  \* image -> device of its volume, 0 for none
    m_Mutex,          \* client that holds the mutex, or None
    GuardHibernation, \* the setting of that name
    m_NoHibernation,  \* the agent has asked the driver to prevent hibernation
    prevented,        \* the driver prevents it
    stale,            \* dirty volumes whose entry another took, by their number: a
                      \*   request that was dismounting them still holds them
    op,               \* client -> request under way
    mounts, edits, faults,  \* counters for the bounds
    wanted,           \* history: image -> rules the user gave it
    lost,             \* history: images one of whose edits will not be saved
    leaked,           \* history: rules added where no cleanup looks for them
    displaced,        \* history: images whose entry another mount has overwritten, or
                      \*   that were found on a device with an entry elsewhere
    misled            \* history: hibernation is allowed again and the agent, told 0,
                      \*   takes it for prevented

ruleVars  == <<driver, port, seen, rules>>
guardVars == <<GuardHibernation, m_NoHibernation, prevented, misled>>
mapVars   == <<m_Volumes, m_VolumesByGuid, m_Mutex, guardVars, stale>>
countVars == <<mounts, edits, faults>>
histVars  == <<wanted, lost, leaked, displaced>>
vars == <<attached, late, disk, ruleVars, mapVars, op, countVars, histVars>>

None     == "none"
NoVolume == [img |-> None, num |-> 0, lock |-> FALSE]
NoRule   == [rule |-> None]
Idle     == [pc |-> "idle"]
Devices  == 1 .. MaxDevice

(* A volume: the number of the mount that made it, 0 if Update found it;   *)
(* whether its rules were loaded; whether a guard against hibernation was  *)
(* asked for and not refused when it was mounted.                          *)
Volume == [img : Images, num : Nat, prot : BOOLEAN, lock : BOOLEAN, dirty : BOOLEAN,
           loaded : BOOLEAN, guarded : BOOLEAN]

VolumeRule(r, d) == [t |-> "volume", id |-> r, dev |-> d]
HostRule(i)      == [t |-> "host", id |-> i, dev |-> 0]
Protect(n, d)    == [t |-> "protect", id |-> n, dev |-> d]
CloneRule(n, d)  == [t |-> "clone", id |-> n, dev |-> d]

OnDevice(S, d) == {x \in S : x.dev = d}
StoredIn(S, d) == {x.id : x \in {y \in OnDevice(S, d) : y.t = "volume"}}
Mounted(d)     == m_Volumes[d] # NoVolume
Fails          == faults < MaxFaults /\ faults' = faults + 1
Free           == m_Mutex = None

(* AddRule and RemoveRule of the agent: the driver has the result at once, *)
(* the map gets it by notifications marked as the agent's own.             *)
Own(o, S) == SetToSeq({[op |-> o, rule |-> x, own |-> TRUE, img |-> None, n |-> 0] : x \in S})
Call(new, old) ==
    /\ driver' = (driver \ old) \cup new
    /\ port' = port \o Own("add", new \ driver) \o Own("del", old \cap driver)

------------------------------------------------------------------------
(* Saving and cleaning up, parts of several requests.                      *)

(* Volume rules of device d that a save cannot see and that will not ask   *)
(* for another one: their notification is the agent's own, is about an     *)
(* image that had the device before, or has marked the volume already and  *)
(* is not in the map yet.                                                  *)
Unseen(d) ==
    {x \in OnDevice(driver \cup rules, d) :
        /\ x.t = "volume"
        /\ (x \in driver) # (x \in rules)
        /\ ~\E k \in DOMAIN port :
             port[k].rule = x /\ ~port[k].own /\ port[k].img = m_Volumes[d].img}

(* SaveVolumeData for the devices D whose file could be written: what the  *)
(* map has for the device replaces what the image attached there holds,    *)
(* also when its rules were never loaded or it is another image by now; a  *)
(* volume in lockdown is read-only.                                        *)
Writable(D) == {d \in D : ~m_Volumes[d].lock /\ attached[d] # None}
SavedDisk(D) ==
    [i \in Images |-> IF \E d \in D : attached[d] = i
                      THEN StoredIn(rules, CHOOSE d \in D : attached[d] = i)
                      ELSE disk[i]]
Overwritten(D) ==
    (UNION {{attached[d], m_Volumes[d].img} : d \in {e \in D :
        \/ attached[e] # m_Volumes[e].img \/ ~m_Volumes[e].loaded
        \/ Unseen(e) # {} \/ OnDevice(leaked \cap rules, e) # {}}}) \ {None}

(* Images with an edit whose notification has not been handled.            *)
Underway == {port[k].img : k \in {j \in DOMAIN port : ~port[j].own}}

(* Images whose pending changes go with the entries of the devices D.      *)
Unsaved(D) == {m_Volumes[d].img : d \in {e \in D : Mounted(e) /\ m_Volumes[e].dirty}}

(* The volumes entered at the devices D that are dirty and still wanted by *)
(* a request when the entries go.                                          *)
Orphans(D) ==
    {m_Volumes[d].num : d \in {e \in D :
        /\ Mounted(e) /\ m_Volumes[e].dirty
        /\ \E c \in Clients : op[c].pc = "unmount" /\ op[c].num = m_Volumes[e].num}}

(* Mutant of StillDirty: a write that failed is not tried again.           *)
NeverDirty(d, D) == FALSE

(* Only a write that succeeded makes the volume clean.                     *)
StillDirty(d, D) == m_Volumes[d].dirty /\ d \notin D

(* Mutant of InMapFor: only the rules of the volume itself are removed.    *)
OnlyVolumeRules(d) == {x \in OnDevice(rules, d) : x.t = "volume"}

(* CleanUpVolume looks for the device's rules in the map; a rule that the  *)
(* driver has and the map has not got yet escapes it.                      *)
InMapFor(d) == OnDevice(rules, d)
Escaped(d)  == OnDevice(driver \ rules, d)

(* Rules of a device that is gone, given what is attached, and that no     *)
(* entry of the map leads a clean-up to.                                   *)
Abandoned(d, att) ==
    {x \in OnDevice(driver, d) :
        att[d] = None /\ (~Mounted(d) \/ \E c \in Clients : op[c].pc = "erase" /\ op[c].dev = d)}

(* An image that has an entry at one of the devices D.                     *)
EnteredAt(i, D) == \E d \in D : Mounted(d) /\ m_Volumes[d].img = i

------------------------------------------------------------------------
(* MountImage                                                              *)

(* Mutant of FindNextFreeDevice: the first device is number 0.             *)
NextFromZero ==
    IF \A d \in Devices : attached[d] = None THEN {0}
    ELSE {d + 1 : d \in {e \in Devices : attached[e] # None}}

(* One above the first device of ImDisk's list, whichever that is.         *)
FindNextFreeDevice ==
    IF \A d \in Devices : attached[d] = None THEN {1}
    ELSE {d + 1 : d \in {e \in Devices : attached[e] # None}}

(* GetVolume finds no volume of the image, then a device is chosen.        *)
MountImage(c, i, bProtect, bLockdown) ==
    /\ op[c] = Idle
    /\ Free
    /\ mounts < MaxMounts
    /\ mounts' = mounts + 1
    /\ bLockdown => bProtect
    /\ m_VolumesByGuid[i] = 0
    /\ \E d \in FindNextFreeDevice :
         /\ d <= MaxDevice
         /\ op' = [op EXCEPT ![c] = [pc |-> "protect", img |-> i, dev |-> d, id |-> mounts + 1,
                                     prot |-> bProtect, lock |-> bLockdown, temp |-> {}]]
    /\ UNCHANGED <<attached, late, disk, ruleVars, mapVars, edits, faults, histVars>>

(* A copy of the host's rule for the image, not in lockdown.               *)
Copies(o) == IF o.prot /\ ~o.lock /\ HostRule(o.img) \in rules
             THEN {CloneRule(o.id, o.dev)} ELSE {}

(* The temporary rule that guards the device, whose failure is ignored,    *)
(* and the copies.                                                         *)
SetUpProtection(c) ==
    LET o == op[c]
    IN /\ o.pc = "protect"
       /\ \E temp \in {{Protect(o.id, o.dev)}, {}} :
            /\ IF o.prot /\ temp = {} THEN Fails ELSE UNCHANGED faults
            /\ o.prot \/ temp = {}
            /\ Call(temp \cup Copies(o), {})
            /\ op' = [op EXCEPT ![c].pc = "attach", ![c].temp = temp]
       /\ UNCHANGED <<attached, late, disk, seen, rules, mapVars, mounts, edits, histVars>>

CanAttach(i, d) == attached[d] = None /\ \A e \in Devices : attached[e] # i

(* MountImDisk: the helper attaches the image.                             *)
Attach(c) ==
    /\ op[c].pc = "attach"
    /\ CanAttach(op[c].img, op[c].dev)
    /\ attached' = [attached EXCEPT ![op[c].dev] = op[c].img]
    /\ op' = [op EXCEPT ![c].pc = "enter"]
    /\ UNCHANGED <<late, disk, ruleVars, mapVars, countVars, histVars>>

(* It does not: the temporary rule goes, the copies stay.  After a timeout *)
(* the helper still runs and may attach the image later.                   *)
AttachFails(c, timeout) ==
    LET o == op[c]
    IN /\ o.pc = "attach"
       /\ IF timeout THEN Fails ELSE UNCHANGED faults
       /\ late' = IF timeout THEN late \cup {<<o.img, o.dev>>} ELSE late
       /\ Call({}, o.temp)
       /\ leaked' = leaked \cup OnDevice({x \in driver : x.t = "clone" /\ x.id = o.id}, o.dev)
       /\ op' = [op EXCEPT ![c] = Idle]
       /\ UNCHANGED <<attached, disk, seen, rules, mapVars, mounts, edits, wanted, lost, displaced>>

LateAttach ==
    /\ \E m \in late :
         /\ late' = late \ {m}
         /\ attached' = IF CanAttach(m[1], m[2]) THEN [attached EXCEPT ![m[2]] = m[1]] ELSE attached
    /\ UNCHANGED <<disk, ruleVars, mapVars, op, countVars, histVars>>

(* Mutant of Guard: the flag is set whatever the driver answers.           *)
GuardUnasked(granted) ==
    /\ m_NoHibernation' = (m_NoHibernation \/ GuardHibernation)
    /\ prevented' = (prevented \/ (GuardHibernation /\ ~m_NoHibernation /\ granted))

(* AcquireHibernationPrevention, when the setting is on and the agent has  *)
(* not asked before.  The driver may refuse; the mount goes on.            *)
Guard(granted) ==
    /\ m_NoHibernation' = (m_NoHibernation \/ (GuardHibernation /\ granted))
    /\ prevented' = (prevented \/ (GuardHibernation /\ ~m_NoHibernation /\ granted))

(* ReleaseHibernationPrevention returns a number: 0 stands for an error,   *)
(* and the driver may have carried the call out and answer with 0 all the  *)
(* same.  Only another number clears the flag.                             *)
ReleaseHibernationPrevention ==
    \/ /\ m_NoHibernation' = FALSE
       /\ prevented' = FALSE
       /\ misled' = FALSE
       /\ UNCHANGED faults
    \/ /\ Fails
       /\ prevented' \in {prevented, FALSE}
       /\ misled' = (misled \/ ~prevented')
       /\ UNCHANGED m_NoHibernation

(* Under the mutex, which is kept until the request ends: guard against    *)
(* hibernation, enter the volume in both maps, and LoadVolumeData, which   *)
(* gives the stored rules to the driver; a read error is only logged.      *)
Enter(c) ==
    LET o == op[c]
    IN /\ o.pc = "enter"
       /\ Free
       /\ m_Mutex' = c
       /\ \E ok, granted \in BOOLEAN :
            /\ IF ok /\ granted THEN UNCHANGED faults ELSE Fails
            /\ Guard(granted)
            /\ m_Volumes' = [m_Volumes EXCEPT ![o.dev] =
                 [img |-> o.img, num |-> o.id, prot |-> o.prot, lock |-> o.lock, dirty |-> FALSE,
                  loaded |-> o.prot /\ ok, guarded |-> GuardHibernation /\ granted /\ ~misled]]
            /\ Call(IF o.prot /\ ok THEN {VolumeRule(r, o.dev) : r \in disk[o.img]} ELSE {}, {})
       /\ m_VolumesByGuid' = [m_VolumesByGuid EXCEPT ![o.img] = o.dev]
       /\ lost' = lost \cup Unsaved({o.dev})
                   \cup {i \in {o.img} : i \in Underway \/ EnteredAt(i, Devices \ {o.dev})}
       /\ leaked' = leaked \cup {x \in OnDevice(driver, o.dev) : x.t = "volume"}
       /\ displaced' = (displaced \cup {m_Volumes[o.dev].img}) \ {None}
       /\ stale' = stale \cup Orphans({o.dev})
       /\ op' = [op EXCEPT ![c].pc = "script"]
       /\ UNCHANGED <<attached, late, disk, seen, rules, GuardHibernation, misled, mounts, edits,
                      wanted>>

(* A dismount under way, with the volume the request holds from now on,    *)
(* whatever becomes of its entry.                                          *)
HoldVolume(via, d, i, n, lock, todo) ==
    [pc |-> "unmount", via |-> via, dev |-> d, img |-> i, num |-> n, lock |-> lock, todo |-> todo]

(* The junction for a folder cannot be made: the volume is dismounted      *)
(* under the mutex before it is in any map, and the temporary rule is left *)
(* to the cleanup.                                                         *)
JunctionFails(c) ==
    /\ op[c].pc = "enter"
    /\ Free
    /\ Fails
    /\ m_Mutex' = c
    /\ \E granted \in BOOLEAN : Guard(granted)
    /\ op' = [op EXCEPT ![c] = HoldVolume("script", op[c].dev,
                       op[c].img, op[c].id, op[c].lock, {})]
    /\ UNCHANGED <<attached, late, disk, ruleVars, m_Volumes, m_VolumesByGuid, GuardHibernation,
                   misled, stale, mounts, edits, histVars>>

(* The mount script agrees, or there is none: the temporary rule goes.     *)
FinishMount(c) ==
    /\ op[c].pc = "script"
    /\ Call({}, op[c].temp)
    /\ m_Mutex' = None
    /\ op' = [op EXCEPT ![c] = Idle]
    /\ UNCHANGED <<attached, late, disk, seen, rules, m_Volumes, m_VolumesByGuid, guardVars, stale,
                   countVars, histVars>>

(* It refuses: the volume is dismounted under the mutex, and its entries   *)
(* stay in both maps until an Update finds its device gone.                *)
MountScriptFails(c) ==
    /\ op[c].pc = "script"
    /\ op[c].prot
    /\ Call({}, op[c].temp)
    /\ op' = [op EXCEPT ![c] = HoldVolume("script", op[c].dev,
                       op[c].img, op[c].id, op[c].lock, {})]
    /\ UNCHANGED <<attached, late, disk, seen, rules, mapVars, countVars, histVars>>

(* CreateImage attaches the new image and detaches it, without the maps.   *)
CreateImage(c, i) ==
    /\ op[c] = Idle
    /\ mounts < MaxMounts
    /\ mounts' = mounts + 1
    /\ \E d \in Devices :
         /\ CanAttach(i, d)
         /\ attached' = [attached EXCEPT ![d] = i]
         /\ op' = [op EXCEPT ![c] = [pc |-> "created", dev |-> d]]
    /\ UNCHANGED <<late, disk, ruleVars, mapVars, edits, faults, histVars>>

DetachCreated(c) ==
    /\ op[c].pc = "created"
    /\ attached' = [attached EXCEPT ![op[c].dev] = None]
    /\ op' = [op EXCEPT ![c] = Idle]
    /\ UNCHANGED <<late, disk, ruleVars, mapVars, countVars, histVars>>

------------------------------------------------------------------------
(* DismountVolume and DismountAll                                          *)

(* The volume is looked up under the mutex, which is released.             *)
DismountVolume(c, d) ==
    /\ op[c] = Idle
    /\ Free
    /\ Mounted(d)
    /\ op' = [op EXCEPT ![c] = HoldVolume("path", d, m_Volumes[d].img, m_Volumes[d].num,
                                           m_Volumes[d].lock, {})]
    /\ UNCHANGED <<attached, late, disk, ruleVars, mapVars, countVars, histVars>>

(* DismountAll keeps the mutex and goes over the map.                      *)
DismountAll(c) ==
    /\ op[c] = Idle
    /\ Free
    /\ m_Mutex' = c
    /\ op' = [op EXCEPT ![c] = [pc |-> "all", todo |-> {d \in Devices : Mounted(d)}]]
    /\ UNCHANGED <<attached, late, disk, ruleVars, m_Volumes, m_VolumesByGuid, guardVars, stale,
                   countVars, histVars>>

NextOfAll(c) ==
    /\ op[c].pc = "all"
    /\ \E d \in op[c].todo :
         op' = [op EXCEPT ![c] = HoldVolume("all", d, m_Volumes[d].img, m_Volumes[d].num,
                                             m_Volumes[d].lock, op[c].todo \ {d})]
    /\ UNCHANGED <<attached, late, disk, ruleVars, mapVars, countVars, histVars>>

AllDone(c) ==
    /\ op[c].pc = "all"
    /\ op[c].todo = {}
    /\ IF m_NoHibernation /\ \A d \in Devices : ~Mounted(d)
       THEN ReleaseHibernationPrevention
       ELSE UNCHANGED <<m_NoHibernation, prevented, misled, faults>>
    /\ m_Mutex' = None
    /\ op' = [op EXCEPT ![c] = Idle]
    /\ UNCHANGED <<attached, late, disk, ruleVars, m_Volumes, m_VolumesByGuid, GuardHibernation,
                   stale, mounts, edits, histVars>>

(* Where a request goes on when the volume could not be, or has been,      *)
(* dismounted.                                                             *)
Continue(o) == IF o.via = "all" THEN [pc |-> "all", todo |-> o.todo] ELSE Idle
Unlock(c)   == m_Mutex' = IF op[c].via = "script" THEN None ELSE m_Mutex

(* The entry is still the volume this request holds.                       *)
IsEntry(o) == Mounted(o.dev) /\ m_Volumes[o.dev].num = o.num

(* A dirty volume is saved first: the one the request holds, whose entry   *)
(* may have been erased or be another volume's by now.                     *)
ToSave(o) == {d \in {o.dev} : IF IsEntry(o) THEN m_Volumes[d].dirty ELSE o.num \in stale}

CanSave(o) == {d \in ToSave(o) : ~o.lock /\ attached[d] # None}

(* What is written and, of the volumes entered at D, which become clean.   *)
Saving(S, D) ==
    /\ disk' = SavedDisk(S)
    /\ lost' = lost \cup Overwritten(S)
    /\ m_Volumes' = [d \in Devices |-> IF d \in D THEN [m_Volumes[d] EXCEPT !.dirty = StillDirty(d, S)]
                                       ELSE m_Volumes[d]]

SavingHeld(o, S) ==
    /\ Saving(S, {d \in ToSave(o) : IsEntry(o)})
    /\ stale' = IF ~IsEntry(o) /\ S # {} THEN stale \ {o.num} ELSE stale

(* Then the device is removed, gracefully or by force, under a temporary   *)
(* rule that lets the agent lock it.                                       *)
Unmount(c) ==
    LET o == op[c]
    IN /\ o.pc = "unmount"
       /\ attached[o.dev] # None
       /\ \E S \in {CanSave(o), {}} :
            /\ IF S = CanSave(o) THEN UNCHANGED faults ELSE Fails
            /\ SavingHeld(o, S)
       /\ attached' = [attached EXCEPT ![o.dev] = None]
       /\ op' = [op EXCEPT ![c].pc = "cleanup"]
       /\ UNCHANGED <<late, ruleVars, m_VolumesByGuid, m_Mutex, guardVars, mounts, edits, wanted,
                      leaked, displaced>>

(* The device is gone already, or is not to be removed: an error.          *)
UnmountFails(c) ==
    LET o == op[c]
    IN /\ o.pc = "unmount"
       /\ IF attached[o.dev] # None THEN Fails ELSE UNCHANGED faults
       /\ SavingHeld(o, CanSave(o))
       /\ op' = [op EXCEPT ![c] = Continue(o)]
       /\ Unlock(c)
       /\ leaked' = leaked \cup Abandoned(o.dev, attached)
       /\ UNCHANGED <<attached, late, ruleVars, m_VolumesByGuid, guardVars, mounts, edits, wanted,
                      displaced>>

CleanUpVolume(c) ==
    LET o == op[c]
    IN /\ o.pc = "cleanup"
       /\ Call({}, InMapFor(o.dev))
       /\ leaked' = leaked \cup Escaped(o.dev)
       /\ m_Volumes' = IF Mounted(o.dev) THEN [m_Volumes EXCEPT ![o.dev].loaded = FALSE] ELSE m_Volumes
       /\ op' = [op EXCEPT ![c] = IF o.via = "script" THEN Idle ELSE [o EXCEPT !.pc = "erase"]]
       /\ Unlock(c)
       /\ UNCHANGED <<attached, late, disk, seen, rules, m_VolumesByGuid, guardVars, stale,
                       countVars, wanted, lost, displaced>>

(* Mutant of ForgetGuid: only the device is forgotten.                     *)
KeepGuid(i) == m_VolumesByGuid

ForgetGuid(i) == [m_VolumesByGuid EXCEPT ![i] = 0]

(* Both maps forget the GUID and the device, whatever is there by now;     *)
(* DismountVolume does so without the mutex and goes on to the guard.      *)
Erase(c) ==
    LET o == op[c]
    IN /\ o.pc = "erase"
       /\ m_VolumesByGuid' = ForgetGuid(o.img)
       /\ m_Volumes' = [m_Volumes EXCEPT ![o.dev] = NoVolume]
       /\ lost' = lost \cup Unsaved({o.dev})
       /\ stale' = stale \cup Orphans({o.dev})
       /\ op' = [op EXCEPT ![c] =
            IF o.via = "all" THEN Continue(o)
            ELSE IF m_NoHibernation /\ \A d \in Devices \ {o.dev} : ~Mounted(d)
                 THEN [pc |-> "release"] ELSE Idle]
       /\ UNCHANGED <<attached, late, disk, ruleVars, m_Mutex, guardVars, countVars, wanted,
                      leaked, displaced>>

ReleaseGuard(c) ==
    /\ op[c].pc = "release"
    /\ ReleaseHibernationPrevention
    /\ op' = [op EXCEPT ![c] = Idle]
    /\ UNCHANGED <<attached, late, disk, ruleVars, m_Volumes, m_VolumesByGuid, m_Mutex,
                   GuardHibernation, stale, mounts, edits, histVars>>

------------------------------------------------------------------------
(* Update, run for every list of volumes a client asks for and at start.   *)

TakeDeviceList(c) ==
    /\ op[c] = Idle
    /\ op' = [op EXCEPT ![c] = [pc |-> "update",
                                list |-> {d \in Devices : attached[d] # None}]]
    /\ UNCHANGED <<attached, late, disk, ruleVars, mapVars, countVars, histVars>>

(* A device of the list that is in no map is entered without protection    *)
(* and without its rules; a volume whose device is not on the list is      *)
(* cleaned up and erased; then dirty volumes are saved.                    *)
Found(i) == [img |-> i, num |-> 0, prot |-> FALSE, lock |-> FALSE, dirty |-> FALSE,
             loaded |-> FALSE, guarded |-> FALSE]

Update(c) ==
    LET list  == op[c].list
        found == {d \in list : ~Mounted(d) /\ attached[d] # None}
        gone  == {d \in Devices : Mounted(d) /\ d \notin list}
        dirty == {d \in list : Mounted(d) /\ m_Volumes[d].dirty}
    IN /\ op[c].pc = "update"
       /\ Free
       /\ \E S \in {Writable(dirty), {}} :
            /\ IF S = Writable(dirty) THEN UNCHANGED faults ELSE Fails
            /\ disk' = SavedDisk(S)
            /\ lost' = lost \cup Overwritten(S) \cup Unsaved(gone)
                        \cup {attached[d] : d \in {e \in found : EnteredAt(attached[e], Devices \ gone)}}
            /\ m_Volumes' = [d \in Devices |->
                 IF d \in found THEN Found(attached[d])
                 ELSE IF d \in gone \/ ~Mounted(d) THEN NoVolume
                 ELSE [m_Volumes[d] EXCEPT !.dirty = StillDirty(d, S)]]
       /\ m_VolumesByGuid' = [i \in Images |->
            IF \E d \in gone : m_Volumes[d].img = i THEN 0
            ELSE IF \E d \in found : attached[d] = i THEN CHOOSE d \in found : attached[d] = i
            ELSE m_VolumesByGuid[i]]
       /\ Call({}, UNION {InMapFor(d) : d \in gone})
       /\ leaked' = leaked \cup UNION {Escaped(d) : d \in gone}
       /\ displaced' = displaced \cup {i \in Images : m_VolumesByGuid[i] # 0 /\ \E d \in found : attached[d] = i}
       /\ stale' = stale \cup Orphans(gone)
       /\ op' = [op EXCEPT ![c] = Idle]
       /\ UNCHANGED <<attached, late, seen, rules, m_Mutex, guardVars, mounts, edits, wanted>>

(* SetVolume: a client changes the volume's own data, which is saved at    *)
(* once with whatever the map has for its device.                          *)
SetVolume(c, i) ==
    LET d == m_VolumesByGuid[i]
    IN /\ op[c] = Idle
       /\ Free
       /\ d # 0 /\ m_Volumes[d].img = i
       /\ edits < MaxEdits
       /\ edits' = edits + 1
       /\ \E S \in {Writable({d}), {}} :
            /\ IF S = Writable({d}) THEN UNCHANGED faults ELSE Fails
            /\ Saving(S, {d})
       /\ UNCHANGED <<attached, late, ruleVars, m_VolumesByGuid, m_Mutex, guardVars, stale, op,
                      mounts, wanted, leaked, displaced>>

(* The volumes of image i that requests still hold.                        *)
Held(i) == {op[c].num : c \in {b \in Clients : op[b].pc = "unmount" /\ op[b].img = i}}

(* The GUID of a displaced image leads to its old volume, which is saved   *)
(* to the image that has the device number now.  It becomes clean; which   *)
(* of the image's volumes it is, if requests hold some, is left open.      *)
SetDisplaced(c, i) ==
    LET d == m_VolumesByGuid[i]
    IN /\ op[c] = Idle
       /\ Free
       /\ d # 0 /\ m_Volumes[d].img # i /\ attached[d] # None
       /\ edits < MaxEdits
       /\ edits' = edits + 1
       /\ disk' = SavedDisk({d})
       /\ lost' = lost \cup {attached[d]}
       /\ \E S \in SUBSET Held(i) : stale' = stale \ S
       /\ UNCHANGED <<attached, late, ruleVars, m_Volumes, m_VolumesByGuid, m_Mutex, guardVars, op,
                      mounts, faults, wanted, leaked, displaced>>

------------------------------------------------------------------------
(* The user edits rules in the driver, not through the agent.              *)

Edit(o, x, i) ==
    /\ edits < MaxEdits
    /\ edits' = edits + 1
    /\ driver' = IF o = "add" THEN driver \cup {x} ELSE driver \ {x}
    /\ port' = Append(port, [op |-> o, rule |-> x, own |-> FALSE, img |-> i,
                             n |-> MaxMounts + edits + 1])
    /\ UNCHANGED <<attached, late, disk, seen, rules, mapVars, op, mounts, faults, lost, leaked, displaced>>

(* A rule for a volume that is listed as protected and is not locked down. *)
EditVolumeRule(d, r) ==
    /\ Mounted(d)
    /\ m_Volumes[d].prot /\ ~m_Volumes[d].lock /\ attached[d] = m_Volumes[d].img
    /\ LET i == m_Volumes[d].img
       IN \/ /\ \A j \in Images : r \notin wanted[j] \cup disk[j]
             /\ wanted' = [wanted EXCEPT ![i] = @ \cup {r}]
             /\ Edit("add", VolumeRule(r, d), i)
          \/ /\ VolumeRule(r, d) \in driver
             /\ wanted' = [wanted EXCEPT ![i] = @ \ {r}]
             /\ Edit("del", VolumeRule(r, d), i)

EditHostRule(i) ==
    /\ \/ Edit("add", HostRule(i), i)
       \/ HostRule(i) \in driver /\ Edit("del", HostRule(i), i)
    /\ UNCHANGED wanted

(* The user switches the guard on or off; it is off by default.            *)
SetConfig ==
    /\ edits < MaxEdits
    /\ edits' = edits + 1
    /\ GuardHibernation' = ~GuardHibernation
    /\ UNCHANGED <<attached, late, disk, ruleVars, m_Volumes, m_VolumesByGuid, m_Mutex,
                   m_NoHibernation, prevented, misled, stale, op, mounts, faults, histVars>>

(* OnRuleChanged reads the rule and hands it to UpdateAccessRule.  Changes *)
(* the agent made itself are ignored there and only reach the map.         *)
There(m) == m.op = "add" /\ m.rule \in driver

OwnRuleChanged ==
    /\ port # <<>> /\ Head(port).own
    /\ seen = NoRule
    /\ LET m == Head(port)
       IN rules' = IF There(m) THEN rules \cup {m.rule} ELSE rules \ {m.rule}
    /\ port' = Tail(port)
    /\ UNCHANGED <<attached, late, disk, driver, seen, mapVars, op, countVars, histVars>>

(* Of the others, a volume rule makes its volume dirty, if it is there and *)
(* protected; a host rule is copied for every volume it names.  The loop   *)
(* that should remove the copies of the old rule compares a copy's         *)
(* reference with the copy's own GUID and so removes nothing.              *)
UpdateAccessRule ==
    LET m == Head(port)
        x == m.rule
        known == IF m.op = "add" THEN x \in driver ELSE x \in rules
        hit == known /\ x.t = "volume" /\ Mounted(x.dev) /\ m_Volumes[x.dev].prot
        named == {d \in Devices : Mounted(d) /\ m_Volumes[d].img = x.id /\ ~m_Volumes[d].lock}
        copied == x.t = "host" /\ There(m)
        clones == IF copied THEN {CloneRule(m.n, d) : d \in named} ELSE {}
    IN /\ port # <<>> /\ ~m.own
       /\ seen = NoRule
       /\ copied => Free
       /\ seen' = [rule |-> x, there |-> There(m)]
       /\ m_Volumes' = IF hit THEN [m_Volumes EXCEPT ![x.dev].dirty = TRUE] ELSE m_Volumes
       /\ lost' = IF x.t = "volume" /\ ~(hit /\ m_Volumes[x.dev].img = m.img)
                  THEN lost \cup {m.img} ELSE lost
       /\ driver' = driver \cup clones
       /\ leaked' = leaked \cup {y \in clones : attached[y.dev] = None}
       /\ port' = Tail(port) \o Own("add", clones)
       /\ UNCHANGED <<attached, late, disk, rules, m_VolumesByGuid, m_Mutex, guardVars, stale, op,
                      countVars, wanted, displaced>>

(* UpdateRule: only now the map has the change.                            *)
UpdateRule ==
    /\ seen # NoRule
    /\ rules' = IF seen.there THEN rules \cup {seen.rule} ELSE rules \ {seen.rule}
    /\ seen' = NoRule
    /\ UNCHANGED <<attached, late, disk, driver, port, mapVars, op, countVars, histVars>>

------------------------------------------------------------------------
(* A helper process dies and its device is gone.                           *)
HelperDies ==
    /\ Fails
    /\ \E d \in Devices :
         /\ attached[d] # None
         /\ attached' = [attached EXCEPT ![d] = None]
         /\ leaked' = leaked \cup Abandoned(d, attached')
    /\ UNCHANGED <<late, disk, ruleVars, mapVars, op, mounts, edits, wanted, lost, displaced>>

(* The agent restarts: the rules stay in the driver and the devices stay   *)
(* attached, by a helper that still runs even later; the rule map is       *)
(* loaded, then Init finds the devices.                                    *)
RestartAgent ==
    /\ Fails
    /\ port' = <<>> /\ seen' = NoRule
    /\ rules' = driver
    /\ m_Volumes' = [d \in Devices |-> IF attached[d] = None THEN NoVolume ELSE Found(attached[d])]
    /\ m_VolumesByGuid' = [i \in Images |->
         IF \E d \in Devices : attached[d] = i THEN CHOOSE d \in Devices : attached[d] = i ELSE 0]
    /\ m_Mutex' = None
    /\ m_NoHibernation' = FALSE /\ prevented' \in {prevented, FALSE} /\ misled' = FALSE
    /\ stale' = {}
    /\ op' = [c \in Clients |-> Idle]
    /\ lost' = lost \cup Unsaved(Devices) \cup Underway
    /\ displaced' = {}
    /\ leaked' = leaked \cup {x \in driver : x.dev # 0 /\ attached[x.dev] = None}
    /\ late' = late \cup {<<op[c].img, op[c].dev>> : c \in {e \in Clients : op[e].pc = "attach"}}
    /\ UNCHANGED <<attached, disk, driver, GuardHibernation, mounts, edits, wanted>>

------------------------------------------------------------------------
Init ==
    /\ attached = [d \in Devices |-> None] /\ late = {}
    /\ disk \in {[i \in Images |-> IF i \in F THEN Rules ELSE {}] : F \in SUBSET Filled}
    /\ driver = {HostRule(i) : i \in Hosted} /\ rules = driver
    /\ port = <<>> /\ seen = NoRule
    /\ m_Volumes = [d \in Devices |-> NoVolume]
    /\ m_VolumesByGuid = [i \in Images |-> 0]
    /\ m_Mutex = None /\ stale = {}
    /\ GuardHibernation = FALSE /\ m_NoHibernation = FALSE /\ prevented = FALSE /\ misled = FALSE
    /\ op = [c \in Clients |-> Idle]
    /\ mounts = 0 /\ edits = 0 /\ faults = 0
    /\ wanted = disk /\ lost = {} /\ leaked = {} /\ displaced = {}

ClientNext(c) ==
    \/ \E i \in Images, bProtect, bLockdown \in BOOLEAN : MountImage(c, i, bProtect, bLockdown)
    \/ SetUpProtection(c) \/ Attach(c) \/ Enter(c) \/ JunctionFails(c) \/ FinishMount(c) \/ MountScriptFails(c)
    \/ \E timeout \in BOOLEAN : AttachFails(c, timeout)
    \/ \E i \in Images : CreateImage(c, i) \/ SetVolume(c, i) \/ SetDisplaced(c, i)
    \/ DetachCreated(c)
    \/ \E d \in Devices : DismountVolume(c, d)
    \/ DismountAll(c) \/ NextOfAll(c) \/ AllDone(c)
    \/ Unmount(c) \/ UnmountFails(c) \/ CleanUpVolume(c) \/ Erase(c) \/ ReleaseGuard(c)
    \/ TakeDeviceList(c) \/ Update(c)

Next ==
    \/ \E c \in Clients : ClientNext(c)
    \/ \E d \in Devices, r \in Rules : EditVolumeRule(d, r)
    \/ \E i \in Hosted : EditHostRule(i)
    \/ SetConfig
    \/ OwnRuleChanged \/ UpdateAccessRule \/ UpdateRule
    \/ LateAttach \/ HelperDies \/ RestartAgent

Spec == Init /\ [][Next]_vars

------------------------------------------------------------------------
Rule == [t : {"volume"}, id : Rules, dev : Devices] \cup [t : {"host"}, id : Images, dev : {0}]
        \cup [t : {"protect", "clone"}, id : Nat, dev : Devices]

(* The shape of devices, maps, rules and requests.                         *)
TypeOK ==
    /\ attached \in [Devices -> Images \cup {None}]
    /\ late \subseteq Images \X Devices
    /\ disk \in [Images -> SUBSET Rules] /\ wanted \in [Images -> SUBSET Rules]
    /\ driver \subseteq Rule /\ rules \subseteq Rule /\ leaked \subseteq Rule
    /\ seen = NoRule \/ seen \in [rule : Rule, there : BOOLEAN]
    /\ \A k \in DOMAIN port : port[k] \in
         [op : {"add", "del"}, rule : Rule, own : BOOLEAN, img : Images \cup {None}, n : Nat]
    /\ m_Volumes \in [Devices -> Volume \cup {NoVolume}]
    /\ m_VolumesByGuid \in [Images -> 0 .. MaxDevice]
    /\ m_Mutex \in Clients \cup {None} /\ stale \subseteq Nat
    /\ GuardHibernation \in BOOLEAN /\ m_NoHibernation \in BOOLEAN
    /\ prevented \in BOOLEAN /\ misled \in BOOLEAN
    /\ \A c \in Clients : op[c].pc \in {"idle", "protect", "attach", "enter", "script", "created",
                                        "unmount", "cleanup", "erase", "release", "all", "update"}
    /\ lost \subseteq Images /\ displaced \subseteq Images
    /\ mounts \in Nat /\ edits \in Nat /\ faults \in Nat

AtRest == port = <<>> /\ seen = NoRule /\ \A c \in Clients : op[c] = Idle

(* MountImage, Erase and Update change both maps.  With one request at a   *)
(* time they describe the same volumes, with two exceptions.  An image     *)
(* whose device number went to another mount before an Update saw it go    *)
(* keeps its GUID in m_VolumesByGuid.  An image that a late helper attaches *)
(* to another device while its old entry stands is entered by an Update,   *)
(* which then erases the GUID with the old entry.                          *)
MapsInStep ==
    /\ \A d \in Devices : Mounted(d) /\ m_Volumes[d].img \notin displaced =>
         m_VolumesByGuid[m_Volumes[d].img] = d
    /\ \A i \in Images \ displaced :
         m_VolumesByGuid[i] # 0 => m_Volumes[m_VolumesByGuid[i]].img = i

(* SaveVolumeData and the dirty flag: once everything is handled, an image *)
(* holds the rules the user gave it, or its volume is dirty and will be    *)
(* saved by the next Update; the ways in which an edit is lost are a save  *)
(* that could not see it, a save of a volume whose rules were not loaded,  *)
(* a volume that goes or an agent that restarts with the edit pending, and *)
(* an image that is entered twice, for two devices.                        *)
RulesKept ==
    AtRest => \A i \in Images \ lost :
        \/ disk[i] = wanted[i]
        \/ \E d \in Devices : Mounted(d) /\ m_Volumes[d].img = i /\ m_Volumes[d].dirty

(* CleanUpVolume: a rule for a device that no volume and no request uses   *)
(* got there behind the cleanup: the map had not heard of it, the mount    *)
(* failed, or the device went while no entry led to it.                    *)
LeftoversExplained ==
    AtRest => \A x \in driver :
        x.dev # 0 /\ attached[x.dev] = None /\ ~Mounted(x.dev) => x \in leaked

(* GuardHibernation: with the setting on, hibernation is prevented from    *)
(* the mount of a volume for as long as the volume is listed, with one     *)
(* request at a time.  Excepted are volumes whose mount the driver refused *)
(* the guard, and those mounted on the strength of a guard it had let go   *)
(* of with an answer of 0.  What Update finds, also after a restart of the *)
(* agent, is not guarded.                                                  *)
GuardedWhileMounted ==
    \A d \in Devices : Mounted(d) /\ m_Volumes[d].guarded => prevented
============================================================================
