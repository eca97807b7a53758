--------------------------- MODULE VolumesProofs ---------------------------
(***************************************************************************)
(* Proofs about Volumes.  The shape of the state and that edits are kept   *)
(* hold for any number of clients; that the maps agree, that leftovers are *)
(* explained and that hibernation is prevented hold for requests one at a  *)
(* time, which is what OneClient says.                                     *)
(***************************************************************************)
EXTENDS Volumes, FiniteSetTheorems, TLAPS

-----------------------------------------------------------------------------
(* The invariant *)

OwnMsg  == [op : {"add", "del"}, rule : Rule, own : {TRUE}, img : {None}, n : {0}]
UserMsg == [op : {"add", "del"}, rule : Rule, own : {FALSE}, img : Images, n : Nat]
Msg     == OwnMsg \cup UserMsg

Temps == [t : {"protect"}, id : Nat, dev : Devices]

Mounting    == [pc : {"protect", "attach", "enter", "script"}, img : Images, dev : Devices,
                id : Nat, prot : BOOLEAN, lock : BOOLEAN, temp : SUBSET Temps]
Dismounting == [pc : {"unmount", "cleanup", "erase"}, via : {"script", "path", "all"},
                dev : Devices, img : Images \cup {None}, num : Nat, lock : BOOLEAN,
                todo : SUBSET Devices]
Creating    == [pc : {"created"}, dev : Devices]
Emptying    == [pc : {"all"}, todo : SUBSET Devices]
Updating    == [pc : {"update"}, list : SUBSET Devices]
Waiting     == [pc : {"idle", "release"}]
Request     == Mounting \cup Dismounting \cup Creating \cup Emptying \cup Updating \cup Waiting

\* The shape of the state, with the requests in full and the rules finite, so
\* that the notifications of a call are a sequence.
Shape ==
    /\ attached \in [Devices -> Images \cup {None}]
    /\ late \subseteq Images \X Devices
    /\ disk \in [Images -> SUBSET Rules] /\ wanted \in [Images -> SUBSET Rules]
    /\ driver \subseteq Rule /\ rules \subseteq Rule /\ leaked \subseteq Rule
    /\ IsFiniteSet(driver)
    /\ seen = NoRule \/ seen \in [rule : Rule, there : BOOLEAN]
    /\ port \in Seq(Msg)
    /\ m_Volumes \in [Devices -> Volume \cup {NoVolume}]
    /\ m_VolumesByGuid \in [Images -> 0 .. MaxDevice]
    /\ m_Mutex \in Clients \cup {None} /\ m_NoHibernation \in BOOLEAN
    /\ op \in [Clients -> Request]
    /\ lost \subseteq Images /\ displaced \subseteq Images
    /\ mounts \in Nat /\ edits \in Nat /\ faults \in Nat

\* An image is attached to one device at most.
Distinct == \A d, e \in Devices : attached[d] = attached[e] /\ attached[d] # None => d = e

\* What a request that is under way may rely on, when no other interferes.
Undisturbed == \A c \in Clients :
    /\ op[c].pc \in {"protect", "attach", "enter"} => m_VolumesByGuid[op[c].img] = 0
    /\ op[c].pc = "script" => Mounted(op[c].dev) /\ m_Volumes[op[c].dev].img = op[c].img
    /\ op[c].pc \in {"unmount", "cleanup", "erase"} /\ op[c].via # "script" =>
         Mounted(op[c].dev) /\ m_Volumes[op[c].dev].img = op[c].img
    /\ op[c].pc \in {"unmount", "cleanup", "erase"} /\ op[c].via = "all" =>
         op[c].dev \notin op[c].todo /\ \A d \in op[c].todo : Mounted(d)
    /\ op[c].pc = "erase" => op[c].via # "script"
    /\ op[c].pc = "all" => \A d \in op[c].todo : Mounted(d)
    /\ op[c].pc = "release" => \A d \in Devices : ~Mounted(d)

\* The agent counts on the driver's guard, and rightly so; it does while a
\* volume is listed that was promised the guard.
Promised == m_NoHibernation /\ ~misled
Covered  == \A d \in Devices : Mounted(d) /\ m_Volumes[d].guarded => Promised

MapInv == Undisturbed /\ MapsInStep /\ Covered

\* The members about the guard and the volumes without an entry, and what the
\* agent rightly counts on.
GuardInv ==
    /\ stale \subseteq Nat
    /\ GuardHibernation \in BOOLEAN /\ prevented \in BOOLEAN /\ misled \in BOOLEAN
    /\ Promised => prevented

\* A rule on a device without an entry is there for a device that is still
\* attached, for a mount that has not attached it yet, or for a clean-up that
\* is still to come; and a rule on a device whose clean-up is over is there
\* for a device that was attached again.
Explained(x) ==
    \/ attached[x.dev] # None /\ \A c \in Clients : op[c].pc = "created" => op[c].dev # x.dev
    \/ \E c \in Clients : /\ op[c].pc = "attach" /\ op[c].dev = x.dev
                          /\ x \in op[c].temp \/ (x.t = "clone" /\ x.id = op[c].id)
    \/ \E c \in Clients : op[c].pc \in {"unmount", "cleanup"} /\ op[c].dev = x.dev
LeftInv ==
    /\ \A x \in driver \ leaked : x.dev # 0 /\ ~Mounted(x.dev) => Explained(x)
    /\ \A c \in Clients : op[c].pc = "erase" =>
         \A x \in driver \ leaked : x.dev = op[c].dev => attached[x.dev] # None

\* A user's change to a rule of the image has not been handled.
InPort(i) == \E k \in DOMAIN port : ~port[k].own /\ port[k].img = i /\ port[k].rule.t = "volume"
Dirty(i)  == \E d \in Devices : Mounted(d) /\ m_Volumes[d].img = i /\ m_Volumes[d].dirty

\* An image that is not lost has one entry at most; the driver has the rules
\* the user gave it for the entry it was loaded into, and no others but leaked
\* ones; and its file has them unless a change is on its way or the entry is dirty.
OneEntry(i) == \A d, e \in Devices :
    Mounted(d) /\ Mounted(e) /\ m_Volumes[d].img = i /\ m_Volumes[e].img = i => d = e
InDriver(i) == \A d \in Devices : Mounted(d) /\ m_Volumes[d].img = i /\ m_Volumes[d].loaded =>
    \A r \in Rules : /\ r \in wanted[i] => VolumeRule(r, d) \in driver
                     /\ VolumeRule(r, d) \in driver => r \in wanted[i] \/ VolumeRule(r, d) \in leaked
OnFile(i) == disk[i] = wanted[i] \/ InPort(i) \/ Dirty(i)
KeptInv == \A i \in Images \ lost : OneEntry(i) /\ InDriver(i) /\ OnFile(i)

\* Requests are served one at a time.
OneClient == \A b, c \in Clients : b = c

-----------------------------------------------------------------------------
(* Facts about sequences, sets and the driver's calls *)

\* What SetToSeq makes of a finite set is a sequence of its elements.
LEMMA SetToSeqIsSeq ==
    ASSUME NEW S, IsFiniteSet(S)
    PROVE  SetToSeq(S) \in Seq(S)
<1> DEFINE n == Cardinality(S)
<1>1. n \in Nat /\ ExistsBijection(1..n, S)
  BY FS_CardinalityType
<1>2. PICK f : f \in Bijection(1..n, S)
  BY <1>1 DEF ExistsBijection
<1>3. f \in [1..n -> S] /\ IsInjective(f)
  BY <1>2 DEF Bijection, Injection
<1>4. SetToSeq(S) \in [1..n -> S]
  BY <1>3 DEF SetToSeq
<1> HIDE DEF n
<1> QED BY <1>1, <1>4, SMT DEF n

LEMMA SubSeqType ==
    ASSUME NEW S, NEW T, S \subseteq T, NEW s \in Seq(S)
    PROVE  s \in Seq(T)
OBVIOUS

\* The notifications the agent's own calls cause.
LEMMA OwnIsSeq ==
    ASSUME NEW o \in {"add", "del"}, NEW S, S \subseteq Rule, IsFiniteSet(S)
    PROVE  Own(o, S) \in Seq(OwnMsg)
<1> DEFINE f == [x \in S |-> [op |-> o, rule |-> x, own |-> TRUE, img |-> None, n |-> 0]]
<1> DEFINE T == {[op |-> o, rule |-> x, own |-> TRUE, img |-> None, n |-> 0] : x \in S}
<1>1. f \in Surjection(S, T)
  BY DEF Surjection
<1>2. IsFiniteSet(T)
  BY <1>1, FS_Surjection
<1>3. T \subseteq OwnMsg
  <2> SUFFICES ASSUME NEW x \in S
               PROVE  [op |-> o, rule |-> x, own |-> TRUE, img |-> None, n |-> 0] \in OwnMsg
    OBVIOUS
  <2>1. x \in Rule
    OBVIOUS
  <2> QED BY <2>1 DEF OwnMsg
<1>4. Own(o, S) = SetToSeq(T)
  BY DEF Own
<1> HIDE DEF T
<1>5. SetToSeq(T) \in Seq(T)
  BY <1>2, SetToSeqIsSeq
<1> QED BY <1>3, <1>4, <1>5, SubSeqType

LEMMA OwnsTogether ==
    ASSUME NEW s \in Seq(Msg), NEW t \in Seq(OwnMsg)
    PROVE  s \o t \in Seq(Msg)
<1>1. t \in Seq(Msg)
  BY SubSeqType DEF Msg
<1> QED BY <1>1

\* A call changes the driver and adds notifications of the agent's own, which
\* leave those of the user's changes as they are.
Users(s) == {s[k] : k \in {j \in DOMAIN s : ~s[j].own}}

LEMMA UsersAppend ==
    ASSUME NEW s \in Seq(Msg), NEW t \in Seq(OwnMsg)
    PROVE  Users(s \o t) = Users(s)
<1> DEFINE u == s \o t
<1>1. /\ s \in Seq(Msg) /\ t \in Seq(Msg) /\ Len(u) = Len(s) + Len(t) /\ u \in Seq(Msg)
      /\ \A k \in 1..Len(s) : u[k] = s[k]
      /\ \A k \in 1..Len(u) : k \notin 1..Len(s) => k - Len(s) \in 1..Len(t) /\ u[k] = t[k - Len(s)]
  <2>1. t \in Seq(Msg)
    BY SubSeqType DEF Msg
  <2> QED BY <2>1
<1>2. \A k \in 1..Len(t) : t[k].own = TRUE
  <2>1. \A k \in 1..Len(t) : t[k] \in OwnMsg
    OBVIOUS
  <2> QED BY <2>1 DEF OwnMsg
<1>3. DOMAIN s = 1..Len(s) /\ DOMAIN u = 1..Len(u) /\ Len(s) \in Nat /\ Len(t) \in Nat
  BY <1>1
<1>4. DOMAIN s \subseteq DOMAIN u
  BY <1>1, <1>3
<1> HIDE DEF u
<1>5. \A k \in DOMAIN u : ~u[k].own => k \in DOMAIN s
  BY <1>1, <1>2, <1>3
<1>6. \A k \in DOMAIN s : u[k] = s[k]
  BY <1>1, <1>3
<1>7. {j \in DOMAIN u : ~u[j].own} = {j \in DOMAIN s : ~s[j].own}
  BY <1>4, <1>5, <1>6
<1>8. Users(u) = Users(s)
  BY <1>6, <1>7 DEF Users
<1> QED BY <1>8 DEF u

LEMMA CallEffect ==
    ASSUME driver \subseteq Rule, IsFiniteSet(driver), port \in Seq(Msg),
           NEW new, new \subseteq Rule, IsFiniteSet(new), NEW old, Call(new, old)
    PROVE  /\ driver' = (driver \ old) \cup new
           /\ driver' \subseteq Rule /\ IsFiniteSet(driver')
           /\ port' \in Seq(Msg) /\ Users(port') = Users(port)
<1> DEFINE a == Own("add", new \ driver)
<1> DEFINE b == Own("del", old \cap driver)
<1>1. driver' = (driver \ old) \cup new /\ port' = port \o a \o b
  BY DEF Call
<1>2. IsFiniteSet(new \ driver) /\ IsFiniteSet(old \cap driver) /\ IsFiniteSet(driver \ old)
  BY FS_Difference, FS_Subset
<1>3. a \in Seq(OwnMsg) /\ b \in Seq(OwnMsg)
  BY <1>2, OwnIsSeq
<1> HIDE DEF a, b
<1>4. port \o a \in Seq(Msg) /\ Users(port \o a) = Users(port)
  BY <1>3, OwnsTogether, UsersAppend
<1>5. port' \in Seq(Msg) /\ Users(port') = Users(port \o a)
  BY <1>1, <1>3, <1>4, OwnsTogether, UsersAppend
<1>6. IsFiniteSet(driver')
  BY <1>1, <1>2, FS_Union
<1> QED BY <1>1, <1>4, <1>5, <1>6

-----------------------------------------------------------------------------
(* The shape *)

LEMMA NoneIsNoImage == None \notin Images
BY VolumesAssumption DEF None

LEMMA DevicesFinite == IsFiniteSet(Devices) /\ Devices \subseteq Nat \ {0} /\ 0 .. MaxDevice = Devices \cup {0}
<1>1. MaxDevice \in Nat \ {0}
  BY VolumesAssumption
<1>2. IsFiniteSet(1 .. MaxDevice)
  BY <1>1, FS_Interval
<1> QED BY <1>1, <1>2 DEF Devices

\* An entry is a volume exactly when it names an image.
LEMMA EntryIsVolume ==
    ASSUME Shape, NEW d \in Devices
    PROVE  /\ Mounted(d) => m_Volumes[d] \in Volume /\ m_Volumes[d].img \in Images
           /\ ~Mounted(d) => m_Volumes[d] = NoVolume /\ m_Volumes[d].img = None
           /\ m_Volumes[d].img \in Images => Mounted(d)
<1>1. m_Volumes[d] \in Volume \cup {NoVolume} /\ NoVolume.img = None
  BY DEF Shape, NoVolume
<1>2. ~Mounted(d) => m_Volumes[d] = NoVolume
  BY DEF Mounted
<1>3. Mounted(d) => m_Volumes[d] \in Volume
  BY <1>1 DEF Mounted
<1>4. m_Volumes[d] \in Volume => m_Volumes[d].img \in Images
  BY DEF Volume
<1> QED BY <1>1, <1>2, <1>3, <1>4, NoneIsNoImage

\* The request of a client, by where it stands.
LEMMA RequestKind ==
    ASSUME NEW o \in Request
    PROVE  /\ o.pc \in {"protect", "attach", "enter", "script"} => o \in Mounting
           /\ o.pc \in {"unmount", "cleanup", "erase"} => o \in Dismounting
           /\ o.pc = "created" => o \in Creating
           /\ o.pc = "all" => o \in Emptying
           /\ o.pc = "update" => o \in Updating
           /\ o.pc \in {"idle", "release"} => o \in Waiting
BY DEF Request, Mounting, Dismounting, Creating, Emptying, Updating, Waiting

LEMMA IdleIsRequest == Idle \in Request /\ Idle.pc = "idle" /\ [pc |-> "release"] \in Request
BY DEF Idle, Request, Waiting

\* What a step changes in the requests keeps their shape.
LEMMA RequestSet ==
    ASSUME op \in [Clients -> Request], NEW c \in Clients, NEW q \in Request,
           op' = [op EXCEPT ![c] = q]
    PROVE  op' \in [Clients -> Request] /\ op'[c] = q
OBVIOUS

LEMMA StoredAreRules ==
    ASSUME NEW S, S \subseteq Rule, NEW d
    PROVE  StoredIn(S, d) \subseteq Rules
<1> SUFFICES ASSUME NEW x \in S, x.t = "volume" PROVE x.id \in Rules
  BY DEF StoredIn, OnDevice
<1>1. x \in Rule
  OBVIOUS
<1> QED BY <1>1 DEF Rule

LEMMA SavedShape ==
    ASSUME Shape, NEW D
    PROVE  SavedDisk(D) \in [Images -> SUBSET Rules]
<1>1. \A d : StoredIn(rules, d) \in SUBSET Rules
  BY StoredAreRules DEF Shape
<1>2. \A i \in Images : disk[i] \in SUBSET Rules
  BY DEF Shape
<1> QED BY <1>1, <1>2 DEF SavedDisk

\* A save of the device overwrites what it should not.
Misplaced(e) ==
    \/ attached[e] # m_Volumes[e].img \/ ~m_Volumes[e].loaded
    \/ Unseen(e) # {} \/ OnDevice(leaked \cap rules, e) # {}

LEMMA OverwrittenSays ==
    ASSUME NEW S, NEW i
    PROVE  i \in Overwritten(S) <=>
             i # None /\ \E d \in S : Misplaced(d) /\ i \in {attached[d], m_Volumes[d].img}
<1> DEFINE P == {{attached[d], m_Volumes[d].img} : d \in {e \in S : Misplaced(e)}}
<1>1. Overwritten(S) = (UNION P) \ {None}
  BY DEF Overwritten, Misplaced
<1>2. i \in UNION P <=> \E p \in P : i \in p
  OBVIOUS
<1>3. (\E p \in P : i \in p) <=> \E d \in S : Misplaced(d) /\ i \in {attached[d], m_Volumes[d].img}
  OBVIOUS
<1> QED BY <1>1, <1>2, <1>3

LEMMA OverwrittenShape ==
    ASSUME Shape, NEW S, S \subseteq Devices
    PROVE  Overwritten(S) \subseteq Images
<1>1. \A d \in Devices : attached[d] \in Images \cup {None} /\ m_Volumes[d].img \in Images \cup {None}
  BY EntryIsVolume DEF Shape
<1> SUFFICES ASSUME NEW i \in Overwritten(S) PROVE i \in Images
  OBVIOUS
<1>2. i # None /\ \E d \in S : i \in {attached[d], m_Volumes[d].img}
  BY OverwrittenSays
<1> QED BY <1>1, <1>2

LEMMA WritableDevices ==
    ASSUME NEW D, D \subseteq Devices, NEW S \in {Writable(D), {}}
    PROVE  S \subseteq Devices /\ \A d \in S : attached[d] # None
BY DEF Writable

LEMMA CanSaveDevices ==
    ASSUME NEW o, o.dev \in Devices, NEW S \in {CanSave(o), {}}
    PROVE  S \subseteq Devices /\ \A d \in S : attached[d] # None
BY DEF CanSave, ToSave

LEMMA UnsavedShape ==
    ASSUME Shape, NEW D, D \subseteq Devices
    PROVE  Unsaved(D) \subseteq Images
BY EntryIsVolume DEF Unsaved

LEMMA UnderwayShape ==
    ASSUME port \in Seq(Msg)
    PROVE  Underway \subseteq Images /\ Underway = {m.img : m \in Users(port)}
<1>1. \A k \in DOMAIN port : port[k] \in Msg
  OBVIOUS
<1>2. \A k \in DOMAIN port : ~port[k].own => port[k] \in UserMsg
  BY <1>1 DEF Msg, OwnMsg
<1>3. \A k \in DOMAIN port : ~port[k].own => port[k].img \in Images
  BY <1>2 DEF UserMsg
<1> QED BY <1>3 DEF Underway, Users

\* What a save does to the state.
LEMMA SavingShape ==
    ASSUME Shape, NEW S, NEW D, D \subseteq Devices, \A d \in D : Mounted(d),
           S \subseteq Devices, \A d \in S : attached[d] # None, Saving(S, D)
    PROVE  /\ disk' \in [Images -> SUBSET Rules]
           /\ lost' \subseteq Images
           /\ m_Volumes' \in [Devices -> Volume \cup {NoVolume}]
<1>1. disk' = SavedDisk(S) /\ lost' = lost \cup Overwritten(S)
      /\ m_Volumes' = [d \in Devices |-> IF d \in D THEN [m_Volumes[d] EXCEPT !.dirty = StillDirty(d, S)]
                                         ELSE m_Volumes[d]]
  BY DEF Saving
<1>2. lost' \subseteq Images
  BY <1>1, OverwrittenShape DEF Shape
<1>3. \A d \in D : [m_Volumes[d] EXCEPT !.dirty = StillDirty(d, S)] \in Volume
  <2> SUFFICES ASSUME NEW d \in D PROVE [m_Volumes[d] EXCEPT !.dirty = StillDirty(d, S)] \in Volume
    OBVIOUS
  <2>1. m_Volumes[d] \in Volume
    BY EntryIsVolume
  <2>2. StillDirty(d, S) \in BOOLEAN
    BY DEF StillDirty
  <2> QED BY <2>1, <2>2 DEF Volume
<1> QED BY <1>1, <1>2, <1>3, SavedShape DEF Shape

-----------------------------------------------------------------------------
(* Every step keeps the shape *)

LEMMA ShapeUnchanged ==
    ASSUME Shape, UNCHANGED vars
    PROVE  Shape'
BY DEF Shape, vars, ruleVars, mapVars, guardVars, countVars, histVars

LEMMA MountImageShape ==
    ASSUME Shape, NEW c \in Clients, NEW i \in Images, NEW p \in BOOLEAN, NEW l \in BOOLEAN,
           MountImage(c, i, p, l)
    PROVE  Shape'
<1>1. PICK d \in FindNextFreeDevice :
        d <= MaxDevice
        /\ op' = [op EXCEPT ![c] = [pc |-> "protect", img |-> i, dev |-> d, id |-> mounts + 1,
                                    prot |-> p, lock |-> l, temp |-> {}]]
  BY DEF MountImage
<1>2. d \in Devices
  BY <1>1, DevicesFinite, VolumesAssumption DEF FindNextFreeDevice, Devices
<1> DEFINE q == [pc |-> "protect", img |-> i, dev |-> d, id |-> mounts + 1,
                 prot |-> p, lock |-> l, temp |-> {}]
<1>3. q \in Request
  <2>1. mounts + 1 \in Nat
    BY DEF Shape
  <2> QED BY <1>2, <2>1 DEF Request, Mounting
<1> HIDE DEF q
<1>4. op' \in [Clients -> Request]
  BY <1>1, <1>3, RequestSet DEF Shape, q
<1>5. mounts' \in Nat
  BY DEF MountImage, Shape
<1> QED BY <1>4, <1>5 DEF MountImage, Shape, ruleVars, mapVars, guardVars, histVars

\* The copies and the temporary rule of a mount are two rules at most.
LEMMA CopiesShape ==
    ASSUME NEW o \in Mounting
    PROVE  /\ Copies(o) \subseteq Rule /\ IsFiniteSet(Copies(o))
           /\ \A x \in Copies(o) : x.t = "clone" /\ x.id = o.id /\ x.dev = o.dev
           /\ Protect(o.id, o.dev) \in Temps /\ Protect(o.id, o.dev) \in Rule
<1>1. o.id \in Nat /\ o.dev \in Devices
  BY DEF Mounting
<1>2. CloneRule(o.id, o.dev) \in Rule /\ Protect(o.id, o.dev) \in Rule /\ Protect(o.id, o.dev) \in Temps
  BY <1>1 DEF CloneRule, Protect, Rule, Temps
<1>3. Copies(o) \in {{}, {CloneRule(o.id, o.dev)}}
  BY DEF Copies
<1>4. IsFiniteSet({}) /\ IsFiniteSet({CloneRule(o.id, o.dev)})
  BY FS_EmptySet, FS_Singleton
<1>5. IsFiniteSet(Copies(o))
  BY <1>3, <1>4
<1>6. CloneRule(o.id, o.dev).t = "clone" /\ CloneRule(o.id, o.dev).id = o.id /\ CloneRule(o.id, o.dev).dev = o.dev
  BY DEF CloneRule
<1>7. Copies(o) \subseteq {CloneRule(o.id, o.dev)}
  BY <1>3
<1> QED BY <1>2, <1>5, <1>6, <1>7

LEMMA SetUpProtectionShape ==
    ASSUME Shape, NEW c \in Clients, SetUpProtection(c)
    PROVE  Shape'
<1>1. op[c] \in Mounting
  BY RequestKind DEF SetUpProtection, Shape
<1>2. PICK temp \in {{Protect(op[c].id, op[c].dev)}, {}} :
        /\ IF op[c].prot /\ temp = {} THEN Fails ELSE UNCHANGED faults
        /\ Call(temp \cup Copies(op[c]), {})
        /\ op' = [op EXCEPT ![c].pc = "attach", ![c].temp = temp]
  BY DEF SetUpProtection
<1>3. temp \subseteq Temps /\ temp \subseteq Rule /\ IsFiniteSet(temp)
  <2>1. IsFiniteSet({}) /\ IsFiniteSet({Protect(op[c].id, op[c].dev)})
    BY FS_EmptySet, FS_Singleton
  <2>2. Protect(op[c].id, op[c].dev) \in Temps /\ Protect(op[c].id, op[c].dev) \in Rule
    BY <1>1, CopiesShape
  <2> QED BY <1>2, <2>1, <2>2
<1>4. temp \cup Copies(op[c]) \subseteq Rule /\ IsFiniteSet(temp \cup Copies(op[c]))
  BY <1>1, <1>3, CopiesShape, FS_Union
<1>5. driver' \subseteq Rule /\ IsFiniteSet(driver') /\ port' \in Seq(Msg)
  BY <1>2, <1>4, CallEffect DEF Shape
<1>6. op' \in [Clients -> Request]
  <2>1. [op[c] EXCEPT !.pc = "attach", !.temp = temp] \in Mounting
    BY <1>1, <1>3 DEF Mounting
  <2>2. op' = [op EXCEPT ![c] = [op[c] EXCEPT !.pc = "attach", !.temp = temp]]
    BY <1>2 DEF Shape
  <2> QED BY <2>1, <2>2, RequestSet DEF Request, Shape
<1>7. faults' \in Nat
  BY <1>2 DEF Fails, Shape
<1>8. UNCHANGED <<attached, late, disk, seen, rules, m_Volumes, m_VolumesByGuid, m_Mutex, m_NoHibernation,
                  mounts, edits, wanted, lost, leaked, displaced>>
  BY DEF SetUpProtection, mapVars, guardVars, histVars
<1> QED BY <1>5, <1>6, <1>7, <1>8 DEF Shape

LEMMA AttachShape ==
    ASSUME Shape, NEW c \in Clients, Attach(c)
    PROVE  Shape'
<1>1. op[c] \in Mounting
  BY RequestKind DEF Attach, Shape
<1>2. op' \in [Clients -> Request]
  <2>1. [op[c] EXCEPT !.pc = "enter"] \in Mounting
    BY <1>1 DEF Mounting
  <2>2. op' = [op EXCEPT ![c] = [op[c] EXCEPT !.pc = "enter"]]
    BY DEF Attach, Shape
  <2> QED BY <2>1, <2>2, RequestSet DEF Request, Shape
<1>3. op[c].img \in Images /\ op[c].dev \in Devices
  BY <1>1 DEF Mounting
<1> QED BY <1>2, <1>3 DEF Attach, Shape, ruleVars, mapVars, guardVars, countVars, histVars

LEMMA TempsAreRules == \A S \in SUBSET Temps : S \subseteq Rule
BY DEF Temps, Rule

LEMMA AttachFailsShape ==
    ASSUME Shape, NEW c \in Clients, NEW t \in BOOLEAN, AttachFails(c, t)
    PROVE  Shape'
<1>1. op[c] \in Mounting
  BY RequestKind DEF AttachFails, Shape
<1>2. driver' \subseteq Rule /\ IsFiniteSet(driver') /\ port' \in Seq(Msg)
  BY FS_EmptySet, CallEffect DEF AttachFails, Shape
<1>3. op' \in [Clients -> Request]
  BY IdleIsRequest DEF AttachFails, Shape
<1>4. late' \subseteq Images \X Devices
  BY <1>1 DEF AttachFails, Mounting, Shape
<1>5. leaked' \subseteq Rule
  BY DEF AttachFails, Shape, OnDevice
<1>6. faults' \in Nat
  BY DEF AttachFails, Fails, Shape
<1> QED BY <1>2, <1>3, <1>4, <1>5, <1>6 DEF AttachFails, Shape, mapVars, guardVars

LEMMA LateAttachShape ==
    ASSUME Shape, LateAttach
    PROVE  Shape'
<1>1. PICK m \in late :
         /\ late' = late \ {m}
         /\ attached' = IF CanAttach(m[1], m[2]) THEN [attached EXCEPT ![m[2]] = m[1]] ELSE attached
  BY DEF LateAttach
<1>2. m[1] \in Images /\ m[2] \in Devices
  BY DEF Shape
<1> QED BY <1>1, <1>2 DEF LateAttach, Shape, ruleVars, mapVars, guardVars, countVars, histVars

\* The rules of an image, given to a device, are finitely many.
LEMMA VolumeRulesShape ==
    ASSUME NEW S, S \subseteq Rules, NEW d \in Devices
    PROVE  /\ {VolumeRule(r, d) : r \in S} \subseteq Rule
           /\ IsFiniteSet({VolumeRule(r, d) : r \in S})
<1>1. IsFiniteSet(S)
  BY VolumesAssumption, FS_Subset
<1> DEFINE T == {VolumeRule(r, d) : r \in S}
<1> DEFINE f == [r \in S |-> VolumeRule(r, d)]
<1>2. f \in Surjection(S, T)
  BY DEF Surjection
<1>3. IsFiniteSet(T)
  BY <1>1, <1>2, FS_Surjection
<1> QED BY <1>3 DEF VolumeRule, Rule

\* The entry of a mount.
MountedVolume(o, ok, granted) ==
    [img |-> o.img, num |-> o.id, prot |-> o.prot, lock |-> o.lock, dirty |-> FALSE,
     loaded |-> o.prot /\ ok, guarded |-> GuardHibernation /\ granted /\ ~misled]

LEMMA MountedShape ==
    ASSUME NEW o \in Mounting, NEW ok \in BOOLEAN, NEW granted \in BOOLEAN
    PROVE  /\ MountedVolume(o, ok, granted) \in Volume
           /\ MountedVolume(o, ok, granted).img = o.img
           /\ MountedVolume(o, ok, granted).loaded => o.prot /\ ok
           /\ MountedVolume(o, ok, granted).guarded => GuardHibernation /\ granted /\ ~misled
<1>1. PICK g \in BOOLEAN : g = (GuardHibernation /\ granted /\ ~misled)
  OBVIOUS
<1>2. PICK l \in BOOLEAN : l = (o.prot /\ ok)
  OBVIOUS
<1>3. MountedVolume(o, ok, granted) =
        [img |-> o.img, num |-> o.id, prot |-> o.prot, lock |-> o.lock, dirty |-> FALSE,
         loaded |-> l, guarded |-> g]
  BY <1>1, <1>2, Zenon DEF MountedVolume
<1> DEFINE v == MountedVolume(o, ok, granted)
<1>4. o.img \in Images /\ o.id \in Nat /\ o.prot \in BOOLEAN /\ o.lock \in BOOLEAN
  BY DEF Mounting
<1>5. v \in Volume /\ v.img = o.img /\ v.loaded = l /\ v.guarded = g
  BY <1>3, <1>4 DEF Volume
<1>6. v.loaded => o.prot /\ ok
  BY <1>2, <1>5, Zenon
<1>7. v.guarded => GuardHibernation /\ granted /\ ~misled
  BY <1>1, <1>5, Zenon
<1> HIDE DEF v
<1> QED BY <1>5, <1>6, <1>7 DEF v

\* What a request that enters its volume does.
LEMMA EnterEffect ==
    ASSUME NEW c, Enter(c)
    PROVE  \E ok, granted \in BOOLEAN :
             /\ IF ok /\ granted THEN UNCHANGED faults ELSE Fails
             /\ Guard(granted)
             /\ m_Volumes' = [m_Volumes EXCEPT ![op[c].dev] = MountedVolume(op[c], ok, granted)]
             /\ Call(IF op[c].prot /\ ok THEN {VolumeRule(r, op[c].dev) : r \in disk[op[c].img]} ELSE {}, {})
BY DEF Enter, MountedVolume

LEMMA EnterShape ==
    ASSUME Shape, NEW c \in Clients, Enter(c)
    PROVE  Shape'
<1> DEFINE o == op[c]
<1>1. o \in Mounting /\ o.img \in Images /\ o.dev \in Devices /\ o.prot \in BOOLEAN /\ o.lock \in BOOLEAN
  <2>1. o \in Mounting
    BY RequestKind DEF Enter, Shape
  <2> QED BY <2>1 DEF Mounting
<1>2. PICK ok, granted \in BOOLEAN :
        /\ IF ok /\ granted THEN UNCHANGED faults ELSE Fails
        /\ Guard(granted)
        /\ m_Volumes' = [m_Volumes EXCEPT ![o.dev] = MountedVolume(o, ok, granted)]
        /\ Call(IF o.prot /\ ok THEN {VolumeRule(r, o.dev) : r \in disk[o.img]} ELSE {}, {})
  BY EnterEffect
<1>3. driver' \subseteq Rule /\ IsFiniteSet(driver') /\ port' \in Seq(Msg)
  <2> DEFINE new == IF o.prot /\ ok THEN {VolumeRule(r, o.dev) : r \in disk[o.img]} ELSE {}
  <2>1. disk[o.img] \subseteq Rules
    BY <1>1 DEF Shape
  <2>2. new \subseteq Rule /\ IsFiniteSet(new)
    BY <1>1, <2>1, VolumeRulesShape, FS_EmptySet
  <2>3. Call(new, {})
    BY <1>2
  <2> HIDE DEF new
  <2> QED BY <2>2, <2>3, CallEffect DEF Shape
<1>4. m_Volumes' \in [Devices -> Volume \cup {NoVolume}]
  <2>1. MountedVolume(o, ok, granted) \in Volume
    BY <1>1, MountedShape
  <2> QED BY <1>2, <2>1 DEF Shape
<1>5. op' \in [Clients -> Request]
  <2>1. [op[c] EXCEPT !.pc = "script"] \in Mounting
    BY <1>1 DEF Mounting
  <2>2. op' = [op EXCEPT ![c] = [op[c] EXCEPT !.pc = "script"]]
    BY DEF Enter, Shape
  <2> QED BY <2>1, <2>2, RequestSet DEF Request, Shape
<1>6. lost' \subseteq Images /\ displaced' \subseteq Images
  <2>1. m_Volumes[o.dev].img \in Images \cup {None}
    BY <1>1, EntryIsVolume
  <2> QED BY <1>1, <2>1, UnsavedShape DEF Enter, Shape
<1>7. leaked' \subseteq Rule /\ faults' \in Nat /\ m_NoHibernation' \in BOOLEAN /\ m_Mutex' \in Clients
  BY <1>2 DEF Enter, Shape, OnDevice, Fails, Guard
<1>8. m_VolumesByGuid' \in [Images -> 0 .. MaxDevice]
  BY <1>1, DevicesFinite DEF Enter, Shape
<1>9. UNCHANGED <<attached, late, disk, seen, rules, mounts, edits, wanted>>
  BY DEF Enter
<1> QED BY <1>3, <1>4, <1>5, <1>6, <1>7, <1>8, <1>9 DEF Shape

\* Steps that end a request, or move it on, and leave what it is about alone.
LEMMA RequestStepShape ==
    ASSUME Shape, NEW c \in Clients, NEW q \in Request, op' = [op EXCEPT ![c] = q],
           m_Mutex' \in Clients \cup {None}, m_NoHibernation' \in BOOLEAN, faults' \in Nat, mounts' \in Nat,
           attached' \in [Devices -> Images \cup {None}],
           UNCHANGED <<late, disk, ruleVars, m_Volumes, m_VolumesByGuid, edits, histVars>>
    PROVE  Shape'
<1>1. op' \in [Clients -> Request]
  BY RequestSet DEF Shape
<1> QED BY <1>1 DEF Shape, ruleVars, histVars

\* A dismount that holds a volume.
LEMMA HoldShape ==
    ASSUME NEW v \in {"script", "path", "all"}, NEW d \in Devices, NEW i \in Images \cup {None},
           NEW n \in Nat, NEW l \in BOOLEAN, NEW T \in SUBSET Devices
    PROVE  /\ HoldVolume(v, d, i, n, l, T) \in Request
           /\ HoldVolume(v, d, i, n, l, T).pc = "unmount"
           /\ HoldVolume(v, d, i, n, l, T).via = v /\ HoldVolume(v, d, i, n, l, T).dev = d
           /\ HoldVolume(v, d, i, n, l, T).img = i /\ HoldVolume(v, d, i, n, l, T).todo = T
BY DEF HoldVolume, Request, Dismounting

LEMMA JunctionFailsShape ==
    ASSUME Shape, NEW c \in Clients, JunctionFails(c)
    PROVE  Shape'
<1>1. op[c] \in Mounting
  BY RequestKind DEF JunctionFails, Shape
<1> DEFINE q == HoldVolume("script", op[c].dev, op[c].img, op[c].id, op[c].lock, {})
<1>2. q \in Request
  BY <1>1, HoldShape DEF Mounting
<1> HIDE DEF q
<1>3. op' = [op EXCEPT ![c] = q] /\ faults' \in Nat /\ m_NoHibernation' \in BOOLEAN
      /\ m_Mutex' \in Clients
  BY DEF JunctionFails, q, Fails, Guard, Shape
<1>4. attached' \in [Devices -> Images \cup {None}] /\ mounts' \in Nat
  BY DEF JunctionFails, Shape
<1> QED BY <1>2, <1>3, <1>4, RequestStepShape DEF JunctionFails

\* Removing rules from the driver.
LEMMA RemovalShape ==
    ASSUME Shape, NEW old, Call({}, old)
    PROVE  /\ driver' = driver \ old /\ driver' \subseteq Rule /\ IsFiniteSet(driver')
           /\ port' \in Seq(Msg) /\ Users(port') = Users(port)
<1>1. {} \subseteq Rule /\ IsFiniteSet({})
  BY FS_EmptySet
<1>2. driver \subseteq Rule /\ IsFiniteSet(driver) /\ port \in Seq(Msg)
  BY DEF Shape
<1> DEFINE new == {}
<1>3. new \subseteq Rule /\ IsFiniteSet(new) /\ Call(new, old)
  BY <1>1
<1> HIDE DEF new
<1>4. /\ driver' = (driver \ old) \cup new /\ driver' \subseteq Rule /\ IsFiniteSet(driver')
      /\ port' \in Seq(Msg) /\ Users(port') = Users(port)
  BY <1>2, <1>3, CallEffect
<1> QED BY <1>4 DEF new

LEMMA FinishMountShape ==
    ASSUME Shape, NEW c \in Clients, FinishMount(c)
    PROVE  Shape'
<1>1. driver' \subseteq Rule /\ IsFiniteSet(driver') /\ port' \in Seq(Msg)
  BY RemovalShape DEF FinishMount
<1>2. op' \in [Clients -> Request] /\ m_Mutex' \in Clients \cup {None}
  BY IdleIsRequest DEF FinishMount, Shape
<1> QED BY <1>1, <1>2 DEF FinishMount, Shape, countVars, histVars, guardVars, mapVars

LEMMA MountScriptFailsShape ==
    ASSUME Shape, NEW c \in Clients, MountScriptFails(c)
    PROVE  Shape'
<1>1. driver' \subseteq Rule /\ IsFiniteSet(driver') /\ port' \in Seq(Msg)
  BY RemovalShape DEF MountScriptFails
<1>2. op[c] \in Mounting
  BY RequestKind DEF MountScriptFails, Shape
<1>3. op' \in [Clients -> Request]
  <2> DEFINE q == HoldVolume("script", op[c].dev, op[c].img, op[c].id, op[c].lock, {})
  <2>1. q \in Request
    BY <1>2, HoldShape DEF Mounting
  <2>2. op' = [op EXCEPT ![c] = q]
    BY DEF MountScriptFails
  <2> HIDE DEF q
  <2> QED BY <2>1, <2>2, RequestSet DEF Shape
<1> QED BY <1>1, <1>3 DEF MountScriptFails, Shape, mapVars, guardVars, countVars, histVars

LEMMA CreateImageShape ==
    ASSUME Shape, NEW c \in Clients, NEW i \in Images, CreateImage(c, i)
    PROVE  Shape'
<1>1. PICK d \in Devices : /\ attached' = [attached EXCEPT ![d] = i]
                           /\ op' = [op EXCEPT ![c] = [pc |-> "created", dev |-> d]]
  BY DEF CreateImage
<1>2. [pc |-> "created", dev |-> d] \in Request
  BY DEF Request, Creating
<1>3. attached' \in [Devices -> Images \cup {None}] /\ mounts' \in Nat
  BY <1>1 DEF CreateImage, Shape
<1>4. m_Mutex' \in Clients \cup {None} /\ m_NoHibernation' \in BOOLEAN /\ faults' \in Nat
  BY DEF CreateImage, Shape, mapVars, guardVars
<1> QED BY <1>1, <1>2, <1>3, <1>4, RequestStepShape DEF CreateImage, mapVars, guardVars

LEMMA DetachCreatedShape ==
    ASSUME Shape, NEW c \in Clients, DetachCreated(c)
    PROVE  Shape'
<1>1. op[c] \in Creating
  BY RequestKind DEF DetachCreated, Shape
<1>2. attached' \in [Devices -> Images \cup {None}]
  BY <1>1 DEF DetachCreated, Shape, Creating
<1>3. /\ m_Mutex' \in Clients \cup {None} /\ m_NoHibernation' \in BOOLEAN /\ faults' \in Nat /\ mounts' \in Nat
      /\ op' = [op EXCEPT ![c] = Idle]
      /\ UNCHANGED <<late, disk, ruleVars, m_Volumes, m_VolumesByGuid, edits, histVars>>
  BY DEF DetachCreated, Shape, mapVars, guardVars, countVars
<1> QED BY <1>2, <1>3, IdleIsRequest, RequestStepShape

LEMMA DismountVolumeShape ==
    ASSUME Shape, NEW c \in Clients, NEW d \in Devices, DismountVolume(c, d)
    PROVE  Shape'
<1> DEFINE q == HoldVolume("path", d, m_Volumes[d].img, m_Volumes[d].num, m_Volumes[d].lock, {})
<1>1. q \in Request
  BY EntryIsVolume, HoldShape DEF DismountVolume, Volume
<1>2. op' = [op EXCEPT ![c] = q]
  BY DEF DismountVolume
<1> HIDE DEF q
<1>3. /\ m_Mutex' \in Clients \cup {None} /\ m_NoHibernation' \in BOOLEAN /\ faults' \in Nat /\ mounts' \in Nat
      /\ attached' \in [Devices -> Images \cup {None}]
      /\ UNCHANGED <<late, disk, ruleVars, m_Volumes, m_VolumesByGuid, edits, histVars>>
  BY DEF DismountVolume, Shape, mapVars, guardVars, countVars
<1> QED BY <1>1, <1>2, <1>3, RequestStepShape

LEMMA DismountAllShape ==
    ASSUME Shape, NEW c \in Clients, DismountAll(c)
    PROVE  Shape'
<1> DEFINE q == [pc |-> "all", todo |-> {d \in Devices : Mounted(d)}]
<1>1. q \in Request
  BY DEF Request, Emptying
<1>2. op' = [op EXCEPT ![c] = q]
  BY DEF DismountAll
<1> HIDE DEF q
<1>3. /\ m_Mutex' \in Clients \cup {None} /\ m_NoHibernation' \in BOOLEAN /\ faults' \in Nat /\ mounts' \in Nat
      /\ attached' \in [Devices -> Images \cup {None}]
      /\ UNCHANGED <<late, disk, ruleVars, m_Volumes, m_VolumesByGuid, edits, histVars>>
  BY DEF DismountAll, Shape, countVars, guardVars, mapVars
<1> QED BY <1>1, <1>2, <1>3, RequestStepShape

LEMMA NextOfAllShape ==
    ASSUME Shape, NEW c \in Clients, NextOfAll(c)
    PROVE  Shape'
<1>1. op[c] \in Emptying
  BY RequestKind DEF NextOfAll, Shape
<1>2. PICK d \in op[c].todo :
         op' = [op EXCEPT ![c] = HoldVolume("all", d, m_Volumes[d].img, m_Volumes[d].num,
                                         m_Volumes[d].lock, op[c].todo \ {d})]
  BY DEF NextOfAll
<1> DEFINE q == HoldVolume("all", d, m_Volumes[d].img, m_Volumes[d].num,
                                         m_Volumes[d].lock, op[c].todo \ {d})
<1>3. q \in Request
  <2>1. d \in Devices /\ op[c].todo \subseteq Devices
    BY <1>1 DEF Emptying
  <2>2. m_Volumes[d].img \in Images \cup {None} /\ m_Volumes[d].num \in Nat /\ m_Volumes[d].lock \in BOOLEAN
    <3>1. CASE Mounted(d)
      BY <2>1, <3>1, EntryIsVolume DEF Volume
    <3>2. CASE ~Mounted(d)
      <4>1. m_Volumes[d] = NoVolume
        BY <2>1, <3>2, EntryIsVolume
      <4> QED BY <4>1 DEF NoVolume
    <3> QED BY <3>1, <3>2
  <2> QED BY <2>1, <2>2, HoldShape
<1> HIDE DEF q
<1>4. op' = [op EXCEPT ![c] = q]
  BY <1>2 DEF q
<1>5. /\ m_Mutex' \in Clients \cup {None} /\ m_NoHibernation' \in BOOLEAN /\ faults' \in Nat /\ mounts' \in Nat
      /\ attached' \in [Devices -> Images \cup {None}]
      /\ UNCHANGED <<late, disk, ruleVars, m_Volumes, m_VolumesByGuid, edits, histVars>>
  BY DEF NextOfAll, Shape, mapVars, guardVars, countVars
<1> QED BY <1>3, <1>4, <1>5, RequestStepShape

\* Whatever the driver answers, the agent knows what it takes for granted.
LEMMA ReleaseShape ==
    ASSUME Shape, ReleaseHibernationPrevention
    PROVE  m_NoHibernation' \in BOOLEAN /\ faults' \in Nat
<1>1. \/ m_NoHibernation' = FALSE /\ faults' = faults
      \/ m_NoHibernation' = m_NoHibernation /\ faults' = faults + 1
  BY Zenon DEF ReleaseHibernationPrevention, Fails
<1>2. m_NoHibernation \in BOOLEAN /\ faults \in Nat
  BY DEF Shape
<1>3. m_NoHibernation' \in BOOLEAN
  BY <1>1, <1>2, Zenon
<1>4. faults' \in Nat
  <2>1. faults' = faults \/ faults' = faults + 1
    BY <1>1, Zenon
  <2> QED BY <1>2, <2>1
<1> QED BY <1>3, <1>4

LEMMA AllDoneShape ==
    ASSUME Shape, NEW c \in Clients, AllDone(c)
    PROVE  Shape'
<1>1. /\ m_Mutex' \in Clients \cup {None} /\ m_NoHibernation' \in BOOLEAN /\ faults' \in Nat /\ mounts' \in Nat
      /\ attached' \in [Devices -> Images \cup {None}] /\ op' = [op EXCEPT ![c] = Idle]
      /\ UNCHANGED <<late, disk, ruleVars, m_Volumes, m_VolumesByGuid, edits, histVars>>
  BY ReleaseShape DEF AllDone, Shape
<1> QED BY <1>1, IdleIsRequest, RequestStepShape

LEMMA ReleaseGuardShape ==
    ASSUME Shape, NEW c \in Clients, ReleaseGuard(c)
    PROVE  Shape'
<1>1. /\ m_Mutex' \in Clients \cup {None} /\ m_NoHibernation' \in BOOLEAN /\ faults' \in Nat /\ mounts' \in Nat
      /\ attached' \in [Devices -> Images \cup {None}] /\ op' = [op EXCEPT ![c] = Idle]
      /\ UNCHANGED <<late, disk, ruleVars, m_Volumes, m_VolumesByGuid, edits, histVars>>
  BY ReleaseShape DEF ReleaseGuard, Shape
<1> QED BY <1>1, IdleIsRequest, RequestStepShape

LEMMA TakeDeviceListShape ==
    ASSUME Shape, NEW c \in Clients, TakeDeviceList(c)
    PROVE  Shape'
<1> DEFINE q == [pc |-> "update", list |-> {d \in Devices : attached[d] # None}]
<1>1. q \in Request
  BY DEF Request, Updating
<1>2. op' = [op EXCEPT ![c] = q]
  BY DEF TakeDeviceList
<1> HIDE DEF q
<1>3. /\ m_Mutex' \in Clients \cup {None} /\ m_NoHibernation' \in BOOLEAN /\ faults' \in Nat /\ mounts' \in Nat
      /\ attached' \in [Devices -> Images \cup {None}]
      /\ UNCHANGED <<late, disk, ruleVars, m_Volumes, m_VolumesByGuid, edits, histVars>>
  BY DEF TakeDeviceList, Shape, mapVars, guardVars, countVars
<1> QED BY <1>1, <1>2, <1>3, RequestStepShape

\* Of the volumes a request saves, those that become clean in the map.
Cleaned(o) == {d \in ToSave(o) : IsEntry(o)}

LEMMA ToSaveIsMounted ==
    ASSUME NEW o, o.dev \in Devices
    PROVE  Cleaned(o) \subseteq Devices /\ \A d \in Cleaned(o) : Mounted(d)
BY DEF Cleaned, ToSave, IsEntry

LEMMA UnmountShape ==
    ASSUME Shape, NEW c \in Clients, Unmount(c)
    PROVE  Shape'
<1>1. op[c] \in Dismounting /\ op[c].dev \in Devices
  <2>1. op[c] \in Dismounting
    BY RequestKind DEF Unmount, Shape
  <2> QED BY <2>1 DEF Dismounting
<1>2. PICK S \in {CanSave(op[c]), {}} :
        /\ IF S = CanSave(op[c]) THEN UNCHANGED faults ELSE Fails
        /\ Saving(S, Cleaned(op[c]))
  BY DEF Unmount, SavingHeld, Cleaned
<1>3. disk' \in [Images -> SUBSET Rules] /\ lost' \subseteq Images
      /\ m_Volumes' \in [Devices -> Volume \cup {NoVolume}]
  BY <1>1, <1>2, ToSaveIsMounted, CanSaveDevices, SavingShape
<1>4. op' \in [Clients -> Request]
  <2>1. [op[c] EXCEPT !.pc = "cleanup"] \in Dismounting
    BY <1>1 DEF Dismounting
  <2>2. op' = [op EXCEPT ![c] = [op[c] EXCEPT !.pc = "cleanup"]]
    BY DEF Unmount, Shape
  <2> QED BY <2>1, <2>2, RequestSet DEF Request, Shape
<1>5. faults' \in Nat
  BY <1>2 DEF Fails, Shape
<1>6. attached' \in [Devices -> Images \cup {None}]
  BY DEF Unmount, Shape
<1>7. UNCHANGED <<late, driver, port, seen, rules, m_VolumesByGuid, m_Mutex, m_NoHibernation, mounts,
                  edits, wanted, leaked, displaced>>
  BY DEF Unmount, ruleVars, guardVars
<1> QED BY <1>3, <1>4, <1>5, <1>6, <1>7 DEF Shape

LEMMA ContinueShape ==
    ASSUME NEW o \in Dismounting
    PROVE  Continue(o) \in Request
<1>1. o.todo \subseteq Devices
  BY DEF Dismounting
<1> QED BY <1>1, IdleIsRequest DEF Continue, Request, Emptying

LEMMA UnmountFailsShape ==
    ASSUME Shape, NEW c \in Clients, UnmountFails(c)
    PROVE  Shape'
<1>1. op[c] \in Dismounting /\ op[c].dev \in Devices
  <2>1. op[c] \in Dismounting
    BY RequestKind DEF UnmountFails, Shape
  <2> QED BY <2>1 DEF Dismounting
<1>2. Saving(CanSave(op[c]), Cleaned(op[c]))
  BY DEF UnmountFails, SavingHeld, Cleaned
<1>3. disk' \in [Images -> SUBSET Rules] /\ lost' \subseteq Images
      /\ m_Volumes' \in [Devices -> Volume \cup {NoVolume}]
  BY <1>1, <1>2, ToSaveIsMounted, CanSaveDevices, SavingShape
<1>4. op' \in [Clients -> Request]
  BY <1>1, ContinueShape, RequestSet DEF UnmountFails, Shape
<1>5. faults' \in Nat /\ m_Mutex' \in Clients \cup {None}
  BY DEF UnmountFails, Fails, Unlock, Shape
<1>6. leaked' \subseteq Rule
  BY DEF UnmountFails, Shape, Abandoned, OnDevice
<1>7. UNCHANGED <<attached, late, driver, port, seen, rules, m_VolumesByGuid, m_NoHibernation, mounts,
                  edits, wanted, displaced>>
  BY DEF UnmountFails, ruleVars, guardVars
<1> QED BY <1>3, <1>4, <1>5, <1>6, <1>7 DEF Shape

LEMMA CleanUpVolumeShape ==
    ASSUME Shape, NEW c \in Clients, CleanUpVolume(c)
    PROVE  Shape'
<1>1. op[c] \in Dismounting /\ op[c].dev \in Devices
  <2>1. op[c] \in Dismounting
    BY RequestKind DEF CleanUpVolume, Shape
  <2> QED BY <2>1 DEF Dismounting
<1>2. driver' \subseteq Rule /\ IsFiniteSet(driver') /\ port' \in Seq(Msg)
  BY RemovalShape DEF CleanUpVolume
<1>3. op' \in [Clients -> Request]
  <2>1. [op[c] EXCEPT !.pc = "erase"] \in Dismounting
    BY <1>1 DEF Dismounting
  <2>2. [op[c] EXCEPT !.pc = "erase"] \in Request
    BY <2>1 DEF Request
  <2>3. op' = [op EXCEPT ![c] = IF op[c].via = "script" THEN Idle ELSE [op[c] EXCEPT !.pc = "erase"]]
    BY DEF CleanUpVolume
  <2> QED BY <2>2, <2>3, IdleIsRequest DEF Shape
<1>4. m_Volumes' \in [Devices -> Volume \cup {NoVolume}]
  <2>1. CASE Mounted(op[c].dev)
    <3>1. m_Volumes[op[c].dev] \in Volume
      BY <1>1, <2>1, EntryIsVolume
    <3>2. [m_Volumes[op[c].dev] EXCEPT !.loaded = FALSE] \in Volume
      BY <3>1 DEF Volume
    <3>3. m_Volumes' = [m_Volumes EXCEPT ![op[c].dev] = [m_Volumes[op[c].dev] EXCEPT !.loaded = FALSE]]
      BY <1>1, <2>1 DEF CleanUpVolume, Shape
    <3> QED BY <3>2, <3>3 DEF Shape
  <2>2. CASE ~Mounted(op[c].dev)
    BY <2>2 DEF CleanUpVolume, Shape
  <2> QED BY <2>1, <2>2
<1>5. m_Mutex' \in Clients \cup {None} /\ leaked' \subseteq Rule
  BY DEF CleanUpVolume, Unlock, Shape, Escaped, OnDevice
<1>6. UNCHANGED <<attached, late, disk, seen, rules, m_VolumesByGuid, m_NoHibernation,
                  mounts, edits, faults, wanted, lost, displaced>>
  BY DEF CleanUpVolume, countVars, guardVars
<1> QED BY <1>2, <1>3, <1>4, <1>5, <1>6 DEF Shape

LEMMA EraseShape ==
    ASSUME Shape, NEW c \in Clients, Erase(c)
    PROVE  Shape'
<1>1. op[c] \in Dismounting /\ op[c].dev \in Devices
  <2>1. op[c] \in Dismounting
    BY RequestKind DEF Erase, Shape
  <2> QED BY <2>1 DEF Dismounting
<1>2. op' \in [Clients -> Request]
  BY <1>1, ContinueShape, IdleIsRequest DEF Erase, Shape
<1>3. m_VolumesByGuid' \in [Images -> 0 .. MaxDevice]
  BY DevicesFinite DEF Erase, ForgetGuid, Shape
<1>4. lost' \subseteq Images
  BY <1>1, UnsavedShape DEF Erase, Shape
<1>5. m_Volumes' \in [Devices -> Volume \cup {NoVolume}]
  BY DEF Erase, Shape
<1>6. UNCHANGED <<attached, late, disk, driver, port, seen, rules, m_Mutex, m_NoHibernation,
                  mounts, edits, faults, wanted, leaked, displaced>>
  BY DEF Erase, ruleVars, countVars, guardVars
<1> QED BY <1>2, <1>3, <1>4, <1>5, <1>6 DEF Shape

\* The devices a list finds, and those it finds gone.
FoundIn(l)   == {d \in l : ~Mounted(d) /\ attached[d] # None}
GoneFrom(l)  == {d \in Devices : Mounted(d) /\ d \notin l}
DirtyIn(l)   == {d \in l : Mounted(d) /\ m_Volumes[d].dirty}
EntriesAfter(l, S) == [d \in Devices |->
    IF d \in FoundIn(l) THEN Found(attached[d])
    ELSE IF d \in GoneFrom(l) \/ ~Mounted(d) THEN NoVolume
    ELSE [m_Volumes[d] EXCEPT !.dirty = StillDirty(d, S)]]

\* Update, for the list l it took and the devices S whose file it could write.
Updated(c, l, S) ==
    /\ op[c].pc = "update" /\ l = op[c].list
    /\ faults' \in Nat
    /\ disk' = SavedDisk(S)
    /\ lost' = lost \cup Overwritten(S) \cup Unsaved(GoneFrom(l))
                 \cup {attached[d] : d \in {e \in FoundIn(l) : EnteredAt(attached[e], Devices \ GoneFrom(l))}}
    /\ m_Volumes' = EntriesAfter(l, S)
    /\ m_VolumesByGuid' = [i \in Images |->
         IF \E d \in GoneFrom(l) : m_Volumes[d].img = i THEN 0
         ELSE IF \E d \in FoundIn(l) : attached[d] = i THEN CHOOSE d \in FoundIn(l) : attached[d] = i
         ELSE m_VolumesByGuid[i]]
    /\ Call({}, UNION {InMapFor(d) : d \in GoneFrom(l)})
    /\ leaked' = leaked \cup UNION {Escaped(d) : d \in GoneFrom(l)}
    /\ displaced' = displaced \cup {i \in Images : m_VolumesByGuid[i] # 0 /\ \E d \in FoundIn(l) : attached[d] = i}
    /\ op' = [op EXCEPT ![c] = Idle]
    /\ UNCHANGED <<attached, late, seen, rules, m_Mutex, m_NoHibernation, misled, mounts, edits, wanted>>

LEMMA UpdateEffect ==
    ASSUME Shape, NEW c \in Clients, Update(c)
    PROVE  \E l \in SUBSET Devices : \E S \in {Writable(DirtyIn(l)), {}} : Updated(c, l, S)
<1> DEFINE l == op[c].list
<1>1. op[c] \in Updating /\ op[c].pc = "update"
  BY RequestKind DEF Update, Shape
<1>2. l \in SUBSET Devices
  BY <1>1 DEF Updating
<1>3. PICK S \in {Writable(DirtyIn(l)), {}} :
        /\ IF S = Writable(DirtyIn(l)) THEN UNCHANGED faults ELSE Fails
        /\ disk' = SavedDisk(S)
        /\ lost' = lost \cup Overwritten(S) \cup Unsaved(GoneFrom(l))
                     \cup {attached[d] : d \in {e \in FoundIn(l) : EnteredAt(attached[e], Devices \ GoneFrom(l))}}
        /\ m_Volumes' = EntriesAfter(l, S)
  BY DEF Update, DirtyIn, GoneFrom, FoundIn, EntriesAfter
<1>4. faults' \in Nat
  BY <1>3 DEF Fails, Shape
<1>5. /\ m_VolumesByGuid' = [i \in Images |->
           IF \E d \in GoneFrom(l) : m_Volumes[d].img = i THEN 0
           ELSE IF \E d \in FoundIn(l) : attached[d] = i THEN CHOOSE d \in FoundIn(l) : attached[d] = i
           ELSE m_VolumesByGuid[i]]
      /\ Call({}, UNION {InMapFor(d) : d \in GoneFrom(l)})
      /\ leaked' = leaked \cup UNION {Escaped(d) : d \in GoneFrom(l)}
      /\ displaced' = displaced \cup {i \in Images : m_VolumesByGuid[i] # 0 /\ \E d \in FoundIn(l) : attached[d] = i}
      /\ op' = [op EXCEPT ![c] = Idle]
      /\ UNCHANGED <<attached, late, seen, rules, m_Mutex, m_NoHibernation, misled, mounts, edits, wanted>>
  BY DEF Update, GoneFrom, FoundIn, guardVars
<1>6. Updated(c, l, S)
  BY <1>1, <1>3, <1>4, <1>5 DEF Updated
<1> QED BY <1>2, <1>6

LEMMA FoundShape ==
    ASSUME NEW i \in Images
    PROVE  Found(i) \in Volume
BY DEF Found, Volume

LEMMA UpdateShape ==
    ASSUME Shape, NEW c \in Clients, Update(c)
    PROVE  Shape'
<1>1. PICK l \in SUBSET Devices : \E S \in {Writable(DirtyIn(l)), {}} : Updated(c, l, S)
  BY UpdateEffect
<1>2. PICK S \in {Writable(DirtyIn(l)), {}} : Updated(c, l, S)
  BY <1>1
<1>3. /\ DirtyIn(l) \subseteq Devices /\ \A d \in DirtyIn(l) : Mounted(d)
      /\ FoundIn(l) \subseteq Devices /\ \A d \in FoundIn(l) : attached[d] \in Images
      /\ GoneFrom(l) \subseteq Devices
  BY DEF DirtyIn, FoundIn, GoneFrom, Shape
<1>4. lost' \subseteq Images
  <2>1. Overwritten(S) \subseteq Images
    BY <1>3, WritableDevices, OverwrittenShape
  <2>2. Unsaved(GoneFrom(l)) \subseteq Images
    BY <1>3, UnsavedShape
  <2>3. {attached[d] : d \in {e \in FoundIn(l) : EnteredAt(attached[e], Devices \ GoneFrom(l))}} \subseteq Images
    BY <1>3
  <2>4. lost \subseteq Images
    BY DEF Shape
  <2> QED BY <1>2, <2>1, <2>2, <2>3, <2>4 DEF Updated
<1>5. disk' \in [Images -> SUBSET Rules]
  BY <1>2, SavedShape DEF Updated
<1>6. m_Volumes' \in [Devices -> Volume \cup {NoVolume}]
  <2>1. \A d \in FoundIn(l) : Found(attached[d]) \in Volume
    BY <1>3, FoundShape
  <2>2. \A d \in Devices : Mounted(d) => [m_Volumes[d] EXCEPT !.dirty = StillDirty(d, S)] \in Volume
    <3> SUFFICES ASSUME NEW d \in Devices, Mounted(d)
                 PROVE  [m_Volumes[d] EXCEPT !.dirty = StillDirty(d, S)] \in Volume
      OBVIOUS
    <3>1. m_Volumes[d] \in Volume
      BY EntryIsVolume
    <3>2. StillDirty(d, S) \in BOOLEAN
      BY DEF StillDirty
    <3> QED BY <3>1, <3>2 DEF Volume
  <2> QED BY <1>2, <2>1, <2>2 DEF EntriesAfter, Updated
<1>7. m_VolumesByGuid' \in [Images -> 0 .. MaxDevice]
  BY <1>2, <1>3, DevicesFinite DEF Shape, Updated
<1>8. driver' \subseteq Rule /\ IsFiniteSet(driver') /\ port' \in Seq(Msg)
  BY <1>2, RemovalShape DEF Updated
<1>9. leaked' \subseteq Rule /\ displaced' \subseteq Images
  BY <1>2 DEF Shape, Escaped, OnDevice, Updated
<1>10. op' \in [Clients -> Request]
  BY <1>2, IdleIsRequest DEF Shape, Updated
<1>11. faults' \in Nat /\ UNCHANGED <<attached, late, seen, rules, m_Mutex, m_NoHibernation, mounts, edits, wanted>>
  BY <1>2 DEF Updated
<1> QED BY <1>11, <1>4, <1>5, <1>6, <1>7, <1>8, <1>9, <1>10 DEF Shape

LEMMA SetVolumeShape ==
    ASSUME Shape, NEW c \in Clients, NEW i \in Images, SetVolume(c, i)
    PROVE  Shape'
<1> DEFINE d == m_VolumesByGuid[i]
<1>1. d \in Devices /\ Mounted(d)
  <2>1. d \in 0 .. MaxDevice /\ d # 0 /\ m_Volumes[d].img = i
    BY DEF SetVolume, Shape
  <2> HIDE DEF d
  <2>2. d \in Devices
    BY <2>1, DevicesFinite
  <2> QED BY <2>1, <2>2, EntryIsVolume
<1>2. PICK S \in {Writable({d}), {}} :
        /\ IF S = Writable({d}) THEN UNCHANGED faults ELSE Fails
        /\ Saving(S, {d})
  BY DEF SetVolume
<1>3. UNCHANGED <<attached, late, driver, port, seen, rules, m_VolumesByGuid, m_Mutex, m_NoHibernation, op,
                  mounts, wanted, leaked, displaced>>
  BY DEF SetVolume, ruleVars, guardVars
<1>4. edits' \in Nat
  BY DEF SetVolume, Shape
<1> HIDE DEF d
<1>5. disk' \in [Images -> SUBSET Rules] /\ lost' \subseteq Images
      /\ m_Volumes' \in [Devices -> Volume \cup {NoVolume}]
  <2>1. {d} \subseteq Devices /\ \A e \in {d} : Mounted(e)
    BY <1>1
  <2> QED BY <1>2, <2>1, WritableDevices, SavingShape
<1>6. faults' \in Nat
  BY <1>2 DEF Fails, Shape
<1> QED BY <1>3, <1>4, <1>5, <1>6 DEF Shape

LEMMA SetDisplacedShape ==
    ASSUME Shape, NEW c \in Clients, NEW i \in Images, SetDisplaced(c, i)
    PROVE  Shape'
<1> DEFINE d == m_VolumesByGuid[i]
<1>1. d \in Devices /\ attached[d] \in Images
  <2>1. d \in 0 .. MaxDevice /\ d # 0 /\ attached[d] # None
    BY DEF SetDisplaced, Shape
  <2> HIDE DEF d
  <2>2. d \in Devices
    BY <2>1, DevicesFinite
  <2> QED BY <2>1, <2>2 DEF Shape
<1>2. /\ disk' = SavedDisk({d}) /\ lost' = lost \cup {attached[d]} /\ edits' = edits + 1
      /\ UNCHANGED <<attached, late, driver, port, seen, rules, m_Volumes, m_VolumesByGuid, m_Mutex, m_NoHibernation, op,
                     mounts, faults, wanted, leaked, displaced>>
  BY DEF SetDisplaced, ruleVars, mapVars, guardVars
<1> HIDE DEF d
<1>3. disk' \in [Images -> SUBSET Rules]
  BY <1>2, SavedShape
<1>4. lost' \subseteq Images /\ edits' \in Nat
  BY <1>1, <1>2 DEF Shape
<1> QED BY <1>2, <1>3, <1>4 DEF Shape

\* The user's edits: a rule and a notification of another than the agent.
LEMMA EditShape ==
    ASSUME Shape, NEW o \in {"add", "del"}, NEW x \in Rule, NEW i \in Images, Edit(o, x, i)
    PROVE  /\ driver' \subseteq Rule /\ IsFiniteSet(driver') /\ port' \in Seq(Msg) /\ edits' \in Nat
           /\ driver' = IF o = "add" THEN driver \cup {x} ELSE driver \ {x}
           /\ \E n \in Nat : port' = Append(port, [op |-> o, rule |-> x, own |-> FALSE, img |-> i, n |-> n])
           /\ UNCHANGED <<attached, late, disk, seen, rules, m_Volumes, m_VolumesByGuid, m_Mutex, m_NoHibernation, op,
                          mounts, faults, lost, leaked, displaced>>
<1>1. /\ driver' = IF o = "add" THEN driver \cup {x} ELSE driver \ {x}
      /\ port' = Append(port, [op |-> o, rule |-> x, own |-> FALSE, img |-> i, n |-> MaxMounts + edits + 1])
      /\ edits' = edits + 1
      /\ UNCHANGED <<attached, late, disk, seen, rules, m_Volumes, m_VolumesByGuid, m_Mutex, m_NoHibernation, op,
                     mounts, faults, lost, leaked, displaced>>
  BY DEF Edit, mapVars, guardVars
<1>2. driver' \subseteq Rule /\ IsFiniteSet(driver')
  <2>1. IsFiniteSet(driver \cup {x}) /\ IsFiniteSet(driver \ {x})
    BY FS_Singleton, FS_Union, FS_Difference DEF Shape
  <2> QED BY <1>1, <2>1 DEF Shape
<1>3. MaxMounts + edits + 1 \in Nat /\ edits' \in Nat
  BY <1>1, VolumesAssumption DEF Shape
<1>4. [op |-> o, rule |-> x, own |-> FALSE, img |-> i, n |-> MaxMounts + edits + 1] \in Msg
  BY <1>3 DEF Msg, UserMsg
<1>5. port' \in Seq(Msg)
  BY <1>1, <1>4 DEF Shape
<1> QED BY <1>1, <1>2, <1>3, <1>5

LEMMA EditVolumeRuleEffect ==
    ASSUME Shape, NEW d \in Devices, NEW r \in Rules, EditVolumeRule(d, r)
    PROVE  /\ Mounted(d) /\ m_Volumes[d].prot /\ attached[d] = m_Volumes[d].img /\ attached[d] \in Images
           /\ \E o \in {"add", "del"} :
                /\ Edit(o, VolumeRule(r, d), m_Volumes[d].img)
                /\ wanted' = [wanted EXCEPT ![m_Volumes[d].img] = IF o = "add" THEN @ \cup {r} ELSE @ \ {r}]
BY EntryIsVolume DEF EditVolumeRule

LEMMA VolumeRuleIsRule ==
    ASSUME NEW r \in Rules, NEW d \in Devices
    PROVE  VolumeRule(r, d) \in Rule
BY DEF VolumeRule, Rule

LEMMA EditVolumeRuleShape ==
    ASSUME Shape, NEW d \in Devices, NEW r \in Rules, EditVolumeRule(d, r)
    PROVE  Shape'
<1>1. m_Volumes[d].img \in Images
  BY EditVolumeRuleEffect
<1>2. PICK o \in {"add", "del"} :
        /\ Edit(o, VolumeRule(r, d), m_Volumes[d].img)
        /\ wanted' = [wanted EXCEPT ![m_Volumes[d].img] = IF o = "add" THEN @ \cup {r} ELSE @ \ {r}]
  BY EditVolumeRuleEffect
<1>3. /\ driver' \subseteq Rule /\ IsFiniteSet(driver') /\ port' \in Seq(Msg) /\ edits' \in Nat
      /\ UNCHANGED <<attached, late, disk, seen, rules, m_Volumes, m_VolumesByGuid, m_Mutex, m_NoHibernation, op,
                     mounts, faults, lost, leaked, displaced>>
  BY <1>1, <1>2, VolumeRuleIsRule, EditShape
<1>4. wanted' \in [Images -> SUBSET Rules]
  BY <1>1, <1>2 DEF Shape
<1> QED BY <1>3, <1>4 DEF Shape

LEMMA HostRuleIsRule ==
    ASSUME NEW i \in Images
    PROVE  HostRule(i) \in Rule
BY DEF HostRule, Rule

LEMMA EditHostRuleShape ==
    ASSUME Shape, NEW i \in Images, EditHostRule(i)
    PROVE  Shape'
<1>1. PICK o \in {"add", "del"} : Edit(o, HostRule(i), i)
  BY DEF EditHostRule
<1>2. /\ driver' \subseteq Rule /\ IsFiniteSet(driver') /\ port' \in Seq(Msg) /\ edits' \in Nat
      /\ UNCHANGED <<attached, late, disk, seen, rules, m_Volumes, m_VolumesByGuid, m_Mutex, m_NoHibernation, op,
                     mounts, faults, lost, leaked, displaced>>
  BY <1>1, HostRuleIsRule, EditShape
<1>3. UNCHANGED wanted
  BY DEF EditHostRule
<1> QED BY <1>2, <1>3 DEF Shape

LEMMA PortHead ==
    ASSUME Shape, port # <<>>
    PROVE  /\ Head(port) \in Msg /\ Head(port).rule \in Rule
           /\ ~Head(port).own => Head(port) \in UserMsg /\ Head(port).img \in Images /\ Head(port).n \in Nat
           /\ Tail(port) \in Seq(Msg)
<1>1. Head(port) \in Msg /\ Tail(port) \in Seq(Msg)
  BY DEF Shape
<1>2. Head(port).rule \in Rule
  BY <1>1 DEF Msg, OwnMsg, UserMsg
<1>3. ~Head(port).own => Head(port) \in UserMsg
  BY <1>1 DEF Msg, OwnMsg
<1> QED BY <1>1, <1>2, <1>3 DEF UserMsg

LEMMA OwnRuleChangedShape ==
    ASSUME Shape, OwnRuleChanged
    PROVE  Shape'
<1>1. Head(port).rule \in Rule /\ Tail(port) \in Seq(Msg)
  BY PortHead DEF OwnRuleChanged
<1>2. rules' \subseteq Rule
  BY <1>1 DEF OwnRuleChanged, Shape
<1> QED BY <1>1, <1>2 DEF OwnRuleChanged, Shape, mapVars, guardVars, countVars, histVars

\* UpdateAccessRule: the volume it marks, the copies it makes.
HitBy(m)    == /\ IF m.op = "add" THEN m.rule \in driver ELSE m.rule \in rules
               /\ m.rule.t = "volume" /\ Mounted(m.rule.dev) /\ m_Volumes[m.rule.dev].prot
ClonesOf(m) == IF m.rule.t = "host" /\ There(m)
               THEN {CloneRule(m.n, d) : d \in {e \in Devices : Mounted(e) /\ m_Volumes[e].img = m.rule.id /\ ~m_Volumes[e].lock}}
               ELSE {}

LEMMA UpdateAccessRuleEffect ==
    ASSUME UpdateAccessRule, NEW m, m = Head(port)
    PROVE  /\ port # <<>> /\ ~m.own
           /\ seen' = [rule |-> m.rule, there |-> There(m)]
           /\ m_Volumes' = IF HitBy(m) THEN [m_Volumes EXCEPT ![m.rule.dev].dirty = TRUE] ELSE m_Volumes
           /\ lost' = IF m.rule.t = "volume" /\ ~(HitBy(m) /\ m_Volumes[m.rule.dev].img = m.img)
                      THEN lost \cup {m.img} ELSE lost
           /\ driver' = driver \cup ClonesOf(m)
           /\ leaked' = leaked \cup {y \in ClonesOf(m) : attached[y.dev] = None}
           /\ port' = Tail(port) \o Own("add", ClonesOf(m))
           /\ UNCHANGED <<attached, late, disk, rules, m_VolumesByGuid, m_Mutex, m_NoHibernation, misled, op,
                          mounts, edits, faults, wanted, displaced>>
<1>1. CASE m.op = "add"
  BY <1>1 DEF UpdateAccessRule, HitBy, ClonesOf, countVars, guardVars, mapVars
<1>2. CASE m.op # "add"
  BY <1>2 DEF UpdateAccessRule, HitBy, ClonesOf, countVars, guardVars, mapVars
<1> QED BY <1>1, <1>2

LEMMA ClonesShape ==
    ASSUME NEW m, m.n \in Nat
    PROVE  /\ ClonesOf(m) \subseteq Rule /\ IsFiniteSet(ClonesOf(m))
           /\ \A x \in ClonesOf(m) : x.t = "clone" /\ x.dev \in Devices /\ Mounted(x.dev)
<1> DEFINE D == {e \in Devices : Mounted(e) /\ m_Volumes[e].img = m.rule.id /\ ~m_Volumes[e].lock}
<1> DEFINE T == {CloneRule(m.n, d) : d \in D}
<1> DEFINE f == [d \in D |-> CloneRule(m.n, d)]
<1>1. IsFiniteSet(D)
  BY DevicesFinite, FS_Subset
<1>2. f \in Surjection(D, T)
  BY DEF Surjection
<1>3. IsFiniteSet(T)
  BY <1>1, <1>2, FS_Surjection
<1>4. \A d \in D : /\ CloneRule(m.n, d) \in Rule
                   /\ CloneRule(m.n, d).t = "clone" /\ CloneRule(m.n, d).dev = d /\ d \in Devices /\ Mounted(d)
  BY DEF CloneRule, Rule
<1>5. ClonesOf(m) \in {T, {}}
  BY DEF ClonesOf
<1>6. \A x \in T : x \in Rule /\ x.t = "clone" /\ x.dev \in Devices /\ Mounted(x.dev)
  BY <1>4
<1> HIDE DEF T
<1> QED BY <1>3, <1>5, <1>6, FS_EmptySet

LEMMA UpdateAccessRuleShape ==
    ASSUME Shape, UpdateAccessRule
    PROVE  Shape'
<1> DEFINE m == Head(port)
<1>0. m = Head(port)
  OBVIOUS
<1> HIDE DEF m
<1>1. /\ port # <<>> /\ ~m.own
      /\ seen' = [rule |-> m.rule, there |-> There(m)]
      /\ m_Volumes' = IF HitBy(m) THEN [m_Volumes EXCEPT ![m.rule.dev].dirty = TRUE] ELSE m_Volumes
      /\ lost' = IF m.rule.t = "volume" /\ ~(HitBy(m) /\ m_Volumes[m.rule.dev].img = m.img)
                 THEN lost \cup {m.img} ELSE lost
      /\ driver' = driver \cup ClonesOf(m)
      /\ leaked' = leaked \cup {y \in ClonesOf(m) : attached[y.dev] = None}
      /\ port' = Tail(port) \o Own("add", ClonesOf(m))
      /\ UNCHANGED <<attached, late, disk, rules, m_VolumesByGuid, m_Mutex, m_NoHibernation, op,
                     mounts, edits, faults, wanted, displaced>>
  BY <1>0, UpdateAccessRuleEffect
<1>2. m.rule \in Rule /\ m.img \in Images /\ m.n \in Nat /\ Tail(port) \in Seq(Msg)
  BY <1>0, <1>1, PortHead
<1>3. ClonesOf(m) \subseteq Rule /\ IsFiniteSet(ClonesOf(m))
  BY <1>2, ClonesShape
<1>4. port' \in Seq(Msg)
  BY <1>1, <1>2, <1>3, OwnIsSeq, OwnsTogether
<1>5. driver' \subseteq Rule /\ IsFiniteSet(driver')
  BY <1>1, <1>3, FS_Union DEF Shape
<1>6. m_Volumes' \in [Devices -> Volume \cup {NoVolume}]
  <2>1. CASE HitBy(m)
    <3>1. m.rule.dev \in Devices
      BY <1>2, <2>1 DEF HitBy, Rule
    <3>2. m_Volumes[m.rule.dev] \in Volume
      BY <2>1, <3>1, EntryIsVolume DEF HitBy
    <3>3. [m_Volumes[m.rule.dev] EXCEPT !.dirty = TRUE] \in Volume
      BY <3>2 DEF Volume
    <3>4. m_Volumes' = [m_Volumes EXCEPT ![m.rule.dev] = [m_Volumes[m.rule.dev] EXCEPT !.dirty = TRUE]]
      BY <1>1, <2>1, <3>1 DEF Shape
    <3> QED BY <3>3, <3>4 DEF Shape
  <2> QED BY <1>1, <2>1 DEF Shape
<1>7. seen' \in [rule : Rule, there : BOOLEAN]
  BY <1>1, <1>2 DEF There
<1>8. lost' \subseteq Images /\ leaked' \subseteq Rule
  BY <1>1, <1>2, <1>3 DEF Shape
<1> QED BY <1>1, <1>4, <1>5, <1>6, <1>7, <1>8 DEF Shape

LEMMA UpdateRuleShape ==
    ASSUME Shape, UpdateRule
    PROVE  Shape'
<1>1. rules' \subseteq Rule
  BY DEF UpdateRule, Shape, NoRule
<1> QED BY <1>1 DEF UpdateRule, Shape, mapVars, guardVars, countVars, histVars

LEMMA HelperDiesShape ==
    ASSUME Shape, HelperDies
    PROVE  Shape'
<1>1. PICK d \in Devices : attached' = [attached EXCEPT ![d] = None] /\ leaked' = leaked \cup Abandoned(d, attached')
  BY DEF HelperDies
<1>2. attached' \in [Devices -> Images \cup {None}] /\ leaked' \subseteq Rule
  BY <1>1 DEF Shape, Abandoned, OnDevice
<1>3. faults' \in Nat
  BY DEF HelperDies, Fails, Shape
<1> QED BY <1>2, <1>3 DEF HelperDies, Shape, ruleVars, mapVars, guardVars

LEMMA RestartAgentShape ==
    ASSUME Shape, RestartAgent
    PROVE  Shape'
<1>1. late' \subseteq Images \X Devices
  <2> SUFFICES ASSUME NEW c \in Clients, op[c].pc = "attach"
               PROVE  op[c].img \in Images /\ op[c].dev \in Devices
    BY DEF RestartAgent, Shape
  <2>1. op[c] \in Mounting
    BY RequestKind DEF Shape
  <2> QED BY <2>1 DEF Mounting
<1>2. m_Volumes' \in [Devices -> Volume \cup {NoVolume}]
  <2>1. \A d \in Devices : attached[d] # None => Found(attached[d]) \in Volume
    BY FoundShape DEF Shape
  <2> QED BY <2>1 DEF RestartAgent
<1>3. m_VolumesByGuid' \in [Images -> 0 .. MaxDevice]
  BY DevicesFinite DEF RestartAgent
<1>4. op' \in [Clients -> Request]
  BY IdleIsRequest DEF RestartAgent
<1>5. lost' \subseteq Images
  BY UnsavedShape, UnderwayShape DEF RestartAgent, Shape
<1>6. leaked' \subseteq Rule /\ faults' \in Nat /\ port' \in Seq(Msg) /\ displaced' \subseteq Images
  BY DEF RestartAgent, Shape, Fails
<1> QED BY <1>1, <1>2, <1>3, <1>4, <1>5, <1>6 DEF RestartAgent, Shape

LEMMA ShapeInit == Init => Shape
<1> SUFFICES ASSUME Init PROVE Shape
  OBVIOUS
<1>1. driver \subseteq Rule /\ IsFiniteSet(driver)
  <2> DEFINE f == [i \in Hosted |-> HostRule(i)]
  <2> DEFINE T == {HostRule(i) : i \in Hosted}
  <2>1. IsFiniteSet(Hosted) /\ Hosted \subseteq Images
    BY VolumesAssumption, FS_Subset
  <2>2. f \in Surjection(Hosted, T)
    BY DEF Surjection
  <2>3. IsFiniteSet(T)
    BY <2>1, <2>2, FS_Surjection
  <2>4. T \subseteq Rule
    BY <2>1, HostRuleIsRule
  <2> QED BY <2>3, <2>4 DEF Init
<1>2. disk \in [Images -> SUBSET Rules]
  BY DEF Init
<1>3. op \in [Clients -> Request]
  BY IdleIsRequest DEF Init
<1>4. m_VolumesByGuid \in [Images -> 0 .. MaxDevice]
  BY DevicesFinite DEF Init
<1>5. /\ attached \in [Devices -> Images \cup {None}] /\ late \subseteq Images \X Devices
      /\ m_Volumes \in [Devices -> Volume \cup {NoVolume}]
      /\ port \in Seq(Msg) /\ seen = NoRule
  BY DEF Init
<1>6. /\ m_Mutex \in Clients \cup {None} /\ m_NoHibernation \in BOOLEAN /\ wanted = disk /\ rules = driver
      /\ leaked \subseteq Rule /\ lost \subseteq Images /\ displaced \subseteq Images
      /\ mounts \in Nat /\ edits \in Nat /\ faults \in Nat
  BY DEF Init
<1> QED BY <1>1, <1>2, <1>3, <1>4, <1>5, <1>6 DEF Shape

LEMMA ClientShape ==
    ASSUME Shape, NEW c \in Clients, ClientNext(c)
    PROVE  Shape'
BY MountImageShape, SetUpProtectionShape, AttachShape, EnterShape, JunctionFailsShape, FinishMountShape,
   MountScriptFailsShape, AttachFailsShape, CreateImageShape, SetVolumeShape, SetDisplacedShape, DetachCreatedShape,
   DismountVolumeShape, DismountAllShape, NextOfAllShape, AllDoneShape, UnmountShape, UnmountFailsShape,
   CleanUpVolumeShape, EraseShape, ReleaseGuardShape, TakeDeviceListShape, UpdateShape DEF ClientNext

\* The setting changes and nothing else does.
LEMMA SetConfigEffect ==
    ASSUME Shape, SetConfig
    PROVE  /\ UNCHANGED <<attached, late, disk, ruleVars, m_Volumes, m_VolumesByGuid, m_Mutex, m_NoHibernation,
                          prevented, misled, Promised, stale, op, mounts, faults, histVars>>
           /\ GuardHibernation' \in BOOLEAN /\ edits' \in Nat
BY DEF SetConfig, Shape, Promised

LEMMA SetConfigShape ==
    ASSUME Shape, SetConfig
    PROVE  Shape'
BY SetConfigEffect DEF Shape, ruleVars, histVars

LEMMA ShapeStep == Shape /\ [Next]_vars => Shape'
<1> SUFFICES ASSUME Shape, [Next]_vars PROVE Shape'
  OBVIOUS
<1>1. \A i \in Hosted : EditHostRule(i) => Shape'
  BY EditHostRuleShape, VolumesAssumption
<1> QED BY <1>1, ClientShape, ShapeUnchanged, EditVolumeRuleShape, OwnRuleChangedShape, UpdateAccessRuleShape,
           UpdateRuleShape, LateAttachShape, HelperDiesShape, RestartAgentShape, SetConfigShape DEF Next

-----------------------------------------------------------------------------
(* The guard against hibernation, for any number of clients *)

LEMMA OrphansShape ==
    ASSUME Shape, NEW D, D \subseteq Devices
    PROVE  Orphans(D) \subseteq Nat
<1> SUFFICES ASSUME NEW d \in D, Mounted(d) PROVE m_Volumes[d].num \in Nat
  BY DEF Orphans
<1>1. m_Volumes[d] \in Volume
  BY EntryIsVolume
<1> QED BY <1>1 DEF Volume

LEMMA GuardStays ==
    ASSUME GuardInv, UNCHANGED guardVars, stale' \subseteq Nat
    PROVE  GuardInv'
BY DEF GuardInv, Promised, guardVars

\* What the agent counts on after it has asked, the driver has granted.
LEMMA GuardAsked ==
    ASSUME Shape, GuardInv, NEW granted \in BOOLEAN, Guard(granted), UNCHANGED <<GuardHibernation, misled>>,
           stale' \subseteq Nat
    PROVE  GuardInv'
<1>1. Promised' => prevented'
  BY DEF Guard, GuardInv, Promised, Shape
<1>2. prevented' \in BOOLEAN
  BY DEF Guard, GuardInv, Shape
<1> QED BY <1>1, <1>2 DEF GuardInv

\* The answer 0 leaves the agent misled at most.
LEMMA GuardReleased ==
    ASSUME Shape, GuardInv, ReleaseHibernationPrevention, UNCHANGED <<GuardHibernation, stale>>
    PROVE  GuardInv'
<1>1. Promised' => prevented'
  BY DEF ReleaseHibernationPrevention, GuardInv, Promised, Shape
<1>2. prevented' \in BOOLEAN /\ misled' \in BOOLEAN
  BY DEF ReleaseHibernationPrevention, GuardInv, Shape
<1> QED BY <1>1, <1>2 DEF GuardInv

LEMMA ClientGuard ==
    ASSUME Shape, GuardInv, NEW c \in Clients, ClientNext(c)
    PROVE  GuardInv'
<1>1. stale \subseteq Nat
  BY DEF GuardInv
<1>2. ASSUME NEW t \in BOOLEAN, AttachFails(c, t) PROVE GuardInv'
  BY <1>1, <1>2, GuardStays DEF AttachFails, mapVars
<1>3. ASSUME NEW i \in Images, CreateImage(c, i) PROVE GuardInv'
  BY <1>1, <1>3, GuardStays DEF CreateImage, mapVars
<1>4. ASSUME NEW d \in Devices, DismountVolume(c, d) PROVE GuardInv'
  BY <1>1, <1>4, GuardStays DEF DismountVolume, mapVars
<1>5. ASSUME NEW i \in Images, SetVolume(c, i) PROVE GuardInv'
  BY <1>1, <1>5, GuardStays DEF SetVolume
<1>6. ASSUME NEW i \in Images, SetDisplaced(c, i) PROVE GuardInv'
  <2>1. stale' \subseteq Nat
    BY <1>1, <1>6 DEF SetDisplaced
  <2>2. UNCHANGED guardVars
    BY <1>6 DEF SetDisplaced
  <2> QED BY <2>1, <2>2, GuardStays
<1>7. ASSUME NEW i \in Images, NEW p \in BOOLEAN, NEW k \in BOOLEAN, MountImage(c, i, p, k) PROVE GuardInv'
  BY <1>1, <1>7, GuardStays DEF MountImage, mapVars
<1>8. SetUpProtection(c) \/ Attach(c) \/ FinishMount(c) \/ MountScriptFails(c) \/ DetachCreated(c) => GuardInv'
  BY <1>1, GuardStays DEF SetUpProtection, Attach, FinishMount, MountScriptFails, DetachCreated, mapVars
<1>9. DismountAll(c) \/ NextOfAll(c) \/ CleanUpVolume(c) \/ TakeDeviceList(c) => GuardInv'
  BY <1>1, GuardStays DEF DismountAll, NextOfAll, CleanUpVolume, TakeDeviceList, mapVars
<1>10. ASSUME Unmount(c) \/ UnmountFails(c) PROVE GuardInv'
  <2>1. UNCHANGED guardVars
    BY <1>10 DEF Unmount, UnmountFails
  <2>2. stale' \subseteq stale
    BY <1>10 DEF Unmount, UnmountFails, SavingHeld
  <2> QED BY <1>1, <2>1, <2>2, GuardStays
<1>11. ASSUME Enter(c) PROVE GuardInv'
  <2>1. PICK ok, granted \in BOOLEAN : Guard(granted)
    BY <1>11, EnterEffect
  <2>2. op[c].dev \in Devices
    <3>1. op[c] \in Mounting
      BY <1>11, RequestKind DEF Enter, Shape
    <3> QED BY <3>1 DEF Mounting
  <2>3. UNCHANGED <<GuardHibernation, misled>> /\ stale' = stale \cup Orphans({op[c].dev})
    BY <1>11 DEF Enter
  <2>4. stale' \subseteq Nat
    BY <1>1, <2>2, <2>3, OrphansShape
  <2> QED BY <2>1, <2>3, <2>4, GuardAsked
<1>12. ASSUME JunctionFails(c) PROVE GuardInv'
  BY <1>1, <1>12, GuardAsked DEF JunctionFails
<1>13. ASSUME AllDone(c) PROVE GuardInv'
  <2>1. CASE ReleaseHibernationPrevention
    BY <1>13, <2>1, GuardReleased DEF AllDone
  <2>2. CASE UNCHANGED <<m_NoHibernation, prevented, misled>>
    BY <1>1, <1>13, <2>2, GuardStays DEF AllDone, guardVars
  <2> QED BY <1>13, <2>1, <2>2 DEF AllDone
<1>14. ASSUME ReleaseGuard(c) PROVE GuardInv'
  BY <1>14, GuardReleased DEF ReleaseGuard
<1>15. ASSUME Erase(c) PROVE GuardInv'
  <2>1. op[c].dev \in Devices
    <3>1. op[c] \in Dismounting
      BY <1>15, RequestKind DEF Erase, Shape
    <3> QED BY <3>1 DEF Dismounting
  <2>2. stale' \subseteq Nat
    BY <1>1, <1>15, <2>1, OrphansShape DEF Erase
  <2> QED BY <1>15, <2>2, GuardStays DEF Erase
<1>16. ASSUME Update(c) PROVE GuardInv'
  <2>1. PICK gone \in SUBSET Devices : stale' = stale \cup Orphans(gone)
    BY <1>16 DEF Update
  <2>2. stale' \subseteq Nat
    BY <1>1, <2>1, OrphansShape
  <2> QED BY <1>16, <2>2, GuardStays DEF Update
<1> QED BY <1>2, <1>3, <1>4, <1>5, <1>6, <1>7, <1>8, <1>9, <1>10, <1>11, <1>12, <1>13, <1>14, <1>15, <1>16
        DEF ClientNext

LEMMA GuardStep == Shape /\ GuardInv /\ [Next]_vars => GuardInv'
<1> SUFFICES ASSUME Shape, GuardInv, [Next]_vars PROVE GuardInv'
  OBVIOUS
<1>1. stale \subseteq Nat
  BY DEF GuardInv
<1>2. ASSUME NEW d \in Devices, NEW r \in Rules, EditVolumeRule(d, r) PROVE GuardInv'
  BY <1>1, <1>2, GuardStays DEF EditVolumeRule, Edit, mapVars
<1>3. ASSUME NEW i \in Hosted, EditHostRule(i) PROVE GuardInv'
  BY <1>1, <1>3, GuardStays DEF EditHostRule, Edit, mapVars
<1>4. OwnRuleChanged \/ UpdateAccessRule \/ UpdateRule \/ LateAttach \/ HelperDies \/ UNCHANGED vars => GuardInv'
  BY <1>1, GuardStays DEF OwnRuleChanged, UpdateAccessRule, UpdateRule, LateAttach, HelperDies, vars, mapVars
<1>5. SetConfig => GuardInv'
  BY SetConfigEffect DEF GuardInv
<1>6. ASSUME RestartAgent PROVE GuardInv'
  <2>1. ~Promised'
    BY <1>6 DEF RestartAgent, Promised
  <2>2. /\ stale' = {} /\ GuardHibernation' \in BOOLEAN /\ prevented' \in BOOLEAN /\ misled' \in BOOLEAN
    BY <1>6 DEF RestartAgent, GuardInv
  <2> QED BY <2>1, <2>2 DEF GuardInv
<1> QED BY <1>2, <1>3, <1>4, <1>5, <1>6, ClientGuard DEF Next

\* The agent never counts on a guard that the driver does not give, unless it
\* was misled by an answer of 0.
LEMMA GuardAlways == Spec => [](Shape /\ GuardInv)
<1>1. Init => Shape /\ GuardInv
  BY ShapeInit DEF Init, GuardInv, Promised
<1>2. Shape /\ GuardInv /\ [Next]_vars => (Shape /\ GuardInv)'
  BY ShapeStep, GuardStep
<1> QED BY <1>1, <1>2, PTL DEF Spec

\* For any number of clients, images, devices and rules, the devices, the
\* maps, the rules, the notifications and the requests keep their shape.
THEOREM TypeCorrect == Spec => []TypeOK
<1>1. Shape /\ GuardInv => TypeOK
  <2> SUFFICES ASSUME Shape, GuardInv PROVE TypeOK
    OBVIOUS
  <2>1. \A c \in Clients : op[c].pc \in {"idle", "protect", "attach", "enter", "script", "created",
                                         "unmount", "cleanup", "erase", "release", "all", "update"}
    <3> SUFFICES ASSUME NEW o \in Request
                 PROVE  o.pc \in {"idle", "protect", "attach", "enter", "script", "created",
                                  "unmount", "cleanup", "erase", "release", "all", "update"}
      BY DEF Shape
    <3> QED BY DEF Request, Mounting, Dismounting, Creating, Emptying, Updating, Waiting
  <2>2. \A k \in DOMAIN port : port[k] \in
          [op : {"add", "del"}, rule : Rule, own : BOOLEAN, img : Images \cup {None}, n : Nat]
    <3> SUFFICES ASSUME NEW m \in Msg
                 PROVE  m \in [op : {"add", "del"}, rule : Rule, own : BOOLEAN, img : Images \cup {None}, n : Nat]
      BY DEF Shape
    <3>1. CASE m \in OwnMsg
      <4>1. m = [op |-> m.op, rule |-> m.rule, own |-> m.own, img |-> m.img, n |-> m.n]
        BY <3>1 DEF OwnMsg
      <4>2. m.op \in {"add", "del"} /\ m.rule \in Rule /\ m.img \in Images \cup {None} /\ m.n = 0
        BY <3>1 DEF OwnMsg
      <4>3. m.own = TRUE
        BY <3>1, Zenon DEF OwnMsg
      <4>4. m.own \in BOOLEAN
        BY <4>3, Zenon
      <4>5. m.n \in Nat
        BY <4>2
      <4> QED BY <4>1, <4>2, <4>4, <4>5, Zenon
    <3>2. CASE m \in UserMsg
      BY <3>2 DEF UserMsg
    <3> QED BY <3>1, <3>2 DEF Msg
  <2> QED BY <2>1, <2>2 DEF Shape, GuardInv, TypeOK
<1> QED BY <1>1, GuardAlways, PTL

-----------------------------------------------------------------------------
(* The two maps and the guard, for requests one at a time *)

LEMMA VolumeIsEntry == \A v \in Volume : v # NoVolume
BY NoneIsNoImage DEF Volume, NoVolume

LEMMA DirtySet ==
    ASSUME NEW v \in Volume, NEW b \in BOOLEAN
    PROVE  LET w == [v EXCEPT !.dirty = b]
           IN  /\ w \in Volume /\ w # NoVolume
               /\ w.img = v.img /\ w.prot = v.prot /\ w.lock = v.lock /\ w.loaded = v.loaded /\ w.guarded = v.guarded
               /\ w.dirty = b
<1> DEFINE w == [v EXCEPT !.dirty = b]
<1>1. w \in Volume
  BY DEF Volume
<1>2. w.img = v.img /\ w.prot = v.prot /\ w.lock = v.lock /\ w.loaded = v.loaded /\ w.guarded = v.guarded /\ w.dirty = b
  BY DEF Volume
<1> QED BY <1>1, <1>2, VolumeIsEntry

\* A save, or a mark, changes nothing but whether entries are dirty.
OnlyDirty(D, S) == \A d \in Devices :
    /\ d \notin D => m_Volumes'[d] = m_Volumes[d]
    /\ d \in D => /\ m_Volumes'[d] # NoVolume
                  /\ m_Volumes'[d].img = m_Volumes[d].img /\ m_Volumes'[d].loaded = m_Volumes[d].loaded
                  /\ m_Volumes'[d].guarded = m_Volumes[d].guarded
                  /\ m_Volumes'[d].dirty = StillDirty(d, S)

LEMMA SavingEntries ==
    ASSUME Shape, NEW S, NEW D, D \subseteq Devices, \A d \in D : Mounted(d), Saving(S, D)
    PROVE  OnlyDirty(D, S)
<1>1. m_Volumes' = [d \in Devices |-> IF d \in D THEN [m_Volumes[d] EXCEPT !.dirty = StillDirty(d, S)]
                                      ELSE m_Volumes[d]]
  BY DEF Saving
<1> SUFFICES ASSUME NEW d \in Devices, d \in D
             PROVE  /\ m_Volumes'[d] # NoVolume
                    /\ m_Volumes'[d].img = m_Volumes[d].img /\ m_Volumes'[d].loaded = m_Volumes[d].loaded
                    /\ m_Volumes'[d].guarded = m_Volumes[d].guarded
                    /\ m_Volumes'[d].dirty = StillDirty(d, S)
  BY <1>1 DEF OnlyDirty
<1>2. m_Volumes[d] \in Volume /\ StillDirty(d, S) \in BOOLEAN
  BY EntryIsVolume DEF StillDirty
<1>3. m_Volumes'[d] = [m_Volumes[d] EXCEPT !.dirty = StillDirty(d, S)]
  BY <1>1
<1> DEFINE b == StillDirty(d, S)
<1> HIDE DEF b
<1>4. LET w == [m_Volumes[d] EXCEPT !.dirty = b]
      IN  /\ w # NoVolume
          /\ w.img = m_Volumes[d].img /\ w.loaded = m_Volumes[d].loaded /\ w.guarded = m_Volumes[d].guarded
          /\ w.dirty = b
  BY <1>2, DirtySet DEF b
<1> QED BY <1>3, <1>4 DEF b

\* What the two properties look at.
SameEntries ==
    /\ \A d \in Devices : /\ m_Volumes'[d] = NoVolume <=> m_Volumes[d] = NoVolume
                          /\ m_Volumes'[d].img = m_Volumes[d].img
                          /\ m_Volumes[d] # NoVolume => m_Volumes'[d].guarded = m_Volumes[d].guarded
    /\ m_VolumesByGuid' = m_VolumesByGuid

LEMMA OnlyDirtyIsSame ==
    ASSUME NEW D, NEW S, D \subseteq Devices, \A d \in D : Mounted(d), OnlyDirty(D, S), UNCHANGED m_VolumesByGuid
    PROVE  SameEntries
BY DEF OnlyDirty, SameEntries, Mounted

LEMMA SameKeepsMaps ==
    ASSUME Shape, MapsInStep, Covered, SameEntries, displaced' = displaced
    PROVE  MapsInStep' /\ (Promised' = Promised => Covered')
<1>1. \A d \in Devices : Mounted(d)' = Mounted(d)
  BY DEF SameEntries, Mounted
<1>2. \A i \in Images : m_VolumesByGuid[i] # 0 => m_VolumesByGuid[i] \in Devices
  BY DevicesFinite DEF Shape
<1>3. MapsInStep'
  BY <1>1, <1>2 DEF MapsInStep, SameEntries
<1>4. Promised' = Promised => Covered'
  BY <1>1 DEF Covered, SameEntries, Mounted
<1> QED BY <1>3, <1>4

\* What Undisturbed says of one request.
Relies(o) ==
    /\ o.pc \in {"protect", "attach", "enter"} => m_VolumesByGuid[o.img] = 0
    /\ o.pc = "script" => Mounted(o.dev) /\ m_Volumes[o.dev].img = o.img
    /\ o.pc \in {"unmount", "cleanup", "erase"} /\ o.via # "script" =>
         Mounted(o.dev) /\ m_Volumes[o.dev].img = o.img
    /\ o.pc \in {"unmount", "cleanup", "erase"} /\ o.via = "all" =>
         o.dev \notin o.todo /\ \A d \in o.todo : Mounted(d)
    /\ o.pc = "erase" => o.via # "script"
    /\ o.pc = "all" => \A d \in o.todo : Mounted(d)
    /\ o.pc = "release" => \A d \in Devices : ~Mounted(d)

LEMMA UndisturbedRelies == Undisturbed <=> \A c \in Clients : Relies(op[c])
BY DEF Undisturbed, Relies

\* Steps that leave the entries alone leave what requests rely on alone.
LEMMA SameKeepsRelies ==
    ASSUME SameEntries, NEW o \in Request
    PROVE  Relies(o)' <=> Relies(o)
<1>1. \A d \in Devices : Mounted(d)' = Mounted(d) /\ m_Volumes'[d].img = m_Volumes[d].img
  BY DEF SameEntries, Mounted
<1>2. m_VolumesByGuid' = m_VolumesByGuid
  BY DEF SameEntries
<1>3. /\ o.pc \in {"script", "unmount", "cleanup", "erase"} => o.dev \in Devices
      /\ o.pc \in {"unmount", "cleanup", "erase", "all"} => o.todo \subseteq Devices
  BY DEF Request, Mounting, Dismounting, Creating, Emptying, Updating, Waiting
<1> QED BY <1>1, <1>2, <1>3 DEF Relies

LEMMA SameKeepsUndisturbed ==
    ASSUME Shape, Undisturbed, SameEntries, op' = op
    PROVE  Undisturbed'
<1>1. \A c \in Clients : Relies(op[c]) /\ op[c] \in Request
  BY UndisturbedRelies DEF Shape
<1>2. \A c \in Clients : Relies(op[c])'
  <2> SUFFICES ASSUME NEW c \in Clients PROVE Relies(op[c])'
    OBVIOUS
  <2>1. op[c]' = op[c]
    OBVIOUS
  <2>2. PICK o \in Request : o = op[c]
    BY <1>1
  <2>3. Relies(o)'
    BY <1>1, <2>2, SameKeepsRelies
  <2>4. Relies(op[c])' <=> Relies(o)'
    BY <2>1, <2>2 DEF Relies
  <2> QED BY <2>3, <2>4
<1> QED BY <1>2 DEF Undisturbed, Relies

LEMMA QuietMoves ==
    ASSUME Shape, MapInv, OneClient, NEW c \in Clients, NEW q \in Request, op'[c] = q, Relies(q),
           SameEntries, displaced' = displaced, Promised => Promised',
           Promised \in BOOLEAN, Promised' \in BOOLEAN
    PROVE  MapInv'
<1>1. Relies(q)'
  BY SameKeepsRelies
<1>2. Relies(op[c])'
  BY <1>1 DEF Relies
<1>3. \A b \in Clients : Relies(op[b])'
  BY <1>2 DEF OneClient
<1>4. Undisturbed'
  BY <1>3 DEF Undisturbed, Relies
<1>5. MapsInStep'
  BY SameKeepsMaps DEF MapInv
<1>6. Covered'
  <2>1. \A d \in Devices : Mounted(d)' = Mounted(d) /\ (Mounted(d) => m_Volumes'[d].guarded = m_Volumes[d].guarded)
    BY DEF SameEntries, Mounted
  <2> QED BY <2>1 DEF Covered, MapInv
<1> QED BY <1>4, <1>5, <1>6 DEF MapInv

LEMMA QuietStays ==
    ASSUME Shape, MapInv, SameEntries, UNCHANGED <<op, displaced, Promised>>
    PROVE  MapInv'
BY SameKeepsUndisturbed, SameKeepsMaps DEF MapInv

LEMMA UnchangedIsSame ==
    ASSUME UNCHANGED <<m_Volumes, m_VolumesByGuid>>
    PROVE  SameEntries
BY DEF SameEntries

LEMMA MountImageMaps ==
    ASSUME Shape, MapInv, OneClient, NEW c \in Clients, NEW i \in Images, NEW p \in BOOLEAN, NEW l \in BOOLEAN,
           MountImage(c, i, p, l)
    PROVE  MapInv'
<1>0. Shape'
  BY MountImageShape
<1>1. /\ op' \in [Clients -> Request] /\ Promised' = Promised /\ Promised \in BOOLEAN
      /\ m_VolumesByGuid[i] = 0 /\ displaced' = displaced /\ UNCHANGED <<m_Volumes, m_VolumesByGuid>>
  BY <1>0 DEF Shape, MountImage, mapVars, guardVars, histVars, Promised
<1>2. op'[c].pc = "protect" /\ op'[c].img = i
  BY DEF MountImage, Shape
<1>3. PICK q \in Request : q = op'[c]
  BY <1>1
<1>4. Relies(q)
  BY <1>1, <1>2, <1>3 DEF Relies
<1> QED BY <1>1, <1>3, <1>4, QuietMoves, UnchangedIsSame

\* The mount goes on: it relies on the same as before, or on nothing.
LEMMA GoesOn ==
    ASSUME Shape, MapInv, OneClient, NEW c \in Clients, Shape',
           \/ op'[c].pc \in {"idle", "created", "update"}
           \/ op'[c].pc = "unmount" /\ op'[c].via = "script"
           \/ op[c].pc \in {"protect", "attach"} /\ op'[c].pc \in {"attach", "enter"} /\ op'[c].img = op[c].img
           \/ op[c].pc = "unmount" /\ op'[c] = [op[c] EXCEPT !.pc = "cleanup"]
           \/ op[c].pc = "cleanup" /\ op[c].via # "script" /\ op'[c] = [op[c] EXCEPT !.pc = "erase"],
           SameEntries, displaced' = displaced, Promised => Promised'
    PROVE  MapInv'
<1>1. op'[c] \in Request /\ op[c] \in Request /\ Relies(op[c])
      /\ Promised \in BOOLEAN /\ Promised' \in BOOLEAN
  BY UndisturbedRelies DEF Shape, MapInv, Promised
<1>2. PICK q \in Request : q = op'[c]
  BY <1>1
<1>3. Relies(q)
  <2>1. CASE q.pc \in {"idle", "created", "update"} \/ (q.pc = "unmount" /\ q.via = "script")
    BY <2>1 DEF Relies
  <2>2. CASE op[c].pc \in {"protect", "attach"} /\ q.pc \in {"attach", "enter"} /\ q.img = op[c].img
    BY <1>1, <2>2 DEF Relies
  <2>3. CASE \/ op[c].pc = "unmount" /\ q = [op[c] EXCEPT !.pc = "cleanup"]
             \/ op[c].pc = "cleanup" /\ op[c].via # "script" /\ q = [op[c] EXCEPT !.pc = "erase"]
    <3>1. op[c] \in Dismounting
      BY <1>1, <2>3, RequestKind
    <3>2. q.pc \in {"cleanup", "erase"} /\ q.dev = op[c].dev /\ q.img = op[c].img /\ q.via = op[c].via /\ q.todo = op[c].todo
      BY <2>3, <3>1 DEF Dismounting
    <3>3. op[c].pc \in {"unmount", "cleanup", "erase"}
      BY <2>3
    <3>4. q.pc = "erase" => op[c].via # "script"
      <4>1. CASE op[c].pc = "unmount" /\ q = [op[c] EXCEPT !.pc = "cleanup"]
        BY <3>1, <4>1 DEF Dismounting
      <4> QED BY <2>3, <4>1
    <3> QED BY <1>1, <3>2, <3>3, <3>4 DEF Relies
  <2> QED BY <1>2, <2>1, <2>2, <2>3
<1> QED BY <1>1, <1>2, <1>3, QuietMoves

LEMMA PreparesMaps ==
    ASSUME Shape, MapInv, OneClient, Shape', NEW c \in Clients, SetUpProtection(c) \/ Attach(c)
    PROVE  MapInv'
<1>1. /\ op[c].pc \in {"protect", "attach"} /\ op[c] \in Mounting
      /\ displaced' = displaced /\ Promised' = Promised /\ UNCHANGED <<m_Volumes, m_VolumesByGuid>>
  BY RequestKind DEF SetUpProtection, Attach, Shape, mapVars, guardVars, histVars, Promised
<1>2. op'[c].pc \in {"attach", "enter"} /\ op'[c].img = op[c].img
  BY <1>1 DEF SetUpProtection, Attach, Shape, Mounting
<1> QED BY <1>1, <1>2, GoesOn, UnchangedIsSame

LEMMA EndsMaps ==
    ASSUME Shape, MapInv, OneClient, Shape', NEW c \in Clients,
           \/ \E t \in BOOLEAN : AttachFails(c, t)
           \/ FinishMount(c) \/ DetachCreated(c) \/ TakeDeviceList(c) \/ \E i \in Images : CreateImage(c, i)
    PROVE  MapInv'
<1>1. displaced' = displaced /\ Promised' = Promised /\ UNCHANGED <<m_Volumes, m_VolumesByGuid>>
  BY DEF AttachFails, FinishMount, DetachCreated, TakeDeviceList, CreateImage, mapVars, guardVars, histVars, Promised
<1>2. op'[c].pc \in {"idle", "created", "update"}
  BY DEF AttachFails, FinishMount, DetachCreated, TakeDeviceList, CreateImage, Shape, Idle
<1> QED BY <1>1, <1>2, GoesOn, UnchangedIsSame

LEMMA ScriptMaps ==
    ASSUME Shape, MapInv, OneClient, Shape', NEW c \in Clients, JunctionFails(c) \/ MountScriptFails(c)
    PROVE  MapInv'
<1>1. displaced' = displaced /\ (Promised => Promised') /\ UNCHANGED <<m_Volumes, m_VolumesByGuid>>
  <2>1. CASE JunctionFails(c)
    <3>1. PICK granted \in BOOLEAN : Guard(granted)
      BY <2>1 DEF JunctionFails
    <3>2. m_NoHibernation => m_NoHibernation'
      BY <3>1, Zenon DEF Guard
    <3>3. UNCHANGED <<misled, displaced, m_Volumes, m_VolumesByGuid>>
      BY <2>1 DEF JunctionFails, histVars
    <3> QED BY <3>2, <3>3 DEF Promised
  <2>2. CASE MountScriptFails(c)
    BY <2>2 DEF MountScriptFails, mapVars, guardVars, histVars, Promised
  <2> QED BY <2>1, <2>2
<1>2. op'[c].pc = "unmount" /\ op'[c].via = "script"
  BY DEF JunctionFails, MountScriptFails, Shape, HoldVolume
<1> QED BY <1>1, <1>2, GoesOn, UnchangedIsSame

LEMMA DismountsMaps ==
    ASSUME Shape, MapInv, OneClient, Shape', NEW c \in Clients,
           DismountAll(c) \/ NextOfAll(c) \/ \E d \in Devices : DismountVolume(c, d)
    PROVE  MapInv'
<1>1. /\ displaced' = displaced /\ Promised' = Promised /\ UNCHANGED <<m_Volumes, m_VolumesByGuid>>
      /\ Promised \in BOOLEAN /\ op'[c] \in Request
  BY DEF DismountAll, NextOfAll, DismountVolume, Shape, mapVars, guardVars, histVars, Promised
<1>2. PICK q \in Request : q = op'[c]
  BY <1>1
<1>3. Relies(q)
  <2>1. CASE DismountAll(c)
    <3>1. q = [pc |-> "all", todo |-> {d \in Devices : Mounted(d)}]
      BY <1>2, <2>1 DEF DismountAll, Shape
    <3> QED BY <3>1 DEF Relies
  <2>2. CASE NextOfAll(c)
    <3>1. PICK d \in op[c].todo :
            op' = [op EXCEPT ![c] = HoldVolume("all", d, m_Volumes[d].img, m_Volumes[d].num,
                                         m_Volumes[d].lock, op[c].todo \ {d})]
      BY <2>2 DEF NextOfAll
    <3>2. q = HoldVolume("all", d, m_Volumes[d].img, m_Volumes[d].num,
                                         m_Volumes[d].lock, op[c].todo \ {d})
      BY <1>2, <3>1 DEF Shape
    <3>3. \A e \in op[c].todo : Mounted(e)
      BY <2>2 DEF NextOfAll, MapInv, Undisturbed
    <3> QED BY <3>2, <3>3 DEF Relies, HoldVolume
  <2>3. ASSUME NEW d \in Devices, DismountVolume(c, d) PROVE Relies(q)
    <3>1. q = HoldVolume("path", d, m_Volumes[d].img, m_Volumes[d].num, m_Volumes[d].lock, {}) /\ Mounted(d)
      BY <1>2, <2>3 DEF DismountVolume, Shape
    <3> QED BY <3>1 DEF Relies, HoldVolume
  <2> QED BY <2>1, <2>2, <2>3
<1> QED BY <1>1, <1>2, <1>3, QuietMoves, UnchangedIsSame

LEMMA AllDoneMaps ==
    ASSUME Shape, MapInv, OneClient, Shape', NEW c \in Clients, AllDone(c)
    PROVE  MapInv'
<1>1. /\ op'[c] = Idle /\ displaced' = displaced /\ UNCHANGED <<m_Volumes, m_VolumesByGuid>>
      /\ (\A d \in Devices : ~Mounted(d)) \/ UNCHANGED <<m_NoHibernation, misled>>
  BY DEF AllDone, Shape, histVars
<1>2. Undisturbed'
  BY <1>1 DEF Undisturbed, OneClient, Idle
<1>3. MapsInStep'
  BY <1>1, SameKeepsMaps, UnchangedIsSame DEF MapInv
<1>4. Covered'
  BY <1>1 DEF Covered, Promised, MapInv, Mounted
<1> QED BY <1>2, <1>3, <1>4 DEF MapInv

LEMMA ReleaseGuardMaps ==
    ASSUME Shape, MapInv, OneClient, Shape', NEW c \in Clients, ReleaseGuard(c)
    PROVE  MapInv'
<1>1. op'[c] = Idle /\ displaced' = displaced /\ UNCHANGED <<m_Volumes, m_VolumesByGuid>>
  BY DEF ReleaseGuard, Shape, histVars
<1>2. Undisturbed'
  BY <1>1 DEF Undisturbed, OneClient, Idle
<1>3. MapsInStep'
  BY <1>1, SameKeepsMaps, UnchangedIsSame DEF MapInv
<1>4. \A d \in Devices : ~Mounted(d)
  BY DEF ReleaseGuard, MapInv, Undisturbed
<1>5. Covered'
  BY <1>1, <1>4 DEF Covered, Mounted
<1> QED BY <1>2, <1>3, <1>5 DEF MapInv

LEMMA UnmountMaps ==
    ASSUME Shape, MapInv, OneClient, Shape', NEW c \in Clients, Unmount(c)
    PROVE  MapInv'
<1>1. op[c] \in Dismounting /\ op[c].pc = "unmount" /\ op[c].dev \in Devices
  <2>1. op[c] \in Dismounting
    BY RequestKind DEF Unmount, Shape
  <2> QED BY <2>1 DEF Unmount, Dismounting
<1>2. displaced' = displaced /\ Promised' = Promised /\ m_VolumesByGuid' = m_VolumesByGuid
  BY DEF Unmount, Promised, guardVars, mapVars
<1>3. PICK S : Saving(S, Cleaned(op[c]))
  BY DEF Unmount, SavingHeld, Cleaned
<1>4. SameEntries
  BY <1>1, <1>2, <1>3, ToSaveIsMounted, SavingEntries, OnlyDirtyIsSame
<1>5. op'[c] = [op[c] EXCEPT !.pc = "cleanup"]
  BY DEF Unmount, Shape
<1> QED BY <1>1, <1>2, <1>4, <1>5, GoesOn

LEMMA UnmountFailsMaps ==
    ASSUME Shape, MapInv, OneClient, Shape', NEW c \in Clients, UnmountFails(c)
    PROVE  MapInv'
<1>1. op[c] \in Dismounting /\ op[c].pc = "unmount" /\ op[c].dev \in Devices
  <2>1. op[c] \in Dismounting
    BY RequestKind DEF UnmountFails, Shape
  <2> QED BY <2>1 DEF UnmountFails, Dismounting
<1>2. displaced' = displaced /\ Promised' = Promised /\ m_VolumesByGuid' = m_VolumesByGuid
  BY DEF UnmountFails, Promised, guardVars, mapVars
<1>3. Saving(CanSave(op[c]), Cleaned(op[c]))
  BY DEF UnmountFails, SavingHeld, Cleaned
<1>4. SameEntries
  BY <1>1, <1>2, <1>3, ToSaveIsMounted, SavingEntries, OnlyDirtyIsSame
<1>5. op'[c] = Continue(op[c])
  BY DEF UnmountFails, Shape
<1>6. op'[c] \in Request /\ Promised \in BOOLEAN
  BY DEF Shape, Promised, guardVars, mapVars
<1>7. PICK q \in Request : q = op'[c]
  BY <1>6
<1>8. op[c].via = "all" => \A d \in op[c].todo : Mounted(d)
  BY <1>1 DEF MapInv, Undisturbed
<1>9. Relies(q)
  BY <1>5, <1>7, <1>8 DEF Relies, Continue, Idle
<1> QED BY <1>2, <1>4, <1>6, <1>7, <1>9, QuietMoves

LEMMA CleanUpVolumeMaps ==
    ASSUME Shape, MapInv, OneClient, Shape', NEW c \in Clients, CleanUpVolume(c)
    PROVE  MapInv'
<1>1. op[c] \in Dismounting /\ op[c].pc = "cleanup" /\ op[c].dev \in Devices
  <2>1. op[c] \in Dismounting
    BY RequestKind DEF CleanUpVolume, Shape
  <2> QED BY <2>1 DEF CleanUpVolume, Dismounting
<1>2. displaced' = displaced /\ Promised' = Promised /\ m_VolumesByGuid' = m_VolumesByGuid
      /\ m_Volumes' = IF Mounted(op[c].dev) THEN [m_Volumes EXCEPT ![op[c].dev].loaded = FALSE] ELSE m_Volumes
  BY DEF CleanUpVolume, Promised, guardVars, mapVars
<1>3. SameEntries
  <2>1. CASE Mounted(op[c].dev)
    <3>1. m_Volumes[op[c].dev] \in Volume
      BY <1>1, <2>1, EntryIsVolume
    <3>2. m_Volumes' = [m_Volumes EXCEPT ![op[c].dev] = [m_Volumes[op[c].dev] EXCEPT !.loaded = FALSE]]
      BY <1>2, <2>1
    <3> DEFINE w == [m_Volumes[op[c].dev] EXCEPT !.loaded = FALSE]
    <3>3. w \in Volume /\ w.img = m_Volumes[op[c].dev].img /\ w.guarded = m_Volumes[op[c].dev].guarded
      BY <3>1 DEF Volume
    <3>4. w # NoVolume /\ m_Volumes[op[c].dev] # NoVolume
      BY <3>1, <3>3, VolumeIsEntry
    <3> HIDE DEF w
    <3>5. m_Volumes' = [m_Volumes EXCEPT ![op[c].dev] = w]
      BY <3>2 DEF w
    <3>6. m_Volumes'[op[c].dev] = w /\ \A d \in Devices : d # op[c].dev => m_Volumes'[d] = m_Volumes[d]
      BY <1>1, <3>5 DEF Shape
    <3> QED BY <1>2, <3>3, <3>4, <3>6 DEF SameEntries
  <2>2. CASE ~Mounted(op[c].dev)
    BY <1>2, <2>2, UnchangedIsSame
  <2> QED BY <2>1, <2>2
<1>4. op'[c] = Idle \/ (op[c].via # "script" /\ op'[c] = [op[c] EXCEPT !.pc = "erase"])
  BY DEF CleanUpVolume, Shape
<1>5. op'[c].pc = "idle" \/ (op[c].via # "script" /\ op'[c] = [op[c] EXCEPT !.pc = "erase"])
  BY <1>4 DEF Idle
<1> QED BY <1>1, <1>2, <1>3, <1>5, GoesOn

LEMMA SetVolumeMaps ==
    ASSUME Shape, MapInv, NEW c \in Clients, NEW i \in Images, SetVolume(c, i) \/ SetDisplaced(c, i)
    PROVE  MapInv'
<1>1. CASE SetVolume(c, i)
  <2>1. m_VolumesByGuid[i] \in Devices /\ m_Volumes[m_VolumesByGuid[i]].img \in Images
    BY <1>1, DevicesFinite DEF SetVolume, Shape
  <2>2. Mounted(m_VolumesByGuid[i])
    BY <2>1, EntryIsVolume
  <2>3. PICK S : Saving(S, {m_VolumesByGuid[i]})
    BY <1>1 DEF SetVolume
  <2>4. UNCHANGED <<op, displaced, Promised, m_VolumesByGuid>>
    BY <1>1 DEF SetVolume, Promised, guardVars, mapVars
  <2>5. OnlyDirty({m_VolumesByGuid[i]}, S)
    BY <2>1, <2>2, <2>3, SavingEntries
  <2>6. SameEntries
    BY <2>1, <2>2, <2>4, <2>5, OnlyDirtyIsSame
  <2> QED BY <2>4, <2>6, QuietStays
<1>2. CASE SetDisplaced(c, i)
  BY <1>2, QuietStays, UnchangedIsSame DEF SetDisplaced, mapVars, guardVars, Promised
<1> QED BY <1>1, <1>2

LEMMA OthersMaps ==
    ASSUME Shape, MapInv,
           \/ \E d \in Devices, r \in Rules : EditVolumeRule(d, r)
           \/ \E i \in Images : EditHostRule(i)
           \/ OwnRuleChanged \/ UpdateRule \/ LateAttach \/ HelperDies
    PROVE  MapInv'
<1>1. UNCHANGED <<op, displaced, Promised, m_Volumes, m_VolumesByGuid>>
  <2>1. ASSUME NEW d \in Devices, NEW r \in Rules, EditVolumeRule(d, r)
        PROVE  UNCHANGED <<op, displaced, Promised, m_Volumes, m_VolumesByGuid>>
    BY <2>1 DEF EditVolumeRule, Edit, mapVars, guardVars, Promised
  <2>2. ASSUME NEW i \in Images, EditHostRule(i)
        PROVE  UNCHANGED <<op, displaced, Promised, m_Volumes, m_VolumesByGuid>>
    BY <2>2 DEF EditHostRule, Edit, mapVars, guardVars, Promised
  <2>3. OwnRuleChanged \/ UpdateRule \/ LateAttach \/ HelperDies =>
        UNCHANGED <<op, displaced, Promised, m_Volumes, m_VolumesByGuid>>
    BY DEF OwnRuleChanged, UpdateRule, LateAttach, HelperDies, mapVars, guardVars, histVars, Promised
  <2> QED BY <2>1, <2>2, <2>3
<1> QED BY <1>1, QuietStays, UnchangedIsSame

LEMMA UpdateAccessRuleMaps ==
    ASSUME Shape, MapInv, UpdateAccessRule
    PROVE  MapInv'
<1> DEFINE m == Head(port)
<1>0. m = Head(port)
  OBVIOUS
<1> HIDE DEF m
<1>1. /\ port # <<>> /\ m_Volumes' = IF HitBy(m) THEN [m_Volumes EXCEPT ![m.rule.dev].dirty = TRUE] ELSE m_Volumes
      /\ UNCHANGED <<m_VolumesByGuid, Promised, op, displaced>>
  BY <1>0, UpdateAccessRuleEffect DEF Promised, guardVars, mapVars
<1>2. SameEntries
  <2>1. CASE HitBy(m)
    <3> DEFINE d == m.rule.dev
    <3>1. m.rule \in Rule
      BY <1>0, <1>1, PortHead
    <3>2. d \in Devices /\ Mounted(d)
      BY <2>1, <3>1 DEF HitBy, Rule
    <3>3. m_Volumes[d] \in Volume
      BY <3>2, EntryIsVolume
    <3>4. m_Volumes' = [m_Volumes EXCEPT ![d] = [m_Volumes[d] EXCEPT !.dirty = TRUE]]
      BY <1>1, <2>1
    <3> DEFINE w == [m_Volumes[d] EXCEPT !.dirty = TRUE]
    <3>5. w # NoVolume /\ w.img = m_Volumes[d].img /\ w.guarded = m_Volumes[d].guarded
      BY <3>3, DirtySet
    <3> HIDE DEF w
    <3>6. m_Volumes'[d] = w /\ \A e \in Devices : e # d => m_Volumes'[e] = m_Volumes[e]
      BY <3>2, <3>4 DEF Shape, w
    <3>7. m_Volumes[d] # NoVolume
      BY <3>2 DEF Mounted
    <3> QED BY <1>1, <3>5, <3>6, <3>7 DEF SameEntries
  <2>2. CASE ~HitBy(m)
    BY <1>1, <2>2, UnchangedIsSame
  <2> QED BY <2>1, <2>2
<1> QED BY <1>1, <1>2, QuietStays

LEMMA EnterMaps ==
    ASSUME Shape, MapInv, OneClient, Shape', NEW c \in Clients, Enter(c)
    PROVE  MapInv'
<1>1. op[c] \in Mounting /\ op[c].pc = "enter" /\ m_VolumesByGuid[op[c].img] = 0
  BY RequestKind DEF Enter, Shape, MapInv, Undisturbed
<1>2. PICK i \in Images, d \in Devices : i = op[c].img /\ d = op[c].dev
  BY <1>1 DEF Mounting
<1>3. PICK v \in Volume : /\ m_Volumes' = [m_Volumes EXCEPT ![d] = v] /\ v.img = i
                          /\ v.guarded => Promised'
                          /\ Promised => Promised'
  <2>1. PICK ok, granted \in BOOLEAN :
          Guard(granted) /\ m_Volumes' = [m_Volumes EXCEPT ![d] = MountedVolume(op[c], ok, granted)]
    BY <1>2, EnterEffect
  <2>2. /\ MountedVolume(op[c], ok, granted) \in Volume /\ MountedVolume(op[c], ok, granted).img = i
        /\ MountedVolume(op[c], ok, granted).guarded => GuardHibernation /\ granted /\ ~misled
    BY <1>1, <1>2, MountedShape
  <2>3. misled' = misled
    BY DEF Enter
  <2>4. GuardHibernation /\ granted /\ ~misled => Promised'
    BY <2>1, <2>3 DEF Guard, Promised
  <2>5. Promised => Promised'
    BY <2>1, <2>3 DEF Guard, Promised
  <2> QED BY <2>1, <2>2, <2>4, <2>5
<1>4. /\ m_VolumesByGuid' = [m_VolumesByGuid EXCEPT ![i] = d]
      /\ displaced' = (displaced \cup {m_Volumes[d].img}) \ {None}
      /\ op'[c].pc = "script" /\ op'[c].dev = d /\ op'[c].img = i
  BY <1>1, <1>2 DEF Enter, Shape, Mounting
<1>5. m_Volumes'[d] = v /\ v # NoVolume /\ \A e \in Devices : e # d => m_Volumes'[e] = m_Volumes[e]
  BY <1>3, VolumeIsEntry DEF Shape
<1>6. m_VolumesByGuid'[i] = d /\ \A j \in Images : j # i => m_VolumesByGuid'[j] = m_VolumesByGuid[j]
  BY <1>4 DEF Shape
<1>7. m_VolumesByGuid[i] = 0 /\ 0 \notin Devices
  BY <1>1, <1>2, DevicesFinite
<1>8. Undisturbed'
  <2>1. Mounted(d)' /\ m_Volumes'[d].img = i
    BY <1>3, <1>5 DEF Mounted
  <2> QED BY <1>4, <2>1 DEF Undisturbed, OneClient
<1>9. MapsInStep'
  <2>1. ASSUME NEW e \in Devices, Mounted(e)', m_Volumes'[e].img \notin displaced'
        PROVE  m_VolumesByGuid'[m_Volumes'[e].img] = e
    <3>1. CASE e = d
      BY <1>3, <1>5, <1>6, <3>1
    <3>2. CASE e # d
      <4>1. m_Volumes'[e] = m_Volumes[e] /\ Mounted(e)
        BY <1>5, <2>1, <3>2 DEF Mounted
      <4>2. m_Volumes[e].img \in Images /\ m_Volumes[e].img \notin displaced
        BY <1>4, <2>1, <4>1, EntryIsVolume, NoneIsNoImage
      <4>3. m_VolumesByGuid[m_Volumes[e].img] = e
        BY <4>1, <4>2 DEF MapInv, MapsInStep
      <4> QED BY <1>6, <1>7, <4>1, <4>2, <4>3
    <3> QED BY <3>1, <3>2
  <2>2. ASSUME NEW j \in Images \ displaced', m_VolumesByGuid'[j] # 0
        PROVE  m_Volumes'[m_VolumesByGuid'[j]].img = j
    <3>1. CASE j = i
      BY <1>3, <1>5, <1>6, <3>1
    <3>2. CASE j # i
      <4>1. j \notin displaced /\ j # m_Volumes[d].img
        BY <1>4, <2>2, NoneIsNoImage
      <4>2. m_Volumes[m_VolumesByGuid[j]].img = j /\ m_VolumesByGuid[j] \in Devices
        BY <1>6, <2>2, <3>2, <4>1, DevicesFinite DEF MapInv, MapsInStep, Shape
      <4> QED BY <1>5, <1>6, <3>2, <4>1, <4>2
    <3> QED BY <3>1, <3>2
  <2> QED BY <2>1, <2>2 DEF MapsInStep
<1>10. Covered'
  <2> SUFFICES ASSUME NEW e \in Devices, Mounted(e)', m_Volumes'[e].guarded PROVE Promised'
    BY DEF Covered
  <2>1. CASE e = d
    BY <1>3, <1>5, <2>1
  <2>2. CASE e # d
    BY <1>3, <1>5, <2>2 DEF Covered, MapInv, Mounted
  <2> QED BY <2>1, <2>2
<1> QED BY <1>8, <1>9, <1>10 DEF MapInv

LEMMA EraseMaps ==
    ASSUME Shape, MapInv, OneClient, Shape', NEW c \in Clients, Erase(c)
    PROVE  MapInv'
<1>1. op[c] \in Dismounting /\ op[c].pc = "erase" /\ op[c].via # "script"
      /\ Mounted(op[c].dev) /\ m_Volumes[op[c].dev].img = op[c].img
  BY RequestKind DEF Erase, Shape, MapInv, Undisturbed
<1>2. PICK i \in Images, d \in Devices : i = op[c].img /\ d = op[c].dev
  BY <1>1, EntryIsVolume DEF Dismounting
<1>3. /\ m_VolumesByGuid' = [m_VolumesByGuid EXCEPT ![i] = 0]
      /\ m_Volumes' = [m_Volumes EXCEPT ![d] = NoVolume]
      /\ displaced' = displaced /\ UNCHANGED <<m_NoHibernation, misled>>
      /\ op'[c] = IF op[c].via = "all" THEN Continue(op[c])
                  ELSE IF m_NoHibernation /\ \A e \in Devices \ {d} : ~Mounted(e) THEN [pc |-> "release"] ELSE Idle
  BY <1>2 DEF Erase, ForgetGuid, Shape, guardVars
<1>4. m_Volumes'[d] = NoVolume /\ \A e \in Devices : e # d => m_Volumes'[e] = m_Volumes[e]
  BY <1>3 DEF Shape
<1>5. m_VolumesByGuid'[i] = 0 /\ \A j \in Images : j # i => m_VolumesByGuid'[j] = m_VolumesByGuid[j]
  BY <1>3 DEF Shape
<1>6. Undisturbed'
  <2>1. op'[c].pc = "all" => op'[c].todo = op[c].todo /\ op[c].via = "all"
    BY <1>3 DEF Continue, Idle
  <2>2. op[c].via = "all" => d \notin op[c].todo /\ \A e \in op[c].todo : Mounted(e) /\ e \in Devices
    BY <1>1, <1>2 DEF MapInv, Undisturbed, Dismounting
  <2>3. op'[c].pc \in {"all", "release", "idle"}
    BY <1>3 DEF Continue, Idle
  <2>4. op'[c].pc = "all" => \A e \in op'[c].todo : Mounted(e)'
    BY <1>4, <2>1, <2>2 DEF Mounted
  <2>5. op'[c].pc = "release" => \A e \in Devices : ~Mounted(e)'
    <3>1. op'[c].pc = "release" => \A e \in Devices \ {d} : ~Mounted(e)
      BY <1>3 DEF Continue, Idle
    <3> QED BY <1>4, <3>1 DEF Mounted
  <2> QED BY <2>3, <2>4, <2>5 DEF Undisturbed, OneClient
<1>7. MapsInStep'
  <2>1. ASSUME NEW e \in Devices, Mounted(e)', m_Volumes'[e].img \notin displaced'
        PROVE  m_VolumesByGuid'[m_Volumes'[e].img] = e
    <3>1. e # d /\ m_Volumes'[e] = m_Volumes[e] /\ Mounted(e)
      BY <1>4, <2>1 DEF Mounted
    <3>2. m_Volumes[e].img \in Images /\ m_VolumesByGuid[m_Volumes[e].img] = e
      BY <1>3, <2>1, <3>1, EntryIsVolume DEF MapInv, MapsInStep
    <3>3. m_Volumes[e].img # i
      BY <1>1, <1>2, <1>3, <2>1, <3>1, <3>2 DEF MapInv, MapsInStep
    <3> QED BY <1>5, <3>1, <3>2, <3>3
  <2>2. ASSUME NEW j \in Images \ displaced', m_VolumesByGuid'[j] # 0
        PROVE  m_Volumes'[m_VolumesByGuid'[j]].img = j
    <3>1. j # i /\ m_VolumesByGuid'[j] = m_VolumesByGuid[j]
      BY <1>5, <2>2
    <3>2. m_Volumes[m_VolumesByGuid[j]].img = j /\ m_VolumesByGuid[j] \in Devices
      BY <1>3, <2>2, <3>1, DevicesFinite DEF MapInv, MapsInStep, Shape
    <3> QED BY <1>1, <1>2, <1>4, <3>1, <3>2
  <2> QED BY <2>1, <2>2 DEF MapsInStep
<1>8. Covered'
  <2>1. \A e \in Devices : Mounted(e)' => Mounted(e) /\ m_Volumes'[e] = m_Volumes[e]
    BY <1>4 DEF Mounted
  <2> QED BY <1>3, <2>1 DEF Covered, MapInv, Promised
<1> QED BY <1>6, <1>7, <1>8 DEF MapInv

\* The entries after an Update: those it found, and those on the list it kept.
LEMMA EntriesAfterUpdate ==
    ASSUME Shape, NEW l \in SUBSET Devices, NEW S, NEW d \in Devices
    PROVE  LET w == EntriesAfter(l, S)[d]
           IN  /\ d \in FoundIn(l) => w = Found(attached[d]) /\ w # NoVolume /\ attached[d] \in Images
               /\ Mounted(d) /\ d \in l => /\ w # NoVolume
                                           /\ w.img = m_Volumes[d].img /\ w.loaded = m_Volumes[d].loaded
                                           /\ w.guarded = m_Volumes[d].guarded
                                           /\ w.dirty = StillDirty(d, S)
               /\ d \notin FoundIn(l) /\ ~(Mounted(d) /\ d \in l) => w = NoVolume
<1> DEFINE w == EntriesAfter(l, S)[d]
<1>1. d \in FoundIn(l) => w = Found(attached[d]) /\ w # NoVolume /\ attached[d] \in Images
  <2>1. d \in FoundIn(l) => attached[d] \in Images
    BY DEF FoundIn, Shape
  <2> QED BY <2>1, FoundShape, VolumeIsEntry DEF EntriesAfter
<1>2. ASSUME Mounted(d), d \in l
      PROVE  /\ w # NoVolume
             /\ w.img = m_Volumes[d].img /\ w.loaded = m_Volumes[d].loaded
             /\ w.guarded = m_Volumes[d].guarded
             /\ w.dirty = StillDirty(d, S)
  <2>1. w = [m_Volumes[d] EXCEPT !.dirty = StillDirty(d, S)]
    BY <1>2 DEF EntriesAfter, FoundIn, GoneFrom
  <2>2. m_Volumes[d] \in Volume /\ StillDirty(d, S) \in BOOLEAN
    BY <1>2, EntryIsVolume DEF StillDirty
  <2> DEFINE b == StillDirty(d, S)
  <2> HIDE DEF b, w
  <2>3. w = [m_Volumes[d] EXCEPT !.dirty = b]
    BY <2>1 DEF b
  <2>4. LET u == [m_Volumes[d] EXCEPT !.dirty = b]
        IN  /\ u # NoVolume
            /\ u.img = m_Volumes[d].img /\ u.loaded = m_Volumes[d].loaded /\ u.guarded = m_Volumes[d].guarded
            /\ u.dirty = b
    BY <2>2, DirtySet DEF b
  <2> QED BY <2>3, <2>4 DEF b
<1>3. d \notin FoundIn(l) /\ ~(Mounted(d) /\ d \in l) => w = NoVolume
  BY DEF EntriesAfter, GoneFrom
<1> HIDE DEF w
<1>4. PICK x : x = w
  OBVIOUS
<1> QED BY <1>1, <1>2, <1>3 DEF w

LEMMA UpdateMaps ==
    ASSUME Shape, MapInv, Distinct, OneClient, Shape', NEW c \in Clients, Update(c)
    PROVE  MapInv'
<1>1. PICK l \in SUBSET Devices : \E S \in {Writable(DirtyIn(l)), {}} : Updated(c, l, S)
  BY UpdateEffect
<1>2. PICK S \in {Writable(DirtyIn(l)), {}} : Updated(c, l, S)
  BY <1>1
<1> DEFINE found == FoundIn(l)
<1> DEFINE gone == GoneFrom(l)
<1>3. /\ m_Volumes' = EntriesAfter(l, S)
      /\ m_VolumesByGuid' = [i \in Images |->
           IF \E d \in gone : m_Volumes[d].img = i THEN 0
           ELSE IF \E d \in found : attached[d] = i THEN CHOOSE d \in found : attached[d] = i
           ELSE m_VolumesByGuid[i]]
      /\ displaced' = displaced \cup {i \in Images : m_VolumesByGuid[i] # 0 /\ \E d \in found : attached[d] = i}
      /\ op'[c] = Idle /\ Promised' = Promised
  BY <1>2 DEF Updated, Shape, Promised, guardVars, mapVars
<1>4. \A d \in Devices : Mounted(d)' => (d \in found \/ (Mounted(d) /\ d \notin gone /\ d \in l))
  BY <1>3, EntriesAfterUpdate DEF Mounted, GoneFrom
<1>5. \A d \in found : /\ d \in Devices /\ ~Mounted(d) /\ m_Volumes'[d].img = attached[d] /\ attached[d] \in Images
                       /\ ~m_Volumes'[d].guarded
  <2> SUFFICES ASSUME NEW d \in found
               PROVE  /\ d \in Devices /\ ~Mounted(d) /\ m_Volumes'[d].img = attached[d] /\ attached[d] \in Images
                      /\ ~m_Volumes'[d].guarded
    OBVIOUS
  <2>1. d \in Devices /\ ~Mounted(d)
    BY DEF FoundIn
  <2>2. m_Volumes'[d] = Found(attached[d]) /\ attached[d] \in Images
    BY <1>3, <2>1, EntriesAfterUpdate
  <2> QED BY <2>1, <2>2 DEF Found
<1>6. \A d \in Devices : Mounted(d) /\ d \in l =>
        m_Volumes'[d].img = m_Volumes[d].img /\ m_Volumes'[d].guarded = m_Volumes[d].guarded
  BY <1>3, EntriesAfterUpdate
<1>7. gone \subseteq Devices /\ \A d \in gone : Mounted(d) /\ d \notin l
  BY DEF GoneFrom
<1>8. \A d, e \in found : attached[d] = attached[e] => d = e
  BY <1>5, NoneIsNoImage DEF Distinct
<1>9. \A e \in Devices : e # 0
  BY DevicesFinite
<1> HIDE DEF found, gone
<1>10. Undisturbed'
  BY <1>3 DEF Undisturbed, OneClient, Idle
<1>11. ASSUME NEW d \in Devices, Mounted(d)', m_Volumes'[d].img \notin displaced'
       PROVE  m_VolumesByGuid'[m_Volumes'[d].img] = d
  <2> DEFINE j == m_Volumes'[d].img
  <2>1. j \notin displaced
    BY <1>3, <1>11
  <2>2. \A e \in gone : j \in Images /\ m_Volumes[e].img = j => m_VolumesByGuid[j] = e
    BY <1>7, <2>1 DEF MapInv, MapsInStep
  <2>3. CASE d \in found
    <3>1. j = attached[d] /\ j \in Images
      BY <1>5, <2>3
    <3>2. m_VolumesByGuid[j] = 0
      BY <1>3, <1>11, <2>3, <3>1
    <3>3. ~\E e \in gone : m_Volumes[e].img = j
      BY <1>7, <1>9, <2>2, <3>1, <3>2
    <3>4. (CHOOSE e \in found : attached[e] = j) = d
      BY <1>8, <2>3, <3>1
    <3>5. m_VolumesByGuid'[j] = CHOOSE e \in found : attached[e] = j
      BY <1>3, <2>3, <3>1, <3>3
    <3> QED BY <3>4, <3>5
  <2>4. CASE d \notin found
    <3>1. Mounted(d) /\ d \notin gone /\ d \in l
      BY <1>4, <1>11, <2>4
    <3>2. j = m_Volumes[d].img /\ j \in Images
      BY <1>6, <3>1, EntryIsVolume
    <3>3. m_VolumesByGuid[j] = d
      BY <2>1, <3>1, <3>2 DEF MapInv, MapsInStep
    <3>4. ~\E e \in gone : m_Volumes[e].img = j
      BY <2>2, <3>1, <3>2, <3>3
    <3>5. ~\E e \in found : attached[e] = j
      BY <1>3, <1>9, <1>11, <3>2, <3>3
    <3>6. m_VolumesByGuid'[j] = m_VolumesByGuid[j]
      BY <1>3, <3>2, <3>4, <3>5
    <3> QED BY <3>3, <3>6
  <2> QED BY <2>3, <2>4
<1>12. ASSUME NEW j \in Images \ displaced', m_VolumesByGuid'[j] # 0
       PROVE  m_Volumes'[m_VolumesByGuid'[j]].img = j
  <2>1. ~\E e \in gone : m_Volumes[e].img = j
    BY <1>3, <1>12
  <2>2. CASE \E e \in found : attached[e] = j
    BY <1>3, <1>5, <2>1, <2>2
  <2>3. CASE ~\E e \in found : attached[e] = j
    <3>1. m_VolumesByGuid'[j] = m_VolumesByGuid[j] /\ j \notin displaced
      BY <1>3, <1>12, <2>1, <2>3
    <3>2. PICK d \in Devices : d = m_VolumesByGuid[j]
      BY <1>12, <3>1, DevicesFinite DEF Shape
    <3>3. m_Volumes[d].img = j
      BY <1>12, <3>1, <3>2 DEF MapInv, MapsInStep
    <3>4. Mounted(d) /\ d \notin gone
      BY <2>1, <3>3, EntryIsVolume
    <3>5. d \in l
      BY <3>4 DEF gone, GoneFrom
    <3> QED BY <1>6, <3>1, <3>2, <3>3, <3>4, <3>5
  <2> QED BY <2>2, <2>3
<1>13. MapsInStep'
  BY <1>11, <1>12 DEF MapsInStep
<1>14. Covered'
  <2> SUFFICES ASSUME NEW d \in Devices, Mounted(d)', m_Volumes'[d].guarded
               PROVE  Promised'
    BY DEF Covered
  <2>1. d \notin found
    BY <1>5
  <2>2. Mounted(d) /\ m_Volumes[d].guarded
    BY <1>4, <1>6, <2>1
  <2> QED BY <1>3, <2>2 DEF Covered, MapInv
<1> QED BY <1>10, <1>13, <1>14 DEF MapInv

LEMMA RestartAgentMaps ==
    ASSUME Shape, Distinct, RestartAgent
    PROVE  MapInv'
<1>1. /\ m_Volumes' = [d \in Devices |-> IF attached[d] = None THEN NoVolume ELSE Found(attached[d])]
      /\ m_VolumesByGuid' = [i \in Images |->
           IF \E d \in Devices : attached[d] = i THEN CHOOSE d \in Devices : attached[d] = i ELSE 0]
      /\ op' = [c \in Clients |-> Idle]
  BY DEF RestartAgent
<1>2. \A d \in Devices : Mounted(d)' => /\ attached[d] # None /\ attached[d] \in Images
                                        /\ m_Volumes'[d] = Found(attached[d])
  BY <1>1 DEF Mounted, Shape
<1>3. \A d \in Devices : Mounted(d)' => m_Volumes'[d].img = attached[d] /\ ~m_Volumes'[d].guarded
  <2> SUFFICES ASSUME NEW d \in Devices, Mounted(d)'
               PROVE  m_Volumes'[d].img = attached[d] /\ ~m_Volumes'[d].guarded
    OBVIOUS
  <2>1. m_Volumes'[d] = Found(attached[d])
    BY <1>2
  <2> QED BY <2>1 DEF Found
<1>4. Undisturbed'
  BY <1>1 DEF Undisturbed, Idle
<1>5. \A d \in Devices : Mounted(d)' => m_VolumesByGuid'[m_Volumes'[d].img] = d
  <2> SUFFICES ASSUME NEW d \in Devices, Mounted(d)' PROVE m_VolumesByGuid'[m_Volumes'[d].img] = d
    OBVIOUS
  <2>1. (CHOOSE e \in Devices : attached[e] = attached[d]) = d
    BY <1>2 DEF Distinct
  <2> QED BY <1>1, <1>2, <1>3, <2>1
<1>6. \A i \in Images : m_VolumesByGuid'[i] # 0 => m_Volumes'[m_VolumesByGuid'[i]].img = i
  <2> SUFFICES ASSUME NEW i \in Images, m_VolumesByGuid'[i] # 0 PROVE m_Volumes'[m_VolumesByGuid'[i]].img = i
    OBVIOUS
  <2>1. \E d \in Devices : attached[d] = i
    BY <1>1
  <2>2. PICK d \in Devices : d = m_VolumesByGuid'[i] /\ attached[d] = i
    BY <1>1, <2>1
  <2>3. m_Volumes'[d] = Found(i)
    BY <1>1, <2>2, NoneIsNoImage
  <2> QED BY <2>2, <2>3 DEF Found
<1>7. Covered'
  BY <1>3 DEF Covered
<1> QED BY <1>4, <1>5, <1>6, <1>7 DEF MapInv, MapsInStep

LEMMA InitMaps == Init => Distinct /\ MapInv
<1> SUFFICES ASSUME Init PROVE Distinct /\ MapInv
  OBVIOUS
<1>1. Distinct
  BY DEF Init, Distinct
<1>2. Undisturbed
  BY DEF Init, Undisturbed, Idle
<1>3. \A d \in Devices : ~Mounted(d)
  BY DEF Init, Mounted
<1> QED BY <1>1, <1>2, <1>3 DEF Init, MapInv, MapsInStep, Covered

\* Nothing is attached twice: the helper's driver refuses.
LEMMA AttachOnce ==
    ASSUME Shape, Distinct, NEW i \in Images, NEW d \in Devices, CanAttach(i, d),
           attached' = [attached EXCEPT ![d] = i]
    PROVE  Distinct'
BY DEF Shape, Distinct, CanAttach

LEMMA DetachKeepsDistinct ==
    ASSUME Shape, Distinct, NEW d \in Devices, attached' = [attached EXCEPT ![d] = None]
    PROVE  Distinct'
BY DEF Shape, Distinct

LEMMA ClientDistinct ==
    ASSUME Shape, Distinct, NEW c \in Clients, ClientNext(c)
    PROVE  Distinct'
<1>1. attached' = attached => Distinct'
  BY DEF Distinct
<1>2. ASSUME Attach(c) PROVE Distinct'
  <2>1. op[c] \in Mounting
    BY <1>2, RequestKind DEF Attach, Shape
  <2>2. op[c].img \in Images /\ op[c].dev \in Devices
    BY <2>1 DEF Mounting
  <2> QED BY <1>2, <2>2, AttachOnce DEF Attach
<1>3. ASSUME NEW i \in Images, CreateImage(c, i) PROVE Distinct'
  BY <1>3, AttachOnce DEF CreateImage
<1>4. ASSUME DetachCreated(c) PROVE Distinct'
  <2>1. op[c] \in Creating
    BY <1>4, RequestKind DEF DetachCreated, Shape
  <2>2. op[c].dev \in Devices
    BY <2>1 DEF Creating
  <2> QED BY <1>4, <2>2, DetachKeepsDistinct DEF DetachCreated
<1>5. ASSUME Unmount(c) PROVE Distinct'
  <2>1. op[c] \in Dismounting
    BY <1>5, RequestKind DEF Unmount, Shape
  <2>2. op[c].dev \in Devices
    BY <2>1 DEF Dismounting
  <2> QED BY <1>5, <2>2, DetachKeepsDistinct DEF Unmount
<1>6. ASSUME NEW i \in Images, SetVolume(c, i) \/ SetDisplaced(c, i) PROVE Distinct'
  BY <1>1, <1>6 DEF SetVolume, SetDisplaced
<1>7. \/ \E i \in Images, bProtect, bLockdown \in BOOLEAN : MountImage(c, i, bProtect, bLockdown)
      \/ SetUpProtection(c) \/ Enter(c) \/ JunctionFails(c) \/ FinishMount(c) \/ MountScriptFails(c)
      \/ \E timeout \in BOOLEAN : AttachFails(c, timeout)
      \/ \E d \in Devices : DismountVolume(c, d)
      => attached' = attached
  BY DEF MountImage, SetUpProtection, Enter, JunctionFails, FinishMount, MountScriptFails, AttachFails, DismountVolume
<1>8. DismountAll(c) \/ NextOfAll(c) \/ AllDone(c) \/ UnmountFails(c) \/ CleanUpVolume(c) \/ Erase(c)
      \/ ReleaseGuard(c) \/ TakeDeviceList(c) \/ Update(c) => attached' = attached
  BY DEF DismountAll, NextOfAll, AllDone, UnmountFails, CleanUpVolume, Erase, ReleaseGuard, TakeDeviceList, Update
<1> QED BY <1>1, <1>2, <1>3, <1>4, <1>5, <1>6, <1>7, <1>8 DEF ClientNext

LEMMA DistinctStep == Shape /\ Distinct /\ [Next]_vars => Distinct'
<1> SUFFICES ASSUME Shape, Distinct, [Next]_vars PROVE Distinct'
  OBVIOUS
<1>1. attached' = attached => Distinct'
  BY DEF Distinct
<1>2. ASSUME LateAttach PROVE Distinct'
  <2>1. PICK m \in late : attached' = IF CanAttach(m[1], m[2]) THEN [attached EXCEPT ![m[2]] = m[1]] ELSE attached
    BY <1>2 DEF LateAttach
  <2>2. m[1] \in Images /\ m[2] \in Devices
    BY DEF Shape
  <2> QED BY <1>1, <2>1, <2>2, AttachOnce
<1>3. ASSUME HelperDies PROVE Distinct'
  BY <1>3, DetachKeepsDistinct DEF HelperDies
<1>4. ASSUME NEW d \in Devices, NEW r \in Rules, EditVolumeRule(d, r) PROVE Distinct'
  BY <1>1, <1>4 DEF EditVolumeRule, Edit
<1>5. ASSUME NEW i \in Hosted, EditHostRule(i) PROVE Distinct'
  BY <1>1, <1>5 DEF EditHostRule, Edit
<1>6. OwnRuleChanged \/ UpdateAccessRule \/ UpdateRule \/ RestartAgent \/ UNCHANGED vars => attached' = attached
  BY DEF OwnRuleChanged, UpdateAccessRule, UpdateRule, RestartAgent, vars
<1>7. SetConfig => attached' = attached
  BY DEF SetConfig
<1> QED BY <1>1, <1>2, <1>3, <1>4, <1>5, <1>6, <1>7, ClientDistinct DEF Next

LEMMA ClientMaps ==
    ASSUME Shape, MapInv, Distinct, OneClient, Shape', NEW c \in Clients, ClientNext(c)
    PROVE  MapInv'
<1>1. ASSUME NEW t \in BOOLEAN, AttachFails(c, t) PROVE MapInv'
  BY <1>1, EndsMaps
<1>2. ASSUME NEW i \in Images, CreateImage(c, i) PROVE MapInv'
  BY <1>2, EndsMaps
<1>3. ASSUME NEW d \in Devices, DismountVolume(c, d) PROVE MapInv'
  BY <1>3, DismountsMaps
<1>4. ASSUME NEW i \in Images, SetVolume(c, i) \/ SetDisplaced(c, i) PROVE MapInv'
  BY <1>4, SetVolumeMaps
<1>5. ASSUME NEW i \in Images, NEW p \in BOOLEAN, NEW k \in BOOLEAN, MountImage(c, i, p, k) PROVE MapInv'
  BY <1>5, MountImageMaps
<1>6. SetUpProtection(c) \/ Attach(c) \/ FinishMount(c) \/ DetachCreated(c) \/ TakeDeviceList(c) => MapInv'
  BY PreparesMaps, EndsMaps
<1>7. JunctionFails(c) \/ MountScriptFails(c) \/ DismountAll(c) \/ NextOfAll(c) => MapInv'
  BY ScriptMaps, DismountsMaps
<1>8. AllDone(c) \/ ReleaseGuard(c) \/ Unmount(c) \/ UnmountFails(c) \/ CleanUpVolume(c) => MapInv'
  BY AllDoneMaps, ReleaseGuardMaps, UnmountMaps, UnmountFailsMaps, CleanUpVolumeMaps
<1>9. Enter(c) \/ Erase(c) \/ Update(c) => MapInv'
  BY EnterMaps, EraseMaps, UpdateMaps
<1> QED BY <1>1, <1>2, <1>3, <1>4, <1>5, <1>6, <1>7, <1>8, <1>9 DEF ClientNext

LEMMA MapsStep == OneClient /\ Shape /\ Distinct /\ MapInv /\ [Next]_vars => MapInv'
<1> SUFFICES ASSUME OneClient, Shape, Distinct, MapInv, [Next]_vars PROVE MapInv'
  OBVIOUS
<1>1. Shape'
  BY ShapeStep
<1>2. ASSUME NEW d \in Devices, NEW r \in Rules, EditVolumeRule(d, r) PROVE MapInv'
  BY <1>2, OthersMaps
<1>3. ASSUME NEW i \in Hosted, EditHostRule(i) PROVE MapInv'
  BY <1>3, OthersMaps, VolumesAssumption
<1>4. OwnRuleChanged \/ UpdateRule \/ LateAttach \/ HelperDies => MapInv'
  BY OthersMaps
<1>5. UNCHANGED vars => MapInv'
  BY QuietStays, UnchangedIsSame DEF vars, mapVars, guardVars, histVars, Promised
<1>6. SetConfig => MapInv'
  BY SetConfigEffect, QuietStays, UnchangedIsSame DEF histVars
<1> QED BY <1>6, <1>1, <1>2, <1>3, <1>4, <1>5, ClientMaps, UpdateAccessRuleMaps, RestartAgentMaps DEF Next

LEMMA MapsAlways == OneClient => (Spec => [](Shape /\ Distinct /\ MapInv))
<1> SUFFICES ASSUME OneClient PROVE Spec => [](Shape /\ Distinct /\ MapInv)
  OBVIOUS
<1>1. Init => Shape /\ Distinct /\ MapInv
  BY ShapeInit, InitMaps
<1>2. Shape /\ Distinct /\ MapInv /\ [Next]_vars => (Shape /\ Distinct /\ MapInv)'
  BY ShapeStep, DistinctStep, MapsStep
<1> QED BY <1>1, <1>2, PTL DEF Spec

\* While requests are served one at a time, the map of devices and the map of
\* GUIDs describe the same volumes, but for images that have been displaced.
THEOREM MapsAgree == OneClient => (Spec => []MapsInStep)
<1>1. Shape /\ Distinct /\ MapInv => MapsInStep
  BY DEF MapInv
<1> QED BY <1>1, MapsAlways, PTL

\* And hibernation is prevented while a volume is listed that was promised it.
THEOREM GuardIsHeld == OneClient => (Spec => []GuardedWhileMounted)
<1>1. Shape /\ Distinct /\ MapInv /\ GuardInv => GuardedWhileMounted
  BY DEF MapInv, GuardInv, Covered, GuardedWhileMounted
<1> QED BY <1>1, MapsAlways, GuardAlways, PTL

-----------------------------------------------------------------------------
(* Rules left behind, for requests one at a time *)

LEMMA RuleDevice ==
    ASSUME NEW x \in Rule
    PROVE  x.dev = 0 \/ x.dev \in Devices
BY DEF Rule

LEMMA DriverRuleDevice ==
    ASSUME Shape, NEW x \in driver, x.dev # 0
    PROVE  x.dev \in Devices
BY RuleDevice DEF Shape

\* What LeftInv says, with the one request there is.
LEMMA LeftSays ==
    ASSUME OneClient, LeftInv, NEW c \in Clients
    PROVE  /\ \A x \in driver \ leaked : x.dev # 0 /\ ~Mounted(x.dev) =>
                \/ attached[x.dev] # None /\ (op[c].pc = "created" => op[c].dev # x.dev)
                \/ /\ op[c].pc = "attach" /\ op[c].dev = x.dev
                   /\ x \in op[c].temp \/ (x.t = "clone" /\ x.id = op[c].id)
                \/ op[c].pc \in {"unmount", "cleanup"} /\ op[c].dev = x.dev
           /\ op[c].pc = "erase" => \A x \in driver \ leaked : x.dev = op[c].dev => attached[x.dev] # None
BY DEF LeftInv, Explained, OneClient

LEMMA LeftHolds ==
    ASSUME OneClient, NEW c \in Clients,
           \A x \in driver' \ leaked' : x.dev # 0 /\ ~Mounted(x.dev)' =>
                \/ attached'[x.dev] # None /\ (op'[c].pc = "created" => op'[c].dev # x.dev)
                \/ /\ op'[c].pc = "attach" /\ op'[c].dev = x.dev
                   /\ x \in op'[c].temp \/ (x.t = "clone" /\ x.id = op'[c].id)
                \/ op'[c].pc \in {"unmount", "cleanup"} /\ op'[c].dev = x.dev,
           op'[c].pc = "erase" => \A x \in driver' \ leaked' : x.dev = op'[c].dev => attached'[x.dev] # None
    PROVE  LeftInv'
<1>1. \A x \in driver' \ leaked' : x.dev # 0 /\ ~Mounted(x.dev)' => Explained(x)'
  BY DEF Explained, OneClient
<1>2. \A b \in Clients : op'[b].pc = "erase" =>
         \A x \in driver' \ leaked' : x.dev = op'[b].dev => attached'[x.dev] # None
  BY DEF OneClient
<1> QED BY <1>1, <1>2 DEF LeftInv

LEMMA SameMounted ==
    ASSUME SameEntries
    PROVE  \A d \in Devices : Mounted(d)' <=> Mounted(d)
BY DEF SameEntries, Mounted

\* A step that adds no rule, and moves a request that explains none.
LEMMA LeftMoves ==
    ASSUME Shape, OneClient, LeftInv, NEW c \in Clients, driver' \ leaked' \subseteq driver \ leaked,
           attached' = attached, \A d \in Devices : Mounted(d) => Mounted(d)',
           op[c].pc \notin {"created", "attach", "unmount", "cleanup"}, op'[c].pc \notin {"created", "erase"}
    PROVE  LeftInv'
<1>1. ASSUME NEW x \in driver' \ leaked', x.dev # 0, ~Mounted(x.dev)'
      PROVE  attached'[x.dev] # None
  <2>1. x \in driver \ leaked /\ x.dev \in Devices
    BY <1>1, DriverRuleDevice
  <2>2. ~Mounted(x.dev)
    BY <1>1, <2>1
  <2> QED BY <1>1, <2>1, <2>2, LeftSays
<1> QED BY <1>1, LeftHolds

\* A step of another than a client that adds no rule and detaches no device.
LEMMA LeftStays ==
    ASSUME Shape, LeftInv, driver' \ leaked' \subseteq driver \ leaked, op' = op,
           \A d \in Devices : attached[d] # None => attached'[d] # None,
           \A d \in Devices : Mounted(d)' <=> Mounted(d)
    PROVE  LeftInv'
<1>1. ASSUME NEW x \in driver' \ leaked', x.dev # 0, ~Mounted(x.dev)'
      PROVE  Explained(x)'
  <2>1. x \in driver \ leaked /\ x.dev \in Devices
    BY <1>1, DriverRuleDevice
  <2>2. Explained(x)
    BY <1>1, <2>1 DEF LeftInv
  <2> QED BY <2>1, <2>2 DEF Explained
<1>2. ASSUME NEW b \in Clients, op'[b].pc = "erase", NEW x \in driver' \ leaked', x.dev = op'[b].dev
      PROVE  attached'[x.dev] # None
  <2>1. x \in driver \ leaked /\ attached[x.dev] # None
    BY <1>2 DEF LeftInv
  <2>2. op[b] \in Dismounting
    BY <1>2, RequestKind DEF Shape
  <2>3. x.dev \in Devices
    BY <1>2, <2>2 DEF Dismounting
  <2> QED BY <2>1, <2>3
<1> QED BY <1>1, <1>2 DEF LeftInv

LEMMA PlainLeft ==
    ASSUME Shape, OneClient, LeftInv, NEW c \in Clients,
           \/ \E i \in Images, p, k \in BOOLEAN : MountImage(c, i, p, k)
           \/ JunctionFails(c) \/ \E d \in Devices : DismountVolume(c, d)
           \/ DismountAll(c) \/ NextOfAll(c) \/ AllDone(c) \/ ReleaseGuard(c) \/ TakeDeviceList(c)
    PROVE  LeftInv'
<1>1. UNCHANGED <<driver, leaked, attached, m_Volumes>>
  BY DEF MountImage, JunctionFails, DismountVolume, DismountAll, NextOfAll, AllDone, ReleaseGuard, TakeDeviceList,
         ruleVars, histVars, mapVars
<1>2. op[c].pc \in {"idle", "enter", "all", "release"}
  BY DEF MountImage, JunctionFails, DismountVolume, DismountAll, NextOfAll, AllDone, ReleaseGuard, TakeDeviceList, Idle
<1>3. op'[c].pc \in {"protect", "unmount", "all", "idle", "update"}
  <2>1. ASSUME NEW i \in Images, NEW p \in BOOLEAN, NEW k \in BOOLEAN, MountImage(c, i, p, k) PROVE op'[c].pc = "protect"
    BY <2>1 DEF MountImage, Shape
  <2>2. ASSUME NEW d \in Devices, DismountVolume(c, d) PROVE op'[c].pc = "unmount"
    BY <2>2 DEF DismountVolume, Shape, HoldVolume
  <2>3. JunctionFails(c) \/ NextOfAll(c) => op'[c].pc = "unmount"
    BY DEF JunctionFails, NextOfAll, Shape, HoldVolume
  <2>4. DismountAll(c) => op'[c].pc = "all"
    BY DEF DismountAll, Shape
  <2>5. AllDone(c) \/ ReleaseGuard(c) => op'[c].pc = "idle"
    BY DEF AllDone, ReleaseGuard, Shape, Idle
  <2>6. TakeDeviceList(c) => op'[c].pc = "update"
    BY DEF TakeDeviceList, Shape
  <2> QED BY <2>1, <2>2, <2>3, <2>4, <2>5, <2>6
<1>4. \A d \in Devices : Mounted(d) => Mounted(d)'
  BY <1>1 DEF Mounted
<1> QED BY <1>1, <1>2, <1>3, <1>4, LeftMoves

LEMMA ScriptLeft ==
    ASSUME Shape, OneClient, LeftInv, NEW c \in Clients, FinishMount(c) \/ MountScriptFails(c)
    PROVE  LeftInv'
<1>1. UNCHANGED <<leaked, attached, m_Volumes>> /\ Call({}, op[c].temp)
  BY DEF FinishMount, MountScriptFails, histVars, mapVars, guardVars
<1>2. driver' \subseteq driver
  BY <1>1 DEF Call
<1>3. op[c].pc = "script" /\ op'[c].pc \in {"idle", "unmount"}
  BY DEF FinishMount, MountScriptFails, Shape, Idle, HoldVolume
<1>4. \A d \in Devices : Mounted(d) => Mounted(d)'
  BY <1>1 DEF Mounted
<1> QED BY <1>1, <1>2, <1>3, <1>4, LeftMoves

LEMMA SetVolumeLeft ==
    ASSUME Shape, LeftInv, NEW c \in Clients, NEW i \in Images, SetVolume(c, i) \/ SetDisplaced(c, i)
    PROVE  LeftInv'
<1>1. UNCHANGED <<leaked, attached, driver, op>>
  BY DEF SetVolume, SetDisplaced, ruleVars
<1>2. CASE SetVolume(c, i)
  <2>1. m_VolumesByGuid[i] \in Devices /\ m_Volumes[m_VolumesByGuid[i]].img \in Images
    BY <1>2, DevicesFinite DEF SetVolume, Shape
  <2>2. Mounted(m_VolumesByGuid[i])
    BY <2>1, EntryIsVolume
  <2>3. PICK S : Saving(S, {m_VolumesByGuid[i]})
    BY <1>2 DEF SetVolume
  <2>4. UNCHANGED m_VolumesByGuid
    BY <1>2 DEF SetVolume
  <2>5. OnlyDirty({m_VolumesByGuid[i]}, S)
    BY <2>1, <2>2, <2>3, SavingEntries
  <2>6. SameEntries
    BY <2>1, <2>2, <2>4, <2>5, OnlyDirtyIsSame
  <2>7. \A d \in Devices : Mounted(d)' <=> Mounted(d)
    BY <2>6, SameMounted
  <2> QED BY <1>1, <2>7, LeftStays
<1>3. CASE SetDisplaced(c, i)
  <2>1. \A d \in Devices : Mounted(d)' <=> Mounted(d)
    BY <1>3 DEF SetDisplaced, mapVars, guardVars, Mounted
  <2> QED BY <1>1, <2>1, LeftStays
<1> QED BY <1>2, <1>3

LEMMA SetUpProtectionLeft ==
    ASSUME Shape, OneClient, LeftInv, NEW c \in Clients, SetUpProtection(c)
    PROVE  LeftInv'
<1>1. op[c] \in Mounting /\ op[c].pc = "protect"
  BY RequestKind DEF SetUpProtection, Shape
<1>2. PICK temp \in {{Protect(op[c].id, op[c].dev)}, {}} :
        /\ Call(temp \cup Copies(op[c]), {})
        /\ op' = [op EXCEPT ![c].pc = "attach", ![c].temp = temp]
  BY DEF SetUpProtection
<1>3. op'[c].pc = "attach" /\ op'[c].temp = temp /\ op'[c].dev = op[c].dev /\ op'[c].id = op[c].id
  BY <1>1, <1>2 DEF Shape, Mounting
<1>4. driver' = driver \cup temp \cup Copies(op[c]) /\ UNCHANGED <<leaked, attached, m_Volumes>>
  BY <1>2 DEF SetUpProtection, Call, mapVars, guardVars, histVars
<1>5. \A x \in temp \cup Copies(op[c]) : x.dev = op[c].dev /\ (x \in temp \/ (x.t = "clone" /\ x.id = op[c].id))
  <2>1. Protect(op[c].id, op[c].dev).dev = op[c].dev
    BY DEF Protect
  <2>2. \A x \in temp : x.dev = op[c].dev
    BY <1>2, <2>1
  <2>3. \A x \in Copies(op[c]) : x.t = "clone" /\ x.id = op[c].id /\ x.dev = op[c].dev
    BY <1>1, CopiesShape
  <2> QED BY <2>2, <2>3
<1>6. \A x \in driver \ leaked : x.dev # 0 /\ ~Mounted(x.dev) => attached[x.dev] # None
  BY <1>1, LeftSays
<1>7. \A x \in driver' \ leaked' : x.dev # 0 /\ ~Mounted(x.dev)' =>
        \/ attached'[x.dev] # None
        \/ op'[c].dev = x.dev /\ (x \in op'[c].temp \/ (x.t = "clone" /\ x.id = op'[c].id))
  BY <1>3, <1>4, <1>5, <1>6 DEF Mounted
<1> QED BY <1>3, <1>7, LeftHolds

LEMMA AttachLeft ==
    ASSUME Shape, OneClient, LeftInv, NEW c \in Clients, Attach(c)
    PROVE  LeftInv'
<1>1. op[c] \in Mounting /\ op[c].pc = "attach"
  BY RequestKind DEF Attach, Shape
<1>2. op[c].dev \in Devices /\ op[c].img # None
  BY <1>1, NoneIsNoImage DEF Mounting
<1>3. /\ attached' = [attached EXCEPT ![op[c].dev] = op[c].img] /\ op'[c].pc = "enter"
      /\ UNCHANGED <<leaked, driver, m_Volumes>>
  BY DEF Attach, Shape, ruleVars, mapVars, guardVars, histVars
<1>4. \A d \in Devices : attached[d] # None \/ d = op[c].dev => attached'[d] # None
  BY <1>2, <1>3 DEF Shape
<1>5. ASSUME NEW x \in driver' \ leaked', x.dev # 0, ~Mounted(x.dev)'
      PROVE  attached'[x.dev] # None
  <2>1. x \in driver \ leaked /\ ~Mounted(x.dev) /\ x.dev \in Devices
    BY <1>3, <1>5, DriverRuleDevice DEF Mounted
  <2>2. attached[x.dev] # None \/ op[c].dev = x.dev
    BY <1>5, <2>1, LeftSays
  <2> QED BY <1>4, <2>1, <2>2
<1> QED BY <1>3, <1>5, LeftHolds

LEMMA AttachFailsLeft ==
    ASSUME Shape, OneClient, LeftInv, NEW c \in Clients, NEW t \in BOOLEAN, AttachFails(c, t)
    PROVE  LeftInv'
<1>1. op[c].pc = "attach" /\ op'[c].pc = "idle" /\ UNCHANGED <<attached, m_Volumes>>
  BY DEF AttachFails, Shape, Idle, mapVars, guardVars
<1>2. driver' = driver \ op[c].temp
      /\ leaked' = leaked \cup OnDevice({x \in driver : x.t = "clone" /\ x.id = op[c].id}, op[c].dev)
  BY DEF AttachFails, Call
<1>3. ASSUME NEW x \in driver' \ leaked', x.dev # 0, ~Mounted(x.dev)'
      PROVE  attached'[x.dev] # None
  <2>1. x \in driver \ leaked /\ ~Mounted(x.dev)
    BY <1>1, <1>2, <1>3 DEF Mounted
  <2>2. \/ attached[x.dev] # None
        \/ op[c].dev = x.dev /\ (x \in op[c].temp \/ (x.t = "clone" /\ x.id = op[c].id))
    BY <1>1, <1>3, <2>1, LeftSays
  <2> QED BY <1>1, <1>2, <2>1, <2>2 DEF OnDevice
<1> QED BY <1>1, <1>3, LeftHolds

LEMMA EnterLeft ==
    ASSUME Shape, OneClient, LeftInv, NEW c \in Clients, Enter(c)
    PROVE  LeftInv'
<1>1. op[c] \in Mounting /\ op[c].pc = "enter" /\ op'[c].pc = "script" /\ attached' = attached
  <2>1. op[c] \in Mounting
    BY RequestKind DEF Enter, Shape
  <2> QED BY <2>1 DEF Enter, Shape, Mounting
<1>2. op[c].dev \in Devices
  BY <1>1 DEF Mounting
<1>3. \A d \in Devices : Mounted(d)' <=> (Mounted(d) \/ d = op[c].dev)
  <2>1. PICK ok, granted \in BOOLEAN :
          m_Volumes' = [m_Volumes EXCEPT ![op[c].dev] = MountedVolume(op[c], ok, granted)]
    BY EnterEffect
  <2>2. MountedVolume(op[c], ok, granted) # NoVolume
    BY <1>1, MountedShape, VolumeIsEntry
  <2> QED BY <1>2, <2>1, <2>2 DEF Mounted, Shape
<1>4. leaked \subseteq leaked' /\ \A x \in driver' : x \in driver \/ x.dev = op[c].dev
  <2>1. PICK ok \in BOOLEAN :
          Call(IF op[c].prot /\ ok THEN {VolumeRule(r, op[c].dev) : r \in disk[op[c].img]} ELSE {}, {})
    BY DEF Enter
  <2>2. driver' = driver \cup (IF op[c].prot /\ ok THEN {VolumeRule(r, op[c].dev) : r \in disk[op[c].img]} ELSE {})
    BY <2>1 DEF Call
  <2>3. \A r : VolumeRule(r, op[c].dev).dev = op[c].dev
    BY DEF VolumeRule
  <2> QED BY <2>2, <2>3 DEF Enter
<1>5. ASSUME NEW x \in driver' \ leaked', x.dev # 0, ~Mounted(x.dev)'
      PROVE  attached'[x.dev] # None
  <2>1. x \in driver \ leaked
    BY <1>2, <1>3, <1>4, <1>5
  <2>2. x.dev \in Devices /\ ~Mounted(x.dev)
    BY <1>3, <1>5, <2>1, DriverRuleDevice
  <2> QED BY <1>1, <1>5, <2>1, <2>2, LeftSays
<1> QED BY <1>1, <1>5, LeftHolds

LEMMA CreatedLeft ==
    ASSUME Shape, OneClient, LeftInv, NEW c \in Clients, DetachCreated(c) \/ \E i \in Images : CreateImage(c, i)
    PROVE  LeftInv'
<1>1. UNCHANGED <<driver, leaked, m_Volumes>>
  BY DEF DetachCreated, CreateImage, ruleVars, histVars, mapVars, guardVars
<1>2. CASE DetachCreated(c)
  <2>1. op[c].pc = "created" /\ attached' = [attached EXCEPT ![op[c].dev] = None] /\ op'[c].pc = "idle"
    BY <1>2 DEF DetachCreated, Shape, Idle
  <2>2. \A d \in Devices : d # op[c].dev => attached'[d] = attached[d]
    BY <2>1 DEF Shape
  <2>3. ASSUME NEW x \in driver' \ leaked', x.dev # 0, ~Mounted(x.dev)'
        PROVE  attached'[x.dev] # None
    <3>1. x \in driver \ leaked /\ ~Mounted(x.dev) /\ x.dev \in Devices
      BY <1>1, <2>3, DriverRuleDevice DEF Mounted
    <3>2. attached[x.dev] # None /\ op[c].dev # x.dev
      BY <2>1, <2>3, <3>1, LeftSays
    <3> QED BY <2>2, <3>1, <3>2
  <2> QED BY <2>1, <2>3, LeftHolds
<1>3. ASSUME NEW i \in Images, CreateImage(c, i) PROVE LeftInv'
  <2>1. PICK d \in Devices : CanAttach(i, d) /\ attached' = [attached EXCEPT ![d] = i]
                             /\ op' = [op EXCEPT ![c] = [pc |-> "created", dev |-> d]]
    BY <1>3 DEF CreateImage
  <2>2. op'[c].pc = "created" /\ op'[c].dev = d /\ op[c].pc = "idle" /\ attached[d] = None
    BY <1>3, <2>1 DEF CreateImage, Shape, Idle, CanAttach
  <2>3. \A e \in Devices : e # d => attached'[e] = attached[e]
    BY <2>1 DEF Shape
  <2>4. ASSUME NEW x \in driver' \ leaked', x.dev # 0, ~Mounted(x.dev)'
        PROVE  attached'[x.dev] # None /\ op'[c].dev # x.dev
    <3>1. x \in driver \ leaked /\ ~Mounted(x.dev) /\ x.dev \in Devices
      BY <1>1, <2>4, DriverRuleDevice DEF Mounted
    <3>2. attached[x.dev] # None
      BY <2>2, <2>4, <3>1, LeftSays
    <3> QED BY <2>2, <2>3, <3>1, <3>2
  <2> QED BY <2>2, <2>4, LeftHolds
<1> QED BY <1>2, <1>3

\* What a dismount does to the entries: it may change whether one is dirty.
LEMMA UnmountSame ==
    ASSUME Shape, NEW c \in Clients, Unmount(c) \/ UnmountFails(c)
    PROVE  op[c] \in Dismounting /\ op[c].pc = "unmount" /\ op[c].dev \in Devices /\ SameEntries
<1>1. op[c] \in Dismounting /\ op[c].pc = "unmount"
  BY RequestKind DEF Unmount, UnmountFails, Shape
<1>2. op[c].dev \in Devices
  BY <1>1 DEF Dismounting
<1>3. m_VolumesByGuid' = m_VolumesByGuid
  BY DEF Unmount, UnmountFails
<1>4. \E S : Saving(S, Cleaned(op[c]))
  BY DEF Unmount, UnmountFails, SavingHeld, Cleaned
<1> QED BY <1>1, <1>2, <1>3, <1>4, ToSaveIsMounted, SavingEntries, OnlyDirtyIsSame

LEMMA UnmountLeft ==
    ASSUME Shape, OneClient, LeftInv, NEW c \in Clients, Unmount(c)
    PROVE  LeftInv'
<1>1. op[c] \in Dismounting /\ op[c].pc = "unmount" /\ op[c].dev \in Devices /\ \A d \in Devices : Mounted(d)' <=> Mounted(d)
  BY UnmountSame, SameMounted
<1>2. /\ attached' = [attached EXCEPT ![op[c].dev] = None] /\ UNCHANGED <<driver, leaked>>
      /\ op'[c].pc = "cleanup" /\ op'[c].dev = op[c].dev
  BY <1>1 DEF Unmount, ruleVars, Shape, Dismounting
<1>3. \A d \in Devices : d # op[c].dev => attached'[d] = attached[d]
  BY <1>2 DEF Shape
<1>4. ASSUME NEW x \in driver' \ leaked', x.dev # 0, ~Mounted(x.dev)'
      PROVE  attached'[x.dev] # None \/ op'[c].dev = x.dev
  <2>1. x \in driver \ leaked /\ ~Mounted(x.dev) /\ x.dev \in Devices
    BY <1>1, <1>2, <1>4, DriverRuleDevice
  <2>2. attached[x.dev] # None \/ op[c].dev = x.dev
    BY <1>1, <1>4, <2>1, LeftSays
  <2> QED BY <1>2, <1>3, <2>1, <2>2
<1> QED BY <1>2, <1>4, LeftHolds

LEMMA UnmountFailsLeft ==
    ASSUME Shape, OneClient, LeftInv, NEW c \in Clients, UnmountFails(c)
    PROVE  LeftInv'
<1>1. op[c] \in Dismounting /\ op[c].pc = "unmount" /\ op[c].dev \in Devices /\ \A d \in Devices : Mounted(d)' <=> Mounted(d)
  BY UnmountSame, SameMounted
<1>2. UNCHANGED <<attached, driver>> /\ leaked' = leaked \cup Abandoned(op[c].dev, attached)
  BY DEF UnmountFails, ruleVars
<1>3. op'[c].pc \in {"idle", "all"}
  BY DEF UnmountFails, Shape, Continue, Idle
<1>4. ASSUME NEW x \in driver' \ leaked', x.dev # 0, ~Mounted(x.dev)'
      PROVE  attached'[x.dev] # None
  <2>1. x \in driver \ leaked /\ ~Mounted(x.dev) /\ x.dev \in Devices
    BY <1>1, <1>2, <1>4, DriverRuleDevice
  <2>2. attached[x.dev] # None \/ op[c].dev = x.dev
    BY <1>1, <1>4, <2>1, LeftSays
  <2>3. x \notin Abandoned(op[c].dev, attached)
    BY <1>2, <1>4
  <2>4. op[c].dev = x.dev => attached[x.dev] # None
    BY <2>1, <2>3 DEF Abandoned, OnDevice
  <2> QED BY <1>2, <2>2, <2>4
<1> QED BY <1>3, <1>4, LeftHolds

LEMMA CleanUpVolumeLeft ==
    ASSUME Shape, OneClient, LeftInv, NEW c \in Clients, CleanUpVolume(c)
    PROVE  LeftInv'
<1>1. op[c] \in Dismounting /\ op[c].pc = "cleanup"
  BY RequestKind DEF CleanUpVolume, Shape
<1>2. op[c].dev \in Devices
  BY <1>1 DEF Dismounting
<1>3. /\ driver' = driver \ OnDevice(rules, op[c].dev)
      /\ leaked' = leaked \cup OnDevice(driver \ rules, op[c].dev)
      /\ attached' = attached
      /\ m_Volumes' = IF Mounted(op[c].dev) THEN [m_Volumes EXCEPT ![op[c].dev].loaded = FALSE] ELSE m_Volumes
      /\ op'[c] = IF op[c].via = "script" THEN Idle ELSE [op[c] EXCEPT !.pc = "erase"]
  BY DEF CleanUpVolume, Call, InMapFor, Escaped, Shape
<1>4. op'[c].pc \in {"idle", "erase"} /\ (op'[c].pc = "erase" => op'[c].dev = op[c].dev)
  BY <1>1, <1>3 DEF Idle, Dismounting
<1>5. \A x \in driver' \ leaked' : x \in driver \ leaked /\ x.dev # op[c].dev
  BY <1>3 DEF OnDevice
<1>6. \A d \in Devices : d # op[c].dev => m_Volumes'[d] = m_Volumes[d]
  BY <1>2, <1>3 DEF Shape
<1>7. ASSUME NEW x \in driver' \ leaked', x.dev # 0, ~Mounted(x.dev)'
      PROVE  attached'[x.dev] # None
  <2>1. x \in driver \ leaked /\ x.dev \in Devices /\ x.dev # op[c].dev
    BY <1>5, <1>7, DriverRuleDevice
  <2>2. ~Mounted(x.dev)
    BY <1>6, <1>7, <2>1 DEF Mounted
  <2> QED BY <1>1, <1>3, <1>7, <2>1, <2>2, LeftSays
<1> QED BY <1>4, <1>5, <1>7, LeftHolds

LEMMA EraseLeft ==
    ASSUME Shape, OneClient, LeftInv, NEW c \in Clients, Erase(c)
    PROVE  LeftInv'
<1>1. op[c] \in Dismounting /\ op[c].pc = "erase"
  BY RequestKind DEF Erase, Shape
<1>2. op[c].dev \in Devices
  BY <1>1 DEF Dismounting
<1>3. /\ m_Volumes' = [m_Volumes EXCEPT ![op[c].dev] = NoVolume] /\ UNCHANGED <<attached, driver, leaked>>
  BY DEF Erase, ruleVars
<1>4. op'[c].pc \in {"idle", "all", "release"}
  BY DEF Erase, Shape, Continue, Idle
<1>5. \A d \in Devices : d # op[c].dev => m_Volumes'[d] = m_Volumes[d]
  BY <1>2, <1>3 DEF Shape
<1>6. ASSUME NEW x \in driver' \ leaked', x.dev # 0, ~Mounted(x.dev)'
      PROVE  attached'[x.dev] # None
  <2>1. x \in driver \ leaked /\ x.dev \in Devices
    BY <1>3, <1>6, DriverRuleDevice
  <2>2. CASE x.dev = op[c].dev
    BY <1>1, <1>3, <2>1, <2>2, LeftSays
  <2>3. CASE x.dev # op[c].dev
    <3>1. ~Mounted(x.dev)
      BY <1>5, <1>6, <2>1, <2>3 DEF Mounted
    <3> QED BY <1>1, <1>3, <1>6, <2>1, <3>1, LeftSays
  <2> QED BY <2>2, <2>3
<1> QED BY <1>4, <1>6, LeftHolds

LEMMA UpdateLeft ==
    ASSUME Shape, OneClient, LeftInv, NEW c \in Clients, Update(c)
    PROVE  LeftInv'
<1>1. PICK l \in SUBSET Devices : \E S \in {Writable(DirtyIn(l)), {}} : Updated(c, l, S)
  BY UpdateEffect
<1>2. PICK S \in {Writable(DirtyIn(l)), {}} : Updated(c, l, S)
  BY <1>1
<1>3. /\ op[c].pc = "update" /\ op'[c].pc = "idle" /\ attached' = attached
      /\ m_Volumes' = EntriesAfter(l, S)
      /\ driver' = driver \ UNION {OnDevice(rules, d) : d \in GoneFrom(l)}
      /\ leaked' = leaked \cup UNION {OnDevice(driver \ rules, d) : d \in GoneFrom(l)}
  BY <1>2 DEF Updated, Call, InMapFor, Escaped, Shape, Idle
<1>4. ASSUME NEW x \in driver' \ leaked', x.dev # 0, ~Mounted(x.dev)'
      PROVE  attached'[x.dev] # None
  <2>1. x \in driver \ leaked
    BY <1>3, <1>4
  <2>2. x.dev \in Devices
    BY <1>4, <2>1, DriverRuleDevice
  <2>3. x.dev \notin GoneFrom(l)
    <3> SUFFICES ASSUME x.dev \in GoneFrom(l) PROVE FALSE
      OBVIOUS
    <3>1. CASE x \in rules
      BY <1>3, <1>4, <3>1 DEF OnDevice
    <3>2. CASE x \notin rules
      BY <1>3, <1>4, <2>1, <3>2 DEF OnDevice
    <3> QED BY <3>1, <3>2
  <2>4. ~Mounted(x.dev)
    <3>1. m_Volumes'[x.dev] = NoVolume
      BY <1>4 DEF Mounted
    <3>2. Mounted(x.dev) => x.dev \in l
      BY <2>2, <2>3 DEF GoneFrom
    <3>3. Mounted(x.dev) /\ x.dev \in l => EntriesAfter(l, S)[x.dev] # NoVolume
      <4>1. PICK d \in Devices : d = x.dev
        BY <2>2
      <4>2. Mounted(d) /\ d \in l => EntriesAfter(l, S)[d] # NoVolume
        BY EntriesAfterUpdate
      <4> QED BY <4>1, <4>2
    <3> QED BY <1>3, <3>1, <3>2, <3>3
  <2> QED BY <1>3, <1>4, <2>1, <2>4, LeftSays
<1> QED BY <1>3, <1>4, LeftHolds

LEMMA UpdateAccessRuleSame ==
    ASSUME Shape, UpdateAccessRule
    PROVE  SameEntries
<1> DEFINE m == Head(port)
<1>0. m = Head(port)
  OBVIOUS
<1> HIDE DEF m
<1>1. /\ port # <<>> /\ m_Volumes' = IF HitBy(m) THEN [m_Volumes EXCEPT ![m.rule.dev].dirty = TRUE] ELSE m_Volumes
      /\ UNCHANGED m_VolumesByGuid
  BY <1>0, UpdateAccessRuleEffect
<1>2. CASE HitBy(m)
  <2> DEFINE d == m.rule.dev
  <2>1. m.rule \in Rule
    BY <1>0, <1>1, PortHead
  <2>2. d \in Devices /\ Mounted(d)
    BY <1>2, <2>1 DEF HitBy, Rule
  <2>3. m_Volumes[d] \in Volume
    BY <2>2, EntryIsVolume
  <2>4. m_Volumes' = [m_Volumes EXCEPT ![d] = [m_Volumes[d] EXCEPT !.dirty = TRUE]]
    BY <1>1, <1>2
  <2> DEFINE w == [m_Volumes[d] EXCEPT !.dirty = TRUE]
  <2>5. w # NoVolume /\ w.img = m_Volumes[d].img /\ w.guarded = m_Volumes[d].guarded
    BY <2>3, DirtySet
  <2> HIDE DEF w
  <2>6. m_Volumes'[d] = w /\ \A e \in Devices : e # d => m_Volumes'[e] = m_Volumes[e]
    BY <2>2, <2>4 DEF Shape, w
  <2>7. m_Volumes[d] # NoVolume
    BY <2>2 DEF Mounted
  <2> QED BY <1>1, <2>5, <2>6, <2>7 DEF SameEntries
<1>3. CASE ~HitBy(m)
  BY <1>1, <1>3, UnchangedIsSame
<1> QED BY <1>2, <1>3

LEMMA UpdateAccessRuleLeft ==
    ASSUME Shape, LeftInv, UpdateAccessRule
    PROVE  LeftInv'
<1> DEFINE m == Head(port)
<1>0. m = Head(port)
  OBVIOUS
<1> HIDE DEF m
<1>1. /\ port # <<>> /\ ~m.own
      /\ driver' = driver \cup ClonesOf(m)
      /\ leaked' = leaked \cup {y \in ClonesOf(m) : attached[y.dev] = None}
      /\ UNCHANGED <<attached, op>>
  BY <1>0, UpdateAccessRuleEffect
<1>2. \A x \in ClonesOf(m) : x.dev \in Devices /\ Mounted(x.dev)
  BY <1>0, <1>1, PortHead, ClonesShape
<1>3. \A d \in Devices : Mounted(d)' <=> Mounted(d)
  BY UpdateAccessRuleSame, SameMounted
<1>4. ASSUME NEW x \in driver' \ leaked', x.dev # 0, ~Mounted(x.dev)'
      PROVE  Explained(x)'
  <2>1. x \in driver \ leaked
    BY <1>1, <1>2, <1>3, <1>4
  <2>2. x.dev \in Devices /\ ~Mounted(x.dev)
    BY <1>3, <1>4, <2>1, DriverRuleDevice
  <2>3. Explained(x)
    BY <1>4, <2>1, <2>2 DEF LeftInv
  <2> QED BY <1>1, <2>3 DEF Explained
<1>5. ASSUME NEW b \in Clients, op'[b].pc = "erase", NEW x \in driver' \ leaked', x.dev = op'[b].dev
      PROVE  attached'[x.dev] # None
  <2>1. CASE x \in ClonesOf(m)
    BY <1>1, <1>5, <2>1
  <2>2. CASE x \in driver \ leaked
    BY <1>1, <1>5, <2>2 DEF LeftInv
  <2> QED BY <1>1, <1>5, <2>1, <2>2
<1> QED BY <1>4, <1>5 DEF LeftInv

LEMMA EditsLeft ==
    ASSUME Shape, LeftInv, NEW x \in Rule, NEW o \in {"add", "del"}, NEW i \in Images, Edit(o, x, i),
           x.dev = 0 \/ (x.dev \in Devices /\ Mounted(x.dev) /\ attached[x.dev] # None)
    PROVE  LeftInv'
<1>1. driver' \subseteq driver \cup {x} /\ UNCHANGED <<leaked, attached, op, m_Volumes>>
  BY DEF Edit, mapVars, guardVars
<1>2. \A d : Mounted(d)' <=> Mounted(d)
  BY <1>1 DEF Mounted
<1>3. ASSUME NEW y \in driver' \ leaked', y.dev # 0, ~Mounted(y.dev)'
      PROVE  Explained(y)'
  <2>1. y \in driver \ leaked /\ ~Mounted(y.dev)
    BY <1>1, <1>2, <1>3
  <2>2. Explained(y)
    BY <1>3, <2>1 DEF LeftInv
  <2> QED BY <1>1, <2>2 DEF Explained
<1>4. ASSUME NEW b \in Clients, op'[b].pc = "erase", NEW y \in driver' \ leaked', y.dev = op'[b].dev
      PROVE  attached'[y.dev] # None
  <2>1. CASE y \in driver \ leaked
    BY <1>1, <1>4, <2>1 DEF LeftInv
  <2>2. CASE y = x
    <3>1. op[b] \in Dismounting
      BY <1>1, <1>4, RequestKind DEF Shape
    <3>2. y.dev \in Devices /\ y.dev # 0
      BY <1>1, <1>4, <3>1, DevicesFinite DEF Dismounting
    <3> QED BY <1>1, <2>2, <3>2
  <2> QED BY <1>1, <1>4, <2>1, <2>2
<1> QED BY <1>3, <1>4 DEF LeftInv

LEMMA HelperDiesLeft ==
    ASSUME Shape, LeftInv, HelperDies
    PROVE  LeftInv'
<1>1. PICK d \in Devices : attached' = [attached EXCEPT ![d] = None] /\ leaked' = leaked \cup Abandoned(d, attached')
  BY DEF HelperDies
<1>2. UNCHANGED <<driver, op, m_Volumes>>
  BY DEF HelperDies, ruleVars, mapVars, guardVars
<1>3. attached'[d] = None /\ \A e \in Devices : e # d => attached'[e] = attached[e]
  BY <1>1 DEF Shape
<1>4. ASSUME NEW x \in driver' \ leaked', x.dev # 0, ~Mounted(x.dev)'
      PROVE  Explained(x)'
  <2>1. x \in driver \ leaked /\ ~Mounted(x.dev) /\ x.dev \in Devices
    BY <1>1, <1>2, <1>4, DriverRuleDevice DEF Mounted
  <2>2. Explained(x)
    BY <1>4, <2>1 DEF LeftInv
  <2>3. x.dev # d
    BY <1>1, <1>2, <1>3, <1>4, <2>1 DEF Abandoned, OnDevice
  <2> QED BY <1>2, <1>3, <2>1, <2>2, <2>3 DEF Explained
<1>5. ASSUME NEW b \in Clients, op'[b].pc = "erase", NEW x \in driver' \ leaked', x.dev = op'[b].dev
      PROVE  attached'[x.dev] # None
  <2>1. x \in driver \ leaked /\ attached[x.dev] # None
    BY <1>1, <1>2, <1>5 DEF LeftInv
  <2>2. op[b] \in Dismounting
    BY <1>2, <1>5, RequestKind DEF Shape
  <2>3. x.dev \in Devices
    BY <1>2, <1>5, <2>2 DEF Dismounting
  <2>4. x.dev # d
    BY <1>1, <1>2, <1>3, <1>5, <2>1 DEF Abandoned, OnDevice
  <2> QED BY <1>3, <2>1, <2>3, <2>4
<1> QED BY <1>4, <1>5 DEF LeftInv

LEMMA RestartAgentLeft ==
    ASSUME Shape, RestartAgent
    PROVE  LeftInv'
<1>1. /\ op' = [c \in Clients |-> Idle] /\ UNCHANGED <<attached, driver>>
      /\ leaked' = leaked \cup {x \in driver : x.dev # 0 /\ attached[x.dev] = None}
  BY DEF RestartAgent
<1>2. \A c \in Clients : op'[c].pc = "idle"
  BY <1>1 DEF Idle
<1>3. \A x \in driver' \ leaked' : x.dev # 0 => attached'[x.dev] # None
  BY <1>1
<1>4. \A x \in driver' \ leaked' : x.dev # 0 => Explained(x)'
  BY <1>2, <1>3 DEF Explained
<1> QED BY <1>2, <1>4 DEF LeftInv

LEMMA LateAttachLeft ==
    ASSUME Shape, LeftInv, LateAttach
    PROVE  LeftInv'
<1>1. PICK m \in late : attached' = IF CanAttach(m[1], m[2]) THEN [attached EXCEPT ![m[2]] = m[1]] ELSE attached
  BY DEF LateAttach
<1>2. m[1] \in Images /\ m[2] \in Devices
  BY DEF Shape
<1>3. \A d \in Devices : attached[d] # None => attached'[d] # None
  BY <1>1, <1>2, NoneIsNoImage DEF Shape, CanAttach
<1>4. UNCHANGED <<driver, leaked, op, m_Volumes>>
  BY DEF LateAttach, ruleVars, mapVars, guardVars, histVars
<1>5. \A d \in Devices : Mounted(d)' <=> Mounted(d)
  BY <1>4 DEF Mounted
<1> QED BY <1>3, <1>4, <1>5, LeftStays

LEMMA OthersLeft ==
    ASSUME Shape, LeftInv,
           \/ \E d \in Devices, r \in Rules : EditVolumeRule(d, r)
           \/ \E i \in Images : EditHostRule(i)
           \/ OwnRuleChanged \/ UpdateRule \/ SetConfig \/ UNCHANGED vars
    PROVE  LeftInv'
<1>1. ASSUME NEW d \in Devices, NEW r \in Rules, EditVolumeRule(d, r) PROVE LeftInv'
  <2>1. PICK o \in {"add", "del"} : Edit(o, VolumeRule(r, d), m_Volumes[d].img)
    BY <1>1, EditVolumeRuleEffect
  <2>2. Mounted(d) /\ attached[d] = m_Volumes[d].img /\ attached[d] \in Images
    BY <1>1, EditVolumeRuleEffect
  <2>3. VolumeRule(r, d) \in Rule /\ VolumeRule(r, d).dev = d
    BY VolumeRuleIsRule DEF VolumeRule
  <2> QED BY <2>1, <2>2, <2>3, EditsLeft, NoneIsNoImage
<1>2. ASSUME NEW i \in Images, EditHostRule(i) PROVE LeftInv'
  <2>1. PICK o \in {"add", "del"} : Edit(o, HostRule(i), i)
    BY <1>2 DEF EditHostRule
  <2>2. HostRule(i) \in Rule /\ HostRule(i).dev = 0
    BY HostRuleIsRule DEF HostRule
  <2> QED BY <2>1, <2>2, EditsLeft
<1>3. ASSUME OwnRuleChanged \/ UpdateRule \/ SetConfig \/ UNCHANGED vars PROVE LeftInv'
  <2>1. UNCHANGED <<driver, leaked, op, m_Volumes, attached>>
    BY <1>3 DEF OwnRuleChanged, UpdateRule, SetConfig, mapVars, guardVars, histVars, vars, ruleVars
  <2>2. \A d \in Devices : Mounted(d)' <=> Mounted(d)
    BY <2>1 DEF Mounted
  <2> QED BY <2>1, <2>2, LeftStays
<1> QED BY <1>1, <1>2, <1>3

LEMMA LeftStep == OneClient /\ Shape /\ LeftInv /\ [Next]_vars => LeftInv'
<1> SUFFICES ASSUME OneClient, Shape, LeftInv, [Next]_vars PROVE LeftInv'
  OBVIOUS
<1>1. ASSUME NEW c \in Clients, ClientNext(c) PROVE LeftInv'
  <2>1. ASSUME NEW t \in BOOLEAN, AttachFails(c, t) PROVE LeftInv'
    BY <2>1, AttachFailsLeft
  <2>2. ASSUME NEW i \in Images, CreateImage(c, i) PROVE LeftInv'
    BY <2>2, CreatedLeft
  <2>3. ASSUME NEW d \in Devices, DismountVolume(c, d) PROVE LeftInv'
    BY <2>3, PlainLeft
  <2>4. ASSUME NEW i \in Images, SetVolume(c, i) \/ SetDisplaced(c, i) PROVE LeftInv'
    BY <2>4, SetVolumeLeft
  <2>5. ASSUME NEW i \in Images, NEW p \in BOOLEAN, NEW k \in BOOLEAN, MountImage(c, i, p, k) PROVE LeftInv'
    BY <2>5, PlainLeft
  <2>6. JunctionFails(c) \/ DismountAll(c) \/ NextOfAll(c) \/ AllDone(c) \/ ReleaseGuard(c) \/ TakeDeviceList(c) => LeftInv'
    BY PlainLeft
  <2>7. SetUpProtection(c) \/ Attach(c) \/ Enter(c) \/ FinishMount(c) \/ MountScriptFails(c) \/ DetachCreated(c) => LeftInv'
    BY SetUpProtectionLeft, AttachLeft, EnterLeft, ScriptLeft, CreatedLeft
  <2>8. Unmount(c) \/ UnmountFails(c) \/ CleanUpVolume(c) \/ Erase(c) \/ Update(c) => LeftInv'
    BY UnmountLeft, UnmountFailsLeft, CleanUpVolumeLeft, EraseLeft, UpdateLeft
  <2> QED BY <1>1, <2>1, <2>2, <2>3, <2>4, <2>5, <2>6, <2>7, <2>8 DEF ClientNext
<1>2. ASSUME NEW d \in Devices, NEW r \in Rules, EditVolumeRule(d, r) PROVE LeftInv'
  BY <1>2, OthersLeft
<1>3. ASSUME NEW i \in Hosted, EditHostRule(i) PROVE LeftInv'
  BY <1>3, OthersLeft, VolumesAssumption
<1>4. OwnRuleChanged \/ UpdateRule \/ SetConfig \/ UNCHANGED vars => LeftInv'
  BY OthersLeft
<1> QED BY <1>1, <1>2, <1>3, <1>4, UpdateAccessRuleLeft, LateAttachLeft, HelperDiesLeft, RestartAgentLeft DEF Next

LEMMA InitLeft == Init => LeftInv
<1> SUFFICES ASSUME Init PROVE LeftInv
  OBVIOUS
<1>1. \A x \in driver : x.dev = 0
  BY DEF Init, HostRule
<1>2. \A c \in Clients : op[c].pc = "idle"
  BY DEF Init, Idle
<1> QED BY <1>1, <1>2 DEF LeftInv

\* At rest, and while requests are served one at a time, a rule the driver has
\* for a device that no volume uses got there behind the clean-up.
THEOREM LeftoversKnown == OneClient => (Spec => []LeftoversExplained)
<1> SUFFICES ASSUME OneClient PROVE Spec => []LeftoversExplained
  OBVIOUS
<1>1. Init => Shape /\ LeftInv
  BY ShapeInit, InitLeft
<1>2. Shape /\ LeftInv /\ [Next]_vars => (Shape /\ LeftInv)'
  BY ShapeStep, LeftStep
<1>3. Shape /\ LeftInv => LeftoversExplained
  <2> SUFFICES ASSUME Shape, LeftInv, AtRest, NEW x \in driver, x.dev # 0, attached[x.dev] = None, ~Mounted(x.dev),
                      x \notin leaked
               PROVE  FALSE
    BY DEF LeftoversExplained
  <2>1. Explained(x)
    BY DEF LeftInv
  <2>2. \A c \in Clients : op[c].pc = "idle"
    BY DEF AtRest, Idle
  <2> QED BY <2>1, <2>2 DEF Explained
<1> QED BY <1>1, <1>2, <1>3, PTL DEF Spec

-----------------------------------------------------------------------------
(* The user's edits, for any number of clients *)

LEMMA InPortUsers ==
    ASSUME port \in Seq(Msg), NEW i
    PROVE  InPort(i) <=> \E m \in Users(port) : m.img = i /\ m.rule.t = "volume"
BY DEF InPort, Users

LEMMA SamePortUsers ==
    ASSUME port \in Seq(Msg), port' \in Seq(Msg), Users(port) \subseteq Users(port')
    PROVE  \A i : InPort(i) => InPort(i)'
<1> SUFFICES ASSUME NEW i, InPort(i) PROVE InPort(i)'
  OBVIOUS
<1>1. PICK m \in Users(port) : m.img = i /\ m.rule.t = "volume"
  BY InPortUsers
<1>2. PICK k \in DOMAIN port' : ~port'[k].own /\ m = port'[k]
  BY <1>1 DEF Users
<1> QED BY <1>1, <1>2 DEF InPort

\* The rules of volumes that the driver has.
SameInDriver(d) == \A r \in Rules : VolumeRule(r, d) \in driver' <=> VolumeRule(r, d) \in driver

LEMMA InDriverStays ==
    ASSUME NEW i, InDriver(i), wanted'[i] = wanted[i], leaked \subseteq leaked',
           \A d \in Devices : Mounted(d)' /\ m_Volumes'[d].img = i /\ m_Volumes'[d].loaded =>
               Mounted(d) /\ m_Volumes[d].img = i /\ m_Volumes[d].loaded /\ SameInDriver(d)
    PROVE  InDriver(i)'
BY DEF InDriver, SameInDriver

\* Steps that leave the entries, the files and the user's changes alone.
LEMMA KeptStays ==
    ASSUME KeptInv, lost \subseteq lost', leaked \subseteq leaked', UNCHANGED <<wanted, disk, m_Volumes>>,
           \A i : InPort(i) => InPort(i)', \A d \in Devices : SameInDriver(d)
    PROVE  KeptInv'
<1> SUFFICES ASSUME NEW i \in Images \ lost' PROVE (OneEntry(i) /\ InDriver(i) /\ OnFile(i))'
  BY DEF KeptInv
<1>1. OneEntry(i) /\ InDriver(i) /\ OnFile(i)
  BY DEF KeptInv
<1>2. \A d \in Devices : (Mounted(d)' <=> Mounted(d)) /\ m_Volumes'[d] = m_Volumes[d]
  BY DEF Mounted
<1>3. OneEntry(i)'
  BY <1>1, <1>2 DEF OneEntry
<1>4. InDriver(i)'
  BY <1>1, <1>2, InDriverStays
<1>5. Dirty(i) => Dirty(i)'
  BY <1>2 DEF Dirty
<1>6. OnFile(i)'
  BY <1>1, <1>5 DEF OnFile
<1> QED BY <1>3, <1>4, <1>6

\* A call about other rules than those of volumes.
LEMMA CallKeeps ==
    ASSUME Shape, NEW new, new \subseteq Rule, IsFiniteSet(new), NEW old, Call(new, old),
           \A x \in new \cup old : x.t # "volume"
    PROVE  (\A d \in Devices : SameInDriver(d)) /\ \A i : InPort(i) => InPort(i)'
<1>1. driver' = (driver \ old) \cup new /\ port' \in Seq(Msg) /\ Users(port') = Users(port)
  BY CallEffect DEF Shape
<1>2. \A r, d : VolumeRule(r, d).t = "volume"
  BY DEF VolumeRule
<1>3. \A i : InPort(i) => InPort(i)'
  BY <1>1, SamePortUsers DEF Shape
<1> QED BY <1>1, <1>2, <1>3 DEF SameInDriver

LEMMA SameRulesKeep ==
    ASSUME UNCHANGED <<driver, port>>
    PROVE  (\A d \in Devices : SameInDriver(d)) /\ \A i : InPort(i) => InPort(i)'
BY DEF SameInDriver, InPort

LEMMA PlainKept ==
    ASSUME KeptInv, NEW c \in Clients,
           \/ \E i \in Images, p, k \in BOOLEAN : MountImage(c, i, p, k)
           \/ Attach(c) \/ JunctionFails(c) \/ \E i \in Images : CreateImage(c, i)
           \/ DetachCreated(c) \/ \E d \in Devices : DismountVolume(c, d)
           \/ DismountAll(c) \/ NextOfAll(c) \/ AllDone(c) \/ ReleaseGuard(c) \/ TakeDeviceList(c)
    PROVE  KeptInv'
<1>1. UNCHANGED <<driver, port, leaked, lost, wanted, disk, m_Volumes>>
  BY DEF MountImage, Attach, JunctionFails, CreateImage, DetachCreated, DismountVolume, DismountAll, NextOfAll,
         AllDone, ReleaseGuard, TakeDeviceList, ruleVars, histVars, mapVars
<1> QED BY <1>1, KeptStays, SameRulesKeep

\* The temporary rule and the copies of a mount are no rules of the volume.
LEMMA MountKept ==
    ASSUME Shape, KeptInv, NEW c \in Clients,
           \/ SetUpProtection(c) \/ FinishMount(c) \/ MountScriptFails(c)
           \/ \E t \in BOOLEAN : AttachFails(c, t)
    PROVE  KeptInv'
<1>1. UNCHANGED <<wanted, disk, m_Volumes, lost>> /\ leaked \subseteq leaked'
  BY DEF SetUpProtection, FinishMount, MountScriptFails, AttachFails, mapVars, guardVars, histVars
<1>2. op[c] \in Mounting
  BY RequestKind DEF SetUpProtection, FinishMount, MountScriptFails, AttachFails, Shape
<1>3. (\A d \in Devices : SameInDriver(d)) /\ \A i : InPort(i) => InPort(i)'
  <2>1. CASE SetUpProtection(c)
    <3>1. PICK temp \in {{Protect(op[c].id, op[c].dev)}, {}} : Call(temp \cup Copies(op[c]), {})
      BY <2>1 DEF SetUpProtection
    <3>2. temp \subseteq Rule /\ IsFiniteSet(temp) /\ \A x \in temp : x.t # "volume"
      <4>1. IsFiniteSet({}) /\ IsFiniteSet({Protect(op[c].id, op[c].dev)})
        BY FS_EmptySet, FS_Singleton
      <4>2. Protect(op[c].id, op[c].dev) \in Rule
        BY <1>2, CopiesShape
      <4>3. Protect(op[c].id, op[c].dev).t = "protect"
        BY DEF Protect
      <4> QED BY <3>1, <4>1, <4>2, <4>3
    <3>3. Copies(op[c]) \subseteq Rule /\ IsFiniteSet(Copies(op[c])) /\ \A x \in Copies(op[c]) : x.t = "clone"
      BY <1>2, CopiesShape
    <3>4. temp \cup Copies(op[c]) \subseteq Rule /\ IsFiniteSet(temp \cup Copies(op[c]))
          /\ \A x \in temp \cup Copies(op[c]) : x.t # "volume"
      BY <3>2, <3>3, FS_Union
    <3> QED BY <3>1, <3>4, CallKeeps
  <2>2. CASE ~SetUpProtection(c)
    <3>1. Call({}, op[c].temp)
      BY <2>2 DEF FinishMount, MountScriptFails, AttachFails
    <3>2. op[c].temp \subseteq Temps
      BY <1>2 DEF Mounting
    <3>3. \A x \in op[c].temp : x.t # "volume"
      BY <3>2 DEF Temps
    <3> QED BY <3>1, <3>3, CallKeeps, FS_EmptySet
  <2> QED BY <2>1, <2>2
<1> QED BY <1>1, <1>3, KeptStays

\* A save: what the file of an image that is not lost has afterwards.
LEMMA SaveKeeps ==
    ASSUME Shape, Distinct, KeptInv, NEW S, S \subseteq Devices, NEW i \in Images \ lost,
           i \notin Overwritten(S)
    PROVE  \/ SavedDisk(S)[i] = wanted[i]
           \/ InPort(i)
           \/ SavedDisk(S)[i] = disk[i] /\ \A d \in S : m_Volumes[d].img # i
<1>1. i \in Images /\ i # None
  BY NoneIsNoImage
<1>2. CASE \E d \in S : attached[d] = i
  <2>1. PICK d \in S : attached[d] = i
    BY <1>2
  <2>2. (CHOOSE e \in S : attached[e] = i) = d
    BY <1>1, <2>1 DEF Distinct
  <2>3. SavedDisk(S)[i] = StoredIn(rules, d)
    BY <1>2, <2>2 DEF SavedDisk
  <2>4. /\ m_Volumes[d].img = i /\ m_Volumes[d].loaded
        /\ Unseen(d) = {} /\ OnDevice(leaked \cap rules, d) = {}
    <3>1. ~Misplaced(d)
      BY <1>1, <2>1, OverwrittenSays
    <3> QED BY <2>1, <3>1 DEF Misplaced
  <2>5. d \in Devices /\ Mounted(d)
    BY <1>1, <2>1, <2>4, EntryIsVolume
  <2> SUFFICES ASSUME ~InPort(i) PROVE StoredIn(rules, d) = wanted[i]
    BY <2>3
  <2>6. ASSUME NEW r \in Rules PROVE VolumeRule(r, d) \in rules <=> VolumeRule(r, d) \in driver
    <3> SUFFICES ASSUME (VolumeRule(r, d) \in rules) # (VolumeRule(r, d) \in driver) PROVE FALSE
      OBVIOUS
    <3>1. VolumeRule(r, d).t = "volume" /\ VolumeRule(r, d).dev = d
      BY DEF VolumeRule
    <3>2. VolumeRule(r, d) \in OnDevice(driver \cup rules, d)
      BY <3>1 DEF OnDevice
    <3>3. \E k \in DOMAIN port : port[k].rule = VolumeRule(r, d) /\ ~port[k].own /\ port[k].img = m_Volumes[d].img
      BY <2>4, <3>1, <3>2 DEF Unseen
    <3> QED BY <2>4, <3>1, <3>3 DEF InPort
  <2>7. ASSUME NEW r \in Rules PROVE r \in StoredIn(rules, d) <=> VolumeRule(r, d) \in rules
    <3>1. VolumeRule(r, d).t = "volume" /\ VolumeRule(r, d).dev = d /\ VolumeRule(r, d).id = r
      BY DEF VolumeRule
    <3>2. ASSUME NEW y \in rules, y.t = "volume", y.dev = d, y.id = r PROVE y = VolumeRule(r, d)
      <4>1. y \in Rule
        BY DEF Shape
      <4>2. y \in [t : {"volume"}, id : Rules, dev : Devices]
        BY <3>2, <4>1 DEF Rule
      <4> QED BY <3>2, <4>2 DEF VolumeRule
    <3> QED BY <3>1, <3>2 DEF StoredIn, OnDevice
  <2>8. ASSUME NEW r \in Rules PROVE r \in wanted[i] <=> VolumeRule(r, d) \in driver
    <3>1. /\ r \in wanted[i] => VolumeRule(r, d) \in driver
          /\ VolumeRule(r, d) \in driver => r \in wanted[i] \/ VolumeRule(r, d) \in leaked
      BY <2>4, <2>5 DEF KeptInv, InDriver
    <3>2. VolumeRule(r, d) \in rules => VolumeRule(r, d) \notin leaked
      BY <2>4 DEF OnDevice, VolumeRule
    <3> QED BY <2>6, <3>1, <3>2
  <2>9. StoredIn(rules, d) \subseteq Rules /\ wanted[i] \subseteq Rules
    BY StoredAreRules DEF Shape
  <2> QED BY <2>6, <2>7, <2>8, <2>9
<1>3. CASE ~\E d \in S : attached[d] = i
  <2>1. SavedDisk(S)[i] = disk[i]
    BY <1>3 DEF SavedDisk
  <2>2. \A d \in S : m_Volumes[d].img # i
    <3> SUFFICES ASSUME NEW d \in S, m_Volumes[d].img = i PROVE FALSE
      OBVIOUS
    <3>1. Misplaced(d)
      BY <1>3 DEF Misplaced
    <3> QED BY <1>1, <3>1, OverwrittenSays
  <2> QED BY <2>1, <2>2
<1> QED BY <1>2, <1>3

LEMMA SavingKept ==
    ASSUME Shape, Distinct, KeptInv, NEW D, D \subseteq Devices, \A d \in D : Mounted(d),
           NEW S, S \subseteq Devices, \A d \in S : attached[d] # None, Saving(S, D),
           UNCHANGED <<driver, port, wanted>>, leaked \subseteq leaked'
    PROVE  KeptInv'
<1> SUFFICES ASSUME NEW i \in Images \ lost' PROVE (OneEntry(i) /\ InDriver(i) /\ OnFile(i))'
  BY DEF KeptInv
<1>1. i \in Images \ lost /\ i \notin Overwritten(S) /\ disk' = SavedDisk(S)
  BY DEF Saving
<1>2. OneEntry(i) /\ InDriver(i) /\ OnFile(i)
  BY <1>1 DEF KeptInv
<1>3. OnlyDirty(D, S)
  BY SavingEntries
<1>4. \A d \in Devices : /\ Mounted(d)' <=> Mounted(d)
                         /\ m_Volumes'[d].img = m_Volumes[d].img
                         /\ Mounted(d) => m_Volumes'[d].loaded = m_Volumes[d].loaded
                         /\ Mounted(d) /\ m_Volumes[d].dirty /\ d \notin S => m_Volumes'[d].dirty
  BY <1>3 DEF OnlyDirty, Mounted, StillDirty
<1>5. OneEntry(i)'
  BY <1>2, <1>4 DEF OneEntry
<1>6. InDriver(i)'
  BY <1>2, <1>4, InDriverStays DEF SameInDriver
<1>7. InPort(i) => InPort(i)'
  BY DEF InPort
<1>8. (\A d \in S : m_Volumes[d].img # i) /\ Dirty(i) => Dirty(i)'
  BY <1>4 DEF Dirty
<1>9. OnFile(i)'
  BY <1>1, <1>2, <1>7, <1>8, SaveKeeps DEF OnFile
<1> QED BY <1>5, <1>6, <1>9

LEMMA UnmountKept ==
    ASSUME Shape, Distinct, KeptInv, NEW c \in Clients, Unmount(c) \/ UnmountFails(c)
    PROVE  KeptInv'
<1>1. op[c].dev \in Devices
  BY UnmountSame
<1>2. \E S \in {CanSave(op[c]), {}} : Saving(S, Cleaned(op[c]))
  BY DEF Unmount, UnmountFails, SavingHeld, Cleaned
<1>3. UNCHANGED <<driver, port, wanted>> /\ leaked \subseteq leaked'
  BY DEF Unmount, UnmountFails, ruleVars
<1> QED BY <1>1, <1>2, <1>3, ToSaveIsMounted, CanSaveDevices, SavingKept

LEMMA SetVolumeKept ==
    ASSUME Shape, Distinct, KeptInv, NEW c \in Clients, NEW i \in Images, SetVolume(c, i)
    PROVE  KeptInv'
<1>1. m_VolumesByGuid[i] \in Devices /\ m_Volumes[m_VolumesByGuid[i]].img \in Images
  BY DevicesFinite DEF SetVolume, Shape
<1>2. Mounted(m_VolumesByGuid[i])
  BY <1>1, EntryIsVolume
<1>3. PICK S \in {Writable({m_VolumesByGuid[i]}), {}} : Saving(S, {m_VolumesByGuid[i]})
  BY DEF SetVolume
<1>4. UNCHANGED <<driver, port, wanted, leaked>>
  BY DEF SetVolume, ruleVars
<1>5. S \subseteq Devices /\ \A d \in S : attached[d] # None
  BY <1>1, <1>3, WritableDevices
<1> QED BY <1>1, <1>2, <1>3, <1>4, <1>5, SavingKept

LEMMA SetDisplacedKept ==
    ASSUME Shape, KeptInv, NEW c \in Clients, NEW i \in Images, SetDisplaced(c, i)
    PROVE  KeptInv'
<1> DEFINE d == m_VolumesByGuid[i]
<1>1. /\ disk' = SavedDisk({d}) /\ lost' = lost \cup {attached[d]}
      /\ UNCHANGED <<driver, port, wanted, leaked, m_Volumes>>
  BY DEF SetDisplaced, ruleVars, mapVars, guardVars
<1> HIDE DEF d
<1> SUFFICES ASSUME NEW j \in Images \ lost' PROVE (OneEntry(j) /\ InDriver(j) /\ OnFile(j))'
  BY DEF KeptInv
<1>2. j \in Images \ lost /\ j # attached[d]
  BY <1>1
<1>3. disk'[j] = disk[j]
  BY <1>1, <1>2 DEF SavedDisk
<1>4. OneEntry(j) /\ InDriver(j) /\ OnFile(j)
  BY <1>2 DEF KeptInv
<1>5. OneEntry(j)' /\ InDriver(j)'
  BY <1>1, <1>4 DEF OneEntry, InDriver, Mounted
<1>6. OnFile(j)'
  BY <1>1, <1>3, <1>4 DEF OnFile, InPort, Dirty, Mounted
<1> QED BY <1>5, <1>6

LEMMA CleanUpVolumeKept ==
    ASSUME Shape, KeptInv, NEW c \in Clients, CleanUpVolume(c)
    PROVE  KeptInv'
<1>1. op[c] \in Dismounting
  BY RequestKind DEF CleanUpVolume, Shape
<1>2. PICK d \in Devices : d = op[c].dev
  BY <1>1 DEF Dismounting
<1>3. /\ Call({}, OnDevice(rules, d)) /\ leaked \subseteq leaked' /\ UNCHANGED <<wanted, disk, lost>>
      /\ m_Volumes' = IF Mounted(d) THEN [m_Volumes EXCEPT ![d].loaded = FALSE] ELSE m_Volumes
  BY <1>2 DEF CleanUpVolume, InMapFor
<1>4. \A e \in Devices : /\ Mounted(e)' <=> Mounted(e)
                         /\ m_Volumes'[e].img = m_Volumes[e].img
                         /\ Mounted(e) => m_Volumes'[e].dirty = m_Volumes[e].dirty
                         /\ Mounted(e) /\ m_Volumes'[e].loaded => m_Volumes[e].loaded /\ e # d
  <2>1. CASE Mounted(d)
    <3>1. m_Volumes[d] \in Volume
      BY <2>1, EntryIsVolume
    <3> DEFINE w == [m_Volumes[d] EXCEPT !.loaded = FALSE]
    <3>2. w \in Volume /\ w.img = m_Volumes[d].img /\ w.dirty = m_Volumes[d].dirty /\ ~w.loaded
      BY <3>1 DEF Volume
    <3>3. m_Volumes'[d] = w /\ \A e \in Devices : e # d => m_Volumes'[e] = m_Volumes[e]
      BY <1>3, <2>1 DEF Shape
    <3> HIDE DEF w
    <3>4. w # NoVolume
      BY <3>2, VolumeIsEntry
    <3> QED BY <2>1, <3>2, <3>3, <3>4 DEF Mounted
  <2>2. CASE ~Mounted(d)
    <3>1. m_Volumes' = m_Volumes
      BY <1>3, <2>2
    <3> QED BY <2>2, <3>1 DEF Mounted
  <2> QED BY <2>1, <2>2
<1>5. driver' = driver \ OnDevice(rules, d) /\ \A i : InPort(i) => InPort(i)'
  <2>1. driver' = (driver \ OnDevice(rules, d)) \cup {} /\ port' \in Seq(Msg) /\ Users(port') = Users(port)
    BY <1>3, CallEffect, FS_EmptySet DEF Shape
  <2> QED BY <2>1, SamePortUsers DEF Shape
<1>6. \A e \in Devices : e # d => SameInDriver(e)
  <2>1. \A r, e : VolumeRule(r, e).dev = e
    BY DEF VolumeRule
  <2> QED BY <1>5, <2>1 DEF SameInDriver, OnDevice
<1> SUFFICES ASSUME NEW i \in Images \ lost' PROVE (OneEntry(i) /\ InDriver(i) /\ OnFile(i))'
  BY DEF KeptInv
<1>7. OneEntry(i) /\ InDriver(i) /\ OnFile(i)
  BY <1>3 DEF KeptInv
<1>8. OneEntry(i)'
  BY <1>4, <1>7 DEF OneEntry
<1>9. InDriver(i)'
  BY <1>3, <1>4, <1>6, <1>7, InDriverStays
<1>10. Dirty(i) => Dirty(i)'
  BY <1>4 DEF Dirty
<1>11. OnFile(i)'
  BY <1>3, <1>5, <1>7, <1>10 DEF OnFile
<1> QED BY <1>8, <1>9, <1>11

LEMMA EraseKept ==
    ASSUME Shape, KeptInv, NEW c \in Clients, Erase(c)
    PROVE  KeptInv'
<1>1. op[c] \in Dismounting
  BY RequestKind DEF Erase, Shape
<1>2. PICK d \in Devices : d = op[c].dev
  BY <1>1 DEF Dismounting
<1>3. /\ m_Volumes' = [m_Volumes EXCEPT ![d] = NoVolume] /\ lost' = lost \cup Unsaved({d})
      /\ UNCHANGED <<wanted, disk, driver, port, leaked>>
  BY <1>2 DEF Erase, ruleVars
<1>4. \A e \in Devices : /\ Mounted(e)' => Mounted(e) /\ e # d /\ m_Volumes'[e] = m_Volumes[e]
                         /\ Mounted(e) /\ e # d => Mounted(e)'
  BY <1>3 DEF Mounted, Shape
<1> SUFFICES ASSUME NEW i \in Images \ lost' PROVE (OneEntry(i) /\ InDriver(i) /\ OnFile(i))'
  BY DEF KeptInv
<1>5. OneEntry(i) /\ InDriver(i) /\ OnFile(i)
  BY <1>3 DEF KeptInv
<1>6. OneEntry(i)'
  BY <1>4, <1>5 DEF OneEntry
<1>7. InDriver(i)'
  BY <1>3, <1>4, <1>5, InDriverStays DEF SameInDriver
<1>8. Dirty(i) => Dirty(i)'
  <2> SUFFICES ASSUME NEW e \in Devices, Mounted(e), m_Volumes[e].img = i, m_Volumes[e].dirty PROVE Dirty(i)'
    BY DEF Dirty
  <2>1. e # d
    BY <1>3 DEF Unsaved
  <2>2. Mounted(e)' /\ m_Volumes'[e] = m_Volumes[e]
    BY <1>4, <2>1
  <2> QED BY <2>2 DEF Dirty
<1>9. OnFile(i)'
  BY <1>3, <1>5, <1>8 DEF OnFile, InPort
<1> QED BY <1>6, <1>7, <1>9

LEMMA EnterKept ==
    ASSUME Shape, KeptInv, NEW c \in Clients, Enter(c)
    PROVE  KeptInv'
<1>1. op[c] \in Mounting
  BY RequestKind DEF Enter, Shape
<1>2. PICK j \in Images, d \in Devices : j = op[c].img /\ d = op[c].dev
  BY <1>1 DEF Mounting
<1>0. PICK ok, granted \in BOOLEAN :
        /\ m_Volumes' = [m_Volumes EXCEPT ![op[c].dev] = MountedVolume(op[c], ok, granted)]
        /\ Call(IF op[c].prot /\ ok THEN {VolumeRule(r, op[c].dev) : r \in disk[op[c].img]} ELSE {}, {})
  BY EnterEffect
<1>3. /\ m_Volumes' = [m_Volumes EXCEPT ![d] = MountedVolume(op[c], ok, granted)]
      /\ Call(IF op[c].prot /\ ok THEN {VolumeRule(r, d) : r \in disk[j]} ELSE {}, {})
  BY <1>0, <1>2
<1>4. /\ lost' = lost \cup Unsaved({d})
                   \cup {i \in {j} : i \in Underway \/ EnteredAt(i, Devices \ {d})}
      /\ leaked' = leaked \cup {x \in OnDevice(driver, d) : x.t = "volume"}
      /\ UNCHANGED <<disk, wanted>>
  BY <1>2 DEF Enter
<1> DEFINE v == MountedVolume(op[c], ok, granted)
<1> DEFINE new == IF op[c].prot /\ ok THEN {VolumeRule(r, d) : r \in disk[j]} ELSE {}
<1>5. v \in Volume /\ v.img = j /\ (v.loaded => op[c].prot /\ ok)
  BY <1>1, <1>2, MountedShape
<1>6. m_Volumes'[d] = v /\ v # NoVolume /\ \A e \in Devices : e # d => m_Volumes'[e] = m_Volumes[e]
  BY <1>3, <1>5, VolumeIsEntry DEF Shape
<1>7. driver' = driver \cup new /\ \A i : InPort(i) => InPort(i)'
  <2>1. disk[j] \subseteq Rules
    BY DEF Shape
  <2>2. new \subseteq Rule /\ IsFiniteSet(new)
    BY <2>1, VolumeRulesShape, FS_EmptySet
  <2>3. Call(new, {})
    BY <1>3
  <2> HIDE DEF new
  <2>4. driver' = (driver \ {}) \cup new /\ port' \in Seq(Msg) /\ Users(port') = Users(port)
    BY <2>2, <2>3, CallEffect DEF Shape
  <2> QED BY <2>4, SamePortUsers DEF Shape
<1>8. v.loaded => new = {VolumeRule(r, d) : r \in disk[j]}
  BY <1>5
<1>9. \A x \in new : \E r \in disk[j] : x = VolumeRule(r, d)
  OBVIOUS
<1> HIDE DEF v, new
<1>10. \A e \in Devices : e # d => /\ SameInDriver(e) /\ m_Volumes'[e] = m_Volumes[e]
                                   /\ Mounted(e)' <=> Mounted(e)
  <2>1. \A r, e : VolumeRule(r, e).dev = e
    BY DEF VolumeRule
  <2> QED BY <1>6, <1>7, <1>9, <2>1 DEF SameInDriver, Mounted
<1> SUFFICES ASSUME NEW i \in Images \ lost' PROVE (OneEntry(i) /\ InDriver(i) /\ OnFile(i))'
  BY DEF KeptInv
<1>11. OneEntry(i) /\ InDriver(i) /\ OnFile(i)
  BY <1>4 DEF KeptInv
<1>12. Mounted(d) /\ m_Volumes[d].img = i => ~m_Volumes[d].dirty
  BY <1>4 DEF Unsaved
<1>13. i = j => i \notin Underway /\ ~EnteredAt(i, Devices \ {d})
  BY <1>4
<1>14. OneEntry(i)'
  BY <1>5, <1>6, <1>10, <1>11, <1>13 DEF OneEntry, EnteredAt
<1>15. i = j => disk[i] = wanted[i]
  <2> SUFFICES ASSUME i = j PROVE disk[i] = wanted[i]
    OBVIOUS
  <2>1. ~InPort(i)
    BY <1>13 DEF InPort, Underway
  <2>2. ~Dirty(i)
    BY <1>12, <1>13 DEF Dirty, EnteredAt
  <2> QED BY <1>11, <2>1, <2>2 DEF OnFile
<1>16. InDriver(i)'
  <2> SUFFICES ASSUME NEW e \in Devices, Mounted(e)', m_Volumes'[e].img = i, m_Volumes'[e].loaded,
                      NEW r \in Rules
               PROVE  /\ r \in wanted'[i] => VolumeRule(r, e) \in driver'
                      /\ VolumeRule(r, e) \in driver' => r \in wanted'[i] \/ VolumeRule(r, e) \in leaked'
    BY DEF InDriver
  <2>1. CASE e = d
    <3>1. i = j /\ new = {VolumeRule(q, d) : q \in disk[i]} /\ disk[i] = wanted[i]
      BY <1>5, <1>6, <1>8, <1>15, <2>1
    <3>2. VolumeRule(r, d).t = "volume" /\ VolumeRule(r, d).dev = d /\ VolumeRule(r, d).id = r
          /\ \A q : VolumeRule(q, d).id = q
      BY DEF VolumeRule
    <3>3. VolumeRule(r, d) \in new <=> r \in wanted[i]
      BY <3>1, <3>2
    <3>4. VolumeRule(r, d) \in driver => VolumeRule(r, d) \in leaked'
      BY <1>4, <3>2 DEF OnDevice
    <3> QED BY <1>4, <1>7, <2>1, <3>3, <3>4
  <2>2. CASE e # d
    <3>1. Mounted(e) /\ m_Volumes[e].img = i /\ m_Volumes[e].loaded /\ SameInDriver(e)
      BY <1>10, <2>2
    <3> QED BY <1>4, <1>11, <3>1 DEF InDriver, SameInDriver
  <2> QED BY <2>1, <2>2
<1>17. Dirty(i) => Dirty(i)'
  BY <1>10, <1>12 DEF Dirty
<1>18. OnFile(i)'
  BY <1>4, <1>7, <1>11, <1>17 DEF OnFile
<1> QED BY <1>14, <1>16, <1>18

LEMMA UpdateKept ==
    ASSUME Shape, Distinct, KeptInv, NEW c \in Clients, Update(c)
    PROVE  KeptInv'
<1>1. PICK l \in SUBSET Devices : \E S \in {Writable(DirtyIn(l)), {}} : Updated(c, l, S)
  BY UpdateEffect
<1>2. PICK S \in {Writable(DirtyIn(l)), {}} : Updated(c, l, S)
  BY <1>1
<1>3. /\ m_Volumes' = EntriesAfter(l, S)
      /\ disk' = SavedDisk(S)
      /\ lost' = lost \cup Overwritten(S) \cup Unsaved(GoneFrom(l))
                  \cup {attached[d] : d \in {e \in FoundIn(l) : EnteredAt(attached[e], Devices \ GoneFrom(l))}}
      /\ Call({}, UNION {OnDevice(rules, d) : d \in GoneFrom(l)})
      /\ leaked \subseteq leaked' /\ wanted' = wanted
  BY <1>2 DEF Updated, InMapFor
<1>4. DirtyIn(l) \subseteq Devices /\ \A d \in DirtyIn(l) : Mounted(d)
  BY DEF DirtyIn
<1>5. \A d \in Devices : Mounted(d)' => \/ d \in FoundIn(l)
                                        \/ Mounted(d) /\ d \in l
  BY <1>3, EntriesAfterUpdate DEF Mounted
<1>6. \A d \in Devices : d \in FoundIn(l) => m_Volumes'[d].img = attached[d] /\ ~m_Volumes'[d].loaded /\ attached[d] # None
  <2> SUFFICES ASSUME NEW d \in Devices, d \in FoundIn(l)
               PROVE  m_Volumes'[d].img = attached[d] /\ ~m_Volumes'[d].loaded /\ attached[d] # None
    OBVIOUS
  <2>1. m_Volumes'[d] = Found(attached[d]) /\ attached[d] \in Images
    BY <1>3, EntriesAfterUpdate
  <2> QED BY <2>1, NoneIsNoImage DEF Found
<1>7. \A d \in Devices : Mounted(d) /\ d \in l =>
         /\ Mounted(d)' /\ d \notin FoundIn(l) /\ d \notin GoneFrom(l)
         /\ m_Volumes'[d].img = m_Volumes[d].img /\ m_Volumes'[d].loaded = m_Volumes[d].loaded
         /\ m_Volumes'[d].dirty = StillDirty(d, S)
  <2> SUFFICES ASSUME NEW d \in Devices, Mounted(d), d \in l
               PROVE  /\ Mounted(d)' /\ d \notin FoundIn(l) /\ d \notin GoneFrom(l)
                      /\ m_Volumes'[d].img = m_Volumes[d].img /\ m_Volumes'[d].loaded = m_Volumes[d].loaded
                      /\ m_Volumes'[d].dirty = StillDirty(d, S)
    OBVIOUS
  <2>1. d \notin FoundIn(l) /\ d \notin GoneFrom(l)
    BY DEF FoundIn, GoneFrom
  <2>2. LET w == EntriesAfter(l, S)[d]
        IN  /\ w # NoVolume /\ w.img = m_Volumes[d].img /\ w.loaded = m_Volumes[d].loaded
            /\ w.dirty = StillDirty(d, S)
    BY EntriesAfterUpdate
  <2>3. m_Volumes'[d] = EntriesAfter(l, S)[d]
    BY <1>3
  <2>4. m_Volumes'[d] # NoVolume
    BY <2>2, <2>3
  <2>5. Mounted(d)'
    BY <2>4 DEF Mounted
  <2> QED BY <2>1, <2>2, <2>3, <2>5
<1>8. /\ \A d \in Devices : d \notin GoneFrom(l) => SameInDriver(d)
      /\ \A i : InPort(i) => InPort(i)'
  <2> DEFINE old == UNION {OnDevice(rules, d) : d \in GoneFrom(l)}
  <2>1. \A x \in old : x.dev \in GoneFrom(l)
    BY DEF OnDevice
  <2>2. Call({}, old)
    BY <1>3
  <2> HIDE DEF old
  <2>3. driver' = (driver \ old) \cup {} /\ port' \in Seq(Msg) /\ Users(port') = Users(port)
    BY <2>2, CallEffect, FS_EmptySet DEF Shape
  <2>4. \A r, e : VolumeRule(r, e).dev = e
    BY DEF VolumeRule
  <2> QED BY <2>1, <2>3, <2>4, SamePortUsers DEF Shape, SameInDriver
<1> SUFFICES ASSUME NEW i \in Images \ lost' PROVE (OneEntry(i) /\ InDriver(i) /\ OnFile(i))'
  BY DEF KeptInv
<1>9. i \in Images \ lost /\ i \notin Overwritten(S) /\ i \notin Unsaved(GoneFrom(l))
  BY <1>3
<1>10. \A d \in FoundIn(l) : attached[d] = i => ~EnteredAt(i, Devices \ GoneFrom(l))
  BY <1>3
<1>11. OneEntry(i) /\ InDriver(i) /\ OnFile(i)
  BY <1>9 DEF KeptInv
<1>12. OneEntry(i)'
  <2> SUFFICES ASSUME NEW d \in Devices, NEW e \in Devices, Mounted(d)', Mounted(e)', m_Volumes'[d].img = i, m_Volumes'[e].img = i
               PROVE  d = e
    BY DEF OneEntry
  <2>1. CASE d \in FoundIn(l) /\ e \in FoundIn(l)
    BY <1>6, <2>1 DEF Distinct
  <2>2. ASSUME NEW a \in Devices, NEW b \in Devices, a \in FoundIn(l), Mounted(b), b \in l,
               m_Volumes'[a].img = i, m_Volumes'[b].img = i
        PROVE  FALSE
    <3>1. attached[a] = i
      BY <1>6, <2>2
    <3>2. b \in Devices \ GoneFrom(l) /\ m_Volumes[b].img = i
      BY <1>7, <2>2
    <3> QED BY <1>10, <2>2, <3>1, <3>2 DEF EnteredAt
  <2>3. CASE Mounted(d) /\ Mounted(e) /\ d \in l /\ e \in l
    BY <1>7, <1>11, <2>3 DEF OneEntry
  <2> QED BY <1>5, <2>1, <2>2, <2>3
<1>13. InDriver(i)'
  <2>1. \A d \in Devices : Mounted(d)' /\ m_Volumes'[d].img = i /\ m_Volumes'[d].loaded =>
            Mounted(d) /\ m_Volumes[d].img = i /\ m_Volumes[d].loaded /\ SameInDriver(d)
    BY <1>5, <1>6, <1>7, <1>8
  <2> QED BY <1>3, <1>11, <2>1, InDriverStays
<1>14. (\A d \in S : m_Volumes[d].img # i) /\ Dirty(i) => Dirty(i)'
  <2> SUFFICES ASSUME \A d \in S : m_Volumes[d].img # i,
                      NEW d \in Devices, Mounted(d), m_Volumes[d].img = i, m_Volumes[d].dirty
               PROVE  Dirty(i)'
    BY DEF Dirty
  <2>1. d \notin GoneFrom(l)
    BY <1>9 DEF Unsaved
  <2>2. d \in l
    BY <2>1 DEF GoneFrom
  <2>3. Mounted(d)' /\ m_Volumes'[d].img = i /\ m_Volumes'[d].dirty = StillDirty(d, S)
    BY <1>7, <2>2
  <2>4. StillDirty(d, S)
    BY DEF StillDirty
  <2> QED BY <2>3, <2>4 DEF Dirty
<1>15. \/ SavedDisk(S)[i] = wanted[i]
       \/ InPort(i)
       \/ SavedDisk(S)[i] = disk[i] /\ \A d \in S : m_Volumes[d].img # i
  BY <1>2, <1>4, <1>9, WritableDevices, SaveKeeps
<1>16. OnFile(i)'
  BY <1>3, <1>8, <1>11, <1>14, <1>15 DEF OnFile
<1> QED BY <1>12, <1>13, <1>16

LEMMA UsersAdded ==
    ASSUME NEW s \in Seq(Msg), NEW m \in Msg
    PROVE  Users(s) \subseteq Users(Append(s, m)) /\ (~m.own => m \in Users(Append(s, m)))
<1> DEFINE u == Append(s, m)
<1>1. DOMAIN s = 1..Len(s) /\ DOMAIN u = 1..(Len(s) + 1) /\ Len(s) \in Nat
      /\ (\A k \in 1..Len(s) : u[k] = s[k]) /\ u[Len(s) + 1] = m
  OBVIOUS
<1> HIDE DEF u
<1>2. \A k \in DOMAIN s : k \in DOMAIN u /\ u[k] = s[k]
  BY <1>1
<1>3. Len(s) + 1 \in DOMAIN u
  BY <1>1
<1>4. Users(s) \subseteq Users(u) /\ (~m.own => m \in Users(u))
  BY <1>1, <1>2, <1>3 DEF Users
<1> QED BY <1>4 DEF u

LEMMA UsersTail ==
    ASSUME NEW s \in Seq(Msg), s # <<>>
    PROVE  \A m \in Users(s) : m \in Users(Tail(s)) \/ (m = Head(s) /\ ~Head(s).own)
<1> DEFINE u == Tail(s)
<1>1. Len(s) \in Nat \ {0} /\ DOMAIN s = 1..Len(s) /\ DOMAIN u = 1..(Len(s) - 1) /\ Head(s) = s[1]
      /\ \A k \in 1..(Len(s) - 1) : u[k] = s[k + 1]
  OBVIOUS
<1> HIDE DEF u
<1> SUFFICES ASSUME NEW k \in DOMAIN s, ~s[k].own PROVE s[k] \in Users(u) \/ k = 1
  BY <1>1 DEF Users, u
<1>2. CASE k # 1
  <2>1. k - 1 \in DOMAIN u /\ u[k - 1] = s[k]
    BY <1>1, <1>2
  <2> QED BY <2>1 DEF Users
<1> QED BY <1>2

\* A change by the user reaches the driver and is on its way from then on.
LEMMA EditArrives ==
    ASSUME Shape, NEW o \in {"add", "del"}, NEW x \in Rule, NEW i \in Images, Edit(o, x, i)
    PROVE  /\ driver' = IF o = "add" THEN driver \cup {x} ELSE driver \ {x}
           /\ \A j : InPort(j) => InPort(j)'
           /\ x.t = "volume" => InPort(i)'
           /\ UNCHANGED <<disk, m_Volumes, lost, leaked>>
<1>1. PICK n \in Nat : port' = Append(port, [op |-> o, rule |-> x, own |-> FALSE, img |-> i, n |-> n])
  BY EditShape
<1>2. [op |-> o, rule |-> x, own |-> FALSE, img |-> i, n |-> n] \in Msg
  BY DEF Msg, UserMsg
<1> DEFINE m == [op |-> o, rule |-> x, own |-> FALSE, img |-> i, n |-> n]
<1>3. m \in Msg /\ m.rule = x /\ m.img = i /\ ~m.own
  BY <1>2
<1> HIDE DEF m
<1>4. port' = Append(port, m) /\ port \in Seq(Msg)
  BY <1>1 DEF m, Shape
<1>5. port' \in Seq(Msg) /\ Users(port) \subseteq Users(port') /\ m \in Users(port')
  BY <1>3, <1>4, UsersAdded
<1>6. \A j : InPort(j) => InPort(j)'
  BY <1>4, <1>5, SamePortUsers
<1>7. x.t = "volume" => InPort(i)'
  <2>1. PICK k \in DOMAIN port' : ~port'[k].own /\ m = port'[k]
    BY <1>5 DEF Users
  <2> QED BY <1>3, <2>1 DEF InPort
<1> QED BY <1>6, <1>7, EditShape

LEMMA EditVolumeRuleKept ==
    ASSUME Shape, KeptInv, NEW d \in Devices, NEW r \in Rules, EditVolumeRule(d, r)
    PROVE  KeptInv'
<1>1. PICK i \in Images : i = m_Volumes[d].img /\ Mounted(d)
  BY EditVolumeRuleEffect
<1>2. PICK o \in {"add", "del"} :
        /\ Edit(o, VolumeRule(r, d), i)
        /\ wanted' = [wanted EXCEPT ![i] = IF o = "add" THEN @ \cup {r} ELSE @ \ {r}]
  BY <1>1, EditVolumeRuleEffect
<1>3. VolumeRule(r, d) \in Rule /\ VolumeRule(r, d).t = "volume"
      /\ \A s, e : VolumeRule(s, e) = VolumeRule(r, d) => s = r /\ e = d
  <2>1. \A s, e : VolumeRule(s, e).id = s /\ VolumeRule(s, e).dev = e /\ VolumeRule(s, e).t = "volume"
    BY DEF VolumeRule
  <2>2. \A s, e : VolumeRule(s, e) = VolumeRule(r, d) => s = r /\ e = d
    BY <2>1
  <2> QED BY <2>1, <2>2, VolumeRuleIsRule
<1>4. /\ driver' = IF o = "add" THEN driver \cup {VolumeRule(r, d)} ELSE driver \ {VolumeRule(r, d)}
      /\ \A j : InPort(j) => InPort(j)'
      /\ InPort(i)'
      /\ UNCHANGED <<disk, m_Volumes, lost, leaked>>
  BY <1>2, <1>3, EditArrives
<1>5. \A e : Mounted(e)' <=> Mounted(e)
  BY <1>4 DEF Mounted
<1> SUFFICES ASSUME NEW j \in Images \ lost' PROVE (OneEntry(j) /\ InDriver(j) /\ OnFile(j))'
  BY DEF KeptInv
<1>6. OneEntry(j) /\ InDriver(j) /\ OnFile(j)
  BY <1>4 DEF KeptInv
<1>7. OneEntry(j)'
  BY <1>4, <1>5, <1>6 DEF OneEntry
<1>8. wanted'[i] = (IF o = "add" THEN wanted[i] \cup {r} ELSE wanted[i] \ {r}) /\ (j # i => wanted'[j] = wanted[j])
  BY <1>2 DEF Shape
<1>9. InDriver(j)'
  <2> SUFFICES ASSUME NEW e \in Devices, Mounted(e), m_Volumes[e].img = j, m_Volumes[e].loaded, NEW s \in Rules
               PROVE  /\ s \in wanted'[j] => VolumeRule(s, e) \in driver'
                      /\ VolumeRule(s, e) \in driver' => s \in wanted'[j] \/ VolumeRule(s, e) \in leaked
    BY <1>4, <1>5 DEF InDriver
  <2>1. /\ s \in wanted[j] => VolumeRule(s, e) \in driver
        /\ VolumeRule(s, e) \in driver => s \in wanted[j] \/ VolumeRule(s, e) \in leaked
    BY <1>6 DEF InDriver
  <2>2. CASE j = i
    <3>1. e = d
      BY <1>1, <1>6, <2>2 DEF OneEntry
    <3>2. CASE s = r
      BY <1>4, <1>8, <2>1, <2>2, <3>1, <3>2
    <3>3. CASE s # r
      BY <1>3, <1>4, <1>8, <2>1, <2>2, <3>1, <3>3
    <3> QED BY <3>2, <3>3
  <2>3. CASE j # i
    <3>1. e # d
      BY <1>1, <2>3
    <3> QED BY <1>3, <1>4, <1>8, <2>1, <2>3, <3>1
  <2> QED BY <2>2, <2>3
<1>10. OnFile(j)'
  <2>1. Dirty(j) => Dirty(j)'
    BY <1>4, <1>5 DEF Dirty
  <2> QED BY <1>4, <1>6, <1>8, <2>1 DEF OnFile
<1> QED BY <1>7, <1>9, <1>10

LEMMA EditHostRuleKept ==
    ASSUME Shape, KeptInv, NEW i \in Images, EditHostRule(i)
    PROVE  KeptInv'
<1>1. PICK o \in {"add", "del"} : Edit(o, HostRule(i), i)
  BY DEF EditHostRule
<1>2. /\ driver' = IF o = "add" THEN driver \cup {HostRule(i)} ELSE driver \ {HostRule(i)}
      /\ \A j : InPort(j) => InPort(j)'
      /\ UNCHANGED <<disk, m_Volumes, lost, leaked>>
  BY <1>1, HostRuleIsRule, EditArrives
<1>3. \A d \in Devices : SameInDriver(d)
  <2>1. \A r, d : VolumeRule(r, d) # HostRule(i)
    <3>1. \A r, d : VolumeRule(r, d).t = "volume" /\ HostRule(i).t = "host"
      BY DEF VolumeRule, HostRule
    <3> QED BY <3>1
  <2> QED BY <1>2, <2>1 DEF SameInDriver
<1>4. UNCHANGED wanted
  BY DEF EditHostRule
<1> QED BY <1>2, <1>3, <1>4, KeptStays

LEMMA OwnRuleChangedKept ==
    ASSUME Shape, KeptInv, OwnRuleChanged
    PROVE  KeptInv'
<1>1. port # <<>> /\ Head(port).own /\ port' = Tail(port) /\ UNCHANGED <<driver, leaked, lost, wanted, disk, m_Volumes>>
  BY DEF OwnRuleChanged, mapVars, guardVars, histVars
<1>2. port \in Seq(Msg) /\ port' \in Seq(Msg)
  BY <1>1, PortHead DEF Shape
<1>3. Users(port) \subseteq Users(port')
  BY <1>1, <1>2, UsersTail
<1>4. \A i : InPort(i) => InPort(i)'
  BY <1>2, <1>3, SamePortUsers
<1>5. \A d \in Devices : SameInDriver(d)
  BY <1>1 DEF SameInDriver
<1> QED BY <1>1, <1>4, <1>5, KeptStays

LEMMA UpdateAccessRuleKept ==
    ASSUME Shape, KeptInv, UpdateAccessRule
    PROVE  KeptInv'
<1> DEFINE m == Head(port)
<1>0. m = Head(port)
  OBVIOUS
<1> HIDE DEF m
<1>1. /\ port # <<>> /\ ~m.own
      /\ m_Volumes' = IF HitBy(m) THEN [m_Volumes EXCEPT ![m.rule.dev].dirty = TRUE] ELSE m_Volumes
      /\ lost' = IF m.rule.t = "volume" /\ ~(HitBy(m) /\ m_Volumes[m.rule.dev].img = m.img)
                 THEN lost \cup {m.img} ELSE lost
      /\ driver' = driver \cup ClonesOf(m)
      /\ leaked' = leaked \cup {y \in ClonesOf(m) : attached[y.dev] = None}
      /\ port' = Tail(port) \o Own("add", ClonesOf(m))
      /\ UNCHANGED <<disk, wanted>>
  BY <1>0, UpdateAccessRuleEffect
<1>2. m.rule \in Rule /\ m.img \in Images /\ m.n \in Nat /\ Tail(port) \in Seq(Msg) /\ port \in Seq(Msg)
  BY <1>0, <1>1, PortHead DEF Shape
<1>3. ClonesOf(m) \subseteq Rule /\ IsFiniteSet(ClonesOf(m)) /\ \A x \in ClonesOf(m) : x.t = "clone"
  BY <1>2, ClonesShape
<1>4. Own("add", ClonesOf(m)) \in Seq(OwnMsg)
  BY <1>3, OwnIsSeq
<1>5. port' \in Seq(Msg) /\ Users(port') = Users(Tail(port))
  BY <1>1, <1>2, <1>4, OwnsTogether, UsersAppend
<1>6. \A i : InPort(i) => InPort(i)' \/ (m.img = i /\ m.rule.t = "volume")
  <2> SUFFICES ASSUME NEW i, InPort(i), ~(m.img = i /\ m.rule.t = "volume") PROVE InPort(i)'
    OBVIOUS
  <2>1. PICK u \in Users(port) : u.img = i /\ u.rule.t = "volume"
    BY <1>2, InPortUsers
  <2>2. u \in Users(port')
    BY <1>0, <1>1, <1>2, <1>5, <2>1, UsersTail
  <2>3. PICK k \in DOMAIN port' : ~port'[k].own /\ u = port'[k]
    BY <2>2 DEF Users
  <2> QED BY <2>1, <2>3 DEF InPort
<1>7. \A d \in Devices : SameInDriver(d)
  <2>1. \A r, d : VolumeRule(r, d).t = "volume"
    BY DEF VolumeRule
  <2> QED BY <1>1, <1>3, <2>1 DEF SameInDriver
<1>8. /\ \A d \in Devices : /\ Mounted(d)' <=> Mounted(d)
                            /\ m_Volumes'[d].img = m_Volumes[d].img
                            /\ Mounted(d) => /\ m_Volumes'[d].loaded = m_Volumes[d].loaded
                                             /\ m_Volumes[d].dirty => m_Volumes'[d].dirty
      /\ HitBy(m) => m.rule.dev \in Devices /\ Mounted(m.rule.dev) /\ m_Volumes'[m.rule.dev].dirty
  <2>1. CASE HitBy(m)
    <3> DEFINE d == m.rule.dev
    <3>1. d \in Devices /\ Mounted(d)
      BY <1>2, <2>1 DEF HitBy, Rule
    <3>2. m_Volumes[d] \in Volume
      BY <3>1, EntryIsVolume
    <3>3. m_Volumes' = [m_Volumes EXCEPT ![d] = [m_Volumes[d] EXCEPT !.dirty = TRUE]]
      BY <1>1, <2>1
    <3> DEFINE w == [m_Volumes[d] EXCEPT !.dirty = TRUE]
    <3>4. w # NoVolume /\ w.img = m_Volumes[d].img /\ w.loaded = m_Volumes[d].loaded /\ w.dirty = TRUE
      BY <3>2, DirtySet
    <3> HIDE DEF w
    <3>5. m_Volumes'[d] = w /\ \A e \in Devices : e # d => m_Volumes'[e] = m_Volumes[e]
      BY <3>1, <3>3 DEF Shape, w
    <3> HIDE DEF d
    <3>6. m_Volumes'[d].dirty
      BY <3>4, <3>5, Zenon
    <3>7. \A e \in Devices : /\ Mounted(e)' <=> Mounted(e)
                             /\ m_Volumes'[e].img = m_Volumes[e].img
                             /\ Mounted(e) => /\ m_Volumes'[e].loaded = m_Volumes[e].loaded
                                              /\ m_Volumes[e].dirty => m_Volumes'[e].dirty
      BY <3>1, <3>4, <3>5, <3>6 DEF Mounted
    <3> QED BY <3>1, <3>6, <3>7 DEF d
  <2>2. CASE ~HitBy(m)
    BY <1>1, <2>2 DEF Mounted
  <2> QED BY <2>1, <2>2
<1> SUFFICES ASSUME NEW i \in Images \ lost' PROVE (OneEntry(i) /\ InDriver(i) /\ OnFile(i))'
  BY DEF KeptInv
<1>9. i \in Images \ lost /\ (m.rule.t = "volume" /\ m.img = i => HitBy(m) /\ m_Volumes[m.rule.dev].img = i)
  BY <1>1
<1>10. OneEntry(i) /\ InDriver(i) /\ OnFile(i)
  BY <1>9 DEF KeptInv
<1>11. OneEntry(i)'
  BY <1>8, <1>10 DEF OneEntry
<1>12. InDriver(i)'
  BY <1>1, <1>7, <1>8, <1>10, InDriverStays
<1>13. Dirty(i) => Dirty(i)'
  BY <1>8 DEF Dirty
<1>14. m.rule.t = "volume" /\ m.img = i => Dirty(i)'
  BY <1>8, <1>9 DEF Dirty
<1>15. OnFile(i)'
  BY <1>1, <1>6, <1>10, <1>13, <1>14 DEF OnFile
<1> QED BY <1>11, <1>12, <1>15

LEMMA RestartAgentKept ==
    ASSUME Shape, Distinct, KeptInv, RestartAgent
    PROVE  KeptInv'
<1>1. /\ m_Volumes' = [d \in Devices |-> IF attached[d] = None THEN NoVolume ELSE Found(attached[d])]
      /\ lost' = lost \cup Unsaved(Devices) \cup Underway
      /\ UNCHANGED <<disk, wanted>>
  BY DEF RestartAgent
<1>2. \A d \in Devices : Mounted(d)' => m_Volumes'[d].img = attached[d] /\ ~m_Volumes'[d].loaded /\ attached[d] # None
  <2> SUFFICES ASSUME NEW d \in Devices, Mounted(d)'
               PROVE  m_Volumes'[d].img = attached[d] /\ ~m_Volumes'[d].loaded /\ attached[d] # None
    OBVIOUS
  <2>1. m_Volumes'[d] = Found(attached[d]) /\ attached[d] # None
    BY <1>1 DEF Mounted
  <2> QED BY <2>1 DEF Found
<1> SUFFICES ASSUME NEW i \in Images \ lost' PROVE (OneEntry(i) /\ InDriver(i) /\ OnFile(i))'
  BY DEF KeptInv
<1>3. i \in Images \ lost /\ i \notin Unsaved(Devices) /\ i \notin Underway
  BY <1>1
<1>4. OnFile(i) /\ ~InPort(i) /\ ~Dirty(i)
  BY <1>3 DEF KeptInv, InPort, Underway, Dirty, Unsaved
<1>5. OneEntry(i)'
  BY <1>2 DEF OneEntry, Distinct
<1>6. InDriver(i)'
  BY <1>2 DEF InDriver
<1>7. OnFile(i)'
  BY <1>1, <1>4 DEF OnFile
<1> QED BY <1>5, <1>6, <1>7

LEMMA OthersKept ==
    ASSUME KeptInv, UpdateRule \/ LateAttach \/ HelperDies \/ SetConfig \/ UNCHANGED vars
    PROVE  KeptInv'
<1>1. UNCHANGED <<driver, port, lost, wanted, disk, m_Volumes>> /\ leaked \subseteq leaked'
  BY DEF UpdateRule, LateAttach, HelperDies, SetConfig, vars, ruleVars, mapVars, guardVars, histVars
<1> QED BY <1>1, KeptStays, SameRulesKeep

LEMMA KeptStep == Shape /\ Distinct /\ KeptInv /\ [Next]_vars => KeptInv'
<1> SUFFICES ASSUME Shape, Distinct, KeptInv, [Next]_vars PROVE KeptInv'
  OBVIOUS
<1>1. ASSUME NEW c \in Clients, ClientNext(c) PROVE KeptInv'
  <2>1. ASSUME NEW t \in BOOLEAN, AttachFails(c, t) PROVE KeptInv'
    BY <2>1, MountKept
  <2>2. ASSUME NEW i \in Images, CreateImage(c, i) PROVE KeptInv'
    BY <2>2, PlainKept
  <2>3. ASSUME NEW d \in Devices, DismountVolume(c, d) PROVE KeptInv'
    BY <2>3, PlainKept
  <2>4. ASSUME NEW i \in Images, SetVolume(c, i) \/ SetDisplaced(c, i) PROVE KeptInv'
    BY <2>4, SetVolumeKept, SetDisplacedKept
  <2>5. ASSUME NEW i \in Images, NEW p \in BOOLEAN, NEW k \in BOOLEAN, MountImage(c, i, p, k) PROVE KeptInv'
    BY <2>5, PlainKept
  <2>6. Attach(c) \/ JunctionFails(c) \/ DismountAll(c) \/ NextOfAll(c) \/ AllDone(c) \/ ReleaseGuard(c)
        \/ TakeDeviceList(c) \/ DetachCreated(c) => KeptInv'
    BY PlainKept
  <2>7. SetUpProtection(c) \/ FinishMount(c) \/ MountScriptFails(c) => KeptInv'
    BY MountKept
  <2>8. Unmount(c) \/ UnmountFails(c) \/ CleanUpVolume(c) \/ Erase(c) \/ Enter(c) \/ Update(c) => KeptInv'
    BY UnmountKept, CleanUpVolumeKept, EraseKept, EnterKept, UpdateKept
  <2> QED BY <1>1, <2>1, <2>2, <2>3, <2>4, <2>5, <2>6, <2>7, <2>8 DEF ClientNext
<1>2. ASSUME NEW d \in Devices, NEW r \in Rules, EditVolumeRule(d, r) PROVE KeptInv'
  BY <1>2, EditVolumeRuleKept
<1>3. ASSUME NEW i \in Hosted, EditHostRule(i) PROVE KeptInv'
  BY <1>3, EditHostRuleKept, VolumesAssumption
<1>4. UpdateRule \/ LateAttach \/ HelperDies \/ SetConfig \/ UNCHANGED vars => KeptInv'
  BY OthersKept
<1> QED BY <1>1, <1>2, <1>3, <1>4, OwnRuleChangedKept, UpdateAccessRuleKept, RestartAgentKept DEF Next

LEMMA InitKept == Init => KeptInv
<1> SUFFICES ASSUME Init PROVE KeptInv
  OBVIOUS
<1>1. \A d \in Devices : ~Mounted(d)
  BY DEF Init, Mounted
<1> QED BY <1>1 DEF Init, KeptInv, OneEntry, InDriver, OnFile

\* For any number of clients: once everything is handled, an image that lost no
\* edit holds the rules the user gave it, or its volume is dirty.
THEOREM EditsKept == Spec => []RulesKept
<1>1. Init => Shape /\ Distinct /\ KeptInv
  BY ShapeInit, InitMaps, InitKept
<1>2. Shape /\ Distinct /\ KeptInv /\ [Next]_vars => (Shape /\ Distinct /\ KeptInv)'
  BY ShapeStep, DistinctStep, KeptStep
<1>3. Shape /\ Distinct /\ KeptInv => RulesKept
  <2> SUFFICES ASSUME KeptInv, AtRest, NEW i \in Images \ lost PROVE disk[i] = wanted[i] \/ Dirty(i)
    BY DEF RulesKept, Dirty
  <2>1. ~InPort(i)
    BY DEF AtRest, InPort
  <2> QED BY <2>1 DEF KeptInv, OnFile
<1> QED BY <1>1, <1>2, <1>3, PTL DEF Spec
=============================================================================
