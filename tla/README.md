# MajorPrivacy: formal models of the privacy agent

TLA+ models of MajorPrivacy's privacy agent (`src/Service`), of the libraries it is built on
(`src/Library`) and of the parts of the viewer (`src/MajorPrivacy/Core`) that keep a copy of the
agent's lists. TLC checks small instances; TLAPS proves the central safety properties of
every modelled component for every instance, and that the transport implements its abstract specification.

## 1. The system

MajorPrivacy is a Windows privacy tool made of three processes' worth of code:

* the **kernel driver** (not in the repository, only its interface headers): enforces program, access
  and hash rules and announces changes of its configuration;
* the **privacy agent**, a service: keeps rules, presets, tweaks, secure volumes and the lists of
  processes, programs, libraries, handles and sockets, and answers requests;
* the **viewer**, a Qt program: polls the agent over a pipe or an ALPC port and shows a copy.

| Part | State | Operations | Interacts with | What is hard | What makes it correct |
|---|---|---|---|---|---|
| Preset manager (`Service/Presets`) | presets, active set, ownership of items with the state to restore, `Presets.dat` | activate, force, deactivate (one, all), edit, delete, import, commit, discard | rule caches, firewall, tweaks, script engine, file | lock dropped in a loop, store outside the lock, crash, refused writes, late notifications | the user's own settings come back |
| Safe file write (`Library/Common/FileIO.cpp`) | file, `.tmp`, `.bak` | write, move away, rename | every component that stores | crash between steps, one `.tmp` for all callers | a complete file survives |
| Worker pool (`Library/Common/ThreadPool`) | queue, worker map, stop flag | enqueue, start, run, leave, stop | icon, hash and signature jobs | worker leaves while a task arrives, join under a lock | every task runs once and in order, stop returns |
| List replies (`Service/Common/ListReplies`, `Library/Common/VariantCache.h`) | per connection: what was sent; viewer: its copy | build a delta, complete list, reload, merge | collectors, transport, viewer | versions read apart from values, lost connections, deltas inside deltas | the viewer shows what the agent has |
| Rule caches (`AccessManager`, `ProgramManager`, `EnclaveManager`, `HashDB`) | copies of the driver's rules, per-program lists | load all, retry, apply a notification, purge, remove a program | driver, volumes, script state, viewer | snapshot taken before the lock, notifications out of order, failing calls | the cache converges to the driver |
| Script state (`JSEngine/JSStateManager`) | private and global values of scripts | set, delete, create, destroy, clean up | rule caches, script engine | a script that outlives its rule | what a removed rule stored goes with it |
| Secure volumes (`Service/Volumes`) | mounted volumes by device and by GUID, temporary rules, hibernation guard | mount, dismount, update, set up | ImDisk, driver, scripts | check and use apart, failure half way, maps changed without the lock | no volume without its rules, no rule without its volume |
| Transport (`Library/IPC`) | connections, pending call, client tables | connect, call, event, disconnect | agent, viewer, driver | reconnect inside a call, lost connections, events out of order | a handler runs at most once, an answer belongs to its call |
| Service core (`ServiceCore*.cpp`) | life cycle, client table, configuration | start, timer, request, commit, discard, stop | all | shutdown against requests | nothing is stored after stop |
| Firewall (`Service/Network/Firewall`) | copy of Windows' rules with verdicts, backups, lists of what waits for a twin or to be undone | handle a change event, reread all, hold back, approve, undo, set, delete | Windows firewall, presets | foreign changes racing own ones, pointers that outlive their rule, restart | no rule in force the user did not agree to, none he wants missing |
| Network lists, DNS | sockets, traffic, filters | enumerate, log, filter | ETW | - | - |
| Tweaks, script engine, event log | settings, script state, records | apply, undo, run, append | registry, presets, volumes | scripts call back | undo restores |
| Driver interface, disk images, boot set-up, viewer windows, containers, hooks, installer | - | I/O, cryptography, layout | - | - | - |

`PROJECT.json` lists every part with its status and the hazards at their lines.

## 2. Modules

| Module | Models |
|---|---|
| `Presets`, `MCPresets` | the preset manager with `WriteFileSafe` |
| `PresetsProofs` | its theorems |
| `ThreadPool`, `MCThreadPool` | the worker pool |
| `Executor` | what whoever enqueues a task may rely on (abstract) |
| `ThreadPoolProofs` | its theorems, and that it implements `Executor` |
| `VariantCache` | `CVariantCacheT`, as operators on values |
| `ProcessDelta`, `MCProcessDelta` | the process list with handles and sockets, agent to viewer |
| `ProcessDeltaProofs` | its theorems |
| `LibraryDelta`, `MCLibraryDelta` | the library list, agent to viewer |
| `LibraryDeltaProofs` | its theorems |
| `RuleCache`, `MCRuleCache` | the four managers that copy the driver's items |
| `ScriptState` | the store of script state, composed with `RuleCache` |
| `RuleCacheProofs` | the theorems of both |
| `Volumes`, `MCVolumes` | secure volumes |
| `VolumesProofs` | its theorems |
| `RemoteCall` | what a caller of the agent may rely on (abstract) |
| `AlpcPort`, `MCAlpcPort` | calls over an ALPC port, client, server and the core's client table |
| `AlpcPortProofs` | its theorems, and that it implements `RemoteCall` |
| `Firewall`, `MCFirewall` | the guard of the Windows firewall's rules |
| `FirewallInvariants` | its inductive invariants, part by part, and the effects of its steps on them |
| `FirewallProofs` | its theorems |

`ProcessDelta` and `LibraryDelta` both build on `VariantCache`; `RuleCache` extends `ScriptState`,
because the same handlers change both; `AlpcPort` is shown to implement `RemoteCall`, and `ThreadPool` to implement `Executor`. The MC modules only declare model
values, the choices of requests and symmetry sets. Operators whose comment begins "Mutant of" are
plausible mistakes in the definition that follows them; nothing uses them in the specifications,
and `PROJECT.json` says which property each one breaks.

### Presets

State: `m_Presets`, `m_ActivePresets` and `m_ItemOwnership` are the members of that name. A rule or
tweak has a `live` state (driver, firewall, registry) and a `cached` one (the agent's object); a
program or access rule written through the driver is `pending` until `OnRuleChanged` refreshes the
cached one. `file` and `tmp` are `Presets.dat` and `Presets.dat.tmp`. Every client has a program
counter `pc` and the locals of its request: the iterator of `DeactivateAllPresets` (`at`), the
presets an import still has to deactivate (`left`), the list it installs (`import`), what `Store()`
has collected (`snap`), and whether it holds a null preset pointer (`null`).

Actions: one for each request's critical section (`ActivatePreset`, `DeactivatePreset`,
`DeactivateAllPresets`, `SetEntry`, `DelEntry`, `ImportPresets`, `CommitConfig`, `DiscardConfig`),
and one for each stretch between two locks or file operations after it: the turns of the loop of
`DeactivateAllPresets` (whose lock is dropped while a script runs), `SaveEntries`, `SaveOwnership`,
`WriteFile`, `MoveAway`, `RenameFile`, `EmitChangeEvent`. The environment changes items (`UserSet`),
delivers notifications and kills the agent (`Crash`), which then loads the file.

* An iterator whose element was erased is incremented with undefined result: `DeactivateAllDangling`
  lets it land anywhere.
* Deactivating a preset that was deleted while active asks a null pointer for its name: `NullPreset`
  restarts the agent.
* `orig` and `excused` are history variables: what the user last gave an item, and the items whose
  original was really lost (a write was refused, the cached state was out of date when it was saved,
  or the ownership was not in the file the manager was loaded from).

Abstractions: the critical section of a request is one step (m_Mutex is held); items a preset names
are disjoint from rules derived from templates; `ReLoad`, which takes no lock around the whole of
`Load`, is one step; a write of the `.tmp` file is one step (a torn one is never renamed by its
writer); after a crash or a failed rename a `.tmp` file nobody is about to rename is forgotten,
because the next writer overwrites it before it is read; the `.bak` file is left out, because
nothing reads it; scripts keep their window but have no effect of their own; a tweak found
"applied" is saved and restored as "off", as the code does.

### ThreadPool

The steps are the stretches under `queueMutex` and `workerMutex`. `workers` is the map of that name
with the "still running" flag, `at` is where each thread is. `started` is history. `stop()` is three
steps; it holds `workerMutex` while it joins.

`Executor` knows tasks and no threads: accepted tasks wait in order, one begins when fewer than the
limit are being executed, one ends, and closing begins no other and is over when none is left. The
refinement mapping (`Executing`, `Phase`) takes the tasks of the threads between pop and return, and
the phase from the flag and the end of the join; starting, leaving, marking and reaping are stutters.

### VariantCache, ProcessDelta, LibraryDelta

`VariantCache` has one operator per method of `CVariantCacheT`. `SeenRound = RoundNr` is membership
in a set that a new round empties. `ProcessDelta` interleaves the collectors with the thread that
builds a reply at the granularity of the reads it makes: the plain fields of a process in one step,
each versioned group in two (the version, then the value), the handle list in two, the sockets under
their mutex in one. The viewer merges a reply in one step. `LoseConnection` drops the caches of the
connection at any point and the viewer keeps its copy; `Reload` is `API_V_RELOAD`. `pending` and
`touched` are history: what changed since the round under way, or the last applied round, began.

`useCache` is the `USE_CACHE` build switch, which is commented out at `ServiceCoreAPI.cpp:46`: the
shipped build sends complete lists. The models cover both builds; a run names the ones it considers
in `Builds`.

### RuleCache, ScriptState

`kind` says which of the four managers is modelled; one scheme fits all, and the places where they
differ (what a failed read means, whether a reload forgets what the driver no longer has, who cleans
up script state) test it. `driver` and `port` are the external side: contents and notifications. A
notification is handled by one of several pool threads in three steps - taken from the port, read
back from the driver, applied under the manager's mutex - and so is a full load, by the timer's
thread; between any two, the others may move. `rulesOf` are the lists of the program items,
`removal` the two-step `RemoveProgramFrom` of a client, `purge` the rules a purge has still to
remove. Scripts run and use the store (`UseState`) while their item comes and goes. `newest`,
`missed`, `overtaken`, `orphans`, `late` and `unclean` are history.

Left out: `StoreAsync` (the access log's file), the tree of program items, the contents of a rule.

### Volumes

`attached` is ImDisk's own state, `disk` what an image file holds, `driver` and `rules` the access
rules in the driver and in the agent's map, `m_Volumes` and `m_VolumesByGuid` the manager's two
maps. A request is one action per stretch between two locks or calls: a mount looks, protects,
attaches (or the helper dies, or is given up after 15 minutes and attaches late), enters, loads,
runs its script; a dismount saves, unmounts, cleans up, erases and releases the hibernation guard.
`OwnRuleChanged` (the volume manager's part of a notification) and `UpdateRule` (the map's) are
apart, as in the code.

The guard against hibernation is asked for only when the setting `GuardHibernation` is on (it is off
by default and `SetConfig` switches it) and has not been asked for before; the driver may refuse,
which is not reported, and the mount goes on unguarded (`VolumeManager.cpp:744`). `m_NoHibernation`
is what the agent believes, `prevented` what the driver does. `ReleaseHibernationPrevention` returns
a number, 0 for an error (`DriverAPI.cpp:798`); whether the driver, whose source is not in the
repository, may answer 0 to a call it carried out is left open, as the sister call's number is
taken for a remaining count (`ServiceCore.cpp:237`). With 0 the flag stays set, and when the driver
did let go the next mount asks for nothing: that is `misled`.

A dismount holds its volume from the moment it finds it. `ToSave` is that volume with its own dirty
flag, also when an Update has erased its entry, or another mount has taken it, meanwhile: `num` tells
the two apart and `stale` has the dirty volumes that live on in a request only. Their save writes the
rules the map has for the device to the image attached there, whatever image that is by now; which
images that spoils is `Overwritten`.

Enclaves, hashes and program rules of a volume are stood for by its access
rules. Notifications are handled one after the other here; that they may not be is `RuleCache`'s
subject.

### AlpcPort, RemoteCall

`RemoteCall` says: the handler of a request runs at most once, an answer comes from the handler that
ran for this very call, a failed call may have run. One step, `Misread`, is the known exception
described under Findings. `AlpcPort` has the chunks of requests and replies, the server's
`recvBuff` and `sendBuff` per client, reconnects from another thread in the middle of a call
(`Connect` and `Disconnect` take no lock), lost connections, restarts of the agent, and the events
by which the core learns of clients, raised after the lock by whichever thread handled the message.
The refinement mapping is the identity on `result` and `ran`; everything else is hidden.

### Firewall

`win` are Windows' rules, `log` the audit events about them - the agent's own writes are logged like
those of others -, `cache` the guids in `CWindowsFirewall::m_FwRules`, and `fw` everything under
`m_RulesMutex`: the objects, the map, and the lists of pointers into it. Objects are numbered, since
a list may hold one that has left the map. `FWRuleChanged` is the function of that name as an
operator on `fw`, cut by its outcomes (`RuleRemoved`, `RuleReturned`, `RuleAdded`, `RuleModified`,
`BackupMet`). `OnFwGuardEvent` and `UpdateRules` read first and lock later; `AskAboutWithdrawnRules`,
`ReleaseHeldRules` and `RevertChanges` are the timer's round, the last one object after the other
with the lock held. Objects are numbered up to `MaxRules`; a step that may need a number waits for a
free one (`HasRoom`), which bounds the objects alive at a time and nothing else. All that `Match` compares except Enabled is a rule's kind. Faults: a write
refused, or followed by a read that differs or fails, a query or an enumeration that fails (which the
code takes for removal), a restart.

`SetRule` is cut where the code has no lock. `CFirewall::SetRule` looks up the rule under
`m_RulesMutex`, inside `GetRule`, and gives the lock back; what follows is on the object it has in hand:
`Compare` is `IsBackup` and `Match` (`Firewall.cpp:1127`, `1149`), `Approve` the `Update` of line 1151,
`DropBackups` the `ClearBackups` of line 1152. Only the other two ways, `WriteRule` and `RestoreBackup`,
take the mutex again. A change that is handled in between may turn the object into a backup. Then
`Compare` restores and approves a backup the request did not name; or `Approve` wipes the backup link,
since `Update` copies `m_OriginalGuid` (`FirewallRule.cpp:165`) from a request that has none: the object
stays in the map, and in `m_RulesToRevert`, like a live rule with the random guid that `SetAsBackup`
gave it and that Windows does not know, and when `RestoreRule` comes to it, it is written under a guid
made up anew (`WindowsFirewall.cpp:1180`) while the foreign form stays in force and is in no list.
`Random` are the guids that are only made up and never those of a rule from outside. `DropBackups`
walks the map while another thread may insert into it or erase from it (`MapInUse`): it may then pass
over any of the backups it looks for.

`wanted`, `doubtful`, `mistaken` and `overlapped` are history. `doubtful` are guids for which a call
failed or an outdated list was applied, or that `Approve` left in the map as above; `mistaken` are the
kinds of the backups a request restored in the place of the rule it named; `overlapped` says that a
change met one that was not settled yet (`Overlaps`, `Overtaken`, `Collides` name the ways), or a request
between two of its steps (`Compare`, `Approve`, `DropBackups`), or that the agent restarted with
unsettled changes. `GuardHolds` and `AgreedKept` do not claim anything of such behaviours, because there the
code does not deliver: see "Windows the properties except".

Left out: rules derived from templates, expiry, `ReLoad`, bidirectional requests, two requests
at a time, an `Update` that lands inside `RestoreRule`, the crash that a walk over a changing map may end
in (it is a `Restart` at that point), and edits of
guard entries and templates, which are settings fixed for a behaviour.

## 3. What the runs check

| Run | Properties | Bounds |
|---|---|---|
| `presets_restore` | `TypeOK`, `OwnedRemembersOriginal`, `UnownedIsOriginal` | 2 presets that want one rule, 1 client, user changes, refused item and disk writes, crash anywhere |
| `presets_stored` | `StoredAtRest`, `OwnerIsActive`, `UnforcedLeavesOthers` | a rule and a template with a derived rule, 1 client that deletes nothing, crash anywhere |
| `presets_walk` | `RequestsFinish` | 2 clients, one walking or reloading while the other erases and activates |
| `threadpool` | `TypeOK`, `StartedInOrder`, `WithinMaxThreads`, `KeepsPromise`, `QueueDrains`, `StopReturns` | 2 enqueuers, 3 thread ids, 2 workers, 4 tasks |
| `process_delta` | `ViewerInStep`, `ListsInStep`, `NoOrphanedScopes` | 2 processes with a handle and a socket each, 4 changes, 1 lost connection, 1 reload, both builds |
| `library_delta` | `ConnectionInStep`, `SameLibraries` | 2 libraries, 2 signatures, 5 changes, 2 lost connections, both builds |
| `rulecache` | `TypeOK`, `NoChangeMissed`, `WrongOnlyIfOvertaken`, `ListsInStep`, `PurgesOnlyExpiring`, `CatchesUp` | each manager with 1 item and 2 paths, 2 pool threads and the timer, 3 changes, 1 fault |
| `rulecache_scripts` | `LeftoverIsLate` | each manager with 2 items that share a global state, 1 pool thread and the timer, 2 changes |
| `volumes` | `TypeOK`, `MapsInStep`, `RulesKept`, `LeftoversExplained`, `GuardedWhileMounted` | 2 images, 2 device numbers, one request at a time, 2 mounts, 1 edit (of a rule or of the setting), 1 fault |
| `alpc` | `TypeOK`, `InStep`, `ClientsInStep`, `ImplementsRemoteCall`, `CallsReturn` | 3 calls of up to 2 chunks with replies of up to 3, 2 connections, 1 restart |
| `alpc_answer` | `AnswersOwn` is violated | 3 calls, replies of up to 2 chunks |
| `firewall` | `ApprovedWasAgreed`, `MirrorsWindows`, `GuardHolds`, `AgreedKept`, `AnswersOnlyOthers` | 2 guids and 2 that are made up, 3 kinds of rule, 5 settings, 4 sets of stored rules, 8 objects, 2 interventions from outside |

Why the bounds are enough. Presets: two presets and one item are what a takeover, a conflict and a
walk over more than one element need, two clients every race of a pair of requests. Worker pool: the
third thread id lets a finished worker wait unreaped while another starts, and four tasks fill two
workers twice. Deltas: four changes create a process and its handle or socket, change it between two
reads of one round and change or remove it again in the next. Rule caches: three changes of one item
read by two threads and a load are every order in which readings can be applied, and nothing in the
managers relates two items except the script store, which has its run. Volumes: two images on two
numbers let a number pass from one to the other while the first is listed. Transport: two
connections are one before and one after a reconnect, three chunks have a first, a middle and a last
one; three calls are one that fails, one that misreads and one that follows. Firewall: two guids are
a rule and its replacement, a third and a fourth one what a backup whose link was wiped is called and what
it is restored under; two interventions are a change and what may come on top of it - a second
change, a request, a failing call or a restart - and each is followed by any number of rounds.
What more interventions bring up is named in `Overlaps`; the theorems of section 4 hold for any number
of them.

The bounds are constants: `MaxTasks`, `MaxChanges`, `MaxLost`, `MaxReloads`, `MaxFaults`, `MaxMounts`,
`MaxEdits`, `MaxCalls`, `MaxConns`, `MaxDeaths`, `MaxRules`, `MaxOutside`, `MaxKeys` (which stands for the
code's quota); `Presets` has none, its states are finite. Deadlock checking is off where everybody
may be done: all tasks run, all changes made, no client with a request to make.

`ProcessDelta`, `LibraryDelta` and `Firewall` state a `TypeOK` too; it documents their variables and holds on
the instances of their runs, but the runs spend their properties on what could be wrong.

### Findings

* `alpc_answer`: `CAlpcPortClient::Call` looks for the reply's number in its own request. A request of
  several chunks is therefore refused after its handler ran, the server is left replying, and the
  next call takes a chunk of that reply for its own (`AlpcPortClient.cpp:228`).

### Windows the properties except

What the code does not guarantee is written into the properties, by name, so that everything around
it is checked:

* `UnforcedLeavesOthers` covers the branch of `ApplyPresetItems` whose comment (`PresetManager.cpp:407`)
  says that it should not happen: re-activating an active preset reaches it, and other presets' items
  are left alone. `StoredAtRest` and `OwnerIsActive` are checked with one client: two requests may
  store the older image last or lose the file by sharing the `.tmp`, and `DeactivateAllPresets`
  clears a preset activated in its window. `RequestsFinish` excepts a walk whose iterator was
  invalidated.
* `QueueDrains` starts from a worker in its loop: a task enqueued after the last worker saw an empty
  queue and before it marked itself waits for the next `enqueueTask`. `StopReturns` excepts
  `MutualWait`: `stop()` joins under the mutex that a worker needs to end.
* `ViewerInStep` excepts a signature shown as untested in a build with the cache: `CProcess::Update`
  settles its authority without counting the version up. `ConnectionInStep` is stated for one
  connection with the cache: without it a library that is listed is not read again, so a signature
  that arrives later is not shown. `ListsInStep` of `ProcessDelta` likewise: an empty handle or socket
  list is not written (`ListReplies.cpp:339, 349`), so after a reconnect closed handles stay.
* `WrongOnlyIfOvertaken`: a load or a handler that read before another one applied may overwrite the
  newer state; the map stays wrong until the next notification for that item. A failed read passes
  for a removal in some managers.
* `LeftoverIsLate`: a script that outlives its rule stores again after the clean-up, and
  `LoadEnclaves` cleans up nothing.
* `RulesKept`, `LeftoversExplained`, `MapsInStep`: the history variables `lost`, `leaked` and
  `displaced` are set at the lines that lose an edit, leave a rule or strand a GUID, and nowhere else.
  With two requests at a time more is lost: the clean-up of a dismount, or of an Update with an older
  device list, removes the temporary rule of a mount that got the same number
  (`VolumeManager.cpp:684, 1437`), and the hibernation guard may be released under a new mount
  (`:889`). The actions are in the model; the run has one request at a time. `lost` also has the image
  that a save of a displaced volume overwrites: of one that a dismount still holds (`ToSave`,
  `VolumeManager.cpp:819`) or that a request for its GUID finds (`SetDisplaced`; which of several held
  volumes of an image becomes clean by it is left open).
* `GuardedWhileMounted` speaks of volumes that were mounted by a request with `GuardHibernation` on and
  the driver's consent (`guarded`). Not of those whose guard the driver refused, mounted with the setting
  off, found by an Update (after a restart all are), or mounted on the strength of a guard the driver had
  let go of with an answer of 0 (`misled`); and of one request at a time.
* `ClientsInStep` excepts clients whose connect event was handled after their disconnect event: the
  core keeps them for ever. `InStep` excepts connections on which a call was given up or which were
  taken up within a call; `CallsReturn` a fetch for which the server has nothing (`Starved`).
* `GuardHolds` and `AgreedKept` except behaviours in which two changes met (`overlapped`): a rule that
  was turned down and is then changed leaves `m_RulesToRemove` and its rejected form is what will be
  restored; a twin that stands in for a removed rule may itself be a change about to be undone, after
  which neither is left; an object held back or to be removed may have left the map; a rule that was
  turned down and goes before that is carried out is kept among the settled removals
  (`Firewall.cpp:1925`), although their comment (`:565`) speaks of guard entries and the removal option
  only, and if it comes back at once it takes over from itself and is not turned down again; after a
  restart the lists are empty. Three more came up in the proof, beyond what two interventions reach:
  `UpdateRules` works on a copy of the map and may meet in it a backup whose replacement it has
  accepted a moment before, and have it restored beside the replacement; and among identical rules
  none of which stands (`Stands`: in the map, and no change waits for it) each may answer for the
  other: a rule that was turned down or held back goes and a held copy of it takes its place, or a
  held copy changes and is taken for what is to be restored (`Firewall.cpp:1901-1990`). `wanted`
  starts from the stored rules, without those the guard has disabled.
  `MirrorsWindows` excepts guids for which a call failed (`doubtful`).
* A request meets a change in the stretch of `SetRule` without the lock (`Firewall.cpp:1124-1152`, see
  the section on the model). A backup whose link `Update` wiped counts as a rule of the map that Windows
  does not have: `MirrorsWindows` excepts its random guid (`doubtful`), and it is the wanted rule that is
  neither in Windows nor a backup any more, or the reason why a foreign form is never undone, which
  `GuardHolds` and `AgreedKept` except (`overlapped`). A backup that was restored in the place of the rule
  a request named counts as approved: `ApprovedWasAgreed` excepts its kind (`mistaken`). Backups that the
  unlocked walk of `ClearBackups` passed over stay, and may be restored later (`overlapped`).

### Fairness

`Presets!FairSpec` has weak fairness of each client's next step: the agent's request threads are
scheduled by Windows and none of the steps waits for another client. `ThreadPool!FairSpec` has weak
fairness of `tryStart`, of each worker and of the steps of `stop()`: threads are scheduled and a task
that runs returns. `RuleCache!FairSpec` has weak fairness of every pool thread and of the timer, and
strong fairness of applying what was read: the mutex is given back between the turns of a purge,
which is only once a minute, so a handler that waits for it gets it. `AlpcPort!FairSpec` has weak
fairness of the calling thread and of the server for each connection. Nothing assumes that anybody
enqueues, stops, makes a request, changes a rule, connects or crashes.

`Firewall` states no liveness: that the guard comes to rest was beyond what TLC could search with the
faults and restarts in the model. `AnswersOnlyOthers` is the safety property on which it rests - an
event about the agent's own write leads to no further change.

## 4. What is proved

`PresetsProofs` proves, for any presets, items, derived rules, clients, requests, failures and
crashes:

* `TypeCorrect`: `Spec => []TypeOK`;
* `OriginalsAreRemembered`: `Spec => []OwnedRemembersOriginal`;
* `OriginalsAreRestored`: `Spec => []UnownedIsOriginal`;
* `OthersAreLeftAlone`: `Spec => UnforcedLeavesOthers`, an action property;

and for one client that deletes nothing and a disk that takes what it is given (`OneClient`,
`NothingDeleted`, `DiskWorks`: without any of them the windows of section 3 break the property), still
with refused rule writes, changes by the user, imports and crashes anywhere:

* `FileIsCurrentAtRest`: `Spec => []StoredAtRest`;
* `OwnersAreActive`: `Spec => []OwnerIsActive`.

Assumptions: `PresetsAreOrdered` (presets are positive numbers, because `std::set` is ordered),
`EditsAreItemLists`, `TypesOfItems`, `DerivedRules` (derived rules are not items and belong to
firewall templates), `EnvironmentConstants`, `NoFileIsNoImage`.

Argument: the inductive invariant is `OriginalInv`, the conjunction of `TypeOK` and the two halves.
Neither half is inductive alone: activating saves the state of a free item, which is the original
only because `UnownedIsOriginal` held before; deactivating writes the saved state, which is the
original only because `OwnedRemembersOriginal` held. There is one lemma per kind of step -
`ApplyPresetItems`, `DeactivatePresetInternal`, `Load`, the restart, the user's change, and the steps
that leave items and ownership alone - and the theorem splits `Next` over them.

The file has an inductive invariant of its own, `StoreInv`. That owners are active after a restart is
a statement about the file (`Sound`: whoever owns an item in it is active and exists in it), and that
the file is sound depends on every step of `Store()`: what `SaveEntries` and `SaveOwnership` collected
under their two locks is still what is in memory when it is written and renamed (`Collected`,
`Written`). It also needs where the two loops are: `DeactivateAllPresets` has given back all up to its
iterator (`WalkedPast`), and an import still holds every active preset in its list (`LeftCovers`), so
that the list it then replaces has no active preset.

`ThreadPoolProofs` proves, for any threads, clients, number of tasks and limit:

* `TypeCorrect`: `Spec => []TypeOK`;
* `TasksStartInOrder`: `Spec => []StartedInOrder`;
* `ThreadsAreLimited`: `Spec => []WithinMaxThreads`;
* `StopIsFinal`: `Spec => []StoppedIsQuiet`;
* `PoolIsAnExecutor`: `Spec => KeepsPromise`, that is, every step of the pool is a step of `Executor` or
  leaves what it knows alone.

Assumption: `PoolConstants` (the limit is a positive and the number of tasks a natural number).

Argument: three invariants, one on top of the other where needed. `OrderInv` says that what was
started followed by what is queued is 1, 2, ..., count; it gives the order, and it bounds the length of
the queue, without which the type of `call` (the task count handed to `tryStart`) is not inductive.
`MapInv` says that every thread that has not marked itself is an unmarked entry of the map and that
there are at most `MaxThreads` of those: `tryStart` counts entries, not threads, so the limit on
threads follows only from the inclusion. `QuietInv` adds that the flag is up from the call of
`stop()` on; with `MapInv`, an empty set of unmarked entries after the join means that no thread is
busy, and the flag keeps a worker started later from taking a task. The refinement adds `TaskInv`: threads
execute different tasks, none of which the queue will give out again (`HeadIsNext`, from the order),
so that one task fewer is executed when one returns; and a thread that looks at the queue is itself
a free place below the limit (`PlaceIsFree`).

`presets_walk` leaves the two halves of `OriginalInv` to these theorems, which hold for any number of
clients.

`LibraryDeltaProofs` proves, for any libraries, signatures, numbers of changes and lost connections:

* `VersionAnswersIt`: `Spec => []ConnectionInStep`;
* `LibrariesAreListed`: `Spec => []SameLibraries`, in both builds.

Assumption: `LibraryConstants` (the value that stands for a library that is not listed is no
signature). The inductive invariant has one part per stage of a round: `CacheInv` says that a token
one above the version means that the cached signature is the present one, which is what makes
skipping a library sound and what the order "version first, then value" of the code is for;
`RoundInv`, `SentInv` and `IdleInv` carry that from the snapshot over the reply to the viewer's copy;
`Shown` is the conclusion. The methods of `CVariantCacheT` get their lemmas first.

`ProcessDeltaProofs` proves, for any processes, fields, handles, sockets, and numbers of changes, lost
connections and reloads, in both builds:

* `ProcessesInStep`: `Spec => []ViewerInStep`;
* `ScopesHaveProcesses`: `Spec => []NoOrphanedScopes`;
* `ListsFollow`: `Spec => []ListsInStep`.

Assumption: `DeltaConstants` (the names of fields and of the builder's steps differ; the UIDs of handles
and of sockets are finitely many, as numbers of 64 bits are). Here the round is
not one step: the collectors move between the read of a version and the read of the fields it stands
for, so the invariant is about each process at each moment of the round (`RoundOf`). A token one above
the version means that the cached group is the present one, except while that group is being
written (`Writing`); a field that is not among the changes is the one the viewer has; and a process
that is not `pending` has, of every field whose turn has come, the value the agent has. `CacheInv`,
`SentInv`, `IdleInv` and `Agrees` carry this over the sweep, the answer and the merge; `FileInv` is the
counterpart without the cache, `ListInv` the claim about the lists inside processes. Whatever step the
builder takes, it touches one process only (`Touches`, `CachedStep`), and what the methods of the cache
do to a round is stated by lemmas about entries (`Enters`, `Files`). For the first two theorems what the
rounds over handles and sockets return stays opaque (`HandleRound`, `SocketRound`), since no field they
speak of depends on it.

`ListsFollow` needs to know. Both rounds are folds over a finite set; `FoldExists` shows, by least
counterexample on the size of the set, that a function on its subsets does what the fold does, and
`HandleRoundIs` and `SocketRoundIs` carry along it what has been kept, what is among the changes and what
is still to come. So a round over the handles leaves the named ones in the cache and answers with what
is new and what is gone; one over the sockets leaves the live ones with their present fields, and what
it answers, merged into what was sent before, is those fields (the static half is sent again when its
version, `ex`, moved). `ListsMirrored` is the invariant, on top of the first: `ListCache` says that a
version of the handles that was sent is never above the process's own and that, if it is equal, the
cache has exactly the handles there are (unless the builder is between reading the version and the
handles); `ListRoundInv` that the viewer's row with what the answer already has is what the cache has,
and what there is for a process that was read and did not change since; `ListSentInv`, `ListIdleInv` and
`ListAgrees` carry that over the answer to the viewer, `ListFileInv` is the counterpart without the
cache. With the cache all of it but `ListCache` is about one connection without a reload (`Single`).

`RuleCacheProofs` proves, for each of the four managers and any items, paths, threads, changes, faults
and scripts:

* `TypeCorrect`: `Spec => []TypeOK`;
* `ChangesAreSeen`: `Spec => []NoChangeMissed`;
* `WrongIsExplained`: `Spec => []WrongOnlyIfOvertaken`;
* `ProgramItemsFollow`: `Spec => []ListsInStep`;
* `LeftoversAreLate`: `Spec => []LeftoverIsLate`;
* `OnlyExpiringArePurged`: `Spec => PurgesOnlyExpiring`, an action property.

Assumptions: `RuleCacheAssumption` (the timer is not a pool thread) and `ScriptAssumption` ("none" is no
script). `NoChangeMissed` speaks of the time when everything is handled; the invariant behind it,
`Tracked`, has to say of every moment where a change that the map has not seen is: in a notification,
in a handler's call to the driver, or in a reading that waits for the mutex. `Truthful` adds that a
reading as new as the driver's item has its contents, without which an applied reading would prove
nothing. `Linked` and `Leftover` follow the lists of the program items and the script store, `Purging`
the rules a purge has still to remove.

`VolumesProofs` proves, for any clients, images, devices, rules, numbers of mounts, edits and faults:

* `TypeCorrect`: `Spec => []TypeOK`;
* `EditsKept`: `Spec => []RulesKept`;

and, under `OneClient` (at most one client: requests are served one at a time),

* `MapsAgree`: `Spec => []MapsInStep`;
* `GuardIsHeld`: `Spec => []GuardedWhileMounted`;
* `LeftoversKnown`: `Spec => []LeftoversExplained`.

Assumption: `VolumesAssumption` (finitely many images and rules, "none" is no image). `OneClient` is a
hypothesis and not an assumption on the constants, since the code does serve several clients; TLC finds
the last three violated with two, for the reasons given under "Windows the properties except".
`Distinct` (ImDisk attaches an image once) and `MapInv` are what the maps rest on: which client is
between which two steps, both maps at every one of them, and the guard. `GuardInv` has for any number of
clients what the agent may believe of the driver (`Promised => prevented`); that a mounted volume is
covered by that belief (`Covered`) needs requests one at a time. `KeptInv` follows an edit from the map
through the driver and the notification to the file, also the files that saves of displaced volumes
write to; `LeftInv` a temporary rule to the clean-up that
takes it away. The attempt to prove `MapsInStep` showed a case the model had to name: an image whose
mount was given up may be attached late on another device while its old entry still stands, after
which its GUID leads to the old entry, or to none once that is cleaned up; `displaced` now has it.

`AlpcPortProofs` proves, for any numbers of calls, connections and restarts and any lengths of
requests and replies:

* `TypeCorrect`: `Spec => []TypeOK`;
* `RemoteCallImplemented`: `Spec => ImplementsRemoteCall`, that is, every step of the transport is a
  step of `RemoteCall` or leaves `result` and `ran` alone;
* `InStepBetweenCalls`: `Spec => []InStep`;
* `CoreFollowsServer`: `Spec => []ClientsInStep`.

Assumption: `AlpcAssumption` (a request and a reply have at least one chunk). An answer is accepted by a
comparison of numbers, so the proof has to know whose chunks can be where. `Mail` says on which
connection a message can be, `Held` and `Fresh` whose reply a server still holds, `Stream` what the
call has of its own reply, chunk by chunk; `Clean` (for `InStep`) what the server has of a request
on a connection no call was given up on, and `Table` (for `ClientsInStep`) which events are still to
be handled. The exception `Misread` of `RemoteCall` is exactly what the invariant cannot exclude.

`FirewallProofs` proves, for any guids, kinds, programs, settings, stored rules, and numbers of
interventions, with failing calls and restarts:

* `TypeCorrect`: `Spec => []TypeOK`, in particular that no list points at an object that was freed;
* `ApprovedIsAgreed`: `Spec => []ApprovedWasAgreed`;
* `MapMirrors`: `Spec => []MirrorsWindows`;
* `OnlyOthersAnswered`: `Spec => AnswersOnlyOthers`, an action property;
* `AgreedStaysKept`: `Spec => []AgreedKept`;
* `GuardAlwaysHolds`: `Spec => []GuardHolds`.

Assumption: `FirewallAssumption` (guids are positive, "none" is no kind, a start finds at most
`MaxRules` rules, of kinds the user agrees to, one for a guid, and none under a guid that is yet to be
made up). `FWRuleChanged` is treated by
effects: whatever branch it takes, it leaves the live rules alone (`Touches`), takes one away
(`Drops`) or replaces one (`Brings`), and so do `RestoreRule` and the requests (`Moves`, `Answers`), where a
rule may also come back under another guid than it had (`Trades`);
each step of the specification is then one of a few shapes. `Safe` is inductive: `Shape` keeps every
list within the objects in use - also what `UpdateRules` and a request have in hand, which is why
`Collected` spares them - and a withdrawn rule a backup, or one whose link a request has wiped
(`Aside`); `Verdicts` covers all objects and not only
those of the map, because a verdict is taken over from one that has left it, and the stored rules,
because they come back. `MirrorInv` says how the map can differ from Windows at any moment: an event
about the rule is pending, it has just been read, or the first `UpdateRules` after a start is still
to come (`Follows`). It needs that the newest event about a rule tells whether there is one
(`NewestTells`), that a reading no event overtakes is current (`ReadIsFresh`), that a rule the agent
believes removed already is gone (`CacheKnows`: `RemoveRule` writes nothing for a guid that is not in the
cache), that a guid has one live rule (`Once`), and which rules `UpdateRules` has still to look at
(`WalkIsWhole`). Two definitions were made exact on the way: the branches of `FWRuleChanged` exclude
each other, and `TakeHeldRule` erases the first entry only.

The last three theorems are about behaviours in which nothing went wrong (`Calm`; `Unmistaken` adds that
no request has then taken one rule for another), and rest on three further invariants (in
`FirewallInvariants`):

* `Tidy`, of the lists: a rule is held back once (`HeldOnce`), the lists were filled under the setting in
  force (`Marked`), and what they name is where it should be (`Placed`): what is to be disabled is a
  live rule, what is to be restored a backup, and under the blanket guard every backup of the map is to
  be restored and no rule is held back beside one. It is an invariant of its own because an object may
  leave the map while a list points at it; what a step adds to the lists is `Resolves`, what it takes
  from them `Removes` and `Redoes`.
* `OwnMirrored`, of the agent's own writes: when the newest event about a rule is the agent's own, the
  map has the rule as it is in Windows. With `MirrorInv`, the event is then no news when it is handled.
* `Kept`, of what the user wants, a statement about the map alone. `Carried`: each wanted content is
  that of a backup, or of a rule that is in no list and has no earlier form waiting to be restored.
  `Trapped`: under the blanket guard, a rule the user did not agree to is to be disabled, held back, or
  covered by an earlier form about to be restored, and no such form is itself a rule he did not agree
  to. `Orderly`: a guid has one form to be restored, a removal waits once, and without the blanket
  guard nothing is restored unasked. `Upholds(f, h)` says that a change from `f` to `h` keeps all
  three whatever is wanted; each outcome of `FWRuleChanged` upholds (`Turns` is what they share,
  `Apart` what `Overlaps` leaves of the cases), as do the steps of the timer's round; the user's own
  requests change what is wanted and are followed one by one (`WriteKeeps`, `ApproveUpholds`,
  `DropKeeps`, `DelKeeps`, `RestoreBackupKeeps`), and so is a restart (`RestartKeeps`).

At rest no list has an entry, so `Carried` and `Trapped` speak of the map, and `MirrorsWindows` carries
what they say over to Windows: that is `GuardHolds`; `AgreedKept` needs `Carried` and `MirrorsWindows` only.

Only model-checked:

* all liveness (`RequestsFinish`, `QueueDrains`, `StopReturns`, `CatchesUp`, `CallsReturn`), which rests on
  fairness and is beyond the prover. Every safety invariant and every action property of the runs is
  stated by a theorem, but for `AnswersOwn`, which a run refutes; three of `Volumes` and two of `Presets`
  are proved under the hypotheses named above, which the runs' constants meet.

## 5. Not modelled

* The kernel driver is not in the repository; its items, notifications and failures are external
  parts of `Presets`, `RuleCache` and `Volumes`.
* Of modelled parts: the program list of the list replies; storing of the access log; firewall
  templates and the rules derived from them, expiry and `ReLoad`; event datagrams over ALPC and the
  reading thread, the pipes (the alternative build) and the filter port's own protocol; the other
  callers of `WriteFileSafe`.
* Service life cycle, collectors (ETW, polling), DNS filter and tweaks: see the plan.
* Script bindings, event logs and records (I/O); ImBox, the boot loader set-up, containers, hooks,
  installer, the viewer's windows; third-party code, which is most of the repository's lines
  (quickjs, phnt, PHlib, qwt, krabs, Detours, miniz).

## 6. Plan

1. `SafeFile`: `WriteFileSafe` as a module of its own with an abstract "atomic file" specification,
   shown to implement it with one writer; `Presets` and `Firewall` then use it.
2. The program list (`BuildProgramDelta`); an abstract "mirror" specification that `LibraryDelta` and
   `ProcessDelta` implement.
3. Firewall templates with the rules derived from them, expiry, `ReLoad`.
4. Event datagrams and the reading thread of the ALPC client; the service's start and stop.
5. DNS filter; the order of writes in the boot loader set-up.

What is left to prove: with item 2, that the two list modules implement the mirror.
