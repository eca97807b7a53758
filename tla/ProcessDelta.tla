---------------------------- MODULE ProcessDelta ----------------------------
(***************************************************************************)
(* The process list, from the agent's collectors to the viewer's copy:     *)
(* BuildProcessDelta and the handle and socket lists inside it             *)
(* (Service/Common/ListReplies.cpp), the request that sends them, and       *)
(* CProcessList::Update in the viewer.  useCache is the USE_CACHE build     *)
(* switch: without it every reply is the complete list.                     *)
(*                                                                         *)
(* The collectors change a process at any time between two reads of it by  *)
(* the thread that builds the reply; every read is a step.  The fields are  *)
(* of four kinds: compared in every round ("plain"), guarded by a version   *)
(* (Groups: the signature and the services), the handle list, guarded by    *)
(* its version and otherwise constant, and the sockets.                     *)
(***************************************************************************)
EXTENDS VariantCache, FiniteSets, FiniteSetsExt

CONSTANTS
    Procs,        \* process UIDs: pid and creation time, never reused
    Values,       \* what a field can hold
    Groups,       \* the fields a version stands for
    Handles,      \* handle UIDs of a process, never reused
    Sockets,      \* socket UIDs of a process, never reused
    FirstSign,    \* the signature a process may start out with
    Untested,     \* the value of a signature nobody looked at (KphUntestedAuthority)
    Builds,       \* the values of USE_CACHE to consider
    MaxChanges,   \* bound: changes by the collectors
    MaxLost,      \* bound: connections lost
    MaxReloads    \* bound: reloads asked for

ASSUME DeltaConstants ==
    /\ Builds \subseteq BOOLEAN
    /\ MaxChanges \in Nat /\ MaxLost \in Nat /\ MaxReloads \in Nat
    /\ FirstSign \subseteq Values \cup {Untested}
    \* UIDs are numbers of 64 bits
    /\ IsFiniteSet(Handles) /\ IsFiniteSet(Sockets)
    \* names of fields and of the builder's steps
    /\ Groups \cap {"plain", "handles", "oldHandles", "sockets", "oldSockets",
                    "idle", "next", "groups", "sent"} = {}

VARIABLES
    useCache,     \* USE_CACHE, fixed when the program is built
    proc,         \* the collectors' process list
    lists,        \* SListCaches of the connection
    builder,      \* the thread that answers the request
    reply,        \* its answer
    viewer,       \* the viewer's process list
    pending,      \* history: processes changed since the round under way began
    touched,      \* history: processes changed since the last applied round began
    changes, lost, reloads

collector == <<useCache, proc, changes>>
vars == <<useCache, proc, lists, builder, reply, viewer, pending, touched, changes, lost, reloads>>

-----------------------------------------------------------------------------
(* The collectors *)

Absent == "absent"
Live == {p \in Procs : proc[p].life = "live"}

NewProcess ==
    [life |-> "new", plain |-> Absent, group |-> [g \in Groups |-> Absent],
     version |-> [g \in Groups |-> 0],
     handle |-> [h \in Handles |-> "new"], handleVersion |-> 0,
     socket |-> [s \in Sockets |-> [life |-> "new", ex |-> FALSE, state |-> Absent]]]

Change(p, new) ==
    /\ changes < MaxChanges
    /\ proc' = [proc EXCEPT ![p] = new]
    /\ changes' = changes + 1
    /\ pending' = pending \cup {p} /\ touched' = touched \cup {p}
    /\ UNCHANGED <<useCache, lists, builder, reply, viewer, lost, reloads>>

AddProcess(p) ==
    /\ proc[p].life = "new"
    /\ \E v \in Values, s \in FirstSign :
          Change(p, [proc[p] EXCEPT !.life = "live", !.plain = v, !.group = [g \in Groups |-> s]])

\* A process stays listed as long as it has sockets.
RemoveProcess(p) ==
    /\ p \in Live /\ \A s \in Sockets : proc[p].socket[s].life # "live"
    /\ Change(p, [proc[p] EXCEPT !.life = "gone"])

SetField(p) == p \in Live /\ \E v \in Values \ {proc[p].plain} : Change(p, [proc[p] EXCEPT !.plain = v])

\* SetSignInfo, UpdateSignInfo, AddService, RemoveService.
SetVersioned(p, g) ==
    /\ p \in Live
    /\ \E v \in Values \ {proc[p].group[g]} :
          Change(p, [proc[p] EXCEPT !.group[g] = v, !.version[g] = @ + 1])

\* CProcess::Update with what the driver knows: flags and counters, and the
\* authority as long as it is untested.
UpdateFromDriver(p) ==
    /\ p \in Live
    /\ \E v \in Values \ {proc[p].plain}, a \in Values :
          Change(p, [proc[p] EXCEPT !.plain = v,
                        !.group = [g \in Groups |-> IF g = "sign" /\ @[g] = Untested THEN a ELSE @[g]]])

\* Only a handle with a file name is ever shown.
AddHandle(p, h) ==
    /\ p \in Live /\ proc[p].handle[h] = "new"
    /\ \E life \in {"named", "unnamed"} :
          Change(p, [proc[p] EXCEPT !.handle[h] = life, !.handleVersion = @ + 1])

RemoveHandle(p, h) ==
    /\ p \in Live /\ proc[p].handle[h] \in {"named", "unnamed"}
    /\ Change(p, [proc[p] EXCEPT !.handle[h] = "closed", !.handleVersion = @ + 1])

AddSocket(p, s) ==
    /\ p \in Live /\ proc[p].socket[s].life = "new"
    /\ \E v \in Values : Change(p, [proc[p] EXCEPT !.socket[s] = [life |-> "live", ex |-> FALSE, state |-> v]])

RemoveSocket(p, s) ==
    /\ p \in Live /\ proc[p].socket[s].life = "live"
    /\ Change(p, [proc[p] EXCEPT !.socket[s].life = "gone"])

InitStaticDataEx(p, s) ==
    /\ p \in Live /\ proc[p].socket[s].life = "live" /\ ~proc[p].socket[s].ex
    /\ Change(p, [proc[p] EXCEPT !.socket[s].ex = TRUE])

UpdateDynamicData(p, s) ==
    /\ p \in Live /\ proc[p].socket[s].life = "live"
    /\ \E v \in Values \ {proc[p].socket[s].state} : Change(p, [proc[p] EXCEPT !.socket[s].state = v])

Collect ==
    \E p \in Procs :
        \/ AddProcess(p) \/ RemoveProcess(p) \/ SetField(p) \/ UpdateFromDriver(p)
        \/ \E g \in Groups : SetVersioned(p, g)
        \/ \E h \in Handles : AddHandle(p, h) \/ RemoveHandle(p, h)
        \/ \E s \in Sockets : \/ AddSocket(p, s) \/ RemoveSocket(p, s)
                              \/ InitStaticDataEx(p, s) \/ UpdateDynamicData(p, s)

NamedHandles(p) == {h \in Handles : proc[p].handle[h] = "named"}
LiveSockets(p) == {s \in Sockets : proc[p].socket[s].life = "live"}

-----------------------------------------------------------------------------
(* The request: SVC_API_GET_PROCESSES under ListsMutex *)

NoLists == [processes |-> NewScope, handles |-> Empty, sockets |-> Empty]
Idle == [at |-> "idle"]
NoReply == [full |-> FALSE, changed |-> Empty, removed |-> {}]

StartRound(full, base) ==
    /\ builder.at = "idle"
    /\ builder' = [at |-> "next", full |-> full, todo |-> Live, round |-> BeginRound(base.processes)]
    /\ lists' = base
    /\ pending' = {}
    /\ UNCHANGED <<collector, reply, viewer, touched>>

GetProcesses ==
    /\ StartRound(~useCache \/ IsEmpty(lists.processes), lists)
    /\ UNCHANGED <<lost, reloads>>

\* API_V_RELOAD.
Reload ==
    /\ reloads < MaxReloads
    /\ StartRound(TRUE, NoLists)
    /\ reloads' = reloads + 1 /\ lost' = lost

\* The builder moves on and nothing else changes but the caches.
Build(b, l) ==
    /\ builder' = b
    /\ lists' = l
    /\ UNCHANGED <<collector, reply, viewer, pending, touched, lost, reloads>>

WriteFields(p) ==
    /\ useCache
    /\ builder.at = "next" /\ p \in builder.todo
    /\ Build([at |-> "groups", full |-> builder.full, todo |-> builder.todo \ {p}, p |-> p, left |-> Groups,
              round |-> Write(builder.round, p, "plain", proc[p].plain)], lists)

SentVersion(p, g) ==
    LET t == EntryToken(builder.round, p) IN IF g \in DOMAIN t THEN t[g] ELSE 0

\* Held one above the real version, so that nought means never sent.
WireVersion(p, g) == proc[p].version[g] + 1

ReadVersion(g) ==
    /\ builder.at = "groups" /\ g \in builder.left
    /\ LET version == WireVersion(builder.p, g)
       IN \/ /\ SentVersion(builder.p, g) = version
             /\ Build([builder EXCEPT !.left = @ \ {g}], lists)
          \/ /\ SentVersion(builder.p, g) # version
             /\ Build([builder EXCEPT !.at = g,
                          !.round = SetEntryToken(@, builder.p, g, version)], lists)

WriteGroup(g) ==
    /\ builder.at = g
    /\ Build([builder EXCEPT !.at = "groups", !.left = @ \ {g},
                 !.round = Write(@, builder.p, g, proc[builder.p].group[g])], lists)

\* BuildHandleDelta up to BeginRound.
ReadHandleVersion ==
    /\ builder.at = "groups" /\ builder.left = {}
    /\ LET p == builder.p
           scope == ScopeOf(lists.handles, p)
       IN \/ /\ scope.token = proc[p].handleVersion
             /\ Build([builder EXCEPT !.at = "sockets"], [lists EXCEPT !.handles = Put(@, p, scope)])
          \/ /\ scope.token # proc[p].handleVersion
             /\ Build([builder EXCEPT !.at = "handles"],
                      [lists EXCEPT !.handles = Put(@, p, [scope EXCEPT !.token = proc[p].handleVersion])])

\* A list inside the process entry travels only if there is anything in it.
WriteSubDelta(r, p, field, value, isEmpty) ==
    IF isEmpty THEN r ELSE WriteAlways(r, p, field, value)

\* Keep, and the two constant fields of a handle the viewer does not have.
WriteHandle(h, r) == IF HasBeenSent(r, h) THEN Keep(r, h) ELSE Write(r, h, "path", h)

HandleRound(p) == FoldSet(WriteHandle, BeginRound(lists.handles[p]), NamedHandles(p))

\* The rest of BuildHandleDelta, under m_HandleMutex.
EnumHandles ==
    /\ builder.at = "handles"
    /\ LET p == builder.p
           r == HandleRound(p)
           added == WriteSubDelta(builder.round, p, "handles", DOMAIN r.changed, r.changed = Empty)
       IN Build([builder EXCEPT !.at = "sockets",
                    !.round = WriteSubDelta(added, p, "oldHandles", Removed(r), Removed(r) = {})],
                [lists EXCEPT !.handles = PutScope(@, p, Swept(r))])

\* Mutant of WriteSocket: the static half is written once.
WriteSocketOnce(s, r, socket) ==
    LET static == IF s \in DOMAIN r.scope.entries THEN r
                  ELSE Write(r, s, "static", socket.ex)
    IN Write(static, s, "state", socket.state)

WriteSocket(s, r, socket) ==
    LET version == IF socket.ex THEN 2 ELSE 1
        token == EntryToken(r, s)
        static == IF "static" \in DOMAIN token /\ token["static"] = version THEN r
                  ELSE Write(SetEntryToken(r, s, "static", version), s, "static", socket.ex)
    IN Write(static, s, "state", socket.state)

SocketRound(p) ==
    LET Step(s, r) == WriteSocket(s, r, proc[p].socket[s])
    IN FoldSet(Step, BeginRound(ScopeOf(lists.sockets, p)), LiveSockets(p))

\* BuildSocketDelta, under m_SocketMutex.
EnumSockets ==
    /\ builder.at = "sockets"
    /\ LET p == builder.p
           r == SocketRound(p)
           added == WriteSubDelta(builder.round, p, "sockets", r.changed, r.changed = Empty)
       IN Build([at |-> "next", full |-> builder.full, todo |-> builder.todo,
                 round |-> WriteSubDelta(added, p, "oldSockets", Removed(r), Removed(r) = {})],
                [lists EXCEPT !.sockets = PutScope(@, p, Swept(r))])

\* Without the cache: CProcess::ToVariant of every process.
ToVariant(p) ==
    /\ ~useCache
    /\ builder.at = "next" /\ p \in builder.todo
    /\ LET socket == [s \in LiveSockets(p) |-> [f \in {"static", "state"} |->
                         IF f = "static" THEN proc[p].socket[s].ex ELSE proc[p].socket[s].state]]
           all == [f \in {"plain", "handles", "sockets"} \cup Groups |->
                     CASE f = "plain"   -> proc[p].plain
                       [] f = "handles" -> NamedHandles(p)
                       [] f = "sockets" -> socket
                       [] OTHER         -> proc[p].group[f]]
       IN Build([builder EXCEPT !.todo = @ \ {p}, !.round.changed = Put(@, p, all)], lists)

\* Mutant of ForgetProcesses: the lists of a process that is gone stay.
ForgetNothing(l, ps) == l

\* A process that is gone takes its handles and sockets with it.
ForgetProcesses(l, ps) == [l EXCEPT !.handles = Drop(@, ps), !.sockets = Drop(@, ps)]

FinishProcesses ==
    /\ builder.at = "next" /\ builder.todo = {}
    /\ LET gone == Removed(builder.round)
       IN /\ lists' = [ForgetProcesses(lists, gone) EXCEPT
                         !.processes = IF useCache THEN Swept(builder.round) ELSE @]
          /\ reply' = [full |-> builder.full, changed |-> builder.round.changed, removed |-> gone]
    /\ builder' = [at |-> "sent"]
    /\ UNCHANGED <<collector, viewer, pending, touched, lost, reloads>>

-----------------------------------------------------------------------------
(* The viewer *)

NewRow == [fields |-> Empty, handles |-> {}, sockets |-> Empty]

MergeFields(old, new) ==
    [f \in DOMAIN old \cup DOMAIN new |-> IF f \in DOMAIN new THEN new[f] ELSE old[f]]

Part(e, f, default) == IF f \in DOMAIN e THEN e[f] ELSE default

\* UpdateHandlesUnsafe, UpdateSocketsUnsafe: on a complete list what it does
\* not mention is removed.
UpdateHandles(row, e, full) ==
    LET kept == IF full /\ "handles" \in DOMAIN e THEN {} ELSE row.handles
    IN (kept \cup Part(e, "handles", {})) \ Part(e, "oldHandles", {})

UpdateSockets(row, e, full) ==
    LET new == Part(e, "sockets", Empty)
        kept == IF full /\ "sockets" \in DOMAIN e THEN {} ELSE DOMAIN row.sockets
        merged == [s \in kept \cup DOMAIN new |->
                     MergeFields(IF s \in DOMAIN row.sockets THEN row.sockets[s] ELSE Empty,
                                 Part(new, s, Empty))]
    IN Drop(merged, Part(e, "oldSockets", {}))

FromVariant(row, e, full) ==
    [fields |-> MergeFields(row.fields, Drop(e, {"handles", "oldHandles", "sockets", "oldSockets"})),
     handles |-> UpdateHandles(row, e, full),
     sockets |-> UpdateSockets(row, e, full)]

\* The viewer's list after a reply.
Merged(r) ==
    LET kept == IF r.full THEN {} ELSE DOMAIN viewer \ r.removed
    IN [p \in kept \cup DOMAIN r.changed |->
          FromVariant(IF p \in DOMAIN viewer THEN viewer[p] ELSE NewRow,
                      Part(r.changed, p, Empty), r.full)]

Update ==
    /\ builder.at = "sent"
    /\ viewer' = Merged(reply)
    /\ touched' = pending
    /\ builder' = Idle /\ reply' = NoReply
    /\ UNCHANGED <<collector, lists, pending, lost, reloads>>

\* The pipe breaks, or the call times out and the viewer closes it: the
\* SClient goes, whatever the request was at; the viewer keeps its list.
LoseConnection ==
    /\ lost < MaxLost
    /\ lost' = lost + 1
    /\ lists' = NoLists
    /\ builder' = Idle /\ reply' = NoReply
    /\ UNCHANGED <<collector, reloads, viewer, pending, touched>>

-----------------------------------------------------------------------------

Init ==
    /\ useCache \in Builds
    /\ proc = [p \in Procs |-> NewProcess]
    /\ lists = NoLists
    /\ builder = Idle /\ reply = NoReply
    /\ viewer = Empty
    /\ pending = {} /\ touched = {}
    /\ changes = 0 /\ lost = 0 /\ reloads = 0

Next ==
    \/ Collect
    \/ GetProcesses \/ Reload
    \/ \E p \in Procs : WriteFields(p) \/ ToVariant(p)
    \/ \E g \in Groups : ReadVersion(g) \/ WriteGroup(g)
    \/ ReadHandleVersion \/ EnumHandles \/ EnumSockets
    \/ FinishProcesses \/ Update \/ LoseConnection

Spec == Init /\ [][Next]_vars

-----------------------------------------------------------------------------
(* Properties *)

\* The types of the variables.
TypeOK ==
    /\ DOMAIN proc = Procs
    /\ \A p \in Procs :
          /\ proc[p].life \in {"new", "live", "gone"}
          /\ proc[p].version \in [Groups -> 0..MaxChanges]
          /\ proc[p].handleVersion \in 0..MaxChanges
    /\ useCache \in BOOLEAN
    /\ builder.at \in {"idle", "next", "groups", "handles", "sockets", "sent"} \cup Groups
    /\ DOMAIN viewer \subseteq Procs
    /\ \A p \in DOMAIN viewer :
          /\ DOMAIN viewer[p].fields = {"plain"} \cup Groups
          /\ viewer[p].handles \subseteq Handles
          /\ \A s \in DOMAIN viewer[p].sockets : DOMAIN viewer[p].sockets[s] = {"static", "state"}
    /\ touched \subseteq Procs /\ pending \subseteq Procs
    /\ changes \in 0..MaxChanges /\ lost \in 0..MaxLost /\ reloads \in 0..MaxReloads

\* What the viewer should show of a process.
Shown(p) ==
    [fields |-> [f \in {"plain"} \cup Groups |-> IF f = "plain" THEN proc[p].plain ELSE proc[p].group[f]],
     handles |-> NamedHandles(p),
     sockets |-> [s \in LiveSockets(p) |-> [f \in {"static", "state"} |->
                    IF f = "static" THEN proc[p].socket[s].ex ELSE proc[p].socket[s].state]]]

\* Processes the viewer should know, because they did not change since the
\* last applied round began.
Settled == (Procs \ touched) \cap Live

\* VariantCache.h:7 "only what changed gets sent again", and it is enough:
\* whatever did not change since the last applied round began, the viewer
\* lists, with every field as the agent has it, and no process that is gone -
\* however the collectors interleave with the thread that compares versions
\* and reads values, and over lost connections and reloads.  One field is
\* excepted: Process.cpp:539 settles an untested signature without counting its
\* version up, so with the cache the viewer may go on showing it as untested.
ViewerInStep ==
    /\ (DOMAIN viewer) \ touched \subseteq Live
    /\ \A p \in Settled :
         /\ p \in DOMAIN viewer
         /\ \A f \in {"plain"} \cup Groups :
               \/ viewer[p].fields[f] = Shown(p).fields[f]
               \/ useCache /\ f = "sign" /\ viewer[p].fields[f] = Untested

\* The same of the handles and sockets inside a process, as long as the
\* client stays on the connection that first sent them; in a build without
\* the cache, on every connection.
ListsInStep ==
    (~useCache \/ (lost = 0 /\ reloads = 0)) =>
        \A p \in Settled : viewer[p].handles = Shown(p).handles /\ viewer[p].sockets = Shown(p).sockets

\* ListReplies.cpp:360 "A process that is gone takes its handles and sockets
\* with it": between two rounds the sub caches hold lists of cached processes
\* only, so they do not grow for the life of the connection.
NoOrphanedScopes ==
    builder.at = "idle" =>
        DOMAIN lists.handles \cup DOMAIN lists.sockets \subseteq DOMAIN lists.processes.entries
=============================================================================
