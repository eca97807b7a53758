---------------------------- MODULE LibraryDelta ----------------------------
(***************************************************************************)
(* The library list, from the agent to the viewer: BuildLibraryDelta       *)
(* (Service/Common/ListReplies.cpp), SVC_API_GET_LIBRARIES, and             *)
(* CProgramManager::UpdateLibs in the viewer.  A library is enlisted once   *)
(* and never removed; its path is fixed and its signature is what can       *)
(* change.  useCache is the USE_CACHE build switch.                         *)
(***************************************************************************)
EXTENDS VariantCache

CONSTANTS
    Libs,         \* library UIDs
    Values,       \* signatures
    Builds,       \* the values of USE_CACHE to consider
    MaxChanges,   \* bound: signatures examined
    MaxLost       \* bound: connections lost

ASSUME LibraryConstants ==
    /\ Builds \subseteq BOOLEAN /\ MaxChanges \in Nat /\ MaxLost \in Nat
    /\ "not listed" \notin Values

VARIABLES
    useCache,     \* USE_CACHE, fixed when the program is built
    sign,         \* the agent's libraries: the signature, NotListed if there is no such library
    version,      \* m_Version
    cache,        \* SListCaches::Libraries of the connection
    at,           \* the thread that answers: "idle", "next", "write", "sent"
    full,         \* bIsFull of the round under way
    todo,         \* libraries of the snapshot still to visit
    cur,          \* the library it is at
    round,        \* the round under way
    reply,        \* changed entries of the answer
    viewer,       \* the viewer's libraries
    pending,      \* history: libraries changed since the round under way began
    touched,      \* history: libraries changed since the last applied round began
    changes, lost

agent == <<useCache, sign, version, changes>>
thread == <<at, full, todo, cur, round>>
vars == <<agent, cache, thread, reply, viewer, pending, touched, lost>>

NotListed == "not listed"
Listed == {l \in Libs : sign[l] # NotListed}
NoRound == BeginRound(NewScope)

-----------------------------------------------------------------------------
(* The agent *)

Changed(l) ==
    /\ changes < MaxChanges /\ changes' = changes + 1
    /\ pending' = pending \cup {l} /\ touched' = touched \cup {l}
    /\ UNCHANGED <<useCache, cache, thread, reply, viewer, lost>>

GetLibrary(l) ==
    /\ l \notin Listed
    /\ \E v \in Values : sign' = [sign EXCEPT ![l] = v]
    /\ version' = version
    /\ Changed(l)

UpdateSignInfo(l) ==
    /\ l \in Listed
    /\ \E v \in Values : sign' = [sign EXCEPT ![l] = v]
    /\ version' = [version EXCEPT ![l] = @ + 1]
    /\ Changed(l)

-----------------------------------------------------------------------------
(* SVC_API_GET_LIBRARIES under ListsMutex *)

GetLibraries ==
    /\ at = "idle"
    /\ full' = (~useCache \/ IsEmpty(cache))
    /\ todo' = Listed
    /\ round' = BeginRound(cache)
    /\ at' = "next" /\ cur' = cur
    /\ pending' = {}
    /\ UNCHANGED <<agent, cache, reply, viewer, touched, lost>>

\* Held one above the version, nought means never sent.
Token(r, l) == LET t == EntryToken(r, l) IN IF "version" \in DOMAIN t THEN t["version"] ELSE 0

SameVersion(l) ==
    /\ useCache /\ at = "next" /\ l \in todo
    /\ Token(round, l) = version[l] + 1
    /\ round' = Keep(round, l)
    /\ todo' = todo \ {l}
    /\ UNCHANGED <<agent, cache, at, full, cur, reply, viewer, pending, touched, lost>>

NewVersion(l) ==
    /\ useCache /\ at = "next" /\ l \in todo
    /\ Token(round, l) # version[l] + 1
    /\ round' = SetEntryToken(round, l, "version", version[l] + 1)
    /\ at' = "write" /\ cur' = l
    /\ todo' = todo \ {l}
    /\ UNCHANGED <<agent, cache, full, reply, viewer, pending, touched, lost>>

\* ToVariant of the library, filed field by field.
WriteEntry ==
    /\ at = "write"
    /\ round' = Write(round, cur, "sign", sign[cur])
    /\ at' = "next"
    /\ UNCHANGED <<agent, cache, full, todo, cur, reply, viewer, pending, touched, lost>>

\* Without the cache.
ToVariant(l) ==
    /\ ~useCache /\ at = "next" /\ l \in todo
    /\ round' = WriteAlways(round, l, "sign", sign[l])
    /\ todo' = todo \ {l}
    /\ UNCHANGED <<agent, cache, at, full, cur, reply, viewer, pending, touched, lost>>

FinishRound ==
    /\ at = "next" /\ todo = {}
    /\ cache' = IF useCache THEN Swept(round) ELSE cache
    /\ reply' = round.changed
    /\ at' = "sent"
    /\ UNCHANGED <<agent, full, todo, cur, round, viewer, pending, touched, lost>>

-----------------------------------------------------------------------------
(* The viewer *)

\* Mutant of IsRead: an enlisted library is never read again.
IsReadOnce(l) == l \in DOMAIN reply /\ viewer[l] = NotListed

\* Mutant of IsRead: a complete list only sweeps.
IsReadFromDelta(l) == l \in DOMAIN reply /\ ~full

\* On a complete list a library that is already enlisted is not read again.
IsRead(l) == l \in DOMAIN reply /\ (viewer[l] = NotListed \/ ~full)

IsSwept(l) == full /\ l \notin DOMAIN reply

UpdateLibs ==
    /\ at = "sent"
    /\ viewer' = [l \in Libs |-> IF IsRead(l) THEN reply[l]["sign"]
                                 ELSE IF IsSwept(l) THEN NotListed ELSE viewer[l]]
    /\ touched' = pending
    /\ at' = "idle"
    /\ UNCHANGED <<agent, cache, full, todo, cur, round, reply, pending, lost>>

LoseConnection ==
    /\ lost < MaxLost /\ lost' = lost + 1
    /\ cache' = NewScope
    /\ at' = "idle"
    /\ UNCHANGED <<agent, full, todo, cur, round, reply, viewer, pending, touched>>

-----------------------------------------------------------------------------

Init ==
    /\ useCache \in Builds
    /\ sign = [l \in Libs |-> NotListed] /\ version = [l \in Libs |-> 0]
    /\ cache = NewScope
    /\ at = "idle" /\ full = FALSE /\ todo = {} /\ cur \in Libs /\ round = NoRound
    /\ reply = Empty
    /\ viewer = [l \in Libs |-> NotListed]
    /\ pending = {} /\ touched = {}
    /\ changes = 0 /\ lost = 0

Next ==
    \/ \E l \in Libs : \/ GetLibrary(l) \/ UpdateSignInfo(l)
                       \/ SameVersion(l) \/ NewVersion(l) \/ ToVariant(l)
    \/ GetLibraries \/ WriteEntry \/ FinishRound \/ UpdateLibs \/ LoseConnection

Spec == Init /\ [][Next]_vars

-----------------------------------------------------------------------------
(* Properties *)

\* The types of the variables.
TypeOK ==
    /\ useCache \in BOOLEAN
    /\ sign \in [Libs -> Values \cup {NotListed}]
    /\ version \in [Libs -> Nat]
    /\ viewer \in [Libs -> Values \cup {NotListed}]
    /\ at \in {"idle", "next", "write", "sent"}
    /\ full \in BOOLEAN
    /\ todo \subseteq Libs /\ cur \in Libs
    /\ DOMAIN reply \subseteq Libs
    /\ DOMAIN cache.entries \subseteq Libs /\ DOMAIN round.scope.entries \subseteq Libs
    /\ pending \subseteq Libs /\ touched \subseteq Libs

\* ListReplies.cpp:449 "Nothing about a library changes except its signature,
\* so the version answers it instead": a library that did not change since
\* the last applied round began is shown with the signature the agent has.
ViewerInStep == \A l \in Libs \ touched : viewer[l] = sign[l]

\* The same, as long as the client stays on one connection of a build with
\* the cache, where no complete list meets a library that is already shown.
ConnectionInStep == (useCache /\ lost = 0) => ViewerInStep

\* Whatever the signatures: with and without the cache and over lost
\* connections, the viewer lists exactly the libraries the agent has, except
\* those enlisted since the last applied round began.
SameLibraries == \A l \in Libs \ touched : viewer[l] = NotListed <=> sign[l] = NotListed
=============================================================================
