---------------------------- MODULE VariantCache ----------------------------
(***************************************************************************)
(* CVariantCacheT (Library/Common/VariantCache.h): what one client was sent *)
(* of one list, as operators on values.  A scope is a record of its         *)
(* entries, of the ones this round mentioned, and of the caller's token; an *)
(* entry remembers the fields as they were last sent.                       *)
(*                                                                         *)
(* SeenRound = RoundNr is membership in "seen": the 64 bit round number     *)
(* only grows, so starting a round empties the set.                         *)
(***************************************************************************)
EXTENDS Naturals

Empty == [x \in {} |-> 0]

Put(f, k, v) == [x \in DOMAIN f \cup {k} |-> IF x = k THEN v ELSE f[x]]

Drop(f, ks) == [x \in DOMAIN f \ ks |-> f[x]]

NewEntry == [sent |-> FALSE, token |-> Empty, fields |-> Empty]

NewScope == [seen |-> {}, token |-> 0, entries |-> Empty]

-----------------------------------------------------------------------------
(* A round: the scope it is for and the changes it has collected. *)

\* Mutant of BeginRound: the round number stays as it was.
BeginSameRound(scope) == [scope |-> scope, changed |-> Empty]

BeginRound(scope) == [scope |-> [scope EXCEPT !.seen = {}], changed |-> Empty]

GetEntry(r, id) ==
    IF id \in DOMAIN r.scope.entries THEN r
    ELSE [r EXCEPT !.scope.entries = Put(@, id, NewEntry)]

Keep(r, id) == [GetEntry(r, id) EXCEPT !.scope.seen = @ \cup {id}]

\* What Keep returns.
HasBeenSent(r, id) == id \in DOMAIN r.scope.entries /\ r.scope.entries[id].sent

EntryToken(r, id) == GetEntry(r, id).scope.entries[id].token

SetEntryToken(r, id, part, value) ==
    [GetEntry(r, id) EXCEPT !.scope.entries[id].token = Put(@, part, value)]

ChangesOf(r, id) == IF id \in DOMAIN r.changed THEN r.changed[id] ELSE Empty

WriteAlways(r, id, field, value) ==
    [Keep(r, id) EXCEPT !.changed = Put(@, id, Put(ChangesOf(r, id), field, value))]

IsUnchanged(r, id, field, value) ==
    LET fields == r.scope.entries[id].fields
    IN field \in DOMAIN fields /\ fields[field] = value

Write(r, id, field, value) ==
    LET kept == Keep(r, id)
    IN IF IsUnchanged(kept, id, field, value) THEN kept
       ELSE [WriteAlways(r, id, field, value)
               EXCEPT !.scope.entries[id].fields = Put(@, field, value)]

-----------------------------------------------------------------------------
(* FinishRound *)

Unmentioned(r) == DOMAIN r.scope.entries \ r.scope.seen

Removed(r) == {id \in Unmentioned(r) : r.scope.entries[id].sent}

Swept(r) ==
    [r.scope EXCEPT !.entries =
        [id \in DOMAIN r.scope.entries \ Unmentioned(r) |->
            [r.scope.entries[id] EXCEPT !.sent = @ \/ id \in DOMAIN r.changed]]]

\* A scope other than 0 is dropped with its last entry unless it has a token.
PutScope(scopes, s, scope) ==
    IF DOMAIN scope.entries = {} /\ scope.token = 0 THEN Drop(scopes, {s})
    ELSE Put(scopes, s, scope)

\* GetOrAddValue on the table of scopes.
ScopeOf(scopes, s) == IF s \in DOMAIN scopes THEN scopes[s] ELSE NewScope

IsEmpty(scope) == DOMAIN scope.entries = {}
=============================================================================
