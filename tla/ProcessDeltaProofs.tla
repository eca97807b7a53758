------------------------- MODULE ProcessDeltaProofs -------------------------
(***************************************************************************)
(* Theorems about ProcessDelta, for any number of processes, handles,       *)
(* sockets, fields with a version, changes, lost connections and reloads,   *)
(* with and without the cache.                                              *)
(*                                                                         *)
(* Shape types the process list, the cache and the round.  CacheInv is what *)
(* makes skipping a group of fields sound: a token one above the version    *)
(* means that the cached value is the present one.  RoundInv follows the    *)
(* fields of each process while the round is built and FileInv does so      *)
(* without the cache; SentInv is about the answer, IdleInv about cache and  *)
(* viewer between two rounds; ListInv is about the lists inside processes.  *)
(*                                                                         *)
(* The second half follows the handles and the sockets themselves.  A round *)
(* over them is a fold, so it first says what such a fold comes to, whatever *)
(* the number of handles and sockets; then ListsMirrored does for the lists *)
(* what Inv does for the fields: ListCache is about what the caches hold,   *)
(* ListRoundInv and ListFileInv about the round with and without the cache,  *)
(* ListSentInv, ListIdleInv and ListAgrees about the answer and the viewer.  *)
(***************************************************************************)
EXTENDS ProcessDelta, FiniteSetTheorems, WellFoundedInduction, TLAPS

Flds == {"plain"} \cup Groups
Vals == Values \cup {Untested, Absent}

\* What is remembered of a process, with partial functions for its parts.
Tokens  == UNION {[D -> Nat] : D \in SUBSET Groups}
FieldsT == UNION {[D -> Vals] : D \in SUBSET Flds}
EntryT  == [sent : BOOLEAN, token : Tokens, fields : FieldsT]
Entries == UNION {[D -> EntryT] : D \in SUBSET Procs}
ScopeT  == [seen : SUBSET Procs, token : {0}, entries : Entries]

SocketT == [life : {"new", "live", "gone"}, ex : BOOLEAN, state : Vals]
ProcT   == [life : {"new", "live", "gone"}, plain : Vals, group : [Groups -> Vals],
            version : [Groups -> Nat],
            handle : [Handles -> {"new", "named", "unnamed", "closed"}], handleVersion : Nat,
            socket : [Sockets -> SocketT]]

\* A round: the fields of its changes are not typed, the lists are among them.
IsRound(r) ==
    /\ r = [scope |-> r.scope, changed |-> r.changed]
    /\ r.scope \in ScopeT /\ DOMAIN r.changed \subseteq Procs

\* What a scope has of a process: the entry, whether it was sent, the field f,
\* the version of the group g that was sent; and whether a change has a field.
EntryOf(s, p)  == IF p \in DOMAIN s.entries THEN s.entries[p] ELSE NewEntry
Was(s, p)      == EntryOf(s, p).sent
Holds(s, p, f) == f \in DOMAIN EntryOf(s, p).fields
Fld(s, p, f)   == EntryOf(s, p).fields[f]
Tok(s, p, g)   == IF g \in DOMAIN EntryOf(s, p).token THEN EntryOf(s, p).token[g] ELSE 0
Says(c, p, f)  == p \in DOMAIN c /\ f \in DOMAIN c[p]

Known   == {p \in Procs : proc[p].life # "new"}
Inside  == {"groups", "handles", "sockets"} \cup Groups
InRound == builder.at \in {"next"} \cup Inside

Scope   == builder.round.scope
Changed == builder.round.changed

\* The groups of the process being written whose turn is still to come.
Left(p) == IF builder.at \in {"groups"} \cup Groups /\ builder.p = p THEN builder.left ELSE {}
Writing(p, g) == builder.at = g /\ builder.p = p

Value(p, f) == IF f = "plain" THEN proc[p].plain ELSE proc[p].group[f]
Good(p, f, v) == v = Value(p, f) \/ (useCache /\ f = "sign" /\ v = Untested)

Shape ==
    /\ useCache \in BOOLEAN
    /\ proc \in [Procs -> ProcT]
    /\ lists = [processes |-> lists.processes, handles |-> lists.handles, sockets |-> lists.sockets]
    /\ lists.processes \in ScopeT
    /\ builder.at \in {"idle", "sent", "next"} \cup Inside
    /\ builder.at = "next" =>
         builder = [at |-> "next", full |-> builder.full, todo |-> builder.todo, round |-> builder.round]
    /\ builder.at \in Inside =>
         /\ builder = [at |-> builder.at, full |-> builder.full, todo |-> builder.todo, p |-> builder.p,
                       left |-> builder.left, round |-> builder.round]
         /\ useCache /\ builder.p \in Known \ builder.todo
         /\ builder.left \subseteq Groups
         /\ builder.at \in Groups => builder.at \in builder.left
    /\ InRound =>
         /\ builder.full \in BOOLEAN /\ builder.todo \subseteq Known
         /\ IsRound(builder.round)
         /\ ~useCache => builder.full
    /\ DOMAIN viewer \subseteq Procs /\ \A p \in DOMAIN viewer : Flds \subseteq DOMAIN viewer[p].fields
    /\ pending \subseteq Procs /\ touched \subseteq Procs

CacheInv ==
    /\ DOMAIN lists.processes.entries \subseteq Known
    /\ ~useCache => DOMAIN lists.processes.entries = {}
    /\ \A p \in DOMAIN lists.processes.entries :
         Was(lists.processes, p) /\ \A f \in Flds : Holds(lists.processes, p, f)
    /\ \A p \in Procs, g \in Groups :
         /\ Tok(lists.processes, p, g) <= proc[p].version[g] + 1
         /\ Tok(lists.processes, p, g) = proc[p].version[g] + 1 => Good(p, g, Fld(lists.processes, p, g))

\* What holds of each process while the round is built with the cache.
RoundOf(p) ==
    /\ p \in DOMAIN Scope.entries <=> p \in DOMAIN lists.processes.entries \cup DOMAIN Changed
    /\ p \in DOMAIN Scope.entries => p \in Known
    /\ p \in DOMAIN Changed => p \in Scope.seen
    /\ p \in Scope.seen => p \in DOMAIN Scope.entries
    /\ p \notin pending => (p \in Live <=> p \in builder.todo \cup Scope.seen)
    /\ Was(Scope, p) <=> p \in DOMAIN lists.processes.entries
    /\ \A f \in Flds :
         /\ p \in DOMAIN Scope.entries /\ f \notin Left(p) => Holds(Scope, p, f)
         /\ p \in Scope.seen \ (pending \cup builder.todo) /\ f \notin Left(p) => Good(p, f, Fld(Scope, p, f))
         /\ Says(Changed, p, f) => Holds(Scope, p, f) /\ Changed[p][f] = Fld(Scope, p, f)
         /\ Holds(Scope, p, f) /\ ~Says(Changed, p, f) =>
              ~builder.full /\ p \in DOMAIN viewer /\ viewer[p].fields[f] = Fld(Scope, p, f)
    /\ \A g \in Groups :
         /\ Tok(Scope, p, g) <= proc[p].version[g] + 1
         /\ Tok(Scope, p, g) # 0 /\ ~Writing(p, g) => Holds(Scope, p, g)
         /\ Tok(Scope, p, g) = proc[p].version[g] + 1 /\ ~Writing(p, g) => Good(p, g, Fld(Scope, p, g))

RoundInv == InRound /\ useCache =>
    /\ builder.at \in Inside => builder.p \in Scope.seen
    /\ builder.full => DOMAIN lists.processes.entries = {}
    /\ ~builder.full => DOMAIN viewer = DOMAIN lists.processes.entries
    /\ \A p \in Procs : RoundOf(p)

FileInv == InRound /\ ~useCache =>
    /\ DOMAIN Scope.entries = {}
    /\ \A p \in Procs \ pending : p \in Live <=> p \in builder.todo \cup DOMAIN Changed
    /\ \A p \in DOMAIN Changed : \A f \in Flds :
         f \in DOMAIN Changed[p] /\ (p \notin pending => Changed[p][f] = Value(p, f))

\* What the viewer lists after the answer.
After(p) == Merged(reply)[p].fields

SentInv == builder.at = "sent" =>
    /\ DOMAIN Merged(reply) \subseteq Procs
    /\ \A p \in DOMAIN Merged(reply) : Flds \subseteq DOMAIN After(p)
    /\ \A p \in Procs \ pending : p \in Live <=> p \in DOMAIN Merged(reply)
    /\ \A p \in DOMAIN Merged(reply) \ pending : \A f \in Flds : Good(p, f, After(p)[f])
    /\ useCache =>
         /\ DOMAIN Merged(reply) = DOMAIN lists.processes.entries
         /\ \A p \in DOMAIN Merged(reply) : \A f \in Flds : After(p)[f] = Fld(lists.processes, p, f)

IdleInv == builder.at # "sent" /\ useCache /\ DOMAIN lists.processes.entries # {} =>
    /\ DOMAIN viewer = DOMAIN lists.processes.entries
    /\ \A p \in DOMAIN viewer : \A f \in Flds : viewer[p].fields[f] = Fld(lists.processes, p, f)

ListInv ==
    DOMAIN lists.handles \cup DOMAIN lists.sockets \subseteq
        IF InRound THEN DOMAIN Scope.entries ELSE DOMAIN lists.processes.entries

Agrees ==
    /\ \A p \in Procs \ touched : p \in Live <=> p \in DOMAIN viewer
    /\ \A p \in DOMAIN viewer \ touched : \A f \in Flds : Good(p, f, viewer[p].fields[f])

Inv == Shape /\ CacheInv /\ RoundInv /\ FileInv /\ SentInv /\ IdleInv /\ ListInv /\ Agrees
-----------------------------------------------------------------------------
(* The operators of VariantCache *)

\* Adding to the partial functions that entries and scopes have.
LEMMA PartialPut ==
    ASSUME NEW S, NEW X, NEW f \in UNION {[D -> X] : D \in SUBSET S}, NEW k \in S, NEW v \in X
    PROVE  /\ Put(f, k, v) \in UNION {[D -> X] : D \in SUBSET S}
           /\ DOMAIN Put(f, k, v) = DOMAIN f \cup {k} /\ Put(f, k, v)[k] = v
           /\ \A x \in DOMAIN f : x # k => Put(f, k, v)[x] = f[x]
<1>1. DOMAIN f \subseteq S /\ \A x \in DOMAIN f : f[x] \in X
  OBVIOUS
<1>2. Put(f, k, v) \in [DOMAIN f \cup {k} -> X]
  BY <1>1 DEF Put
<1>3. DOMAIN f \cup {k} \in SUBSET S
  BY <1>1
<1> QED BY <1>2, <1>3 DEF Put

LEMMA PartialIn ==
    ASSUME NEW S, NEW X, NEW f \in UNION {[D -> X] : D \in SUBSET S}
    PROVE  DOMAIN f \subseteq S /\ (\A x \in DOMAIN f : f[x] \in X) /\ f = [x \in DOMAIN f |-> f[x]]
OBVIOUS

LEMMA EmptyPartial ==
    ASSUME NEW S, NEW X
    PROVE  Empty \in UNION {[D -> X] : D \in SUBSET S} /\ DOMAIN Empty = {}
<1>1. Empty \in [{} -> X]
  BY DEF Empty
<1>2. {} \in SUBSET S
  OBVIOUS
<1> QED BY <1>1, <1>2 DEF Empty

LEMMA NewEntryType ==
    /\ NewEntry \in EntryT /\ ~NewEntry.sent
    /\ DOMAIN NewEntry.token = {} /\ DOMAIN NewEntry.fields = {}
<1>1. Empty \in Tokens /\ Empty \in FieldsT /\ DOMAIN Empty = {}
  BY EmptyPartial DEF Tokens, FieldsT
<1> QED BY <1>1 DEF NewEntry, EntryT

LEMMA EntryOfType ==
    ASSUME NEW s \in ScopeT, NEW p
    PROVE  /\ EntryOf(s, p) \in EntryT
           /\ s.entries \in Entries /\ s.seen \subseteq Procs /\ DOMAIN s.entries \subseteq Procs
           /\ s = [seen |-> s.seen, token |-> s.token, entries |-> s.entries] /\ s.token \in {0}
<1>1. s.entries \in Entries /\ s.seen \subseteq Procs /\ s.token \in {0}
      /\ s = [seen |-> s.seen, token |-> s.token, entries |-> s.entries]
  BY DEF ScopeT
<1>2. DOMAIN s.entries \subseteq Procs /\ \A x \in DOMAIN s.entries : s.entries[x] \in EntryT
  BY <1>1, PartialIn DEF Entries
<1> QED BY <1>1, <1>2, NewEntryType DEF EntryOf

LEMMA EntryParts ==
    ASSUME NEW e \in EntryT
    PROVE  /\ e.sent \in BOOLEAN /\ e.token \in Tokens /\ e.fields \in FieldsT
           /\ e = [sent |-> e.sent, token |-> e.token, fields |-> e.fields]
           /\ DOMAIN e.token \subseteq Groups /\ \A g \in DOMAIN e.token : e.token[g] \in Nat
           /\ DOMAIN e.fields \subseteq Flds /\ \A f \in DOMAIN e.fields : e.fields[f] \in Vals
<1>1. /\ e.sent \in BOOLEAN /\ e.token \in Tokens /\ e.fields \in FieldsT
      /\ e = [sent |-> e.sent, token |-> e.token, fields |-> e.fields]
  BY DEF EntryT
<1>2. DOMAIN e.token \subseteq Groups /\ \A g \in DOMAIN e.token : e.token[g] \in Nat
  BY <1>1, PartialIn DEF Tokens
<1>3. DOMAIN e.fields \subseteq Flds /\ \A f \in DOMAIN e.fields : e.fields[f] \in Vals
  BY <1>1, PartialIn DEF FieldsT
<1> QED BY <1>1, <1>2, <1>3

\* A scope in which the process id has the entry e.
ScopeWith(s, id, e, seen) == [seen |-> seen, token |-> s.token, entries |-> Put(s.entries, id, e)]

LEMMA ScopeWithType ==
    ASSUME NEW s \in ScopeT, NEW id \in Procs, NEW e \in EntryT, NEW seen \in SUBSET Procs
    PROVE  /\ ScopeWith(s, id, e, seen) \in ScopeT
           /\ ScopeWith(s, id, e, seen).seen = seen
           /\ DOMAIN ScopeWith(s, id, e, seen).entries = DOMAIN s.entries \cup {id}
           /\ EntryOf(ScopeWith(s, id, e, seen), id) = e
           /\ \A p : p # id => EntryOf(ScopeWith(s, id, e, seen), p) = EntryOf(s, p)
<1> DEFINE es == Put(s.entries, id, e)
           t  == ScopeWith(s, id, e, seen)
<1>1. s.entries \in Entries /\ s.token \in {0}
  BY EntryOfType
<1>2. es \in Entries /\ DOMAIN es = DOMAIN s.entries \cup {id} /\ es[id] = e
      /\ \A x \in DOMAIN s.entries : x # id => es[x] = s.entries[x]
  <2>1. es \in Entries
    BY <1>1, PartialPut DEF Entries
  <2> QED BY <2>1 DEF Put
<1>3. t.seen = seen /\ t.token = s.token /\ t.entries = es /\ t = [seen |-> seen, token |-> s.token, entries |-> es]
  BY DEF ScopeWith
<1> HIDE DEF es, t
<1>4. t \in ScopeT
  BY <1>1, <1>2, <1>3 DEF ScopeT
<1>5. EntryOf(t, id) = e
  BY <1>2, <1>3 DEF EntryOf
<1>6. \A p : p # id => EntryOf(t, p) = EntryOf(s, p)
  BY <1>2, <1>3 DEF EntryOf
<1> QED BY <1>2, <1>3, <1>4, <1>5, <1>6 DEF t

\* The process id has the entry e after a step of the round, and no other changed.
Enters(r, q, id, e, seen) ==
    /\ IsRound(q)
    /\ q.scope.seen = seen
    /\ DOMAIN q.scope.entries = DOMAIN r.scope.entries \cup {id}
    /\ EntryOf(q.scope, id) = e
    /\ \A p : p # id => EntryOf(q.scope, p) = EntryOf(r.scope, p)

LEMMA EntersIntro ==
    ASSUME NEW r, IsRound(r), NEW id \in Procs, NEW e \in EntryT, NEW seen \in SUBSET Procs,
           NEW c, DOMAIN c \subseteq Procs,
           NEW q, q = [scope |-> ScopeWith(r.scope, id, e, seen), changed |-> c]
    PROVE  Enters(r, q, id, e, seen) /\ q.changed = c
<1>1. r.scope \in ScopeT
  BY DEF IsRound
<1>2. q.scope = ScopeWith(r.scope, id, e, seen) /\ q.changed = c
  OBVIOUS
<1>3. /\ q.scope \in ScopeT /\ q.scope.seen = seen
      /\ DOMAIN q.scope.entries = DOMAIN r.scope.entries \cup {id}
      /\ EntryOf(q.scope, id) = e
      /\ \A p : p # id => EntryOf(q.scope, p) = EntryOf(r.scope, p)
  BY <1>1, <1>2, ScopeWithType
<1>4. q = [scope |-> q.scope, changed |-> q.changed]
  OBVIOUS
<1>5. IsRound(q)
  BY <1>2, <1>3, <1>4 DEF IsRound
<1> QED BY <1>2, <1>3, <1>5 DEF Enters

LEMMA GetEntryIs ==
    ASSUME NEW r, IsRound(r), NEW id \in Procs
    PROVE  GetEntry(r, id) = [scope |-> ScopeWith(r.scope, id, EntryOf(r.scope, id), r.scope.seen),
                              changed |-> r.changed]
<1>1. r.scope \in ScopeT /\ r = [scope |-> r.scope, changed |-> r.changed]
  BY DEF IsRound
<1>2. /\ r.scope = [seen |-> r.scope.seen, token |-> r.scope.token, entries |-> r.scope.entries]
      /\ r.scope.entries \in Entries
  BY <1>1, EntryOfType
<1> DEFINE es == r.scope.entries
<1>3. CASE id \in DOMAIN es
  <2>1. es = [x \in DOMAIN es |-> es[x]]
    BY <1>2, PartialIn DEF Entries
  <2>2. Put(es, id, es[id]) = es
    BY <1>3, <2>1 DEF Put
  <2>3. ScopeWith(r.scope, id, EntryOf(r.scope, id), r.scope.seen) = r.scope
    BY <1>2, <1>3, <2>2 DEF ScopeWith, EntryOf
  <2> QED BY <1>1, <1>3, <2>3 DEF GetEntry
<1>4. CASE id \notin DOMAIN es
  <2>1. GetEntry(r, id) = [r EXCEPT !.scope.entries = Put(@, id, NewEntry)]
    BY <1>4 DEF GetEntry
  <2>2. [r EXCEPT !.scope.entries = Put(@, id, NewEntry)] =
          [scope |-> [r.scope EXCEPT !.entries = Put(es, id, NewEntry)], changed |-> r.changed]
    BY <1>1
  <2>3. [r.scope EXCEPT !.entries = Put(es, id, NewEntry)] =
          [seen |-> r.scope.seen, token |-> r.scope.token, entries |-> Put(es, id, NewEntry)]
    BY <1>2
  <2> QED BY <1>4, <2>1, <2>2, <2>3 DEF ScopeWith, EntryOf
<1> QED BY <1>3, <1>4

LEMMA KeepIs ==
    ASSUME NEW r, IsRound(r), NEW id \in Procs
    PROVE  Keep(r, id) = [scope |-> ScopeWith(r.scope, id, EntryOf(r.scope, id), r.scope.seen \cup {id}),
                          changed |-> r.changed]
<1> DEFINE es == Put(r.scope.entries, id, EntryOf(r.scope, id))
<1>1. GetEntry(r, id) = [scope |-> [seen |-> r.scope.seen, token |-> r.scope.token, entries |-> es],
                         changed |-> r.changed]
  BY GetEntryIs DEF ScopeWith
<1> HIDE DEF es
<1>2. Keep(r, id) = [scope |-> [seen |-> r.scope.seen \cup {id}, token |-> r.scope.token, entries |-> es],
                     changed |-> r.changed]
  BY <1>1 DEF Keep
<1> QED BY <1>2 DEF es, ScopeWith

LEMMA KeepEffect ==
    ASSUME NEW r, IsRound(r), NEW id \in Procs
    PROVE  /\ Enters(r, Keep(r, id), id, EntryOf(r.scope, id), r.scope.seen \cup {id})
           /\ Keep(r, id).changed = r.changed
<1>1. r.scope \in ScopeT /\ DOMAIN r.changed \subseteq Procs
  BY DEF IsRound
<1>2. EntryOf(r.scope, id) \in EntryT /\ r.scope.seen \cup {id} \in SUBSET Procs
  BY <1>1, EntryOfType
<1> QED BY <1>1, <1>2, KeepIs, EntersIntro

\* The same scope but for one entry, however it is put.
LEMMA PutTwice ==
    ASSUME NEW f, NEW k, NEW v, NEW w
    PROVE  /\ [Put(f, k, v) EXCEPT ![k] = w] = Put(f, k, w)
           /\ Put(f, k, v)[k] = v /\ k \in DOMAIN Put(f, k, v)
BY DEF Put

LEMMA TokenEntry ==
    ASSUME NEW e \in EntryT, NEW g \in Groups, NEW n \in Nat
    PROVE  /\ [e EXCEPT !.token = Put(@, g, n)] \in EntryT
           /\ [e EXCEPT !.token = Put(@, g, n)].sent = e.sent
           /\ [e EXCEPT !.token = Put(@, g, n)].fields = e.fields
           /\ [e EXCEPT !.token = Put(@, g, n)].token = Put(e.token, g, n)
<1>1. e.token \in Tokens
  BY DEF EntryT
<1>2. Put(e.token, g, n) \in Tokens
  BY <1>1, PartialPut DEF Tokens
<1> QED BY <1>2 DEF EntryT

LEMMA FieldEntry ==
    ASSUME NEW e \in EntryT, NEW f \in Flds, NEW v \in Vals
    PROVE  /\ [e EXCEPT !.fields = Put(@, f, v)] \in EntryT
           /\ [e EXCEPT !.fields = Put(@, f, v)].sent = e.sent
           /\ [e EXCEPT !.fields = Put(@, f, v)].token = e.token
           /\ [e EXCEPT !.fields = Put(@, f, v)].fields = Put(e.fields, f, v)
<1>1. e.fields \in FieldsT
  BY DEF EntryT
<1>2. Put(e.fields, f, v) \in FieldsT
  BY <1>1, PartialPut DEF FieldsT
<1> QED BY <1>2 DEF EntryT

LEMMA SetTokenEffect ==
    ASSUME NEW r, IsRound(r), NEW id \in Procs, NEW g \in Groups, NEW n \in Nat
    PROVE  /\ Enters(r, SetEntryToken(r, id, g, n), id,
                     [EntryOf(r.scope, id) EXCEPT !.token = Put(@, g, n)], r.scope.seen)
           /\ SetEntryToken(r, id, g, n).changed = r.changed
<1> DEFINE e == EntryOf(r.scope, id)
           d == [e EXCEPT !.token = Put(@, g, n)]
           es == Put(r.scope.entries, id, e)
<1>1. r.scope \in ScopeT /\ DOMAIN r.changed \subseteq Procs
  BY DEF IsRound
<1>2. e \in EntryT /\ r.scope.seen \in SUBSET Procs
  BY <1>1, EntryOfType
<1>3. d \in EntryT
  BY <1>2, TokenEntry
<1>4. GetEntry(r, id) = [scope |-> [seen |-> r.scope.seen, token |-> r.scope.token, entries |-> es],
                         changed |-> r.changed]
  BY GetEntryIs DEF ScopeWith
<1>5. es[id] = e /\ id \in DOMAIN es /\ [es EXCEPT ![id] = d] = Put(r.scope.entries, id, d)
  BY PutTwice
<1> HIDE DEF e, es
<1>6. SetEntryToken(r, id, g, n) =
        [scope |-> [seen |-> r.scope.seen, token |-> r.scope.token, entries |-> [es EXCEPT ![id] = d]],
         changed |-> r.changed]
  BY <1>4, <1>5 DEF SetEntryToken
<1> HIDE DEF d
<1>7. SetEntryToken(r, id, g, n) = [scope |-> ScopeWith(r.scope, id, d, r.scope.seen), changed |-> r.changed]
  BY <1>5, <1>6 DEF ScopeWith
<1>8. Enters(r, SetEntryToken(r, id, g, n), id, d, r.scope.seen) /\ SetEntryToken(r, id, g, n).changed = r.changed
  BY <1>1, <1>2, <1>3, <1>7, EntersIntro
<1> QED BY <1>8 DEF d, e

\* The change of id gets the field f, and no other changes.
Files(c, d, id, f, v) ==
    /\ DOMAIN d = DOMAIN c \cup {id}
    /\ Says(d, id, f) /\ d[id][f] = v
    /\ \A p, h : p # id \/ h # f =>
         /\ Says(d, p, h) <=> Says(c, p, h)
         /\ Says(c, p, h) => d[p][h] = c[p][h]

LEMMA FilesPut ==
    ASSUME NEW r, NEW id, NEW f, NEW v
    PROVE  Files(r.changed, Put(r.changed, id, Put(ChangesOf(r, id), f, v)), id, f, v)
<1> DEFINE c == r.changed
           k == ChangesOf(r, id)
           n == Put(k, f, v)
           d == Put(c, id, n)
<1>1. DOMAIN n = DOMAIN k \cup {f} /\ n[f] = v /\ \A h \in DOMAIN k : h # f => n[h] = k[h]
  BY DEF Put
<1>2. DOMAIN d = DOMAIN c \cup {id} /\ d[id] = n /\ \A p \in DOMAIN c : p # id => d[p] = c[p]
  BY DEF Put
<1>3. /\ id \in DOMAIN c => k = c[id]
      /\ id \notin DOMAIN c => DOMAIN k = {}
  BY DEF ChangesOf, Empty
<1> HIDE DEF k, n, d
<1>4. Files(c, d, id, f, v)
  BY <1>1, <1>2, <1>3 DEF Files, Says
<1> QED BY <1>4 DEF d, n, k

LEMMA WriteAlwaysEffect ==
    ASSUME NEW r, IsRound(r), NEW id \in Procs, NEW f, NEW v
    PROVE  /\ Enters(r, WriteAlways(r, id, f, v), id, EntryOf(r.scope, id), r.scope.seen \cup {id})
           /\ WriteAlways(r, id, f, v).scope = Keep(r, id).scope
           /\ WriteAlways(r, id, f, v).changed = Put(r.changed, id, Put(ChangesOf(r, id), f, v))
           /\ Files(r.changed, WriteAlways(r, id, f, v).changed, id, f, v)
<1> DEFINE c == Put(r.changed, id, Put(ChangesOf(r, id), f, v))
           s == ScopeWith(r.scope, id, EntryOf(r.scope, id), r.scope.seen \cup {id})
           w == WriteAlways(r, id, f, v)
<1>1. r.scope \in ScopeT /\ DOMAIN r.changed \subseteq Procs
  BY DEF IsRound
<1>2. EntryOf(r.scope, id) \in EntryT /\ r.scope.seen \cup {id} \in SUBSET Procs
  BY <1>1, EntryOfType
<1>3. Keep(r, id) = [scope |-> s, changed |-> r.changed]
  BY KeepIs
<1>4. Files(r.changed, c, id, f, v)
  BY FilesPut
<1>5. w = [Keep(r, id) EXCEPT !.changed = Put(@, id, Put(ChangesOf(r, id), f, v))]
  BY DEF WriteAlways
<1> HIDE DEF s
<1>6. w = [scope |-> s, changed |-> c]
  BY <1>3, <1>5
<1>7. DOMAIN c \subseteq Procs
  BY <1>1, <1>4 DEF Files
<1>8. w.scope = Keep(r, id).scope /\ w.changed = c
  BY <1>3, <1>6
<1> HIDE DEF c, w
<1>9. Enters(r, w, id, EntryOf(r.scope, id), r.scope.seen \cup {id})
  BY <1>1, <1>2, <1>6, <1>7, EntersIntro DEF s
<1> QED BY <1>4, <1>8, <1>9 DEF c, w

\* A field is filed unless it is what was sent last.
LEMMA WriteEffect ==
    ASSUME NEW r, IsRound(r), NEW id \in Procs, NEW f \in Flds, NEW v \in Vals
    PROVE  LET e == EntryOf(r.scope, id)
               q == Write(r, id, f, v)
           IN \/ /\ f \in DOMAIN e.fields /\ e.fields[f] = v
                 /\ Enters(r, q, id, e, r.scope.seen \cup {id}) /\ q.changed = r.changed
              \/ /\ Enters(r, q, id, [e EXCEPT !.fields = Put(@, f, v)], r.scope.seen \cup {id})
                 /\ Files(r.changed, q.changed, id, f, v)
<1> DEFINE e == EntryOf(r.scope, id)
           d == [e EXCEPT !.fields = Put(@, f, v)]
           es == Put(r.scope.entries, id, e)
           seen == r.scope.seen \cup {id}
           k == Keep(r, id)
           w == WriteAlways(r, id, f, v)
           q == Write(r, id, f, v)
<1>1. r.scope \in ScopeT /\ DOMAIN r.changed \subseteq Procs
  BY DEF IsRound
<1>2. e \in EntryT /\ seen \in SUBSET Procs
  BY <1>1, EntryOfType
<1>3. d \in EntryT
  BY <1>2, FieldEntry
<1>4. k.scope = [seen |-> seen, token |-> r.scope.token, entries |-> es]
  <2>1. k = [scope |-> ScopeWith(r.scope, id, e, seen), changed |-> r.changed]
    BY KeepIs
  <2>2. ScopeWith(r.scope, id, e, seen) = [seen |-> seen, token |-> r.scope.token, entries |-> es]
    BY DEF ScopeWith
  <2> HIDE DEF k, es, seen, e
  <2> QED BY <2>1, <2>2
<1>5. Enters(r, k, id, e, seen) /\ k.changed = r.changed
  BY KeepEffect
<1>6. es[id] = e /\ id \in DOMAIN es /\ [es EXCEPT ![id] = d] = Put(r.scope.entries, id, d)
  BY PutTwice
<1>7. IsUnchanged(k, id, f, v) <=> f \in DOMAIN e.fields /\ e.fields[f] = v
  BY <1>4, <1>6 DEF IsUnchanged
<1>8. CASE IsUnchanged(k, id, f, v)
  <2>1. q = k
    BY <1>8 DEF Write
  <2> QED BY <1>5, <1>7, <1>8, <2>1
<1>9. CASE ~IsUnchanged(k, id, f, v)
  <2>1. q = [w EXCEPT !.scope.entries[id].fields = Put(@, f, v)]
    BY <1>9 DEF Write
  <2>2. Files(r.changed, w.changed, id, f, v) /\ w.scope = k.scope /\ IsRound(w)
    BY WriteAlwaysEffect DEF Enters
  <2>3. w = [scope |-> [seen |-> seen, token |-> r.scope.token, entries |-> es], changed |-> w.changed]
    BY <1>4, <2>2 DEF IsRound
  <2> HIDE DEF e, es, w, seen, q, k
  <2>4. q = [scope |-> [seen |-> seen, token |-> r.scope.token, entries |-> [es EXCEPT ![id] = d]],
             changed |-> w.changed]
    BY <1>6, <2>1, <2>3
  <2> HIDE DEF d
  <2>5. q = [scope |-> ScopeWith(r.scope, id, d, seen), changed |-> w.changed]
    BY <1>6, <2>4 DEF ScopeWith
  <2>6. DOMAIN w.changed \subseteq Procs
    BY <2>2 DEF IsRound
  <2>7. Enters(r, q, id, d, seen) /\ q.changed = w.changed
    BY <1>2, <1>3, <2>5, <2>6, EntersIntro
  <2> QED BY <2>2, <2>7 DEF d, e, q, seen
<1> QED BY <1>8, <1>9

LEMMA BeginRoundEffect ==
    ASSUME NEW s \in ScopeT
    PROVE  /\ IsRound(BeginRound(s))
           /\ BeginRound(s).scope.seen = {} /\ BeginRound(s).scope.entries = s.entries
           /\ \A p : EntryOf(BeginRound(s).scope, p) = EntryOf(s, p)
           /\ DOMAIN BeginRound(s).changed = {}
<1> DEFINE t == [s EXCEPT !.seen = {}]
<1>1. t \in ScopeT /\ t.entries = s.entries /\ t.seen = {}
  BY DEF ScopeT
<1>2. BeginRound(s) = [scope |-> t, changed |-> Empty]
  BY DEF BeginRound
<1>3. DOMAIN Empty = {}
  BY DEF Empty
<1> HIDE DEF t
<1>4. BeginRound(s).scope = t /\ BeginRound(s).changed = Empty
  BY <1>2
<1>5. IsRound(BeginRound(s))
  BY <1>1, <1>2, <1>3, <1>4 DEF IsRound
<1>6. \A p : EntryOf(t, p) = EntryOf(s, p)
  BY <1>1 DEF EntryOf
<1> QED BY <1>1, <1>3, <1>4, <1>5, <1>6

\* What FinishRound leaves of a scope: the entries of this round, all sent.
LEMMA SweptEffect ==
    ASSUME NEW r, IsRound(r)
    PROVE  /\ Swept(r) \in ScopeT
           /\ DOMAIN Swept(r).entries = DOMAIN r.scope.entries \cap r.scope.seen
           /\ \A p \in DOMAIN Swept(r).entries :
                /\ EntryOf(Swept(r), p).fields = EntryOf(r.scope, p).fields
                /\ EntryOf(Swept(r), p).token = EntryOf(r.scope, p).token
                /\ EntryOf(Swept(r), p).sent <=> (EntryOf(r.scope, p).sent \/ p \in DOMAIN r.changed)
<1> DEFINE D == DOMAIN r.scope.entries \ Unmentioned(r)
           es == [id \in D |-> [r.scope.entries[id] EXCEPT !.sent = @ \/ id \in DOMAIN r.changed]]
<1>1. r.scope \in ScopeT
  BY DEF IsRound
<1>2. D = DOMAIN r.scope.entries \cap r.scope.seen
  BY DEF Unmentioned
<1>3. Swept(r) = [r.scope EXCEPT !.entries = es]
  BY DEF Swept
<1>4. DOMAIN r.scope.entries \subseteq Procs /\ \A p : EntryOf(r.scope, p) \in EntryT
  BY <1>1, EntryOfType
<1>5. ASSUME NEW p \in D
      PROVE  /\ es[p] \in EntryT /\ es[p].fields = EntryOf(r.scope, p).fields
             /\ es[p].token = EntryOf(r.scope, p).token
             /\ es[p].sent <=> (EntryOf(r.scope, p).sent \/ p \in DOMAIN r.changed)
  <2>1. PICK e : e = r.scope.entries[p]
    OBVIOUS
  <2>2. e = EntryOf(r.scope, p) /\ e \in EntryT
    BY <1>2, <1>4, <2>1 DEF EntryOf
  <2>3. es[p] = [e EXCEPT !.sent = @ \/ p \in DOMAIN r.changed]
    BY <2>1
  <2> HIDE DEF es, D
  <2>4. e.sent \in BOOLEAN
    BY <2>2 DEF EntryT
  <2> QED BY <2>2, <2>3, <2>4 DEF EntryT
<1>6. DOMAIN es = D
  OBVIOUS
<1>7. es \in Entries
  <2>1. es \in [D -> EntryT]
    BY <1>5
  <2>2. D \in SUBSET Procs
    BY <1>2, <1>4
  <2> QED BY <2>1, <2>2 DEF Entries
<1> HIDE DEF es, D
<1>8. Swept(r) \in ScopeT /\ Swept(r).entries = es
  BY <1>1, <1>3, <1>7 DEF ScopeT
<1>9. \A p \in D : EntryOf(Swept(r), p) = es[p]
  BY <1>6, <1>8 DEF EntryOf
<1> QED BY <1>2, <1>5, <1>6, <1>8, <1>9

-----------------------------------------------------------------------------
(* The collectors *)

\* What a change of a process by the collectors respects: a group of a listed
\* process changes with its version, but for the signature nobody looked at.
Grows(old, new) ==
    /\ new \in ProcT /\ new.life # "new"
    /\ old.life # "new" => \A g \in Groups :
         \/ new.version[g] > old.version[g]
         \/ new.version[g] = old.version[g] /\ new.group[g] = old.group[g]
         \/ new.version[g] = old.version[g] /\ g = "sign" /\ old.group[g] = Untested

LEMMA ProcParts ==
    ASSUME NEW x \in ProcT
    PROVE  /\ x = [life |-> x.life, plain |-> x.plain, group |-> x.group, version |-> x.version,
                   handle |-> x.handle, handleVersion |-> x.handleVersion, socket |-> x.socket]
           /\ x.life \in {"new", "live", "gone"}
           /\ x.plain \in Vals /\ x.group \in [Groups -> Vals] /\ x.version \in [Groups -> Nat]
           /\ x.handle \in [Handles -> {"new", "named", "unnamed", "closed"}] /\ x.handleVersion \in Nat
           /\ x.socket \in [Sockets -> SocketT]
BY DEF ProcT

LEMMA SameVersions ==
    ASSUME NEW old \in ProcT, NEW new \in ProcT, new.life # "new",
           new.version = old.version, new.group = old.group
    PROVE  Grows(old, new)
BY DEF Grows

LEMMA NewSocket ==
    ASSUME NEW x \in ProcT, NEW s \in Sockets, NEW t \in SocketT
    PROVE  [x EXCEPT !.socket[s] = t] \in ProcT
<1> DEFINE so == [x.socket EXCEPT ![s] = t]
<1>1. so \in [Sockets -> SocketT]
  BY ProcParts
<1> HIDE DEF so
<1>2. [x EXCEPT !.socket = so] \in ProcT
  BY <1>1 DEF ProcT
<1> QED BY <1>2 DEF so

LEMMA CollectGrows ==
    ASSUME Shape, Collect
    PROVE  \E p \in Procs, new \in ProcT : Change(p, new) /\ Grows(proc[p], new)
<1>1. proc \in [Procs -> ProcT]
  BY DEF Shape
<1>2. PICK p \in Procs :
        \/ AddProcess(p) \/ RemoveProcess(p) \/ SetField(p) \/ UpdateFromDriver(p)
        \/ \E g \in Groups : SetVersioned(p, g)
        \/ \E h \in Handles : AddHandle(p, h) \/ RemoveHandle(p, h)
        \/ \E s \in Sockets : \/ AddSocket(p, s) \/ RemoveSocket(p, s)
                              \/ InitStaticDataEx(p, s) \/ UpdateDynamicData(p, s)
  BY DEF Collect
<1> DEFINE x == proc[p]
<1> SUFFICES \E n \in ProcT : Change(p, n) /\ Grows(x, n)
  OBVIOUS
<1>3. /\ x \in ProcT /\ x.plain \in Vals /\ x.group \in [Groups -> Vals] /\ x.version \in [Groups -> Nat]
      /\ x.handle \in [Handles -> {"new", "named", "unnamed", "closed"}] /\ x.handleVersion \in Nat
      /\ x.socket \in [Sockets -> SocketT] /\ Values \subseteq Vals
  BY <1>1, ProcParts DEF Vals
<1>4. p \in Live => x.life = "live"
  BY DEF Live
<1>5. CASE AddProcess(p)
  <2>1. PICK v \in Values, s \in FirstSign :
          x.life = "new" /\ Change(p, [x EXCEPT !.life = "live", !.plain = v, !.group = [g \in Groups |-> s]])
    BY <1>5 DEF AddProcess, x
  <2> DEFINE G == [g \in Groups |-> s]
             n == [x EXCEPT !.life = "live", !.plain = v, !.group = G]
  <2>2. s \in Vals /\ v \in Vals
    BY DeltaConstants DEF Vals
  <2>3. G \in [Groups -> Vals] /\ Change(p, n)
    BY <2>1, <2>2
  <2> HIDE DEF G, x
  <2>4. n \in ProcT /\ n.life = "live"
    BY <1>3, <2>2, <2>3 DEF ProcT
  <2>5. Grows(x, n)
    BY <2>1, <2>4 DEF Grows
  <2> QED BY <2>3, <2>4, <2>5
<1>6. CASE RemoveProcess(p)
  <2> DEFINE n == [x EXCEPT !.life = "gone"]
  <2>1. Change(p, n)
    BY <1>6 DEF RemoveProcess
  <2> HIDE DEF x
  <2>2. n \in ProcT /\ n.life # "new" /\ n.version = x.version /\ n.group = x.group
    BY <1>3 DEF ProcT
  <2> QED BY <1>3, <2>1, <2>2, SameVersions
<1>7. CASE SetField(p)
  <2>1. PICK v \in Values : Change(p, [x EXCEPT !.plain = v]) /\ x.life = "live"
    BY <1>4, <1>7 DEF SetField
  <2> DEFINE n == [x EXCEPT !.plain = v]
  <2> HIDE DEF x
  <2>2. n \in ProcT /\ n.life # "new" /\ n.version = x.version /\ n.group = x.group
    BY <1>3, <2>1 DEF ProcT
  <2> QED BY <1>3, <2>1, <2>2, SameVersions
<1>8. CASE UpdateFromDriver(p)
  <2>1. PICK v \in Values, a \in Values :
          /\ Change(p, [x EXCEPT !.plain = v,
                          !.group = [g \in Groups |-> IF g = "sign" /\ @[g] = Untested THEN a ELSE @[g]]])
          /\ x.life = "live"
    BY <1>4, <1>8 DEF UpdateFromDriver
  <2> DEFINE G == [g \in Groups |-> IF g = "sign" /\ x.group[g] = Untested THEN a ELSE x.group[g]]
             n == [x EXCEPT !.plain = v, !.group = G]
  <2>2. G \in [Groups -> Vals]
    BY <1>3
  <2>3. Change(p, n)
    BY <2>1
  <2>4. \A g \in Groups : G[g] = x.group[g] \/ (g = "sign" /\ x.group[g] = Untested)
    OBVIOUS
  <2> HIDE DEF x, G
  <2>5. n \in ProcT /\ n.life # "new" /\ n.version = x.version /\ n.group = G
    BY <1>3, <2>1, <2>2 DEF ProcT
  <2>6. Grows(x, n)
    BY <2>4, <2>5 DEF Grows
  <2> QED BY <2>3, <2>5, <2>6
<1>9. ASSUME NEW g \in Groups, SetVersioned(p, g) PROVE \E n \in ProcT : Change(p, n) /\ Grows(x, n)
  <2>1. PICK v \in Values :
          Change(p, [x EXCEPT !.group[g] = v, !.version[g] = @ + 1]) /\ x.life = "live"
    BY <1>4, <1>9 DEF SetVersioned
  <2> DEFINE G == [x.group EXCEPT ![g] = v]
             V == [x.version EXCEPT ![g] = @ + 1]
             n == [x EXCEPT !.group = G, !.version = V]
  <2>2. G \in [Groups -> Vals] /\ V \in [Groups -> Nat]
    BY <1>3
  <2>3. Change(p, n)
    BY <2>1
  <2>4. \A k \in Groups : V[k] > x.version[k] \/ (V[k] = x.version[k] /\ G[k] = x.group[k])
    BY <1>3
  <2> HIDE DEF x, G, V
  <2>5. n \in ProcT /\ n.life # "new" /\ n.version = V /\ n.group = G
    BY <1>3, <2>1, <2>2 DEF ProcT
  <2>6. Grows(x, n)
    BY <2>4, <2>5 DEF Grows
  <2> QED BY <2>3, <2>5, <2>6
<1>10. ASSUME NEW h \in Handles, AddHandle(p, h) \/ RemoveHandle(p, h)
       PROVE  \E n \in ProcT : Change(p, n) /\ Grows(x, n)
  <2>1. PICK l \in {"named", "unnamed", "closed"} :
          Change(p, [x EXCEPT !.handle[h] = l, !.handleVersion = @ + 1]) /\ x.life = "live"
    BY <1>4, <1>10 DEF AddHandle, RemoveHandle
  <2> DEFINE H == [x.handle EXCEPT ![h] = l]
             n == [x EXCEPT !.handle = H, !.handleVersion = @ + 1]
  <2>2. H \in [Handles -> {"new", "named", "unnamed", "closed"}]
    BY <1>3
  <2>3. Change(p, n)
    BY <2>1
  <2> HIDE DEF x, H
  <2>4. x.handleVersion + 1 \in Nat /\ n = [x EXCEPT !.handle = H, !.handleVersion = x.handleVersion + 1]
    BY <1>3
  <2>5. n \in ProcT
    BY <1>3, <2>2, <2>4 DEF ProcT
  <2>6. n.life # "new" /\ n.version = x.version /\ n.group = x.group
    BY <1>3, <2>1, <2>4 DEF ProcT
  <2> QED BY <1>3, <2>3, <2>5, <2>6, SameVersions
<1>11. ASSUME NEW s \in Sockets,
              \/ AddSocket(p, s) \/ RemoveSocket(p, s)
              \/ InitStaticDataEx(p, s) \/ UpdateDynamicData(p, s)
       PROVE  \E n \in ProcT : Change(p, n) /\ Grows(x, n)
  <2>1. \A v \in Values : v \in Vals
    BY <1>3
  <2>2. x.socket[s] \in SocketT /\ x.socket = [k \in Sockets |-> x.socket[k]]
    BY <1>3
  <2>3. \E t \in SocketT : Change(p, [x EXCEPT !.socket[s] = t]) /\ x.life = "live"
    <3>1. CASE AddSocket(p, s)
      <4>1. PICK v \in Values : Change(p, [x EXCEPT !.socket[s] = [life |-> "live", ex |-> FALSE, state |-> v]])
        BY <3>1 DEF AddSocket
      <4>2. [life |-> "live", ex |-> FALSE, state |-> v] \in SocketT
        BY <2>1 DEF SocketT
      <4>3. x.life = "live"
        BY <1>4, <3>1 DEF AddSocket
      <4> QED BY <4>1, <4>2, <4>3
    <3>2. CASE RemoveSocket(p, s)
      <4>1. Change(p, [x EXCEPT !.socket[s].life = "gone"]) /\ x.life = "live"
        BY <1>4, <3>2 DEF RemoveSocket
      <4>2. [x.socket[s] EXCEPT !.life = "gone"] \in SocketT
        BY <2>2 DEF SocketT
      <4>3. [x EXCEPT !.socket[s].life = "gone"] = [x EXCEPT !.socket[s] = [x.socket[s] EXCEPT !.life = "gone"]]
        OBVIOUS
      <4> QED BY <4>1, <4>2, <4>3
    <3>3. CASE InitStaticDataEx(p, s)
      <4>1. Change(p, [x EXCEPT !.socket[s].ex = TRUE]) /\ x.life = "live"
        BY <1>4, <3>3 DEF InitStaticDataEx
      <4>2. [x.socket[s] EXCEPT !.ex = TRUE] \in SocketT
        BY <2>2 DEF SocketT
      <4>3. [x EXCEPT !.socket[s].ex = TRUE] = [x EXCEPT !.socket[s] = [x.socket[s] EXCEPT !.ex = TRUE]]
        OBVIOUS
      <4> QED BY <4>1, <4>2, <4>3
    <3>4. CASE UpdateDynamicData(p, s)
      <4>1. PICK v \in Values : Change(p, [x EXCEPT !.socket[s].state = v]) /\ x.life = "live"
        BY <1>4, <3>4 DEF UpdateDynamicData
      <4>2. [x.socket[s] EXCEPT !.state = v] \in SocketT
        BY <2>1, <2>2 DEF SocketT
      <4>3. [x EXCEPT !.socket[s].state = v] = [x EXCEPT !.socket[s] = [x.socket[s] EXCEPT !.state = v]]
        OBVIOUS
      <4> QED BY <4>1, <4>2, <4>3
    <3> QED BY <1>11, <3>1, <3>2, <3>3, <3>4
  <2>4. PICK t \in SocketT : Change(p, [x EXCEPT !.socket[s] = t]) /\ x.life = "live"
    BY <2>3
  <2> DEFINE n == [x EXCEPT !.socket[s] = t]
  <2> HIDE DEF x
  <2>5. n \in ProcT
    BY <1>3, NewSocket
  <2>6. n.life # "new" /\ n.version = x.version /\ n.group = x.group
    BY <1>3, <2>4 DEF ProcT
  <2> QED BY <1>3, <2>4, <2>5, <2>6, SameVersions
<1> QED BY <1>2, <1>5, <1>6, <1>7, <1>8, <1>9, <1>10, <1>11

LEMMA TokIsNat ==
    ASSUME NEW s \in ScopeT, NEW p, NEW g
    PROVE  Tok(s, p, g) \in Nat
<1>1. EntryOf(s, p) \in EntryT
  BY EntryOfType
<1> QED BY <1>1, EntryParts DEF Tok

\* A change of a process leaves what a token stands for true.
LEMMA TokensGrow ==
    ASSUME Shape, NEW p \in Procs, NEW new \in ProcT, Change(p, new), Grows(proc[p], new),
           NEW s \in ScopeT, DOMAIN s.entries \subseteq Known, useCache \/ DOMAIN s.entries = {},
           NEW q \in Procs, NEW g \in Groups,
           Tok(s, q, g) <= proc[q].version[g] + 1
    PROVE  /\ Tok(s, q, g) <= proc'[q].version[g] + 1
           /\ Tok(s, q, g) = proc'[q].version[g] + 1 =>
                /\ Tok(s, q, g) = proc[q].version[g] + 1
                /\ Good(q, g, Fld(s, q, g)) => Good(q, g, Fld(s, q, g))'
<1>1. proc \in [Procs -> ProcT] /\ proc' = [proc EXCEPT ![p] = new] /\ useCache' = useCache
  BY DEF Shape, Change
<1>2. Tok(s, q, g) \in Nat
  BY TokIsNat
<1>3. CASE q # p
  <2>1. proc'[q] = proc[q]
    BY <1>1, <1>3
  <2> QED BY <1>1, <1>2, <2>1 DEF Good, Value
<1>4. CASE q = p
  <2>1. proc'[q] = new
    BY <1>1, <1>4
  <2>2. PICK old \in ProcT : old = proc[q]
    BY <1>1
  <2>3. new.version[g] \in Nat /\ old.version[g] \in Nat
    BY <2>2, ProcParts
  <2>4. CASE old.life = "new"
    <3>1. q \notin DOMAIN s.entries
      BY <2>2, <2>4 DEF Known
    <3>2. Tok(s, q, g) = 0
      BY <3>1, NewEntryType DEF Tok, EntryOf
    <3> QED BY <2>1, <2>3, <3>2
  <2>5. CASE old.life # "new"
    <3>1. \/ new.version[g] > old.version[g]
          \/ new.version[g] = old.version[g] /\ new.group[g] = old.group[g]
          \/ new.version[g] = old.version[g] /\ g = "sign" /\ old.group[g] = Untested
      BY <1>4, <2>2, <2>5 DEF Grows
    <3>2. Tok(s, q, g) <= old.version[g] + 1
      BY <2>2
    <3>3. Tok(s, q, g) <= new.version[g] + 1
      BY <1>2, <2>3, <3>1, <3>2
    <3>4. ASSUME Tok(s, q, g) = new.version[g] + 1
          PROVE  /\ Tok(s, q, g) = old.version[g] + 1
                 /\ new.group[g] = old.group[g] \/ (g = "sign" /\ old.group[g] = Untested)
      BY <1>2, <2>3, <3>1, <3>2, <3>4
    <3>5. ASSUME Tok(s, q, g) = new.version[g] + 1 PROVE useCache
      <4>1. Tok(s, q, g) # 0
        BY <2>3, <3>5
      <4>2. q \in DOMAIN s.entries
        BY <4>1, NewEntryType DEF Tok, EntryOf
      <4> QED BY <4>2
    <3>6. "plain" \notin Groups
      BY DeltaConstants
    <3>7. ASSUME Tok(s, q, g) = new.version[g] + 1, Good(q, g, Fld(s, q, g)) PROVE Good(q, g, Fld(s, q, g))'
      <4>1. Fld(s, q, g) = old.group[g] \/ (g = "sign" /\ Fld(s, q, g) = Untested)
        BY <2>2, <3>6, <3>7 DEF Good, Value
      <4>2. Fld(s, q, g) = new.group[g] \/ (useCache' /\ g = "sign" /\ Fld(s, q, g) = Untested)
        BY <1>1, <3>4, <3>5, <3>7, <4>1
      <4> QED BY <2>1, <3>6, <4>2 DEF Good, Value
    <3> QED BY <2>1, <2>2, <3>3, <3>4, <3>7
  <2> QED BY <2>4, <2>5
<1> QED BY <1>3, <1>4

LEMMA CollectStep ==
    ASSUME Inv, Collect
    PROVE  Inv'
<1>1. PICK p \in Procs, new \in ProcT : Change(p, new) /\ Grows(proc[p], new)
  BY CollectGrows DEF Inv
<1>2. /\ proc \in [Procs -> ProcT] /\ proc' = [proc EXCEPT ![p] = new] /\ new.life # "new"
      /\ pending' = pending \cup {p} /\ touched' = touched \cup {p}
      /\ UNCHANGED <<useCache, lists, builder, reply, viewer>>
  BY <1>1 DEF Inv, Shape, Change, Grows
<1>3. \A q \in Procs : q # p => proc'[q] = proc[q]
  BY <1>2
<1>4. \A q \in Known : q \in Known'
  BY <1>2, <1>3 DEF Known
<1>5. \A q \in Procs : q # p => (q \in Live <=> q \in Live') /\ \A f \in Flds : \A v : Good(q, f, v) => Good(q, f, v)'
  BY <1>2, <1>3 DEF Live, Good, Value
<1>6. /\ InRound' <=> InRound
      /\ Scope' = Scope /\ Changed' = Changed
      /\ \A q : Left(q)' = Left(q) /\ \A g : Writing(q, g)' <=> Writing(q, g)
  BY <1>2 DEF InRound, Scope, Changed, Left, Writing
<1>7. Shape'
  <2>1. proc' \in [Procs -> ProcT]
    BY <1>2
  <2>2. pending' \subseteq Procs /\ touched' \subseteq Procs
    BY <1>2 DEF Inv, Shape
  <2>3. builder.at \in Inside => builder.p \in Known' \ builder.todo
    BY <1>4 DEF Inv, Shape
  <2>4. InRound => builder.todo \subseteq Known'
    BY <1>4 DEF Inv, Shape
  <2>5. /\ useCache' = useCache /\ lists' = lists /\ builder' = builder /\ viewer' = viewer
    BY <1>2
  <2> HIDE DEF Known
  <2> QED BY <1>6, <2>1, <2>2, <2>3, <2>4, <2>5 DEF Inv, Shape
<1>8. CacheInv'
  <2>1. PICK s \in ScopeT : s = lists.processes
    BY DEF Inv, Shape
  <2>2. lists'.processes = s
    BY <1>2, <2>1
  <2>3. /\ DOMAIN s.entries \subseteq Known /\ (useCache \/ DOMAIN s.entries = {})
        /\ \A q \in Procs, g \in Groups :
             /\ Tok(s, q, g) <= proc[q].version[g] + 1
             /\ Tok(s, q, g) = proc[q].version[g] + 1 => Good(q, g, Fld(s, q, g))
    BY <2>1 DEF Inv, CacheInv
  <2>4. \A q \in Procs, g \in Groups :
             /\ Tok(s, q, g) <= proc'[q].version[g] + 1
             /\ Tok(s, q, g) = proc'[q].version[g] + 1 => Good(q, g, Fld(s, q, g))'
    BY <1>1, <2>3, TokensGrow DEF Inv
  <2>5. DOMAIN s.entries \subseteq Known'
    BY <1>4, <2>3
  <2>6. \A q \in DOMAIN s.entries : Was(s, q) /\ \A f \in Flds : Holds(s, q, f)
    BY <2>1 DEF Inv, CacheInv
  <2>7. useCache' = useCache
    BY <1>2
  <2> QED BY <2>2, <2>3, <2>4, <2>5, <2>6, <2>7 DEF CacheInv
<1>9. RoundInv'
  <2> SUFFICES ASSUME InRound, useCache PROVE RoundInv'
    BY <1>2, <1>6 DEF RoundInv
  <2>1. PICK s \in ScopeT : s = Scope
    BY DEF Inv, Shape, IsRound, Scope
  <2>2. RoundInv
    BY DEF Inv
  <2>3. ASSUME NEW q \in Procs PROVE RoundOf(q)'
    <3>1. RoundOf(q)
      BY <2>2 DEF RoundInv
    <3>2. DOMAIN s.entries \subseteq Known
      <4>1. DOMAIN s.entries \subseteq Procs
        BY EntryOfType
      <4> QED BY <2>1, <2>2, <4>1 DEF RoundInv, RoundOf
    <3>3. \A g \in Groups :
            /\ Tok(s, q, g) <= proc'[q].version[g] + 1
            /\ Tok(s, q, g) = proc'[q].version[g] + 1 =>
                 /\ Tok(s, q, g) = proc[q].version[g] + 1
                 /\ Good(q, g, Fld(s, q, g)) => Good(q, g, Fld(s, q, g))'
      <4>1. \A g \in Groups : Tok(s, q, g) <= proc[q].version[g] + 1
        BY <2>1, <3>1 DEF RoundOf
      <4> QED BY <1>1, <3>2, <4>1, TokensGrow DEF Inv
    <3>4. \A g \in Groups :
            /\ Tok(s, q, g) <= proc'[q].version[g] + 1
            /\ Tok(s, q, g) # 0 /\ ~Writing(q, g) => Holds(s, q, g)
            /\ Tok(s, q, g) = proc'[q].version[g] + 1 /\ ~Writing(q, g) => Good(q, g, Fld(s, q, g))'
      BY <2>1, <3>1, <3>3 DEF RoundOf
    <3>5. q \notin pending' => q \notin pending /\ q # p
      BY <1>2
    <3>6. \A f \in Flds :
         /\ q \in DOMAIN s.entries /\ f \notin Left(q) => Holds(s, q, f)
         /\ q \in s.seen \ (pending' \cup builder.todo) /\ f \notin Left(q) => Good(q, f, Fld(s, q, f))'
         /\ Says(Changed, q, f) => Holds(s, q, f) /\ Changed[q][f] = Fld(s, q, f)
         /\ Holds(s, q, f) /\ ~Says(Changed, q, f) =>
              ~builder.full /\ q \in DOMAIN viewer /\ viewer[q].fields[f] = Fld(s, q, f)
      <4>1. ASSUME NEW f \in Flds, q \in s.seen \ (pending' \cup builder.todo), f \notin Left(q)
            PROVE  Good(q, f, Fld(s, q, f))'
        <5>1. Good(q, f, Fld(s, q, f))
          BY <2>1, <3>1, <3>5, <4>1 DEF RoundOf
        <5> QED BY <1>5, <3>5, <4>1, <5>1
      <4> QED BY <2>1, <3>1, <4>1 DEF RoundOf
    <3>7. /\ q \in DOMAIN s.entries <=> q \in DOMAIN lists.processes.entries \cup DOMAIN Changed
          /\ q \in DOMAIN s.entries => q \in Known'
          /\ q \in DOMAIN Changed => q \in s.seen
          /\ q \in s.seen => q \in DOMAIN s.entries
          /\ q \notin pending' => (q \in Live' <=> q \in builder.todo \cup s.seen)
          /\ Was(s, q) <=> q \in DOMAIN lists.processes.entries
      BY <1>4, <1>5, <2>1, <3>1, <3>5 DEF RoundOf
    <3>8. Scope' = s /\ UNCHANGED <<lists, builder, viewer, useCache>>
      BY <1>2, <1>6, <2>1
    <3> HIDE DEF Known, Live, Scope, Changed
    <3> QED BY <1>6, <3>4, <3>6, <3>7, <3>8 DEF RoundOf
  <2> QED BY <1>2, <1>6, <2>2, <2>3 DEF RoundInv
<1>10. FileInv'
  <2> SUFFICES ASSUME InRound, ~useCache PROVE FileInv'
    BY <1>2, <1>6 DEF FileInv
  <2>1. \A q \in Procs \ pending' : q \in Live' <=> q \in builder.todo \cup DOMAIN Changed
    BY <1>2, <1>5 DEF Inv, FileInv
  <2>2. \A q \in DOMAIN Changed : \A f \in Flds :
          f \in DOMAIN Changed[q] /\ (q \notin pending' => Changed[q][f] = Value(q, f)')
    <3>1. DOMAIN Changed \subseteq Procs
      BY DEF Inv, Shape, IsRound, Changed
    <3>2. \A q \in Procs, f \in Flds : q # p => Value(q, f)' = Value(q, f)
      BY <1>3 DEF Value
    <3> QED BY <1>2, <3>1, <3>2 DEF Inv, FileInv
  <2> HIDE DEF Scope, Changed, Live, Value
  <2> QED BY <1>2, <1>6, <2>1, <2>2 DEF Inv, FileInv
<1>11. SentInv'
  <2>1. CASE builder.at # "sent"
    BY <1>2, <2>1 DEF SentInv
  <2>2. CASE builder.at = "sent"
    <3>1. PICK m : m = Merged(reply)
      OBVIOUS
    <3>2. Merged(reply)' = m /\ \A q : After(q)' = m[q].fields /\ After(q) = m[q].fields
      BY <1>2, <3>1 DEF Merged, After
    <3>3. SentInv
      BY DEF Inv
    <3>4. /\ DOMAIN m \subseteq Procs
          /\ \A q \in DOMAIN m : Flds \subseteq DOMAIN m[q].fields
          /\ \A q \in Procs \ pending : q \in Live <=> q \in DOMAIN m
          /\ \A q \in DOMAIN m \ pending : \A f \in Flds : Good(q, f, m[q].fields[f])
          /\ useCache =>
               /\ DOMAIN m = DOMAIN lists.processes.entries
               /\ \A q \in DOMAIN m : \A f \in Flds : m[q].fields[f] = Fld(lists.processes, q, f)
      <4> HIDE DEF Merged, After
      <4> QED BY <2>2, <3>1, <3>2, <3>3 DEF SentInv
    <3>5. \A q \in Procs \ pending' : q \in Live' <=> q \in DOMAIN m
      BY <1>2, <1>5, <3>4
    <3>6. \A q \in DOMAIN m \ pending' : \A f \in Flds : Good(q, f, m[q].fields[f])'
      BY <1>2, <1>5, <3>4
    <3>7. UNCHANGED <<lists, builder, useCache>>
      BY <1>2
    <3> HIDE DEF Merged, After, Live, Good
    <3> QED BY <3>2, <3>4, <3>5, <3>6, <3>7 DEF SentInv
  <2> QED BY <2>1, <2>2
<1>12. IdleInv'
  BY <1>2 DEF Inv, IdleInv
<1>13. ListInv'
  BY <1>2, <1>6 DEF Inv, ListInv
<1>14. Agrees'
  <2>1. \A q \in Procs \ touched' : q \in Live' <=> q \in DOMAIN viewer
    BY <1>2, <1>5 DEF Inv, Agrees
  <2>2. \A q \in DOMAIN viewer \ touched' : \A f \in Flds : Good(q, f, viewer[q].fields[f])'
    <3>1. DOMAIN viewer \subseteq Procs
      BY DEF Inv, Shape
    <3> QED BY <1>2, <1>5, <3>1 DEF Inv, Agrees
  <2>3. viewer' = viewer
    BY <1>2
  <2> HIDE DEF Live, Good
  <2> QED BY <2>1, <2>2, <2>3 DEF Agrees
<1> QED BY <1>7, <1>8, <1>9, <1>10, <1>11, <1>12, <1>13, <1>14 DEF Inv

-----------------------------------------------------------------------------
(* The round with the cache *)

\* The round q differs from r in the process p only.
Touches(r, q, p) ==
    /\ IsRound(q)
    /\ \A x : x # p =>
         /\ x \in DOMAIN q.scope.entries <=> x \in DOMAIN r.scope.entries
         /\ x \in q.scope.seen <=> x \in r.scope.seen
         /\ x \in DOMAIN q.changed <=> x \in DOMAIN r.changed
         /\ EntryOf(q.scope, x) = EntryOf(r.scope, x)
         /\ \A f : /\ Says(q.changed, x, f) <=> Says(r.changed, x, f)
                   /\ Says(r.changed, x, f) => q.changed[x][f] = r.changed[x][f]

LEMMA TouchesIntro ==
    ASSUME NEW r, NEW q, NEW p, NEW e, NEW seen, Enters(r, q, p, e, seen),
           \A x : x # p => (x \in seen <=> x \in r.scope.seen),
           q.changed = r.changed \/ \E f, v : Files(r.changed, q.changed, p, f, v)
    PROVE  Touches(r, q, p)
<1>1. \A x : x # p =>
         /\ x \in DOMAIN q.changed <=> x \in DOMAIN r.changed
         /\ \A f : /\ Says(q.changed, x, f) <=> Says(r.changed, x, f)
                   /\ Says(r.changed, x, f) => q.changed[x][f] = r.changed[x][f]
  <2>1. CASE q.changed = r.changed
    BY <2>1
  <2>2. CASE \E f, v : Files(r.changed, q.changed, p, f, v)
    BY <2>2 DEF Files
  <2> QED BY <2>1, <2>2
<1> QED BY <1>1 DEF Touches, Enters

\* A step of the round that concerns one process keeps the invariant if the
\* process itself is left as it should be.
LEMMA CachedStep ==
    ASSUME Inv, NEW p \in Procs, useCache, InRound, InRound', Shape',
           UNCHANGED <<useCache, proc, viewer, pending, touched>>,
           lists'.processes = lists.processes,
           DOMAIN lists'.handles \cup DOMAIN lists'.sockets \subseteq
               DOMAIN lists.handles \cup DOMAIN lists.sockets \cup {p},
           builder'.full = builder.full,
           \A q : q # p => (q \in builder'.todo <=> q \in builder.todo),
           builder.at \in Inside => builder.p = p,
           builder'.at \in Inside => builder'.p = p,
           Touches(builder.round, builder'.round, p),
           p \in builder'.round.scope.seen,
           RoundOf(p)'
    PROVE  Inv'
<1>1. RoundInv /\ \A q \in Procs : RoundOf(q)
  BY DEF Inv, RoundInv
<1>2. \A q \in Procs : q # p => Left(q) = {} /\ Left(q)' = {} /\ \A g \in Groups : ~Writing(q, g) /\ ~Writing(q, g)'
  BY DEF Left, Writing, Inside
<1>3. ASSUME NEW q \in Procs PROVE RoundOf(q)'
  <2>1. CASE q = p
    BY <2>1
  <2>2. CASE q # p
    <3>1. RoundOf(q)
      BY <1>1
    <3>2. /\ q \in DOMAIN Scope'.entries <=> q \in DOMAIN Scope.entries
          /\ q \in Scope'.seen <=> q \in Scope.seen
          /\ q \in DOMAIN Changed' <=> q \in DOMAIN Changed
          /\ EntryOf(Scope', q) = EntryOf(Scope, q)
          /\ \A f : /\ Says(Changed', q, f) <=> Says(Changed, q, f)
                    /\ Says(Changed, q, f) => Changed'[q][f] = Changed[q][f]
      BY <2>2 DEF Touches, Scope, Changed
    <3>3. /\ \A f, v : Good(q, f, v)' <=> Good(q, f, v)
          /\ q \in Known' <=> q \in Known
          /\ q \in Live' <=> q \in Live
      BY DEF Good, Value, Known, Live
    <3>4. /\ Was(Scope', q) <=> Was(Scope, q)
          /\ \A f : Fld(Scope', q, f) = Fld(Scope, q, f) /\ (Holds(Scope', q, f) <=> Holds(Scope, q, f))
          /\ \A g : Tok(Scope', q, g) = Tok(Scope, q, g)
      BY <3>2 DEF Was, Fld, Holds, Tok
    <3>5. /\ Left(q) = {} /\ Left(q)' = {} /\ \A g \in Groups : ~Writing(q, g) /\ ~Writing(q, g)'
          /\ q \in builder'.todo <=> q \in builder.todo
      BY <1>2, <2>2
    <3> HIDE DEF Scope, Changed, Known, Live
    <3>6. /\ q \in DOMAIN Scope'.entries <=> q \in DOMAIN lists'.processes.entries \cup DOMAIN Changed'
          /\ q \in DOMAIN Scope'.entries => q \in Known'
          /\ q \in DOMAIN Changed' => q \in Scope'.seen
          /\ q \in Scope'.seen => q \in DOMAIN Scope'.entries
          /\ q \notin pending' => (q \in Live' <=> q \in builder'.todo \cup Scope'.seen)
          /\ Was(Scope', q) <=> q \in DOMAIN lists'.processes.entries
      BY <3>1, <3>2, <3>3, <3>4, <3>5 DEF RoundOf
    <3>7. ASSUME NEW f \in Flds
          PROVE  /\ q \in DOMAIN Scope'.entries /\ f \notin Left(q)' => Holds(Scope', q, f)
                 /\ q \in Scope'.seen \ (pending' \cup builder'.todo) /\ f \notin Left(q)' =>
                      Good(q, f, Fld(Scope, q, f))'
                 /\ Says(Changed', q, f) => Holds(Scope', q, f) /\ Changed'[q][f] = Fld(Scope', q, f)
                 /\ Holds(Scope', q, f) /\ ~Says(Changed', q, f) =>
                      ~builder'.full /\ q \in DOMAIN viewer' /\ viewer'[q].fields[f] = Fld(Scope', q, f)
      <4>1. Good(q, f, Fld(Scope, q, f))' <=> Good(q, f, Fld(Scope, q, f))
        BY <3>4 DEF Good, Value
      <4> QED BY <3>1, <3>2, <3>4, <3>5, <4>1 DEF RoundOf
    <3>8. ASSUME NEW g \in Groups
          PROVE  /\ Tok(Scope', q, g) <= proc'[q].version[g] + 1
                 /\ Tok(Scope', q, g) # 0 /\ ~Writing(q, g)' => Holds(Scope', q, g)
                 /\ Tok(Scope', q, g) = proc'[q].version[g] + 1 /\ ~Writing(q, g)' =>
                      Good(q, g, Fld(Scope, q, g))'
      <4>1. Good(q, g, Fld(Scope, q, g))' <=> Good(q, g, Fld(Scope, q, g))
        BY <3>4 DEF Good, Value
      <4> QED BY <3>1, <3>2, <3>4, <3>5, <4>1 DEF RoundOf
    <3> QED BY <3>6, <3>7, <3>8 DEF RoundOf
  <2> QED BY <2>1, <2>2
<1>4. RoundInv'
  <2>1. builder'.at \in Inside => builder'.p \in Scope'.seen
    BY DEF Scope
  <2>2. /\ builder'.full => DOMAIN lists'.processes.entries = {}
        /\ ~builder'.full => DOMAIN viewer' = DOMAIN lists'.processes.entries
    BY <1>1 DEF RoundInv
  <2> QED BY <1>3, <2>1, <2>2 DEF RoundInv
<1>5. CacheInv'
  <2>1. CacheInv
    BY DEF Inv
  <2>2. PICK s : s = lists.processes /\ s = lists'.processes
    OBVIOUS
  <2> QED BY <2>1, <2>2 DEF CacheInv, Good, Value, Known
<1>6. FileInv'
  BY DEF FileInv
<1>7. builder'.at # "sent" /\ builder.at # "sent"
  BY DeltaConstants DEF InRound, Inside
<1>8. SentInv'
  BY <1>7 DEF SentInv
<1>9. IdleInv'
  BY <1>7 DEF Inv, IdleInv
<1>10. ListInv'
  <2>1. DOMAIN lists.handles \cup DOMAIN lists.sockets \subseteq DOMAIN Scope.entries
    BY DEF Inv, ListInv
  <2>2. p \in DOMAIN Scope'.entries
    BY <1>3 DEF RoundOf, Scope
  <2>3. \A q \in DOMAIN Scope.entries : q # p => q \in DOMAIN Scope'.entries
    BY DEF Touches, Scope
  <2> HIDE DEF Scope
  <2> QED BY <2>1, <2>2, <2>3 DEF ListInv
<1>11. Agrees'
  BY DEF Inv, Agrees, Good, Value, Live
<1> QED BY <1>4, <1>5, <1>6, <1>8, <1>9, <1>10, <1>11 DEF Inv

\* What a round has of the field f of the process p, and what was filed of it,
\* stays as it is.
SameField(r, q, p, f) ==
    /\ Holds(q.scope, p, f) <=> Holds(r.scope, p, f)
    /\ Holds(r.scope, p, f) => Fld(q.scope, p, f) = Fld(r.scope, p, f)
    /\ Says(q.changed, p, f) <=> Says(r.changed, p, f)
    /\ Says(r.changed, p, f) => q.changed[p][f] = r.changed[p][f]

\* The process p was mentioned, no more.
Mentions(r, q, p) ==
    /\ Touches(r, q, p)
    /\ q.scope.seen = r.scope.seen \cup {p}
    /\ DOMAIN q.scope.entries = DOMAIN r.scope.entries \cup {p}
    /\ DOMAIN q.changed = DOMAIN r.changed \/ DOMAIN q.changed = DOMAIN r.changed \cup {p}
    /\ Was(q.scope, p) <=> Was(r.scope, p)
    /\ \A g : Tok(q.scope, p, g) = Tok(r.scope, p, g)

LEMMA WriteMentions ==
    ASSUME NEW r, IsRound(r), NEW p \in Procs, NEW f \in Flds, NEW v \in Vals,
           NEW q, q = Write(r, p, f, v)
    PROVE  /\ Mentions(r, q, p)
           /\ Holds(q.scope, p, f) /\ Fld(q.scope, p, f) = v
           /\ \/ p \in DOMAIN q.changed /\ Says(q.changed, p, f) /\ q.changed[p][f] = v
              \/ Holds(r.scope, p, f) /\ Fld(r.scope, p, f) = v /\ q.changed = r.changed
           /\ \A h \in Flds : h # f => SameField(r, q, p, h)
<1> DEFINE e == EntryOf(r.scope, p)
           d == [e EXCEPT !.fields = Put(@, f, v)]
           seen == r.scope.seen \cup {p}
<1>1. r.scope \in ScopeT /\ e \in EntryT
  BY EntryOfType DEF IsRound
<1>2. CASE f \in DOMAIN e.fields /\ e.fields[f] = v /\ Enters(r, q, p, e, seen) /\ q.changed = r.changed
  <2>1. Touches(r, q, p)
    BY <1>2, TouchesIntro
  <2>2. Mentions(r, q, p)
    BY <1>2, <2>1 DEF Mentions, Enters, Was, Tok
  <2>3. \A h \in Flds : SameField(r, q, p, h)
    BY <1>2 DEF SameField, Enters, Holds, Fld
  <2>4. Holds(q.scope, p, f) /\ Fld(q.scope, p, f) = v /\ Holds(r.scope, p, f) /\ Fld(r.scope, p, f) = v
    BY <1>2 DEF Enters, Holds, Fld
  <2> QED BY <1>2, <2>2, <2>3, <2>4
<1>3. CASE Enters(r, q, p, d, seen) /\ Files(r.changed, q.changed, p, f, v)
  <2>1. Touches(r, q, p)
    BY <1>3, TouchesIntro
  <2>2. d.sent = e.sent /\ d.token = e.token /\ d.fields = Put(e.fields, f, v)
    BY <1>1, FieldEntry
  <2>3. /\ DOMAIN d.fields = DOMAIN e.fields \cup {f} /\ d.fields[f] = v
        /\ \A h \in DOMAIN e.fields : h # f => d.fields[h] = e.fields[h]
    BY <2>2 DEF Put
  <2> HIDE DEF d
  <2>4. Mentions(r, q, p)
    BY <1>3, <2>1, <2>2 DEF Mentions, Enters, Was, Tok, Files
  <2>5. Holds(q.scope, p, f) /\ Fld(q.scope, p, f) = v
    BY <1>3, <2>3 DEF Enters, Holds, Fld
  <2>6. p \in DOMAIN q.changed /\ Says(q.changed, p, f) /\ q.changed[p][f] = v
    BY <1>3 DEF Files
  <2>7. \A h \in Flds : h # f => SameField(r, q, p, h)
    BY <1>3, <2>3 DEF SameField, Enters, Files, Holds, Fld
  <2> QED BY <2>4, <2>5, <2>6, <2>7
<1> QED BY <1>2, <1>3, WriteEffect

\* The lists inside an entry are none of the fields the cache compares.
LEMMA SubDeltaMentions ==
    ASSUME NEW r, IsRound(r), NEW p \in Procs, p \in r.scope.seen, p \in DOMAIN r.scope.entries,
           NEW f, f \notin Flds, NEW v, NEW none, NEW q, q = WriteSubDelta(r, p, f, v, none)
    PROVE  Mentions(r, q, p) /\ \A h \in Flds : SameField(r, q, p, h)
<1>1. CASE none
  <2>1. q = r
    BY <1>1 DEF WriteSubDelta
  <2> QED BY <2>1 DEF Mentions, SameField, Touches
<1>2. CASE ~none
  <2>1. /\ Enters(r, q, p, EntryOf(r.scope, p), r.scope.seen \cup {p})
        /\ Files(r.changed, q.changed, p, f, v)
    BY <1>2, WriteAlwaysEffect DEF WriteSubDelta
  <2>2. Touches(r, q, p)
    BY <2>1, TouchesIntro
  <2>3. Mentions(r, q, p)
    BY <2>1, <2>2 DEF Mentions, Enters, Was, Tok, Files
  <2>4. \A h \in Flds : SameField(r, q, p, h)
    BY <2>1 DEF SameField, Enters, Files, Holds, Fld
  <2> QED BY <2>3, <2>4
<1> QED BY <1>1, <1>2

LEMMA MentionsTwice ==
    ASSUME NEW r, NEW q, NEW t, NEW p, Mentions(r, q, p), Mentions(q, t, p),
           \A h \in Flds : SameField(r, q, p, h), \A h \in Flds : SameField(q, t, p, h)
    PROVE  Mentions(r, t, p) /\ \A h \in Flds : SameField(r, t, p, h)
<1>1. Touches(r, t, p)
  BY DEF Mentions, Touches
<1>2. Mentions(r, t, p)
  BY <1>1 DEF Mentions
<1> QED BY <1>2 DEF SameField

LEMMA SentVersionIs ==
    ASSUME IsRound(builder.round), NEW p \in Procs, NEW g \in Groups
    PROVE  SentVersion(p, g) = Tok(Scope, p, g)
<1>1. PICK r : r = builder.round /\ IsRound(r)
  OBVIOUS
<1>2. GetEntry(r, p).scope = ScopeWith(r.scope, p, EntryOf(r.scope, p), r.scope.seen)
  BY <1>1, GetEntryIs
<1>3. EntryToken(r, p) = EntryOf(r.scope, p).token
  BY <1>2 DEF EntryToken, ScopeWith, Put
<1> QED BY <1>1, <1>3 DEF SentVersion, Tok, Scope

LEMMA InsideParts ==
    ASSUME Inv, builder.at \in Inside
    PROVE  /\ builder = [at |-> builder.at, full |-> builder.full, todo |-> builder.todo, p |-> builder.p,
                         left |-> builder.left, round |-> builder.round]
           /\ InRound /\ useCache /\ builder.p \in Procs /\ builder.p \in Known /\ builder.p \notin builder.todo
           /\ builder.left \subseteq Groups /\ builder.full \in BOOLEAN /\ builder.todo \subseteq Known
           /\ IsRound(builder.round) /\ RoundOf(builder.p)
           /\ builder.p \in Scope.seen /\ builder.p \in DOMAIN Scope.entries
<1>1. InRound
  BY DEF InRound
<1>2. useCache /\ builder.p \in Known \ builder.todo
  BY DEF Inv, Shape
<1>3. builder.p \in Procs
  BY <1>2 DEF Known
<1>4. RoundOf(builder.p) /\ builder.p \in Scope.seen
  BY <1>1, <1>2, <1>3 DEF Inv, RoundInv
<1>5. builder.p \in DOMAIN Scope.entries
  BY <1>4 DEF RoundOf
<1> QED BY <1>1, <1>2, <1>3, <1>4, <1>5 DEF Inv, Shape

\* The types after a step from one place inside a process to another.
LEMMA InsideShape ==
    ASSUME Inv, NEW a \in Inside, NEW full \in BOOLEAN, NEW todo, todo \subseteq Known, NEW p \in Known, p \notin todo,
           NEW left \in SUBSET Groups, NEW q, IsRound(q), a \in Groups => a \in left,
           useCache, UNCHANGED <<useCache, proc, viewer, pending, touched>>,
           builder' = [at |-> a, full |-> full, todo |-> todo, p |-> p, left |-> left, round |-> q],
           lists' = [processes |-> lists.processes, handles |-> lists'.handles, sockets |-> lists'.sockets]
    PROVE  Shape' /\ InRound'
<1>1. /\ builder'.at = a /\ builder'.full = full /\ builder'.todo = todo /\ builder'.p = p
      /\ builder'.left = left /\ builder'.round = q
  OBVIOUS
<1>2. a # "next"
  BY DeltaConstants DEF Inside
<1>3. lists'.processes = lists.processes /\ Known' = Known
  BY DEF Known
<1>4. useCache' \in BOOLEAN /\ proc' \in [Procs -> ProcT] /\ lists'.processes \in ScopeT
      /\ DOMAIN viewer' \subseteq Procs /\ (\A x \in DOMAIN viewer' : Flds \subseteq DOMAIN viewer'[x].fields)
      /\ pending' \subseteq Procs /\ touched' \subseteq Procs
  BY <1>3 DEF Inv, Shape
<1>5. InRound'
  BY <1>1 DEF InRound
<1>6. lists' = [processes |-> lists'.processes, handles |-> lists'.handles, sockets |-> lists'.sockets]
  BY <1>3
<1> QED BY <1>1, <1>2, <1>3, <1>4, <1>5, <1>6 DEF Shape

\* A field is compared and sent as it is now; others are not disturbed.
LEMMA WriteStep ==
    ASSUME Inv, NEW p \in Procs, NEW f \in Flds, useCache, InRound, p \in Known,
           NEW q, q = Write(builder.round, p, f, Value(p, f)), builder'.round = q,
           Shape', InRound', UNCHANGED <<useCache, proc, lists, viewer, pending, touched>>,
           builder'.at = "groups", builder'.p = p, builder'.full = builder.full,
           p \notin builder'.todo, \A x : x # p => (x \in builder'.todo <=> x \in builder.todo),
           builder.at \in Inside => builder.p = p,
           p \in builder.todo \/ p \in Scope.seen,
           \A g \in Groups : Writing(p, g) => g = f,
           \A h \in Flds : h # f /\ h \notin builder'.left =>
                h \notin Left(p) /\ p \in Scope.seen \ builder.todo
    PROVE  Inv'
<1>1. IsRound(builder.round) /\ proc[p] \in ProcT
  BY DEF Inv, Shape
<1>2. Value(p, f) \in Vals
  BY <1>1, ProcParts DEF Value, Flds
<1>3. /\ Mentions(builder.round, q, p)
      /\ Holds(q.scope, p, f) /\ Fld(q.scope, p, f) = Value(p, f)
      /\ \/ p \in DOMAIN q.changed /\ Says(q.changed, p, f) /\ q.changed[p][f] = Value(p, f)
         \/ Holds(Scope, p, f) /\ Fld(Scope, p, f) = Value(p, f) /\ q.changed = Changed
      /\ \A h \in Flds : h # f => SameField(builder.round, q, p, h)
  BY <1>1, <1>2, WriteMentions DEF Scope, Changed
<1>4. RoundOf(p)
  BY DEF Inv, RoundInv
<1>5. Touches(builder.round, q, p) /\ Scope' = q.scope /\ Changed' = q.changed
  BY <1>3 DEF Mentions, Scope, Changed
<1>6. /\ Left(p)' = builder'.left
      /\ \A g \in Groups : ~Writing(p, g)'
  BY DeltaConstants DEF Left, Writing
<1>7. /\ Known' = Known /\ Live' = Live
      /\ \A h, v : Good(p, h, v)' <=> Good(p, h, v)
  BY DEF Known, Live, Good, Value
<1>8. /\ q.scope.seen = Scope.seen \cup {p} /\ DOMAIN q.scope.entries = DOMAIN Scope.entries \cup {p}
      /\ DOMAIN q.changed = DOMAIN Changed \/ DOMAIN q.changed = DOMAIN Changed \cup {p}
      /\ Was(q.scope, p) <=> Was(Scope, p)
      /\ \A g : Tok(q.scope, p, g) = Tok(Scope, p, g)
  BY <1>3 DEF Mentions, Scope, Changed
<1>9. Holds(Scope, p, f) => p \in DOMAIN Scope.entries
  BY NewEntryType DEF Holds, EntryOf
<1>10. \A h \in Flds : h # f =>
         /\ Holds(q.scope, p, h) <=> Holds(Scope, p, h)
         /\ Holds(Scope, p, h) => Fld(q.scope, p, h) = Fld(Scope, p, h)
         /\ Says(q.changed, p, h) <=> Says(Changed, p, h)
         /\ Says(Changed, p, h) => q.changed[p][h] = Changed[p][h]
  BY <1>3 DEF SameField, Scope, Changed
<1>11. p \notin pending => p \in Live
  BY <1>4 DEF RoundOf
<1>12. Good(p, f, Fld(q.scope, p, f))
  BY <1>3 DEF Good
<1>13. RoundOf(p)'
  <2> HIDE DEF Scope, Changed, Known, Live
  <2>1. /\ p \in DOMAIN q.scope.entries <=> p \in DOMAIN lists.processes.entries \cup DOMAIN q.changed
        /\ Was(q.scope, p) <=> p \in DOMAIN lists.processes.entries
        /\ p \in q.scope.seen /\ p \in DOMAIN q.scope.entries
    BY <1>3, <1>4, <1>8, <1>9 DEF RoundOf
  <2>2. ASSUME NEW h \in Flds
        PROVE  /\ h \notin builder'.left => Holds(q.scope, p, h)
               /\ h \notin builder'.left /\ p \notin pending => Good(p, h, Fld(q.scope, p, h))
               /\ Says(q.changed, p, h) => Holds(q.scope, p, h) /\ q.changed[p][h] = Fld(q.scope, p, h)
               /\ Holds(q.scope, p, h) /\ ~Says(q.changed, p, h) =>
                    ~builder.full /\ p \in DOMAIN viewer /\ viewer[p].fields[h] = Fld(q.scope, p, h)
    <3>1. CASE h = f
      <4>1. CASE p \in DOMAIN q.changed /\ Says(q.changed, p, f) /\ q.changed[p][f] = Value(p, f)
        BY <1>3, <1>12, <3>1, <4>1
      <4>2. CASE Holds(Scope, p, f) /\ Fld(Scope, p, f) = Value(p, f) /\ q.changed = Changed
        BY <1>3, <1>4, <1>12, <3>1, <4>2 DEF RoundOf
      <4> QED BY <1>3, <4>1, <4>2
    <3>2. CASE h # f
      <4>1. ASSUME h \notin builder'.left
            PROVE  Holds(Scope, p, h) /\ (p \notin pending => Good(p, h, Fld(Scope, p, h)))
        <5>1. h \notin Left(p) /\ p \in Scope.seen \ builder.todo
          BY <3>2, <4>1
        <5> QED BY <1>4, <5>1 DEF RoundOf
      <4> QED BY <1>4, <1>10, <3>2, <4>1 DEF RoundOf
    <3> QED BY <3>1, <3>2
  <2>3. ASSUME NEW g \in Groups
        PROVE  /\ Tok(q.scope, p, g) <= proc[p].version[g] + 1
               /\ Tok(q.scope, p, g) # 0 => Holds(q.scope, p, g)
               /\ Tok(q.scope, p, g) = proc[p].version[g] + 1 => Good(p, g, Fld(q.scope, p, g))
    <3>1. g \in Flds /\ proc[p].version[g] \in Nat
      BY <1>1, ProcParts DEF Flds
    <3>2. CASE g = f
      BY <1>3, <1>4, <1>8, <1>12, <3>2 DEF RoundOf
    <3>3. CASE g # f
      <4>1. ~Writing(p, g)
        BY <3>3
      <4> QED BY <1>4, <1>8, <1>10, <3>1, <3>3, <4>1 DEF RoundOf
    <3> QED BY <3>2, <3>3
  <2> QED BY <1>5, <1>6, <1>7, <1>11, <2>1, <2>2, <2>3 DEF RoundOf
<1>14. p \in builder'.round.scope.seen
  BY <1>8
<1>15. lists'.processes = lists.processes /\ lists'.handles = lists.handles /\ lists'.sockets = lists.sockets
  OBVIOUS
<1> QED BY <1>5, <1>13, <1>14, <1>15, CachedStep

LEMMA WriteFieldsStep ==
    ASSUME Inv, NEW p \in Procs, WriteFields(p)
    PROVE  Inv'
<1> DEFINE q == Write(builder.round, p, "plain", proc[p].plain)
<1>1. /\ useCache /\ builder.at = "next" /\ p \in builder.todo
      /\ builder' = [at |-> "groups", full |-> builder.full, todo |-> builder.todo \ {p}, p |-> p,
                     left |-> Groups, round |-> q]
      /\ UNCHANGED <<useCache, proc, lists, viewer, pending, touched>>
  BY DEF WriteFields, Build, collector
<1>2. InRound /\ builder.full \in BOOLEAN /\ builder.todo \subseteq Known /\ IsRound(builder.round)
  BY <1>1 DEF Inv, Shape, InRound
<1>3. /\ lists = [processes |-> lists.processes, handles |-> lists.handles, sockets |-> lists.sockets]
      /\ proc[p] \in ProcT /\ p \in Known
  BY <1>1, <1>2 DEF Inv, Shape
<1>4. proc[p].plain \in Vals /\ "plain" \in Flds /\ Value(p, "plain") = proc[p].plain
  BY <1>3, ProcParts DEF Flds, Value
<1>5. IsRound(q)
  BY <1>2, <1>4, WriteMentions DEF Mentions, Touches
<1> HIDE DEF q
<1>6. Shape' /\ InRound'
  <2>1. builder.todo \ {p} \subseteq Known /\ p \notin builder.todo \ {p} /\ "groups" \in Inside /\ "groups" \notin Groups
    BY <1>2, DeltaConstants DEF Inside
  <2>2. lists' = [processes |-> lists.processes, handles |-> lists'.handles, sockets |-> lists'.sockets]
    BY <1>1, <1>3
  <2> QED BY <1>1, <1>2, <1>3, <1>5, <2>1, <2>2, InsideShape
<1>7. builder.at \notin Inside /\ \A g \in Groups : ~Writing(p, g)
  BY <1>1, DeltaConstants DEF Inside, Writing
<1>8. \A h \in Flds : h # "plain" => h \in Groups
  BY DEF Flds
<1>9. /\ builder'.at = "groups" /\ builder'.full = builder.full /\ builder'.todo = builder.todo \ {p}
      /\ builder'.p = p /\ builder'.left = Groups /\ builder'.round = q
  BY <1>1
<1>10. q = Write(builder.round, p, "plain", Value(p, "plain"))
  BY <1>4 DEF q
<1> QED BY <1>1, <1>2, <1>3, <1>4, <1>6, <1>7, <1>8, <1>9, <1>10, WriteStep

LEMMA WriteGroupStep ==
    ASSUME Inv, NEW g \in Groups, WriteGroup(g)
    PROVE  Inv'
<1> DEFINE p == builder.p
           q == Write(builder.round, p, g, proc[p].group[g])
<1>1. /\ builder.at = g
      /\ builder' = [builder EXCEPT !.at = "groups", !.left = @ \ {g}, !.round = q]
      /\ UNCHANGED <<useCache, proc, lists, viewer, pending, touched>>
  BY DEF WriteGroup, Build, collector
<1>2. builder.at \in Inside /\ g # "plain" /\ "groups" \notin Groups /\ "groups" \in Inside
  BY <1>1, DeltaConstants DEF Inside
<1>3. /\ builder = [at |-> builder.at, full |-> builder.full, todo |-> builder.todo, p |-> p,
                    left |-> builder.left, round |-> builder.round]
      /\ InRound /\ useCache /\ p \in Procs /\ p \in Known /\ p \notin builder.todo
      /\ builder.left \subseteq Groups /\ builder.full \in BOOLEAN /\ builder.todo \subseteq Known
      /\ IsRound(builder.round) /\ p \in Scope.seen
  BY <1>2, InsideParts
<1>4. /\ lists = [processes |-> lists.processes, handles |-> lists.handles, sockets |-> lists.sockets]
      /\ proc[p] \in ProcT
  BY <1>3 DEF Inv, Shape
<1>5. proc[p].group[g] \in Vals /\ g \in Flds /\ Value(p, g) = proc[p].group[g]
  BY <1>2, <1>4, ProcParts DEF Flds, Value
<1>6. IsRound(q)
  BY <1>3, <1>5, WriteMentions DEF Mentions, Touches
<1> HIDE DEF q
<1>7. builder' = [at |-> "groups", full |-> builder.full, todo |-> builder.todo, p |-> p,
                  left |-> builder.left \ {g}, round |-> q]
  BY <1>1, <1>3
<1>8. Shape' /\ InRound'
  <2>1. lists' = [processes |-> lists.processes, handles |-> lists'.handles, sockets |-> lists'.sockets]
    BY <1>1, <1>4
  <2>2. builder.left \ {g} \in SUBSET Groups
    BY <1>3
  <2> QED BY <1>1, <1>2, <1>3, <1>6, <1>7, <2>1, <2>2, InsideShape
<1>9. (\A h \in Groups : Writing(p, h) => h = g) /\ Left(p) = builder.left
  BY <1>1 DEF Writing, Left
<1>10. /\ builder'.at = "groups" /\ builder'.full = builder.full /\ builder'.todo = builder.todo
       /\ builder'.p = p /\ builder'.left = builder.left \ {g} /\ builder'.round = q
  BY <1>7
<1>11. q = Write(builder.round, p, g, Value(p, g))
  BY <1>5 DEF q
<1> HIDE DEF p
<1>12. \A h \in Flds : h # g /\ h \notin builder'.left => h \notin Left(p) /\ p \in Scope.seen \ builder.todo
  BY <1>3, <1>9, <1>10
<1>13. builder.p = p
  BY DEF p
<1> QED BY <1>1, <1>3, <1>5, <1>8, <1>9, <1>10, <1>11, <1>12, <1>13, WriteStep

\* A step inside a process that writes none of the fields the cache compares.
LEMMA QuietStep ==
    ASSUME Inv, builder.at \in Inside, builder.at \notin Groups,
           NEW p \in Procs, p = builder.p, NEW q, builder'.round = q,
           Mentions(builder.round, q, p), \A h \in Flds : SameField(builder.round, q, p, h),
           Shape', InRound', UNCHANGED <<useCache, proc, viewer, pending, touched>>,
           lists'.processes = lists.processes,
           DOMAIN lists'.handles \cup DOMAIN lists'.sockets \subseteq
               DOMAIN lists.handles \cup DOMAIN lists.sockets \cup {p},
           builder'.full = builder.full, builder'.todo = builder.todo,
           builder'.at \notin Groups, builder'.at \in Inside => builder'.p = p,
           \A h \in Flds : h \notin Left(p)' =>
                h \notin Left(p) \/ (Holds(Scope, p, h) /\ Good(p, h, Fld(Scope, p, h)))
    PROVE  Inv'
<1>1. /\ InRound /\ useCache /\ p \in Known /\ p \notin builder.todo
      /\ IsRound(builder.round) /\ RoundOf(p) /\ p \in Scope.seen /\ p \in DOMAIN Scope.entries
  BY InsideParts
<1>2. Touches(builder.round, q, p) /\ Scope' = q.scope /\ Changed' = q.changed
  BY DEF Mentions, Scope, Changed
<1>3. \A g \in Groups : ~Writing(p, g) /\ ~Writing(p, g)'
  BY DEF Writing
<1>4. /\ Known' = Known /\ Live' = Live
      /\ \A h, v : Good(p, h, v)' <=> Good(p, h, v)
  BY DEF Known, Live, Good, Value
<1>5. /\ q.scope.seen = Scope.seen /\ DOMAIN q.scope.entries = DOMAIN Scope.entries
      /\ DOMAIN q.changed = DOMAIN Changed \/ DOMAIN q.changed = DOMAIN Changed \cup {p}
      /\ Was(q.scope, p) <=> Was(Scope, p)
      /\ \A g : Tok(q.scope, p, g) = Tok(Scope, p, g)
  BY <1>1 DEF Mentions, Scope, Changed
<1>6. \A h \in Flds :
         /\ Holds(q.scope, p, h) <=> Holds(Scope, p, h)
         /\ Holds(Scope, p, h) => Fld(q.scope, p, h) = Fld(Scope, p, h)
         /\ Says(q.changed, p, h) <=> Says(Changed, p, h)
         /\ Says(Changed, p, h) => q.changed[p][h] = Changed[p][h]
  BY DEF SameField, Scope, Changed
<1>7. RoundOf(p)'
  <2>1. proc[p] \in ProcT
    BY DEF Inv, Shape
  <2> HIDE DEF Scope, Changed, Known, Live
  <2>2. /\ p \in DOMAIN q.scope.entries <=> p \in DOMAIN lists.processes.entries \cup DOMAIN q.changed
        /\ Was(q.scope, p) <=> p \in DOMAIN lists.processes.entries
        /\ p \notin pending => p \in Live
    BY <1>1, <1>5 DEF RoundOf
  <2>3. ASSUME NEW h \in Flds
        PROVE  /\ h \notin Left(p)' => Holds(q.scope, p, h)
               /\ h \notin Left(p)' /\ p \notin pending => Good(p, h, Fld(q.scope, p, h))
               /\ Says(q.changed, p, h) => Holds(q.scope, p, h) /\ q.changed[p][h] = Fld(q.scope, p, h)
               /\ Holds(q.scope, p, h) /\ ~Says(q.changed, p, h) =>
                    ~builder.full /\ p \in DOMAIN viewer /\ viewer[p].fields[h] = Fld(q.scope, p, h)
    BY <1>1, <1>6 DEF RoundOf
  <2>4. ASSUME NEW g \in Groups
        PROVE  /\ Tok(q.scope, p, g) <= proc[p].version[g] + 1
               /\ Tok(q.scope, p, g) # 0 => Holds(q.scope, p, g)
               /\ Tok(q.scope, p, g) = proc[p].version[g] + 1 => Good(p, g, Fld(q.scope, p, g))
    <3>1. g \in Flds /\ proc[p].version[g] \in Nat
      BY <2>1, ProcParts DEF Flds
    <3> QED BY <1>1, <1>3, <1>5, <1>6, <3>1 DEF RoundOf
  <2> QED BY <1>1, <1>2, <1>3, <1>4, <1>5, <2>2, <2>3, <2>4 DEF RoundOf
<1>8. p \in builder'.round.scope.seen
  BY <1>1, <1>5
<1> QED BY <1>1, <1>2, <1>7, <1>8, CachedStep

LEMMA SameRound ==
    ASSUME Inv, builder.at \in Inside
    PROVE  /\ Mentions(builder.round, builder.round, builder.p)
           /\ \A h \in Flds : SameField(builder.round, builder.round, builder.p, h)
<1>1. IsRound(builder.round) /\ builder.p \in Scope.seen /\ builder.p \in DOMAIN Scope.entries
  BY InsideParts
<1> QED BY <1>1 DEF Mentions, SameField, Touches, Scope

\* The version in the token is the present one: the group is left out.
LEMMA SkipGroupStep ==
    ASSUME Inv, NEW g \in Groups, builder.at = "groups", g \in builder.left,
           SentVersion(builder.p, g) = WireVersion(builder.p, g),
           Build([builder EXCEPT !.left = @ \ {g}], lists)
    PROVE  Inv'
<1>0. PICK p, q : p = builder.p /\ q = builder.round
  OBVIOUS
<1>1. builder.at \in Inside /\ builder.at \notin Groups /\ g # "plain"
  BY DeltaConstants DEF Inside
<1>2. /\ builder = [at |-> builder.at, full |-> builder.full, todo |-> builder.todo, p |-> p,
                    left |-> builder.left, round |-> q]
      /\ InRound /\ useCache /\ p \in Procs /\ p \in Known /\ p \notin builder.todo
      /\ builder.left \subseteq Groups /\ builder.full \in BOOLEAN /\ builder.todo \subseteq Known
      /\ IsRound(q) /\ RoundOf(p)
  BY <1>0, <1>1, InsideParts
<1>3. /\ lists = [processes |-> lists.processes, handles |-> lists.handles, sockets |-> lists.sockets]
      /\ proc[p] \in ProcT
  BY <1>2 DEF Inv, Shape
<1>4. UNCHANGED <<useCache, proc, lists, viewer, pending, touched>>
  BY DEF Build, collector
<1>5. builder' = [at |-> "groups", full |-> builder.full, todo |-> builder.todo, p |-> p,
                  left |-> builder.left \ {g}, round |-> q]
  BY <1>0, <1>2 DEF Build
<1>6. Shape' /\ InRound'
  <2>1. lists' = [processes |-> lists.processes, handles |-> lists'.handles, sockets |-> lists'.sockets]
    BY <1>3, <1>4
  <2>2. builder.left \ {g} \in SUBSET Groups
    BY <1>2
  <2> QED BY <1>1, <1>2, <1>4, <1>5, <2>1, <2>2, InsideShape
<1>7. Mentions(builder.round, q, p) /\ \A h \in Flds : SameField(builder.round, q, p, h)
  BY <1>0, <1>1, SameRound
<1>8. Tok(Scope, p, g) = proc[p].version[g] + 1 /\ ~Writing(p, g)
  BY <1>0, <1>1, <1>2, SentVersionIs DEF WireVersion, Writing
<1>9. Holds(Scope, p, g) /\ Good(p, g, Fld(Scope, p, g))
  <2>1. Tok(Scope, p, g) # 0
    BY <1>3, <1>8, ProcParts
  <2> QED BY <1>2, <1>8, <2>1 DEF RoundOf
<1>10. /\ builder'.round = q /\ builder'.full = builder.full /\ builder'.todo = builder.todo
       /\ builder'.at = "groups" /\ builder'.p = p /\ builder'.left = builder.left \ {g}
  BY <1>5
<1>11. Left(p) = builder.left /\ Left(p)' = builder.left \ {g}
  BY <1>0, <1>10 DEF Left
<1>12. /\ lists'.processes = lists.processes
       /\ DOMAIN lists'.handles \cup DOMAIN lists'.sockets \subseteq
               DOMAIN lists.handles \cup DOMAIN lists.sockets \cup {p}
  BY <1>4
<1>13. \A h \in Flds : h \notin Left(p)' =>
                h \notin Left(p) \/ (Holds(Scope, p, h) /\ Good(p, h, Fld(Scope, p, h)))
  BY <1>9, <1>11
<1>14. builder'.at \notin Groups
  BY <1>1, <1>10
<1> QED BY <1>0, <1>1, <1>2, <1>4, <1>6, <1>7, <1>10, <1>12, <1>13, <1>14, QuietStep

\* Another version: it goes into the token before the group is written.
LEMMA TakeVersionStep ==
    ASSUME Inv, NEW g \in Groups, builder.at = "groups", g \in builder.left,
           SentVersion(builder.p, g) # WireVersion(builder.p, g),
           Build([builder EXCEPT !.at = g,
                     !.round = SetEntryToken(@, builder.p, g, WireVersion(builder.p, g))], lists)
    PROVE  Inv'
<1>0. PICK p, n, q, e : /\ p = builder.p /\ n = proc[p].version[g] + 1
                       /\ q = SetEntryToken(builder.round, p, g, n) /\ e = EntryOf(Scope, p)
  OBVIOUS
<1> DEFINE d == [e EXCEPT !.token = Put(@, g, n)]
<1>1. builder.at \in Inside /\ builder.at \notin Groups /\ g # "plain" /\ g \in Inside
  BY DeltaConstants DEF Inside
<1>2. /\ builder = [at |-> builder.at, full |-> builder.full, todo |-> builder.todo, p |-> p,
                    left |-> builder.left, round |-> builder.round]
      /\ InRound /\ useCache /\ p \in Procs /\ p \in Known /\ p \notin builder.todo
      /\ builder.left \subseteq Groups /\ builder.full \in BOOLEAN /\ builder.todo \subseteq Known
      /\ IsRound(builder.round) /\ RoundOf(p) /\ p \in Scope.seen /\ p \in DOMAIN Scope.entries
  BY <1>0, <1>1, InsideParts
<1>3. /\ lists = [processes |-> lists.processes, handles |-> lists.handles, sockets |-> lists.sockets]
      /\ proc[p] \in ProcT
  BY <1>2 DEF Inv, Shape
<1>4. UNCHANGED <<useCache, proc, lists, viewer, pending, touched>>
  BY DEF Build, collector
<1>5. builder' = [at |-> g, full |-> builder.full, todo |-> builder.todo, p |-> p,
                  left |-> builder.left, round |-> q]
  BY <1>0, <1>2 DEF Build, WireVersion
<1>6. n \in Nat
  BY <1>0, <1>3, ProcParts
<1>7. Enters(builder.round, q, p, d, Scope.seen) /\ q.changed = Changed
  BY <1>0, <1>2, <1>6, SetTokenEffect DEF Scope, Changed
<1>8. d.sent = e.sent /\ d.fields = e.fields /\ d.token = Put(e.token, g, n)
  <2>1. e \in EntryT
    BY <1>0, <1>2, EntryOfType DEF IsRound, Scope
  <2> QED BY <1>6, <2>1, TokenEntry
<1>9. /\ g \in DOMAIN d.token /\ d.token[g] = n
      /\ \A h : h # g => (h \in DOMAIN d.token <=> h \in DOMAIN e.token)
      /\ \A h \in DOMAIN e.token : h # g => d.token[h] = e.token[h]
  BY <1>8 DEF Put
<1>10. Touches(builder.round, q, p)
  BY <1>7, TouchesIntro DEF Scope, Changed
<1>11. IsRound(q)
  BY <1>7 DEF Enters
<1> HIDE DEF d
<1>12. Shape' /\ InRound'
  <2>1. lists' = [processes |-> lists.processes, handles |-> lists'.handles, sockets |-> lists'.sockets]
    BY <1>3, <1>4
  <2> QED BY <1>1, <1>2, <1>4, <1>5, <1>11, <2>1, InsideShape
<1>13. /\ builder'.round = q /\ builder'.full = builder.full /\ builder'.todo = builder.todo
       /\ builder'.at = g /\ builder'.p = p /\ builder'.left = builder.left
       /\ Scope' = q.scope /\ Changed' = q.changed
  BY <1>5 DEF Scope, Changed
<1>14. /\ Left(p) = builder.left /\ Left(p)' = builder.left
       /\ \A h \in Groups : ~Writing(p, h) /\ (Writing(p, h)' <=> h = g)
  BY <1>0, <1>1, <1>13 DEF Left, Writing
<1>15. /\ Was(q.scope, p) <=> Was(Scope, p)
       /\ \A h : Fld(q.scope, p, h) = Fld(Scope, p, h) /\ (Holds(q.scope, p, h) <=> Holds(Scope, p, h))
       /\ Tok(q.scope, p, g) = n
       /\ \A h : h # g => Tok(q.scope, p, h) = Tok(Scope, p, h)
  BY <1>0, <1>7, <1>8, <1>9 DEF Enters, Was, Fld, Holds, Tok
<1>16. q.scope.seen = Scope.seen /\ DOMAIN q.scope.entries = DOMAIN Scope.entries
  BY <1>2, <1>7 DEF Enters, Scope
<1>17. /\ Known' = Known /\ Live' = Live
       /\ \A h, v : Good(p, h, v)' <=> Good(p, h, v)
  BY <1>4 DEF Known, Live, Good, Value
<1>18. RoundOf(p)'
  <2> HIDE DEF Scope, Changed, Known, Live
  <2>1. /\ p \in DOMAIN q.scope.entries <=> p \in DOMAIN lists.processes.entries \cup DOMAIN q.changed
        /\ p \in DOMAIN q.changed => p \in q.scope.seen
        /\ Was(q.scope, p) <=> p \in DOMAIN lists.processes.entries
        /\ p \notin pending => p \in Live
    BY <1>2, <1>7, <1>15, <1>16 DEF RoundOf
  <2>2. ASSUME NEW h \in Flds
        PROVE  /\ h \notin Left(p)' => Holds(q.scope, p, h)
               /\ h \notin Left(p)' /\ p \notin pending => Good(p, h, Fld(q.scope, p, h))
               /\ Says(q.changed, p, h) => Holds(q.scope, p, h) /\ q.changed[p][h] = Fld(q.scope, p, h)
               /\ Holds(q.scope, p, h) /\ ~Says(q.changed, p, h) =>
                    ~builder.full /\ p \in DOMAIN viewer /\ viewer[p].fields[h] = Fld(q.scope, p, h)
    BY <1>2, <1>7, <1>14, <1>15 DEF RoundOf
  <2>3. ASSUME NEW h \in Groups
        PROVE  /\ Tok(q.scope, p, h) <= proc[p].version[h] + 1
               /\ Tok(q.scope, p, h) # 0 /\ ~Writing(p, h)' => Holds(q.scope, p, h)
               /\ Tok(q.scope, p, h) = proc[p].version[h] + 1 /\ ~Writing(p, h)' =>
                    Good(p, h, Fld(q.scope, p, h))
    <3>1. CASE h = g
      BY <1>0, <1>6, <1>14, <1>15, <3>1
    <3>2. CASE h # g
      BY <1>2, <1>14, <1>15, <3>2 DEF RoundOf
    <3> QED BY <3>1, <3>2
  <2> QED BY <1>2, <1>4, <1>13, <1>16, <1>17, <2>1, <2>2, <2>3 DEF RoundOf
<1>19. /\ lists'.processes = lists.processes
       /\ DOMAIN lists'.handles \cup DOMAIN lists'.sockets \subseteq
               DOMAIN lists.handles \cup DOMAIN lists.sockets \cup {p}
       /\ p \in builder'.round.scope.seen
  BY <1>2, <1>4, <1>13, <1>16
<1> QED BY <1>0, <1>2, <1>4, <1>10, <1>12, <1>13, <1>18, <1>19, CachedStep

LEMMA ReadVersionStep ==
    ASSUME Inv, NEW g \in Groups, ReadVersion(g)
    PROVE  Inv'
<1>1. builder.at = "groups" /\ g \in builder.left
  BY DEF ReadVersion
<1>2. CASE /\ SentVersion(builder.p, g) = WireVersion(builder.p, g)
           /\ Build([builder EXCEPT !.left = @ \ {g}], lists)
  BY <1>1, <1>2, SkipGroupStep
<1>3. CASE /\ SentVersion(builder.p, g) # WireVersion(builder.p, g)
           /\ Build([builder EXCEPT !.at = g,
                     !.round = SetEntryToken(@, builder.p, g, WireVersion(builder.p, g))], lists)
  BY <1>1, <1>3, TakeVersionStep
<1> QED BY <1>2, <1>3 DEF ReadVersion

\* The types when the next process is due.
LEMMA NextShape ==
    ASSUME Inv, NEW full \in BOOLEAN, NEW todo, todo \subseteq Known, NEW q, IsRound(q), ~useCache => full,
           UNCHANGED <<useCache, proc, viewer, touched>>, pending' \subseteq Procs,
           builder' = [at |-> "next", full |-> full, todo |-> todo, round |-> q],
           NEW l \in ScopeT,
           lists' = [processes |-> l, handles |-> lists'.handles, sockets |-> lists'.sockets]
    PROVE  Shape' /\ InRound'
<1>1. /\ builder'.at = "next" /\ builder'.full = full /\ builder'.todo = todo /\ builder'.round = q
  OBVIOUS
<1>2. "next" \notin Inside
  BY DeltaConstants DEF Inside
<1>3. lists'.processes = l /\ Known' = Known
  BY DEF Known
<1>4. useCache' \in BOOLEAN /\ proc' \in [Procs -> ProcT] /\ lists'.processes \in ScopeT
      /\ DOMAIN viewer' \subseteq Procs /\ (\A x \in DOMAIN viewer' : Flds \subseteq DOMAIN viewer'[x].fields)
      /\ touched' \subseteq Procs
  BY <1>3 DEF Inv, Shape
<1>5. InRound'
  BY <1>1 DEF InRound
<1>6. lists' = [processes |-> lists'.processes, handles |-> lists'.handles, sockets |-> lists'.sockets]
  BY <1>3
<1>7. builder'.at \notin Inside
  BY <1>1, <1>2
<1> QED BY <1>1, <1>3, <1>4, <1>5, <1>6, <1>7 DEF Shape

\* A list put in, or dropped, for one process.
LEMMA PutScopeDomain ==
    ASSUME NEW s, NEW p, NEW scope
    PROVE  DOMAIN PutScope(s, p, scope) \subseteq DOMAIN s \cup {p}
BY DEF PutScope, Put, Drop

LEMMA ReadHandleVersionStep ==
    ASSUME Inv, ReadHandleVersion
    PROVE  Inv'
<1>0. PICK p, q : p = builder.p /\ q = builder.round
  OBVIOUS
<1>1. builder.at = "groups" /\ builder.left = {}
  BY DEF ReadHandleVersion
<1>2. builder.at \in Inside /\ builder.at \notin Groups
  BY <1>1, DeltaConstants DEF Inside
<1>3. /\ builder = [at |-> builder.at, full |-> builder.full, todo |-> builder.todo, p |-> p,
                    left |-> builder.left, round |-> q]
      /\ useCache /\ p \in Procs /\ p \in Known /\ p \notin builder.todo
      /\ builder.full \in BOOLEAN /\ builder.todo \subseteq Known /\ IsRound(q)
  BY <1>0, <1>2, InsideParts
<1>4. PICK a, scope :
        a \in {"handles", "sockets"} /\ Build([builder EXCEPT !.at = a], [lists EXCEPT !.handles = Put(@, p, scope)])
  <2>1. \/ \E scope : Build([builder EXCEPT !.at = "sockets"], [lists EXCEPT !.handles = Put(@, p, scope)])
        \/ \E scope : Build([builder EXCEPT !.at = "handles"], [lists EXCEPT !.handles = Put(@, p, scope)])
    BY <1>0 DEF ReadHandleVersion
  <2> QED BY <2>1
<1>5. UNCHANGED <<useCache, proc, viewer, pending, touched>>
  BY <1>4 DEF Build, collector
<1>6. lists = [processes |-> lists.processes, handles |-> lists.handles, sockets |-> lists.sockets]
  BY DEF Inv, Shape
<1>7. builder' = [at |-> a, full |-> builder.full, todo |-> builder.todo, p |-> p,
                  left |-> builder.left, round |-> q]
  BY <1>3, <1>4 DEF Build
<1>8. lists' = [processes |-> lists.processes, handles |-> Put(lists.handles, p, scope), sockets |-> lists.sockets]
  BY <1>4, <1>6 DEF Build
<1>9. a \in Inside /\ a \notin Groups /\ a # "groups"
  BY <1>4, DeltaConstants DEF Inside
<1>10. Shape' /\ InRound'
  <2>1. lists' = [processes |-> lists.processes, handles |-> lists'.handles, sockets |-> lists'.sockets]
    BY <1>8
  <2>2. builder.left \in SUBSET Groups
    BY <1>1
  <2> QED BY <1>3, <1>5, <1>7, <1>9, <2>1, <2>2, InsideShape
<1>11. Mentions(builder.round, q, p) /\ \A h \in Flds : SameField(builder.round, q, p, h)
  BY <1>0, <1>2, SameRound
<1>12. /\ builder'.round = q /\ builder'.full = builder.full /\ builder'.todo = builder.todo
       /\ builder'.at = a /\ builder'.p = p
  BY <1>7
<1>13. \A h \in Flds : h \notin Left(p)
  BY <1>1 DEF Left
<1>14. /\ lists'.processes = lists.processes
       /\ DOMAIN lists'.handles \cup DOMAIN lists'.sockets \subseteq
               DOMAIN lists.handles \cup DOMAIN lists.sockets \cup {p}
  <2>1. DOMAIN Put(lists.handles, p, scope) = DOMAIN lists.handles \cup {p}
    BY DEF Put
  <2> QED BY <1>8, <2>1
<1> QED BY <1>0, <1>2, <1>3, <1>5, <1>9, <1>10, <1>11, <1>12, <1>13, <1>14, QuietStep

\* The two lists of a process, added and removed, are put into its entry.
LEMMA TwoSubDeltas ==
    ASSUME Inv, builder.at \in Inside, NEW p, p = builder.p, NEW f, NEW g, f \notin Flds, g \notin Flds,
           NEW v, NEW w, NEW a, NEW b, NEW q,
           q = WriteSubDelta(WriteSubDelta(builder.round, p, f, v, a), p, g, w, b)
    PROVE  /\ Mentions(builder.round, q, p) /\ IsRound(q)
           /\ \A h \in Flds : SameField(builder.round, q, p, h)
<1>1. PICK r, t : r = builder.round /\ t = WriteSubDelta(r, p, f, v, a)
  OBVIOUS
<1>2. IsRound(r) /\ p \in Procs /\ p \in r.scope.seen /\ p \in DOMAIN r.scope.entries
  BY <1>1, InsideParts DEF Scope
<1>3. Mentions(r, t, p) /\ \A h \in Flds : SameField(r, t, p, h)
  BY <1>1, <1>2, SubDeltaMentions
<1>4. IsRound(t) /\ p \in t.scope.seen /\ p \in DOMAIN t.scope.entries
  BY <1>2, <1>3 DEF Mentions, Touches
<1>5. q = WriteSubDelta(t, p, g, w, b)
  BY <1>1
<1>6. Mentions(t, q, p) /\ \A h \in Flds : SameField(t, q, p, h)
  BY <1>2, <1>4, <1>5, SubDeltaMentions
<1>7. Mentions(r, q, p) /\ \A h \in Flds : SameField(r, q, p, h)
  BY <1>3, <1>6, MentionsTwice
<1> QED BY <1>1, <1>7 DEF Mentions, Touches

LEMMA EnumHandlesStep ==
    ASSUME Inv, EnumHandles
    PROVE  Inv'
<1>0. PICK p, r : p = builder.p /\ r = HandleRound(p)
  OBVIOUS
<1>1. builder.at = "handles"
  BY DEF EnumHandles
<1>2. builder.at \in Inside /\ builder.at \notin Groups /\ builder.at # "groups"
  BY <1>1, DeltaConstants DEF Inside
<1>3. /\ builder = [at |-> builder.at, full |-> builder.full, todo |-> builder.todo, p |-> p,
                    left |-> builder.left, round |-> builder.round]
      /\ useCache /\ p \in Procs /\ p \in Known /\ p \notin builder.todo /\ builder.left \subseteq Groups
      /\ builder.full \in BOOLEAN /\ builder.todo \subseteq Known
  BY <1>0, <1>2, InsideParts
<1>4. PICK q : q = WriteSubDelta(WriteSubDelta(builder.round, p, "handles", DOMAIN r.changed, r.changed = Empty),
                                 p, "oldHandles", Removed(r), Removed(r) = {})
  OBVIOUS
<1>5. Build([builder EXCEPT !.at = "sockets", !.round = q], [lists EXCEPT !.handles = PutScope(@, p, Swept(r))])
  BY <1>0, <1>4 DEF EnumHandles
<1>6. UNCHANGED <<useCache, proc, viewer, pending, touched>>
  BY <1>5 DEF Build, collector
<1>7. lists = [processes |-> lists.processes, handles |-> lists.handles, sockets |-> lists.sockets]
  BY DEF Inv, Shape
<1>8. builder' = [at |-> "sockets", full |-> builder.full, todo |-> builder.todo, p |-> p,
                  left |-> builder.left, round |-> q]
  <2>1. builder' = [builder EXCEPT !.at = "sockets", !.round = q]
    BY <1>5 DEF Build
  <2>2. PICK a, f, t, l, w : builder = [at |-> a, full |-> f, todo |-> t, p |-> p, left |-> l, round |-> w]
    BY <1>3
  <2>3. builder' = [at |-> "sockets", full |-> f, todo |-> t, p |-> p, left |-> l, round |-> q]
    BY <2>1, <2>2
  <2> QED BY <2>2, <2>3
<1>9. lists' = [processes |-> lists.processes, handles |-> PutScope(lists.handles, p, Swept(r)),
                sockets |-> lists.sockets]
  BY <1>5, <1>7 DEF Build
<1>10. Mentions(builder.round, q, p) /\ IsRound(q) /\ \A h \in Flds : SameField(builder.round, q, p, h)
  <2>1. "handles" \notin Flds /\ "oldHandles" \notin Flds
    BY DeltaConstants DEF Flds
  <2> QED BY <1>0, <1>2, <1>4, <2>1, TwoSubDeltas
<1>11. "sockets" \in Inside /\ "sockets" \notin Groups
  BY DeltaConstants DEF Inside
<1>12. Shape' /\ InRound'
  <2>1. lists' = [processes |-> lists.processes, handles |-> lists'.handles, sockets |-> lists'.sockets]
    BY <1>9
  <2> QED BY <1>3, <1>6, <1>8, <1>10, <1>11, <2>1, InsideShape
<1>13. /\ builder'.round = q /\ builder'.full = builder.full /\ builder'.todo = builder.todo
       /\ builder'.at = "sockets" /\ builder'.p = p
  BY <1>8
<1>14. \A h \in Flds : h \notin Left(p)
  BY <1>2 DEF Left
<1>15. /\ lists'.processes = lists.processes
       /\ DOMAIN lists'.handles \cup DOMAIN lists'.sockets \subseteq
               DOMAIN lists.handles \cup DOMAIN lists.sockets \cup {p}
  BY <1>9, PutScopeDomain
<1> QED BY <1>0, <1>2, <1>3, <1>6, <1>10, <1>11, <1>12, <1>13, <1>14, <1>15, QuietStep

LEMMA EnumSocketsStep ==
    ASSUME Inv, EnumSockets
    PROVE  Inv'
<1>0. PICK p, r : p = builder.p /\ r = SocketRound(p)
  OBVIOUS
<1>1. builder.at = "sockets"
  BY DEF EnumSockets
<1>2. builder.at \in Inside /\ builder.at \notin Groups /\ builder.at # "groups"
  BY <1>1, DeltaConstants DEF Inside
<1>3. /\ useCache /\ p \in Procs /\ builder.full \in BOOLEAN /\ builder.todo \subseteq Known
  BY <1>0, <1>2, InsideParts
<1>4. PICK q : q = WriteSubDelta(WriteSubDelta(builder.round, p, "sockets", r.changed, r.changed = Empty),
                                 p, "oldSockets", Removed(r), Removed(r) = {})
  OBVIOUS
<1>5. Build([at |-> "next", full |-> builder.full, todo |-> builder.todo, round |-> q],
            [lists EXCEPT !.sockets = PutScope(@, p, Swept(r))])
  BY <1>0, <1>4 DEF EnumSockets
<1>6. UNCHANGED <<useCache, proc, viewer, pending, touched>>
  BY <1>5 DEF Build, collector
<1>7. /\ lists = [processes |-> lists.processes, handles |-> lists.handles, sockets |-> lists.sockets]
      /\ lists.processes \in ScopeT /\ pending' \subseteq Procs
  BY <1>6 DEF Inv, Shape
<1>8. builder' = [at |-> "next", full |-> builder.full, todo |-> builder.todo, round |-> q]
  BY <1>5 DEF Build
<1>9. lists' = [processes |-> lists.processes, handles |-> lists.handles,
                sockets |-> PutScope(lists.sockets, p, Swept(r))]
  BY <1>5, <1>7 DEF Build
<1>10. Mentions(builder.round, q, p) /\ IsRound(q) /\ \A h \in Flds : SameField(builder.round, q, p, h)
  <2>1. "sockets" \notin Flds /\ "oldSockets" \notin Flds
    BY DeltaConstants DEF Flds
  <2> QED BY <1>0, <1>2, <1>4, <2>1, TwoSubDeltas
<1>11. "next" \notin Inside /\ "next" \notin Groups
  BY DeltaConstants DEF Inside
<1>12. Shape' /\ InRound'
  <2>1. lists' = [processes |-> lists.processes, handles |-> lists'.handles, sockets |-> lists'.sockets]
    BY <1>9
  <2> QED BY <1>3, <1>6, <1>7, <1>8, <1>10, <2>1, NextShape
<1>13. /\ builder'.round = q /\ builder'.full = builder.full /\ builder'.todo = builder.todo
       /\ builder'.at = "next"
  BY <1>8
<1>14. \A h \in Flds : h \notin Left(p)
  BY <1>2 DEF Left
<1>15. /\ lists'.processes = lists.processes
       /\ DOMAIN lists'.handles \cup DOMAIN lists'.sockets \subseteq
               DOMAIN lists.handles \cup DOMAIN lists.sockets \cup {p}
  BY <1>9, PutScopeDomain
<1> QED BY <1>0, <1>2, <1>3, <1>6, <1>10, <1>11, <1>12, <1>13, <1>14, <1>15, QuietStep

-----------------------------------------------------------------------------
(* The round without the cache *)

LEMMA ToVariantStep ==
    ASSUME Inv, NEW p \in Procs, ToVariant(p)
    PROVE  Inv'
<1> DEFINE socket == [s \in LiveSockets(p) |-> [f \in {"static", "state"} |->
                         IF f = "static" THEN proc[p].socket[s].ex ELSE proc[p].socket[s].state]]
           all == [f \in {"plain", "handles", "sockets"} \cup Groups |->
                     CASE f = "plain"   -> proc[p].plain
                       [] f = "handles" -> NamedHandles(p)
                       [] f = "sockets" -> socket
                       [] OTHER         -> proc[p].group[f]]
<1>1. /\ ~useCache /\ builder.at = "next" /\ p \in builder.todo
      /\ builder' = [builder EXCEPT !.todo = @ \ {p}, !.round.changed = Put(@, p, all)]
      /\ UNCHANGED <<useCache, proc, lists, viewer, pending, touched>>
  BY DEF ToVariant, Build, collector
<1>2. \A f \in Flds : f \in DOMAIN all /\ all[f] = Value(p, f)
  <2>1. "handles" \notin Flds /\ "sockets" \notin Flds
    BY DeltaConstants DEF Flds
  <2> HIDE DEF socket
  <2>2. ASSUME NEW f \in Flds PROVE f \in DOMAIN all /\ all[f] = Value(p, f)
    <3>1. f # "handles" /\ f # "sockets" /\ f \in {"plain", "handles", "sockets"} \cup Groups
      BY <2>1 DEF Flds
    <3> QED BY <3>1 DEF Value
  <2> QED BY <2>2
<1> HIDE DEF all
<1>3. PICK b : /\ b = builder /\ b = [at |-> "next", full |-> b.full, todo |-> b.todo, round |-> b.round]
               /\ b.round = [scope |-> b.round.scope, changed |-> b.round.changed]
  BY <1>1 DEF Inv, Shape, InRound, IsRound
<1>4. /\ InRound /\ b.full \in BOOLEAN /\ b.todo \subseteq Known /\ IsRound(b.round) /\ b.full
  BY <1>1, <1>3 DEF Inv, Shape, InRound
<1>5. PICK c, q : c = Put(b.round.changed, p, all) /\ q = [scope |-> b.round.scope, changed |-> c]
  OBVIOUS
<1>6. builder' = [at |-> "next", full |-> b.full, todo |-> b.todo \ {p}, round |-> q]
  <2>1. [b.round EXCEPT !.changed = c] = q
    BY <1>3, <1>5
  <2>2. builder' = [b EXCEPT !.todo = @ \ {p}, !.round = [b.round EXCEPT !.changed = c]]
    BY <1>1, <1>3, <1>5
  <2>3. PICK f, t, w : b = [at |-> "next", full |-> f, todo |-> t, round |-> w]
    BY <1>3
  <2>4. builder' = [at |-> "next", full |-> f, todo |-> t \ {p}, round |-> [b.round EXCEPT !.changed = c]]
    BY <2>2, <2>3
  <2>5. b.full = f /\ b.todo = t
    BY <2>3
  <2> QED BY <2>1, <2>4, <2>5
<1>7. /\ DOMAIN c = DOMAIN Changed \cup {p} /\ c[p] = all
      /\ \A x \in DOMAIN Changed : x # p => c[x] = Changed[x]
  BY <1>3, <1>5 DEF Put, Changed
<1>8. IsRound(q) /\ q.scope = Scope /\ q.changed = c
  BY <1>3, <1>4, <1>5, <1>7 DEF IsRound, Scope, Changed
<1>9. Shape' /\ InRound'
  <2>1. /\ lists' = [processes |-> lists.processes, handles |-> lists'.handles, sockets |-> lists'.sockets]
        /\ lists.processes \in ScopeT /\ pending' \subseteq Procs
    BY <1>1 DEF Inv, Shape
  <2>2. b.todo \ {p} \subseteq Known
    BY <1>4
  <2> QED BY <1>1, <1>4, <1>6, <1>8, <2>1, <2>2, NextShape
<1>10. Scope' = Scope /\ Changed' = c /\ builder'.todo = builder.todo \ {p} /\ builder'.at = "next"
  BY <1>3, <1>6, <1>8 DEF Scope, Changed
<1>11. CacheInv'
  BY <1>1 DEF Inv, CacheInv, Good, Value, Known
<1>12. RoundInv'
  BY <1>1 DEF RoundInv
<1>13. FileInv'
  <2>1. FileInv /\ Live' = Live /\ \A x \in Procs, f \in Flds : Value(x, f)' = Value(x, f)
    BY <1>1 DEF Inv, Live, Value
  <2>2. /\ DOMAIN Scope.entries = {}
        /\ \A x \in Procs \ pending : x \in Live <=> x \in builder.todo \cup DOMAIN Changed
        /\ \A x \in DOMAIN Changed : \A f \in Flds :
             f \in DOMAIN Changed[x] /\ (x \notin pending => Changed[x][f] = Value(x, f))
    BY <1>1, <1>4, <2>1 DEF FileInv
  <2>3. DOMAIN Changed \subseteq Procs
    BY <1>3, <1>4 DEF IsRound, Changed
  <2> HIDE DEF Scope, Changed, Live, Value
  <2>4. \A x \in Procs \ pending : x \in Live <=> x \in (builder.todo \ {p}) \cup DOMAIN c
    BY <1>1, <1>7, <2>2
  <2>5. ASSUME NEW x \in DOMAIN c, NEW f \in Flds
        PROVE  f \in DOMAIN c[x] /\ (x \notin pending => c[x][f] = Value(x, f)')
    BY <1>2, <1>7, <2>1, <2>2, <2>3
  <2> QED BY <1>1, <1>10, <2>1, <2>2, <2>4, <2>5 DEF FileInv
<1>14. SentInv'
  BY <1>10 DEF SentInv
<1>15. IdleInv'
  BY <1>1 DEF IdleInv
<1>16. ListInv'
  BY <1>1, <1>4, <1>9, <1>10 DEF Inv, ListInv
<1>17. Agrees'
  BY <1>1 DEF Inv, Agrees, Good, Value, Live
<1> QED BY <1>9, <1>11, <1>12, <1>13, <1>14, <1>15, <1>16, <1>17 DEF Inv

-----------------------------------------------------------------------------
(* Beginning a round, and losing the connection *)

LEMMA NoListsParts ==
    /\ NoLists = [processes |-> NewScope, handles |-> Empty, sockets |-> Empty]
    /\ NoLists.processes \in ScopeT /\ DOMAIN NoLists.processes.entries = {}
    /\ DOMAIN NoLists.handles = {} /\ DOMAIN NoLists.sockets = {}
<1>1. Empty \in Entries /\ DOMAIN Empty = {}
  BY EmptyPartial DEF Entries
<1>2. NewScope \in ScopeT /\ NewScope.entries = Empty
  BY <1>1 DEF NewScope, ScopeT
<1> QED BY <1>1, <1>2 DEF NoLists

LEMMA NoCacheEntries ==
    ASSUME proc' \in [Procs -> ProcT], DOMAIN lists'.processes.entries = {}
    PROVE  CacheInv'
<1>1. PICK s : s = lists'.processes
  OBVIOUS
<1>2. \A p, g : Tok(s, p, g) = 0
  BY <1>1, NewEntryType DEF Tok, EntryOf
<1>3. \A p \in Procs, g \in Groups : proc'[p].version[g] \in Nat
  BY ProcParts
<1>4. \A p \in Procs, g \in Groups : Tok(s, p, g) <= proc'[p].version[g] + 1 /\ Tok(s, p, g) # proc'[p].version[g] + 1
  BY <1>2, <1>3
<1> QED BY <1>1, <1>4 DEF CacheInv

LEMMA StartStep ==
    ASSUME Inv, NEW full \in BOOLEAN, NEW base, StartRound(full, base), CacheInv', IdleInv',
           base = [processes |-> base.processes, handles |-> base.handles, sockets |-> base.sockets],
           base.processes \in ScopeT,
           ~useCache => full, useCache /\ full => DOMAIN base.processes.entries = {},
           DOMAIN base.handles \cup DOMAIN base.sockets \subseteq DOMAIN base.processes.entries,
           ~full => /\ DOMAIN viewer = DOMAIN base.processes.entries
                    /\ \A p \in DOMAIN viewer : \A f \in Flds :
                         viewer[p].fields[f] = Fld(base.processes, p, f)
    PROVE  Inv'
<1>1. PICK s, q : s = base.processes /\ q = BeginRound(s)
  OBVIOUS
<1>2. /\ builder.at = "idle" /\ builder' = [at |-> "next", full |-> full, todo |-> Live, round |-> q]
      /\ lists' = base /\ pending' = {}
      /\ UNCHANGED <<useCache, proc, viewer, touched>>
  BY <1>1 DEF StartRound, collector
<1>3. /\ IsRound(q) /\ q.scope.seen = {} /\ q.scope.entries = s.entries
      /\ DOMAIN q.changed = {} /\ \A p : EntryOf(q.scope, p) = EntryOf(s, p)
  BY <1>1, BeginRoundEffect
<1>4. Live \subseteq Known /\ Known' = Known /\ Live' = Live
  BY <1>2 DEF Live, Known
<1>5. Shape' /\ InRound'
  BY <1>1, <1>2, <1>3, <1>4, NextShape
<1>6. /\ Scope' = q.scope /\ Changed' = q.changed /\ builder'.todo = Live /\ builder'.at = "next"
      /\ builder'.full = full
  BY <1>2 DEF Scope, Changed
<1>7. /\ \A p : Was(q.scope, p) <=> Was(s, p)
      /\ \A p, f : Fld(q.scope, p, f) = Fld(s, p, f) /\ (Holds(q.scope, p, f) <=> Holds(s, p, f))
      /\ \A p, g : Tok(q.scope, p, g) = Tok(s, p, g)
  BY <1>3 DEF Was, Fld, Holds, Tok
<1>8. \A p : p \notin DOMAIN s.entries => ~Was(s, p) /\ (\A f : ~Holds(s, p, f)) /\ (\A g : Tok(s, p, g) = 0)
  BY NewEntryType DEF Was, Holds, Tok, EntryOf
<1>9. /\ DOMAIN s.entries \subseteq Known
      /\ ~useCache => DOMAIN s.entries = {}
      /\ \A p \in DOMAIN s.entries : Was(s, p) /\ \A f \in Flds : Holds(s, p, f)
      /\ \A p \in Procs, g \in Groups :
           /\ Tok(s, p, g) <= proc[p].version[g] + 1
           /\ Tok(s, p, g) = proc[p].version[g] + 1 => Good(p, g, Fld(s, p, g))
  BY <1>1, <1>2, <1>4 DEF CacheInv, Good, Value
<1>10. RoundInv'
  <2> SUFFICES ASSUME useCache PROVE RoundInv'
    BY <1>2 DEF RoundInv
  <2>1. "next" \notin Inside
    BY DeltaConstants DEF Inside
  <2>2. ASSUME NEW p \in Procs PROVE RoundOf(p)'
    <3>1. \A g \in Groups : ~Writing(p, g)'
      BY <1>6, DeltaConstants DEF Writing
    <3>2. /\ p \in DOMAIN q.scope.entries <=> p \in DOMAIN s.entries \cup DOMAIN q.changed
          /\ p \in DOMAIN q.scope.entries => p \in Known
          /\ Was(q.scope, p) <=> p \in DOMAIN s.entries
      BY <1>3, <1>7, <1>8, <1>9
    <3>3. ASSUME NEW f \in Flds
          PROVE  /\ p \in DOMAIN q.scope.entries => Holds(q.scope, p, f)
                 /\ ~Says(q.changed, p, f)
                 /\ Holds(q.scope, p, f) => ~full /\ p \in DOMAIN viewer /\ viewer[p].fields[f] = Fld(q.scope, p, f)
      <4>1. Holds(q.scope, p, f) => p \in DOMAIN s.entries
        BY <1>7, <1>8
      <4> QED BY <1>1, <1>3, <1>7, <1>9, <4>1 DEF Says
    <3>4. ASSUME NEW g \in Groups
          PROVE  /\ Tok(q.scope, p, g) <= proc[p].version[g] + 1
                 /\ Tok(q.scope, p, g) # 0 => Holds(q.scope, p, g)
                 /\ Tok(q.scope, p, g) = proc[p].version[g] + 1 => Good(p, g, Fld(q.scope, p, g))
      <4>1. g \in Flds
        BY DEF Flds
      <4> QED BY <1>7, <1>8, <1>9, <4>1
    <3>5. \A h, v : Good(p, h, v)' <=> Good(p, h, v)
      BY <1>2 DEF Good, Value
    <3> HIDE DEF Scope, Changed, Known, Live
    <3> QED BY <1>1, <1>2, <1>3, <1>4, <1>6, <3>1, <3>2, <3>3, <3>4, <3>5 DEF RoundOf
  <2>3. builder'.at \notin Inside
    BY <1>6, <2>1
  <2> QED BY <1>1, <1>2, <1>6, <2>2, <2>3 DEF RoundInv
<1>11. FileInv'
  <2> SUFFICES ASSUME ~useCache PROVE FileInv'
    BY <1>2 DEF FileInv
  <2>1. DOMAIN q.scope.entries = {} /\ DOMAIN q.changed = {}
    BY <1>3, <1>9
  <2> HIDE DEF Scope, Changed, Live, Value
  <2> QED BY <1>2, <1>4, <1>6, <2>1 DEF FileInv
<1>12. SentInv'
  BY <1>6 DEF SentInv
<1>13. ListInv'
  BY <1>1, <1>2, <1>3, <1>5, <1>6 DEF ListInv
<1>14. Agrees'
  BY <1>2 DEF Inv, Agrees, Good, Value, Live
<1> QED BY <1>5, <1>10, <1>11, <1>12, <1>13, <1>14 DEF Inv

LEMMA GetProcessesStep ==
    ASSUME Inv, GetProcesses
    PROVE  Inv'
<1>1. PICK full : full = (~useCache \/ IsEmpty(lists.processes))
  OBVIOUS
<1>2. PICK base : base = lists
  OBVIOUS
<1>3. StartRound(full, base) /\ full \in BOOLEAN
  BY <1>1, <1>2 DEF GetProcesses
<1>4. /\ builder.at = "idle" /\ lists' = lists /\ UNCHANGED <<useCache, proc, viewer, touched>>
      /\ builder'.at = "next"
  BY <1>2, <1>3 DEF StartRound, collector
<1>5. ~InRound
  BY <1>4, DeltaConstants DEF InRound, Inside
<1>6. CacheInv'
  BY <1>4 DEF Inv, CacheInv, Good, Value, Known
<1>7. IdleInv /\ IdleInv'
  BY <1>4 DEF Inv, IdleInv
<1>8. DOMAIN base.handles \cup DOMAIN base.sockets \subseteq DOMAIN base.processes.entries
  BY <1>2, <1>5 DEF Inv, ListInv
<1>9. /\ base = [processes |-> base.processes, handles |-> base.handles, sockets |-> base.sockets]
      /\ base.processes \in ScopeT
  BY <1>2 DEF Inv, Shape
<1>10. /\ ~useCache => full
       /\ useCache /\ full => DOMAIN base.processes.entries = {}
       /\ ~full => useCache /\ DOMAIN base.processes.entries # {}
  BY <1>1, <1>2 DEF IsEmpty
<1>11. ~full => /\ DOMAIN viewer = DOMAIN base.processes.entries
                /\ \A p \in DOMAIN viewer : \A f \in Flds :
                     viewer[p].fields[f] = Fld(base.processes, p, f)
  BY <1>2, <1>4, <1>7, <1>10 DEF IdleInv
<1> QED BY <1>3, <1>6, <1>7, <1>8, <1>9, <1>10, <1>11, StartStep

LEMMA ReloadStep ==
    ASSUME Inv, Reload
    PROVE  Inv'
<1>1. StartRound(TRUE, NoLists)
  BY DEF Reload
<1>2. lists' = NoLists /\ UNCHANGED proc
  BY <1>1 DEF StartRound, collector
<1>3. CacheInv'
  <2>1. proc' \in [Procs -> ProcT]
    BY <1>2 DEF Inv, Shape
  <2> QED BY <1>2, <2>1, NoCacheEntries, NoListsParts
<1>4. IdleInv'
  BY <1>2, NoListsParts DEF IdleInv
<1>5. NoLists = [processes |-> NoLists.processes, handles |-> NoLists.handles, sockets |-> NoLists.sockets]
  BY NoListsParts
<1> QED BY <1>1, <1>3, <1>4, <1>5, NoListsParts, StartStep

LEMMA LoseConnectionStep ==
    ASSUME Inv, LoseConnection
    PROVE  Inv'
<1>1. /\ lists' = NoLists /\ builder' = [at |-> "idle"]
      /\ UNCHANGED <<useCache, proc, viewer, pending, touched>>
  BY DEF LoseConnection, collector, Idle
<1>2. builder'.at = "idle"
  BY <1>1
<1>3. ~InRound' /\ "idle" \notin Inside
  BY <1>2, DeltaConstants DEF InRound, Inside
<1>4. Shape'
  BY <1>1, <1>2, <1>3, NoListsParts DEF Inv, Shape
<1>5. CacheInv'
  <2>1. proc' \in [Procs -> ProcT]
    BY <1>1 DEF Inv, Shape
  <2> QED BY <1>1, <2>1, NoCacheEntries, NoListsParts
<1>6. RoundInv' /\ FileInv' /\ SentInv'
  BY <1>2, <1>3 DEF RoundInv, FileInv, SentInv
<1>7. IdleInv' /\ ListInv'
  BY <1>1, NoListsParts DEF IdleInv, ListInv
<1>8. Agrees'
  BY <1>1 DEF Inv, Agrees, Good, Value, Live
<1> QED BY <1>4, <1>5, <1>6, <1>7, <1>8 DEF Inv

-----------------------------------------------------------------------------
(* The answer *)

\* What the viewer lists after an answer: each field is the one that was sent,
\* or the one it had.
LEMMA MergedIs ==
    ASSUME Shape, NEW r
    PROVE  /\ DOMAIN Merged(r) = (IF r.full THEN {} ELSE DOMAIN viewer \ r.removed) \cup DOMAIN r.changed
           /\ \A p \in DOMAIN Merged(r), f \in Flds :
                /\ Says(r.changed, p, f) =>
                     f \in DOMAIN Merged(r)[p].fields /\ Merged(r)[p].fields[f] = r.changed[p][f]
                /\ ~Says(r.changed, p, f) /\ p \in DOMAIN viewer =>
                     f \in DOMAIN Merged(r)[p].fields /\ Merged(r)[p].fields[f] = viewer[p].fields[f]
<1>1. DOMAIN Merged(r) = (IF r.full THEN {} ELSE DOMAIN viewer \ r.removed) \cup DOMAIN r.changed
  BY DEF Merged
<1>2. ASSUME NEW p \in DOMAIN Merged(r), NEW f \in Flds
      PROVE  /\ Says(r.changed, p, f) =>
                  f \in DOMAIN Merged(r)[p].fields /\ Merged(r)[p].fields[f] = r.changed[p][f]
             /\ ~Says(r.changed, p, f) /\ p \in DOMAIN viewer =>
                  f \in DOMAIN Merged(r)[p].fields /\ Merged(r)[p].fields[f] = viewer[p].fields[f]
  <2>1. PICK row, e : row = (IF p \in DOMAIN viewer THEN viewer[p] ELSE NewRow) /\ e = Part(r.changed, p, Empty)
    OBVIOUS
  <2>2. Merged(r)[p] = FromVariant(row, e, r.full)
    BY <2>1 DEF Merged
  <2>3. PICK d : d = Drop(e, {"handles", "oldHandles", "sockets", "oldSockets"})
    OBVIOUS
  <2>4. f \notin {"handles", "oldHandles", "sockets", "oldSockets"}
    BY DeltaConstants DEF Flds
  <2>5. (f \in DOMAIN d <=> f \in DOMAIN e) /\ (f \in DOMAIN e => d[f] = e[f])
    BY <2>3, <2>4 DEF Drop
  <2>6. Merged(r)[p].fields = MergeFields(row.fields, d)
    BY <2>2, <2>3 DEF FromVariant
  <2>7. /\ f \in DOMAIN e => f \in DOMAIN Merged(r)[p].fields /\ Merged(r)[p].fields[f] = e[f]
        /\ f \notin DOMAIN e /\ f \in DOMAIN row.fields =>
             f \in DOMAIN Merged(r)[p].fields /\ Merged(r)[p].fields[f] = row.fields[f]
    BY <2>5, <2>6 DEF MergeFields
  <2>8. /\ Says(r.changed, p, f) => f \in DOMAIN e /\ e[f] = r.changed[p][f]
        /\ ~Says(r.changed, p, f) => f \notin DOMAIN e
    BY <2>1 DEF Says, Part, Empty
  <2>9. p \in DOMAIN viewer => f \in DOMAIN row.fields /\ row.fields[f] = viewer[p].fields[f]
    BY <2>1 DEF Shape
  <2> QED BY <2>7, <2>8, <2>9
<1> QED BY <1>1, <1>2

\* FinishProcesses, whichever way the round was built.
LEMMA FinishParts ==
    ASSUME Inv, FinishProcesses, NEW m, m = Merged(reply'), NEW gone, gone = Removed(builder.round)
    PROVE  /\ builder.at = "next" /\ builder.todo = {} /\ InRound /\ builder'.at = "sent" /\ ~InRound'
           /\ UNCHANGED <<useCache, proc, viewer, pending, touched>>
           /\ reply'.full = builder.full /\ reply'.changed = Changed /\ reply'.removed = gone
           /\ Merged(reply)' = m /\ \A p : After(p)' = m[p].fields
           /\ lists' = [processes |-> IF useCache THEN Swept(builder.round) ELSE lists.processes,
                        handles |-> lists'.handles, sockets |-> lists'.sockets]
           /\ DOMAIN lists'.handles = DOMAIN lists.handles \ gone
           /\ DOMAIN lists'.sockets = DOMAIN lists.sockets \ gone
           /\ RoundInv' /\ FileInv' /\ IdleInv' /\ Agrees'
           /\ lists'.processes \in ScopeT => Shape'
<1>1. /\ builder.at = "next" /\ builder.todo = {} /\ builder' = [at |-> "sent"]
      /\ UNCHANGED <<useCache, proc, viewer, pending, touched>>
      /\ reply' = [full |-> builder.full, changed |-> builder.round.changed, removed |-> gone]
      /\ lists' = [ForgetProcesses(lists, gone) EXCEPT
                     !.processes = IF useCache THEN Swept(builder.round) ELSE @]
  BY DEF FinishProcesses, collector
<1>2. InRound /\ builder'.at = "sent" /\ ~InRound' /\ "sent" \notin Inside
  BY <1>1, DeltaConstants DEF InRound, Inside
<1>3. Merged(reply)' = m /\ \A p : After(p)' = m[p].fields
  BY <1>1 DEF Merged, After
<1>4. PICK a, b, c : lists = [processes |-> a, handles |-> b, sockets |-> c]
  BY DEF Inv, Shape
<1>5. PICK t, u : t = Drop(b, gone) /\ u = Drop(c, gone)
  OBVIOUS
<1>6. ForgetProcesses(lists, gone) = [processes |-> a, handles |-> t, sockets |-> u]
  <2>1. ForgetProcesses(lists, gone) = [lists EXCEPT !.handles = t, !.sockets = u]
    BY <1>4, <1>5 DEF ForgetProcesses
  <2> QED BY <1>4, <2>1
<1>7. lists' = [processes |-> IF useCache THEN Swept(builder.round) ELSE a, handles |-> t, sockets |-> u]
  <2>1. PICK w : w = Swept(builder.round)
    OBVIOUS
  <2> QED BY <1>1, <1>6, <2>1
<1>8. lists' = [processes |-> IF useCache THEN Swept(builder.round) ELSE lists.processes,
                handles |-> lists'.handles, sockets |-> lists'.sockets]
  BY <1>4, <1>7
<1>9. DOMAIN lists'.handles = DOMAIN lists.handles \ gone /\ DOMAIN lists'.sockets = DOMAIN lists.sockets \ gone
  BY <1>4, <1>5, <1>7 DEF Drop
<1>10. RoundInv' /\ FileInv' /\ IdleInv'
  BY <1>2 DEF RoundInv, FileInv, IdleInv
<1>11. Agrees'
  BY <1>1 DEF Inv, Agrees, Good, Value, Live
<1>12. lists'.processes \in ScopeT => Shape'
  <2>1. lists' = [processes |-> lists'.processes, handles |-> lists'.handles, sockets |-> lists'.sockets]
    BY <1>7
  <2> QED BY <1>1, <1>2, <2>1 DEF Inv, Shape
<1> QED BY <1>1, <1>2, <1>3, <1>8, <1>9, <1>10, <1>11, <1>12 DEF Changed

LEMMA FinishPlainStep ==
    ASSUME Inv, FinishProcesses, ~useCache
    PROVE  Inv'
<1>1. PICK m, gone : m = Merged(reply') /\ gone = Removed(builder.round)
  OBVIOUS
<1>2. /\ builder.at = "next" /\ builder.todo = {} /\ InRound /\ builder'.at = "sent" /\ ~InRound'
      /\ UNCHANGED <<useCache, proc, viewer, pending, touched>>
      /\ reply'.full = builder.full /\ reply'.changed = Changed /\ reply'.removed = gone
      /\ Merged(reply)' = m /\ \A p : After(p)' = m[p].fields
      /\ lists'.processes = lists.processes
      /\ DOMAIN lists'.handles = DOMAIN lists.handles \ gone
      /\ DOMAIN lists'.sockets = DOMAIN lists.sockets \ gone
      /\ RoundInv' /\ FileInv' /\ IdleInv' /\ Agrees'
      /\ lists'.processes \in ScopeT => Shape'
  BY <1>1, FinishParts
<1>3. lists.processes \in ScopeT /\ builder.full /\ IsRound(builder.round)
  BY <1>2 DEF Inv, Shape
<1>4. Shape'
  BY <1>2, <1>3
<1>5. CacheInv'
  <2>1. CacheInv
    BY DEF Inv
  <2>2. PICK s : s = lists.processes /\ s = lists'.processes
    BY <1>2
  <2> QED BY <1>2, <2>1, <2>2 DEF CacheInv, Good, Value, Known
<1>6. /\ DOMAIN Scope.entries = {}
      /\ \A p \in Procs \ pending : p \in Live <=> p \in DOMAIN Changed
      /\ \A p \in DOMAIN Changed : \A f \in Flds :
           Says(Changed, p, f) /\ (p \notin pending => Changed[p][f] = Value(p, f))
  BY <1>2 DEF Inv, FileInv, Says
<1>7. DOMAIN m = DOMAIN Changed /\ DOMAIN Changed \subseteq Procs
  <2>1. DOMAIN m = (IF reply'.full THEN {} ELSE DOMAIN viewer \ reply'.removed) \cup DOMAIN reply'.changed
    BY <1>1, MergedIs DEF Inv
  <2> QED BY <1>2, <1>3, <2>1 DEF IsRound, Changed
<1>8. \A p \in DOMAIN m, f \in Flds : f \in DOMAIN m[p].fields /\ m[p].fields[f] = Changed[p][f]
  <2>1. PICK c : c = reply' /\ m = Merged(c)
    BY <1>1
  <2>2. c.changed = Changed
    BY <1>2, <2>1
  <2> HIDE DEF Changed
  <2>3. ASSUME NEW p \in DOMAIN m, NEW f \in Flds
        PROVE  f \in DOMAIN m[p].fields /\ m[p].fields[f] = Changed[p][f]
    <3>1. Says(c.changed, p, f) => f \in DOMAIN m[p].fields /\ m[p].fields[f] = c.changed[p][f]
      BY <2>1, MergedIs DEF Inv
    <3> QED BY <1>6, <1>7, <2>2, <3>1
  <2> QED BY <2>3
<1>9. SentInv'
  <2> HIDE DEF Changed, Live, Value
  <2>1. Live' = Live /\ \A p, f, v : Good(p, f, v)' <=> Good(p, f, v)
    BY <1>2 DEF Live, Good, Value
  <2>2. \A p \in DOMAIN m \ pending : \A f \in Flds : Good(p, f, m[p].fields[f])
    BY <1>6, <1>7, <1>8 DEF Good
  <2> QED BY <1>2, <1>6, <1>7, <1>8, <2>1, <2>2 DEF SentInv
<1>10. ListInv'
  <2>1. DOMAIN lists.handles \cup DOMAIN lists.sockets = {}
    BY <1>2, <1>6 DEF Inv, ListInv
  <2> QED BY <1>2, <2>1 DEF ListInv
<1> QED BY <1>2, <1>4, <1>5, <1>9, <1>10 DEF Inv

LEMMA FinishCachedStep ==
    ASSUME Inv, FinishProcesses, useCache
    PROVE  Inv'
<1>1. PICK m, gone, w : m = Merged(reply') /\ gone = Removed(builder.round) /\ w = Swept(builder.round)
  OBVIOUS
<1>2. /\ builder.at = "next" /\ builder.todo = {} /\ InRound /\ builder'.at = "sent" /\ ~InRound'
      /\ UNCHANGED <<useCache, proc, viewer, pending, touched>>
      /\ reply'.full = builder.full /\ reply'.changed = Changed /\ reply'.removed = gone
      /\ Merged(reply)' = m /\ \A p : After(p)' = m[p].fields
      /\ lists'.processes = w
      /\ DOMAIN lists'.handles = DOMAIN lists.handles \ gone
      /\ DOMAIN lists'.sockets = DOMAIN lists.sockets \ gone
      /\ RoundInv' /\ FileInv' /\ IdleInv' /\ Agrees'
      /\ lists'.processes \in ScopeT => Shape'
  <2>1. lists' = [processes |-> w, handles |-> lists'.handles, sockets |-> lists'.sockets]
    BY <1>1, FinishParts
  <2>2. lists'.processes = w
    BY <2>1
  <2>3. /\ builder.at = "next" /\ builder.todo = {} /\ InRound /\ builder'.at = "sent" /\ ~InRound'
        /\ UNCHANGED <<useCache, proc, viewer, pending, touched>>
        /\ reply'.full = builder.full /\ reply'.changed = Changed /\ reply'.removed = gone
        /\ Merged(reply)' = m /\ \A p : After(p)' = m[p].fields
        /\ DOMAIN lists'.handles = DOMAIN lists.handles \ gone
        /\ DOMAIN lists'.sockets = DOMAIN lists.sockets \ gone
        /\ RoundInv' /\ FileInv' /\ IdleInv' /\ Agrees'
        /\ lists'.processes \in ScopeT => Shape'
    BY <1>1, FinishParts
  <2> QED BY <2>2, <2>3
<1>3. IsRound(builder.round) /\ Scope \in ScopeT /\ DOMAIN Scope.entries \subseteq Procs
  <2>1. IsRound(builder.round)
    BY <1>2 DEF Inv, Shape
  <2> QED BY <2>1, EntryOfType DEF IsRound, Scope
<1>4. /\ builder.full => DOMAIN lists.processes.entries = {}
      /\ ~builder.full => DOMAIN viewer = DOMAIN lists.processes.entries
      /\ \A p \in Procs : RoundOf(p)
  BY <1>2 DEF Inv, RoundInv
<1>5. \A p : Left(p) = {} /\ \A g \in Groups : ~Writing(p, g)
  BY <1>2, DeltaConstants DEF Left, Writing
<1>6. \A p \in Procs :
        /\ p \in DOMAIN Scope.entries <=> p \in DOMAIN lists.processes.entries \cup DOMAIN Changed
        /\ p \in DOMAIN Scope.entries => p \in Known
        /\ p \in DOMAIN Changed => p \in Scope.seen
        /\ p \in Scope.seen => p \in DOMAIN Scope.entries
        /\ p \notin pending => (p \in Live <=> p \in Scope.seen)
        /\ Was(Scope, p) <=> p \in DOMAIN lists.processes.entries
  BY <1>2, <1>4 DEF RoundOf
<1>7. \A p \in Procs, f \in Flds :
         /\ p \in DOMAIN Scope.entries => Holds(Scope, p, f)
         /\ p \in Scope.seen \ pending => Good(p, f, Fld(Scope, p, f))
         /\ Says(Changed, p, f) => Changed[p][f] = Fld(Scope, p, f)
         /\ Holds(Scope, p, f) /\ ~Says(Changed, p, f) =>
              ~builder.full /\ p \in DOMAIN viewer /\ viewer[p].fields[f] = Fld(Scope, p, f)
  BY <1>2, <1>4, <1>5 DEF RoundOf
<1>8. \A p \in Procs, g \in Groups :
         /\ Tok(Scope, p, g) <= proc[p].version[g] + 1
         /\ Tok(Scope, p, g) = proc[p].version[g] + 1 => Good(p, g, Fld(Scope, p, g))
  BY <1>4, <1>5 DEF RoundOf
<1>9. DOMAIN Changed \subseteq Procs /\ DOMAIN viewer \subseteq Procs /\ Scope.seen \subseteq Procs
      /\ DOMAIN lists.processes.entries \subseteq Procs
  <2>1. Scope.seen \subseteq Procs /\ DOMAIN lists.processes.entries \subseteq Procs
    BY <1>3, EntryOfType DEF Inv, Shape
  <2> QED BY <1>3, <2>1 DEF Inv, Shape, IsRound, Changed
<1>10. \A p \in Procs : p \in gone <=> p \in DOMAIN Scope.entries \ Scope.seen /\ Was(Scope, p)
  BY <1>1 DEF Removed, Unmentioned, Was, EntryOf, Scope
<1>11. /\ w \in ScopeT /\ DOMAIN w.entries = Scope.seen
       /\ \A p \in Scope.seen :
            /\ EntryOf(w, p).fields = EntryOf(Scope, p).fields
            /\ EntryOf(w, p).token = EntryOf(Scope, p).token
            /\ EntryOf(w, p).sent <=> (EntryOf(Scope, p).sent \/ p \in DOMAIN Changed)
  <2>1. DOMAIN w.entries = DOMAIN Scope.entries \cap Scope.seen
    BY <1>1, <1>3, SweptEffect DEF Scope
  <2>2. DOMAIN w.entries = Scope.seen
    BY <1>6, <1>9, <2>1
  <2> QED BY <1>1, <1>3, <2>2, SweptEffect DEF Scope, Changed
<1>12. \A p \in Scope.seen :
         /\ Was(w, p)
         /\ \A f : (Holds(w, p, f) <=> Holds(Scope, p, f)) /\ Fld(w, p, f) = Fld(Scope, p, f)
         /\ \A g : Tok(w, p, g) = Tok(Scope, p, g)
  <2>1. \A p \in Scope.seen : Was(Scope, p) \/ p \in DOMAIN Changed
    BY <1>6, <1>9
  <2> QED BY <1>11, <2>1 DEF Was, Holds, Fld, Tok
<1>13. DOMAIN m = Scope.seen
  <2>1. DOMAIN m = (IF builder.full THEN {} ELSE DOMAIN viewer \ gone) \cup DOMAIN Changed
    BY <1>1, <1>2, MergedIs DEF Inv
  <2> HIDE DEF Scope, Changed
  <2>2. CASE builder.full
    BY <1>4, <1>6, <1>9, <2>1, <2>2
  <2>3. CASE ~builder.full
    BY <1>4, <1>6, <1>9, <1>10, <2>1, <2>3
  <2> QED BY <2>2, <2>3
<1>14. \A p \in DOMAIN m, f \in Flds : f \in DOMAIN m[p].fields /\ m[p].fields[f] = Fld(Scope, p, f)
  <2>1. PICK c : c = reply' /\ m = Merged(c)
    BY <1>1
  <2>2. c.changed = Changed
    BY <1>2, <2>1
  <2> HIDE DEF Changed, Scope
  <2>3. ASSUME NEW p \in DOMAIN m, NEW f \in Flds
        PROVE  f \in DOMAIN m[p].fields /\ m[p].fields[f] = Fld(Scope, p, f)
    <3>1. p \in Procs /\ Holds(Scope, p, f)
      BY <1>6, <1>7, <1>9, <1>13
    <3>2. /\ Says(Changed, p, f) =>
               f \in DOMAIN m[p].fields /\ m[p].fields[f] = Changed[p][f]
          /\ ~Says(Changed, p, f) /\ p \in DOMAIN viewer =>
               f \in DOMAIN m[p].fields /\ m[p].fields[f] = viewer[p].fields[f]
      BY <2>1, <2>2, MergedIs DEF Inv
    <3> QED BY <1>7, <3>1, <3>2
  <2> QED BY <2>3
<1>15. /\ Live' = Live /\ Known' = Known
       /\ \A p, f, v : Good(p, f, v)' <=> Good(p, f, v)
  BY <1>2 DEF Live, Known, Good, Value
<1> HIDE DEF Scope, Changed, Live, Known
<1>16. Shape'
  BY <1>2, <1>11
<1>17. CacheInv'
  <2>1. \A p : p \notin DOMAIN w.entries => \A g : Tok(w, p, g) = 0
    BY NewEntryType DEF Tok, EntryOf
  <2>2. \A p \in Procs, g \in Groups : proc[p].version[g] \in Nat
    BY ProcParts DEF Inv, Shape
  <2>3. \A p \in Procs, g \in Groups :
          /\ Tok(w, p, g) <= proc[p].version[g] + 1
          /\ Tok(w, p, g) = proc[p].version[g] + 1 => Good(p, g, Fld(w, p, g))
    <3>1. ASSUME NEW p \in Procs, NEW g \in Groups
          PROVE  /\ Tok(w, p, g) <= proc[p].version[g] + 1
                 /\ Tok(w, p, g) = proc[p].version[g] + 1 => Good(p, g, Fld(w, p, g))
      <4>1. CASE p \in Scope.seen
        BY <1>8, <1>12, <4>1
      <4>2. CASE p \notin Scope.seen
        BY <1>11, <2>1, <2>2, <4>2
      <4> QED BY <4>1, <4>2
    <3> QED BY <3>1
  <2>4. DOMAIN w.entries \subseteq Known
    BY <1>6, <1>9, <1>11
  <2>5. \A p \in DOMAIN w.entries : Was(w, p) /\ \A f \in Flds : Holds(w, p, f)
    BY <1>6, <1>7, <1>9, <1>11, <1>12
  <2> QED BY <1>2, <1>15, <2>3, <2>4, <2>5 DEF CacheInv
<1>18. SentInv'
  <2>1. \A p \in DOMAIN m \ pending : \A f \in Flds : Good(p, f, m[p].fields[f])
    BY <1>7, <1>9, <1>13, <1>14
  <2>2. \A p \in DOMAIN m : \A f \in Flds : m[p].fields[f] = Fld(w, p, f)
    BY <1>12, <1>13, <1>14
  <2>3. \A p \in DOMAIN m : Flds \subseteq DOMAIN m[p].fields
    BY <1>14
  <2>4. \A p \in Procs \ pending : p \in Live <=> p \in DOMAIN m
    BY <1>6, <1>13
  <2> QED BY <1>2, <1>9, <1>11, <1>13, <1>15, <2>1, <2>2, <2>3, <2>4 DEF SentInv
<1>19. ListInv'
  <2>1. DOMAIN lists.handles \cup DOMAIN lists.sockets \subseteq DOMAIN Scope.entries
    BY <1>2 DEF Inv, ListInv
  <2>2. \A p \in DOMAIN Scope.entries : p \in gone \/ p \in Scope.seen
    BY <1>3, <1>6, <1>10
  <2> QED BY <1>2, <1>11, <2>1, <2>2 DEF ListInv
<1> QED BY <1>2, <1>16, <1>17, <1>18, <1>19 DEF Inv

LEMMA UpdateStep ==
    ASSUME Inv, Update
    PROVE  Inv'
<1>1. PICK m : m = Merged(reply)
  OBVIOUS
<1>2. /\ builder.at = "sent" /\ viewer' = m /\ touched' = pending /\ builder' = [at |-> "idle"]
      /\ UNCHANGED <<useCache, proc, lists, pending>>
  BY <1>1 DEF Update, collector, Idle
<1>3. \A p : After(p) = m[p].fields
  BY <1>1 DEF After
<1>4. /\ DOMAIN m \subseteq Procs
      /\ \A p \in DOMAIN m : Flds \subseteq DOMAIN m[p].fields
      /\ \A p \in Procs \ pending : p \in Live <=> p \in DOMAIN m
      /\ \A p \in DOMAIN m \ pending : \A f \in Flds : Good(p, f, m[p].fields[f])
      /\ useCache =>
           /\ DOMAIN m = DOMAIN lists.processes.entries
           /\ \A p \in DOMAIN m : \A f \in Flds : m[p].fields[f] = Fld(lists.processes, p, f)
  BY <1>1, <1>2, <1>3 DEF Inv, SentInv
<1>5. builder'.at = "idle"
  BY <1>2
<1>6. ~InRound' /\ ~InRound /\ "idle" \notin Inside
  BY <1>2, <1>5, DeltaConstants DEF InRound, Inside
<1>7. Shape'
  BY <1>2, <1>4, <1>5, <1>6 DEF Inv, Shape
<1>8. CacheInv'
  BY <1>2 DEF Inv, CacheInv, Good, Value, Known
<1>9. RoundInv' /\ FileInv' /\ SentInv'
  BY <1>5, <1>6 DEF RoundInv, FileInv, SentInv
<1>10. IdleInv'
  BY <1>2, <1>4 DEF IdleInv
<1>11. ListInv'
  BY <1>2, <1>6 DEF Inv, ListInv
<1>12. Agrees'
  BY <1>2, <1>4 DEF Agrees, Good, Value, Live
<1> QED BY <1>7, <1>8, <1>9, <1>10, <1>11, <1>12 DEF Inv

-----------------------------------------------------------------------------
(* The theorems *)

LEMMA InitInv == Init => Inv
<1> SUFFICES ASSUME Init PROVE Inv
  OBVIOUS
<1>1. /\ proc = [p \in Procs |-> NewProcess] /\ lists = NoLists /\ builder = [at |-> "idle"]
      /\ viewer = Empty /\ pending = {} /\ touched = {} /\ useCache \in BOOLEAN
  BY DeltaConstants DEF Init, Idle
<1>2. builder.at = "idle" /\ DOMAIN viewer = {}
  BY <1>1 DEF Empty
<1>3. ~InRound /\ "idle" \notin Inside
  BY <1>2, DeltaConstants DEF InRound, Inside
<1>4. NewProcess \in ProcT /\ NewProcess.life = "new"
  <2>1. /\ Absent \in Vals
        /\ [s \in Sockets |-> [life |-> "new", ex |-> FALSE, state |-> Absent]] \in [Sockets -> SocketT]
    BY DEF Vals, SocketT
  <2>2. /\ [g \in Groups |-> Absent] \in [Groups -> Vals] /\ [g \in Groups |-> 0] \in [Groups -> Nat]
        /\ [h \in Handles |-> "new"] \in [Handles -> {"new", "named", "unnamed", "closed"}]
    BY <2>1
  <2> QED BY <2>1, <2>2 DEF NewProcess, ProcT
<1>5. proc \in [Procs -> ProcT] /\ Known = {} /\ Live = {}
  BY <1>1, <1>4 DEF Known, Live
<1>6. Shape
  BY <1>1, <1>2, <1>3, <1>5, NoListsParts DEF Shape
<1>7. CacheInv
  <2>1. PICK s : s = lists.processes
    OBVIOUS
  <2>2. DOMAIN s.entries = {} /\ \A p, g : Tok(s, p, g) = 0
    BY <1>1, <2>1, NoListsParts, NewEntryType DEF Tok, EntryOf
  <2>3. \A p \in Procs, g \in Groups : proc[p].version[g] \in Nat
    BY <1>5, ProcParts
  <2>4. \A p \in Procs, g \in Groups : Tok(s, p, g) <= proc[p].version[g] + 1 /\ Tok(s, p, g) # proc[p].version[g] + 1
    BY <2>2, <2>3
  <2> QED BY <2>1, <2>2, <2>4 DEF CacheInv
<1>8. RoundInv /\ FileInv /\ SentInv
  BY <1>2, <1>3 DEF RoundInv, FileInv, SentInv
<1>9. IdleInv /\ ListInv
  BY <1>1, NoListsParts DEF IdleInv, ListInv
<1>10. Agrees
  BY <1>2, <1>5 DEF Agrees
<1> QED BY <1>6, <1>7, <1>8, <1>9, <1>10 DEF Inv

LEMMA NextInv == Inv /\ [Next]_vars => Inv'
<1> SUFFICES ASSUME Inv, [Next]_vars PROVE Inv'
  OBVIOUS
<1>1. CASE Collect
  BY <1>1, CollectStep
<1>2. CASE GetProcesses \/ Reload
  BY <1>2, GetProcessesStep, ReloadStep
<1>3. ASSUME NEW p \in Procs, WriteFields(p) \/ ToVariant(p) PROVE Inv'
  BY <1>3, WriteFieldsStep, ToVariantStep
<1>4. ASSUME NEW g \in Groups, ReadVersion(g) \/ WriteGroup(g) PROVE Inv'
  BY <1>4, ReadVersionStep, WriteGroupStep
<1>5. CASE ReadHandleVersion \/ EnumHandles \/ EnumSockets
  BY <1>5, ReadHandleVersionStep, EnumHandlesStep, EnumSocketsStep
<1>6. CASE FinishProcesses
  BY <1>6, FinishPlainStep, FinishCachedStep
<1>7. CASE Update \/ LoseConnection
  BY <1>7, UpdateStep, LoseConnectionStep
<1>8. CASE UNCHANGED vars
  <2>1. UNCHANGED <<useCache, proc, lists, builder, reply, viewer, pending, touched>>
    BY <1>8 DEF vars
  <2>2. /\ Scope' = Scope /\ Changed' = Changed /\ Known' = Known /\ Live' = Live
        /\ InRound' <=> InRound
        /\ \A p : Left(p)' = Left(p) /\ \A g : Writing(p, g)' <=> Writing(p, g)
        /\ \A p, f, v : Good(p, f, v)' <=> Good(p, f, v)
        /\ \A p, f : Value(p, f)' = Value(p, f)
    BY <2>1 DEF InRound, Scope, Changed, Left, Writing, Good, Value, Known, Live
  <2>3. Merged(reply)' = Merged(reply) /\ \A p : After(p)' = After(p)
    BY <2>1 DEF Merged, After
  <2>4. Shape' /\ IdleInv' /\ CacheInv' /\ Agrees'
    BY <2>1 DEF Inv, Shape, IdleInv, CacheInv, Agrees, Good, Value, Known, Live, InRound
  <2>5. \A p \in Procs : RoundOf(p) => RoundOf(p)'
    BY <2>1 DEF RoundOf, Scope, Changed, Left, Writing, Good, Value, Known, Live
  <2>6. RoundInv'
    BY <2>1, <2>2, <2>5 DEF Inv, RoundInv
  <2>7. FileInv' /\ ListInv'
    BY <2>1, <2>2 DEF Inv, FileInv, ListInv
  <2>8. SentInv'
    BY <2>1, <2>2, <2>3 DEF Inv, SentInv
  <2> QED BY <2>4, <2>6, <2>7, <2>8 DEF Inv
<1> QED BY <1>1, <1>2, <1>3, <1>4, <1>5, <1>6, <1>7, <1>8 DEF Next

\* The invariant of the whole exchange (Service/Common/ListReplies.cpp:185
\* BuildProcessDelta with CProcessList::Update in the viewer).
THEOREM ProcessDeltaInvariant == Spec => []Inv
BY InitInv, NextInv, PTL DEF Spec

\* VariantCache.h:7 "only what changed gets sent again" is enough: whatever did
\* not change since the last applied round began is in the viewer's list with
\* the fields the agent has, and nothing else is.
THEOREM ProcessesInStep == Spec => []ViewerInStep
<1>1. Inv => ViewerInStep
  <2> SUFFICES ASSUME Inv PROVE ViewerInStep
    OBVIOUS
  <2>1. /\ \A p \in Procs \ touched : p \in Live <=> p \in DOMAIN viewer
        /\ \A p \in DOMAIN viewer \ touched : \A f \in Flds : Good(p, f, viewer[p].fields[f])
        /\ DOMAIN viewer \subseteq Procs
    BY DEF Inv, Agrees, Shape
  <2>2. DOMAIN viewer \ touched \subseteq Live
    BY <2>1
  <2>3. ASSUME NEW p \in Settled
        PROVE  /\ p \in DOMAIN viewer
               /\ \A f \in Flds : \/ viewer[p].fields[f] = Shown(p).fields[f]
                                  \/ useCache /\ f = "sign" /\ viewer[p].fields[f] = Untested
    <3>1. p \in DOMAIN viewer \ touched
      BY <2>1 DEF Settled
    <3>2. \A f \in Flds : Shown(p).fields[f] = Value(p, f)
      BY DEF Shown, Value, Flds
    <3> QED BY <2>1, <3>1, <3>2 DEF Good
  <2> QED BY <2>2, <2>3 DEF ViewerInStep, Flds
<1> QED BY ProcessDeltaInvariant, <1>1, PTL

\* ListReplies.cpp:360 "A process that is gone takes its handles and sockets
\* with it": between two rounds every list inside a process belongs to a process
\* the cache has.
THEOREM ScopesHaveProcesses == Spec => []NoOrphanedScopes
<1>1. Inv => NoOrphanedScopes
  <2> SUFFICES ASSUME Inv, builder.at = "idle"
               PROVE  DOMAIN lists.handles \cup DOMAIN lists.sockets \subseteq DOMAIN lists.processes.entries
    BY DEF NoOrphanedScopes
  <2>1. ~InRound
    BY DeltaConstants DEF InRound, Inside
  <2> QED BY <2>1 DEF Inv, ListInv
<1> QED BY ProcessDeltaInvariant, <1>1, PTL

-----------------------------------------------------------------------------
(* The rounds over the handles and the sockets of a process are folds: each  *)
(* follows a function on the subsets of what there is.                       *)

First(s) == CHOOSE x \in s : TRUE

StepOf(kind, p, x, r) ==
    IF kind = "handles" THEN WriteHandle(x, r) ELSE WriteSocket(x, r, proc[p].socket[x])

Folds(h, kind, p, base, D) ==
    h = [s \in D |-> IF s = {} THEN base ELSE StepOf(kind, p, First(s), h[s \ {First(s)}])]

\* Every nonempty set of naturals has a least element.
LEMMA LeastExists ==
    ASSUME NEW S, S \subseteq Nat, S # {}
    PROVE  \E x \in S : \A y \in S : x <= y
<1>1. PICK x \in S : \A y \in S : ~(<<y, x>> \in OpToRel(<, Nat))
  BY WFMin, NatLessThanWellFounded, Zenon
<1>2. \A y \in S : ~(y < x)
  BY <1>1 DEF OpToRel
<1>3. x \in Nat /\ \A y \in S : y \in Nat
  OBVIOUS
<1> QED BY <1>2, <1>3

\* What is left of a finite set without the element the fold takes first.
LEMMA FirstTaken ==
    ASSUME NEW s, IsFiniteSet(s), s # {}
    PROVE  /\ First(s) \in s /\ IsFiniteSet(s \ {First(s)})
           /\ Cardinality(s) \in Nat /\ Cardinality(s \ {First(s)}) = Cardinality(s) - 1
<1>1. First(s) \in s
  BY DEF First
<1> QED BY <1>1, FS_RemoveElement, FS_CardinalityType

LEMMA FoldExists ==
    ASSUME NEW kind, NEW p, NEW base, NEW N, IsFiniteSet(N)
    PROVE  \E h : Folds(h, kind, p, base, SUBSET N)
<1> DEFINE D(n) == {s \in SUBSET N : Cardinality(s) <= n}
           Has(n) == \E h : Folds(h, kind, p, base, D(n))
<1>1. \A s \in SUBSET N : IsFiniteSet(s) /\ Cardinality(s) \in Nat
  BY FS_Subset, FS_CardinalityType
<1>2. Has(0)
  <2>1. \A s \in D(0) : s = {}
    BY <1>1, FS_EmptySet
  <2> DEFINE h == [s \in D(0) |-> base]
  <2>2. h = [s \in D(0) |-> IF s = {} THEN base ELSE StepOf(kind, p, First(s), h[s \ {First(s)}])]
    BY <2>1
  <2> QED BY <2>2 DEF Folds
<1>3. ASSUME NEW n \in Nat, Has(n)
      PROVE  Has(n + 1)
  <2>1. PICK h : Folds(h, kind, p, base, D(n))
    BY <1>3
  <2> DEFINE g == [s \in D(n + 1) |-> IF s = {} THEN base
                                      ELSE StepOf(kind, p, First(s), h[s \ {First(s)}])]
  <2>2. ASSUME NEW s \in D(n)
        PROVE  s \in D(n + 1) /\ g[s] = h[s]
    <3>1. s \in D(n + 1)
      BY <1>1
    <3>2. h[s] = IF s = {} THEN base ELSE StepOf(kind, p, First(s), h[s \ {First(s)}])
      BY <2>1 DEF Folds
    <3> QED BY <3>1, <3>2
  <2>3. \A s \in D(n + 1) : s # {} => s \ {First(s)} \in D(n)
    BY <1>1, FirstTaken
  <2>4. \A s \in D(n + 1) : s # {} => h[s \ {First(s)}] = g[s \ {First(s)}]
    BY <2>2, <2>3
  <2> HIDE DEF D
  <2>5. g = [s \in D(n + 1) |-> IF s = {} THEN base ELSE StepOf(kind, p, First(s), g[s \ {First(s)}])]
    BY <2>4
  <2> QED BY <2>5 DEF Folds
<1>4. \A n \in Nat : Has(n)
  <2> DEFINE S == {n \in Nat : ~Has(n)}
  <2> HIDE DEF Has
  <2> SUFFICES ASSUME S # {} PROVE FALSE
    OBVIOUS
  <2>1. PICK n \in S : \A m \in S : n <= m
    BY LeastExists
  <2>2. n # 0
    BY <1>2
  <2>3. n - 1 \in Nat /\ n - 1 \notin S
    BY <2>1, <2>2
  <2> QED BY <1>3, <2>1, <2>3
<1>5. D(Cardinality(N)) = SUBSET N /\ Cardinality(N) \in Nat
  BY <1>1, FS_Subset
<1> QED BY <1>4, <1>5

\* The value of the fold, as the operator that FoldSet is applied to.
LEMMA HandleFold ==
    ASSUME NEW p, IsFiniteSet(NamedHandles(p))
    PROVE  \E h : /\ Folds(h, "handles", p, BeginRound(lists.handles[p]), SUBSET NamedHandles(p))
                  /\ HandleRound(p) = h[NamedHandles(p)]
<1> DEFINE P(h) == h = [s \in SUBSET NamedHandles(p) |->
                          IF s = {} THEN BeginRound(lists.handles[p])
                          ELSE WriteHandle(First(s), h[s \ {First(s)}])]
<1>1. HandleRound(p) = (CHOOSE h : P(h))[NamedHandles(p)]
  BY DEF HandleRound, FoldSet, MapThenFoldSet, First
<1>2. \A h : P(h) <=> Folds(h, "handles", p, BeginRound(lists.handles[p]), SUBSET NamedHandles(p))
  BY DEF Folds, StepOf
<1>3. \E h : P(h)
  BY <1>2, FoldExists
<1> HIDE DEF P
<1>4. P(CHOOSE h : P(h))
  BY <1>3
<1> QED BY <1>1, <1>2, <1>4

LEMMA SocketFold ==
    ASSUME NEW p, IsFiniteSet(LiveSockets(p))
    PROVE  \E h : /\ Folds(h, "sockets", p, BeginRound(ScopeOf(lists.sockets, p)), SUBSET LiveSockets(p))
                  /\ SocketRound(p) = h[LiveSockets(p)]
<1> DEFINE P(h) == h = [s \in SUBSET LiveSockets(p) |->
                          IF s = {} THEN BeginRound(ScopeOf(lists.sockets, p))
                          ELSE WriteSocket(First(s), h[s \ {First(s)}], proc[p].socket[First(s)])]
<1>1. SocketRound(p) = (CHOOSE h : P(h))[LiveSockets(p)]
  BY DEF SocketRound, FoldSet, MapThenFoldSet, First
<1>2. \A h : P(h) <=> Folds(h, "sockets", p, BeginRound(ScopeOf(lists.sockets, p)), SUBSET LiveSockets(p))
  BY DEF Folds, StepOf
<1>3. \E h : P(h)
  BY <1>2, FoldExists
<1> HIDE DEF P
<1>4. P(CHOOSE h : P(h))
  BY <1>3
<1> QED BY <1>1, <1>2, <1>4

-----------------------------------------------------------------------------
(* The lists inside a process.  What the viewer was sent of them is what the *)
(* caches hold, and what a cache holds is what there is, while its version   *)
(* is the present one.                                                       *)

HandleScope(p) == ScopeOf(lists.handles, p)
SocketScope(p) == ScopeOf(lists.sockets, p)

\* A scope with entries of the list, all of them sent.
IsSent(s) ==
    /\ s = [seen |-> s.seen, token |-> s.token, entries |-> s.entries]
    /\ s.entries = [x \in DOMAIN s.entries |-> s.entries[x]]
    /\ \A x \in DOMAIN s.entries :
         s.entries[x] = [sent |-> TRUE, token |-> s.entries[x].token, fields |-> s.entries[x].fields]

\* What is sent of a socket, its static half with a version of its own.
SocketFlds  == {"static", "state"}
IsSocket(v) == v = [f \in SocketFlds |-> v[f]] /\ v["static"] \in BOOLEAN
TokenOf(v)  == [f \in {"static"} |-> IF v["static"] THEN 2 ELSE 1]
ShownSocket(p, s) ==
    [f \in SocketFlds |-> IF f = "static" THEN proc[p].socket[s].ex ELSE proc[p].socket[s].state]

SentSockets(p) == [s \in DOMAIN SocketScope(p).entries |-> SocketScope(p).entries[s].fields]

\* What a scope has sent of sockets, and of one of them.
IsSocketScope(b) ==
    IsSent(b) /\ \A x \in DOMAIN b.entries :
                   IsSocket(b.entries[x].fields) /\ b.entries[x].token = TokenOf(b.entries[x].fields)
SentFields(b, x) == IF x \in DOMAIN b.entries THEN b.entries[x].fields ELSE Empty

\* The version of the handles, of the process and of what was sent of it.
HandlesRight(p) ==
    /\ proc[p].handleVersion = 0 => NamedHandles(p) = {}
    /\ IsSent(HandleScope(p)) /\ HandleScope(p).token \in Nat
    /\ HandleScope(p).token <= proc[p].handleVersion
    /\ HandleScope(p).token = proc[p].handleVersion =>
         \/ builder.at = "handles" /\ builder.p = p
         \/ DOMAIN HandleScope(p).entries = NamedHandles(p)

ListCache ==
    /\ lost \in Nat /\ reloads \in Nat
    /\ builder.at = "handles" => builder.p \in DOMAIN lists.handles
    /\ \A p \in Procs : HandlesRight(p) /\ IsSocketScope(SocketScope(p))

\* One connection, or no cache.
Single == ~useCache \/ (lost = 0 /\ reloads = 0)

Row(p)   == IF p \in DOMAIN viewer THEN viewer[p] ELSE NewRow
Added(p) == Part(Changed, p, Empty)

\* The row has the lists that the cache has.
Follows(row, p) == row.handles = DOMAIN HandleScope(p).entries /\ row.sockets = SentSockets(p)
\* It has the lists that there are.
ShowsLists(row, p) ==
    row.handles = NamedHandles(p) /\ row.sockets = [s \in LiveSockets(p) |-> ShownSocket(p, s)]

AreSockets(v) == v = [s \in DOMAIN v |-> v[s]] /\ \A s \in DOMAIN v : IsSocket(v[s])
IsRow(row) == AreSockets(row.sockets)

\* The stages of the process in hand before its handles and its sockets were read.
BeforeHandles(p) == builder.at \in Inside \ {"sockets"} /\ builder.p = p
BeforeSockets(p) == builder.at \in Inside /\ builder.p = p

WasRead(p) == p \in Scope.seen \ (pending \cup builder.todo)

\* While a round is built with the cache, the viewer's row with what the answer
\* already has is what the cache has.
HandlesOf(p) ==
    /\ UpdateHandles(Row(p), Added(p), builder.full) = DOMAIN HandleScope(p).entries
    /\ BeforeHandles(p) => {"handles", "oldHandles"} \cap DOMAIN Added(p) = {}
    /\ WasRead(p) /\ ~BeforeHandles(p) => DOMAIN HandleScope(p).entries = NamedHandles(p)

SocketsOf(p) ==
    /\ UpdateSockets(Row(p), Added(p), builder.full) = SentSockets(p)
    /\ BeforeSockets(p) => {"sockets", "oldSockets"} \cap DOMAIN Added(p) = {}
    /\ WasRead(p) /\ ~BeforeSockets(p) => SentSockets(p) = [s \in LiveSockets(p) |-> ShownSocket(p, s)]

ListRoundInv == Single /\ useCache /\ InRound =>
    /\ builder.full => DOMAIN viewer = {}
    /\ \A p \in Procs : HandlesOf(p) /\ SocketsOf(p) /\ (p \in builder.todo => Added(p) = Empty)

\* Without the cache an answer has the lists of every process.
ListFileInv == ~useCache /\ InRound =>
    \A p \in DOMAIN Changed :
        /\ {"handles", "sockets"} \subseteq DOMAIN Changed[p]
        /\ {"oldHandles", "oldSockets"} \cap DOMAIN Changed[p] = {}
        /\ AreSockets(Changed[p].sockets)
        /\ p \notin pending =>
             /\ Changed[p].handles = NamedHandles(p)
             /\ Changed[p].sockets = [s \in LiveSockets(p) |-> ShownSocket(p, s)]

ListSentInv == Single /\ builder.at = "sent" =>
    \A p \in DOMAIN Merged(reply) :
        /\ IsRow(Merged(reply)[p])
        /\ p \notin pending => ShowsLists(Merged(reply)[p], p)
        /\ useCache => Follows(Merged(reply)[p], p)

ListIdleInv == Single /\ useCache /\ builder.at = "idle" =>
    /\ DOMAIN viewer = DOMAIN lists.processes.entries
    /\ \A p \in DOMAIN viewer : Follows(viewer[p], p)

ListAgrees == Single =>
    \A p \in DOMAIN viewer :
        /\ IsRow(viewer[p])
        /\ p \notin touched => ShowsLists(viewer[p], p)

ListsMirrored == ListCache /\ ListRoundInv /\ ListFileInv /\ ListSentInv /\ ListIdleInv /\ ListAgrees

\* A round by its parts; the entry of id, or a new one.
Round(seen, token, es, c) == [scope |-> [seen |-> seen, token |-> token, entries |-> es], changed |-> c]
EntryAt(es, id) == IF id \in DOMAIN es THEN es[id] ELSE NewEntry
IsFcn(f) == f = [x \in DOMAIN f |-> f[x]]

LEMMA RoundParts ==
    ASSUME NEW seen, NEW token, NEW es, NEW c
    PROVE  LET r == Round(seen, token, es, c)
           IN r.scope.seen = seen /\ r.scope.token = token /\ r.scope.entries = es /\ r.changed = c
BY DEF Round

LEMMA PutIsFcn ==
    ASSUME NEW f, NEW k, NEW v
    PROVE  /\ IsFcn(Put(f, k, v)) /\ DOMAIN Put(f, k, v) = DOMAIN f \cup {k} /\ Put(f, k, v)[k] = v
           /\ \A x \in DOMAIN f : x # k => Put(f, k, v)[x] = f[x]
BY DEF Put, IsFcn

\* What each operator of a round does, whatever the list is of.
LEMMA RoundGetEntry ==
    ASSUME NEW seen, NEW token, NEW es, IsFcn(es), NEW c, NEW id
    PROVE  GetEntry(Round(seen, token, es, c), id) = Round(seen, token, Put(es, id, EntryAt(es, id)), c)
<1> DEFINE r == Round(seen, token, es, c)
<1>1. r.scope.entries = es
  BY DEF Round
<1>2. CASE id \in DOMAIN es
  <2>1. Put(es, id, es[id]) = es
    BY <1>2 DEF Put, IsFcn
  <2> QED BY <1>1, <1>2, <2>1 DEF GetEntry, EntryAt
<1>3. CASE id \notin DOMAIN es
  <2>1. GetEntry(r, id) = [r EXCEPT !.scope.entries = Put(@, id, NewEntry)]
    BY <1>1, <1>3 DEF GetEntry
  <2> QED BY <1>3, <2>1 DEF Round, EntryAt
<1> QED BY <1>2, <1>3

LEMMA RoundKeep ==
    ASSUME NEW seen, NEW token, NEW es, IsFcn(es), NEW c, NEW id
    PROVE  Keep(Round(seen, token, es, c), id) =
             Round(seen \cup {id}, token, Put(es, id, EntryAt(es, id)), c)
<1>1. Keep(Round(seen, token, es, c), id) =
        [Round(seen, token, Put(es, id, EntryAt(es, id)), c) EXCEPT !.scope.seen = @ \cup {id}]
  BY RoundGetEntry DEF Keep
<1> QED BY <1>1 DEF Round

LEMMA RoundSetToken ==
    ASSUME NEW seen, NEW token, NEW es, IsFcn(es), NEW c, NEW id, NEW part, NEW n
    PROVE  SetEntryToken(Round(seen, token, es, c), id, part, n) =
             Round(seen, token, Put(es, id, [EntryAt(es, id) EXCEPT !.token = Put(@, part, n)]), c)
<1> DEFINE e  == EntryAt(es, id)
           d  == [e EXCEPT !.token = Put(@, part, n)]
           fs == Put(es, id, e)
<1>1. SetEntryToken(Round(seen, token, es, c), id, part, n) =
        [Round(seen, token, fs, c) EXCEPT !.scope.entries[id].token = Put(@, part, n)]
  BY RoundGetEntry DEF SetEntryToken
<1>2. fs[id] = e /\ [fs EXCEPT ![id] = d] = Put(es, id, d)
  BY PutTwice
<1> HIDE DEF e, fs
<1>3. [Round(seen, token, fs, c) EXCEPT !.scope.entries[id].token = Put(@, part, n)] =
        Round(seen, token, [fs EXCEPT ![id] = d], c)
  BY <1>2 DEF Round
<1> QED BY <1>1, <1>2, <1>3 DEF e

LEMMA RoundWriteAlways ==
    ASSUME NEW seen, NEW token, NEW es, IsFcn(es), NEW c, NEW id, NEW f, NEW v
    PROVE  WriteAlways(Round(seen, token, es, c), id, f, v) =
             Round(seen \cup {id}, token, Put(es, id, EntryAt(es, id)), Put(c, id, Put(Part(c, id, Empty), f, v)))
<1>1. ChangesOf(Round(seen, token, es, c), id) = Part(c, id, Empty)
  BY DEF ChangesOf, Part, Round
<1>2. WriteAlways(Round(seen, token, es, c), id, f, v) =
        [Round(seen \cup {id}, token, Put(es, id, EntryAt(es, id)), c)
           EXCEPT !.changed = Put(@, id, Put(Part(c, id, Empty), f, v))]
  BY <1>1, RoundKeep DEF WriteAlways
<1> QED BY <1>2 DEF Round

LEMMA RoundWrite ==
    ASSUME NEW seen, NEW token, NEW es, IsFcn(es), NEW c, NEW id, NEW f, NEW v
    PROVE  LET e == EntryAt(es, id)
           IN Write(Round(seen, token, es, c), id, f, v) =
                IF f \in DOMAIN e.fields /\ e.fields[f] = v
                THEN Round(seen \cup {id}, token, Put(es, id, e), c)
                ELSE Round(seen \cup {id}, token, Put(es, id, [e EXCEPT !.fields = Put(@, f, v)]),
                           Put(c, id, Put(Part(c, id, Empty), f, v)))
<1> DEFINE e  == EntryAt(es, id)
           d  == [e EXCEPT !.fields = Put(@, f, v)]
           fs == Put(es, id, e)
           cs == Put(c, id, Put(Part(c, id, Empty), f, v))
           r  == Round(seen, token, es, c)
           k  == Round(seen \cup {id}, token, fs, c)
           q  == Round(seen \cup {id}, token, fs, cs)
<1>1. Keep(r, id) = k /\ WriteAlways(r, id, f, v) = q
  BY RoundKeep, RoundWriteAlways
<1>2. fs[id] = e /\ [fs EXCEPT ![id] = d] = Put(es, id, d)
  BY PutTwice
<1>3. IsUnchanged(k, id, f, v) <=> f \in DOMAIN e.fields /\ e.fields[f] = v
  BY <1>2, RoundParts DEF IsUnchanged
<1>4. Write(r, id, f, v) = IF IsUnchanged(k, id, f, v) THEN k
                           ELSE [q EXCEPT !.scope.entries[id].fields = Put(@, f, v)]
  BY <1>1 DEF Write
<1> HIDE DEF e, fs, cs
<1>5. [q EXCEPT !.scope.entries[id].fields = Put(@, f, v)] =
        Round(seen \cup {id}, token, [fs EXCEPT ![id] = d], cs)
  BY <1>2 DEF Round
<1> QED BY <1>2, <1>3, <1>4, <1>5 DEF e, fs, cs

\* What FinishRound leaves of a scope.
SweptEntries(es, seen, c) == [x \in DOMAIN es \cap seen |-> [es[x] EXCEPT !.sent = @ \/ x \in DOMAIN c]]

LEMMA RoundSwept ==
    ASSUME NEW seen, NEW token, NEW es, NEW c
    PROVE  LET r == Round(seen, token, es, c)
           IN /\ Removed(r) = {x \in DOMAIN es \ seen : es[x].sent}
              /\ Swept(r) = [seen |-> seen, token |-> token, entries |-> SweptEntries(es, seen, c)]
<1> DEFINE r == Round(seen, token, es, c)
<1>1. Unmentioned(r) = DOMAIN es \ seen /\ r.changed = c /\ r.scope.entries = es
  BY RoundParts DEF Unmentioned
<1>2. DOMAIN es \ Unmentioned(r) = DOMAIN es \cap seen
  BY <1>1
<1>3. Swept(r) = [r.scope EXCEPT !.entries = SweptEntries(es, seen, c)]
  BY <1>1, <1>2 DEF Swept, SweptEntries
<1>4. Removed(r) = {x \in DOMAIN es \ seen : es[x].sent}
  BY <1>1 DEF Removed
<1> QED BY <1>3, <1>4 DEF Round

LEMMA BeginRoundIs ==
    ASSUME NEW b, IsSent(b)
    PROVE  BeginRound(b) = Round({}, b.token, b.entries, Empty)
<1>1. [b EXCEPT !.seen = {}] = [seen |-> {}, token |-> b.token, entries |-> b.entries]
  BY DEF IsSent
<1> QED BY <1>1 DEF BeginRound, Round

\* The fold over the handles, for each subset it has done.
HandlesSoFar(r, b, s) ==
    \E es, c :
        /\ r = Round(s, b.token, es, c) /\ IsFcn(es)
        /\ DOMAIN es = DOMAIN b.entries \cup s /\ DOMAIN c = s \ DOMAIN b.entries
        /\ \A x \in DOMAIN b.entries : es[x] = b.entries[x]
        /\ \A x \in s \ DOMAIN b.entries :
             es[x] = [sent |-> FALSE, token |-> es[x].token, fields |-> es[x].fields]

LEMMA HandleStep ==
    ASSUME NEW r, NEW b, IsSent(b), NEW s, HandlesSoFar(r, b, s), NEW x, x \notin s
    PROVE  HandlesSoFar(WriteHandle(x, r), b, s \cup {x})
<1>1. PICK es, c :
        /\ r = Round(s, b.token, es, c) /\ IsFcn(es)
        /\ DOMAIN es = DOMAIN b.entries \cup s /\ DOMAIN c = s \ DOMAIN b.entries
        /\ \A y \in DOMAIN b.entries : es[y] = b.entries[y]
        /\ \A y \in s \ DOMAIN b.entries :
             es[y] = [sent |-> FALSE, token |-> es[y].token, fields |-> es[y].fields]
  BY DEF HandlesSoFar
<1>2. HasBeenSent(r, x) <=> x \in DOMAIN es /\ es[x].sent
  BY <1>1, RoundParts DEF HasBeenSent
<1>3. CASE x \in DOMAIN b.entries
  <2>1. es[x].sent
    BY <1>1, <1>3 DEF IsSent
  <2>2. EntryAt(es, x) = es[x] /\ Put(es, x, es[x]) = es
    BY <1>1, <1>3 DEF EntryAt, Put, IsFcn
  <2>3. Keep(r, x) = Round(s \cup {x}, b.token, es, c)
    BY <1>1, <2>2, RoundKeep
  <2>4. WriteHandle(x, r) = Round(s \cup {x}, b.token, es, c)
    BY <1>1, <1>2, <1>3, <2>1, <2>3 DEF WriteHandle
  <2>5. /\ DOMAIN es = DOMAIN b.entries \cup (s \cup {x})
        /\ DOMAIN c = (s \cup {x}) \ DOMAIN b.entries
        /\ (s \cup {x}) \ DOMAIN b.entries = s \ DOMAIN b.entries
    BY <1>1, <1>3
  <2> QED BY <1>1, <2>4, <2>5 DEF HandlesSoFar
<1>4. CASE x \notin DOMAIN b.entries
  <2> DEFINE d  == [NewEntry EXCEPT !.fields = Put(@, "path", x)]
             fs == Put(es, x, d)
             cs == Put(c, x, Put(Part(c, x, Empty), "path", x))
  <2>1. x \notin DOMAIN es /\ ~HasBeenSent(r, x)
    BY <1>1, <1>2, <1>4
  <2>2. EntryAt(es, x) = NewEntry /\ DOMAIN NewEntry.fields = {}
    BY <2>1 DEF EntryAt, NewEntry, Empty
  <2>3. WriteHandle(x, r) = Round(s \cup {x}, b.token, fs, cs)
    BY <1>1, <2>1, <2>2, RoundWrite DEF WriteHandle
  <2>4. d = [sent |-> FALSE, token |-> d.token, fields |-> d.fields]
    <3> DEFINE f == Put(NewEntry.fields, "path", x)
    <3>1. d = [NewEntry EXCEPT !.fields = f]
      OBVIOUS
    <3> HIDE DEF f, d
    <3>2. d = [sent |-> FALSE, token |-> Empty, fields |-> f]
      BY <3>1 DEF NewEntry
    <3>3. d.sent = FALSE /\ d.token = Empty /\ d.fields = f
      BY <3>2
    <3> QED BY <3>2, <3>3, Zenon
  <2> HIDE DEF d
  <2>5. /\ IsFcn(fs) /\ DOMAIN fs = DOMAIN es \cup {x} /\ fs[x] = d
        /\ \A y \in DOMAIN es : y # x => fs[y] = es[y]
    BY DEF Put, IsFcn
  <2>6. DOMAIN cs = DOMAIN c \cup {x}
    BY PutIsFcn
  <2> HIDE DEF fs, cs
  <2>7. \A y \in DOMAIN b.entries : fs[y] = b.entries[y]
    BY <1>1, <1>4, <2>5
  <2>8. \A y \in (s \cup {x}) \ DOMAIN b.entries :
          fs[y] = [sent |-> FALSE, token |-> fs[y].token, fields |-> fs[y].fields]
    BY <1>1, <2>1, <2>4, <2>5
  <2>9. DOMAIN fs = DOMAIN b.entries \cup (s \cup {x}) /\ DOMAIN cs = (s \cup {x}) \ DOMAIN b.entries
    BY <1>1, <1>4, <2>5, <2>6
  <2> QED BY <2>3, <2>5, <2>7, <2>8, <2>9 DEF HandlesSoFar
<1> QED BY <1>3, <1>4

LEMMA HandlesFolded ==
    ASSUME NEW p, NEW b, IsSent(b), NEW N, IsFiniteSet(N),
           NEW h, Folds(h, "handles", p, BeginRound(b), SUBSET N)
    PROVE  HandlesSoFar(h[N], b, N)
<1> DEFINE S == {n \in Nat : \E s \in SUBSET N : Cardinality(s) = n /\ ~HandlesSoFar(h[s], b, s)}
<1>1. \A s \in SUBSET N : IsFiniteSet(s) /\ Cardinality(s) \in Nat
  BY FS_Subset, FS_CardinalityType
<1>2. HandlesSoFar(BeginRound(b), b, {})
  <2>1. /\ IsFcn(b.entries) /\ DOMAIN Empty = {}
        /\ DOMAIN b.entries = DOMAIN b.entries \cup {}
    BY DEF IsFcn, IsSent, Empty
  <2> QED BY <2>1, BeginRoundIs DEF HandlesSoFar
<1>3. S = {}
  <2> SUFFICES ASSUME S # {} PROVE FALSE
    OBVIOUS
  <2>1. PICK n \in S : \A m \in S : n <= m
    BY LeastExists
  <2>2. PICK s \in SUBSET N : Cardinality(s) = n /\ ~HandlesSoFar(h[s], b, s)
    BY <2>1
  <2>3. h[s] = IF s = {} THEN BeginRound(b) ELSE WriteHandle(First(s), h[s \ {First(s)}])
    BY DEF Folds, StepOf
  <2>4. s # {}
    BY <1>2, <2>2, <2>3
  <2> DEFINE t == s \ {First(s)}
  <2>5. First(s) \in s /\ Cardinality(t) = n - 1 /\ n - 1 \in Nat /\ t \in SUBSET N
    BY <1>1, <2>2, <2>4, FirstTaken, FS_CardinalityType
  <2>6. HandlesSoFar(h[t], b, t)
    BY <2>1, <2>5
  <2>7. HandlesSoFar(WriteHandle(First(s), h[t]), b, t \cup {First(s)})
    BY <2>6, HandleStep
  <2>8. t \cup {First(s)} = s
    BY <2>5
  <2> QED BY <2>2, <2>3, <2>4, <2>7, <2>8
<1> QED BY <1>1, <1>3

\* BuildHandleDelta: what is new, what is gone, and what is remembered.
LEMMA HandleRoundIs ==
    ASSUME NEW p, IsSent(lists.handles[p]), IsFiniteSet(NamedHandles(p))
    PROVE  LET r == HandleRound(p)
               b == lists.handles[p]
           IN /\ DOMAIN r.changed = NamedHandles(p) \ DOMAIN b.entries
              /\ Removed(r) = DOMAIN b.entries \ NamedHandles(p)
              /\ IsSent(Swept(r)) /\ Swept(r).token = b.token
              /\ DOMAIN Swept(r).entries = NamedHandles(p)
<1> DEFINE N == NamedHandles(p)
           r == HandleRound(p)
           b == lists.handles[p]
           w == Swept(r)
<1>1. HandlesSoFar(r, b, N)
  BY HandleFold, HandlesFolded
<1>2. PICK es, c :
        /\ r = Round(N, b.token, es, c) /\ IsFcn(es)
        /\ DOMAIN es = DOMAIN b.entries \cup N /\ DOMAIN c = N \ DOMAIN b.entries
        /\ \A x \in DOMAIN b.entries : es[x] = b.entries[x]
        /\ \A x \in N \ DOMAIN b.entries :
             es[x] = [sent |-> FALSE, token |-> es[x].token, fields |-> es[x].fields]
  BY <1>1 DEF HandlesSoFar
<1> DEFINE ws == SweptEntries(es, N, c)
<1>3. /\ Removed(r) = {x \in DOMAIN es \ N : es[x].sent}
      /\ w = [seen |-> N, token |-> b.token, entries |-> ws]
  <2>1. r = Round(N, b.token, es, c)
    BY <1>2
  <2>2. PICK M, t : M = N /\ t = b.token
    OBVIOUS
  <2>3. LET q == Round(M, t, es, c)
        IN /\ Removed(q) = {x \in DOMAIN es \ M : es[x].sent}
           /\ Swept(q) = [seen |-> M, token |-> t, entries |-> SweptEntries(es, M, c)]
    BY RoundSwept
  <2> HIDE DEF N, r, b
  <2>4. Round(M, t, es, c) = r
    BY <2>1, <2>2
  <2> QED BY <2>2, <2>3, <2>4 DEF w
<1>4. r.changed = c
  BY <1>2, RoundParts
<1> HIDE DEF N, r, b, w
<1>5. \A x \in DOMAIN b.entries :
        es[x].sent /\ es[x] = [sent |-> TRUE, token |-> es[x].token, fields |-> es[x].fields]
  BY <1>2 DEF IsSent, b
<1>6. ASSUME NEW x \in DOMAIN es \cap N
      PROVE  ws[x] = [sent |-> TRUE, token |-> ws[x].token, fields |-> ws[x].fields]
  <2>1. PICK e : e = es[x]
    OBVIOUS
  <2>2. ws[x] = [e EXCEPT !.sent = @ \/ x \in DOMAIN c]
    BY <2>1 DEF SweptEntries
  <2> HIDE DEF ws
  <2>3. e.sent \/ x \in DOMAIN c
    BY <1>2, <1>5, <2>1
  <2>4. \E old, tk, fl : e = [sent |-> old, token |-> tk, fields |-> fl]
    <3>1. CASE x \in DOMAIN b.entries
      <4>1. e = [sent |-> TRUE, token |-> e.token, fields |-> e.fields]
        BY <1>5, <2>1, <3>1
      <4> QED BY <4>1, Zenon
    <3>2. CASE x \notin DOMAIN b.entries
      <4>1. e = [sent |-> FALSE, token |-> e.token, fields |-> e.fields]
        BY <1>2, <2>1, <3>2
      <4> QED BY <4>1, Zenon
    <3> QED BY <3>1, <3>2
  <2>5. PICK old, tk, fl : e = [sent |-> old, token |-> tk, fields |-> fl]
    BY <2>4
  <2>6. ws[x] = [sent |-> TRUE, token |-> tk, fields |-> fl]
    BY <2>2, <2>3, <2>5
  <2> QED BY <2>6
<1>7. DOMAIN ws = N /\ ws = [x \in DOMAIN ws |-> ws[x]]
  BY <1>2 DEF SweptEntries
<1> HIDE DEF ws
<1>8. IsSent(w) /\ w.token = b.token /\ DOMAIN w.entries = N
  BY <1>2, <1>3, <1>6, <1>7 DEF IsSent
<1>9. Removed(r) = DOMAIN b.entries \ N
  <2>1. \A x \in DOMAIN b.entries : es[x].sent
    BY <1>5
  <2>2. DOMAIN es \ N = DOMAIN b.entries \ N
    BY <1>2
  <2> QED BY <1>3, <2>1, <2>2
<1> QED BY <1>2, <1>4, <1>8, <1>9 DEF N, r, b, w

\* An entry of a socket, and what the round makes of it.
SocketEntry(sent, v) == [sent |-> sent, token |-> TokenOf(v), fields |-> v]
IsSocketEntry(e)     == \E sent, v : e = SocketEntry(sent, v) /\ IsSocket(v)
SocketValue(so)      == [f \in SocketFlds |-> IF f = "static" THEN so.ex ELSE so.state]

LEMMA PutAgain ==
    ASSUME NEW f, NEW k, NEW v, NEW w
    PROVE  Put(Put(f, k, v), k, w) = Put(f, k, w)
BY DEF Put

LEMMA PutAt ==
    ASSUME NEW f, NEW k, NEW v
    PROVE  Put(f, k, v)[k] = v /\ EntryAt(Put(f, k, v), k) = v /\ Part(Put(f, k, v), k, Empty) = v
BY DEF Put, EntryAt, Part

LEMMA PutStatic ==
    ASSUME NEW ex, NEW v, NEW w
    PROVE  /\ Put(Empty, "static", ex) = [f \in {"static"} |-> ex]
           /\ Put([f \in {"static"} |-> w], "static", ex) = [f \in {"static"} |-> ex]
BY DEF Put, Empty

LEMMA SocketFields ==
    ASSUME NEW so, NEW v, v = SocketValue(so), so.ex \in BOOLEAN
    PROVE  /\ IsSocket(v) /\ v["static"] = so.ex /\ v["state"] = so.state
           /\ TokenOf(v) = [f \in {"static"} |-> IF so.ex THEN 2 ELSE 1]
           /\ TokenOf(v)["static"] = IF so.ex THEN 2 ELSE 1
<1>1. v["static"] = so.ex /\ v["state"] = so.state /\ v = [f \in SocketFlds |-> v[f]]
  BY DEF SocketValue, SocketFlds
<1> QED BY <1>1 DEF IsSocket, TokenOf

\* A field of a socket over what it was.
LEMMA MergeSocket ==
    ASSUME NEW so, NEW v, v = SocketValue(so)
    PROVE  /\ \A u : IsSocket(u) /\ u["static"] = so.ex =>
                /\ Put(u, "state", so.state) = v
                /\ MergeFields(u, Put(Empty, "state", so.state)) = v
                /\ u["state"] = so.state => u = v
           /\ \A u : IsSocket(u) => Put(Put(u, "static", so.ex), "state", so.state) = v
           /\ Put(Put(Empty, "static", so.ex), "state", so.state) = v
           /\ \A u : IsSocket(u) /\ u["state"] = so.state =>
                /\ Put(u, "static", so.ex) = v
                /\ MergeFields(u, Put(Empty, "static", so.ex)) = v
           /\ \A u : IsSocket(u) =>
                MergeFields(u, Put(Put(Empty, "static", so.ex), "state", so.state)) = v
           /\ MergeFields(Empty, v) = v
           /\ MergeFields(v, Empty) = v
<1>1. v = [f \in {"static", "state"} |-> IF f = "static" THEN so.ex ELSE so.state]
  BY DEF SocketValue, SocketFlds
<1>2. \A u : IsSocket(u) => u = [f \in {"static", "state"} |-> u[f]]
  BY DEF IsSocket, SocketFlds
<1>3. \A u : IsSocket(u) /\ u["static"] = so.ex =>
                /\ Put(u, "state", so.state) = v
                /\ u["state"] = so.state => u = v
  BY <1>1, <1>2 DEF Put
<1>4. \A u : IsSocket(u) /\ u["static"] = so.ex => MergeFields(u, Put(Empty, "state", so.state)) = v
  BY <1>1, <1>2 DEF Put, Empty, MergeFields
<1>5. \A u : IsSocket(u) => Put(Put(u, "static", so.ex), "state", so.state) = v
  BY <1>1, <1>2 DEF Put
<1>6. Put(Put(Empty, "static", so.ex), "state", so.state) = v
  BY <1>1 DEF Put, Empty
<1>7. \A u : IsSocket(u) /\ u["state"] = so.state => Put(u, "static", so.ex) = v
  BY <1>1, <1>2 DEF Put
<1>8. \A u : IsSocket(u) /\ u["state"] = so.state => MergeFields(u, Put(Empty, "static", so.ex)) = v
  BY <1>1, <1>2 DEF Put, Empty, MergeFields
<1>9. \A u : IsSocket(u) => MergeFields(u, v) = v
  BY <1>1, <1>2 DEF MergeFields
<1>10. MergeFields(Empty, v) = v
  BY <1>1 DEF MergeFields, Empty
<1>11. MergeFields(v, Empty) = v
  BY <1>1 DEF MergeFields, Empty
<1> QED BY <1>3, <1>4, <1>5, <1>6, <1>7, <1>8, <1>9, <1>10, <1>11

\* q is the round with the socket x, of value v, over its entry e.
SocketWritten(q, seen, token, es, c, x, e, v) ==
    \E cs : /\ q = Round(seen \cup {x}, token, Put(es, x, SocketEntry(e.sent, v)), cs)
            /\ DOMAIN cs \subseteq DOMAIN c \cup {x}
            /\ x \notin DOMAIN es => x \in DOMAIN cs
            /\ \A y \in DOMAIN c : y \in DOMAIN cs /\ cs[y] = c[y]
            /\ MergeFields(e.fields, Part(cs, x, Empty)) = v

\* WriteSocket writes the halves of the socket that are not in the entry.
LEMMA SocketStep ==
    ASSUME NEW seen, NEW token, NEW es, IsFcn(es), NEW c, NEW x, x \notin DOMAIN c,
           x \in DOMAIN es => IsSocketEntry(es[x]),
           NEW so, so.ex \in BOOLEAN, NEW v, v = SocketValue(so), NEW e, e = EntryAt(es, x)
    PROVE  SocketWritten(WriteSocket(x, Round(seen, token, es, c), so), seen, token, es, c, x, e, v)
<1> DEFINE r == Round(seen, token, es, c)
           n == IF so.ex THEN 2 ELSE 1
           Outcome(cs) == /\ DOMAIN cs \subseteq DOMAIN c \cup {x}
                          /\ x \notin DOMAIN es => x \in DOMAIN cs
                          /\ \A y \in DOMAIN c : y \in DOMAIN cs /\ cs[y] = c[y]
                          /\ MergeFields(e.fields, Part(cs, x, Empty)) = v
           done == SocketEntry(e.sent, v)
<1> SUFFICES \E cs : /\ WriteSocket(x, r, so) = Round(seen \cup {x}, token, Put(es, x, done), cs)
                     /\ Outcome(cs)
  BY DEF SocketWritten
<1>1. /\ IsSocket(v) /\ v["static"] = so.ex /\ v["state"] = so.state
      /\ TokenOf(v) = [f \in {"static"} |-> n] /\ TokenOf(v)["static"] = n
  BY SocketFields
<1>2. /\ e = [sent |-> e.sent, token |-> e.token, fields |-> e.fields]
      /\ \/ x \notin DOMAIN es /\ e.token = Empty /\ e.fields = Empty
         \/ x \in DOMAIN es /\ IsSocket(e.fields) /\ e.token = TokenOf(e.fields)
  <2>1. CASE x \in DOMAIN es
    <3>1. PICK sent, u : e = SocketEntry(sent, u) /\ IsSocket(u)
      BY <2>1 DEF EntryAt, IsSocketEntry
    <3>2. e = [sent |-> sent, token |-> TokenOf(u), fields |-> u]
      BY <3>1 DEF SocketEntry
    <3>3. e.sent = sent /\ e.token = TokenOf(u) /\ e.fields = u
      BY <3>2
    <3> QED BY <2>1, <3>1, <3>2, <3>3
  <2>2. CASE x \notin DOMAIN es
    BY <2>2 DEF EntryAt, NewEntry
  <2> QED BY <2>1, <2>2
<1>3. EntryToken(r, x) = e.token
  <2>1. GetEntry(r, x) = Round(seen, token, Put(es, x, e), c)
    BY RoundGetEntry
  <2>2. GetEntry(r, x).scope.entries = Put(es, x, e)
    BY <2>1, RoundParts
  <2>3. Put(es, x, e)[x] = e
    BY PutAgain, PutAt
  <2> QED BY <2>2, <2>3 DEF EntryToken
<1>4. DOMAIN Empty = {} /\ Part(c, x, Empty) = Empty
  BY DEF Empty, Part
<1>5. WriteSocket(x, r, so) =
        Write(IF "static" \in DOMAIN e.token /\ e.token["static"] = n THEN r
              ELSE Write(SetEntryToken(r, x, "static", n), x, "static", so.ex), x, "state", so.state)
  BY <1>3 DEF WriteSocket
<1>6. \A f, w : Write(r, x, f, w) =
                  IF f \in DOMAIN e.fields /\ e.fields[f] = w
                  THEN Round(seen \cup {x}, token, Put(es, x, e), c)
                  ELSE Round(seen \cup {x}, token, Put(es, x, [e EXCEPT !.fields = Put(@, f, w)]),
                             Put(c, x, Put(Empty, f, w)))
  BY <1>4, RoundWrite
<1>7. CASE "static" \in DOMAIN e.token /\ e.token["static"] = n
  <2>1. x \in DOMAIN es /\ IsSocket(e.fields) /\ e.token = TokenOf(e.fields) /\ e.fields["static"] = so.ex
    BY <1>2, <1>4, <1>7 DEF TokenOf, IsSocket
  <2>2. WriteSocket(x, r, so) = Write(r, x, "state", so.state)
    BY <1>5, <1>7
  <2>3. e.token = TokenOf(v)
    BY <1>1, <2>1 DEF TokenOf
  <2>4. DOMAIN e.fields = SocketFlds /\ "state" \in SocketFlds
    BY <2>1 DEF IsSocket, SocketFlds
  <2>5. CASE e.fields["state"] = so.state
    <3>1. e.fields = v /\ done = e
      BY <1>2, <2>1, <2>3, <2>5, MergeSocket DEF SocketEntry
    <3>2. WriteSocket(x, r, so) = Round(seen \cup {x}, token, Put(es, x, e), c)
      BY <1>6, <2>2, <2>4, <2>5
    <3>3. Outcome(c)
      BY <1>4, <2>1, <3>1, MergeSocket
    <3> QED BY <3>1, <3>2, <3>3
  <2>6. CASE e.fields["state"] # so.state
    <3> DEFINE cs == Put(c, x, Put(Empty, "state", so.state))
               d  == [e EXCEPT !.fields = Put(@, "state", so.state)]
    <3>1. Put(e.fields, "state", so.state) = v
      BY <2>1, MergeSocket
    <3>2. d = done
      BY <1>2, <2>3, <3>1 DEF SocketEntry
    <3>3. Write(r, x, "state", so.state) = Round(seen \cup {x}, token, Put(es, x, d), cs)
      BY <1>6, <2>6
    <3>4. Outcome(cs)
      <4>1. MergeFields(e.fields, Put(Empty, "state", so.state)) = v
        BY <2>1, MergeSocket
      <4>2. DOMAIN cs = DOMAIN c \cup {x} /\ Part(cs, x, Empty) = Put(Empty, "state", so.state)
        <5>1. DOMAIN cs = DOMAIN c \cup {x}
          BY DEF Put
        <5> QED BY <5>1, PutAt
      <4>3. \A y \in DOMAIN c : cs[y] = c[y]
        BY DEF Put
      <4> QED BY <4>1, <4>2, <4>3
    <3> HIDE DEF cs, d, done, Outcome, r
    <3> QED BY <2>2, <3>2, <3>3, <3>4
  <2> QED BY <2>5, <2>6
<1>8. CASE ~("static" \in DOMAIN e.token /\ e.token["static"] = n)
  <2> DEFINE e1 == [e EXCEPT !.token = Put(@, "static", n)]
             e2 == [e1 EXCEPT !.fields = Put(@, "static", so.ex)]
             d1 == Put(Empty, "static", so.ex)
             f1 == Put(es, x, e1)
             f2 == Put(es, x, e2)
             c1 == Put(c, x, d1)
             s  == seen \cup {x}
  <2>1. e1 = [sent |-> e.sent, token |-> TokenOf(v), fields |-> e.fields]
    <3>1. Put(e.token, "static", n) = [f \in {"static"} |-> n]
      <4>1. CASE x \in DOMAIN es
        <5>1. PICK w : e.token = [f \in {"static"} |-> w]
          BY <1>2, <4>1 DEF TokenOf
        <5>2. Put([f \in {"static"} |-> w], "static", n) = [f \in {"static"} |-> n]
          BY DEF Put
        <5> HIDE DEF n
        <5> QED BY <5>1, <5>2
      <4>2. CASE x \notin DOMAIN es
        <5>1. e.token = Empty
          BY <1>2, <4>2
        <5> HIDE DEF n
        <5> QED BY <5>1, PutStatic
      <4> QED BY <4>1, <4>2
    <3> HIDE DEF n
    <3>2. e1 = [sent |-> e.sent, token |-> Put(e.token, "static", n), fields |-> e.fields]
      BY <1>2
    <3> QED BY <1>1, <3>1, <3>2
  <2> HIDE DEF e1
  <2>2. e2 = [sent |-> e.sent, token |-> TokenOf(v), fields |-> Put(e.fields, "static", so.ex)]
    BY <2>1
  <2>3. ~("static" \in DOMAIN e.fields /\ e.fields["static"] = so.ex)
    <3>1. CASE x \in DOMAIN es
      BY <1>2, <1>8, <3>1 DEF TokenOf
    <3>2. CASE x \notin DOMAIN es
      BY <1>2, <1>4, <3>2
    <3> QED BY <3>1, <3>2
  <2>4. SetEntryToken(r, x, "static", n) = Round(seen, token, f1, c)
    BY RoundSetToken DEF e1
  <2>5. /\ IsFcn(f1) /\ EntryAt(f1, x) = e1 /\ Put(f1, x, e2) = f2
        /\ IsFcn(f2) /\ EntryAt(f2, x) = e2 /\ Put(f2, x, e2) = f2
        /\ Part(c1, x, Empty) = d1 /\ DOMAIN c1 = DOMAIN c \cup {x}
        /\ \A w : Put(f2, x, w) = Put(es, x, w) /\ Put(c1, x, w) = Put(c, x, w)
    <3> HIDE DEF e1, e2, d1
    <3>1. IsFcn(f1) /\ IsFcn(f2)
      BY DEF Put, IsFcn
    <3>2. EntryAt(f1, x) = e1 /\ Put(f1, x, e2) = f2
      BY PutAgain, PutAt
    <3>3. EntryAt(f2, x) = e2 /\ Put(f2, x, e2) = f2
      BY PutAgain, PutAt
    <3>4. Part(c1, x, Empty) = d1 /\ DOMAIN c1 = DOMAIN c \cup {x}
      <4>1. DOMAIN c1 = DOMAIN c \cup {x}
        BY DEF Put
      <4> QED BY <4>1, PutAt
    <3>5. \A w : Put(f2, x, w) = Put(es, x, w) /\ Put(c1, x, w) = Put(c, x, w)
      BY PutAgain, PutAt
    <3> QED BY <3>1, <3>2, <3>3, <3>4, <3>5
  <2> HIDE DEF e1, f1, f2, c1, d1
  <2>6. Write(Round(seen, token, f1, c), x, "static", so.ex) = Round(s, token, f2, c1)
    <3>1. e1.fields = e.fields
      BY <2>1
    <3>2. Write(Round(seen, token, f1, c), x, "static", so.ex) =
            Round(s, token, Put(f1, x, [e1 EXCEPT !.fields = Put(@, "static", so.ex)]),
                  Put(c, x, Put(Part(c, x, Empty), "static", so.ex)))
      BY <2>3, <2>5, <3>1, RoundWrite
    <3> QED BY <1>4, <2>5, <3>2 DEF e2, c1, d1
  <2> HIDE DEF s
  <2>7. WriteSocket(x, r, so) = Write(Round(s, token, f2, c1), x, "state", so.state)
    BY <1>5, <1>8, <2>4, <2>6
  <2> HIDE DEF e2
  <2>12. \A w : Write(Round(s, token, f2, c1), x, "state", w) =
                  IF "state" \in DOMAIN e2.fields /\ e2.fields["state"] = w
                  THEN Round(s \cup {x}, token, Put(f2, x, e2), c1)
                  ELSE Round(s \cup {x}, token, Put(f2, x, [e2 EXCEPT !.fields = Put(@, "state", w)]),
                             Put(c1, x, Put(Part(c1, x, Empty), "state", w)))
    BY <2>5, RoundWrite
  <2>8. s \cup {x} = s
    BY DEF s
  <2>9. e2.fields = Put(e.fields, "static", so.ex)
    BY <2>2
  <2>10. CASE "state" \in DOMAIN e2.fields /\ e2.fields["state"] = so.state
    <3>1. IsSocket(e.fields) /\ e.fields["state"] = so.state /\ x \in DOMAIN es
      BY <1>2, <1>4, <2>9, <2>10 DEF Put
    <3>2. e2.fields = v /\ MergeFields(e.fields, d1) = v
      BY <2>9, <3>1, MergeSocket DEF d1
    <3>3. e2 = done
      BY <2>2, <2>9, <3>2 DEF SocketEntry
    <3>4. WriteSocket(x, r, so) = Round(s, token, Put(es, x, done), c1)
      BY <2>5, <2>7, <2>8, <2>10, <2>12, <3>3
    <3>5. \A y \in DOMAIN c : c1[y] = c[y]
      BY DEF c1, Put
    <3>6. Outcome(c1)
      BY <2>5, <3>2, <3>5
    <3> HIDE DEF done, Outcome, r
    <3> QED BY <3>4, <3>6 DEF s
  <2>11. CASE ~("state" \in DOMAIN e2.fields /\ e2.fields["state"] = so.state)
    <3> DEFINE d2 == Put(d1, "state", so.state)
               c2 == Put(c, x, d2)
               e3 == [e2 EXCEPT !.fields = Put(@, "state", so.state)]
    <3>1. Put(e2.fields, "state", so.state) = v /\ MergeFields(e.fields, d2) = v
      <4>1. CASE x \in DOMAIN es
        BY <1>2, <2>9, <4>1, MergeSocket DEF d1
      <4>2. CASE x \notin DOMAIN es
        BY <1>2, <2>9, <4>2, MergeSocket DEF d1
      <4> QED BY <4>1, <4>2
    <3>2. e3 = done
      BY <2>2, <3>1 DEF SocketEntry
    <3> HIDE DEF d2
    <3>3. Write(Round(s, token, f2, c1), x, "state", so.state) = Round(s, token, Put(es, x, e3), c2)
      BY <2>5, <2>8, <2>11, <2>12 DEF d2
    <3>4. WriteSocket(x, r, so) = Round(s, token, Put(es, x, done), c2)
      BY <2>7, <3>2, <3>3
    <3>5. /\ DOMAIN c2 = DOMAIN c \cup {x} /\ Part(c2, x, Empty) = d2
          /\ \A y \in DOMAIN c : c2[y] = c[y]
      <4>1. DOMAIN c2 = DOMAIN c \cup {x} /\ Part(c2, x, Empty) = d2
        <5>1. DOMAIN c2 = DOMAIN c \cup {x}
          BY DEF Put
        <5> QED BY <5>1, PutAt
      <4>2. \A y \in DOMAIN c : c2[y] = c[y]
        BY DEF Put
      <4> QED BY <4>1, <4>2
    <3>6. Outcome(c2)
      BY <3>1, <3>5
    <3> HIDE DEF done, Outcome, r, c2
    <3> QED BY <3>4, <3>6 DEF s
  <2> QED BY <2>10, <2>11
<1> QED BY <1>7, <1>8

\* The fold over the sockets, for each subset it has done.
SocketsSoFar(r, b, p, s) ==
    \E es, c :
        /\ r = Round(s, b.token, es, c) /\ IsFcn(es)
        /\ DOMAIN es = DOMAIN b.entries \cup s
        /\ DOMAIN c \subseteq s /\ s \ DOMAIN b.entries \subseteq DOMAIN c
        /\ \A x \in DOMAIN b.entries \ s : es[x] = b.entries[x]
        /\ \A x \in s : /\ es[x] = SocketEntry(x \in DOMAIN b.entries, ShownSocket(p, x))
                        /\ MergeFields(SentFields(b, x), Part(c, x, Empty)) = ShownSocket(p, x)

LEMMA ScopeEntry ==
    ASSUME NEW b, IsSocketScope(b), NEW x \in DOMAIN b.entries
    PROVE  IsSocketEntry(b.entries[x]) /\ b.entries[x].sent = TRUE
<1>1. PICK e : e = b.entries[x]
  OBVIOUS
<1>2. e = [sent |-> TRUE, token |-> e.token, fields |-> e.fields] /\ IsSocket(e.fields)
      /\ e.token = TokenOf(e.fields)
  BY <1>1 DEF IsSocketScope, IsSent
<1>3. PICK v : v = e.fields
  OBVIOUS
<1>4. e = SocketEntry(TRUE, v) /\ IsSocket(v)
  <2>1. e = [sent |-> TRUE, token |-> TokenOf(v), fields |-> v]
    BY <1>2, <1>3
  <2> QED BY <1>2, <1>3, <2>1 DEF SocketEntry
<1>5. e.sent = TRUE
  BY <1>4 DEF SocketEntry
<1>6. IsSocketEntry(e)
  BY <1>4 DEF IsSocketEntry
<1> QED BY <1>1, <1>5, <1>6

LEMMA SocketsStep ==
    ASSUME NEW p, NEW r, NEW b, IsSocketScope(b), NEW s, SocketsSoFar(r, b, p, s), NEW x, x \notin s,
           proc[p].socket[x].ex \in BOOLEAN
    PROVE  SocketsSoFar(WriteSocket(x, r, proc[p].socket[x]), b, p, s \cup {x})
<1>1. PICK es, c :
        /\ r = Round(s, b.token, es, c) /\ IsFcn(es)
        /\ DOMAIN es = DOMAIN b.entries \cup s
        /\ DOMAIN c \subseteq s /\ s \ DOMAIN b.entries \subseteq DOMAIN c
        /\ \A y \in DOMAIN b.entries \ s : es[y] = b.entries[y]
        /\ \A y \in s : /\ es[y] = SocketEntry(y \in DOMAIN b.entries, ShownSocket(p, y))
                        /\ MergeFields(SentFields(b, y), Part(c, y, Empty)) = ShownSocket(p, y)
  BY DEF SocketsSoFar
<1>2. PICK so, v, e : so = proc[p].socket[x] /\ v = ShownSocket(p, x) /\ e = EntryAt(es, x)
  OBVIOUS
<1>3. v = SocketValue(so)
  BY <1>2 DEF ShownSocket, SocketValue
<1>4. /\ x \in DOMAIN es <=> x \in DOMAIN b.entries
      /\ x \in DOMAIN es => es[x] = b.entries[x] /\ IsSocketEntry(es[x])
      /\ e.sent = (x \in DOMAIN b.entries) /\ e.fields = SentFields(b, x)
  <2>1. (x \in DOMAIN es <=> x \in DOMAIN b.entries) /\ (x \in DOMAIN es => es[x] = b.entries[x])
    BY <1>1
  <2>2. CASE x \in DOMAIN b.entries
    <3>1. e = b.entries[x]
      BY <1>2, <2>1, <2>2 DEF EntryAt
    <3> QED BY <2>1, <2>2, <3>1, ScopeEntry DEF SentFields
  <2>3. CASE x \notin DOMAIN b.entries
    <3>1. e = NewEntry
      BY <1>2, <2>1, <2>3 DEF EntryAt
    <3>2. e.sent = FALSE /\ e.fields = Empty
      BY <3>1 DEF NewEntry
    <3>3. (x \in DOMAIN b.entries) = FALSE /\ SentFields(b, x) = Empty
      BY <2>3 DEF SentFields
    <3>4. x \notin DOMAIN es
      BY <2>1, <2>3
    <3> QED BY <2>3, <3>2, <3>3, <3>4, Zenon
  <2> QED BY <2>2, <2>3
<1>5. PICK cs :
        /\ WriteSocket(x, Round(s, b.token, es, c), so) =
             Round(s \cup {x}, b.token, Put(es, x, SocketEntry(e.sent, v)), cs)
        /\ DOMAIN cs \subseteq DOMAIN c \cup {x}
        /\ x \notin DOMAIN es => x \in DOMAIN cs
        /\ \A y \in DOMAIN c : y \in DOMAIN cs /\ cs[y] = c[y]
        /\ MergeFields(e.fields, Part(cs, x, Empty)) = v
  <2>1. IsFcn(es) /\ x \notin DOMAIN c
    BY <1>1
  <2>2. so.ex \in BOOLEAN /\ e = EntryAt(es, x) /\ (x \in DOMAIN es => IsSocketEntry(es[x]))
    BY <1>2, <1>4
  <2>3. \E cs :
        /\ WriteSocket(x, Round(s, b.token, es, c), so) =
             Round(s \cup {x}, b.token, Put(es, x, SocketEntry(e.sent, v)), cs)
        /\ DOMAIN cs \subseteq DOMAIN c \cup {x}
        /\ x \notin DOMAIN es => x \in DOMAIN cs
        /\ \A y \in DOMAIN c : y \in DOMAIN cs /\ cs[y] = c[y]
        /\ MergeFields(e.fields, Part(cs, x, Empty)) = v
    <3>1. SocketWritten(WriteSocket(x, Round(s, b.token, es, c), so), s, b.token, es, c, x, e, v)
      BY <1>3, <2>1, <2>2, SocketStep
    <3> QED BY <3>1 DEF SocketWritten
  <2> QED BY <2>3
<1> DEFINE d  == SocketEntry(x \in DOMAIN b.entries, v)
           fs == Put(es, x, d)
<1>6. WriteSocket(x, r, proc[p].socket[x]) = Round(s \cup {x}, b.token, fs, cs)
  BY <1>1, <1>2, <1>4, <1>5
<1> HIDE DEF d
<1>7. /\ IsFcn(fs) /\ DOMAIN fs = DOMAIN es \cup {x} /\ fs[x] = d
      /\ \A y \in DOMAIN es : y # x => fs[y] = es[y]
  BY DEF Put, IsFcn
<1> HIDE DEF fs
<1>8. DOMAIN fs = DOMAIN b.entries \cup (s \cup {x})
  BY <1>1, <1>7
<1>9. DOMAIN cs \subseteq s \cup {x} /\ (s \cup {x}) \ DOMAIN b.entries \subseteq DOMAIN cs
  BY <1>1, <1>4, <1>5
<1>10. \A y \in DOMAIN b.entries \ (s \cup {x}) : fs[y] = b.entries[y]
  BY <1>1, <1>7
<1>11. ASSUME NEW y \in s \cup {x}
       PROVE  /\ fs[y] = SocketEntry(y \in DOMAIN b.entries, ShownSocket(p, y))
              /\ MergeFields(SentFields(b, y), Part(cs, y, Empty)) = ShownSocket(p, y)
  <2>1. CASE y = x
    BY <1>2, <1>4, <1>5, <1>7, <2>1 DEF d
  <2>2. CASE y # x
    <3>1. y \in s /\ y \in DOMAIN es
      BY <1>1, <2>2
    <3>2. Part(cs, y, Empty) = Part(c, y, Empty)
      BY <1>5, <2>2 DEF Part
    <3> QED BY <1>1, <1>7, <2>2, <3>1, <3>2
  <2> QED BY <2>1, <2>2
<1> QED BY <1>6, <1>7, <1>8, <1>9, <1>10, <1>11 DEF SocketsSoFar

LEMMA SocketsFolded ==
    ASSUME NEW p, NEW b, IsSocketScope(b), NEW N, IsFiniteSet(N),
           \A x \in N : proc[p].socket[x].ex \in BOOLEAN,
           NEW h, Folds(h, "sockets", p, BeginRound(b), SUBSET N)
    PROVE  SocketsSoFar(h[N], b, p, N)
<1> DEFINE S == {n \in Nat : \E s \in SUBSET N : Cardinality(s) = n /\ ~SocketsSoFar(h[s], b, p, s)}
<1>1. \A s \in SUBSET N : IsFiniteSet(s) /\ Cardinality(s) \in Nat
  BY FS_Subset, FS_CardinalityType
<1>2. SocketsSoFar(BeginRound(b), b, p, {})
  <2>1. /\ IsFcn(b.entries) /\ DOMAIN Empty = {}
        /\ DOMAIN b.entries = DOMAIN b.entries \cup {} /\ DOMAIN b.entries \ {} = DOMAIN b.entries
    BY DEF IsFcn, IsSocketScope, IsSent, Empty
  <2>2. BeginRound(b) = Round({}, b.token, b.entries, Empty)
    BY BeginRoundIs DEF IsSocketScope
  <2> QED BY <2>1, <2>2 DEF SocketsSoFar
<1>3. S = {}
  <2> SUFFICES ASSUME S # {} PROVE FALSE
    OBVIOUS
  <2>1. PICK n \in S : \A m \in S : n <= m
    BY LeastExists
  <2>2. PICK s \in SUBSET N : Cardinality(s) = n /\ ~SocketsSoFar(h[s], b, p, s)
    BY <2>1
  <2>3. h[s] = IF s = {} THEN BeginRound(b)
               ELSE WriteSocket(First(s), h[s \ {First(s)}], proc[p].socket[First(s)])
    BY DEF Folds, StepOf
  <2>4. s # {}
    BY <1>2, <2>2, <2>3
  <2> DEFINE t == s \ {First(s)}
  <2>5. First(s) \in s /\ Cardinality(t) = n - 1 /\ n - 1 \in Nat /\ t \in SUBSET N
    BY <1>1, <2>2, <2>4, FirstTaken, FS_CardinalityType
  <2>6. SocketsSoFar(h[t], b, p, t)
    BY <2>1, <2>5
  <2>7. SocketsSoFar(WriteSocket(First(s), h[t], proc[p].socket[First(s)]), b, p, t \cup {First(s)})
    BY <2>2, <2>5, <2>6, SocketsStep
  <2>8. t \cup {First(s)} = s
    BY <2>5
  <2> QED BY <2>2, <2>3, <2>4, <2>7, <2>8
<1> QED BY <1>1, <1>3

\* BuildSocketDelta: what is sent, over what was, is what there is.
LEMMA SocketRoundIs ==
    ASSUME NEW p, NEW b, b = ScopeOf(lists.sockets, p), IsSocketScope(b), IsFiniteSet(LiveSockets(p)),
           \A x \in LiveSockets(p) : proc[p].socket[x].ex \in BOOLEAN
    PROVE  LET r == SocketRound(p)
               N == LiveSockets(p)
           IN /\ DOMAIN r.changed \subseteq N /\ N \ DOMAIN b.entries \subseteq DOMAIN r.changed
              /\ \A x \in N : MergeFields(SentFields(b, x), Part(r.changed, x, Empty)) = ShownSocket(p, x)
              /\ Removed(r) = DOMAIN b.entries \ N
              /\ IsSocketScope(Swept(r)) /\ DOMAIN Swept(r).entries = N
              /\ \A x \in N : Swept(r).entries[x].fields = ShownSocket(p, x)
<1> DEFINE N == LiveSockets(p)
           r == SocketRound(p)
           w == Swept(r)
<1>1. SocketsSoFar(r, b, p, N)
  BY SocketFold, SocketsFolded
<1>2. PICK es, c :
        /\ r = Round(N, b.token, es, c) /\ IsFcn(es)
        /\ DOMAIN es = DOMAIN b.entries \cup N
        /\ DOMAIN c \subseteq N /\ N \ DOMAIN b.entries \subseteq DOMAIN c
        /\ \A x \in DOMAIN b.entries \ N : es[x] = b.entries[x]
        /\ \A x \in N : /\ es[x] = SocketEntry(x \in DOMAIN b.entries, ShownSocket(p, x))
                        /\ MergeFields(SentFields(b, x), Part(c, x, Empty)) = ShownSocket(p, x)
  BY <1>1 DEF SocketsSoFar
<1> DEFINE ws == SweptEntries(es, N, c)
<1>3. /\ Removed(r) = {x \in DOMAIN es \ N : es[x].sent}
      /\ w = [seen |-> N, token |-> b.token, entries |-> ws]
  <2>1. r = Round(N, b.token, es, c)
    BY <1>2
  <2>2. PICK M, t : M = N /\ t = b.token
    OBVIOUS
  <2>3. LET q == Round(M, t, es, c)
        IN /\ Removed(q) = {x \in DOMAIN es \ M : es[x].sent}
           /\ Swept(q) = [seen |-> M, token |-> t, entries |-> SweptEntries(es, M, c)]
    BY RoundSwept
  <2> HIDE DEF N, r
  <2>4. Round(M, t, es, c) = r
    BY <2>1, <2>2
  <2> QED BY <2>2, <2>3, <2>4 DEF w
<1>4. r.changed = c
  BY <1>2, RoundParts
<1> HIDE DEF N, r, w
<1>5. ASSUME NEW x \in N
      PROVE  x \in DOMAIN ws /\ ws[x] = SocketEntry(TRUE, ShownSocket(p, x))
  <2>1. PICK old, v : old = (x \in DOMAIN b.entries) /\ v = ShownSocket(p, x)
    OBVIOUS
  <2>2. es[x] = [sent |-> old, token |-> TokenOf(v), fields |-> v] /\ (old \/ x \in DOMAIN c)
    BY <1>2, <2>1 DEF SocketEntry
  <2>3. ws[x] = [es[x] EXCEPT !.sent = @ \/ x \in DOMAIN c] /\ x \in DOMAIN ws
    BY <1>2 DEF SweptEntries
  <2>4. ws[x] = [sent |-> TRUE, token |-> TokenOf(v), fields |-> v]
    <3>1. PICK e : e = es[x]
      OBVIOUS
    <3>2. e.sent \/ x \in DOMAIN c
      BY <2>2, <3>1
    <3>3. ws[x] = [e EXCEPT !.sent = @ \/ x \in DOMAIN c]
      BY <2>3, <3>1
    <3>4. e = [sent |-> old, token |-> TokenOf(v), fields |-> v]
      BY <2>2, <3>1
    <3> QED BY <3>2, <3>3, <3>4
  <2> QED BY <2>1, <2>3, <2>4 DEF SocketEntry
<1>6. DOMAIN ws = N /\ ws = [x \in DOMAIN ws |-> ws[x]]
  BY <1>2 DEF SweptEntries
<1> HIDE DEF ws
<1>7. ASSUME NEW x \in N
      PROVE  /\ ws[x] = [sent |-> TRUE, token |-> ws[x].token, fields |-> ws[x].fields]
             /\ ws[x].fields = ShownSocket(p, x) /\ ws[x].token = TokenOf(ws[x].fields)
  <2>1. PICK v : v = ShownSocket(p, x)
    OBVIOUS
  <2>2. ws[x] = [sent |-> TRUE, token |-> TokenOf(v), fields |-> v]
    BY <1>5, <2>1 DEF SocketEntry
  <2>3. ws[x].token = TokenOf(v) /\ ws[x].fields = v
    BY <2>2
  <2> QED BY <2>1, <2>2, <2>3
<1>8. \A x \in N : IsSocket(ShownSocket(p, x))
  <2> TAKE x \in N
  <2>1. ShownSocket(p, x) = SocketValue(proc[p].socket[x]) /\ proc[p].socket[x].ex \in BOOLEAN
    BY DEF ShownSocket, SocketValue, N
  <2> QED BY <2>1, SocketFields
<1>9. IsSocketScope(w) /\ DOMAIN w.entries = N /\ \A x \in N : w.entries[x].fields = ShownSocket(p, x)
  BY <1>3, <1>6, <1>7, <1>8 DEF IsSocketScope, IsSent
<1>10. Removed(r) = DOMAIN b.entries \ N
  <2>1. \A x \in DOMAIN b.entries \ N : es[x].sent
    BY <1>2, ScopeEntry
  <2>2. DOMAIN es \ N = DOMAIN b.entries \ N
    BY <1>2
  <2> QED BY <1>3, <2>1, <2>2
<1> QED BY <1>2, <1>4, <1>9, <1>10 DEF N, r, w

-----------------------------------------------------------------------------
(* What the viewer makes of the lists in an answer. *)

SamePart(e, d, f) == (f \in DOMAIN d <=> f \in DOMAIN e) /\ (f \in DOMAIN e => d[f] = e[f])

LEMMA SameHandles ==
    ASSUME NEW row, NEW e, NEW d, NEW full, SamePart(e, d, "handles"), SamePart(e, d, "oldHandles")
    PROVE  UpdateHandles(row, d, full) = UpdateHandles(row, e, full)
BY DEF UpdateHandles, Part, SamePart

LEMMA SameSockets ==
    ASSUME NEW row, NEW e, NEW d, NEW full, SamePart(e, d, "sockets"), SamePart(e, d, "oldSockets")
    PROVE  UpdateSockets(row, d, full) = UpdateSockets(row, e, full)
<1>1. /\ Part(d, "sockets", Empty) = Part(e, "sockets", Empty)
      /\ Part(d, "oldSockets", {}) = Part(e, "oldSockets", {})
      /\ "sockets" \in DOMAIN d <=> "sockets" \in DOMAIN e
  BY DEF Part, SamePart
<1> QED BY <1>1 DEF UpdateSockets

LEMMA NoHandles ==
    ASSUME NEW row, NEW e, NEW full, {"handles", "oldHandles"} \cap DOMAIN e = {}
    PROVE  UpdateHandles(row, e, full) = row.handles
BY DEF UpdateHandles, Part

\* A socket with nothing new stays as it was.
LEMMA MergeNothing ==
    ASSUME NEW v, IsSocket(v)
    PROVE  MergeFields(v, Empty) = v /\ \A u : IsSocket(u) => MergeFields(u, v) = v
BY DEF MergeFields, IsSocket, Empty, SocketFlds

LEMMA NoSockets ==
    ASSUME NEW row, IsRow(row), NEW e, NEW full, {"sockets", "oldSockets"} \cap DOMAIN e = {}
    PROVE  UpdateSockets(row, e, full) = row.sockets
<1> DEFINE R == row.sockets
<1>1. /\ Part(e, "sockets", Empty) = Empty /\ Part(e, "oldSockets", {}) = {}
      /\ "sockets" \notin DOMAIN e /\ DOMAIN Empty = {}
  BY DEF Part, Empty
<1>2. UpdateSockets(row, e, full) =
        Drop([s \in DOMAIN R \cup DOMAIN Empty |->
                MergeFields(IF s \in DOMAIN R THEN R[s] ELSE Empty, Part(Empty, s, Empty))], {})
  BY <1>1 DEF UpdateSockets
<1>3. \A s \in DOMAIN R : MergeFields(R[s], Part(Empty, s, Empty)) = R[s]
  BY <1>1, MergeNothing DEF IsRow, AreSockets, Part
<1>4. DOMAIN R \cup DOMAIN Empty = DOMAIN R /\ R = [s \in DOMAIN R |-> R[s]]
  BY <1>1 DEF IsRow, AreSockets
<1> HIDE DEF R
<1>5. [s \in DOMAIN R \cup DOMAIN Empty |->
         MergeFields(IF s \in DOMAIN R THEN R[s] ELSE Empty, Part(Empty, s, Empty))] = R
  BY <1>3, <1>4
<1>6. Drop(R, {}) = R
  BY <1>4 DEF Drop
<1> QED BY <1>2, <1>5, <1>6 DEF R

\* New handles come in, old ones go.
LEMMA HandlesMerged ==
    ASSUME NEW row, NEW d, NEW full, NEW N, full => row.handles = {},
           Part(d, "handles", {}) = N \ row.handles, Part(d, "oldHandles", {}) = row.handles \ N
    PROVE  UpdateHandles(row, d, full) = N
<1>1. PICK B : B = row.handles
  OBVIOUS
<1>2. (IF full /\ "handles" \in DOMAIN d THEN {} ELSE row.handles) = B
  BY <1>1
<1>3. UpdateHandles(row, d, full) = (B \cup (N \ B)) \ (B \ N)
  BY <1>1, <1>2 DEF UpdateHandles
<1> QED BY <1>3

\* The answer d, of the socket changes c, takes a row that has what the scope b
\* sent to the sockets N.
TakesTo(p, row, b, c, d, full, N) ==
    /\ row.sockets = [x \in DOMAIN b.entries |-> b.entries[x].fields]
    /\ full => DOMAIN row.sockets = {}
    /\ DOMAIN c \subseteq N /\ N \ DOMAIN b.entries \subseteq DOMAIN c
    /\ \A x \in N : MergeFields(SentFields(b, x), Part(c, x, Empty)) = ShownSocket(p, x)
    /\ Part(d, "sockets", Empty) = c /\ Part(d, "oldSockets", {}) = DOMAIN b.entries \ N

LEMMA SocketsMerged ==
    ASSUME NEW p, NEW row, NEW b, NEW c, NEW d, NEW full, NEW N, TakesTo(p, row, b, c, d, full, N)
    PROVE  UpdateSockets(row, d, full) = [x \in N |-> ShownSocket(p, x)]
<1> DEFINE B == DOMAIN b.entries
           m == [x \in B \cup DOMAIN c |-> MergeFields(SentFields(b, x), Part(c, x, Empty))]
<1>0. /\ row.sockets = [x \in DOMAIN b.entries |-> b.entries[x].fields]
      /\ full => DOMAIN row.sockets = {}
      /\ DOMAIN c \subseteq N /\ N \ DOMAIN b.entries \subseteq DOMAIN c
      /\ \A x \in N : MergeFields(SentFields(b, x), Part(c, x, Empty)) = ShownSocket(p, x)
      /\ Part(d, "sockets", Empty) = c /\ Part(d, "oldSockets", {}) = DOMAIN b.entries \ N
  BY DEF TakesTo
<1>1. DOMAIN row.sockets = B /\ (IF full /\ "sockets" \in DOMAIN d THEN {} ELSE DOMAIN row.sockets) = B
  BY <1>0
<1>2. \A x : (IF x \in DOMAIN row.sockets THEN row.sockets[x] ELSE Empty) = SentFields(b, x)
  BY <1>0 DEF SentFields
<1>3. UpdateSockets(row, d, full) = Drop(m, B \ N)
  <2> DEFINE n == [x \in B \cup DOMAIN c |->
                     MergeFields(IF x \in DOMAIN row.sockets THEN row.sockets[x] ELSE Empty,
                                 Part(c, x, Empty))]
  <2>1. UpdateSockets(row, d, full) = Drop(n, B \ N)
    BY <1>0, <1>1 DEF UpdateSockets
  <2>2. n = m
    BY <1>2
  <2> QED BY <2>1, <2>2
<1>4. (B \cup DOMAIN c) \ (B \ N) = N /\ \A x \in N : x \in B \cup DOMAIN c
  BY <1>0
<1>5. Drop(m, B \ N) = [x \in N |-> m[x]]
  BY <1>4 DEF Drop
<1>6. \A x \in N : m[x] = ShownSocket(p, x)
  BY <1>0, <1>4
<1> HIDE DEF m
<1> QED BY <1>3, <1>5, <1>6

\* d has the field f unless a, and the field g unless b.
HasBoth(d, f, v, a, g, w, b) ==
    /\ f \in DOMAIN d <=> ~a
    /\ ~a => d[f] = v
    /\ g \in DOMAIN d <=> ~b
    /\ ~b => d[g] = w

\* What two sub lists add to the changes of a process.
LEMMA TwoPuts ==
    ASSUME NEW e, NEW f, NEW g, f # g, f \notin DOMAIN e, g \notin DOMAIN e,
           NEW v, NEW w, NEW a \in BOOLEAN, NEW b \in BOOLEAN, NEW k, NEW d,
           k = IF a THEN e ELSE Put(e, f, v), d = IF b THEN k ELSE Put(k, g, w)
    PROVE  HasBoth(d, f, v, a, g, w, b)
<1>1. /\ f \in DOMAIN k <=> ~a
      /\ ~a => k[f] = v
      /\ g \notin DOMAIN k
  BY DEF Put
<1>2. CASE b
  BY <1>1, <1>2 DEF HasBoth
<1>3. CASE ~b
  <2>1. d = Put(k, g, w)
    BY <1>3
  <2>2. /\ g \in DOMAIN d /\ d[g] = w
        /\ (f \in DOMAIN d <=> f \in DOMAIN k) /\ (f \in DOMAIN k => d[f] = k[f])
    BY <2>1 DEF Put
  <2> QED BY <1>1, <1>3, <2>2 DEF HasBoth
<1> QED BY <1>2, <1>3

\* What a process is told of: the others are told the same.
LEMMA PutOther ==
    ASSUME NEW c, NEW p, NEW e, NEW x, x # p
    PROVE  Part(Put(c, p, e), x, Empty) = Part(c, x, Empty)
BY DEF Put, Part

LEMMA AlwaysAdds ==
    ASSUME NEW r, IsRound(r), NEW p \in Procs, NEW f, NEW v
    PROVE  WriteAlways(r, p, f, v).changed = Put(r.changed, p, Put(Part(r.changed, p, Empty), f, v))
<1>1. PICK s, cs : Keep(r, p) = [scope |-> s, changed |-> r.changed] /\ cs = ChangesOf(r, p)
  BY KeepIs
<1>2. cs = Part(r.changed, p, Empty)
  BY <1>1 DEF ChangesOf, Part
<1>3. WriteAlways(r, p, f, v).changed = Put(r.changed, p, Put(cs, f, v))
  BY <1>1 DEF WriteAlways
<1> QED BY <1>2, <1>3

LEMMA SubDeltaAdds ==
    ASSUME NEW r, IsRound(r), NEW p \in Procs, NEW f, NEW v, NEW none \in BOOLEAN,
           NEW q, q = WriteSubDelta(r, p, f, v, none)
    PROVE  Part(q.changed, p, Empty) = IF none THEN Part(r.changed, p, Empty)
                                       ELSE Put(Part(r.changed, p, Empty), f, v)
<1>1. CASE none
  BY <1>1 DEF WriteSubDelta
<1>2. CASE ~none
  <2>1. q = WriteAlways(r, p, f, v)
    BY <1>2 DEF WriteSubDelta
  <2> QED BY <1>2, <2>1, AlwaysAdds, PutAt
<1> QED BY <1>1, <1>2

LEMMA SubDeltaOthers ==
    ASSUME NEW r, IsRound(r), NEW p \in Procs, NEW f, NEW v, NEW none,
           NEW q, q = WriteSubDelta(r, p, f, v, none), NEW x, x # p
    PROVE  Part(q.changed, x, Empty) = Part(r.changed, x, Empty)
<1>1. CASE none
  BY <1>1 DEF WriteSubDelta
<1>2. CASE ~none
  <2>1. q = WriteAlways(r, p, f, v)
    BY <1>2 DEF WriteSubDelta
  <2> QED BY <1>2, <2>1, AlwaysAdds, PutOther
<1> QED BY <1>1, <1>2

-----------------------------------------------------------------------------
(* Steps of a round with the cache *)

LEMMA RoundStages ==
    ASSUME InRound
    PROVE  builder.at \notin {"idle", "sent"}
BY DeltaConstants DEF InRound, Inside

LEMMA ListNames ==
    \A f \in Flds : f \notin {"handles", "oldHandles", "sockets", "oldSockets"}
BY DeltaConstants DEF Flds

\* The row of a process, or a new one, has sockets.
LEMMA RowIsRow ==
    ASSUME ListAgrees, Single, NEW p
    PROVE  IsRow(Row(p))
<1>1. CASE p \in DOMAIN viewer
  BY <1>1 DEF ListAgrees, Row
<1>2. CASE p \notin DOMAIN viewer
  <2>1. Row(p).sockets = Empty /\ DOMAIN Empty = {}
    BY <1>2 DEF Row, NewRow, Empty
  <2>2. Empty = [s \in DOMAIN Empty |-> Empty[s]]
    BY DEF Empty
  <2> QED BY <2>1, <2>2 DEF IsRow, AreSockets
<1> QED BY <1>1, <1>2

\* What does not touch the handles of a process leaves them followed.
LEMMA HandlesFrom ==
    ASSUME NEW p, HandlesOf(p), UNCHANGED <<proc, viewer, pending>>, builder'.full = builder.full,
           DOMAIN HandleScope(p)'.entries = DOMAIN HandleScope(p).entries,
           SamePart(Added(p), Added(p)', "handles"), SamePart(Added(p), Added(p)', "oldHandles"),
           BeforeHandles(p)' => BeforeHandles(p) \/ Added(p) = Empty,
           WasRead(p)' /\ ~BeforeHandles(p)' =>
               \/ WasRead(p) /\ ~BeforeHandles(p)
               \/ DOMAIN HandleScope(p).entries = NamedHandles(p)
    PROVE  HandlesOf(p)'
<1>1. Row(p)' = Row(p) /\ NamedHandles(p)' = NamedHandles(p)
  BY DEF Row, NamedHandles
<1>2. UpdateHandles(Row(p), Added(p)', builder.full) = UpdateHandles(Row(p), Added(p), builder.full)
  BY SameHandles
<1>3. UpdateHandles(Row(p)', Added(p)', builder'.full) = DOMAIN HandleScope(p)'.entries
  BY <1>1, <1>2 DEF HandlesOf
<1>4. BeforeHandles(p)' => {"handles", "oldHandles"} \cap DOMAIN Added(p)' = {}
  <2>1. DOMAIN Empty = {}
    BY DEF Empty
  <2>2. BeforeHandles(p)' => {"handles", "oldHandles"} \cap DOMAIN Added(p) = {}
    BY <2>1 DEF HandlesOf
  <2> QED BY <2>2 DEF SamePart
<1>5. WasRead(p)' /\ ~BeforeHandles(p)' => DOMAIN HandleScope(p)'.entries = NamedHandles(p)'
  BY <1>1 DEF HandlesOf
<1> QED BY <1>3, <1>4, <1>5 DEF HandlesOf

LEMMA SocketsFrom ==
    ASSUME NEW p, SocketsOf(p), UNCHANGED <<proc, viewer, pending>>, builder'.full = builder.full,
           SocketScope(p)' = SocketScope(p),
           SamePart(Added(p), Added(p)', "sockets"), SamePart(Added(p), Added(p)', "oldSockets"),
           BeforeSockets(p)' => BeforeSockets(p) \/ Added(p) = Empty,
           WasRead(p)' /\ ~BeforeSockets(p)' => WasRead(p) /\ ~BeforeSockets(p)
    PROVE  SocketsOf(p)'
<1>1. /\ Row(p)' = Row(p) /\ SentSockets(p)' = SentSockets(p)
      /\ [s \in LiveSockets(p) |-> ShownSocket(p, s)]' = [s \in LiveSockets(p) |-> ShownSocket(p, s)]
  BY DEF Row, SentSockets, LiveSockets, ShownSocket
<1>2. UpdateSockets(Row(p), Added(p)', builder.full) = UpdateSockets(Row(p), Added(p), builder.full)
  BY SameSockets
<1>3. UpdateSockets(Row(p)', Added(p)', builder'.full) = SentSockets(p)'
  BY <1>1, <1>2 DEF SocketsOf
<1>4. BeforeSockets(p)' => {"sockets", "oldSockets"} \cap DOMAIN Added(p)' = {}
  <2>1. DOMAIN Empty = {}
    BY DEF Empty
  <2>2. BeforeSockets(p)' => {"sockets", "oldSockets"} \cap DOMAIN Added(p) = {}
    BY <2>1 DEF SocketsOf
  <2> QED BY <2>2 DEF SamePart
<1>5. WasRead(p)' /\ ~BeforeSockets(p)' =>
        SentSockets(p)' = [s \in LiveSockets(p) |-> ShownSocket(p, s)]'
  BY <1>1 DEF SocketsOf
<1> QED BY <1>3, <1>4, <1>5 DEF SocketsOf

\* What does not touch a process at all.
LEMMA OthersFrom ==
    ASSUME NEW p, NEW x, x # p, HandlesOf(x), SocketsOf(x),
           UNCHANGED <<proc, viewer, pending>>, builder'.full = builder.full,
           HandleScope(x)' = HandleScope(x), SocketScope(x)' = SocketScope(x), Added(x)' = Added(x),
           x \in builder'.todo <=> x \in builder.todo,
           x \in Scope'.seen <=> x \in Scope.seen,
           builder.at \in Inside => builder.p = p,
           builder'.at \in Inside => builder'.p = p
    PROVE  HandlesOf(x)' /\ SocketsOf(x)'
<1>1. ~BeforeHandles(x) /\ ~BeforeSockets(x) /\ ~BeforeHandles(x)' /\ ~BeforeSockets(x)'
  BY DEF BeforeHandles, BeforeSockets
<1>2. WasRead(x)' <=> WasRead(x)
  BY DEF WasRead
<1>3. \A f : SamePart(Added(x), Added(x)', f)
  BY DEF SamePart
<1>4. HandlesOf(x)'
  BY <1>1, <1>2, <1>3, HandlesFrom
<1>5. SocketsOf(x)'
  BY <1>1, <1>2, <1>3, SocketsFrom
<1> QED BY <1>4, <1>5

LEMMA MirrorStep ==
    ASSUME ListsMirrored, useCache, InRound, InRound', NEW p \in Procs,
           UNCHANGED <<useCache, proc, viewer, pending, touched, lost, reloads>>,
           builder'.full = builder.full, ListCache',
           \A x \in Procs : x # p =>
              /\ HandleScope(x)' = HandleScope(x) /\ SocketScope(x)' = SocketScope(x)
              /\ Added(x)' = Added(x)
              /\ x \in builder'.todo <=> x \in builder.todo
              /\ x \in Scope'.seen <=> x \in Scope.seen,
           builder.at \in Inside => builder.p = p,
           builder'.at \in Inside => builder'.p = p,
           p \notin builder'.todo,
           Single => HandlesOf(p)' /\ SocketsOf(p)'
    PROVE  ListsMirrored'
<1>1. Single' <=> Single
  BY DEF Single
<1>2. ListRoundInv'
  <2> SUFFICES ASSUME Single
               PROVE  /\ builder'.full => DOMAIN viewer' = {}
                      /\ \A x \in Procs : /\ HandlesOf(x)' /\ SocketsOf(x)'
                                          /\ x \in builder'.todo => Added(x)' = Empty
    BY <1>1 DEF ListRoundInv
  <2>1. /\ builder.full => DOMAIN viewer = {}
        /\ \A x \in Procs : HandlesOf(x) /\ SocketsOf(x) /\ (x \in builder.todo => Added(x) = Empty)
    BY DEF ListsMirrored, ListRoundInv
  <2>2. ASSUME NEW x \in Procs, x # p
        PROVE  HandlesOf(x)' /\ SocketsOf(x)'
    BY <2>1, <2>2, OthersFrom
  <2>3. ASSUME NEW x \in Procs, x \in builder'.todo
        PROVE  Added(x)' = Empty
    BY <2>1, <2>3
  <2> QED BY <2>1, <2>2, <2>3
<1>3. ListFileInv'
  BY DEF ListFileInv
<1>4. builder'.at \notin {"idle", "sent"}
  BY DeltaConstants DEF InRound, Inside
<1>5. ListSentInv' /\ ListIdleInv'
  BY <1>4 DEF ListSentInv, ListIdleInv
<1>6. ListAgrees'
  <2>1. \A row, x : ShowsLists(row, x)' <=> ShowsLists(row, x)
    BY DEF ShowsLists, NamedHandles, LiveSockets, ShownSocket
  <2>2. ListAgrees
    BY DEF ListsMirrored
  <2> QED BY <1>1, <2>1, <2>2 DEF ListAgrees
<1> QED BY <1>2, <1>3, <1>5, <1>6 DEF ListsMirrored

LEMMA CacheSame ==
    ASSUME ListCache, UNCHANGED <<proc, lists, lost, reloads>>,
           builder.at # "handles", builder'.at # "handles"
    PROVE  ListCache'
<1>1. \A p : /\ HandleScope(p)' = HandleScope(p) /\ SocketScope(p)' = SocketScope(p)
             /\ NamedHandles(p)' = NamedHandles(p)
  BY DEF HandleScope, SocketScope, NamedHandles
<1>2. \A p : HandlesRight(p) => HandlesRight(p)'
  BY <1>1 DEF HandlesRight
<1> QED BY <1>1, <1>2 DEF ListCache

\* A field written to a round is put into the changes of its process at most.
LEMMA WriteAdds ==
    ASSUME NEW r, IsRound(r), NEW p \in Procs, NEW f \in Flds, NEW v \in Vals, NEW q, q = Write(r, p, f, v)
    PROVE  /\ \A h : h \notin Flds => SamePart(Part(r.changed, p, Empty), Part(q.changed, p, Empty), h)
           /\ \A x : x # p => Part(q.changed, x, Empty) = Part(r.changed, x, Empty)
           /\ \A x : x # p => (x \in q.scope.seen <=> x \in r.scope.seen)
<1> DEFINE s == ScopeWith(r.scope, p, EntryOf(r.scope, p), r.scope.seen \cup {p})
           e == Part(r.changed, p, Empty)
<1>1. Keep(r, p) = [scope |-> s, changed |-> r.changed]
  BY KeepIs
<1>2. WriteAlways(r, p, f, v) = [scope |-> s, changed |-> Put(r.changed, p, Put(e, f, v))]
  <2>1. ChangesOf(r, p) = e
    BY DEF ChangesOf, Part
  <2>2. PICK k, cs : k = Keep(r, p) /\ cs = ChangesOf(r, p)
    OBVIOUS
  <2>3. WriteAlways(r, p, f, v) = [k EXCEPT !.changed = Put(@, p, Put(cs, f, v))]
    BY <2>2 DEF WriteAlways
  <2> HIDE DEF s, e
  <2>4. k = [scope |-> s, changed |-> r.changed] /\ cs = e
    BY <1>1, <2>1, <2>2
  <2> QED BY <2>3, <2>4
<1>3. s.seen = r.scope.seen \cup {p}
  BY DEF ScopeWith
<1> HIDE DEF s, e
<1>4. CASE IsUnchanged(Keep(r, p), p, f, v)
  <2>1. q = [scope |-> s, changed |-> r.changed]
    BY <1>1, <1>4 DEF Write
  <2>2. q.scope = s /\ q.changed = r.changed
    BY <2>1
  <2> QED BY <1>3, <2>2 DEF SamePart
<1>5. CASE ~IsUnchanged(Keep(r, p), p, f, v)
  <2>1. PICK es : q = [WriteAlways(r, p, f, v) EXCEPT !.scope.entries = es]
    <3>1. PICK w : w = WriteAlways(r, p, f, v)
      OBVIOUS
    <3>2. q = [w EXCEPT !.scope.entries[p].fields = Put(@, f, v)]
      BY <1>5, <3>1 DEF Write
    <3>3. q = [w EXCEPT !.scope.entries = [w.scope.entries EXCEPT ![p].fields = Put(@, f, v)]]
      BY <3>2
    <3> QED BY <3>1, <3>3
  <2>2. q.changed = Put(r.changed, p, Put(e, f, v)) /\ q.scope = [s EXCEPT !.entries = es]
    BY <1>2, <2>1
  <2>3. q.scope.seen = s.seen
    BY <2>2 DEF s, ScopeWith
  <2>4. Part(q.changed, p, Empty) = Put(e, f, v) /\ \A x : x # p => Part(q.changed, x, Empty) = Part(r.changed, x, Empty)
    BY <2>2, PutAt, PutOther
  <2>5. \A h : h # f => SamePart(e, Put(e, f, v), h)
    BY DEF Put, SamePart
  <2> QED BY <1>3, <2>3, <2>4, <2>5 DEF e
<1> QED BY <1>4, <1>5

\* The steps inside a process before its lists: none of them is about the lists.
LEMMA BeforeLists ==
    ASSUME Inv, Inv', ListsMirrored, useCache, InRound, NEW p \in Procs,
           UNCHANGED <<useCache, proc, lists, viewer, pending, touched, lost, reloads>>,
           builder'.at \in {"groups"} \cup Groups, builder'.p = p,
           builder'.full = builder.full, p \notin builder'.todo,
           \/ builder.at \in {"groups"} \cup Groups /\ builder.p = p
           \/ builder.at = "next" /\ p \in builder.todo,
           \A h : h \notin Flds => SamePart(Added(p), Added(p)', h),
           \A x \in Procs : x # p => /\ Added(x)' = Added(x)
                                     /\ x \in builder'.todo <=> x \in builder.todo
                                     /\ x \in Scope'.seen <=> x \in Scope.seen
    PROVE  ListsMirrored'
<1>1. /\ builder'.at \in Inside \ {"sockets"} /\ "next" \notin Inside
      /\ builder.at \in {"groups"} \cup Groups => builder.at \in Inside \ {"sockets"}
      /\ builder.at # "handles" /\ builder'.at # "handles"
  BY DeltaConstants DEF Inside
<1>2. InRound' /\ ListCache'
  <2>1. InRound'
    BY <1>1 DEF InRound
  <2>2. ListCache
    BY DEF ListsMirrored
  <2> QED BY <1>1, <2>1, <2>2, CacheSame
<1>3. \A x : HandleScope(x)' = HandleScope(x) /\ SocketScope(x)' = SocketScope(x)
  BY DEF HandleScope, SocketScope
<1>4. BeforeHandles(p)' /\ BeforeSockets(p)'
  BY <1>1 DEF BeforeHandles, BeforeSockets
<1>5. Single => /\ HandlesOf(p) /\ SocketsOf(p)
                /\ BeforeHandles(p) \/ Added(p) = Empty
                /\ BeforeSockets(p) \/ Added(p) = Empty
  <2>1. Single => HandlesOf(p) /\ SocketsOf(p) /\ (p \in builder.todo => Added(p) = Empty)
    BY DEF ListsMirrored, ListRoundInv
  <2> QED BY <1>1, <2>1 DEF BeforeHandles, BeforeSockets
<1>6. /\ SamePart(Added(p), Added(p)', "handles") /\ SamePart(Added(p), Added(p)', "oldHandles")
      /\ SamePart(Added(p), Added(p)', "sockets") /\ SamePart(Added(p), Added(p)', "oldSockets")
  BY ListNames
<1>7. Single => HandlesOf(p)'
  BY <1>3, <1>4, <1>5, <1>6, HandlesFrom
<1>8. Single => SocketsOf(p)'
  BY <1>3, <1>4, <1>5, <1>6, SocketsFrom
<1>9. (builder.at \in Inside => builder.p = p) /\ (builder'.at \in Inside => builder'.p = p)
  BY <1>1
<1> QED BY <1>2, <1>3, <1>7, <1>8, <1>9, MirrorStep

LEMMA WriteFieldsMirror ==
    ASSUME Inv, Inv', ListsMirrored, NEW p \in Procs, WriteFields(p)
    PROVE  ListsMirrored'
<1>1. PICK q : q = Write(builder.round, p, "plain", proc[p].plain)
  OBVIOUS
<1>2. /\ useCache /\ builder.at = "next" /\ p \in builder.todo
      /\ builder' = [at |-> "groups", full |-> builder.full, todo |-> builder.todo \ {p}, p |-> p,
                     left |-> Groups, round |-> q]
      /\ UNCHANGED <<useCache, proc, lists, viewer, pending, touched, lost, reloads>>
  BY <1>1 DEF WriteFields, Build, collector
<1>3. InRound /\ IsRound(builder.round) /\ proc[p] \in ProcT
  BY <1>2 DEF Inv, Shape, InRound
<1>4. proc[p].plain \in Vals /\ "plain" \in Flds
  BY <1>3, ProcParts DEF Flds
<1>5. /\ \A h : h \notin Flds => SamePart(Part(Changed, p, Empty), Part(q.changed, p, Empty), h)
      /\ \A x : x # p => Part(q.changed, x, Empty) = Part(Changed, x, Empty)
      /\ \A x : x # p => (x \in q.scope.seen <=> x \in Scope.seen)
  BY <1>1, <1>3, <1>4, WriteAdds DEF Scope, Changed
<1>6. /\ builder'.at = "groups" /\ builder'.p = p /\ builder'.full = builder.full
      /\ builder'.todo = builder.todo \ {p} /\ builder'.round = q
  BY <1>2
<1>7. Changed' = q.changed /\ Scope' = q.scope
  BY <1>6 DEF Changed, Scope
<1>8. \A x : Added(x)' = Part(q.changed, x, Empty) /\ Added(x) = Part(Changed, x, Empty)
  BY <1>7 DEF Added
<1>9. \A h : h \notin Flds => SamePart(Added(p), Added(p)', h)
  BY <1>5, <1>8
<1>10. \A x \in Procs : x # p => Added(x)' = Added(x)
  BY <1>5, <1>8
<1>11. \A x \in Procs : x # p => (x \in builder'.todo <=> x \in builder.todo)
  BY <1>6
<1>12. \A x \in Procs : x # p => (x \in Scope'.seen <=> x \in Scope.seen)
  BY <1>5, <1>7
<1>13. p \notin builder'.todo /\ builder'.at \in {"groups"} \cup Groups
  BY <1>6
<1> QED BY <1>2, <1>3, <1>6, <1>9, <1>10, <1>11, <1>12, <1>13, BeforeLists

LEMMA WriteGroupMirror ==
    ASSUME Inv, Inv', ListsMirrored, NEW g \in Groups, WriteGroup(g)
    PROVE  ListsMirrored'
<1>1. PICK p, q : p = builder.p /\ q = Write(builder.round, builder.p, g, proc[builder.p].group[g])
  OBVIOUS
<1>2. /\ builder.at = g
      /\ builder' = [builder EXCEPT !.at = "groups", !.left = @ \ {g}, !.round = q]
      /\ UNCHANGED <<useCache, proc, lists, viewer, pending, touched, lost, reloads>>
  BY <1>1 DEF WriteGroup, Build, collector
<1>3. /\ builder = [at |-> builder.at, full |-> builder.full, todo |-> builder.todo, p |-> p,
                    left |-> builder.left, round |-> builder.round]
      /\ InRound /\ useCache /\ p \in Procs /\ p \notin builder.todo /\ IsRound(builder.round)
  BY <1>1, <1>2, InsideParts DEF Inside
<1>4. proc[p] \in ProcT
  BY <1>3 DEF Inv, Shape
<1>5. proc[p].group[g] \in Vals /\ g \in Flds
  BY <1>4, ProcParts DEF Flds
<1>6. /\ \A h : h \notin Flds => SamePart(Part(Changed, p, Empty), Part(q.changed, p, Empty), h)
      /\ \A x : x # p => Part(q.changed, x, Empty) = Part(Changed, x, Empty)
      /\ \A x : x # p => (x \in q.scope.seen <=> x \in Scope.seen)
  BY <1>1, <1>3, <1>5, WriteAdds DEF Scope, Changed
<1>7. builder' = [at |-> "groups", full |-> builder.full, todo |-> builder.todo, p |-> p,
                  left |-> builder.left \ {g}, round |-> q]
  <2>1. builder' = [builder EXCEPT !.at = "groups", !.left = @ \ {g}, !.round = q]
    BY <1>2
  <2>2. PICK old, full, todo, rest, r :
          builder = [at |-> old, full |-> full, todo |-> todo, p |-> p, left |-> rest, round |-> r]
    BY <1>3
  <2>3. builder' = [at |-> "groups", full |-> full, todo |-> todo, p |-> p, left |-> rest \ {g}, round |-> q]
    BY <2>1, <2>2
  <2>4. builder.full = full /\ builder.todo = todo /\ builder.left = rest
    BY <2>2
  <2> QED BY <2>3, <2>4
<1>8. /\ builder'.at = "groups" /\ builder'.p = p /\ builder'.full = builder.full
      /\ builder'.todo = builder.todo /\ builder'.round = q
  BY <1>7
<1>9. Changed' = q.changed /\ Scope' = q.scope
  BY <1>8 DEF Changed, Scope
<1>10. \A x : Added(x)' = Part(q.changed, x, Empty) /\ Added(x) = Part(Changed, x, Empty)
  BY <1>9 DEF Added
<1>11. \A h : h \notin Flds => SamePart(Added(p), Added(p)', h)
  BY <1>6, <1>10
<1>12. \A x \in Procs : x # p => Added(x)' = Added(x)
  BY <1>6, <1>10
<1>13. \A x \in Procs : x # p => (x \in builder'.todo <=> x \in builder.todo)
  BY <1>8
<1>14. \A x \in Procs : x # p => (x \in Scope'.seen <=> x \in Scope.seen)
  BY <1>6, <1>9
<1>15. p \notin builder'.todo /\ builder.at \in Groups /\ builder.p = p
  BY <1>1, <1>2, <1>3, <1>8
<1> QED BY <1>2, <1>3, <1>8, <1>11, <1>12, <1>13, <1>14, <1>15, BeforeLists

LEMMA ReadVersionMirror ==
    ASSUME Inv, Inv', ListsMirrored, NEW g \in Groups, ReadVersion(g)
    PROVE  ListsMirrored'
<1>1. PICK p : p = builder.p
  OBVIOUS
<1>2. builder.at = "groups" /\ builder.at \in Inside
  BY DEF ReadVersion, Inside
<1>3. /\ builder = [at |-> builder.at, full |-> builder.full, todo |-> builder.todo, p |-> p,
                    left |-> builder.left, round |-> builder.round]
      /\ InRound /\ useCache /\ p \in Procs /\ p \notin builder.todo /\ IsRound(builder.round)
  BY <1>1, <1>2, InsideParts
<1>4. PICK a, left, q :
        /\ a \in {"groups"} \cup Groups
        /\ builder' = [builder EXCEPT !.at = a, !.left = left, !.round = q]
        /\ q.changed = Changed /\ q.scope.seen = Scope.seen
  <2>1. CASE Build([builder EXCEPT !.left = @ \ {g}], lists)
    <3>1. builder' = [builder EXCEPT !.at = "groups", !.left = builder.left \ {g}, !.round = builder.round]
      BY <1>2, <1>3, <2>1 DEF Build
    <3> QED BY <3>1 DEF Changed, Scope
  <2>2. CASE Build([builder EXCEPT !.at = g,
                        !.round = SetEntryToken(@, builder.p, g, WireVersion(builder.p, g))], lists)
    <3>1. PICK n, q : n = WireVersion(p, g) /\ q = SetEntryToken(builder.round, p, g, n)
      OBVIOUS
    <3>2. n \in Nat
      BY <1>3, <3>1, ProcParts DEF WireVersion, Inv, Shape
    <3>3. Enters(builder.round, q, p, [EntryOf(Scope, p) EXCEPT !.token = Put(@, g, n)], Scope.seen)
          /\ q.changed = Changed
      BY <1>3, <3>1, <3>2, SetTokenEffect DEF Scope, Changed
    <3>4. builder' = [builder EXCEPT !.at = g, !.left = builder.left, !.round = q]
      BY <1>1, <1>3, <2>2, <3>1 DEF Build
    <3> QED BY <3>3, <3>4 DEF Enters
  <2> QED BY <2>1, <2>2 DEF ReadVersion
<1>5. UNCHANGED <<useCache, proc, lists, viewer, pending, touched, lost, reloads>>
  BY DEF ReadVersion, Build, collector
<1>6. builder' = [at |-> a, full |-> builder.full, todo |-> builder.todo, p |-> p, left |-> left, round |-> q]
  <2>1. builder' = [builder EXCEPT !.at = a, !.left = left, !.round = q]
    BY <1>4
  <2>2. PICK old, full, todo, rest, r :
          builder = [at |-> old, full |-> full, todo |-> todo, p |-> p, left |-> rest, round |-> r]
    BY <1>3
  <2>3. builder' = [at |-> a, full |-> full, todo |-> todo, p |-> p, left |-> left, round |-> q]
    BY <2>1, <2>2
  <2>4. builder.full = full /\ builder.todo = todo /\ builder.left = rest
    BY <2>2
  <2> QED BY <2>3, <2>4
<1>7. /\ builder'.at = a /\ builder'.p = p /\ builder'.full = builder.full
      /\ builder'.todo = builder.todo /\ builder'.round = q
  BY <1>6
<1>8. Changed' = Changed /\ Scope'.seen = Scope.seen
  BY <1>4, <1>7 DEF Changed, Scope
<1>9. \A x : Added(x)' = Added(x) /\ \A h : SamePart(Added(x), Added(x)', h)
  BY <1>8 DEF Added, SamePart
<1> QED BY <1>1, <1>2, <1>3, <1>4, <1>5, <1>7, <1>8, <1>9, BeforeLists

\* The scope of a process after one is put in.
LEMMA ScopeAfterPut ==
    ASSUME NEW s, NEW p, NEW v, NEW x
    PROVE  ScopeOf(Put(s, p, v), x) = IF x = p THEN v ELSE ScopeOf(s, x)
BY DEF ScopeOf, Put

LEMMA ScopeAfter ==
    ASSUME NEW s, NEW p, NEW v, NEW x
    PROVE  ScopeOf(PutScope(s, p, v), x) =
             IF x # p THEN ScopeOf(s, x)
             ELSE IF DOMAIN v.entries = {} /\ v.token = 0 THEN NewScope ELSE v
<1>1. CASE DOMAIN v.entries = {} /\ v.token = 0
  <2>1. PutScope(s, p, v) = Drop(s, {p})
    BY <1>1 DEF PutScope
  <2> QED BY <1>1, <2>1 DEF ScopeOf, Drop
<1>2. CASE ~(DOMAIN v.entries = {} /\ v.token = 0)
  <2>1. PutScope(s, p, v) = Put(s, p, v)
    BY <1>2 DEF PutScope
  <2> QED BY <1>2, <2>1, ScopeAfterPut
<1> QED BY <1>1, <1>2

LEMMA NewScopeParts ==
    /\ IsSent(NewScope) /\ IsSocketScope(NewScope)
    /\ NewScope.token = 0 /\ DOMAIN NewScope.entries = {} /\ NewScope.entries = Empty
<1>1. /\ NewScope.seen = {} /\ NewScope.token = 0 /\ NewScope.entries = Empty /\ DOMAIN Empty = {}
      /\ Empty = [x \in DOMAIN Empty |-> Empty[x]]
  BY DEF NewScope, Empty
<1>2. NewScope = [seen |-> NewScope.seen, token |-> NewScope.token, entries |-> NewScope.entries]
  BY DEF NewScope
<1> QED BY <1>1, <1>2 DEF IsSent, IsSocketScope

\* The version of the handles is read: what is remembered stays, and is what
\* there is unless the builder goes on to the handles.
LEMMA ReadHandleVersionMirror ==
    ASSUME Inv, Inv', ListsMirrored, ReadHandleVersion
    PROVE  ListsMirrored'
<1>0. PICK p, q : p = builder.p /\ q = builder.round
  OBVIOUS
<1>1. builder.at = "groups" /\ builder.left = {}
  BY DEF ReadHandleVersion
<1>2. builder.at \in Inside \ {"sockets"} /\ builder.at # "handles"
  BY <1>1, DeltaConstants DEF Inside
<1>3. /\ builder = [at |-> builder.at, full |-> builder.full, todo |-> builder.todo, p |-> p,
                    left |-> builder.left, round |-> q]
      /\ useCache /\ p \in Procs /\ p \notin builder.todo /\ InRound
  BY <1>0, <1>2, InsideParts
<1>4. PICK a, scope :
        /\ Build([builder EXCEPT !.at = a], [lists EXCEPT !.handles = Put(@, p, scope)])
        /\ \/ /\ a = "sockets" /\ HandleScope(p).token = proc[p].handleVersion
              /\ scope = HandleScope(p)
           \/ /\ a = "handles"
              /\ scope = [HandleScope(p) EXCEPT !.token = proc[p].handleVersion]
  <2>1. PICK s : s = HandleScope(p)
    OBVIOUS
  <2>2. \/ /\ s.token = proc[p].handleVersion
           /\ Build([builder EXCEPT !.at = "sockets"], [lists EXCEPT !.handles = Put(@, p, s)])
        \/ Build([builder EXCEPT !.at = "handles"],
                 [lists EXCEPT !.handles = Put(@, p, [s EXCEPT !.token = proc[p].handleVersion])])
    BY <1>0, <2>1 DEF ReadHandleVersion, HandleScope
  <2> QED BY <2>1, <2>2
<1>5. UNCHANGED <<useCache, proc, viewer, pending, touched, lost, reloads>>
  BY <1>4 DEF Build, collector
<1>6. builder' = [at |-> a, full |-> builder.full, todo |-> builder.todo, p |-> p,
                  left |-> builder.left, round |-> q]
  BY <1>3, <1>4 DEF Build
<1>7. /\ builder'.at = a /\ builder'.full = builder.full /\ builder'.todo = builder.todo
      /\ builder'.p = p /\ builder'.round = q
  BY <1>6
<1>8. lists' = [processes |-> lists.processes, handles |-> Put(lists.handles, p, scope), sockets |-> lists.sockets]
  BY <1>4 DEF Build, Inv, Shape
<1>9. lists'.handles = Put(lists.handles, p, scope) /\ lists'.sockets = lists.sockets
  BY <1>8
<1>10. /\ \A x : HandleScope(x)' = IF x = p THEN scope ELSE HandleScope(x)
       /\ \A x : SocketScope(x)' = SocketScope(x)
  BY <1>9, ScopeAfterPut DEF HandleScope, SocketScope
<1>11. /\ \A x : Added(x)' = Added(x) /\ NamedHandles(x)' = NamedHandles(x)
       /\ Scope' = Scope
  BY <1>0, <1>5, <1>7 DEF Added, Changed, Scope, NamedHandles
<1>12. a \in {"sockets", "handles"} /\ InRound'
  BY <1>4, <1>7 DEF InRound, Inside
<1>13. ListCache /\ \A x \in Procs : HandlesRight(x)
  BY DEF ListsMirrored, ListCache
<1>14. /\ scope.entries = HandleScope(p).entries /\ IsSent(scope)
       /\ scope.token = proc[p].handleVersion /\ scope.token \in Nat
  <2>1. PICK s : s = HandleScope(p)
    OBVIOUS
  <2>2. IsSent(s) /\ s.token \in Nat
    BY <1>3, <1>13, <2>1 DEF HandlesRight
  <2>3. PICK seen, token, es : s = [seen |-> seen, token |-> token, entries |-> es]
    BY <2>2 DEF IsSent
  <2>4. proc[p].handleVersion \in Nat
    BY <1>3, ProcParts DEF Inv, Shape
  <2>5. CASE scope = s /\ s.token = proc[p].handleVersion
    BY <2>1, <2>2, <2>5
  <2>6. CASE scope = [s EXCEPT !.token = proc[p].handleVersion]
    <3>1. scope = [seen |-> seen, token |-> proc[p].handleVersion, entries |-> es]
      BY <2>3, <2>6
    <3>2. /\ scope.seen = seen /\ scope.token = proc[p].handleVersion /\ scope.entries = es
          /\ s.entries = es
      BY <2>3, <3>1
    <3>3. scope = [seen |-> scope.seen, token |-> scope.token, entries |-> scope.entries]
      BY <3>1, <3>2, Zenon
    <3> QED BY <2>1, <2>2, <2>4, <3>2, <3>3 DEF IsSent
  <2> QED BY <1>4, <2>1, <2>5, <2>6
<1>15. a = "sockets" => DOMAIN HandleScope(p).entries = NamedHandles(p)
  <2>1. a = "sockets" => HandleScope(p).token = proc[p].handleVersion
    BY <1>4
  <2> QED BY <1>2, <1>3, <1>13, <2>1 DEF HandlesRight
<1>16. ListCache'
  <2>1. HandlesRight(p)'
    <3>1. /\ proc'[p].handleVersion = 0 => NamedHandles(p)' = {}
          /\ HandleScope(p)' = scope /\ proc'[p].handleVersion = proc[p].handleVersion
      BY <1>3, <1>5, <1>10, <1>11, <1>13 DEF HandlesRight
    <3>2. \/ builder'.at = "handles" /\ builder'.p = p
          \/ DOMAIN scope.entries = NamedHandles(p)'
      BY <1>7, <1>11, <1>12, <1>14, <1>15
    <3> QED BY <1>14, <3>1, <3>2 DEF HandlesRight
  <2>2. ASSUME NEW x \in Procs, x # p
        PROVE  HandlesRight(x)'
    BY <1>2, <1>5, <1>10, <1>11, <1>13, <2>2 DEF HandlesRight
  <2>3. builder'.at = "handles" => builder'.p \in DOMAIN lists'.handles
    BY <1>7, <1>9 DEF Put
  <2> QED BY <1>5, <1>10, <1>13, <2>1, <2>2, <2>3 DEF ListCache
<1>17. BeforeHandles(p) /\ BeforeSockets(p) /\ BeforeSockets(p)'
  BY <1>0, <1>2, <1>7, <1>12 DEF BeforeHandles, BeforeSockets, Inside
<1>18. \A f : SamePart(Added(p), Added(p)', f)
  BY <1>11 DEF SamePart
<1>19. Single => HandlesOf(p) /\ SocketsOf(p)
  BY <1>3 DEF ListsMirrored, ListRoundInv
<1>20. a = "handles" => BeforeHandles(p)'
  BY <1>7, DeltaConstants DEF BeforeHandles, Inside
<1>21. DOMAIN HandleScope(p)'.entries = DOMAIN HandleScope(p).entries
  BY <1>10, <1>14
<1>22. Single => HandlesOf(p)'
  BY <1>5, <1>7, <1>12, <1>15, <1>17, <1>18, <1>19, <1>20, <1>21, HandlesFrom
<1>23. Single => SocketsOf(p)'
  BY <1>5, <1>7, <1>10, <1>17, <1>18, <1>19, SocketsFrom
<1>24. (builder.at \in Inside => builder.p = p) /\ (builder'.at \in Inside => builder'.p = p)
  BY <1>0, <1>7
<1> QED BY <1>3, <1>5, <1>7, <1>10, <1>11, <1>12, <1>16, <1>22, <1>23, <1>24, MirrorStep

\* The two lists of a process in the answer, and nothing else.
ListsPut(q, p, f, v, a, g, w, b) ==
    /\ \A x : x # p => Part(q.changed, x, Empty) = Added(x)
    /\ \A x : x # p => (x \in q.scope.seen <=> x \in Scope.seen)
    /\ \A k : k \notin {f, g} => SamePart(Added(p), Part(q.changed, p, Empty), k)
    /\ {f, g} \cap DOMAIN Added(p) = {} => HasBoth(Part(q.changed, p, Empty), f, v, a, g, w, b)

LEMMA ListsAdded ==
    ASSUME Inv, builder.at \in Inside, NEW p, p = builder.p,
           NEW f, NEW g, f # g, f \notin Flds, g \notin Flds,
           NEW v, NEW w, NEW a \in BOOLEAN, NEW b \in BOOLEAN, NEW q,
           q = WriteSubDelta(WriteSubDelta(builder.round, p, f, v, a), p, g, w, b)
    PROVE  ListsPut(q, p, f, v, a, g, w, b)
<1>1. PICK r, t : r = builder.round /\ t = WriteSubDelta(r, p, f, v, a)
  OBVIOUS
<1>2. IsRound(r) /\ p \in Procs /\ p \in r.scope.seen /\ p \in DOMAIN r.scope.entries
  BY <1>1, InsideParts DEF Scope
<1>3. IsRound(t)
  <2>1. Mentions(r, t, p)
    BY <1>1, <1>2, SubDeltaMentions
  <2> QED BY <2>1 DEF Mentions, Touches
<1>4. /\ Part(t.changed, p, Empty) = IF a THEN Part(r.changed, p, Empty)
                                     ELSE Put(Part(r.changed, p, Empty), f, v)
      /\ \A x : x # p => Part(t.changed, x, Empty) = Part(r.changed, x, Empty)
  <2>1. ASSUME NEW x, x # p
        PROVE  Part(t.changed, x, Empty) = Part(r.changed, x, Empty)
    BY <1>1, <1>2, <2>1, SubDeltaOthers
  <2>2. Part(t.changed, p, Empty) = IF a THEN Part(r.changed, p, Empty)
                                    ELSE Put(Part(r.changed, p, Empty), f, v)
    BY <1>1, <1>2, SubDeltaAdds
  <2> QED BY <2>1, <2>2
<1>5. /\ Part(q.changed, p, Empty) = IF b THEN Part(t.changed, p, Empty)
                                     ELSE Put(Part(t.changed, p, Empty), g, w)
      /\ \A x : x # p => Part(q.changed, x, Empty) = Part(t.changed, x, Empty)
  <2>1. q = WriteSubDelta(t, p, g, w, b)
    BY <1>1
  <2>2. ASSUME NEW x, x # p
        PROVE  Part(q.changed, x, Empty) = Part(t.changed, x, Empty)
    BY <1>2, <1>3, <2>1, <2>2, SubDeltaOthers
  <2>3. Part(q.changed, p, Empty) = IF b THEN Part(t.changed, p, Empty)
                                    ELSE Put(Part(t.changed, p, Empty), g, w)
    BY <1>2, <1>3, <2>1, SubDeltaAdds
  <2> QED BY <2>2, <2>3
<1>6. Mentions(builder.round, q, p)
  BY TwoSubDeltas
<1>7. \A x : Added(x) = Part(r.changed, x, Empty)
  BY <1>1 DEF Added, Changed
<1>8. PICK e, k, d : /\ e = Added(p) /\ k = Part(t.changed, p, Empty) /\ d = Part(q.changed, p, Empty)
  OBVIOUS
<1>9. k = (IF a THEN e ELSE Put(e, f, v)) /\ d = (IF b THEN k ELSE Put(k, g, w))
  BY <1>4, <1>5, <1>7, <1>8
<1>10. \A h : h \notin {f, g} => SamePart(e, d, h)
  BY <1>9 DEF Put, SamePart
<1>11. {f, g} \cap DOMAIN e = {} => HasBoth(d, f, v, a, g, w, b)
  BY <1>9, TwoPuts
<1>12. \A x : x # p => (x \in q.scope.seen <=> x \in Scope.seen)
  BY <1>6 DEF Mentions, Touches, Scope
<1> QED BY <1>4, <1>5, <1>7, <1>8, <1>10, <1>11, <1>12 DEF ListsPut

\* The handles are listed: the answer has what is new and what is gone.
LEMMA EnumHandlesMirror ==
    ASSUME Inv, Inv', ListsMirrored, EnumHandles
    PROVE  ListsMirrored'
<1>0. PICK p, r, b, w, N : /\ p = builder.p /\ r = HandleRound(p) /\ b = HandleScope(p)
                           /\ w = Swept(r) /\ N = NamedHandles(p)
  OBVIOUS
<1>1. builder.at = "handles"
  BY DEF EnumHandles
<1>2. builder.at \in Inside \ {"sockets"}
  BY <1>1, DeltaConstants DEF Inside
<1>3. /\ builder = [at |-> builder.at, full |-> builder.full, todo |-> builder.todo, p |-> p,
                    left |-> builder.left, round |-> builder.round]
      /\ useCache /\ p \in Procs /\ p \notin builder.todo /\ InRound
  BY <1>0, <1>2, InsideParts
<1>4. PICK q : q = WriteSubDelta(WriteSubDelta(builder.round, p, "handles", DOMAIN r.changed, r.changed = Empty),
                                 p, "oldHandles", Removed(r), Removed(r) = {})
  OBVIOUS
<1>5. Build([builder EXCEPT !.at = "sockets", !.round = q], [lists EXCEPT !.handles = PutScope(@, p, w)])
  BY <1>0, <1>4 DEF EnumHandles
<1>6. UNCHANGED <<useCache, proc, viewer, pending, touched, lost, reloads>>
  BY <1>5 DEF Build, collector
<1>7. /\ builder'.at = "sockets" /\ builder'.full = builder.full /\ builder'.todo = builder.todo
      /\ builder'.p = p /\ builder'.round = q
  <2>1. builder' = [builder EXCEPT !.at = "sockets", !.round = q]
    BY <1>5 DEF Build
  <2>2. PICK a, f, t, l, s : builder = [at |-> a, full |-> f, todo |-> t, p |-> p, left |-> l, round |-> s]
    BY <1>3
  <2>3. builder' = [at |-> "sockets", full |-> f, todo |-> t, p |-> p, left |-> l, round |-> q]
    BY <2>1, <2>2
  <2> QED BY <2>2, <2>3
<1>8. lists'.handles = PutScope(lists.handles, p, w) /\ lists'.sockets = lists.sockets
  BY <1>5 DEF Build, Inv, Shape
<1>9. ListCache /\ \A x \in Procs : HandlesRight(x)
  BY DEF ListsMirrored, ListCache
<1>10. b = lists.handles[p] /\ IsSent(b) /\ b.token \in Nat /\ b.token <= proc[p].handleVersion
       /\ (proc[p].handleVersion = 0 => N = {}) /\ IsFiniteSet(NamedHandles(p))
  <2>1. p \in DOMAIN lists.handles
    BY <1>0, <1>1, <1>9 DEF ListCache
  <2>2. HandlesRight(p)
    BY <1>3, <1>9
  <2>3. NamedHandles(p) \subseteq Handles
    BY DEF NamedHandles
  <2>4. IsFiniteSet(NamedHandles(p))
    BY <2>3, FS_Subset, DeltaConstants
  <2> QED BY <1>0, <2>1, <2>2, <2>4 DEF HandlesRight, HandleScope, ScopeOf
<1>11. /\ DOMAIN r.changed = N \ DOMAIN b.entries
       /\ Removed(r) = DOMAIN b.entries \ N
       /\ IsSent(w) /\ w.token = b.token /\ DOMAIN w.entries = N
  BY <1>0, <1>10, HandleRoundIs
<1>12. PICK s : /\ s = IF DOMAIN w.entries = {} /\ w.token = 0 THEN NewScope ELSE w
  OBVIOUS
<1>13. /\ \A x : HandleScope(x)' = IF x = p THEN s ELSE HandleScope(x)
       /\ \A x : SocketScope(x)' = SocketScope(x)
  BY <1>8, <1>12, ScopeAfter DEF HandleScope, SocketScope
<1>14. IsSent(s) /\ s.token = b.token /\ DOMAIN s.entries = N
  BY <1>11, <1>12, NewScopeParts
<1>15. \A x : NamedHandles(x)' = NamedHandles(x)
  BY <1>6 DEF NamedHandles
<1>16. ListCache'
  <2>1. HandlesRight(p)'
    <3>1. HandleScope(p)' = s /\ proc'[p].handleVersion = proc[p].handleVersion /\ NamedHandles(p)' = N
      BY <1>0, <1>6, <1>13, <1>15
    <3> QED BY <1>10, <1>14, <3>1 DEF HandlesRight
  <2>2. ASSUME NEW x \in Procs, x # p
        PROVE  HandlesRight(x)'
    BY <1>0, <1>6, <1>9, <1>13, <1>15, <2>2 DEF HandlesRight
  <2> QED BY <1>6, <1>7, <1>9, <1>13, <2>1, <2>2 DEF ListCache
<1>17. PICK d : d = Part(q.changed, p, Empty)
  OBVIOUS
<1>18. /\ \A x : x # p => Part(q.changed, x, Empty) = Added(x)
       /\ \A x : x # p => (x \in q.scope.seen <=> x \in Scope.seen)
       /\ \A k : k \notin {"handles", "oldHandles"} => SamePart(Added(p), d, k)
       /\ {"handles", "oldHandles"} \cap DOMAIN Added(p) = {} =>
            /\ "handles" \in DOMAIN d <=> ~(r.changed = Empty)
            /\ ~(r.changed = Empty) => d["handles"] = DOMAIN r.changed
            /\ "oldHandles" \in DOMAIN d <=> ~(Removed(r) = {})
            /\ ~(Removed(r) = {}) => d["oldHandles"] = Removed(r)
  <2>1. PICK v, none : v = DOMAIN r.changed /\ none = (r.changed = Empty)
    OBVIOUS
  <2>2. PICK u, same : u = Removed(r) /\ same = (Removed(r) = {})
    OBVIOUS
  <2>3. q = WriteSubDelta(WriteSubDelta(builder.round, p, "handles", v, none), p, "oldHandles", u, same)
    BY <1>4, <2>1, <2>2
  <2>4. none \in BOOLEAN /\ same \in BOOLEAN /\ "handles" \notin Flds /\ "oldHandles" \notin Flds
    BY <2>1, <2>2, ListNames
  <2>5. builder.at \in Inside
    BY <1>2
  <2>6. ListsPut(q, p, "handles", v, none, "oldHandles", u, same)
    BY <1>0, <2>3, <2>4, <2>5, ListsAdded
  <2> QED BY <1>17, <2>1, <2>2, <2>6 DEF ListsPut, HasBoth
<1>19. /\ \A x : Added(x)' = Part(q.changed, x, Empty)
       /\ Scope' = q.scope
  BY <1>7 DEF Added, Changed, Scope
<1>20. Single => HandlesOf(p) /\ SocketsOf(p) /\ (builder.full => DOMAIN viewer = {})
  BY <1>3 DEF ListsMirrored, ListRoundInv
<1>21. Single => HandlesOf(p)'
  <2> SUFFICES ASSUME Single PROVE HandlesOf(p)'
    OBVIOUS
  <2>1. {"handles", "oldHandles"} \cap DOMAIN Added(p) = {}
    BY <1>0, <1>2, <1>20 DEF HandlesOf, BeforeHandles
  <2>2. PICK row : row = Row(p)
    OBVIOUS
  <2>3. row.handles = DOMAIN b.entries
    BY <1>0, <1>20, <2>1, <2>2, NoHandles DEF HandlesOf
  <2>4. builder.full => row.handles = {}
    BY <1>20, <2>2 DEF Row, NewRow
  <2>5. Part(d, "handles", {}) = N \ row.handles
    <3>1. r.changed = Empty => DOMAIN r.changed = {}
      BY DEF Empty
    <3> QED BY <1>11, <1>18, <2>1, <2>3, <3>1 DEF Part
  <2>6. Part(d, "oldHandles", {}) = row.handles \ N
    BY <1>11, <1>18, <2>1, <2>3 DEF Part
  <2>7. UpdateHandles(row, d, builder.full) = N
    BY <2>4, <2>5, <2>6, HandlesMerged
  <2>8. Row(p)' = row /\ Added(p)' = d /\ DOMAIN HandleScope(p)'.entries = N /\ NamedHandles(p)' = N
    BY <1>0, <1>6, <1>13, <1>14, <1>15, <1>17, <1>19, <2>2 DEF Row
  <2>9. ~BeforeHandles(p)'
    BY <1>7 DEF BeforeHandles
  <2> QED BY <1>7, <2>7, <2>8, <2>9 DEF HandlesOf
<1>22. BeforeSockets(p) /\ BeforeSockets(p)'
  BY <1>0, <1>2, <1>7 DEF BeforeSockets, Inside
<1>23. SamePart(Added(p), Added(p)', "sockets") /\ SamePart(Added(p), Added(p)', "oldSockets")
  BY <1>17, <1>18, <1>19
<1>24. Single => SocketsOf(p)'
  BY <1>6, <1>7, <1>13, <1>20, <1>22, <1>23, SocketsFrom
<1>25. (builder.at \in Inside => builder.p = p) /\ (builder'.at \in Inside => builder'.p = p) /\ InRound'
  BY <1>0, <1>7 DEF InRound, Inside
<1>26. \A x \in Procs : x # p =>
         /\ HandleScope(x)' = HandleScope(x) /\ SocketScope(x)' = SocketScope(x)
         /\ Added(x)' = Added(x)
         /\ x \in builder'.todo <=> x \in builder.todo
         /\ x \in Scope'.seen <=> x \in Scope.seen
  BY <1>7, <1>13, <1>18, <1>19
<1> QED BY <1>3, <1>6, <1>7, <1>16, <1>21, <1>24, <1>25, <1>26, MirrorStep

\* The sockets are listed: the answer has what is new, changed and gone.
LEMMA EnumSocketsMirror ==
    ASSUME Inv, Inv', ListsMirrored, EnumSockets
    PROVE  ListsMirrored'
<1>0. PICK p, r, b, w, N : /\ p = builder.p /\ r = SocketRound(p) /\ b = SocketScope(p)
                           /\ w = Swept(r) /\ N = LiveSockets(p)
  OBVIOUS
<1>1. builder.at = "sockets"
  BY DEF EnumSockets
<1>2. builder.at \in Inside /\ builder.at # "handles" /\ "next" \notin Inside
  BY <1>1, DeltaConstants DEF Inside
<1>3. useCache /\ p \in Procs /\ p \notin builder.todo /\ InRound /\ p \in Scope.seen
  BY <1>0, <1>2, InsideParts
<1>4. PICK q : q = WriteSubDelta(WriteSubDelta(builder.round, p, "sockets", r.changed, r.changed = Empty),
                                 p, "oldSockets", Removed(r), Removed(r) = {})
  OBVIOUS
<1>5. Build([at |-> "next", full |-> builder.full, todo |-> builder.todo, round |-> q],
            [lists EXCEPT !.sockets = PutScope(@, p, w)])
  BY <1>0, <1>4 DEF EnumSockets
<1>6. UNCHANGED <<useCache, proc, viewer, pending, touched, lost, reloads>>
  BY <1>5 DEF Build, collector
<1>7. /\ builder'.at = "next" /\ builder'.full = builder.full /\ builder'.todo = builder.todo
      /\ builder'.round = q
  BY <1>5 DEF Build
<1>8. lists'.sockets = PutScope(lists.sockets, p, w) /\ lists'.handles = lists.handles
  BY <1>5 DEF Build, Inv, Shape
<1>9. ListCache /\ \A x \in Procs : HandlesRight(x) /\ IsSocketScope(SocketScope(x))
  BY DEF ListsMirrored, ListCache
<1>10. /\ b = ScopeOf(lists.sockets, p) /\ IsSocketScope(b) /\ IsFiniteSet(LiveSockets(p))
       /\ \A x \in LiveSockets(p) : proc[p].socket[x].ex \in BOOLEAN
  <2>1. LiveSockets(p) \subseteq Sockets
    BY DEF LiveSockets
  <2>2. IsFiniteSet(LiveSockets(p))
    BY <2>1, FS_Subset, DeltaConstants
  <2>3. proc[p].socket \in [Sockets -> SocketT]
    BY <1>3, ProcParts DEF Inv, Shape
  <2>4. \A x \in LiveSockets(p) : proc[p].socket[x].ex \in BOOLEAN
    BY <2>1, <2>3 DEF SocketT
  <2> QED BY <1>0, <1>3, <1>9, <2>2, <2>4 DEF SocketScope
<1>11. PICK c : c = r.changed
  OBVIOUS
<1>12. /\ DOMAIN c \subseteq N /\ N \ DOMAIN b.entries \subseteq DOMAIN c
       /\ \A x \in N : MergeFields(SentFields(b, x), Part(c, x, Empty)) = ShownSocket(p, x)
       /\ Removed(r) = DOMAIN b.entries \ N
       /\ IsSocketScope(w) /\ DOMAIN w.entries = N
       /\ \A x \in N : w.entries[x].fields = ShownSocket(p, x)
  BY <1>0, <1>10, <1>11, SocketRoundIs
<1>13. PICK s : s = IF DOMAIN w.entries = {} /\ w.token = 0 THEN NewScope ELSE w
  OBVIOUS
<1>14. /\ \A x : SocketScope(x)' = IF x = p THEN s ELSE SocketScope(x)
       /\ \A x : HandleScope(x)' = HandleScope(x)
  BY <1>8, <1>13, ScopeAfter DEF HandleScope, SocketScope
<1>15. IsSocketScope(s) /\ DOMAIN s.entries = N /\ \A x \in N : s.entries[x].fields = ShownSocket(p, x)
  BY <1>12, <1>13, NewScopeParts
<1>16. ListCache'
  <2>1. ASSUME NEW x \in Procs
        PROVE  HandlesRight(x)'
    <3>1. NamedHandles(x)' = NamedHandles(x)
      BY <1>6 DEF NamedHandles
    <3> QED BY <1>2, <1>6, <1>9, <1>14, <3>1 DEF HandlesRight
  <2>2. \A x \in Procs : IsSocketScope(SocketScope(x)')
    BY <1>9, <1>14, <1>15
  <2> QED BY <1>6, <1>7, <1>9, <2>1, <2>2 DEF ListCache
<1>17. PICK d : d = Part(q.changed, p, Empty)
  OBVIOUS
<1>18. /\ \A x : x # p => Part(q.changed, x, Empty) = Added(x)
       /\ \A x : x # p => (x \in q.scope.seen <=> x \in Scope.seen)
       /\ \A k : k \notin {"sockets", "oldSockets"} => SamePart(Added(p), d, k)
       /\ {"sockets", "oldSockets"} \cap DOMAIN Added(p) = {} =>
            /\ "sockets" \in DOMAIN d <=> ~(c = Empty)
            /\ ~(c = Empty) => d["sockets"] = c
            /\ "oldSockets" \in DOMAIN d <=> ~(Removed(r) = {})
            /\ ~(Removed(r) = {}) => d["oldSockets"] = Removed(r)
  <2>1. PICK none, u, same : none = (c = Empty) /\ u = Removed(r) /\ same = (Removed(r) = {})
    OBVIOUS
  <2>2. q = WriteSubDelta(WriteSubDelta(builder.round, p, "sockets", c, none), p, "oldSockets", u, same)
    BY <1>4, <1>11, <2>1
  <2>3. none \in BOOLEAN /\ same \in BOOLEAN /\ "sockets" \notin Flds /\ "oldSockets" \notin Flds
    BY <2>1, ListNames
  <2>4. ListsPut(q, p, "sockets", c, none, "oldSockets", u, same)
    BY <1>0, <1>2, <2>2, <2>3, ListsAdded
  <2> QED BY <1>17, <2>1, <2>4 DEF ListsPut, HasBoth
<1>19. /\ \A x : Added(x)' = Part(q.changed, x, Empty)
       /\ Scope' = q.scope
  BY <1>7 DEF Added, Changed, Scope
<1>20. Single => HandlesOf(p) /\ SocketsOf(p) /\ (builder.full => DOMAIN viewer = {}) /\ IsRow(Row(p))
  <2>1. Single => HandlesOf(p) /\ SocketsOf(p) /\ (builder.full => DOMAIN viewer = {})
    BY <1>3 DEF ListsMirrored, ListRoundInv
  <2>2. Single => IsRow(Row(p))
    BY RowIsRow DEF ListsMirrored
  <2> QED BY <2>1, <2>2
<1>21. Single => SocketsOf(p)'
  <2> SUFFICES ASSUME Single PROVE SocketsOf(p)'
    OBVIOUS
  <2>1. {"sockets", "oldSockets"} \cap DOMAIN Added(p) = {}
    BY <1>0, <1>2, <1>20 DEF SocketsOf, BeforeSockets
  <2>2. PICK row : row = Row(p)
    OBVIOUS
  <2>3. row.sockets = [x \in DOMAIN b.entries |-> b.entries[x].fields]
    <3>1. UpdateSockets(row, Added(p), builder.full) = row.sockets
      BY <1>20, <2>1, <2>2, NoSockets
    <3>2. row.sockets = SentSockets(p)
      BY <1>20, <2>2, <3>1 DEF SocketsOf
    <3> QED BY <1>0, <3>2 DEF SentSockets
  <2>4. builder.full => DOMAIN row.sockets = {}
    BY <1>20, <2>2 DEF Row, NewRow, Empty
  <2>5. Part(d, "sockets", Empty) = c /\ Part(d, "oldSockets", {}) = DOMAIN b.entries \ N
    BY <1>12, <1>18, <2>1 DEF Part
  <2>6. UpdateSockets(row, d, builder.full) = [x \in N |-> ShownSocket(p, x)]
    <3>1. PICK full : full = builder.full
      OBVIOUS
    <3>2. TakesTo(p, row, b, c, d, full, N)
      BY <1>12, <2>3, <2>4, <2>5, <3>1 DEF TakesTo
    <3> QED BY <3>1, <3>2, SocketsMerged
  <2>7. Row(p)' = row /\ Added(p)' = d /\ SocketScope(p)' = s
    BY <1>6, <1>14, <1>17, <1>19, <2>2 DEF Row
  <2>8. SentSockets(p)' = [x \in N |-> ShownSocket(p, x)]
    BY <1>15, <2>7 DEF SentSockets
  <2>9. [x \in LiveSockets(p) |-> ShownSocket(p, x)]' = [x \in N |-> ShownSocket(p, x)]
    BY <1>0, <1>6 DEF LiveSockets, ShownSocket
  <2>10. ~BeforeSockets(p)'
    BY <1>2, <1>7 DEF BeforeSockets
  <2> QED BY <1>7, <2>6, <2>7, <2>8, <2>9, <2>10 DEF SocketsOf
<1>22. ~BeforeHandles(p) /\ ~BeforeHandles(p)'
  BY <1>1, <1>2, <1>7 DEF BeforeHandles
<1>23. SamePart(Added(p), Added(p)', "handles") /\ SamePart(Added(p), Added(p)', "oldHandles")
  BY <1>17, <1>18, <1>19
<1>24. WasRead(p)' => WasRead(p)
  BY <1>3, <1>6, <1>7 DEF WasRead
<1>25. DOMAIN HandleScope(p)'.entries = DOMAIN HandleScope(p).entries
  BY <1>14
<1>26. Single => HandlesOf(p)'
  BY <1>6, <1>7, <1>20, <1>22, <1>23, <1>24, <1>25, HandlesFrom
<1>27. (builder.at \in Inside => builder.p = p) /\ (builder'.at \in Inside => builder'.p = p) /\ InRound'
  BY <1>0, <1>2, <1>7 DEF InRound
<1>28. \A x \in Procs : x # p =>
         /\ HandleScope(x)' = HandleScope(x) /\ SocketScope(x)' = SocketScope(x)
         /\ Added(x)' = Added(x)
         /\ x \in builder'.todo <=> x \in builder.todo
         /\ x \in Scope'.seen <=> x \in Scope.seen
  BY <1>7, <1>14, <1>18, <1>19
<1> QED BY <1>3, <1>6, <1>7, <1>16, <1>21, <1>26, <1>27, <1>28, MirrorStep

-----------------------------------------------------------------------------
(* Beginning a round, losing the connection, and what the viewer takes over *)

LEMMA AgreesSame ==
    ASSUME ListAgrees, UNCHANGED <<proc, viewer, touched>>, Single' => Single
    PROVE  ListAgrees'
<1>1. \A row, x : ShowsLists(row, x)' <=> ShowsLists(row, x)
  BY DEF ShowsLists, NamedHandles, LiveSockets, ShownSocket
<1> QED BY <1>1 DEF ListAgrees

\* Without lists there is nothing to be wrong.
LEMMA NoCaches ==
    /\ lists = NoLists /\ builder.at # "handles" /\ lost \in Nat /\ reloads \in Nat
    /\ \A p \in Procs : /\ proc[p].handleVersion \in Nat
                        /\ proc[p].handleVersion = 0 => NamedHandles(p) = {}
    => ListCache
<1> SUFFICES ASSUME lists = NoLists, builder.at # "handles", lost \in Nat, reloads \in Nat,
                    \A p \in Procs : /\ proc[p].handleVersion \in Nat
                                     /\ proc[p].handleVersion = 0 => NamedHandles(p) = {}
             PROVE  ListCache
  OBVIOUS
<1>1. \A p : HandleScope(p) = NewScope /\ SocketScope(p) = NewScope
  BY NoListsParts DEF HandleScope, SocketScope, ScopeOf
<1>2. ASSUME NEW p \in Procs
      PROVE  HandlesRight(p)
  <2>1. PICK s : s = NewScope /\ HandleScope(p) = s
    BY <1>1
  <2>2. IsSent(s) /\ s.token = 0 /\ DOMAIN s.entries = {}
    BY <2>1, NewScopeParts
  <2>3. s.token \in Nat /\ s.token <= proc[p].handleVersion
    BY <2>2
  <2>4. s.token = proc[p].handleVersion => DOMAIN s.entries = NamedHandles(p)
    BY <2>2
  <2> QED BY <2>1, <2>2, <2>3, <2>4 DEF HandlesRight
<1> QED BY <1>1, <1>2, NewScopeParts DEF ListCache

LEMMA NoCachesNext ==
    ASSUME Inv, ListCache, lists' = NoLists, UNCHANGED proc, builder'.at # "handles",
           lost' \in Nat, reloads' \in Nat
    PROVE  ListCache'
<1>1. \A p \in Procs : /\ proc'[p].handleVersion \in Nat
                       /\ proc'[p].handleVersion = 0 => NamedHandles(p)' = {}
  <2>1. \A p \in Procs : proc[p].handleVersion \in Nat
    BY ProcParts DEF Inv, Shape
  <2>2. \A p \in Procs : HandlesRight(p) /\ NamedHandles(p)' = NamedHandles(p)
    BY DEF ListCache, NamedHandles
  <2> QED BY <2>1, <2>2 DEF HandlesRight
<1>2. (/\ lists = NoLists /\ builder.at # "handles" /\ lost \in Nat /\ reloads \in Nat
       /\ \A p \in Procs : /\ proc[p].handleVersion \in Nat
                           /\ proc[p].handleVersion = 0 => NamedHandles(p) = {}
       => ListCache)'
  BY NoCaches, PTL
<1>3. NoLists' = NoLists
  BY DEF NoLists, NewScope, Empty
<1> QED BY <1>1, <1>2, <1>3

LEMMA StartMirror ==
    ASSUME ListsMirrored, NEW full, NEW base, base.processes \in ScopeT, StartRound(full, base),
           ListCache', Single' => Single,
           Single' /\ useCache => /\ full => DOMAIN viewer = {}
                                  /\ \A p \in Procs : Follows(Row(p), p)'
    PROVE  ListsMirrored'
<1>1. PICK q : q = BeginRound(base.processes)
  OBVIOUS
<1>2. /\ builder' = [at |-> "next", full |-> full, todo |-> Live, round |-> q]
      /\ UNCHANGED <<useCache, proc, viewer, touched>>
  BY <1>1 DEF StartRound, collector
<1>3. q.scope.seen = {} /\ q.changed = Empty /\ DOMAIN Empty = {}
  BY <1>1, BeginRoundEffect DEF BeginRound, Empty
<1>4. /\ builder'.at = "next" /\ builder'.full = full /\ Changed' = Empty /\ Scope'.seen = {}
  BY <1>2, <1>3 DEF Changed, Scope
<1>5. \A p : Added(p)' = Empty
  BY <1>3, <1>4 DEF Added, Part
<1>6. \A p : ~BeforeHandles(p)' /\ ~BeforeSockets(p)' /\ ~WasRead(p)'
  BY <1>4, DeltaConstants DEF BeforeHandles, BeforeSockets, WasRead, Inside
<1>7. ListRoundInv'
  <2> SUFFICES ASSUME Single', useCache
               PROVE  /\ full => DOMAIN viewer' = {}
                      /\ \A p \in Procs : HandlesOf(p)' /\ SocketsOf(p)' /\ Added(p)' = Empty
    BY <1>2, <1>4 DEF ListRoundInv
  <2>1. ASSUME NEW p \in Procs
        PROVE  HandlesOf(p)' /\ SocketsOf(p)'
    <3>1. PICK row : row = Row(p)
      OBVIOUS
    <3>2. IsRow(row)
      BY <3>1, RowIsRow DEF ListsMirrored
    <3>3. Row(p)' = row /\ Follows(Row(p), p)'
      BY <1>2, <2>1, <3>1 DEF Row
    <3>4. row.handles = DOMAIN HandleScope(p)'.entries /\ row.sockets = SentSockets(p)'
      BY <3>3 DEF Follows
    <3>5. {"handles", "oldHandles"} \cap DOMAIN Empty = {} /\ {"sockets", "oldSockets"} \cap DOMAIN Empty = {}
      BY <1>3
    <3>6. UpdateHandles(row, Empty, full) = row.handles
      BY <3>5, NoHandles
    <3>7. UpdateSockets(row, Empty, full) = row.sockets
      BY <3>2, <3>5, NoSockets
    <3>8. HandlesOf(p)'
      BY <1>4, <1>5, <1>6, <3>3, <3>4, <3>6 DEF HandlesOf
    <3>9. SocketsOf(p)'
      BY <1>4, <1>5, <1>6, <3>3, <3>4, <3>7 DEF SocketsOf
    <3> QED BY <3>8, <3>9
  <2> QED BY <1>2, <1>5, <2>1
<1>8. ListFileInv'
  BY <1>3, <1>4 DEF ListFileInv
<1>9. ListSentInv' /\ ListIdleInv'
  BY <1>4 DEF ListSentInv, ListIdleInv
<1>10. ListAgrees'
  BY <1>2, AgreesSame DEF ListsMirrored
<1> QED BY <1>7, <1>8, <1>9, <1>10 DEF ListsMirrored

LEMMA GetProcessesMirror ==
    ASSUME Inv, ListsMirrored, GetProcesses
    PROVE  ListsMirrored'
<1>1. PICK full, base : full = (~useCache \/ IsEmpty(lists.processes)) /\ base = lists
  OBVIOUS
<1>2. /\ StartRound(full, base) /\ base.processes \in ScopeT
      /\ UNCHANGED <<useCache, proc, lists, viewer, touched, lost, reloads>>
  BY <1>1 DEF GetProcesses, StartRound, collector, Inv, Shape
<1>3. builder.at = "idle" /\ builder'.at = "next"
  BY <1>2 DEF StartRound
<1>4. ListCache' /\ (Single' <=> Single)
  BY <1>2, <1>3, CacheSame DEF ListsMirrored, Single
<1>5. ASSUME Single, useCache
      PROVE  /\ full => DOMAIN viewer = {}
             /\ \A p \in Procs : Follows(Row(p), p)'
  <2>1. /\ DOMAIN viewer = DOMAIN lists.processes.entries
        /\ \A p \in DOMAIN viewer : Follows(viewer[p], p)
    BY <1>3, <1>5 DEF ListsMirrored, ListIdleInv
  <2>2. full => DOMAIN viewer = {}
    BY <1>1, <1>5, <2>1 DEF IsEmpty
  <2>3. ASSUME NEW p \in Procs
        PROVE  Follows(Row(p), p)
    <3>1. CASE p \in DOMAIN viewer
      BY <2>1, <3>1 DEF Row
    <3>2. CASE p \notin DOMAIN viewer
      <4>1. ~InRound
        BY <1>3, DeltaConstants DEF InRound, Inside
      <4>2. p \notin DOMAIN lists.handles \cup DOMAIN lists.sockets
        BY <2>1, <3>2, <4>1 DEF Inv, ListInv
      <4>3. HandleScope(p).entries = Empty /\ SocketScope(p).entries = Empty /\ DOMAIN Empty = {}
        BY <4>2 DEF HandleScope, SocketScope, ScopeOf, NewScope, Empty
      <4>4. SentSockets(p) = Empty
        BY <4>3 DEF SentSockets, Empty
      <4>5. Row(p).handles = {} /\ Row(p).sockets = Empty
        BY <3>2 DEF Row, NewRow
      <4> QED BY <4>3, <4>4, <4>5 DEF Follows
    <3> QED BY <3>1, <3>2
  <2>4. \A p : /\ Row(p)' = Row(p) /\ HandleScope(p)' = HandleScope(p)
               /\ SocketScope(p)' = SocketScope(p)
    BY <1>2 DEF Row, HandleScope, SocketScope
  <2>5. \A p : SentSockets(p)' = SentSockets(p)
    BY <1>2 DEF SentSockets, SocketScope
  <2>6. \A p \in Procs : Follows(Row(p), p)'
    BY <2>3, <2>4, <2>5 DEF Follows
  <2> QED BY <2>2, <2>6
<1> QED BY <1>2, <1>4, <1>5, StartMirror

LEMMA ReloadMirror ==
    ASSUME Inv, ListsMirrored, Reload
    PROVE  ListsMirrored'
<1>1. PICK full, base : full = TRUE /\ base = NoLists
  OBVIOUS
<1>2. StartRound(full, base) /\ base.processes \in ScopeT /\ reloads' = reloads + 1 /\ lost' = lost
  BY <1>1, NoListsParts DEF Reload
<1>3. /\ builder'.at = "next" /\ lists' = NoLists
      /\ UNCHANGED <<useCache, proc>>
  BY <1>1, <1>2 DEF StartRound, collector
<1>4. ListCache
  BY DEF ListsMirrored
<1>5. lost' \in Nat /\ reloads' \in Nat /\ reloads' # 0
  BY <1>2, <1>4 DEF ListCache
<1>6. ListCache'
  BY <1>3, <1>4, <1>5, NoCachesNext
<1>7. Single' => ~useCache
  BY <1>3, <1>5 DEF Single
<1>8. Single' => Single
  BY <1>7 DEF Single
<1> QED BY <1>2, <1>6, <1>7, <1>8, StartMirror

LEMMA LoseConnectionMirror ==
    ASSUME Inv, ListsMirrored, LoseConnection
    PROVE  ListsMirrored'
<1>1. /\ lost' = lost + 1 /\ lists' = NoLists /\ builder' = [at |-> "idle"]
      /\ UNCHANGED <<useCache, proc, viewer, touched, reloads>>
  BY DEF LoseConnection, collector, Idle
<1>2. builder'.at = "idle" /\ "idle" \notin {"next"} \cup Inside
  BY <1>1, DeltaConstants DEF Inside
<1>3. ListCache
  BY DEF ListsMirrored
<1>4. lost' \in Nat /\ reloads' \in Nat /\ lost' # 0
  BY <1>1, <1>3 DEF ListCache
<1>5. ListCache'
  BY <1>1, <1>2, <1>3, <1>4, NoCachesNext
<1>6. Single' => ~useCache
  BY <1>1, <1>4 DEF Single
<1>7. ~InRound'
  BY <1>2 DEF InRound
<1>8. ListRoundInv' /\ ListFileInv' /\ ListSentInv'
  BY <1>2, <1>7 DEF ListRoundInv, ListFileInv, ListSentInv
<1>9. ListIdleInv'
  BY <1>1, <1>6 DEF ListIdleInv
<1>10. ListAgrees'
  BY <1>1, <1>6, AgreesSame DEF ListsMirrored, Single
<1> QED BY <1>5, <1>8, <1>9, <1>10 DEF ListsMirrored

LEMMA UpdateMirror ==
    ASSUME Inv, ListsMirrored, Update
    PROVE  ListsMirrored'
<1>1. PICK m : m = Merged(reply)
  OBVIOUS
<1>2. /\ builder.at = "sent" /\ viewer' = m /\ touched' = pending /\ builder' = [at |-> "idle"]
      /\ UNCHANGED <<useCache, proc, lists, pending, lost, reloads>>
  BY <1>1 DEF Update, collector, Idle
<1>3. builder'.at = "idle" /\ "idle" \notin {"next"} \cup Inside
  BY <1>2, DeltaConstants DEF Inside
<1>4. ListCache' /\ (Single' <=> Single)
  BY <1>2, <1>3, CacheSame DEF ListsMirrored, Single
<1>5. ~InRound'
  BY <1>3 DEF InRound
<1>6. ListRoundInv' /\ ListFileInv' /\ ListSentInv'
  BY <1>3, <1>5 DEF ListRoundInv, ListFileInv, ListSentInv
<1>7. Single => \A p \in DOMAIN m : /\ IsRow(m[p])
                                    /\ p \notin pending => ShowsLists(m[p], p)
                                    /\ useCache => Follows(m[p], p)
  BY <1>1, <1>2 DEF ListsMirrored, ListSentInv
<1>8. /\ \A row, x : ShowsLists(row, x)' <=> ShowsLists(row, x)
      /\ \A row, x : Follows(row, x)' <=> Follows(row, x)
  <2>1. \A row, x : ShowsLists(row, x)' <=> ShowsLists(row, x)
    BY <1>2 DEF ShowsLists, NamedHandles, LiveSockets, ShownSocket
  <2>2. \A row, x : Follows(row, x)' <=> Follows(row, x)
    BY <1>2 DEF Follows, SentSockets, HandleScope, SocketScope
  <2> QED BY <2>1, <2>2
<1>9. ListIdleInv'
  <2>1. useCache => DOMAIN m = DOMAIN lists.processes.entries
    BY <1>1, <1>2 DEF Inv, SentInv
  <2> QED BY <1>2, <1>4, <1>7, <1>8, <2>1 DEF ListIdleInv
<1>10. ListAgrees'
  BY <1>2, <1>4, <1>7, <1>8 DEF ListAgrees
<1> QED BY <1>4, <1>6, <1>9, <1>10 DEF ListsMirrored

LEMMA ToVariantMirror ==
    ASSUME Inv, Inv', ListsMirrored, NEW p \in Procs, ToVariant(p)
    PROVE  ListsMirrored'
<1> DEFINE socket == [s \in LiveSockets(p) |-> ShownSocket(p, s)]
           all == [f \in {"plain", "handles", "sockets"} \cup Groups |->
                     CASE f = "plain"   -> proc[p].plain
                       [] f = "handles" -> NamedHandles(p)
                       [] f = "sockets" -> socket
                       [] OTHER         -> proc[p].group[f]]
<1>1. /\ ~useCache /\ builder.at = "next" /\ p \in builder.todo
      /\ builder' = [builder EXCEPT !.todo = @ \ {p}, !.round.changed = Put(@, p, all)]
      /\ UNCHANGED <<useCache, proc, lists, viewer, pending, touched, lost, reloads>>
  BY DEF ToVariant, Build, collector, ShownSocket, SocketFlds
<1>2. /\ {"handles", "sockets"} \subseteq DOMAIN all /\ {"oldHandles", "oldSockets"} \cap DOMAIN all = {}
      /\ all["handles"] = NamedHandles(p) /\ all["sockets"] = socket
  <2> HIDE DEF socket
  <2> QED BY DeltaConstants
<1>3. /\ socket = [s \in DOMAIN socket |-> socket[s]]
      /\ \A s \in DOMAIN socket : IsSocket(socket[s])
  <2>1. \A s \in LiveSockets(p) : proc[p].socket[s].ex \in BOOLEAN
    BY ProcParts DEF Inv, Shape, LiveSockets, SocketT
  <2>2. ASSUME NEW s \in LiveSockets(p)
        PROVE  IsSocket(ShownSocket(p, s))
    BY <2>1 DEF IsSocket, ShownSocket, SocketFlds
  <2> QED BY <2>2
<1>4. PICK q : q = socket
  OBVIOUS
<1>5. PICK all2 : all2 = all
  OBVIOUS
<1>6. /\ {"handles", "sockets"} \subseteq DOMAIN all2 /\ {"oldHandles", "oldSockets"} \cap DOMAIN all2 = {}
      /\ all2.handles = NamedHandles(p) /\ all2.sockets = q
      /\ AreSockets(q)
  BY <1>2, <1>3, <1>4, <1>5 DEF AreSockets
<1>7. q = [s \in LiveSockets(p) |-> ShownSocket(p, s)]
  BY <1>4
<1> HIDE DEF all, socket
<1>8. PICK b : /\ b = builder /\ b = [at |-> "next", full |-> b.full, todo |-> b.todo, round |-> b.round]
               /\ b.round = [scope |-> b.round.scope, changed |-> b.round.changed]
  BY <1>1 DEF Inv, Shape, InRound, IsRound
<1>9. builder'.at = "next" /\ Changed' = Put(Changed, p, all2)
  <2>1. PICK n : n = Put(b.round.changed, p, all2)
    OBVIOUS
  <2>2. builder' = [b EXCEPT !.todo = @ \ {p}, !.round = [b.round EXCEPT !.changed = n]]
    BY <1>1, <1>5, <1>8, <2>1
  <2>3. PICK f, t, w : b = [at |-> "next", full |-> f, todo |-> t, round |-> w]
    BY <1>8
  <2>4. builder' = [at |-> "next", full |-> f, todo |-> t \ {p}, round |-> [b.round EXCEPT !.changed = n]]
    BY <2>2, <2>3
  <2>5. [b.round EXCEPT !.changed = n].changed = n
    BY <1>8
  <2>6. builder'.at = "next" /\ builder'.round.changed = n
    BY <2>4, <2>5
  <2> QED BY <1>8, <2>1, <2>6 DEF Changed
<1>10. PICK c, e : c = Changed /\ e = Changed' /\ e = Put(c, p, all2)
  BY <1>9
<1>11. InRound /\ InRound' /\ "next" # "handles"
  BY <1>1, <1>9 DEF InRound
<1>12. ListCache' /\ (Single' <=> Single)
  BY <1>1, <1>9, CacheSame DEF ListsMirrored, Single
<1>13. ListFileInv'
  <2>1. /\ \A x : NamedHandles(x)' = NamedHandles(x)
        /\ \A x : [s \in LiveSockets(x) |-> ShownSocket(x, s)]' = [s \in LiveSockets(x) |-> ShownSocket(x, s)]
    BY <1>1 DEF NamedHandles, LiveSockets, ShownSocket
  <2>2. ASSUME NEW x \in DOMAIN e
        PROVE  /\ {"handles", "sockets"} \subseteq DOMAIN e[x]
               /\ {"oldHandles", "oldSockets"} \cap DOMAIN e[x] = {}
               /\ AreSockets(e[x].sockets)
               /\ x \notin pending =>
                    /\ e[x].handles = NamedHandles(x)
                    /\ e[x].sockets = [s \in LiveSockets(x) |-> ShownSocket(x, s)]
    <3>1. CASE x = p
      <4>1. e[x] = all2
        BY <1>10, <3>1 DEF Put
      <4> QED BY <1>6, <1>7, <3>1, <4>1
    <3>2. CASE x # p
      <4>1. e[x] = c[x] /\ x \in DOMAIN c
        BY <1>10, <3>2 DEF Put
      <4> QED BY <1>1, <1>10, <1>11, <4>1 DEF ListsMirrored, ListFileInv
    <3> QED BY <3>1, <3>2
  <2> QED BY <1>1, <1>10, <2>1, <2>2 DEF ListFileInv
<1>14. ListRoundInv' /\ ListSentInv' /\ ListIdleInv'
  BY <1>1, <1>9 DEF ListRoundInv, ListSentInv, ListIdleInv
<1>15. ListAgrees'
  BY <1>1, <1>12, AgreesSame DEF ListsMirrored
<1> QED BY <1>12, <1>13, <1>14, <1>15 DEF ListsMirrored

\* A complete list takes the place of what the row had.
LEMMA WholeHandles ==
    ASSUME NEW row, NEW e, "handles" \in DOMAIN e, "oldHandles" \notin DOMAIN e
    PROVE  UpdateHandles(row, e, TRUE) = e.handles
BY DEF UpdateHandles, Part

LEMMA WholeSockets ==
    ASSUME NEW row, IsRow(row), NEW e, "sockets" \in DOMAIN e, "oldSockets" \notin DOMAIN e,
           NEW v, v = e.sockets, AreSockets(v)
    PROVE  UpdateSockets(row, e, TRUE) = v
<1> DEFINE R == row.sockets
           n == [s \in {} \cup DOMAIN v |->
                   MergeFields(IF s \in DOMAIN R THEN R[s] ELSE Empty, Part(v, s, Empty))]
<1>0. v = [s \in DOMAIN v |-> v[s]] /\ \A s \in DOMAIN v : IsSocket(v[s])
  BY DEF AreSockets
<1>1. Part(e, "sockets", Empty) = v /\ Part(e, "oldSockets", {}) = {}
  BY DEF Part
<1>2. UpdateSockets(row, e, TRUE) = Drop(n, {})
  BY <1>1 DEF UpdateSockets
<1>3. ASSUME NEW s \in DOMAIN v
      PROVE  MergeFields(IF s \in DOMAIN R THEN R[s] ELSE Empty, Part(v, s, Empty)) = v[s]
  <2>1. PICK w : w = v[s] /\ IsSocket(w) /\ Part(v, s, Empty) = w
    BY <1>0 DEF Part
  <2>2. CASE s \in DOMAIN R
    <3>1. IsSocket(R[s])
      BY <2>2 DEF IsRow, AreSockets
    <3> QED BY <2>1, <2>2, <3>1, MergeNothing
  <2>3. CASE s \notin DOMAIN R
    <3>1. MergeFields(Empty, w) = w
      <4>1. DOMAIN Empty = {}
        BY DEF Empty
      <4>2. w = [f \in SocketFlds |-> w[f]]
        BY <2>1 DEF IsSocket
      <4>3. DOMAIN w = SocketFlds
        BY <4>2
      <4> HIDE DEF SocketFlds
      <4> QED BY <4>1, <4>2, <4>3 DEF MergeFields
    <3> QED BY <2>1, <2>3, <3>1
  <2> QED BY <2>2, <2>3
<1>4. DOMAIN n = DOMAIN v /\ \A s \in DOMAIN v : n[s] = v[s]
  BY <1>3
<1> HIDE DEF n
<1>5. Drop(n, {}) = [s \in DOMAIN v |-> v[s]]
  BY <1>4 DEF Drop
<1> QED BY <1>0, <1>2, <1>5

\* The lists of the processes that are gone are dropped, the others stay.
LEMMA FinishScopes ==
    ASSUME Inv, FinishProcesses, NEW gone, gone = Removed(builder.round)
    PROVE  /\ \A p : HandleScope(p)' = IF p \in gone THEN NewScope ELSE HandleScope(p)
           /\ \A p : SocketScope(p)' = IF p \in gone THEN NewScope ELSE SocketScope(p)
<1>1. lists' = [ForgetProcesses(lists, gone) EXCEPT
                  !.processes = IF useCache THEN Swept(builder.round) ELSE @]
  BY DEF FinishProcesses
<1>2. PICK a, b, c : lists = [processes |-> a, handles |-> b, sockets |-> c]
  BY DEF Inv, Shape
<1>3. PICK t, u : t = Drop(b, gone) /\ u = Drop(c, gone)
  OBVIOUS
<1>4. ForgetProcesses(lists, gone) = [processes |-> a, handles |-> t, sockets |-> u]
  <2>1. ForgetProcesses(lists, gone) = [lists EXCEPT !.handles = t, !.sockets = u]
    BY <1>2, <1>3 DEF ForgetProcesses
  <2> QED BY <1>2, <2>1
<1>5. lists'.handles = t /\ lists'.sockets = u /\ lists.handles = b /\ lists.sockets = c
  <2>1. PICK w : w = Swept(builder.round)
    OBVIOUS
  <2> QED BY <1>1, <1>2, <1>4, <2>1
<1>6. ASSUME NEW s, NEW p
      PROVE  ScopeOf(Drop(s, gone), p) = IF p \in gone THEN NewScope ELSE ScopeOf(s, p)
  BY DEF ScopeOf, Drop
<1> QED BY <1>3, <1>5, <1>6 DEF HandleScope, SocketScope

\* What a row has of the sockets of a cache, and the row of a process after the answer.
LEMMA SentRows ==
    ASSUME NEW p, IsSocketScope(SocketScope(p)), NEW row, row.sockets = SentSockets(p)
    PROVE  IsRow(row)
<1>1. PICK b : b = SocketScope(p)
  OBVIOUS
<1>2. row.sockets = [s \in DOMAIN b.entries |-> b.entries[s].fields]
  BY <1>1 DEF SentSockets
<1>3. \A x \in DOMAIN b.entries : IsSocket(b.entries[x].fields)
  BY <1>1 DEF IsSocketScope
<1> QED BY <1>2, <1>3 DEF IsRow, AreSockets

LEMMA RowAfter ==
    ASSUME NEW r, r.changed = Changed, NEW p \in DOMAIN Merged(r)
    PROVE  /\ Merged(r)[p].handles = UpdateHandles(Row(p), Added(p), r.full)
           /\ Merged(r)[p].sockets = UpdateSockets(Row(p), Added(p), r.full)
<1>1. PICK row, e : row = Row(p) /\ e = Added(p)
  OBVIOUS
<1>2. Merged(r)[p] = FromVariant(row, e, r.full)
  BY <1>1 DEF Merged, Row, Added
<1> QED BY <1>1, <1>2 DEF FromVariant

\* What is common to finishing a round with the cache and without.
LEMMA FinishMirrorParts ==
    ASSUME Inv, ListsMirrored, FinishProcesses, NEW gone, gone = Removed(builder.round)
    PROVE  /\ builder.at = "next" /\ builder.todo = {} /\ InRound /\ builder'.at = "sent"
           /\ UNCHANGED <<useCache, proc, viewer, pending, touched, lost, reloads>>
           /\ reply'.full = builder.full /\ reply'.changed = Changed
           /\ Merged(reply)' = Merged(reply')
           /\ Single' <=> Single
           /\ ListSentInv' => ListsMirrored'
<1>1. PICK m : m = Merged(reply')
  OBVIOUS
<1>2. /\ builder.at = "next" /\ builder.todo = {} /\ InRound /\ builder'.at = "sent" /\ ~InRound'
      /\ UNCHANGED <<useCache, proc, viewer, pending, touched>>
      /\ reply'.full = builder.full /\ reply'.changed = Changed
      /\ Merged(reply)' = m
  BY <1>1, FinishParts
<1>3. UNCHANGED <<lost, reloads>>
  BY DEF FinishProcesses
<1>4. Single' <=> Single
  BY <1>2, <1>3 DEF Single
<1>5. ListRoundInv' /\ ListFileInv' /\ ListIdleInv' /\ ListAgrees'
  BY <1>2, <1>4, AgreesSame DEF ListRoundInv, ListFileInv, ListIdleInv, ListsMirrored
<1>6. ListCache'
  <2>1. ListCache /\ \A p \in Procs : HandlesRight(p) /\ IsSocketScope(SocketScope(p))
    BY DEF ListsMirrored, ListCache
  <2>2. /\ \A p : HandleScope(p)' = IF p \in gone THEN NewScope ELSE HandleScope(p)
        /\ \A p : SocketScope(p)' = IF p \in gone THEN NewScope ELSE SocketScope(p)
    BY FinishScopes
  <2>3. \A p : NamedHandles(p)' = NamedHandles(p)
    BY <1>2 DEF NamedHandles
  <2>4. ASSUME NEW p \in Procs
        PROVE  HandlesRight(p)'
    <3>1. CASE p \in gone
      <4>1. PICK s : s = NewScope /\ HandleScope(p)' = s
        BY <2>2, <3>1
      <4>2. IsSent(s) /\ s.token = 0 /\ DOMAIN s.entries = {}
        BY <4>1, NewScopeParts
      <4>3. proc[p].handleVersion \in Nat /\ (proc[p].handleVersion = 0 => NamedHandles(p) = {})
        BY <2>1, ProcParts DEF Inv, Shape, HandlesRight
      <4>4. s.token \in Nat /\ s.token <= proc[p].handleVersion
        BY <4>2, <4>3
      <4>5. s.token = proc[p].handleVersion => DOMAIN s.entries = NamedHandles(p)
        BY <4>2, <4>3
      <4> QED BY <1>2, <2>3, <4>1, <4>2, <4>3, <4>4, <4>5 DEF HandlesRight
    <3>2. CASE p \notin gone
      <4>1. HandleScope(p)' = HandleScope(p)
        BY <2>2, <3>2
      <4> QED BY <1>2, <2>1, <2>3, <4>1 DEF HandlesRight
    <3> QED BY <3>1, <3>2
  <2>5. \A p \in Procs : IsSocketScope(SocketScope(p)')
    BY <2>1, <2>2, NewScopeParts
  <2> QED BY <1>2, <1>3, <2>1, <2>4, <2>5 DEF ListCache
<1> QED BY <1>1, <1>2, <1>3, <1>4, <1>5, <1>6 DEF ListsMirrored

LEMMA FinishPlainMirror ==
    ASSUME Inv, ListsMirrored, FinishProcesses, ~useCache
    PROVE  ListsMirrored'
<1>1. PICK r, m, gone : r = reply' /\ m = Merged(r) /\ gone = Removed(builder.round)
  OBVIOUS
<1>2. /\ builder.at = "next" /\ builder.todo = {} /\ InRound /\ builder'.at = "sent"
      /\ UNCHANGED <<useCache, proc, viewer, pending, touched, lost, reloads>>
      /\ r.full = builder.full /\ r.changed = Changed
      /\ Merged(reply)' = m
      /\ ListSentInv' => ListsMirrored'
  BY <1>1, FinishMirrorParts
<1>3. r.full = TRUE /\ Single
  BY <1>2 DEF Inv, Shape, Single
<1>4. DOMAIN m = DOMAIN Changed
  BY <1>1, <1>2, <1>3 DEF Merged
<1>5. ASSUME NEW p \in DOMAIN m
      PROVE  /\ IsRow(m[p])
             /\ p \notin pending => ShowsLists(m[p], p)
  <2>1. PICK e, row, h, v : e = Changed[p] /\ row = Row(p) /\ h = e.handles /\ v = e.sockets
    OBVIOUS
  <2>2. /\ {"handles", "sockets"} \subseteq DOMAIN e
        /\ {"oldHandles", "oldSockets"} \cap DOMAIN e = {}
        /\ AreSockets(v)
        /\ p \notin pending => h = NamedHandles(p) /\ v = [s \in LiveSockets(p) |-> ShownSocket(p, s)]
    BY <1>2, <1>4, <2>1 DEF ListsMirrored, ListFileInv
  <2>3. IsRow(row)
    BY <1>3, <2>1, RowIsRow DEF ListsMirrored
  <2>4. Added(p) = e
    BY <1>4, <2>1 DEF Added, Part
  <2>5. UpdateHandles(row, e, TRUE) = h
    BY <2>1, <2>2, WholeHandles
  <2>6. UpdateSockets(row, e, TRUE) = v
    BY <2>1, <2>2, <2>3, WholeSockets
  <2>7. m[p].handles = UpdateHandles(row, e, TRUE) /\ m[p].sockets = UpdateSockets(row, e, TRUE)
    <3>1. /\ m[p].handles = UpdateHandles(Row(p), Added(p), r.full)
          /\ m[p].sockets = UpdateSockets(Row(p), Added(p), r.full)
      BY <1>1, <1>2, RowAfter
    <3> QED BY <1>3, <2>1, <2>4, <3>1
  <2> QED BY <2>2, <2>5, <2>6, <2>7 DEF IsRow, ShowsLists
<1>6. \A row, x : ShowsLists(row, x)' <=> ShowsLists(row, x)
  BY <1>2 DEF ShowsLists, NamedHandles, LiveSockets, ShownSocket
<1>7. ListSentInv'
  BY <1>2, <1>5, <1>6 DEF ListSentInv
<1> QED BY <1>2, <1>7

LEMMA FinishCachedMirror ==
    ASSUME Inv, Inv', ListsMirrored, FinishProcesses, useCache
    PROVE  ListsMirrored'
<1>1. PICK r, m, gone : r = reply' /\ m = Merged(r) /\ gone = Removed(builder.round)
  OBVIOUS
<1>2. /\ builder.at = "next" /\ builder.todo = {} /\ InRound /\ builder'.at = "sent"
      /\ UNCHANGED <<useCache, proc, viewer, pending, touched, lost, reloads>>
      /\ r.full = builder.full /\ r.changed = Changed
      /\ Merged(reply)' = m /\ (Single' <=> Single)
      /\ ListSentInv' => ListsMirrored'
  BY <1>1, FinishMirrorParts
<1>3. lists'.processes = Swept(builder.round)
  <2>1. lists' = [processes |-> IF useCache THEN Swept(builder.round) ELSE lists.processes,
                  handles |-> lists'.handles, sockets |-> lists'.sockets]
    BY <1>1, FinishParts
  <2>2. PICK w : w = Swept(builder.round)
    OBVIOUS
  <2>3. lists' = [processes |-> w, handles |-> lists'.handles, sockets |-> lists'.sockets]
    BY <2>1, <2>2
  <2> QED BY <2>2, <2>3
<1>4. DOMAIN m = DOMAIN lists'.processes.entries /\ DOMAIN m \subseteq Procs
  BY <1>2 DEF Inv, SentInv
<1>5. IsRound(builder.round)
  BY <1>2 DEF Inv, Shape
<1>6. \A p \in DOMAIN m : p \in Scope.seen /\ p \notin gone
  <2>1. DOMAIN m \subseteq Scope.seen
    BY <1>3, <1>4, <1>5, SweptEffect DEF Scope
  <2>2. gone \cap Scope.seen = {}
    BY <1>1 DEF Removed, Unmentioned, Scope
  <2> QED BY <2>1, <2>2
<1>7. ASSUME Single, NEW p \in DOMAIN m
      PROVE  /\ IsRow(m[p])
             /\ p \notin pending => ShowsLists(m[p], p)
             /\ Follows(m[p], p)
             /\ HandleScope(p)' = HandleScope(p) /\ SocketScope(p)' = SocketScope(p)
  <2>1. HandlesOf(p) /\ SocketsOf(p) /\ IsSocketScope(SocketScope(p))
    BY <1>2, <1>4, <1>7 DEF ListsMirrored, ListRoundInv, ListCache
  <2>2. /\ m[p].handles = UpdateHandles(Row(p), Added(p), builder.full)
        /\ m[p].sockets = UpdateSockets(Row(p), Added(p), builder.full)
    BY <1>1, <1>2, RowAfter
  <2>3. ~BeforeHandles(p) /\ ~BeforeSockets(p) /\ (p \notin pending => WasRead(p))
    BY <1>2, <1>6, DeltaConstants DEF BeforeHandles, BeforeSockets, WasRead, Inside
  <2>4. Follows(m[p], p)
    BY <2>1, <2>2 DEF HandlesOf, SocketsOf, Follows
  <2>5. p \notin pending => ShowsLists(m[p], p)
    BY <2>1, <2>2, <2>3 DEF HandlesOf, SocketsOf, ShowsLists
  <2>6. IsRow(m[p])
    BY <2>1, <2>4, SentRows DEF Follows
  <2>7. HandleScope(p)' = HandleScope(p) /\ SocketScope(p)' = SocketScope(p)
    BY <1>1, <1>6, FinishScopes
  <2> QED BY <2>4, <2>5, <2>6, <2>7
<1>8. \A row, x : ShowsLists(row, x)' <=> ShowsLists(row, x)
  BY <1>2 DEF ShowsLists, NamedHandles, LiveSockets, ShownSocket
<1>9. ASSUME Single, NEW p \in DOMAIN m
      PROVE  Follows(m[p], p)'
  <2>1. PICK row : row = m[p]
    OBVIOUS
  <2>2. Follows(row, p) /\ HandleScope(p)' = HandleScope(p) /\ SocketScope(p)' = SocketScope(p)
    BY <1>7, <1>9, <2>1
  <2>3. SentSockets(p)' = SentSockets(p)
    BY <2>2 DEF SentSockets
  <2>4. Follows(row, p)'
    BY <2>2, <2>3 DEF Follows
  <2> QED BY <2>1, <2>4
<1>10. ListSentInv'
  BY <1>2, <1>7, <1>8, <1>9 DEF ListSentInv
<1> QED BY <1>2, <1>10

-----------------------------------------------------------------------------
(* The collectors *)

\* The handles of a process change with their version.
KeepsHandles(old, new) ==
    \/ new.handle = old.handle /\ new.handleVersion = old.handleVersion
    \/ new.handleVersion = old.handleVersion + 1

LEMMA CollectHandles ==
    ASSUME Shape, Collect
    PROVE  \E p \in Procs : \E new : Change(p, new) /\ KeepsHandles(proc[p], new)
<1>1. proc \in [Procs -> ProcT]
  BY DEF Shape
<1>2. PICK p \in Procs :
        \/ AddProcess(p) \/ RemoveProcess(p) \/ SetField(p) \/ UpdateFromDriver(p)
        \/ \E g \in Groups : SetVersioned(p, g)
        \/ \E h \in Handles : AddHandle(p, h) \/ RemoveHandle(p, h)
        \/ \E s \in Sockets : \/ AddSocket(p, s) \/ RemoveSocket(p, s)
                              \/ InitStaticDataEx(p, s) \/ UpdateDynamicData(p, s)
  BY DEF Collect
<1> SUFFICES \E n : Change(p, n) /\ KeepsHandles(proc[p], n)
  OBVIOUS
<1>3. PICK x : x = proc[p]
  OBVIOUS
<1>4. PICK life, plain, group, version, handle, hv, socket :
        x = [life |-> life, plain |-> plain, group |-> group, version |-> version,
             handle |-> handle, handleVersion |-> hv, socket |-> socket]
  BY <1>1, <1>3, ProcParts
<1>5. CASE AddProcess(p)
  <2>1. PICK v, gs : Change(p, [x EXCEPT !.life = "live", !.plain = v, !.group = gs])
    BY <1>3, <1>5 DEF AddProcess
  <2>2. KeepsHandles(x, [x EXCEPT !.life = "live", !.plain = v, !.group = gs])
    BY <1>4 DEF KeepsHandles
  <2> QED BY <1>3, <2>1, <2>2
<1>6. CASE RemoveProcess(p)
  <2>1. Change(p, [x EXCEPT !.life = "gone"])
    BY <1>3, <1>6 DEF RemoveProcess
  <2>2. KeepsHandles(x, [x EXCEPT !.life = "gone"])
    BY <1>4 DEF KeepsHandles
  <2> QED BY <1>3, <2>1, <2>2
<1>7. CASE SetField(p)
  <2>1. PICK v : Change(p, [x EXCEPT !.plain = v])
    BY <1>3, <1>7 DEF SetField
  <2>2. KeepsHandles(x, [x EXCEPT !.plain = v])
    BY <1>4 DEF KeepsHandles
  <2> QED BY <1>3, <2>1, <2>2
<1>8. CASE UpdateFromDriver(p)
  <2>1. PICK v, a : Change(p, [x EXCEPT !.plain = v,
                                 !.group = [g \in Groups |-> IF g = "sign" /\ @[g] = Untested THEN a ELSE @[g]]])
    BY <1>3, <1>8 DEF UpdateFromDriver
  <2>2. PICK gs : gs = [g \in Groups |-> IF g = "sign" /\ group[g] = Untested THEN a ELSE group[g]]
    OBVIOUS
  <2>3. Change(p, [x EXCEPT !.plain = v, !.group = gs])
    BY <1>4, <2>1, <2>2
  <2>4. KeepsHandles(x, [x EXCEPT !.plain = v, !.group = gs])
    BY <1>4 DEF KeepsHandles
  <2> QED BY <1>3, <2>3, <2>4
<1>9. ASSUME NEW g \in Groups, SetVersioned(p, g)
      PROVE  \E n : Change(p, n) /\ KeepsHandles(proc[p], n)
  <2>1. PICK v, gs, vs : Change(p, [x EXCEPT !.group = gs, !.version = vs])
    <3>1. PICK v : Change(p, [x EXCEPT !.group[g] = v, !.version[g] = @ + 1])
      BY <1>3, <1>9 DEF SetVersioned
    <3>2. PICK gs, vs : gs = [x.group EXCEPT ![g] = v] /\ vs = [x.version EXCEPT ![g] = @ + 1]
      OBVIOUS
    <3>3. [x EXCEPT !.group[g] = v, !.version[g] = @ + 1] = [x EXCEPT !.group = gs, !.version = vs]
      BY <1>4, <3>2
    <3> QED BY <3>1, <3>3
  <2>2. KeepsHandles(x, [x EXCEPT !.group = gs, !.version = vs])
    BY <1>4 DEF KeepsHandles
  <2> QED BY <1>3, <2>1, <2>2
<1>10. ASSUME NEW h \in Handles, AddHandle(p, h) \/ RemoveHandle(p, h)
       PROVE  \E n : Change(p, n) /\ KeepsHandles(proc[p], n)
  <2>1. PICK to : Change(p, [x EXCEPT !.handle[h] = to, !.handleVersion = @ + 1])
    BY <1>3, <1>10 DEF AddHandle, RemoveHandle
  <2>2. PICK hs : hs = [x.handle EXCEPT ![h] = to]
    OBVIOUS
  <2>3. [x EXCEPT !.handle[h] = to, !.handleVersion = @ + 1] = [x EXCEPT !.handle = hs, !.handleVersion = hv + 1]
    BY <1>4, <2>2
  <2>4. KeepsHandles(x, [x EXCEPT !.handle = hs, !.handleVersion = hv + 1])
    BY <1>4 DEF KeepsHandles
  <2> QED BY <1>3, <2>1, <2>3, <2>4
<1>11. ASSUME NEW s \in Sockets, \/ AddSocket(p, s) \/ RemoveSocket(p, s)
                                 \/ InitStaticDataEx(p, s) \/ UpdateDynamicData(p, s)
       PROVE  \E n : Change(p, n) /\ KeepsHandles(proc[p], n)
  <2>1. PICK ss : Change(p, [x EXCEPT !.socket = ss])
    <3>1. CASE AddSocket(p, s)
      <4>1. PICK v : Change(p, [x EXCEPT !.socket[s] = v])
        BY <1>3, <3>1 DEF AddSocket
      <4>2. [x EXCEPT !.socket[s] = v] = [x EXCEPT !.socket = [socket EXCEPT ![s] = v]]
        BY <1>4
      <4> QED BY <4>1, <4>2
    <3>2. CASE RemoveSocket(p, s)
      <4>1. Change(p, [x EXCEPT !.socket[s].life = "gone"])
        BY <1>3, <3>2 DEF RemoveSocket
      <4>2. [x EXCEPT !.socket[s].life = "gone"] = [x EXCEPT !.socket = [socket EXCEPT ![s].life = "gone"]]
        BY <1>4
      <4> QED BY <4>1, <4>2
    <3>3. CASE InitStaticDataEx(p, s)
      <4>1. Change(p, [x EXCEPT !.socket[s].ex = TRUE])
        BY <1>3, <3>3 DEF InitStaticDataEx
      <4>2. [x EXCEPT !.socket[s].ex = TRUE] = [x EXCEPT !.socket = [socket EXCEPT ![s].ex = TRUE]]
        BY <1>4
      <4> QED BY <4>1, <4>2
    <3>4. CASE UpdateDynamicData(p, s)
      <4>1. PICK v : Change(p, [x EXCEPT !.socket[s].state = v])
        BY <1>3, <3>4 DEF UpdateDynamicData
      <4>2. [x EXCEPT !.socket[s].state = v] = [x EXCEPT !.socket = [socket EXCEPT ![s].state = v]]
        BY <1>4
      <4> QED BY <4>1, <4>2
    <3> QED BY <1>11, <3>1, <3>2, <3>3, <3>4
  <2>2. KeepsHandles(x, [x EXCEPT !.socket = ss])
    BY <1>4 DEF KeepsHandles
  <2> QED BY <1>3, <2>1, <2>2
<1> QED BY <1>2, <1>5, <1>6, <1>7, <1>8, <1>9, <1>10, <1>11

\* A process that a collector changed is one that may be shown differently.
LEMMA CollectMirror ==
    ASSUME Inv, ListsMirrored, Collect
    PROVE  ListsMirrored'
<1>1. PICK p \in Procs : \E new : Change(p, new) /\ KeepsHandles(proc[p], new)
  BY CollectHandles DEF Inv
<1>2. PICK new : Change(p, new) /\ KeepsHandles(proc[p], new)
  BY <1>1
<1>3. /\ proc' = [proc EXCEPT ![p] = new] /\ pending' = pending \cup {p} /\ touched' = touched \cup {p}
      /\ UNCHANGED <<useCache, lists, builder, reply, viewer, lost, reloads>>
  BY <1>2 DEF Change
<1>4. proc \in [Procs -> ProcT]
  BY DEF Inv, Shape
<1>5. proc'[p] = new /\ \A x \in Procs : x # p => proc'[x] = proc[x]
  BY <1>3, <1>4
<1>6. \A x \in Procs : x # p =>
        /\ NamedHandles(x)' = NamedHandles(x)
        /\ [s \in LiveSockets(x) |-> ShownSocket(x, s)]' = [s \in LiveSockets(x) |-> ShownSocket(x, s)]
  BY <1>5 DEF NamedHandles, LiveSockets, ShownSocket
<1>7. \A x : /\ HandleScope(x)' = HandleScope(x) /\ SocketScope(x)' = SocketScope(x)
             /\ Row(x)' = Row(x) /\ Added(x)' = Added(x)
             /\ BeforeHandles(x)' <=> BeforeHandles(x)
             /\ BeforeSockets(x)' <=> BeforeSockets(x)
  BY <1>3 DEF HandleScope, SocketScope, Row, Added, Changed, BeforeHandles, BeforeSockets
<1>8. \A x : SentSockets(x)' = SentSockets(x)
  BY <1>7 DEF SentSockets
<1>9. (Single' <=> Single) /\ (InRound' <=> InRound) /\ Changed' = Changed /\ Scope' = Scope
  BY <1>3 DEF Single, InRound, Changed, Scope
<1>10. ListCache'
  <2>1. ListCache /\ \A x \in Procs : HandlesRight(x) /\ IsSocketScope(SocketScope(x))
    BY DEF ListsMirrored, ListCache
  <2>2. ASSUME NEW x \in Procs, x # p
        PROVE  HandlesRight(x)'
    BY <1>3, <1>5, <1>6, <1>7, <2>1, <2>2 DEF HandlesRight
  <2>3. HandlesRight(p)'
    <3>1. proc[p].handleVersion \in Nat /\ HandlesRight(p)
      BY <1>4, <2>1, ProcParts
    <3>2. CASE new.handle = proc[p].handle /\ new.handleVersion = proc[p].handleVersion
      <4>1. NamedHandles(p)' = NamedHandles(p)
        BY <1>5, <3>2 DEF NamedHandles
      <4> QED BY <1>3, <1>5, <1>7, <3>1, <3>2, <4>1 DEF HandlesRight
    <3>3. CASE new.handleVersion = proc[p].handleVersion + 1
      <4>1. PICK t : t = HandleScope(p).token
        OBVIOUS
      <4>2. t \in Nat /\ t <= proc[p].handleVersion /\ IsSent(HandleScope(p))
        BY <3>1, <4>1 DEF HandlesRight
      <4>3. t <= new.handleVersion /\ t # new.handleVersion /\ new.handleVersion # 0
        BY <3>1, <3>3, <4>2
      <4> QED BY <1>5, <1>7, <4>1, <4>2, <4>3 DEF HandlesRight
    <3> QED BY <1>2, <3>2, <3>3 DEF KeepsHandles
  <2> QED BY <1>3, <1>7, <2>1, <2>2, <2>3 DEF ListCache
<1>11. ListRoundInv'
  <2> SUFFICES ASSUME Single, useCache, InRound
               PROVE  /\ builder.full => DOMAIN viewer = {}
                      /\ \A x \in Procs : /\ HandlesOf(x)' /\ SocketsOf(x)'
                                          /\ x \in builder.todo => Added(x) = Empty
    BY <1>3, <1>7, <1>9 DEF ListRoundInv
  <2>1. /\ builder.full => DOMAIN viewer = {}
        /\ \A x \in Procs : HandlesOf(x) /\ SocketsOf(x) /\ (x \in builder.todo => Added(x) = Empty)
    BY DEF ListsMirrored, ListRoundInv
  <2>2. ASSUME NEW x \in Procs
        PROVE  HandlesOf(x)' /\ SocketsOf(x)'
    <3>1. WasRead(x)' => WasRead(x) /\ x # p
      BY <1>3, <1>9 DEF WasRead
    <3>2. HandlesOf(x)'
      BY <1>3, <1>6, <1>7, <2>1, <3>1 DEF HandlesOf
    <3>3. SocketsOf(x)'
      BY <1>3, <1>6, <1>7, <1>8, <2>1, <3>1 DEF SocketsOf
    <3> QED BY <3>2, <3>3
  <2> QED BY <2>1, <2>2
<1>12. ListFileInv'
  <2>1. InRound /\ ~useCache => DOMAIN Changed \subseteq Procs
    BY DEF Inv, Shape, IsRound, Changed
  <2> QED BY <1>3, <1>6, <1>9, <2>1 DEF ListsMirrored, ListFileInv
<1>13. \A row, x : x \in Procs /\ x # p => (ShowsLists(row, x)' <=> ShowsLists(row, x))
  BY <1>6 DEF ShowsLists
<1>14. \A row, x : Follows(row, x)' <=> Follows(row, x)
  BY <1>7, <1>8 DEF Follows
<1>15. ListSentInv'
  <2>1. PICK m : m = Merged(reply)
    OBVIOUS
  <2>2. Merged(reply)' = m
    BY <1>3, <2>1 DEF Merged
  <2>3. builder.at = "sent" => DOMAIN m \subseteq Procs
    BY <2>1 DEF Inv, SentInv
  <2>4. Single /\ builder.at = "sent" =>
          \A x \in DOMAIN m : /\ IsRow(m[x])
                              /\ x \notin pending => ShowsLists(m[x], x)
                              /\ useCache => Follows(m[x], x)
    BY <2>1 DEF ListsMirrored, ListSentInv
  <2> QED BY <1>3, <1>9, <1>13, <1>14, <2>2, <2>3, <2>4 DEF ListSentInv
<1>16. ListIdleInv'
  BY <1>3, <1>9, <1>14 DEF ListsMirrored, ListIdleInv
<1>17. ListAgrees'
  <2>1. DOMAIN viewer \subseteq Procs
    BY DEF Inv, Shape
  <2> QED BY <1>3, <1>9, <1>13, <2>1 DEF ListsMirrored, ListAgrees
<1> QED BY <1>10, <1>11, <1>12, <1>15, <1>16, <1>17 DEF ListsMirrored

-----------------------------------------------------------------------------
(* The lists follow *)

LEMMA InitMirror == Init => ListsMirrored
<1> SUFFICES ASSUME Init PROVE ListsMirrored
  OBVIOUS
<1>1. /\ proc = [p \in Procs |-> NewProcess] /\ lists = NoLists /\ builder = [at |-> "idle"]
      /\ viewer = Empty /\ lost = 0 /\ reloads = 0
  BY DEF Init, Idle
<1>2. builder.at = "idle" /\ DOMAIN viewer = {} /\ "idle" \notin {"next"} \cup Inside
  BY <1>1, DeltaConstants DEF Empty, Inside
<1>3. \A p \in Procs : proc[p].handleVersion = 0 /\ NamedHandles(p) = {}
  BY <1>1 DEF NewProcess, NamedHandles
<1>4. ListCache
  BY <1>1, <1>2, <1>3, NoCaches
<1>5. ~InRound
  BY <1>2 DEF InRound
<1>6. ListRoundInv /\ ListFileInv /\ ListSentInv
  BY <1>2, <1>5 DEF ListRoundInv, ListFileInv, ListSentInv
<1>7. ListIdleInv /\ ListAgrees
  BY <1>1, <1>2, NoListsParts DEF ListIdleInv, ListAgrees
<1> QED BY <1>4, <1>6, <1>7 DEF ListsMirrored

LEMMA NextMirror == Inv /\ ListsMirrored /\ [Next]_vars => ListsMirrored'
<1> SUFFICES ASSUME Inv, ListsMirrored, [Next]_vars PROVE ListsMirrored'
  OBVIOUS
<1>1. Inv'
  BY NextInv
<1>2. CASE Collect
  BY <1>2, CollectMirror
<1>3. CASE GetProcesses \/ Reload
  BY <1>3, GetProcessesMirror, ReloadMirror
<1>4. ASSUME NEW p \in Procs, WriteFields(p) \/ ToVariant(p) PROVE ListsMirrored'
  BY <1>1, <1>4, WriteFieldsMirror, ToVariantMirror
<1>5. ASSUME NEW g \in Groups, ReadVersion(g) \/ WriteGroup(g) PROVE ListsMirrored'
  BY <1>1, <1>5, ReadVersionMirror, WriteGroupMirror
<1>6. CASE ReadHandleVersion \/ EnumHandles \/ EnumSockets
  BY <1>1, <1>6, ReadHandleVersionMirror, EnumHandlesMirror, EnumSocketsMirror
<1>7. CASE FinishProcesses
  BY <1>1, <1>7, FinishPlainMirror, FinishCachedMirror
<1>8. CASE Update \/ LoseConnection
  BY <1>8, UpdateMirror, LoseConnectionMirror
<1>9. CASE UNCHANGED vars
  <2>1. UNCHANGED <<useCache, proc, lists, builder, reply, viewer, pending, touched, lost, reloads>>
    BY <1>9 DEF vars
  <2>2. /\ \A x : /\ HandleScope(x)' = HandleScope(x) /\ SocketScope(x)' = SocketScope(x)
                  /\ NamedHandles(x)' = NamedHandles(x) /\ LiveSockets(x)' = LiveSockets(x)
                  /\ Row(x)' = Row(x) /\ Added(x)' = Added(x)
                  /\ BeforeHandles(x)' <=> BeforeHandles(x)
                  /\ BeforeSockets(x)' <=> BeforeSockets(x)
                  /\ WasRead(x)' <=> WasRead(x)
        /\ \A x, s : ShownSocket(x, s)' = ShownSocket(x, s)
        /\ Single' <=> Single
        /\ InRound' <=> InRound
        /\ Changed' = Changed
    BY <2>1 DEF HandleScope, SocketScope, NamedHandles, LiveSockets, Row, Added, Changed, BeforeHandles,
                BeforeSockets, WasRead, Scope, ShownSocket, Single, InRound
  <2>3. \A x : SentSockets(x)' = SentSockets(x)
    BY <2>2 DEF SentSockets
  <2>4. Merged(reply)' = Merged(reply)
    BY <2>1 DEF Merged
  <2>5. /\ \A row, x : ShowsLists(row, x)' <=> ShowsLists(row, x)
        /\ \A row, x : Follows(row, x)' <=> Follows(row, x)
    <3>1. \A row, x : ShowsLists(row, x)' <=> ShowsLists(row, x)
      BY <2>1 DEF ShowsLists, NamedHandles, LiveSockets, ShownSocket
    <3>2. \A row, x : Follows(row, x)' <=> Follows(row, x)
      BY <2>2, <2>3 DEF Follows
    <3> QED BY <3>1, <3>2
  <2>6. ListCache'
    <3>1. \A x : HandlesRight(x)' <=> HandlesRight(x)
      BY <2>1, <2>2 DEF HandlesRight
    <3> QED BY <2>1, <2>2, <3>1 DEF ListsMirrored, ListCache
  <2>7. ListRoundInv'
    <3>1. \A x : [s \in LiveSockets(x) |-> ShownSocket(x, s)]' = [s \in LiveSockets(x) |-> ShownSocket(x, s)]
      BY <2>1 DEF LiveSockets, ShownSocket
    <3>2. \A x : HandlesOf(x)' <=> HandlesOf(x)
      BY <2>1, <2>2 DEF HandlesOf
    <3>3. \A x : SocketsOf(x)' <=> SocketsOf(x)
      BY <2>1, <2>2, <2>3, <3>1 DEF SocketsOf
    <3> QED BY <2>1, <2>2, <3>2, <3>3 DEF ListsMirrored, ListRoundInv
  <2>8. ListFileInv'
    <3>1. \A x : [s \in LiveSockets(x) |-> ShownSocket(x, s)]' = [s \in LiveSockets(x) |-> ShownSocket(x, s)]
      BY <2>1 DEF LiveSockets, ShownSocket
    <3> QED BY <2>1, <2>2, <3>1 DEF ListsMirrored, ListFileInv
  <2>9. ListSentInv' /\ ListIdleInv' /\ ListAgrees'
    BY <2>1, <2>2, <2>4, <2>5 DEF ListsMirrored, ListSentInv, ListIdleInv, ListAgrees
  <2> QED BY <2>6, <2>7, <2>8, <2>9 DEF ListsMirrored
<1> QED BY <1>2, <1>3, <1>4, <1>5, <1>6, <1>7, <1>8, <1>9 DEF Next

\* ListReplies.cpp:74 BuildHandleDelta and ListReplies.cpp:122 BuildSocketDelta:
\* on the connection that first sent them, or without the cache, the viewer has
\* the handles and the sockets of each process that did not change since the
\* last applied round began.
THEOREM ListsFollow == Spec => []ListsInStep
<1>1. Init => Inv /\ ListsMirrored
  BY InitInv, InitMirror
<1>2. Inv /\ ListsMirrored /\ [Next]_vars => Inv' /\ ListsMirrored'
  BY NextInv, NextMirror
<1>3. Inv /\ ListsMirrored => ListsInStep
  <2> SUFFICES ASSUME Inv, ListsMirrored, ~useCache \/ (lost = 0 /\ reloads = 0), NEW p \in Settled
               PROVE  viewer[p].handles = Shown(p).handles /\ viewer[p].sockets = Shown(p).sockets
    BY DEF ListsInStep
  <2>1. p \in DOMAIN viewer /\ p \notin touched
    BY DEF Inv, Agrees, Settled
  <2>2. ShowsLists(viewer[p], p)
    BY <2>1 DEF ListsMirrored, ListAgrees, Single
  <2>3. /\ Shown(p).handles = NamedHandles(p)
        /\ Shown(p).sockets = [s \in LiveSockets(p) |-> ShownSocket(p, s)]
    BY DEF Shown, ShownSocket, SocketFlds
  <2> QED BY <2>2, <2>3 DEF ShowsLists
<1> QED BY <1>1, <1>2, <1>3, PTL DEF Spec
=============================================================================
