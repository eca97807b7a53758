------------------------- MODULE LibraryDeltaProofs -------------------------
(***************************************************************************)
(* Theorems about LibraryDelta, for any number of libraries, signatures,    *)
(* changes and lost connections, with and without the cache.                *)
(*                                                                         *)
(* Shape types the scope and the round.  CacheInv is what makes skipping a  *)
(* library sound: a token one above the version means that the cached       *)
(* signature is the present one.  RoundInv, SentInv and IdleInv follow a    *)
(* round from the snapshot to the viewer, Shown is the conclusion.          *)
(***************************************************************************)
EXTENDS LibraryDelta, TLAPS

Tokens   == UNION {[D -> Nat] : D \in SUBSET {"version"}}
Fields   == UNION {[D -> Values] : D \in SUBSET {"sign"}}
EntryT   == [sent : BOOLEAN, token : Tokens, fields : Fields]
Entries  == UNION {[D -> EntryT] : D \in SUBSET Libs}
ScopeT   == [seen : SUBSET Libs, token : {0}, entries : Entries]
ChangesT == UNION {[D -> [{"sign"} -> Values]] : D \in SUBSET Libs}
RoundT   == [scope : ScopeT, changed : ChangesT]

\* The token and the signature a scope has for a library.
Tok(s, l) ==
    IF l \in DOMAIN s.entries /\ "version" \in DOMAIN s.entries[l].token
    THEN s.entries[l].token["version"] ELSE 0

Fld(s, l) ==
    IF l \in DOMAIN s.entries /\ "sign" \in DOMAIN s.entries[l].fields
    THEN s.entries[l].fields["sign"] ELSE NotListed

Writing(l) == at = "write" /\ cur = l
Mentioned  == {l \in Libs : Writing(l)}
InRound    == at \in {"next", "write"}
Intact     == useCache /\ lost = 0

Shape ==
    /\ useCache \in BOOLEAN /\ full \in BOOLEAN
    /\ sign \in [Libs -> Values \cup {NotListed}] /\ version \in [Libs -> Nat]
    /\ viewer \in [Libs -> Values \cup {NotListed}]
    /\ at \in {"idle", "next", "write", "sent"}
    /\ todo \subseteq Listed /\ cur \in Libs
    /\ cache \in ScopeT /\ round \in RoundT /\ reply \in ChangesT
    /\ pending \subseteq Libs /\ touched \subseteq Libs
    /\ lost \in Nat
    /\ at = "write" => useCache /\ cur \in Listed /\ cur \notin todo
    /\ ~useCache => DOMAIN cache.entries = {}
    /\ ~useCache /\ at # "idle" => full

CacheInv ==
    /\ DOMAIN cache.entries \subseteq Listed
    /\ \A l \in Libs : /\ Tok(cache, l) <= version[l] + 1
                       /\ Tok(cache, l) = version[l] + 1 => Fld(cache, l) = sign[l]
    /\ useCache => \A l \in DOMAIN cache.entries : Fld(cache, l) # NotListed

RoundInv == InRound =>
    /\ DOMAIN round.scope.entries = DOMAIN cache.entries \cup DOMAIN round.changed \cup Mentioned
    /\ DOMAIN round.scope.entries \subseteq Listed
    /\ DOMAIN round.scope.entries \subseteq round.scope.seen \cup todo \cup Mentioned
    /\ full => DOMAIN cache.entries = {}
    /\ \A l \in Libs : l \notin pending \cup todo /\ ~Writing(l) =>
         /\ l \in Listed => l \in DOMAIN round.scope.entries
         /\ useCache => Fld(round.scope, l) = sign[l]
    /\ \A l \in Libs : /\ Tok(round.scope, l) <= version[l] + 1
                       /\ Tok(round.scope, l) = version[l] + 1 /\ ~Writing(l) =>
                            Fld(round.scope, l) = sign[l]
    /\ useCache => \A l \in DOMAIN round.scope.entries :
         /\ ~Writing(l) => Fld(round.scope, l) # NotListed
         /\ Fld(round.scope, l) # NotListed => l \in DOMAIN cache.entries \cup DOMAIN round.changed
    /\ Intact => \A l \in Libs :
         Fld(round.scope, l) = IF l \in DOMAIN round.changed THEN round.changed[l]["sign"] ELSE viewer[l]
    /\ Intact /\ full => \A l \in Libs : viewer[l] = NotListed
    /\ ~full => \A l \in Libs : viewer[l] # NotListed <=> l \in DOMAIN cache.entries

SentInv == at = "sent" =>
    /\ \A l \in Libs : l \notin pending =>
         /\ l \in Listed <=> l \in DOMAIN reply \/ (~full /\ viewer[l] # NotListed)
         /\ useCache => Fld(cache, l) = sign[l]
    /\ useCache => \A l \in Libs :
         l \in DOMAIN cache.entries <=> l \in DOMAIN reply \/ (~full /\ viewer[l] # NotListed)
    /\ Intact => \A l \in Libs :
         Fld(cache, l) = IF l \in DOMAIN reply THEN reply[l]["sign"] ELSE viewer[l]
    /\ Intact /\ full => \A l \in Libs : viewer[l] = NotListed

IdleInv == at = "idle" =>
    /\ useCache /\ DOMAIN cache.entries # {} =>
         \A l \in Libs : viewer[l] # NotListed <=> l \in DOMAIN cache.entries
    /\ Intact => \A l \in Libs : viewer[l] = Fld(cache, l)

Shown ==
    \A l \in Libs \ touched :
        /\ viewer[l] = NotListed <=> sign[l] = NotListed
        /\ Intact => viewer[l] = sign[l]

Inv == Shape /\ CacheInv /\ RoundInv /\ SentInv /\ IdleInv /\ Shown

-----------------------------------------------------------------------------
(* The operators of VariantCache *)

\* Adding to the partial functions that entries, scopes and rounds have.
LEMMA TokensPut ==
    ASSUME NEW f \in Tokens, NEW v \in Nat
    PROVE  /\ Put(f, "version", v) \in Tokens /\ DOMAIN Put(f, "version", v) = DOMAIN f \cup {"version"}
           /\ Put(f, "version", v)["version"] = v
           /\ \A x \in DOMAIN f : x # "version" => Put(f, "version", v)[x] = f[x]
           /\ DOMAIN f \subseteq {"version"} /\ \A x \in DOMAIN f : f[x] \in Nat
<1>1. DOMAIN f \subseteq {"version"} /\ \A x \in DOMAIN f : f[x] \in Nat
  BY DEF Tokens
<1>2. Put(f, "version", v) \in [DOMAIN f \cup {"version"} -> Nat]
  BY <1>1 DEF Put
<1>3. DOMAIN f \cup {"version"} \in SUBSET {"version"}
  BY <1>1
<1>4. Put(f, "version", v) \in Tokens
  BY <1>2, <1>3 DEF Tokens
<1> QED BY <1>1, <1>4 DEF Put

LEMMA FieldsPut ==
    ASSUME NEW f \in Fields, NEW v \in Values
    PROVE  /\ Put(f, "sign", v) \in Fields /\ DOMAIN Put(f, "sign", v) = DOMAIN f \cup {"sign"}
           /\ Put(f, "sign", v)["sign"] = v
           /\ \A x \in DOMAIN f : x # "sign" => Put(f, "sign", v)[x] = f[x]
           /\ DOMAIN f \subseteq {"sign"} /\ \A x \in DOMAIN f : f[x] \in Values
<1>1. DOMAIN f \subseteq {"sign"} /\ \A x \in DOMAIN f : f[x] \in Values
  BY DEF Fields
<1>2. Put(f, "sign", v) \in [DOMAIN f \cup {"sign"} -> Values]
  BY <1>1 DEF Put
<1>3. DOMAIN f \cup {"sign"} \in SUBSET {"sign"}
  BY <1>1
<1>4. Put(f, "sign", v) \in Fields
  BY <1>2, <1>3 DEF Fields
<1> QED BY <1>1, <1>4 DEF Put

LEMMA EntriesPut ==
    ASSUME NEW f \in Entries, NEW id \in Libs, NEW v \in EntryT
    PROVE  /\ Put(f, id, v) \in Entries /\ DOMAIN Put(f, id, v) = DOMAIN f \cup {id}
           /\ Put(f, id, v)[id] = v
           /\ \A x \in DOMAIN f : x # id => Put(f, id, v)[x] = f[x]
           /\ DOMAIN f \subseteq Libs /\ \A x \in DOMAIN f : f[x] \in EntryT
<1>1. DOMAIN f \subseteq Libs /\ \A x \in DOMAIN f : f[x] \in EntryT
  BY DEF Entries
<1>2. Put(f, id, v) \in [DOMAIN f \cup {id} -> EntryT]
  BY <1>1 DEF Put
<1>3. DOMAIN f \cup {id} \in SUBSET Libs
  BY <1>1
<1>4. Put(f, id, v) \in Entries
  BY <1>2, <1>3 DEF Entries
<1> QED BY <1>1, <1>4 DEF Put

LEMMA ChangesPut ==
    ASSUME NEW f \in ChangesT, NEW id \in Libs, NEW v \in [{"sign"} -> Values]
    PROVE  /\ Put(f, id, v) \in ChangesT /\ DOMAIN Put(f, id, v) = DOMAIN f \cup {id}
           /\ Put(f, id, v)[id] = v
           /\ \A x \in DOMAIN f : x # id => Put(f, id, v)[x] = f[x]
           /\ DOMAIN f \subseteq Libs /\ \A x \in DOMAIN f : f[x] \in [{"sign"} -> Values]
<1>1. DOMAIN f \subseteq Libs /\ \A x \in DOMAIN f : f[x] \in [{"sign"} -> Values]
  BY DEF ChangesT
<1>2. Put(f, id, v) \in [DOMAIN f \cup {id} -> [{"sign"} -> Values]]
  BY <1>1 DEF Put
<1>3. DOMAIN f \cup {id} \in SUBSET Libs
  BY <1>1
<1>4. Put(f, id, v) \in ChangesT
  BY <1>2, <1>3 DEF ChangesT
<1> QED BY <1>1, <1>4 DEF Put

\* What is in them.
LEMMA PartialIn ==
    /\ \A f \in Tokens : DOMAIN f \subseteq {"version"} /\ \A x \in DOMAIN f : f[x] \in Nat
    /\ \A f \in Fields : DOMAIN f \subseteq {"sign"} /\ \A x \in DOMAIN f : f[x] \in Values
    /\ \A f \in Entries : DOMAIN f \subseteq Libs /\ \A x \in DOMAIN f : f[x] \in EntryT
    /\ \A f \in ChangesT : DOMAIN f \subseteq Libs /\ \A x \in DOMAIN f : f[x] \in [{"sign"} -> Values]
<1>1. \A f \in Tokens : DOMAIN f \subseteq {"version"} /\ \A x \in DOMAIN f : f[x] \in Nat
  BY DEF Tokens
<1>2. \A f \in Fields : DOMAIN f \subseteq {"sign"} /\ \A x \in DOMAIN f : f[x] \in Values
  BY DEF Fields
<1>3. \A f \in Entries : DOMAIN f \subseteq Libs /\ \A x \in DOMAIN f : f[x] \in EntryT
  BY DEF Entries
<1>4. \A f \in ChangesT : DOMAIN f \subseteq Libs /\ \A x \in DOMAIN f : f[x] \in [{"sign"} -> Values]
  BY DEF ChangesT
<1> QED BY <1>1, <1>2, <1>3, <1>4

LEMMA EmptyPartial ==
    ASSUME NEW S, NEW X
    PROVE  Empty \in UNION {[D -> X] : D \in SUBSET S} /\ DOMAIN Empty = {}
<1>1. Empty \in [{} -> X]
  BY DEF Empty
<1>2. {} \in SUBSET S
  OBVIOUS
<1> QED BY <1>1, <1>2 DEF Empty

LEMMA NewEntryType ==
    NewEntry \in EntryT /\ DOMAIN NewEntry.token = {} /\ DOMAIN NewEntry.fields = {}
<1>1. Empty \in Tokens /\ Empty \in Fields /\ DOMAIN Empty = {}
  BY EmptyPartial DEF Tokens, Fields
<1> QED BY <1>1 DEF NewEntry, EntryT

LEMMA NewScopeType == NewScope \in ScopeT /\ DOMAIN NewScope.entries = {}
<1>1. Empty \in Entries /\ DOMAIN Empty = {}
  BY EmptyPartial DEF Entries
<1> QED BY <1>1 DEF NewScope, ScopeT

\* Entries of a scope.
LEMMA ScopeParts ==
    ASSUME NEW s \in ScopeT
    PROVE  /\ s.entries \in Entries /\ DOMAIN s.entries \subseteq Libs /\ s.seen \subseteq Libs
           /\ \A l \in DOMAIN s.entries : s.entries[l] \in EntryT
<1>1. s.entries \in Entries /\ s.seen \subseteq Libs
  BY DEF ScopeT
<1> QED BY <1>1, PartialIn

LEMMA BeginRoundEffect ==
    ASSUME NEW s \in ScopeT
    PROVE  /\ BeginRound(s) \in RoundT
           /\ BeginRound(s).scope.entries = s.entries /\ DOMAIN BeginRound(s).changed = {}
           /\ BeginRound(s).scope.seen = {}
<1> DEFINE t == [s EXCEPT !.seen = {}]
<1>1. t \in ScopeT /\ t.entries = s.entries /\ t.seen = {}
  BY DEF ScopeT
<1>2. Empty \in ChangesT /\ DOMAIN Empty = {}
  BY EmptyPartial DEF ChangesT
<1>3. BeginRound(s) = [scope |-> t, changed |-> Empty]
  BY DEF BeginRound
<1> HIDE DEF t
<1> QED BY <1>1, <1>2, <1>3 DEF RoundT

\* The entry of a library is made when it is not there.
LEMMA GetEntryEffect ==
    ASSUME NEW r \in RoundT, NEW id \in Libs
    PROVE  /\ GetEntry(r, id) \in RoundT
           /\ DOMAIN GetEntry(r, id).scope.entries = DOMAIN r.scope.entries \cup {id}
           /\ GetEntry(r, id).changed = r.changed
           /\ GetEntry(r, id).scope.seen = r.scope.seen
           /\ \A l \in DOMAIN r.scope.entries : GetEntry(r, id).scope.entries[l] = r.scope.entries[l]
           /\ id \notin DOMAIN r.scope.entries => GetEntry(r, id).scope.entries[id] = NewEntry
<1>1. r.scope \in ScopeT /\ r.changed \in ChangesT
  BY DEF RoundT
<1>2. CASE id \in DOMAIN r.scope.entries
  BY <1>2 DEF GetEntry
<1>3. CASE id \notin DOMAIN r.scope.entries
  <2> DEFINE e == Put(r.scope.entries, id, NewEntry)
  <2>1. e \in Entries /\ DOMAIN e = DOMAIN r.scope.entries \cup {id} /\ e[id] = NewEntry
        /\ \A l \in DOMAIN r.scope.entries : l # id => e[l] = r.scope.entries[l]
    <3>1. r.scope.entries \in Entries /\ NewEntry \in EntryT
      BY <1>1, NewEntryType, ScopeParts
    <3> QED BY <3>1, EntriesPut
  <2> DEFINE s == [r.scope EXCEPT !.entries = e]
  <2> DEFINE g == [r EXCEPT !.scope = s]
  <2>2. GetEntry(r, id) = g
    BY <1>1, <1>3 DEF GetEntry, RoundT
  <2> HIDE DEF e
  <2>3. s \in ScopeT /\ s.entries = e /\ s.seen = r.scope.seen
    BY <1>1, <2>1 DEF ScopeT
  <2> HIDE DEF s
  <2>4. g \in RoundT /\ g.scope = s /\ g.changed = r.changed
    BY <1>1, <2>3 DEF RoundT
  <2> HIDE DEF g
  <2> QED BY <1>3, <2>1, <2>2, <2>3, <2>4
<1> QED BY <1>2, <1>3

LEMMA KeepEffect ==
    ASSUME NEW r \in RoundT, NEW id \in Libs
    PROVE  /\ Keep(r, id) \in RoundT
           /\ Keep(r, id).scope.entries = GetEntry(r, id).scope.entries
           /\ DOMAIN Keep(r, id).scope.entries = DOMAIN r.scope.entries \cup {id}
           /\ Keep(r, id).changed = r.changed
           /\ Keep(r, id).scope.seen = r.scope.seen \cup {id}
<1> DEFINE g == GetEntry(r, id)
<1>1. g \in RoundT /\ g.changed = r.changed /\ g.scope.seen = r.scope.seen
  BY GetEntryEffect
<1>2. Keep(r, id) = [g EXCEPT !.scope.seen = @ \cup {id}]
  BY DEF Keep
<1> HIDE DEF g
<1>3. g.scope \in ScopeT /\ g.changed \in ChangesT
  BY <1>1 DEF RoundT
<1> DEFINE s == [g.scope EXCEPT !.seen = g.scope.seen \cup {id}]
<1>4. Keep(r, id) = [g EXCEPT !.scope = s]
  BY <1>1, <1>2, <1>3 DEF RoundT, ScopeT
<1>5. s \in ScopeT /\ s.entries = g.scope.entries /\ s.seen = g.scope.seen \cup {id}
  BY <1>3 DEF ScopeT
<1> HIDE DEF s
<1>6. Keep(r, id) \in RoundT /\ Keep(r, id).scope = s /\ Keep(r, id).changed = g.changed
  BY <1>1, <1>3, <1>4, <1>5 DEF RoundT
<1>7. DOMAIN g.scope.entries = DOMAIN r.scope.entries \cup {id}
  BY GetEntryEffect DEF g
<1> QED BY <1>1, <1>5, <1>6, <1>7 DEF g

\* Keeping a library leaves what is remembered of all as it is.
LEMMA KeepRemembers ==
    ASSUME NEW r \in RoundT, NEW id \in Libs, NEW l \in Libs
    PROVE  Tok(Keep(r, id).scope, l) = Tok(r.scope, l) /\ Fld(Keep(r, id).scope, l) = Fld(r.scope, l)
<1> DEFINE k == Keep(r, id)
<1>0. /\ DOMAIN k.scope.entries = DOMAIN r.scope.entries \cup {id}
      /\ \A x \in DOMAIN r.scope.entries : k.scope.entries[x] = r.scope.entries[x]
      /\ id \notin DOMAIN r.scope.entries => k.scope.entries[id] = NewEntry
  <2> DEFINE es == GetEntry(r, id).scope.entries
  <2>1. k.scope.entries = es
    BY KeepEffect
  <2>2. /\ DOMAIN es = DOMAIN r.scope.entries \cup {id}
        /\ \A x \in DOMAIN r.scope.entries : es[x] = r.scope.entries[x]
        /\ id \notin DOMAIN r.scope.entries => es[id] = NewEntry
    BY GetEntryEffect
  <2> QED BY <2>1, <2>2
<1> HIDE DEF k
<1>1. CASE l \in DOMAIN r.scope.entries
  <2>1. l \in DOMAIN k.scope.entries /\ k.scope.entries[l] = r.scope.entries[l]
    BY <1>0, <1>1
  <2> QED BY <1>1, <2>1 DEF Tok, Fld, k
<1>2. CASE l \notin DOMAIN r.scope.entries /\ l # id
  BY <1>0, <1>2 DEF Tok, Fld, k
<1>3. CASE l \notin DOMAIN r.scope.entries /\ l = id
  BY <1>0, <1>3, NewEntryType DEF Tok, Fld, k
<1> QED BY <1>1, <1>2, <1>3

\* What Token reads.
LEMMA TokenReads ==
    ASSUME NEW r \in RoundT, NEW l \in Libs
    PROVE  Token(r, l) = Tok(r.scope, l) /\ Tok(r.scope, l) \in Nat
<1>1. CASE l \in DOMAIN r.scope.entries
  <2>1. GetEntry(r, l).scope.entries[l] = r.scope.entries[l]
    BY <1>1, GetEntryEffect
  <2>2. r.scope.entries[l] \in EntryT
    BY <1>1, ScopeParts DEF RoundT
  <2>3. r.scope.entries[l].token \in Tokens
    BY <2>2 DEF EntryT
  <2>4. \A x \in DOMAIN r.scope.entries[l].token : r.scope.entries[l].token[x] \in Nat
    BY <2>3, PartialIn
  <2> QED BY <1>1, <2>1, <2>4 DEF Token, EntryToken, Tok
<1>2. CASE l \notin DOMAIN r.scope.entries
  BY <1>2, GetEntryEffect, NewEntryType DEF Token, EntryToken, Tok
<1> QED BY <1>1, <1>2

\* The same of a scope.
LEMMA TokType ==
    ASSUME NEW s \in ScopeT, NEW l \in Libs
    PROVE  Tok(s, l) \in Nat /\ Fld(s, l) \in Values \cup {NotListed}
           /\ (Fld(s, l) # NotListed => l \in DOMAIN s.entries)
<1>1. CASE l \in DOMAIN s.entries
  <2>1. s.entries[l].token \in Tokens /\ s.entries[l].fields \in Fields
    BY <1>1, ScopeParts DEF EntryT
  <2>2. /\ \A x \in DOMAIN s.entries[l].token : s.entries[l].token[x] \in Nat
        /\ \A x \in DOMAIN s.entries[l].fields : s.entries[l].fields[x] \in Values
    BY <2>1, PartialIn
  <2> QED BY <1>1, <2>2 DEF Tok, Fld
<1>2. CASE l \notin DOMAIN s.entries
  BY <1>2 DEF Tok, Fld
<1> QED BY <1>1, <1>2

\* Setting a token changes nothing else.
LEMMA SetTokenEffect ==
    ASSUME NEW r \in RoundT, NEW id \in Libs, NEW n \in Nat
    PROVE  /\ SetEntryToken(r, id, "version", n) \in RoundT
           /\ DOMAIN SetEntryToken(r, id, "version", n).scope.entries = DOMAIN r.scope.entries \cup {id}
           /\ SetEntryToken(r, id, "version", n).changed = r.changed
           /\ SetEntryToken(r, id, "version", n).scope.seen = r.scope.seen
           /\ \A l \in Libs :
                /\ Tok(SetEntryToken(r, id, "version", n).scope, l) = IF l = id THEN n ELSE Tok(r.scope, l)
                /\ Fld(SetEntryToken(r, id, "version", n).scope, l) = Fld(r.scope, l)
<1> DEFINE g == GetEntry(r, id)
<1> DEFINE q == SetEntryToken(r, id, "version", n)
<1>1. /\ g \in RoundT /\ g.changed = r.changed /\ g.scope.seen = r.scope.seen
      /\ DOMAIN g.scope.entries = DOMAIN r.scope.entries \cup {id}
      /\ \A l \in DOMAIN r.scope.entries : g.scope.entries[l] = r.scope.entries[l]
      /\ id \notin DOMAIN r.scope.entries => g.scope.entries[id] = NewEntry
  BY GetEntryEffect
<1>2. q = [g EXCEPT !.scope.entries[id].token = Put(@, "version", n)]
  BY DEF SetEntryToken
<1> HIDE DEF g, q
<1>3. g.scope \in ScopeT /\ g.changed \in ChangesT
  BY <1>1 DEF RoundT
<1>4. g.scope.entries \in Entries /\ id \in DOMAIN g.scope.entries /\ g.scope.entries[id] \in EntryT
      /\ DOMAIN g.scope.entries \subseteq Libs /\ \A l \in DOMAIN g.scope.entries : g.scope.entries[l] \in EntryT
  BY <1>1, <1>3, ScopeParts
<1> DEFINE tk == Put(g.scope.entries[id].token, "version", n)
<1>5. tk \in Tokens /\ "version" \in DOMAIN tk /\ tk["version"] = n
  <2>1. g.scope.entries[id].token \in Tokens
    BY <1>4 DEF EntryT
  <2>2. tk \in Tokens /\ DOMAIN tk = DOMAIN g.scope.entries[id].token \cup {"version"}
    BY <2>1, TokensPut
  <2>3. tk["version"] = n
    BY DEF Put
  <2> QED BY <2>2, <2>3
<1> DEFINE e == [g.scope.entries[id] EXCEPT !.token = tk]
<1> DEFINE es == [g.scope.entries EXCEPT ![id] = e]
<1> DEFINE s == [g.scope EXCEPT !.entries = es]
<1>6. q = [g EXCEPT !.scope = s]
  BY <1>1, <1>2, <1>3, <1>4 DEF RoundT, ScopeT, EntryT
<1> HIDE DEF tk
<1>7. e \in EntryT /\ e.token = tk /\ e.fields = g.scope.entries[id].fields
  BY <1>4, <1>5 DEF EntryT
<1> HIDE DEF e
<1>8. es \in Entries /\ DOMAIN es = DOMAIN g.scope.entries /\ es[id] = e
      /\ \A l \in DOMAIN g.scope.entries : l # id => es[l] = g.scope.entries[l]
  <2>1. es \in [DOMAIN g.scope.entries -> EntryT]
    BY <1>4, <1>7
  <2>2. DOMAIN g.scope.entries \in SUBSET Libs
    BY <1>4
  <2> QED BY <1>4, <2>1, <2>2 DEF Entries
<1> HIDE DEF es
<1>9. s \in ScopeT /\ s.entries = es /\ s.seen = g.scope.seen
  BY <1>3, <1>8 DEF ScopeT
<1> HIDE DEF s
<1>10. q \in RoundT /\ q.scope = s /\ q.changed = g.changed
  BY <1>1, <1>3, <1>6, <1>9 DEF RoundT
<1>11. ASSUME NEW l \in Libs
       PROVE  Tok(q.scope, l) = (IF l = id THEN n ELSE Tok(r.scope, l)) /\ Fld(q.scope, l) = Fld(r.scope, l)
  <2>1. CASE l = id /\ id \in DOMAIN r.scope.entries
    BY <2>1, <1>1, <1>5, <1>7, <1>8, <1>9, <1>10 DEF Tok, Fld
  <2>2. CASE l = id /\ id \notin DOMAIN r.scope.entries
    BY <2>2, <1>1, <1>5, <1>7, <1>8, <1>9, <1>10, NewEntryType DEF Tok, Fld
  <2>3. CASE l # id
    BY <2>3, <1>1, <1>8, <1>9, <1>10 DEF Tok, Fld
  <2> QED BY <2>1, <2>2, <2>3
<1> QED BY <1>1, <1>8, <1>9, <1>10, <1>11 DEF q

\* Filing a signature for sending.
LEMMA WriteAlwaysEffect ==
    ASSUME NEW r \in RoundT, NEW id \in Libs, NEW v \in Values
    PROVE  /\ WriteAlways(r, id, "sign", v) \in RoundT
           /\ WriteAlways(r, id, "sign", v).scope = Keep(r, id).scope
           /\ DOMAIN WriteAlways(r, id, "sign", v).changed = DOMAIN r.changed \cup {id}
           /\ WriteAlways(r, id, "sign", v).changed[id]["sign"] = v
           /\ \A l \in DOMAIN r.changed : l # id => WriteAlways(r, id, "sign", v).changed[l] = r.changed[l]
<1> DEFINE k == Keep(r, id)
<1> DEFINE f == Put(ChangesOf(r, id), "sign", v)
<1> DEFINE c == Put(k.changed, id, f)
<1> DEFINE w == WriteAlways(r, id, "sign", v)
<1>1. k \in RoundT /\ k.changed = r.changed
  BY KeepEffect
<1>2. w = [k EXCEPT !.changed = c]
  BY DEF WriteAlways
<1>3. r.changed \in ChangesT
  BY DEF RoundT
<1>4. f \in [{"sign"} -> Values] /\ f["sign"] = v
  <2>1. CASE id \in DOMAIN r.changed
    <3>1. r.changed[id] \in [{"sign"} -> Values]
      BY <1>3, <2>1, PartialIn
    <3> QED BY <2>1, <3>1 DEF Put, ChangesOf
  <2>2. CASE id \notin DOMAIN r.changed
    BY <2>2 DEF Put, ChangesOf, Empty
  <2> QED BY <2>1, <2>2
<1> HIDE DEF f, k
<1>5. c \in ChangesT /\ DOMAIN c = DOMAIN r.changed \cup {id} /\ c[id] = f
      /\ \A l \in DOMAIN r.changed : l # id => c[l] = r.changed[l]
  <2>1. k.changed \in ChangesT
    BY <1>1, <1>3
  <2>2. /\ Put(k.changed, id, f) \in ChangesT /\ DOMAIN Put(k.changed, id, f) = DOMAIN k.changed \cup {id}
        /\ Put(k.changed, id, f)[id] = f
        /\ \A x \in DOMAIN k.changed : x # id => Put(k.changed, id, f)[x] = k.changed[x]
    BY <2>1, <1>4, ChangesPut
  <2> QED BY <1>1, <2>2
<1> HIDE DEF c
<1>6. w \in RoundT /\ w.scope = k.scope /\ w.changed = c
  BY <1>1, <1>2, <1>5 DEF RoundT
<1> QED BY <1>4, <1>5, <1>6 DEF k

\* Filing a signature if it is not the one that was sent last.
LEMMA WriteEffect ==
    ASSUME NEW r \in RoundT, NEW id \in Libs, NEW v \in Values
    PROVE  /\ Write(r, id, "sign", v) \in RoundT
           /\ DOMAIN Write(r, id, "sign", v).scope.entries = DOMAIN r.scope.entries \cup {id}
           /\ Write(r, id, "sign", v).scope.seen = r.scope.seen \cup {id}
           /\ \A l \in Libs :
                /\ Tok(Write(r, id, "sign", v).scope, l) = Tok(r.scope, l)
                /\ Fld(Write(r, id, "sign", v).scope, l) = IF l = id THEN v ELSE Fld(r.scope, l)
           /\ \/ Fld(r.scope, id) = v /\ Write(r, id, "sign", v).changed = r.changed
              \/ /\ DOMAIN Write(r, id, "sign", v).changed = DOMAIN r.changed \cup {id}
                 /\ Write(r, id, "sign", v).changed[id]["sign"] = v
                 /\ \A l \in DOMAIN r.changed : l # id =>
                      Write(r, id, "sign", v).changed[l] = r.changed[l]
<1> DEFINE k == Keep(r, id)
<1> DEFINE w == WriteAlways(r, id, "sign", v)
<1> DEFINE q == Write(r, id, "sign", v)
<1>1. /\ k \in RoundT /\ k.changed = r.changed /\ k.scope.seen = r.scope.seen \cup {id}
      /\ DOMAIN k.scope.entries = DOMAIN r.scope.entries \cup {id}
  BY KeepEffect, GetEntryEffect
<1>2. \A l \in Libs : Tok(k.scope, l) = Tok(r.scope, l) /\ Fld(k.scope, l) = Fld(r.scope, l)
  BY KeepRemembers
<1>3. CASE IsUnchanged(k, id, "sign", v)
  <2>1. q = k
    BY <1>3 DEF Write
  <2>2. Fld(k.scope, id) = v
    BY <1>1, <1>3 DEF IsUnchanged, Fld
  <2> HIDE DEF k, q
  <2> QED BY <1>1, <1>2, <2>1, <2>2 DEF q
<1>4. CASE ~IsUnchanged(k, id, "sign", v)
  <2>1. q = [w EXCEPT !.scope.entries[id].fields = Put(@, "sign", v)]
    BY <1>4 DEF Write
  <2>2. /\ w \in RoundT /\ w.scope = k.scope /\ DOMAIN w.changed = DOMAIN r.changed \cup {id}
        /\ w.changed[id]["sign"] = v
        /\ \A l \in DOMAIN r.changed : l # id => w.changed[l] = r.changed[l]
    BY WriteAlwaysEffect
  <2> HIDE DEF k, w, q
  <2>3. w.scope \in ScopeT /\ w.changed \in ChangesT
    BY <2>2 DEF RoundT
  <2>4. w.scope.entries \in Entries /\ id \in DOMAIN w.scope.entries /\ w.scope.entries[id] \in EntryT
        /\ DOMAIN w.scope.entries \subseteq Libs /\ \A l \in DOMAIN w.scope.entries : w.scope.entries[l] \in EntryT
    BY <1>1, <2>2, <2>3, ScopeParts
  <2> DEFINE fd == Put(w.scope.entries[id].fields, "sign", v)
  <2>5. fd \in Fields /\ "sign" \in DOMAIN fd /\ fd["sign"] = v
    <3>1. w.scope.entries[id].fields \in Fields
      BY <2>4 DEF EntryT
    <3>2. fd \in Fields /\ DOMAIN fd = DOMAIN w.scope.entries[id].fields \cup {"sign"}
      BY <3>1, FieldsPut
    <3>3. fd["sign"] = v
      BY DEF Put
    <3> QED BY <3>2, <3>3
  <2> DEFINE e == [w.scope.entries[id] EXCEPT !.fields = fd]
  <2> DEFINE es == [w.scope.entries EXCEPT ![id] = e]
  <2> DEFINE s == [w.scope EXCEPT !.entries = es]
  <2>6. q = [w EXCEPT !.scope = s]
    BY <2>1, <2>2, <2>3, <2>4 DEF RoundT, ScopeT, EntryT
  <2> HIDE DEF fd
  <2>7. e \in EntryT /\ e.fields = fd /\ e.token = w.scope.entries[id].token
    BY <2>4, <2>5 DEF EntryT
  <2> HIDE DEF e
  <2>8. es \in Entries /\ DOMAIN es = DOMAIN w.scope.entries /\ es[id] = e
        /\ \A l \in DOMAIN w.scope.entries : l # id => es[l] = w.scope.entries[l]
    <3>1. es \in [DOMAIN w.scope.entries -> EntryT]
      BY <2>4, <2>7
    <3>2. DOMAIN w.scope.entries \in SUBSET Libs
      BY <2>4
    <3> QED BY <2>4, <3>1, <3>2 DEF Entries
  <2> HIDE DEF es
  <2>9. s \in ScopeT /\ s.entries = es /\ s.seen = w.scope.seen
    BY <2>3, <2>8 DEF ScopeT
  <2> HIDE DEF s
  <2>10. q \in RoundT /\ q.scope = s /\ q.changed = w.changed
    BY <2>2, <2>3, <2>6, <2>9 DEF RoundT
  <2>11. ASSUME NEW l \in Libs
         PROVE  Tok(q.scope, l) = Tok(r.scope, l) /\ Fld(q.scope, l) = IF l = id THEN v ELSE Fld(r.scope, l)
    <3>1. CASE l = id
      <4>1. Tok(q.scope, l) = Tok(k.scope, l)
        BY <3>1, <2>2, <2>4, <2>7, <2>8, <2>9, <2>10 DEF Tok
      <4>2. Fld(q.scope, l) = v
        BY <3>1, <2>4, <2>5, <2>7, <2>8, <2>9, <2>10 DEF Fld
      <4> QED BY <1>2, <3>1, <4>1, <4>2
    <3>2. CASE l # id
      <4>1. Tok(q.scope, l) = Tok(k.scope, l) /\ Fld(q.scope, l) = Fld(k.scope, l)
        BY <3>2, <2>2, <2>8, <2>9, <2>10 DEF Tok, Fld
      <4> QED BY <1>2, <3>2, <4>1
    <3> QED BY <3>1, <3>2
  <2> QED BY <1>1, <2>2, <2>8, <2>9, <2>10, <2>11 DEF q
<1> QED BY <1>3, <1>4

\* The end of a round that mentioned every entry.
LEMMA SweptEffect ==
    ASSUME NEW r \in RoundT, DOMAIN r.scope.entries \subseteq r.scope.seen
    PROVE  /\ Swept(r) \in ScopeT /\ DOMAIN Swept(r).entries = DOMAIN r.scope.entries
           /\ \A l \in Libs : Tok(Swept(r), l) = Tok(r.scope, l) /\ Fld(Swept(r), l) = Fld(r.scope, l)
<1> DEFINE D == DOMAIN r.scope.entries
<1> DEFINE es == [id \in D |-> [r.scope.entries[id] EXCEPT !.sent = @ \/ id \in DOMAIN r.changed]]
<1>1. r.scope \in ScopeT
  BY DEF RoundT
<1>2. D \subseteq Libs /\ \A l \in D : r.scope.entries[l] \in EntryT
  BY <1>1, ScopeParts
<1>3. D \ Unmentioned(r) = D
  BY DEF Unmentioned
<1>4. Swept(r) = [r.scope EXCEPT !.entries = es]
  BY <1>3 DEF Swept
<1>5. ASSUME NEW l \in D
      PROVE es[l] \in EntryT /\ es[l].token = r.scope.entries[l].token /\ es[l].fields = r.scope.entries[l].fields
  <2>1. r.scope.entries[l] \in EntryT
    BY <1>2
  <2>2. es[l] = [r.scope.entries[l] EXCEPT !.sent = r.scope.entries[l].sent \/ l \in DOMAIN r.changed]
    OBVIOUS
  <2> QED BY <2>1, <2>2 DEF EntryT
<1>6. es \in Entries /\ DOMAIN es = D
  <2>1. es \in [D -> EntryT]
    BY <1>5
  <2>2. D \in SUBSET Libs
    BY <1>2
  <2> QED BY <2>1, <2>2 DEF Entries
<1> HIDE DEF es
<1>7. Swept(r) \in ScopeT /\ Swept(r).entries = es
  BY <1>1, <1>4, <1>6 DEF ScopeT
<1> QED BY <1>5, <1>6, <1>7 DEF Tok, Fld

-----------------------------------------------------------------------------
(* The agent's libraries change *)

LEMMA TypeFacts ==
    ASSUME Shape
    PROVE  /\ DOMAIN cache.entries \subseteq Libs /\ round.scope \in ScopeT
           /\ DOMAIN round.scope.entries \subseteq Libs /\ DOMAIN round.changed \subseteq Libs
           /\ DOMAIN reply \subseteq Libs /\ NotListed \notin Values
           /\ \A l \in DOMAIN round.changed : round.changed[l]["sign"] \in Values
           /\ \A l \in DOMAIN reply : reply[l]["sign"] \in Values
<1>1. round.scope \in ScopeT /\ round.changed \in ChangesT /\ reply \in ChangesT /\ cache \in ScopeT
  BY DEF Shape, RoundT
<1>2. \A f \in [{"sign"} -> Values] : f["sign"] \in Values
  OBVIOUS
<1> QED BY <1>1, <1>2, ScopeParts, PartialIn, LibraryConstants DEF NotListed

\* A library enlisted or examined: no token stands for its new signature.
LEMMA AgentStep ==
    ASSUME Inv, NEW k \in Libs, GetLibrary(k) \/ UpdateSignInfo(k)
    PROVE  Inv'
<1>0. Shape /\ CacheInv /\ RoundInv /\ SentInv /\ IdleInv /\ Shown
  BY DEF Inv
<1>1. PICK v \in Values : sign' = [sign EXCEPT ![k] = v]
  BY DEF GetLibrary, UpdateSignInfo
<1>2. /\ UNCHANGED <<useCache, cache, at, full, todo, cur, round, reply, viewer, lost>>
      /\ pending' = pending \cup {k} /\ touched' = touched \cup {k}
  BY DEF GetLibrary, UpdateSignInfo, Changed, thread
<1>3. /\ sign \in [Libs -> Values \cup {NotListed}] /\ version \in [Libs -> Nat] /\ NotListed \notin Values
  BY <1>0, TypeFacts DEF Shape
<1>4. Listed' = Listed \cup {k} /\ \A l \in Libs : l # k => sign'[l] = sign[l]
  BY <1>1, <1>3 DEF Listed
<1>5. /\ version' \in [Libs -> Nat] /\ \A l \in Libs : l # k => version'[l] = version[l]
      /\ k \in Listed => version'[k] = version[k] + 1
      /\ k \notin Listed => version'[k] = version[k]
  BY <1>3 DEF GetLibrary, UpdateSignInfo
<1>6. Shape'
  BY <1>0, <1>1, <1>2, <1>3, <1>4, <1>5 DEF Shape
<1>7. ASSUME NEW s \in ScopeT, DOMAIN s.entries \subseteq Listed, Tok(s, k) <= version[k] + 1
      PROVE  Tok(s, k) <= version'[k] + 1 /\ Tok(s, k) # version'[k] + 1
  <2>1. Tok(s, k) \in Nat
    BY TokType
  <2>2. CASE k \in Listed
    BY <1>3, <1>5, <1>7, <2>1, <2>2
  <2>3. CASE k \notin Listed
    <3>1. Tok(s, k) = 0
      BY <1>7, <2>3 DEF Tok
    <3> QED BY <1>3, <1>5, <2>3, <3>1
  <2> QED BY <2>2, <2>3
<1>8. CacheInv'
  <2>1. cache \in ScopeT
    BY <1>0 DEF Shape
  <2>2. Tok(cache, k) <= version'[k] + 1 /\ Tok(cache, k) # version'[k] + 1
    BY <1>0, <1>7, <2>1 DEF CacheInv
  <2>3. \A l \in Libs : /\ Tok(cache, l) <= version'[l] + 1
                        /\ Tok(cache, l) = version'[l] + 1 => Fld(cache, l) = sign'[l]
    BY <1>0, <1>4, <1>5, <2>2 DEF CacheInv
  <2>4. \A l : Tok(cache, l)' = Tok(cache, l) /\ Fld(cache, l)' = Fld(cache, l)
    BY <1>2 DEF Tok, Fld
  <2> QED BY <1>0, <1>2, <1>4, <2>3, <2>4 DEF CacheInv
<1>9. RoundInv'
  <2> SUFFICES ASSUME InRound' PROVE RoundInv'
    BY DEF RoundInv
  <2>1. InRound /\ Mentioned' = Mentioned /\ \A l : Writing(l)' <=> Writing(l)
    BY <1>2 DEF InRound, Writing, Mentioned
  <2>2. \A l : Tok(round.scope, l)' = Tok(round.scope, l) /\ Fld(round.scope, l)' = Fld(round.scope, l)
    BY <1>2 DEF Tok, Fld
  <2>3. round.scope \in ScopeT
    BY <1>0, TypeFacts
  <2>4. Tok(round.scope, k) <= version'[k] + 1 /\ Tok(round.scope, k) # version'[k] + 1
    BY <1>0, <1>7, <2>1, <2>3 DEF RoundInv
  <2>5. \A l \in Libs : /\ Tok(round.scope, l) <= version'[l] + 1
                        /\ Tok(round.scope, l) = version'[l] + 1 /\ ~Writing(l) => Fld(round.scope, l) = sign'[l]
    BY <1>0, <1>4, <1>5, <2>1, <2>4 DEF RoundInv
  <2>6. \A l \in Libs : l \notin pending' \cup todo /\ ~Writing(l) =>
          /\ l \in Listed' => l \in DOMAIN round.scope.entries
          /\ useCache => Fld(round.scope, l) = sign'[l]
    BY <1>0, <1>2, <1>4, <2>1 DEF RoundInv
  <2>7. /\ DOMAIN round.scope.entries = DOMAIN cache.entries \cup DOMAIN round.changed \cup Mentioned
        /\ DOMAIN round.scope.entries \subseteq Listed'
        /\ DOMAIN round.scope.entries \subseteq round.scope.seen \cup todo \cup Mentioned
        /\ full => DOMAIN cache.entries = {}
        /\ ~full => \A l \in Libs : viewer[l] # NotListed <=> l \in DOMAIN cache.entries
    BY <1>0, <1>4, <2>1 DEF RoundInv
  <2>8. /\ useCache => \A l \in DOMAIN round.scope.entries :
             /\ ~Writing(l) => Fld(round.scope, l) # NotListed
             /\ Fld(round.scope, l) # NotListed => l \in DOMAIN cache.entries \cup DOMAIN round.changed
        /\ Intact => \A l \in Libs :
             Fld(round.scope, l) = IF l \in DOMAIN round.changed THEN round.changed[l]["sign"] ELSE viewer[l]
        /\ Intact /\ full => \A l \in Libs : viewer[l] = NotListed
    BY <1>0, <2>1 DEF RoundInv
  <2> QED BY <1>2, <2>1, <2>2, <2>5, <2>6, <2>7, <2>8 DEF RoundInv, Intact
<1>10. SentInv' /\ IdleInv'
  <2>1. \A l : Fld(cache, l)' = Fld(cache, l)
    BY <1>2 DEF Fld
  <2>2. \A l \in Libs : l \notin pending' => l # k /\ l \notin pending /\ (l \in Listed' <=> l \in Listed) /\ sign'[l] = sign[l]
    BY <1>2, <1>4
  <2> QED BY <1>0, <1>2, <2>1, <2>2 DEF SentInv, IdleInv, Intact
<1>11. Shown'
  BY <1>0, <1>2, <1>4 DEF Shown, Intact
<1> QED BY <1>6, <1>8, <1>9, <1>10, <1>11 DEF Inv

-----------------------------------------------------------------------------
(* A round *)

\* The snapshot is taken.
LEMMA BeginStep ==
    ASSUME Inv, GetLibraries
    PROVE  Inv'
<1>0. Shape /\ CacheInv /\ IdleInv /\ Shown
  BY DEF Inv
<1>1. /\ at = "idle" /\ at' = "next" /\ full' = (~useCache \/ DOMAIN cache.entries = {})
      /\ todo' = Listed /\ round' = BeginRound(cache) /\ cur' = cur /\ pending' = {}
      /\ UNCHANGED <<useCache, sign, version, cache, reply, viewer, touched, lost>>
  BY DEF GetLibraries, IsEmpty, agent
<1>2. /\ round' \in RoundT /\ round'.scope.entries = cache.entries /\ DOMAIN round'.changed = {}
  BY <1>0, <1>1, BeginRoundEffect DEF Shape
<1>3. Listed' = Listed /\ Mentioned' = {} /\ \A l : ~Writing(l)'
  BY <1>1 DEF Listed, Mentioned, Writing
<1>4. Shape'
  BY <1>0, <1>1, <1>2, <1>3 DEF Shape
<1>5. \A l : /\ Tok(cache, l)' = Tok(cache, l) /\ Fld(cache, l)' = Fld(cache, l)
             /\ Tok(round.scope, l)' = Tok(cache, l) /\ Fld(round.scope, l)' = Fld(cache, l)
  BY <1>1, <1>2 DEF Tok, Fld
<1>6. CacheInv'
  BY <1>0, <1>1, <1>3, <1>5 DEF CacheInv
<1>7. \A l \in Libs : l \notin Listed => Fld(cache, l) = sign[l]
  BY <1>0 DEF CacheInv, Fld, Listed
<1>8. RoundInv'
  <2>1. /\ (DOMAIN round.scope.entries = DOMAIN cache.entries \cup DOMAIN round.changed \cup Mentioned)'
        /\ (DOMAIN round.scope.entries \subseteq Listed)'
        /\ (DOMAIN round.scope.entries \subseteq round.scope.seen \cup todo \cup Mentioned)'
    BY <1>0, <1>1, <1>2, <1>3 DEF CacheInv
  <2>2. full' => DOMAIN cache'.entries = {}
    BY <1>0, <1>1 DEF Shape
  <2>3. /\ \A l \in Libs : l \notin pending' \cup todo' =>
             /\ l \in Listed' => l \in DOMAIN round'.scope.entries
             /\ useCache' => Fld(round.scope, l)' = sign'[l]
        /\ \A l \in Libs : /\ Tok(round.scope, l)' <= version'[l] + 1
                           /\ Tok(round.scope, l)' = version'[l] + 1 => Fld(round.scope, l)' = sign'[l]
    BY <1>0, <1>1, <1>3, <1>5, <1>7 DEF CacheInv
  <2>4. useCache' => \A l \in DOMAIN round'.scope.entries :
          Fld(round.scope, l)' # NotListed /\ l \in DOMAIN cache'.entries
    BY <1>0, <1>1, <1>2, <1>5 DEF CacheInv
  <2>5. Intact' => \A l \in Libs : Fld(round.scope, l)' = viewer'[l] /\ l \notin DOMAIN round'.changed
    BY <1>0, <1>1, <1>2, <1>5 DEF IdleInv, Intact
  <2>6. Intact' /\ full' => \A l \in Libs : viewer'[l] = NotListed
    BY <1>0, <1>1 DEF IdleInv, Intact, Fld
  <2>7. ~full' => \A l \in Libs : viewer'[l] # NotListed <=> l \in DOMAIN cache'.entries
    BY <1>0, <1>1 DEF IdleInv
  <2> QED BY <1>3, <2>1, <2>2, <2>3, <2>4, <2>5, <2>6, <2>7 DEF RoundInv
<1>9. SentInv' /\ IdleInv' /\ Shown'
  BY <1>0, <1>1 DEF SentInv, IdleInv, Shown, Intact
<1> QED BY <1>4, <1>6, <1>8, <1>9 DEF Inv

\* A library whose token is one above its version is skipped.
LEMMA SkipStep ==
    ASSUME Inv, NEW k \in Libs, SameVersion(k)
    PROVE  Inv'
<1>0. Shape /\ CacheInv /\ RoundInv /\ Shown /\ InRound
  BY DEF Inv, SameVersion, InRound
<1>1. /\ useCache /\ at = "next" /\ k \in todo /\ round' = Keep(round, k) /\ todo' = todo \ {k}
      /\ Token(round, k) = version[k] + 1
      /\ UNCHANGED <<useCache, sign, version, cache, at, full, cur, reply, viewer, pending, touched, lost>>
  BY DEF SameVersion, agent
<1>2. round \in RoundT /\ round.scope \in ScopeT /\ version[k] \in Nat
  BY <1>0, TypeFacts DEF Shape
<1>3. Tok(round.scope, k) = version[k] + 1 /\ k \in DOMAIN round.scope.entries
  BY <1>1, <1>2, TokenReads DEF Tok
<1>4. /\ round' \in RoundT /\ DOMAIN round'.scope.entries = DOMAIN round.scope.entries
      /\ round'.changed = round.changed /\ round'.scope.seen = round.scope.seen \cup {k}
  <2>1. /\ Keep(round, k) \in RoundT
        /\ DOMAIN Keep(round, k).scope.entries = DOMAIN round.scope.entries \cup {k}
        /\ Keep(round, k).changed = round.changed
        /\ Keep(round, k).scope.seen = round.scope.seen \cup {k}
    BY <1>2, KeepEffect
  <2>2. DOMAIN round.scope.entries \cup {k} = DOMAIN round.scope.entries
    BY <1>3
  <2>3. round' = Keep(round, k)
    BY <1>1
  <2> QED BY <2>1, <2>2, <2>3
<1>5. \A l \in Libs : Tok(round.scope, l)' = Tok(round.scope, l) /\ Fld(round.scope, l)' = Fld(round.scope, l)
  BY <1>1, <1>2, KeepRemembers DEF Tok, Fld
<1>6. Listed' = Listed /\ Mentioned' = {} /\ Mentioned = {} /\ InRound' /\ \A l : ~Writing(l) /\ ~Writing(l)'
  BY <1>0, <1>1 DEF Listed, Mentioned, Writing, InRound
<1>7. Shape'
  BY <1>0, <1>1, <1>4, <1>6 DEF Shape
<1>8. CacheInv' /\ Shown'
  <2>1. \A l : Tok(cache, l)' = Tok(cache, l) /\ Fld(cache, l)' = Fld(cache, l)
    BY <1>1 DEF Tok, Fld
  <2> QED BY <1>0, <1>1, <1>6, <2>1 DEF CacheInv, Shown, Intact
<1>9. Fld(round.scope, k) = sign[k]
  BY <1>0, <1>3, <1>6 DEF RoundInv
<1>10. RoundInv'
  <2>1. /\ (DOMAIN round.scope.entries = DOMAIN cache.entries \cup DOMAIN round.changed \cup Mentioned)'
        /\ (DOMAIN round.scope.entries \subseteq Listed)'
        /\ (DOMAIN round.scope.entries \subseteq round.scope.seen \cup todo \cup Mentioned)'
        /\ full' => DOMAIN cache'.entries = {}
    BY <1>0, <1>1, <1>4, <1>6 DEF RoundInv
  <2>2. \A l \in Libs : l \notin pending' \cup todo' =>
          /\ l \in Listed' => l \in DOMAIN round'.scope.entries
          /\ Fld(round.scope, l)' = sign'[l]
    BY <1>0, <1>1, <1>3, <1>4, <1>5, <1>6, <1>9 DEF RoundInv
  <2>3. \A l \in Libs : /\ Tok(round.scope, l)' <= version'[l] + 1
                        /\ Tok(round.scope, l)' = version'[l] + 1 => Fld(round.scope, l)' = sign'[l]
    BY <1>0, <1>1, <1>5, <1>6 DEF RoundInv
  <2>4. \A l \in DOMAIN round'.scope.entries :
          /\ Fld(round.scope, l)' # NotListed
          /\ l \in DOMAIN cache'.entries \cup DOMAIN round'.changed
    BY <1>0, <1>1, <1>2, <1>4, <1>5, <1>6, TypeFacts DEF RoundInv
  <2>5. Intact' => \A l \in Libs :
          Fld(round.scope, l)' = IF l \in DOMAIN round'.changed THEN round'.changed[l]["sign"] ELSE viewer'[l]
    BY <1>0, <1>1, <1>4, <1>5 DEF RoundInv, Intact
  <2>6. /\ Intact' /\ full' => \A l \in Libs : viewer'[l] = NotListed
        /\ ~full' => \A l \in Libs : viewer'[l] # NotListed <=> l \in DOMAIN cache'.entries
    BY <1>0, <1>1 DEF RoundInv, Intact
  <2> QED BY <1>6, <2>1, <2>2, <2>3, <2>4, <2>5, <2>6 DEF RoundInv
<1>11. SentInv' /\ IdleInv'
  BY <1>1 DEF SentInv, IdleInv
<1> QED BY <1>7, <1>8, <1>10, <1>11 DEF Inv

\* A library with another version gets the token for it.
LEMMA NewVersionStep ==
    ASSUME Inv, NEW k \in Libs, NewVersion(k)
    PROVE  Inv'
<1>0. Shape /\ CacheInv /\ RoundInv /\ Shown /\ InRound
  BY DEF Inv, NewVersion, InRound
<1>1. /\ useCache /\ at = "next" /\ at' = "write" /\ cur' = k /\ k \in todo /\ todo' = todo \ {k}
      /\ round' = SetEntryToken(round, k, "version", version[k] + 1)
      /\ UNCHANGED <<useCache, sign, version, cache, full, reply, viewer, pending, touched, lost>>
  BY DEF NewVersion, agent
<1>2. round \in RoundT /\ round.scope \in ScopeT /\ version[k] \in Nat /\ version[k] + 1 \in Nat
  BY <1>0, TypeFacts DEF Shape
<1>3. /\ round' \in RoundT /\ DOMAIN round'.scope.entries = DOMAIN round.scope.entries \cup {k}
      /\ round'.changed = round.changed /\ round'.scope.seen = round.scope.seen
  BY <1>1, <1>2, SetTokenEffect
<1>4. \A l \in Libs : /\ Tok(round.scope, l)' = IF l = k THEN version[k] + 1 ELSE Tok(round.scope, l)
                      /\ Fld(round.scope, l)' = Fld(round.scope, l)
  <2>1. \A l : Tok(round.scope, l)' = Tok(round'.scope, l) /\ Fld(round.scope, l)' = Fld(round'.scope, l)
    BY DEF Tok, Fld
  <2>2. round' = SetEntryToken(round, k, "version", version[k] + 1)
    BY <1>1
  <2> DEFINE n == version[k] + 1
  <2>3. n \in Nat
    BY <1>2
  <2> HIDE DEF n
  <2>4. \A l \in Libs :
          /\ Tok(SetEntryToken(round, k, "version", n).scope, l) = IF l = k THEN n ELSE Tok(round.scope, l)
          /\ Fld(SetEntryToken(round, k, "version", n).scope, l) = Fld(round.scope, l)
    BY <1>2, <2>3, SetTokenEffect
  <2> QED BY <2>1, <2>2, <2>4 DEF n
<1>5. /\ Listed' = Listed /\ Mentioned' = {k} /\ Mentioned = {} /\ InRound'
      /\ \A l : ~Writing(l) /\ (Writing(l)' <=> l = k)
  BY <1>0, <1>1 DEF Listed, Mentioned, Writing, InRound
<1>6. Shape'
  <2>1. k \in Listed /\ todo' \subseteq Listed /\ k \notin todo'
    BY <1>0, <1>1 DEF Shape
  <2> QED BY <1>0, <1>1, <1>3, <1>5, <2>1 DEF Shape
<1>7. CacheInv' /\ Shown'
  <2>1. \A l : Tok(cache, l)' = Tok(cache, l) /\ Fld(cache, l)' = Fld(cache, l)
    BY <1>1 DEF Tok, Fld
  <2> QED BY <1>0, <1>1, <1>5, <2>1 DEF CacheInv, Shown, Intact
<1>8. RoundInv'
  <2>1. /\ (DOMAIN round.scope.entries = DOMAIN cache.entries \cup DOMAIN round.changed \cup Mentioned)'
        /\ (DOMAIN round.scope.entries \subseteq Listed)'
        /\ (DOMAIN round.scope.entries \subseteq round.scope.seen \cup todo \cup Mentioned)'
        /\ full' => DOMAIN cache'.entries = {}
    BY <1>0, <1>1, <1>3, <1>5 DEF RoundInv, Shape
  <2>2. \A l \in Libs : l \notin pending' \cup todo' /\ l # k =>
          /\ l \in Listed' => l \in DOMAIN round'.scope.entries
          /\ Fld(round.scope, l)' = sign'[l]
    BY <1>0, <1>1, <1>3, <1>4, <1>5 DEF RoundInv
  <2>3. \A l \in Libs : /\ Tok(round.scope, l)' <= version'[l] + 1
                        /\ Tok(round.scope, l)' = version'[l] + 1 /\ l # k => Fld(round.scope, l)' = sign'[l]
    BY <1>0, <1>1, <1>2, <1>4, <1>5 DEF RoundInv
  <2>4. \A l \in DOMAIN round'.scope.entries :
          /\ l # k => Fld(round.scope, l)' # NotListed
          /\ Fld(round.scope, l)' # NotListed => l \in DOMAIN cache'.entries \cup DOMAIN round'.changed
    <3> SUFFICES ASSUME NEW l \in DOMAIN round'.scope.entries
                 PROVE  /\ l # k => Fld(round.scope, l)' # NotListed
                        /\ Fld(round.scope, l)' # NotListed => l \in DOMAIN cache'.entries \cup DOMAIN round'.changed
      OBVIOUS
    <3>1. l \in Libs /\ Fld(round.scope, l)' = Fld(round.scope, l)
      BY <1>0, <1>3, <1>4, TypeFacts
    <3>2. Fld(round.scope, l) # NotListed => l \in DOMAIN round.scope.entries
      BY <1>2, <3>1, TokType
    <3> QED BY <1>0, <1>1, <1>3, <1>5, <3>1, <3>2 DEF RoundInv
  <2>5. Intact' => \A l \in Libs :
          Fld(round.scope, l)' = IF l \in DOMAIN round'.changed THEN round'.changed[l]["sign"] ELSE viewer'[l]
    BY <1>0, <1>1, <1>3, <1>4 DEF RoundInv, Intact
  <2>6. /\ Intact' /\ full' => \A l \in Libs : viewer'[l] = NotListed
        /\ ~full' => \A l \in Libs : viewer'[l] # NotListed <=> l \in DOMAIN cache'.entries
    BY <1>0, <1>1 DEF RoundInv, Intact
  <2> QED BY <1>5, <2>1, <2>2, <2>3, <2>4, <2>5, <2>6 DEF RoundInv
<1>9. SentInv' /\ IdleInv'
  BY <1>1 DEF SentInv, IdleInv
<1> QED BY <1>6, <1>7, <1>8, <1>9 DEF Inv

\* Its signature is read after its version was, and filed.
LEMMA WriteStep ==
    ASSUME Inv, WriteEntry
    PROVE  Inv'
<1> DEFINE k == cur
<1>0. Shape /\ CacheInv /\ RoundInv /\ Shown /\ InRound
  BY DEF Inv, WriteEntry, InRound
<1>1. /\ at = "write" /\ at' = "next" /\ round' = Write(round, k, "sign", sign[k])
      /\ UNCHANGED <<useCache, sign, version, cache, full, todo, cur, reply, viewer, pending, touched, lost>>
  BY DEF WriteEntry, agent
<1>2. round \in RoundT /\ round.scope \in ScopeT /\ k \in Libs /\ sign[k] \in Values /\ useCache /\ k \notin todo
  BY <1>0, <1>1, TypeFacts DEF Shape, Listed
<1>3. /\ round' \in RoundT /\ DOMAIN round'.scope.entries = DOMAIN round.scope.entries \cup {k}
      /\ round'.scope.seen = round.scope.seen \cup {k}
      /\ \/ Fld(round.scope, k) = sign[k] /\ round'.changed = round.changed
         \/ /\ DOMAIN round'.changed = DOMAIN round.changed \cup {k} /\ round'.changed[k]["sign"] = sign[k]
            /\ \A l \in DOMAIN round.changed : l # k => round'.changed[l] = round.changed[l]
  BY <1>1, <1>2, WriteEffect
<1>4. \A l \in Libs : /\ Tok(round.scope, l)' = Tok(round.scope, l)
                      /\ Fld(round.scope, l)' = IF l = k THEN sign[k] ELSE Fld(round.scope, l)
  <2>1. \A l : Tok(round.scope, l)' = Tok(round'.scope, l) /\ Fld(round.scope, l)' = Fld(round'.scope, l)
    BY DEF Tok, Fld
  <2> QED BY <1>1, <1>2, <2>1, WriteEffect
<1>5. /\ Listed' = Listed /\ Mentioned' = {} /\ Mentioned = {k} /\ InRound'
      /\ \A l : ~Writing(l)' /\ (Writing(l) <=> l = k)
  BY <1>0, <1>1, <1>2 DEF Listed, Mentioned, Writing, InRound
<1>6. Shape'
  BY <1>0, <1>1, <1>3, <1>5 DEF Shape
<1>7. CacheInv' /\ Shown'
  <2>1. \A l : Tok(cache, l)' = Tok(cache, l) /\ Fld(cache, l)' = Fld(cache, l)
    BY <1>1 DEF Tok, Fld
  <2> QED BY <1>0, <1>1, <1>5, <2>1 DEF CacheInv, Shown, Intact
<1>n. sign[k] # NotListed
  BY <1>0, <1>2, TypeFacts
<1> HIDE DEF k
<1>8. RoundInv'
  <2>0. k \in DOMAIN round.scope.entries
    BY <1>0, <1>5 DEF RoundInv
  <2>a. k \in DOMAIN cache.entries \cup DOMAIN round'.changed
    BY <1>0, <1>2, <1>3, <1>n, <2>0 DEF RoundInv
  <2>1. /\ (DOMAIN round.scope.entries = DOMAIN cache.entries \cup DOMAIN round.changed \cup Mentioned)'
        /\ (DOMAIN round.scope.entries \subseteq Listed)'
        /\ (DOMAIN round.scope.entries \subseteq round.scope.seen \cup todo \cup Mentioned)'
        /\ full' => DOMAIN cache'.entries = {}
    BY <1>0, <1>1, <1>3, <1>5, <2>0, <2>a DEF RoundInv
  <2>2. \A l \in Libs : l \notin pending' \cup todo' =>
          /\ l \in Listed' => l \in DOMAIN round'.scope.entries
          /\ Fld(round.scope, l)' = sign'[l]
    BY <1>0, <1>1, <1>2, <1>3, <1>4, <1>5 DEF RoundInv
  <2>3. \A l \in Libs : /\ Tok(round.scope, l)' <= version'[l] + 1
                        /\ Tok(round.scope, l)' = version'[l] + 1 => Fld(round.scope, l)' = sign'[l]
    BY <1>0, <1>1, <1>2, <1>4, <1>5 DEF RoundInv
  <2>4. \A l \in DOMAIN round'.scope.entries :
          Fld(round.scope, l)' # NotListed /\ l \in DOMAIN cache'.entries \cup DOMAIN round'.changed
    <3> SUFFICES ASSUME NEW l \in DOMAIN round'.scope.entries
                 PROVE  Fld(round.scope, l)' # NotListed /\ l \in DOMAIN cache'.entries \cup DOMAIN round'.changed
      OBVIOUS
    <3>1. l \in Libs /\ l \in DOMAIN round.scope.entries
      BY <1>0, <1>2, <1>3, <2>0, TypeFacts
    <3> QED BY <1>0, <1>1, <1>2, <1>3, <1>4, <1>5, <1>n, <2>a, <3>1 DEF RoundInv
  <2>5. Intact' => \A l \in Libs :
          Fld(round.scope, l)' = IF l \in DOMAIN round'.changed THEN round'.changed[l]["sign"] ELSE viewer'[l]
    BY <1>0, <1>1, <1>2, <1>3, <1>4 DEF RoundInv, Intact
  <2>6. /\ Intact' /\ full' => \A l \in Libs : viewer'[l] = NotListed
        /\ ~full' => \A l \in Libs : viewer'[l] # NotListed <=> l \in DOMAIN cache'.entries
    BY <1>0, <1>1 DEF RoundInv, Intact
  <2> QED BY <1>5, <2>1, <2>2, <2>3, <2>4, <2>5, <2>6 DEF RoundInv
<1>9. SentInv' /\ IdleInv'
  BY <1>1 DEF SentInv, IdleInv
<1> QED BY <1>6, <1>7, <1>8, <1>9 DEF Inv

\* Without the cache every library is filed.
LEMMA ToVariantStep ==
    ASSUME Inv, NEW k \in Libs, ToVariant(k)
    PROVE  Inv'
<1>0. Shape /\ CacheInv /\ RoundInv /\ Shown /\ InRound
  BY DEF Inv, ToVariant, InRound
<1>1. /\ ~useCache /\ at = "next" /\ k \in todo /\ todo' = todo \ {k}
      /\ round' = WriteAlways(round, k, "sign", sign[k])
      /\ UNCHANGED <<useCache, sign, version, cache, at, full, cur, reply, viewer, pending, touched, lost>>
  BY DEF ToVariant, agent
<1>2. round \in RoundT /\ round.scope \in ScopeT /\ sign[k] \in Values /\ k \in Listed
  BY <1>0, <1>1, TypeFacts DEF Shape, Listed
<1>3. /\ round' \in RoundT /\ DOMAIN round'.scope.entries = DOMAIN round.scope.entries \cup {k}
      /\ round'.scope.seen = round.scope.seen \cup {k}
      /\ DOMAIN round'.changed = DOMAIN round.changed \cup {k}
  BY <1>1, <1>2, WriteAlwaysEffect, KeepEffect
<1>4. \A l \in Libs : Tok(round.scope, l)' = Tok(round.scope, l) /\ Fld(round.scope, l)' = Fld(round.scope, l)
  <2>1. \A l : Tok(round.scope, l)' = Tok(round'.scope, l) /\ Fld(round.scope, l)' = Fld(round'.scope, l)
    BY DEF Tok, Fld
  <2>2. round'.scope = Keep(round, k).scope
    BY <1>1, <1>2, WriteAlwaysEffect
  <2> QED BY <1>2, <2>1, <2>2, KeepRemembers
<1>5. /\ Listed' = Listed /\ Mentioned' = {} /\ Mentioned = {} /\ InRound'
      /\ \A l : ~Writing(l)' /\ ~Writing(l)
  BY <1>0, <1>1 DEF Listed, Mentioned, Writing, InRound
<1>6. Shape'
  <2>1. todo' \subseteq Listed'
    BY <1>0, <1>1, <1>5 DEF Shape
  <2> QED BY <1>0, <1>1, <1>3, <1>5, <2>1 DEF Shape
<1>7. CacheInv' /\ Shown'
  <2>1. \A l : Tok(cache, l)' = Tok(cache, l) /\ Fld(cache, l)' = Fld(cache, l)
    BY <1>1 DEF Tok, Fld
  <2> QED BY <1>0, <1>1, <1>5, <2>1 DEF CacheInv, Shown, Intact
<1>8. RoundInv'
  <2>1. /\ (DOMAIN round.scope.entries = DOMAIN cache.entries \cup DOMAIN round.changed \cup Mentioned)'
        /\ (DOMAIN round.scope.entries \subseteq Listed)'
        /\ (DOMAIN round.scope.entries \subseteq round.scope.seen \cup todo \cup Mentioned)'
        /\ full' => DOMAIN cache'.entries = {}
    BY <1>0, <1>1, <1>2, <1>3, <1>5 DEF RoundInv
  <2>2. \A l \in Libs : l \notin pending' \cup todo' => (l \in Listed' => l \in DOMAIN round'.scope.entries)
    BY <1>0, <1>1, <1>3, <1>5 DEF RoundInv
  <2>3. \A l \in Libs : /\ Tok(round.scope, l)' <= version'[l] + 1
                        /\ Tok(round.scope, l)' = version'[l] + 1 => Fld(round.scope, l)' = sign'[l]
    BY <1>0, <1>1, <1>4, <1>5 DEF RoundInv
  <2>4. ~useCache' /\ ~Intact' /\ full'
    BY <1>0, <1>1 DEF Intact, Shape
  <2> QED BY <1>5, <2>1, <2>2, <2>3, <2>4 DEF RoundInv
<1>9. SentInv' /\ IdleInv'
  BY <1>1 DEF SentInv, IdleInv
<1> QED BY <1>6, <1>7, <1>8, <1>9 DEF Inv

\* The changes are sent, and what was sent is what the cache has.
LEMMA FinishStep ==
    ASSUME Inv, FinishRound
    PROVE  Inv'
<1>0. Shape /\ CacheInv /\ RoundInv /\ Shown /\ InRound
  BY DEF Inv, FinishRound, InRound
<1>1. /\ at = "next" /\ todo = {} /\ at' = "sent" /\ reply' = round.changed
      /\ cache' = IF useCache THEN Swept(round) ELSE cache
      /\ UNCHANGED <<useCache, sign, version, full, todo, cur, round, viewer, pending, touched, lost>>
  BY DEF FinishRound, agent
<1>2. round \in RoundT /\ round.scope \in ScopeT /\ round.changed \in ChangesT
  BY <1>0, TypeFacts DEF Shape, RoundT
<1>3. Listed' = Listed /\ Mentioned = {} /\ \A l : ~Writing(l)
  BY <1>0, <1>1 DEF Listed, Mentioned, Writing
<1>4. DOMAIN round.scope.entries \subseteq round.scope.seen
  BY <1>0, <1>1, <1>3 DEF RoundInv
<1>5. /\ cache' \in ScopeT
      /\ ~useCache => DOMAIN cache'.entries = {} /\ full
      /\ useCache => DOMAIN cache'.entries = DOMAIN round.scope.entries
  BY <1>0, <1>1, <1>2, <1>4, SweptEffect DEF Shape
<1>6. /\ useCache => \A l \in Libs : Tok(cache, l)' = Tok(round.scope, l) /\ Fld(cache, l)' = Fld(round.scope, l)
      /\ ~useCache => \A l \in Libs : Tok(cache, l)' = Tok(cache, l) /\ Fld(cache, l)' = Fld(cache, l)
  <2>1. \A l : Tok(cache, l)' = Tok(cache', l) /\ Fld(cache, l)' = Fld(cache', l)
    BY DEF Tok, Fld
  <2> QED BY <1>1, <1>2, <1>4, <2>1, SweptEffect
<1>7. Shape'
  BY <1>0, <1>1, <1>2, <1>3, <1>5 DEF Shape
<1>8. CacheInv'
  <2>1. DOMAIN cache'.entries \subseteq Listed'
    BY <1>0, <1>3, <1>5 DEF RoundInv
  <2>2. \A l \in Libs : /\ Tok(cache, l)' <= version'[l] + 1
                        /\ Tok(cache, l)' = version'[l] + 1 => Fld(cache, l)' = sign'[l]
    <3>1. CASE useCache
      BY <1>0, <1>1, <1>3, <1>6, <3>1 DEF RoundInv
    <3>2. CASE ~useCache
      BY <1>0, <1>1, <1>6, <3>2 DEF CacheInv
    <3> QED BY <3>1, <3>2
  <2>3. useCache' => \A l \in DOMAIN cache'.entries : Fld(cache, l)' # NotListed
    BY <1>0, <1>1, <1>3, <1>5, <1>6, TypeFacts DEF RoundInv
  <2> QED BY <2>1, <2>2, <2>3 DEF CacheInv
<1>9. SentInv'
  <2>1. \A l \in Libs : l \in DOMAIN round.scope.entries <=>
          l \in DOMAIN reply' \/ (~full /\ viewer[l] # NotListed)
    BY <1>0, <1>1, <1>3 DEF RoundInv
  <2>2. \A l \in Libs : l \notin pending =>
          /\ l \in Listed <=> l \in DOMAIN round.scope.entries
          /\ useCache => Fld(round.scope, l) = sign[l]
    BY <1>0, <1>1, <1>3 DEF RoundInv
  <2>3. Intact' => \A l \in Libs : Fld(cache, l)' = IF l \in DOMAIN reply' THEN reply'[l]["sign"] ELSE viewer'[l]
    BY <1>0, <1>1, <1>6 DEF RoundInv, Intact
  <2>4. Intact' /\ full' => \A l \in Libs : viewer'[l] = NotListed
    BY <1>0, <1>1 DEF RoundInv, Intact
  <2> QED BY <1>1, <1>3, <1>5, <1>6, <2>1, <2>2, <2>3, <2>4 DEF SentInv
<1>10. RoundInv' /\ IdleInv' /\ Shown'
  BY <1>0, <1>1 DEF RoundInv, IdleInv, Shown, InRound, Intact
<1> QED BY <1>7, <1>8, <1>9, <1>10 DEF Inv

-----------------------------------------------------------------------------
(* The viewer *)

LEMMA ApplyStep ==
    ASSUME Inv, UpdateLibs
    PROVE  Inv'
<1>0. Shape /\ CacheInv /\ SentInv /\ at = "sent"
  BY DEF Inv, UpdateLibs
<1>1. /\ viewer' = [l \in Libs |-> IF IsRead(l) THEN reply[l]["sign"]
                                   ELSE IF IsSwept(l) THEN NotListed ELSE viewer[l]]
      /\ touched' = pending /\ at' = "idle"
      /\ UNCHANGED <<useCache, sign, version, cache, full, todo, cur, round, reply, pending, lost>>
  BY DEF UpdateLibs, agent
<1>2. NotListed \notin Values /\ \A l \in DOMAIN reply : reply[l]["sign"] \in Values
  BY <1>0, TypeFacts
<1>3. Listed' = Listed
  BY <1>1 DEF Listed
<1>4. viewer' \in [Libs -> Values \cup {NotListed}]
  BY <1>0, <1>1, <1>2 DEF IsRead, Shape
<1>5. Shape'
  BY <1>0, <1>1, <1>3, <1>4 DEF Shape
<1>6. CacheInv'
  <2>1. \A l : Tok(cache, l)' = Tok(cache, l) /\ Fld(cache, l)' = Fld(cache, l)
    BY <1>1 DEF Tok, Fld
  <2> QED BY <1>0, <1>1, <1>3, <2>1 DEF CacheInv
<1>7. \A l \in Libs : viewer'[l] # NotListed <=> l \in DOMAIN reply \/ (~full /\ viewer[l] # NotListed)
  BY <1>1, <1>2 DEF IsRead, IsSwept
<1>8. Intact => \A l \in Libs : viewer'[l] = Fld(cache, l)
  <2> SUFFICES ASSUME Intact, NEW l \in Libs PROVE viewer'[l] = Fld(cache, l)
    OBVIOUS
  <2>1. Fld(cache, l) = (IF l \in DOMAIN reply THEN reply[l]["sign"] ELSE viewer[l]) /\ (full => viewer[l] = NotListed)
    BY <1>0 DEF SentInv
  <2>2. CASE l \in DOMAIN reply
    BY <1>1, <2>1, <2>2 DEF IsRead
  <2>3. CASE l \notin DOMAIN reply
    BY <1>1, <2>1, <2>3 DEF IsRead, IsSwept
  <2> QED BY <2>2, <2>3
<1>9. IdleInv'
  <2>1. \A l : Fld(cache, l)' = Fld(cache, l)
    BY <1>1 DEF Fld
  <2> QED BY <1>0, <1>1, <1>7, <1>8, <2>1 DEF IdleInv, SentInv, Intact
<1>10. Shown'
  <2> SUFFICES ASSUME NEW l \in Libs, l \notin pending
               PROVE  (viewer'[l] = NotListed <=> sign[l] = NotListed) /\ (Intact => viewer'[l] = sign[l])
    BY <1>1 DEF Shown, Intact
  <2>1. sign[l] # NotListed <=> viewer'[l] # NotListed
    BY <1>0, <1>7 DEF SentInv, Listed
  <2>2. Intact => viewer'[l] = sign[l]
    BY <1>0, <1>8 DEF SentInv, Intact
  <2> QED BY <2>1, <2>2
<1>11. RoundInv' /\ SentInv'
  BY <1>1 DEF RoundInv, SentInv, InRound
<1> QED BY <1>5, <1>6, <1>9, <1>10, <1>11 DEF Inv

LEMMA LoseStep ==
    ASSUME Inv, LoseConnection
    PROVE  Inv'
<1>0. Shape /\ Shown
  BY DEF Inv
<1>1. /\ cache' = NewScope /\ at' = "idle" /\ lost' = lost + 1
      /\ UNCHANGED <<useCache, sign, version, full, todo, cur, round, reply, viewer, pending, touched>>
  BY DEF LoseConnection, agent
<1>2. cache' \in ScopeT /\ DOMAIN cache'.entries = {}
  BY <1>1, NewScopeType
<1>3. Listed' = Listed /\ lost' \in Nat /\ lost' # 0
  BY <1>0, <1>1 DEF Listed, Shape
<1>4. Shape'
  BY <1>0, <1>1, <1>2, <1>3 DEF Shape
<1>5. CacheInv'
  <2>1. \A l : Tok(cache, l)' = 0
    BY <1>2 DEF Tok
  <2>2. \A l \in Libs : version'[l] \in Nat
    BY <1>0, <1>1 DEF Shape
  <2> QED BY <1>2, <2>1, <2>2 DEF CacheInv
<1>6. RoundInv' /\ SentInv' /\ IdleInv' /\ Shown'
  BY <1>0, <1>1, <1>2, <1>3 DEF RoundInv, SentInv, IdleInv, InRound, Intact, Shown
<1> QED BY <1>4, <1>5, <1>6 DEF Inv

LEMMA InvInit == Init => Inv
<1> SUFFICES ASSUME Init PROVE Inv
  OBVIOUS
<1>1. NewScope \in ScopeT /\ DOMAIN NewScope.entries = {} /\ NoRound \in RoundT
  BY NewScopeType, BeginRoundEffect DEF NoRound
<1>2. Empty \in ChangesT
  BY EmptyPartial DEF ChangesT
<1>3. Listed = {}
  BY DEF Init, Listed
<1>4. Shape
  BY <1>1, <1>2, <1>3, LibraryConstants DEF Init, Shape
<1>5. \A l : Tok(cache, l) = 0 /\ Fld(cache, l) = NotListed
  BY <1>1 DEF Init, Tok, Fld
<1>6. /\ cache = NewScope /\ at = "idle" /\ touched = {} /\ DOMAIN cache.entries = {}
      /\ \A l \in Libs : version[l] = 0 /\ sign[l] = NotListed /\ viewer[l] = NotListed
  BY <1>1 DEF Init
<1>7. CacheInv
  BY <1>5, <1>6 DEF CacheInv
<1>8. RoundInv /\ SentInv
  BY <1>6 DEF RoundInv, SentInv, InRound
<1>9. IdleInv
  BY <1>5, <1>6 DEF IdleInv
<1>10. Shown
  BY <1>6 DEF Shown
<1> QED BY <1>4, <1>7, <1>8, <1>9, <1>10 DEF Inv

LEMMA InvStep == Inv /\ [Next]_vars => Inv'
<1> SUFFICES ASSUME Inv, [Next]_vars PROVE Inv'
  OBVIOUS
<1>1. CASE UNCHANGED vars
  <2>1. UNCHANGED <<useCache, sign, version, cache, at, full, todo, cur, round, reply, viewer, pending, touched, lost>>
    BY <1>1 DEF vars, agent, thread
  <2> QED BY <2>1 DEF Inv, Shape, CacheInv, RoundInv, SentInv, IdleInv, Shown, Tok, Fld, Writing, Mentioned,
                      InRound, Intact, Listed
<1> QED BY <1>1, AgentStep, BeginStep, SkipStep, NewVersionStep, WriteStep, ToVariantStep, FinishStep,
           ApplyStep, LoseStep DEF Next

\* With the cache and on one connection, whatever changes while a round is
\* being answered: a library that did not change since the last applied round
\* began is shown with the signature the agent has, although the round skips
\* every library whose version it has sent.
THEOREM VersionAnswersIt == Spec => []ConnectionInStep
<1>1. Inv => ConnectionInStep
  BY DEF Inv, Shown, Intact, ConnectionInStep, ViewerInStep
<1> QED BY <1>1, InvInit, InvStep, PTL DEF Spec

\* With and without the cache and over lost connections, the viewer lists
\* exactly the libraries the agent has.
THEOREM LibrariesAreListed == Spec => []SameLibraries
<1>1. Inv => SameLibraries
  BY DEF Inv, Shown, SameLibraries
<1> QED BY <1>1, InvInit, InvStep, PTL DEF Spec
=============================================================================
