--------------------------- MODULE PresetsProofs ---------------------------
(* The preset manager keeps every item's original state and leaves alone what *)
(* other presets own, for any number of presets, items and clients; its file  *)
(* is what is in memory, and owners are active, for requests one at a time.   *)
EXTENDS Presets, TLAPS

-----------------------------------------------------------------------------
(* Partial functions: the std::map members *)

\* A map is a function on its keys, and its keys are guids of the right kind.
LEMMA PartialFunctionDomain ==
    ASSUME NEW S, NEW T, NEW f \in PartialFunctions(S, T)
    PROVE  f \in [DOMAIN f -> T] /\ DOMAIN f \subseteq S
BY DEF PartialFunctions

\* A function on some of the guids is a map.
LEMMA PartialFunctionIntro ==
    ASSUME NEW S, NEW T, NEW D \in SUBSET S, NEW f \in [D -> T]
    PROVE  f \in PartialFunctions(S, T)
BY DEF PartialFunctions

\* What the type invariant says of the maps, without the union.
LEMMA MapTypes ==
    ASSUME TypeOK
    PROVE  /\ m_Presets \in [DOMAIN m_Presets -> [Items -> Wish]]
           /\ DOMAIN m_Presets \subseteq Presets
           /\ m_ItemOwnership \in [Owned -> Ownership]
           /\ Owned \subseteq Items
BY PartialFunctionDomain DEF TypeOK, PresetLists, Owners, Owned

-----------------------------------------------------------------------------
(* Type correctness *)

\* The empty image Store() starts from is an image.
LEMMA EmptyImageType == EmptyImage \in Image
<1>1. \A T : [x \in {} |-> {}] \in [{} -> T]
  OBVIOUS
<1>2. [p \in {} |-> {}] \in PresetLists
  BY <1>1, PartialFunctionIntro DEF PresetLists
<1>3. [i \in {} |-> {}] \in Owners
  BY <1>1, PartialFunctionIntro DEF Owners
<1>4. QED BY <1>2, <1>3 DEF EmptyImage, Image

\* Init's default preset is a preset list.
LEMMA DefaultPresetType ==
    ASSUME NEW p \in Presets
    PROVE  DefaultPreset(p) \in PresetLists
<1>1. DefaultPreset(p) \in [{p} -> [Items -> Wish]]
  BY DEF DefaultPreset, Wish
<1>2. QED BY <1>1, PartialFunctionIntro DEF PresetLists

\* Writing items keeps the states of all rules in range.
LEMMA WriteItemsType ==
    ASSUME TypeOK, NEW val, NEW fails, DOMAIN val \subseteq Items,
           \A i \in DOMAIN val : val[i] \in State,
           WriteItems(val, fails)
    PROVE  /\ live' \in [Rules -> State]
           /\ cached' \in [Rules -> State]
           /\ pending' \subseteq Items
<1>1. \A d \in Derived : Template[d] \in Items
  BY DerivedRules
<1>2. live \in [Rules -> State] /\ cached \in [Rules -> State] /\ pending \subseteq Items
  BY DEF TypeOK
<1>3. live' \in [Rules -> State]
  BY <1>1, <1>2 DEF WriteItems
<1>4. cached' \in [Rules -> State]
  BY <1>1, <1>2 DEF WriteItems
<1>5. pending' \subseteq Items
  BY <1>2 DEF WriteItems
<1>6. QED BY <1>3, <1>4, <1>5

\* DeactivatePresetInternal keeps the types of everything it changes.
LEMMA DeactivateInternalType ==
    ASSUME TypeOK, NEW p, NEW fails, DeactivatePresetInternal(p, fails)
    PROVE  /\ live' \in [Rules -> State]
           /\ cached' \in [Rules -> State]
           /\ pending' \subseteq Items
           /\ m_ItemOwnership' \in Owners
           /\ orig' \in [Items -> State]
           /\ excused' \subseteq Items
<1> DEFINE val == [i \in OwnedBy(p) |-> Restored(m_ItemOwnership[i])]
<1>1. OwnedBy(p) \subseteq Items
  BY MapTypes DEF OwnedBy
<1>2. \A i \in DOMAIN val : val[i] \in State
  BY DEF Restored, State
<1>3. WriteItems(val, fails)
  BY DEF DeactivatePresetInternal
<1>4. /\ live' \in [Rules -> State]
      /\ cached' \in [Rules -> State]
      /\ pending' \subseteq Items
  <2> HIDE DEF val
  <2>1. DOMAIN val \subseteq Items
    BY <1>1 DEF val
  <2> QED BY <1>2, <1>3, <2>1, WriteItemsType
<1>5. m_ItemOwnership' \in Owners
  <2>1. m_ItemOwnership' \in [Owned \ OwnedBy(p) -> Ownership]
    BY MapTypes DEF DeactivatePresetInternal
  <2>2. Owned \ OwnedBy(p) \in SUBSET Items
    BY MapTypes
  <2> QED BY <2>1, <2>2, PartialFunctionIntro DEF Owners
<1>6. orig' \in [Items -> State]
  BY DEF DeactivatePresetInternal, TypeOK, State
<1>7. excused' \subseteq Items
  BY <1>1 DEF DeactivatePresetInternal, TypeOK, Missed
<1>8. QED BY <1>4, <1>5, <1>6, <1>7

\* ApplyPresetItems keeps the types of everything it changes.
LEMMA ApplyItemsType ==
    ASSUME TypeOK, NEW p \in Presets, NEW bForce, NEW fails,
           ApplyPresetItems(p, bForce, fails)
    PROVE  /\ live' \in [Rules -> State]
           /\ cached' \in [Rules -> State]
           /\ pending' \subseteq Items
           /\ m_ItemOwnership' \in Owners
           /\ orig' \in [Items -> State]
           /\ excused' \subseteq Items
<1> DEFINE S == Applied(p, bForce)
           val == [i \in S |-> Target(m_Presets[p][i])]
<1>1. S \subseteq Items
  BY DEF Applied, Wanted
<1>2. \A i \in DOMAIN val : val[i] \in State
  BY DEF Target, State
<1>3. WriteItems(val, fails)
  BY DEF ApplyPresetItems
<1>4. /\ live' \in [Rules -> State]
      /\ cached' \in [Rules -> State]
      /\ pending' \subseteq Items
  <2> HIDE DEF val
  <2>1. DOMAIN val \subseteq Items
    BY <1>1 DEF val
  <2> QED BY <1>2, <1>3, <2>1, WriteItemsType
<1>5. m_ItemOwnership' \in Owners
  <2>1. \A i \in Owned \cup S : TakeOwnership(p, i) \in Ownership
    BY MapTypes DEF TakeOwnership, Ownership
  <2>2. m_ItemOwnership' \in [Owned \cup S -> Ownership]
    BY <2>1, MapTypes DEF ApplyPresetItems
  <2>3. Owned \cup S \in SUBSET Items
    BY <1>1, MapTypes
  <2> QED BY <2>2, <2>3, PartialFunctionIntro DEF Owners
<1>6. orig' \in [Items -> State]
  BY DEF ApplyPresetItems, TypeOK
<1>7. excused' \subseteq Items
  BY <1>1 DEF ApplyPresetItems, TypeOK, ReadStale
<1>8. QED BY <1>4, <1>5, <1>6, <1>7

\* Load takes over an image as it is.
LEMMA LoadType ==
    ASSUME TypeOK, NEW image \in Image, Load(image)
    PROVE  /\ m_Presets' \in PresetLists
           /\ m_ActivePresets' \subseteq Presets
           /\ m_ItemOwnership' \in Owners
           /\ at' \in [Clients -> Presets \cup {0}]
           /\ orig' \in [Items -> State]
           /\ excused' \subseteq Items
BY DEF Load, Image, TypeOK, Unsaved

\* A restart leaves a well typed state.
LEMMA RestartType == TypeOK /\ Restart => TypeOK'
<1> SUFFICES ASSUME TypeOK, Restart PROVE TypeOK'
  OBVIOUS
<1>1. PICK image \in Image : Load(image)
  <2>1. CASE file # NoFile
    BY <2>1 DEF Restart, TypeOK
  <2>2. CASE file = NoFile
    <3>1. PICK p \in Presets : Load([EmptyImage EXCEPT !.presets = DefaultPreset(p)])
      BY <2>2 DEF Restart
    <3>2. [EmptyImage EXCEPT !.presets = DefaultPreset(p)] \in Image
      BY EmptyImageType, DefaultPresetType DEF Image
    <3> QED BY <3>1, <3>2
  <2> QED BY <2>1, <2>2
<1>2. /\ m_Presets' \in PresetLists
      /\ m_ActivePresets' \subseteq Presets
      /\ m_ItemOwnership' \in Owners
      /\ at' \in [Clients -> Presets \cup {0}]
      /\ orig' \in [Items -> State]
      /\ excused' \subseteq Items
  BY <1>1, LoadType
<1>3. live' \in [Rules -> State] /\ cached' \in [Rules -> State] /\ pending' \subseteq Items
  BY DEF Restart, TypeOK
<1>4. /\ file' \in Image \cup {NoFile} /\ tmp' \in Image \cup {NoFile}
      /\ pc' \in [Clients -> PCs]
      /\ left' \in [Clients -> SUBSET Presets]
      /\ import' \in [Clients -> PresetLists \cup {NoFile}]
      /\ snap' \in [Clients -> Image]
      /\ null' \in [Clients -> BOOLEAN]
  BY EmptyImageType DEF Restart, TypeOK, PCs
<1>5. QED BY <1>2, <1>3, <1>4 DEF TypeOK

\* Goto stays within the labels.
LEMMA GotoType ==
    ASSUME TypeOK, NEW c \in Clients, NEW l \in PCs, Goto(c, l)
    PROVE  pc' \in [Clients -> PCs]
BY DEF Goto, TypeOK

\* Erasing active presets keeps the set and the iterators in range.
LEMMA EraseActiveType ==
    ASSUME TypeOK, NEW S, EraseActive(S)
    PROVE  m_ActivePresets' \subseteq Presets /\ at' \in [Clients -> Presets \cup {0}]
BY DEF EraseActive, TypeOK

\* The critical section of DeactivatePreset keeps the types.
LEMMA DeactivateLockedType ==
    ASSUME TypeOK, NEW c \in Clients, NEW p \in Presets, DeactivateLocked(c, p),
           UNCHANGED <<m_Presets, file, tmp, import, snap>>,
           left' \in [Clients -> SUBSET Presets]
    PROVE  TypeOK'
<1>1. PICK fails : DeactivatePresetInternal(p, fails)
  BY DEF DeactivateLocked
<1>2. /\ live' \in [Rules -> State]
      /\ cached' \in [Rules -> State]
      /\ pending' \subseteq Items
      /\ m_ItemOwnership' \in Owners
      /\ orig' \in [Items -> State]
      /\ excused' \subseteq Items
  BY <1>1, DeactivateInternalType
<1>3. m_ActivePresets' \subseteq Presets /\ at' \in [Clients -> Presets \cup {0}]
  BY EraseActiveType DEF DeactivateLocked
<1>4. pc' \in [Clients -> PCs]
  BY GotoType DEF DeactivateLocked, PCs
<1>5. null' \in [Clients -> BOOLEAN]
  BY DEF DeactivateLocked, HoldPreset, TypeOK
<1>6. QED BY <1>2, <1>3, <1>4, <1>5 DEF TypeOK

\* A turn of the DeactivateAllPresets loop keeps the types.
LEMMA VisitPresetType ==
    ASSUME TypeOK, NEW c \in Clients, NEW p \in Presets, VisitPreset(c, p)
    PROVE  TypeOK'
<1>1. PICK fails : DeactivatePresetInternal(p, fails)
  BY DEF VisitPreset
<1>2. /\ live' \in [Rules -> State]
      /\ cached' \in [Rules -> State]
      /\ pending' \subseteq Items
      /\ m_ItemOwnership' \in Owners
      /\ orig' \in [Items -> State]
      /\ excused' \subseteq Items
  BY <1>1, DeactivateInternalType
<1>3. at' \in [Clients -> Presets \cup {0}]
  BY DEF VisitPreset, TypeOK
<1>4. pc' \in [Clients -> PCs]
  BY GotoType DEF VisitPreset, PCs
<1>5. QED BY <1>2, <1>3, <1>4 DEF TypeOK, VisitPreset

\* The end of the loop keeps the types.
LEMMA FinishDeactivateAllType ==
    ASSUME TypeOK, NEW c \in Clients, FinishDeactivateAll(c)
    PROVE  TypeOK'
<1>1. m_ActivePresets' \subseteq Presets /\ at' \in [Clients -> Presets \cup {0}]
  BY EraseActiveType DEF FinishDeactivateAll
<1>2. pc' \in [Clients -> PCs]
  BY GotoType DEF FinishDeactivateAll, PCs
<1>3. QED BY <1>1, <1>2 DEF TypeOK, FinishDeactivateAll, rules, hist

\* Every request keeps the types.
LEMMA RequestType ==
    ASSUME TypeOK, NEW c \in Clients, Request(c)
    PROVE  TypeOK'
<1>1. ASSUME NEW p \in Presets, NEW bForce \in BOOLEAN, ActivatePreset(c, p, bForce)
      PROVE  TypeOK'
  <2>1. PICK fails : ApplyPresetItems(p, bForce, fails)
    BY <1>1 DEF ActivatePreset
  <2>2. /\ live' \in [Rules -> State]
        /\ cached' \in [Rules -> State]
        /\ pending' \subseteq Items
        /\ m_ItemOwnership' \in Owners
        /\ orig' \in [Items -> State]
        /\ excused' \subseteq Items
    BY <2>1, ApplyItemsType
  <2>3. pc' \in [Clients -> PCs]
    BY <1>1, GotoType DEF ActivatePreset, PCs
  <2> QED BY <1>1, <2>2, <2>3 DEF ActivatePreset, TypeOK
<1>2. ASSUME NEW p \in Presets, DeactivatePreset(c, p) PROVE TypeOK'
  BY <1>2, DeactivateLockedType DEF DeactivatePreset, TypeOK
<1>3. ASSUME NEW p \in Presets, DelEntry(c, p) PROVE TypeOK'
  <2>1. m_Presets' \in [DOMAIN m_Presets \ {p} -> [Items -> Wish]]
    BY <1>3, MapTypes DEF DelEntry
  <2>2. m_Presets' \in PresetLists
    BY <2>1, MapTypes, PartialFunctionIntro DEF PresetLists
  <2> QED BY <1>3, <2>2 DEF DelEntry, TypeOK, rules, call, hist
<1>4. ASSUME NEW p \in Presets, NEW e \in Edits, SetEntry(c, p, e) PROVE TypeOK'
  <2>1. m_Presets' \in [DOMAIN m_Presets \cup {p} -> [Items -> Wish]]
    BY <1>4, MapTypes, EditsAreItemLists DEF SetEntry
  <2>2. m_Presets' \in PresetLists
    BY <2>1, MapTypes, PartialFunctionIntro DEF PresetLists
  <2> QED BY <1>4, <2>2 DEF SetEntry, TypeOK, rules, call, hist
<1>5. CASE DeactivateAllPresets(c)
  <2>1. \A p \in First(m_ActivePresets) : p \in Presets
    BY DEF First, TypeOK
  <2> QED BY <1>5, <2>1, VisitPresetType, FinishDeactivateAllType DEF DeactivateAllPresets
<1>6. ASSUME NEW list \in ImportLists, ImportPresets(c, list) PROVE TypeOK'
  <2>1. list \in PresetLists
    BY EditsAreItemLists DEF ImportLists, PartialFunctions, PresetLists
  <2>2. pc' \in [Clients -> PCs]
    BY <1>6, GotoType DEF ImportPresets, PCs
  <2> QED BY <1>6, <2>1, <2>2 DEF ImportPresets, TypeOK, mem, rules, hist
<1>7. CASE CommitConfig(c)
  <2>1. pc' \in [Clients -> PCs]
    BY <1>7, GotoType DEF CommitConfig, PCs
  <2> QED BY <1>7, <2>1 DEF CommitConfig, TypeOK, mem, rules, hist
<1>8. CASE DiscardConfig(c)
  <2>1. CASE file # NoFile /\ Load(file)
    <3>1. /\ m_Presets' \in PresetLists
          /\ m_ActivePresets' \subseteq Presets
          /\ m_ItemOwnership' \in Owners
          /\ at' \in [Clients -> Presets \cup {0}]
          /\ orig' \in [Items -> State]
          /\ excused' \subseteq Items
      BY <2>1, LoadType DEF TypeOK
    <3> QED BY <1>8, <3>1 DEF DiscardConfig, TypeOK, rules
  <2>2. CASE file = NoFile
    <3>1. PICK p \in Presets : m_Presets' = [q \in DOMAIN m_Presets \cup {p} |->
                    IF q = p THEN [i \in Items |-> "skip"] ELSE m_Presets[q]]
      BY <1>8, <2>2 DEF DiscardConfig
    <3>2. m_Presets' \in [DOMAIN m_Presets \cup {p} -> [Items -> Wish]]
      BY <3>1, MapTypes DEF Wish
    <3>3. m_Presets' \in PresetLists
      BY <3>2, MapTypes, PartialFunctionIntro DEF PresetLists
    <3> QED BY <1>8, <2>2, <3>3 DEF DiscardConfig, TypeOK, rules, hist
  <2> QED BY <1>8, <2>1, <2>2 DEF DiscardConfig
<1>9. QED BY <1>1, <1>2, <1>3, <1>4, <1>5, <1>6, <1>7, <1>8 DEF Request

\* Every later step of a request keeps the types.
LEMMA ContinueType ==
    ASSUME TypeOK, NEW c \in Clients, Continue(c)
    PROVE  TypeOK'
<1>1. CASE DeactivateAllNext(c)
  <2>1. \A p \in First(Above(at[c])) : p \in Presets
    BY DEF First, Above, TypeOK
  <2> QED BY <1>1, <2>1, VisitPresetType, FinishDeactivateAllType DEF DeactivateAllNext
<1>2. CASE DeactivateAllDangling(c)
  <2>1. \A p \in m_ActivePresets : p \in Presets
    BY DEF TypeOK
  <2> QED BY <1>2, <2>1, VisitPresetType, FinishDeactivateAllType DEF DeactivateAllDangling
<1>3. CASE ImportDeactivate(c)
  <2>1. PICK p \in First(left[c]) :
          /\ left' = [left EXCEPT ![c] = @ \ {p}]
          /\ \/ DeactivateLocked(c, p)
             \/ UNCHANGED <<m_ActivePresets, m_ItemOwnership, rules, hist, null, pc, at>>
    BY <1>3 DEF ImportDeactivate
  <2>2. p \in Presets
    BY DEF First, TypeOK
  <2>3. left' \in [Clients -> SUBSET Presets]
    BY <2>1 DEF TypeOK
  <2>4. UNCHANGED <<m_Presets, file, tmp, import, snap>>
    BY <1>3 DEF ImportDeactivate
  <2>5. CASE DeactivateLocked(c, p)
    BY <2>2, <2>3, <2>4, <2>5, DeactivateLockedType
  <2>6. CASE UNCHANGED <<m_ActivePresets, m_ItemOwnership, rules, hist, null, pc, at>>
    BY <2>3, <2>4, <2>6 DEF TypeOK, rules, hist
  <2> QED BY <2>1, <2>5, <2>6
<1>4. CASE SetPresets(c)
  <2>1. pc' \in [Clients -> PCs]
    BY <1>4, GotoType DEF SetPresets, PCs
  <2>2. m_Presets' \in PresetLists
    BY <1>4 DEF SetPresets, TypeOK
  <2> QED BY <1>4, <2>1, <2>2 DEF SetPresets, TypeOK, rules, hist
<1>5. CASE SaveEntries(c)
  <2>1. pc' \in [Clients -> PCs]
    BY <1>5, GotoType DEF SaveEntries, PCs
  <2>2. snap' \in [Clients -> Image]
    BY <1>5 DEF SaveEntries, TypeOK, Image
  <2> QED BY <1>5, <2>1, <2>2 DEF SaveEntries, TypeOK, mem, rules, hist
<1>6. CASE SaveOwnership(c)
  <2>1. pc' \in [Clients -> PCs]
    BY <1>6, GotoType DEF SaveOwnership, PCs
  <2>2. snap' \in [Clients -> Image]
    BY <1>6 DEF SaveOwnership, TypeOK, Image
  <2> QED BY <1>6, <2>1, <2>2 DEF SaveOwnership, TypeOK, mem, rules, hist
<1>7. CASE WriteFile(c)
  <2>1. pc' \in [Clients -> PCs]
    BY <1>7, GotoType DEF WriteFile, PCs
  <2>2. snap' \in [Clients -> Image]
    BY <1>7, EmptyImageType DEF WriteFile, TypeOK
  <2>3. tmp' \in Image \cup {NoFile}
    BY <1>7 DEF WriteFile, TypeOK
  <2> QED BY <1>7, <2>1, <2>2, <2>3 DEF WriteFile, TypeOK, mem, rules, hist
<1>8. CASE MoveAway(c)
  <2>1. pc' \in [Clients -> PCs]
    BY <1>8, GotoType DEF MoveAway, PCs
  <2> QED BY <1>8, <2>1 DEF MoveAway, TypeOK, mem, rules, hist
<1>9. CASE RenameFile(c)
  <2>1. pc' \in [Clients -> PCs]
    BY <1>9, GotoType DEF RenameFile, PCs
  <2>2. file' \in Image \cup {NoFile} /\ tmp' \in Image \cup {NoFile}
    BY <1>9 DEF RenameFile, TypeOK
  <2> QED BY <1>9, <2>1, <2>2 DEF RenameFile, TypeOK, mem, rules, hist
<1>10. CASE EmitChangeEvent(c)
  <2>1. pc' \in [Clients -> PCs]
    BY <1>10, GotoType DEF EmitChangeEvent, PCs
  <2> QED BY <1>10, <2>1 DEF EmitChangeEvent, TypeOK, mem, rules, hist
<1>11. CASE NullPreset(c)
  BY <1>11, RestartType DEF NullPreset
<1>12. QED BY <1>1, <1>2, <1>3, <1>4, <1>5, <1>6, <1>7, <1>8, <1>9, <1>10, <1>11 DEF Continue

\* The fresh installation is well typed.
LEMMA InitType == Init => TypeOK
<1> SUFFICES ASSUME Init PROVE TypeOK
  OBVIOUS
<1>1. m_Presets \in PresetLists
  BY DefaultPresetType DEF Init
<1>2. m_ItemOwnership \in Owners
  BY EmptyImageType DEF Init, EmptyImage, Image
<1>3. live \in [Rules -> State] /\ cached \in [Rules -> State]
  BY DEF Init, State
<1>4. orig \in [Items -> State]
  BY DEF Init, Rules, State
<1>5. QED BY <1>1, <1>2, <1>3, <1>4, EmptyImageType DEF Init, TypeOK, PCs

\* Any step of the specification keeps the types.
LEMMA StepType == TypeOK /\ [Next]_vars => TypeOK'
<1> SUFFICES ASSUME TypeOK, [Next]_vars PROVE TypeOK'
  OBVIOUS
<1>1. ASSUME NEW c \in Clients, Request(c) \/ Continue(c) PROVE TypeOK'
  BY <1>1, RequestType, ContinueType
<1>2. ASSUME NEW i \in Items, OnRuleChanged(i) PROVE TypeOK'
  BY <1>2 DEF OnRuleChanged, TypeOK, Rules, mem, call, hist
<1>3. ASSUME NEW i \in Items, NEW s \in State, UserSet(i, s) PROVE TypeOK'
  BY <1>3 DEF UserSet, TypeOK, Rules, mem, call, hist
<1>4. CASE Crash
  BY <1>4, RestartType DEF Crash
<1>5. CASE UNCHANGED vars
  BY <1>5 DEF vars, mem, rules, call, hist, TypeOK
<1>6. QED BY <1>1, <1>2, <1>3, <1>4, <1>5 DEF Next

\* The members of CPresetManager, its file and every request keep the shape
\* the code gives them.
THEOREM TypeCorrect == Spec => []TypeOK
<1>1. Init => TypeOK
  BY InitType
<1>2. TypeOK /\ [Next]_vars => TypeOK'
  BY StepType
<1>3. QED BY <1>1, <1>2, PTL DEF Spec

-----------------------------------------------------------------------------
(* Original states *)

\* The inductive invariant: an owned item remembers its original state, and an
\* item that is not owned is in it.  Each half needs the other: what is saved
\* when an item is taken is the state it is in, and the state it is put back
\* into is the one that was saved.
OriginalInv ==
    /\ TypeOK
    /\ OwnedRemembersOriginal
    /\ UnownedIsOriginal

\* What a write leaves behind on items: the target where the write got through.
LEMMA WriteItemsEffect ==
    ASSUME TypeOK, NEW val, NEW fails, WriteItems(val, fails), NEW i \in Items
    PROVE  live'[i] = IF i \in DOMAIN val /\ cached[i] # "absent" /\ i \notin fails
                      THEN val[i] ELSE live[i]
<1>1. i \in Rules /\ i \notin Derived
  BY DerivedRules DEF Rules
<1>2. QED BY <1>1 DEF WriteItems

\* Giving items back keeps both halves.
LEMMA DeactivateInternalOriginal ==
    ASSUME OriginalInv, NEW p, NEW fails, DeactivatePresetInternal(p, fails)
    PROVE  OwnedRemembersOriginal' /\ UnownedIsOriginal'
<1> USE DEF OriginalInv
<1>1. Owned' = Owned \ OwnedBy(p) /\ \A i \in Owned' : m_ItemOwnership'[i] = m_ItemOwnership[i]
  BY DEF DeactivatePresetInternal, Owned
<1>2. \A i \in Items : orig'[i] = IF i \in OwnedBy(p) /\ live'[i] = "absent"
                                THEN "absent" ELSE orig[i]
  BY DEF DeactivatePresetInternal
<1>3. OwnedBy(p) \subseteq Owned /\ Owned \subseteq Items
  BY MapTypes DEF OwnedBy
<1>4. excused \subseteq excused'
  BY DEF DeactivatePresetInternal
<1>5. OwnedRemembersOriginal'
  BY <1>1, <1>2, <1>3, <1>4 DEF OwnedRemembersOriginal
<1>6. ASSUME NEW i \in Items, i \notin Owned', i \notin excused'
      PROVE  Undisturbed(i)'
  <2> DEFINE val == [j \in OwnedBy(p) |-> Restored(m_ItemOwnership[j])]
  <2>1. WriteItems(val, fails)
    BY DEF DeactivatePresetInternal
  <2>2. live'[i] = IF i \in OwnedBy(p) /\ cached[i] # "absent" /\ i \notin fails
                   THEN Restored(m_ItemOwnership[i]) ELSE live[i]
    <3>1. DOMAIN val = OwnedBy(p) /\ \A j \in OwnedBy(p) : val[j] = Restored(m_ItemOwnership[j])
      OBVIOUS
    <3> HIDE DEF val
    <3> QED BY <2>1, <3>1, WriteItemsEffect
  <2>3. CASE i \in OwnedBy(p)
    <3>1. i \notin Missed(OwnedBy(p), fails) /\ i \notin excused
      BY <1>6 DEF DeactivatePresetInternal
    <3>2. m_ItemOwnership[i].bWasEnabled = (orig[i] = "on")
      BY <1>3, <2>3, <3>1 DEF OwnedRemembersOriginal
    <3>3. CASE cached[i] # "absent"
      BY <1>2, <2>2, <2>3, <3>1, <3>2, <3>3 DEF Missed, Restored, Undisturbed
    <3>4. CASE cached[i] = "absent"
      BY <1>2, <2>2, <2>3, <3>1, <3>4 DEF Missed, Undisturbed
    <3> QED BY <3>3, <3>4
  <2>4. CASE i \notin OwnedBy(p)
    <3>1. Undisturbed(i)
      BY <1>1, <1>4, <1>6, <2>4 DEF UnownedIsOriginal
    <3> QED BY <1>2, <2>2, <2>4, <3>1 DEF Undisturbed
  <2> QED BY <2>3, <2>4
<1>7. QED BY <1>5, <1>6 DEF UnownedIsOriginal

\* Taking items keeps both halves, also when they are taken from another preset.
LEMMA ApplyItemsOriginal ==
    ASSUME OriginalInv, NEW p, NEW bForce, NEW fails, ApplyPresetItems(p, bForce, fails)
    PROVE  OwnedRemembersOriginal' /\ UnownedIsOriginal'
<1> USE DEF OriginalInv
<1> DEFINE S == Applied(p, bForce)
           val == [j \in S |-> Target(m_Presets[p][j])]
<1>1. S \subseteq Items /\ Owned \subseteq Items
  BY MapTypes DEF Applied, Wanted
<1>2. Owned' = Owned \cup S
  BY DEF ApplyPresetItems, Owned
<1>3. \A i \in Owned' : m_ItemOwnership'[i] =
          IF i \in S THEN TakeOwnership(p, i) ELSE m_ItemOwnership[i]
  BY <1>2 DEF ApplyPresetItems
<1>4. orig' = orig /\ excused' = excused \cup ReadStale(S \ Owned)
  BY DEF ApplyPresetItems
<1>5. ASSUME NEW i \in Owned', i \notin excused'
      PROVE  m_ItemOwnership'[i].bWasEnabled = (orig'[i] = "on")
  <2>1. CASE i \in Owned
    <3>1. m_ItemOwnership[i].bWasEnabled = (orig[i] = "on")
      BY <1>4, <1>5, <2>1 DEF OwnedRemembersOriginal
    <3>2. TakeOwnership(p, i).bWasEnabled = m_ItemOwnership[i].bWasEnabled
      BY <2>1, MapTypes DEF TakeOwnership, Ownership
    <3> QED BY <1>3, <1>4, <3>1, <3>2
  <2>2. CASE i \notin Owned
    <3>1. i \in S \ Owned
      BY <1>2, <1>5, <2>2
    <3>2. cached[i] = live[i]
      BY <1>4, <1>5, <3>1 DEF ReadStale
    <3>3. Undisturbed(i)
      BY <1>1, <1>4, <1>5, <3>1 DEF UnownedIsOriginal
    <3>4. TakeOwnership(p, i).bWasEnabled = (cached[i] = "on")
      BY <2>2 DEF TakeOwnership
    <3> QED BY <1>3, <1>4, <3>1, <3>2, <3>3, <3>4 DEF Undisturbed
  <2> QED BY <2>1, <2>2
<1>6. ASSUME NEW i \in Items, i \notin Owned', i \notin excused'
      PROVE  Undisturbed(i)'
  <2>1. Undisturbed(i)
    BY <1>2, <1>4, <1>6 DEF UnownedIsOriginal
  <2>2. WriteItems(val, fails)
    BY DEF ApplyPresetItems
  <2>3. i \notin DOMAIN val
    BY <1>2, <1>6
  <2>4. live'[i] = live[i]
    <3> HIDE DEF val
    <3> QED BY <2>2, <2>3, WriteItemsEffect
  <2> QED BY <1>4, <2>1, <2>4 DEF Undisturbed
<1>7. QED BY <1>5, <1>6 DEF OwnedRemembersOriginal, UnownedIsOriginal

\* Reading the file back keeps both halves for the items the file is current on.
LEMMA LoadOriginal ==
    ASSUME OriginalInv, NEW image \in Image, Load(image), live' = live
    PROVE  OwnedRemembersOriginal' /\ UnownedIsOriginal'
<1> USE DEF OriginalInv
<1>1. m_ItemOwnership' = image.own /\ orig' = orig /\ excused' = excused \cup Unsaved(image.own)
  BY DEF Load
<1>2. \A i \in Items \ excused' : (i \in Owned) = (i \in Owned')
  BY <1>1 DEF Unsaved, Owned
<1>3. \A i \in Items \ excused' : i \in Owned => m_ItemOwnership'[i] = m_ItemOwnership[i]
  BY <1>1 DEF Unsaved
<1>4. OwnedRemembersOriginal'
  <2>1. image.own \in Owners
    BY DEF Image
  <2>2. Owned' \subseteq Items
    BY <1>1, <2>1, PartialFunctionDomain DEF Owned, Owners
  <2> QED BY <1>1, <1>2, <1>3, <2>2 DEF OwnedRemembersOriginal
<1>5. UnownedIsOriginal'
  BY <1>1, <1>2 DEF UnownedIsOriginal, Undisturbed
<1>6. QED BY <1>4, <1>5

\* Steps that touch neither items, ownership nor history keep both halves.
LEMMA OtherStepsOriginal ==
    ASSUME OriginalInv, UNCHANGED <<m_ItemOwnership, live, hist>>
    PROVE  OwnedRemembersOriginal' /\ UnownedIsOriginal'
BY DEF OriginalInv, OwnedRemembersOriginal, UnownedIsOriginal, Undisturbed, Owned, hist

\* A restart keeps both halves.
LEMMA RestartOriginal ==
    ASSUME OriginalInv, Restart
    PROVE  OwnedRemembersOriginal' /\ UnownedIsOriginal'
<1>1. live' = live
  BY DEF Restart
<1>2. CASE file # NoFile /\ Load(file)
  BY <1>1, <1>2, LoadOriginal DEF OriginalInv, TypeOK
<1>3. CASE file = NoFile
  <2>1. PICK p \in Presets : Load([EmptyImage EXCEPT !.presets = DefaultPreset(p)])
    BY <1>3 DEF Restart
  <2>2. [EmptyImage EXCEPT !.presets = DefaultPreset(p)] \in Image
    BY EmptyImageType, DefaultPresetType DEF Image
  <2> QED BY <1>1, <2>1, <2>2, LoadOriginal
<1>4. QED BY <1>2, <1>3 DEF Restart

\* A turn of the DeactivateAllPresets loop, or its end, keeps both halves.
LEMMA WalkOriginal ==
    ASSUME OriginalInv, NEW c,
           FinishDeactivateAll(c) \/ \E p : VisitPreset(c, p)
    PROVE  OwnedRemembersOriginal' /\ UnownedIsOriginal'
<1>1. CASE FinishDeactivateAll(c)
  BY <1>1, OtherStepsOriginal DEF FinishDeactivateAll, rules
<1>2. ASSUME NEW p, VisitPreset(c, p) PROVE OwnedRemembersOriginal' /\ UnownedIsOriginal'
  BY <1>2, DeactivateInternalOriginal DEF VisitPreset
<1>3. QED BY <1>1, <1>2

\* Every step keeps the inductive invariant.
LEMMA StepOriginal == OriginalInv /\ [Next]_vars => OriginalInv'
<1> SUFFICES ASSUME OriginalInv, [Next]_vars PROVE OwnedRemembersOriginal' /\ UnownedIsOriginal'
  BY StepType DEF OriginalInv
<1>1. ASSUME NEW c \in Clients, Request(c) PROVE OwnedRemembersOriginal' /\ UnownedIsOriginal'
  <2>1. ASSUME NEW p \in Presets, NEW bForce \in BOOLEAN, ActivatePreset(c, p, bForce)
        PROVE  OwnedRemembersOriginal' /\ UnownedIsOriginal'
    BY <2>1, ApplyItemsOriginal DEF ActivatePreset
  <2>2. ASSUME NEW p \in Presets, DeactivatePreset(c, p)
        PROVE  OwnedRemembersOriginal' /\ UnownedIsOriginal'
    BY <2>2, DeactivateInternalOriginal DEF DeactivatePreset, DeactivateLocked
  <2>3. ASSUME NEW p \in Presets, DelEntry(c, p) \/ \E e \in Edits : SetEntry(c, p, e)
        PROVE  OwnedRemembersOriginal' /\ UnownedIsOriginal'
    BY <2>3, OtherStepsOriginal DEF DelEntry, SetEntry, rules
  <2>4. CASE DeactivateAllPresets(c)
    BY <2>4, WalkOriginal DEF DeactivateAllPresets
  <2>5. CASE CommitConfig(c) \/ \E list \in ImportLists : ImportPresets(c, list)
    BY <2>5, OtherStepsOriginal DEF CommitConfig, ImportPresets, rules, mem
  <2>6. CASE DiscardConfig(c)
    <3>1. CASE file # NoFile /\ Load(file)
      BY <2>6, <3>1, LoadOriginal DEF DiscardConfig, OriginalInv, TypeOK, rules
    <3>2. CASE file = NoFile
      BY <2>6, <3>2, OtherStepsOriginal DEF DiscardConfig, rules
    <3> QED BY <2>6, <3>1, <3>2 DEF DiscardConfig
  <2> QED BY <1>1, <2>1, <2>2, <2>3, <2>4, <2>5, <2>6 DEF Request
<1>2. ASSUME NEW c \in Clients, Continue(c) PROVE OwnedRemembersOriginal' /\ UnownedIsOriginal'
  <2>1. CASE DeactivateAllNext(c) \/ DeactivateAllDangling(c)
    BY <2>1, WalkOriginal DEF DeactivateAllNext, DeactivateAllDangling
  <2>2. CASE ImportDeactivate(c)
    <3>1. PICK p \in First(left[c]) :
             \/ DeactivateLocked(c, p)
             \/ UNCHANGED <<m_ItemOwnership, rules, hist>>
      BY <2>2 DEF ImportDeactivate
    <3>2. CASE DeactivateLocked(c, p)
      BY <3>2, DeactivateInternalOriginal DEF DeactivateLocked
    <3>3. CASE UNCHANGED <<m_ItemOwnership, rules, hist>>
      BY <3>3, OtherStepsOriginal DEF rules
    <3> QED BY <3>1, <3>2, <3>3
  <2>3. CASE SetPresets(c) \/ SaveEntries(c) \/ SaveOwnership(c) \/ WriteFile(c)
            \/ MoveAway(c) \/ RenameFile(c) \/ EmitChangeEvent(c)
    BY <2>3, OtherStepsOriginal
    DEF SetPresets, SaveEntries, SaveOwnership, WriteFile, MoveAway, RenameFile, EmitChangeEvent,
        mem, rules
  <2>4. CASE NullPreset(c)
    BY <2>4, RestartOriginal DEF NullPreset
  <2> QED BY <1>2, <2>1, <2>2, <2>3, <2>4 DEF Continue
<1>3. ASSUME NEW i \in Items, OnRuleChanged(i) PROVE OwnedRemembersOriginal' /\ UnownedIsOriginal'
  BY <1>3, OtherStepsOriginal DEF OnRuleChanged, mem
<1>4. ASSUME NEW i \in Items, NEW s \in State, UserSet(i, s)
      PROVE  OwnedRemembersOriginal' /\ UnownedIsOriginal'
  <2>1. Owned' = Owned /\ m_ItemOwnership' = m_ItemOwnership
    BY <1>4 DEF UserSet, mem, Owned
  <2>2. live' = [live EXCEPT ![i] = s] /\ i \in Rules
    BY <1>4 DEF UserSet, Rules
  <2>3. CASE i \in Owned
    BY <1>4, <2>1, <2>2, <2>3
    DEF UserSet, OriginalInv, TypeOK, OwnedRemembersOriginal, UnownedIsOriginal, Undisturbed, hist
  <2>4. CASE i \notin Owned
    <3>1. orig' = [orig EXCEPT ![i] = s] /\ excused' = excused \ {i}
      BY <1>4, <2>4 DEF UserSet
    <3>2. Owned \subseteq Items
      BY MapTypes DEF OriginalInv
    <3>3. OwnedRemembersOriginal'
      BY <2>1, <2>4, <3>1, <3>2 DEF OriginalInv, TypeOK, OwnedRemembersOriginal
    <3>4. UnownedIsOriginal'
      BY <2>1, <2>2, <3>1 DEF OriginalInv, TypeOK, UnownedIsOriginal, Undisturbed, Rules
    <3> QED BY <3>3, <3>4
  <2> QED BY <2>3, <2>4
<1>5. CASE Crash
  BY <1>5, RestartOriginal DEF Crash
<1>6. CASE UNCHANGED vars
  BY <1>6, OtherStepsOriginal DEF vars, mem, rules
<1>7. QED BY <1>1, <1>2, <1>3, <1>4, <1>5, <1>6 DEF Next

\* In a fresh installation no item is owned and every item is as the user left it.
LEMMA InitOriginal == Init => OriginalInv
<1> SUFFICES ASSUME Init PROVE OwnedRemembersOriginal /\ UnownedIsOriginal
  BY InitType DEF OriginalInv
<1>1. QED BY DEF Init, OwnedRemembersOriginal, UnownedIsOriginal, Undisturbed, Owned

\* ApplyPresetItems saves the state an item had before any preset touched it,
\* and no takeover by another preset, edit, deletion, reload or restart changes
\* it: for any number of presets, items and clients.
THEOREM OriginalsAreRemembered == Spec => []OwnedRemembersOriginal
<1>1. Init => OriginalInv
  BY InitOriginal
<1>2. OriginalInv /\ [Next]_vars => OriginalInv'
  BY StepOriginal
<1>3. OriginalInv => OwnedRemembersOriginal
  BY DEF OriginalInv
<1>4. QED BY <1>1, <1>2, <1>3, PTL DEF Spec

\* DeactivatePresetInternal leaves every item it gives back in the state the
\* user last gave it: for any number of presets, items and clients.
THEOREM OriginalsAreRestored == Spec => []UnownedIsOriginal
<1>1. Init => OriginalInv
  BY InitOriginal
<1>2. OriginalInv /\ [Next]_vars => OriginalInv'
  BY StepOriginal
<1>3. OriginalInv => UnownedIsOriginal
  BY DEF OriginalInv
<1>4. QED BY <1>1, <1>2, <1>3, PTL DEF Spec

\* Without force ApplyPresetItems goes over no item another preset owns.
LEMMA UnforcedApplies ==
    ASSUME NEW p, NEW i \in Owned \ OwnedBy(p)
    PROVE  i \notin Applied(p, FALSE)
BY DEF Applied, CheckPresetConflicts, OwnedBy

\* ActivatePreset without force leaves the items other presets own alone, who
\* owns them, the state saved for them and the state they are in, also where
\* the preset was active already and CheckPresetConflicts was not asked.
THEOREM OthersAreLeftAlone == Spec => UnforcedLeavesOthers
<1>1. TypeOK => [\A c \in Clients, p \in Presets : ActivatePreset(c, p, FALSE) =>
                    \A i \in Owned \ OwnedBy(p) :
                       m_ItemOwnership'[i] = m_ItemOwnership[i] /\ live'[i] = live[i]]_vars
  <2> SUFFICES ASSUME TypeOK, NEW c \in Clients, NEW p \in Presets,
                      ActivatePreset(c, p, FALSE), NEW i \in Owned \ OwnedBy(p)
               PROVE  m_ItemOwnership'[i] = m_ItemOwnership[i] /\ live'[i] = live[i]
    OBVIOUS
  <2> DEFINE S == Applied(p, FALSE)
             val == [j \in S |-> Target(m_Presets[p][j])]
  <2>1. PICK fails : ApplyPresetItems(p, FALSE, fails)
    BY DEF ActivatePreset
  <2>2. i \notin S /\ i \in Items /\ i \in Owned
    BY UnforcedApplies, MapTypes
  <2>3. m_ItemOwnership'[i] = m_ItemOwnership[i]
    <3> HIDE DEF S
    <3>1. m_ItemOwnership' = [j \in Owned \cup S |->
             IF j \in S THEN TakeOwnership(p, j) ELSE m_ItemOwnership[j]]
      BY <2>1 DEF ApplyPresetItems, S
    <3> QED BY <2>2, <3>1
  <2>4. WriteItems(val, fails) /\ i \notin DOMAIN val
    BY <2>1, <2>2 DEF ApplyPresetItems
  <2>5. live'[i] = live[i]
    <3> HIDE DEF val, S
    <3> QED BY <2>2, <2>4, WriteItemsEffect
  <2> QED BY <2>3, <2>5
<1>2. QED BY <1>1, TypeCorrect, PTL DEF UnforcedLeavesOthers

-----------------------------------------------------------------------------
(* The file.  Two requests may store a torn or an older image, a deleted      *)
(* preset leaves its items with an owner that is not active, and a refused    *)
(* write leaves the old file: the two invariants below are for requests one   *)
(* at a time, without deletions and with a disk that takes what it is given.  *)

OneClient == \A b, c \in Clients : b = c
NothingDeleted == \A c \in Clients : "DelEntry" \notin Ops[c]
DiskWorks == "Disk" \notin MayFail

\* An image Load() may take over: whoever owns an item is active and exists.
Sound(image) ==
    /\ \A i \in DOMAIN image.own : image.own[i].PresetGuid \in image.active
    /\ image.active \subseteq DOMAIN image.presets

Current(image) == image.own = m_ItemOwnership /\ image.active = m_ActivePresets

ActiveExist == m_ActivePresets \subseteq DOMAIN m_Presets
SoundFile == file # NoFile => Sound(file)

\* The walk of DeactivateAllPresets has given back all up to where it stands.
WalkedPast(c) ==
    pc[c] = "all" =>
        at[c] # 0 /\ \A q \in m_ActivePresets : q <= at[c] => OwnedBy(q) = {}

\* An import will come to every preset that is active.
LeftCovers(c) == import[c] # NoFile => m_ActivePresets \subseteq left[c]

\* The file is what is in memory, or there is none and memory is fresh.
Stored == \/ file = NoFile /\ m_ActivePresets = {} /\ Owned = {}
          \/ file # NoFile /\ Current(file)
Resting(c) == pc[c] = "idle" => import[c] = NoFile /\ Stored

\* How far Store() has come, and what it has in hand.
Collected(c) ==
    /\ pc[c] \in {"ownership", "write"} =>
           snap[c].presets = m_Presets /\ snap[c].active = m_ActivePresets
    /\ pc[c] = "write" => snap[c].own = m_ItemOwnership
Written(c) ==
    /\ pc[c] \in {"away", "rename"} => tmp # NoFile /\ Current(tmp) /\ Sound(tmp)
    /\ pc[c] = "event" => file # NoFile /\ Current(file)

Progress(c) == WalkedPast(c) /\ LeftCovers(c) /\ Resting(c) /\ Collected(c) /\ Written(c)

\* The inductive invariant.  That the owners in the file are active in the file
\* needs all of Store(): what each step has collected is still what is in memory.
StoreInv ==
    /\ TypeOK
    /\ SoundFile
    /\ ActiveExist
    /\ OwnerIsActive
    /\ \A c \in Clients : Progress(c)

\* With one client, its own progress is all there is.
LEMMA OnlyProgress ==
    ASSUME OneClient, NEW c \in Clients, TypeOK', SoundFile', ActiveExist', OwnerIsActive',
           WalkedPast(c)', LeftCovers(c)', Resting(c)', Collected(c)', Written(c)'
    PROVE  StoreInv'
<1>1. Progress(c)'
  BY DEF Progress
<1>2. \A d \in Clients : Progress(d)'
  BY <1>1 DEF OneClient
<1> QED BY <1>2 DEF StoreInv

\* A request that goes on to Store() may leave the file behind.
LEMMA StartsStoring ==
    ASSUME OneClient, StoreInv, NEW c \in Clients, TypeOK', Goto(c, "entries"), file' = file,
           ActiveExist', OwnerIsActive', LeftCovers(c)'
    PROVE  StoreInv'
<1>1. pc'[c] = "entries"
  BY DEF Goto, StoreInv, TypeOK
<1>2. WalkedPast(c)' /\ Resting(c)' /\ Collected(c)' /\ Written(c)'
  BY <1>1 DEF WalkedPast, Resting, Collected, Written
<1>3. SoundFile'
  BY DEF StoreInv, SoundFile, Sound
<1> QED BY <1>2, <1>3, OnlyProgress

\* What does not touch the manager, its file or the requests changes nothing.
LEMMA StaysStored ==
    ASSUME StoreInv, TypeOK', UNCHANGED <<mem, file, tmp, call>>
    PROVE  StoreInv'
<1>1. /\ m_Presets' = m_Presets /\ m_ActivePresets' = m_ActivePresets
      /\ m_ItemOwnership' = m_ItemOwnership /\ file' = file /\ tmp' = tmp
      /\ pc' = pc /\ at' = at /\ left' = left /\ import' = import /\ snap' = snap
  BY DEF mem, call
<1>2. SoundFile' /\ ActiveExist' /\ OwnerIsActive'
  BY <1>1 DEF StoreInv, SoundFile, Sound, ActiveExist, OwnerIsActive, Owned
<1>3. ASSUME NEW d \in Clients PROVE Progress(d)'
  <2>1. Progress(d)
    BY DEF StoreInv
  <2>2. WalkedPast(d)' /\ LeftCovers(d)'
    BY <1>1, <2>1 DEF Progress, WalkedPast, LeftCovers, OwnedBy, Owned
  <2>3. Resting(d)' /\ Collected(d)' /\ Written(d)'
    BY <1>1, <2>1 DEF Progress, Resting, Stored, Collected, Written, Current, Sound, Owned
  <2> QED BY <2>2, <2>3 DEF Progress
<1> QED BY <1>2, <1>3 DEF StoreInv

\* Load() takes over the owners of a sound image together with their presets.
LEMMA LoadKeepsOwners ==
    ASSUME NEW image, Sound(image), Load(image)
    PROVE  ActiveExist' /\ OwnerIsActive'
BY DEF Sound, Load, ActiveExist, OwnerIsActive, Owned

\* A restart has the file in memory, or nothing at all.
LEMMA RestartStores ==
    ASSUME StoreInv, TypeOK', Restart
    PROVE  StoreInv'
<1>1. SoundFile'
  BY DEF Restart, StoreInv, SoundFile, Sound
<1>2. ActiveExist' /\ OwnerIsActive' /\ Stored'
  <2>1. CASE file # NoFile
    <3>1. Sound(file) /\ Load(file) /\ file' = file
      BY <2>1 DEF Restart, StoreInv, SoundFile
    <3>2. Stored'
      BY <2>1, <3>1 DEF Load, Stored, Current
    <3> QED BY <3>1, <3>2, LoadKeepsOwners
  <2>2. CASE file = NoFile
    <3>1. PICK p \in Presets : Load([EmptyImage EXCEPT !.presets = DefaultPreset(p)])
      BY <2>2 DEF Restart
    <3> DEFINE fresh == [EmptyImage EXCEPT !.presets = DefaultPreset(p)]
    <3>2. fresh.active = {} /\ fresh.own = [i \in {} |-> {}]
      BY DEF EmptyImage
    <3>3. m_ActivePresets' = {} /\ m_ItemOwnership' = [i \in {} |-> {}] /\ file' = NoFile
      BY <2>2, <3>1, <3>2 DEF Load, Restart
    <3> QED BY <3>3 DEF Stored, ActiveExist, OwnerIsActive, Owned
  <2> QED BY <2>1, <2>2
<1>3. ASSUME NEW d \in Clients PROVE Progress(d)'
  <2>1. pc'[d] = "idle" /\ import'[d] = NoFile
    BY DEF Restart
  <2>2. WalkedPast(d)' /\ LeftCovers(d)' /\ Collected(d)' /\ Written(d)'
    BY <2>1 DEF WalkedPast, LeftCovers, Collected, Written
  <2>3. Resting(d)'
    BY <1>2, <2>1 DEF Resting
  <2> QED BY <2>2, <2>3 DEF Progress
<1> QED BY <1>1, <1>2, <1>3 DEF StoreInv

\* Giving back the items of p leaves the others with their owners.
LEMMA GivesBack ==
    ASSUME NEW p, NEW fails, DeactivatePresetInternal(p, fails)
    PROVE  /\ Owned' = Owned \ OwnedBy(p)
           /\ \A i \in Owned' : m_ItemOwnership'[i] = m_ItemOwnership[i]
           /\ OwnedBy(p)' = {}
           /\ \A q : OwnedBy(q)' \subseteq OwnedBy(q)
<1>1. m_ItemOwnership' = [i \in Owned \ OwnedBy(p) |-> m_ItemOwnership[i]]
  BY DEF DeactivatePresetInternal
<1>2. Owned' = Owned \ OwnedBy(p) /\ \A i \in Owned' : m_ItemOwnership'[i] = m_ItemOwnership[i]
  BY <1>1 DEF Owned
<1> QED BY <1>2 DEF OwnedBy

\* ActivatePreset gives the items it takes to a preset that is active from now on.
LEMMA ActivateStores ==
    ASSUME OneClient, StoreInv, TypeOK', NEW c \in Clients, NEW p \in Presets, NEW bForce \in BOOLEAN,
           ActivatePreset(c, p, bForce)
    PROVE  StoreInv'
<1>1. PICK fails : ApplyPresetItems(p, bForce, fails)
  BY DEF ActivatePreset
<1> DEFINE S == Applied(p, bForce)
<1>2. m_ItemOwnership' = [i \in Owned \cup S |->
          IF i \in S THEN TakeOwnership(p, i) ELSE m_ItemOwnership[i]]
  BY <1>1 DEF ApplyPresetItems
<1>3. m_ActivePresets' = m_ActivePresets \cup {p} /\ p \in DOMAIN m_Presets /\ m_Presets' = m_Presets
      /\ import' = import /\ file' = file /\ Goto(c, "entries")
  BY DEF ActivatePreset
<1>4. \A i \in S : TakeOwnership(p, i).PresetGuid = p
  <2>1. \A i \in Owned : m_ItemOwnership[i] \in Ownership
    BY MapTypes DEF StoreInv
  <2> QED BY <2>1 DEF TakeOwnership, Ownership
<1>5. OwnerIsActive'
  <2> HIDE DEF S
  <2>1. Owned' = Owned \cup S
    BY <1>2 DEF Owned
  <2> SUFFICES ASSUME NEW i \in Owned \cup S PROVE m_ItemOwnership'[i].PresetGuid \in m_ActivePresets'
    BY <2>1 DEF OwnerIsActive
  <2> QED BY <1>2, <1>3, <1>4 DEF StoreInv, OwnerIsActive
<1>6. ActiveExist'
  BY <1>3 DEF StoreInv, ActiveExist
<1>7. LeftCovers(c)'
  <2>1. pc[c] = "idle"
    BY DEF ActivatePreset, Begin
  <2>2. import[c] = NoFile
    BY <2>1 DEF StoreInv, Progress, Resting
  <2> QED BY <1>3, <2>2 DEF LeftCovers
<1> QED BY <1>3, <1>5, <1>6, <1>7, StartsStoring

\* The critical section of DeactivatePreset: the preset leaves with its items.
LEMMA DeactivateStores ==
    ASSUME OneClient, StoreInv, TypeOK', NEW c \in Clients, NEW p \in Presets, DeactivateLocked(c, p),
           UNCHANGED <<m_Presets, file, import>>, m_ActivePresets \ {p} \subseteq left'[c] \/ import[c] = NoFile
    PROVE  StoreInv'
<1>1. PICK fails : DeactivatePresetInternal(p, fails)
  BY DEF DeactivateLocked
<1>2. m_ActivePresets' = m_ActivePresets \ {p} /\ Goto(c, "entries")
  BY DEF DeactivateLocked, EraseActive
<1>3. OwnerIsActive'
  <2> SUFFICES ASSUME NEW i \in Owned' PROVE m_ItemOwnership'[i].PresetGuid \in m_ActivePresets'
    BY DEF OwnerIsActive
  <2>1. i \in Owned /\ i \notin OwnedBy(p) /\ m_ItemOwnership'[i] = m_ItemOwnership[i]
    BY <1>1, GivesBack
  <2>2. m_ItemOwnership[i].PresetGuid \in m_ActivePresets /\ m_ItemOwnership[i].PresetGuid # p
    BY <2>1 DEF StoreInv, OwnerIsActive, OwnedBy
  <2> QED BY <1>2, <2>1, <2>2
<1>4. ActiveExist'
  BY <1>2 DEF StoreInv, ActiveExist
<1>5. LeftCovers(c)'
  BY <1>2 DEF LeftCovers
<1> QED BY <1>2, <1>3, <1>4, <1>5, StartsStoring

\* A turn of the walk of DeactivateAllPresets at p, with nothing left before it.
LEMMA VisitStores ==
    ASSUME OneClient, StoreInv, TypeOK', NEW c \in Clients, NEW p \in Presets, VisitPreset(c, p),
           \A q \in m_ActivePresets : q <= p /\ q # p => OwnedBy(q) = {}
    PROVE  StoreInv'
<1>1. PICK fails : DeactivatePresetInternal(p, fails)
  BY DEF VisitPreset
<1>2. pc'[c] = "all" /\ at'[c] = p /\ p # 0
  BY PresetsAreOrdered DEF VisitPreset, Goto, StoreInv, TypeOK
<1>3. /\ m_Presets' = m_Presets /\ m_ActivePresets' = m_ActivePresets /\ file' = file
      /\ left' = left /\ import' = import
  BY DEF VisitPreset
<1>4. OwnerIsActive'
  BY <1>1, <1>3, GivesBack DEF StoreInv, OwnerIsActive
<1>5. WalkedPast(c)'
  <2>1. ASSUME NEW q \in m_ActivePresets, q <= p PROVE OwnedBy(q)' = {}
    BY <1>1, <2>1, GivesBack
  <2> QED BY <1>2, <1>3, <2>1 DEF WalkedPast
<1>6. Resting(c)' /\ Collected(c)' /\ Written(c)'
  BY <1>2 DEF Resting, Collected, Written
<1>7. SoundFile' /\ ActiveExist' /\ LeftCovers(c)'
  BY <1>3 DEF StoreInv, Progress, SoundFile, Sound, ActiveExist, LeftCovers
<1> QED BY <1>4, <1>5, <1>6, <1>7, OnlyProgress

\* The end of the walk: no preset is active and none owns anything.
LEMMA FinishStores ==
    ASSUME OneClient, StoreInv, TypeOK', NEW c \in Clients, FinishDeactivateAll(c),
           \A q \in m_ActivePresets : OwnedBy(q) = {}
    PROVE  StoreInv'
<1>1. m_ActivePresets' = {} /\ m_ItemOwnership' = m_ItemOwnership /\ file' = file /\ Goto(c, "entries")
  BY DEF FinishDeactivateAll, EraseActive
<1>2. Owned = {}
  BY DEF StoreInv, OwnerIsActive, OwnedBy
<1>3. OwnerIsActive' /\ ActiveExist' /\ LeftCovers(c)'
  BY <1>1, <1>2 DEF OwnerIsActive, Owned, ActiveExist, LeftCovers
<1> QED BY <1>1, <1>3, StartsStoring

\* DiscardConfig goes back to a file that says the same, or adds a preset.
LEMMA DiscardStores ==
    ASSUME OneClient, StoreInv, TypeOK', NEW c \in Clients, DiscardConfig(c)
    PROVE  StoreInv'
<1>1. pc[c] = "idle" /\ pc' = pc /\ import' = import /\ left' = left /\ file' = file
  BY DEF DiscardConfig, Begin
<1>2. import[c] = NoFile /\ Stored
  BY <1>1 DEF StoreInv, Progress, Resting
<1>3. WalkedPast(c)' /\ LeftCovers(c)' /\ Collected(c)' /\ Written(c)' /\ SoundFile'
  BY <1>1, <1>2 DEF WalkedPast, LeftCovers, Collected, Written, StoreInv, SoundFile, Sound
<1>4. ActiveExist' /\ OwnerIsActive' /\ Stored'
  <2>1. CASE file # NoFile /\ Load(file)
    <3>1. Sound(file)
      BY <2>1 DEF StoreInv, SoundFile
    <3>2. Stored'
      BY <1>1, <2>1 DEF Load, Stored, Current
    <3> QED BY <2>1, <3>1, <3>2, LoadKeepsOwners
  <2>2. CASE file = NoFile
    <3>1. /\ DOMAIN m_Presets \subseteq DOMAIN m_Presets'
          /\ m_ActivePresets' = m_ActivePresets /\ m_ItemOwnership' = m_ItemOwnership
      BY <2>2 DEF DiscardConfig
    <3> QED BY <1>1, <1>2, <2>2, <3>1
         DEF StoreInv, ActiveExist, OwnerIsActive, Owned, Stored
  <2> QED BY <2>1, <2>2 DEF DiscardConfig
<1>5. Resting(c)'
  BY <1>1, <1>2, <1>4 DEF Resting
<1> QED BY <1>3, <1>4, <1>5, OnlyProgress

\* Begun requests; a request that deletes is not made.
LEMMA RequestStores ==
    ASSUME OneClient, NothingDeleted, StoreInv, TypeOK', NEW c \in Clients, Request(c)
    PROVE  StoreInv'
<1>1. ASSUME NEW p \in Presets, DeactivatePreset(c, p) PROVE StoreInv'
  <2>1. import[c] = NoFile
    BY <1>1 DEF DeactivatePreset, Begin, StoreInv, Progress, Resting
  <2> QED BY <1>1, <2>1, DeactivateStores DEF DeactivatePreset
<1>2. ASSUME NEW p \in Presets, DelEntry(c, p) PROVE StoreInv'
  BY <1>2 DEF DelEntry, Begin, NothingDeleted
<1>3. ASSUME NEW p \in Presets, NEW e \in Edits, SetEntry(c, p, e) PROVE StoreInv'
  <2>1. /\ pc[c] = "idle" /\ pc' = pc /\ import' = import /\ left' = left /\ file' = file
        /\ m_ActivePresets' = m_ActivePresets /\ m_ItemOwnership' = m_ItemOwnership
        /\ DOMAIN m_Presets \subseteq DOMAIN m_Presets'
    BY <1>3 DEF SetEntry, Begin, call
  <2>2. ActiveExist' /\ OwnerIsActive' /\ SoundFile'
    BY <2>1 DEF StoreInv, ActiveExist, OwnerIsActive, Owned, SoundFile, Sound
  <2>3. WalkedPast(c)' /\ LeftCovers(c)' /\ Collected(c)' /\ Written(c)'
    BY <2>1 DEF WalkedPast, LeftCovers, Collected, Written, StoreInv, Progress
  <2>4. Resting(c)'
    BY <2>1 DEF StoreInv, Progress, Resting, Stored, Current, Owned
  <2> QED BY <2>2, <2>3, <2>4, OnlyProgress
<1>4. CASE DeactivateAllPresets(c)
  <2>1. CASE m_ActivePresets = {} /\ FinishDeactivateAll(c)
    BY <2>1, FinishStores
  <2>2. ASSUME NEW p \in First(m_ActivePresets), VisitPreset(c, p) PROVE StoreInv'
    <3>1. p \in Presets /\ \A q \in m_ActivePresets : p <= q /\ q \in Nat /\ p \in Nat
      BY PresetsAreOrdered DEF First, StoreInv, TypeOK
    <3>2. \A q \in m_ActivePresets : q <= p /\ q # p => OwnedBy(q) = {}
      BY <3>1
    <3> QED BY <2>2, <3>1, <3>2, VisitStores
  <2> QED BY <1>4, <2>1, <2>2 DEF DeactivateAllPresets
<1>5. ASSUME NEW list \in ImportLists, ImportPresets(c, list) PROVE StoreInv'
  <2>1. /\ m_Presets' = m_Presets /\ m_ActivePresets' = m_ActivePresets
        /\ m_ItemOwnership' = m_ItemOwnership /\ file' = file
    BY <1>5 DEF ImportPresets, mem
  <2>2. pc'[c] = "import" /\ left'[c] = m_ActivePresets
    BY <1>5 DEF ImportPresets, Goto, StoreInv, TypeOK
  <2>3. ActiveExist' /\ OwnerIsActive' /\ SoundFile'
    BY <2>1 DEF StoreInv, ActiveExist, OwnerIsActive, Owned, SoundFile, Sound
  <2>4. WalkedPast(c)' /\ LeftCovers(c)' /\ Resting(c)' /\ Collected(c)' /\ Written(c)'
    BY <2>1, <2>2 DEF WalkedPast, LeftCovers, Resting, Collected, Written
  <2> QED BY <2>3, <2>4, OnlyProgress
<1>6. CASE CommitConfig(c)
  <2>1. /\ m_Presets' = m_Presets /\ m_ActivePresets' = m_ActivePresets /\ left' = left
        /\ m_ItemOwnership' = m_ItemOwnership /\ file' = file /\ import' = import /\ Goto(c, "entries")
    BY <1>6 DEF CommitConfig, mem
  <2>2. ActiveExist' /\ OwnerIsActive' /\ LeftCovers(c)'
    BY <2>1 DEF StoreInv, Progress, ActiveExist, OwnerIsActive, Owned, LeftCovers
  <2> QED BY <2>1, <2>2, StartsStoring
<1> QED BY <1>1, <1>2, <1>3, <1>4, <1>5, <1>6, ActivateStores, DiscardStores DEF Request

\* The walk of DeactivateAllPresets goes on, or ends with every item given back.
LEMMA WalkStores ==
    ASSUME OneClient, StoreInv, TypeOK', NEW c \in Clients,
           DeactivateAllNext(c) \/ DeactivateAllDangling(c)
    PROVE  StoreInv'
<1>1. /\ pc[c] = "all" /\ at[c] # 0
      /\ \A q \in m_ActivePresets : q <= at[c] => OwnedBy(q) = {}
  BY DEF DeactivateAllNext, DeactivateAllDangling, StoreInv, Progress, WalkedPast
<1>2. at[c] \in Nat /\ m_ActivePresets \subseteq Nat /\ m_ActivePresets \subseteq Presets
  <2>1. at[c] \in Presets \cup {0} /\ m_ActivePresets \subseteq Presets
    BY DEF StoreInv, TypeOK
  <2>2. Presets \subseteq Nat /\ 0 \in Nat
    BY PresetsAreOrdered
  <2>3. at[c] \in Nat
    BY <2>1, <2>2
  <2> QED BY <2>1, <2>2, <2>3
<1>3. CASE Above(at[c]) = {} /\ FinishDeactivateAll(c)
  <2>1. \A q \in m_ActivePresets : OwnedBy(q) = {}
    BY <1>1, <1>2, <1>3 DEF Above
  <2> QED BY <1>3, <2>1, FinishStores
<1>4. ASSUME NEW p \in First(Above(at[c])), VisitPreset(c, p) PROVE StoreInv'
  <2>1. p \in Presets /\ p \in Nat /\ \A q \in m_ActivePresets : q > at[c] => p <= q
    BY <1>2 DEF First, Above
  <2>2. ASSUME NEW q \in m_ActivePresets, q <= p, q # p PROVE OwnedBy(q) = {}
    <3>1. q \in Nat /\ at[c] \in Nat
      BY <1>2
    <3>2. q <= at[c]
      BY <2>1, <2>2, <3>1
    <3> QED BY <1>1, <3>2
  <2> QED BY <1>4, <2>1, <2>2, VisitStores
<1> QED BY <1>1, <1>3, <1>4 DEF DeactivateAllNext, DeactivateAllDangling

\* SVC_API_SET_PRESETS deactivates what is active before it replaces the list.
LEMMA ImportStores ==
    ASSUME OneClient, StoreInv, TypeOK', NEW c \in Clients, ImportDeactivate(c) \/ SetPresets(c)
    PROVE  StoreInv'
<1>1. LeftCovers(c) /\ pc[c] = "import"
  BY DEF StoreInv, Progress, ImportDeactivate, SetPresets
<1>2. CASE ImportDeactivate(c)
  <2>1. PICK p \in First(left[c]) :
           /\ left' = [left EXCEPT ![c] = @ \ {p}]
           /\ \/ DeactivateLocked(c, p)
              \/ /\ p \notin m_ActivePresets
                 /\ UNCHANGED <<m_ActivePresets, m_ItemOwnership, rules, hist, null, pc, at>>
    BY <1>2 DEF ImportDeactivate
  <2>2. p \in Presets /\ left'[c] = left[c] \ {p}
    BY <2>1 DEF First, StoreInv, TypeOK
  <2>3. m_Presets' = m_Presets /\ file' = file /\ import' = import
    BY <1>2 DEF ImportDeactivate
  <2>4. CASE DeactivateLocked(c, p)
    BY <1>1, <2>2, <2>3, <2>4, DeactivateStores DEF LeftCovers
  <2>5. CASE p \notin m_ActivePresets /\ UNCHANGED <<m_ActivePresets, m_ItemOwnership, pc, at>>
    <3>1. ActiveExist' /\ OwnerIsActive' /\ SoundFile'
      BY <2>3, <2>5 DEF StoreInv, ActiveExist, OwnerIsActive, Owned, SoundFile, Sound
    <3>2. LeftCovers(c)'
      BY <1>1, <2>2, <2>3, <2>5 DEF LeftCovers
    <3>3. WalkedPast(c)' /\ Resting(c)' /\ Collected(c)' /\ Written(c)'
      BY <1>1, <2>5 DEF WalkedPast, Resting, Collected, Written
    <3> QED BY <3>1, <3>2, <3>3, OnlyProgress
  <2> QED BY <2>1, <2>4, <2>5
<1>3. CASE SetPresets(c)
  <2>1. m_ActivePresets = {}
    BY <1>1, <1>3 DEF SetPresets, LeftCovers
  <2>2. /\ m_ActivePresets' = m_ActivePresets /\ m_ItemOwnership' = m_ItemOwnership
        /\ file' = file /\ Goto(c, "entries")
    BY <1>3 DEF SetPresets
  <2>3. ActiveExist' /\ OwnerIsActive' /\ LeftCovers(c)'
    BY <2>1, <2>2 DEF StoreInv, ActiveExist, OwnerIsActive, Owned, LeftCovers
  <2> QED BY <2>2, <2>3, StartsStoring
<1> QED BY <1>2, <1>3

\* Store(): what is collected, written and renamed is what is in memory.
LEMMA StoringStores ==
    ASSUME OneClient, DiskWorks, StoreInv, TypeOK', NEW c \in Clients,
           \/ SaveEntries(c) \/ SaveOwnership(c) \/ WriteFile(c)
           \/ MoveAway(c) \/ RenameFile(c) \/ EmitChangeEvent(c)
    PROVE  StoreInv'
<1>1. /\ m_Presets' = m_Presets /\ m_ActivePresets' = m_ActivePresets
      /\ m_ItemOwnership' = m_ItemOwnership /\ left' = left /\ import' = import /\ at' = at
  BY DEF SaveEntries, SaveOwnership, WriteFile, MoveAway, RenameFile, EmitChangeEvent, mem
<1>2. ActiveExist' /\ OwnerIsActive' /\ LeftCovers(c)'
  BY <1>1 DEF StoreInv, Progress, ActiveExist, OwnerIsActive, Owned, LeftCovers
<1>3. ActiveExist /\ OwnerIsActive /\ Collected(c) /\ Written(c) /\ SoundFile
      /\ pc \in [Clients -> PCs] /\ snap \in [Clients -> Image] /\ tmp \in Image \cup {NoFile}
  BY DEF StoreInv, Progress, TypeOK
<1>4. CASE SaveEntries(c)
  <2>1. pc'[c] = "ownership" /\ file' = file
    BY <1>3, <1>4 DEF SaveEntries, Goto
  <2>2. snap'[c].presets = m_Presets /\ snap'[c].active = m_ActivePresets \cap DOMAIN m_Presets
    BY <1>3, <1>4 DEF SaveEntries, Image
  <2>3. Collected(c)'
    BY <1>1, <1>3, <2>1, <2>2 DEF Collected, ActiveExist
  <2>4. WalkedPast(c)' /\ Resting(c)' /\ Written(c)' /\ SoundFile'
    BY <1>3, <2>1 DEF WalkedPast, Resting, Written, SoundFile, Sound
  <2> QED BY <1>2, <2>3, <2>4, OnlyProgress
<1>5. CASE SaveOwnership(c)
  <2>1. pc'[c] = "write" /\ file' = file /\ pc[c] = "ownership"
    BY <1>3, <1>5 DEF SaveOwnership, Goto
  <2>2. /\ snap'[c].presets = snap[c].presets /\ snap'[c].active = snap[c].active
        /\ snap'[c].own = m_ItemOwnership
    BY <1>3, <1>5 DEF SaveOwnership, Image
  <2>3. Collected(c)'
    BY <1>1, <1>3, <2>1, <2>2 DEF Collected
  <2>4. WalkedPast(c)' /\ Resting(c)' /\ Written(c)' /\ SoundFile'
    BY <1>3, <2>1 DEF WalkedPast, Resting, Written, SoundFile, Sound
  <2> QED BY <1>2, <2>3, <2>4, OnlyProgress
<1>6. CASE WriteFile(c)
  <2>1. pc'[c] = "away" /\ file' = file /\ pc[c] = "write" /\ tmp' = snap[c]
    BY <1>3, <1>6 DEF WriteFile, Goto, DiskWorks
  <2>2. tmp' # NoFile
    BY <1>3, <2>1, NoFileIsNoImage
  <2>3. Current(tmp)' /\ Sound(tmp)'
    BY <1>1, <1>3, <2>1 DEF Current, Sound, Collected, ActiveExist, OwnerIsActive, Owned
  <2>4. WalkedPast(c)' /\ Resting(c)' /\ Collected(c)' /\ SoundFile'
    BY <1>3, <2>1 DEF WalkedPast, Resting, Collected, SoundFile, Sound
  <2>5. Written(c)'
    BY <2>1, <2>2, <2>3 DEF Written
  <2> QED BY <1>2, <2>4, <2>5, OnlyProgress
<1>7. CASE MoveAway(c)
  <2>1. pc'[c] = "rename" /\ file' = NoFile /\ pc[c] = "away" /\ tmp' = tmp
    BY <1>3, <1>7 DEF MoveAway, Goto, DiskWorks
  <2>2. WalkedPast(c)' /\ Resting(c)' /\ Collected(c)' /\ SoundFile'
    BY <2>1 DEF WalkedPast, Resting, Collected, SoundFile
  <2>3. Written(c)'
    BY <1>1, <1>3, <2>1 DEF Written, Current, Sound
  <2> QED BY <1>2, <2>2, <2>3, OnlyProgress
<1>8. CASE RenameFile(c)
  <2>1. pc[c] = "rename" /\ pc'[c] = "event"
    BY <1>3, <1>8 DEF RenameFile, Goto
  <2>2. tmp # NoFile /\ Current(tmp) /\ Sound(tmp)
    BY <1>3, <2>1 DEF Written
  <2>3. file' = tmp
    BY <1>8, <2>2 DEF RenameFile, DiskWorks
  <2>4. WalkedPast(c)' /\ Resting(c)' /\ Collected(c)'
    BY <2>1 DEF WalkedPast, Resting, Collected
  <2>5. Written(c)' /\ SoundFile'
    BY <1>1, <2>1, <2>2, <2>3 DEF Written, Current, SoundFile, Sound
  <2> QED BY <1>2, <2>4, <2>5, OnlyProgress
<1>9. CASE EmitChangeEvent(c)
  <2>1. pc[c] = "event" /\ file' = file /\ pc'[c] = (IF import[c] = NoFile THEN "idle" ELSE "import")
    BY <1>3, <1>9 DEF EmitChangeEvent, Goto
  <2>2. WalkedPast(c)' /\ Collected(c)' /\ Written(c)' /\ SoundFile'
    BY <1>3, <2>1 DEF WalkedPast, Collected, Written, SoundFile, Sound
  <2>3. Resting(c)'
    BY <1>1, <1>3, <2>1 DEF Resting, Stored, Written, Current
  <2> QED BY <1>2, <2>2, <2>3, OnlyProgress
<1> QED BY <1>4, <1>5, <1>6, <1>7, <1>8, <1>9

\* Every step keeps the inductive invariant.
LEMMA StepStores ==
    ASSUME OneClient, NothingDeleted, DiskWorks
    PROVE  StoreInv /\ [Next]_vars => StoreInv'
<1> SUFFICES ASSUME StoreInv, [Next]_vars PROVE StoreInv'
  OBVIOUS
<1>1. TypeOK'
  BY StepType DEF StoreInv
<1>2. ASSUME NEW c \in Clients, Request(c) PROVE StoreInv'
  BY <1>1, <1>2, RequestStores
<1>3. ASSUME NEW c \in Clients, Continue(c) PROVE StoreInv'
  <2>1. CASE NullPreset(c)
    BY <1>1, <2>1, RestartStores DEF NullPreset
  <2> QED BY <1>1, <1>3, <2>1, WalkStores, ImportStores, StoringStores DEF Continue
<1>4. ASSUME NEW i \in Items, OnRuleChanged(i) \/ \E s \in State : UserSet(i, s) PROVE StoreInv'
  BY <1>1, <1>4, StaysStored DEF OnRuleChanged, UserSet
<1>5. CASE Crash
  BY <1>1, <1>5, RestartStores DEF Crash
<1>6. CASE UNCHANGED vars
  BY <1>1, <1>6, StaysStored DEF vars
<1> QED BY <1>2, <1>3, <1>4, <1>5, <1>6 DEF Next

\* A fresh installation has no file, no active preset and no owner.
LEMMA InitStores == Init => StoreInv
<1> SUFFICES ASSUME Init PROVE StoreInv
  OBVIOUS
<1>1. TypeOK
  BY InitType
<1>2. m_ActivePresets = {} /\ Owned = {} /\ file = NoFile
  BY DEF Init, Owned
<1>3. SoundFile /\ ActiveExist /\ OwnerIsActive
  BY <1>2 DEF SoundFile, ActiveExist, OwnerIsActive
<1>4. ASSUME NEW c \in Clients PROVE Progress(c)
  <2>1. pc[c] = "idle" /\ import[c] = NoFile
    BY DEF Init
  <2> QED BY <1>2, <2>1 DEF Progress, WalkedPast, LeftCovers, Resting, Stored, Collected, Written
<1> QED BY <1>1, <1>3, <1>4 DEF StoreInv

\* When no request is under way the file holds the ownership and the active
\* presets in memory: for any presets and items, with refused rule writes,
\* changes by the user and crashes anywhere, one client that deletes nothing
\* and a disk that takes what it is given.
THEOREM FileIsCurrentAtRest ==
    ASSUME OneClient, NothingDeleted, DiskWorks, Clients # {}
    PROVE  Spec => []StoredAtRest
<1>1. StoreInv => StoredAtRest
  <2> SUFFICES ASSUME StoreInv, \A c \in Clients : pc[c] = "idle" PROVE Stored
    BY DEF StoredAtRest, Stored, Current
  <2>1. PICK c \in Clients : TRUE
    OBVIOUS
  <2> QED BY <2>1 DEF StoreInv, Progress, Resting
<1>2. QED BY <1>1, InitStores, StepStores, PTL DEF Spec

\* Only an active preset owns items, in memory and in the file, so that
\* DeactivatePreset can give them back: under the same conditions.
THEOREM OwnersAreActive ==
    ASSUME OneClient, NothingDeleted, DiskWorks
    PROVE  Spec => []OwnerIsActive
<1>1. StoreInv => OwnerIsActive
  BY DEF StoreInv
<1>2. QED BY <1>1, InitStores, StepStores, PTL DEF Spec
=============================================================================
