---------------------------- MODULE ScriptState ----------------------------
(***************************************************************************)
(* CJSStateManager: the values that the scripts of rules, enclaves and     *)
(* volumes keep between their runs.  A private state belongs to one        *)
(* script; a global state has a name, the script that created it as its    *)
(* owner and a flag that lets other scripts write.  Every operation runs   *)
(* under one mutex, so each is one step.  Values are left out: which keys  *)
(* exist is what quotas, permissions and the cleanup decide on.            *)
(***************************************************************************)
EXTENDS Naturals, FiniteSets

CONSTANTS
    Scripts,  \* GUIDs of the objects that carry a script
    Keys,     \* keys a script uses
    Names,    \* names of global states
    MaxKeys   \* MAX_KEYS_PER_SCRIPT and MAX_KEYS_PER_STATE

ASSUME ScriptAssumption == MaxKeys \in Nat \ {0} /\ "none" \notin Scripts

VARIABLES
    m_PrivateState,  \* script -> keys it has set; an empty map has no entry
    m_GlobalStates   \* name -> SGlobalState or NoState

NoState == [owner |-> "none"]

SGlobalState == [owner : Scripts, writable : BOOLEAN, entries : SUBSET Keys]

ScriptTypeOK ==
    /\ m_PrivateState \in [Scripts -> SUBSET Keys]
    /\ m_GlobalStates \in [Names -> SGlobalState \cup {NoState}]

ScriptInit ==
    /\ m_PrivateState = [s \in Scripts |-> {}]
    /\ m_GlobalStates = [n \in Names |-> NoState]

(* A key may be set when it is there already or the quota has room. *)
HasRoom(entries, key) == key \in entries \/ Cardinality(entries) < MaxKeys

SetPrivate(s, key) ==
    /\ HasRoom(m_PrivateState[s], key)
    /\ m_PrivateState' = [m_PrivateState EXCEPT ![s] = @ \cup {key}]
    /\ UNCHANGED m_GlobalStates

DeletePrivate(s, key) ==
    /\ key \in m_PrivateState[s]
    /\ m_PrivateState' = [m_PrivateState EXCEPT ![s] = @ \ {key}]
    /\ UNCHANGED m_GlobalStates

GlobalStateExists(n) == m_GlobalStates[n] # NoState

CreateGlobalState(s, n, writable) ==
    /\ ~GlobalStateExists(n)
    /\ m_GlobalStates' = [m_GlobalStates EXCEPT
                            ![n] = [owner |-> s, writable |-> writable, entries |-> {}]]
    /\ UNCHANGED m_PrivateState

DestroyGlobalState(s, n) ==
    /\ GlobalStateExists(n)
    /\ m_GlobalStates[n].owner = s
    /\ m_GlobalStates' = [m_GlobalStates EXCEPT ![n] = NoState]
    /\ UNCHANGED m_PrivateState

(* The owner can always write, others only if the state is writable. *)
MayWrite(s, n) ==
    /\ GlobalStateExists(n)
    /\ m_GlobalStates[n].owner = s \/ m_GlobalStates[n].writable

SetGlobal(s, n, key) ==
    /\ MayWrite(s, n)
    /\ HasRoom(m_GlobalStates[n].entries, key)
    /\ m_GlobalStates' = [m_GlobalStates EXCEPT ![n].entries = @ \cup {key}]
    /\ UNCHANGED m_PrivateState

DeleteGlobal(s, n, key) ==
    /\ MayWrite(s, n)
    /\ key \in m_GlobalStates[n].entries
    /\ m_GlobalStates' = [m_GlobalStates EXCEPT ![n].entries = @ \ {key}]
    /\ UNCHANGED m_PrivateState

(* What a script does to the store between its start and its end. *)
ScriptOperation(s) ==
    \/ \E key \in Keys : SetPrivate(s, key) \/ DeletePrivate(s, key)
    \/ \E n \in Names :
         \/ \E writable \in BOOLEAN : CreateGlobalState(s, n, writable)
         \/ DestroyGlobalState(s, n)
         \/ \E key \in Keys : SetGlobal(s, n, key) \/ DeleteGlobal(s, n, key)

(* CleanupScriptState for each script of the set gone. *)
CleanupScriptState(gone) ==
    /\ m_PrivateState' = [s \in Scripts |->
                            IF s \in gone THEN {} ELSE m_PrivateState[s]]
    /\ m_GlobalStates' = [n \in Names |->
                            IF m_GlobalStates[n].owner \in gone THEN NoState
                            ELSE m_GlobalStates[n]]

(* The store still holds something that only s can use or remove. *)
HoldsStateOf(s) ==
    \/ m_PrivateState[s] # {}
    \/ \E n \in Names : m_GlobalStates[n].owner = s
============================================================================
