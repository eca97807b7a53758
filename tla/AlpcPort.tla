------------------------------ MODULE AlpcPort ------------------------------
(***************************************************************************)
(* CAlpcPortClient and CAlpcPortServer: requests and replies over an ALPC  *)
(* port, each cut into chunks that fit one message, and the table of       *)
(* clients that CServiceCore keeps from the server's events.               *)
(*                                                                         *)
(* CServiceAPI::Call holds its mutex for the whole call, so there is one   *)
(* call at a time; Disconnect and Connect take no mutex and may come from  *)
(* another thread in the middle of it.  The server's worker threads handle *)
(* one message each.  A chunk is a record of the call it belongs to, its   *)
(* number and the number of chunks; a chunk that is read as if it were the *)
(* first one gives an arbitrary size.                                      *)
(***************************************************************************)
EXTENDS Naturals, Sequences

CONSTANTS
    MaxCalls,    \* bound on the number of calls
    MaxRequest,  \* chunks of the longest request
    MaxReply,    \* chunks of the longest reply
    MaxConns,    \* bound on the number of connections
    MaxDeaths    \* bound on restarts of the agent

ASSUME AlpcAssumption ==
    /\ MaxRequest \in Nat \ {0} /\ MaxReply \in Nat \ {0}
    /\ MaxCalls \in Nat /\ MaxConns \in Nat /\ MaxDeaths \in Nat

VARIABLES
    port,      \* the client's PortHandle: a connection, or 0
    conns,     \* connections made so far
    dead,      \* connections whose server has gone
    deaths,    \* restarts of the agent so far
    closed,    \* connections the client has closed
    call,      \* the call under way
    msg,       \* connection -> message on its way to the server
    srv,       \* connection -> SPortClient
    announce,  \* events for CServiceCore::OnClient not handled yet
    core,      \* connections in CServiceCore::m_Clients
    result,    \* history: call -> what the caller got
    ran,       \* history: call -> how often its handler has run
    skewed,    \* history: connections given up, or taken up, within a call
    overtaken  \* history: connections announced after they had gone

clientVars == <<port, closed, call, result>>
serverVars == <<srv, announce, core, ran>>
vars == <<port, conns, dead, deaths, closed, call, msg, srv, announce, core, result, ran, skewed,
          overtaken>>

Conns == 1 .. MaxConns
Calls == 1 .. MaxCalls

Chunk(c, k, n) == [call |-> c, k |-> k, of |-> n, ok |-> TRUE]
NoData         == Chunk(0, 0, 0)
Fetch(c)       == Chunk(c, 0, 0)
Error(c)       == [Chunk(c, 1, 1) EXCEPT !.ok = FALSE]
IsData(x)      == x.k > 0
Idle           == [pc |-> "idle", id |-> 0, len |-> 0, sent |-> 0, conn |-> 0, want |-> 0,
                   got |-> <<>>, data |-> NoData]
NewClient      == [here |-> TRUE, replying |-> FALSE, total |-> 0, recvBuff |-> <<>>,
                   sendBuff |-> <<>>]

(* The chunks, in order, of one message.                                   *)
Whole(s) == \A j \in 1 .. Len(s) : s[j].call = s[1].call /\ s[j].k = j /\ s[j].of = Len(s)

(* Mutant of Sizes: the header is counted twice.                           *)
SizesWithHeader(x, max) == IF x.k = 1 THEN {x.of + 1} ELSE IF x.k = 0 THEN {0} ELSE 0 .. max

(* What a first chunk says about the length of its message.                *)
Sizes(x, max) == IF x.k = 1 THEN {x.of} ELSE IF x.k = 0 THEN {0} ELSE 0 .. max

------------------------------------------------------------------------
(* The client                                                              *)

(* NtClose of whatever PortHandle is by now.                               *)
ClosePort == port' = 0 /\ closed' = closed \cup ({port} \ {0})

Connect ==
    /\ port = 0
    /\ conns < MaxConns
    /\ conns' = conns + 1
    /\ port' = conns + 1
    /\ srv' = [srv EXCEPT ![conns + 1] = NewClient]
    /\ announce' = announce \cup {<<conns + 1, "connected">>}
    /\ UNCHANGED <<dead, deaths, closed, call, msg, core, result, ran, skewed, overtaken>>

(* ReConnect or Disconnect on another thread.                              *)
Disconnect ==
    /\ port # 0
    /\ ClosePort
    /\ UNCHANGED <<conns, dead, deaths, call, msg, serverVars, result, skewed, overtaken>>

NewCalls == {c \in Calls : result[c] = "new"}

(* Call with a request of n chunks.                                        *)
StartCall(n) ==
    /\ call.pc = "idle"
    /\ \E c \in NewCalls :
         /\ \A d \in NewCalls : c <= d
         /\ IF port = 0
            THEN call' = call /\ result' = [result EXCEPT ![c] = "failed"]
            ELSE /\ call' = [Idle EXCEPT !.pc = "send", !.id = c, !.len = n]
                 /\ result' = [result EXCEPT ![c] = "open"]
    /\ UNCHANGED <<port, conns, dead, deaths, closed, msg, serverVars, skewed, overtaken>>

Broken == port = 0 \/ port \in dead

(* The next chunk of the request, or a fetch of the next chunk of the      *)
(* reply, goes to the connection PortHandle is now.                        *)
SendChunk ==
    /\ call.pc = "send"
    /\ ~Broken
    /\ msg' = [msg EXCEPT ![port] = IF call.got = <<>> THEN Chunk(call.id, call.sent + 1, call.len)
                                    ELSE Fetch(call.id)]
    /\ call' = [call EXCEPT !.pc = "wait", !.conn = port,
                            !.sent = IF call.got = <<>> THEN @ + 1 ELSE @]
    /\ skewed' = IF call.conn \notin {0, port} THEN skewed \cup {port} ELSE skewed
    /\ UNCHANGED <<port, conns, dead, deaths, closed, serverVars, result, overtaken>>

Finish(r) == call' = Idle /\ result' = [result EXCEPT ![call.id] = r]

(* Mutant of SendFails: a call that waits is not told.                     *)
SendFailsOnce ==
    /\ call.pc = "send" /\ Broken
    /\ ClosePort
    /\ Finish("failed")
    /\ UNCHANGED <<conns, dead, deaths, msg, serverVars, skewed, overtaken>>

(* Sending fails, or the connection goes while the call waits.             *)
SendFails ==
    /\ \/ call.pc = "send" /\ Broken
       \/ call.pc = "wait" /\ call.conn \in dead \cup closed
    /\ ClosePort
    /\ Finish("failed")
    /\ UNCHANGED <<conns, dead, deaths, msg, serverVars, skewed, overtaken>>

(* The server takes a chunk that is not the last with an empty reply; data *)
(* instead ends the call, and the connection stays.                        *)
TakeAck ==
    /\ call.pc = "reply" /\ call.got = <<>> /\ call.sent < call.len
    /\ IF IsData(call.data)
       THEN Finish("failed") /\ skewed' = skewed \cup {call.conn}
       ELSE call' = [call EXCEPT !.pc = "send"] /\ UNCHANGED <<result, skewed>>
    /\ UNCHANGED <<port, conns, dead, deaths, closed, msg, serverVars, overtaken>>

(* With the last chunk the reply begins.  An empty one is an error.  The   *)
(* number compared with the call's is read from the request, not from the  *)
(* reply: it matches when the request is one chunk, and otherwise only by  *)
(* chance, as it is then payload.                                          *)
ReplyRefused ==
    /\ call.pc = "reply" /\ call.got = <<>> /\ call.sent = call.len
    /\ ~IsData(call.data) \/ call.len > 1 \/ 0 \in Sizes(call.data, MaxReply)
    /\ Finish("failed")
    /\ skewed' = skewed \cup {call.conn}
    /\ UNCHANGED <<port, conns, dead, deaths, closed, msg, serverVars, overtaken>>

(* A chunk that is not the next one of its reply may be longer than what   *)
(* is missing: the connection is closed.                                   *)
ReplyTooLong ==
    /\ call.pc = "reply" /\ call.sent = call.len
    /\ IsData(call.data) /\ call.data.k # Len(call.got) + 1
    /\ ClosePort
    /\ Finish("failed")
    /\ UNCHANGED <<conns, dead, deaths, msg, serverVars, skewed, overtaken>>

(* What a complete reply is worth.                                         *)
Outcome(got) ==
    IF ~Whole(got) \/ got[1].call # call.id THEN "misread"
    ELSE IF got[1].ok THEN "answered" ELSE "failed"

(* Mutant of Copied: the buffer's position is not advanced.                *)
CopiedInPlace(want) ==
    IF want = 0 THEN Finish(Outcome(<<call.data>>))
    ELSE /\ call' = [call EXCEPT !.pc = "send", !.got = <<call.data>>, !.want = want]
         /\ UNCHANGED result

(* A chunk is copied; when none is missing the call is done, else the next *)
(* one is fetched, also when this one was empty.                           *)
Copied(want) ==
    LET got == IF IsData(call.data) THEN Append(call.got, call.data) ELSE call.got
    IN IF want = 0 THEN Finish(Outcome(got))
       ELSE /\ call' = [call EXCEPT !.pc = "send", !.got = got, !.want = want]
            /\ UNCHANGED result

TakeFirst ==
    /\ call.pc = "reply" /\ call.got = <<>> /\ call.sent = call.len
    /\ \E size \in Sizes(call.data, MaxReply) \ {0} : Copied(size - 1)
    /\ UNCHANGED <<port, conns, dead, deaths, closed, msg, serverVars, skewed, overtaken>>

TakeMore ==
    /\ call.pc = "reply" /\ call.got # <<>>
    /\ Copied(IF IsData(call.data) THEN call.want - 1 ELSE call.want)
    /\ UNCHANGED <<port, conns, dead, deaths, closed, msg, serverVars, skewed, overtaken>>

------------------------------------------------------------------------
(* The server                                                              *)

(* Mutant of ReplyOnce: the server takes itself to be replying still.      *)
ReplyAgain(s) == [s EXCEPT !.sendBuff = Tail(@)]

(* PortReply sends the next chunk; with the last one the reply is over.    *)
ReplyOnce(s) == [s EXCEPT !.sendBuff = Tail(@), !.replying = Tail(s.sendBuff) # <<>>]

PortReply(s) == IF s.sendBuff = <<>> THEN [s EXCEPT !.replying = FALSE] ELSE ReplyOnce(s)

(* CallTarget: the handler of a whole request of a client the core knows   *)
(* runs and replies at some length; otherwise the reply is an error.       *)
Runs(n, s) == Whole(s) /\ n \in core
Replies(n, s) ==
    IF Runs(n, s) THEN {[j \in 1 .. k |-> Chunk(s[1].call, j, k)] : k \in 1 .. MaxReply}
    ELSE {<<Error(s[Len(s)].call)>>}

(* PortRequest: the chunk is appended, if it fits the size its first chunk *)
(* gave; a complete request is handled.  In any case but an incomplete     *)
(* request the client is replied to.                                       *)
PortRequest(n, s, m) ==
    LET buff == IF IsData(m) THEN Append(s.recvBuff, m) ELSE s.recvBuff
    IN UNION {
         IF total = 0 \/ Len(buff) > total THEN {[s EXCEPT !.replying = TRUE]}
         ELSE IF Len(buff) < total THEN {[s EXCEPT !.recvBuff = buff, !.total = total]}
         ELSE {[s EXCEPT !.recvBuff = <<>>, !.replying = TRUE, !.sendBuff = rpl] :
                 rpl \in Replies(n, buff)}
         : total \in IF s.recvBuff = <<>> THEN Sizes(m, MaxRequest) ELSE {s.total}}

(* RunThread: a request to a client that is replying asks for the next     *)
(* chunk, whatever it holds.  The reply goes to the caller if it waits.    *)
Serve(n) ==
    LET s == srv[n]
        m == msg[n]
    IN /\ m # NoData
       /\ n \notin dead
       /\ s.here
       /\ \E t \in IF s.replying THEN {s} ELSE PortRequest(n, s, m) :
            /\ srv' = [srv EXCEPT ![n] = IF t.replying THEN PortReply(t) ELSE t]
            /\ ran' = IF ~s.replying /\ t.replying /\ t.sendBuff # <<>> /\ t.sendBuff[1].ok
                      THEN [ran EXCEPT ![t.sendBuff[1].call] = @ + 1] ELSE ran
            /\ call' = IF call.pc = "wait" /\ call.conn = n
                       THEN [call EXCEPT !.pc = "reply",
                               !.data = IF t.replying /\ t.sendBuff # <<>> THEN Head(t.sendBuff)
                                        ELSE NoData]
                       ELSE call
       /\ msg' = [msg EXCEPT ![n] = NoData]
       /\ UNCHANGED <<port, conns, dead, deaths, closed, announce, core, result, skewed, overtaken>>

(* The message of a client that is not in the table is only released.      *)
Release(n) ==
    /\ msg[n] # NoData
    /\ n \notin dead
    /\ ~srv[n].here
    /\ msg' = [msg EXCEPT ![n] = NoData]
    /\ UNCHANGED <<clientVars, conns, dead, deaths, serverVars, skewed, overtaken>>

(* Mutant of Gone: a client that was replying is forgotten in silence.     *)
GoneIfQuiet(n) == IF srv[n].replying THEN {} ELSE {<<n, "disconnected">>}

Gone(n) == {<<n, "disconnected">>}

PortDisconnect(n) ==
    /\ n \in closed \ dead
    /\ srv[n].here
    /\ srv' = [srv EXCEPT ![n].here = FALSE]
    /\ announce' = announce \cup Gone(n)
    /\ UNCHANGED <<clientVars, conns, dead, deaths, msg, core, ran, skewed, overtaken>>

(* Events are raised after the server's lock was released, by whichever    *)
(* thread handled the message: those of one client may change places.      *)
OnClient(n, e) ==
    /\ <<n, e>> \in announce
    /\ announce' = announce \ {<<n, e>>}
    /\ core' = IF e = "connected" THEN core \cup {n} ELSE core \ {n}
    /\ overtaken' = IF e = "connected" /\ ~srv[n].here /\ <<n, "disconnected">> \notin announce
                    THEN overtaken \cup {n} ELSE overtaken
    /\ UNCHANGED <<clientVars, conns, dead, deaths, msg, srv, ran, skewed>>

(* The agent stops or crashes and is started again.                        *)
Restart ==
    /\ (1 .. conns) \ dead # {}
    /\ deaths < MaxDeaths
    /\ deaths' = deaths + 1
    /\ dead' = 1 .. conns
    /\ srv' = [n \in Conns |-> [NewClient EXCEPT !.here = FALSE]]
    /\ msg' = [n \in Conns |-> NoData]
    /\ announce' = {} /\ core' = {} /\ overtaken' = {}
    /\ UNCHANGED <<clientVars, conns, ran, skewed>>

------------------------------------------------------------------------
Init ==
    /\ port = 0 /\ conns = 0 /\ dead = {} /\ deaths = 0 /\ closed = {}
    /\ call = Idle
    /\ msg = [n \in Conns |-> NoData]
    /\ srv = [n \in Conns |-> [NewClient EXCEPT !.here = FALSE]]
    /\ announce = {} /\ core = {}
    /\ result = [c \in Calls |-> "new"] /\ ran = [c \in Calls |-> 0]
    /\ skewed = {} /\ overtaken = {}

ClientStep ==
    \/ SendChunk \/ SendFails \/ TakeAck \/ ReplyRefused \/ ReplyTooLong \/ TakeFirst \/ TakeMore

ServerStep ==
    \E n \in Conns : Serve(n) \/ Release(n) \/ PortDisconnect(n)
                     \/ \E e \in {"connected", "disconnected"} : OnClient(n, e)

Next ==
    \/ Connect \/ Disconnect
    \/ \E n \in 1 .. MaxRequest : StartCall(n)
    \/ ClientStep \/ ServerStep
    \/ Restart

Spec == Init /\ [][Next]_vars

(* A thread that can go on with its call does, and the server's threads    *)
(* take every message in the end; nobody has to call, connect or restart.  *)
Fairness == WF_vars(ClientStep) /\ \A n \in Conns : WF_vars(Serve(n))

FairSpec == Spec /\ Fairness

------------------------------------------------------------------------
(* The shape of the call, of the server's clients and of the history.      *)
TypeOK ==
    /\ port \in 0 .. MaxConns /\ conns \in 0 .. MaxConns /\ deaths \in 0 .. MaxDeaths
    /\ dead \subseteq Conns /\ closed \subseteq Conns /\ core \subseteq Conns
    /\ skewed \subseteq Conns /\ overtaken \subseteq Conns
    /\ announce \subseteq Conns \X {"connected", "disconnected"}
    /\ call.pc \in {"idle", "send", "wait", "reply"}
    /\ call.len \in 0 .. MaxRequest /\ call.sent \in 0 .. call.len
    /\ call.want \in 0 .. MaxReply - 1
    /\ \A n \in Conns : /\ srv[n].total \in 0 .. MaxRequest
                        /\ Len(srv[n].recvBuff) < MaxRequest /\ Len(srv[n].sendBuff) < MaxReply
    /\ result \in [Calls -> {"new", "open", "answered", "failed", "misread"}]
    /\ ran \in [Calls -> 0 .. 1]

(* Between calls the server expects a new request on the connection in     *)
(* use, unless a call was given up on it with its reply refused, or came   *)
(* to it from another connection.                                          *)
InStep ==
    call.pc = "idle" /\ port \notin {0} \cup dead \cup skewed
        => ~srv[port].replying /\ srv[port].recvBuff = <<>>

(* The core's table follows the server's, except for clients whose         *)
(* connect event was handled after their disconnect event: those stay.     *)
ClientsInStep ==
    \A n \in Conns :
        /\ srv[n].here => n \in core \/ <<n, "connected">> \in announce
        /\ n \in core \ overtaken => srv[n].here \/ <<n, "disconnected">> \in announce

(* Calls implement RemoteCall: handlers run at most once, an answer is the *)
(* call's own, a foreign one needs an earlier call that ran and failed.    *)
Abstract == INSTANCE RemoteCall WITH Calls <- Calls, result <- result, ran <- ran
ImplementsRemoteCall == Abstract!Spec

(* A fetch for which the server has nothing.                               *)
Starved ==
    /\ call.pc = "wait" /\ call.got # <<>>
    /\ srv[call.conn].sendBuff = <<>>

(* Every call returns, unless it fetches chunks from a connection that has *)
(* none for it: empty replies do not end the loop of Call.                 *)
CallsReturn == call.pc # "idle" ~> (call.pc = "idle" \/ Starved)

(* The comment of Call: "the last call should return the first chunk of    *)
(* the reply", so that no call is given the reply of another.              *)
AnswersOwn == \A c \in Calls : result[c] # "misread"
============================================================================
