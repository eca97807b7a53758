--------------------------- MODULE AlpcPortProofs ---------------------------
(***************************************************************************)
(* Theorems about AlpcPort, for any number of calls, connections, restarts *)
(* and chunks.                                                             *)
(*                                                                         *)
(* The inductive invariant has five parts.  Shape gives the types and the  *)
(* lengths of the buffers.  Mail says where a message can be: on the       *)
(* connection the call waits on, or left behind on a closed one.  Replies  *)
(* says whose chunks the server still holds, and Stream what the call has  *)
(* of its own reply.  InStep needs Clean, what the server has of the       *)
(* request on a connection no call was given up on, and ClientsInStep      *)
(* needs Table.                                                            *)
(***************************************************************************)
EXTENDS AlpcPort, TLAPS

ChunkType == [call : 0 .. MaxCalls, k : Nat, of : Nat, ok : BOOLEAN]
CallType  == [pc : {"idle", "send", "wait", "reply"}, id : 0 .. MaxCalls, len : 0 .. MaxRequest,
              sent : 0 .. MaxRequest, conn : 0 .. MaxConns, want : 0 .. MaxReply - 1,
              got : Seq(ChunkType), data : ChunkType]
SrvType   == [here : BOOLEAN, replying : BOOLEAN, total : 0 .. MaxRequest,
              recvBuff : Seq(ChunkType), sendBuff : Seq(ChunkType)]

\* A chunk of data is of some call, and says that it is one of at most max.
Sized(x, max) == IsData(x) => x.call \in Calls /\ x.of \in 1 .. max

(* The types, and what bounds the buffers.                                 *)
Shape ==
    /\ conns \in 0 .. MaxConns /\ deaths \in 0 .. MaxDeaths
    /\ port \in 0 .. conns /\ call.conn \in 0 .. conns
    /\ dead \subseteq 1 .. conns /\ closed \subseteq 1 .. conns /\ port \notin closed
    /\ core \subseteq Conns /\ skewed \subseteq Conns /\ overtaken \subseteq Conns
    /\ announce \subseteq (1 .. conns) \X {"connected", "disconnected"}
    /\ result \in [Calls -> {"new", "open", "answered", "failed", "misread"}]
    /\ ran \in [Calls -> 0 .. 1]
    /\ call \in CallType
    /\ msg \in [Conns -> ChunkType]
    /\ srv \in [Conns -> SrvType]

(* Where the call under way stands.                                        *)
CallInv ==
    /\ call.pc = "idle" => call.conn = 0
    /\ call.pc # "idle" => call.id \in Calls /\ result[call.id] = "open"
    /\ call.pc \in {"wait", "reply"} => call.conn # 0
    /\ call.sent <= call.len /\ (call.conn = 0 => call.sent = 0)
    /\ call.pc = "send" /\ call.got = <<>> => call.sent < call.len
    /\ call.pc # "idle" /\ call.got # <<>> => call.want > 0 /\ call.conn # 0
    /\ call.pc = "reply" => Sized(call.data, MaxReply)

(* A server holds a part of a request or a part of a reply.                *)
Buffers ==
    \A n \in Conns :
        /\ srv[n].replying <=> srv[n].sendBuff # <<>>
        /\ Len(srv[n].sendBuff) < MaxReply
        /\ srv[n].recvBuff # <<>> => Len(srv[n].recvBuff) < srv[n].total

(* A message is on the connection that the call waits on, or was left on a *)
(* closed one by a call that failed.  A request that is on its way has not *)
(* been handled.                                                           *)
OnItsWay(n) ==
    /\ call.pc = "wait" /\ call.conn = n
    /\ msg[n].call = call.id
    /\ IsData(msg[n]) <=> call.got = <<>>
    /\ IsData(msg[n]) => msg[n] = Chunk(call.id, call.sent, call.len)

LeftBehind(n) ==
    /\ n \in closed
    /\ call.pc # "idle" => call.conn # n /\ msg[n].call # call.id
    /\ msg[n].call \in Calls /\ result[msg[n].call] = "failed"

Mail ==
    \A n \in Conns :
        /\ n \in dead \/ n > conns => msg[n] = NoData
        /\ Sized(msg[n], MaxRequest)
        /\ msg[n] # NoData => OnItsWay(n) \/ LeftBehind(n)
        /\ IsData(msg[n]) => ran[msg[n].call] = 0
        /\ \A o \in Conns : n # o /\ IsData(msg[n]) /\ IsData(msg[o]) => msg[n].call # msg[o].call

(* A handler runs for calls that were made, and the chunks of its reply    *)
(* are the present call's, or those of a call that failed.                 *)
ReplyChunk(x) == x.call \in Calls /\ x.ok /\ x.k > 0 /\ x.of \in 1 .. MaxReply /\ ran[x.call] = 1
Lost(x)       == ReplyChunk(x) /\ result[x.call] = "failed"
Own(x)        == ReplyChunk(x) /\ call.pc # "idle" /\ x.call = call.id

HasData == call.pc = "reply" /\ IsData(call.data)

Held ==
    /\ \A c \in Calls : result[c] = "new" => ran[c] = 0
    /\ \A n \in Conns : \A j \in 1 .. Len(srv[n].sendBuff) :
         Lost(srv[n].sendBuff[j]) \/ Own(srv[n].sendBuff[j])
    /\ \A n \in Conns : \A j \in 1 .. Len(srv[n].sendBuff) :
         Own(srv[n].sendBuff[j]) /\ n # call.conn => ~HasData /\ srv[call.conn].sendBuff = <<>>

(* A connection taken up within a call has seen nothing yet.               *)
Fresh == call.conn # 0 /\ port \notin {0, call.conn} => srv[port].sendBuff = <<>>

(* The chunks i + 1 to k of the reply of k chunks to call c.               *)
Part(s, c, i, k) == Len(s) = k - i /\ \A j \in 1 .. Len(s) : s[j] = Chunk(c, i + j, k)

(* While the handler of the call has not run, what the call has is what is *)
(* left of a call that failed.                                             *)
StreamBefore ==
    /\ \A j \in 1 .. Len(call.got) : Lost(call.got[j])
    /\ HasData => Lost(call.data) \/ (call.data = Error(call.id) /\ call.got = <<>>)

(* The chunks that the server has given the call.                          *)
Taken == IF HasData THEN Len(call.got) + 1 ELSE Len(call.got)

(* When it has run, the call has its reply's beginning, and the connection *)
(* the rest of it, or, taken up since, nothing.                            *)
StreamAfter ==
    /\ call.sent = call.len
    /\ call.got = <<>> => HasData
    /\ \E k \in 1 .. MaxReply :
         /\ \A j \in 1 .. Len(call.got) : call.got[j] = Chunk(call.id, j, k)
         /\ call.got # <<>> => call.want = k - Len(call.got)
         /\ HasData => call.data = Chunk(call.id, Len(call.got) + 1, k)
         /\ \/ srv[call.conn].sendBuff = <<>> /\ call.conn \in skewed \cup dead
            \/ Part(srv[call.conn].sendBuff, call.id, Taken, k)

Stream ==
    call.pc # "idle" => /\ ran[call.id] = 0 => StreamBefore
                        /\ ran[call.id] = 1 => StreamAfter

(* What the server has of a request on a connection on which no call was   *)
(* given up.                                                               *)
Begun(n, j) ==
    /\ srv[n].sendBuff = <<>>
    /\ Len(srv[n].recvBuff) = j
    /\ j > 0 => srv[n].total = call.len
    /\ \A i \in 1 .. j : srv[n].recvBuff[i] = Chunk(call.id, i, call.len)

Nothing(n) == srv[n].sendBuff = <<>> /\ srv[n].recvBuff = <<>>

Clean ==
    port \notin {0} \cup dead \cup skewed =>
        /\ call.conn # port => Nothing(port)
        /\ call.conn = port /\ ran[call.id] = 1 => srv[port].recvBuff = <<>>
        /\ call.conn = port /\ ran[call.id] = 0 =>
             /\ call.got = <<>>
             /\ call.pc = "send" => Begun(port, call.sent)
             /\ call.pc = "wait" => Begun(port, call.sent - 1)
             /\ call.pc = "reply" /\ call.sent < call.len => Begun(port, call.sent) /\ ~IsData(call.data)
             /\ call.pc = "reply" /\ call.sent = call.len => Nothing(port) /\ call.data = Error(call.id)

(* The events of a client, and what they leave in the core's table.        *)
Table ==
    /\ ClientsInStep
    /\ \A n \in Conns : /\ srv[n].here => <<n, "disconnected">> \notin announce
                        /\ n > conns => ~srv[n].here

Inv == Shape /\ CallInv /\ Buffers /\ Mail /\ Held /\ Fresh /\ Stream

-----------------------------------------------------------------------------
(* What a server thread does with a message *)

\* The reply of k chunks to call c.
ReplyOf(c, k) == [j \in 1 .. k |-> Chunk(c, j, k)]

\* The sizes a message may give the request it is taken to be a part of.
Totals(n) == IF srv[n].recvBuff = <<>> THEN Sizes(msg[n], MaxRequest) ELSE {srv[n].total}

\* The caller, if it waits on this connection, is given d.
Delivers(n, d) ==
    call' = IF call.pc = "wait" /\ call.conn = n THEN [call EXCEPT !.pc = "reply", !.data = d] ELSE call

\* The next chunk of the reply is sent.
Continues(n) ==
    /\ srv[n].replying
    /\ srv' = [srv EXCEPT ![n] = ReplyOnce(srv[n])]
    /\ ran' = ran
    /\ Delivers(n, Head(srv[n].sendBuff))

\* Neither a part of a request nor anything to reply with.
Ignores(n) ==
    /\ ~srv[n].replying
    /\ IsData(msg[n]) => \E t \in Totals(n) : t = 0 \/ Len(srv[n].recvBuff) + 1 > t
    /\ srv' = srv /\ ran' = ran
    /\ Delivers(n, NoData)

\* A chunk of a request that is not complete with it.
Keeps(n) ==
    /\ ~srv[n].replying /\ IsData(msg[n])
    /\ \E t \in Totals(n) :
         /\ Len(srv[n].recvBuff) + 1 < t
         /\ srv' = [srv EXCEPT ![n] = [srv[n] EXCEPT !.recvBuff = Append(srv[n].recvBuff, msg[n]),
                                                     !.total = t]]
    /\ ran' = ran
    /\ Delivers(n, NoData)

\* A request that is complete and handled.
Handles(n) ==
    /\ ~srv[n].replying /\ IsData(msg[n])
    /\ Runs(n, Append(srv[n].recvBuff, msg[n]))
    /\ \E k \in 1 .. MaxReply :
         /\ srv' = [srv EXCEPT ![n] = [srv[n] EXCEPT !.recvBuff = <<>>,
                                                     !.sendBuff = Tail(ReplyOf(msg[n].call, k)),
                                                     !.replying = (k # 1)]]
         /\ Delivers(n, Chunk(msg[n].call, 1, k))
    /\ ran' = [ran EXCEPT ![msg[n].call] = @ + 1]

\* One that is complete and refused.
Refuses(n) ==
    /\ ~srv[n].replying /\ IsData(msg[n])
    /\ ~Runs(n, Append(srv[n].recvBuff, msg[n]))
    /\ Len(srv[n].recvBuff) + 1 \in Totals(n)
    /\ srv' = [srv EXCEPT ![n] = [srv[n] EXCEPT !.recvBuff = <<>>]]
    /\ ran' = ran
    /\ Delivers(n, Error(msg[n].call))

\* The first chunk of a reply, and what is left after it.
LEMMA ReplyParts ==
    ASSUME NEW c, NEW k \in Nat \ {0}
    PROVE  /\ ReplyOf(c, k) # <<>> /\ Len(ReplyOf(c, k)) = k
           /\ ReplyOf(c, k)[1] = Chunk(c, 1, k)
           /\ Head(ReplyOf(c, k)) = Chunk(c, 1, k)
           /\ Tail(ReplyOf(c, k)) # <<>> <=> k # 1
           /\ Len(Tail(ReplyOf(c, k))) = k - 1
           /\ \A j \in 1 .. k - 1 : Tail(ReplyOf(c, k))[j] = Chunk(c, j + 1, k)
<1>1. ReplyOf(c, k) \in Seq({Chunk(c, j, k) : j \in 1 .. k})
  BY DEF ReplyOf
<1>2. Len(ReplyOf(c, k)) = k
  BY DEF ReplyOf
<1>3. ReplyOf(c, k)[1] = Chunk(c, 1, k)
  BY DEF ReplyOf
<1>4. ReplyOf(c, k) # <<>> /\ Head(ReplyOf(c, k)) = Chunk(c, 1, k)
  BY <1>1, <1>2, <1>3
<1>5. Len(Tail(ReplyOf(c, k))) = k - 1 /\ Tail(ReplyOf(c, k)) \in Seq({Chunk(c, j, k) : j \in 1 .. k})
  BY <1>1, <1>2, <1>4
<1>6. Tail(ReplyOf(c, k)) # <<>> <=> k # 1
  BY <1>5
<1>7. ASSUME NEW j \in 1 .. k - 1 PROVE Tail(ReplyOf(c, k))[j] = Chunk(c, j + 1, k)
  <2>1. Tail(ReplyOf(c, k))[j] = ReplyOf(c, k)[j + 1]
    BY <1>1, <1>2, <1>4
  <2> QED BY <2>1 DEF ReplyOf
<1> QED BY <1>2, <1>3, <1>4, <1>5, <1>6, <1>7

\* The elements of a tail.
LEMMA TailElements ==
    ASSUME NEW S, NEW s \in Seq(S), s # <<>>
    PROVE  /\ Tail(s) \in Seq(S) /\ Len(Tail(s)) = Len(s) - 1 /\ Len(s) \in Nat \ {0}
           /\ \A j \in 1 .. Len(Tail(s)) : j + 1 \in 1 .. Len(s) /\ Tail(s)[j] = s[j + 1]
OBVIOUS

\* In a whole request every chunk is of the call of the last one.
LEMMA WholeRequest ==
    ASSUME NEW s \in Seq(ChunkType), NEW m \in ChunkType, Whole(Append(s, m))
    PROVE  /\ Append(s, m)[1].call = m.call
           /\ m.k = Len(s) + 1 /\ m.of = Len(s) + 1
<1>1. Len(Append(s, m)) = Len(s) + 1 /\ Len(s) + 1 \in 1 .. Len(Append(s, m))
  OBVIOUS
<1>2. Append(s, m)[Len(s) + 1] = m
  OBVIOUS
<1> QED BY <1>1, <1>2 DEF Whole

\* Serve does one of five things.
LEMMA ServeCases ==
    ASSUME NEW n \in Conns, Shape, Buffers, Mail, Serve(n)
    PROVE  /\ msg[n] # NoData /\ n \notin dead /\ msg' = [msg EXCEPT ![n] = NoData]
           /\ UNCHANGED <<port, conns, dead, deaths, closed, announce, core, result, skewed, overtaken>>
           /\ Continues(n) \/ Ignores(n) \/ Keeps(n) \/ Handles(n) \/ Refuses(n)
<1> DEFINE s == srv[n]
<1> DEFINE m == msg[n]
<1> DEFINE buff == IF IsData(m) THEN Append(s.recvBuff, m) ELSE s.recvBuff
<1>0. s \in SrvType /\ m \in ChunkType /\ srv = [srv EXCEPT ![n] = s]
  BY DEF Shape
<1>1. s.replying <=> s.sendBuff # <<>>
  BY DEF Buffers
<1>2. PICK t \in IF s.replying THEN {s} ELSE PortRequest(n, s, m) :
        /\ srv' = [srv EXCEPT ![n] = IF t.replying THEN PortReply(t) ELSE t]
        /\ ran' = IF ~s.replying /\ t.replying /\ t.sendBuff # <<>> /\ t.sendBuff[1].ok
                  THEN [ran EXCEPT ![t.sendBuff[1].call] = @ + 1] ELSE ran
        /\ Delivers(n, IF t.replying /\ t.sendBuff # <<>> THEN Head(t.sendBuff) ELSE NoData)
  BY DEF Serve, Delivers
<1>3. CASE s.replying
  <2>1. t = s
    BY <1>2, <1>3
  <2> QED BY <1>1, <1>2, <1>3, <2>1 DEF Continues, PortReply, Serve
<1>4. CASE ~s.replying
  <2>1. PICK total \in Totals(n) :
          t \in IF total = 0 \/ Len(buff) > total THEN {[s EXCEPT !.replying = TRUE]}
                ELSE IF Len(buff) < total THEN {[s EXCEPT !.recvBuff = buff, !.total = total]}
                ELSE {[s EXCEPT !.recvBuff = <<>>, !.replying = TRUE, !.sendBuff = rpl] :
                        rpl \in Replies(n, buff)}
    BY <1>2, <1>4 DEF PortRequest, Totals
  <2>a. s.recvBuff = <<>> => total \in Sizes(m, MaxRequest)
    BY <2>1, Zenon DEF Totals
  <2>b. s.recvBuff # <<>> => total = s.total
    BY <2>1, Zenon DEF Totals
  <2>c. ~IsData(m) => m.k = 0
    BY <1>0 DEF IsData, ChunkType
  <2>d. ~IsData(m) /\ s.recvBuff = <<>> => total = 0
    BY <2>a, <2>c DEF Sizes
  <2>2. CASE total = 0 \/ Len(buff) > total
    <3>1. t = [s EXCEPT !.replying = TRUE]
      BY <2>1, <2>2
    <3>2. t.replying /\ t.sendBuff = <<>> /\ PortReply(t) = s
      BY <3>1, <1>0, <1>1, <1>4 DEF PortReply, SrvType
    <3>3. srv' = srv /\ ran' = ran /\ Delivers(n, NoData)
      BY <3>2, <1>2, <1>0
    <3>4. IsData(m) => total = 0 \/ Len(s.recvBuff) + 1 > total
      BY <2>2, <1>0 DEF SrvType
    <3> QED BY <3>3, <3>4, <2>1, <1>4 DEF Ignores, Serve
  <2>3. CASE ~(total = 0 \/ Len(buff) > total) /\ Len(buff) < total
    <3>1. t = [s EXCEPT !.recvBuff = buff, !.total = total]
      BY <2>1, <2>3
    <3>2. ~t.replying
      BY <3>1, <1>4, <1>0 DEF SrvType
    <3>3. CASE IsData(m)
      <4>1. srv' = [srv EXCEPT ![n] = t] /\ ran' = ran /\ Delivers(n, NoData)
        BY <3>2, <1>2
      <4>2. Len(s.recvBuff) + 1 < total /\ buff = Append(s.recvBuff, m)
        BY <2>3, <3>3, <1>0 DEF SrvType
      <4> QED BY <4>1, <4>2, <3>1, <3>3, <1>4, <2>1 DEF Keeps, Serve
    <3>4. CASE ~IsData(m)
      <4>1. total = s.total
        BY <2>3, <2>b, <2>d, <3>4
      <4>2. t = s
        BY <4>1, <3>1, <3>4, <1>0 DEF SrvType
      <4> QED BY <4>2, <3>2, <3>4, <1>2, <1>0, <1>4 DEF Ignores, Serve
    <3> QED BY <3>3, <3>4
  <2>4. CASE ~(total = 0 \/ Len(buff) > total) /\ ~(Len(buff) < total)
    <3>1. PICK rpl \in Replies(n, buff) :
            t = [s EXCEPT !.recvBuff = <<>>, !.replying = TRUE, !.sendBuff = rpl]
      BY <2>1, <2>4
    <3>2. total \in Nat /\ Len(s.recvBuff) \in Nat /\ s.total \in Nat
      <4>1. Sizes(m, MaxRequest) \subseteq Nat
        BY <1>0, AlpcAssumption DEF Sizes, ChunkType
      <4>2. Len(s.recvBuff) \in Nat /\ s.total \in Nat
        BY <1>0 DEF SrvType
      <4> QED BY <2>a, <2>b, <4>1, <4>2
    <3>3. IsData(m)
      <4> SUFFICES ASSUME ~IsData(m) PROVE FALSE
        OBVIOUS
      <4>1. Len(s.recvBuff) = total
        BY <2>4, <3>2
      <4>2. CASE s.recvBuff = <<>>
        BY <4>1, <4>2, <2>4
      <4>3. CASE s.recvBuff # <<>>
        BY <4>1, <4>3, <2>b, <3>2 DEF Buffers
      <4> QED BY <4>2, <4>3
    <3>4. buff = Append(s.recvBuff, m) /\ Len(buff) = Len(s.recvBuff) + 1 /\ total = Len(s.recvBuff) + 1
          /\ buff[Len(buff)] = m
      BY <3>2, <3>3, <2>4, <1>0 DEF SrvType
    <3>5. t.replying /\ t.sendBuff = rpl /\ t.recvBuff = <<>> /\ t = [s EXCEPT !.recvBuff = <<>>, !.replying = TRUE, !.sendBuff = rpl]
      BY <3>1, <1>0 DEF SrvType
    <3>6. CASE Runs(n, buff)
      <4>1. PICK k \in 1 .. MaxReply : rpl = ReplyOf(buff[1].call, k)
        BY <3>1, <3>6 DEF Replies, ReplyOf
      <4>2. buff[1].call = m.call
        BY <3>4, <3>6, <1>0, WholeRequest DEF Runs, SrvType
      <4>3. k \in Nat \ {0} /\ rpl = ReplyOf(m.call, k)
        BY <4>1, <4>2
      <4>4. rpl # <<>> /\ rpl[1] = Chunk(m.call, 1, k) /\ Head(rpl) = Chunk(m.call, 1, k)
            /\ (Tail(rpl) # <<>> <=> k # 1)
        BY <4>3, ReplyParts
      <4>5. PortReply(t) = [s EXCEPT !.recvBuff = <<>>, !.sendBuff = Tail(ReplyOf(m.call, k)),
                                     !.replying = (k # 1)]
        BY <4>3, <4>4, <3>5, <1>0 DEF PortReply, ReplyOnce, SrvType
      <4>6. rpl[1].ok /\ rpl[1].call = m.call
        BY <4>4 DEF Chunk
      <4>7. ran' = [ran EXCEPT ![m.call] = @ + 1] /\ Delivers(n, Chunk(m.call, 1, k))
        BY <4>4, <4>6, <3>5, <1>2, <1>4
      <4>8. srv' = [srv EXCEPT ![n] = PortReply(t)]
        BY <3>5, <1>2
      <4> QED BY <4>5, <4>7, <4>8, <4>1, <3>3, <3>4, <3>6, <1>4 DEF Handles, Serve
    <3>7. CASE ~Runs(n, buff)
      <4>1. rpl = <<Error(m.call)>>
        BY <3>1, <3>4, <3>7 DEF Replies
      <4>2. rpl # <<>> /\ ~rpl[1].ok /\ Head(rpl) = Error(m.call) /\ Tail(rpl) = <<>>
        BY <4>1 DEF Error, Chunk
      <4>3. PortReply(t) = [s EXCEPT !.recvBuff = <<>>]
        BY <4>2, <3>5, <1>0, <1>1, <1>4 DEF PortReply, ReplyOnce, SrvType
      <4>4. srv' = [srv EXCEPT ![n] = PortReply(t)] /\ ran' = ran /\ Delivers(n, Error(m.call))
        BY <4>2, <3>5, <1>2
      <4> QED BY <4>3, <4>4, <3>3, <3>4, <3>7, <2>1, <1>4 DEF Refuses, Serve
    <3> QED BY <3>6, <3>7
  <2> QED BY <2>2, <2>3, <2>4
<1> QED BY <1>3, <1>4

-----------------------------------------------------------------------------
(* Types *)

\* The chunks and records that the actions make are of their types.
LEMMA ChunkTypes ==
    /\ NoData \in ChunkType /\ ~IsData(NoData)
    /\ \A c \in 0 .. MaxCalls : Fetch(c) \in ChunkType /\ Error(c) \in ChunkType
    /\ \A c \in 0 .. MaxCalls, k, of \in Nat : Chunk(c, k, of) \in ChunkType
    /\ Idle \in CallType /\ NewClient \in SrvType /\ [NewClient EXCEPT !.here = FALSE] \in SrvType
<1> USE AlpcAssumption
<1>1. \A c \in 0 .. MaxCalls, k, of \in Nat : Chunk(c, k, of) \in ChunkType
  BY DEF Chunk, ChunkType
<1>2. NoData \in ChunkType /\ ~IsData(NoData) /\ \A c \in 0 .. MaxCalls : Fetch(c) \in ChunkType
  BY <1>1 DEF NoData, Fetch, IsData, Chunk
<1>3. \A c \in 0 .. MaxCalls : Error(c) \in ChunkType
  BY DEF Error, Chunk, ChunkType
<1>4. Idle \in CallType
  BY <1>2 DEF Idle, CallType
<1>5. NewClient \in SrvType
  <2>1. <<>> \in Seq(ChunkType) /\ 0 \in 0 .. MaxRequest
    OBVIOUS
  <2> QED BY <2>1 DEF NewClient, SrvType
<1>6. [NewClient EXCEPT !.here = FALSE] \in SrvType
  BY <1>5 DEF SrvType
<1> QED BY <1>1, <1>2, <1>3, <1>4, <1>5, <1>6

\* The fields of chunks.
LEMMA ChunkFields ==
    ASSUME NEW c, NEW k, NEW of
    PROVE  /\ Chunk(c, k, of).call = c /\ Chunk(c, k, of).k = k /\ Chunk(c, k, of).of = of
           /\ Chunk(c, k, of).ok
BY DEF Chunk

\* Those of an error.
LEMMA ErrorFields ==
    ASSUME NEW c
    PROVE  Error(c).call = c /\ Error(c).k = 1 /\ Error(c).of = 1 /\ Error(c).ok = FALSE
BY DEF Error, Chunk

\* So are the clients that the server changes.
LEMMA SrvTypes ==
    ASSUME NEW s \in SrvType, NEW r \in Seq(ChunkType), NEW t \in 0 .. MaxRequest, NEW b \in BOOLEAN
    PROVE  /\ [s EXCEPT !.here = b] \in SrvType
           /\ [s EXCEPT !.recvBuff = <<>>] \in SrvType
           /\ [s EXCEPT !.recvBuff = r, !.total = t] \in SrvType
           /\ [s EXCEPT !.recvBuff = <<>>, !.sendBuff = r, !.replying = b] \in SrvType
<1>0. <<>> \in Seq(ChunkType)
  OBVIOUS
<1>1. [s EXCEPT !.here = b] \in SrvType
  BY DEF SrvType
<1>2. [s EXCEPT !.recvBuff = <<>>] \in SrvType
  BY <1>0 DEF SrvType
<1>3. [s EXCEPT !.recvBuff = r, !.total = t] \in SrvType
  BY DEF SrvType
<1>4. [s EXCEPT !.recvBuff = <<>>, !.sendBuff = r, !.replying = b] \in SrvType
  BY <1>0 DEF SrvType
<1> QED BY <1>1, <1>2, <1>3, <1>4

\* A call that ends leaves the types.
LEMMA FinishShape ==
    ASSUME Shape, CallInv, call.pc # "idle", NEW r \in {"answered", "failed", "misread"}, Finish(r)
    PROVE  /\ call' \in CallType /\ call'.conn = 0
           /\ result' \in [Calls -> {"new", "open", "answered", "failed", "misread"}]
BY ChunkTypes DEF Shape, CallInv, Finish, Idle

\* What a complete reply is worth.
LEMMA OutcomeRange == \A got : Outcome(got) \in {"answered", "failed", "misread"}
BY DEF Outcome

\* The size a chunk gives its reply.
LEMMA SizesRange ==
    ASSUME NEW x \in ChunkType, NEW max \in Nat, Sized(x, max)
    PROVE  /\ Sizes(x, max) \subseteq 0 .. max
           /\ \A size \in Sizes(x, max) \ {0} : IsData(x)
BY DEF Sizes, Sized, ChunkType, IsData

\* A chunk copied leaves the types.
LEMMA CopiedShape ==
    ASSUME Shape, CallInv, call.pc # "idle", NEW want \in 0 .. MaxReply - 1, Copied(want)
    PROVE  /\ call' \in CallType /\ call'.conn \in {0, call.conn}
           /\ result' \in [Calls -> {"new", "open", "answered", "failed", "misread"}]
<1> DEFINE got == IF IsData(call.data) THEN Append(call.got, call.data) ELSE call.got
<1>1. got \in Seq(ChunkType)
  BY DEF Shape, CallType
<1>2. CASE want = 0
  BY <1>2, FinishShape, OutcomeRange DEF Copied
<1>3. CASE want # 0
  <2>1. call' = [call EXCEPT !.pc = "send", !.got = got, !.want = want] /\ result' = result
    BY <1>3 DEF Copied
  <2> QED BY <2>1, <1>1 DEF Shape, CallType
<1> QED BY <1>2, <1>3

\* Every step keeps the types.
LEMMA ShapeStep == Shape /\ CallInv /\ Buffers /\ Mail /\ [Next]_vars => Shape'
<1> SUFFICES ASSUME Shape, CallInv, Buffers, Mail, [Next]_vars PROVE Shape'
  OBVIOUS
<1> USE AlpcAssumption
<1>1. CASE Connect
  BY <1>1, ChunkTypes DEF Connect, Shape, Conns
<1>2. CASE Disconnect
  BY <1>2 DEF Disconnect, ClosePort, Shape, serverVars
<1>3. ASSUME NEW n \in 1 .. MaxRequest, StartCall(n) PROVE Shape'
  <2>1. PICK c \in NewCalls :
          IF port = 0
          THEN call' = call /\ result' = [result EXCEPT ![c] = "failed"]
          ELSE /\ call' = [Idle EXCEPT !.pc = "send", !.id = c, !.len = n]
               /\ result' = [result EXCEPT ![c] = "open"]
    BY <1>3 DEF StartCall
  <2>2. c \in Calls /\ c \in 0 .. MaxCalls
    BY DEF NewCalls, Calls
  <2>3. [Idle EXCEPT !.pc = "send", !.id = c, !.len = n] \in CallType
    <3>1. Idle \in CallType /\ n \in 0 .. MaxRequest
      BY ChunkTypes
    <3> QED BY <2>2, <3>1 DEF CallType
  <2>4. call' \in CallType /\ call'.conn \in 0 .. conns
        /\ result' \in [Calls -> {"new", "open", "answered", "failed", "misread"}]
    <3>1. 0 \in 0 .. conns /\ Idle.conn = 0
      BY DEF Shape, Idle
    <3>2. [Idle EXCEPT !.pc = "send", !.id = c, !.len = n].conn = 0
      BY <3>1, ChunkTypes DEF CallType
    <3> QED BY <2>1, <2>2, <2>3, <3>1, <3>2 DEF Shape
  <2> QED BY <2>4, <1>3 DEF StartCall, serverVars, Shape
<1>4. CASE SendChunk
  <2>1. port \in Conns /\ call.id \in 0 .. MaxCalls
    BY <1>4 DEF SendChunk, Broken, Shape, Conns, CallType
  <2>2. Fetch(call.id) \in ChunkType /\ Chunk(call.id, call.sent + 1, call.len) \in ChunkType
    <3>1. call.sent + 1 \in Nat /\ call.len \in Nat
      BY DEF Shape, CallType
    <3> QED BY <2>1, <3>1 DEF Fetch, Chunk, ChunkType
  <2>3. msg' \in [Conns -> ChunkType]
    BY <1>4, <2>1, <2>2 DEF SendChunk, Shape
  <2>4. call' \in CallType /\ call'.conn = port
    <3>1. (IF call.got = <<>> THEN call.sent + 1 ELSE call.sent) \in 0 .. MaxRequest
      BY <1>4 DEF SendChunk, Shape, CallType, CallInv
    <3>2. port \in 0 .. MaxConns
      BY DEF Shape
    <3> QED BY <1>4, <3>1, <3>2 DEF SendChunk, Shape, CallType
  <2> QED BY <1>4, <2>1, <2>3, <2>4 DEF SendChunk, Shape, serverVars
<1>5. CASE SendFails \/ ReplyTooLong
  <2>1. call' \in CallType /\ call'.conn = 0
        /\ result' \in [Calls -> {"new", "open", "answered", "failed", "misread"}]
    BY <1>5, FinishShape DEF SendFails, ReplyTooLong
  <2>2. ClosePort /\ UNCHANGED <<conns, dead, deaths, msg, srv, announce, core, ran, skewed, overtaken>>
    BY <1>5 DEF SendFails, ReplyTooLong, serverVars
  <2>3. port' \in 0 .. conns /\ closed' \subseteq 1 .. conns /\ port' \notin closed'
    <3>1. port' = 0 /\ closed' = closed \cup ({port} \ {0})
      BY <2>2 DEF ClosePort
    <3>2. conns \in Nat /\ port \in 0 .. conns /\ closed \subseteq 1 .. conns
      BY DEF Shape
    <3>3. closed' \subseteq 1 .. conns
      BY <3>1, <3>2
    <3> QED BY <3>1, <3>2, <3>3
  <2> QED BY <2>1, <2>2, <2>3 DEF Shape
<1>6. CASE TakeAck \/ ReplyRefused
  <2>1. call' \in CallType /\ call'.conn \in {0, call.conn}
        /\ result' \in [Calls -> {"new", "open", "answered", "failed", "misread"}]
    <3>1. CASE Finish("failed")
      BY <1>6, <3>1, FinishShape DEF TakeAck, ReplyRefused
    <3>2. CASE ~Finish("failed")
      BY <1>6, <3>2 DEF TakeAck, ReplyRefused, Shape, CallType
    <3> QED BY <3>1, <3>2
  <2>2. call.conn \in Conns
    BY <1>6 DEF TakeAck, ReplyRefused, CallInv, Shape, Conns
  <2> QED BY <1>6, <2>1, <2>2 DEF TakeAck, ReplyRefused, Shape, serverVars
<1>7. CASE TakeFirst \/ TakeMore
  <2>1. PICK want \in 0 .. MaxReply - 1 : Copied(want)
    <3>1. CASE TakeFirst
      <4>1. PICK size \in Sizes(call.data, MaxReply) \ {0} : Copied(size - 1)
        BY <3>1 DEF TakeFirst
      <4>2. size \in 1 .. MaxReply
        BY <3>1, SizesRange DEF TakeFirst, Shape, CallType, CallInv
      <4> QED BY <4>1, <4>2
    <3>2. CASE TakeMore
      BY <3>2 DEF TakeMore, Shape, CallInv, CallType
    <3> QED BY <1>7, <3>1, <3>2
  <2>2. call' \in CallType /\ call'.conn \in {0, call.conn}
        /\ result' \in [Calls -> {"new", "open", "answered", "failed", "misread"}]
    BY <1>7, <2>1, CopiedShape DEF TakeFirst, TakeMore
  <2>3. UNCHANGED <<port, conns, dead, deaths, closed, msg, srv, announce, core, ran, skewed, overtaken>>
    BY <1>7 DEF TakeFirst, TakeMore, serverVars
  <2>4. call'.conn \in 0 .. conns
    BY <2>2 DEF Shape
  <2> QED BY <2>2, <2>3, <2>4 DEF Shape
<1>8. ASSUME NEW n \in Conns, Serve(n) PROVE Shape'
  <2>0. srv[n] \in SrvType /\ msg[n] \in ChunkType
    BY DEF Shape
  <2>1. msg[n] # NoData /\ n \notin dead /\ msg' = [msg EXCEPT ![n] = NoData]
        /\ UNCHANGED <<port, conns, dead, deaths, closed, announce, core, result, skewed, overtaken>>
    BY <1>8, ServeCases
  <2>2. msg' \in [Conns -> ChunkType]
    BY <2>1, ChunkTypes DEF Shape
  <2>3. ASSUME NEW d \in ChunkType, Delivers(n, d) PROVE call' \in CallType /\ call'.conn = call.conn
    BY <2>3 DEF Delivers, Shape, CallType
  <2>4. CASE Continues(n)
    <3>1. srv[n].sendBuff # <<>>
      BY <2>4 DEF Continues, Buffers
    <3>2. Head(srv[n].sendBuff) \in ChunkType /\ Tail(srv[n].sendBuff) \in Seq(ChunkType)
      BY <2>0, <3>1 DEF SrvType
    <3>3. ReplyOnce(srv[n]) \in SrvType
      BY <2>0, <3>2 DEF ReplyOnce, SrvType
    <3> QED BY <2>1, <2>2, <2>3, <2>4, <3>2, <3>3 DEF Continues, Shape
  <2>5. CASE Ignores(n)
    BY <2>1, <2>2, <2>3, <2>5, ChunkTypes DEF Ignores, Shape
  <2>6. CASE Keeps(n)
    <3>1. PICK t \in Totals(n) :
            srv' = [srv EXCEPT ![n] = [srv[n] EXCEPT !.recvBuff = Append(srv[n].recvBuff, msg[n]),
                                                     !.total = t]]
      BY <2>6 DEF Keeps
    <3>2. t \in 0 .. MaxRequest
      <4>1. Sizes(msg[n], MaxRequest) \subseteq 0 .. MaxRequest
        BY <2>0, SizesRange DEF Mail
      <4> QED BY <3>1, <4>1, <2>0 DEF Totals, SrvType
    <3>3. srv' \in [Conns -> SrvType]
      <4>1. Append(srv[n].recvBuff, msg[n]) \in Seq(ChunkType)
        BY <2>0 DEF SrvType
      <4>2. [srv[n] EXCEPT !.recvBuff = Append(srv[n].recvBuff, msg[n]), !.total = t] \in SrvType
        BY <4>1, <3>2, <2>0, SrvTypes
      <4> QED BY <3>1, <4>2 DEF Shape
    <3> QED BY <2>1, <2>2, <2>3, <2>6, <3>3, ChunkTypes DEF Keeps, Shape
  <2>7. CASE Handles(n)
    <3>1. PICK k \in 1 .. MaxReply :
            /\ srv' = [srv EXCEPT ![n] = [srv[n] EXCEPT !.recvBuff = <<>>,
                                                        !.sendBuff = Tail(ReplyOf(msg[n].call, k)),
                                                        !.replying = (k # 1)]]
            /\ Delivers(n, Chunk(msg[n].call, 1, k))
      BY <2>7 DEF Handles
    <3>2. msg[n].call \in 0 .. MaxCalls /\ msg[n].call \in Calls /\ ran[msg[n].call] = 0
      BY <2>0, <2>7 DEF ChunkType, Handles, Mail, Sized
    <3>3. Tail(ReplyOf(msg[n].call, k)) \in Seq(ChunkType)
      <4>1. ReplyOf(msg[n].call, k) \in Seq(ChunkType)
        <5>1. \A j \in 1 .. k : Chunk(msg[n].call, j, k) \in ChunkType
          BY <3>2 DEF Chunk, ChunkType
        <5> QED BY <5>1 DEF ReplyOf
      <4>2. ReplyOf(msg[n].call, k) # <<>>
        BY ReplyParts
      <4> QED BY <4>1, <4>2
    <3>4. srv' \in [Conns -> SrvType]
      <4>1. (k # 1) \in BOOLEAN /\ 0 \in 0 .. MaxRequest
        OBVIOUS
      <4>2. [srv[n] EXCEPT !.recvBuff = <<>>, !.sendBuff = Tail(ReplyOf(msg[n].call, k)),
                           !.replying = (k # 1)] \in SrvType
        BY <4>1, <3>3, <2>0, SrvTypes, Zenon
      <4> QED BY <3>1, <4>2 DEF Shape
    <3>5. ran' \in [Calls -> 0 .. 1]
      BY <2>7, <3>2 DEF Handles, Shape
    <3>6. Chunk(msg[n].call, 1, k) \in ChunkType
      BY <3>2 DEF Chunk, ChunkType
    <3> QED BY <2>1, <2>2, <2>3, <3>1, <3>4, <3>5, <3>6 DEF Shape
  <2>8. CASE Refuses(n)
    <3>1. srv' \in [Conns -> SrvType]
      <4>1. <<>> \in Seq(ChunkType)
        OBVIOUS
      <4>2. [srv[n] EXCEPT !.recvBuff = <<>>] \in SrvType
        BY <2>0, <4>1 DEF SrvType
      <4> QED BY <2>8, <4>2 DEF Refuses, Shape
    <3>2. Error(msg[n].call) \in ChunkType
      BY <2>0, ChunkTypes DEF ChunkType
    <3> QED BY <2>1, <2>2, <2>3, <2>8, <3>1, <3>2 DEF Refuses, Shape
  <2> QED BY <1>8, ServeCases, <2>4, <2>5, <2>6, <2>7, <2>8
<1>9. ASSUME NEW n \in Conns, Release(n) PROVE Shape'
  BY <1>9, ChunkTypes DEF Release, Shape, clientVars, serverVars
<1>10. ASSUME NEW n \in Conns, PortDisconnect(n) PROVE Shape'
  <2>1. [srv[n] EXCEPT !.here = FALSE] \in SrvType
    BY DEF Shape, SrvType
  <2>2. srv' = [srv EXCEPT ![n] = [srv[n] EXCEPT !.here = FALSE]]
    BY <1>10 DEF PortDisconnect
  <2>3. srv' \in [Conns -> SrvType]
    BY <2>1, <2>2 DEF Shape
  <2>4. announce' \subseteq (1 .. conns) \X {"connected", "disconnected"}
    BY <1>10 DEF PortDisconnect, Gone, Shape
  <2> QED BY <1>10, <2>3, <2>4 DEF PortDisconnect, Shape, clientVars
<1>11. ASSUME NEW n \in Conns, NEW e \in {"connected", "disconnected"}, OnClient(n, e) PROVE Shape'
  BY <1>11 DEF OnClient, Shape, clientVars
<1>12. CASE Restart
  BY <1>12, ChunkTypes DEF Restart, Shape, clientVars, Conns
<1>13. CASE UNCHANGED vars
  BY <1>13 DEF Shape, vars
<1> QED BY <1>1, <1>2, <1>3, <1>4, <1>5, <1>6, <1>7, <1>8, <1>9, <1>10, <1>11, <1>12, <1>13
        DEF Next, ClientStep, ServerStep

-----------------------------------------------------------------------------
(* The call and the buffers *)

\* A call that has ended satisfies everything said of calls.
LEMMA IdleCall ==
    ASSUME call' = Idle
    PROVE  CallInv'
BY DEF CallInv, Idle

\* A chunk is copied by a call whose position is in its reply.
LEMMA CopiedCall ==
    ASSUME Shape, CallInv, call.pc = "reply", NEW want \in 0 .. MaxReply - 1,
           IsData(call.data) \/ call.got # <<>>, Copied(want)
    PROVE  CallInv'
<1> DEFINE got == IF IsData(call.data) THEN Append(call.got, call.data) ELSE call.got
<1>1. CASE want = 0
  BY <1>1, IdleCall DEF Copied, Finish
<1>2. CASE want # 0
  <2>1. call' = [call EXCEPT !.pc = "send", !.got = got, !.want = want] /\ result' = result
    BY <1>2 DEF Copied
  <2>2. got # <<>>
    BY DEF Shape, CallType
  <2>3. /\ call'.pc = "send" /\ call'.got = got /\ call'.want = want /\ call'.id = call.id
        /\ call'.sent = call.sent /\ call'.len = call.len /\ call'.conn = call.conn
    BY <2>1 DEF Shape, CallType
  <2> QED BY <2>1, <2>2, <2>3, <1>2 DEF CallInv, Shape, CallType
<1> QED BY <1>1, <1>2

\* Every step keeps what is said of the call.
LEMMA CallStep == Shape /\ CallInv /\ Buffers /\ Mail /\ Held /\ [Next]_vars => CallInv'
<1> SUFFICES ASSUME Shape, CallInv, Buffers, Mail, Held, [Next]_vars PROVE CallInv'
  OBVIOUS
<1> USE AlpcAssumption
<1>1. CASE UNCHANGED <<call, result>>
  BY <1>1 DEF CallInv
<1>2. CASE call' = Idle
  BY <1>2, IdleCall
<1>3. ASSUME NEW n \in 1 .. MaxRequest, StartCall(n) PROVE CallInv'
  <2>1. PICK c \in NewCalls :
          IF port = 0
          THEN call' = call /\ result' = [result EXCEPT ![c] = "failed"]
          ELSE /\ call' = [Idle EXCEPT !.pc = "send", !.id = c, !.len = n]
               /\ result' = [result EXCEPT ![c] = "open"]
    BY <1>3 DEF StartCall
  <2>2. CASE port = 0
    BY <1>3, <2>1, <2>2 DEF StartCall, CallInv
  <2>3. CASE port # 0
    <3>1. /\ call'.pc = "send" /\ call'.id = c /\ call'.len = n /\ call'.sent = 0 /\ call'.got = <<>>
          /\ call'.conn = 0
      BY <2>1, <2>3 DEF Idle
    <3>2. result'[c] = "open" /\ c \in Calls
      BY <2>1, <2>3 DEF NewCalls, Shape
    <3> QED BY <3>1, <3>2 DEF CallInv
  <2> QED BY <2>2, <2>3
<1>4. CASE SendChunk
  <2>1. /\ call'.pc = "wait" /\ call'.conn = port /\ call'.id = call.id /\ call'.len = call.len
        /\ call'.got = call.got /\ call'.want = call.want
        /\ call'.sent = IF call.got = <<>> THEN call.sent + 1 ELSE call.sent
    BY <1>4 DEF SendChunk, Shape, CallType
  <2>2. port # 0 /\ result' = result /\ call.pc = "send"
    BY <1>4 DEF SendChunk, Broken
  <2> QED BY <2>1, <2>2 DEF CallInv, Shape, CallType
<1>5. CASE TakeAck /\ call' # Idle
  <2>1. call' = [call EXCEPT !.pc = "send"] /\ result' = result /\ call.sent < call.len
        /\ call.got = <<>> /\ call.pc = "reply"
    BY <1>5 DEF TakeAck, Finish
  <2>2. /\ call'.pc = "send" /\ call'.conn = call.conn /\ call'.id = call.id /\ call'.len = call.len
        /\ call'.got = <<>> /\ call'.sent = call.sent
    BY <2>1 DEF Shape, CallType
  <2> QED BY <2>1, <2>2 DEF CallInv
<1>6. CASE TakeFirst
  <2>1. PICK size \in Sizes(call.data, MaxReply) \ {0} : Copied(size - 1)
    BY <1>6 DEF TakeFirst
  <2>2. size \in 1 .. MaxReply /\ IsData(call.data)
    BY <1>6, SizesRange DEF TakeFirst, Shape, CallType, CallInv
  <2>3. size - 1 \in 0 .. MaxReply - 1
    BY <2>2
  <2> QED BY <2>1, <2>2, <2>3, <1>6, CopiedCall DEF TakeFirst
<1>7. CASE TakeMore
  <2>1. PICK want \in 0 .. MaxReply - 1 : Copied(want)
    BY <1>7 DEF TakeMore, Shape, CallInv, CallType
  <2> QED BY <2>1, <1>7, CopiedCall DEF TakeMore
<1>8. ASSUME NEW n \in Conns, Serve(n) PROVE CallInv'
  <2>0. srv[n] \in SrvType /\ msg[n] \in ChunkType
    BY DEF Shape
  <2>1. result' = result
    BY <1>8, ServeCases
  <2>2. ASSUME NEW d \in ChunkType, Delivers(n, d), Sized(d, MaxReply) PROVE CallInv'
    <3>1. CASE call' = call
      BY <3>1, <2>1 DEF CallInv
    <3>2. CASE call' # call
      <4>1. call' = [call EXCEPT !.pc = "reply", !.data = d] /\ call.pc = "wait"
        BY <3>2, <2>2 DEF Delivers
      <4>2. /\ call'.pc = "reply" /\ call'.data = d /\ call'.id = call.id /\ call'.len = call.len
            /\ call'.got = call.got /\ call'.want = call.want /\ call'.sent = call.sent
            /\ call'.conn = call.conn
        BY <4>1 DEF Shape, CallType
      <4> QED BY <4>1, <4>2, <2>1, <2>2 DEF CallInv
    <3> QED BY <3>1, <3>2
  <2>3. NoData \in ChunkType /\ Sized(NoData, MaxReply)
    BY ChunkTypes DEF Sized
  <2>4. CASE Continues(n)
    <3>1. Head(srv[n].sendBuff) \in ChunkType /\ Head(srv[n].sendBuff) = srv[n].sendBuff[1]
          /\ 1 \in 1 .. Len(srv[n].sendBuff)
      BY <2>0, <2>4 DEF SrvType, Continues, Buffers
    <3>2. Sized(srv[n].sendBuff[1], MaxReply)
      BY <3>1 DEF Held, Lost, Own, ReplyChunk, Sized
    <3> QED BY <2>2, <2>4, <3>1, <3>2 DEF Continues
  <2>5. CASE Ignores(n) \/ Keeps(n)
    BY <2>5, <2>2, <2>3 DEF Ignores, Keeps
  <2>6. CASE Handles(n)
    <3>1. PICK k \in 1 .. MaxReply : Delivers(n, Chunk(msg[n].call, 1, k))
      BY <2>6 DEF Handles
    <3>2. msg[n].call \in Calls /\ msg[n].call \in 0 .. MaxCalls
      BY <2>0, <2>6 DEF ChunkType, Handles, Mail, Sized
    <3>3. Chunk(msg[n].call, 1, k) \in ChunkType /\ Sized(Chunk(msg[n].call, 1, k), MaxReply)
      BY <3>2 DEF Chunk, ChunkType, Sized
    <3> QED BY <2>2, <3>1, <3>3
  <2>7. CASE Refuses(n)
    <3>2. msg[n].call \in Calls /\ msg[n].call \in 0 .. MaxCalls
      BY <2>0, <2>7 DEF ChunkType, Refuses, Mail, Sized
    <3>3. Error(msg[n].call) \in ChunkType /\ Sized(Error(msg[n].call), MaxReply)
      <4>1. Error(msg[n].call) \in ChunkType
        BY <3>2, ChunkTypes
      <4>2. Sized(Error(msg[n].call), MaxReply)
        <5>1. Error(msg[n].call).call = msg[n].call /\ Error(msg[n].call).of = 1
          BY ErrorFields
        <5>2. 1 \in 1 .. MaxReply
          OBVIOUS
        <5> QED BY <3>2, <5>1, <5>2, Zenon DEF Sized
      <4> QED BY <4>1, <4>2
    <3> QED BY <2>2, <2>7, <3>3 DEF Refuses
  <2> QED BY <1>8, ServeCases, <2>4, <2>5, <2>6, <2>7
<1>9. CASE SendFails \/ ReplyTooLong \/ ReplyRefused
  BY <1>2, <1>9 DEF SendFails, ReplyTooLong, ReplyRefused, Finish
<1>10. CASE TakeAck
  BY <1>2, <1>5, <1>10
<1>11. CASE Connect \/ Disconnect
  BY <1>1, <1>11 DEF Connect, Disconnect
<1>12. ASSUME NEW n \in Conns, Release(n) \/ PortDisconnect(n) PROVE CallInv'
  BY <1>1, <1>12 DEF Release, PortDisconnect, clientVars
<1>13. ASSUME NEW n \in Conns, NEW e \in {"connected", "disconnected"}, OnClient(n, e) PROVE CallInv'
  BY <1>1, <1>13 DEF OnClient, clientVars
<1>14. CASE Restart
  BY <1>1, <1>14 DEF Restart, clientVars
<1>15. CASE UNCHANGED vars
  BY <1>1, <1>15 DEF vars
<1> QED BY <1>3, <1>4, <1>6, <1>7, <1>8, <1>9, <1>10, <1>11, <1>12, <1>13, <1>14, <1>15
        DEF Next, ClientStep, ServerStep

\* Every step keeps what is said of the server's buffers.
LEMMA BuffersStep == Shape /\ Buffers /\ Mail /\ [Next]_vars => Buffers'
<1> SUFFICES ASSUME Shape, Buffers, Mail, [Next]_vars PROVE Buffers'
  OBVIOUS
<1> USE AlpcAssumption
<1>0. ASSUME NEW n \in Conns, NEW s, srv' = [srv EXCEPT ![n] = s],
             s.replying <=> s.sendBuff # <<>>, Len(s.sendBuff) < MaxReply,
             s.recvBuff # <<>> => Len(s.recvBuff) < s.total
      PROVE  Buffers'
  <2> SUFFICES ASSUME NEW o \in Conns
               PROVE  /\ srv'[o].replying <=> srv'[o].sendBuff # <<>>
                      /\ Len(srv'[o].sendBuff) < MaxReply
                      /\ srv'[o].recvBuff # <<>> => Len(srv'[o].recvBuff) < srv'[o].total
    BY DEF Buffers
  <2>1. CASE o = n
    <3>1. srv'[o] = s
      BY <1>0, <2>1 DEF Shape
    <3> QED BY <1>0, <3>1
  <2>2. CASE o # n
    <3>1. srv'[o] = srv[o]
      BY <1>0, <2>2 DEF Shape
    <3> QED BY <3>1 DEF Buffers
  <2> QED BY <2>1, <2>2
<1>1. CASE Connect
  <2>1. conns + 1 \in Conns /\ srv' = [srv EXCEPT ![conns + 1] = NewClient]
    BY <1>1 DEF Connect, Shape, Conns
  <2>2. ~NewClient.replying /\ NewClient.sendBuff = <<>> /\ NewClient.recvBuff = <<>>
    BY DEF NewClient
  <2>3. Len(NewClient.sendBuff) < MaxReply
    BY <2>2
  <2> QED BY <1>0, <2>1, <2>2, <2>3
<1>2. ASSUME NEW n \in Conns, PortDisconnect(n) PROVE Buffers'
  <2> DEFINE s == [srv[n] EXCEPT !.here = FALSE]
  <2>1. srv' = [srv EXCEPT ![n] = s]
    BY <1>2 DEF PortDisconnect
  <2>2. /\ s.replying = srv[n].replying /\ s.sendBuff = srv[n].sendBuff
        /\ s.recvBuff = srv[n].recvBuff /\ s.total = srv[n].total
    BY DEF Shape, SrvType
  <2>3. /\ s.replying <=> s.sendBuff # <<>>
        /\ Len(s.sendBuff) < MaxReply
        /\ s.recvBuff # <<>> => Len(s.recvBuff) < s.total
    BY <2>2 DEF Buffers
  <2> HIDE DEF s
  <2> QED BY <1>0, <2>1, <2>3
<1>3. CASE Restart
  <2>1. \A n \in Conns : srv'[n] = [NewClient EXCEPT !.here = FALSE]
    BY <1>3 DEF Restart
  <2> DEFINE s == [NewClient EXCEPT !.here = FALSE]
  <2>2. ~s.replying /\ s.sendBuff = <<>> /\ s.recvBuff = <<>>
    BY DEF NewClient
  <2>3. Len(s.sendBuff) < MaxReply
    BY <2>2
  <2> HIDE DEF s
  <2> QED BY <2>1, <2>2, <2>3 DEF Buffers, s
<1>4. ASSUME NEW n \in Conns, Serve(n) PROVE Buffers'
  <2>0. srv[n] \in SrvType /\ msg[n] \in ChunkType
    BY DEF Shape
  <2>1. CASE Continues(n)
    <3> DEFINE s == ReplyOnce(srv[n])
    <3>1. srv[n].sendBuff # <<>> /\ srv[n].sendBuff \in Seq(ChunkType)
      BY <2>0, <2>1 DEF Continues, Buffers, SrvType
    <3>2. /\ s.sendBuff = Tail(srv[n].sendBuff) /\ s.replying = (Tail(srv[n].sendBuff) # <<>>)
          /\ s.recvBuff = srv[n].recvBuff /\ s.total = srv[n].total
      BY <2>0 DEF ReplyOnce, SrvType
    <3>3. Len(Tail(srv[n].sendBuff)) < MaxReply
      BY <3>1 DEF Buffers
    <3>4. s.recvBuff # <<>> => Len(s.recvBuff) < s.total
      BY <3>2 DEF Buffers
    <3> HIDE DEF s
    <3> QED BY <1>0, <2>1, <3>2, <3>3, <3>4 DEF Continues, s
  <2>2. CASE Ignores(n)
    BY <2>2 DEF Ignores, Buffers
  <2>3. CASE Keeps(n)
    <3>1. PICK t \in Totals(n) :
            /\ Len(srv[n].recvBuff) + 1 < t
            /\ srv' = [srv EXCEPT ![n] = [srv[n] EXCEPT !.recvBuff = Append(srv[n].recvBuff, msg[n]),
                                                        !.total = t]]
      BY <2>3 DEF Keeps
    <3> DEFINE s == [srv[n] EXCEPT !.recvBuff = Append(srv[n].recvBuff, msg[n]), !.total = t]
    <3>2. /\ s.sendBuff = srv[n].sendBuff /\ s.replying = srv[n].replying
          /\ s.recvBuff = Append(srv[n].recvBuff, msg[n]) /\ s.total = t
      BY <2>0 DEF SrvType
    <3>3. Len(s.recvBuff) < s.total
      BY <3>1, <3>2, <2>0 DEF SrvType
    <3>4. (s.replying <=> s.sendBuff # <<>>) /\ Len(s.sendBuff) < MaxReply
      BY <3>2 DEF Buffers
    <3> HIDE DEF s
    <3> QED BY <1>0, <3>1, <3>3, <3>4 DEF s
  <2>4. CASE Handles(n)
    <3>1. PICK k \in 1 .. MaxReply :
            srv' = [srv EXCEPT ![n] = [srv[n] EXCEPT !.recvBuff = <<>>,
                                                     !.sendBuff = Tail(ReplyOf(msg[n].call, k)),
                                                     !.replying = (k # 1)]]
      BY <2>4 DEF Handles
    <3> DEFINE s == [srv[n] EXCEPT !.recvBuff = <<>>, !.sendBuff = Tail(ReplyOf(msg[n].call, k)),
                                   !.replying = (k # 1)]
    <3>2. /\ s.sendBuff = Tail(ReplyOf(msg[n].call, k)) /\ s.replying = (k # 1) /\ s.recvBuff = <<>>
      BY <2>0 DEF SrvType
    <3>3. (s.replying <=> s.sendBuff # <<>>) /\ Len(s.sendBuff) < MaxReply
      <4>1. k \in Nat \ {0} /\ k - 1 < MaxReply
        OBVIOUS
      <4>2. (Tail(ReplyOf(msg[n].call, k)) # <<>> <=> k # 1) /\ Len(Tail(ReplyOf(msg[n].call, k))) = k - 1
        BY <4>1, ReplyParts
      <4> QED BY <3>2, <4>1, <4>2
    <3> HIDE DEF s
    <3> QED BY <1>0, <3>1, <3>2, <3>3 DEF s
  <2>5. CASE Refuses(n)
    <3> DEFINE s == [srv[n] EXCEPT !.recvBuff = <<>>]
    <3>1. s.sendBuff = srv[n].sendBuff /\ s.replying = srv[n].replying /\ s.recvBuff = <<>>
      BY <2>0 DEF SrvType
    <3>2. (s.replying <=> s.sendBuff # <<>>) /\ Len(s.sendBuff) < MaxReply
      BY <3>1 DEF Buffers
    <3> HIDE DEF s
    <3> QED BY <1>0, <2>5, <3>1, <3>2 DEF s, Refuses
  <2> QED BY <1>4, ServeCases, <2>1, <2>2, <2>3, <2>4, <2>5
<1>5. CASE UNCHANGED srv
  BY <1>5 DEF Buffers
<1> QED BY <1>1, <1>2, <1>3, <1>4, <1>5
        DEF Next, ClientStep, ServerStep, Disconnect, StartCall, SendChunk, SendFails, TakeAck,
            ReplyRefused, ReplyTooLong, TakeFirst, TakeMore, Release, OnClient, serverVars, vars

-----------------------------------------------------------------------------
(* Messages on their way *)

\* While no request of the call is on its way every message was left behind.
LEMMA OthersLeft ==
    ASSUME Mail, call.pc # "wait", NEW n \in Conns, msg[n] # NoData
    PROVE  LeftBehind(n)
BY DEF Mail, OnItsWay

\* A call that ends leaves the messages to a closed connection behind.
LEMMA FinishMail ==
    ASSUME Shape, CallInv, Mail, call.pc # "idle", call' = Idle,
           call.pc = "wait" => call.conn \in dead \cup closed /\ result' = [result EXCEPT ![call.id] = "failed"],
           NEW r, result' = [result EXCEPT ![call.id] = r],
           msg' = msg, ran' = ran, dead' = dead, conns' = conns, closed \subseteq closed'
    PROVE  Mail'
<1> SUFFICES ASSUME NEW n \in Conns, msg[n] # NoData PROVE LeftBehind(n)'
  BY DEF Mail
<1>0. call'.pc = "idle"
  BY DEF Idle
<1>1. CASE LeftBehind(n)
  BY <1>0, <1>1 DEF LeftBehind, Shape
<1>2. CASE OnItsWay(n)
  <2>1. n \in closed /\ msg[n].call = call.id
    BY <1>2 DEF OnItsWay, Mail
  <2>2. call.id \in Calls /\ result'[call.id] = "failed"
    BY <1>2 DEF OnItsWay, CallInv, Shape
  <2> QED BY <1>0, <2>1, <2>2 DEF LeftBehind
<1> QED BY <1>1, <1>2 DEF Mail

\* A call that goes on within itself leaves the messages where they are.
LEMMA GoOnMail ==
    ASSUME Mail, call.pc \notin {"idle", "wait"}, call'.pc \notin {"idle", "wait"},
           call'.id = call.id, call'.conn = call.conn,
           result' = result, msg' = msg, ran' = ran, dead' = dead, conns' = conns, closed' = closed
    PROVE  Mail'
<1> SUFFICES ASSUME NEW n \in Conns, msg[n] # NoData PROVE LeftBehind(n)'
  BY DEF Mail
<1> QED BY OthersLeft DEF LeftBehind

\* A handler that has run has run for the request of a call that is past it.
LEMMA NotRunYet ==
    ASSUME Shape, CallInv, Stream, call.pc \in {"send", "wait"}, call.got = <<>>
    PROVE  ran[call.id] = 0
<1>1. ran[call.id] \in 0 .. 1
  BY DEF Shape, CallInv
<1>2. ran[call.id] = 1 => FALSE
  BY DEF Stream, StreamAfter, HasData
<1> QED BY <1>1, <1>2

\* A server thread that takes a message leaves the others where they are.
LEMMA ServeMail ==
    ASSUME Shape, Mail, NEW n \in Conns, n \notin dead, msg' = [msg EXCEPT ![n] = NoData],
           dead' = dead, conns' = conns, closed' = closed, result' = result,
           \/ ran' = ran
           \/ IsData(msg[n]) /\ ran' = [ran EXCEPT ![msg[n].call] = @ + 1],
           \/ call' = call
           \/ /\ call.pc = "wait" /\ call.conn = n
              /\ call'.pc = "reply" /\ call'.conn = n /\ call'.id = call.id
    PROVE  Mail'
<1> SUFFICES ASSUME NEW o \in Conns, o # n
             PROVE  /\ msg[o] # NoData => OnItsWay(o)' \/ LeftBehind(o)'
                    /\ IsData(msg[o]) => ran'[msg[o].call] = 0
  <2>1. msg'[n] = NoData /\ \A o \in Conns : o # n => msg'[o] = msg[o]
    BY DEF Shape
  <2>2. Sized(NoData, MaxRequest) /\ ~IsData(NoData)
    BY ChunkTypes DEF Sized
  <2> QED BY <2>1, <2>2 DEF Mail
<1>0. msg'[o] = msg[o]
  BY DEF Shape
<1>1. IsData(msg[o]) => ran'[msg[o].call] = 0
  <2>1. IsData(msg[o]) => ran[msg[o].call] = 0 /\ msg[o].call \in Calls
    BY DEF Mail, Sized
  <2>2. IsData(msg[n]) /\ IsData(msg[o]) => msg[n].call # msg[o].call
    BY DEF Mail
  <2> QED BY <2>1, <2>2 DEF Shape
<1>2. ASSUME LeftBehind(o) PROVE LeftBehind(o)'
  BY <1>0, <1>2 DEF LeftBehind
<1>3. ASSUME OnItsWay(o) PROVE OnItsWay(o)'
  <2>1. call' = call
    BY <1>3 DEF OnItsWay
  <2> QED BY <1>0, <1>3, <2>1 DEF OnItsWay
<1> QED BY <1>1, <1>2, <1>3 DEF Mail

\* Every step keeps the messages where they can be.
LEMMA MailStep == Shape /\ CallInv /\ Buffers /\ Mail /\ Stream /\ [Next]_vars => Mail'
<1> SUFFICES ASSUME Shape, CallInv, Buffers, Mail, Stream, [Next]_vars PROVE Mail'
  OBVIOUS
<1> USE AlpcAssumption
<1>1. CASE Connect \/ Disconnect
  <2>1. /\ conns' \in Nat /\ conns <= conns' /\ closed \subseteq closed'
        /\ UNCHANGED <<dead, call, msg, result, ran>>
    BY <1>1 DEF Connect, Disconnect, ClosePort, Shape, serverVars
  <2>2. ASSUME NEW n \in Conns
        PROVE  /\ LeftBehind(n) => LeftBehind(n)'
               /\ OnItsWay(n) => OnItsWay(n)'
    BY <2>1 DEF LeftBehind, OnItsWay
  <2>3. \A n \in Conns : n \in dead' \/ n > conns' => msg'[n] = NoData
    BY <2>1 DEF Mail, Shape, Conns
  <2> QED BY <2>1, <2>2, <2>3 DEF Mail
<1>2. ASSUME NEW m \in 1 .. MaxRequest, StartCall(m) PROVE Mail'
  <2>1. PICK c \in NewCalls :
          IF port = 0
          THEN call' = call /\ result' = [result EXCEPT ![c] = "failed"]
          ELSE /\ call' = [Idle EXCEPT !.pc = "send", !.id = c, !.len = m]
               /\ result' = [result EXCEPT ![c] = "open"]
    BY <1>2 DEF StartCall
  <2>2. c \in Calls /\ result[c] = "new"
    BY DEF NewCalls
  <2>3. call.pc = "idle" /\ UNCHANGED <<conns, dead, closed, msg, ran>>
    BY <1>2 DEF StartCall, serverVars
  <2>4. ASSUME NEW n \in Conns, msg[n] # NoData PROVE LeftBehind(n)'
    <3>1. LeftBehind(n) /\ msg[n].call # c
      BY <2>2, <2>3, <2>4, OthersLeft DEF LeftBehind
    <3>2. result'[msg[n].call] = "failed"
      BY <3>1, <2>1 DEF LeftBehind, Shape
    <3>3. call'.pc # "idle" => call'.id = c /\ call'.conn = 0
      BY <2>1, <2>3 DEF Idle
    <3>4. n # 0
      BY DEF Conns
    <3> QED BY <3>1, <3>2, <3>3, <3>4, <2>3 DEF LeftBehind
  <2> QED BY <2>3, <2>4 DEF Mail
<1>3. CASE SendChunk
  <2> DEFINE x == IF call.got = <<>> THEN Chunk(call.id, call.sent + 1, call.len) ELSE Fetch(call.id)
  <2>1. /\ port \in Conns /\ port \notin dead /\ port <= conns /\ port \notin closed
        /\ call.id \in Calls /\ call.pc = "send"
    BY <1>3 DEF SendChunk, Broken, Shape, Conns, CallInv
  <2>2. /\ msg' = [msg EXCEPT ![port] = x]
        /\ UNCHANGED <<port, conns, dead, closed, ran, result>>
    BY <1>3 DEF SendChunk, serverVars
  <2>3. /\ call'.pc = "wait" /\ call'.conn = port /\ call'.id = call.id /\ call'.len = call.len
        /\ call'.got = call.got
        /\ call'.sent = IF call.got = <<>> THEN call.sent + 1 ELSE call.sent
    BY <1>3 DEF SendChunk, Shape, CallType
  <2>4. /\ x.call = call.id /\ (IsData(x) <=> call.got = <<>>)
        /\ IsData(x) => x = Chunk(call.id, call'.sent, call.len)
    <3>1. CASE call.got = <<>>
      <4>1. x = Chunk(call.id, call'.sent, call.len) /\ call'.sent > 0
        BY <2>3, <3>1 DEF Shape, CallType
      <4> QED BY <3>1, <4>1, ChunkFields DEF IsData
    <3>2. CASE call.got # <<>>
      BY <3>2 DEF IsData, Chunk, Fetch
    <3> QED BY <3>1, <3>2
  <2>5. Sized(x, MaxRequest)
    <3>1. IsData(x) => x.of = call.len /\ call.sent < call.len
      BY <2>1 DEF IsData, Chunk, Fetch, CallInv
    <3> QED BY <3>1, <2>1, <2>4 DEF Sized, Shape, CallType
  <2>6. msg'[port] = x /\ \A n \in Conns : n # port => msg'[n] = msg[n]
    BY <2>1, <2>2 DEF Shape
  <2>7. IsData(x) => ran[call.id] = 0
    BY <2>1, <2>4, NotRunYet
  <2> HIDE DEF x
  <2>8. OnItsWay(port)'
    BY <2>2, <2>3, <2>4, <2>6 DEF OnItsWay
  <2>9. ASSUME NEW n \in Conns, n # port, msg[n] # NoData PROVE LeftBehind(n)' /\ msg[n].call # call.id
    <3>1. LeftBehind(n)
      BY <2>1, <2>9, OthersLeft
    <3> QED BY <3>1, <2>1, <2>2, <2>3, <2>6, <2>9 DEF LeftBehind
  <2>10. ~IsData(NoData)
    BY ChunkTypes
  <2>11. ASSUME NEW n \in Conns
         PROVE  /\ n \in dead' \/ n > conns' => msg'[n] = NoData
                /\ Sized(msg'[n], MaxRequest)
                /\ msg'[n] # NoData => OnItsWay(n)' \/ LeftBehind(n)'
                /\ IsData(msg'[n]) => ran'[msg'[n].call] = 0
                /\ n # port => (IsData(msg'[n]) => msg'[n].call # call.id)
    <3>1. CASE n = port
      BY <3>1, <2>1, <2>2, <2>4, <2>5, <2>6, <2>7, <2>8 DEF Shape
    <3>2. CASE n # port
      BY <3>2, <2>2, <2>6, <2>9, <2>10 DEF Mail
    <3> QED BY <3>1, <3>2
  <2>12. ASSUME NEW n \in Conns, NEW o \in Conns, n # o, IsData(msg'[n]), IsData(msg'[o])
         PROVE  msg'[n].call # msg'[o].call
    <3>1. CASE n # port /\ o # port
      BY <3>1, <2>6, <2>12 DEF Mail
    <3>2. CASE n = port \/ o = port
      BY <3>2, <2>4, <2>6, <2>11, <2>12
    <3> QED BY <3>1, <3>2
  <2> QED BY <2>11, <2>12 DEF Mail
<1>4. CASE SendFails
  <2>1. /\ call' = Idle /\ result' = [result EXCEPT ![call.id] = "failed"] /\ call.pc # "idle"
        /\ call.pc = "wait" => call.conn \in dead \cup closed
        /\ closed \subseteq closed' /\ UNCHANGED <<conns, dead, msg, ran>>
    BY <1>4 DEF SendFails, Finish, ClosePort, serverVars
  <2> QED BY <2>1, FinishMail
<1>5. CASE ReplyTooLong \/ ReplyRefused \/ (TakeAck /\ Finish("failed"))
  <2>1. /\ call' = Idle /\ result' = [result EXCEPT ![call.id] = "failed"] /\ call.pc = "reply"
        /\ closed \subseteq closed' /\ UNCHANGED <<conns, dead, msg, ran>>
    BY <1>5 DEF ReplyTooLong, ReplyRefused, TakeAck, Finish, ClosePort, serverVars
  <2> QED BY <2>1, FinishMail
<1>6. CASE TakeAck /\ ~Finish("failed")
  <2>1. /\ call' = [call EXCEPT !.pc = "send"] /\ call.pc = "reply"
        /\ UNCHANGED <<conns, dead, closed, msg, result, ran>>
    BY <1>6 DEF TakeAck, serverVars
  <2>2. call'.pc = "send" /\ call'.id = call.id /\ call'.conn = call.conn
    BY <2>1 DEF Shape, CallType
  <2> QED BY <2>1, <2>2, GoOnMail
<1>7. CASE TakeFirst \/ TakeMore
  <2>1. PICK want : Copied(want)
    BY <1>7 DEF TakeFirst, TakeMore
  <2>2. call.pc = "reply" /\ UNCHANGED <<conns, dead, closed, msg, ran>>
    BY <1>7 DEF TakeFirst, TakeMore, serverVars
  <2>3. CASE want = 0
    <3>1. PICK r : Finish(r)
      BY <2>1, <2>3 DEF Copied
    <3>2. call' = Idle /\ result' = [result EXCEPT ![call.id] = r]
      BY <3>1 DEF Finish
    <3> QED BY <2>2, <3>2, FinishMail
  <2>4. CASE want # 0
    <3>1. PICK got : call' = [call EXCEPT !.pc = "send", !.got = got, !.want = want] /\ result' = result
      BY <2>1, <2>4 DEF Copied
    <3>2. call'.pc = "send" /\ call'.id = call.id /\ call'.conn = call.conn
      BY <3>1 DEF Shape, CallType
    <3> QED BY <2>2, <3>1, <3>2, GoOnMail
  <2> QED BY <2>3, <2>4
<1>8. ASSUME NEW n \in Conns, Serve(n) PROVE Mail'
  <2>1. /\ n \notin dead /\ msg' = [msg EXCEPT ![n] = NoData]
        /\ UNCHANGED <<conns, dead, closed, result>>
    BY <1>8, ServeCases
  <2>2. ran' = ran \/ (IsData(msg[n]) /\ ran' = [ran EXCEPT ![msg[n].call] = @ + 1])
    BY <1>8, ServeCases DEF Continues, Ignores, Keeps, Handles, Refuses
  <2>3. PICK d : Delivers(n, d)
    BY <1>8, ServeCases DEF Continues, Ignores, Keeps, Handles, Refuses
  <2>4. \/ call' = call
        \/ /\ call.pc = "wait" /\ call.conn = n
           /\ call'.pc = "reply" /\ call'.conn = n /\ call'.id = call.id
    BY <2>3 DEF Delivers, Shape, CallType
  <2> QED BY <2>1, <2>2, <2>4, ServeMail
<1>9. ASSUME NEW n \in Conns, Release(n) PROVE Mail'
  <2>1. /\ n \notin dead /\ msg' = [msg EXCEPT ![n] = NoData]
        /\ UNCHANGED <<conns, dead, closed, result, ran, call>>
    BY <1>9 DEF Release, clientVars, serverVars
  <2> QED BY <2>1, ServeMail
<1>10. CASE Restart
  <2>1. /\ \A n \in Conns : msg'[n] = NoData
    BY <1>10 DEF Restart
  <2>2. Sized(NoData, MaxRequest) /\ ~IsData(NoData)
    BY ChunkTypes DEF Sized
  <2> QED BY <2>1, <2>2 DEF Mail
<1>11. CASE UNCHANGED <<conns, dead, closed, call, msg, result, ran>>
  BY <1>11 DEF Mail, OnItsWay, LeftBehind
<1> QED BY <1>1, <1>2, <1>3, <1>4, <1>5, <1>6, <1>7, <1>8, <1>9, <1>10, <1>11
        DEF Next, ClientStep, ServerStep, PortDisconnect, OnClient, clientVars, vars

-----------------------------------------------------------------------------
(* Replies *)

\* A call whose handler has run is on a connection.
LEMMA RanOnConn ==
    ASSUME Shape, CallInv, Stream, call.pc # "idle", ran[call.id] = 1
    PROVE  call.conn \in Conns /\ StreamAfter
BY AlpcAssumption DEF Shape, CallInv, Stream, StreamAfter, HasData, Conns

\* How a call ends: with a failure, with its own answer, of which the server
\* has nothing left, or with what is left of a call that failed.
EndsWell(r) ==
    \/ r = "failed"
    \/ /\ r = "answered" /\ ran[call.id] = 1
       /\ \A n \in Conns : \A j \in 1 .. Len(srv[n].sendBuff) : ~Own(srv[n].sendBuff[j])
    \/ /\ r = "misread" /\ ran[call.id] = 0
       /\ \E d \in Calls : ran[d] = 1 /\ result[d] = "failed"

\* The chunk that a call copies when it completes the reply, and then does.
LEMMA CopiedOutcome ==
    ASSUME Shape, CallInv, Held, Stream, call.pc = "reply",
           NEW want \in 0 .. MaxReply - 1,
           call.got = <<>> => IsData(call.data) /\ want + 1 \in Sizes(call.data, MaxReply),
           call.got # <<>> => want = IF IsData(call.data) THEN call.want - 1 ELSE call.want,
           Copied(want)
    PROVE  \/ \E r : EndsWell(r) /\ Finish(r) /\ (r = "failed" => ran[call.id] = 0)
           \/ /\ want # 0
              /\ call' = [call EXCEPT !.pc = "send", !.want = want,
                                      !.got = IF IsData(call.data) THEN Append(call.got, call.data) ELSE call.got]
              /\ result' = result
<1> DEFINE got == IF IsData(call.data) THEN Append(call.got, call.data) ELSE call.got
<1>1. CASE want # 0
  BY <1>1 DEF Copied
<1>2. CASE want = 0
  <2>0. call.got \in Seq(ChunkType) /\ call.data \in ChunkType /\ call.id \in Calls /\ call.want \in Nat
    BY DEF Shape, CallType, CallInv
  <2>1. Finish(Outcome(got))
    BY <1>2 DEF Copied
  <2>2. IsData(call.data) /\ HasData
    <3>1. CASE call.got = <<>>
      BY <3>1 DEF HasData
    <3>2. CASE call.got # <<>>
      BY <1>2, <3>2 DEF HasData, CallInv
    <3> QED BY <3>1, <3>2
  <2>3. got = Append(call.got, call.data) /\ Len(got) = Len(call.got) + 1 /\ got[Len(got)] = call.data
        /\ \A j \in 1 .. Len(call.got) : got[j] = call.got[j]
    BY <2>0, <2>2
  <2>4. CASE ran[call.id] = 1
    <3>1. StreamAfter /\ call.conn \in Conns
      BY <2>4, RanOnConn
    <3>2. PICK k \in 1 .. MaxReply :
            /\ \A j \in 1 .. Len(call.got) : call.got[j] = Chunk(call.id, j, k)
            /\ call.got # <<>> => call.want = k - Len(call.got)
            /\ call.data = Chunk(call.id, Len(call.got) + 1, k)
            /\ \/ srv[call.conn].sendBuff = <<>>
               \/ Part(srv[call.conn].sendBuff, call.id, Len(call.got) + 1, k)
      BY <3>1, <2>2 DEF StreamAfter, Taken
    <3>3. call.data.k = Len(call.got) + 1 /\ call.data.of = k /\ call.data.call = call.id /\ call.data.ok
      BY <3>2 DEF Chunk
    <3>4. k = Len(call.got) + 1
      <4>1. CASE call.got = <<>>
        <5>1. call.data.k = 1
          BY <3>3, <4>1
        <5>2. Sizes(call.data, MaxReply) = {k}
          BY <5>1, <3>3 DEF Sizes
        <5> QED BY <4>1, <5>2, <1>2
      <4>2. CASE call.got # <<>>
        BY <4>2, <3>2, <1>2, <2>0, <2>2
      <4> QED BY <4>1, <4>2
    <3>5. \A j \in 1 .. Len(got) : got[j] = Chunk(call.id, j, k)
      BY <3>2, <3>4, <2>0, <2>3
    <3>6. Whole(got) /\ got[1].call = call.id /\ got[1].ok
      <4>1. Len(got) = k /\ 1 \in 1 .. Len(got)
        BY <3>4, <2>3
      <4>2. \A j \in 1 .. Len(got) : got[j].call = call.id /\ got[j].k = j /\ got[j].of = k /\ got[j].ok
        <5> HIDE DEF got
        <5> TAKE j \in 1 .. Len(got)
        <5>1. got[j] = Chunk(call.id, j, k)
          BY <3>5
        <5> QED BY <5>1, ChunkFields
      <4> HIDE DEF got
      <4> QED BY <4>1, <4>2 DEF Whole
    <3>7. Outcome(got) = "answered"
      BY <3>6 DEF Outcome
    <3>8. srv[call.conn].sendBuff = <<>>
      <4>1. srv[call.conn].sendBuff \in Seq(ChunkType)
        BY <3>1 DEF Shape, SrvType
      <4> QED BY <4>1, <3>2, <3>4 DEF Part
    <3>9. ASSUME NEW n \in Conns, NEW j \in 1 .. Len(srv[n].sendBuff) PROVE ~Own(srv[n].sendBuff[j])
      <4>1. CASE n = call.conn
        BY <4>1, <3>8
      <4>2. CASE n # call.conn
        BY <4>2, <2>2 DEF Held
      <4> QED BY <4>1, <4>2
    <3> QED BY <2>1, <2>4, <3>7, <3>9 DEF EndsWell
  <2>5. CASE ran[call.id] = 0
    <3>1. StreamBefore
      BY <2>5 DEF Stream, CallInv
    <3>2. CASE Lost(got[1])
      <4>1. got[1].call # call.id /\ got[1].call \in Calls /\ ran[got[1].call] = 1
            /\ result[got[1].call] = "failed"
        BY <3>2, <2>5 DEF Lost, ReplyChunk
      <4>2. Outcome(got) = "misread"
        BY <4>1 DEF Outcome
      <4> QED BY <4>1, <4>2, <2>1, <2>5 DEF EndsWell
    <3>3. CASE ~Lost(got[1])
      <4>1. call.got = <<>>
        <5> SUFFICES ASSUME call.got # <<>> PROVE FALSE
          OBVIOUS
        <5>1. 1 \in 1 .. Len(call.got)
          BY <2>0
        <5> QED BY <5>1, <3>1, <3>3, <2>3 DEF StreamBefore
      <4>2. Len(got) = 1 /\ got[1] = call.data
        BY <4>1, <2>3
      <4>3. call.data = Error(call.id)
        BY <4>2, <3>1, <3>3, <2>2 DEF StreamBefore
      <4>4. Whole(got) /\ got[1].call = call.id /\ ~got[1].ok
        <5> HIDE DEF got
        <5>1. got[1].call = call.id /\ got[1].k = 1 /\ got[1].of = 1 /\ ~got[1].ok
          <6>1. got[1] = Error(call.id)
            BY <4>2, <4>3
          <6> QED BY <6>1, ErrorFields
        <5> QED BY <4>2, <5>1 DEF Whole
      <4>5. Outcome(got) = "failed"
        BY <4>4 DEF Outcome
      <4> QED BY <4>5, <2>1, <2>5 DEF EndsWell
    <3> QED BY <3>2, <3>3
  <2> QED BY <2>4, <2>5 DEF Shape, CallInv
<1> QED BY <1>1, <1>2

\* Taking a chunk ends the call, or has it ask for the next one.
LEMMA TakeCases ==
    ASSUME Shape, CallInv, Held, Stream, TakeFirst \/ TakeMore
    PROVE  /\ call.pc = "reply" /\ call.got = <<>> => IsData(call.data)
           /\ UNCHANGED <<port, conns, dead, deaths, closed, msg, srv, announce, core, ran, skewed, overtaken>>
           /\ \/ \E r : EndsWell(r) /\ Finish(r) /\ (r = "failed" => ran[call.id] = 0)
              \/ \E want \in 1 .. MaxReply - 1 :
                   /\ call.got = <<>> => want + 1 \in Sizes(call.data, MaxReply)
                   /\ call.got # <<>> => want = IF IsData(call.data) THEN call.want - 1 ELSE call.want
                   /\ call' = [call EXCEPT !.pc = "send", !.want = want,
                                           !.got = IF IsData(call.data) THEN Append(call.got, call.data)
                                                   ELSE call.got]
                   /\ result' = result
<1> USE AlpcAssumption
<1>1. CASE TakeFirst
  <2>1. PICK size \in Sizes(call.data, MaxReply) \ {0} : Copied(size - 1)
    BY <1>1 DEF TakeFirst
  <2>2. size \in 1 .. MaxReply /\ IsData(call.data)
    BY <1>1, SizesRange DEF TakeFirst, Shape, CallType, CallInv
  <2>3. size - 1 \in 0 .. MaxReply - 1 /\ (size - 1) + 1 \in Sizes(call.data, MaxReply)
    BY <2>2
  <2>4. call.pc = "reply" /\ call.got = <<>> /\ call.sent = call.len
    BY <1>1 DEF TakeFirst
  <2>5. UNCHANGED <<port, conns, dead, deaths, closed, msg, srv, announce, core, ran, skewed, overtaken>>
    BY <1>1 DEF TakeFirst, serverVars
  <2> DEFINE w == size - 1
  <2>6. w \in 0 .. MaxReply - 1 /\ w + 1 \in Sizes(call.data, MaxReply) /\ Copied(w)
    BY <2>1, <2>3
  <2> HIDE DEF w
  <2>7. \/ \E r : EndsWell(r) /\ Finish(r) /\ (r = "failed" => ran[call.id] = 0)
        \/ /\ w # 0
           /\ call' = [call EXCEPT !.pc = "send", !.want = w,
                                   !.got = IF IsData(call.data) THEN Append(call.got, call.data) ELSE call.got]
           /\ result' = result
    BY <2>2, <2>4, <2>6, CopiedOutcome
  <2>8. w # 0 => w \in 1 .. MaxReply - 1
    BY <2>6
  <2> QED BY <2>2, <2>4, <2>5, <2>6, <2>7, <2>8
<1>2. CASE TakeMore
  <2> DEFINE w == IF IsData(call.data) THEN call.want - 1 ELSE call.want
  <2>1. call.pc = "reply" /\ call.got # <<>> /\ Copied(w)
    BY <1>2 DEF TakeMore
  <2>2. w \in 0 .. MaxReply - 1
    BY <2>1 DEF Shape, CallType, CallInv
  <2>3. UNCHANGED <<port, conns, dead, deaths, closed, msg, srv, announce, core, ran, skewed, overtaken>>
    BY <1>2 DEF TakeMore, serverVars
  <2> HIDE DEF w
  <2>7. \/ \E r : EndsWell(r) /\ Finish(r) /\ (r = "failed" => ran[call.id] = 0)
        \/ /\ w # 0
           /\ call' = [call EXCEPT !.pc = "send", !.want = w,
                                   !.got = IF IsData(call.data) THEN Append(call.got, call.data) ELSE call.got]
           /\ result' = result
    BY <2>1, <2>2, CopiedOutcome DEF w
  <2>8. w # 0 => w \in 1 .. MaxReply - 1
    BY <2>2
  <2> QED BY <2>1, <2>2, <2>3, <2>7, <2>8 DEF w
<1> QED BY <1>1, <1>2

\* A call that failed has failed, and a handler that has run has run.
LEMMA LostStays ==
    ASSUME Shape, CallInv, Buffers, Mail, Held, Stream, [Next]_vars, NEW c \in Calls
    PROVE  /\ result[c] = "failed" => result'[c] = "failed"
           /\ ran[c] = 1 => ran'[c] = 1
<1>1. CASE UNCHANGED <<result, ran>>
  BY <1>1
<1>2. ASSUME NEW r, Finish(r), call.pc # "idle", ran' = ran
      PROVE  result[c] = "failed" => result'[c] = "failed"
  BY <1>2 DEF Finish, CallInv, Shape
<1>3. ASSUME NEW n \in 1 .. MaxRequest, StartCall(n)
      PROVE  (result[c] = "failed" => result'[c] = "failed") /\ ran' = ran
  <2>1. PICK d \in NewCalls : \E r : result' = [result EXCEPT ![d] = r]
    BY <1>3 DEF StartCall
  <2> QED BY <1>3, <2>1 DEF StartCall, NewCalls, Shape, serverVars
<1>4. ASSUME NEW n \in Conns, Serve(n)
      PROVE  result' = result /\ (ran[c] = 1 => ran'[c] = 1)
  <2>1. result' = result
    BY <1>4, ServeCases
  <2>2. CASE Handles(n)
    <3>1. ran' = [ran EXCEPT ![msg[n].call] = @ + 1] /\ ran[msg[n].call] = 0
      BY <2>2 DEF Handles, Mail
    <3> QED BY <2>1, <3>1 DEF Shape
  <2>3. CASE ~Handles(n)
    BY <2>1, <2>3, <1>4, ServeCases DEF Continues, Ignores, Keeps, Refuses
  <2> QED BY <2>2, <2>3
<1>5. CASE SendFails \/ TakeAck \/ ReplyRefused \/ ReplyTooLong
  <2>1. ((Finish("failed") /\ call.pc # "idle") \/ result' = result) /\ ran' = ran
    BY <1>5 DEF SendFails, TakeAck, ReplyRefused, ReplyTooLong, serverVars
  <2> QED BY <1>2, <2>1
<1>6. CASE TakeFirst \/ TakeMore
  <2>1. ran' = ran /\ call.pc = "reply"
    BY <1>6 DEF TakeFirst, TakeMore, serverVars
  <2>2. (\E r : Finish(r)) \/ result' = result
    BY <1>6, TakeCases
  <2> QED BY <1>2, <2>1, <2>2
<1> QED BY <1>1, <1>3, <1>4, <1>5, <1>6
        DEF Next, ClientStep, ServerStep, Connect, Disconnect, SendChunk, Release, PortDisconnect,
            OnClient, Restart, clientVars, serverVars, vars

\* What is left of a call that failed stays that.
LEMMA LostKept ==
    ASSUME Shape, CallInv, Buffers, Mail, Held, Stream, [Next]_vars, NEW x, Lost(x)
    PROVE  Lost(x)'
BY LostStays DEF Lost, ReplyChunk

\* A call that ends leaves its chunks to a call that failed, or leaves none.
LEMMA FinishHeld ==
    ASSUME Shape, CallInv, Held, call.pc # "idle", NEW r, EndsWell(r), Finish(r), srv' = srv, ran' = ran
    PROVE  Held'
<1>0. call'.pc = "idle" /\ call.id \in Calls /\ result[call.id] = "open"
      /\ result' = [result EXCEPT ![call.id] = r]
  BY DEF Finish, Idle, CallInv
<1>1. \A c \in Calls : c # call.id => result'[c] = result[c]
  BY <1>0 DEF Shape
<1>2. result'[call.id] = r /\ r # "new"
  BY <1>0 DEF Shape, EndsWell
<1>3. \A c \in Calls : result'[c] = "new" => ran'[c] = 0
  BY <1>0, <1>1, <1>2 DEF Held
<1>4. ASSUME NEW n \in Conns, NEW j \in 1 .. Len(srv[n].sendBuff) PROVE Lost(srv[n].sendBuff[j])'
  <2> DEFINE x == srv[n].sendBuff[j]
  <2>1. Lost(x) \/ Own(x)
    BY DEF Held
  <2> SUFFICES ReplyChunk(x) /\ result'[x.call] = "failed"
    BY DEF Lost, ReplyChunk
  <2> HIDE DEF x
  <2>2. CASE Lost(x)
    BY <2>2, <1>0, <1>1 DEF Lost, ReplyChunk
  <2>3. CASE Own(x)
    <3>1. r = "failed"
      BY <2>3 DEF EndsWell, Own, ReplyChunk, x
    <3> QED BY <2>3, <3>1, <1>2 DEF Own
  <2> QED BY <2>1, <2>2, <2>3
<1>5. \A n \in Conns : \A j \in 1 .. Len(srv'[n].sendBuff) : ~Own(srv[n].sendBuff[j])'
  BY <1>0 DEF Own
<1> QED BY <1>3, <1>4, <1>5 DEF Held

\* A call that goes on and has no data keeps the chunks where they are.
LEMMA GoOnHeld ==
    ASSUME Shape, CallInv, Held, call.pc # "idle", call'.pc # "idle", call'.id = call.id,
           ~HasData',
           \/ call'.conn = call.conn
           \/ ran[call.id] = 0
           \/ srv[call'.conn].sendBuff = <<>>,
           result' = result, srv' = srv, ran' = ran
    PROVE  Held'
<1>1. ASSUME NEW x PROVE (Own(x)' <=> Own(x)) /\ (Lost(x)' <=> Lost(x))
  BY DEF Own, Lost, ReplyChunk
<1>2. ASSUME NEW n \in Conns, NEW j \in 1 .. Len(srv[n].sendBuff), Own(srv[n].sendBuff[j]), n # call'.conn
      PROVE  srv[call'.conn].sendBuff = <<>>
  <2>1. ran[call.id] = 1
    BY <1>2 DEF Own, ReplyChunk
  <2> QED BY <2>1, <1>2 DEF Held
<1>3. \A n \in Conns : \A j \in 1 .. Len(srv[n].sendBuff) :
         Lost(srv[n].sendBuff[j])' \/ Own(srv[n].sendBuff[j])'
  BY <1>1 DEF Held
<1> QED BY <1>1, <1>2, <1>3 DEF Held

\* Whose message a server thread takes: the call's, or that of one that failed.
LEMMA ServeWhom ==
    ASSUME Shape, Buffers, Mail, NEW n \in Conns, Serve(n)
    PROVE  \/ /\ OnItsWay(n)
              /\ n = call.conn
           \/ /\ LeftBehind(n)
              /\ call' = call /\ n # port /\ (call.pc # "idle" => n # call.conn)
<1>1. msg[n] # NoData
  BY ServeCases
<1>2. CASE OnItsWay(n)
  BY <1>2 DEF OnItsWay
<1>3. CASE LeftBehind(n)
  <2>1. call.pc # "idle" => call.conn # n
    BY <1>3 DEF LeftBehind
  <2>2. \E d : Delivers(n, d)
    BY ServeCases DEF Continues, Ignores, Keeps, Handles, Refuses
  <2>3. call' = call
    BY <2>1, <2>2 DEF Delivers
  <2>4. n # port
    BY <1>3 DEF LeftBehind, Shape
  <2> QED BY <1>3, <2>1, <2>3, <2>4
<1> QED BY <1>1, <1>2, <1>3 DEF Mail

\* What the caller has afterwards, if it waits on this connection.
LEMMA DeliversCall ==
    ASSUME Shape, NEW n \in Conns, NEW d, Delivers(n, d), call.pc = "wait", call.conn = n
    PROVE  /\ call'.pc = "reply" /\ call'.data = d
           /\ call'.id = call.id /\ call'.len = call.len /\ call'.sent = call.sent
           /\ call'.conn = call.conn /\ call'.got = call.got /\ call'.want = call.want
BY DEF Delivers, Shape, CallType

\* What the server has of its replies afterwards.
LEMMA ServeBuffers ==
    ASSUME Shape, Buffers, NEW n \in Conns
    PROVE  /\ Continues(n) =>
                /\ srv[n].sendBuff # <<>> /\ srv[n].sendBuff \in Seq(ChunkType)
                /\ srv'[n].sendBuff = Tail(srv[n].sendBuff)
                /\ srv'[n].recvBuff = srv[n].recvBuff
                /\ \A o \in Conns : o # n => srv'[o] = srv[o]
           /\ Ignores(n) => srv[n].sendBuff = <<>> /\ srv' = srv
           /\ Keeps(n) =>
                /\ srv[n].sendBuff = <<>> /\ srv'[n].sendBuff = <<>>
                /\ srv'[n].recvBuff = Append(srv[n].recvBuff, msg[n])
                /\ srv'[n].total \in Totals(n) /\ Len(srv[n].recvBuff) + 1 < srv'[n].total
                /\ \A o \in Conns : o # n => srv'[o] = srv[o]
           /\ Handles(n) =>
                /\ srv[n].sendBuff = <<>>
                /\ srv'[n].recvBuff = <<>>
                /\ \A o \in Conns : o # n => srv'[o] = srv[o]
                /\ \E k \in 1 .. MaxReply : /\ srv'[n].sendBuff = Tail(ReplyOf(msg[n].call, k))
                                            /\ Delivers(n, Chunk(msg[n].call, 1, k))
           /\ Refuses(n) =>
                /\ srv[n].sendBuff = <<>> /\ srv'[n].sendBuff = <<>> /\ srv'[n].recvBuff = <<>>
                /\ \A o \in Conns : o # n => srv'[o] = srv[o]
<1>0. srv[n] \in SrvType /\ (srv[n].replying <=> srv[n].sendBuff # <<>>) /\ srv \in [Conns -> SrvType]
  BY DEF Shape, Buffers
<1>1. ASSUME Continues(n)
      PROVE  /\ srv[n].sendBuff # <<>> /\ srv[n].sendBuff \in Seq(ChunkType)
             /\ srv'[n].sendBuff = Tail(srv[n].sendBuff)
             /\ srv'[n].recvBuff = srv[n].recvBuff
             /\ \A o \in Conns : o # n => srv'[o] = srv[o]
  <2>1. srv' = [srv EXCEPT ![n] = ReplyOnce(srv[n])] /\ srv[n].replying
    BY <1>1 DEF Continues
  <2>2. ReplyOnce(srv[n]).sendBuff = Tail(srv[n].sendBuff) /\ ReplyOnce(srv[n]).recvBuff = srv[n].recvBuff
    BY <1>0 DEF ReplyOnce, SrvType
  <2>3. srv[n].sendBuff \in Seq(ChunkType)
    BY <1>0 DEF SrvType
  <2> QED BY <2>1, <2>2, <2>3, <1>0
<1>2. ASSUME Ignores(n) PROVE srv[n].sendBuff = <<>> /\ srv' = srv
  BY <1>0, <1>2 DEF Ignores
<1>3. ASSUME Keeps(n)
      PROVE  /\ srv[n].sendBuff = <<>> /\ srv'[n].sendBuff = <<>>
             /\ srv'[n].recvBuff = Append(srv[n].recvBuff, msg[n])
             /\ srv'[n].total \in Totals(n) /\ Len(srv[n].recvBuff) + 1 < srv'[n].total
             /\ \A o \in Conns : o # n => srv'[o] = srv[o]
  <2>1. PICK t \in Totals(n) :
          /\ Len(srv[n].recvBuff) + 1 < t
          /\ srv' = [srv EXCEPT ![n] = [srv[n] EXCEPT !.recvBuff = Append(srv[n].recvBuff, msg[n]),
                                                      !.total = t]]
    BY <1>3 DEF Keeps
  <2> DEFINE s == [srv[n] EXCEPT !.recvBuff = Append(srv[n].recvBuff, msg[n]), !.total = t]
  <2>2. s.sendBuff = srv[n].sendBuff /\ s.recvBuff = Append(srv[n].recvBuff, msg[n]) /\ s.total = t
    BY <1>0 DEF SrvType
  <2>3. srv[n].sendBuff = <<>>
    BY <1>0, <1>3 DEF Keeps
  <2>4. srv'[n] = s /\ \A o \in Conns : o # n => srv'[o] = srv[o]
    BY <1>0, <2>1
  <2> HIDE DEF s
  <2> QED BY <2>1, <2>2, <2>3, <2>4
<1>4. ASSUME Handles(n)
      PROVE  /\ srv[n].sendBuff = <<>>
             /\ srv'[n].recvBuff = <<>>
             /\ \A o \in Conns : o # n => srv'[o] = srv[o]
             /\ \E k \in 1 .. MaxReply : /\ srv'[n].sendBuff = Tail(ReplyOf(msg[n].call, k))
                                         /\ Delivers(n, Chunk(msg[n].call, 1, k))
  <2>1. PICK k \in 1 .. MaxReply :
          /\ srv' = [srv EXCEPT ![n] = [srv[n] EXCEPT !.recvBuff = <<>>,
                                                      !.sendBuff = Tail(ReplyOf(msg[n].call, k)),
                                                      !.replying = (k # 1)]]
          /\ Delivers(n, Chunk(msg[n].call, 1, k))
    BY <1>4 DEF Handles
  <2> DEFINE s == [srv[n] EXCEPT !.recvBuff = <<>>, !.sendBuff = Tail(ReplyOf(msg[n].call, k)),
                                 !.replying = (k # 1)]
  <2>2. s.sendBuff = Tail(ReplyOf(msg[n].call, k)) /\ s.recvBuff = <<>>
    BY <1>0 DEF SrvType
  <2>3. srv[n].sendBuff = <<>>
    BY <1>0, <1>4 DEF Handles
  <2>4. srv'[n] = s /\ \A o \in Conns : o # n => srv'[o] = srv[o]
    BY <1>0, <2>1
  <2> HIDE DEF s
  <2> QED BY <2>1, <2>2, <2>3, <2>4
<1>5. ASSUME Refuses(n)
      PROVE  /\ srv[n].sendBuff = <<>> /\ srv'[n].sendBuff = <<>> /\ srv'[n].recvBuff = <<>>
             /\ \A o \in Conns : o # n => srv'[o] = srv[o]
  <2> DEFINE s == [srv[n] EXCEPT !.recvBuff = <<>>]
  <2>1. s.sendBuff = srv[n].sendBuff /\ s.recvBuff = <<>>
    BY <1>0 DEF SrvType
  <2>2. srv' = [srv EXCEPT ![n] = s] /\ srv[n].sendBuff = <<>>
    BY <1>0, <1>5 DEF Refuses
  <2>3. srv'[n] = s /\ \A o \in Conns : o # n => srv'[o] = srv[o]
    BY <1>0, <2>2
  <2> HIDE DEF s
  <2> QED BY <2>1, <2>2, <2>3
<1> QED BY <1>1, <1>2, <1>3, <1>4, <1>5

\* The chunks that the server holds after a message was taken.
LEMMA ServeHeld ==
    ASSUME Shape, CallInv, Buffers, Mail, Held, Stream, NEW n \in Conns, Serve(n)
    PROVE  Held'
<1> USE AlpcAssumption
<1>0. result' = result /\ msg[n] # NoData
  BY ServeCases
<1>1. /\ call.pc # "idle" <=> call'.pc # "idle"
      /\ call'.id = call.id /\ call'.conn = call.conn
  <2>1. CASE OnItsWay(n)
    <3>1. \E d : Delivers(n, d)
      BY ServeCases DEF Continues, Ignores, Keeps, Handles, Refuses
    <3> QED BY <3>1, <2>1, DeliversCall DEF OnItsWay
  <2>2. CASE call' = call
    BY <2>2
  <2> QED BY <2>1, <2>2, ServeWhom
<1>2. CASE ran' = ran /\ ~Continues(n)
  <2>1. \A o \in Conns : srv'[o].sendBuff = srv[o].sendBuff
    <3>1. ~Handles(n)
      <4> SUFFICES ASSUME Handles(n) PROVE FALSE
        OBVIOUS
      <4>1. msg[n].call \in Calls /\ ran[msg[n].call] = 0 /\ ran = [ran EXCEPT ![msg[n].call] = @ + 1]
        BY <1>2 DEF Handles, Mail, Sized
      <4>2. ran[msg[n].call] = ran[msg[n].call] + 1
        BY <4>1 DEF Shape
      <4> QED BY <4>1, <4>2
    <3>2. Ignores(n) \/ Keeps(n) \/ Refuses(n)
      BY <1>2, <3>1, ServeCases
    <3>3. CASE Ignores(n)
      BY <3>3, ServeBuffers
    <3>4. CASE Keeps(n) \/ Refuses(n)
      BY <3>4, ServeBuffers
    <3> QED BY <3>2, <3>3, <3>4
  <2>2. ASSUME NEW x PROVE (Own(x)' <=> Own(x)) /\ (Lost(x)' <=> Lost(x))
    BY <1>0, <1>1, <1>2 DEF Own, Lost, ReplyChunk
  <2>3. ASSUME NEW o \in Conns, NEW j \in 1 .. Len(srv[o].sendBuff), Own(srv[o].sendBuff[j]), o # call.conn
        PROVE  ~HasData' /\ srv'[call.conn].sendBuff = <<>>
    <3>1. ~HasData /\ srv[call.conn].sendBuff = <<>> /\ ran[call.id] = 1 /\ call.pc # "idle"
      BY <2>3 DEF Held, Own, ReplyChunk
    <3>2. call.conn \in Conns
      BY <3>1, RanOnConn
    <3>3. ~HasData'
      <4>1. CASE call' = call
        BY <3>1, <4>1 DEF HasData
      <4>2. CASE OnItsWay(n)
        <5>1. ~IsData(msg[n])
          BY <4>2, <3>1, NotRunYet DEF OnItsWay
        <5>2. Ignores(n)
          BY <5>1, <1>2, ServeCases DEF Keeps, Handles, Refuses
        <5>3. call'.data = NoData
          BY <5>2, <4>2, DeliversCall DEF OnItsWay, Ignores
        <5> QED BY <5>3, ChunkTypes DEF HasData
      <4> QED BY <4>1, <4>2, ServeWhom
    <3> QED BY <3>1, <3>2, <3>3, <2>1
  <2>4. ASSUME NEW o \in Conns, NEW j \in 1 .. Len(srv'[o].sendBuff)
        PROVE  /\ Lost(srv[o].sendBuff[j])' \/ Own(srv[o].sendBuff[j])'
               /\ Own(srv[o].sendBuff[j])' => Own(srv[o].sendBuff[j])
    BY <2>1, <2>2 DEF Held
  <2>5. \A c \in Calls : result'[c] = "new" => ran'[c] = 0
    BY <1>0, <1>2 DEF Held
  <2> QED BY <1>1, <2>1, <2>3, <2>4, <2>5 DEF Held
<1>3. CASE Continues(n)
  <2>0. ran' = ran
    BY <1>3 DEF Continues
  <2>1. /\ srv[n].sendBuff # <<>> /\ srv[n].sendBuff \in Seq(ChunkType)
        /\ srv'[n].sendBuff = Tail(srv[n].sendBuff)
        /\ \A o \in Conns : o # n => srv'[o] = srv[o]
    BY <1>3, ServeBuffers
  <2>2. ASSUME NEW x PROVE (Own(x)' <=> Own(x)) /\ (Lost(x)' <=> Lost(x))
    BY <1>0, <1>1, <2>0 DEF Own, Lost, ReplyChunk
  <2>3. ASSUME NEW o \in Conns, NEW j \in 1 .. Len(srv'[o].sendBuff)
        PROVE  \E i \in 1 .. Len(srv[o].sendBuff) : srv'[o].sendBuff[j] = srv[o].sendBuff[i]
    <3>1. CASE o = n
      <4>1. j + 1 \in 1 .. Len(srv[n].sendBuff) /\ Tail(srv[n].sendBuff)[j] = srv[n].sendBuff[j + 1]
        BY <2>1, <2>3, <3>1, TailElements
      <4> QED BY <4>1, <2>1, <3>1
    <3>2. CASE o # n
      BY <2>1, <3>2
    <3> QED BY <3>1, <3>2
  <2>4. ASSUME NEW o \in Conns, NEW j \in 1 .. Len(srv[o].sendBuff), Own(srv[o].sendBuff[j]), o # call.conn
        PROVE  ~HasData' /\ srv'[call.conn].sendBuff = <<>>
    <3>1. ~HasData /\ srv[call.conn].sendBuff = <<>> /\ ran[call.id] = 1 /\ call.pc # "idle"
      BY <2>4 DEF Held, Own, ReplyChunk
    <3>2. call.conn \in Conns /\ call.conn # n
      BY <3>1, <2>1, RanOnConn
    <3>3. call' = call
      BY <3>2, ServeWhom
    <3> QED BY <3>1, <3>2, <3>3, <2>1 DEF HasData
  <2>5. \A c \in Calls : result'[c] = "new" => ran'[c] = 0
    BY <1>0, <2>0 DEF Held
  <2>6. ASSUME NEW o \in Conns, NEW j \in 1 .. Len(srv'[o].sendBuff)
        PROVE  /\ Lost(srv[o].sendBuff[j])' \/ Own(srv[o].sendBuff[j])'
               /\ Own(srv[o].sendBuff[j])' /\ o # call'.conn => ~HasData' /\ srv'[call'.conn].sendBuff = <<>>
    <3>1. PICK i \in 1 .. Len(srv[o].sendBuff) : srv'[o].sendBuff[j] = srv[o].sendBuff[i]
      BY <2>3
    <3> DEFINE x == srv[o].sendBuff[i]
    <3>2. Lost(x) \/ Own(x)
      BY DEF Held
    <3>3. /\ Lost(srv[o].sendBuff[j])' <=> Lost(x)
          /\ Own(srv[o].sendBuff[j])' <=> Own(x)
      BY <3>1, <1>0, <1>1, <2>0 DEF Own, Lost, ReplyChunk
    <3> QED BY <3>2, <3>3, <2>4, <1>1
  <2> QED BY <2>5, <2>6 DEF Held
<1>4. CASE Handles(n)
  <2> DEFINE c == msg[n].call
  <2>1. c \in Calls /\ ran[c] = 0 /\ ran' = [ran EXCEPT ![c] = @ + 1] /\ result[c] # "new"
    BY <1>4, <1>0 DEF Handles, Mail, Sized, OnItsWay, LeftBehind, CallInv
  <2>2. ran'[c] = 1 /\ \A d \in Calls : d # c => ran'[d] = ran[d]
    BY <2>1 DEF Shape
  <2>3. PICK k \in 1 .. MaxReply : srv'[n].sendBuff = Tail(ReplyOf(c, k))
    BY <1>4, ServeBuffers
  <2>4. \A o \in Conns : o # n => srv'[o] = srv[o]
    BY <1>4, ServeBuffers
  <2>5. (OnItsWay(n) /\ call.pc # "idle" /\ call.id = c /\ call.conn = n)
        \/ (result[c] = "failed" /\ call' = call /\ (call.pc # "idle" => n # call.conn /\ call.id # c))
    BY ServeWhom DEF OnItsWay, LeftBehind
  <2>6. \A d \in Calls : result'[d] = "new" => ran'[d] = 0
    BY <1>0, <2>1, <2>2 DEF Held
  <2>7. ASSUME NEW j \in 1 .. Len(srv'[n].sendBuff)
        PROVE  /\ srv'[n].sendBuff[j].call = c
               /\ ReplyChunk(srv[n].sendBuff[j])'
    <3>1. k \in Nat \ {0} /\ Len(Tail(ReplyOf(c, k))) = k - 1
          /\ \A i \in 1 .. k - 1 : Tail(ReplyOf(c, k))[i] = Chunk(c, i + 1, k)
      BY ReplyParts
    <3>2. srv'[n].sendBuff[j] = Chunk(c, j + 1, k) /\ j \in Nat
      BY <2>3, <2>7, <3>1
    <3> QED BY <3>2, <2>1, <2>2, ChunkFields DEF ReplyChunk
  <2> HIDE DEF c
  <2>8. ASSUME NEW j \in 1 .. Len(srv'[n].sendBuff)
        PROVE  /\ Lost(srv[n].sendBuff[j])' \/ Own(srv[n].sendBuff[j])'
               /\ ~(Own(srv[n].sendBuff[j])' /\ n # call'.conn)
    BY <2>5, <2>7, <1>0, <1>1 DEF Lost, Own
  <2>9. ASSUME NEW o \in Conns, o # n, NEW j \in 1 .. Len(srv'[o].sendBuff)
        PROVE  /\ Lost(srv[o].sendBuff[j])' \/ Own(srv[o].sendBuff[j])'
               /\ Own(srv[o].sendBuff[j])' /\ o # call'.conn => ~HasData' /\ srv'[call'.conn].sendBuff = <<>>
    <3> DEFINE x == srv[o].sendBuff[j]
    <3>1. srv'[o] = srv[o] /\ (Lost(x) \/ Own(x))
      BY <2>4, <2>9 DEF Held
    <3>2. x.call # c /\ ReplyChunk(x)
      BY <3>1, <2>1 DEF Lost, Own, ReplyChunk
    <3>3. (Lost(srv[o].sendBuff[j])' <=> Lost(x)) /\ (Own(srv[o].sendBuff[j])' <=> Own(x))
      BY <3>1, <3>2, <2>1, <2>2, <1>0, <1>1 DEF Lost, Own, ReplyChunk
    <3>4. ASSUME Own(x), o # call.conn PROVE ~HasData' /\ srv'[call.conn].sendBuff = <<>>
      <4>1. ~HasData /\ srv[call.conn].sendBuff = <<>> /\ ran[call.id] = 1 /\ call.pc # "idle"
            /\ call.id # c
        BY <2>1, <2>9, <3>1, <3>2, <3>4 DEF Held, Own, ReplyChunk
      <4>2. call.conn \in Conns /\ call' = call /\ call.conn # n
        BY <4>1, <2>5, RanOnConn
      <4> QED BY <4>1, <4>2, <2>4 DEF HasData
    <3> QED BY <3>1, <3>3, <3>4, <1>1
  <2> QED BY <2>6, <2>8, <2>9 DEF Held
<1>5. (ran' = ran /\ ~Continues(n)) \/ Continues(n) \/ Handles(n)
  BY ServeCases DEF Ignores, Keeps, Refuses
<1> QED BY <1>2, <1>3, <1>4, <1>5

\* A server without replies holds nothing.
LEMMA NoneHeld ==
    ASSUME Held, \A n \in Conns : srv'[n].sendBuff \in {<<>>, srv[n].sendBuff},
           UNCHANGED <<call, result, ran>>,
           call.conn \in Conns => srv'[call.conn].sendBuff \in {<<>>, srv[call.conn].sendBuff},
           call.conn \notin Conns => call.pc = "idle" \/ ran[call.id] = 0
    PROVE  Held'
<1>1. ASSUME NEW x PROVE (Own(x)' <=> Own(x)) /\ (Lost(x)' <=> Lost(x))
  BY DEF Own, Lost, ReplyChunk
<1>2. ASSUME NEW n \in Conns, NEW j \in 1 .. Len(srv'[n].sendBuff)
      PROVE  srv'[n].sendBuff = srv[n].sendBuff
  BY <1>2
<1>3. ASSUME NEW n \in Conns, NEW j \in 1 .. Len(srv'[n].sendBuff)
      PROVE  /\ Lost(srv[n].sendBuff[j])' \/ Own(srv[n].sendBuff[j])'
             /\ Own(srv[n].sendBuff[j])' /\ n # call'.conn => ~HasData' /\ srv'[call'.conn].sendBuff = <<>>
  <2> DEFINE x == srv[n].sendBuff[j]
  <2>1. srv'[n].sendBuff = srv[n].sendBuff /\ (Lost(x) \/ Own(x))
    BY <1>2 DEF Held
  <2>2. (Lost(srv[n].sendBuff[j])' <=> Lost(x)) /\ (Own(srv[n].sendBuff[j])' <=> Own(x))
    BY <2>1 DEF Own, Lost, ReplyChunk
  <2>3. ASSUME Own(x), n # call.conn PROVE ~HasData' /\ srv'[call.conn].sendBuff = <<>>
    <3>1. ~HasData /\ srv[call.conn].sendBuff = <<>>
      BY <2>1, <2>3 DEF Held
    <3>2. call.conn \in Conns
      BY <2>3 DEF Own, ReplyChunk
    <3> QED BY <3>1, <3>2 DEF HasData
  <2> QED BY <2>1, <2>2, <2>3
<1> QED BY <1>3 DEF Held

\* Every step keeps what is said of the replies that the server holds.
LEMMA HeldStep ==
    Shape /\ CallInv /\ Buffers /\ Mail /\ Held /\ Fresh /\ Stream /\ [Next]_vars => Held'
<1> SUFFICES ASSUME Shape, CallInv, Buffers, Mail, Held, Fresh, Stream, [Next]_vars PROVE Held'
  OBVIOUS
<1> USE AlpcAssumption
<1>0. call.conn \notin Conns => call.pc = "idle" \/ ran[call.id] = 0
  BY RanOnConn DEF Shape, CallInv
<1>1. CASE Connect
  <2>1. conns + 1 \in Conns /\ srv' = [srv EXCEPT ![conns + 1] = NewClient] /\ NewClient.sendBuff = <<>>
        /\ UNCHANGED <<call, result, ran>>
    BY <1>1 DEF Connect, Shape, Conns, NewClient
  <2>2. \A n \in Conns : srv'[n].sendBuff \in {<<>>, srv[n].sendBuff}
    BY <2>1 DEF Shape
  <2> QED BY <1>0, <2>1, <2>2, NoneHeld
<1>2. ASSUME NEW n \in Conns, PortDisconnect(n) PROVE Held'
  <2>1. srv' = [srv EXCEPT ![n] = [srv[n] EXCEPT !.here = FALSE]] /\ UNCHANGED <<call, result, ran>>
    BY <1>2 DEF PortDisconnect, clientVars
  <2>2. [srv[n] EXCEPT !.here = FALSE].sendBuff = srv[n].sendBuff
    BY DEF Shape, SrvType
  <2>3. \A o \in Conns : srv'[o].sendBuff \in {<<>>, srv[o].sendBuff}
    BY <2>1, <2>2 DEF Shape
  <2> QED BY <1>0, <2>1, <2>3, NoneHeld
<1>3. CASE Restart
  <2>1. UNCHANGED <<call, result, ran>> /\ \A n \in Conns : srv'[n].sendBuff = <<>>
    BY <1>3 DEF Restart, NewClient, clientVars
  <2> QED BY <1>0, <2>1, NoneHeld
<1>4. ASSUME NEW n \in Conns, Serve(n) PROVE Held'
  BY <1>4, ServeHeld
<1>5. ASSUME NEW m \in 1 .. MaxRequest, StartCall(m) PROVE Held'
  <2>1. PICK c \in NewCalls :
          IF port = 0
          THEN call' = call /\ result' = [result EXCEPT ![c] = "failed"]
          ELSE /\ call' = [Idle EXCEPT !.pc = "send", !.id = c, !.len = m]
               /\ result' = [result EXCEPT ![c] = "open"]
    BY <1>5 DEF StartCall
  <2>2. c \in Calls /\ result[c] = "new" /\ ran[c] = 0
    BY DEF NewCalls, Held
  <2>3. call.pc = "idle" /\ srv' = srv /\ ran' = ran
    BY <1>5 DEF StartCall, serverVars
  <2>4. \A d \in Calls : result'[d] = "new" => ran'[d] = 0
    BY <2>1, <2>2, <2>3 DEF Held, Shape
  <2>5. ASSUME NEW n \in Conns, NEW j \in 1 .. Len(srv'[n].sendBuff)
        PROVE  Lost(srv[n].sendBuff[j])' /\ ~Own(srv[n].sendBuff[j])'
    <3> DEFINE x == srv[n].sendBuff[j]
    <3>1. Lost(x)
      BY <2>3 DEF Held, Own
    <3>2. Lost(srv[n].sendBuff[j])'
      <4>1. result'[x.call] = "failed" /\ ran'[x.call] = 1
        BY <3>1, LostStays DEF Lost, ReplyChunk
      <4> QED BY <3>1, <4>1, <2>3 DEF Lost, ReplyChunk
    <3>3. x.call # c /\ srv'[n].sendBuff[j] = x
      BY <3>1, <2>2, <2>3 DEF Lost, ReplyChunk
    <3>4. call'.pc # "idle" => call'.id = c
      BY <2>1, <2>3 DEF Idle
    <3> QED BY <3>2, <3>3, <3>4, <2>3 DEF Own
  <2> QED BY <2>4, <2>5 DEF Held
<1>6. CASE SendChunk
  <2>1. /\ call'.pc = "wait" /\ call'.conn = port /\ call'.id = call.id
        /\ call.pc = "send" /\ UNCHANGED <<srv, ran, result>> /\ port # 0
    BY <1>6 DEF SendChunk, Shape, CallType, serverVars, Broken
  <2>2. ~HasData'
    BY <2>1 DEF HasData
  <2>3. call.conn = port \/ ran[call.id] = 0 \/ srv[port].sendBuff = <<>>
    <3>1. CASE call.conn = 0
      <4>1. call.got = <<>>
        BY <2>1, <3>1 DEF CallInv
      <4> QED BY <4>1, <2>1, NotRunYet
    <3>2. CASE call.conn # 0
      BY <3>2, <2>1 DEF Fresh
    <3> QED BY <3>1, <3>2
  <2> QED BY <2>1, <2>2, <2>3, GoOnHeld
<1>7. CASE SendFails \/ ReplyTooLong \/ ReplyRefused \/ (TakeAck /\ Finish("failed"))
  <2>1. Finish("failed") /\ call.pc # "idle" /\ srv' = srv /\ ran' = ran
    BY <1>7 DEF SendFails, ReplyTooLong, ReplyRefused, TakeAck, serverVars
  <2>2. EndsWell("failed")
    BY DEF EndsWell
  <2> QED BY <2>1, <2>2, FinishHeld
<1>8. CASE TakeAck /\ ~Finish("failed")
  <2>1. call' = [call EXCEPT !.pc = "send"] /\ call.pc = "reply" /\ UNCHANGED <<srv, result, ran>>
    BY <1>8 DEF TakeAck, serverVars
  <2>2. call'.pc = "send" /\ call'.id = call.id /\ call'.conn = call.conn
    BY <2>1 DEF Shape, CallType
  <2>3. ~HasData'
    BY <2>2 DEF HasData
  <2> QED BY <2>1, <2>2, <2>3, GoOnHeld
<1>9. CASE TakeFirst \/ TakeMore
  <2>1. UNCHANGED <<srv, ran>> /\ call.pc = "reply"
    BY <1>9 DEF TakeFirst, TakeMore, serverVars
  <2>2. CASE \E r : EndsWell(r) /\ Finish(r)
    BY <2>1, <2>2, FinishHeld
  <2>3. CASE ~\E r : EndsWell(r) /\ Finish(r)
    <3>1. PICK want, got : call' = [call EXCEPT !.pc = "send", !.want = want, !.got = got] /\ result' = result
      BY <1>9, <2>3, TakeCases
    <3>2. call'.pc = "send" /\ call'.id = call.id /\ call'.conn = call.conn
      BY <3>1 DEF Shape, CallType
    <3>3. ~HasData'
      BY <3>2 DEF HasData
    <3> QED BY <2>1, <3>1, <3>2, <3>3, GoOnHeld
  <2> QED BY <2>2, <2>3
<1>10. CASE UNCHANGED <<call, srv, result, ran>>
  BY <1>0, <1>10, NoneHeld
<1> QED BY <1>1, <1>2, <1>3, <1>4, <1>5, <1>6, <1>7, <1>8, <1>9, <1>10
        DEF Next, ClientStep, ServerStep, Disconnect, Release, OnClient, clientVars, serverVars, vars

\* A connection taken up within a call has seen nothing until it is used.
LEMMA FreshStep ==
    Shape /\ CallInv /\ Buffers /\ Mail /\ Held /\ Fresh /\ Stream /\ [Next]_vars => Fresh'
<1> SUFFICES ASSUME Shape, CallInv, Buffers, Mail, Held, Fresh, Stream, [Next]_vars,
                    call'.conn # 0, port' \notin {0, call'.conn}
             PROVE  srv'[port'].sendBuff = <<>>
  BY DEF Fresh
<1> USE AlpcAssumption
<1>1. CASE Connect
  <2>1. conns + 1 \in Conns /\ srv' = [srv EXCEPT ![conns + 1] = NewClient] /\ NewClient.sendBuff = <<>>
        /\ port' = conns + 1
    BY <1>1 DEF Connect, Shape, Conns, NewClient
  <2> QED BY <2>1 DEF Shape
<1>2. ASSUME NEW n \in Conns, PortDisconnect(n) PROVE srv'[port'].sendBuff = <<>>
  <2>1. srv' = [srv EXCEPT ![n] = [srv[n] EXCEPT !.here = FALSE]] /\ UNCHANGED <<call, port>>
        /\ n \in closed
    BY <1>2 DEF PortDisconnect, clientVars
  <2>2. n # port /\ port \in Conns
    BY <2>1 DEF Shape, Conns
  <2> QED BY <2>1, <2>2 DEF Shape, Fresh
<1>3. CASE Restart
  <2>1. UNCHANGED port /\ \A n \in Conns : srv'[n].sendBuff = <<>>
    BY <1>3 DEF Restart, NewClient, clientVars
  <2>2. port \in Conns
    BY <2>1 DEF Shape, Conns
  <2> QED BY <2>1, <2>2
<1>4. ASSUME NEW n \in Conns, Serve(n) PROVE srv'[port'].sendBuff = <<>>
  <2>0. port' = port /\ port \in Conns
    BY <1>4, ServeCases DEF Shape, Conns
  <2>1. call'.conn = call.conn
    <3>1. \E d : Delivers(n, d)
      BY <1>4, ServeCases DEF Continues, Ignores, Keeps, Handles, Refuses
    <3> QED BY <3>1 DEF Delivers, Shape, CallType
  <2>2. n # port
    BY <1>4, <2>0, <2>1, ServeWhom
  <2>3. srv'[port] = srv[port]
    BY <1>4, <2>0, <2>2, ServeCases, ServeBuffers
  <2> QED BY <2>0, <2>1, <2>3 DEF Fresh
<1>5. ASSUME NEW m \in 1 .. MaxRequest, StartCall(m) PROVE srv'[port'].sendBuff = <<>>
  BY <1>5 DEF StartCall, Idle, CallInv
<1>6. CASE SendChunk
  BY <1>6 DEF SendChunk, Shape, CallType
<1>7. CASE SendFails \/ ReplyTooLong \/ ReplyRefused \/ TakeAck \/ TakeFirst \/ TakeMore
  <2>1. call'.conn \in {0, call.conn}
    <3>1. CASE call' = Idle
      BY <3>1 DEF Idle
    <3>2. CASE call' # Idle /\ TakeAck
      BY <3>2 DEF TakeAck, Finish, Shape, CallType
    <3>3. CASE call' # Idle /\ (TakeFirst \/ TakeMore)
      <4>1. PICK want, got : call' = [call EXCEPT !.pc = "send", !.want = want, !.got = got]
        BY <3>3, TakeCases DEF Finish
      <4> QED BY <4>1 DEF Shape, CallType
    <3> QED BY <1>7, <3>1, <3>2, <3>3 DEF SendFails, ReplyTooLong, ReplyRefused, Finish
  <2>2. srv' = srv /\ port' \in {0, port}
    BY <1>7 DEF SendFails, ReplyTooLong, ReplyRefused, TakeAck, TakeFirst, TakeMore, ClosePort, serverVars
  <2> QED BY <2>1, <2>2 DEF Fresh
<1>8. CASE call' = call /\ srv' = srv /\ port' \in {0, port}
  BY <1>8 DEF Fresh
<1> QED BY <1>1, <1>2, <1>3, <1>4, <1>5, <1>6, <1>7, <1>8
        DEF Next, ClientStep, ServerStep, Disconnect, ClosePort, Release, OnClient, clientVars, serverVars, vars

-----------------------------------------------------------------------------
(* What the call has of its reply *)

\* What is left of a reply without its next chunk.
LEMMA PartTail ==
    ASSUME NEW s \in Seq(ChunkType), s # <<>>, NEW c, NEW got \in Seq(ChunkType), NEW k \in Nat,
           Part(s, c, Len(got), k)
    PROVE  Part(Tail(s), c, Len(got) + 1, k)
<1> DEFINE g == Len(got)
<1> DEFINE l == Len(s)
<1>1. g \in Nat /\ l \in Nat /\ Len(Tail(s)) = l - 1 /\ l = k - g
  BY TailElements DEF Part
<1>2. \A j \in 1 .. Len(Tail(s)) : Tail(s)[j] = Chunk(c, g + (j + 1), k)
  BY TailElements DEF Part
<1> HIDE DEF g, l
<1>3. Len(Tail(s)) = k - (g + 1)
  BY <1>1
<1>4. \A j \in 1 .. Len(Tail(s)) : g + (j + 1) = (g + 1) + j
  BY <1>1
<1> QED BY <1>2, <1>3, <1>4 DEF Part, g

\* A server thread gives the call the next chunk of what it holds.
LEMMA ServeStream ==
    ASSUME Shape, CallInv, Buffers, Mail, Held, Stream, [Next]_vars, NEW n \in Conns, Serve(n)
    PROVE  Stream'
<1> USE AlpcAssumption
<1>0. result' = result /\ skewed' = skewed /\ dead' = dead
  BY ServeCases
<1>1. CASE LeftBehind(n) /\ call' = call /\ (call.pc # "idle" => n # call.conn)
  <2> SUFFICES ASSUME call.pc # "idle" PROVE Stream'
    BY <1>1 DEF Stream
  <2>0. call.id \in Calls /\ msg[n].call # call.id
    BY <1>1 DEF CallInv, LeftBehind
  <2>1. ran'[call.id] = ran[call.id]
    BY <2>0, ServeCases DEF Continues, Ignores, Keeps, Handles, Refuses, Shape
  <2>2. CASE ran[call.id] = 0
    <3>1. StreamBefore
      BY <2>2 DEF Stream
    <3>2. ASSUME NEW j \in 1 .. Len(call.got) PROVE Lost(call.got[j])'
      <4>1. Lost(call.got[j])
        BY <3>1 DEF StreamBefore
      <4>2. result'[call.got[j].call] = "failed" /\ ran'[call.got[j].call] = 1
        BY <4>1, LostStays DEF Lost, ReplyChunk
      <4> QED BY <4>1, <4>2, <1>1 DEF Lost, ReplyChunk
    <3>3. HasData' => HasData
      BY <1>1 DEF HasData
    <3>4. Lost(call.data) => Lost(call.data)'
      <4> SUFFICES ASSUME Lost(call.data) PROVE Lost(call.data)'
        OBVIOUS
      <4>1. result'[call.data.call] = "failed" /\ ran'[call.data.call] = 1
        BY LostStays DEF Lost, ReplyChunk
      <4> QED BY <4>1, <1>1 DEF Lost, ReplyChunk
    <3>5. StreamBefore'
      BY <3>1, <3>2, <3>3, <3>4, <1>1 DEF StreamBefore
    <3> QED BY <3>5, <2>1, <2>2, <1>1 DEF Stream
  <2>3. CASE ran[call.id] = 1
    <3>1. StreamAfter /\ call.conn \in Conns /\ call.conn # n
      BY <2>3, <1>1, RanOnConn
    <3>2. srv'[call.conn] = srv[call.conn]
      BY <3>1, ServeCases, ServeBuffers
    <3>3. HasData' = HasData /\ Taken' = Taken
      BY <1>1 DEF HasData, Taken
    <3>4. StreamAfter'
      BY <3>1, <3>2, <3>3, <1>0, <1>1 DEF StreamAfter, Part
    <3> QED BY <3>4, <2>1, <2>3, <1>1 DEF Stream
  <2> QED BY <2>0, <2>2, <2>3 DEF Shape
<1>2. CASE OnItsWay(n) /\ n = call.conn
  <2>0. call.pc = "wait" /\ call.id \in Calls /\ msg[n].call = call.id /\ call.got \in Seq(ChunkType)
    BY <1>2 DEF OnItsWay, CallInv, Shape, CallType
  <2>1. ASSUME NEW d, Delivers(n, d)
        PROVE  /\ call'.pc = "reply" /\ call'.data = d /\ call'.id = call.id /\ call'.len = call.len
               /\ call'.sent = call.sent /\ call'.conn = n /\ call'.got = call.got /\ call'.want = call.want
    BY <2>0, <2>1, <1>2, DeliversCall
  <2>2. ~HasData /\ Taken = Len(call.got)
    BY <2>0 DEF HasData, Taken
  <2>3. ASSUME ran[call.id] = 0, ran' = ran, call'.pc = "reply", call'.got = call.got, call'.id = call.id,
               IsData(call'.data) => Lost(call.data)' \/ (call'.data = Error(call.id) /\ call.got = <<>>)
        PROVE  Stream'
    <3>1. StreamBefore
      BY <2>0, <2>3 DEF Stream
    <3>2. ASSUME NEW j \in 1 .. Len(call.got) PROVE Lost(call.got[j])'
      <4>1. Lost(call.got[j])
        BY <3>1 DEF StreamBefore
      <4> QED BY <4>1, <1>0, <2>3 DEF Lost, ReplyChunk
    <3>3. StreamBefore'
      BY <2>3, <3>2 DEF StreamBefore, HasData
    <3> QED BY <2>3, <3>3 DEF Stream
  <2>4. CASE Ignores(n)
    <3>1. srv' = srv /\ ran' = ran /\ Delivers(n, NoData)
      BY <2>4 DEF Ignores
    <3>2. ~IsData(call'.data)
      BY <3>1, <2>1, ChunkTypes
    <3>3. CASE ran[call.id] = 0
      BY <3>1, <3>2, <3>3, <2>1, <2>3
    <3>4. CASE ran[call.id] = 1
      <4>1. StreamAfter
        BY <2>0, <3>4 DEF Stream
      <4>2. ~HasData' /\ Taken' = Len(call.got)
        BY <3>1, <3>2, <2>1 DEF HasData, Taken
      <4>3. StreamAfter'
        BY <4>1, <4>2, <3>1, <2>1, <2>2, <1>0, <1>2 DEF StreamAfter, Part
      <4> QED BY <4>3, <3>1, <3>4, <2>1 DEF Stream
    <3> QED BY <3>3, <3>4, <2>0 DEF Shape
  <2>5. CASE Continues(n)
    <3> DEFINE s == srv[n].sendBuff
    <3>1. ran' = ran /\ Delivers(n, Head(s)) /\ s # <<>> /\ s \in Seq(ChunkType) /\ srv'[n].sendBuff = Tail(s)
      BY <2>5, ServeBuffers DEF Continues
    <3>2. Head(s) = s[1] /\ 1 \in 1 .. Len(s)
      BY <3>1
    <3>3. CASE ran[call.id] = 0
      <4>1. Lost(s[1])
        BY <3>2, <3>3 DEF Held, Own, ReplyChunk
      <4>2. call'.data = s[1]
        BY <3>1, <3>2, <2>1
      <4>3. Lost(call.data)'
        BY <4>1, <4>2, <3>1, <1>0 DEF Lost, ReplyChunk
      <4> QED BY <4>3, <3>1, <3>3, <2>1, <2>3
    <3>4. CASE ran[call.id] = 1
      <4>1. PICK k \in 1 .. MaxReply :
              /\ \A j \in 1 .. Len(call.got) : call.got[j] = Chunk(call.id, j, k)
              /\ call.got # <<>> => call.want = k - Len(call.got)
              /\ Part(s, call.id, Len(call.got), k)
        BY <2>0, <2>2, <3>1, <3>4, <1>2 DEF Stream, StreamAfter
      <4>2. call.sent = call.len /\ call.got # <<>>
        BY <2>0, <2>2, <3>4 DEF Stream, StreamAfter
      <4>3. call'.data = Chunk(call.id, Len(call.got) + 1, k)
        BY <2>1, <3>1, <3>2, <4>1 DEF Part
      <4>4. HasData' /\ Taken' = Len(call.got) + 1
        <5>1. call'.data.k = Len(call.got) + 1 /\ Len(call.got) \in Nat
          BY <4>3, <2>0, ChunkFields
        <5> QED BY <5>1, <2>1, <3>1 DEF HasData, IsData, Taken
      <4>5. Part(Tail(s), call.id, Len(call.got) + 1, k)
        BY <2>0, <3>1, <4>1, PartTail
      <4>6. StreamAfter'
        <5>1. Part(srv'[n].sendBuff, call.id, Len(call.got) + 1, k)
          BY <3>1, <4>5
        <5>2. /\ call'.sent = call'.len /\ call'.got # <<>> /\ call'.got = call.got /\ call'.id = call.id
              /\ call'.conn = n /\ call'.want = call.want
          BY <2>1, <3>1, <4>2
        <5> QED BY <4>1, <4>3, <4>4, <5>1, <5>2 DEF StreamAfter, Part
      <4> QED BY <4>6, <3>1, <3>4, <2>1 DEF Stream
    <3> QED BY <3>3, <3>4, <2>0 DEF Shape
  <2>6. CASE IsData(msg[n]) /\ (Keeps(n) \/ Refuses(n) \/ Handles(n))
    <3>1. call.got = <<>> /\ msg[n] = Chunk(call.id, call.sent, call.len) /\ ran[call.id] = 0
      BY <2>0, <2>6, <1>2, NotRunYet DEF OnItsWay
    <3>2. CASE Keeps(n)
      <4>1. ran' = ran /\ Delivers(n, NoData) /\ ~IsData(NoData)
        BY <3>2, ChunkTypes DEF Keeps
      <4> QED BY <4>1, <3>1, <2>1, <2>3
    <3>3. CASE Refuses(n)
      <4>1. ran' = ran /\ Delivers(n, Error(call.id))
        BY <3>3, <2>0 DEF Refuses
      <4> QED BY <4>1, <3>1, <2>1, <2>3
    <3>4. CASE Handles(n)
      <4>1. PICK k \in 1 .. MaxReply : /\ srv'[n].sendBuff = Tail(ReplyOf(call.id, k))
                                       /\ Delivers(n, Chunk(call.id, 1, k))
        BY <3>4, <2>0, ServeBuffers
      <4>2. call.sent = call.len
        <5>1. Whole(Append(srv[n].recvBuff, msg[n])) /\ srv[n].recvBuff \in Seq(ChunkType) /\ msg[n] \in ChunkType
          BY <3>4 DEF Handles, Runs, Shape, SrvType
        <5>2. msg[n].k = msg[n].of
          BY <5>1, WholeRequest
        <5> QED BY <5>2, <3>1, ChunkFields
      <4>3. HasData' /\ Taken' = 1 /\ Len(call.got) = 0
        BY <4>1, <3>1, <2>1, ChunkFields DEF HasData, IsData, Taken
      <4>4. Part(Tail(ReplyOf(call.id, k)), call.id, 1, k)
        <5>1. k \in Nat \ {0} /\ Len(Tail(ReplyOf(call.id, k))) = k - 1
              /\ \A j \in 1 .. k - 1 : Tail(ReplyOf(call.id, k))[j] = Chunk(call.id, j + 1, k)
          BY ReplyParts
        <5>2. \A j \in 1 .. k - 1 : j + 1 = 1 + j
          BY <5>1
        <5> QED BY <5>1, <5>2 DEF Part
      <4>5. StreamAfter'
        <5>1. Part(srv'[n].sendBuff, call.id, 1, k)
          BY <4>1, <4>4
        <5>2. /\ call'.sent = call'.len /\ call'.got = <<>> /\ call'.id = call.id /\ call'.conn = n
              /\ call'.data = Chunk(call.id, 1, k)
          BY <2>1, <3>1, <4>1, <4>2
        <5>3. Len(call'.got) + 1 = 1 /\ \A j \in 1 .. Len(call'.got) : FALSE
          BY <5>2
        <5> QED BY <4>3, <5>1, <5>2, <5>3 DEF StreamAfter, Part
      <4>6. ran'[call.id] = 1
        BY <3>1, <3>4, <2>0 DEF Handles, Shape
      <4> QED BY <4>1, <4>5, <4>6, <2>1 DEF Stream
    <3> QED BY <2>6, <3>2, <3>3, <3>4
  <2> QED BY <2>4, <2>5, <2>6, ServeCases DEF Keeps, Handles, Refuses
<1> QED BY <1>1, <1>2, ServeWhom

\* A call that takes a chunk and is not done.
LEMMA TakeStream ==
    ASSUME Shape, CallInv, Stream, call.pc = "reply", NEW want \in 1 .. MaxReply - 1,
           call.got = <<>> => IsData(call.data) /\ want + 1 \in Sizes(call.data, MaxReply),
           call.got # <<>> => want = IF IsData(call.data) THEN call.want - 1 ELSE call.want,
           call' = [call EXCEPT !.pc = "send", !.want = want,
                                !.got = IF IsData(call.data) THEN Append(call.got, call.data) ELSE call.got],
           UNCHANGED <<srv, ran, result, skewed, dead>>
    PROVE  Stream'
<1> USE AlpcAssumption
<1> DEFINE got == IF IsData(call.data) THEN Append(call.got, call.data) ELSE call.got
<1>0. /\ call'.pc = "send" /\ call'.id = call.id /\ call'.conn = call.conn /\ call'.len = call.len
      /\ call'.sent = call.sent /\ call'.want = want /\ call'.got = got
  BY DEF Shape, CallType
<1>1. call.got \in Seq(ChunkType) /\ call.data \in ChunkType /\ call.id \in Calls /\ Len(call.got) \in Nat
      /\ call.want \in Nat
  BY DEF Shape, CallType, CallInv
<1>2. ~HasData' /\ Taken' = Len(got) /\ (HasData <=> IsData(call.data))
  BY <1>0 DEF HasData, Taken
<1>3. IsData(call.data) => /\ Len(got) = Len(call.got) + 1 /\ got[Len(call.got) + 1] = call.data
                           /\ \A j \in 1 .. Len(call.got) : got[j] = call.got[j]
  BY <1>1
<1>4. ~IsData(call.data) => got = call.got
  OBVIOUS
<1>5. got # <<>>
  BY <1>1
<1> HIDE DEF got
<1>6. CASE ran[call.id] = 0
  <2>1. StreamBefore
    BY <1>6 DEF Stream
  <2>2. IsData(call.data) => Lost(call.data)
    <3> SUFFICES ASSUME IsData(call.data), call.data = Error(call.id), call.got = <<>> PROVE FALSE
      BY <2>1, <1>2 DEF StreamBefore
    <3>1. Sizes(call.data, MaxReply) = {1}
      BY ErrorFields DEF Sizes
    <3> QED BY <3>1
  <2>3. ASSUME NEW j \in 1 .. Len(got) PROVE Lost(got[j])
    <3>1. CASE IsData(call.data)
      <4>1. CASE j = Len(call.got) + 1
        BY <4>1, <3>1, <2>2, <1>3
      <4>2. CASE j # Len(call.got) + 1
        <5>1. j \in 1 .. Len(call.got)
          BY <4>2, <3>1, <1>3, <1>1
        <5> QED BY <5>1, <3>1, <2>1, <1>3 DEF StreamBefore
      <4> QED BY <4>1, <4>2
    <3>2. CASE ~IsData(call.data)
      BY <3>2, <2>1, <1>4 DEF StreamBefore
    <3> QED BY <3>1, <3>2
  <2>4. ASSUME NEW j \in 1 .. Len(got) PROVE Lost(call.got[j])'
    BY <2>3, <1>0 DEF Lost, ReplyChunk
  <2>5. StreamBefore'
    BY <2>4, <1>0, <1>2 DEF StreamBefore
  <2> QED BY <2>5, <1>6, <1>0 DEF Stream
<1>7. CASE ran[call.id] = 1
  <2>1. StreamAfter
    BY <1>7 DEF Stream
  <2>2. PICK k \in 1 .. MaxReply :
          /\ \A j \in 1 .. Len(call.got) : call.got[j] = Chunk(call.id, j, k)
          /\ call.got # <<>> => call.want = k - Len(call.got)
          /\ HasData => call.data = Chunk(call.id, Len(call.got) + 1, k)
          /\ \/ srv[call.conn].sendBuff = <<>> /\ call.conn \in skewed \cup dead
             \/ Part(srv[call.conn].sendBuff, call.id, Taken, k)
    BY <2>1 DEF StreamAfter
  <2>3. Taken = Len(got)
    BY <1>2, <1>3, <1>4 DEF Taken
  <2>4. \A j \in 1 .. Len(got) : got[j] = Chunk(call.id, j, k)
    <3>1. CASE IsData(call.data)
      <4> SUFFICES ASSUME NEW j \in 1 .. Len(got) PROVE got[j] = Chunk(call.id, j, k)
        OBVIOUS
      <4>1. CASE j = Len(call.got) + 1
        BY <4>1, <3>1, <2>2, <1>2, <1>3
      <4>2. CASE j # Len(call.got) + 1
        <5>1. j \in 1 .. Len(call.got)
          BY <4>2, <3>1, <1>3, <1>1
        <5> QED BY <5>1, <3>1, <2>2, <1>3
      <4> QED BY <4>1, <4>2
    <3>2. CASE ~IsData(call.data)
      BY <3>2, <2>2, <1>4
    <3> QED BY <3>1, <3>2
  <2>5. want = k - Len(got)
    <3>1. CASE call.got = <<>>
      <4>1. call.data.k = 1 /\ call.data.of = k
        BY <3>1, <2>2, <1>2, ChunkFields
      <4>2. Sizes(call.data, MaxReply) = {k}
        BY <4>1 DEF Sizes
      <4>3. want + 1 = k /\ Len(got) = 1
        BY <3>1, <4>2, <1>3
      <4> QED BY <4>3
    <3>2. CASE call.got # <<>> /\ IsData(call.data)
      BY <3>2, <2>2, <1>1, <1>3
    <3>3. CASE call.got # <<>> /\ ~IsData(call.data)
      BY <3>3, <2>2, <1>1, <1>4
    <3> QED BY <3>1, <3>2, <3>3
  <2>6. StreamAfter'
    <3>1. call'.sent = call'.len
      BY <2>1, <1>0 DEF StreamAfter
    <3>2. \/ srv'[call'.conn].sendBuff = <<>> /\ call'.conn \in skewed' \cup dead'
          \/ Part(srv'[call'.conn].sendBuff, call'.id, Taken', k)
      BY <2>2, <2>3, <1>0, <1>2
    <3> QED BY <3>1, <3>2, <2>4, <2>5, <1>0, <1>2, <1>5 DEF StreamAfter, Part
  <2> QED BY <2>6, <1>0, <1>7 DEF Stream
<1> QED BY <1>1, <1>6, <1>7 DEF Shape

\* A call that goes on and has no data has what it had, from the same
\* connection or from one that holds nothing.
LEMMA GoOnStream ==
    ASSUME Shape, CallInv, Stream, call.pc # "idle", ~HasData, ~HasData',
           call'.id = call.id, call'.len = call.len, call'.got = call.got, call'.want = call.want,
           call'.pc # "idle", ran' = ran, result' = result, dead' = dead, skewed \subseteq skewed',
           ran[call.id] = 1 =>
             /\ call'.sent = call.sent
             /\ \/ call'.conn = call.conn /\ srv'[call.conn].sendBuff = srv[call.conn].sendBuff
                \/ srv'[call'.conn].sendBuff = <<>> /\ call'.conn \in skewed'
    PROVE  Stream'
<1>1. CASE ran[call.id] = 0
  <2>1. StreamBefore
    BY <1>1 DEF Stream
  <2>2. ASSUME NEW j \in 1 .. Len(call.got) PROVE Lost(call.got[j])'
    BY <2>1 DEF StreamBefore, Lost, ReplyChunk
  <2>3. StreamBefore'
    BY <2>2 DEF StreamBefore
  <2> QED BY <2>3, <1>1 DEF Stream
<1>2. CASE ran[call.id] = 1
  <2>1. StreamAfter
    BY <1>2 DEF Stream
  <2>2. Taken = Len(call.got) /\ Taken' = Len(call.got)
    BY DEF Taken
  <2>3. StreamAfter'
    BY <2>1, <2>2, <1>2 DEF StreamAfter, Part
  <2> QED BY <2>3, <1>2 DEF Stream
<1> QED BY <1>1, <1>2 DEF Shape, CallInv

\* Other connections, and the server's end, do not touch what the call has.
LEMMA KeptStream ==
    ASSUME Shape, CallInv, Stream, UNCHANGED <<call, ran, result, skewed>>, dead \subseteq dead',
           call.conn \in Conns => \/ srv'[call.conn].sendBuff = srv[call.conn].sendBuff
                                  \/ srv'[call.conn].sendBuff = <<>> /\ call.conn \in dead'
    PROVE  Stream'
<1> SUFFICES ASSUME call.pc # "idle" PROVE Stream'
  BY DEF Stream
<1>1. CASE ran[call.id] = 0
  <2>1. StreamBefore
    BY <1>1 DEF Stream
  <2>2. ASSUME NEW j \in 1 .. Len(call.got) PROVE Lost(call.got[j])'
    BY <2>1 DEF StreamBefore, Lost, ReplyChunk
  <2>3. Lost(call.data) => Lost(call.data)'
    BY DEF Lost, ReplyChunk
  <2>4. StreamBefore'
    BY <2>1, <2>2, <2>3 DEF StreamBefore, HasData
  <2> QED BY <2>4, <1>1 DEF Stream
<1>2. CASE ran[call.id] = 1
  <2>1. StreamAfter /\ call.conn \in Conns
    BY <1>2, RanOnConn
  <2>2. HasData' = HasData /\ Taken' = Taken
    BY DEF HasData, Taken
  <2>3. PICK k \in 1 .. MaxReply :
          /\ \A j \in 1 .. Len(call.got) : call.got[j] = Chunk(call.id, j, k)
          /\ call.got # <<>> => call.want = k - Len(call.got)
          /\ HasData => call.data = Chunk(call.id, Len(call.got) + 1, k)
          /\ \/ srv[call.conn].sendBuff = <<>> /\ call.conn \in skewed \cup dead
             \/ Part(srv[call.conn].sendBuff, call.id, Taken, k)
    BY <2>1 DEF StreamAfter
  <2>4. \/ srv'[call'.conn].sendBuff = <<>> /\ call'.conn \in skewed' \cup dead'
        \/ Part(srv'[call'.conn].sendBuff, call'.id, Taken', k)
    BY <2>1, <2>2, <2>3
  <2>5. StreamAfter'
    BY <2>1, <2>2, <2>3, <2>4 DEF StreamAfter
  <2> QED BY <2>5, <1>2 DEF Stream
<1> QED BY <1>1, <1>2 DEF Shape, CallInv

\* Every step keeps what the call has of a reply.
LEMMA StreamStep ==
    Shape /\ CallInv /\ Buffers /\ Mail /\ Held /\ Fresh /\ Stream /\ [Next]_vars => Stream'
<1> SUFFICES ASSUME Shape, CallInv, Buffers, Mail, Held, Fresh, Stream, [Next]_vars PROVE Stream'
  OBVIOUS
<1> USE AlpcAssumption
<1>0. CASE call' = Idle
  BY <1>0 DEF Stream, Idle
<1>1. CASE Connect
  <2>1. srv' = [srv EXCEPT ![conns + 1] = NewClient] /\ UNCHANGED <<call, ran, result, skewed, dead>>
        /\ call.conn # conns + 1
    BY <1>1 DEF Connect, Shape
  <2>2. call.conn \in Conns => srv'[call.conn] = srv[call.conn]
    BY <2>1 DEF Shape
  <2> QED BY <2>1, <2>2, KeptStream
<1>2. ASSUME NEW n \in Conns, PortDisconnect(n) PROVE Stream'
  <2>1. srv' = [srv EXCEPT ![n] = [srv[n] EXCEPT !.here = FALSE]]
        /\ UNCHANGED <<call, ran, result, skewed, dead>>
    BY <1>2 DEF PortDisconnect, clientVars
  <2>2. [srv[n] EXCEPT !.here = FALSE].sendBuff = srv[n].sendBuff
    BY DEF Shape, SrvType
  <2>3. \A o \in Conns : srv'[o].sendBuff = srv[o].sendBuff
    BY <2>1, <2>2 DEF Shape
  <2> QED BY <2>1, <2>3, KeptStream
<1>3. CASE Restart
  <2>1. /\ UNCHANGED <<call, ran, result, skewed>> /\ dead' = 1 .. conns
        /\ \A n \in Conns : srv'[n].sendBuff = <<>>
    BY <1>3 DEF Restart, NewClient, clientVars
  <2>2. dead \subseteq dead' /\ (call.conn \in Conns => call.conn \in dead')
    BY <2>1 DEF Shape, Conns
  <2> QED BY <2>1, <2>2, KeptStream
<1>4. ASSUME NEW n \in Conns, Serve(n) PROVE Stream'
  BY <1>4, ServeStream
<1>5. ASSUME NEW m \in 1 .. MaxRequest, StartCall(m) PROVE Stream'
  <2>1. PICK c \in NewCalls :
          \/ call' = call
          \/ call' = [Idle EXCEPT !.pc = "send", !.id = c, !.len = m]
    BY <1>5 DEF StartCall
  <2>2. ran[c] = 0 /\ ran' = ran /\ call.pc = "idle"
    BY <1>5 DEF StartCall, NewCalls, Held, serverVars
  <2>3. call'.pc # "idle" => call'.id = c /\ call'.got = <<>> /\ call'.pc = "send"
    BY <2>1, <2>2 DEF Idle
  <2>4. call'.pc # "idle" => StreamBefore'
    BY <2>3 DEF StreamBefore, HasData
  <2> QED BY <2>2, <2>3, <2>4 DEF Stream
<1>6. CASE SendChunk
  <2>1. /\ call'.pc = "wait" /\ call'.conn = port /\ call'.id = call.id /\ call'.len = call.len
        /\ call'.got = call.got /\ call'.want = call.want
        /\ call'.sent = IF call.got = <<>> THEN call.sent + 1 ELSE call.sent
    BY <1>6 DEF SendChunk, Shape, CallType
  <2>2. /\ call.pc = "send" /\ port # 0 /\ UNCHANGED <<srv, ran, result, dead>>
        /\ skewed' = IF call.conn \notin {0, port} THEN skewed \cup {port} ELSE skewed
    BY <1>6 DEF SendChunk, Broken, serverVars
  <2>3. ~HasData /\ ~HasData'
    BY <2>1, <2>2 DEF HasData
  <2>4. ASSUME ran[call.id] = 1
        PROVE  /\ call'.sent = call.sent
               /\ \/ call'.conn = call.conn
                  \/ srv'[call'.conn].sendBuff = <<>> /\ call'.conn \in skewed'
    <3>1. call.got # <<>> /\ call.conn # 0
      BY <2>2, <2>4, NotRunYet DEF CallInv
    <3> QED BY <2>1, <2>2, <3>1 DEF Fresh
  <2> QED BY <2>1, <2>2, <2>3, <2>4, GoOnStream
<1>7. CASE TakeAck /\ call' # Idle
  <2>1. /\ call' = [call EXCEPT !.pc = "send"] /\ call.pc = "reply" /\ ~IsData(call.data)
        /\ UNCHANGED <<srv, result, ran, skewed, dead>>
    BY <1>7 DEF TakeAck, Finish, serverVars
  <2>2. /\ call'.pc = "send" /\ call'.conn = call.conn /\ call'.id = call.id /\ call'.len = call.len
        /\ call'.got = call.got /\ call'.want = call.want /\ call'.sent = call.sent
    BY <2>1 DEF Shape, CallType
  <2>3. ~HasData /\ ~HasData'
    BY <2>1, <2>2 DEF HasData
  <2> QED BY <2>1, <2>2, <2>3, GoOnStream
<1>8. CASE (TakeFirst \/ TakeMore) /\ call' # Idle
  <2>1. call.pc = "reply" /\ UNCHANGED <<srv, ran, skewed, dead>> /\ (call.got = <<>> => IsData(call.data))
    BY <1>8, TakeCases DEF TakeFirst, TakeMore
  <2>2. PICK want \in 1 .. MaxReply - 1 :
          /\ call.got = <<>> => want + 1 \in Sizes(call.data, MaxReply)
          /\ call.got # <<>> => want = IF IsData(call.data) THEN call.want - 1 ELSE call.want
          /\ call' = [call EXCEPT !.pc = "send", !.want = want,
                                  !.got = IF IsData(call.data) THEN Append(call.got, call.data)
                                          ELSE call.got]
          /\ result' = result
    BY <1>8, TakeCases DEF Finish
  <2> QED BY <2>1, <2>2, TakeStream
<1>9. CASE UNCHANGED <<call, srv, ran, result, skewed, dead>>
  BY <1>9, KeptStream
<1>10. CASE SendFails \/ ReplyTooLong \/ ReplyRefused
  BY <1>0, <1>10 DEF SendFails, ReplyTooLong, ReplyRefused, Finish
<1> QED BY <1>0, <1>1, <1>2, <1>3, <1>4, <1>5, <1>6, <1>7, <1>8, <1>9, <1>10
        DEF Next, ClientStep, ServerStep, Disconnect, Release, OnClient, clientVars, serverVars, vars

-----------------------------------------------------------------------------
(* The invariant and what follows from it *)

\* The invariant holds to begin with.
LEMMA InvInit == Init => Inv
<1> SUFFICES ASSUME Init PROVE Inv
  OBVIOUS
<1> USE AlpcAssumption
<1>0. /\ call.pc = "idle" /\ call.conn = 0 /\ call.sent = 0 /\ call.len = 0
      /\ call \in CallType
  BY ChunkTypes DEF Init, Idle
<1>1. \A n \in Conns : srv[n] \in SrvType /\ ~srv[n].replying /\ srv[n].sendBuff = <<>> /\ srv[n].recvBuff = <<>>
  BY ChunkTypes DEF Init, NewClient
<1>2. Shape
  BY <1>0, <1>1, ChunkTypes DEF Init, Shape
<1>3. CallInv
  BY <1>0 DEF CallInv
<1>4. Buffers
  <2>1. Len(<<>>) = 0
    OBVIOUS
  <2> QED BY <1>1, <2>1 DEF Buffers
<1>5. Mail
  <2>1. \A n \in Conns : msg[n] = NoData /\ ~IsData(msg[n]) /\ Sized(msg[n], MaxRequest)
    BY ChunkTypes DEF Init, Sized
  <2> QED BY <2>1 DEF Mail
<1>6. Held
  <2>1. \A n \in Conns : \A j \in 1 .. Len(srv[n].sendBuff) : FALSE
    BY <1>1
  <2> QED BY <2>1 DEF Init, Held
<1>7. Fresh /\ Stream
  BY <1>0 DEF Init, Fresh, Stream
<1> QED BY <1>2, <1>3, <1>4, <1>5, <1>6, <1>7 DEF Inv

\* Every step keeps it.
LEMMA InvStep == Inv /\ [Next]_vars => Inv'
BY ShapeStep, CallStep, BuffersStep, MailStep, HeldStep, FreshStep, StreamStep DEF Inv

\* Reconnects, restarts and calls that were given up leave the transport's
\* records and buffers within their bounds, and no handler runs twice.
THEOREM TypeCorrect == Spec => []TypeOK
<1>1. Inv => TypeOK
  <2> SUFFICES ASSUME Inv PROVE TypeOK
    OBVIOUS
  <2> USE AlpcAssumption DEF Inv
  <2>1. /\ call.pc \in {"idle", "send", "wait", "reply"}
        /\ call.len \in 0 .. MaxRequest /\ call.sent \in 0 .. call.len
        /\ call.want \in 0 .. MaxReply - 1
    BY DEF Shape, CallType, CallInv
  <2>2. ASSUME NEW n \in Conns
        PROVE  /\ srv[n].total \in 0 .. MaxRequest
               /\ Len(srv[n].recvBuff) < MaxRequest /\ Len(srv[n].sendBuff) < MaxReply
    <3>1. srv[n].total \in 0 .. MaxRequest /\ srv[n].recvBuff \in Seq(ChunkType)
      BY DEF Shape, SrvType
    <3>2. CASE srv[n].recvBuff = <<>>
      BY <3>1, <3>2 DEF Buffers
    <3>3. CASE srv[n].recvBuff # <<>>
      BY <3>1, <3>3 DEF Buffers
    <3> QED BY <3>1, <3>2, <3>3
  <2>3. /\ port \in 0 .. MaxConns /\ conns \in 0 .. MaxConns /\ deaths \in 0 .. MaxDeaths
        /\ dead \subseteq Conns /\ closed \subseteq Conns /\ core \subseteq Conns
        /\ skewed \subseteq Conns /\ overtaken \subseteq Conns
    BY DEF Shape, Conns
  <2>4. announce \subseteq Conns \X {"connected", "disconnected"}
    BY DEF Shape, Conns
  <2>5. /\ result \in [Calls -> {"new", "open", "answered", "failed", "misread"}]
        /\ ran \in [Calls -> 0 .. 1]
    BY DEF Shape
  <2> QED BY <2>1, <2>2, <2>3, <2>4, <2>5 DEF TypeOK
<1> QED BY <1>1, InvInit, InvStep, PTL DEF Spec

\* A step of the transport is a step of RemoteCall, or none.
LEMMA RemoteCallStep == Inv /\ [Next]_vars => [Abstract!Next]_(Abstract!vars)
<1> SUFFICES ASSUME Inv, [Next]_vars PROVE [Abstract!Next]_(Abstract!vars)
  OBVIOUS
<1> USE AlpcAssumption DEF Inv
<1>1. CASE UNCHANGED <<result, ran>>
  BY <1>1 DEF Abstract!vars
<1>2. ASSUME NEW m \in 1 .. MaxRequest, StartCall(m) PROVE Abstract!Next
  <2>1. PICK c \in NewCalls : \/ result' = [result EXCEPT ![c] = "failed"]
                              \/ result' = [result EXCEPT ![c] = "open"]
    BY <1>2 DEF StartCall
  <2>2. c \in Calls /\ result[c] = "new" /\ ran' = ran
    BY <1>2 DEF NewCalls, StartCall, serverVars
  <2>3. Abstract!Fail(c) \/ Abstract!Open(c)
    BY <2>1, <2>2 DEF Abstract!Fail, Abstract!Open
  <2> QED BY <2>2, <2>3 DEF Abstract!Next
<1>3. ASSUME NEW r, EndsWell(r), Finish(r), call.pc # "idle", ran' = ran PROVE Abstract!Next
  <2>1. call.id \in Calls /\ result[call.id] = "open" /\ result' = [result EXCEPT ![call.id] = r]
    BY <1>3 DEF CallInv, Finish
  <2>2. Abstract!Fail(call.id) \/ Abstract!Answer(call.id) \/ Abstract!Misread(call.id)
    BY <1>3, <2>1 DEF EndsWell, Abstract!Fail, Abstract!Answer, Abstract!Misread
  <2> QED BY <2>1, <2>2 DEF Abstract!Next
<1>4. CASE SendFails \/ ReplyTooLong \/ ReplyRefused \/ TakeAck
  <2>1. ran' = ran /\ (result' = result \/ (Finish("failed") /\ call.pc # "idle"))
    BY <1>4 DEF SendFails, ReplyTooLong, ReplyRefused, TakeAck, serverVars
  <2>2. EndsWell("failed")
    BY DEF EndsWell
  <2> QED BY <1>1, <1>3, <2>1, <2>2
<1>5. CASE TakeFirst \/ TakeMore
  <2>1. ran' = ran /\ call.pc = "reply"
    BY <1>5 DEF TakeFirst, TakeMore, serverVars
  <2>2. (\E r : EndsWell(r) /\ Finish(r)) \/ result' = result
    BY <1>5, TakeCases
  <2> QED BY <1>1, <1>3, <2>1, <2>2
<1>6. ASSUME NEW n \in Conns, Serve(n) PROVE [Abstract!Next]_(Abstract!vars)
  <2>1. result' = result /\ msg[n] # NoData
    BY <1>6, ServeCases
  <2>2. CASE ran' = ran
    BY <1>1, <2>1, <2>2
  <2>3. CASE Handles(n)
    <3> DEFINE c == msg[n].call
    <3>1. c \in Calls /\ ran[c] = 0 /\ ran' = [ran EXCEPT ![c] = @ + 1] /\ result[c] # "new"
      BY <2>1, <2>3 DEF Handles, Mail, Sized, OnItsWay, LeftBehind, CallInv
    <3>2. ran' = [ran EXCEPT ![c] = 1]
      BY <3>1 DEF Shape
    <3>3. Abstract!Run(c)
      BY <2>1, <3>1, <3>2 DEF Abstract!Run
    <3> QED BY <3>1, <3>3 DEF Abstract!Next
  <2> QED BY <1>6, <2>2, <2>3, ServeCases DEF Continues, Ignores, Keeps, Refuses
<1> QED BY <1>1, <1>2, <1>4, <1>5, <1>6
        DEF Next, ClientStep, ServerStep, Connect, Disconnect, SendChunk, Release, PortDisconnect,
            OnClient, Restart, clientVars, serverVars, vars

\* Whatever is reconnected, restarted or given up in the middle of a call, the
\* transport implements RemoteCall: a handler runs at most once, an answer is
\* the call's own, and a call is given the chunks of another only after that
\* one ran and failed.
THEOREM RemoteCallImplemented == Spec => ImplementsRemoteCall
<1>1. Init => Abstract!Init
  BY DEF Init, Abstract!Init
<1> QED BY <1>1, InvInit, InvStep, RemoteCallStep, PTL DEF Spec, ImplementsRemoteCall, Abstract!Spec

-----------------------------------------------------------------------------
(* Client and server between calls *)

\* What is said of the connection in use stays true while neither it nor the
\* call's place on it changes.
LEMMA KeptClean ==
    ASSUME Clean, port' = port, dead \subseteq dead', skewed \subseteq skewed',
           srv'[port] = srv[port], call' = call,
           call.conn # 0 => ran'[call.id] = ran[call.id]
    PROVE  Clean'
BY DEF Clean, Begun, Nothing

\* A server thread takes the next chunk of the request.
LEMMA ServeClean ==
    ASSUME Inv, Clean, NEW n \in Conns, Serve(n)
    PROVE  Clean'
<1> USE AlpcAssumption DEF Inv
<1>0. UNCHANGED <<port, dead, skewed, result>>
  BY ServeCases
<1> SUFFICES ASSUME port \notin {0} \cup dead \cup skewed PROVE Clean'
  BY <1>0 DEF Clean
<1>1. port \in Conns
  BY DEF Shape, Conns
<1>2. CASE n # port
  <2>1. srv'[port] = srv[port]
    BY <1>1, <1>2, ServeCases, ServeBuffers
  <2>2. CASE call' = call /\ LeftBehind(n)
    <3>1. call.conn # 0 => ran'[call.id] = ran[call.id]
      <4> SUFFICES ASSUME call.conn # 0 PROVE ran'[call.id] = ran[call.id]
        OBVIOUS
      <4>1. msg[n].call # call.id /\ call.id \in Calls
        BY <2>2 DEF LeftBehind, CallInv
      <4> QED BY <4>1, ServeCases DEF Continues, Ignores, Keeps, Handles, Refuses, Shape
    <3> QED BY <1>0, <2>1, <2>2, <3>1, KeptClean
  <2>3. CASE OnItsWay(n) /\ n = call.conn
    <3>1. call'.conn = n
      <4>1. \E d : Delivers(n, d)
        BY ServeCases DEF Continues, Ignores, Keeps, Handles, Refuses
      <4> QED BY <4>1, <2>3, DeliversCall DEF OnItsWay
    <3>2. Nothing(port)
      BY <1>2, <2>3 DEF Clean
    <3>3. Nothing(port)'
      BY <3>2, <2>1, <1>0 DEF Nothing
    <3> QED BY <1>0, <1>2, <3>1, <3>3 DEF Clean
  <2> QED BY <2>2, <2>3, ServeWhom
<1>3. CASE n = port
  <2>0. OnItsWay(n) /\ call.conn = n /\ call.pc = "wait" /\ msg[n].call = call.id /\ call.id \in Calls
    BY <1>3, ServeWhom DEF OnItsWay, CallInv
  <2>1. ASSUME NEW d, Delivers(n, d)
        PROVE  /\ call'.pc = "reply" /\ call'.data = d /\ call'.id = call.id /\ call'.len = call.len
               /\ call'.sent = call.sent /\ call'.conn = n /\ call'.got = call.got
    BY <2>0, <2>1, DeliversCall
  <2>2. CASE ran[call.id] = 1
    <3>1. ~IsData(msg[n])
      BY <2>0, <2>2, NotRunYet DEF OnItsWay
    <3>2. Continues(n) \/ Ignores(n)
      BY <3>1, ServeCases DEF Keeps, Handles, Refuses
    <3>3. srv'[n].recvBuff = srv[n].recvBuff /\ ran' = ran
      BY <3>2, ServeBuffers DEF Continues, Ignores
    <3>4. srv[n].recvBuff = <<>>
      BY <2>0, <2>2, <1>3 DEF Clean
    <3>5. \E d : Delivers(n, d)
      BY ServeCases DEF Continues, Ignores, Keeps, Handles, Refuses
    <3>6. call'.id = call.id /\ call'.conn = n
      BY <3>5, <2>1
    <3> QED BY <3>3, <3>4, <3>6, <2>2, <1>0, <1>3 DEF Clean
  <2>3. CASE ran[call.id] = 0
    <3>0. /\ call.got = <<>> /\ srv[n].sendBuff = <<>> /\ Len(srv[n].recvBuff) = call.sent - 1
          /\ call.sent - 1 > 0 => srv[n].total = call.len
          /\ \A i \in 1 .. call.sent - 1 : srv[n].recvBuff[i] = Chunk(call.id, i, call.len)
      BY <2>0, <2>3, <1>3 DEF Clean, Begun
    <3>1. IsData(msg[n]) /\ msg[n] = Chunk(call.id, call.sent, call.len)
      BY <3>0, <2>0 DEF OnItsWay
    <3>2. /\ srv[n].recvBuff \in Seq(ChunkType) /\ call.sent \in Nat /\ call.len \in Nat
          /\ call.sent <= call.len /\ msg[n] \in ChunkType
      BY DEF Shape, SrvType, CallType, CallInv
    <3>3. call.sent >= 1 /\ call.len >= 1
      BY <3>0, <3>2
    <3>4. Totals(n) = {call.len}
      <4>1. CASE call.sent = 1
        <5>1. srv[n].recvBuff = <<>>
          BY <4>1, <3>0, <3>2
        <5>2. Sizes(msg[n], MaxRequest) = {call.len}
          BY <4>1, <3>1, ChunkFields DEF Sizes
        <5> QED BY <5>1, <5>2 DEF Totals
      <4>2. CASE call.sent # 1
        <5>1. srv[n].recvBuff # <<>> /\ call.sent - 1 > 0
          BY <4>2, <3>0, <3>2, <3>3
        <5> QED BY <5>1, <3>0 DEF Totals
      <4> QED BY <4>1, <4>2
    <3>5. CASE Continues(n)
      BY <3>0, <3>5, ServeBuffers
    <3>6. CASE Ignores(n)
      <4>1. PICK t \in Totals(n) : t = 0 \/ Len(srv[n].recvBuff) + 1 > t
        BY <3>1, <3>6 DEF Ignores
      <4> QED BY <4>1, <3>0, <3>2, <3>3, <3>4
    <3>7. CASE Keeps(n)
      <4>1. /\ srv'[n].sendBuff = <<>>
            /\ srv'[n].recvBuff = Append(srv[n].recvBuff, msg[n])
            /\ srv'[n].total \in Totals(n) /\ Len(srv[n].recvBuff) + 1 < srv'[n].total
        BY <3>7, ServeBuffers
      <4>2. srv'[n].total = call.len /\ call.sent < call.len
        BY <4>1, <3>0, <3>2, <3>4
      <4>3. Len(srv'[n].recvBuff) = call.sent
        BY <4>1, <3>0, <3>2
      <4>4. ASSUME NEW i \in 1 .. call.sent PROVE srv'[n].recvBuff[i] = Chunk(call.id, i, call.len)
        <5>1. CASE i = call.sent
          BY <5>1, <4>1, <3>0, <3>1, <3>2
        <5>2. CASE i # call.sent
          <6>1. i \in 1 .. call.sent - 1
            BY <5>2, <3>2
          <6>2. srv'[n].recvBuff[i] = srv[n].recvBuff[i]
            BY <6>1, <4>1, <3>0, <3>2
          <6> QED BY <6>1, <6>2, <3>0
        <5> QED BY <5>1, <5>2
      <4>5. ran' = ran /\ Delivers(n, NoData) /\ ~IsData(NoData)
        BY <3>7, ChunkTypes DEF Keeps
      <4>6. Begun(port, call.sent)'
        BY <1>0, <1>3, <2>1, <4>1, <4>2, <4>3, <4>4, <4>5 DEF Begun
      <4>7. /\ call'.pc = "reply" /\ ~IsData(call'.data) /\ call'.id = call.id /\ call'.got = <<>>
            /\ call'.conn = n /\ call'.sent < call'.len /\ call'.sent # call'.len
        BY <4>2, <4>5, <3>0, <3>2, <2>1
      <4>8. port' = n /\ ran'[call'.id] = 0
        BY <4>5, <4>7, <2>3, <1>0, <1>3
      <4> QED BY <4>6, <4>7, <4>8 DEF Clean
    <3>8. CASE Handles(n)
      <4>1. srv'[n].recvBuff = <<>> /\ ran'[call.id] = 1
        <5>1. ran' = [ran EXCEPT ![call.id] = @ + 1] /\ ran \in [Calls -> 0 .. 1]
          BY <3>8, <2>0 DEF Handles, Shape
        <5>2. ran'[call.id] = 1
          BY <5>1, <2>0, <2>3
        <5> QED BY <5>2, <3>8, ServeBuffers
      <4>2. \E d : Delivers(n, d)
        BY <3>8 DEF Handles
      <4>3. call'.id = call.id /\ call'.conn = n
        BY <4>2, <2>1
      <4> QED BY <4>1, <4>3, <1>0, <1>3 DEF Clean
    <3>9. CASE Refuses(n)
      <4>1. srv'[n].sendBuff = <<>> /\ srv'[n].recvBuff = <<>>
        BY <3>9, ServeBuffers
      <4>2. call.sent = call.len
        <5>1. Len(srv[n].recvBuff) + 1 \in Totals(n)
          BY <3>9 DEF Refuses
        <5> QED BY <5>1, <3>0, <3>2, <3>4
      <4>3. ran' = ran /\ Delivers(n, Error(call.id))
        BY <3>9, <2>0 DEF Refuses
      <4>4. Nothing(port)'
        BY <4>1, <1>0, <1>3 DEF Nothing
      <4> QED BY <4>2, <4>3, <4>4, <3>0, <3>2, <2>1, <2>3, <1>0, <1>3 DEF Clean
    <3> QED BY <3>5, <3>6, <3>7, <3>8, <3>9, ServeCases
  <2> QED BY <2>0, <2>2, <2>3 DEF Shape
<1> QED BY <1>2, <1>3

\* Every step keeps client and server in step on a connection on which no call
\* was given up.
LEMMA CleanStep == Inv /\ Clean /\ [Next]_vars => Clean'
<1> SUFFICES ASSUME Inv, Clean, [Next]_vars, port' \notin {0} \cup dead' \cup skewed' PROVE Clean'
  BY DEF Clean
<1> USE AlpcAssumption DEF Inv
<1>1. CASE Connect
  <2>1. /\ conns + 1 \in Conns /\ srv' = [srv EXCEPT ![conns + 1] = NewClient]
        /\ NewClient.sendBuff = <<>> /\ NewClient.recvBuff = <<>>
        /\ port' = conns + 1 /\ call' = call
    BY <1>1 DEF Connect, Shape, Conns, NewClient
  <2>2. srv'[port'] = NewClient /\ call'.conn # port'
    BY <2>1 DEF Shape
  <2>3. Nothing(port)'
    BY <2>1, <2>2 DEF Nothing
  <2> QED BY <2>2, <2>3 DEF Clean
<1>2. ASSUME NEW n \in Conns, PortDisconnect(n) PROVE Clean'
  <2>1. srv' = [srv EXCEPT ![n] = [srv[n] EXCEPT !.here = FALSE]] /\ n \in closed
        /\ UNCHANGED <<port, call, ran, dead, skewed>>
    BY <1>2 DEF PortDisconnect, clientVars
  <2>2. n # port /\ port \in Conns
    BY <2>1 DEF Shape, Conns
  <2>3. srv'[port] = srv[port]
    BY <2>1, <2>2 DEF Shape
  <2> QED BY <2>1, <2>3, KeptClean
<1>3. CASE Restart
  BY <1>3 DEF Restart, Shape, clientVars
<1>4. ASSUME NEW n \in Conns, Serve(n) PROVE Clean'
  BY <1>4, ServeClean
<1>5. ASSUME NEW m \in 1 .. MaxRequest, StartCall(m) PROVE Clean'
  <2>1. UNCHANGED <<port, dead, skewed, srv>> /\ call.pc = "idle" /\ call'.conn = 0
    BY <1>5 DEF StartCall, serverVars, Idle, CallInv
  <2>2. Nothing(port)
    BY <2>1 DEF Clean, CallInv
  <2>3. Nothing(port)'
    BY <2>1, <2>2 DEF Nothing
  <2> QED BY <2>1, <2>3 DEF Clean
<1>6. CASE SendChunk
  <2>1. /\ call'.pc = "wait" /\ call'.conn = port /\ call'.id = call.id /\ call'.len = call.len
        /\ call'.got = call.got
        /\ call'.sent = IF call.got = <<>> THEN call.sent + 1 ELSE call.sent
    BY <1>6 DEF SendChunk, Shape, CallType
  <2>2. /\ call.pc = "send" /\ port # 0 /\ UNCHANGED <<port, srv, ran, dead>> /\ call.conn \in {0, port}
        /\ port \notin skewed
    BY <1>6 DEF SendChunk, Broken, serverVars
  <2>3. port \in Conns /\ srv[port].recvBuff \in Seq(ChunkType) /\ call.sent \in Nat /\ call.id \in Calls
    BY <2>2 DEF Shape, SrvType, Conns, CallType, CallInv
  <2>4. CASE ran[call.id] = 1
    <3>1. call.conn = port
      BY <2>2, <2>4, RanOnConn DEF Conns
    <3>2. srv[port].recvBuff = <<>>
      BY <2>2, <2>4, <3>1 DEF Clean
    <3> QED BY <2>1, <2>2, <2>4, <3>2 DEF Clean
  <2>5. CASE ran[call.id] = 0
    <3>1. call.got = <<>> /\ Begun(port, call.sent)
      <4>1. CASE call.conn = port
        BY <4>1, <2>2, <2>5 DEF Clean
      <4>2. CASE call.conn # port
        <5>1. call.conn = 0 /\ Nothing(port) /\ call.sent = 0 /\ call.got = <<>>
          BY <4>2, <2>2 DEF Clean, CallInv
        <5>2. Len(srv[port].recvBuff) = 0 /\ srv[port].sendBuff = <<>>
          BY <5>1 DEF Nothing
        <5> QED BY <5>1, <5>2 DEF Begun
      <4> QED BY <4>1, <4>2
    <3>2. call'.sent - 1 = call.sent
      BY <2>1, <2>3, <3>1
    <3>3. Begun(port, call.sent - 1)'
      BY <2>1, <2>2, <3>1, <3>2 DEF Begun
    <3> QED BY <2>1, <2>2, <2>5, <3>1, <3>3 DEF Clean
  <2> QED BY <2>3, <2>4, <2>5 DEF Shape
<1>7. CASE ReplyRefused \/ (TakeAck /\ Finish("failed"))
  <2>1. /\ UNCHANGED <<port, dead, srv>> /\ call' = Idle
        /\ \/ skewed' = skewed \cup {call.conn}
           \/ skewed' = skewed /\ call' = [call EXCEPT !.pc = "send"]
    BY <1>7 DEF ReplyRefused, TakeAck, Finish, serverVars
  <2>2. [call EXCEPT !.pc = "send"] # Idle
    <3>1. [call EXCEPT !.pc = "send"].pc = "send" /\ Idle.pc = "idle"
      BY DEF Shape, CallType, Idle
    <3> QED BY <3>1
  <2>3. call'.conn = 0 /\ port # call.conn /\ port \notin skewed
    BY <2>1, <2>2 DEF Idle
  <2>4. Nothing(port)
    BY <2>1, <2>3 DEF Clean
  <2>5. Nothing(port)'
    BY <2>1, <2>4 DEF Nothing
  <2> QED BY <2>1, <2>3, <2>5 DEF Clean
<1>8. CASE TakeAck /\ ~Finish("failed")
  <2>1. /\ call' = [call EXCEPT !.pc = "send"] /\ call.pc = "reply" /\ call.sent < call.len
        /\ UNCHANGED <<port, srv, ran, dead, skewed>>
    BY <1>8 DEF TakeAck, serverVars
  <2>2. /\ call'.pc = "send" /\ call'.conn = call.conn /\ call'.id = call.id /\ call'.len = call.len
        /\ call'.got = call.got /\ call'.sent = call.sent
    BY <2>1 DEF Shape, CallType
  <2>3. Begun(port, call.sent)' <=> Begun(port, call.sent)
    BY <2>1, <2>2 DEF Begun
  <2>4. Nothing(port)' <=> Nothing(port)
    BY <2>1 DEF Nothing
  <2> QED BY <2>1, <2>2, <2>3, <2>4 DEF Clean
<1>9. CASE TakeFirst \/ TakeMore
  <2>1. call.pc = "reply" /\ UNCHANGED <<port, srv, ran, skewed, dead>>
        /\ (call.got = <<>> => call.sent = call.len)
    BY <1>9, TakeCases DEF TakeFirst, TakeMore
  <2>2. Nothing(port)' <=> Nothing(port)
    BY <2>1 DEF Nothing
  <2>3. port \in Conns /\ call.id \in Calls
    BY <2>1 DEF Shape, Conns, CallInv
  <2>4. CASE \E r : EndsWell(r) /\ Finish(r) /\ (r = "failed" => ran[call.id] = 0)
    <3>1. PICK r : EndsWell(r) /\ Finish(r) /\ (r = "failed" => ran[call.id] = 0)
      BY <2>4
    <3>2. call'.conn = 0
      BY <3>1 DEF Finish, Idle
    <3>3. Nothing(port)
      <4>1. CASE call.conn # port
        BY <4>1, <2>1 DEF Clean
      <4>2. CASE call.conn = port /\ ran[call.id] = 0
        BY <4>2, <2>1 DEF Clean
      <4>3. CASE call.conn = port /\ ran[call.id] = 1
        <5>1. \A j \in 1 .. Len(srv[port].sendBuff) : ~Own(srv[port].sendBuff[j])
          BY <4>3, <3>1, <2>3 DEF EndsWell
        <5>2. \A j \in 1 .. Len(srv[port].sendBuff) : srv[port].sendBuff[j].call = call.id
          <6>1. StreamAfter
            BY <4>3, <2>1, RanOnConn
          <6> QED BY <6>1, <4>3, ChunkFields DEF StreamAfter, Part
        <5>3. \A j \in 1 .. Len(srv[port].sendBuff) : FALSE
          <6> SUFFICES ASSUME NEW j \in 1 .. Len(srv[port].sendBuff) PROVE FALSE
            OBVIOUS
          <6>1. Lost(srv[port].sendBuff[j])
            BY <5>1, <2>3 DEF Held
          <6> QED BY <6>1, <5>2, <2>1 DEF Lost, CallInv
        <5>4. srv[port].sendBuff = <<>>
          <6>1. srv[port].sendBuff \in Seq(ChunkType)
            BY <2>3 DEF Shape, SrvType
          <6>2. Len(srv[port].sendBuff) = 0
            BY <5>3, <6>1
          <6> QED BY <6>1, <6>2
        <5>5. srv[port].recvBuff = <<>>
          BY <4>3, <2>1 DEF Clean
        <5> QED BY <5>4, <5>5 DEF Nothing
      <4> QED BY <4>1, <4>2, <4>3, <2>3 DEF Shape
    <3> QED BY <3>2, <3>3, <2>1, <2>2 DEF Clean
  <2>5. CASE ~\E r : EndsWell(r) /\ Finish(r) /\ (r = "failed" => ran[call.id] = 0)
    <3>1. PICK want \in 1 .. MaxReply - 1 : \E got :
            /\ call.got = <<>> => want + 1 \in Sizes(call.data, MaxReply)
            /\ call' = [call EXCEPT !.pc = "send", !.want = want, !.got = got]
      BY <1>9, <2>5, TakeCases
    <3>2. call'.pc = "send" /\ call'.id = call.id /\ call'.conn = call.conn
      BY <3>1 DEF Shape, CallType
    <3>3. ~(call.conn = port /\ ran[call.id] = 0)
      <4> SUFFICES ASSUME call.conn = port, ran[call.id] = 0 PROVE FALSE
        OBVIOUS
      <4>1. call.got = <<>> /\ call.data = Error(call.id)
        BY <2>1 DEF Clean
      <4>2. Sizes(call.data, MaxReply) = {1}
        BY <4>1, ErrorFields DEF Sizes
      <4> QED BY <4>1, <4>2, <3>1
    <3> QED BY <3>2, <3>3, <2>1, <2>2 DEF Clean
  <2> QED BY <2>4, <2>5
<1>10. CASE UNCHANGED <<port, dead, skewed, srv, call, ran>>
  BY <1>10, KeptClean
<1>11. CASE Disconnect \/ SendFails \/ ReplyTooLong
  BY <1>11 DEF Disconnect, SendFails, ReplyTooLong, ClosePort
<1> QED BY <1>1, <1>2, <1>3, <1>4, <1>5, <1>6, <1>7, <1>8, <1>9, <1>10, <1>11
        DEF Next, ClientStep, ServerStep, Release, OnClient, clientVars, serverVars, vars

\* Between calls the server expects a new request on the connection in use:
\* only a call whose reply was refused, or that moved to another connection
\* halfway, leaves something behind.
THEOREM InStepBetweenCalls == Spec => []InStep
<1>1. Init => Clean
  BY DEF Init, Clean
<1>2. Inv /\ Clean => InStep
  <2> SUFFICES ASSUME Inv, Clean, call.pc = "idle", port \notin {0} \cup dead \cup skewed
               PROVE  ~srv[port].replying /\ srv[port].recvBuff = <<>>
    BY DEF InStep
  <2>1. port \in Conns
    BY AlpcAssumption DEF Inv, Shape, Conns
  <2>2. Nothing(port)
    BY DEF Inv, CallInv, Clean
  <2> QED BY <2>1, <2>2 DEF Nothing, Inv, Buffers
<1> QED BY <1>1, <1>2, InvInit, InvStep, CleanStep, PTL DEF Spec

-----------------------------------------------------------------------------
(* The core's table of clients *)

\* Every step keeps the core's table in step with the server's.
LEMMA TableStep == Inv /\ Table /\ [Next]_vars => Table'
<1> SUFFICES ASSUME Inv, Table, [Next]_vars PROVE Table'
  OBVIOUS
<1> USE AlpcAssumption DEF Inv
<1>0. ASSUME UNCHANGED <<conns, announce, core, overtaken>>,
             \A n \in Conns : srv'[n].here = srv[n].here
      PROVE  Table'
  BY <1>0 DEF Table, ClientsInStep
<1>1. CASE Connect
  <2>1. /\ conns + 1 \in Conns /\ conns' = conns + 1 /\ UNCHANGED <<core, overtaken>>
        /\ srv' = [srv EXCEPT ![conns + 1] = NewClient]
        /\ announce' = announce \cup {<<conns + 1, "connected">>}
    BY <1>1 DEF Connect, Shape, Conns
  <2>2. /\ NewClient.here /\ srv'[conns + 1] = NewClient
        /\ \A n \in Conns : n # conns + 1 => srv'[n] = srv[n]
    BY <2>1 DEF Shape, NewClient
  <2>3. <<conns + 1, "disconnected">> \notin announce'
    BY <2>1 DEF Shape
  <2>4. ASSUME NEW n \in Conns
        PROVE  /\ srv'[n].here => n \in core' \/ <<n, "connected">> \in announce'
               /\ n \in core' \ overtaken' => srv'[n].here \/ <<n, "disconnected">> \in announce'
               /\ srv'[n].here => <<n, "disconnected">> \notin announce'
               /\ n > conns' => ~srv'[n].here
    <3>1. CASE n = conns + 1
      BY <3>1, <2>1, <2>2, <2>3
    <3>2. CASE n # conns + 1
      <4>1. srv'[n] = srv[n] /\ (n > conns' => n > conns)
        BY <3>2, <2>1, <2>2 DEF Shape, Conns
      <4>2. <<n, "disconnected">> \in announce' <=> <<n, "disconnected">> \in announce
        BY <2>1
      <4> QED BY <4>1, <4>2, <2>1 DEF Table, ClientsInStep
    <3> QED BY <3>1, <3>2
  <2> QED BY <2>4 DEF Table, ClientsInStep
<1>2. ASSUME NEW n \in Conns, PortDisconnect(n) PROVE Table'
  <2>1. /\ srv' = [srv EXCEPT ![n] = [srv[n] EXCEPT !.here = FALSE]]
        /\ announce' = announce \cup {<<n, "disconnected">>} /\ UNCHANGED <<conns, core, overtaken>>
    BY <1>2 DEF PortDisconnect, Gone
  <2>2. [srv[n] EXCEPT !.here = FALSE].here = FALSE
    BY DEF Shape, SrvType
  <2>3. ~srv'[n].here /\ \A o \in Conns : o # n => srv'[o] = srv[o]
    BY <2>1, <2>2 DEF Shape
  <2>4. ASSUME NEW o \in Conns
        PROVE  /\ srv'[o].here => o \in core' \/ <<o, "connected">> \in announce'
               /\ o \in core' \ overtaken' => srv'[o].here \/ <<o, "disconnected">> \in announce'
               /\ srv'[o].here => <<o, "disconnected">> \notin announce'
               /\ o > conns' => ~srv'[o].here
    <3>1. CASE o = n
      BY <3>1, <2>1, <2>3
    <3>2. CASE o # n
      BY <3>2, <2>1, <2>3 DEF Table, ClientsInStep
    <3> QED BY <3>1, <3>2
  <2> QED BY <2>4 DEF Table, ClientsInStep
<1>3. ASSUME NEW n \in Conns, NEW e \in {"connected", "disconnected"}, OnClient(n, e) PROVE Table'
  <2>1. /\ <<n, e>> \in announce /\ announce' = announce \ {<<n, e>>} /\ UNCHANGED <<conns, srv>>
        /\ core' = IF e = "connected" THEN core \cup {n} ELSE core \ {n}
        /\ overtaken' = IF e = "connected" /\ ~srv[n].here /\ <<n, "disconnected">> \notin announce
                        THEN overtaken \cup {n} ELSE overtaken
    BY <1>3 DEF OnClient
  <2>2. ASSUME NEW o \in Conns
        PROVE  /\ srv'[o].here => o \in core' \/ <<o, "connected">> \in announce'
               /\ o \in core' \ overtaken' => srv'[o].here \/ <<o, "disconnected">> \in announce'
               /\ srv'[o].here => <<o, "disconnected">> \notin announce'
               /\ o > conns' => ~srv'[o].here
    <3>1. CASE o # n
      BY <3>1, <2>1 DEF Table, ClientsInStep
    <3>2. CASE o = n /\ e = "connected"
      BY <3>2, <2>1 DEF Table, ClientsInStep
    <3>3. CASE o = n /\ e = "disconnected"
      BY <3>3, <2>1 DEF Table, ClientsInStep
    <3> QED BY <3>1, <3>2, <3>3
  <2> QED BY <2>2 DEF Table, ClientsInStep
<1>4. CASE Restart
  <2>1. /\ announce' = {} /\ core' = {}
        /\ \A n \in Conns : ~srv'[n].here
    BY <1>4 DEF Restart, NewClient
  <2> QED BY <2>1 DEF Table, ClientsInStep
<1>5. ASSUME NEW n \in Conns, Serve(n) PROVE Table'
  <2>1. UNCHANGED <<conns, announce, core, overtaken>>
    BY <1>5, ServeCases
  <2>2. \A o \in Conns : srv'[o].here = srv[o].here
    <3>0. srv[n] \in SrvType /\ srv \in [Conns -> SrvType]
      BY DEF Shape
    <3>1. \E s : srv' = [srv EXCEPT ![n] = s] /\ s.here = srv[n].here
      <4>1. CASE Continues(n)
        <5>1. ReplyOnce(srv[n]).here = srv[n].here
          BY <3>0 DEF ReplyOnce, SrvType
        <5> QED BY <4>1, <5>1 DEF Continues
      <4>2. CASE Ignores(n)
        BY <4>2, <3>0 DEF Ignores
      <4>3. CASE Keeps(n)
        <5>1. PICK t : srv' = [srv EXCEPT ![n] =
                         [srv[n] EXCEPT !.recvBuff = Append(srv[n].recvBuff, msg[n]), !.total = t]]
          BY <4>3 DEF Keeps
        <5>2. [srv[n] EXCEPT !.recvBuff = Append(srv[n].recvBuff, msg[n]), !.total = t].here = srv[n].here
          BY <3>0 DEF SrvType
        <5> QED BY <5>1, <5>2
      <4>4. CASE Handles(n)
        <5>1. PICK k \in 1 .. MaxReply : srv' = [srv EXCEPT ![n] =
                [srv[n] EXCEPT !.recvBuff = <<>>, !.sendBuff = Tail(ReplyOf(msg[n].call, k)),
                               !.replying = (k # 1)]]
          BY <4>4 DEF Handles
        <5>2. [srv[n] EXCEPT !.recvBuff = <<>>, !.sendBuff = Tail(ReplyOf(msg[n].call, k)),
                             !.replying = (k # 1)].here = srv[n].here
          BY <3>0 DEF SrvType
        <5> QED BY <5>1, <5>2
      <4>5. CASE Refuses(n)
        <5>1. [srv[n] EXCEPT !.recvBuff = <<>>].here = srv[n].here
          BY <3>0 DEF SrvType
        <5> QED BY <4>5, <5>1 DEF Refuses
      <4> QED BY <1>5, <4>1, <4>2, <4>3, <4>4, <4>5, ServeCases
    <3> QED BY <3>0, <3>1
  <2> QED BY <1>0, <2>1, <2>2
<1>6. CASE UNCHANGED <<conns, announce, core, overtaken, srv>>
  BY <1>0, <1>6
<1> QED BY <1>1, <1>2, <1>3, <1>4, <1>5, <1>6
        DEF Next, ClientStep, ServerStep, Disconnect, StartCall, SendChunk, SendFails, TakeAck,
            ReplyRefused, ReplyTooLong, TakeFirst, TakeMore, Release, clientVars, serverVars, vars

\* In whatever order the events of a client are handled, the core's table has
\* the clients the server has, and no other except those whose connect event
\* was handled last.
THEOREM CoreFollowsServer == Spec => []ClientsInStep
<1>1. Init => Table
  <2>1. ~[NewClient EXCEPT !.here = FALSE].here
    BY DEF NewClient
  <2> QED BY <2>1 DEF Init, Table, ClientsInStep
<1>2. Table => ClientsInStep
  BY DEF Table
<1> QED BY <1>1, <1>2, InvInit, InvStep, TableStep, PTL DEF Spec
============================================================================
