---------------------------- MODULE CourierProofs ----------------------------
(***************************************************************************)
(* Proofs about the courier connection model (Courier.tla) for every value *)
(* of its constants.                                                       *)
(***************************************************************************)
EXTENDS Courier, SequenceTheorems, FiniteSetTheorems, TLAPS

-----------------------------------------------------------------------------
(* Facts about the frame sets.                                             *)

(* A frame the server writes with the send-message command carries one of *)
(* the payloads; this is what lets the handler's input be typed.           *)
LEMMA SendMessageCarriesPayload ==
    ASSUME CourierAssumption, NEW f \in ServerFrames, f.cmd = CommandSendMessage
    PROVE  f.payload \in Payloads
BY DEF ServerFrames, Frame, CourierAssumption, CommandSendMessage, CommandConnectAck

(* Appending a frame the client writes keeps the wire a sequence of client *)
(* frames.                                                                 *)
LEMMA AppendClientFrame ==
    ASSUME NEW w \in Seq(ClientFrames),
           NEW c \in {CommandConnect, CommandFilterTopics, CommandSetState, CommandKeepAlive},
           NEW t \in Tokens \cup {EmptyToken}
    PROVE  Append(w, [cmd |-> c, tok |-> t]) \in Seq(ClientFrames)
<1>1. [cmd |-> c, tok |-> t] \in ClientFrames
  BY DEF ClientFrames
<1>2. QED
  BY <1>1, AppendProperties

(* Reading the head of the inbox yields a server frame and leaves a        *)
(* sequence of server frames.                                              *)
LEMMA ReadInbox ==
    ASSUME NEW s \in Seq(ServerFrames), s # <<>>
    PROVE  Head(s) \in ServerFrames /\ Tail(s) \in Seq(ServerFrames)
BY HeadTailProperties

(* Filter and SetState keep the data types: they write a client frame or   *)
(* nothing.                                                                *)
LEMMA WriteCommandType ==
    ASSUME CourierAssumption, DataTypeOK,
           NEW c \in {CommandConnect, CommandFilterTopics, CommandSetState, CommandKeepAlive},
           NEW t \in Tokens \cup {EmptyToken},
           WriteCommand(c, t)
    PROVE  DataTypeOK'
<1>1. writes' \in 0..MaxWrites
  BY DEF WriteCommand, DataTypeOK
<1>2. wire' \in Seq(ClientFrames)
  <2>1. CASE wire' = Append(wire, [cmd |-> c, tok |-> t])
    BY <2>1, AppendClientFrame DEF DataTypeOK
  <2>2. CASE wire' = wire
    BY <2>2 DEF DataTypeOK
  <2> QED
    BY <2>1, <2>2 DEF WriteCommand
<1>3. lastErr' \in Errors
  BY DEF WriteCommand, Errors
<1> QED
  BY <1>1, <1>2, <1>3 DEF WriteCommand, DataTypeOK, loopVars

-----------------------------------------------------------------------------
(* Type correctness.                                                       *)

(* The sockets Connect's ack read and the loop's blocked read use are      *)
(* sockets the connection dialled: TypeOK alone does not say so, and       *)
(* without it the frame either of them reads has no type.                  *)
SockRefs ==
    /\ caller = "awaitAck" => conn \in Socks
    /\ loop = "blocked" => rsock \in Socks

TypeInv == TypeOK /\ SockRefs

(* Reading the head of one socket's inbox yields a server frame and leaves *)
(* every inbox a sequence of server frames.                                *)
LEMMA ReadSocket ==
    ASSUME NEW in \in [Socks -> Seq(ServerFrames)], NEW s \in Socks, in[s] # <<>>
    PROVE  /\ Head(in[s]) \in ServerFrames
           /\ [in EXCEPT ![s] = Tail(@)] \in [Socks -> Seq(ServerFrames)]
BY ReadInbox

LEMMA SockRefsInductive == TypeOK /\ SockRefs /\ [Next]_vars => SockRefs'
<1> SUFFICES ASSUME TypeOK, SockRefs, [Next]_vars PROVE SockRefs'
  OBVIOUS
<1> USE CourierAssumption DEF TypeOK, DataTypeOK, SockRefs, Socks
<1>1. CASE ConnectDial
  <2>1. CASE caller' = "awaitAck"
    <3>1. conn' = connects + 1 /\ connects < MaxConnects
      BY <1>1, <2>1 DEF ConnectDial
    <3>2. UNCHANGED <<loop, rsock>>
      BY <1>1 DEF ConnectDial, loopVars
    <3> QED
      BY <3>1, <3>2
  <2>2. CASE caller' # "awaitAck"
    BY <1>1, <2>2 DEF ConnectDial, loopVars
  <2> QED
    BY <2>1, <2>2
<1>2. CASE LoopRead
  BY <1>2 DEF LoopRead
<1>3. CASE ConnectAck \/ LoopReceive \/ LoopDispatch \/ LoopCheck
  BY <1>3 DEF ConnectAck, LoopReceive, LoopDispatch, LoopCheck, loopVars
<1>4. CASE SetMessageHandler \/ Filter \/ SetState \/ StartReadLoop \/ Cancel \/ Close
           \/ ServerSend \/ NetFail \/ UNCHANGED vars
  BY <1>4 DEF SetMessageHandler, Filter, SetState, WriteCommand, StartReadLoop, Cancel,
     Close, ServerSend, NetFail, vars, loopVars
<1> QED
  BY <1>1, <1>2, <1>3, <1>4 DEF Next, Caller, Loop, Server

LEMMA DataTypeInductive == TypeOK /\ SockRefs /\ [Next]_vars => DataTypeOK'
<1> SUFFICES ASSUME DataTypeOK, SockRefs, [Next]_vars PROVE DataTypeOK'
  BY DEF TypeOK
<1> USE CourierAssumption DEF DataTypeOK
<1>1. CASE SetMessageHandler
  BY <1>1 DEF SetMessageHandler, loopVars
<1>2. CASE ConnectDial
  <2>1. connects' \in 0..MaxConnects
    BY <1>2 DEF ConnectDial
  <2>2. CASE conn' = connects + 1 /\ sock' = [sock EXCEPT ![connects + 1] = "open"]
             /\ caller' = "awaitAck" /\ lastErr' = "none" /\ token # EmptyToken
             /\ wire' = Append(wire, [cmd |-> CommandConnect, tok |-> token])
    <3>1. wire' \in Seq(ClientFrames)
      BY <2>2, AppendClientFrame
    <3>2. conn' \in 0..MaxConnects /\ sock' \in [Socks -> SockStates]
      BY <1>2, <2>2 DEF ConnectDial, SockStates, Socks
    <3> QED
      BY <1>2, <2>1, <3>1, <3>2 DEF ConnectDial, loopVars, Errors
  <2>3. CASE UNCHANGED <<conn, sock, wire, caller>> /\ lastErr' \in Errors
    BY <1>2, <2>1, <2>3 DEF ConnectDial, loopVars
  <2> QED
    BY <1>2, <2>2, <2>3 DEF ConnectDial, Errors
<1>3. CASE ConnectAck
  <2>1. conn \in Socks
    BY <1>3 DEF ConnectAck, SockRefs
  <2>2. CASE sock[conn] \in {"broken", "closed"} /\ lastErr' = "Read"
             /\ UNCHANGED <<inbox, token, acked>>
    BY <1>3, <2>2 DEF ConnectAck, loopVars, Errors
  <2>3. CASE sock[conn] = "open" /\ inbox[conn] # <<>>
    <3>1. Head(inbox[conn]) \in ServerFrames
          /\ [inbox EXCEPT ![conn] = Tail(@)] \in [Socks -> Seq(ServerFrames)]
      BY <2>1, <2>3, ReadSocket
    <3>2. Head(inbox[conn]).tok \in Tokens \cup {EmptyToken}
      BY <3>1 DEF ServerFrames, Frame
    <3> QED
      BY <1>3, <2>3, <3>1, <3>2 DEF ConnectAck, loopVars, Errors
  <2> QED
    BY <1>3, <2>2, <2>3 DEF ConnectAck
<1>4. CASE Filter
  BY <1>4, WriteCommandType DEF Filter
<1>5. CASE SetState
  BY <1>5, WriteCommandType DEF SetState
<1>6. CASE StartReadLoop \/ Cancel \/ LoopCheck
  BY <1>6 DEF StartReadLoop, Cancel, LoopCheck, loopVars
<1>7. CASE Close
  BY <1>7 DEF Close, loopVars, SockStates
<1>8. CASE LoopRead
  BY <1>8 DEF LoopRead
<1>9. CASE LoopReceive
  <2>1. rsock \in Socks
    BY <1>9 DEF LoopReceive, SockRefs
  <2>2. CASE sock[rsock] # "open"
    BY <1>9, <2>2 DEF LoopReceive
  <2>3. CASE sock[rsock] = "open" /\ inbox[rsock] # <<>>
    <3>1. Head(inbox[rsock]) \in ServerFrames
          /\ [inbox EXCEPT ![rsock] = Tail(@)] \in [Socks -> Seq(ServerFrames)]
      BY <2>1, <2>3, ReadSocket
    <3>2. frame' \in ServerFrames \cup {NoFrame}
      BY <1>9, <2>3, <3>1 DEF LoopReceive
    <3>3. kaSeen' \in Nat
      BY <1>9, <2>3 DEF LoopReceive
    <3>4. loop' \in {"done", "dispatch"} /\ rsock' = 0
      BY <1>9, <2>3 DEF LoopReceive
    <3>5. inbox' = [inbox EXCEPT ![rsock] = Tail(@)]
      BY <1>9, <2>3 DEF LoopReceive
    <3> QED
      BY <1>9, <3>1, <3>2, <3>3, <3>4, <3>5 DEF LoopReceive
  <2> QED
    BY <1>9, <2>2, <2>3 DEF LoopReceive
<1>10. CASE LoopDispatch
  <2>1. frame' \in ServerFrames \cup {NoFrame}
    BY <1>10 DEF LoopDispatch
  <2>2. handled' \in Seq(Payloads) /\ afterCancel' \in Nat
    <3>1. CASE frame.cmd = CommandSendMessage /\ handler
      <4>1. frame \in ServerFrames
        BY <3>1 DEF NoFrame, Frame, CommandSendMessage
      <4>2. frame.payload \in Payloads
        BY <3>1, <4>1, SendMessageCarriesPayload
      <4>3. handled' = Append(handled, frame.payload)
        BY <1>10, <3>1 DEF LoopDispatch, CommandSendMessage, CommandKeepAlive
      <4>4. afterCancel' \in {afterCancel, afterCancel + 1}
        BY <1>10, <3>1 DEF LoopDispatch, CommandSendMessage, CommandKeepAlive
      <4> QED
        BY <4>2, <4>3, <4>4, AppendProperties
    <3>2. CASE ~(frame.cmd = CommandSendMessage /\ handler)
      BY <1>10, <3>2 DEF LoopDispatch
    <3> QED
      BY <3>1, <3>2
  <2>3. wire' \in Seq(ClientFrames)
    <3>1. CASE wire' = Append(wire, [cmd |-> CommandKeepAlive, tok |-> EmptyToken])
      BY <3>1, AppendClientFrame
    <3>2. CASE wire' = wire
      BY <3>2
    <3> QED
      BY <1>10, <3>1, <3>2 DEF LoopDispatch
  <2>4. loop' \in {"check", "done"}
    BY <1>10 DEF LoopDispatch
  <2> QED
    BY <1>10, <2>1, <2>2, <2>3, <2>4 DEF LoopDispatch
<1>11. CASE ServerSend
  <2>1. PICK s \in Socks, f \in ServerFrames :
            sock[s] = "open" /\ inbox' = [inbox EXCEPT ![s] = Append(@, f)]
    BY <1>11 DEF ServerSend
  <2>2. inbox' \in [Socks -> Seq(ServerFrames)]
    BY <2>1, AppendProperties
  <2> QED
    BY <1>11, <2>2 DEF ServerSend, loopVars
<1>12. CASE NetFail
  BY <1>12 DEF NetFail, loopVars, SockStates
<1>13. CASE UNCHANGED vars
  BY <1>13 DEF vars
<1> QED
  BY <1>1, <1>2, <1>3, <1>4, <1>5, <1>6, <1>7, <1>8, <1>9, <1>10, <1>11, <1>12, <1>13
     DEF Next, Caller, Loop, Server

(* Every state the courier connection reaches has the types TypeOK gives  *)
(* its variables, whatever the constants.                                  *)
THEOREM TypeCorrect == Spec => []TypeOK
<1> USE CourierAssumption
<1>1. Init => TypeInv
  <2>1. Init => FlagsTypeOK
    BY Zenon DEF Init, FlagsTypeOK
  <2>2. Init => DataTypeOK
    BY EmptySeq DEF Init, DataTypeOK, NoFrame, Frame, SockStates, Errors, Socks
  <2>3. Init => SockRefs
    BY DEF Init, SockRefs
  <2>4. QED
    BY <2>1, <2>2, <2>3 DEF TypeInv, TypeOK
<1>2. TypeOK /\ [Next]_vars => FlagsTypeOK'
  BY Zenon DEF TypeOK, FlagsTypeOK, Next, Caller, Loop, Server, vars, loopVars,
     SetMessageHandler, ConnectDial, ConnectAck, Filter, SetState, WriteCommand,
     StartReadLoop, Cancel, Close, LoopCheck, LoopRead, LoopReceive, LoopDispatch,
     ServerSend, NetFail
<1>3. TypeInv /\ [Next]_vars => TypeInv'
  BY <1>2, DataTypeInductive, SockRefsInductive DEF TypeInv, TypeOK
<1>4. QED
  BY <1>1, <1>3, PTL DEF Spec, TypeInv

-----------------------------------------------------------------------------
(* Cancelling the read loop.                                               *)

(* The strengthening of CancelStopsWithinOneFrame: a handler call after    *)
(* the cancel leaves the loop about to look at ctx.Done() (or past it), so *)
(* it cannot read, and so cannot dispatch, again.                          *)
CancelInv ==
    /\ afterCancel \in {0, 1}
    /\ afterCancel = 1 => ctxDone /\ loop \in {"check", "done"}

LEMMA CancelInvInductive == TypeOK /\ CancelInv /\ [Next]_vars => CancelInv'
<1> SUFFICES ASSUME TypeOK, CancelInv, [Next]_vars PROVE CancelInv'
  OBVIOUS
<1>1. CASE StartReadLoop
  BY <1>1 DEF StartReadLoop, CancelInv
<1>2. CASE Cancel
  BY <1>2 DEF Cancel, CancelInv, loopVars
<1>3. CASE LoopCheck
  BY <1>3, Zenon DEF LoopCheck, CancelInv
<1>4. CASE LoopRead \/ LoopReceive
  BY <1>4 DEF LoopRead, LoopReceive, CancelInv
<1>5. CASE LoopDispatch
  <2>1. afterCancel = 0
    BY <1>5 DEF LoopDispatch, CancelInv
  <2>2. CASE ctxDone
    BY <1>5, <2>1, <2>2 DEF LoopDispatch, CancelInv
  <2>3. CASE ~ctxDone
    <3>1. afterCancel' = 0
      BY <1>5, <2>1, <2>3 DEF LoopDispatch
    <3> QED
      BY <3>1 DEF CancelInv
  <2> QED
    BY <2>2, <2>3
<1>6. CASE SetMessageHandler \/ ConnectDial \/ ConnectAck \/ Filter \/ SetState \/ Close
         \/ ServerSend \/ NetFail \/ UNCHANGED vars
  BY <1>6 DEF SetMessageHandler, ConnectDial, ConnectAck, Filter, SetState, WriteCommand,
     Close, ServerSend, NetFail, vars, loopVars, CancelInv
<1> QED
  BY <1>1, <1>2, <1>3, <1>4, <1>5, <1>6 DEF Next, Caller, Loop, Server

(* After the read loop's context is cancelled the message handler is      *)
(* called at most once (ReadLoop's ctx.Done() check before each read),    *)
(* whatever the bounds, the payloads and the frames the server sends.     *)
THEOREM CancelBound == Spec => []CancelStopsWithinOneFrame
<1>1. Init => CancelInv
  BY DEF Init, CancelInv
<1>2. CancelInv => CancelStopsWithinOneFrame
  BY DEF CancelInv, CancelStopsWithinOneFrame
<1> QED
  BY <1>1, <1>2, TypeCorrect, CancelInvInductive, PTL DEF Spec

-----------------------------------------------------------------------------
(* Answering keep-alives.                                                  *)

(* The keep-alive frames of a sequence of client frames are finitely many. *)
LEMMA KeepAlivesInNat ==
    ASSUME NEW w \in Seq(ClientFrames)
    PROVE  /\ IsFiniteSet({i \in DOMAIN w : w[i].cmd = CommandKeepAlive})
           /\ KeepAlivesIn(w) \in Nat
<1>1. {i \in DOMAIN w : w[i].cmd = CommandKeepAlive} \subseteq 1..Len(w)
  OBVIOUS
<1>2. IsFiniteSet({i \in DOMAIN w : w[i].cmd = CommandKeepAlive})
  BY <1>1, FS_Interval, FS_Subset
<1> QED
  BY <1>2, FS_CardinalityType DEF KeepAlivesIn

(* Appending a client frame adds one keep-alive exactly when the frame is *)
(* a keep-alive.                                                          *)
LEMMA KeepAlivesAppend ==
    ASSUME NEW w \in Seq(ClientFrames), NEW x \in ClientFrames
    PROVE  KeepAlivesIn(Append(w, x))
             = KeepAlivesIn(w) + (IF x.cmd = CommandKeepAlive THEN 1 ELSE 0)
<1> DEFINE S == {i \in DOMAIN w : w[i].cmd = CommandKeepAlive}
           T == {i \in DOMAIN Append(w, x) : Append(w, x)[i].cmd = CommandKeepAlive}
<1>1. IsFiniteSet(S) /\ Cardinality(S) \in Nat
  BY KeepAlivesInNat DEF KeepAlivesIn
<1>2. Len(w) + 1 \notin S
  OBVIOUS
<1>3. CASE x.cmd = CommandKeepAlive
  <2>1. T = S \cup {Len(w) + 1}
    BY <1>3
  <2>2. Cardinality(S \cup {Len(w) + 1}) = Cardinality(S) + 1
    BY <1>1, <1>2, FS_AddElement
  <2> QED
    BY <1>3, <2>1, <2>2 DEF KeepAlivesIn
<1>4. CASE x.cmd # CommandKeepAlive
  <2>1. T = S
    BY <1>4
  <2>2. KeepAlivesIn(Append(w, x)) = Cardinality(S)
    BY <2>1 DEF KeepAlivesIn
  <2>3. (IF x.cmd = CommandKeepAlive THEN 1 ELSE 0) = 0
    BY <1>4
  <2>4. KeepAlivesIn(w) = Cardinality(S)
    BY DEF KeepAlivesIn
  <2> QED
    BY <2>2, <2>3, <2>4, <1>1
<1> QED
  BY <1>3, <1>4

(* The strengthening of KeepAliveAnswered: while ReadLoop dispatches a     *)
(* keep-alive it owes exactly that one reply.                              *)
KeepAliveInv ==
    /\ loop \in {"idle", "check", "read", "blocked"} => KeepAliveReplies = kaSeen
    /\ loop = "dispatch" =>
         KeepAliveReplies + (IF frame.cmd = CommandKeepAlive THEN 1 ELSE 0) = kaSeen

LEMMA KeepAliveInvInductive == TypeOK /\ KeepAliveInv /\ [Next]_vars => KeepAliveInv'
<1> SUFFICES ASSUME TypeOK, KeepAliveInv, [Next]_vars PROVE KeepAliveInv'
  OBVIOUS
<1> USE DEF TypeOK, DataTypeOK
<1>1. ASSUME NEW c \in {CommandConnect, CommandFilterTopics, CommandSetState},
             NEW t \in Tokens \cup {EmptyToken}
      PROVE  KeepAlivesIn(Append(wire, [cmd |-> c, tok |-> t])) = KeepAliveReplies
  <2>1. [cmd |-> c, tok |-> t] \in ClientFrames
    BY DEF ClientFrames
  <2>2. [cmd |-> c, tok |-> t].cmd # CommandKeepAlive
    BY DEF CommandConnect, CommandFilterTopics, CommandSetState, CommandKeepAlive
  <2>3. KeepAlivesIn(Append(wire, [cmd |-> c, tok |-> t])) = KeepAlivesIn(wire) + 0
    BY <2>1, <2>2, KeepAlivesAppend
  <2>4. KeepAlivesIn(wire) \in Nat
    BY KeepAlivesInNat
  <2> QED
    BY <2>3, <2>4 DEF KeepAliveReplies
<1>2. CASE Filter \/ SetState
  <2>1. KeepAliveReplies' = KeepAliveReplies
    <3>1. CASE wire' = wire
      BY <3>1 DEF KeepAliveReplies
    <3>2. CASE wire' = Append(wire, [cmd |-> CommandFilterTopics, tok |-> token])
      BY <3>2, <1>1 DEF KeepAliveReplies
    <3>3. CASE wire' = Append(wire, [cmd |-> CommandSetState, tok |-> EmptyToken])
      BY <3>3, <1>1 DEF KeepAliveReplies
    <3> QED
      BY <1>2, <3>1, <3>2, <3>3 DEF Filter, SetState, WriteCommand
  <2> QED
    BY <1>2, <2>1 DEF Filter, SetState, WriteCommand, loopVars, KeepAliveInv
<1>3. CASE ConnectDial
  <2>1. KeepAliveReplies' = KeepAliveReplies
    <3>1. CASE wire' = wire
      BY <3>1 DEF KeepAliveReplies
    <3>2. CASE wire' = Append(wire, [cmd |-> CommandConnect, tok |-> token])
      BY <3>2, <1>1 DEF KeepAliveReplies
    <3> QED
      BY <1>3, <3>1, <3>2 DEF ConnectDial
  <2> QED
    BY <1>3, <2>1 DEF ConnectDial, loopVars, KeepAliveInv
<1>4. CASE LoopReceive
  <2>1. KeepAliveReplies' = KeepAliveReplies
    BY <1>4 DEF LoopReceive, KeepAliveReplies
  <2>2. KeepAliveReplies = kaSeen
    BY <1>4 DEF LoopReceive, KeepAliveInv
  <2> QED
    BY <1>4, <2>1, <2>2 DEF LoopReceive, KeepAliveInv
<1>5. CASE LoopDispatch
  <2>1. KeepAliveReplies \in Nat
    BY KeepAlivesInNat DEF KeepAliveReplies
  <2>2. CASE frame.cmd = CommandKeepAlive /\ WriteOK
    <3>1. [cmd |-> CommandKeepAlive, tok |-> EmptyToken] \in ClientFrames
      BY DEF ClientFrames
    <3>2. wire' = Append(wire, [cmd |-> CommandKeepAlive, tok |-> EmptyToken])
      BY <1>5, <2>2 DEF LoopDispatch, CommandKeepAlive, CommandSendMessage
    <3>3. KeepAliveReplies' = KeepAliveReplies + 1
      BY <3>1, <3>2, KeepAlivesAppend DEF KeepAliveReplies
    <3> QED
      BY <1>5, <2>1, <2>2, <3>3 DEF LoopDispatch, KeepAliveInv
  <2>3. CASE frame.cmd = CommandKeepAlive /\ ~WriteOK
    BY <1>5, <2>3 DEF LoopDispatch, KeepAliveInv, CommandKeepAlive, CommandSendMessage
  <2>4. CASE frame.cmd # CommandKeepAlive
    BY <1>5, <2>1, <2>4 DEF LoopDispatch, KeepAliveInv, KeepAliveReplies
  <2> QED
    BY <2>2, <2>3, <2>4
<1>6. CASE LoopCheck \/ StartReadLoop \/ LoopRead
  BY <1>6 DEF LoopCheck, StartReadLoop, LoopRead, KeepAliveInv, KeepAliveReplies
<1>7. CASE SetMessageHandler \/ ConnectAck \/ Cancel \/ Close \/ ServerSend \/ NetFail
           \/ UNCHANGED vars
  BY <1>7 DEF SetMessageHandler, ConnectAck, Cancel, Close, ServerSend, NetFail, vars,
     loopVars, KeepAliveInv, KeepAliveReplies
<1> QED
  BY <1>2, <1>3, <1>4, <1>5, <1>6, <1>7 DEF Next, Caller, Loop, Server

(* Every keep-alive ReadLoop has read is answered by one keep-alive frame  *)
(* before ReadLoop reads again (ReadLoop's keep-alive case), for every     *)
(* value of the constants.                                                 *)
THEOREM KeepAlivesAnswered == Spec => []KeepAliveAnswered
<1>1. Init => KeepAliveInv
  <2> SUFFICES ASSUME Init PROVE KeepAliveInv
    OBVIOUS
  <2>1. KeepAliveReplies = 0
    BY FS_EmptySet DEF Init, KeepAliveReplies, KeepAlivesIn
  <2> QED
    BY <2>1 DEF Init, KeepAliveInv
<1>2. KeepAliveInv => KeepAliveAnswered
  BY DEF KeepAliveInv, KeepAliveAnswered
<1> QED
  BY <1>1, <1>2, TypeCorrect, KeepAliveInvInductive, PTL DEF Spec

=====
