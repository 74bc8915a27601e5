------------------------------- MODULE Courier -------------------------------
(***************************************************************************)
(* The APNS courier connection of imessage-client/messaging/apns           *)
(* (connection.go): one Connection object, the caller's thread that        *)
(* drives its public API (Connect, SetMessageHandler, Filter, SetState,    *)
(* Close, and the context cancel of the read loop), the ReadLoop goroutine *)
(* and the courier server, which writes frames into the socket and may     *)
(* break it.                                                               *)
(*                                                                         *)
(* A frame is a record; its bytes are the business of WireCodec.  A frame  *)
(* whose TLV lengths do not add up is the command Malformed: reading it    *)
(* fails, as UnmarshalBinaryStream does.                                   *)
(*                                                                         *)
(* Every dial opens a socket of its own, numbered by the Connect call that *)
(* opened it; c.conn names the latest.  readPayload reads c.conn when it   *)
(* is called and then blocks on that socket, whatever c.conn becomes.      *)
(***************************************************************************)
EXTENDS Integers, Sequences, FiniteSets

CONSTANTS
    Payloads,     \* payloads of inbound send-message frames (model values)
    Tokens,       \* non-empty push tokens (model values)
    EmptyToken,   \* the empty token []byte{}
    NoPayload,    \* the absent field value of frames that carry no payload
    MaxConnects,  \* bound on Connect calls
    MaxFrames,    \* bound on frames the server writes
    MaxWrites,    \* bound on Filter / SetState calls
    InboundCommands \* command ids (other than connect-ack and send-message)
                    \* of the frames the server writes

\* Command identifiers (binary.go CommandID).
CommandConnect         == 7
CommandConnectAck      == 8
CommandFilterTopics    == 9
CommandSendMessage     == 10
CommandSendMessageAck  == 11
CommandKeepAlive       == 12
CommandKeepAliveAck    == 13
CommandFilterTopicsAck == 14
CommandSetState        == 20
\* Any other command id, logged and ignored by ReadLoop.
CommandUnknown         == 99
\* Not a command id: a frame whose declared lengths overrun its bytes.
Malformed              == -1

ASSUME CourierAssumption ==
    /\ EmptyToken \notin Tokens
    /\ NoPayload \notin Payloads
    /\ MaxConnects \in Nat /\ MaxFrames \in Nat /\ MaxWrites \in Nat
    /\ InboundCommands \subseteq Int \ {CommandConnectAck, CommandSendMessage}

\* Status byte of a connect-ack: 0 accepted, anything else rejected.
AckStatuses == {0, 2}

Frame(cmd) == [cmd |-> cmd, status |-> 0, tok |-> EmptyToken, payload |-> NoPayload]

\* The loop's local payload variable when it holds no frame (command id 0).
NoFrame == Frame(0)

\* Frames the server can write into the socket.
ServerFrames ==
    {[cmd |-> CommandConnectAck, status |-> s, tok |-> t, payload |-> NoPayload] :
        s \in AckStatuses, t \in Tokens \cup {EmptyToken}}
    \cup {[cmd |-> CommandSendMessage, status |-> 0, tok |-> EmptyToken, payload |-> p] :
        p \in Payloads}
    \cup {Frame(c) : c \in InboundCommands}

\* Frames the client writes: the command and the token field it carries.
ClientFrames ==
    [cmd : {CommandConnect, CommandFilterTopics, CommandSetState, CommandKeepAlive},
     tok : Tokens \cup {EmptyToken}]

\* Errors the caller's last call returned ("none" for success).
Errors == {"none", "MissingCert", "NoToken", "Dial", "Read", "Unexpected",
           "Rejected", "NotConnected", "Write"}

VARIABLES
    identity,  \* c.privateKey # nil, c.deviceCert # nil
    token,     \* c.token
    conn,      \* c.conn: 0 (nil) or the socket it holds
    sock,      \* the state of each socket
    handler,   \* c.messageHandler # nil
    inbox,     \* each socket's frames that the server wrote and nobody has read yet
    wire,      \* frames the client wrote, in order
    caller,    \* "idle", or "awaitAck" inside Connect's read of the ack
    lastErr,   \* what the caller's last call returned
    loop,      \* ReadLoop goroutine: "idle" (not started), "check", "read",
               \*   "blocked" (inside readPayload's read), "dispatch", "done"
    rsock,     \* the socket readPayload took from c.conn (0: none)
    frame,     \* the frame ReadLoop read and is dispatching
    ctxDone,   \* the read loop's context is cancelled
    handled,   \* payloads handed to the message handler, in order
    acked,     \* the current socket's connect-ack was accepted (ghost)
    kaSeen,    \* keep-alive frames ReadLoop has read (ghost)
    afterCancel, \* handler calls made after ctxDone (ghost)
    connects,  \* Connect calls so far (bound)
    sent,      \* frames the server has written (bound)
    writes     \* Filter / SetState calls so far (bound)

vars == <<identity, token, conn, sock, handler, inbox, wire, caller, lastErr, loop, rsock,
          frame, ctxDone, handled, acked, kaSeen, afterCancel, connects, sent, writes>>

loopVars == <<loop, rsock, frame, kaSeen, afterCancel>>

\* Sockets, one per Connect call that may dial.
Socks == 1..MaxConnects

\* A socket not yet dialled, open, broken by the network, closed by Close.
SockStates == {"unopened", "open", "broken", "closed"}

-----------------------------------------------------------------------------
(* NewConnection(privateKey, deviceCert, token): any of the three may be   *)
(* absent; the session's handshaker passes a nil certificate and an empty  *)
(* token.                                                                  *)
Init ==
    /\ identity \in [key : BOOLEAN, cert : BOOLEAN]
    /\ token \in Tokens \cup {EmptyToken}
    /\ conn = 0
    /\ sock = [s \in Socks |-> "unopened"]
    /\ handler = FALSE
    /\ inbox = [s \in Socks |-> <<>>]
    /\ wire = <<>>
    /\ caller = "idle"
    /\ lastErr = "none"
    /\ loop = "idle"
    /\ rsock = 0
    /\ frame = NoFrame
    /\ ctxDone = FALSE
    /\ handled = <<>>
    /\ acked = FALSE
    /\ kaSeen = 0
    /\ afterCancel = 0
    /\ connects = 0
    /\ sent = 0
    /\ writes = 0

\* c.write(data): fails on a nil conn and on a socket that is not open.
WriteOK == conn # 0 /\ sock[conn] = "open"

-----------------------------------------------------------------------------
(* Caller actions.                                                         *)

SetMessageHandler ==
    /\ caller = "idle"
    /\ handler' = TRUE
    /\ UNCHANGED <<identity, token, conn, sock, inbox, wire, caller, lastErr, loopVars,
                   ctxDone, handled, acked, connects, sent, writes>>

(* Connect up to the write of the connect command: the identity checks,    *)
(* the dial, c.conn = conn (the socket c.conn held before stays as it is,  *)
(* open or not), and the write of the signed nonce.  A failed dial leaves  *)
(* c.conn as it was.                                                       *)
ConnectDial ==
    /\ caller = "idle"
    /\ connects < MaxConnects
    /\ connects' = connects + 1
    /\ \/ /\ ~(identity.key /\ identity.cert)
          /\ lastErr' = "MissingCert"
          /\ UNCHANGED <<conn, sock, wire, caller, acked>>
       \/ /\ identity.key /\ identity.cert
          /\ token = EmptyToken
          /\ lastErr' = "NoToken"
          /\ UNCHANGED <<conn, sock, wire, caller, acked>>
       \/ /\ identity.key /\ identity.cert /\ token # EmptyToken
          /\ lastErr' = "Dial"
          /\ UNCHANGED <<conn, sock, wire, caller, acked>>
       \/ /\ identity.key /\ identity.cert /\ token # EmptyToken
          /\ conn' = connects + 1
          /\ sock' = [sock EXCEPT ![connects + 1] = "open"]
          /\ acked' = FALSE
          /\ wire' = Append(wire, [cmd |-> CommandConnect, tok |-> token])
          /\ caller' = "awaitAck"
          /\ lastErr' = "none"
    /\ UNCHANGED <<identity, token, handler, inbox, loopVars, ctxDone, handled, sent, writes>>

(* Connect's blocking read of exactly one reply frame from c.conn, and its *)
(* checks.                                                                 *)
ConnectAck ==
    /\ caller = "awaitAck"
    /\ caller' = "idle"
    /\ \/ /\ sock[conn] \in {"broken", "closed"}
          /\ lastErr' = "Read"
          /\ UNCHANGED <<inbox, token, acked>>
       \/ /\ sock[conn] = "open"
          /\ inbox[conn] # <<>>
          /\ inbox' = [inbox EXCEPT ![conn] = Tail(@)]
          /\ LET f == Head(inbox[conn]) IN
               \/ /\ f.cmd = Malformed
                  /\ lastErr' = "Read"
                  /\ UNCHANGED <<token, acked>>
               \/ /\ f.cmd \notin {Malformed, CommandConnectAck}
                  /\ lastErr' = "Unexpected"
                  /\ UNCHANGED <<token, acked>>
               \/ /\ f.cmd = CommandConnectAck
                  /\ f.status # 0
                  /\ lastErr' = "Rejected"
                  /\ UNCHANGED <<token, acked>>
               \/ /\ f.cmd = CommandConnectAck
                  /\ f.status = 0
                  /\ token' = IF f.tok # EmptyToken THEN f.tok ELSE token
                  /\ acked' = TRUE
                  /\ lastErr' = "none"
    /\ UNCHANGED <<identity, conn, sock, handler, wire, loopVars, ctxDone, handled, connects,
                   sent, writes>>

(* Filter and SetState: the only guard is c.conn # nil; the frame is then  *)
(* written if the socket takes it.                                         *)
WriteCommand(cmd, tok) ==
    /\ caller = "idle"
    /\ writes < MaxWrites
    /\ writes' = writes + 1
    /\ \/ /\ conn = 0
          /\ lastErr' = "NotConnected"
          /\ UNCHANGED wire
       \/ /\ conn # 0
          /\ sock[conn] \in {"broken", "closed"}
          /\ lastErr' = "Write"
          /\ UNCHANGED wire
       \/ /\ WriteOK
          /\ wire' = Append(wire, [cmd |-> cmd, tok |-> tok])
          /\ lastErr' = "none"
    /\ UNCHANGED <<identity, token, conn, sock, handler, inbox, caller, loopVars, ctxDone,
                   handled, acked, connects, sent>>

Filter == WriteCommand(CommandFilterTopics, token)

SetState == WriteCommand(CommandSetState, EmptyToken)

\* go conn.ReadLoop(ctx)
StartReadLoop ==
    /\ caller = "idle"
    /\ loop = "idle"
    /\ loop' = "check"
    /\ UNCHANGED <<identity, token, conn, sock, handler, inbox, wire, caller, lastErr, rsock,
                   frame, ctxDone, handled, acked, kaSeen, afterCancel, connects, sent, writes>>

\* The cancel function of the read loop's context.
Cancel ==
    /\ caller = "idle"
    /\ ctxDone' = TRUE
    /\ UNCHANGED <<identity, token, conn, sock, handler, inbox, wire, caller, lastErr,
                   loopVars, handled, acked, connects, sent, writes>>

(* Close: closes the socket c.conn holds, if any; c.conn itself stays set, *)
(* and a socket an earlier Connect opened is not touched.                  *)
Close ==
    /\ caller = "idle"
    /\ sock' = IF conn = 0 THEN sock ELSE [sock EXCEPT ![conn] = "closed"]
    /\ UNCHANGED <<identity, token, conn, handler, inbox, wire, caller, lastErr, loopVars,
                   ctxDone, handled, acked, connects, sent, writes>>

-----------------------------------------------------------------------------
(* The ReadLoop goroutine.                                                 *)

\* Mutant: the loop never looks at its context.
LoopCheckIgnoringCtx ==
    /\ loop = "check"
    /\ loop' = "read"
    /\ UNCHANGED <<identity, token, conn, sock, handler, inbox, wire, caller, lastErr, rsock,
                   frame, ctxDone, handled, acked, kaSeen, afterCancel, connects, sent, writes>>

\* The non-blocking check of ctx.Done() at the top of each iteration.
LoopCheck ==
    /\ loop = "check"
    /\ loop' = IF ctxDone THEN "done" ELSE "read"
    /\ UNCHANGED <<identity, token, conn, sock, handler, inbox, wire, caller, lastErr, rsock,
                   frame, ctxDone, handled, acked, kaSeen, afterCancel, connects, sent, writes>>

(* readPayload: ErrNotConnected on a nil c.conn; otherwise the read of a   *)
(* frame from the socket c.conn holds now.                                 *)
LoopRead ==
    /\ loop = "read"
    /\ \/ /\ conn = 0
          /\ loop' = "done"
          /\ UNCHANGED rsock
       \/ /\ conn # 0
          /\ loop' = "blocked"
          /\ rsock' = conn
    /\ UNCHANGED <<identity, token, conn, sock, handler, inbox, wire, caller, lastErr, frame,
                   ctxDone, handled, acked, kaSeen, afterCancel, connects, sent, writes>>

\* Mutant: a read on a locally closed socket blocks instead of failing.
LoopReceiveBlockingOnClose ==
    /\ loop = "blocked"
    /\ \/ /\ sock[rsock] = "broken"
          /\ loop' = "done"
          /\ UNCHANGED <<inbox, frame, kaSeen>>
       \/ /\ sock[rsock] = "open"
          /\ inbox[rsock] # <<>>
          /\ inbox' = [inbox EXCEPT ![rsock] = Tail(@)]
          /\ IF Head(inbox[rsock]).cmd = Malformed
               THEN /\ loop' = "done"
                    /\ UNCHANGED <<frame, kaSeen>>
               ELSE /\ loop' = "dispatch"
                    /\ frame' = Head(inbox[rsock])
                    /\ kaSeen' = kaSeen + (IF Head(inbox[rsock]).cmd = CommandKeepAlive THEN 1 ELSE 0)
    /\ rsock' = 0
    /\ UNCHANGED <<identity, token, conn, sock, handler, wire, caller, lastErr, ctxDone,
                   handled, acked, afterCancel, connects, sent, writes>>

(* UnmarshalBinaryStream on that socket: fails once the socket is closed   *)
(* or broken and on a malformed frame; otherwise blocks until a frame is   *)
(* there.                                                                  *)
LoopReceive ==
    /\ loop = "blocked"
    /\ \/ /\ sock[rsock] # "open"
          /\ loop' = "done"
          /\ UNCHANGED <<inbox, frame, kaSeen>>
       \/ /\ sock[rsock] = "open"
          /\ inbox[rsock] # <<>>
          /\ inbox' = [inbox EXCEPT ![rsock] = Tail(@)]
          /\ IF Head(inbox[rsock]).cmd = Malformed
               THEN /\ loop' = "done"
                    /\ UNCHANGED <<frame, kaSeen>>
               ELSE /\ loop' = "dispatch"
                    /\ frame' = Head(inbox[rsock])
                    /\ kaSeen' = kaSeen + (IF Head(inbox[rsock]).cmd = CommandKeepAlive THEN 1 ELSE 0)
    /\ rsock' = 0
    /\ UNCHANGED <<identity, token, conn, sock, handler, wire, caller, lastErr, ctxDone,
                   handled, acked, afterCancel, connects, sent, writes>>

\* Mutant: keep-alive falls into the case of the ignored acknowledgements.
LoopDispatchIgnoringKeepAlive ==
    /\ loop = "dispatch"
    /\ \/ /\ frame.cmd = CommandSendMessage
          /\ loop' = "check"
          /\ IF handler
               THEN /\ handled' = Append(handled, frame.payload)
                    /\ afterCancel' = afterCancel + (IF ctxDone THEN 1 ELSE 0)
               ELSE UNCHANGED <<handled, afterCancel>>
          /\ UNCHANGED wire
       \/ /\ frame.cmd # CommandSendMessage
          /\ loop' = "check"
          /\ UNCHANGED <<wire, handled, afterCancel>>
    /\ frame' = NoFrame
    /\ UNCHANGED <<identity, token, conn, sock, handler, inbox, caller, lastErr, rsock,
                   ctxDone, acked, kaSeen, connects, sent, writes>>

\* Mutant: the handler is given the whole frame instead of its payload field.
LoopDispatchHandingFrame ==
    /\ loop = "dispatch"
    /\ \/ /\ frame.cmd = CommandSendMessage
          /\ loop' = "check"
          /\ IF handler
               THEN /\ handled' = Append(handled, frame)
                    /\ afterCancel' = afterCancel + (IF ctxDone THEN 1 ELSE 0)
               ELSE UNCHANGED <<handled, afterCancel>>
          /\ UNCHANGED wire
       \/ /\ frame.cmd = CommandKeepAlive
          /\ IF WriteOK
               THEN /\ wire' = Append(wire, [cmd |-> CommandKeepAlive, tok |-> EmptyToken])
                    /\ loop' = "check"
               ELSE /\ loop' = "done"
                    /\ UNCHANGED wire
          /\ UNCHANGED <<handled, afterCancel>>
       \/ /\ frame.cmd \notin {CommandSendMessage, CommandKeepAlive}
          /\ loop' = "check"
          /\ UNCHANGED <<wire, handled, afterCancel>>
    /\ frame' = NoFrame
    /\ UNCHANGED <<identity, token, conn, sock, handler, inbox, caller, lastErr, rsock,
                   ctxDone, acked, kaSeen, connects, sent, writes>>

(* The switch on the command id: a send-message goes to the handler (its   *)
(* error is only logged), a keep-alive is answered at once and a failed    *)
(* answer ends the loop; everything else is ignored.                       *)
LoopDispatch ==
    /\ loop = "dispatch"
    /\ \/ /\ frame.cmd = CommandSendMessage
          /\ loop' = "check"
          /\ IF handler
               THEN /\ handled' = Append(handled, frame.payload)
                    /\ afterCancel' = afterCancel + (IF ctxDone THEN 1 ELSE 0)
               ELSE UNCHANGED <<handled, afterCancel>>
          /\ UNCHANGED wire
       \/ /\ frame.cmd = CommandKeepAlive
          /\ IF WriteOK
               THEN /\ wire' = Append(wire, [cmd |-> CommandKeepAlive, tok |-> EmptyToken])
                    /\ loop' = "check"
               ELSE /\ loop' = "done"
                    /\ UNCHANGED wire
          /\ UNCHANGED <<handled, afterCancel>>
       \/ /\ frame.cmd \notin {CommandSendMessage, CommandKeepAlive}
          /\ loop' = "check"
          /\ UNCHANGED <<wire, handled, afterCancel>>
    /\ frame' = NoFrame
    /\ UNCHANGED <<identity, token, conn, sock, handler, inbox, caller, lastErr, rsock,
                   ctxDone, acked, kaSeen, connects, sent, writes>>

-----------------------------------------------------------------------------
(* The courier server and the network.                                     *)

ServerSend ==
    /\ sent < MaxFrames
    /\ sent' = sent + 1
    /\ \E s \in Socks, f \in ServerFrames :
          /\ sock[s] = "open"
          /\ inbox' = [inbox EXCEPT ![s] = Append(@, f)]
    /\ UNCHANGED <<identity, token, conn, sock, handler, wire, caller, lastErr, loopVars,
                   ctxDone, handled, acked, connects, writes>>

\* The peer resets a connection or a write deadline expires.
NetFail ==
    /\ \E s \in Socks :
          /\ sock[s] = "open"
          /\ sock' = [sock EXCEPT ![s] = "broken"]
    /\ UNCHANGED <<identity, token, conn, handler, inbox, wire, caller, lastErr, loopVars,
                   ctxDone, handled, acked, connects, sent, writes>>

-----------------------------------------------------------------------------
Caller == SetMessageHandler \/ ConnectDial \/ ConnectAck \/ Filter \/ SetState
          \/ StartReadLoop \/ Cancel \/ Close

Loop == LoopCheck \/ LoopRead \/ LoopReceive \/ LoopDispatch

Server == ServerSend \/ NetFail

Next == Caller \/ Loop \/ Server

(* The Go scheduler runs a runnable goroutine eventually: the read loop is *)
(* weakly fair.  The caller and the server owe nothing.                    *)
Spec == Init /\ [][Next]_vars /\ WF_vars(Loop)

-----------------------------------------------------------------------------
(* Properties.                                                             *)

\* The variables that hold a flag.
FlagsTypeOK ==
    /\ identity \in [key : BOOLEAN, cert : BOOLEAN]
    /\ handler \in BOOLEAN
    /\ ctxDone \in BOOLEAN
    /\ acked \in BOOLEAN

\* The variables that hold data.
DataTypeOK ==
    /\ token \in Tokens \cup {EmptyToken}
    /\ conn \in 0..MaxConnects
    /\ sock \in [Socks -> SockStates]
    /\ inbox \in [Socks -> Seq(ServerFrames)]
    /\ wire \in Seq(ClientFrames)
    /\ caller \in {"idle", "awaitAck"}
    /\ lastErr \in Errors
    /\ loop \in {"idle", "check", "read", "blocked", "dispatch", "done"}
    /\ rsock \in 0..MaxConnects
    /\ frame \in ServerFrames \cup {NoFrame}
    /\ handled \in Seq(Payloads)
    /\ kaSeen \in Nat
    /\ afterCancel \in Nat
    /\ connects \in 0..MaxConnects
    /\ sent \in 0..MaxFrames
    /\ writes \in 0..MaxWrites

TypeOK == FlagsTypeOK /\ DataTypeOK

\* Keep-alive frames in a sequence of client frames.
KeepAlivesIn(w) == Cardinality({i \in DOMAIN w : w[i].cmd = CommandKeepAlive})

\* Keep-alive replies the client has written.
KeepAliveReplies == KeepAlivesIn(wire)

(* Every keep-alive frame ReadLoop has read is answered by exactly one     *)
(* keep-alive frame before ReadLoop reads again (ReadLoop's keep-alive     *)
(* case; spec section 8, property 10).                                     *)
KeepAliveAnswered ==
    loop \in {"check", "read", "blocked"} => KeepAliveReplies = kaSeen

(* Cancelling the read loop's context stops the hand-off of messages       *)
(* within one frame: after the cancel the handler is called at most once,  *)
(* for the frame the blocked read returns (ReadLoop checks ctx.Done() once *)
(* per iteration, before its read).                                        *)
CancelStopsWithinOneFrame == afterCancel <= 1

\* c.conn holds a socket that Close has closed.
Closed == conn # 0 /\ sock[conn] = "closed"

(* Closing the connection ends a running ReadLoop, unless the caller       *)
(* connects again first: "Close: closes the socket; any blocked read       *)
(* immediately errors, unblocking the loop" (spec section 4.2).  Close     *)
(* closes the socket c.conn holds, and the loop's read fails.              *)
LoopStopsAfterClose ==
    Closed ~> (loop \in {"idle", "done"} \/ (conn # 0 /\ sock[conn] = "open"))

(* Filter and SetState are only written on a connection whose connect-ack *)
(* was accepted (spec section 4.2: "requires Active").  Connection.Connect *)
(* assigns c.conn before it reads the ack, and Filter/SetState check only  *)
(* c.conn # nil.                                                           *)
FilterOnlyWhenActive ==
    [][Len(wire') > Len(wire) /\ wire'[Len(wire')].cmd \in {CommandFilterTopics, CommandSetState}
         => acked]_vars

=============================================================================
