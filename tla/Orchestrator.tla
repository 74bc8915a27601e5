---------------------------- MODULE Orchestrator ----------------------------
(***************************************************************************)
(* The way a caller reaches the session: the check-messages and send       *)
(* commands (cmd/), Client.PollUnread and Client.Send, messaging.Connect,   *)
(* Session.ensureHandshake, RealHandshaker.Handshake and the IDS register   *)
(* call (ids/http.go), up to the point where FetchUnread drains the queue   *)
(* (Session.tla models what follows).                                       *)
(*                                                                         *)
(* Time is an integer clock; the registration file holds its ValidUntil.    *)
(* Key generation, the request body and its signature are one step each:   *)
(* only whether they fail enters the model.  The IDS server answers the     *)
(* request with any response, or never.                                     *)
(***************************************************************************)
EXTENDS Naturals

CONSTANTS
    MaxTime,   \* bound on the clock
    MaxCalls   \* bound on the library caller's calls of PollUnread and Send

ASSUME OrchestratorAssumption ==
    /\ MaxTime \in Nat
    /\ MaxCalls \in Nat

\* IDS responses: HTTP status, body read and decoded as a plist, the status
\* field, Services[0], Services[0].Users[0], and that user's Cert.
Replies == [http : {200, 500}, plist : BOOLEAN, status : {0, 6005},
            services : BOOLEAN, users : BOOLEAN, cert : {"nil", "bad", "good"}]

\* What a command or call ended with ("none": nothing yet).
Results == {"none", "ok", "LoadError", "StoreError", "NoChat", "Invalid", "Expired",
            "Keygen", "Transport", "Timeout", "HTTPStatus", "Plist", "Status",
            "NoServices", "NoUsers", "NoCert", "ParseCert", "NotImplemented"}

\* check-messages, send, or a Go program that holds a Client.
Programs == {"check", "send", "library"}

VARIABLES
    program,     \* who calls
    clock,       \* time.Now()
    validUntil,  \* reg.ValidUntil
    vdEmpty,     \* len(reg.ValidationData) == 0
    pc,          \* the caller: "start", "idle", "connect", "keygen", "register",
                 \*   "await", "reply", "exit"
    op,          \* the call in progress: "poll" or "send"
    reply,       \* the IDS response the client is looking at
    stateCert,   \* s.state's ID certificate: "none" (s.state == nil) or "parsed"
    calls,       \* calls made so far
    result       \* what the last call (or the command) returned

vars == <<program, clock, validUntil, vdEmpty, pc, op, reply, stateCert, calls, result>>

\* Where a call returns to: the library caller's next call, or the exit of
\* the command.
Returned == IF program = "library" THEN "idle" ELSE "exit"

\* Ends the call in progress with result r.
Return(r) == pc' = Returned /\ result' = r

\* reg.IsExpired(): time.Now().After(r.ValidUntil).
IsExpired == clock > validUntil

NoReply == [http |-> 200, plist |-> TRUE, status |-> 0, services |-> TRUE, users |-> TRUE,
            cert |-> "nil"]

-----------------------------------------------------------------------------
(* The registration file and the store are read before anything else; a   *)
(* Go caller builds its Client from registration data it holds.            *)
Init ==
    /\ program \in Programs
    /\ clock = 0
    /\ validUntil \in 0..MaxTime
    /\ vdEmpty \in BOOLEAN
    /\ pc = IF program = "library" THEN "idle" ELSE "start"
    /\ op = "poll"
    /\ reply = NoReply
    /\ stateCert = "none"
    /\ calls = 0
    /\ result = "none"

\* time.Now() moves on between any two steps.
Tick ==
    /\ clock < MaxTime
    /\ clock' = clock + 1
    /\ UNCHANGED <<program, validUntil, vdEmpty, pc, op, reply, stateCert, calls, result>>

(* config.LoadRegistration: the file is missing, unreadable or not JSON. *)
LoadRegistrationFails == pc' = "exit" /\ result' = "LoadError"

(* The RunE of check-messages up to the client's call: LoadRegistration,   *)
(* the expiry check, the store (NewFileStore may fail) and                 *)
(* NewClientWithStore.                                                     *)
CheckMessagesStart ==
    /\ pc = "start" /\ program = "check"
    /\ \/ LoadRegistrationFails
       \/ /\ IsExpired
          /\ pc' = "exit" /\ result' = "Expired"
       \/ /\ ~IsExpired
          /\ pc' = "exit" /\ result' = "StoreError"
       \/ /\ ~IsExpired
          /\ pc' = "connect" /\ UNCHANGED result
          /\ op' = "poll"
          /\ calls' = calls + 1
    /\ pc' # "connect" => UNCHANGED <<op, calls>>
    /\ UNCHANGED <<program, clock, validUntil, vdEmpty, reply, stateCert>>

(* The RunE of send up to the client's call: the same checks, then the     *)
(* --chat check after NewClientWithStore.                                   *)
SendStart ==
    /\ pc = "start" /\ program = "send"
    /\ \/ LoadRegistrationFails
       \/ /\ IsExpired
          /\ pc' = "exit" /\ result' = "Expired"
       \/ /\ ~IsExpired
          /\ pc' = "exit" /\ result' = "StoreError"
       \/ /\ ~IsExpired
          /\ pc' = "exit" /\ result' = "NoChat"
       \/ /\ ~IsExpired
          /\ pc' = "connect" /\ UNCHANGED result
          /\ op' = "send"
          /\ calls' = calls + 1
    /\ pc' # "connect" => UNCHANGED <<op, calls>>
    /\ UNCHANGED <<program, clock, validUntil, vdEmpty, reply, stateCert>>

\* A Go caller calls client.PollUnread or client.Send.
LibraryCall ==
    /\ pc = "idle"
    /\ calls < MaxCalls
    /\ \E o \in {"poll", "send"} : op' = o
    /\ calls' = calls + 1
    /\ pc' = "connect"
    /\ UNCHANGED <<program, clock, validUntil, vdEmpty, reply, stateCert, result>>

\* Mutant: Connect hands back the previous call's session.
ConnectKeepingSession ==
    /\ pc = "connect"
    /\ \/ /\ vdEmpty /\ Return("Invalid")
       \/ /\ ~vdEmpty /\ IsExpired /\ Return("Expired")
       \/ /\ ~vdEmpty /\ ~IsExpired
          /\ pc' = "keygen" /\ UNCHANGED result
    /\ UNCHANGED <<program, clock, validUntil, vdEmpty, op, reply, stateCert, calls>>

(* messaging.Connect: the registration checks, then a new Session whose    *)
(* state is nil; PollUnread and Send go on to ensureHandshake, which finds *)
(* s.state nil and s.handshaker set, and calls Handshake.                  *)
Connect ==
    /\ pc = "connect"
    /\ \/ /\ vdEmpty /\ Return("Invalid")
       \/ /\ ~vdEmpty /\ IsExpired /\ Return("Expired")
       \/ /\ ~vdEmpty /\ ~IsExpired
          /\ pc' = "keygen" /\ UNCHANGED result
    /\ stateCert' = "none"
    /\ UNCHANGED <<program, clock, validUntil, vdEmpty, op, reply, calls>>

(* Handshake up to the request: the check of the validation data (which   *)
(* Connect has made already), the four key pairs (each GenerateKey may     *)
(* fail), the device UUID and the default device descriptor.              *)
KeyGen ==
    /\ pc = "keygen"
    /\ \/ Return("Keygen")
       \/ pc' = "register" /\ UNCHANGED result
    /\ UNCHANGED <<program, clock, validUntil, vdEmpty, op, reply, stateCert, calls>>

(* HTTPClient.Register up to c.client.Do: the plist body, the request with *)
(* its headers and the push-key signature; the request carries             *)
(* reg.ValidationData as it is now.                                        *)
SendRegister ==
    /\ pc = "register"
    /\ pc' = "await"
    /\ UNCHANGED <<program, clock, validUntil, vdEmpty, op, reply, stateCert, calls, result>>

\* The IDS server answers.
IDSReply ==
    /\ pc = "await"
    /\ \E r \in Replies : reply' = r
    /\ pc' = "reply"
    /\ UNCHANGED <<program, clock, validUntil, vdEmpty, op, stateCert, calls, result>>

\* c.client.Do fails: the connection breaks or cannot be made.
TransportFails ==
    /\ pc = "await"
    /\ Return("Transport")
    /\ UNCHANGED <<program, clock, validUntil, vdEmpty, op, reply, stateCert, calls>>

\* Mutant: an http.Client without a Timeout (ctx is context.Background()).
TimeoutNever == FALSE

(* The http.Client's 30-second Timeout, the only bound on the wait: the    *)
(* context ensureHandshake passes is context.Background().                 *)
Timeout ==
    /\ pc = "await"
    /\ Return("Timeout")
    /\ UNCHANGED <<program, clock, validUntil, vdEmpty, op, reply, stateCert, calls>>

\* The error the response is turned into, in the order the code checks.
ReplyError(r) ==
    IF r.http # 200 THEN "HTTPStatus"
    ELSE IF ~r.plist THEN "Plist"
    ELSE IF r.status # 0 THEN "Status"
    ELSE IF ~r.services THEN "NoServices"
    ELSE IF ~r.users THEN "NoUsers"
    ELSE IF r.cert = "nil" THEN "NoCert"
    ELSE IF r.cert = "bad" THEN "ParseCert"
    ELSE "none"

\* Mutant: the error of ids.ParseCertificate is dropped.
HandleReplyIgnoringParse ==
    /\ pc = "reply"
    /\ IF ReplyError(reply) \in {"none", "ParseCert"}
         THEN /\ stateCert' = IF reply.cert = "good" THEN "parsed" ELSE "nil"
              /\ Return(IF op = "poll" THEN "ok" ELSE "NotImplemented")
         ELSE /\ Return(ReplyError(reply))
              /\ UNCHANGED stateCert
    /\ UNCHANGED <<program, clock, validUntil, vdEmpty, op, reply, calls>>

(* The rest of Register and of Handshake: the status and shape checks, the *)
(* certificate, the handshakeState with apns.NewConnection(pushKey, nil,   *)
(* nil).  Then ensureHandshake sets s.state; Send returns ErrNotImplemented *)
(* and PollUnread goes on to FetchUnread's drain, which finds the nil      *)
(* messageChan empty and returns no summaries.                             *)
HandleReply ==
    /\ pc = "reply"
    /\ IF ReplyError(reply) = "none"
         THEN /\ stateCert' = "parsed"
              /\ Return(IF op = "poll" THEN "ok" ELSE "NotImplemented")
         ELSE /\ Return(ReplyError(reply))
              /\ UNCHANGED stateCert
    /\ UNCHANGED <<program, clock, validUntil, vdEmpty, op, reply, calls>>

\* The command has exited, or the Go caller has made its last call.
Terminated ==
    /\ \/ pc = "exit"
       \/ pc = "idle" /\ calls = MaxCalls
    /\ clock = MaxTime
    /\ UNCHANGED vars

\* The caller's steps inside a call.
Call == CheckMessagesStart \/ SendStart \/ Connect \/ KeyGen \/ SendRegister \/ Timeout \/ HandleReply

Next == Tick \/ LibraryCall \/ Call \/ IDSReply \/ TransportFails \/ Terminated

(* The caller's goroutine runs while it can, and the http.Client's timer   *)
(* fires; the IDS server and the network owe nothing, and a Go caller need *)
(* not call again.                                                         *)
Spec == Init /\ [][Next]_vars /\ WF_vars(Call)

-----------------------------------------------------------------------------
(* Properties.                                                             *)

(* Types; a session's state holds a certificate that parsed (the         *)
(* AuthIDCertPairs entry Handshake stores).                                *)
TypeOK ==
    /\ program \in Programs
    /\ clock \in 0..MaxTime
    /\ validUntil \in 0..MaxTime
    /\ vdEmpty \in BOOLEAN
    /\ pc \in {"start", "idle", "connect", "keygen", "register", "await", "reply", "exit"}
    /\ op \in {"poll", "send"}
    /\ reply \in Replies
    /\ stateCert \in {"none", "parsed"}
    /\ calls \in 0..MaxCalls \cup {1}
    /\ result \in Results

(* Every PollUnread and Send returns, and every command exits, even when   *)
(* IDS never answers: the http.Client's Timeout bounds the register call,  *)
(* which ensureHandshake makes with context.Background().                  *)
CallsReturn ==
    pc \in {"start", "connect", "keygen", "register", "await", "reply"} ~> pc \in {"idle", "exit"}

(* The refinement mapping to ClientCall: the caller's pc translated to the *)
(* phase of the call, and the certificate of the session the call works   *)
(* on, which is a new one with no state until Connect has made it.         *)
Phase == IF pc \in {"start", "idle", "exit"} THEN pc ELSE "busy"

CallCert == IF pc = "connect" THEN "none" ELSE stateCert

CC == INSTANCE ClientCall WITH phase <- Phase, cert <- CallCert

(* PollUnread, Send and the two commands keep ClientCall's promise: every *)
(* call begins on a session without state and ends either with one of the *)
(* call's errors and no certificate, or with a parsed certificate and the *)
(* result of its kind; a command makes at most one call.                   *)
ImplementsClientCall == CC!Spec
=============================================================================
