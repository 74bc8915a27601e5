----------------------------- MODULE ClientCall -----------------------------
(***************************************************************************)
(* What a caller of the messaging package is promised, with the network,  *)
(* the clock and the registration file hidden.  A command (check-messages *)
(* or send) either gives up before its one call or makes it; a Go caller  *)
(* holding a Client makes at most MaxCalls calls.  Each call works on a   *)
(* session of its own that starts with no state, and it either fails with *)
(* one of the call's errors, leaving the session without a certificate,   *)
(* or succeeds with a session holding a certificate that parsed: "ok" for *)
(* PollUnread and ErrNotImplemented for Send.                              *)
(***************************************************************************)
EXTENDS Naturals

CONSTANT MaxCalls

VARIABLES
    program,  \* "check", "send" or "library"
    phase,    \* "start" (a command before its call), "idle" (a Go caller
              \*   between calls), "busy" (in a call), "exit"
    op,       \* the call: "poll" or "send"
    cert,     \* the certificate the call's session holds: "none" or "parsed"
    calls,    \* calls begun
    result    \* what the last call or the command returned

vars == <<program, phase, op, cert, calls, result>>

\* The errors of a command before it calls the client.
CommandErrors(p) ==
    {"LoadError", "Expired", "StoreError"} \cup (IF p = "send" THEN {"NoChat"} ELSE {})

\* The errors of PollUnread and Send up to the handshake state.
CallErrors ==
    {"Invalid", "Expired", "Keygen", "Transport", "Timeout", "HTTPStatus", "Plist",
     "Status", "NoServices", "NoUsers", "NoCert", "ParseCert"}

\* Where a call returns to.
Done == IF program = "library" THEN "idle" ELSE "exit"

Init ==
    /\ program \in {"check", "send", "library"}
    /\ phase = IF program = "library" THEN "idle" ELSE "start"
    /\ op = "poll"
    /\ cert = "none"
    /\ calls = 0
    /\ result = "none"

\* A command exits before it makes its call.
Refuse ==
    /\ phase = "start"
    /\ phase' = "exit"
    /\ result' \in CommandErrors(program)
    /\ UNCHANGED <<program, op, cert, calls>>

\* A call begins on a new session with no state: a command's single call,
\* whose kind is the command's, or one more call of a Go caller.
Begin ==
    /\ \/ /\ phase = "start"
          /\ op' = IF program = "send" THEN "send" ELSE "poll"
       \/ /\ phase = "idle"
          /\ calls < MaxCalls
          /\ op' \in {"poll", "send"}
    /\ phase' = "busy"
    /\ cert' = "none"
    /\ calls' = calls + 1
    /\ UNCHANGED <<program, result>>

\* The call fails; its session keeps no certificate.
Fail ==
    /\ phase = "busy"
    /\ phase' = Done
    /\ result' \in CallErrors
    /\ UNCHANGED <<program, op, cert, calls>>

\* The call's handshake completes with a certificate that parsed.
Succeed ==
    /\ phase = "busy"
    /\ phase' = Done
    /\ cert' = "parsed"
    /\ result' = IF op = "poll" THEN "ok" ELSE "NotImplemented"
    /\ UNCHANGED <<program, op, calls>>

Next == Refuse \/ Begin \/ Fail \/ Succeed

Spec == Init /\ [][Next]_vars
=============================================================================
