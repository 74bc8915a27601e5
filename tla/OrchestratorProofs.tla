------------------------- MODULE OrchestratorProofs -------------------------
(***************************************************************************)
(* Proofs about the way a caller reaches the session (Orchestrator.tla),   *)
(* for every clock bound and every number of calls.                        *)
(***************************************************************************)
EXTENDS Orchestrator, TLAPS

(* The inductive invariant.  TypeOK alone is not inductive: the commands'  *)
(* single call raises calls from the value it has at "start", which is 0   *)
(* because a command starts only once (its RunE runs a single time).       *)
IInv ==
    /\ TypeOK
    /\ pc = "start" => calls = 0

LEMMA InitIInv == Init => IInv
BY OrchestratorAssumption DEF Init, IInv, TypeOK, NoReply, Replies, Results, Programs

(* Each of the caller's steps keeps the inductive invariant. *)
LEMMA NextIInv == IInv /\ [Next]_vars => IInv'
<1> SUFFICES ASSUME IInv, [Next]_vars PROVE IInv'
  OBVIOUS
<1> USE OrchestratorAssumption DEF IInv, TypeOK, Results, Programs
<1>1. CASE Tick
  BY <1>1 DEF Tick
<1>2. CASE LibraryCall
  BY <1>2 DEF LibraryCall
<1>3. CASE CheckMessagesStart
  BY <1>3 DEF CheckMessagesStart, LoadRegistrationFails
<1>4. CASE SendStart
  BY <1>4 DEF SendStart, LoadRegistrationFails
<1>5. CASE Connect
  BY <1>5 DEF Connect, Return, Returned
<1>6. CASE KeyGen
  BY <1>6 DEF KeyGen, Return, Returned
<1>7. CASE SendRegister
  BY <1>7 DEF SendRegister
<1>8. CASE IDSReply
  BY <1>8 DEF IDSReply
<1>9. CASE TransportFails
  BY <1>9 DEF TransportFails, Return, Returned
<1>10. CASE Timeout
  BY <1>10 DEF Timeout, Return, Returned
<1>11. CASE HandleReply
  <2>1. ReplyError(reply) \in Results
    BY DEF ReplyError
  <2> QED
    BY <1>11, <2>1 DEF HandleReply, Return, Returned
<1>12. CASE Terminated
  BY <1>12 DEF Terminated, vars
<1>13. CASE UNCHANGED vars
  BY <1>13 DEF vars
<1> QED
  BY <1>1, <1>2, <1>3, <1>4, <1>5, <1>6, <1>7, <1>8, <1>9, <1>10, <1>11, <1>12, <1>13
  DEF Next, Call

(* Type correctness of the caller's state for every MaxTime and MaxCalls:  *)
(* in particular a session's state never holds a certificate that did not *)
(* parse (Handshake returns the ParseCertificate error before it builds   *)
(* the handshakeState), and the call count stays within the bound.        *)
THEOREM TypeCorrect == Spec => []TypeOK
<1>1. IInv => TypeOK
  BY DEF IInv
<1> QED
  BY InitIInv, NextIInv, <1>1, PTL DEF Spec
-----------------------------------------------------------------------------
(* The refinement of ClientCall. *)

(* The error a response is turned into is one of the call's errors. *)
LEMMA ReplyErrorIsCallError ==
    ASSUME NEW r, ReplyError(r) # "none"
    PROVE  ReplyError(r) \in CC!CallErrors
BY DEF ReplyError, CC!CallErrors

LEMMA InitRefines == Init => CC!Init
BY DEF Init, CC!Init, Phase, CallCert, Programs

(* Each step of the caller is a step of ClientCall or leaves its variables *)
(* as they were: the command's checks before the call are Refuse, the     *)
(* command's call and a Go caller's call are Begin, every error return is  *)
(* Fail, a reply that passes every check is Succeed, and the clock, the   *)
(* key generation that succeeds, the request and the reply's arrival are  *)
(* stutters.                                                               *)
LEMMA StepRefines == IInv /\ [Next]_vars => [CC!Next]_CC!vars
<1> SUFFICES ASSUME IInv, [Next]_vars PROVE [CC!Next]_CC!vars
  OBVIOUS
<1> USE DEF IInv, TypeOK, CC!vars, Phase, CallCert
<1>1. CASE Tick
  BY <1>1 DEF Tick
<1>2. CASE LibraryCall
  BY <1>2 DEF LibraryCall, CC!Next, CC!Begin
<1>3. CASE CheckMessagesStart
  <2>1. CASE pc' = "connect"
    BY <1>3, <2>1 DEF CheckMessagesStart, LoadRegistrationFails, CC!Next, CC!Begin
  <2>2. CASE pc' # "connect"
    BY <1>3, <2>2 DEF CheckMessagesStart, LoadRegistrationFails, CC!Next, CC!Refuse,
                      CC!CommandErrors
  <2> QED
    BY <2>1, <2>2
<1>4. CASE SendStart
  <2>1. CASE pc' = "connect"
    BY <1>4, <2>1 DEF SendStart, LoadRegistrationFails, CC!Next, CC!Begin
  <2>2. CASE pc' # "connect"
    BY <1>4, <2>2 DEF SendStart, LoadRegistrationFails, CC!Next, CC!Refuse,
                      CC!CommandErrors
  <2> QED
    BY <2>1, <2>2
<1>5. CASE Connect
  BY <1>5 DEF Connect, Return, Returned, CC!Next, CC!Fail, CC!Done, CC!CallErrors
<1>6. CASE KeyGen
  BY <1>6 DEF KeyGen, Return, Returned, CC!Next, CC!Fail, CC!Done, CC!CallErrors
<1>7. CASE SendRegister
  BY <1>7 DEF SendRegister
<1>8. CASE IDSReply
  BY <1>8 DEF IDSReply
<1>9. CASE TransportFails
  BY <1>9 DEF TransportFails, Return, Returned, CC!Next, CC!Fail, CC!Done, CC!CallErrors
<1>10. CASE Timeout
  BY <1>10 DEF Timeout, Return, Returned, CC!Next, CC!Fail, CC!Done, CC!CallErrors
<1>11. CASE HandleReply
  <2>1. CASE ReplyError(reply) = "none"
    BY <1>11, <2>1 DEF HandleReply, Return, Returned, CC!Next, CC!Succeed, CC!Done
  <2>2. CASE ReplyError(reply) # "none"
    BY <1>11, <2>2, ReplyErrorIsCallError DEF HandleReply, Return, Returned, CC!Next,
                                             CC!Fail, CC!Done
  <2> QED
    BY <2>1, <2>2
<1>12. CASE Terminated
  BY <1>12 DEF Terminated, vars
<1>13. CASE UNCHANGED vars
  BY <1>13 DEF vars
<1> QED
  BY <1>1, <1>2, <1>3, <1>4, <1>5, <1>6, <1>7, <1>8, <1>9, <1>10, <1>11, <1>12, <1>13
  DEF Next, Call

(* For every MaxTime and MaxCalls, the caller implements ClientCall: each *)
(* PollUnread or Send works on a new session and ends in one of the call's *)
(* errors with no certificate, or in its kind's result with a certificate *)
(* that parsed.                                                            *)
THEOREM CallRefinement == Spec => ImplementsClientCall
<1>1. Spec => []IInv
  BY InitIInv, NextIInv, PTL DEF Spec
<1>2. []IInv /\ [][Next]_vars => [][CC!Next]_CC!vars
  BY StepRefines, PTL
<1> QED
  BY <1>1, <1>2, InitRefines, PTL DEF Spec, ImplementsClientCall, CC!Spec
=============================================================================
