------------------------------ MODULE MCCourier ------------------------------
(* Courier on a small instance: one payload, one non-empty token.         *)
EXTENDS Courier

CONSTANTS p1, t1

MCPayloads == {p1}
MCTokens == {t1}

\* keep-alive, one of the acks ReadLoop ignores, an unknown id, a framing error
MCInbound == {CommandKeepAlive, CommandKeepAliveAck, CommandUnknown, Malformed}
=============================================================================
