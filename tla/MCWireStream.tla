----------------------------- MODULE MCWireStream -----------------------------
(* WireStream with the frames the client writes, at their real sizes: a   *)
(* 32-byte token, a 300-byte certificate (so that a field length needs    *)
(* both of its bytes), a 20-byte nonce and a 160-byte RSA-1280 signature. *)
EXTENDS WireStream

Bytes(n, b) == [i \in 1..n |-> b]

MCToken == Bytes(32, 171)
MCCert == Bytes(300, 48)
MCNonce == <<0>> \o Bytes(19, 90)
MCSignature == Bytes(160, 200)
MCTopicHashes == <<Bytes(20, 17), Bytes(20, 34)>>

\* Connect, a filter with two topic hashes (two fields with id 2),
\* SetState(1) and a keep-alive reply.
MCPayloads ==
    {ConnectToPayload(MCToken, MCCert, MCNonce, MCSignature),
     FilterTopicsToPayload(MCToken, MCTopicHashes),
     SetStateToPayload(1),
     KeepAliveToPayload}
=============================================================================
