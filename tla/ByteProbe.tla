------------------------------ MODULE ByteProbe ------------------------------
(***************************************************************************)
(* Payload.UnmarshalBinary (binary.go), with unmarshalFieldsFromBytes,     *)
(* applied to every buffer the probe grows.                                *)
(***************************************************************************)
EXTENDS Probe, WireCodec

(* A frame decoded without error is exactly the bytes it declares: its    *)
(* fields re-encode to the frame (spec section 3: the declared lengths    *)
(* must match the consumed bytes, a mismatch is a framing error and never *)
(* a partial success; unmarshalFieldsFromBytes's loop condition).         *)
DecodeIsExact ==
    LET r == UnmarshalBinary(buf)
    IN  r.res = "ok" /\ buf[1] # 0 =>
          ToBytes(r.payload) = SubSeq(buf, 1, 5 + FromBigEndian(SubSeq(buf, 2, 5)))
=============================================================================
