---------------------------- MODULE EnvelopeProbe ----------------------------
(***************************************************************************)
(* ParseBody (decrypt.go) applied to every buffer the probe grows.         *)
(***************************************************************************)
EXTENDS Probe, Envelope

(* ParseBody's offsets, computed in uint16, agree with the envelope       *)
(* layout computed with unbounded integers: it returns the same tag, body *)
(* and signature, or reports the same missing section (decrypt.go         *)
(* ParseBody against spec section 6).                                     *)
ParseBodyMatchesLayout == ParseBody(buf) = EnvelopeLayout(buf)

(* A buffer whose declared body length exceeds the bytes that follow is   *)
(* rejected as "missing body" (spec section 8, property 5; ParseBody's    *)
(* first length check, whose 3+bodyLength+1 is a uint16).                 *)
MissingBodyReported ==
    Len(buf) >= 4 /\ Len(buf) < 3 + BigEndian16(buf[2], buf[3]) + 1
        => ParseBody(buf).res = "missing body"
=============================================================================
