--------------------------- MODULE MCEnvelopeProbe ---------------------------
(* Two alphabets.  Bytes 0..2 keep every length word small, so that a     *)
(* declared length can be met, overrun or undershot within a few bytes.   *)
(* Bytes 0, 255 and 252 add the body lengths 65532..65535 at which         *)
(* ParseBody's uint16 offsets wrap.                                        *)
EXTENDS EnvelopeProbe

MCSmallBytes == {0, 1, 2}

MCWrapBytes == {0, 252, 255}
=============================================================================
