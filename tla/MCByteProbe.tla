----------------------------- MODULE MCByteProbe -----------------------------
(* Bytes 0..2 keep every length word small, so that a declared length can *)
(* be met, overrun or undershot within a few bytes.                        *)
EXTENDS ByteProbe

MCSmallBytes == {0, 1, 2}
=============================================================================
