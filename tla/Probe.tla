-------------------------------- MODULE Probe --------------------------------
(***************************************************************************)
(* The input of a decoder that takes a flat byte buffer: the buffer grows  *)
(* one byte at a time, so every state is one input and the runs see every  *)
(* buffer of ProbeBytes up to MaxProbe bytes.  The decoders accept any     *)
(* []byte.                                                                 *)
(***************************************************************************)
EXTENDS Integers, Sequences

CONSTANTS
    ProbeBytes, \* byte values the buffer is made of
    MaxProbe    \* longest buffer

ASSUME ProbeAssumption == ProbeBytes \subseteq 0..255 /\ MaxProbe \in Nat

VARIABLE buf

Init == buf = <<>>

Grow ==
    /\ Len(buf) < MaxProbe
    /\ \E b \in ProbeBytes : buf' = Append(buf, b)

\* Every buffer up to MaxProbe bytes has been tried.
Exhausted == Len(buf) = MaxProbe /\ UNCHANGED buf

Spec == Init /\ [][Grow \/ Exhausted]_buf
=============================================================================
