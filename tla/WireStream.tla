------------------------------ MODULE WireStream ------------------------------
(***************************************************************************)
(* One direction of the courier socket: a writer that sends payloads with  *)
(* Connection.write(cmd.ToPayload().ToBytes()) and a reader that takes     *)
(* them off the byte stream with Payload.UnmarshalBinaryStream, as         *)
(* Connection.readPayload does.  TCP delivers the bytes in order; however  *)
(* they are split into segments, io.ReadFull only returns once the bytes   *)
(* it asked for are there, so the reader is modelled as taking a frame     *)
(* once the stream holds all of it.                                        *)
(***************************************************************************)
EXTENDS WireCodec

CONSTANTS
    Payloads,   \* the payloads the writer may send
    MaxWrites   \* bound on writes

ASSUME WireStreamAssumption == MaxWrites \in Nat

VARIABLES
    stream,     \* bytes written and not yet read
    written,    \* payloads written, in order (history)
    decoded     \* outcomes of the reader's decodes, in order

vars == <<stream, written, decoded>>

Init ==
    /\ stream = <<>>
    /\ written = <<>>
    /\ decoded = <<>>

\* Connection.write(p.ToBytes()): the frame's bytes go onto the stream.
Write(p) ==
    /\ Len(written) < MaxWrites
    /\ stream' = stream \o ToBytes(p)
    /\ written' = Append(written, p)
    /\ UNCHANGED decoded

\* Connection.readPayload: one UnmarshalBinaryStream call on a whole frame.
Read ==
    /\ FrameSize(stream) > 0
    /\ decoded' = Append(decoded, UnmarshalBinaryStream(stream))
    /\ stream' = SubSeq(stream, FrameSize(stream) + 1, Len(stream))
    /\ UNCHANGED written

\* The writer has sent all it may and the reader has read it all.
Finished ==
    /\ Len(written) = MaxWrites
    /\ stream = <<>>
    /\ UNCHANGED vars

Next == (\E p \in Payloads : Write(p)) \/ Read \/ Finished

\* The reader goroutine runs whenever a frame is there to read.
Spec == Init /\ [][Next]_vars /\ WF_vars(Read)

-----------------------------------------------------------------------------
\* The outcomes the reader should see: each written payload, decoded.
Expected == [i \in 1..Len(written) |-> Decoded(written[i])]

(* Decoding what was encoded gives back the frame, field order and        *)
(* duplicate field ids included, and the stream stays in step: the i-th   *)
(* frame the reader takes is the i-th payload the writer sent (spec       *)
(* section 8, property 1; ToBytes and UnmarshalBinaryStream).             *)
RoundTrip == IsPrefix(decoded, Expected)

(* Every frame written is eventually read: the length word of each frame  *)
(* ToBytes writes tells the reader exactly how many bytes to wait for.    *)
EveryFrameRead == <>[](Len(decoded) = Len(written))
=============================================================================
