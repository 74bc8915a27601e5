------------------------------ MODULE WireCodec ------------------------------
(***************************************************************************)
(* The APNS TLV frame codec of imessage-client/messaging/apns (binary.go)  *)
(* and the command encoders and decoders built on it (the apns command    *)
(* structs' ToPayload and FromPayload).                                    *)
(*                                                                         *)
(* A byte string is a sequence of values in 0..255.  A Payload is a        *)
(* command id and a sequence of Fields, each an id and a byte string.      *)
(* Go's nil and empty byte slices are both <<>>: the code only ever looks  *)
(* at their length.                                                        *)
(***************************************************************************)
EXTENDS Integers, Sequences, SequencesExt

\* Command identifiers (binary.go CommandID) used by the encoders.
CommandConnect      == 7
CommandConnectAck   == 8
CommandFilterTopics == 9
CommandSendMessage  == 10
CommandKeepAlive    == 12
CommandSetState     == 20

Field(id, value) == [id |-> id, value |-> value]

Payload(id, fields) == [id |-> id, fields |-> fields]

\* binary.BigEndian.PutUint16 / PutUint32 of n, already reduced to k bytes.
BigEndian(n, k) == [i \in 1..k |-> (n \div (256 ^ (k - i))) % 256]

\* binary.BigEndian.Uint16 / Uint32 of a byte string.
FromBigEndian(s) ==
    LET v[j \in 0..Len(s)] == IF j = 0 THEN 0 ELSE v[j - 1] * 256 + s[j]
    IN  v[Len(s)]

\* Payload.FindField: the value of the first field with the id, or nil.
FindField(p, fid) ==
    LET hits == {i \in DOMAIN p.fields : p.fields[i].id = fid}
    IN  IF hits = {} THEN <<>> ELSE p.fields[Min(hits)].value

-----------------------------------------------------------------------------
(* Encoding.                                                               *)

\* One field: [id:1][uint16(len(value)):2][value]; the whole value is
\* copied even when its length does not fit the two bytes.
FieldBytes(f) == <<f.id>> \o BigEndian(Len(f.value) % 2^16, 2) \o f.value

\* Mutant: the length word counts the five header bytes as well.
ToBytesCountingHeader(p) ==
    LET body == FlattenSeq([i \in 1..Len(p.fields) |-> FieldBytes(p.fields[i])])
    IN  <<p.id>> \o BigEndian(Len(body) + 5, 4) \o body

(* Payload.ToBytes: [id:1][uint32(length - 5):4][fields...].  A frame of *)
(* 4 GiB, the only one whose uint32 length would wrap, is out of reach.   *)
ToBytes(p) ==
    LET body == FlattenSeq([i \in 1..Len(p.fields) |-> FieldBytes(p.fields[i])])
    IN  <<p.id>> \o BigEndian(Len(body), 4) \o body

-----------------------------------------------------------------------------
(* Decoding.                                                               *)

\* Mutant: the value is sliced from the last length byte on.
UnmarshalFieldsFromBytesOffByOne(data) ==
    LET parse[i \in 0..Len(data)] ==
          IF i + 3 > Len(data)
            THEN [ok |-> TRUE, fields |-> <<>>]
            ELSE LET fl == FromBigEndian(SubSeq(data, i + 2, i + 3))
                 IN  IF i + 3 + fl > Len(data)
                       THEN [ok |-> FALSE, fields |-> <<>>]
                       ELSE LET rest == parse[i + 3 + fl]
                            IN  [ok |-> rest.ok,
                                 fields |-> <<Field(data[i + 1],
                                                    SubSeq(data, i + 3, i + 2 + fl))>>
                                            \o rest.fields]
    IN  parse[0]

(* unmarshalFieldsFromBytes: fields are read while three header bytes     *)
(* remain; a field whose length overruns the data is an error.  Index i   *)
(* is the Go index, so Go's data[i] is data[i + 1] here.                   *)
UnmarshalFieldsFromBytes(data) ==
    LET parse[i \in 0..Len(data)] ==
          IF i + 3 > Len(data)
            THEN [ok |-> TRUE, fields |-> <<>>]
            ELSE LET fl == FromBigEndian(SubSeq(data, i + 2, i + 3))
                 IN  IF i + 3 + fl > Len(data)
                       THEN [ok |-> FALSE, fields |-> <<>>]
                       ELSE LET rest == parse[i + 3 + fl]
                            IN  [ok |-> rest.ok,
                                 fields |-> <<Field(data[i + 1],
                                                    SubSeq(data, i + 4, i + 3 + fl))>>
                                            \o rest.fields]
    IN  parse[0]

\* The outcome of a decode: "ok" with the payload, "error", or a Go panic.
Decoded(p) == [res |-> "ok", payload |-> p]

DecodeError == [res |-> "error", payload |-> Payload(0, <<>>)]

DecodePanic == [res |-> "panic", payload |-> Payload(0, <<>>)]

(* Payload.UnmarshalBinary.  The slice bound 5+length is not checked     *)
(* against len(data): a bound beyond the data makes data[5:5+length]      *)
(* panic.  Go computes it in uint32, where it wraps below 5 for lengths   *)
(* from 2^32-5 on; data[5:hi] with hi < 5 panics as well, so taking the   *)
(* bound unwrapped gives the same outcome for every byte string.           *)
UnmarshalBinary(data) ==
    IF Len(data) = 0 THEN DecodeError
    ELSE IF data[1] = 0 THEN Decoded(Payload(0, <<>>))
    ELSE IF Len(data) < 5 THEN DecodeError
    ELSE LET hi == 5 + FromBigEndian(SubSeq(data, 2, 5))
         IN  IF hi > Len(data) THEN DecodePanic
             ELSE LET r == UnmarshalFieldsFromBytes(SubSeq(data, 6, hi))
                  IN  IF r.ok THEN Decoded(Payload(data[1], r.fields)) ELSE DecodeError

(* The number of bytes UnmarshalBinaryStream takes from a stream holding  *)
(* the bytes s: 1 for command id 0, else 5 plus the declared length; 0    *)
(* while io.ReadFull is still waiting for bytes.                           *)
FrameSize(s) ==
    IF Len(s) = 0 THEN 0
    ELSE IF s[1] = 0 THEN 1
    ELSE IF Len(s) < 5 THEN 0
    ELSE LET n == 5 + FromBigEndian(SubSeq(s, 2, 5))
         IN  IF Len(s) < n THEN 0 ELSE n

\* Payload.UnmarshalBinaryStream on a stream that holds a whole frame.
UnmarshalBinaryStream(s) ==
    IF s[1] = 0 THEN Decoded(Payload(0, <<>>))
    ELSE LET r == UnmarshalFieldsFromBytes(SubSeq(s, 6, FrameSize(s)))
         IN  IF r.ok THEN Decoded(Payload(s[1], r.fields)) ELSE DecodeError

-----------------------------------------------------------------------------
(* Commands: ToPayload and FromPayload of the apns command structs.        *)

BaseConnectionFlags == 65   \* 0b1000001
RootConnection      == 4    \* 0b100

\* BaseConnectionFlags | RootConnection: the two masks share no bit.
ConnectFlags == BaseConnectionFlags + RootConnection

\* ConnectionFlag.ToBytes.
FlagBytes(flags) == BigEndian(flags, 4)

\* ConnectCommand.ToPayload, with Connect's fixed state and signature prefix.
ConnectToPayload(token, cert, nonce, signature) ==
    Payload(CommandConnect,
            <<Field(1, token), Field(2, <<1>>), Field(5, FlagBytes(ConnectFlags)),
              Field(12, cert), Field(13, nonce), Field(14, <<1, 1>> \o signature)>>)

\* FilterTopicsCommand.ToPayload: the token, then one field 2 per topic hash.
FilterTopicsToPayload(token, topics) ==
    Payload(CommandFilterTopics,
            <<Field(1, token)>> \o [i \in 1..Len(topics) |-> Field(2, topics[i])])

\* SetStateCommand.ToPayload with SetState's FieldTwo 0x7fffffff.
SetStateToPayload(state) ==
    Payload(CommandSetState,
            <<Field(1, <<state>>), Field(2, BigEndian(2147483647, 4))>>)

\* KeepAliveCommand.ToPayload.
KeepAliveToPayload == Payload(CommandKeepAlive, <<>>)

\* uint16(val[0])<<8 | uint16(val[1]) when the field has two bytes, else 0.
Uint16Field(v) == IF Len(v) >= 2 THEN v[1] * 256 + v[2] ELSE 0

\* ConnectAckCommand.FromPayload (the fields Connect uses).
ConnectAckFromPayload(p) ==
    [status           |-> FindField(p, 1),
     token            |-> FindField(p, 3),
     maxMessageSize   |-> Uint16Field(FindField(p, 4)),
     largeMessageSize |-> Uint16Field(FindField(p, 8))]

\* Connect's check: rejected iff the status has a first byte that is not 0.
AckAccepted(ack) == ~(Len(ack.status) > 0 /\ ack.status[1] # 0)

\* IncomingSendMessageCommand.FromPayload (the fields ReadLoop hands on).
SendMessageFromPayload(p) == [topic |-> FindField(p, 2), payload |-> FindField(p, 3)]
=============================================================================
