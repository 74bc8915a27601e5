------------------------------ MODULE Envelope ------------------------------
(***************************************************************************)
(* ParseBody of imessage-client/messaging/decrypt.go: the encrypted        *)
(* envelope [tag:1][bodyLen:2][body:bodyLen][sigLen:1][signature].         *)
(*                                                                         *)
(* bodyLength is a uint16 and every offset built from it is computed in    *)
(* uint16 before int() converts it, so the offsets are taken % 2^16.       *)
(***************************************************************************)
EXTENDS Integers, Sequences

\* uint16 arithmetic.
U16(n) == n % 65536

\* binary.BigEndian.Uint16 of two bytes.
BigEndian16(hi, lo) == hi * 256 + lo

\* The outcomes ParseBody can have; the error names the missing section.
Parsed(tag, body, sig) == [res |-> "ok", tag |-> tag, body |-> body, sig |-> sig]

ParseError(what) == [res |-> what, tag |-> 0, body |-> <<>>, sig |-> <<>>]

ParsePanic == ParseError("panic")

\* Go's s[lo:hi] on a byte string s: it panics unless lo <= hi <= len(s).
SliceOK(s, lo, hi) == lo <= hi /\ hi <= Len(s)

\* Mutant: the body is sliced one byte short.
ParseBodyShortBody(payload) ==
    IF Len(payload) < 4 THEN ParseError("missing header")
    ELSE LET bodyLength == BigEndian16(payload[2], payload[3])
         IN  IF Len(payload) < U16(3 + bodyLength + 1) THEN ParseError("missing body")
             ELSE IF ~SliceOK(payload, 3, U16(2 + bodyLength)) \/ U16(3 + bodyLength) >= Len(payload)
                    THEN ParsePanic
             ELSE LET signatureLength == payload[U16(3 + bodyLength) + 1]
                  IN  IF Len(payload) < U16(3 + bodyLength + 1 + signatureLength)
                        THEN ParseError("missing signature")
                      ELSE IF U16(3 + bodyLength + 1) > Len(payload) THEN ParsePanic
                      ELSE Parsed(payload[1],
                                  SubSeq(payload, 4, U16(2 + bodyLength)),
                                  SubSeq(payload, U16(3 + bodyLength + 1) + 1, Len(payload)))

(* ParseBody.  Go's payload[k] is payload[k + 1] here.  The slice of the  *)
(* body, the read of the signature length and the slice of the signature  *)
(* each panic when their offset lies outside the buffer.                  *)
ParseBody(payload) ==
    IF Len(payload) < 4 THEN ParseError("missing header")
    ELSE LET bodyLength == BigEndian16(payload[2], payload[3])
         IN  IF Len(payload) < U16(3 + bodyLength + 1) THEN ParseError("missing body")
             ELSE IF ~SliceOK(payload, 3, U16(3 + bodyLength)) \/ U16(3 + bodyLength) >= Len(payload)
                    THEN ParsePanic
             ELSE LET signatureLength == payload[U16(3 + bodyLength) + 1]
                  IN  IF Len(payload) < U16(3 + bodyLength + 1 + signatureLength)
                        THEN ParseError("missing signature")
                      ELSE IF U16(3 + bodyLength + 1) > Len(payload) THEN ParsePanic
                      ELSE Parsed(payload[1],
                                  SubSeq(payload, 4, U16(3 + bodyLength)),
                                  SubSeq(payload, U16(3 + bodyLength + 1) + 1, Len(payload)))

(* The envelope layout as spec section 6 gives it, with unbounded          *)
(* integers: a header, the declared body, a signature length byte and the  *)
(* rest as the signature; each missing section is reported by name.       *)
EnvelopeLayout(payload) ==
    IF Len(payload) < 4 THEN ParseError("missing header")
    ELSE LET n == BigEndian16(payload[2], payload[3])
         IN  IF Len(payload) < 3 + n + 1 THEN ParseError("missing body")
             ELSE IF Len(payload) < 3 + n + 1 + payload[3 + n + 1]
                    THEN ParseError("missing signature")
             ELSE Parsed(payload[1], SubSeq(payload, 4, 3 + n),
                         SubSeq(payload, 3 + n + 2, Len(payload)))
=============================================================================
