---------------------------- MODULE EnvelopeProofs ----------------------------
(***************************************************************************)
(* Proofs about ParseBody (decrypt.go) for every byte buffer, not only the *)
(* short ones the probe runs enumerate.                                    *)
(***************************************************************************)
EXTENDS EnvelopeProbe, SequenceTheorems, TLAPS

(* Byte ranges written as bounds: the SMT backend encodes a membership in *)
(* an interval a..b as b-a+1 equalities, too many for 0..65535.            *)
Bytes == {b \in Int : 0 <= b /\ b <= 255}

SmallBytes == {b \in Int : 0 <= b /\ b <= 253}

(* The offsets ParseBody computes in uint16 fit in 16 bits: 3+bodyLength+1 *)
(* and, when the body is there, 3+bodyLength+1+signatureLength.  These are *)
(* the only sums the code forms before int() converts them.               *)
OffsetsFit(p) ==
    Len(p) >= 4 =>
        LET n == BigEndian16(p[2], p[3])
        IN  /\ 3 + n + 1 < 65536
            /\ Len(p) >= 3 + n + 1 => 3 + n + 1 + p[3 + n + 1] < 65536

(* A uint16 sum that fits is the sum.                                      *)
LEMMA U16Fits ==
    ASSUME NEW x \in Nat, x < 65536
    PROVE  U16(x) = x
BY DEF U16

(* The big-endian length word of two bytes is at most 65535.              *)
LEMMA LengthWord ==
    ASSUME NEW hi \in Bytes, NEW lo \in Bytes
    PROVE  BigEndian16(hi, lo) \in Nat /\ BigEndian16(hi, lo) <= 65535
BY DEF BigEndian16, Bytes

(* ParseBody agrees with the envelope layout of spec section 6 on every   *)
(* buffer whose offsets fit: same tag, body and signature, or the same     *)
(* missing section, and never a panic.  Where they do not fit (a body     *)
(* length of 65532 or more, or 65531 with a signature length byte) the     *)
(* envelope_wrap run shows the code going wrong.                          *)
LEMMA ParseBodyCorrect ==
    ASSUME NEW p \in Seq(Bytes), OffsetsFit(p)
    PROVE  ParseBody(p) = EnvelopeLayout(p)
<1>1. CASE Len(p) < 4
  BY <1>1 DEF ParseBody, EnvelopeLayout
<1>2. CASE Len(p) >= 4
  <2> DEFINE n == BigEndian16(p[2], p[3])
  <2>0. p[2] \in Bytes /\ p[3] \in Bytes /\ Len(p) \in Nat
    BY <1>2, ElementOfSeq, LenProperties
  <2>1. n \in Nat /\ n <= 65535
    BY <2>0, LengthWord, SMTT(30)
  <2>2. 3 + n + 1 < 65536
    BY <1>2 DEF OffsetsFit
  <2>3. U16(3 + n + 1) = 3 + n + 1 /\ U16(3 + n) = 3 + n
    BY <2>1, <2>2, U16Fits
  <2>4. CASE Len(p) < 3 + n + 1
    BY <1>2, <2>3, <2>4 DEF ParseBody, EnvelopeLayout
  <2>5. CASE Len(p) >= 3 + n + 1
    <3> DEFINE s == p[3 + n + 1]
    <3>1. s \in Bytes
      BY <2>1, <2>5
    <3>2. 3 + n + 1 + s < 65536
      BY <1>2, <2>5 DEF OffsetsFit
    <3>3. U16(3 + n + 1 + s) = 3 + n + 1 + s
      BY <2>1, <3>1, <3>2, U16Fits DEF Bytes
    <3>4. SliceOK(p, 3, U16(3 + n)) /\ ~(U16(3 + n) >= Len(p)) /\ ~(U16(3 + n + 1) > Len(p))
      BY <2>1, <2>3, <2>5 DEF SliceOK
    <3>5. CASE Len(p) < 3 + n + 1 + s
      BY <1>2, <2>3, <2>5, <3>3, <3>4, <3>5 DEF ParseBody, EnvelopeLayout
    <3>6. CASE Len(p) >= 3 + n + 1 + s
      <4>1. 3 + n + 2 = U16(3 + n + 1) + 1
        BY <2>1, <2>3
      <4> QED
        BY <1>2, <2>3, <2>5, <3>3, <3>4, <3>6, <4>1 DEF ParseBody, EnvelopeLayout
    <3> QED
      BY <2>0, <2>1, <3>1, <3>5, <3>6 DEF Bytes
  <2> QED
    BY <2>0, <2>1, <2>4, <2>5
<1> QED
  BY <1>1, <1>2

-----------------------------------------------------------------------------
(* The probe.                                                              *)

\* The buffer is made of the probe's bytes.
BufOK == buf \in Seq(ProbeBytes)

LEMMA BufTyped == Spec => []BufOK
<1>1. Init => BufOK
  BY DEF Init, BufOK
<1>2. BufOK /\ [Grow \/ Exhausted]_buf => BufOK'
  BY DEF BufOK, Grow, Exhausted
<1> QED
  BY <1>1, <1>2, PTL DEF Spec

(* With bytes of at most 253 no offset ParseBody forms can wrap: the body *)
(* length is at most 253*256+253 = 65021, and 65021+4+253 < 65536.         *)
LEMMA SmallBytesFit ==
    ASSUME NEW p \in Seq(SmallBytes)
    PROVE  OffsetsFit(p)
<1> SUFFICES ASSUME Len(p) >= 4 PROVE OffsetsFit(p)
  BY DEF OffsetsFit
<1> DEFINE n == BigEndian16(p[2], p[3])
<1>1. p[2] \in SmallBytes /\ p[3] \in SmallBytes /\ Len(p) \in Nat
  BY ElementOfSeq, LenProperties
<1>2. n \in Nat /\ n <= 65021
  BY <1>1 DEF BigEndian16, SmallBytes
<1>3. 3 + n + 1 < 65536
  BY <1>2
<1>4. Len(p) >= 3 + n + 1 => 3 + n + 1 + p[3 + n + 1] < 65536
  <2> SUFFICES ASSUME Len(p) >= 3 + n + 1 PROVE 3 + n + 1 + p[3 + n + 1] < 65536
    OBVIOUS
  <2>1. p[3 + n + 1] \in SmallBytes
    BY <1>1, <1>2, ElementOfSeq
  <2> QED
    BY <1>2, <2>1, SMTT(30) DEF SmallBytes
<1> QED
  BY <1>3, <1>4 DEF OffsetsFit

(* On every buffer the probe can build from bytes of at most 253 (the runs *)
(* use 0..2), ParseBody returns what the envelope layout says, whatever    *)
(* its length.                                                             *)
THEOREM ParseBodyAgrees ==
    ASSUME ProbeBytes \subseteq 0..253
    PROVE  Spec => []ParseBodyMatchesLayout
<1>1. BufOK => ParseBodyMatchesLayout
  <2> SUFFICES ASSUME BufOK PROVE ParseBody(buf) = EnvelopeLayout(buf)
    BY DEF ParseBodyMatchesLayout
  <2>1. ProbeBytes \subseteq SmallBytes /\ SmallBytes \subseteq Bytes
    BY DEF SmallBytes, Bytes
  <2>2. buf \in Seq(SmallBytes) /\ buf \in Seq(Bytes)
    BY <2>1, SeqMonotonic DEF BufOK
  <2> QED
    BY <2>2, SmallBytesFit, ParseBodyCorrect
<1> QED
  BY <1>1, BufTyped, PTL

=====
