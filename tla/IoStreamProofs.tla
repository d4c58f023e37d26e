--------------------------- MODULE IoStreamProofs ---------------------------
(***************************************************************************)
(* What write (drivers/graphics.cpp) and the functions that print numbers  *)
(* (libk/src/iostream.cpp) do for every string and every number, and the   *)
(* character classes (libk/src/ctypes.cpp) for every int.                  *)
(***************************************************************************)
EXTENDS IoStream, CTypes, Induction, SequenceTheorems, TLAPS

-----------------------------------------------------------------------------
(***************************************************************************)
(* decode_utf8, at a byte of the string other than its NUL.                *)
(***************************************************************************)
(* A continuation byte is not the terminating NUL.                         *)
LEMMA ContinuationInside ==
    ASSUME NEW s \in Seq(1 .. 255), NEW k \in Nat, Continuation(ByteAt(s, k))
    PROVE  k < Len(s)
  BY DEF Continuation, ByteAt

LEMMA SequenceLengths ==
    ASSUME NEW b \in 0 .. 255
    PROVE  SequenceLength(b) \in 0 .. 4
  BY DEF SequenceLength

(* decode_utf8 goes on by at least a byte, and never past the end of the   *)
(* string, whatever its bytes are.                                         *)
LEMMA DecodeInside ==
    ASSUME NEW s \in Seq(1 .. 255), NEW k \in Nat, k < Len(s)
    PROVE  DecodeUtf8(s, k).len \in Nat /\ DecodeUtf8(s, k).len >= 1
           /\ k + DecodeUtf8(s, k).len <= Len(s)
<1> DEFINE first == ByteAt(s, k)
           len   == SequenceLength(first)
           broken == len = 0 \/ \E n \in 1 .. len - 1 : ~Continuation(ByteAt(s, k + n))
<1>1. first \in 0 .. 255 /\ Len(s) \in Nat
  <2>1. Len(s) \in Nat /\ k + 1 \in 1 .. Len(s)
    OBVIOUS
  <2>2. s[k + 1] \in 1 .. 255
    BY <2>1, ElementOfSeq
  <2>3. first = s[k + 1]
    BY DEF ByteAt
  <2> QED
    BY <2>1, <2>2, <2>3
<1>2. len \in 0 .. 4
  <2> HIDE DEF first
  <2> QED
    BY <1>1, SequenceLengths
<1> HIDE DEF first, len
<1>3. CASE broken
  <2>1. DecodeUtf8(s, k) = Failed(len)
    BY <1>3 DEF DecodeUtf8, first, len
  <2>2. DecodeUtf8(s, k).len = 1
    BY <2>1 DEF Failed
  <2> QED
    BY <1>1, <2>2
<1>4. CASE ~broken
  <2>1. len \in 1 .. 4
    BY <1>2, <1>4
  <2>2. DecodeUtf8(s, k).len = len
    BY <1>4 DEF DecodeUtf8, first, len
  <2>3. CASE len = 1
    BY <1>1, <2>2, <2>3
  <2>4. CASE len > 1
    <3>1. len - 1 \in 1 .. len - 1 /\ k + (len - 1) \in Nat
      BY <2>1, <2>4
    <3>2. Continuation(ByteAt(s, k + (len - 1)))
      BY <1>4, <3>1
    <3>3. k + (len - 1) < Len(s)
      BY <3>1, <3>2, ContinuationInside
    <3> QED
      BY <1>1, <2>1, <2>2, <3>3
  <2> QED
    BY <2>1, <2>3, <2>4
<1> QED
  BY <1>3, <1>4

-----------------------------------------------------------------------------
(***************************************************************************)
(* decode_utf8: what it makes of the bytes of a sequence.                  *)
(***************************************************************************)
LEMMA ByteType ==
    ASSUME NEW s \in Seq(1 .. 255), NEW k \in Nat
    PROVE  ByteAt(s, k) \in 0 .. 255 /\ (k < Len(s) => ByteAt(s, k) = s[k + 1] /\ ByteAt(s, k) # 0)
<1>1. Len(s) \in Nat
  OBVIOUS
<1>2. CASE k < Len(s)
  <2>1. k + 1 \in 1 .. Len(s)
    BY <1>1, <1>2
  <2>2. s[k + 1] \in 1 .. 255
    BY <2>1, ElementOfSeq
  <2>3. ByteAt(s, k) = s[k + 1]
    BY <1>2 DEF ByteAt
  <2> DEFINE b == s[k + 1]
  <2>4. b \in 1 .. 255 /\ ByteAt(s, k) = b
    BY <2>2, <2>3
  <2> HIDE DEF b
  <2>5. b \in 0 .. 255 /\ b # 0
    BY <2>4
  <2> QED BY <2>4, <2>5 DEF b
<1>3. CASE ~(k < Len(s))
  BY <1>3 DEF ByteAt
<1> QED BY <1>2, <1>3

LEMMA LeadBitsIs ==
    ASSUME NEW b \in 0 .. 255
    PROVE  /\ SequenceLength(b) = 1 => LeadBits(b) = b /\ b < 128
           /\ SequenceLength(b) = 2 => LeadBits(b) = b % 32
           /\ SequenceLength(b) = 3 => LeadBits(b) = b % 16
           /\ SequenceLength(b) = 4 => LeadBits(b) = b % 8
           /\ SequenceLength(b) = 2 => LeadBits(b) \in 0 .. 31
           /\ SequenceLength(b) = 3 => LeadBits(b) \in 0 .. 15
           /\ SequenceLength(b) = 4 => LeadBits(b) \in 0 .. 7
           /\ LeadBits(b) \in Nat
  BY DEF SequenceLength, LeadBits

(* The loop of decode_utf8, unrolled.                                      *)
LEMMA CodePointIs ==
    ASSUME NEW s \in Seq(1 .. 255), NEW k \in Nat
    PROVE  LET lead == LeadBits(ByteAt(s, k))
               bits(n) == ByteAt(s, k + n) % 64
           IN  /\ CodePoint(s, k, 1) = lead
               /\ CodePoint(s, k, 2) = lead * 64 + bits(1)
               /\ CodePoint(s, k, 3) = (lead * 64 + bits(1)) * 64 + bits(2)
               /\ CodePoint(s, k, 4) = ((lead * 64 + bits(1)) * 64 + bits(2)) * 64 + bits(3)
<1> DEFINE lead == LeadBits(ByteAt(s, k))
           bits(n) == ByteAt(s, k + n) % 64
           Makes(f) == f = [n \in 0 .. 3 |-> IF n = 0 THEN lead ELSE f[n - 1] * 64 + bits(n)]
           cp == CHOOSE f : Makes(f)
           c1 == lead * 64 + bits(1)
           c2 == c1 * 64 + bits(2)
           c3 == c2 * 64 + bits(3)
           g == [n \in 0 .. 3 |-> IF n = 0 THEN lead ELSE IF n = 1 THEN c1 ELSE IF n = 2 THEN c2 ELSE c3]
<1>1. Makes(g)
  <2>1. \A n \in 0 .. 3 : g[n] = IF n = 0 THEN lead ELSE g[n - 1] * 64 + bits(n)
    <3> SUFFICES ASSUME NEW n \in 0 .. 3 PROVE g[n] = IF n = 0 THEN lead ELSE g[n - 1] * 64 + bits(n)
      OBVIOUS
    <3>1. g[0] = lead /\ g[1] = c1 /\ g[2] = c2 /\ g[3] = c3
      OBVIOUS
    <3> HIDE DEF g, lead
    <3> QED BY <3>1
  <2>2. g = [n \in 0 .. 3 |-> g[n]]
    OBVIOUS
  <2> HIDE DEF g, lead, bits
  <2> QED BY <2>1, <2>2
<1>2. Makes(cp)
  <2> HIDE DEF Makes, g
  <2> QED BY <1>1
<1> HIDE DEF lead, bits, cp
<1>3. \A n \in 0 .. 3 : cp[n] = IF n = 0 THEN lead ELSE cp[n - 1] * 64 + bits(n)
  BY <1>2
<1>4. cp[0] = lead /\ cp[1] = c1 /\ cp[2] = c2 /\ cp[3] = c3
  BY <1>3
<1>5. \A len \in 1 .. 4 : CodePoint(s, k, len) = cp[len - 1]
  BY DEF CodePoint, cp, lead, bits
<1> QED BY <1>4, <1>5 DEF lead, bits

(* A byte of ASCII is decoded to itself; no other sequence contains one.   *)
LEMMA DecodeIs ==
    ASSUME NEW s \in Seq(1 .. 255), NEW k \in Nat, k < Len(s)
    PROVE  /\ DecodeUtf8(s, k).cp \in CodePoints
           /\ ByteAt(s, k) < 128 => DecodeUtf8(s, k) = [cp |-> ByteAt(s, k), len |-> 1]
           /\ \A n \in 1 .. DecodeUtf8(s, k).len - 1 : ByteAt(s, k + n) >= 128
<1> DEFINE first == ByteAt(s, k)
           len   == SequenceLength(first)
           broken == len = 0 \/ \E n \in 1 .. len - 1 : ~Continuation(ByteAt(s, k + n))
           lead  == LeadBits(first)
           b1    == ByteAt(s, k + 1) % 64
           b2    == ByteAt(s, k + 2) % 64
           b3    == ByteAt(s, k + 3) % 64
<1>1. first \in 0 .. 255 /\ len \in 0 .. 4
  <2>1. first \in 0 .. 255
    BY ByteType
  <2> QED BY <2>1, SequenceLengths
<1>2. b1 \in 0 .. 63 /\ b2 \in 0 .. 63 /\ b3 \in 0 .. 63
  <2>1. /\ ByteAt(s, k + 1) \in 0 .. 255 /\ ByteAt(s, k + 2) \in 0 .. 255
        /\ ByteAt(s, k + 3) \in 0 .. 255
    BY ByteType
  <2>2. \A b \in 0 .. 255 : b % 64 \in 0 .. 63
    OBVIOUS
  <2> QED BY <2>1, <2>2, Zenon
<1>3. /\ CodePoint(s, k, 1) = lead
      /\ CodePoint(s, k, 2) = lead * 64 + b1
      /\ CodePoint(s, k, 3) = (lead * 64 + b1) * 64 + b2
      /\ CodePoint(s, k, 4) = ((lead * 64 + b1) * 64 + b2) * 64 + b3
  BY CodePointIs
<1>4. /\ len = 1 => lead = first /\ first < 128
      /\ len = 2 => lead \in 0 .. 31
      /\ len = 3 => lead \in 0 .. 15
      /\ len = 4 => lead \in 0 .. 7
  <2> HIDE DEF first
  <2> QED BY <1>1, LeadBitsIs
<1>5. first < 128 => len = 1
  BY <1>1 DEF SequenceLength
<1>6. broken => DecodeUtf8(s, k) = [cp |-> REPLACEMENT, len |-> 1]
  BY DEF DecodeUtf8, Failed
<1>7. ~broken => DecodeUtf8(s, k) = [cp |-> CodePoint(s, k, len), len |-> len]
  BY DEF DecodeUtf8
<1>8. CASE broken
  <2>1. len # 1 /\ DecodeUtf8(s, k) = [cp |-> REPLACEMENT, len |-> 1]
    BY <1>6, <1>8
  <2> HIDE DEF first, len, broken, lead, b1, b2, b3
  <2>2. ~(first < 128)
    BY <1>5, <2>1
  <2>3. REPLACEMENT \in CodePoints
    BY SMT DEF REPLACEMENT, CodePoints
  <2>4. DecodeUtf8(s, k).cp = REPLACEMENT /\ DecodeUtf8(s, k).len = 1
    BY <2>1
  <2>5. \A n \in 1 .. 1 - 1 : ByteAt(s, k + n) >= 128
    OBVIOUS
  <2> QED BY <2>2, <2>3, <2>4, <2>5 DEF first
<1>9. CASE ~broken
  <2>1. len \in 1 .. 4 /\ \A n \in 1 .. len - 1 : Continuation(ByteAt(s, k + n))
    BY <1>1, <1>9
  <2>2. \A n \in 1 .. len - 1 : ByteAt(s, k + n) >= 128
    <3>1. \A b : Continuation(b) => b >= 128
      BY DEF Continuation
    <3> QED BY <2>1, <3>1, Zenon
  <2> HIDE DEF first, len, broken, lead, b1, b2, b3
  <2>3. CodePoint(s, k, len) \in CodePoints
    <3>1. CASE len = 1
      <4>1. CodePoint(s, k, len) = lead /\ lead \in 0 .. 127
        BY <1>1, <1>3, <1>4, <3>1
      <4> QED BY <4>1, SMT DEF CodePoints
    <3>2. CASE len = 2
      <4>1. CodePoint(s, k, len) = lead * 64 + b1 /\ lead \in 0 .. 31
        BY <1>3, <1>4, <3>2
      <4> QED BY <1>2, <4>1, SMT DEF CodePoints
    <3>3. CASE len = 3
      <4>1. CodePoint(s, k, len) = (lead * 64 + b1) * 64 + b2 /\ lead \in 0 .. 15
        BY <1>3, <1>4, <3>3
      <4> QED BY <1>2, <4>1, SMT DEF CodePoints
    <3>4. CASE len = 4
      <4>1. /\ CodePoint(s, k, len) = ((lead * 64 + b1) * 64 + b2) * 64 + b3
            /\ lead \in 0 .. 7
        BY <1>3, <1>4, <3>4
      <4> QED BY <1>2, <4>1, SMT DEF CodePoints
    <3> QED BY <2>1, <3>1, <3>2, <3>3, <3>4
  <2>4. DecodeUtf8(s, k).cp = CodePoint(s, k, len) /\ DecodeUtf8(s, k).len = len
    BY <1>7, <1>9
  <2>5. first < 128 => DecodeUtf8(s, k) = [cp |-> first, len |-> 1]
    BY <1>3, <1>4, <1>5, <1>7, <1>9
  <2> QED BY <2>2, <2>3, <2>4, <2>5 DEF first
<1> QED BY <1>8, <1>9

-----------------------------------------------------------------------------
(***************************************************************************)
(* The inductive invariant: write is in a string, or at its end, and the   *)
(* calls left are calls.                                                   *)
(***************************************************************************)
StringInv == text \in Seq(1 .. 255) /\ str \in 0 .. Len(text)
CallInv   == calls \in Seq(Call) /\ value \in Nat
IoInv     == StringInv /\ CallInv

LEMMA IoInit == PrintInit => IoInv
<1> SUFFICES ASSUME PrintInit PROVE IoInv
  OBVIOUS
<1>1. text = <<>> /\ str = 0 /\ value = 0 /\ calls \in Seq(Call)
  BY PrintAssumption DEF PrintInit
<1>2. text \in Seq(1 .. 255) /\ Len(text) = 0
  BY <1>1
<1> QED
  BY <1>1, <1>2 DEF IoInv, StringInv, CallInv

(* One character of a string: the loop of write stays within it.           *)
LEMMA DecodePreserves ==
    ASSUME StringInv, Decode
    PROVE  StringInv'
<1>1. /\ text \in Seq(1 .. 255) /\ str \in Nat /\ Len(text) \in Nat /\ str <= Len(text)
      /\ ByteAt(text, str) # 0 /\ text' = text /\ str' = str + DecodeUtf8(text, str).len
  BY DEF StringInv, Decode
<1>2. str < Len(text)
  BY <1>1 DEF ByteAt
<1>3. DecodeUtf8(text, str).len \in Nat /\ str + DecodeUtf8(text, str).len <= Len(text)
  BY <1>1, <1>2, DecodeInside
<1> DEFINE l == DecodeUtf8(text, str).len
<1> HIDE DEF l
<1>4. str + l \in 0 .. Len(text)
  BY <1>1, <1>3 DEF l
<1> QED
  BY <1>1, <1>4 DEF StringInv, l

(* A call begins, or ends.                                                 *)
LEMMA NextCall ==
    ASSUME CallInv, calls # <<>>
    PROVE  /\ Head(calls) \in Call /\ Tail(calls) \in Seq(Call)
           /\ Kind \in {"puts", "putln"} => Head(calls).arg \in Seq(1 .. 255)
           /\ Kind \notin {"puts", "putln"} => Head(calls).arg \in Nat
<1>1. Head(calls) \in Call /\ Tail(calls) \in Seq(Call)
  BY HeadTailProperties DEF CallInv
<1> QED
  BY <1>1 DEF Call, Kind

(* While a call is in progress there is one.                               *)
InCall == pc # "call" => calls # <<>>

LEMMA CutOff ==
    ASSUME NEW v \in Nat
    PROVE  v % SIZE \in Nat /\ v % UINT \in Nat
<1>1. SIZE \in Nat \ {0} /\ UINT \in Nat \ {0}
  BY PrintAssumption
<1>2. ASSUME NEW m \in Nat \ {0} PROVE v % m \in Nat
  OBVIOUS
<1> QED
  BY <1>1, <1>2

LEMMA IoStep == IoInv /\ InCall /\ [PrintNext]_pvars => (IoInv /\ InCall)'
<1> SUFFICES ASSUME IoInv, InCall, [PrintNext]_pvars PROVE (IoInv /\ InCall)'
  OBVIOUS
<1>1. StringInv /\ CallInv
  BY DEF IoInv
<1>2. CASE CallWrite
  <2>1. calls # <<>> /\ text' = Head(calls).arg /\ str' = 0 /\ UNCHANGED <<calls, value>>
        /\ Kind \in {"puts", "putln"}
    BY <1>2 DEF CallWrite
  <2>2. text' \in Seq(1 .. 255)
    BY <1>1, <2>1, NextCall
  <2>3. str' \in 0 .. Len(text')
    BY <2>1, <2>2
  <2> QED
    BY <1>1, <2>1, <2>2, <2>3 DEF IoInv, StringInv, CallInv, InCall
<1>3. CASE WriteChar
  <2>1. Decode /\ UNCHANGED <<calls, pc, value>>
    BY <1>3 DEF WriteChar
  <2> QED
    BY <1>1, <2>1, DecodePreserves DEF IoInv, CallInv, InCall
<1>4. CASE WriteEnd \/ EmitEnd
  <2>1. /\ pc # "call" /\ pc' = "call" /\ calls' = Tail(calls)
        /\ UNCHANGED <<text, str, value>>
    BY <1>4 DEF WriteEnd, EmitEnd, vars
  <2>2. calls' \in Seq(Call)
    BY <1>1, <2>1, NextCall DEF InCall
  <2> QED
    BY <1>1, <2>1, <2>2 DEF IoInv, StringInv, CallInv, InCall
<1>5. CASE CallNumber
  <2>1. /\ calls # <<>> /\ Kind \notin {"puts", "putln"} /\ UNCHANGED <<text, str, calls>>
        /\ value' = Head(calls).arg % Limit(Head(calls))
    BY <1>5 DEF CallNumber, vars
  <2>2. Head(calls).arg \in Nat
    BY <1>1, <2>1, NextCall
  <2>3. value' \in Nat
    BY <2>1, <2>2, CutOff DEF Limit
  <2> QED
    BY <1>1, <2>1, <2>3 DEF IoInv, StringInv, CallInv, InCall
<1>6. CASE Collect
  <2>1. value' = value \div Base /\ pc = "digit" /\ UNCHANGED <<text, str, calls>>
    BY <1>6 DEF Collect, vars
  <2>2. Base \in {10, 16} /\ value \in Nat
    BY <1>1 DEF Base, CallInv
  <2>3. value' \in Nat
    <3>1. CASE Base = 10
      BY <2>1, <2>2, <3>1
    <3>2. CASE Base = 16
      BY <2>1, <2>2, <3>2
    <3> QED
      BY <2>2, <3>1, <3>2
  <2> QED
    BY <1>1, <2>1, <2>3 DEF IoInv, StringInv, CallInv, InCall
<1>7. CASE Emit \/ UNCHANGED pvars
  BY <1>1, <1>7 DEF Emit, pvars, vars, IoInv, StringInv, CallInv, InCall
<1> QED
  BY <1>2, <1>3, <1>4, <1>5, <1>6, <1>7 DEF PrintNext

(* write stands inside its string and in a call that is left.              *)
THEOREM IoInductive == PrintSpec => [](IoInv /\ InCall)
<1>1. PrintInit => IoInv /\ InCall
  BY IoInit DEF PrintInit, InCall
<1> QED
  BY <1>1, IoStep, PTL DEF PrintSpec

(* write never steps over the terminating NUL of a string, whatever bytes  *)
(* the string has and however it ends (decode_utf8 looks up to three bytes *)
(* ahead), in any sequence of calls.                                       *)
THEOREM StringsNotOverrun == PrintSpec => []NeverPastEnd
<1>1. IoInv => NeverPastEnd
  BY DEF IoInv, StringInv, NeverPastEnd
<1> QED
  BY <1>1, IoInductive, PTL

-----------------------------------------------------------------------------
(***************************************************************************)
(* What write has drawn of a string: code points, each for the byte its    *)
(* sequence starts with, and one for each byte of ASCII passed.            *)
(***************************************************************************)
Standing(at, t, s, d) ==
    /\ \A m, n \in 1 .. Len(d) : m < n => at[m] < at[n]
    /\ \A q \in 1 .. s : t[q] < 128 => \E n \in 1 .. Len(d) : at[n] = q /\ d[n] = t[q]

Stands(t, s, d) == /\ d \in Seq(CodePoints)
                   /\ \E at \in [1 .. Len(d) -> 1 .. s] : Standing(at, t, s, d)

DecodedInv == Stands(text, str, decoded)

LEMMA NothingStands ==
    ASSUME NEW t
    PROVE  Stands(t, 0, <<>>)
<1>1. 1 .. Len(<<>>) = {} /\ 1 .. 0 = {} /\ <<>> \in Seq(CodePoints)
  OBVIOUS
<1> DEFINE at == [n \in {} |-> 1]
<1>2. at \in [1 .. Len(<<>>) -> 1 .. 0] /\ Standing(at, t, 0, <<>>)
  BY <1>1 DEF Standing
<1> QED BY <1>1, <1>2 DEF Stands

LEMMA DecodeStands ==
    ASSUME StringInv, DecodedInv, Decode
    PROVE  DecodedInv'
<1> DEFINE l == DecodeUtf8(text, str).len
           cp == DecodeUtf8(text, str).cp
           N == Len(decoded)
<1>1. /\ text \in Seq(1 .. 255) /\ str \in Nat /\ Len(text) \in Nat /\ str < Len(text)
      /\ text' = text /\ str' = str + l /\ decoded' = Append(decoded, cp)
      /\ decoded \in Seq(CodePoints) /\ N \in Nat
  BY DEF StringInv, Decode, ByteAt, DecodedInv, Stands
<1>2. l \in Nat /\ l >= 1 /\ str + l <= Len(text)
  BY <1>1, DecodeInside
<1>3. /\ cp \in CodePoints
      /\ ByteAt(text, str) < 128 => cp = ByteAt(text, str)
      /\ \A n \in 1 .. l - 1 : ByteAt(text, str + n) >= 128
  BY <1>1, DecodeIs
<1>4. PICK at \in [1 .. N -> 1 .. str] : Standing(at, text, str, decoded)
  BY DEF DecodedInv, Stands
<1> DEFINE new == [n \in 1 .. N + 1 |-> IF n <= N THEN at[n] ELSE str + 1]
<1> HIDE DEF l, cp
<1>5. /\ decoded' \in Seq(CodePoints) /\ Len(decoded') = N + 1 /\ decoded'[N + 1] = cp
      /\ \A n \in 1 .. N : decoded'[n] = decoded[n]
  BY <1>1, <1>3, AppendProperties
<1>6. /\ new \in [1 .. N + 1 -> 1 .. str + l] /\ new[N + 1] = str + 1
      /\ \A n \in 1 .. N : new[n] = at[n] /\ at[n] \in 1 .. str
  <2>1. N + 1 \in 1 .. N + 1 /\ ~(N + 1 <= N) /\ str + 1 \in 1 .. str + l
        /\ \A q \in 1 .. str : q \in 1 .. str + l
    BY <1>1, <1>2
  <2>2. \A n \in 1 .. N : n \in 1 .. N + 1 /\ n <= N /\ at[n] \in 1 .. str
    BY <1>1
  <2>3. \A n \in 1 .. N + 1 : n <= N => n \in 1 .. N
    BY <1>1
  <2> HIDE DEF N
  <2> QED BY <2>1, <2>2, <2>3
<1> HIDE DEF new
<1>7. \A m, n \in 1 .. N + 1 : m < n => new[m] < new[n]
  <2> SUFFICES ASSUME NEW m \in 1 .. N + 1, NEW n \in 1 .. N + 1, m < n PROVE new[m] < new[n]
    OBVIOUS
  <2>1. m \in 1 .. N /\ new[m] = at[m] /\ at[m] \in 1 .. str
    BY <1>1, <1>6
  <2>2. CASE n = N + 1
    BY <1>1, <1>6, <2>1, <2>2
  <2>3. CASE n # N + 1
    <3>1. n \in 1 .. N /\ new[n] = at[n]
      BY <1>1, <1>6, <2>3
    <3> QED BY <1>4, <2>1, <3>1 DEF Standing
  <2> QED BY <2>2, <2>3
<1>8. ASSUME NEW q \in 1 .. str + l, text[q] < 128
      PROVE  \E n \in 1 .. N + 1 : new[n] = q /\ decoded'[n] = text[q]
  <2>1. CASE q \in 1 .. str
    <3>1. PICK n \in 1 .. N : at[n] = q /\ decoded[n] = text[q]
      BY <1>4, <1>8, <2>1 DEF Standing
    <3>2. n \in 1 .. N + 1 /\ new[n] = q /\ decoded'[n] = text[q]
      BY <1>1, <1>5, <1>6, <3>1
    <3> QED BY <3>2
  <2>2. CASE q = str + 1
    <3>1. ByteAt(text, str) = text[q]
      BY <1>1, <2>2, ByteType
    <3>2. cp = text[q]
      BY <1>3, <1>8, <3>1
    <3>3. N + 1 \in 1 .. N + 1
      BY <1>1
    <3> QED BY <1>5, <1>6, <2>2, <3>2, <3>3
  <2>3. CASE q > str + 1
    <3> DEFINE n == q - 1 - str
    <3>1. n \in 1 .. l - 1 /\ str + n \in Nat /\ str + n < Len(text) /\ (str + n) + 1 = q
      BY <1>1, <1>2, <2>3
    <3> HIDE DEF n
    <3>2. ByteAt(text, str + n) = text[q] /\ ByteAt(text, str + n) \in 0 .. 255
      BY <1>1, <3>1, ByteType
    <3>3. ByteAt(text, str + n) >= 128
      BY <1>3, <3>1
    <3> DEFINE b == ByteAt(text, str + n)
    <3>4. b \in 0 .. 255 /\ b >= 128 /\ b < 128
      BY <1>8, <3>2, <3>3
    <3> HIDE DEF b
    <3> QED BY <3>4
  <2>4. q \in 1 .. str \/ q = str + 1 \/ q > str + 1
    BY <1>1
  <2> QED BY <2>1, <2>2, <2>3, <2>4
<1> DEFINE t == text'
           e == str'
           d == decoded'
<1>9. new \in [1 .. Len(d) -> 1 .. e] /\ Standing(new, t, e, d)
  <2>1. \A q \in 1 .. str + l : text[q] < 128 =>
           \E n \in 1 .. N + 1 : new[n] = q /\ decoded'[n] = text[q]
    BY <1>8
  <2>2. t = text /\ e = str + l /\ d = decoded' /\ Len(d) = N + 1
    BY <1>1, <1>5
  <2> HIDE DEF N, t, e, d
  <2> QED BY <1>6, <1>7, <2>1, <2>2 DEF Standing
<1>10. d \in Seq(CodePoints)
  BY <1>5
<1> QED BY <1>9, <1>10 DEF DecodedInv, Stands

LEMMA DecodedStep == IoInv /\ DecodedInv /\ [PrintNext]_pvars => DecodedInv'
<1> SUFFICES ASSUME IoInv, DecodedInv, [PrintNext]_pvars PROVE DecodedInv'
  OBVIOUS
<1>1. CASE CallWrite
  <2>1. str' = 0 /\ decoded' = <<>>
    BY <1>1 DEF CallWrite
  <2> QED BY <2>1, NothingStands DEF DecodedInv
<1>2. CASE WriteChar
  BY <1>2, DecodeStands DEF WriteChar, IoInv
<1>3. CASE UNCHANGED vars
  BY <1>3 DEF vars, DecodedInv
<1> QED BY <1>1, <1>2, <1>3 DEF PrintNext, WriteEnd, CallNumber, Collect, Emit, EmitEnd, pvars

(* No character of ASCII is swallowed, whatever bytes surround it: what is *)
(* drawn of a string stands for bytes of it in their order, and for every  *)
(* byte of ASCII there is the character itself.                            *)
THEOREM AsciiNotSwallowed == PrintSpec => []AsciiKept
<1>1. PrintInit => DecodedInv
  BY NothingStands DEF PrintInit, DecodedInv
<1>2. IoInv /\ DecodedInv => AsciiKept
  <2> SUFFICES ASSUME IoInv, DecodedInv, Done PROVE
          \E at \in [DOMAIN decoded -> DOMAIN text] :
              /\ \A m, n \in DOMAIN decoded : m < n => at[m] < at[n]
              /\ \A q \in DOMAIN text : text[q] < 128 =>
                     \E n \in DOMAIN decoded : at[n] = q /\ decoded[n] = text[q]
    BY DEF AsciiKept
  <2>1. /\ text \in Seq(1 .. 255) /\ str \in 0 .. Len(text) /\ decoded \in Seq(CodePoints)
        /\ DOMAIN text = 1 .. Len(text) /\ DOMAIN decoded = 1 .. Len(decoded)
        /\ Len(text) \in Nat
    BY DEF IoInv, StringInv, DecodedInv, Stands
  <2>2. str \in Nat /\ str <= Len(text) /\ ByteAt(text, str) = 0
    BY <2>1 DEF Done
  <2>3. ~(str < Len(text))
    BY <2>1, <2>2, ByteType
  <2>4. str = Len(text) /\ DOMAIN text = 1 .. str
    <3> DEFINE N == Len(text)
    <3>1. N \in Nat /\ str \in Nat /\ str <= N /\ ~(str < N)
      BY <2>1, <2>2, <2>3
    <3> HIDE DEF N
    <3>2. str = N
      BY <3>1
    <3> QED BY <2>1, <3>2 DEF N
  <2>5. PICK at \in [1 .. Len(decoded) -> 1 .. str] : Standing(at, text, str, decoded)
    BY DEF DecodedInv, Stands
  <2>6. /\ \A m, n \in DOMAIN decoded : m < n => at[m] < at[n]
        /\ \A q \in DOMAIN text : text[q] < 128 =>
               \E n \in DOMAIN decoded : at[n] = q /\ decoded[n] = text[q]
    BY <2>1, <2>4, <2>5, Zenon DEF Standing
  <2>7. at \in [DOMAIN decoded -> DOMAIN text]
    BY <2>1, <2>4, <2>5, Zenon
  <2> QED BY <2>6, <2>7, Zenon
<1> QED BY <1>1, <1>2, DecodedStep, IoInductive, PTL DEF PrintSpec

-----------------------------------------------------------------------------
(***************************************************************************)
(* The rest of the state: the calls left are the last of the report, the   *)
(* digits of a number have room in the buffer, and what is on the screen   *)
(* are code points.                                                        *)
(***************************************************************************)
LeftInv == /\ report \in Seq(Call) /\ calls \in Seq(Call) /\ Len(calls) <= Len(report)
           /\ \A m \in 1 .. Len(calls) : calls[m] = report[(Len(report) - Len(calls)) + m]

Digits    == 48 .. 102
BufferInv == /\ buffer \in Seq(Digits) /\ Len(buffer) <= BUFFER
             /\ pc = "digit" => /\ value < TenTo[BUFFER - Len(buffer)]
                                /\ Len(buffer) = 0 \/ value > 0
ShownInv  == pc \in {"call", "write", "digit", "emit"} /\ shown \in Seq(CodePoints)

LEMMA TenToIs ==
    /\ TenTo[0] = 1 /\ \A n \in Nat : TenTo[n] \in Nat /\ TenTo[n + 1] = 10 * TenTo[n]
<1> DEFINE Powers(f) == f = [n \in Nat |-> IF n = 0 THEN 1 ELSE 10 * f[n - 1]]
           G == [n \in Nat |-> [x \in Nat |-> 10 * x]]
<1>1. Steps(G, Nat) /\ 1 \in Nat
  BY DEF Steps
<1>2. PICK f : f \in [Nat -> Nat] /\ f[0] = 1 /\ \A n \in Nat : f[n + 1] = G[n][f[n]]
  <2> HIDE DEF G
  <2>1. \E f : Iterates(f, 1, G, Nat)
    BY <1>1, Recursion
  <2> QED BY <2>1 DEF Iterates
<1>3. \A n \in Nat : f[n] = IF n = 0 THEN 1 ELSE 10 * f[n - 1]
  <2> SUFFICES ASSUME NEW n \in Nat, n # 0 PROVE f[n] = 10 * f[n - 1]
    BY <1>2
  <2>1. n - 1 \in Nat /\ (n - 1) + 1 = n
    OBVIOUS
  <2>2. f[(n - 1) + 1] = G[n - 1][f[n - 1]]
    BY <1>2, <2>1
  <2> QED BY <1>2, <2>1, <2>2
<1>4. Powers(f)
  BY <1>2, <1>3
<1>5. Powers(TenTo)
  <2>1. \E g : Powers(g)
    BY <1>4
  <2>2. Powers(CHOOSE g : Powers(g))
    <3> HIDE DEF Powers
    <3> QED BY <2>1
  <2>3. TenTo = CHOOSE g : Powers(g)
    BY DEF TenTo
  <2> HIDE DEF Powers
  <2> QED BY <2>2, <2>3
<1>6. TenTo[0] = 1 /\ \A n \in Nat : TenTo[n + 1] = 10 * TenTo[n]
  <2>1. TenTo[0] = 1
    BY <1>5
  <2>2. ASSUME NEW n \in Nat PROVE TenTo[n + 1] = 10 * TenTo[n]
    <3>1. n + 1 \in Nat /\ n + 1 # 0 /\ (n + 1) - 1 = n
      OBVIOUS
    <3>2. TenTo[n + 1] = 10 * TenTo[(n + 1) - 1]
      BY <1>5, <3>1
    <3> QED BY <3>1, <3>2
  <2> QED BY <2>1, <2>2
<1> DEFINE S == {n \in Nat : TenTo[n] \in Nat}
<1>7. 0 \in S
  BY <1>6
<1>8. ASSUME NEW n \in Nat, n \in S PROVE n + 1 \in S
  <2>1. TenTo[n + 1] = 10 * TenTo[n] /\ TenTo[n] \in Nat
    BY <1>6, <1>8
  <2> QED BY <2>1
<1>9. Nat \subseteq S
  <2> HIDE DEF S
  <2> QED BY <1>7, <1>8, NumberInduction
<1> QED BY <1>6, <1>9

LEMMA LeftSuffix ==
    ASSUME LeftInv
    PROVE  IsSuffix(calls, report)
<1> DEFINE c == Len(calls)
           r == Len(report)
           rc == Reverse(calls)
           rr == Reverse(report)
<1>1. c \in Nat /\ r \in Nat /\ c <= r /\ calls \in Seq(Call) /\ report \in Seq(Call)
  BY DEF LeftInv
<1>2. \A n \in 1 .. c : calls[(c - n) + 1] = report[(r - n) + 1]
  <2> SUFFICES ASSUME NEW n \in 1 .. c PROVE calls[(c - n) + 1] = report[(r - n) + 1]
    OBVIOUS
  <2>1. (c - n) + 1 \in 1 .. c /\ (r - c) + ((c - n) + 1) = (r - n) + 1
    BY <1>1
  <2>2. calls[(c - n) + 1] = report[(r - c) + ((c - n) + 1)]
    BY <2>1 DEF LeftInv
  <2> QED BY <2>1, <2>2
<1>3. /\ rc \in Seq(Call) /\ Len(rc) = c /\ rr \in Seq(Call) /\ Len(rr) = r
      /\ \A n \in 1 .. c : rc[n] = calls[(c - n) + 1]
      /\ \A n \in 1 .. r : rr[n] = report[(r - n) + 1]
  <2>1. ASSUME NEW s \in Seq(Call)
        PROVE  /\ Reverse(s) \in Seq(Call) /\ Len(Reverse(s)) = Len(s)
               /\ \A n \in 1 .. Len(s) : Reverse(s)[n] = s[(Len(s) - n) + 1]
    <3>1. \A n \in 1 .. Len(s) : s[(Len(s) - n) + 1] \in Call
      OBVIOUS
    <3> QED BY <3>1 DEF Reverse
  <2> QED BY <1>1, <2>1
<1> HIDE DEF rc, rr, c, r
<1>4. \A n \in 1 .. c : rc[n] = rr[n]
  <2> SUFFICES ASSUME NEW n \in 1 .. c PROVE rc[n] = rr[n]
    OBVIOUS
  <2>1. n \in 1 .. r
    BY <1>1
  <2> QED BY <1>2, <1>3, <2>1
<1>5. SubSeq(rc, 1, c) = SubSeq(rr, 1, c)
  <2>1. SubSeq(rc, 1, c) = [n \in 1 .. c |-> rc[n]] /\ SubSeq(rr, 1, c) = [n \in 1 .. c |-> rr[n]]
    <3>1. ASSUME NEW s \in Seq(Call), c <= Len(s)
          PROVE  SubSeq(s, 1, c) = [n \in 1 .. c |-> s[n]]
      BY <1>1, <3>1
    <3> QED BY <1>1, <1>3, <3>1
  <2> QED BY <1>4, <2>1
<1> QED BY <1>1, <1>3, <1>5 DEF IsSuffix, IsPrefix, rc, rr

(* A digit taken off: what is left is ten times smaller.                   *)
LEMMA DigitTaken ==
    ASSUME NEW v \in Nat, NEW x \in Nat, NEW b \in {10, 16}, v < 10 * x
    PROVE  v \div b \in Nat /\ v \div b < x /\ Digit(v % b) \in Digits
<1>1. CASE b = 10
  BY <1>1 DEF Digit, Digits
<1>2. CASE b = 16
  BY <1>2 DEF Digit, Digits
<1> QED BY <1>1, <1>2

LEMMA DigitsAreCodePoints == Digits \subseteq CodePoints /\ NEWLINE \in CodePoints
  BY SMT DEF Digits, CodePoints, NEWLINE

LEMMA LeftStep == IoInv /\ InCall /\ LeftInv /\ [PrintNext]_pvars => LeftInv'
<1> SUFFICES ASSUME IoInv, InCall, LeftInv, [PrintNext]_pvars PROVE LeftInv'
  OBVIOUS
<1>1. CASE UNCHANGED <<report, calls>>
  BY <1>1 DEF LeftInv
<1>2. CASE WriteEnd \/ EmitEnd
  <2> DEFINE c == Len(calls)
             r == Len(report)
  <2>1. /\ calls # <<>> /\ calls' = Tail(calls) /\ report' = report /\ calls \in Seq(Call)
        /\ report \in Seq(Call) /\ c \in Nat /\ r \in Nat /\ c <= r
    BY <1>2 DEF WriteEnd, EmitEnd, InCall, LeftInv
  <2>2. /\ Tail(calls) \in Seq(Call) /\ Len(Tail(calls)) = c - 1 /\ c > 0
        /\ \A m \in 1 .. c - 1 : Tail(calls)[m] = calls[m + 1]
    BY <2>1
  <2>3. \A m \in 1 .. c : calls[m] = report[(r - c) + m]
    BY DEF LeftInv
  <2> HIDE DEF c, r
  <2>4. \A m \in 1 .. c - 1 : Tail(calls)[m] = report[(r - (c - 1)) + m]
    <3> SUFFICES ASSUME NEW m \in 1 .. c - 1 PROVE Tail(calls)[m] = report[(r - (c - 1)) + m]
      OBVIOUS
    <3>1. m + 1 \in 1 .. c /\ (r - c) + (m + 1) = (r - (c - 1)) + m
      BY <2>1
    <3>2. calls[m + 1] = report[(r - c) + (m + 1)]
      BY <2>3, <3>1
    <3> QED BY <2>2, <3>1, <3>2
  <2>5. Len(Tail(calls)) = c - 1 /\ c - 1 <= r
    BY <2>1, <2>2
  <2> QED BY <2>1, <2>2, <2>4, <2>5 DEF LeftInv, r
<1> QED BY <1>1, <1>2 DEF PrintNext, CallWrite, WriteChar, CallNumber, Collect, Emit, pvars

LEMMA BufferStep == IoInv /\ InCall /\ BufferInv /\ [PrintNext]_pvars => BufferInv'
<1> SUFFICES ASSUME IoInv, InCall, BufferInv, [PrintNext]_pvars PROVE BufferInv'
  OBVIOUS
<1> DEFINE n == Len(buffer)
<1>1. BUFFER \in Nat \ {0} /\ n \in Nat /\ n <= BUFFER /\ buffer \in Seq(Digits) /\ value \in Nat
  BY BufferAssumption DEF BufferInv, IoInv, CallInv
<1>2. CASE UNCHANGED <<buffer, pc, value>>
  BY <1>2 DEF BufferInv
<1>3. CASE CallWrite \/ WriteEnd
  <2>1. buffer' = buffer /\ pc' # "digit"
    BY <1>3 DEF CallWrite, WriteEnd
  <2> QED BY <2>1 DEF BufferInv
<1>4. CASE CallNumber
  <2>1. /\ buffer' = <<>> /\ value' = Head(calls).arg % Limit(Head(calls)) /\ calls # <<>>
        /\ Kind \notin {"puts", "putln"}
    BY <1>4 DEF CallNumber
  <2>2. Head(calls).arg \in Nat
    BY <2>1, NextCall DEF IoInv
  <2>3. ASSUME NEW v \in Nat, NEW m \in Nat \ {0}, m <= TenTo[BUFFER] PROVE v % m < TenTo[BUFFER]
    <3>1. v % m < m /\ v % m \in Nat
      OBVIOUS
    <3>2. TenTo[BUFFER] \in Nat
      BY <1>1, TenToIs, Zenon
    <3> DEFINE u == v % m
               x == TenTo[BUFFER]
    <3>3. u \in Nat /\ u < m /\ x \in Nat /\ m <= x
      BY <2>3, <3>1, <3>2
    <3> HIDE DEF u, x
    <3> QED BY <3>3 DEF u, x
  <2>4. value' < TenTo[BUFFER]
    BY <2>1, <2>2, <2>3, PrintAssumption, BufferAssumption DEF Limit
  <2>5. Len(<<>>) = 0 /\ <<>> \in Seq(Digits) /\ BUFFER - 0 = BUFFER /\ 0 <= BUFFER
    BY <1>1
  <2> QED BY <2>1, <2>4, <2>5 DEF BufferInv
<1>5. CASE Collect
  <2>1. /\ pc = "digit" /\ value' = value \div Base /\ Base \in {10, 16}
        /\ buffer' = Append(buffer, Digit(value % Base)) /\ (pc' = "digit" => value' # 0)
    BY <1>5 DEF Collect, Base
  <2> DEFINE e == BUFFER - n
             x == TenTo[e - 1]
             b == Base
             v == value
  <2>2. v < TenTo[e] /\ (n = 0 \/ v > 0) /\ b \in {10, 16} /\ v \in Nat
    BY <1>1, <2>1 DEF BufferInv
  <2>3. e \in Nat \ {0}
    <3>1. e \in Nat /\ (e = 0 => n = BUFFER)
      BY <1>1
    <3>2. CASE e = 0
      <4>1. v < 1 /\ n # 0
        BY <1>1, <2>2, <3>1, <3>2, TenToIs
      <4> QED BY <2>2, <4>1
    <3> QED BY <3>1, <3>2
  <2> HIDE DEF e
  <2>4. x \in Nat /\ TenTo[e] = 10 * x
    <3>1. e - 1 \in Nat /\ (e - 1) + 1 = e
      BY <2>3
    <3>2. TenTo[(e - 1) + 1] = 10 * TenTo[e - 1]
      BY <3>1, TenToIs
    <3> QED BY <3>1, <3>2, TenToIs
  <2> HIDE DEF b, v
  <2>5. v \div b \in Nat /\ v \div b < x /\ Digit(v % b) \in Digits
    <3> HIDE DEF x
    <3>1. v < 10 * x
      BY <2>2, <2>4
    <3> QED BY <2>2, <2>4, <3>1, DigitTaken
  <2>6. buffer' \in Seq(Digits) /\ Len(buffer') = n + 1
    <3> DEFINE c == Digit(v % b)
    <3>1. buffer' = Append(buffer, c) /\ c \in Digits
      BY <2>1, <2>5 DEF b, v
    <3> HIDE DEF c
    <3> QED BY <1>1, <3>1, AppendProperties
  <2>7. n + 1 <= BUFFER /\ BUFFER - (n + 1) = e - 1
    BY <1>1, <2>3 DEF e
  <2>8. value' = v \div b /\ (pc' = "digit" => value' > 0)
    <3> DEFINE u == v \div b
    <3>1. value' = u /\ (pc' = "digit" => u # 0) /\ u \in Nat
      BY <2>1, <2>5 DEF b, v
    <3> HIDE DEF u
    <3>2. u # 0 => u > 0
      BY <3>1
    <3> QED BY <3>1, <3>2 DEF u
  <2> HIDE DEF n
  <2> QED BY <2>5, <2>6, <2>7, <2>8 DEF BufferInv
<1>6. CASE Emit
  <2>1. pc' # "digit" /\ buffer # <<>> /\ buffer' = SubSeq(buffer, 1, n - 1)
    BY <1>6 DEF Emit, Front
  <2>2. buffer' \in Seq(Digits) /\ Len(buffer') = n - 1 /\ n - 1 <= BUFFER
    <3> DEFINE c == buffer
    <3>1. c \in Seq(Digits) /\ c # <<>> /\ n = Len(c)
      BY <1>1, <2>1
    <3> HIDE DEF c
    <3>2. SubSeq(c, 1, Len(c) - 1) \in Seq(Digits) /\ Len(SubSeq(c, 1, Len(c) - 1)) = Len(c) - 1
      BY <3>1
    <3>3. n - 1 <= BUFFER
      BY <1>1
    <3> QED BY <2>1, <3>1, <3>2, <3>3 DEF c
  <2> QED BY <2>1, <2>2 DEF BufferInv
<1>7. CASE EmitEnd
  BY <1>7 DEF EmitEnd, BufferInv
<1> QED BY <1>2, <1>3, <1>4, <1>5, <1>6, <1>7 DEF PrintNext, WriteChar, pvars

LEMMA ShownStep == IoInv /\ DecodedInv' /\ BufferInv /\ ShownInv /\ [PrintNext]_pvars => ShownInv'
<1> SUFFICES ASSUME IoInv, DecodedInv', BufferInv, ShownInv, [PrintNext]_pvars PROVE ShownInv'
  OBVIOUS
<1>1. pc' \in {"call", "write", "digit", "emit"}
  BY DEF ShownInv, PrintNext, CallWrite, WriteChar, WriteEnd, CallNumber, Collect, Emit, EmitEnd,
         pvars
<1>2. CASE UNCHANGED shown
  BY <1>1, <1>2 DEF ShownInv
<1>3. ASSUME NEW c \in CodePoints, shown' = Append(shown, c) PROVE ShownInv'
  BY <1>1, <1>3, AppendProperties DEF ShownInv
<1>4. CASE WriteChar
  <2>1. decoded' = Append(decoded, DecodeUtf8(text, str).cp) /\ shown' = Append(shown, Last(decoded'))
    BY <1>4 DEF WriteChar, Decode
  <2> DEFINE d == decoded'
  <2>2. d \in Seq(CodePoints)
    BY DEF DecodedInv, Stands
  <2>3. Last(d) \in CodePoints
    <3>1. StringInv /\ str < Len(text) /\ text \in Seq(1 .. 255) /\ str \in Nat
      BY <1>4 DEF IoInv, StringInv, WriteChar, Decode, ByteAt
    <3>2. DecodeUtf8(text, str).cp \in CodePoints
      BY <3>1, DecodeIs
    <3>3. ASSUME NEW e, e \in Seq(CodePoints), e # <<>> PROVE Last(e) \in CodePoints
      <4>1. Len(e) \in 1 .. Len(e)
        BY <3>3
      <4> QED BY <3>3, <4>1, ElementOfSeq DEF Last
    <3>4. d # <<>>
      BY <2>1, <2>2
    <3> HIDE DEF d
    <3> QED BY <2>2, <3>3, <3>4
  <2> QED BY <1>3, <2>1, <2>3
<1>5. CASE WriteEnd
  BY <1>2, <1>3, <1>5, DigitsAreCodePoints DEF WriteEnd
<1>6. CASE Emit
  <2>1. buffer \in Seq(Digits) /\ buffer # <<>> /\ shown' = Append(shown, Last(buffer))
    BY <1>6 DEF Emit, BufferInv
  <2>2. Last(buffer) \in Digits
    <3>1. Len(buffer) \in 1 .. Len(buffer)
      BY <2>1
    <3> QED BY <2>1, <3>1, ElementOfSeq DEF Last
  <2> QED BY <1>3, <2>1, <2>2, DigitsAreCodePoints
<1> QED BY <1>2, <1>4, <1>5, <1>6 DEF PrintNext, CallWrite, CallNumber, Collect, EmitEnd, pvars

(* The digits of the largest number have room in the buffer, and the calls *)
(* left are always the end of the report.                                  *)
PrintInv == IoInv /\ InCall /\ DecodedInv /\ LeftInv /\ BufferInv /\ ShownInv

(* The conjunction is an invariant of every report.                        *)
THEOREM PrintInductive == PrintSpec => []PrintInv
<1>1. PrintInit => DecodedInv /\ LeftInv /\ BufferInv /\ ShownInv
  <2> SUFFICES ASSUME PrintInit PROVE DecodedInv /\ LeftInv /\ BufferInv /\ ShownInv
    OBVIOUS
  <2>1. DecodedInv
    BY NothingStands DEF PrintInit, DecodedInv
  <2>2. report \in Seq(Call) /\ calls = report /\ Len(report) \in Nat
    BY PrintAssumption DEF PrintInit
  <2>3. LeftInv
    BY <2>2 DEF LeftInv
  <2>4. buffer = <<>> /\ pc = "call" /\ shown = <<>>
    BY DEF PrintInit
  <2>5. BufferInv /\ ShownInv
    BY <2>4, BufferAssumption DEF BufferInv, ShownInv
  <2> QED BY <2>1, <2>3, <2>5
<1>2. PrintInv /\ [PrintNext]_pvars => PrintInv'
  BY IoStep, DecodedStep, LeftStep, BufferStep, ShownStep DEF PrintInv
<1>3. PrintInit => PrintInv
  BY <1>1, IoInit DEF PrintInv, PrintInit, InCall
<1> QED BY <1>2, <1>3, PTL DEF PrintSpec

(* No print function writes past the end of its buffer, whatever number it *)
(* is given, and only code points reach the screen.                        *)
THEOREM PrintTypeCorrect == PrintSpec => []PrintTypeOK
<1>1. PrintInv => PrintTypeOK
  <2> SUFFICES ASSUME PrintInv PROVE PrintTypeOK
    OBVIOUS
  <2>1. IsSuffix(calls, report)
    BY LeftSuffix DEF PrintInv
  <2>2. TypeOK
    BY DEF PrintInv, IoInv, StringInv, DecodedInv, Stands, TypeOK
  <2> QED BY <2>1, <2>2 DEF PrintInv, PrintTypeOK, IoInv, CallInv, BufferInv, ShownInv
<1> QED BY <1>1, PrintInductive, PTL

-----------------------------------------------------------------------------
(***************************************************************************)
(* decode_utf8 undoes the encoding of a code point.                        *)
(***************************************************************************)
LEMMA DecodeWhole ==
    ASSUME NEW s \in Seq(1 .. 255), NEW k \in Nat, NEW len \in 1 .. 4,
           SequenceLength(ByteAt(s, k)) = len,
           \A n \in 1 .. len - 1 : Continuation(ByteAt(s, k + n))
    PROVE  DecodeUtf8(s, k) = [cp |-> CodePoint(s, k, len), len |-> len]
<1>1. len # 0
  OBVIOUS
<1> QED BY <1>1, Zenon DEF DecodeUtf8

(* The parts of a code point, and the bytes they make.                     *)
LEMMA PartsOf ==
    ASSUME NEW c \in CodePoints \ {0}
    PROVE  /\ c \in Nat \ {0} /\ c % 64 \in 0 .. 63
           /\ (c \div 64) % 64 \in 0 .. 63 /\ (c \div 4096) % 64 \in 0 .. 63
           /\ c < 2048 => c \div 64 \in 0 .. 31
           /\ c < 65536 => c \div 4096 \in 0 .. 15
           /\ c \div 262144 \in 0 .. 7
           /\ c = (c \div 64) * 64 + (c % 64)
           /\ c \div 64 = (c \div 4096) * 64 + ((c \div 64) % 64)
           /\ c \div 4096 = (c \div 262144) * 64 + ((c \div 4096) % 64)
<1>1. c \in Nat /\ c > 0 /\ c < 2097152
  BY SMT DEF CodePoints
<1> QED BY <1>1, SMT

LEMMA NextBytes ==
    \A b \in 128 .. 191 : Continuation(b) /\ b % 64 = b - 128
  BY SMT DEF Continuation

LEMMA EncodeIs ==
    ASSUME NEW c \in CodePoints \ {0}
    PROVE  Encode(c) \in Seq(1 .. 255) /\ Len(Encode(c)) \in 1 .. 4
<1> DEFINE q  == c \div 64
           r  == c \div 4096
           t  == c \div 262144
           y0 == 128 + (c % 64)
           y1 == 128 + (q % 64)
           y2 == 128 + (r % 64)
<1>1. /\ y0 \in 1 .. 255 /\ y1 \in 1 .. 255 /\ y2 \in 1 .. 255
      /\ c < 2048 => 192 + q \in 1 .. 255
      /\ c < 65536 => 224 + r \in 1 .. 255
      /\ 240 + t \in 1 .. 255 /\ c \in Nat \ {0}
  <2>1. /\ c \in Nat \ {0} /\ c % 64 \in 0 .. 63 /\ q % 64 \in 0 .. 63 /\ r % 64 \in 0 .. 63
        /\ c < 2048 => q \in 0 .. 31
        /\ c < 65536 => r \in 0 .. 15
        /\ t \in 0 .. 7
    BY PartsOf, SMT
  <2> DEFINE x0 == c % 64
             x1 == q % 64
             x2 == r % 64
  <2>2. x0 \in 0 .. 63 /\ x1 \in 0 .. 63 /\ x2 \in 0 .. 63
    BY <2>1
  <2> HIDE DEF q, r, t, x0, x1, x2
  <2>3. 128 + x0 \in 1 .. 255 /\ 128 + x1 \in 1 .. 255 /\ 128 + x2 \in 1 .. 255
    BY <2>2
  <2>4. /\ c < 2048 => 192 + q \in 1 .. 255
        /\ c < 65536 => 224 + r \in 1 .. 255
        /\ 240 + t \in 1 .. 255
    BY <2>1, SMT
  <2> QED BY <2>1, <2>3, <2>4, SMT DEF x0, x1, x2
<1>2. Encode(c) = IF c < 128 THEN <<c>>
                  ELSE IF c < 2048 THEN <<192 + q, y0>>
                  ELSE IF c < 65536 THEN <<224 + r, y1, y0>>
                  ELSE <<240 + t, y2, y1, y0>>
  BY SMT DEF Encode
<1> HIDE DEF q, r, t, y0, y1, y2
<1>3. ASSUME NEW a \in 1 .. 255 PROVE <<a>> \in Seq(1 .. 255) /\ Len(<<a>>) = 1
  OBVIOUS
<1>4. CASE c < 128
  <2>1. Encode(c) = <<c>> /\ c \in 1 .. 255
    BY <1>1, <1>2, <1>4, SMT
  <2> QED BY <1>3, <2>1
<1>5. CASE ~(c < 128) /\ c < 2048
  <2>1. Encode(c) = <<192 + q, y0>> /\ 192 + q \in 1 .. 255
    BY <1>1, <1>2, <1>5, SMT
  <2> DEFINE b == 192 + q
  <2> HIDE DEF b
  <2>2. Encode(c) = <<b, y0>> /\ b \in 1 .. 255 /\ y0 \in 1 .. 255
    BY <1>1, <2>1, SMT DEF b
  <2>3. <<b, y0>> \in Seq(1 .. 255) /\ Len(<<b, y0>>) = 2
    BY <2>2
  <2> QED BY <2>2, <2>3
<1>6. CASE ~(c < 128) /\ ~(c < 2048) /\ c < 65536
  <2>1. Encode(c) = <<224 + r, y1, y0>> /\ 224 + r \in 1 .. 255
    BY <1>1, <1>2, <1>6, SMT
  <2> DEFINE b == 224 + r
  <2> HIDE DEF b
  <2>2. Encode(c) = <<b, y1, y0>> /\ b \in 1 .. 255 /\ y0 \in 1 .. 255 /\ y1 \in 1 .. 255
    BY <1>1, <2>1, SMT DEF b
  <2>3. <<b, y1, y0>> \in Seq(1 .. 255) /\ Len(<<b, y1, y0>>) = 3
    BY <2>2
  <2> QED BY <2>2, <2>3
<1>7. CASE ~(c < 128) /\ ~(c < 2048) /\ ~(c < 65536)
  <2>1. Encode(c) = <<240 + t, y2, y1, y0>> /\ 240 + t \in 1 .. 255
    BY <1>1, <1>2, <1>7, SMT
  <2> DEFINE b == 240 + t
  <2> HIDE DEF b
  <2>2. /\ Encode(c) = <<b, y2, y1, y0>> /\ b \in 1 .. 255
        /\ y0 \in 1 .. 255 /\ y1 \in 1 .. 255 /\ y2 \in 1 .. 255
    BY <1>1, <2>1, SMT DEF b
  <2>3. <<b, y2, y1, y0>> \in Seq(1 .. 255) /\ Len(<<b, y2, y1, y0>>) = 4
    BY <2>2
  <2> QED BY <2>2, <2>3
<1> QED BY <1>4, <1>5, <1>6, <1>7, SMT

LEMMA DecodeEncoded ==
    ASSUME NEW s \in Seq(1 .. 255), NEW k \in Nat, NEW c \in CodePoints \ {0},
           \A n \in 1 .. Len(Encode(c)) : ByteAt(s, k + (n - 1)) = Encode(c)[n]
    PROVE  DecodeUtf8(s, k) = [cp |-> c, len |-> Len(Encode(c))]
<1> DEFINE b0 == ByteAt(s, k)
           b1 == ByteAt(s, k + 1)
           b2 == ByteAt(s, k + 2)
           b3 == ByteAt(s, k + 3)
           e  == Encode(c)
           q  == c \div 64
           r  == c \div 4096
           t  == c \div 262144
           x0 == c % 64
           x1 == q % 64
           x2 == r % 64
<1>1. /\ CodePoint(s, k, 1) = LeadBits(b0)
      /\ CodePoint(s, k, 2) = LeadBits(b0) * 64 + (b1 % 64)
      /\ CodePoint(s, k, 3) = (LeadBits(b0) * 64 + (b1 % 64)) * 64 + (b2 % 64)
      /\ CodePoint(s, k, 4) = ((LeadBits(b0) * 64 + (b1 % 64)) * 64 + (b2 % 64)) * 64 + (b3 % 64)
  BY CodePointIs
<1>2. \A n \in 1 .. Len(e) : ByteAt(s, k + (n - 1)) = e[n]
  OBVIOUS
<1>3. k + (1 - 1) = k /\ k + (2 - 1) = k + 1 /\ k + (3 - 1) = k + 2 /\ k + (4 - 1) = k + 3
  OBVIOUS
<1>4. e = IF c < 128 THEN <<c>>
          ELSE IF c < 2048 THEN <<192 + q, 128 + x0>>
          ELSE IF c < 65536 THEN <<224 + r, 128 + x1, 128 + x0>>
          ELSE <<240 + t, 128 + x2, 128 + x1, 128 + x0>>
  BY SMT DEF Encode
<1>5. /\ c \in Nat \ {0} /\ x0 \in 0 .. 63 /\ x1 \in 0 .. 63 /\ x2 \in 0 .. 63
      /\ c < 2048 => q \in 0 .. 31
      /\ c < 65536 => r \in 0 .. 15
      /\ t \in 0 .. 7
      /\ c = q * 64 + x0 /\ q = r * 64 + x1 /\ r = t * 64 + x2
  BY PartsOf, SMT
<1>6. ASSUME NEW len \in 1 .. 4, SequenceLength(b0) = len,
             \A n \in 1 .. len - 1 : Continuation(ByteAt(s, k + n))
      PROVE  DecodeUtf8(s, k) = [cp |-> CodePoint(s, k, len), len |-> len]
  BY <1>6, DecodeWhole
<1> HIDE DEF e, q, r, t, x0, x1, x2
<1>7. CASE c < 128
  <2>1. e = <<c>>
    BY <1>4, <1>7, SMT
  <2>2. b0 = c /\ Len(e) = 1
    BY <1>2, <1>3, <2>1
  <2>3. SequenceLength(c) = 1 /\ LeadBits(c) = c
    BY <1>5, <1>7, SMT DEF SequenceLength, LeadBits
  <2>4. DecodeUtf8(s, k) = [cp |-> CodePoint(s, k, 1), len |-> 1]
    <3>1. SequenceLength(b0) = 1
      BY <2>2, <2>3
    <3> HIDE DEF b0
    <3>2. 1 \in 1 .. 4 /\ \A n \in 1 .. 1 - 1 : Continuation(ByteAt(s, k + n))
      OBVIOUS
    <3> QED BY <1>6, <3>1, <3>2
  <2>5. CodePoint(s, k, 1) = c
    BY <1>1, <2>2, <2>3
  <2> QED BY <2>2, <2>4, <2>5 DEF e
<1>8. CASE ~(c < 128) /\ c < 2048
  <2>1. e = <<192 + q, 128 + x0>>
    BY <1>4, <1>8, SMT
  <2>2. b0 = 192 + q /\ b1 = 128 + x0 /\ Len(e) = 2
    BY <1>2, <1>3, <2>1
  <2> HIDE DEF b0, b1, b2, b3
  <2>3. SequenceLength(b0) = 2 /\ LeadBits(b0) = q
    <3>1. b0 \in 192 .. 223 /\ b0 - 192 = q
      BY <1>5, <1>8, <2>2, SMT
    <3>2. b0 \in 0 .. 255 /\ SequenceLength(b0) = 2
      BY <3>1, SMT DEF SequenceLength
    <3>3. LeadBits(b0) = b0 % 32
      BY ONLY <3>2 DEF LeadBits
    <3>4. b0 % 32 = b0 - 192
      <4>1. \A b \in 192 .. 223 : b % 32 = b - 192
        BY SMT
      <4> QED BY <3>1, <4>1
    <3> QED BY <3>1, <3>2, <3>3, <3>4
  <2>4. Continuation(b1) /\ b1 % 64 = x0
    <3>1. b1 \in 128 .. 191 /\ b1 - 128 = x0
      BY <1>5, <2>2, SMT
    <3> QED BY <3>1, NextBytes
  <2>5. \A n \in 1 .. 2 - 1 : Continuation(ByteAt(s, k + n))
    BY <2>4 DEF b1, b2, b3
  <2>6. DecodeUtf8(s, k) = [cp |-> CodePoint(s, k, 2), len |-> 2]
    BY <1>6, <2>3, <2>5 DEF b0
  <2>7. CodePoint(s, k, 2) = c
    BY <1>1, <1>5, <2>3, <2>4 DEF b0, b1, b2, b3
  <2> QED BY <2>2, <2>6, <2>7 DEF e
<1>9. CASE ~(c < 128) /\ ~(c < 2048) /\ c < 65536
  <2>1. e = <<224 + r, 128 + x1, 128 + x0>>
    BY <1>4, <1>9, SMT
  <2>2. b0 = 224 + r /\ b1 = 128 + x1 /\ b2 = 128 + x0 /\ Len(e) = 3
    BY <1>2, <1>3, <2>1
  <2> HIDE DEF b0, b1, b2, b3
  <2>3. SequenceLength(b0) = 3 /\ LeadBits(b0) = r
    <3>1. b0 \in 224 .. 239 /\ b0 - 224 = r
      BY <1>5, <1>9, <2>2, SMT
    <3>2. b0 \in 0 .. 255 /\ SequenceLength(b0) = 3
      BY <3>1, SMT DEF SequenceLength
    <3>3. LeadBits(b0) = b0 % 16
      BY ONLY <3>2 DEF LeadBits
    <3>4. b0 % 16 = b0 - 224
      <4>1. \A b \in 224 .. 239 : b % 16 = b - 224
        BY SMT
      <4> QED BY <3>1, <4>1
    <3> QED BY <3>1, <3>2, <3>3, <3>4
  <2>4. Continuation(b1) /\ b1 % 64 = x1 /\ Continuation(b2) /\ b2 % 64 = x0
    <3>1. b1 \in 128 .. 191 /\ b1 - 128 = x1 /\ b2 \in 128 .. 191 /\ b2 - 128 = x0
      BY <1>5, <2>2, SMT
    <3> QED BY <3>1, NextBytes
  <2>5. \A n \in 1 .. 3 - 1 : Continuation(ByteAt(s, k + n))
    BY <2>4 DEF b1, b2, b3
  <2>6. DecodeUtf8(s, k) = [cp |-> CodePoint(s, k, 3), len |-> 3]
    BY <1>6, <2>3, <2>5 DEF b0
  <2>7. CodePoint(s, k, 3) = c
    BY <1>1, <1>5, <2>3, <2>4, SMT DEF b0, b1, b2, b3
  <2> QED BY <2>2, <2>6, <2>7 DEF e
<1>10. CASE ~(c < 128) /\ ~(c < 2048) /\ ~(c < 65536)
  <2>1. e = <<240 + t, 128 + x2, 128 + x1, 128 + x0>>
    BY <1>4, <1>10, SMT
  <2>2. b0 = 240 + t /\ b1 = 128 + x2 /\ b2 = 128 + x1 /\ b3 = 128 + x0 /\ Len(e) = 4
    BY <1>2, <1>3, <2>1
  <2> HIDE DEF b0, b1, b2, b3
  <2>3. SequenceLength(b0) = 4 /\ LeadBits(b0) = t
    <3>1. b0 \in 240 .. 247 /\ b0 - 240 = t
      BY <1>5, <2>2, SMT
    <3>2. b0 \in 0 .. 255 /\ SequenceLength(b0) = 4
      BY <3>1, SMT DEF SequenceLength
    <3>3. LeadBits(b0) = b0 % 8
      BY ONLY <3>2 DEF LeadBits
    <3>4. b0 % 8 = b0 - 240
      <4>1. \A b \in 240 .. 247 : b % 8 = b - 240
        BY SMT
      <4> QED BY <3>1, <4>1
    <3> QED BY <3>1, <3>2, <3>3, <3>4
  <2>4. /\ Continuation(b1) /\ b1 % 64 = x2 /\ Continuation(b2) /\ b2 % 64 = x1
        /\ Continuation(b3) /\ b3 % 64 = x0
    <3>1. /\ b1 \in 128 .. 191 /\ b1 - 128 = x2 /\ b2 \in 128 .. 191 /\ b2 - 128 = x1
          /\ b3 \in 128 .. 191 /\ b3 - 128 = x0
      BY <1>5, <2>2, SMT
    <3> QED BY <3>1, NextBytes
  <2>5. \A n \in 1 .. 4 - 1 : Continuation(ByteAt(s, k + n))
    BY <2>4 DEF b1, b2, b3
  <2>6. DecodeUtf8(s, k) = [cp |-> CodePoint(s, k, 4), len |-> 4]
    BY <1>6, <2>3, <2>5 DEF b0
  <2>7. CodePoint(s, k, 4) = c
    BY <1>1, <1>5, <2>3, <2>4, SMT DEF b0, b1, b2, b3
  <2> QED BY <2>2, <2>6, <2>7 DEF e
<1> QED BY <1>7, <1>8, <1>9, <1>10, SMT

-----------------------------------------------------------------------------
(***************************************************************************)
(* Sequences one after another: what FlattenSeq makes of them, part by     *)
(* part.                                                                   *)
(***************************************************************************)
IsFlat(f, ss, B) == /\ f \in [0 .. Len(ss) -> Seq(B)] /\ f[0] = <<>>
                    /\ \A k \in 1 .. Len(ss) : f[k] = f[k - 1] \o ss[k]

(* The definition inside FlattenSeq.                                       *)
Flattens(g, ss) == g = [k \in 1 .. Len(ss) |-> IF k = 1 THEN ss[k] ELSE g[k - 1] \o ss[k]]

LEMMA FlattensExists ==
    ASSUME NEW B, NEW ss \in Seq(Seq(B))
    PROVE  \E g : Flattens(g, ss)
<1> DEFINE G == [k \in Nat |-> [x \in Seq(B) |-> IF k < Len(ss) THEN x \o ss[k + 1] ELSE x]]
<1>1. Len(ss) \in Nat /\ \A k \in 1 .. Len(ss) : ss[k] \in Seq(B)
  BY ElementOfSeq
<1>2. Steps(G, Seq(B)) /\ <<>> \in Seq(B)
  <2> SUFFICES ASSUME NEW k \in Nat, NEW x \in Seq(B)
               PROVE (IF k < Len(ss) THEN x \o ss[k + 1] ELSE x) \in Seq(B)
    BY DEF Steps
  <2>1. k < Len(ss) => k + 1 \in 1 .. Len(ss)
    BY <1>1
  <2>2. k < Len(ss) => ss[k + 1] \in Seq(B)
    BY <1>1, <2>1
  <2> QED BY <2>2, ConcatProperties
<1>3. PICK f : f \in [Nat -> Seq(B)] /\ f[0] = <<>> /\ \A k \in Nat : f[k + 1] = G[k][f[k]]
  <2> HIDE DEF G
  <2>1. \E f : Iterates(f, <<>>, G, Seq(B))
    BY <1>2, Recursion
  <2> QED BY <2>1 DEF Iterates
<1>4. \A k \in 1 .. Len(ss) : f[k] = f[k - 1] \o ss[k]
  <2> SUFFICES ASSUME NEW k \in 1 .. Len(ss) PROVE f[k] = f[k - 1] \o ss[k]
    OBVIOUS
  <2>1. k - 1 \in Nat /\ (k - 1) + 1 = k /\ k - 1 < Len(ss)
    BY <1>1
  <2>2. f[(k - 1) + 1] = G[k - 1][f[k - 1]] /\ f[k - 1] \in Seq(B)
    BY <1>3, <2>1
  <2> QED BY <2>1, <2>2
<1>5. 1 \in 1 .. Len(ss) => f[1] = ss[1]
  <2> SUFFICES ASSUME 1 \in 1 .. Len(ss) PROVE f[1] = ss[1]
    OBVIOUS
  <2>1. f[1] = f[1 - 1] \o ss[1] /\ ss[1] \in Seq(B)
    BY <1>1, <1>4
  <2>2. 1 - 1 = 0
    OBVIOUS
  <2>3. f[1] = <<>> \o ss[1]
    BY <1>3, <2>1, <2>2
  <2> QED BY <2>1, <2>3, ConcatEmptySeq
<1> DEFINE g == [k \in 1 .. Len(ss) |-> f[k]]
<1> HIDE DEF G
<1>6. \A k \in 1 .. Len(ss) : g[k] = IF k = 1 THEN ss[k] ELSE g[k - 1] \o ss[k]
  <2> SUFFICES ASSUME NEW k \in 1 .. Len(ss)
               PROVE  g[k] = IF k = 1 THEN ss[k] ELSE g[k - 1] \o ss[k]
    OBVIOUS
  <2>1. CASE k = 1
    BY <1>5, <2>1
  <2>2. CASE k # 1
    <3>1. k - 1 \in 1 .. Len(ss)
      BY <1>1, <2>2
    <3>2. g[k] = f[k] /\ g[k - 1] = f[k - 1]
      BY <3>1
    <3> QED BY <1>4, <2>2, <3>2
  <2> QED BY <2>1, <2>2
<1>7. g = [k \in 1 .. Len(ss) |-> g[k]]
  OBVIOUS
<1>8. Flattens(g, ss)
  <2> HIDE DEF g
  <2> QED BY <1>6, <1>7 DEF Flattens
<1> QED BY <1>8

LEMMA FlattenIs ==
    ASSUME NEW B, NEW ss \in Seq(Seq(B))
    PROVE  \E f : IsFlat(f, ss, B) /\ f[Len(ss)] = FlattenSeq(ss)
<1> DEFINE g == CHOOSE h : Flattens(h, ss)
           f == [k \in 0 .. Len(ss) |-> IF k = 0 THEN <<>> ELSE g[k]]
<1>1. Len(ss) \in Nat /\ \A k \in 1 .. Len(ss) : ss[k] \in Seq(B)
  BY ElementOfSeq
<1>2. Flattens(g, ss)
  BY FlattensExists
<1>3. Len(ss) # 0 => FlattenSeq(ss) = g[Len(ss)]
  BY DEF FlattenSeq, Flattens
<1> HIDE DEF g
<1>4. \A k \in 1 .. Len(ss) : g[k] = IF k = 1 THEN ss[k] ELSE g[k - 1] \o ss[k]
  BY <1>2 DEF Flattens
<1>5. f[0] = <<>> /\ \A k \in 1 .. Len(ss) : f[k] = g[k]
  BY <1>1
<1>6. DOMAIN f = 0 .. Len(ss) /\ f = [k \in 0 .. Len(ss) |-> f[k]]
  OBVIOUS
<1> HIDE DEF f
<1>7. \A k \in 1 .. Len(ss) : f[k] = f[k - 1] \o ss[k]
  <2> SUFFICES ASSUME NEW k \in 1 .. Len(ss) PROVE f[k] = f[k - 1] \o ss[k]
    OBVIOUS
  <2>1. CASE k = 1
    <3>1. f[k] = ss[k] /\ f[k - 1] = <<>> /\ ss[k] \in Seq(B)
      BY <1>1, <1>4, <1>5, <2>1
    <3> QED BY <3>1, ConcatEmptySeq
  <2>2. CASE k # 1
    <3>1. k - 1 \in 1 .. Len(ss)
      BY <1>1, <2>2
    <3>2. f[k] = g[k] /\ f[k - 1] = g[k - 1]
      BY <1>5, <3>1
    <3> QED BY <1>4, <2>2, <3>2
  <2> QED BY <2>1, <2>2
<1> DEFINE S == {k \in Nat : k <= Len(ss) => f[k] \in Seq(B)}
<1>8. 0 \in S
  <2>1. f[0] \in Seq(B)
    BY <1>5
  <2> QED BY <2>1
<1>9. ASSUME NEW k \in Nat, k \in S PROVE k + 1 \in S
  <2> SUFFICES ASSUME k + 1 <= Len(ss) PROVE f[k + 1] \in Seq(B)
    OBVIOUS
  <2>1. k + 1 \in 1 .. Len(ss) /\ (k + 1) - 1 = k /\ f[k] \in Seq(B)
    BY <1>1, <1>9
  <2>2. f[k + 1] = f[k] \o ss[k + 1] /\ ss[k + 1] \in Seq(B)
    BY <1>1, <1>7, <2>1
  <2> QED BY <2>1, <2>2, ConcatProperties
<1>10. Nat \subseteq S
  <2> HIDE DEF S
  <2> QED BY <1>8, <1>9, NumberInduction
<1>11. f \in [0 .. Len(ss) -> Seq(B)]
  <2>1. \A k \in 0 .. Len(ss) : f[k] \in Seq(B)
    BY <1>10
  <2> QED BY <1>6, <2>1
<1>12. f[Len(ss)] = FlattenSeq(ss)
  <2>1. CASE Len(ss) = 0
    <3>1. FlattenSeq(ss) = ss /\ ss = <<>>
      BY <2>1 DEF FlattenSeq
    <3> QED BY <1>5, <2>1, <3>1
  <2>2. CASE Len(ss) # 0
    <3>1. Len(ss) \in 1 .. Len(ss)
      BY <1>1, <2>2
    <3> QED BY <1>3, <1>5, <2>2, <3>1
  <2> QED BY <2>1, <2>2
<1>13. IsFlat(f, ss, B)
  BY <1>5, <1>7, <1>11 DEF IsFlat
<1> QED BY <1>12, <1>13

(* What is flattened of the first of them is the beginning of the whole.   *)
LEMMA FlatPrefix ==
    ASSUME NEW B, NEW ss \in Seq(Seq(B)), NEW f, IsFlat(f, ss, B), NEW k \in 0 .. Len(ss)
    PROVE  /\ Len(f[k]) \in Nat /\ Len(f[k]) <= Len(f[Len(ss)])
           /\ \A i \in 1 .. Len(f[k]) : f[Len(ss)][i] = f[k][i]
<1> DEFINE Begins(a, b) == Len(a) <= Len(b) /\ \A i \in 1 .. Len(a) : b[i] = a[i]
           S == {m \in Nat : k + m <= Len(ss) => Begins(f[k], f[k + m])}
<1>1. /\ Len(ss) \in Nat /\ \A m \in 1 .. Len(ss) : ss[m] \in Seq(B)
      /\ \A m \in 0 .. Len(ss) : f[m] \in Seq(B)
  <2>1. f \in [0 .. Len(ss) -> Seq(B)]
    BY DEF IsFlat
  <2>2. \A m \in 0 .. Len(ss) : f[m] \in Seq(B)
    BY <2>1, Zenon
  <2>3. Len(ss) \in Nat /\ \A m \in 1 .. Len(ss) : ss[m] \in Seq(B)
    BY ElementOfSeq
  <2> QED BY <2>2, <2>3, Zenon
<1>2. 0 \in S
  <2>1. k + 0 = k /\ Len(f[k]) \in Nat
    BY <1>1
  <2> DEFINE a == f[k]
  <2>2. Len(a) <= Len(a)
    BY <2>1
  <2> HIDE DEF a
  <2>3. Begins(a, a)
    BY <2>2
  <2> QED BY <2>1, <2>3 DEF a
<1>3. ASSUME NEW m \in Nat, m \in S PROVE m + 1 \in S
  <2> SUFFICES ASSUME k + (m + 1) <= Len(ss) PROVE Begins(f[k], f[k + (m + 1)])
    OBVIOUS
  <2>1. /\ k + m \in 0 .. Len(ss) /\ k + (m + 1) \in 1 .. Len(ss)
        /\ (k + (m + 1)) - 1 = k + m /\ k + m <= Len(ss)
    BY <1>1
  <2>2. Begins(f[k], f[k + m])
    BY <1>3, <2>1
  <2>3. f[k + (m + 1)] = f[k + m] \o ss[k + (m + 1)]
    BY <2>1 DEF IsFlat
  <2> DEFINE a == f[k]
             b == f[k + m]
             c == ss[k + (m + 1)]
             d == f[k + (m + 1)]
  <2>4. a \in Seq(B) /\ b \in Seq(B) /\ c \in Seq(B) /\ d = b \o c
    BY <1>1, <2>1, <2>3
  <2>5. Len(a) <= Len(b) /\ \A i \in 1 .. Len(a) : b[i] = a[i]
    BY <2>2
  <2> HIDE DEF a, b, c, d
  <2>6. /\ Len(b \o c) = Len(b) + Len(c) /\ Len(a) \in Nat /\ Len(b) \in Nat /\ Len(c) \in Nat
        /\ \A i \in 1 .. Len(b) : (b \o c)[i] = b[i]
    BY <2>4, ConcatProperties
  <2>7. Len(a) <= Len(d)
    BY <2>4, <2>5, <2>6
  <2>8. \A i \in 1 .. Len(a) : d[i] = a[i]
    BY <2>4, <2>5, <2>6
  <2> QED BY <2>7, <2>8 DEF a, d
<1>4. Nat \subseteq S
  <2> HIDE DEF S
  <2> QED BY <1>2, <1>3, NumberInduction
<1>5. Len(ss) - k \in Nat /\ k + (Len(ss) - k) = Len(ss)
  BY <1>1
<1>6. Len(ss) - k \in S
  <2> HIDE DEF S
  <2> QED BY <1>4, <1>5
<1>7. Begins(f[k], f[Len(ss)])
  BY <1>1, <1>5, <1>6
<1> QED BY <1>1, <1>7

-----------------------------------------------------------------------------
(***************************************************************************)
(* A string that encodes code points: write is always between two of them. *)
(***************************************************************************)
Bytes         == 1 .. 255
Encoded(cps)  == [n \in DOMAIN cps |-> Encode(cps[n])]
Flat(ss, B)   == CHOOSE f : IsFlat(f, ss, B) /\ f[Len(ss)] = FlattenSeq(ss)
Before(cps)   == Flat(Encoded(cps), Bytes)

LEMMA EncodedIs ==
    ASSUME NEW cps \in CodeTexts
    PROVE  /\ cps \in Seq(CodePoints \ {0}) /\ Encoded(cps) \in Seq(Seq(Bytes))
           /\ Len(Encoded(cps)) = Len(cps) /\ Len(cps) \in Nat
           /\ \A n \in 1 .. Len(cps) : Encoded(cps)[n] = Encode(cps[n])
           /\ IsFlat(Before(cps), Encoded(cps), Bytes)
           /\ Before(cps)[Len(cps)] = FlattenSeq(Encoded(cps))
<1>1. cps \in Seq(CodePoints \ {0}) /\ Len(cps) \in Nat /\ DOMAIN cps = 1 .. Len(cps)
  BY CodesAssumption
<1>2. \A n \in 1 .. Len(cps) : Encode(cps[n]) \in Seq(Bytes)
  <2> SUFFICES ASSUME NEW n \in 1 .. Len(cps) PROVE Encode(cps[n]) \in Seq(Bytes)
    OBVIOUS
  <2>1. cps[n] \in CodePoints \ {0}
    BY <1>1, ElementOfSeq
  <2> QED BY <2>1, EncodeIs DEF Bytes
<1>3. /\ Encoded(cps) \in [1 .. Len(cps) -> Seq(Bytes)]
      /\ \A n \in 1 .. Len(cps) : Encoded(cps)[n] = Encode(cps[n])
  BY <1>1, <1>2 DEF Encoded
<1>4. Encoded(cps) \in Seq(Seq(Bytes)) /\ Len(Encoded(cps)) = Len(cps)
  <2>1. ASSUME NEW n \in Nat, NEW s \in [1 .. n -> Seq(Bytes)]
        PROVE  s \in Seq(Seq(Bytes)) /\ Len(s) = n
    OBVIOUS
  <2> QED BY <1>1, <1>3, <2>1
<1>5. \E f : IsFlat(f, Encoded(cps), Bytes) /\ f[Len(Encoded(cps))] = FlattenSeq(Encoded(cps))
  BY <1>4, FlattenIs
<1>6. /\ IsFlat(Before(cps), Encoded(cps), Bytes)
      /\ Before(cps)[Len(Encoded(cps))] = FlattenSeq(Encoded(cps))
  BY <1>5 DEF Before, Flat
<1> QED BY <1>1, <1>3, <1>4, <1>6

BetweenCodes(cps) == /\ Len(decoded) <= Len(cps) /\ str = Len(Before(cps)[Len(decoded)])
                     /\ \A n \in 1 .. Len(decoded) : decoded[n] = cps[n]
RoundInv == \A cps \in CodeTexts : text = FlattenSeq(Encoded(cps)) => BetweenCodes(cps)

(* The bytes at one of the boundaries are the next code point's.           *)
LEMMA NextCode ==
    ASSUME NEW cps \in CodeTexts, text = FlattenSeq(Encoded(cps)), BetweenCodes(cps), StringInv,
           DecodedInv, Len(decoded) < Len(cps)
    PROVE  LET c == cps[Len(decoded) + 1]
           IN  /\ c \in CodePoints \ {0}
               /\ Len(Before(cps)[Len(decoded) + 1]) = str + Len(Encode(c))
               /\ str + Len(Encode(c)) <= Len(text)
               /\ \A n \in 1 .. Len(Encode(c)) : ByteAt(text, str + (n - 1)) = Encode(c)[n]
<1> DEFINE d == Len(decoded)
           c == cps[d + 1]
           e == Encode(c)
           f == Before(cps)
           L == Len(cps)
<1>1. /\ text \in Seq(1 .. 255) /\ Len(text) \in Nat /\ d \in Nat /\ d < L /\ str = Len(f[d])
      /\ str \in Nat
  BY DEF StringInv, DecodedInv, Stands, BetweenCodes
<1>2. /\ L \in Nat /\ IsFlat(f, Encoded(cps), Bytes) /\ text = f[L] /\ Len(Encoded(cps)) = L
      /\ Encoded(cps) \in Seq(Seq(Bytes)) /\ \A n \in 1 .. L : Encoded(cps)[n] = Encode(cps[n])
      /\ cps \in Seq(CodePoints \ {0})
  BY EncodedIs
<1> HIDE DEF d, f, L
<1>3. d + 1 \in 1 .. L /\ d \in 0 .. L /\ d + 1 \in 0 .. L /\ (d + 1) - 1 = d
  BY <1>1, <1>2
<1>4. c \in CodePoints \ {0}
  BY <1>2, <1>3, ElementOfSeq DEF L
<1>5. e \in Seq(Bytes) /\ Len(e) \in 1 .. 4
  BY <1>4, EncodeIs DEF Bytes
<1>6. f[d + 1] = f[d] \o e
  <2>1. f[d + 1] = f[d] \o Encoded(cps)[d + 1]
    BY <1>2, <1>3 DEF IsFlat
  <2> QED BY <1>2, <1>3, <2>1
<1>7. f[d] \in Seq(Bytes)
  <2>1. f \in [0 .. L -> Seq(Bytes)]
    BY <1>2 DEF IsFlat
  <2> QED BY <1>3, <2>1
<1>8. Len(f[d + 1]) <= Len(text) /\ \A i \in 1 .. Len(f[d + 1]) : text[i] = f[d + 1][i]
  BY <1>2, <1>3, FlatPrefix
<1> DEFINE a == f[d]
           b == f[d + 1]
<1> HIDE DEF c, e, a, b
<1>9. /\ b = a \o e /\ a \in Seq(Bytes) /\ str = Len(a) /\ Len(b) <= Len(text)
      /\ \A i \in 1 .. Len(b) : text[i] = b[i]
  BY <1>1, <1>6, <1>7, <1>8 DEF a, b
<1>10. /\ Len(b) = str + Len(e) /\ Len(e) \in Nat
       /\ \A i \in 1 .. Len(e) : b[str + i] = e[i]
  <2>1. /\ Len(a \o e) = Len(a) + Len(e) /\ Len(e) \in Nat
        /\ \A i \in 1 .. Len(a) + Len(e) :
              (a \o e)[i] = IF i <= Len(a) THEN a[i] ELSE e[i - Len(a)]
    BY <1>5, <1>9, ConcatProperties
  <2>2. \A i \in 1 .. Len(e) : str + i \in 1 .. str + Len(e) /\ ~(str + i <= str) /\ (str + i) - str = i
    BY <1>1, <2>1
  <2> QED BY <1>9, <2>1, <2>2
<1>11. str + Len(e) <= Len(text)
  BY <1>9, <1>10
<1>12. \A n \in 1 .. Len(e) : ByteAt(text, str + (n - 1)) = e[n]
  <2> SUFFICES ASSUME NEW n \in 1 .. Len(e) PROVE ByteAt(text, str + (n - 1)) = e[n]
    OBVIOUS
  <2>1. /\ str + (n - 1) \in Nat /\ str + (n - 1) < Len(text) /\ (str + (n - 1)) + 1 = str + n
        /\ str + n \in 1 .. Len(b)
    BY <1>1, <1>10, <1>11
  <2>2. ByteAt(text, str + (n - 1)) = text[str + n]
    BY <1>1, <2>1, ByteType
  <2>3. text[str + n] = b[str + n]
    BY <1>9, <2>1
  <2> QED BY <1>10, <2>2, <2>3
<1> QED BY <1>4, <1>10, <1>11, <1>12 DEF b, c, d, e, f

LEMMA RoundDecode ==
    ASSUME StringInv, DecodedInv, RoundInv, Decode
    PROVE  RoundInv'
<1> SUFFICES ASSUME NEW cps \in CodeTexts, text' = FlattenSeq(Encoded(cps))
             PROVE  BetweenCodes(cps)'
  BY DEF RoundInv
<1> DEFINE d == Len(decoded)
           c == cps[d + 1]
           e == Encode(c)
           f == Before(cps)
           L == Len(cps)
<1>1. /\ text' = text /\ str' = str + DecodeUtf8(text, str).len
      /\ decoded' = Append(decoded, DecodeUtf8(text, str).cp)
      /\ text \in Seq(1 .. 255) /\ str \in Nat /\ str < Len(text) /\ decoded \in Seq(CodePoints)
      /\ d \in Nat
  BY DEF Decode, StringInv, ByteAt, DecodedInv, Stands
<1>2. BetweenCodes(cps) /\ text = FlattenSeq(Encoded(cps))
  BY <1>1 DEF RoundInv
<1>3. d < L
  <2>1. L \in Nat /\ f[L] = text
    BY <1>2, EncodedIs
  <2>2. d <= L /\ str = Len(f[d])
    BY <1>2 DEF BetweenCodes
  <2>3. d # L
    BY <1>1, <2>1, <2>2
  <2> HIDE DEF d, L
  <2> QED BY <1>1, <2>1, <2>2, <2>3
<1>4. /\ c \in CodePoints \ {0} /\ Len(f[d + 1]) = str + Len(e)
      /\ \A n \in 1 .. Len(e) : ByteAt(text, str + (n - 1)) = e[n]
  BY <1>2, <1>3, NextCode
<1>5. DecodeUtf8(text, str) = [cp |-> c, len |-> Len(e)]
  <2> HIDE DEF c
  <2> QED BY <1>1, <1>4, DecodeEncoded
<1> HIDE DEF c, e
<1>6. str' = str + Len(e) /\ decoded' = Append(decoded, c) /\ c \in CodePoints
  BY <1>1, <1>4, <1>5
<1>7. /\ Len(decoded') = d + 1 /\ decoded'[d + 1] = c
      /\ \A n \in 1 .. d : decoded'[n] = decoded[n]
  BY <1>1, <1>6, AppendProperties
<1>8. \A n \in 1 .. d : decoded[n] = cps[n]
  BY <1>2 DEF BetweenCodes
<1>9. \A n \in 1 .. d + 1 : decoded'[n] = cps[n]
  <2> SUFFICES ASSUME NEW n \in 1 .. d + 1 PROVE decoded'[n] = cps[n]
    OBVIOUS
  <2>1. n \in 1 .. d \/ n = d + 1
    BY <1>1
  <2>2. CASE n \in 1 .. d
    BY <1>7, <1>8, <2>2
  <2>3. CASE n = d + 1
    BY <1>7, <2>3 DEF c
  <2> QED BY <2>1, <2>2, <2>3
<1>10. d + 1 <= L
  <2>1. L \in Nat
    BY EncodedIs
  <2> HIDE DEF d, L
  <2> QED BY <1>1, <1>3, <2>1
<1>11. str' = Len(f[d + 1])
  BY <1>4, <1>6
<1> HIDE DEF d
<1> QED BY <1>7, <1>9, <1>10, <1>11 DEF BetweenCodes

LEMMA RoundStart == str = 0 /\ decoded = <<>> => RoundInv
<1> SUFFICES ASSUME str = 0, decoded = <<>>, NEW cps \in CodeTexts PROVE BetweenCodes(cps)
  BY DEF RoundInv
<1>1. Len(cps) \in Nat /\ Before(cps)[0] = <<>>
  BY EncodedIs DEF IsFlat
<1>2. Len(decoded) = 0 /\ Len(<<>>) = 0
  OBVIOUS
<1> QED BY <1>1, <1>2 DEF BetweenCodes

LEMMA RoundStep == IoInv /\ DecodedInv /\ RoundInv /\ [PrintNext]_pvars => RoundInv'
<1> SUFFICES ASSUME IoInv, DecodedInv, RoundInv, [PrintNext]_pvars PROVE RoundInv'
  OBVIOUS
<1>1. CASE CallWrite
  <2>1. str' = 0 /\ decoded' = <<>>
    BY <1>1 DEF CallWrite
  <2>2. (str = 0 /\ decoded = <<>>)' => RoundInv'
    BY RoundStart, PTL
  <2> QED BY <2>1, <2>2
<1>2. CASE WriteChar
  BY <1>2, RoundDecode DEF WriteChar, IoInv
<1>3. CASE UNCHANGED vars
  BY <1>3 DEF vars, RoundInv, BetweenCodes
<1> QED BY <1>1, <1>2, <1>3 DEF PrintNext, WriteEnd, CallNumber, Collect, Emit, EmitEnd, pvars

(* A string that encodes code points is decoded to them, whatever the      *)
(* lengths of their encodings.                                             *)
THEOREM RoundTripHolds == PrintSpec => []RoundTrip
<1>1. PrintInit => RoundInv
  BY RoundStart DEF PrintInit
<1>2. PrintInv /\ RoundInv => RoundTrip
  <2> SUFFICES ASSUME PrintInv, RoundInv, Done, NEW cps \in CodeTexts,
                      text = FlattenSeq(Encoded(cps))
               PROVE  decoded = cps
    BY DEF RoundTrip, Encoded
  <2> DEFINE d == Len(decoded)
             L == Len(cps)
             e == Encode(cps[d + 1])
  <2>1. /\ StringInv /\ DecodedInv /\ BetweenCodes(cps) /\ decoded \in Seq(CodePoints) /\ d \in Nat
        /\ d <= L /\ L \in Nat /\ cps \in Seq(CodePoints \ {0})
        /\ \A n \in 1 .. d : decoded[n] = cps[n]
    BY EncodedIs DEF PrintInv, IoInv, RoundInv, DecodedInv, Stands, BetweenCodes
  <2>2. text \in Seq(1 .. 255) /\ str \in Nat /\ ByteAt(text, str) = 0 /\ Len(text) \in Nat
    BY <2>1 DEF StringInv, Done
  <2>3. ~(str < Len(text))
    BY <2>2, ByteType
  <2>4. ~(d < L)
    <3> SUFFICES ASSUME d < L PROVE FALSE
      OBVIOUS
    <3>1. cps[d + 1] \in CodePoints \ {0} /\ str + Len(e) <= Len(text)
      BY <2>1, NextCode
    <3>2. Len(e) \in 1 .. 4
      BY <3>1, EncodeIs
    <3> DEFINE l == Len(e)
               t == Len(text)
    <3>3. l \in 1 .. 4 /\ str + l <= t /\ t \in Nat /\ str \in Nat /\ ~(str < t)
      BY <2>2, <2>3, <3>1, <3>2
    <3> HIDE DEF l, t
    <3> QED BY <3>3
  <2>5. d = L
    <3> HIDE DEF d, L
    <3> QED BY <2>1, <2>4
  <2>6. cps \in Seq(CodePoints)
    BY <2>1
  <2> QED BY <2>1, <2>5, <2>6, SeqEqual
<1> QED BY <1>1, <1>2, RoundStep, PrintInductive, PTL DEF PrintSpec, PrintInv

-----------------------------------------------------------------------------
(***************************************************************************)
(* Numerals: the recursion of the definition, unfolded once.               *)
(***************************************************************************)
CountsIn(g, v, b) == g = [u \in 0 .. v |-> IF u < b THEN <<Digit(u)>>
                                           ELSE Append(g[u \div b], Digit(u % b))]

LEMMA DigitIs ==
    ASSUME NEW b \in {10, 16}, NEW u \in Nat
    PROVE  /\ u < b => Digit(u) \in Digits /\ u \div b = 0 /\ u % b = u
           /\ Digit(u % b) \in Digits /\ u \div b \in Nat
           /\ u >= b => u \div b \in 0 .. u - 1 /\ u \div b # 0
<1>1. CASE b = 10
  BY <1>1, SMT DEF Digit, Digits
<1>2. CASE b = 16
  BY <1>2, SMT DEF Digit, Digits
<1> QED BY <1>1, <1>2

LEMMA CountsExists ==
    ASSUME NEW v \in Nat, NEW b \in {10, 16}
    PROVE  \E g : CountsIn(g, v, b) /\ g \in [0 .. v -> Seq(Digits)]
<1> DEFINE T == Seq(Digits)
           B == 0 .. b - 1
           a == [u \in Nat |-> <<Digit(u)>>]
           d == [u \in Nat |-> u \div b]
           G == [u \in Nat |-> [x \in T |-> Append(x, Digit(u % b))]]
<1>1. ASSUME NEW u \in 0 .. v
      PROVE  /\ u \in B <=> u < b
             /\ u \in B => a[u] \in T
             /\ u \notin B => d[u] \in 0 .. u - 1 /\ \A x \in T : G[u][x] \in T
  <2>1. u \in Nat /\ (u \in B <=> u < b) /\ (~(u < b) => u >= b)
    OBVIOUS
  <2>2. u < b => <<Digit(u)>> \in T
    <3>1. u < b => Digit(u) \in Digits
      BY <2>1, DigitIs
    <3> DEFINE c == Digit(u)
    <3> HIDE DEF c
    <3>2. c \in Digits => <<c>> \in T
      OBVIOUS
    <3> QED BY <3>1, <3>2 DEF c
  <2>3. ASSUME NEW x \in T PROVE Append(x, Digit(u % b)) \in T
    <3>1. Digit(u % b) \in Digits
      BY <2>1, DigitIs
    <3> DEFINE c == Digit(u % b)
    <3> HIDE DEF c
    <3>2. c \in Digits => Append(x, c) \in T
      BY AppendProperties
    <3> QED BY <3>1, <3>2 DEF c
  <2>4. u >= b => u \div b \in 0 .. u - 1
    BY <2>1, DigitIs
  <2>5. a[u] = <<Digit(u)>> /\ d[u] = u \div b /\ \A x \in T : G[u][x] = Append(x, Digit(u % b))
    BY <2>1
  <2> HIDE DEF B, a, d, G, T
  <2>6. u \in B => a[u] \in T
    BY <2>1, <2>2, <2>5
  <2>7. u \notin B => d[u] \in 0 .. u - 1
    BY <2>1, <2>4, <2>5
  <2>8. \A x \in T : G[u][x] \in T
    BY <2>3, <2>5
  <2> QED BY <2>1, <2>6, <2>7, <2>8
<1>2. \A u \in 0 .. v : /\ a[u] = <<Digit(u)>> /\ d[u] = u \div b
                        /\ \A x \in T : G[u][x] = Append(x, Digit(u % b))
  OBVIOUS
<1> HIDE DEF a, d, G, B, T
<1>3. StepsBelow(B, a, d, G, T, v)
  BY <1>1 DEF StepsBelow
<1>4. PICK g : IteratesBelow(g, B, a, d, G, T, v)
  BY <1>3, RecursionBelow
<1>5. g \in [0 .. v -> T] /\ \A u \in 0 .. v : g[u] = IF u \in B THEN a[u] ELSE G[u][g[d[u]]]
  BY <1>4 DEF IteratesBelow, Unfolds
<1>6. \A u \in 0 .. v : g[u] = IF u < b THEN <<Digit(u)>> ELSE Append(g[u \div b], Digit(u % b))
  <2> SUFFICES ASSUME NEW u \in 0 .. v
               PROVE  g[u] = IF u < b THEN <<Digit(u)>> ELSE Append(g[u \div b], Digit(u % b))
    OBVIOUS
  <2>1. CASE u < b
    BY <1>1, <1>2, <1>5, <2>1
  <2>2. CASE ~(u < b)
    <3>1. u \notin B /\ d[u] \in 0 .. u - 1 /\ u \in Nat /\ v \in Nat
      BY <1>1, <2>2
    <3>2. d[u] \in 0 .. v
      BY <3>1
    <3>3. g[u] = G[u][g[d[u]]] /\ g[d[u]] \in T
      BY <1>5, <3>1, <3>2
    <3>4. g[u] = Append(g[d[u]], Digit(u % b)) /\ d[u] = u \div b
      BY <1>2, <3>3
    <3> QED BY <2>2, <3>4
  <2> QED BY <2>1, <2>2
<1>7. g = [u \in 0 .. v |-> g[u]]
  BY <1>5
<1>8. CountsIn(g, v, b)
  BY <1>6, <1>7 DEF CountsIn
<1> QED BY <1>5, <1>8 DEF T

LEMMA SameCounts ==
    ASSUME NEW b \in {10, 16}, NEW v \in Nat, NEW w \in Nat, NEW g, NEW h,
           CountsIn(g, v, b), CountsIn(h, w, b)
    PROVE  \A u \in Nat : u <= v /\ u <= w => g[u] = h[u]
<1> DEFINE S == {m \in Nat : \A u \in 0 .. m : u <= v /\ u <= w => g[u] = h[u]}
<1>1. ASSUME NEW u \in Nat, u <= v, u <= w
      PROVE  /\ u < b => g[u] = <<Digit(u)>> /\ h[u] = <<Digit(u)>>
             /\ ~(u < b) => /\ g[u] = Append(g[u \div b], Digit(u % b))
                            /\ h[u] = Append(h[u \div b], Digit(u % b))
  <2>1. u \in 0 .. v /\ u \in 0 .. w
    BY <1>1
  <2>2. /\ \A x \in 0 .. v : g[x] = IF x < b THEN <<Digit(x)>> ELSE Append(g[x \div b], Digit(x % b))
        /\ \A x \in 0 .. w : h[x] = IF x < b THEN <<Digit(x)>> ELSE Append(h[x \div b], Digit(x % b))
    BY Zenon DEF CountsIn
  <2> QED BY <2>1, <2>2, Zenon
<1>2. ASSUME NEW m \in Nat, \A u \in 0 .. m - 1 : u <= v /\ u <= w => g[u] = h[u]
      PROVE  m \in S
  <2> SUFFICES ASSUME NEW u \in 0 .. m, u <= v, u <= w PROVE g[u] = h[u]
    OBVIOUS
  <2>1. CASE u # m
    BY <1>2, <2>1
  <2>2. CASE u = m /\ m < b
    BY <1>1, <2>2
  <2>3. CASE u = m /\ ~(m < b)
    <3>1. m \div b \in 0 .. m - 1 /\ m \in Nat /\ m <= v /\ m <= w
      BY <2>3, DigitIs
    <3> DEFINE x == m \div b
    <3>2. g[m] = Append(g[x], Digit(m % b)) /\ h[m] = Append(h[x], Digit(m % b))
      BY <1>1, <2>3, <3>1
    <3>3. x \in 0 .. m - 1
      BY <3>1
    <3> HIDE DEF x
    <3>4. g[x] = h[x]
      BY <1>2, <3>1, <3>3
    <3> QED BY <2>3, <3>2, <3>4
  <2> QED BY <2>1, <2>2, <2>3
<1>3. 0 \in S
  <2>1. 0 .. 0 - 1 = {}
    OBVIOUS
  <2> HIDE DEF S
  <2> QED BY <1>2, <2>1
<1>4. ASSUME NEW m \in Nat, m \in S PROVE m + 1 \in S
  <2>1. \A u \in 0 .. m : u <= v /\ u <= w => g[u] = h[u]
    BY <1>4
  <2>2. (m + 1) - 1 = m /\ m + 1 \in Nat
    OBVIOUS
  <2> HIDE DEF S
  <2> QED BY <1>2, <2>1, <2>2
<1>5. Nat \subseteq S
  <2> HIDE DEF S
  <2> QED BY <1>3, <1>4, NumberInduction
<1> SUFFICES ASSUME NEW u \in Nat, u <= v, u <= w PROVE g[u] = h[u]
  OBVIOUS
<1>6. u \in S /\ u \in 0 .. u
  BY <1>5
<1> QED BY <1>6

LEMMA NumeralCounts ==
    ASSUME NEW v \in Nat, NEW b \in {10, 16}
    PROVE  \E g : /\ CountsIn(g, v, b) /\ g \in [0 .. v -> Seq(Digits)]
                  /\ \A u \in 0 .. v : Numeral(u, b) = g[u]
<1>1. PICK g : CountsIn(g, v, b) /\ g \in [0 .. v -> Seq(Digits)]
  BY CountsExists
<1>2. ASSUME NEW u \in 0 .. v PROVE Numeral(u, b) = g[u]
  <2> DEFINE h == CHOOSE x : CountsIn(x, u, b)
  <2>1. Numeral(u, b) = h[u]
    BY Zenon DEF Numeral, CountsIn
  <2>2. CountsIn(h, u, b)
    <3>1. u \in Nat
      OBVIOUS
    <3>2. \E x : CountsIn(x, u, b)
      BY <3>1, CountsExists
    <3> QED BY <3>2
  <2>3. u \in Nat /\ u <= v /\ u <= u
    OBVIOUS
  <2> HIDE DEF h
  <2>4. h[u] = g[u]
    BY <1>1, <2>2, <2>3, SameCounts
  <2> QED BY <2>1, <2>4
<1> QED BY <1>1, <1>2

LEMMA NumeralIs ==
    ASSUME NEW v \in Nat, NEW b \in {10, 16}
    PROVE  /\ Numeral(v, b) \in Seq(Digits)
           /\ v < b => Numeral(v, b) = <<Digit(v)>>
           /\ v >= b => Numeral(v, b) = Append(Numeral(v \div b, b), Digit(v % b))
<1>1. PICK g : /\ CountsIn(g, v, b) /\ g \in [0 .. v -> Seq(Digits)]
               /\ \A u \in 0 .. v : Numeral(u, b) = g[u]
  BY NumeralCounts
<1>2. v \in 0 .. v
  OBVIOUS
<1>3. g[v] = IF v < b THEN <<Digit(v)>> ELSE Append(g[v \div b], Digit(v % b))
  BY <1>1, <1>2, Zenon DEF CountsIn
<1>4. v >= b => v \div b \in 0 .. v
  <2>1. v >= b => v \div b \in 0 .. v - 1
    BY DigitIs
  <2> DEFINE x == v \div b
  <2> HIDE DEF x
  <2>2. x \in 0 .. v - 1 => x \in 0 .. v
    OBVIOUS
  <2> QED BY <2>1, <2>2 DEF x
<1>5. v >= b => Numeral(v \div b, b) = g[v \div b] /\ ~(v < b)
  BY <1>1, <1>4
<1>6. Numeral(v, b) = g[v] /\ g[v] \in Seq(Digits)
  BY <1>1, <1>2
<1> QED BY <1>3, <1>5, <1>6, Zenon

-----------------------------------------------------------------------------
(***************************************************************************)
(* A report of plain calls: what is on the screen is what the calls done   *)
(* with mean, and what the one in progress has shown of its own meaning.   *)
(***************************************************************************)
Meanings(r) == [n \in DOMAIN r |-> Meant(r[n])]
PlainReport == \A n \in DOMAIN report : Plain(report[n])
DoneCalls   == Len(report) - Len(calls)
DoneText    == Flat(Meanings(report), Nat)[DoneCalls]
NumberCall  == Kind \notin {"puts", "putln"}

Writing == /\ ~NumberCall /\ text = Head(calls).arg /\ shown = DoneText \o decoded
           /\ Len(decoded) = str /\ \A n \in 1 .. str : decoded[n] = text[n]
Counting == /\ NumberCall /\ shown = DoneText
            /\ Numeral(Head(calls).arg, Base) = Numeral(value, Base) \o Reverse(buffer)
Emitting == NumberCall /\ DoneText \o Numeral(Head(calls).arg, Base) = shown \o Reverse(buffer)

MeantInv == PlainReport => /\ pc = "call" => shown = DoneText
                           /\ pc = "write" => Writing
                           /\ pc = "digit" => Counting
                           /\ pc = "emit" => Emitting

LEMMA NatSeqs ==
    /\ \A s \in Seq(CodePoints) : s \in Seq(Nat)
    /\ \A s \in Seq(1 .. 255) : s \in Seq(Nat)
    /\ \A s \in Seq(Digits) : s \in Seq(Nat)
    /\ NEWLINE \in Nat
<1>1. CodePoints \subseteq Nat
  BY DEF CodePoints
<1>2. 1 .. 255 \subseteq Nat /\ Digits \subseteq Nat
  BY DEF Digits
<1> QED BY <1>1, <1>2, SeqMonotonic DEF NEWLINE

LEMMA MeantIs ==
    ASSUME NEW call \in Call
    PROVE  Meant(call) \in Seq(Nat)
<1>1. CASE call.kind \in {"puts", "putln"}
  <2>1. call.arg \in Seq(1 .. 255)
    BY <1>1 DEF Call
  <2>2. call.arg \in Seq(Nat) /\ NEWLINE \in Nat
    BY <2>1, NatSeqs
  <2>3. Append(call.arg, NEWLINE) \in Seq(Nat)
    BY <2>2, AppendProperties
  <2> QED BY <1>1, <2>2, <2>3 DEF Meant
<1>2. CASE call.kind \notin {"puts", "putln"}
  <2>1. call.arg \in Nat
    BY <1>2 DEF Call
  <2>2. Numeral(call.arg, 10) \in Seq(Digits) /\ Numeral(call.arg, 16) \in Seq(Digits)
    BY <2>1, NumeralIs
  <2>3. Numeral(call.arg, 10) \in Seq(Nat) /\ Numeral(call.arg, 16) \in Seq(Nat)
    BY <2>2, NatSeqs
  <2> QED BY <1>2, <2>3 DEF Meant
<1> QED BY <1>1, <1>2

LEMMA MeaningsFlat ==
    ASSUME NEW r \in Seq(Call)
    PROVE  /\ Len(Meanings(r)) = Len(r) /\ Meanings(r) \in Seq(Seq(Nat))
           /\ \A n \in 1 .. Len(r) : Meanings(r)[n] = Meant(r[n])
           /\ IsFlat(Flat(Meanings(r), Nat), Meanings(r), Nat)
           /\ Flat(Meanings(r), Nat)[Len(r)] = FlattenSeq(Meanings(r))
<1>1. Len(r) \in Nat /\ DOMAIN r = 1 .. Len(r)
  OBVIOUS
<1>2. \A n \in 1 .. Len(r) : Meant(r[n]) \in Seq(Nat)
  <2> SUFFICES ASSUME NEW n \in 1 .. Len(r) PROVE Meant(r[n]) \in Seq(Nat)
    OBVIOUS
  <2>1. r[n] \in Call
    BY ElementOfSeq
  <2> QED BY <2>1, MeantIs
<1>3. /\ Meanings(r) \in [1 .. Len(r) -> Seq(Nat)]
      /\ \A n \in 1 .. Len(r) : Meanings(r)[n] = Meant(r[n])
  BY <1>1, <1>2 DEF Meanings
<1>4. Meanings(r) \in Seq(Seq(Nat)) /\ Len(Meanings(r)) = Len(r)
  <2>1. ASSUME NEW n \in Nat, NEW s \in [1 .. n -> Seq(Nat)]
        PROVE  s \in Seq(Seq(Nat)) /\ Len(s) = n
    OBVIOUS
  <2> QED BY <1>1, <1>3, <2>1
<1>5. \E f : IsFlat(f, Meanings(r), Nat) /\ f[Len(Meanings(r))] = FlattenSeq(Meanings(r))
  BY <1>4, FlattenIs
<1>6. /\ IsFlat(Flat(Meanings(r), Nat), Meanings(r), Nat)
      /\ Flat(Meanings(r), Nat)[Len(Meanings(r))] = FlattenSeq(Meanings(r))
  BY <1>5 DEF Flat
<1> QED BY <1>3, <1>4, <1>6

LEMMA Reversed ==
    ASSUME NEW s \in Seq(Digits)
    PROVE  /\ Reverse(s) \in Seq(Digits) /\ (s = <<>> => Reverse(s) = <<>>)
           /\ \A x \in Digits : Reverse(Append(s, x)) = <<x>> \o Reverse(s)
           /\ s # <<>> => /\ Last(s) \in Digits /\ Front(s) \in Seq(Digits)
                          /\ Reverse(s) = <<Last(s)>> \o Reverse(Front(s))
<1>1. ASSUME NEW t \in Seq(Digits)
      PROVE  /\ Reverse(t) \in Seq(Digits) /\ Len(Reverse(t)) = Len(t)
             /\ \A n \in 1 .. Len(t) : Reverse(t)[n] = t[(Len(t) - n) + 1]
  <2>1. \A n \in 1 .. Len(t) : t[(Len(t) - n) + 1] \in Digits
    OBVIOUS
  <2> QED BY <2>1 DEF Reverse
<1>2. ASSUME s = <<>> PROVE Reverse(s) = <<>>
  <2>1. Reverse(s) \in Seq(Digits) /\ Len(Reverse(s)) = 0
    BY <1>1, <1>2
  <2> QED BY <2>1
<1>3. ASSUME NEW t \in Seq(Digits), NEW x \in Digits
      PROVE  Reverse(Append(t, x)) = <<x>> \o Reverse(t)
  <2> DEFINE n == Len(t)
             a == Append(t, x)
             l == Reverse(a)
             q == Reverse(t)
             r == <<x>> \o q
  <2>1. /\ a \in Seq(Digits) /\ Len(a) = n + 1 /\ a[n + 1] = x /\ n \in Nat
        /\ \A i \in 1 .. n : a[i] = t[i]
    BY AppendProperties
  <2> HIDE DEF a
  <2>2. /\ l \in Seq(Digits) /\ Len(l) = n + 1
        /\ \A i \in 1 .. n + 1 : l[i] = a[((n + 1) - i) + 1]
    BY <1>1, <2>1
  <2>3. q \in Seq(Digits) /\ Len(q) = n /\ \A i \in 1 .. n : q[i] = t[(n - i) + 1]
    BY <1>1
  <2>4. /\ <<x>> \in Seq(Digits) /\ Len(<<x>>) = 1 /\ <<x>>[1] = x
    OBVIOUS
  <2> HIDE DEF n, l, q
  <2>5. /\ r \in Seq(Digits) /\ Len(r) = 1 + n
        /\ \A i \in 1 .. 1 + n : r[i] = IF i <= 1 THEN <<x>>[i] ELSE q[i - 1]
    BY <2>3, <2>4, ConcatProperties
  <2> HIDE DEF r
  <2>6. \A i \in 1 .. n + 1 : l[i] = r[i]
    <3> SUFFICES ASSUME NEW i \in 1 .. n + 1 PROVE l[i] = r[i]
      OBVIOUS
    <3>1. CASE i = 1
      <4>1. ((n + 1) - 1) + 1 = n + 1 /\ 1 \in 1 .. n + 1
        BY <2>1
      <4>2. l[1] = x
        BY <2>1, <2>2, <4>1
      <4>3. r[1] = x
        BY <2>1, <2>4, <2>5
      <4> QED BY <3>1, <4>2, <4>3
    <3>2. CASE i # 1
      <4> DEFINE j == (n - (i - 1)) + 1
      <4>1. i - 1 \in 1 .. n /\ j \in 1 .. n /\ ((n + 1) - i) + 1 = j /\ i \in 1 .. 1 + n /\ ~(i <= 1)
        BY <2>1, <3>2
      <4>2. r[i] = q[i - 1] /\ q[i - 1] = t[j]
        BY <2>3, <2>5, <4>1
      <4> HIDE DEF j
      <4>3. l[i] = a[j] /\ a[j] = t[j]
        BY <2>1, <2>2, <4>1
      <4> QED BY <4>2, <4>3
    <3> QED BY <3>1, <3>2
  <2>7. Len(l) = Len(r)
    BY <2>1, <2>2, <2>5
  <2>8. l = r
    BY <2>1, <2>2, <2>5, <2>6, <2>7, SeqEqual
  <2> QED BY <2>8 DEF l, r, a, q
<1>4. ASSUME s # <<>>
      PROVE  /\ Last(s) \in Digits /\ Front(s) \in Seq(Digits)
             /\ Reverse(s) = <<Last(s)>> \o Reverse(Front(s))
  <2> DEFINE n == Len(s)
             h == Front(s)
             x == Last(s)
  <2>1. n \in 1 .. n
    BY <1>4
  <2>2. x \in Digits
    BY <2>1, ElementOfSeq DEF Last
  <2>3. h \in Seq(Digits) /\ Len(h) = n - 1 /\ \A i \in 1 .. n - 1 : h[i] = s[i]
    <3>1. ASSUME NEW m \in 0 .. Len(s)
          PROVE  /\ SubSeq(s, 1, m) \in Seq(Digits) /\ Len(SubSeq(s, 1, m)) = m
                 /\ \A i \in 1 .. m : SubSeq(s, 1, m)[i] = s[i]
      OBVIOUS
    <3>2. n - 1 \in 0 .. Len(s)
      BY <2>1
    <3> QED BY <3>1, <3>2 DEF Front
  <2>4. s[n] = x
    BY DEF Last
  <2> HIDE DEF n, h, x
  <2>5. s = Append(h, x)
    <3> DEFINE a == Append(h, x)
    <3>1. /\ a \in Seq(Digits) /\ Len(a) = Len(h) + 1 /\ a[Len(h) + 1] = x
          /\ \A i \in 1 .. Len(h) : a[i] = h[i]
      BY <2>2, <2>3, AppendProperties
    <3> HIDE DEF a
    <3>2. Len(a) = n /\ a[n] = x /\ \A i \in 1 .. n - 1 : a[i] = s[i]
      BY <2>1, <2>3, <3>1
    <3>3. \A i \in 1 .. n : a[i] = s[i]
      <4> SUFFICES ASSUME NEW i \in 1 .. n PROVE a[i] = s[i]
        OBVIOUS
      <4>1. i \in 1 .. n - 1 \/ i = n
        BY <2>1
      <4> QED BY <2>4, <3>2, <4>1
    <3>4. Len(a) = Len(s)
      BY <3>2 DEF n
    <3>5. a = s
      BY <3>1, <3>3, <3>4, SeqEqual DEF n
    <3> QED BY <3>5 DEF a
  <2> QED BY <1>3, <2>2, <2>3, <2>5 DEF h, x
<1> QED BY <1>1, <1>2, <1>3, <1>4

(* The call in progress, and what its meaning adds.                        *)
LEMMA HeadIs ==
    ASSUME LeftInv, calls # <<>>
    PROVE  /\ DoneText \in Seq(Nat) /\ Head(calls) \in Call
           /\ PlainReport => Plain(Head(calls))
           /\ Flat(Meanings(report), Nat)[DoneCalls + 1] = DoneText \o Meant(Head(calls))
<1> DEFINE c == Len(calls)
           r == Len(report)
           f == Flat(Meanings(report), Nat)
           k == r - c
<1>1. /\ report \in Seq(Call) /\ calls \in Seq(Call) /\ c \in Nat /\ r \in Nat /\ c <= r /\ c # 0
      /\ DOMAIN report = 1 .. r
  BY DEF LeftInv
<1>2. Head(calls) = report[k + 1]
  <2>1. Head(calls) = calls[1]
    BY <1>1
  <2>2. 1 \in 1 .. c
    BY <1>1
  <2> QED BY <2>1, <2>2 DEF LeftInv
<1>3. /\ Len(Meanings(report)) = r /\ IsFlat(f, Meanings(report), Nat)
      /\ \A n \in 1 .. r : Meanings(report)[n] = Meant(report[n])
  BY <1>1, MeaningsFlat
<1> HIDE DEF c, r, f
<1>4. k \in 0 .. r /\ k + 1 \in 1 .. r /\ (k + 1) - 1 = k
  BY <1>1
<1>5. DoneText = f[k] /\ DoneCalls = k
  BY DEF DoneText, DoneCalls, f, k, r, c
<1> HIDE DEF k
<1>6. f[k] \in Seq(Nat) /\ f[k + 1] = f[k] \o Meant(report[k + 1])
  <2>1. f \in [0 .. r -> Seq(Nat)] /\ f[k + 1] = f[k] \o Meanings(report)[k + 1]
    BY <1>3, <1>4 DEF IsFlat
  <2> QED BY <1>3, <1>4, <2>1
<1>7. report[k + 1] \in Call /\ (PlainReport => Plain(report[k + 1]))
  BY <1>1, <1>4, ElementOfSeq DEF r, PlainReport
<1> QED BY <1>2, <1>5, <1>6, <1>7 DEF f

(* What is shown when it ends.                                             *)
LEMMA CallDone ==
    ASSUME LeftInv, calls # <<>>, calls' = Tail(calls), report' = report
    PROVE  DoneText' = DoneText \o Meant(Head(calls)) /\ DoneText \in Seq(Nat)
<1> DEFINE c == Len(calls)
           r == Len(report)
<1>1. calls \in Seq(Call) /\ c \in Nat /\ r \in Nat /\ c # 0
  BY DEF LeftInv
<1>2. Len(calls') = c - 1
  BY <1>1
<1> HIDE DEF c, r
<1>3. r - (c - 1) = (r - c) + 1
  BY <1>1
<1>4. DoneCalls' = DoneCalls + 1 /\ Meanings(report') = Meanings(report)
  BY <1>2, <1>3 DEF DoneCalls, c, r
<1>5. DoneText' = Flat(Meanings(report), Nat)[DoneCalls + 1]
  BY <1>4 DEF DoneText
<1> QED BY <1>5, HeadIs

(* One sequence after another, and then an element.                        *)
LEMMA AppendLast ==
    ASSUME NEW s \in Seq(Nat), NEW t \in Seq(Nat), NEW x \in Nat
    PROVE  Append(s \o t, x) = s \o Append(t, x)
<1>1. s \o t \in Seq(Nat) /\ <<x>> \in Seq(Nat)
  BY ConcatProperties
<1>2. Append(s \o t, x) = (s \o t) \o <<x>> /\ Append(t, x) = t \o <<x>>
  BY <1>1, AppendIsConcat
<1>3. (s \o t) \o <<x>> = s \o (t \o <<x>>)
  BY <1>1, ConcatAssociative
<1> QED BY <1>2, <1>3

(* write draws a byte of ASCII as itself.                                  *)
LEMMA WriteMeant ==
    ASSUME PrintInv, MeantInv, PlainReport, WriteChar
    PROVE  Writing'
<1>1. Writing /\ pc = "write" /\ Decode /\ UNCHANGED <<report, calls>>
      /\ shown' = Append(shown, Last(decoded')) /\ calls # <<>>
  BY DEF MeantInv, WriteChar, PrintInv, InCall
<1> DEFINE b == ByteAt(text, str)
           x == text[str + 1]
<1>2. /\ text \in Seq(1 .. 255) /\ str \in Nat /\ Len(text) \in Nat /\ str < Len(text)
      /\ decoded \in Seq(CodePoints) /\ text' = text
      /\ str' = str + DecodeUtf8(text, str).len
      /\ decoded' = Append(decoded, DecodeUtf8(text, str).cp)
  BY <1>1 DEF PrintInv, IoInv, StringInv, DecodedInv, Stands, Decode, ByteAt
<1>3. Plain(Head(calls)) /\ DoneText \in Seq(Nat)
  BY <1>1, HeadIs DEF PrintInv
<1>4. str + 1 \in DOMAIN text
  BY <1>2
<1>5. x < 128 /\ b = x /\ x \in 1 .. 255
  <2>1. Head(calls).kind \in {"puts", "putln"} /\ text = Head(calls).arg
    BY <1>1 DEF Writing, NumberCall, Kind
  <2>2. x < 128
    BY <1>3, <1>4, <2>1 DEF Plain
  <2>3. b = x
    BY <1>2, ByteType
  <2>4. x \in 1 .. 255
    <3>1. str + 1 \in 1 .. Len(text)
      BY <1>2
    <3> QED BY <1>2, <3>1, ElementOfSeq
  <2> QED BY <2>2, <2>3, <2>4
<1>6. DecodeUtf8(text, str) = [cp |-> x, len |-> 1] /\ x \in CodePoints
  <2>1. /\ DecodeUtf8(text, str).cp \in CodePoints
        /\ b < 128 => DecodeUtf8(text, str) = [cp |-> b, len |-> 1]
    BY <1>2, DecodeIs
  <2> HIDE DEF x, b
  <2>2. DecodeUtf8(text, str) = [cp |-> x, len |-> 1]
    BY <1>5, <2>1
  <2> QED BY <2>1, <2>2
<1> DEFINE n == Len(decoded)
<1> HIDE DEF x
<1>7. str' = str + 1 /\ decoded' = Append(decoded, x) /\ n \in Nat
  BY <1>2, <1>6
<1>8. /\ decoded' \in Seq(CodePoints) /\ Len(decoded') = n + 1 /\ decoded'[n + 1] = x
      /\ \A i \in 1 .. n : decoded'[i] = decoded[i]
  BY <1>2, <1>6, <1>7, AppendProperties
<1>9. Last(decoded') = x
  BY <1>8 DEF Last
<1>10. shown' = DoneText \o decoded'
  <2>1. shown' = Append(DoneText \o decoded, x)
    BY <1>1, <1>9 DEF Writing
  <2>2. decoded \in Seq(Nat) /\ x \in Nat
    BY <1>2, <1>5, NatSeqs
  <2>3. Append(DoneText \o decoded, x) = DoneText \o Append(decoded, x)
    BY <1>3, <2>2, AppendLast
  <2> QED BY <1>7, <2>1, <2>3
<1>11. n = str /\ \A i \in 1 .. str : decoded[i] = text[i]
  BY <1>1 DEF Writing
<1> HIDE DEF n
<1>12. Len(decoded') = str' /\ \A i \in 1 .. str' : decoded'[i] = text'[i]
  <2>1. Len(decoded') = str' /\ str' = n + 1
    BY <1>7, <1>8, <1>11
  <2>2. ASSUME NEW i \in 1 .. n + 1 PROVE decoded'[i] = text[i]
    <3>1. CASE i = n + 1
      BY <1>8, <1>11, <3>1 DEF x
    <3>2. CASE i # n + 1
      <4>1. i \in 1 .. n
        BY <1>7, <3>2
      <4> QED BY <1>8, <1>11, <4>1
    <3> QED BY <3>1, <3>2
  <2> QED BY <1>2, <2>1, <2>2
<1>13. DoneText' = DoneText /\ Head(calls)' = Head(calls) /\ (NumberCall)' = NumberCall
  BY <1>1 DEF DoneText, DoneCalls, NumberCall, Kind
<1> QED BY <1>1, <1>2, <1>10, <1>12, <1>13 DEF Writing

(* A number ends with its last digit in the buffer.                        *)
LEMMA CollectMeant ==
    ASSUME PrintInv, MeantInv, PlainReport, Collect
    PROVE  /\ pc' = "digit" => Counting'
           /\ pc' = "emit" => Emitting'
<1> DEFINE b == Base
           v == value
           x == Digit(v % b)
           num == Numeral(Head(calls).arg, b)
           R == Reverse(buffer)
<1>1. /\ Counting /\ pc = "digit" /\ value' = v \div b /\ buffer' = Append(buffer, x)
      /\ pc' = IF value' = 0 THEN "emit" ELSE pc
      /\ UNCHANGED <<report, calls, shown>> /\ calls # <<>>
  BY DEF MeantInv, Collect, PrintInv, InCall
<1>2. b \in {10, 16} /\ v \in Nat /\ buffer \in Seq(Digits)
  BY DEF PrintInv, IoInv, CallInv, BufferInv, Base
<1>3. num = Numeral(v, b) \o R
  BY <1>1 DEF Counting
<1>4. /\ DoneText' = DoneText /\ Base' = b /\ NumberCall' /\ Head(calls)' = Head(calls)
      /\ shown = DoneText /\ shown' = shown
  BY <1>1 DEF DoneText, DoneCalls, NumberCall, Kind, Base, Counting
<1> HIDE DEF b, v
<1>5. x \in Digits /\ (v < b => v \div b = 0 /\ v % b = v) /\ (v >= b => v \div b # 0)
      /\ v \div b \in Nat
  BY <1>2, DigitIs
<1>6. R \in Seq(Digits) /\ Reverse(buffer') = <<x>> \o R
  BY <1>1, <1>2, <1>5, Reversed
<1> HIDE DEF R
<1>7. CASE v < b
  <2>1. pc' = "emit" /\ value' = 0
    BY <1>1, <1>5, <1>7
  <2>2. Numeral(v, b) = <<x>>
    BY <1>2, <1>5, <1>7, NumeralIs
  <2>3. num = Reverse(buffer')
    BY <1>3, <1>6, <2>2
  <2>4. Emitting'
    BY <1>4, <2>3 DEF Emitting
  <2> QED BY <2>1, <2>4
<1>8. CASE v >= b
  <2> DEFINE w == v \div b
  <2>1. pc' = "digit" /\ value' = w /\ w \in Nat
    BY <1>1, <1>5, <1>8
  <2>2. Numeral(v, b) = Append(Numeral(w, b), x)
    BY <1>2, <1>8, NumeralIs
  <2> HIDE DEF w, x
  <2>3. Numeral(w, b) \in Seq(Digits)
    BY <1>2, <2>1, NumeralIs
  <2> DEFINE N == Numeral(w, b)
  <2> HIDE DEF N
  <2>4. N \in Seq(Digits) /\ <<x>> \in Seq(Digits) /\ Append(N, x) = N \o <<x>>
    BY <1>5, <2>3, AppendIsConcat DEF N
  <2>5. (N \o <<x>>) \o R = N \o (<<x>> \o R)
    BY <1>6, <2>4, ConcatAssociative
  <2>6. num = N \o Reverse(buffer')
    BY <1>3, <1>6, <2>2, <2>4, <2>5 DEF N
  <2>7. Counting'
    BY <1>4, <2>1, <2>6 DEF Counting, N
  <2> QED BY <2>1, <2>7
<1>9. v < b \/ v >= b
  BY <1>2
<1> QED BY <1>7, <1>8, <1>9

LEMMA EmitMeant ==
    ASSUME PrintInv, MeantInv, PlainReport, Emit
    PROVE  Emitting'
<1> DEFINE x == Last(buffer)
           F == Reverse(Front(buffer))
<1>1. /\ Emitting /\ buffer # <<>> /\ shown' = Append(shown, x) /\ buffer' = Front(buffer)
      /\ UNCHANGED <<report, calls>>
  BY DEF MeantInv, Emit
<1>2. buffer \in Seq(Digits) /\ shown \in Seq(CodePoints)
  BY DEF PrintInv, BufferInv, ShownInv
<1>3. x \in Digits /\ F \in Seq(Digits) /\ Reverse(buffer) = <<x>> \o F
  BY <1>1, <1>2, Reversed
<1> HIDE DEF x, F
<1>4. shown \in Seq(Nat) /\ <<x>> \in Seq(Nat) /\ F \in Seq(Nat) /\ x \in Nat
  <2>1. <<x>> \in Seq(Digits)
    BY <1>3
  <2>2. x \in Nat
    BY <1>3 DEF Digits
  <2> QED BY <1>2, <1>3, <2>1, <2>2, NatSeqs
<1>5. Append(shown, x) = shown \o <<x>> /\ (shown \o <<x>>) \o F = shown \o (<<x>> \o F)
  BY <1>4, AppendIsConcat, ConcatAssociative
<1>6. shown' \o Reverse(buffer') = shown \o Reverse(buffer)
  BY <1>1, <1>3, <1>5 DEF F
<1>7. /\ DoneText' = DoneText /\ Base' = Base /\ NumberCall' = NumberCall /\ Head(calls)' = Head(calls)
  BY <1>1 DEF DoneText, DoneCalls, NumberCall, Kind, Base
<1> QED BY <1>1, <1>6, <1>7 DEF Emitting

(* The end of a call of each kind.                                         *)
LEMMA WriteEndMeant ==
    ASSUME PrintInv, MeantInv, PlainReport, WriteEnd
    PROVE  shown' = DoneText'
<1>1. /\ Writing /\ calls # <<>> /\ calls' = Tail(calls) /\ report' = report
      /\ ByteAt(text, str) = 0
      /\ shown' = IF Kind = "putln" THEN Append(shown, NEWLINE) ELSE shown
  BY DEF MeantInv, WriteEnd, PrintInv, InCall
<1>2. /\ text \in Seq(1 .. 255) /\ str \in 0 .. Len(text) /\ Len(text) \in Nat
      /\ decoded \in Seq(CodePoints) /\ LeftInv
  BY DEF PrintInv, IoInv, StringInv, DecodedInv, Stands
<1>3. /\ DoneText' = DoneText \o Meant(Head(calls)) /\ DoneText \in Seq(Nat)
  BY <1>1, <1>2, CallDone
<1>4. decoded = text
  <2>1. ~(str < Len(text))
    BY <1>1, <1>2, ByteType
  <2> DEFINE l == Len(text)
  <2> HIDE DEF l
  <2>2. l \in Nat /\ str \in 0 .. l /\ ~(str < l)
    BY <1>2, <2>1 DEF l
  <2>3. str = l
    BY <2>2
  <2>4. Len(decoded) = Len(text) /\ \A i \in 1 .. Len(decoded) : decoded[i] = text[i]
    BY <1>1, <2>3 DEF Writing, l
  <2>5. decoded \in Seq(Nat) /\ text \in Seq(Nat)
    BY <1>2, NatSeqs
  <2> QED BY <2>4, <2>5, SeqEqual
<1>5. /\ text = Head(calls).arg /\ shown = DoneText \o text /\ text \in Seq(Nat) /\ NEWLINE \in Nat
      /\ Kind \in {"puts", "putln"}
  BY <1>1, <1>2, <1>4, NatSeqs DEF Writing, NumberCall
<1>6. CASE Kind = "puts"
  <2>1. Meant(Head(calls)) = text /\ shown' = shown
    BY <1>1, <1>5, <1>6 DEF Meant, Kind
  <2> QED BY <1>3, <1>5, <2>1
<1>7. CASE Kind = "putln"
  <2>1. Meant(Head(calls)) = Append(text, NEWLINE) /\ shown' = Append(shown, NEWLINE)
    BY <1>1, <1>5, <1>7 DEF Meant, Kind
  <2>2. Append(DoneText \o text, NEWLINE) = DoneText \o Append(text, NEWLINE)
    BY <1>3, <1>5, AppendLast
  <2> QED BY <1>3, <1>5, <2>1, <2>2
<1> QED BY <1>5, <1>6, <1>7

LEMMA EmitEndMeant ==
    ASSUME PrintInv, MeantInv, PlainReport, EmitEnd
    PROVE  shown' = DoneText'
<1>1. /\ Emitting /\ calls # <<>> /\ calls' = Tail(calls) /\ report' = report /\ shown' = shown
      /\ buffer = <<>>
  BY DEF MeantInv, EmitEnd, PrintInv, InCall
<1>2. DoneText' = DoneText \o Meant(Head(calls))
  BY <1>1, CallDone DEF PrintInv
<1>3. Reverse(buffer) = <<>> /\ shown \in Seq(CodePoints)
  <2>1. buffer \in Seq(Digits)
    BY DEF PrintInv, BufferInv
  <2> QED BY <1>1, <2>1, Reversed DEF PrintInv, ShownInv
<1>4. shown \o <<>> = shown
  BY <1>3, ConcatEmptySeq
<1>5. Meant(Head(calls)) = Numeral(Head(calls).arg, Base)
  BY <1>1 DEF Emitting, NumberCall, Kind, Meant, Base
<1> QED BY <1>1, <1>2, <1>3, <1>4, <1>5 DEF Emitting

(* A number that fits its argument begins with all its digits to come.     *)
LEMMA NumberMeant ==
    ASSUME PrintInv, MeantInv, PlainReport, CallNumber
    PROVE  Counting'
<1>1. /\ shown = DoneText /\ calls # <<>> /\ NumberCall /\ buffer' = <<>>
      /\ value' = Head(calls).arg % Limit(Head(calls)) /\ UNCHANGED <<report, calls, shown>>
  BY DEF MeantInv, CallNumber, NumberCall
<1>2. Plain(Head(calls)) /\ Head(calls) \in Call
  BY <1>1, HeadIs DEF PrintInv
<1> DEFINE a == Head(calls).arg
           l == Limit(Head(calls))
<1>3. a < l /\ a \in Nat /\ l \in Nat \ {0}
  BY <1>1, <1>2, PrintAssumption DEF Plain, Call, NumberCall, Kind, Limit
<1> HIDE DEF a, l
<1>4. value' = a
  <2>1. a % l = a
    BY <1>3
  <2> QED BY <1>1, <2>1 DEF a, l
<1>5. Base \in {10, 16}
  BY DEF Base
<1>6. Numeral(a, Base) \in Seq(Digits)
  BY <1>3, <1>5, NumeralIs
<1>7. Reverse(buffer') = <<>>
  <2>1. <<>> \in Seq(Digits)
    OBVIOUS
  <2>2. Reverse(<<>>) = <<>>
    BY <2>1, Reversed
  <2> QED BY <1>1, <2>2
<1>8. Numeral(a, Base) \o <<>> = Numeral(a, Base)
  BY <1>6, ConcatEmptySeq
<1>9. /\ DoneText' = DoneText /\ Base' = Base /\ NumberCall' /\ Head(calls)' = Head(calls)
  BY <1>1 DEF DoneText, DoneCalls, NumberCall, Kind, Base
<1> QED BY <1>1, <1>4, <1>7, <1>8, <1>9 DEF Counting, a

LEMMA MeantStep == PrintInv /\ MeantInv /\ [PrintNext]_pvars => MeantInv'
<1> SUFFICES ASSUME PrintInv, MeantInv, [PrintNext]_pvars, PlainReport'
             PROVE  /\ pc' = "call" => shown' = DoneText'
                    /\ pc' = "write" => Writing'
                    /\ pc' = "digit" => Counting'
                    /\ pc' = "emit" => Emitting'
  BY DEF MeantInv
<1>1. PlainReport
  <2>1. report' = report
    BY DEF PrintNext, CallWrite, WriteChar, WriteEnd, CallNumber, Collect, Emit, EmitEnd, pvars
  <2> QED BY <2>1 DEF PlainReport
<1>2. CASE CallWrite
  <2>1. /\ shown = DoneText /\ pc' = "write" /\ ~NumberCall /\ text' = Head(calls).arg /\ str' = 0
        /\ decoded' = <<>> /\ UNCHANGED <<report, calls, shown>> /\ calls # <<>>
    BY <1>1, <1>2 DEF MeantInv, CallWrite, NumberCall
  <2>2. DoneText \in Seq(Nat)
    BY <2>1, HeadIs DEF PrintInv
  <2>3. DoneText \o <<>> = DoneText
    BY <2>2, ConcatEmptySeq
  <2>4. DoneText' = DoneText /\ NumberCall' = NumberCall /\ Head(calls)' = Head(calls)
    BY <2>1 DEF DoneText, DoneCalls, NumberCall, Kind
  <2>5. Len(decoded') = str' /\ \A n \in 1 .. str' : decoded'[n] = text'[n]
    BY <2>1
  <2> QED BY <2>1, <2>3, <2>4, <2>5 DEF Writing
<1>3. CASE WriteChar
  <2>1. pc' = "write"
    BY <1>3 DEF WriteChar
  <2> QED BY <1>1, <1>3, <2>1, WriteMeant
<1>4. CASE WriteEnd
  <2>1. pc' = "call"
    BY <1>4 DEF WriteEnd
  <2> QED BY <1>1, <1>4, <2>1, WriteEndMeant
<1>5. CASE CallNumber
  <2>1. pc' = "digit"
    BY <1>5 DEF CallNumber
  <2> QED BY <1>1, <1>5, <2>1, NumberMeant
<1>6. CASE Collect
  <2>1. pc' \in {"digit", "emit"}
    BY <1>6 DEF Collect
  <2> QED BY <1>1, <1>6, <2>1, CollectMeant
<1>7. CASE Emit
  <2>1. pc' = "emit"
    BY <1>7 DEF Emit
  <2> QED BY <1>1, <1>7, <2>1, EmitMeant
<1>8. CASE EmitEnd
  <2>1. pc' = "call"
    BY <1>8 DEF EmitEnd
  <2> QED BY <1>1, <1>8, <2>1, EmitEndMeant
<1>9. CASE UNCHANGED pvars
  <2>1. UNCHANGED <<report, calls, pc, value, buffer, shown, text, str, decoded>>
    BY <1>9 DEF pvars, vars
  <2>2. /\ DoneText' = DoneText /\ Base' = Base /\ NumberCall' = NumberCall /\ Head(calls)' = Head(calls)
    BY <2>1 DEF DoneText, DoneCalls, NumberCall, Kind, Base
  <2> QED BY <1>1, <2>1, <2>2 DEF MeantInv, Writing, Counting, Emitting
<1> QED BY <1>2, <1>3, <1>4, <1>5, <1>6, <1>7, <1>8, <1>9 DEF PrintNext

(* A report of ASCII texts and of numbers that fit their arguments is on   *)
(* the screen as it was meant: every text whole, every number in all its   *)
(* digits, highest first, in the order of the calls.                       *)
THEOREM ReportsShown == PrintSpec => []ReportShown
<1>1. PrintInit => MeantInv
  <2> SUFFICES ASSUME PrintInit PROVE MeantInv
    OBVIOUS
  <2>1. /\ report \in Seq(Call) /\ calls = report /\ pc = "call" /\ shown = <<>>
        /\ Len(report) \in Nat
    BY PrintAssumption DEF PrintInit
  <2>2. Flat(Meanings(report), Nat)[0] = <<>>
    BY <2>1, MeaningsFlat DEF IsFlat
  <2>3. DoneText = <<>>
    BY <2>1, <2>2 DEF DoneText, DoneCalls
  <2> QED BY <2>1, <2>3 DEF MeantInv
<1>2. PrintInv /\ MeantInv => ReportShown
  <2> SUFFICES ASSUME PrintInv, MeantInv, pc = "call", calls = <<>>, PlainReport
               PROVE  shown = FlattenSeq(Meanings(report))
    BY DEF ReportShown, PlainReport, Meanings
  <2>1. shown = DoneText /\ report \in Seq(Call) /\ Len(report) \in Nat
    BY DEF MeantInv, PrintInv, LeftInv
  <2>2. Len(calls) = 0 /\ Len(report) - 0 = Len(report)
    BY <2>1
  <2>3. DoneText = Flat(Meanings(report), Nat)[Len(report)]
    BY <2>2 DEF DoneText, DoneCalls
  <2> QED BY <2>1, <2>3, MeaningsFlat
<1> QED BY <1>1, <1>2, MeantStep, PrintInductive, PTL DEF PrintSpec

-----------------------------------------------------------------------------
(* Character classes.                                                      *)

(* Every character that can be printed is of exactly one kind: a letter, a *)
(* digit, punctuation or the space.                                        *)
THEOREM PrintablePartition ==
    ASSUME NEW c \in Int
    PROVE  /\ isprint(c) <=> isalpha(c) \/ isdigit(c) \/ ispunct(c) \/ c = 32
           /\ ~(isalpha(c) /\ isdigit(c)) /\ ~(isalnum(c) /\ ispunct(c))
           /\ isspace(c) => ~isalnum(c) /\ ~ispunct(c)
  BY DEF isprint, isalnum, isalpha, isdigit, ispunct, isspace, isupper, islower

(* The conversions of case undo each other on letters, leave everything    *)
(* else alone, and keep a character in its class.                          *)
THEOREM CaseConversions ==
    ASSUME NEW c \in Int
    PROVE  /\ islower(c) => isupper(toupper(c)) /\ tolower(toupper(c)) = c
           /\ isupper(c) => islower(tolower(c)) /\ toupper(tolower(c)) = c
           /\ ~isalpha(c) => toupper(c) = c /\ tolower(c) = c
           /\ isxdigit(c) => isxdigit(toupper(c)) /\ isxdigit(tolower(c)) /\ isalnum(c)
  BY DEF isalnum, isalpha, isdigit, isupper, islower, isxdigit, toupper, tolower
=============================================================================
