-------------------------------- MODULE Utf8 --------------------------------
(***************************************************************************)
(* decode_utf8 and the loop of write that calls it (drivers/graphics.cpp): *)
(* a NUL-terminated string is taken apart into code points.                *)
(***************************************************************************)
EXTENDS Integers, Sequences, SequencesExt

CONSTANTS Strings,      \* the strings written: sequences of bytes, none 0
          CodeTexts     \* sequences of code points some of them encode

ASSUME StringsAssumption == \A s \in Strings : s \in Seq(1 .. 255)

(* What the 21 bits of the longest sequence can say; 0 ends a string.      *)
CodePoints == {cp \in Nat : cp < 2097152}
ASSUME CodesAssumption == \A cps \in CodeTexts : cps \in Seq(CodePoints \ {0})

VARIABLES text,         \* the string
          str,          \* how far write is: the bytes before it are done
          decoded       \* the code points drawn so far

vars == <<text, str, decoded>>

REPLACEMENT == 65533    \* 0xFFFD

(* The byte at offset k of the string, its terminating NUL included.       *)
ByteAt(s, k) == IF k < Len(s) THEN s[k + 1] ELSE 0

(* A mutant of Continuation: the highest bits are not both looked at.      *)
ContinuationLow(b) == b < 192
Continuation(b)    == b \in 128 .. 191

(* What the first byte says: the length of the sequence, 0 when it starts  *)
(* none, and the bits it contributes.  A mutant: four-byte sequences are   *)
(* taken for three.                                                        *)
SequenceLengthShort(b) == IF b < 128 THEN 1 ELSE IF b \in 192 .. 223 THEN 2
                          ELSE IF b \in 224 .. 247 THEN 3 ELSE 0
SequenceLength(b) ==
    IF b < 128 THEN 1
    ELSE IF b \in 192 .. 223 THEN 2
    ELSE IF b \in 224 .. 239 THEN 3
    ELSE IF b \in 240 .. 247 THEN 4
    ELSE 0
LeadBits(b) ==
    LET len == SequenceLength(b)
    IN  b % (IF len = 1 THEN 128 ELSE IF len = 2 THEN 32 ELSE IF len = 3 THEN 16 ELSE 8)

(* A mutant of Failed: the whole announced sequence is skipped.            *)
FailedSkips(len) == [cp |-> REPLACEMENT, len |-> IF len = 0 THEN 1 ELSE len]

(* A byte that starts no sequence, or one whose announced len bytes do not *)
(* follow, is replaced by itself.                                          *)
Failed(len) == [cp |-> REPLACEMENT, len |-> 1]

(* The bits of a sequence of len bytes: six more from each of its bytes    *)
(* after the first.                                                        *)
CodePoint(s, k, len) ==
    LET cp[n \in 0 .. 3] == IF n = 0 THEN LeadBits(ByteAt(s, k))
                            ELSE cp[n - 1] * 64 + (ByteAt(s, k + n) % 64)
    IN  cp[len - 1]

(* decode_utf8 at offset k: the code point and how many bytes to go on.    *)
DecodeUtf8(s, k) ==
    LET first == ByteAt(s, k)
        len   == SequenceLength(first)
    IN  IF len = 0 \/ \E n \in 1 .. len - 1 : ~Continuation(ByteAt(s, k + n))
        THEN Failed(len)
        ELSE [cp |-> CodePoint(s, k, len), len |-> len]

Init == text \in Strings /\ str = 0 /\ decoded = <<>>

(* One turn of the loop of write; a newline is a code point like others    *)
(* here.                                                                   *)
Decode ==
    /\ ByteAt(text, str) # 0
    /\ str' = str + DecodeUtf8(text, str).len
    /\ decoded' = Append(decoded, DecodeUtf8(text, str).cp)
    /\ UNCHANGED text

Next == Decode

Spec == Init /\ [][Next]_vars

-----------------------------------------------------------------------------
(***************************************************************************)
(* Properties                                                              *)
(***************************************************************************)
(* UTF-8 as it is defined: the bytes of a code point.                      *)
Encode(cp) ==
    IF cp < 128 THEN <<cp>>
    ELSE IF cp < 2048 THEN <<192 + (cp \div 64), 128 + (cp % 64)>>
    ELSE IF cp < 65536
         THEN <<224 + (cp \div 4096), 128 + ((cp \div 64) % 64), 128 + (cp % 64)>>
    ELSE <<240 + (cp \div 262144), 128 + ((cp \div 4096) % 64), 128 + ((cp \div 64) % 64),
           128 + (cp % 64)>>

Done == ByteAt(text, str) = 0

TypeOK == str \in Nat /\ decoded \in Seq(CodePoints)

(* write never steps over the terminating NUL, even when the string ends   *)
(* in the middle of a sequence.                                            *)
NeverPastEnd == str <= Len(text)

(* Whatever invalid bytes surround it, no ASCII character of the string is *)
(* swallowed: what is drawn stands for bytes of the string, in their       *)
(* order, and each ASCII byte has its own character drawn, itself.         *)
AsciiKept ==
    Done => \E at \in [DOMAIN decoded -> DOMAIN text] :
        /\ \A m, n \in DOMAIN decoded : m < n => at[m] < at[n]
        /\ \A q \in DOMAIN text : text[q] < 128 =>
               \E n \in DOMAIN decoded : at[n] = q /\ decoded[n] = text[q]

(* A string that encodes code points is decoded to them.                   *)
RoundTrip ==
    Done => \A cps \in CodeTexts :
                text = FlattenSeq([n \in DOMAIN cps |-> Encode(cps[n])]) => decoded = cps
==============================================================================
