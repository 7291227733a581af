-------------------------------- MODULE Base64 -------------------------------
(***************************************************************************)
(* Base64::encode and Base64::decode (common/base64.hpp), which client and *)
(* server share for the Authorization header.  A text is a sequence of     *)
(* bytes, a code a sequence of positions in the table of letters, counted  *)
(* from 0, with Pad for '='.                                               *)
(***************************************************************************)
EXTENDS Integers, Sequences, SequencesExt

Pad == 64

ByteAt(text, i) == IF i <= Len(text) THEN text[i] ELSE 0

(* Three bytes as a number of 24 bits.  uint32_t(char) extends the sign, so  *)
(* a byte of 128 or more sets every bit above it: the bytes before it in the *)
(* group become 255.                                                         *)
Group(text, g) ==
    LET b0 == ByteAt(text, 3 * g + 1)
        b1 == ByteAt(text, 3 * g + 2)
        b2 == ByteAt(text, 3 * g + 3)
    IN  b2 + 256 * (IF b2 >= 128 THEN 255 ELSE b1)
           + 65536 * (IF b1 >= 128 \/ b2 >= 128 THEN 255 ELSE b0)

(* A number of 24 bits as four of six bits, and as three of eight.           *)
Letters(value) ==
    <<value \div 262144, (value \div 4096) % 64, (value \div 64) % 64, value % 64>>

Bytes(value) == <<value \div 65536, (value \div 256) % 256, value % 256>>

(* Four letters for every group; n bytes in the last one make n + 1 letters. *)
encode(text) ==
    [k \in 1 .. 4 * ((Len(text) + 2) \div 3) |->
        LET g == (k - 1) \div 4
            b == (k - 1) % 4
        IN  IF b <= Len(text) - 3 * g THEN Letters(Group(text, g))[b + 1] ELSE Pad]

(* decode throws at a letter whose index is not above 0; the first letter of *)
(* the table has index 0.                                                    *)
Decodable(code) == \A k \in DOMAIN code : code[k] > 0

IndexAt(code, k) == IF code[k] = Pad THEN 0 ELSE code[k]

GroupValue(code, g) ==
    IndexAt(code, 4 * g + 4) + 64 * IndexAt(code, 4 * g + 3)
        + 4096 * IndexAt(code, 4 * g + 2) + 262144 * IndexAt(code, 4 * g + 1)

(* Without the zero bytes at the end.                                        *)
Trimmed(text) == SubSeq(text, 1, SelectLastInSeq(text, LAMBDA byte : byte # 0))

Decoded(code) ==
    [k \in 1 .. 3 * (Len(code) \div 4) |->
        Bytes(GroupValue(code, (k - 1) \div 3))[((k - 1) % 3) + 1]]

decode(code) == Trimmed(Decoded(code))
===============================================================================
