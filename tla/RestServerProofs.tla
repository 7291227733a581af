--------------------------- MODULE RestServerProofs --------------------------
(***************************************************************************)
(* Proofs about RestServer, for every set of connections, requests and     *)
(* passwords, every number of threads and every bound.                     *)
(***************************************************************************)
EXTENDS RestServer, WellFoundedInduction, TLAPS

-------------------------------------------------------------------------------
(* What encode makes of a text: the value of each of its groups.             *)

Octet == 0 .. 255

(* Three bytes as a number.                                                  *)
Word(c0, c1, c2) == c2 + 256 * c1 + 65536 * c0

Words == {v \in Nat : v < 16777216}

(* ByteAt is a byte of the text, or zero behind its end.                     *)
LEMMA ByteTyped ==
    ASSUME NEW text \in Seq(Octet), NEW i \in Nat, i # 0
    PROVE  /\ ByteAt(text, i) \in 0 .. 255
           /\ i <= Len(text) => ByteAt(text, i) = text[i]
           /\ i > Len(text) => ByteAt(text, i) = 0
<1>1. i <= Len(text) => i \in 1 .. Len(text) /\ text[i] \in Octet
  OBVIOUS
<1> QED
  BY <1>1 DEF ByteAt, Octet

(* A number as the three bytes it has, and the letters a zero byte makes.    *)
HasBytes(v, c0, c1, c2) ==
    /\ v \in Words
    /\ Bytes(v)[1] = c0 /\ Bytes(v)[2] = c1 /\ Bytes(v)[3] = c2
    /\ c2 = 0 => Letters(v)[4] = 0
    /\ c1 = 0 /\ c2 = 0 => Letters(v)[3] = 0

(* Each of the three bytes of a number is found again in it.                 *)
LEMMA ThreeBytes ==
    ASSUME NEW c0 \in 0 .. 255, NEW c1 \in 0 .. 255, NEW c2 \in 0 .. 255
    PROVE  HasBytes(Word(c0, c1, c2), c0, c1, c2)
<1> DEFINE v == Word(c0, c1, c2)
<1>1. v = c2 + 256 * c1 + 65536 * c0 /\ v \in Nat /\ v < 16777216
  BY SMT DEF v, Word
<1> HIDE DEF v
<1>2. v \div 65536 = c0 /\ v % 256 = c2 /\ v \div 256 = c1 + 256 * c0
  BY SMT, <1>1
<1>3. (v \div 256) % 256 = c1
  BY SMT, <1>2
<1>4. c2 = 0 => v % 64 = 0
  BY SMT, <1>1
<1>5. c1 = 0 /\ c2 = 0 => (v \div 64) % 64 = 0
  <2> SUFFICES ASSUME c1 = 0, c2 = 0 PROVE (v \div 64) % 64 = 0
    OBVIOUS
  <2>1. v \div 64 = 1024 * c0
    BY SMT, <1>1
  <2> QED
    BY SMT, <2>1
<1> QED
  BY SMT, <1>1, <1>2, <1>3, <1>4, <1>5 DEF Bytes, Letters, Words, HasBytes, v

(* The four letters of a number, put together, are the number.               *)
LEMMA FourLetters ==
    ASSUME NEW v \in Words
    PROVE  Letters(v)[4] + 64 * Letters(v)[3] + 4096 * Letters(v)[2] + 262144 * Letters(v)[1] = v
<1>0. v \in Nat /\ v < 16777216
  BY SMT DEF Words
<1>1. PICK p \in Nat : p = v \div 64
  BY SMT, <1>0
<1>2. PICK q \in Nat : q = v \div 4096
  BY SMT, <1>0
<1>3. PICK r \in Nat : r = v \div 262144
  BY SMT, <1>0
<1>4. v = 64 * p + (v % 64) /\ v % 64 \in 0 .. 63
  BY SMT, <1>0, <1>1
<1>5. q = p \div 64 /\ r = q \div 64
  BY SMT, <1>0, <1>1, <1>2, <1>3
<1>6. r \in 0 .. 63
  BY SMT, <1>0, <1>3
<1>7. p = 64 * q + (p % 64) /\ p % 64 \in 0 .. 63 /\ q = 64 * r + (q % 64) /\ q % 64 \in 0 .. 63
  BY SMT, <1>5
<1>8. /\ Letters(v)[1] = r /\ Letters(v)[2] = q % 64
      /\ Letters(v)[3] = p % 64 /\ Letters(v)[4] = v % 64
  BY SMT, <1>1, <1>2, <1>3 DEF Letters
<1> QED
  BY SMT, <1>0, <1>4, <1>6, <1>7, <1>8

(* A letter has six bits, and is never the padding.                          *)
LEMMA LetterTyped ==
    ASSUME NEW v \in Words, NEW c \in 1 .. 4
    PROVE  Letters(v)[c] \in 0 .. 63 /\ Letters(v)[c] # Pad
<1>1. v \in Nat /\ v < 16777216
  BY SMT DEF Words
<1>2. Letters(v)[c] \in 0 .. 63
  <2>1. /\ v \div 262144 \in 0 .. 63 /\ (v \div 4096) % 64 \in 0 .. 63
        /\ (v \div 64) % 64 \in 0 .. 63 /\ v % 64 \in 0 .. 63
    BY SMT, <1>1
  <2>2. CASE c = 1
    BY SMT, <2>1, <2>2 DEF Letters
  <2>3. CASE c = 2
    BY SMT, <2>1, <2>3 DEF Letters
  <2>4. CASE c = 3
    BY SMT, <2>1, <2>4 DEF Letters
  <2>5. CASE c = 4
    BY SMT, <2>1, <2>5 DEF Letters
  <2> QED
    BY <2>2, <2>3, <2>4, <2>5
<1> QED
  BY <1>2 DEF Pad

(* What the sign extension leaves of the first and the second byte.          *)
First(text, g) ==
    IF ByteAt(text, 3 * g + 2) >= 128 \/ ByteAt(text, 3 * g + 3) >= 128
    THEN 255 ELSE ByteAt(text, 3 * g + 1)

Second(text, g) == IF ByteAt(text, 3 * g + 3) >= 128 THEN 255 ELSE ByteAt(text, 3 * g + 2)

Third(text, g) == ByteAt(text, 3 * g + 3)

(* A group is the number its three bytes make, those above 127 smeared over  *)
(* the bytes before them.                                                    *)
LEMMA GroupWord ==
    ASSUME NEW text \in Seq(Octet), NEW g \in Nat
    PROVE  HasBytes(Group(text, g), First(text, g), Second(text, g), Third(text, g))
<1>1. ASSUME NEW i \in 1 .. 3 PROVE ByteAt(text, 3 * g + i) \in 0 .. 255
  <2>1. 3 * g + i \in Nat /\ 3 * g + i # 0
    OBVIOUS
  <2> QED
    BY <2>1, ByteTyped
<1>2. /\ ByteAt(text, 3 * g + 1) \in 0 .. 255 /\ ByteAt(text, 3 * g + 2) \in 0 .. 255
      /\ ByteAt(text, 3 * g + 3) \in 0 .. 255
  BY <1>1
<1>3. First(text, g) \in 0 .. 255 /\ Second(text, g) \in 0 .. 255 /\ Third(text, g) \in 0 .. 255
  BY <1>2 DEF First, Second, Third
<1>4. Group(text, g) = Word(First(text, g), Second(text, g), Third(text, g))
  BY SMT, <1>2 DEF Group, Word, First, Second, Third
<1> QED
  BY <1>3, <1>4, ThreeBytes, Zenon

(* The group has no byte that the sign extension changes.                    *)
Unsigned(text, g) ==
    /\ ByteAt(text, 3 * g + 1) < 128
    /\ ByteAt(text, 3 * g + 2) < 128
    /\ ByteAt(text, 3 * g + 3) < 128

(* Each byte of a group is kept or becomes 255.                              *)
KeepsByte(text, g, a) ==
    /\ Bytes(Group(text, g))[a] \in {ByteAt(text, 3 * g + a), 255}
    /\ Unsigned(text, g) => Bytes(Group(text, g))[a] = ByteAt(text, 3 * g + a)

(* Of each byte of a group, decode finds the byte or 255.                    *)
LEMMA GroupBytes ==
    ASSUME NEW text \in Seq(Octet), NEW g \in Nat, NEW a \in 1 .. 3
    PROVE  KeepsByte(text, g, a)
<1>1. /\ Bytes(Group(text, g))[1] = First(text, g)
      /\ Bytes(Group(text, g))[2] = Second(text, g)
      /\ Bytes(Group(text, g))[3] = Third(text, g)
  BY GroupWord, Zenon DEF HasBytes
<1>2. Unsigned(text, g) => ~(ByteAt(text, 3 * g + 2) >= 128) /\ ~(ByteAt(text, 3 * g + 3) >= 128)
  <2>1. /\ 3 * g + 2 \in Nat /\ 3 * g + 2 # 0 /\ 3 * g + 3 \in Nat /\ 3 * g + 3 # 0
    OBVIOUS
  <2>2. ByteAt(text, 3 * g + 2) \in 0 .. 255 /\ ByteAt(text, 3 * g + 3) \in 0 .. 255
    BY <2>1, ByteTyped
  <2>3. \A x \in 0 .. 255 : x < 128 => ~(x >= 128)
    OBVIOUS
  <2> QED
    BY <2>2, <2>3, Zenon DEF Unsigned
<1>3. CASE a = 1
  BY <1>1, <1>2, <1>3, Zenon DEF First, KeepsByte
<1>4. CASE a = 2
  BY <1>1, <1>2, <1>4, Zenon DEF Second, KeepsByte
<1>5. CASE a = 3
  BY <1>1, <1>5, Zenon DEF Third, KeepsByte
<1> QED
  BY <1>3, <1>4, <1>5

(* A group with fewer bytes ends with zeros, and so do its letters.          *)
LEMMA GroupEnd ==
    ASSUME NEW text \in Seq(Octet), NEW g \in Nat
    PROVE  /\ Group(text, g) \in Words
           /\ Third(text, g) = 0 =>
                 Bytes(Group(text, g))[3] = 0 /\ Letters(Group(text, g))[4] = 0
           /\ ByteAt(text, 3 * g + 2) = 0 /\ Third(text, g) = 0 =>
                 Bytes(Group(text, g))[2] = 0 /\ Letters(Group(text, g))[3] = 0
<1>1. /\ Group(text, g) \in Words
      /\ Bytes(Group(text, g))[2] = Second(text, g)
      /\ Bytes(Group(text, g))[3] = Third(text, g)
      /\ Third(text, g) = 0 => Letters(Group(text, g))[4] = 0
      /\ Second(text, g) = 0 /\ Third(text, g) = 0 => Letters(Group(text, g))[3] = 0
  BY GroupWord, Zenon DEF HasBytes
<1>2. ByteAt(text, 3 * g + 2) = 0 /\ Third(text, g) = 0 => Second(text, g) = 0
  BY DEF Second, Third
<1> QED
  BY <1>1, <1>2, Zenon

Groups(text) == (Len(text) + 2) \div 3

(* Every group but the last has three bytes, and the last one has some.      *)
LEMMA GroupsCover ==
    ASSUME NEW text \in Seq(Octet), NEW g \in 0 .. Groups(text) - 1
    PROVE  /\ g \in Nat /\ Groups(text) \in Nat /\ Len(text) \in Nat
           /\ 3 * g + 1 <= Len(text)
  BY DEF Groups

(* Which letter or padding encode puts at each place.                        *)
LEMMA EncodedLetter ==
    ASSUME NEW text \in Seq(Octet), NEW g \in 0 .. Groups(text) - 1, NEW b \in 0 .. 3
    PROVE  encode(text)[4 * g + b + 1] =
              IF b <= Len(text) - 3 * g THEN Letters(Group(text, g))[b + 1] ELSE Pad
<1> DEFINE k == 4 * g + b + 1
<1>1. g \in Nat /\ Groups(text) \in Nat
  BY GroupsCover
<1>2. k \in 1 .. 4 * Groups(text)
  BY <1>1
<1>3. (k - 1) \div 4 = g /\ (k - 1) % 4 = b
  BY <1>1
<1> HIDE DEF k
<1>4. encode(text)[k] = IF (k - 1) % 4 <= Len(text) - 3 * ((k - 1) \div 4)
                        THEN Letters(Group(text, (k - 1) \div 4))[((k - 1) % 4) + 1] ELSE Pad
  BY <1>2 DEF encode, Groups
<1> QED
  BY <1>3, <1>4 DEF k

(* decode reads from four letters the number encode made them of.            *)
LEMMA ValueKept ==
    ASSUME NEW text \in Seq(Octet), NEW g \in 0 .. Groups(text) - 1
    PROVE  GroupValue(encode(text), g) = Group(text, g)
<1> DEFINE v == Group(text, g)
           n == Len(text) - 3 * g
           At(b) == IndexAt(encode(text), 4 * g + b + 1)
<1>1. g \in Nat /\ Len(text) \in Nat /\ n \in Nat /\ n >= 1
  BY GroupsCover
<1>2. /\ v \in Words
      /\ Third(text, g) = 0 => Letters(v)[4] = 0
      /\ ByteAt(text, 3 * g + 2) = 0 /\ Third(text, g) = 0 => Letters(v)[3] = 0
  BY <1>1, GroupEnd, Zenon
<1>3. /\ n < 3 => Third(text, g) = 0
      /\ n < 2 => ByteAt(text, 3 * g + 2) = 0
  BY <1>1 DEF ByteAt, Third
<1>4. /\ n < 3 => Letters(v)[4] = 0
      /\ n < 2 => Letters(v)[3] = 0
  BY <1>1, <1>2, <1>3
<1>5. ASSUME NEW b \in 0 .. 3
      PROVE  At(b) = IF b <= n THEN Letters(v)[b + 1] ELSE 0
  <2>1. encode(text)[4 * g + b + 1] = IF b <= n THEN Letters(v)[b + 1] ELSE Pad
    BY EncodedLetter
  <2>2. b + 1 \in 1 .. 4
    OBVIOUS
  <2>3. Letters(v)[b + 1] # Pad
    BY <1>2, <2>2, LetterTyped, Zenon
  <2> HIDE DEF v, n
  <2>5. CASE b <= n
    <3>1. encode(text)[4 * g + b + 1] = Letters(v)[b + 1]
      BY <2>1, <2>5, Zenon
    <3> QED
      BY <2>3, <2>5, <3>1, Zenon DEF IndexAt
  <2>6. CASE ~(b <= n)
    <3>1. encode(text)[4 * g + b + 1] = Pad
      BY <2>1, <2>6, Zenon
    <3> QED
      BY <2>6, <3>1, Zenon DEF IndexAt
  <2> QED
    BY <2>5, <2>6, Zenon
<1>9. GroupValue(encode(text), g) = At(3) + 64 * At(2) + 4096 * At(1) + 262144 * At(0)
  BY SMT, <1>1 DEF GroupValue
<1> HIDE DEF At, v, n
<1>6. At(0) = Letters(v)[1] /\ At(1) = Letters(v)[2]
  BY <1>1, <1>5
<1>7. At(2) = Letters(v)[3]
  BY <1>1, <1>4, <1>5
<1>8. At(3) = Letters(v)[4]
  BY <1>1, <1>4, <1>5
<1> QED
  BY SMT, <1>2, <1>6, <1>7, <1>8, <1>9, FourLetters DEF v

-------------------------------------------------------------------------------
(* What decode makes of an encoded text.                                     *)

(* decode finds as many groups as encode wrote, and the bytes of each.       *)
LEMMA EncodedGroups ==
    ASSUME NEW text \in Seq(Octet)
    PROVE  /\ Groups(text) \in Nat /\ 3 * Groups(text) >= Len(text)
           /\ Decoded(encode(text)) =
                 [k \in 1 .. 3 * Groups(text) |->
                     Bytes(GroupValue(encode(text), (k - 1) \div 3))[((k - 1) % 3) + 1]]
<1>1. Groups(text) \in Nat /\ 3 * Groups(text) >= Len(text)
  BY DEF Groups
<1>2. Len(encode(text)) = 4 * Groups(text)
  BY <1>1 DEF encode, Groups
<1>3. Len(encode(text)) \div 4 = Groups(text)
  BY <1>1, <1>2
<1> QED
  BY <1>1, <1>3 DEF Decoded

(* A byte of 128 or more leaves 255 of those before it in its group; what is *)
(* behind the text are zeros.                                                *)
DecodesAt(text, k) ==
    /\ Decoded(encode(text))[k] \in {ByteAt(text, k), 255}
    /\ k > Len(text) => Decoded(encode(text))[k] = 0
    /\ (\A i \in 1 .. Len(text) : text[i] < 128)
           => Decoded(encode(text))[k] = ByteAt(text, k)

(* What decode finds at each place of an encoded text.                       *)
LEMMA DecodedByte ==
    ASSUME NEW text \in Seq(Octet), NEW k \in 1 .. 3 * Groups(text)
    PROVE  DecodesAt(text, k)
<1> DEFINE g == (k - 1) \div 3
           a == ((k - 1) % 3) + 1
           byte == Bytes(Group(text, g))[a]
<1>1. Groups(text) \in Nat /\ Len(text) \in Nat /\ k \in Nat /\ k # 0
  BY EncodedGroups
<1>2. g \in 0 .. Groups(text) - 1 /\ a \in 1 .. 3 /\ k = 3 * g + a
  BY <1>1
<1>3. g \in Nat /\ 3 * g + 1 <= Len(text)
  BY <1>2, GroupsCover
<1>4. Decoded(encode(text))[k] = byte
  <2>1. Decoded(encode(text))[k] = Bytes(GroupValue(encode(text), g))[a]
    BY EncodedGroups
  <2> QED
    BY <1>2, <2>1, ValueKept, Zenon
<1> HIDE DEF g, a
<1>s. g \in Nat /\ a \in 1 .. 3 /\ text \in Seq(Octet)
  BY <1>2, <1>3, Zenon
<1>5. /\ byte \in {ByteAt(text, 3 * g + a), 255}
      /\ Unsigned(text, g) => byte = ByteAt(text, 3 * g + a)
  <2>1. KeepsByte(text, g, a)
    BY <1>s, GroupBytes, Zenon
  <2> QED
    BY <2>1, Zenon DEF KeepsByte
<1>6. k > Len(text) => byte = 0
  <2>1. /\ Third(text, g) = 0 => Bytes(Group(text, g))[3] = 0
        /\ ByteAt(text, 3 * g + 2) = 0 /\ Third(text, g) = 0 => Bytes(Group(text, g))[2] = 0
    BY <1>s, GroupEnd, Zenon
  <2> SUFFICES ASSUME k > Len(text) PROVE byte = 0
    OBVIOUS
  <2>2. a = 2 \/ a = 3
    BY <1>1, <1>2, <1>3
  <2>3. Third(text, g) = 0
    BY <1>1, <1>2, <1>3 DEF ByteAt, Third
  <2>4. a = 2 => ByteAt(text, 3 * g + 2) = 0
    BY <1>1, <1>2, <1>3 DEF ByteAt
  <2> QED
    BY <2>1, <2>2, <2>3, <2>4, Zenon
<1>7. (\A i \in 1 .. Len(text) : text[i] < 128)
         => Unsigned(text, g)
  BY <1>1, <1>3 DEF ByteAt, Unsigned
<1> HIDE DEF byte
<1> QED
  BY <1>2, <1>4, <1>5, <1>6, <1>7 DEF DecodesAt

(* A text without zero bytes comes back as long as it was, and each byte is  *)
(* the same or 255.                                                          *)
Resembles(back, text) ==
    /\ Len(back) = Len(text)
    /\ back \in Seq(Octet)
    /\ \A k \in 1 .. Len(text) : back[k] \in {text[k], 255}
    /\ (\A k \in 1 .. Len(text) : text[k] < 128) => back = text

(* What is left when the zeros at the end go.                                *)
LEMMA TrimmedTo ==
    ASSUME NEW raw \in Seq(Octet), NEW n \in 1 .. Len(raw), raw[n] # 0,
           \A k \in 1 .. Len(raw) : k > n => raw[k] = 0
    PROVE  Trimmed(raw) = SubSeq(raw, 1, n)
<1> DEFINE I == {i \in 1 .. Len(raw) : raw[i] # 0}
<1>1. n \in I /\ \A i \in I : n >= i
  OBVIOUS
<1>2. Max(I) \in I /\ \A i \in I : Max(I) >= i
  BY <1>1 DEF Max
<1>3. Max(I) = n
  BY <1>1, <1>2
<1>4. Trimmed(raw) = SubSeq(raw, 1, IF I # {} THEN Max(I) ELSE 0)
  BY DEF Trimmed, SelectLastInSeq
<1> QED
  BY <1>1, <1>3, <1>4

(* An encoded text without zeros comes back, but for bytes become 255.       *)
LEMMA ComesBack ==
    ASSUME NEW text \in Seq(Octet), text # <<>>, \A k \in 1 .. Len(text) : text[k] # 0
    PROVE  Resembles(decode(encode(text)), text)
<1> DEFINE raw == Decoded(encode(text))
           n == Len(text)
<1>1. Groups(text) \in Nat /\ 3 * Groups(text) >= n /\ n \in Nat /\ n >= 1
  BY EncodedGroups
<1>2. DOMAIN raw = 1 .. 3 * Groups(text)
  BY EncodedGroups
<1>3. ASSUME NEW k \in 1 .. 3 * Groups(text)
      PROVE  /\ raw[k] \in {ByteAt(text, k), 255}
             /\ k > n => raw[k] = 0
             /\ (\A i \in 1 .. n : text[i] < 128) => raw[k] = ByteAt(text, k)
  <2>1. DecodesAt(text, k)
    BY DecodedByte, Zenon
  <2> QED
    BY <2>1, Zenon DEF DecodesAt
<1>4. ASSUME NEW k \in 1 .. 3 * Groups(text) PROVE raw[k] \in Octet
  <2>1. k \in Nat /\ k # 0
    BY <1>1
  <2> QED
    BY <1>3, <2>1, ByteTyped DEF Octet
<1>5. raw = [k \in 1 .. 3 * Groups(text) |-> raw[k]]
  BY EncodedGroups
<1> HIDE DEF raw
<1>6. raw \in Seq(Octet) /\ Len(raw) = 3 * Groups(text)
  BY <1>1, <1>4, <1>5
<1>7. ASSUME NEW k \in 1 .. n
      PROVE  /\ k \in 1 .. 3 * Groups(text) /\ ByteAt(text, k) = text[k] /\ text[k] \in Octet
             /\ raw[k] \in {text[k], 255}
             /\ (\A i \in 1 .. n : text[i] < 128) => raw[k] = text[k]
  <2>1. k \in 1 .. 3 * Groups(text) /\ ByteAt(text, k) = text[k] /\ text[k] \in Octet
    BY <1>1 DEF ByteAt
  <2> QED
    BY <1>3, <2>1, Zenon
<1>8. raw[n] # 0 /\ n \in 1 .. Len(raw)
  BY <1>1, <1>6, <1>7
<1>9. decode(encode(text)) = SubSeq(raw, 1, n)
  BY <1>3, <1>6, <1>8, TrimmedTo DEF decode, raw
<1>10. PICK back : back = SubSeq(raw, 1, n)
  OBVIOUS
<1>11. back \in Seq(Octet) /\ Len(back) = n /\ \A k \in 1 .. n : back[k] = raw[k]
  BY <1>1, <1>6, <1>8, <1>10
<1>12. \A k \in 1 .. n : back[k] \in {text[k], 255}
  BY <1>7, <1>11
<1>13. (\A k \in 1 .. n : text[k] < 128) => back = text
  BY <1>7, <1>11
<1> QED
  BY <1>9, <1>10, <1>11, <1>12, <1>13 DEF Resembles

-------------------------------------------------------------------------------
(* Authentication.                                                           *)

(* The header of a user who typed pass.                                      *)
LEMMA Typed ==
    ASSUME NEW pass \in Seq(Typable)
    PROVE  LET text == Admin \o <<Colon>> \o pass
           IN  /\ text \in Seq(Octet) /\ Len(text) = Len(pass) + 6
               /\ text[1] = 97 /\ text[2] = 100 /\ text[3] = 109 /\ text[4] = 105
               /\ text[5] = 110 /\ text[6] = Colon
               /\ \A k \in 1 .. Len(pass) : text[k + 6] = pass[k]
               /\ text # <<>> /\ \A k \in 1 .. Len(text) : text[k] # 0
<1> DEFINE text == Admin \o <<Colon>> \o pass
<1>1. Admin \in Seq(Octet) /\ <<Colon>> \in Seq(Octet) /\ pass \in Seq(Octet)
  BY DEF Admin, Colon, Octet, Typable
<1>2. text \in Seq(Octet) /\ Len(text) = Len(pass) + 6
  BY <1>1 DEF Admin
<1>3. /\ text[1] = 97 /\ text[2] = 100 /\ text[3] = 109 /\ text[4] = 105
      /\ text[5] = 110 /\ text[6] = Colon
  BY <1>1 DEF Admin
<1>4. \A k \in 1 .. Len(pass) : text[k + 6] = pass[k]
  BY <1>1 DEF Admin
<1>5. \A k \in 1 .. Len(pass) : pass[k] # 0
  <2>1. \A k \in 1 .. Len(pass) : pass[k] \in Typable
    OBVIOUS
  <2>2. \A x \in Typable : x # 0
    BY DEF Typable
  <2> QED
    BY <2>1, <2>2, Zenon
<1> HIDE DEF text
<1>6. ASSUME NEW k \in 1 .. Len(text) PROVE text[k] # 0
  <2>1. k \in {1, 2, 3, 4, 5, 6} \/ k \in 7 .. Len(text)
    BY <1>2
  <2>2. CASE k \in {1, 2, 3, 4, 5, 6}
    BY <1>3, <2>2 DEF Colon
  <2>3. CASE k \in 7 .. Len(text)
    <3>1. PICK j \in 1 .. Len(pass) : k = j + 6
      <4>1. k - 6 \in 1 .. Len(pass) /\ k = (k - 6) + 6
        BY <1>2, <2>3
      <4> QED
        BY <4>1
    <3> QED
      BY <1>4, <1>5, <3>1
  <2> QED
    BY <2>1, <2>2, <2>3
<1>7. text # <<>>
  BY <1>2
<1> QED
  BY <1>2, <1>3, <1>4, <1>6, <1>7 DEF text

(* A set of numbers has a least one.                                         *)
LEMMA LeastExists ==
    ASSUME NEW I, I \subseteq Nat, I # {}
    PROVE  Min(I) \in I /\ \A j \in I : Min(I) <= j
<1> DEFINE R == OpToRel(<, Nat)
<1>1. PICK m \in I : \A j \in I : <<j, m>> \notin R
  <2>1. IsWellFoundedOn(R, Nat)
    BY NatLessThanWellFounded
  <2> HIDE DEF R
  <2> QED
    BY <2>1, WFMin
<1>2. ASSUME NEW j \in I PROVE m <= j
  <2>1. m \in Nat /\ j \in Nat /\ ~(j < m)
    BY <1>1 DEF OpToRel
  <2> QED
    BY <2>1
<1> QED
  BY <1>2 DEF Min

(* What the password in a header is compared with: what follows the colon,   *)
(* behind the right user.                                                    *)
LEMMA RightMeans ==
    ASSUME NEW back \in Seq(Octet), NEW code, decode(code) = back, NEW configured,
           Outcome(code, configured) = "right"
    PROVE  /\ Len(back) >= 5
           /\ SubSeq(back, 7, Len(back)) = configured
<1> DEFINE I == {i \in 1 .. Len(back) : back[i] = Colon}
           split == SelectInSeq(back, LAMBDA byte : byte = Colon)
<1>1. split = IF I # {} THEN Min(I) ELSE 0
  BY DEF SelectInSeq
<1>2. I # {} => Min(I) \in I
  <2>1. I \subseteq Nat
    OBVIOUS
  <2> HIDE DEF I
  <2> QED
    BY <2>1, LeastExists
<1>3. split \in 0 .. Len(back)
  BY <1>1, <1>2
<1>4. /\ SubSeq(back, 1, split - 1) = Admin
      /\ Right(SubSeq(back, split + 1, Len(back)), configured)
  <2>1. Outcome(code, configured) =
           IF ~Decodable(code) \/ SubSeq(back, 1, split - 1) # Admin THEN "throws"
           ELSE IF Right(SubSeq(back, split + 1, Len(back)), configured) THEN "right"
           ELSE "wrong"
    BY Zenon DEF Outcome
  <2>2. "throws" # "right" /\ "wrong" # "right"
    OBVIOUS
  <2> HIDE DEF split
  <2> QED
    BY <2>1, <2>2, Zenon
<1> HIDE DEF split
<1>5. Len(SubSeq(back, 1, split - 1)) = 5
  BY <1>4 DEF Admin
<1>6. split = 6
  BY <1>3, <1>5
<1> QED
  BY <1>3, <1>4, <1>6 DEF Right

(* Whatever else was typed, sign extension included, is not taken for the    *)
(* configured password.                                                      *)
LEMMA RightOnly ==
    ASSUME NEW pass \in Seq(Typable), NEW configured \in Seq(Typable),
           Outcome(encode(Admin \o <<Colon>> \o pass), configured) = "right"
    PROVE  pass = configured
<1> DEFINE text == Admin \o <<Colon>> \o pass
<1>1. /\ text \in Seq(Octet) /\ Len(text) = Len(pass) + 6
      /\ \A k \in 1 .. Len(pass) : text[k + 6] = pass[k]
      /\ text # <<>> /\ \A k \in 1 .. Len(text) : text[k] # 0
  BY Typed
<1> HIDE DEF text
<1>2. Resembles(decode(encode(text)), text)
  BY <1>1, ComesBack, Zenon
<1>3. PICK back : back = decode(encode(text))
  OBVIOUS
<1>4. /\ back \in Seq(Octet) /\ Len(back) = Len(pass) + 6
      /\ \A k \in 1 .. Len(text) : back[k] \in {text[k], 255}
  BY <1>1, <1>2, <1>3, Zenon DEF Resembles
<1>5. SubSeq(back, 7, Len(back)) = configured
  BY <1>3, <1>4, RightMeans, Zenon DEF text
<1>6. Len(configured) = Len(pass) /\ \A k \in 1 .. Len(pass) : configured[k] = back[k + 6]
  <2>1. Len(back) \in Nat /\ Len(back) >= 6 /\ Len(pass) \in Nat
    BY <1>4
  <2>2. Len(SubSeq(back, 7, Len(back))) = Len(pass)
    BY <1>4, <2>1
  <2>3. \A k \in 1 .. Len(pass) : SubSeq(back, 7, Len(back))[k] = back[k + 6]
    BY <1>4, <2>1
  <2> QED
    BY <1>5, <2>2, <2>3, Zenon
<1>7. ASSUME NEW k \in 1 .. Len(pass) PROVE configured[k] = pass[k]
  <2>1. k + 6 \in 1 .. Len(text)
    BY <1>1
  <2>2. configured[k] \in {pass[k], 255}
    BY <1>1, <1>4, <1>6, <2>1
  <2>3. configured[k] \in Typable
    BY <1>6
  <2>4. 255 \notin Typable
    BY DEF Typable
  <2> QED
    BY <2>2, <2>3, <2>4, Zenon
<1> QED
  BY <1>6, <1>7

-------------------------------------------------------------------------------
(* What Authenticate says of a client that typed pass.                       *)
LEMMA AuthenticateTyped ==
    ASSUME NEW pass \in Passwords, NEW configured \in Passwords
    PROVE  Authenticate[Credentials[pass]][configured]
               = Outcome(encode(Admin \o <<Colon>> \o pass), configured)
<1>1. Credentials[pass] = encode(Admin \o <<Colon>> \o pass)
  BY DEF Credentials
<1>2. DOMAIN Credentials = Passwords
  BY DEF Credentials
<1>3. Credentials[pass] \in Range(Credentials)
  BY <1>2, Zenon DEF Range
<1> QED
  BY <1>1, <1>3, Zenon DEF Authenticate

(* Without a header there is no user, not even an empty one.                 *)
LEMMA NoAuthNotRight == ASSUME NEW configured PROVE Outcome(NoAuth, configured) # "right"
<1>1. decode(NoAuth) = <<>>
  <2>1. Decoded(NoAuth) = <<>>
    BY DEF Decoded, NoAuth
  <2> QED
    BY <2>1 DEF decode, Trimmed, SelectLastInSeq
<1>2. <<>> \in Seq(Octet) /\ ~(Len(<<>>) >= 5)
  OBVIOUS
<1> QED
  BY <1>1, <1>2, RightMeans, Zenon

(* The same length and the same elements.                                    *)
Alike(s, t) == Len(s) = Len(t) /\ \A k \in 1 .. Len(t) : s[k] = t[k]

(* Two sequences with the same elements are the same.                        *)
LEMMA SameSequence ==
    ASSUME NEW S, NEW T, NEW s \in Seq(S), NEW t \in Seq(T), Alike(s, t)
    PROVE  s = t
  BY DEF Alike

Ascii == 1 .. 127

(* A password of ASCII characters whose code decode can read is accepted, so *)
(* the letter A and the bytes above 127 are all that stands in the way.      *)
LEMMA PlainRight ==
    ASSUME NEW pass \in Seq(Ascii), Decodable(encode(Admin \o <<Colon>> \o pass))
    PROVE  Outcome(encode(Admin \o <<Colon>> \o pass), pass) = "right"
<1> DEFINE text == Admin \o <<Colon>> \o pass
           I == {i \in 1 .. Len(text) : text[i] = Colon}
           split == SelectInSeq(text, LAMBDA byte : byte = Colon)
<1>1. pass \in Seq(Typable)
  BY DEF Ascii, Typable
<1>2. /\ text \in Seq(Octet) /\ Len(text) = Len(pass) + 6
      /\ text[1] = 97 /\ text[2] = 100 /\ text[3] = 109 /\ text[4] = 105
      /\ text[5] = 110 /\ text[6] = Colon
      /\ \A k \in 1 .. Len(pass) : text[k + 6] = pass[k]
      /\ text # <<>> /\ \A k \in 1 .. Len(text) : text[k] # 0
  BY <1>1, Typed
<1>3. split = IF I # {} THEN Min(I) ELSE 0
  BY DEF SelectInSeq
<1>4. Outcome(encode(text), pass) =
         LET back == decode(encode(text))
             at == SelectInSeq(back, LAMBDA byte : byte = Colon)
         IN  IF ~Decodable(encode(text)) \/ SubSeq(back, 1, at - 1) # Admin THEN "throws"
             ELSE IF Right(SubSeq(back, at + 1, Len(back)), pass) THEN "right"
             ELSE "wrong"
  BY Zenon DEF Outcome
<1>5. Decodable(encode(text))
  OBVIOUS
<1> HIDE DEF text
<1>6. \A k \in 1 .. Len(text) : text[k] < 128
  <2> SUFFICES ASSUME NEW k \in 1 .. Len(text) PROVE text[k] < 128
    OBVIOUS
  <2>1. k \in {1, 2, 3, 4, 5, 6} \/ k - 6 \in 1 .. Len(pass)
    BY <1>2
  <2>2. CASE k \in {1, 2, 3, 4, 5, 6}
    BY <1>2, <2>2 DEF Colon
  <2>3. CASE k - 6 \in 1 .. Len(pass)
    <3>0. k \in Nat /\ \A j \in 1 .. Len(pass) : text[j + 6] = pass[j]
      BY <1>2
    <3>a. (k - 6) + 6 = k
      BY <3>0
    <3>1. text[(k - 6) + 6] = pass[k - 6] /\ (k - 6) + 6 = k
      BY <2>3, <3>0, <3>a, Zenon
    <3>2. \A j \in 1 .. Len(pass) : pass[j] \in Ascii
      OBVIOUS
    <3>3. \A x \in Ascii : x < 128
      BY DEF Ascii
    <3>4. text[k] = pass[k - 6]
      BY <3>1, Zenon
    <3> QED
      BY <2>3, <3>2, <3>3, <3>4, Zenon
  <2> QED
    BY <2>1, <2>2, <2>3
<1>7. decode(encode(text)) = text
  <2>1. Resembles(decode(encode(text)), text)
    BY <1>2, ComesBack, Zenon
  <2> QED
    BY <1>6, <2>1, Zenon DEF Resembles
<1>8. Min(I) = 6 /\ I # {}
  <2>1. 6 \in I /\ I \subseteq Nat /\ \A i \in I : i >= 6
    BY <1>2 DEF Colon
  <2> HIDE DEF I
  <2>2. Min(I) \in I /\ Min(I) <= 6
    BY <2>1, LeastExists
  <2>3. PICK m \in Nat : m = Min(I)
    BY <2>1, <2>2
  <2>4. m = 6
    BY <2>1, <2>2, <2>3
  <2> QED
    BY <2>1, <2>3, <2>4
<1>9. split = 6
  BY <1>3, <1>8
<1> HIDE DEF split
<1>10. SubSeq(text, 1, split - 1) = Admin
  <2>1. PICK start : start = SubSeq(text, 1, 5)
    OBVIOUS
  <2>2. start \in Seq(Octet) /\ Len(start) = 5 /\ \A k \in 1 .. 5 : start[k] = text[k]
    BY <1>2, <2>1
  <2>3. start = Admin
    BY <1>2, <2>2 DEF Admin
  <2> QED
    BY <1>9, <2>1, <2>3
<1>11. SubSeq(text, split + 1, Len(text)) = pass
  <2>1. PICK end : end = SubSeq(text, 7, Len(text))
    OBVIOUS
  <2>2. Len(pass) \in Nat
    OBVIOUS
  <2>3. /\ end \in Seq(Octet) /\ Len(end) = Len(pass)
        /\ \A k \in 1 .. Len(pass) : end[k] = text[k + 6]
    BY <1>2, <2>1, <2>2
  <2>a. \A k \in 1 .. Len(pass) : text[k + 6] = pass[k]
    BY <1>2
  <2>4. \A k \in 1 .. Len(pass) : end[k] = pass[k]
    BY <2>3, <2>a, Zenon
  <2>5. Alike(end, pass)
    BY <2>3, <2>4, Zenon DEF Alike
  <2>6. end = pass
    BY <2>3, <2>5, SameSequence, Zenon
  <2> QED
    BY <1>9, <2>1, <2>6
<1>12. Right(pass, pass)
  BY DEF Right
<1> QED
  BY <1>4, <1>5, <1>7, <1>10, <1>11, <1>12, Zenon DEF split, text

-------------------------------------------------------------------------------
(* Which passwords have a code that decode accepts.                          *)

(* The printable characters of ASCII.                                        *)
Printable == 32 .. 126

(* A byte at its place in a group, before the next one (0 at the end), does  *)
(* not lead to the letter A: at the third place @ would, at the other two a  *)
(* byte whose low bits are zero, unless those of the next byte are not.      *)
Fine(place, byte, next) ==
    /\ place = 1 /\ next = 0 => byte % 4 # 0
    /\ place = 2 /\ next < 64 => byte % 16 # 0
    /\ place = 0 => byte # 64

ReadableAt(text, k) == Fine(k % 3, ByteAt(text, k), ByteAt(text, k + 1))

Readable(text) == \A k \in 1 .. Len(text) : ReadableAt(text, k)

(* The letters of a number, by the bytes they are cut from.                  *)
CutFrom(v, c0, c1, c2) ==
    /\ Letters(v)[1] = c0 \div 4
    /\ Letters(v)[2] = 16 * (c0 % 4) + (c1 \div 16)
    /\ Letters(v)[3] = 4 * (c1 % 16) + (c2 \div 64)
    /\ Letters(v)[4] = c2 % 64

(* The six bits of each letter are those of one or two neighbouring bytes.   *)
LEMMA LettersOfBytes ==
    ASSUME NEW c0 \in 0 .. 255, NEW c1 \in 0 .. 255, NEW c2 \in 0 .. 255
    PROVE  CutFrom(Word(c0, c1, c2), c0, c1, c2)
<1> DEFINE v == Word(c0, c1, c2)
<1>1. v = c2 + 256 * c1 + 65536 * c0 /\ v \in Nat
  BY SMT DEF v, Word
<1> HIDE DEF v
<1>2. PICK p0 \in 0 .. 63, q0 \in 0 .. 3 :
         c0 = 4 * p0 + q0 /\ p0 = c0 \div 4 /\ q0 = c0 % 4
  <2>1. c0 \div 4 \in 0 .. 63 /\ c0 % 4 \in 0 .. 3 /\ c0 = 4 * (c0 \div 4) + (c0 % 4)
    BY SMT
  <2> QED
    BY <2>1
<1>3. PICK p1 \in 0 .. 15, q1 \in 0 .. 15 :
         c1 = 16 * p1 + q1 /\ p1 = c1 \div 16 /\ q1 = c1 % 16
  <2>1. c1 \div 16 \in 0 .. 15 /\ c1 % 16 \in 0 .. 15 /\ c1 = 16 * (c1 \div 16) + (c1 % 16)
    BY SMT
  <2> QED
    BY <2>1
<1>4. PICK p2 \in 0 .. 3, q2 \in 0 .. 63 :
         c2 = 64 * p2 + q2 /\ p2 = c2 \div 64 /\ q2 = c2 % 64
  <2>1. c2 \div 64 \in 0 .. 3 /\ c2 % 64 \in 0 .. 63 /\ c2 = 64 * (c2 \div 64) + (c2 % 64)
    BY SMT
  <2> QED
    BY <2>1
<1>5. v \div 262144 = p0
  BY SMT, <1>1, <1>2
<1>6. (v \div 4096) % 64 = 16 * q0 + p1
  <2>1. v \div 4096 = 16 * c0 + p1
    BY SMT, <1>1, <1>3
  <2>2. v \div 4096 = 64 * p0 + (16 * q0 + p1) /\ 16 * q0 + p1 \in 0 .. 63
    BY SMT, <1>2, <2>1
  <2> QED
    BY SMT, <2>2
<1>7. (v \div 64) % 64 = 4 * q1 + p2
  <2>1. v \div 64 = 1024 * c0 + 4 * c1 + p2
    BY SMT, <1>1, <1>4
  <2>2. v \div 64 = 64 * (16 * c0 + p1) + (4 * q1 + p2) /\ 4 * q1 + p2 \in 0 .. 63
    BY SMT, <1>3, <2>1
  <2>3. 16 * c0 + p1 \in Nat
    BY SMT
  <2> QED
    BY SMT, <2>2, <2>3
<1>8. v % 64 = q2
  BY SMT, <1>1, <1>4
<1>9. /\ Letters(v)[1] = p0 /\ Letters(v)[2] = 16 * q0 + p1
      /\ Letters(v)[3] = 4 * q1 + p2 /\ Letters(v)[4] = q2
  BY <1>5, <1>6, <1>7, <1>8 DEF Letters
<1> QED
  BY <1>2, <1>3, <1>4, <1>9, Zenon DEF CutFrom, v

(* Below 128 the sign extension changes nothing.                             *)
LEMMA PlainGroup ==
    ASSUME NEW text \in Seq(Printable), NEW g \in 0 .. Groups(text) - 1
    PROVE  CutFrom(Group(text, g), ByteAt(text, 3 * g + 1), ByteAt(text, 3 * g + 2),
                   ByteAt(text, 3 * g + 3))
<1>1. g \in Nat /\ Len(text) \in Nat
  <2>1. text \in Seq(Octet)
    BY DEF Printable, Octet
  <2> QED
    BY <2>1, GroupsCover
<1>2. ASSUME NEW i \in 1 .. 3 PROVE ByteAt(text, 3 * g + i) \in {0} \cup Printable
  <2>1. 3 * g + i \in Nat /\ (3 * g + i <= Len(text) => 3 * g + i \in 1 .. Len(text))
    BY <1>1
  <2> QED
    BY <2>1 DEF ByteAt
<1> DEFINE c0 == ByteAt(text, 3 * g + 1)
           c1 == ByteAt(text, 3 * g + 2)
           c2 == ByteAt(text, 3 * g + 3)
<1>3. c0 \in 0 .. 126 /\ c1 \in 0 .. 126 /\ c2 \in 0 .. 126
  BY <1>2 DEF Printable
<1>4. Group(text, g) = c2 + 256 * (IF c2 >= 128 THEN 255 ELSE c1)
                          + 65536 * (IF c1 >= 128 \/ c2 >= 128 THEN 255 ELSE c0)
  BY DEF Group
<1> HIDE DEF c0, c1, c2
<1>5. Group(text, g) = Word(c0, c1, c2)
  BY <1>3, <1>4 DEF Word
<1>6. c0 \in 0 .. 255 /\ c1 \in 0 .. 255 /\ c2 \in 0 .. 255
  BY <1>3
<1> QED
  BY <1>5, <1>6, LettersOfBytes, Zenon DEF c0, c1, c2

(* The bits of a printable character that a letter is cut from.              *)
LEMMA PrintableBits ==
    ASSUME NEW x \in Printable
    PROVE  /\ x \div 4 \in 1 .. 31 /\ x % 4 \in 0 .. 3
           /\ x \div 16 \in 1 .. 7 /\ x % 16 \in 0 .. 15
           /\ x \div 64 \in 0 .. 1 /\ (x \div 64 = 1 <=> x >= 64)
           /\ x % 64 \in 0 .. 63 /\ (x % 64 = 0 <=> x = 64)
<1>1. x \in Nat /\ 32 <= x /\ x <= 126
  BY DEF Printable
<1>2. x \div 4 \in 1 .. 31 /\ x % 4 \in 0 .. 3
  BY SMT, <1>1
<1>3. x \div 16 \in 1 .. 7 /\ x % 16 \in 0 .. 15
  BY SMT, <1>1
<1>4. x \div 64 \in 0 .. 1 /\ (x \div 64 = 1 <=> x >= 64)
  BY SMT, <1>1
<1>5. x % 64 \in 0 .. 63 /\ (x % 64 = 0 <=> x = 64)
  BY SMT, <1>1
<1> QED
  BY <1>2, <1>3, <1>4, <1>5

(* Of a group of printable bytes, a letter is A only where a byte is not     *)
(* Fine.                                                                     *)
LEMMA LettersAbove ==
    ASSUME NEW c0 \in Printable, NEW c1 \in {0} \cup Printable, NEW c2 \in {0} \cup Printable,
           NEW v, CutFrom(v, c0, c1, c2), c1 = 0 => c2 = 0
    PROVE  /\ Letters(v)[1] > 0
           /\ Letters(v)[2] > 0 <=> Fine(1, c0, c1)
           /\ c1 # 0 => (Letters(v)[3] > 0 <=> Fine(2, c1, c2))
           /\ c2 # 0 => (Letters(v)[4] > 0 <=> \A next : Fine(0, c2, next))
<1>1. PICK p0 \in 1 .. 31, q0 \in 0 .. 3 : p0 = c0 \div 4 /\ q0 = c0 % 4
  BY PrintableBits
<1>2. PICK p1 \in 0 .. 7, q1 \in 0 .. 15 :
         p1 = c1 \div 16 /\ q1 = c1 % 16 /\ (c1 # 0 => p1 > 0) /\ (c1 = 0 => p1 = 0)
  <2>1. CASE c1 = 0
    <3>1. 0 \div 16 = 0 /\ 0 % 16 = 0
      BY SMT
    <3> QED
      BY <2>1, <3>1
  <2>2. CASE c1 \in Printable
    <3>1. c1 \div 16 \in 1 .. 7 /\ c1 % 16 \in 0 .. 15
      BY <2>2, PrintableBits, Zenon
    <3>2. c1 # 0
      BY <2>2 DEF Printable
    <3> QED
      BY <3>1, <3>2
  <2> QED
    BY <2>1, <2>2
<1>3. PICK p2 \in 0 .. 1, q2 \in 0 .. 63 :
         p2 = c2 \div 64 /\ q2 = c2 % 64 /\ (p2 = 1 <=> c2 >= 64) /\ (c2 # 0 => (q2 = 0 <=> c2 = 64))
  <2>1. CASE c2 = 0
    <3>1. 0 \div 64 = 0 /\ 0 % 64 = 0
      BY SMT
    <3> QED
      BY <2>1, <3>1
  <2>2. CASE c2 \in Printable
    <3>1. /\ c2 \div 64 \in 0 .. 1 /\ (c2 \div 64 = 1 <=> c2 >= 64)
          /\ c2 % 64 \in 0 .. 63 /\ (c2 % 64 = 0 <=> c2 = 64)
      BY <2>2, PrintableBits, Zenon
    <3> QED
      BY <3>1
  <2> QED
    BY <2>1, <2>2
<1>4. /\ Letters(v)[1] = p0 /\ Letters(v)[2] = 16 * q0 + p1
      /\ Letters(v)[3] = 4 * q1 + p2 /\ Letters(v)[4] = q2
  BY <1>1, <1>2, <1>3, Zenon DEF CutFrom
<1>5. c2 \in Nat
  BY DEF Printable
<1>6. /\ Fine(1, c0, c1) <=> (c1 = 0 => q0 # 0)
      /\ Fine(2, c1, c2) <=> (c2 < 64 => q1 # 0)
      /\ (\A next : Fine(0, c2, next)) <=> c2 # 64
  <2>1. 0 # 1 /\ 0 # 2 /\ 1 # 2
    OBVIOUS
  <2> QED
    BY <1>1, <1>2, <2>1, Zenon DEF Fine
<1>7. p0 > 0
  OBVIOUS
<1>8. 16 * q0 + p1 > 0 <=> (c1 = 0 => q0 # 0)
  BY <1>2
<1>9. c1 # 0 => (4 * q1 + p2 > 0 <=> (c2 < 64 => q1 # 0))
  BY <1>3, <1>5
<1>10. c2 # 0 => (q2 > 0 <=> c2 # 64)
  BY <1>3
<1> QED
  BY <1>4, <1>6, <1>7, <1>8, <1>9, <1>10, Zenon

(* A letter of encode that decode accepts.                                   *)
LetterReadable(text, g, b) ==
    b <= Len(text) - 3 * g => Letters(Group(text, g))[b + 1] > 0

(* The bytes of a group that are there.                                      *)
GroupReadable(text, g) ==
    \A a \in 1 .. 3 : 3 * g + a <= Len(text) => ReadableAt(text, 3 * g + a)

(* The letters of a group are above A if and only if its bytes are Fine.     *)
LEMMA GroupLetters ==
    ASSUME NEW text \in Seq(Printable), NEW g \in 0 .. Groups(text) - 1
    PROVE  (\A b \in 0 .. 3 : LetterReadable(text, g, b)) <=> GroupReadable(text, g)
<1> DEFINE n == Len(text) - 3 * g
           At(a) == ByteAt(text, 3 * g + a)
           L(b) == Letters(Group(text, g))[b]
<1>1. g \in Nat /\ Len(text) \in Nat /\ n \in Nat /\ n >= 1
  <2>1. text \in Seq(Octet)
    BY DEF Printable, Octet
  <2> QED
    BY <2>1, GroupsCover
<1>2. /\ At(1) \in Printable
      /\ n >= 2 => At(2) \in Printable
      /\ n >= 3 => At(3) \in Printable
      /\ ~(n >= 2) => At(2) = 0
      /\ ~(n >= 3) => At(3) = 0
  <2>1. /\ 3 * g + 1 \in 1 .. Len(text)
        /\ n >= 2 => 3 * g + 2 \in 1 .. Len(text)
        /\ n >= 3 => 3 * g + 3 \in 1 .. Len(text)
        /\ ~(n >= 2) => ~(3 * g + 2 <= Len(text))
        /\ ~(n >= 3) => ~(3 * g + 3 <= Len(text))
    BY <1>1
  <2>2. \A i \in 1 .. Len(text) : text[i] \in Printable /\ i <= Len(text)
    BY <1>1
  <2> QED
    BY <2>1, <2>2, Zenon DEF ByteAt
<1>3. 0 \notin Printable /\ (n >= 3 => n >= 2)
  BY <1>1 DEF Printable
<1>4. CutFrom(Group(text, g), At(1), At(2), At(3))
  BY PlainGroup, Zenon
<1>5. /\ At(2) \in {0} \cup Printable /\ (At(2) # 0 <=> n >= 2)
      /\ At(3) \in {0} \cup Printable /\ (At(3) # 0 <=> n >= 3)
      /\ At(2) = 0 => At(3) = 0
  <2> HIDE DEF n, At
  <2> QED
    BY <1>2, <1>3
<1> HIDE DEF n, At, L
<1>6. /\ L(1) > 0
      /\ L(2) > 0 <=> Fine(1, At(1), At(2))
      /\ n >= 2 => (L(3) > 0 <=> Fine(2, At(2), At(3)))
      /\ n >= 3 => (L(4) > 0 <=> \A next : Fine(0, At(3), next))
  BY <1>2, <1>4, <1>5, LettersAbove, Zenon DEF L
<1>7. (\A b \in 0 .. 3 : LetterReadable(text, g, b))
         <=> L(1) > 0 /\ L(2) > 0 /\ (n >= 2 => L(3) > 0) /\ (n >= 3 => L(4) > 0)
  <2>1. \A b \in 0 .. 3 : LetterReadable(text, g, b) <=> (b <= n => L(b + 1) > 0)
    BY Zenon DEF LetterReadable, L, n
  <2> QED
    BY <1>1, <2>1
<1>8. GroupReadable(text, g)
         <=> /\ Fine(1, At(1), At(2))
             /\ n >= 2 => Fine(2, At(2), At(3))
             /\ n >= 3 => Fine(0, At(3), At(4))
  <2>1. /\ 3 * g + 1 <= Len(text)
        /\ n >= 2 <=> 3 * g + 2 <= Len(text)
        /\ n >= 3 <=> 3 * g + 3 <= Len(text)
    BY <1>1 DEF n
  <2>2. /\ (3 * g + 1) % 3 = 1 /\ (3 * g + 1) + 1 = 3 * g + 2
        /\ (3 * g + 2) % 3 = 2 /\ (3 * g + 2) + 1 = 3 * g + 3
        /\ (3 * g + 3) % 3 = 0 /\ (3 * g + 3) + 1 = 3 * g + 4
    BY <1>1
  <2>3. /\ ReadableAt(text, 3 * g + 1) <=> Fine(1, At(1), At(2))
        /\ ReadableAt(text, 3 * g + 2) <=> Fine(2, At(2), At(3))
        /\ ReadableAt(text, 3 * g + 3) <=> Fine(0, At(3), At(4))
    BY <2>2 DEF ReadableAt, At
  <2>4. GroupReadable(text, g)
           <=> /\ 3 * g + 1 <= Len(text) => ReadableAt(text, 3 * g + 1)
               /\ 3 * g + 2 <= Len(text) => ReadableAt(text, 3 * g + 2)
               /\ 3 * g + 3 <= Len(text) => ReadableAt(text, 3 * g + 3)
    <3>1. 1 .. 3 = {1, 2, 3}
      OBVIOUS
    <3> QED
      BY <3>1, Zenon DEF GroupReadable
  <2> QED
    BY <2>1, <2>3, <2>4, Zenon
<1>9. Fine(0, At(3), At(4)) <=> \A next : Fine(0, At(3), next)
  <2>1. 0 # 1 /\ 0 # 2
    OBVIOUS
  <2> QED
    BY <2>1, Zenon DEF Fine
<1> QED
  BY <1>6, <1>7, <1>8, <1>9, Zenon

(* decode accepts each letter of a code, or it throws.                       *)
LEMMA ReadableCode ==
    ASSUME NEW text \in Seq(Printable)
    PROVE  Decodable(encode(text)) <=> Readable(text)
<1>1. text \in Seq(Octet) /\ Len(text) \in Nat
  <2>1. text \in Seq(Octet)
    BY DEF Printable, Octet
  <2> QED
    BY <2>1
<1>2. Groups(text) \in Nat /\ DOMAIN encode(text) = 1 .. 4 * Groups(text)
  BY <1>1 DEF encode, Groups
<1>3. ASSUME NEW g \in 0 .. Groups(text) - 1, NEW b \in 0 .. 3
      PROVE  encode(text)[4 * g + b + 1] > 0 <=> LetterReadable(text, g, b)
  <2>1. encode(text)[4 * g + b + 1] =
            IF b <= Len(text) - 3 * g THEN Letters(Group(text, g))[b + 1] ELSE Pad
    BY <1>1, EncodedLetter
  <2>2. Pad > 0
    BY DEF Pad
  <2> QED
    BY <2>1, <2>2, Zenon DEF LetterReadable
<1>4. Decodable(encode(text))
         <=> \A g \in 0 .. Groups(text) - 1, b \in 0 .. 3 : LetterReadable(text, g, b)
  <2>1. ASSUME \A k \in 1 .. 4 * Groups(text) : encode(text)[k] > 0,
               NEW g \in 0 .. Groups(text) - 1, NEW b \in 0 .. 3
        PROVE  LetterReadable(text, g, b)
    <3>1. 4 * g + b + 1 \in 1 .. 4 * Groups(text)
      BY <1>2
    <3> QED
      BY <1>3, <2>1, <3>1
  <2>2. ASSUME \A g \in 0 .. Groups(text) - 1, b \in 0 .. 3 : LetterReadable(text, g, b),
               NEW k \in 1 .. 4 * Groups(text)
        PROVE  encode(text)[k] > 0
    <3>1. PICK g \in 0 .. Groups(text) - 1, b \in 0 .. 3 : k = 4 * g + b + 1
      <4>1. /\ (k - 1) \div 4 \in 0 .. Groups(text) - 1 /\ (k - 1) % 4 \in 0 .. 3
            /\ k = 4 * ((k - 1) \div 4) + ((k - 1) % 4) + 1
        BY <1>2
      <4> QED
        BY <4>1
    <3> QED
      BY <1>3, <2>2, <3>1
  <2> QED
    BY <1>2, <2>1, <2>2 DEF Decodable
<1>5. (\A g \in 0 .. Groups(text) - 1, b \in 0 .. 3 : LetterReadable(text, g, b))
         <=> \A g \in 0 .. Groups(text) - 1 : GroupReadable(text, g)
  BY GroupLetters, Zenon
<1>6. (\A g \in 0 .. Groups(text) - 1 : GroupReadable(text, g)) <=> Readable(text)
  <2>1. ASSUME \A g \in 0 .. Groups(text) - 1 : GroupReadable(text, g), NEW k \in 1 .. Len(text)
        PROVE  ReadableAt(text, k)
    <3>1. PICK g \in 0 .. Groups(text) - 1, a \in 1 .. 3 : k = 3 * g + a
      <4>1. /\ (k - 1) \div 3 \in 0 .. Groups(text) - 1
            /\ ((k - 1) % 3) + 1 \in 1 .. 3
            /\ k = 3 * ((k - 1) \div 3) + (((k - 1) % 3) + 1)
        BY <1>1, <1>2 DEF Groups
      <4> QED
        BY <4>1
    <3>2. 3 * g + a <= Len(text)
      BY <1>1, <3>1
    <3>3. ReadableAt(text, 3 * g + a)
      BY <2>1, <3>2, Zenon DEF GroupReadable
    <3> QED
      BY <3>1, <3>3, Zenon
  <2>2. ASSUME Readable(text), NEW g \in 0 .. Groups(text) - 1, NEW a \in 1 .. 3,
               3 * g + a <= Len(text)
        PROVE  ReadableAt(text, 3 * g + a)
    <3>1. 3 * g + a \in 1 .. Len(text)
      BY <1>1, <1>2, <2>2
    <3> QED
      BY <2>2, <3>1, Zenon DEF Readable
  <2> QED
    BY <2>1, <2>2, Zenon DEF Readable, GroupReadable
<1> QED
  BY <1>4, <1>5, <1>6, Zenon

(* "admin:" fills two groups, so the password begins one, and none of their  *)
(* letters is an A.                                                          *)
LEMMA ReadablePassword ==
    ASSUME NEW pass \in Seq(Printable)
    PROVE  Decodable(encode(Admin \o <<Colon>> \o pass)) <=> Readable(pass)
<1> DEFINE text == Admin \o <<Colon>> \o pass
<1>1. /\ text \in Seq(Octet) /\ Len(text) = Len(pass) + 6
      /\ text[1] = 97 /\ text[2] = 100 /\ text[3] = 109 /\ text[4] = 105
      /\ text[5] = 110 /\ text[6] = 58
      /\ \A k \in 1 .. Len(pass) : text[k + 6] = pass[k]
  <2>1. pass \in Seq(Typable)
    BY DEF Printable, Typable
  <2> QED
    BY <2>1, Typed DEF Colon
<1>2. text \in Seq(Printable)
  <2>1. Admin \in Seq(Printable) /\ <<Colon>> \in Seq(Printable)
    BY DEF Admin, Colon, Printable
  <2> QED
    BY <2>1
<1>3. Decodable(encode(text)) <=> Readable(text)
  BY <1>2, ReadableCode, Zenon
<1> HIDE DEF text
<1>4. Len(pass) \in Nat
  OBVIOUS
<1>5. ASSUME NEW k \in 1 .. Len(pass) PROVE ReadableAt(text, k + 6) <=> ReadableAt(pass, k)
  <2>1. (k + 6) % 3 = k % 3 /\ (k + 6) + 1 = k + 7
    BY <1>4
  <2>2. ByteAt(text, k + 6) = ByteAt(pass, k)
    <3>1. k + 6 <= Len(text) /\ k <= Len(pass)
      BY <1>1, <1>4
    <3>2. text[k + 6] = pass[k]
      BY <1>1
    <3> QED
      BY <3>1, <3>2, Zenon DEF ByteAt
  <2>3. ByteAt(text, k + 7) = ByteAt(pass, k + 1)
    <3>1. k + 7 <= Len(text) <=> k + 1 <= Len(pass)
      BY <1>1, <1>4
    <3>2. k + 1 <= Len(pass) => text[k + 7] = pass[k + 1]
      <4>1. k + 7 = (k + 1) + 6 /\ (k + 1 <= Len(pass) => k + 1 \in 1 .. Len(pass))
        BY <1>4
      <4> QED
        BY <1>1, <4>1
    <3> QED
      BY <3>1, <3>2, Zenon DEF ByteAt
  <2> QED
    BY <2>1, <2>2, <2>3 DEF ReadableAt
<1>6. ASSUME NEW k \in 1 .. 6 PROVE ReadableAt(text, k)
  <2>1. /\ ByteAt(text, 1) = 97 /\ ByteAt(text, 2) = 100 /\ ByteAt(text, 3) = 109
        /\ ByteAt(text, 4) = 105 /\ ByteAt(text, 5) = 110 /\ ByteAt(text, 6) = 58
    BY <1>1, <1>4 DEF ByteAt
  <2>2. /\ Fine(1, 97, 100) /\ Fine(2, 100, 109) /\ Fine(1, 105, 110) /\ Fine(2, 110, 58)
        /\ Fine(0, 109, 105) /\ Fine(0, 58, ByteAt(text, 7))
    BY SMT DEF Fine
  <2>3. k \in {1, 2, 3, 4, 5, 6}
    OBVIOUS
  <2>4. /\ 1 % 3 = 1 /\ 2 % 3 = 2 /\ 3 % 3 = 0 /\ 4 % 3 = 1 /\ 5 % 3 = 2 /\ 6 % 3 = 0
        /\ 1 + 1 = 2 /\ 2 + 1 = 3 /\ 3 + 1 = 4 /\ 4 + 1 = 5 /\ 5 + 1 = 6 /\ 6 + 1 = 7
    BY SMT
  <2> QED
    BY <2>1, <2>2, <2>3, <2>4 DEF ReadableAt
<1>7. Readable(text) <=> Readable(pass)
  <2>1. ASSUME Readable(text), NEW k \in 1 .. Len(pass) PROVE ReadableAt(pass, k)
    <3>1. k + 6 \in 1 .. Len(text)
      BY <1>1, <1>4
    <3> QED
      BY <1>5, <2>1, <3>1, Zenon DEF Readable
  <2>2. ASSUME Readable(pass), NEW k \in 1 .. Len(text) PROVE ReadableAt(text, k)
    <3>1. k \in 1 .. 6 \/ \E j \in 1 .. Len(pass) : k = j + 6
      <4>1. k \in 1 .. 6 \/ (k - 6 \in 1 .. Len(pass) /\ k = (k - 6) + 6)
        BY <1>1, <1>4
      <4> QED
        BY <4>1, Zenon
    <3> QED
      BY <1>5, <1>6, <2>2, <3>1, Zenon DEF Readable
  <2> QED
    BY <2>1, <2>2, Zenon DEF Readable
<1> QED
  BY <1>3, <1>7, Zenon DEF text

(* At a code with the letter A decode throws, so no password is right.       *)
LEMMA ThrownNotRight ==
    ASSUME NEW code, NEW configured, ~Decodable(code)
    PROVE  Outcome(code, configured) # "right"
<1>1. Outcome(code, configured) =
         LET back == decode(code)
             at == SelectInSeq(back, LAMBDA byte : byte = Colon)
         IN  IF ~Decodable(code) \/ SubSeq(back, 1, at - 1) # Admin THEN "throws"
             ELSE IF Right(SubSeq(back, at + 1, Len(back)), configured) THEN "right"
             ELSE "wrong"
  BY Zenon DEF Outcome
<1>2. Outcome(code, configured) = "throws"
  BY <1>1, Zenon
<1> QED
  BY <1>2

-------------------------------------------------------------------------------
(* The invariant of the connections.                                         *)

(* A request whose header is taken for the right one has the code of the     *)
(* configured password.  (decode ignores the bits before a Pad and zero      *)
(* bytes at the end, so it cannot hold of every header one could invent.)    *)
CodesExact ==
    \A request \in Requests, configured \in Passwords :
        Authenticate[request.auth][configured] = "right"
            => request.auth = Credentials[configured]

(* The operation of a request that is read but not answered: not carried out *)
(* before its function returns, and told truly by the answer being written.  *)
EffectsAnswered ==
    /\ \A c \in Conn, k \in Nat : <<c, k>> \in effects => k <= read[c]
    /\ \A c \in Conn : pc[c] = "handling" => <<c, read[c]>> \notin effects
    /\ \A c \in Conn :
          pc[c] = "writing" =>
              res[c].status \in Tells(asked[c][read[c]], <<c, read[c]>> \in effects)

(* The inductive invariant.                                                  *)
Inv == TypeOK /\ EffectsAnswered

-------------------------------------------------------------------------------
(* What a function and the status made of its result can be.                 *)

Routes == {"root", "info", "power", "service", "nowhere"}

(* Every request has one of the routes Run distinguishes.                    *)
LEMMA RouteKinds == \A request : Route(request) \in Routes
BY DEF Route, Routes

(* The fields of the results.                                                *)
LEMMA Fields ==
    /\ Done.kind = "value" /\ Done.done = TRUE
    /\ \A kind : Result(kind).kind = kind /\ Result(kind).done = FALSE
BY DEF Done, Result

(* Control::Service reports success only when the command was run.           *)
LEMMA ControlKinds ==
    ASSUME NEW request \in Requests, NEW result \in ControlService(request)
    PROVE  \/ result = Done
           \/ \E kind \in {"NotImplemented", "NeedsPassword", "Failed", "throws"} : result = Result(kind)
<1>1. \A action : \A x \in ControlSystemd(action) :
         x = Done \/ \E kind \in {"NotImplemented", "Failed", "throws"} : x = Result(kind)
  BY DEF ControlSystemd
<1>2. \A action : \A x \in ControlOpenrc(action) :
         x = Done \/ \E kind \in {"NotImplemented", "Failed", "throws"} : x = Result(kind)
  BY DEF ControlOpenrc
<1> QED
  BY <1>1, <1>2 DEF ControlService

(* Of all routes, only the controlling ones tell that something was done.    *)
LEMMA ResultKinds ==
    ASSUME NEW request \in Requests, NEW result \in Results(request)
    PROVE  \/ /\ result = Done
              /\ Route(request) \in {"power", "service"}
           \/ \E kind : /\ result = Result(kind)
                        /\ Route(request) \in {"power", "service"} => kind # "value"
<1>1. Route(request) \in Routes
  BY RouteKinds
<1>2. CASE Route(request) \in {"root", "nowhere"}
  BY <1>2 DEF Results
<1>3. CASE Route(request) = "info"
  BY <1>3 DEF Results, Info
<1>4. CASE Route(request) = "power"
  BY <1>4 DEF Results, ShutdownOrReboot
<1>5. CASE Route(request) = "service"
  BY <1>5, ControlKinds DEF Results
<1> QED
  BY <1>1, <1>2, <1>3, <1>4, <1>5 DEF Routes

(* The status of a reply tells no more than the result of the command.       *)
LEMMA StatusTells ==
    ASSUME NEW request \in Requests, NEW result \in Results(request)
    PROVE  /\ Status(request, result) \in Answer
           /\ Status(request, result) \in Tells(request, result.done)
<1>1. Status(request, result) \in Answer
  BY DEF Status, Answer
<1>2. CASE result = Done /\ Route(request) \in {"power", "service"}
  <2>1. result.kind = "value" /\ result.done = TRUE
    BY <1>2, Fields
  <2>2. Status(request, result) = 200
    BY <1>2, <2>1 DEF Status
  <2> QED
    BY <1>1, <2>1, <2>2 DEF Tells
<1>3. ASSUME NEW kind, result = Result(kind),
             Route(request) \in {"power", "service"} => kind # "value"
      PROVE  Status(request, result) \in Tells(request, result.done)
  <2>1. result.kind = kind /\ result.done = FALSE
    BY <1>3, Fields
  <2>2. CASE Route(request) \in {"power", "service"}
    BY <1>3, <2>1, <2>2 DEF Status, Tells, Answer
  <2>3. CASE Route(request) \notin {"power", "service"}
    BY <1>1, <2>1, <2>3 DEF Tells
  <2> QED
    BY <2>2, <2>3
<1> QED
  BY <1>1, <1>2, <1>3, ResultKinds

(* Only requests that may be carried out are.                                *)
LEMMA DoneMay ==
    ASSUME CodesExact, password \in Passwords,
           NEW request \in Requests, NEW result \in Results(request), result.done
    PROVE  MayPerform(request)
<1>1. result = Done /\ Route(request) \in {"power", "service"}
  BY ResultKinds, Fields
<1>2. CASE Route(request) = "power"
  BY <1>2 DEF MayPerform
<1>3. CASE Route(request) = "service"
  <2>1. result \in ControlService(request)
    BY <1>1, <1>3, Fields DEF Results
  <2>2. Authenticate[request.auth][password] \in {"throws", "wrong", "right"}
    <3>1. \A code, configured : Outcome(code, configured) \in {"throws", "wrong", "right"}
      BY DEF Outcome
    <3> QED
      BY <3>1 DEF Authenticate
  <2>3. Authenticate[request.auth][password] = "right"
    BY <1>1, <2>1, <2>2, Fields DEF ControlService
  <2> QED
    BY <1>3, <2>3 DEF CodesExact, MayPerform
<1> QED
  BY <1>1, <1>2, <1>3

-------------------------------------------------------------------------------
(* The inductive invariant.                                                  *)

(* No connection was accepted yet.                                           *)
LEMMA InvInit == Init => Inv
<1> SUFFICES ASSUME Init PROVE Inv
  OBVIOUS
<1>1. TypeOK
  BY DEF Init, TypeOK, NoAnswer
<1>2. EffectsAnswered
  BY DEF Init, EffectsAnswered
<1> QED
  BY <1>1, <1>2 DEF Inv

(* The request a connection is at, and the number of it.                     *)
LEMMA AtRequest ==
    ASSUME TypeOK, NEW c \in Conn, pc[c] \in {"handling", "writing"}
    PROVE  /\ read[c] \in 1 .. Len(asked[c])
           /\ read[c] = Len(answers[c]) + 1
           /\ asked[c][read[c]] \in Requests
BY DEF TypeOK

(* Accepting, reading, running and writing preserve the invariant.           *)
LEMMA InvStep == ASSUME Inv, [Next]_vars PROVE Inv'
<1>a. TypeOK /\ EffectsAnswered
  BY DEF Inv
<1>1. ASSUME NEW c \in Conn, NEW request \in Requests, Send(c, request) PROVE Inv'
  <2>1. asked' \in [Conn -> Seq(Requests)]
    BY <1>1, <1>a DEF Send, TypeOK
  <2>2. \A d \in Conn : Len(asked'[d]) >= Len(asked[d])
    BY <1>1, <1>a DEF Send, TypeOK
  <2>3. \A d \in Conn : \A k \in 1 .. Len(asked[d]) : asked'[d][k] = asked[d][k]
    BY <1>1, <1>a DEF Send, TypeOK
  <2>4. TypeOK'
    BY <1>1, <1>a, <2>1, <2>2 DEF Send, TypeOK
  <2>5. EffectsAnswered'
    BY <1>1, <1>a, <2>3, AtRequest DEF Send, EffectsAnswered
  <2> QED
    BY <2>4, <2>5 DEF Inv
<1>2. ASSUME NEW c \in Conn, on_accept(c) PROVE Inv'
  <2>1. TypeOK'
    BY <1>2, <1>a DEF on_accept, Goto, TypeOK
  <2>2. EffectsAnswered'
    BY <1>2, <1>a DEF on_accept, Goto, TypeOK, EffectsAnswered
  <2> QED
    BY <2>1, <2>2 DEF Inv
<1>3. ASSUME NEW c \in Conn, on_read(c) PROVE Inv'
  <2>1. TypeOK'
    BY <1>3, <1>a DEF on_read, Reading, Goto, TypeOK
  <2>2. EffectsAnswered'
    BY <1>3, <1>a DEF on_read, Reading, Goto, TypeOK, EffectsAnswered
  <2> QED
    BY <2>1, <2>2 DEF Inv
<1>4. ASSUME NEW c \in Conn, ReadEnds(c) \/ WriteFails(c) \/ TimesOut(c) PROVE Inv'
  <2>1. /\ pc' = [pc EXCEPT ![c] = "closed"]
        /\ UNCHANGED <<asked, read, res, answers, effects, password>>
    BY <1>4 DEF ReadEnds, WriteFails, TimesOut, Goto
  <2>2. TypeOK'
    BY <1>a, <2>1 DEF TypeOK
  <2>3. EffectsAnswered'
    BY <1>a, <2>1 DEF TypeOK, EffectsAnswered
  <2> QED
    BY <2>2, <2>3 DEF Inv
<1>5. ASSUME NEW c \in Conn, handler(c) PROVE Inv'
  <2> DEFINE request == asked[c][read[c]]
  <2>1. /\ request \in Requests
        /\ pc[c] = "handling"
        /\ <<c, read[c]>> \notin effects
    BY <1>5, <1>a, AtRequest DEF handler, EffectsAnswered
  <2>2. PICK result \in Results(request) :
           /\ res' = [res EXCEPT ![c] =
                        [status |-> Status(request, result),
                         close |-> EndsConnection(request, Status(request, result))]]
           /\ effects' = IF result.done THEN effects \cup {<<c, read[c]>>} ELSE effects
    BY <1>5 DEF handler
  <2>3. /\ pc' = [pc EXCEPT ![c] = "writing"]
        /\ UNCHANGED <<asked, read, answers, password>>
    BY <1>5 DEF handler, Goto
  <2>4. /\ Status(request, result) \in Answer
        /\ Status(request, result) \in Tells(request, result.done)
        /\ result.done \in BOOLEAN
    BY <2>1, StatusTells, ResultKinds, Fields
  <2>5. EndsConnection(request, Status(request, result)) \in BOOLEAN
    BY DEF EndsConnection
  <2>6. TypeOK'
    <3>1. res' \in [Conn -> [status : {0} \cup Answer, close : BOOLEAN]]
      BY <1>a, <2>2, <2>4, <2>5 DEF TypeOK
    <3>2. effects' \subseteq (Conn \X Nat)
      BY <1>a, <2>2 DEF TypeOK
    <3> QED
      BY <1>a, <2>1, <2>3, <3>1, <3>2 DEF TypeOK
  <2>7. (<<c, read[c]>> \in effects') <=> result.done
    BY <2>1, <2>2, <2>4
  <2>8. res'[c].status = Status(request, result)
    BY <1>a, <2>2 DEF TypeOK
  <2>9. Status(request, result) \in Tells(request, <<c, read[c]>> \in effects')
    BY <2>4, <2>7 DEF Tells
  <2>10. \A d \in Conn : d # c => res'[d] = res[d] /\ pc'[d] = pc[d]
    BY <1>a, <2>2, <2>3 DEF TypeOK
  <2>11. \A d \in Conn, k \in Nat : <<d, k>> \in effects' <=>
            (<<d, k>> \in effects \/ (d = c /\ k = read[c] /\ result.done))
    BY <2>2, <2>4
  <2>12. EffectsAnswered'
    <3>1. \A d \in Conn, k \in Nat : <<d, k>> \in effects' => k <= read'[d]
      BY <1>a, <2>3, <2>11 DEF EffectsAnswered, TypeOK
    <3>2. \A d \in Conn : pc'[d] = "handling" => <<d, read'[d]>> \notin effects'
      BY <1>a, <2>3, <2>10, <2>11 DEF EffectsAnswered, TypeOK
    <3>3. ASSUME NEW d \in Conn, pc'[d] = "writing"
          PROVE  res'[d].status \in Tells(asked'[d][read'[d]], <<d, read'[d]>> \in effects')
      <4>1. CASE d = c
        BY <2>3, <2>8, <2>9, <4>1
      <4>2. CASE d # c
        <5>1. (<<d, read[d]>> \in effects') <=> (<<d, read[d]>> \in effects)
          BY <1>a, <2>11, <4>2 DEF TypeOK
        <5>2. res[d].status \in Tells(asked[d][read[d]], <<d, read[d]>> \in effects)
          BY <1>a, <2>10, <3>3, <4>2 DEF EffectsAnswered
        <5> QED
          BY <2>3, <2>10, <4>2, <5>1, <5>2 DEF Tells
      <4> QED
        BY <4>1, <4>2
    <3> QED
      BY <3>1, <3>2, <3>3 DEF EffectsAnswered
  <2> QED
    BY <2>6, <2>12 DEF Inv
<1>6. ASSUME NEW c \in Conn, on_write(c) PROVE Inv'
  <2>1. /\ res' = [res EXCEPT ![c] = NoAnswer]
        /\ pc[c] = "writing"
        /\ pc' = [pc EXCEPT ![c] = AfterWrite(c)]
        /\ AfterWrite(c) \in {"closed", "reading"}
        /\ UNCHANGED <<asked, read, effects, password>>
    BY <1>6 DEF on_write, Goto, AfterWrite
  <2>2. res[c].status \in Answer
    BY <1>a, <2>1 DEF EffectsAnswered, Tells
  <2>3. answers' \in [Conn -> Seq(Answer)]
    BY <1>6, <1>a, <2>2 DEF on_write, TypeOK
  <2>4. \A d \in Conn : Len(answers'[d]) = IF d = c THEN Len(answers[d]) + 1 ELSE Len(answers[d])
    BY <1>6, <1>a DEF on_write, TypeOK
  <2>5. TypeOK'
    BY <1>a, <2>1, <2>3, <2>4 DEF TypeOK, NoAnswer
  <2>6. EffectsAnswered'
    BY <1>a, <2>1 DEF TypeOK, EffectsAnswered
  <2> QED
    BY <2>5, <2>6 DEF Inv
<1>7. CASE UNCHANGED vars
  BY <1>7 DEF Inv, TypeOK, EffectsAnswered, vars
<1> QED
  BY <1>1, <1>2, <1>3, <1>4, <1>5, <1>6, <1>7 DEF Next, Connection

-------------------------------------------------------------------------------
(* The refinement mapping.                                                   *)

Permitted == {request \in Requests : MayPerform(request)}

Closed == {c \in Conn : pc[c] = "closed"}

(* Permitted depends on the password alone.                                  *)
LEMMA PermittedKept == UNCHANGED password => UNCHANGED Permitted
BY DEF Permitted, MayPerform

(* The set of closed connections grows when a connection goes to closed.     *)
LEMMA Closing ==
    ASSUME TypeOK, NEW c \in Conn, NEW label, pc' = [pc EXCEPT ![c] = label], pc[c] # "closed"
    PROVE  /\ label = "closed" => Closed' = Closed \cup {c}
           /\ label # "closed" => Closed' = Closed
           /\ c \notin Closed
BY DEF Closed, TypeOK

(* The initial states map to those of RequestReply.                          *)
LEMMA RefinesInit == Init => Service!Init
BY DEF Init, Service!Init

(* Every step of the server is a step of RequestReply or a stutter.          *)
LEMMA RefinesStep ==
    ASSUME CodesExact, Inv, [Next]_vars
    PROVE  [Service!Next]_(Service!vars)
<1>a. TypeOK /\ EffectsAnswered
  BY DEF Inv
<1>b. ASSUME UNCHANGED <<Permitted, asked, answers, effects, Closed>>
      PROVE  UNCHANGED Service!vars
  BY <1>b DEF Service!vars, Permitted, Closed
<1>1. ASSUME NEW c \in Conn, NEW request \in Requests, Send(c, request)
      PROVE  Service!Next
  <2>1. UNCHANGED <<Permitted, Closed>>
    BY <1>1, PermittedKept DEF Send, Closed
  <2>2. Service!Ask(c, request)
    BY <1>1, <2>1 DEF Send, Service!Ask, Permitted, Closed
  <2> QED
    BY <2>2 DEF Service!Next
<1>2. ASSUME NEW c \in Conn, pc[c] # "closed", pc' = [pc EXCEPT ![c] = "closed"],
             UNCHANGED <<asked, answers, effects, password>>
      PROVE  Service!Next
  <2>1. UNCHANGED Permitted /\ c \notin Closed /\ Closed' = Closed \cup {c}
    BY <1>2, <1>a, PermittedKept, Closing
  <2>2. Service!Close(c)
    BY <1>2, <2>1 DEF Service!Close, Permitted, Closed
  <2> QED
    BY <2>2 DEF Service!Next
<1>3. ASSUME NEW c \in Conn, NEW label, pc[c] # "closed", label # "closed",
             pc' = [pc EXCEPT ![c] = label], UNCHANGED <<asked, answers, effects, password>>
      PROVE  UNCHANGED Service!vars
  BY <1>3, <1>a, <1>b, PermittedKept, Closing
<1>4. ASSUME NEW c \in Conn, on_accept(c) PROVE [Service!Next]_(Service!vars)
  BY <1>2, <1>3, <1>4 DEF on_accept, Goto
<1>5. ASSUME NEW c \in Conn, on_read(c) PROVE UNCHANGED Service!vars
  BY <1>3, <1>5 DEF on_read, Reading, Goto
<1>6. ASSUME NEW c \in Conn, ReadEnds(c) \/ WriteFails(c) \/ TimesOut(c) PROVE Service!Next
  BY <1>2, <1>6 DEF ReadEnds, WriteFails, TimesOut, Timed, Goto
<1>7. ASSUME NEW c \in Conn, handler(c) PROVE [Service!Next]_(Service!vars)
  <2> DEFINE request == asked[c][read[c]]
  <2>1. /\ pc[c] = "handling"
        /\ request \in Requests
        /\ read[c] \in 1 .. Len(asked[c])
        /\ read[c] = Len(answers[c]) + 1
        /\ <<c, read[c]>> \notin effects
    BY <1>7, <1>a, AtRequest DEF handler, EffectsAnswered
  <2>2. PICK result \in Results(request) :
           effects' = IF result.done THEN effects \cup {<<c, read[c]>>} ELSE effects
    BY <1>7 DEF handler
  <2>3. /\ pc' = [pc EXCEPT ![c] = "writing"]
        /\ UNCHANGED <<asked, answers, password>>
    BY <1>7 DEF handler, Goto
  <2>4. UNCHANGED Permitted /\ c \notin Closed /\ Closed' = Closed
    <3>1. UNCHANGED Permitted
      BY <2>3, PermittedKept
    <3>2. pc[c] # "closed" /\ "writing" # "closed"
      BY <2>1
    <3> QED
      BY <1>a, <2>3, <3>1, <3>2, Closing
  <2>5. CASE result.done
    <3>1. request \in Permitted
      BY <1>a, <2>1, <2>5, DoneMay DEF Permitted, TypeOK
    <3>2. Service!Due(c) = read[c]
      BY <2>1 DEF Service!Due
    <3>3. Service!Pending(c)
      BY <1>a, <2>1, <2>4, <3>2 DEF Service!Pending, Closed, TypeOK
    <3>4. Service!Perform(c)
      BY <2>1, <2>2, <2>3, <2>4, <2>5, <3>1, <3>2, <3>3 DEF Service!Perform, Permitted, Closed
    <3> QED
      BY <3>4 DEF Service!Next
  <2>6. CASE ~result.done
    BY <1>b, <2>2, <2>3, <2>4, <2>6
  <2> QED
    BY <2>5, <2>6
<1>8. ASSUME NEW c \in Conn, on_write(c) PROVE Service!Next
  <2>1. /\ pc[c] = "writing"
        /\ read[c] \in 1 .. Len(asked[c])
        /\ read[c] = Len(answers[c]) + 1
    BY <1>8, <1>a, AtRequest DEF on_write
  <2>2. /\ pc' = [pc EXCEPT ![c] = AfterWrite(c)]
        /\ answers' = [answers EXCEPT ![c] = Append(@, res[c].status)]
        /\ UNCHANGED <<asked, effects, password>>
    BY <1>8 DEF on_write, Goto
  <2>3. /\ UNCHANGED Permitted /\ c \notin Closed
        /\ Closed' \in {Closed, Closed \cup {c}}
    BY <1>a, <2>1, <2>2, PermittedKept, Closing
  <2>4. Service!Due(c) = read[c]
    BY <2>1 DEF Service!Due
  <2>5. Service!Pending(c)
    BY <1>a, <2>1, <2>3, <2>4 DEF Service!Pending, Closed, TypeOK
  <2>6. res[c].status \in Tells(asked[c][read[c]], <<c, read[c]>> \in effects)
    BY <1>a, <2>1 DEF EffectsAnswered
  <2>7. PICK status \in Answer : status = res[c].status
    BY <2>6 DEF Tells
  <2>8. Service!Reply(c, status)
    BY <2>2, <2>3, <2>4, <2>5, <2>6, <2>7 DEF Service!Reply, Permitted, Closed
  <2> QED
    BY <2>8 DEF Service!Next
<1>9. CASE UNCHANGED vars
  BY <1>9, <1>b, PermittedKept DEF vars, Closed
<1> QED
  BY <1>1, <1>4, <1>5, <1>6, <1>7, <1>8, <1>9 DEF Next, Connection

-------------------------------------------------------------------------------
(* A connection is always in a state its variables agree on: what it has     *)
(* read, what it has answered and where it is (rest.cpp, do_read, on_read,   *)
(* handler, on_write), for any number of threads, connections and requests.  *)
THEOREM TypeCorrect == Spec => []TypeOK
<1>1. Inv => TypeOK
  BY DEF Inv
<1> QED
  BY <1>1, InvInit, InvStep, PTL DEF Spec

(* The server of rest.cpp implements RequestReply: one answer per request,   *)
(* in order, none after the close, an operation at most once and only for    *)
(* the configured password, and an answer that does not hide it.             *)
THEOREM Implements == ASSUME CodesExact PROVE Spec => KeepsPromises
<1>1. Inv /\ [Next]_vars => [Service!Next]_(Service!vars)
  BY RefinesStep
<1> QED
  BY <1>1, InvInit, InvStep, RefinesInit, PTL DEF Spec, KeepsPromises, Service!Spec

(* The headers that clients of this repository send: none, or the one        *)
(* Server::control_service makes of a password.                              *)
ClientHeaders == \A request \in Requests : request.auth \in {NoAuth} \cup Range(Credentials)

(* Such a header is right for the password it was made of alone.             *)
LEMMA ClientCodes == ClientHeaders => CodesExact
<1> SUFFICES ASSUME ClientHeaders, NEW request \in Requests, NEW configured \in Passwords,
                    Authenticate[request.auth][configured] = "right"
             PROVE  request.auth = Credentials[configured]
  BY DEF CodesExact
<1>1. Outcome(request.auth, configured) = "right"
  BY DEF Authenticate
<1>2. request.auth # NoAuth
  BY <1>1, NoAuthNotRight
<1>3. PICK pass \in Passwords : request.auth = Credentials[pass]
  BY <1>2 DEF ClientHeaders, Range, Credentials
<1>4. pass = configured
  BY <1>1, <1>3, RestAssumption, RightOnly DEF Credentials
<1> QED
  BY <1>3, <1>4

(* For the clients of the repository the promises of RequestReply are kept   *)
(* without any assumption about codes.                                       *)
THEOREM ImplementsForClients == ASSUME ClientHeaders PROVE Spec => KeepsPromises
<1>1. CodesExact
  BY ClientCodes
<1> QED
  BY <1>1, Implements

(* No password but the configured one is accepted by Helpers::Authenticate,  *)
(* however long, whatever its bytes, although encode turns bytes into 255    *)
(* and decode cuts off zero bytes.                                           *)
THEOREM OnlyTheConfigured == Spec => []PasswordExact
<1>1. TypeOK => PasswordExact
  <2> SUFFICES ASSUME TypeOK, NEW pass \in Passwords,
                      Authenticate[Credentials[pass]][password] = "right"
               PROVE  pass = password
    BY DEF PasswordExact
  <2>1. password \in Passwords
    BY DEF TypeOK
  <2>2. Outcome(encode(Admin \o <<Colon>> \o pass), password) = "right"
    BY <2>1, AuthenticateTyped
  <2>3. pass \in Seq(Typable) /\ password \in Seq(Typable)
    BY <2>1, RestAssumption
  <2> QED
    BY <2>2, <2>3, RightOnly
<1> QED
  BY <1>1, TypeCorrect, PTL

(* PasswordAccepted, which TLC finds violated, holds for a password of ASCII *)
(* characters whose header does not have the letter A.                       *)
PlainAccepted ==
    password \in Seq(Ascii) /\ Decodable(Credentials[password]) => PasswordAccepted

(* The letter A and bytes above 127 are the only reasons for Base64 and      *)
(* Authenticate to refuse the configured password.                           *)
THEOREM PlainPasswords == Spec => []PlainAccepted
<1>1. TypeOK => PlainAccepted
  <2> SUFFICES ASSUME TypeOK, password \in Seq(Ascii), Decodable(Credentials[password])
               PROVE  Authenticate[Credentials[password]][password] = "right"
    BY DEF PlainAccepted, PasswordAccepted
  <2>1. password \in Passwords
    BY DEF TypeOK
  <2>2. Credentials[password] = encode(Admin \o <<Colon>> \o password)
    BY <2>1 DEF Credentials
  <2>3. Outcome(encode(Admin \o <<Colon>> \o password), password) = "right"
    BY <2>2, PlainRight
  <2> QED
    BY <2>1, <2>3, AuthenticateTyped
<1> QED
  BY <1>1, TypeCorrect, PTL

(* A password of printable characters is accepted if it is Readable, and     *)
(* refused otherwise.                                                        *)
ReadableAccepted ==
    password \in Seq(Printable) => (PasswordAccepted <=> Readable(password))

(* Exactly which configured passwords the server refuses to everyone, of     *)
(* those typed with the printable characters of ASCII: the ones in whose     *)
(* code a letter A comes from an @ at the end of a group, or from bits that  *)
(* are zero at the end or across two characters.                             *)
THEOREM PasswordsAccepted == Spec => []ReadableAccepted
<1>1. TypeOK => ReadableAccepted
  <2> SUFFICES ASSUME TypeOK, password \in Seq(Printable)
               PROVE  Authenticate[Credentials[password]][password] = "right" <=> Readable(password)
    BY DEF ReadableAccepted, PasswordAccepted
  <2> DEFINE code == encode(Admin \o <<Colon>> \o password)
  <2>1. password \in Passwords
    BY DEF TypeOK
  <2>2. Authenticate[Credentials[password]][password] = Outcome(code, password)
    BY <2>1, AuthenticateTyped
  <2>3. Decodable(code) <=> Readable(password)
    BY ReadablePassword, Zenon
  <2>4. password \in Seq(Ascii)
    BY DEF Printable, Ascii
  <2>5. Decodable(code) => Outcome(code, password) = "right"
    BY <2>4, PlainRight, Zenon
  <2>6. ~Decodable(code) => Outcome(code, password) # "right"
    BY ThrownNotRight, Zenon
  <2> HIDE DEF code
  <2> QED
    BY <2>2, <2>3, <2>5, <2>6, Zenon
<1> QED
  BY <1>1, TypeCorrect, PTL
===============================================================================
