-------------------------- MODULE TermSessionProofs --------------------------
(***************************************************************************)
(* Proofs about TermSession, for any number of bytes and resizes and any   *)
(* window sizes: every byte of the remote shell is in one place on its way *)
(* to the terminal, in the order of its stream.                            *)
(***************************************************************************)
EXTENDS TermSession, SequenceLemmas

Packet == Byte \cup {Eof}

(* The bytes of each stream are in the order they were written.  (InOrder,   *)
(* for sequences that may hold the end of the channel too.)                  *)
Ascending(p) ==
    \A i, j \in DOMAIN p :
        (i < j /\ p[i].stream = p[j].stream /\ p[i].stream \in Stream) => p[i].n < p[j].n

(* Of each stream, the bytes in p were written before those in q.            *)
Precede(p, q) ==
    \A i \in DOMAIN p, j \in DOMAIN q :
        (p[i].stream = q[j].stream /\ p[i].stream \in Stream) => p[i].n < q[j].n

IsOf(p, stream) == \A i \in DOMAIN p : p[i].stream = stream

UpTo(p, n) == \A i \in DOMAIN p : p[i].n <= n

Bytes(w) == Kept(w, {i \in DOMAIN w : w[i] # Eof})

Of(w, stream) == Kept(w, {i \in DOMAIN w : w[i].stream = stream})

(* The way of the bytes: given to the terminal or on the way to it (d),      *)
(* gathered by the running read (o), held by libssh (b), on the wire (w);    *)
(* n were written.                                                           *)
Typed(d, o, b, w, n) ==
    /\ d \in Seq(Byte) /\ o \in Seq(Byte)
    /\ b \in [Stream -> Seq(Byte)]
    /\ w \in Seq(Packet)
    /\ n \in Nat

Ordered(d, o, b, w, n) ==
    /\ Ascending(d) /\ Ascending(o) /\ Ascending(w)
    /\ Precede(d, o) /\ Precede(d, w) /\ Precede(o, w)
    /\ UpTo(d, n) /\ UpTo(o, n) /\ UpTo(w, n)
    /\ \A s \in Stream : /\ IsOf(b[s], s)
                         /\ Ascending(b[s])
                         /\ Precede(d, b[s]) /\ Precede(o, b[s]) /\ Precede(b[s], w)
                         /\ UpTo(b[s], n)

Total(d, o, b, w) ==
    Len(d) + Len(o) + Len(b["stdout"]) + Len(b["stderr"]) + Len(Bytes(w))

Way(d, o, b, w, n) == Typed(d, o, b, w, n) /\ Ordered(d, o, b, w, n) /\ Total(d, o, b, w) = n

(* Part of a sequence, in its order.                                         *)
Within(p, q) ==
    \E at \in [1 .. Len(p) -> 1 .. Len(q)] :
        /\ \A i \in 1 .. Len(p) : p[i] = q[at[i]]
        /\ \A i, j \in 1 .. Len(p) : i < j => at[i] < at[j]

(* A selection of packets is as ordered as what it is taken from.            *)
LEMMA WithinOrdered ==
    ASSUME NEW p \in Seq(Packet), NEW q \in Seq(Packet), Within(p, q)
    PROVE  /\ Ascending(q) => Ascending(p)
           /\ \A r : Precede(r, q) => Precede(r, p)
           /\ \A n : UpTo(q, n) => UpTo(p, n)
<1>1. PICK at \in [1 .. Len(p) -> 1 .. Len(q)] :
         /\ \A i \in 1 .. Len(p) : p[i] = q[at[i]]
         /\ \A i, j \in 1 .. Len(p) : i < j => at[i] < at[j]
  BY DEF Within
<1>2. DOMAIN p = 1 .. Len(p) /\ DOMAIN q = 1 .. Len(q)
  OBVIOUS
<1>3. Ascending(q) => Ascending(p)
  BY <1>1, <1>2 DEF Ascending
<1>4. \A r : Precede(r, q) => Precede(r, p)
  BY <1>1, <1>2 DEF Precede
<1>5. \A n : UpTo(q, n) => UpTo(p, n)
  BY <1>1, <1>2 DEF UpTo
<1> QED
  BY <1>3, <1>4, <1>5

(* Filtering selects.                                                        *)
LEMMA KeptWithin ==
    ASSUME NEW w \in Seq(Packet), NEW keep
    PROVE  Kept(w, keep) \in Seq(Packet) /\ Within(Kept(w, keep), w)
           /\ \A i \in DOMAIN Kept(w, keep) : \E k \in keep \cap DOMAIN w : Kept(w, keep)[i] = w[k]
<1>1. PICK at \in [1 .. Len(Kept(w, keep)) -> 1 .. Len(w)] :
         /\ \A i \in 1 .. Len(Kept(w, keep)) : at[i] \in keep /\ Kept(w, keep)[i] = w[at[i]]
         /\ \A i, j \in 1 .. Len(Kept(w, keep)) : i < j => at[i] < at[j]
         /\ \A k \in keep \cap (1 .. Len(w)) : \E i \in 1 .. Len(Kept(w, keep)) : at[i] = k
  BY KeptPositions DEF Selects
<1>2. Within(Kept(w, keep), w)
  BY <1>1 DEF Within
<1> QED
  BY <1>2, KeptElements

(* What libssh sorts into the buffer of one stream.                          *)
LEMMA OfStream ==
    ASSUME NEW w \in Seq(Packet), NEW s \in Stream
    PROVE  Of(w, s) \in Seq(Byte) /\ IsOf(Of(w, s), s) /\ Within(Of(w, s), w)
<1> DEFINE keep == {i \in DOMAIN w : w[i].stream = s}
           p == Kept(w, keep)
<1>1. p \in Seq(Packet) /\ Within(p, w) /\ \A i \in DOMAIN p : \E k \in keep \cap DOMAIN w : p[i] = w[k]
  <2> HIDE DEF keep
  <2> QED
    BY KeptWithin
<1> HIDE DEF p
<1>2. \A i \in DOMAIN p : p[i].stream = s
  BY <1>1
<1>3. \A i \in DOMAIN p : p[i] \in Byte
  BY <1>1, <1>2 DEF Packet, Eof, Stream
<1>4. p \in Seq(Byte)
  BY <1>1, <1>3
<1> QED
  BY <1>1, <1>2, <1>4 DEF p, Of, IsOf

(* Without the end of file the bytes of both streams are left, in order.     *)
LEMMA BytesOf ==
    ASSUME NEW w \in Seq(Packet)
    PROVE  /\ Bytes(w) \in Seq(Byte) /\ Within(Bytes(w), w)
           /\ Len(Bytes(w)) = Len(Of(w, "stdout")) + Len(Of(w, "stderr"))
<1> DEFINE keep == {i \in DOMAIN w : w[i] # Eof}
           one == {i \in DOMAIN w : w[i].stream = "stdout"}
           other == {i \in DOMAIN w : w[i].stream = "stderr"}
           p == Kept(w, keep)
<1>1. p \in Seq(Packet) /\ Within(p, w) /\ \A i \in DOMAIN p : \E k \in keep \cap DOMAIN w : p[i] = w[k]
  <2> HIDE DEF keep
  <2> QED
    BY KeptWithin
<1> HIDE DEF p
<1>2. \A i \in DOMAIN p : p[i] \in Byte
  BY <1>1 DEF Packet
<1>3. p \in Seq(Byte)
  BY <1>1, <1>2
<1>4. \A i \in DOMAIN w : /\ i \in keep <=> i \in one \/ i \in other
                          /\ ~(i \in one /\ i \in other)
  <2> SUFFICES ASSUME NEW i \in DOMAIN w
               PROVE  /\ w[i] # Eof <=> w[i].stream = "stdout" \/ w[i].stream = "stderr"
                      /\ ~(w[i].stream = "stdout" /\ w[i].stream = "stderr")
    OBVIOUS
  <2>1. w[i] \in Packet
    OBVIOUS
  <2> QED
    BY <2>1 DEF Packet, Byte, Eof, Stream
<1>5. Len(Kept(w, keep)) = Len(Kept(w, one)) + Len(Kept(w, other))
  <2> HIDE DEF keep, one, other
  <2> QED
    BY <1>4, KeptSplit
<1> QED
  BY <1>1, <1>3, <1>5 DEF p, Bytes, Of

(* Nothing is left of an empty sequence.                                     *)
LEMMA NothingKept == ASSUME NEW keep PROVE Len(Kept(<<>>, keep)) = 0
<1>1. PICK w : w \in Seq(Packet) /\ w = <<>>
  <2>1. <<>> \in Seq(Packet)
    OBVIOUS
  <2> QED
    BY <2>1, Zenon
<1>2. Within(Kept(w, keep), w) /\ Len(w) = 0 /\ Kept(w, keep) \in Seq(Packet)
  BY <1>1, KeptWithin
<1>3. Len(Kept(w, keep)) = 0
  <2>1. PICK at : at \in [1 .. Len(Kept(w, keep)) -> 1 .. Len(w)]
    BY <1>2 DEF Within
  <2>2. PICK l \in Nat : l = Len(Kept(w, keep))
    BY <1>2
  <2>3. at \in [1 .. l -> {}]
    BY <1>2, <2>1, <2>2
  <2>4. l = 0
    BY <2>2, <2>3
  <2> QED
    BY <2>2, <2>4
<1> QED
  BY <1>1, <1>3, Zenon

(* Two parts of the way put together.                                        *)
LEMMA Joined ==
    ASSUME NEW p \in Seq(Packet), NEW q \in Seq(Packet)
    PROVE  /\ Ascending(p) /\ Ascending(q) /\ Precede(p, q) => Ascending(p \o q)
           /\ \A r \in Seq(Packet) :
                 /\ Precede(r, p) /\ Precede(r, q) => Precede(r, p \o q)
                 /\ Precede(p, r) /\ Precede(q, r) => Precede(p \o q, r)
           /\ \A n : UpTo(p, n) /\ UpTo(q, n) => UpTo(p \o q, n)
           /\ \A s : IsOf(p, s) /\ IsOf(q, s) => IsOf(p \o q, s)
<1> DEFINE c == p \o q
<1>1. /\ DOMAIN p = 1 .. Len(p) /\ DOMAIN q = 1 .. Len(q) /\ DOMAIN c = 1 .. Len(p) + Len(q)
      /\ Len(p) \in Nat /\ Len(q) \in Nat
      /\ \A i \in 1 .. Len(p) : c[i] = p[i]
      /\ \A i \in Len(p) + 1 .. Len(p) + Len(q) : c[i] = q[i - Len(p)] /\ i - Len(p) \in 1 .. Len(q)
  OBVIOUS
<1> HIDE DEF c
<1>2. ASSUME NEW i \in DOMAIN c
      PROVE  (i \in DOMAIN p /\ c[i] = p[i]) \/ \E k \in DOMAIN q : i = Len(p) + k /\ c[i] = q[k]
  <2>1. CASE i \in 1 .. Len(p)
    BY <1>1, <2>1
  <2>2. CASE i \in Len(p) + 1 .. Len(p) + Len(q)
    <3>1. PICK k \in DOMAIN q : k = i - Len(p) /\ c[i] = q[k]
      BY <1>1, <2>2
    <3> QED
      BY <1>1, <2>2, <3>1
  <2> QED
    BY <1>1, <2>1, <2>2
<1>s. \A i \in DOMAIN c : (i \in DOMAIN p /\ c[i] = p[i]) \/ \E k \in DOMAIN q : c[i] = q[k]
  BY <1>2, Zenon
<1>3. ASSUME Ascending(p), Ascending(q), Precede(p, q) PROVE Ascending(c)
  <2> SUFFICES ASSUME NEW i \in DOMAIN c, NEW j \in DOMAIN c, i < j,
                      c[i].stream = c[j].stream, c[i].stream \in Stream
               PROVE  c[i].n < c[j].n
    BY DEF Ascending
  <2>1. CASE i \in DOMAIN p /\ c[i] = p[i]
    <3>1. CASE j \in DOMAIN p /\ c[j] = p[j]
      BY <1>3, <2>1, <3>1, Zenon DEF Ascending
    <3>2. CASE \E k \in DOMAIN q : c[j] = q[k]
      BY <1>3, <2>1, <3>2, Zenon DEF Precede
    <3> QED
      BY <1>s, <3>1, <3>2, Zenon
  <2>2. ASSUME NEW k \in DOMAIN q, i = Len(p) + k, c[i] = q[k] PROVE c[i].n < c[j].n
    <3>1. ~(j \in DOMAIN p)
      BY <1>1, <2>2
    <3>2. PICK l \in DOMAIN q : j = Len(p) + l /\ c[j] = q[l]
      BY <1>2, <3>1, Zenon
    <3>3. k < l
      BY <1>1, <2>2, <3>2
    <3> QED
      BY <1>3, <2>2, <3>2, <3>3, Zenon DEF Ascending
  <2> QED
    BY <1>2, <2>1, <2>2, Zenon
<1>4. ASSUME NEW r \in Seq(Packet), Precede(r, p), Precede(r, q) PROVE Precede(r, c)
  BY <1>s, <1>4, Zenon DEF Precede
<1>5. ASSUME NEW r \in Seq(Packet), Precede(p, r), Precede(q, r) PROVE Precede(c, r)
  BY <1>s, <1>5, Zenon DEF Precede
<1>6. ASSUME NEW n, UpTo(p, n), UpTo(q, n) PROVE UpTo(c, n)
  BY <1>s, <1>6, Zenon DEF UpTo
<1>7. ASSUME NEW s, IsOf(p, s), IsOf(q, s) PROVE IsOf(c, s)
  BY <1>s, <1>7, Zenon DEF IsOf
<1> QED
  BY <1>3, <1>4, <1>5, <1>6, <1>7, Zenon DEF c

(* The first of a sequence and the rest of it.                               *)
LEMMA Taken ==
    ASSUME NEW p \in Seq(Byte), p # <<>>
    PROVE  /\ <<Head(p)>> \in Seq(Byte) /\ Tail(p) \in Seq(Byte)
           /\ Within(<<Head(p)>>, p) /\ Within(Tail(p), p)
           /\ Len(p) = Len(Tail(p)) + 1
           /\ Ascending(p) => Precede(<<Head(p)>>, Tail(p))
           /\ \A s : IsOf(p, s) => IsOf(Tail(p), s)
<1> DEFINE h == Head(p)
           t == Tail(p)
<1>1. /\ h \in Byte /\ t \in Seq(Byte) /\ Len(p) = Len(t) + 1 /\ Len(t) \in Nat
      /\ h = p[1] /\ \A i \in 1 .. Len(t) : t[i] = p[i + 1]
      /\ DOMAIN t = 1 .. Len(t) /\ DOMAIN p = 1 .. Len(t) + 1
  OBVIOUS
<1> HIDE DEF h, t
<1>2. <<h>> \in Seq(Byte) /\ Len(<<h>>) = 1 /\ <<h>>[1] = h /\ DOMAIN <<h>> = 1 .. 1
  BY <1>1
<1>3. Within(t, p)
  <2> DEFINE at == [i \in 1 .. Len(t) |-> i + 1]
  <2>1. at \in [1 .. Len(t) -> 1 .. Len(p)]
    BY <1>1
  <2>2. \A i \in 1 .. Len(t) : t[i] = p[at[i]]
    BY <1>1
  <2>3. \A i, j \in 1 .. Len(t) : i < j => at[i] < at[j]
    BY <1>1
  <2> HIDE DEF at
  <2> QED
    BY <2>1, <2>2, <2>3 DEF Within
<1>4. Within(<<h>>, p)
  <2> DEFINE at == [i \in 1 .. 1 |-> 1]
  <2>1. at \in [1 .. Len(<<h>>) -> 1 .. Len(p)]
    BY <1>1, <1>2
  <2>2. \A i \in 1 .. Len(<<h>>) : <<h>>[i] = p[at[i]]
    BY <1>1, <1>2
  <2>3. \A i, j \in 1 .. Len(<<h>>) : i < j => at[i] < at[j]
    BY <1>2
  <2> HIDE DEF at
  <2> QED
    BY <2>1, <2>2, <2>3 DEF Within
<1>5. ASSUME Ascending(p) PROVE Precede(<<h>>, t)
  <2> SUFFICES ASSUME NEW j \in 1 .. Len(t), h.stream = t[j].stream, h.stream \in Stream
               PROVE  h.n < t[j].n
    BY <1>1, <1>2 DEF Precede
  <2>1. 1 \in DOMAIN p /\ j + 1 \in DOMAIN p /\ 1 < j + 1 /\ t[j] = p[j + 1]
    BY <1>1
  <2> QED
    BY <1>1, <1>5, <2>1 DEF Ascending
<1>6. ASSUME NEW s, IsOf(p, s) PROVE IsOf(t, s)
  BY <1>1, <1>6 DEF IsOf
<1> QED
  BY <1>1, <1>2, <1>3, <1>4, <1>5, <1>6 DEF h, t

(* Bytes are packets.                                                        *)
LEMMA ByteIsPacket == ASSUME NEW p \in Seq(Byte) PROVE p \in Seq(Packet)
  BY DEF Packet

-------------------------------------------------------------------------------
(* The steps of the way.                                                     *)

(* libssh handles the packets of the wire.                                   *)
LEMMA WayPolled ==
    ASSUME NEW d, NEW o, NEW b, NEW w, NEW n, Way(d, o, b, w, n)
    PROVE  Way(d, o, [s \in Stream |-> b[s] \o Of(w, s)], <<>>, n)
<1> DEFINE c == [s \in Stream |-> b[s] \o Of(w, s)]
<1>1. Typed(d, o, b, w, n) /\ Ordered(d, o, b, w, n) /\ Total(d, o, b, w) = n
  BY DEF Way
<1>2. /\ d \in Seq(Byte) /\ o \in Seq(Byte) /\ b \in [Stream -> Seq(Byte)]
      /\ w \in Seq(Packet) /\ n \in Nat
      /\ d \in Seq(Packet) /\ o \in Seq(Packet)
  BY <1>1, ByteIsPacket DEF Typed
<1>3. ASSUME NEW s \in Stream
      PROVE  /\ c[s] = b[s] \o Of(w, s) /\ c[s] \in Seq(Byte)
             /\ Len(c[s]) = Len(b[s]) + Len(Of(w, s)) /\ Len(b[s]) \in Nat /\ Len(Of(w, s)) \in Nat
             /\ b[s] \in Seq(Packet) /\ Of(w, s) \in Seq(Packet)
  <2>1. b[s] \in Seq(Byte) /\ Of(w, s) \in Seq(Byte)
    BY <1>2, OfStream
  <2> QED
    BY <2>1, ByteIsPacket
<1> HIDE DEF c
<1>4. ASSUME NEW s \in Stream
      PROVE  /\ IsOf(c[s], s) /\ Ascending(c[s])
             /\ Precede(d, c[s]) /\ Precede(o, c[s]) /\ UpTo(c[s], n)
  <2>1. /\ IsOf(b[s], s) /\ Ascending(b[s]) /\ Precede(d, b[s]) /\ Precede(o, b[s])
        /\ Precede(b[s], w) /\ UpTo(b[s], n)
        /\ Ascending(w) /\ Precede(d, w) /\ Precede(o, w) /\ UpTo(w, n)
    BY <1>1 DEF Ordered
  <2>2. IsOf(Of(w, s), s) /\ Within(Of(w, s), w)
    BY <1>2, OfStream
  <2>3. /\ Ascending(Of(w, s)) /\ Precede(b[s], Of(w, s)) /\ Precede(d, Of(w, s))
        /\ Precede(o, Of(w, s)) /\ UpTo(Of(w, s), n)
    BY <1>2, <1>3, <2>1, <2>2, WithinOrdered
  <2>4. PICK p \in Seq(Packet), q \in Seq(Packet) : p = b[s] /\ q = Of(w, s)
    BY <1>3, Zenon
  <2>5. /\ IsOf(p \o q, s) /\ Ascending(p \o q)
        /\ Precede(d, p \o q) /\ Precede(o, p \o q) /\ UpTo(p \o q, n)
    BY <1>2, <2>1, <2>2, <2>3, <2>4, Joined, Zenon
  <2>6. c[s] = p \o q
    BY <1>3, <2>4, Zenon
  <2> QED
    BY <2>5, <2>6, Zenon
<1>5. PICK e : e = <<>> /\ e \in Seq(Packet)
  <2>1. <<>> \in Seq(Packet)
    OBVIOUS
  <2> QED
    BY <2>1, Zenon
<1>6. Ascending(e) /\ UpTo(e, n) /\ \A p : Precede(p, e)
  BY <1>5 DEF Ascending, Precede, UpTo
<1>7. Ordered(d, o, c, e, n)
  BY <1>1, <1>4, <1>6 DEF Ordered
<1>8. c \in [Stream -> Seq(Byte)]
  BY <1>3 DEF c
<1>9. Total(d, o, c, e) = Total(d, o, b, w)
  <2>1. Len(Bytes(w)) = Len(Of(w, "stdout")) + Len(Of(w, "stderr"))
    BY <1>2, BytesOf
  <2>2. Len(Bytes(e)) = 0
    BY <1>5, NothingKept, Zenon DEF Bytes
  <2>3. Len(d) \in Nat /\ Len(o) \in Nat
    BY <1>2
  <2>4. Len(c["stdout"]) = Len(b["stdout"]) + Len(Of(w, "stdout"))
        /\ Len(b["stdout"]) \in Nat /\ Len(Of(w, "stdout")) \in Nat
    BY <1>3 DEF Stream
  <2>5. Len(c["stderr"]) = Len(b["stderr"]) + Len(Of(w, "stderr"))
        /\ Len(b["stderr"]) \in Nat /\ Len(Of(w, "stderr")) \in Nat
    BY <1>3 DEF Stream
  <2>6. \A i, j, k, l, u, v \in Nat : i + j + (k + u) + (l + v) + 0 = i + j + k + l + (u + v)
    OBVIOUS
  <2>7. PICK i, j, k, l, u, v \in Nat : 
         /\ i = Len(d) /\ j = Len(o) /\ k = Len(b["stdout"]) /\ l = Len(b["stderr"])
         /\ u = Len(Of(w, "stdout")) /\ v = Len(Of(w, "stderr"))
    BY <2>3, <2>4, <2>5
  <2>8. Len(c["stdout"]) = k + u
    BY <2>4, <2>7
  <2>9. Len(c["stderr"]) = l + v
    BY <2>5, <2>7
  <2>a. Len(Bytes(w)) = u + v
    BY <2>1, <2>7
  <2>b. Total(d, o, c, e) = i + j + (k + u) + (l + v) + 0
    BY <2>2, <2>7, <2>8, <2>9, Zenon DEF Total
  <2>c. Total(d, o, b, w) = i + j + k + l + (u + v)
    BY <2>7, <2>a, Zenon DEF Total
  <2> QED
    BY <2>6, <2>b, <2>c
<1> QED
  <2>1. Way(d, o, c, e, n)
    BY <1>1, <1>2, <1>5, <1>7, <1>8, <1>9 DEF Way, Typed
  <2> QED
    BY <1>5, <2>1, Zenon DEF c

(* A read takes the first byte of a buffer.                                  *)
LEMMA WayRead ==
    ASSUME NEW d, NEW o, NEW b, NEW w, NEW n, Way(d, o, b, w, n),
           NEW stream \in Stream, b[stream] # <<>>
    PROVE  Way(d, Append(o, Head(b[stream])), [b EXCEPT ![stream] = Tail(b[stream])], w, n)
<1> DEFINE h == <<Head(b[stream])>>
           t == Tail(b[stream])
           c == [b EXCEPT ![stream] = t]
           x == Append(o, Head(b[stream]))
<1>1. Typed(d, o, b, w, n) /\ Ordered(d, o, b, w, n) /\ Total(d, o, b, w) = n
  BY DEF Way
<1>2. /\ d \in Seq(Byte) /\ o \in Seq(Byte) /\ b \in [Stream -> Seq(Byte)]
      /\ w \in Seq(Packet) /\ n \in Nat
      /\ d \in Seq(Packet) /\ o \in Seq(Packet) /\ b[stream] \in Seq(Byte)
  BY <1>1, ByteIsPacket DEF Typed
<1>3. /\ h \in Seq(Byte) /\ t \in Seq(Byte) /\ Within(h, b[stream]) /\ Within(t, b[stream])
      /\ Len(b[stream]) = Len(t) + 1
      /\ Ascending(b[stream]) => Precede(h, t)
      /\ \A s : IsOf(b[stream], s) => IsOf(t, s)
  BY <1>2, Taken, Zenon
<1>4. x = o \o h /\ x \in Seq(Byte) /\ Len(x) = Len(o) + 1 /\ Len(o) \in Nat
  BY <1>2
<1>5. c \in [Stream -> Seq(Byte)] /\ c[stream] = t /\ \A s \in Stream : s # stream => c[s] = b[s]
  BY <1>2, <1>3
<1>6. h \in Seq(Packet) /\ t \in Seq(Packet) /\ b[stream] \in Seq(Packet) /\ x \in Seq(Packet)
      /\ \A s \in Stream : b[s] \in Seq(Packet)
  BY <1>2, <1>3, <1>4, ByteIsPacket
<1>h. h[1] = Head(b[stream]) /\ DOMAIN h = 1 .. 1
  OBVIOUS
<1>b. b[stream][1] = Head(b[stream]) /\ 1 \in DOMAIN b[stream]
  BY <1>2
<1> HIDE DEF h, t, c, x
<1>7. /\ Ascending(d) /\ Ascending(o) /\ Ascending(w) /\ Precede(d, o) /\ Precede(d, w) /\ Precede(o, w)
      /\ UpTo(d, n) /\ UpTo(o, n) /\ UpTo(w, n)
      /\ \A s \in Stream : /\ IsOf(b[s], s) /\ Ascending(b[s])
                           /\ Precede(d, b[s]) /\ Precede(o, b[s]) /\ Precede(b[s], w) /\ UpTo(b[s], n)
  BY <1>1 DEF Ordered
<1>8. /\ Ascending(h) /\ Precede(d, h) /\ Precede(o, h) /\ UpTo(h, n) /\ Precede(h, t)
  BY <1>2, <1>3, <1>6, <1>7, WithinOrdered
<1>9. Precede(h, w)
  BY <1>7, <1>h, <1>b DEF Precede
<1>a. \A s \in Stream : s # stream => Precede(h, b[s])
  BY <1>7, <1>h, <1>b DEF Precede, IsOf
<1>c. /\ Ascending(x) /\ Precede(d, x) /\ Precede(x, w) /\ UpTo(x, n)
  BY <1>2, <1>4, <1>6, <1>7, <1>8, <1>9, Joined
<1>d. /\ Ascending(t) /\ Precede(d, t) /\ Precede(o, t) /\ UpTo(t, n) /\ IsOf(t, stream)
  BY <1>2, <1>3, <1>6, <1>7, WithinOrdered
<1>e. Precede(t, w)
  <2>1. /\ DOMAIN t = 1 .. Len(t) /\ DOMAIN b[stream] = 1 .. Len(b[stream])
        /\ \A i \in 1 .. Len(t) : t[i] = b[stream][i + 1] /\ i + 1 \in 1 .. Len(b[stream])
    BY <1>2, <1>3 DEF t
  <2>2. \A i \in DOMAIN t : \E k \in DOMAIN b[stream] : t[i] = b[stream][k]
    BY <2>1, Zenon
  <2>3. Precede(b[stream], w)
    BY <1>7, Zenon
  <2> QED
    BY <2>2, <2>3, Zenon DEF Precede
<1>f. Precede(x, t) /\ \A s \in Stream : s # stream => Precede(x, b[s])
  BY <1>2, <1>4, <1>6, <1>7, <1>8, <1>a, <1>d, Joined
<1>g. Ordered(d, x, c, w, n)
  <2>1. ASSUME NEW s \in Stream
        PROVE  /\ IsOf(c[s], s) /\ Ascending(c[s])
               /\ Precede(d, c[s]) /\ Precede(x, c[s]) /\ Precede(c[s], w) /\ UpTo(c[s], n)
    <3>1. CASE s = stream
      BY <1>5, <1>d, <1>e, <1>f, <3>1
    <3>2. CASE s # stream
      BY <1>5, <1>7, <1>f, <3>2
    <3> QED
      BY <3>1, <3>2
  <2> QED
    BY <1>7, <1>c, <2>1 DEF Ordered
<1>i. Total(d, x, c, w) = Total(d, o, b, w)
  <2>1. Len(d) \in Nat /\ Len(b["stdout"]) \in Nat /\ Len(b["stderr"]) \in Nat /\ Len(t) \in Nat
    BY <1>2, <1>3 DEF Stream
  <2>2. Len(Bytes(w)) \in Nat
    BY <1>2, BytesOf
  <2>3. /\ "stdout" = stream => Len(c["stdout"]) = Len(b["stdout"]) - 1 /\ c["stderr"] = b["stderr"]
        /\ "stderr" = stream => Len(c["stderr"]) = Len(b["stderr"]) - 1 /\ c["stdout"] = b["stdout"]
    BY <1>3, <1>5, <2>1 DEF Stream
  <2>4. PICK i, j, k, l, u, v \in Nat :
           /\ i = Len(d) /\ j = Len(o) /\ k = Len(b["stdout"]) /\ l = Len(b["stderr"])
           /\ u = Len(Bytes(w)) /\ v = Len(t)
    BY <1>4, <2>1, <2>2
  <2>5. Total(d, o, b, w) = i + j + k + l + u
    BY <2>4, Zenon DEF Total
  <2>6. Len(x) = j + 1
    BY <1>4, <2>4
  <2>7. CASE stream = "stdout"
    <3>1. Len(c["stdout"]) = k - 1 /\ Len(c["stderr"]) = l
      BY <2>3, <2>4, <2>7
    <3>2. Total(d, x, c, w) = i + (j + 1) + (k - 1) + l + u
      BY <2>4, <2>6, <3>1, Zenon DEF Total
    <3> QED
      BY <2>5, <3>2
  <2>8. CASE stream = "stderr"
    <3>1. Len(c["stdout"]) = k /\ Len(c["stderr"]) = l - 1
      BY <2>3, <2>4, <2>8
    <3>2. Total(d, x, c, w) = i + (j + 1) + k + (l - 1) + u
      BY <2>4, <2>6, <3>1, Zenon DEF Total
    <3> QED
      BY <2>5, <3>2
  <2> QED
    BY <2>7, <2>8 DEF Stream
<1> QED
  <2>1. Way(d, x, c, w, n)
    BY <1>1, <1>2, <1>4, <1>5, <1>g, <1>i DEF Way, Typed
  <2> QED
    BY <2>1 DEF x, c, t

(* The same bytes, whatever part of a character each of them is.             *)
Alike(p, q) ==
    /\ Len(p) = Len(q)
    /\ \A i \in 1 .. Len(p) : p[i].stream = q[i].stream /\ p[i].n = q[i].n

(* A read ends: what it gathered is posted.                                  *)
LEMMA WayPosted ==
    ASSUME NEW d, NEW o, NEW b, NEW w, NEW n, Way(d, o, b, w, n),
           NEW e \in Seq(Byte), Alike(e, o)
    PROVE  Way(d \o e, <<>>, b, w, n)
<1>1. Typed(d, o, b, w, n) /\ Ordered(d, o, b, w, n) /\ Total(d, o, b, w) = n
  BY DEF Way
<1>2. /\ d \in Seq(Byte) /\ o \in Seq(Byte) /\ b \in [Stream -> Seq(Byte)]
      /\ w \in Seq(Packet) /\ n \in Nat
      /\ d \in Seq(Packet) /\ o \in Seq(Packet) /\ e \in Seq(Packet)
      /\ \A s \in Stream : b[s] \in Seq(Packet)
  BY <1>1, ByteIsPacket DEF Typed
<1>3. /\ DOMAIN e = DOMAIN o
      /\ \A i \in DOMAIN e : e[i].stream = o[i].stream /\ e[i].n = o[i].n
  BY <1>2 DEF Alike
<1>4. /\ Ascending(d) /\ Ascending(o) /\ Ascending(w) /\ Precede(d, o) /\ Precede(d, w) /\ Precede(o, w)
      /\ UpTo(d, n) /\ UpTo(o, n) /\ UpTo(w, n)
      /\ \A s \in Stream : /\ IsOf(b[s], s) /\ Ascending(b[s])
                           /\ Precede(d, b[s]) /\ Precede(o, b[s]) /\ Precede(b[s], w) /\ UpTo(b[s], n)
  BY <1>1 DEF Ordered
<1>5. /\ Ascending(e) /\ Precede(d, e) /\ Precede(e, w) /\ UpTo(e, n)
      /\ \A s \in Stream : Precede(e, b[s])
  BY <1>3, <1>4 DEF Ascending, Precede, UpTo
<1>6. PICK x : x = <<>> /\ x \in Seq(Byte)
  <2>1. <<>> \in Seq(Byte)
    OBVIOUS
  <2> QED
    BY <2>1, Zenon
<1>7. Ascending(x) /\ UpTo(x, n) /\ \A p : Precede(p, x) /\ Precede(x, p)
  BY <1>6 DEF Ascending, Precede, UpTo
<1>8. PICK c : c = d \o e /\ c \in Seq(Byte) /\ Len(c) = Len(d) + Len(e)
  <2>1. d \o e \in Seq(Byte) /\ Len(d \o e) = Len(d) + Len(e)
    BY <1>2
  <2> QED
    BY <2>1, Zenon
<1>9. /\ Ascending(c) /\ Precede(c, w) /\ UpTo(c, n)
      /\ \A s \in Stream : Precede(c, b[s])
  BY <1>2, <1>4, <1>5, <1>8, Joined
<1>a. Ordered(c, x, b, w, n)
  BY <1>4, <1>7, <1>9 DEF Ordered
<1>b. Total(c, x, b, w) = Total(d, o, b, w)
  <2>1. Bytes(w) \in Seq(Byte) /\ b["stdout"] \in Seq(Byte) /\ b["stderr"] \in Seq(Byte)
    BY <1>2, BytesOf DEF Stream
  <2>2. PICK i, j, k, l, u \in Nat :
           /\ i = Len(d) /\ j = Len(o) /\ k = Len(b["stdout"]) /\ l = Len(b["stderr"])
           /\ u = Len(Bytes(w))
    BY <1>2, <2>1
  <2>3. Total(d, o, b, w) = i + j + k + l + u
    BY <2>2, Zenon DEF Total
  <2>4. Len(c) = i + j /\ Len(x) = 0
    BY <1>6, <1>8, <2>2 DEF Alike
  <2>5. Total(c, x, b, w) = (i + j) + 0 + k + l + u
    BY <2>2, <2>4, Zenon DEF Total
  <2> QED
    BY <2>3, <2>5
<1> QED
  <2>1. Way(c, x, b, w, n)
    BY <1>1, <1>2, <1>6, <1>8, <1>a, <1>b DEF Way, Typed
  <2> QED
    BY <1>6, <1>8, <2>1, Zenon

(* Packets arrive behind those that are there.                               *)
LEMMA WayArrives ==
    ASSUME NEW d, NEW o, NEW b, NEW w, NEW n, Way(d, o, b, w, n),
           NEW x \in Packet, NEW m \in Nat,
           \/ x \in Byte /\ m = n + 1 /\ x.n = m
           \/ x = Eof /\ m = n
    PROVE  Way(d, o, b, Append(w, x), m)
<1>1. Typed(d, o, b, w, n) /\ Ordered(d, o, b, w, n) /\ Total(d, o, b, w) = n
  BY DEF Way
<1>2. /\ d \in Seq(Byte) /\ o \in Seq(Byte) /\ b \in [Stream -> Seq(Byte)]
      /\ w \in Seq(Packet) /\ n \in Nat
      /\ d \in Seq(Packet) /\ o \in Seq(Packet)
      /\ \A s \in Stream : b[s] \in Seq(Packet)
  BY <1>1, ByteIsPacket DEF Typed
<1>3. PICK v : /\ v = Append(w, x) /\ v \in Seq(Packet) /\ DOMAIN v = 1 .. Len(w) + 1
               /\ v[Len(w) + 1] = x /\ \A i \in 1 .. Len(w) : v[i] = w[i]
  <2>1. /\ Append(w, x) \in Seq(Packet) /\ DOMAIN Append(w, x) = 1 .. Len(w) + 1
        /\ Append(w, x)[Len(w) + 1] = x /\ \A i \in 1 .. Len(w) : Append(w, x)[i] = w[i]
    BY <1>2
  <2> QED
    BY <2>1, Zenon
<1>a. DOMAIN w = 1 .. Len(w) /\ Len(w) \in Nat
  BY <1>2
<1>4. /\ Ascending(d) /\ Ascending(o) /\ Ascending(w) /\ Precede(d, o) /\ Precede(d, w) /\ Precede(o, w)
      /\ UpTo(d, n) /\ UpTo(o, n) /\ UpTo(w, n)
      /\ \A s \in Stream : /\ IsOf(b[s], s) /\ Ascending(b[s])
                           /\ Precede(d, b[s]) /\ Precede(o, b[s]) /\ Precede(b[s], w) /\ UpTo(b[s], n)
  BY <1>1 DEF Ordered
<1>5. ASSUME NEW p \in Seq(Packet), UpTo(p, n) PROVE UpTo(p, m)
  <2> SUFFICES ASSUME NEW i \in DOMAIN p PROVE p[i].n <= m
    BY DEF UpTo
  <2>1. p[i] \in Packet /\ p[i].n <= n
    BY <1>5 DEF UpTo
  <2>2. p[i].n \in Nat
    BY <2>1 DEF Packet, Byte, Eof
  <2> QED
    BY <1>2, <2>1, <2>2
(* Nothing written before is of the stream of the end; a byte is the last.   *)
<1>6. ASSUME NEW p \in Seq(Packet), UpTo(p, n), NEW i \in DOMAIN p, p[i].stream = x.stream,
             p[i].stream \in Stream
      PROVE  p[i].n < x.n
  <2>1. p[i] \in Packet /\ p[i].n <= n
    BY <1>6 DEF UpTo
  <2>2. p[i].n \in Nat
    BY <2>1 DEF Packet, Byte, Eof
  <2>3. x.n = n + 1
    BY <1>6 DEF Eof, Stream
  <2> QED
    BY <1>2, <2>1, <2>2, <2>3
<1>7. ASSUME NEW p \in Seq(Packet), UpTo(p, n), Precede(p, w) PROVE Precede(p, v)
  <2> SUFFICES ASSUME NEW i \in DOMAIN p, NEW j \in DOMAIN v, p[i].stream = v[j].stream,
                      p[i].stream \in Stream
               PROVE  p[i].n < v[j].n
    BY DEF Precede
  <2>1. CASE j \in 1 .. Len(w)
    BY <1>3, <1>7, <1>a, <2>1 DEF Precede
  <2>2. CASE j = Len(w) + 1
    BY <1>3, <1>6, <1>7, <2>2
  <2> QED
    BY <1>3, <1>a, <2>1, <2>2
<1>8. Ascending(v)
  <2> SUFFICES ASSUME NEW i \in DOMAIN v, NEW j \in DOMAIN v, i < j, v[i].stream = v[j].stream,
                      v[i].stream \in Stream
               PROVE  v[i].n < v[j].n
    BY DEF Ascending
  <2>1. i \in 1 .. Len(w) /\ v[i] = w[i]
    BY <1>3, <1>a
  <2>2. CASE j \in 1 .. Len(w)
    BY <1>3, <1>4, <1>a, <2>1, <2>2 DEF Ascending
  <2>3. CASE j = Len(w) + 1
    BY <1>2, <1>3, <1>4, <1>6, <1>a, <2>1, <2>3
  <2> QED
    BY <1>3, <1>a, <2>2, <2>3
<1>9. UpTo(v, m)
  <2> SUFFICES ASSUME NEW i \in DOMAIN v PROVE v[i].n <= m
    BY DEF UpTo
  <2>1. CASE i \in 1 .. Len(w)
    <3>1. UpTo(w, m)
      BY <1>2, <1>4, <1>5
    <3> QED
      BY <1>3, <1>a, <2>1, <3>1 DEF UpTo
  <2>2. CASE i = Len(w) + 1
    BY <1>3, <2>2 DEF Eof
  <2> QED
    BY <1>3, <1>a, <2>1, <2>2
<1>b. Ordered(d, o, b, v, m)
  BY <1>2, <1>4, <1>5, <1>7, <1>8, <1>9 DEF Ordered
<1>c. Len(Bytes(v)) = IF x = Eof THEN Len(Bytes(w)) ELSE Len(Bytes(w)) + 1
  <2> DEFINE keep == {i \in DOMAIN w : w[i] # Eof}
             later == {i \in DOMAIN v : v[i] # Eof}
  <2>1. later \cap DOMAIN w = keep \cap DOMAIN w
    BY <1>3, <1>a
  <2>2. Len(w) + 1 \in later <=> x # Eof
    BY <1>3, <1>a
  <2> HIDE DEF keep, later
  <2>3. Kept(Append(w, x), later) = IF Len(w) + 1 \in later THEN Append(Kept(w, keep), x) ELSE Kept(w, keep)
    BY <1>2, <2>1, KeptAppend
  <2>4. Kept(w, keep) \in Seq(Packet)
    BY <1>2, KeptWithin
  <2>5. Len(Kept(v, later)) = IF x = Eof THEN Len(Kept(w, keep)) ELSE Len(Kept(w, keep)) + 1
    <3>1. Len(Append(Kept(w, keep), x)) = Len(Kept(w, keep)) + 1
      BY <2>4
    <3> QED
      BY <1>3, <2>2, <2>3, <3>1, Zenon
  <2> QED
    BY <2>5, Zenon DEF Bytes, keep, later
<1>d. Total(d, o, b, v) = m
  <2>1. Bytes(w) \in Seq(Byte) /\ b["stdout"] \in Seq(Byte) /\ b["stderr"] \in Seq(Byte)
    BY <1>2, BytesOf DEF Stream
  <2>2. PICK i, j, k, l, u \in Nat :
           /\ i = Len(d) /\ j = Len(o) /\ k = Len(b["stdout"]) /\ l = Len(b["stderr"])
           /\ u = Len(Bytes(w))
    BY <1>2, <2>1
  <2>3. n = i + j + k + l + u
    BY <1>1, <2>2, Zenon DEF Total
  <2>4. x = Eof <=> m = n
    BY <1>2 DEF Byte, Eof, Stream
  <2>5. CASE x = Eof
    <3>1. Total(d, o, b, v) = i + j + k + l + u
      BY <1>c, <2>2, <2>5, Zenon DEF Total
    <3> QED
      BY <2>3, <2>4, <2>5, <3>1
  <2>6. CASE x # Eof
    <3>1. Total(d, o, b, v) = i + j + k + l + (u + 1)
      BY <1>c, <2>2, <2>6, Zenon DEF Total
    <3>2. m = n + 1
      BY <2>6
    <3> QED
      BY <2>3, <3>1, <3>2
  <2> QED
    BY <2>5, <2>6
<1> QED
  <2>1. Way(d, o, b, v, m)
    BY <1>2, <1>3, <1>b, <1>d DEF Way, Typed
  <2> QED
    BY <1>3, <2>1, Zenon

(* All of it, put together, is in the order of the streams.                  *)
LEMMA WayTogether ==
    ASSUME NEW d, NEW o, NEW b, NEW w, NEW n, Way(d, o, b, w, n)
    PROVE  LET all == d \o o \o b["stdout"] \o b["stderr"] \o Bytes(w)
           IN  Len(all) = n /\ InOrder(all)
<1> DEFINE p == b["stdout"]
           q == b["stderr"]
           r == Bytes(w)
<1>1. Typed(d, o, b, w, n) /\ Ordered(d, o, b, w, n) /\ Total(d, o, b, w) = n
  BY DEF Way
<1>2. /\ d \in Seq(Byte) /\ o \in Seq(Byte) /\ p \in Seq(Byte) /\ q \in Seq(Byte)
      /\ r \in Seq(Byte) /\ w \in Seq(Packet) /\ Within(r, w)
  BY <1>1, BytesOf DEF Typed, Stream
<1>3. /\ d \in Seq(Packet) /\ o \in Seq(Packet) /\ p \in Seq(Packet) /\ q \in Seq(Packet)
      /\ r \in Seq(Packet)
  BY <1>2, ByteIsPacket
<1>4. Total(d, o, b, w) = Len(d) + Len(o) + Len(p) + Len(q) + Len(r)
  BY DEF Total
<1>5. /\ Ascending(d) /\ Ascending(o) /\ Ascending(w) /\ Precede(d, o) /\ Precede(d, w) /\ Precede(o, w)
      /\ Ascending(p) /\ Precede(d, p) /\ Precede(o, p) /\ Precede(p, w) /\ IsOf(p, "stdout")
      /\ Ascending(q) /\ Precede(d, q) /\ Precede(o, q) /\ Precede(q, w) /\ IsOf(q, "stderr")
  BY <1>1 DEF Ordered, Stream
<1> HIDE DEF p, q, r
<1>6. Precede(p, q)
  BY <1>5 DEF IsOf, Precede
<1>7. Ascending(r) /\ Precede(d, r) /\ Precede(o, r) /\ Precede(p, r) /\ Precede(q, r)
  BY <1>2, <1>3, <1>5, WithinOrdered
<1>8. PICK x : x = d \o o /\ x \in Seq(Byte) /\ Len(x) = Len(d) + Len(o)
  <2>1. d \o o \in Seq(Byte) /\ Len(d \o o) = Len(d) + Len(o)
    BY <1>2
  <2> QED
    BY <2>1, Zenon
<1>9. PICK y : y = x \o p /\ y \in Seq(Byte) /\ Len(y) = Len(x) + Len(p)
  <2>1. x \o p \in Seq(Byte) /\ Len(x \o p) = Len(x) + Len(p)
    BY <1>2, <1>8
  <2> QED
    BY <2>1, Zenon
<1>a. PICK z : z = y \o q /\ z \in Seq(Byte) /\ Len(z) = Len(y) + Len(q)
  <2>1. y \o q \in Seq(Byte) /\ Len(y \o q) = Len(y) + Len(q)
    BY <1>2, <1>9
  <2> QED
    BY <2>1, Zenon
<1>b. PICK all : all = z \o r /\ all \in Seq(Byte) /\ Len(all) = Len(z) + Len(r)
  <2>1. z \o r \in Seq(Byte) /\ Len(z \o r) = Len(z) + Len(r)
    BY <1>2, <1>a
  <2> QED
    BY <2>1, Zenon
<1>c. x \in Seq(Packet) /\ y \in Seq(Packet) /\ z \in Seq(Packet)
  BY <1>8, <1>9, <1>a, ByteIsPacket
<1>d. Ascending(x) /\ Precede(x, p) /\ Precede(x, q) /\ Precede(x, r)
  BY <1>3, <1>5, <1>7, <1>8, Joined
<1>e. Ascending(y) /\ Precede(y, q) /\ Precede(y, r)
  BY <1>3, <1>5, <1>6, <1>7, <1>9, <1>c, <1>d, Joined
<1>f. Ascending(z) /\ Precede(z, r)
  BY <1>3, <1>5, <1>7, <1>a, <1>c, <1>e, Joined
<1>g. Ascending(all)
  BY <1>3, <1>7, <1>b, <1>c, <1>f, Joined
<1>h. InOrder(all)
  <2>1. \A i \in DOMAIN all : all[i].stream \in Stream
    <3>1. \A i \in DOMAIN all : all[i] \in Byte
      BY <1>b
    <3> QED
      BY <3>1 DEF Byte
  <2> QED
    BY <1>g, <2>1 DEF Ascending, InOrder
<1>i. Len(all) = n
  <2>1. PICK i, j, k, l, u \in Nat :
           i = Len(d) /\ j = Len(o) /\ k = Len(p) /\ l = Len(q) /\ u = Len(r)
    BY <1>2
  <2>2. n = i + j + k + l + u
    BY <1>1, <1>4, <2>1, Zenon
  <2>3. Len(all) = i + j + k + l + u
    BY <1>8, <1>9, <1>a, <1>b, <2>1, Zenon
  <2> QED
    BY <2>2, <2>3
<1> QED
  BY <1>8, <1>9, <1>a, <1>b, <1>h, <1>i, Zenon DEF p, q, r

-------------------------------------------------------------------------------
(* The actions.                                                              *)

(* Decoding marks halves of characters; no byte comes, goes or moves.        *)
LEMMA DecodedAlike ==
    ASSUME NEW text \in Seq(Byte)
    PROVE  Decoded(text) \in Seq(Byte) /\ Alike(Decoded(text), text)
<1> DEFINE Turned(i) == IF \/ text[i].part = "first" /\ i = Len(text)
                           \/ text[i].part = "second" /\ i = 1
                        THEN [text[i] EXCEPT !.part = "replaced"] ELSE text[i]
<1>1. Decoded(text) = [i \in 1 .. Len(text) |-> Turned(i)]
  BY DEF Decoded
<1>2. ASSUME NEW i \in 1 .. Len(text)
      PROVE  Turned(i) \in Byte /\ Turned(i).stream = text[i].stream /\ Turned(i).n = text[i].n
  <2>1. text[i] \in Byte
    OBVIOUS
  <2> QED
    BY <2>1 DEF Byte
<1> HIDE DEF Turned
<1>3. Decoded(text) \in Seq(Byte) /\ Len(Decoded(text)) = Len(text)
  BY <1>1, <1>2
<1>4. \A i \in 1 .. Len(text) : Decoded(text)[i] = Turned(i)
  BY <1>1
<1> QED
  BY <1>2, <1>3, <1>4 DEF Alike

(* What a poll does to the buffers and to the wire.                          *)
LEMMA Polled ==
    ASSUME TypeOK, NEW stream \in Stream, Poll(stream)
    PROVE  /\ wire' \in Seq(Packet) /\ remote_eof' \in BOOLEAN
           /\ BufferAfterPoll(stream) \in [Stream -> Seq(Byte)]
           /\ \A d, o, n : Way(d, o, buffer, wire, n) => Way(d, o, BufferAfterPoll(stream), wire', n)
<1>1. wire \in Seq(Packet) /\ buffer \in [Stream -> Seq(Byte)] /\ remote_eof \in BOOLEAN
  BY DEF TypeOK, Packet
<1>2. remote_eof' \in BOOLEAN
  BY <1>1 DEF Poll, EofAfterPoll
<1>3. CASE ~Polls(stream)
  <2>1. BufferAfterPoll(stream) = buffer /\ wire' = wire
    BY <1>1, <1>3 DEF BufferAfterPoll, Poll
  <2> QED
    BY <1>1, <1>2, <2>1
<1>4. CASE Polls(stream)
  <2>1. \A s \in Stream : Arrived(s) = Of(wire, s)
    BY DEF Arrived, Of
  <2>2. BufferAfterPoll(stream) = [s \in Stream |-> buffer[s] \o Of(wire, s)]
    BY <1>4, <2>1 DEF BufferAfterPoll
  <2>3. wire' = <<>>
    BY <1>4 DEF Poll
  <2>4. wire' \in Seq(Packet)
    BY <2>3
  <2>5. \A s \in Stream : buffer[s] \o Of(wire, s) \in Seq(Byte)
    <3>1. \A s \in Stream : buffer[s] \in Seq(Byte) /\ Of(wire, s) \in Seq(Byte)
      BY <1>1, OfStream
    <3> QED
      BY <3>1
  <2>6. BufferAfterPoll(stream) \in [Stream -> Seq(Byte)]
    BY <2>2, <2>5
  <2>7. ASSUME NEW d, NEW o, NEW n, Way(d, o, buffer, wire, n)
        PROVE  Way(d, o, BufferAfterPoll(stream), wire', n)
    <3>1. Way(d, o, [s \in Stream |-> buffer[s] \o Of(wire, s)], <<>>, n)
      BY <2>7, WayPolled
    <3> QED
      BY <2>2, <2>3, <3>1, Zenon
  <2> QED
    BY <1>2, <2>4, <2>6, <2>7
<1> QED
  BY <1>3, <1>4

(* The inductive invariant.                                                  *)
Flow ==
    /\ TypeOK
    /\ gui # "closed" => Way(shown \o FlattenSeq(texts), output, buffer, wire, sent)

(* Nothing is on the way yet.                                                *)
LEMMA FlowInit == Init => Flow
<1> SUFFICES ASSUME Init PROVE Flow
  OBVIOUS
<1>1. TypeOK
  <2>1. <<>> \in Seq(Byte \cup {Eof}) /\ <<>> \in Seq(Byte) /\ <<>> \in Seq(Seq(Byte))
    OBVIOUS
  <2>2. /\ wire \in Seq(Byte \cup {Eof}) /\ output \in Seq(Byte) /\ texts \in Seq(Seq(Byte))
        /\ shown \in Seq(Byte) /\ (pc = "idle" => output = <<>>)
    BY <2>1, Zenon DEF Init
  <2>3. buffer \in [Stream -> Seq(Byte)]
    BY <2>1 DEF Init
  <2>4. 0 \in 0 .. MaxSent /\ 0 \in 0 .. MaxResizes
    BY SessionAssumption
  <2>5. /\ gui \in {"new", "open", "closing", "closed"}
        /\ pc \in {"idle", "stdout", "stderr", "stopped"}
        /\ sent \in 0 .. MaxSent /\ half \subseteq Stream /\ ended \in BOOLEAN
        /\ remote_eof \in BOOLEAN
        /\ screen_size \in Sizes /\ resizes \in 0 .. MaxResizes
        /\ size \in Sizes /\ remote_size \in Sizes
    BY <2>4 DEF Init
  <2> QED
    BY <2>2, <2>3, <2>5 DEF TypeOK
<1>2. PICK e : e = <<>> /\ e \in Seq(Byte) /\ e \in Seq(Packet) /\ Len(e) = 0 /\ DOMAIN e = {}
  <2>1. <<>> \in Seq(Byte) /\ <<>> \in Seq(Packet) /\ Len(<<>>) = 0 /\ DOMAIN <<>> = {}
    OBVIOUS
  <2> QED
    BY <2>1, Zenon
<1>3. shown \o FlattenSeq(texts) = e
  <2>1. shown = <<>> /\ texts = <<>>
    BY DEF Init
  <2>2. FlattenSeq(texts) = <<>>
    BY <2>1 DEF FlattenSeq
  <2>3. <<>> \o <<>> = <<>>
    OBVIOUS
  <2> QED
    BY <1>2, <2>1, <2>2, <2>3, Zenon
<1>4. output = e /\ wire = e /\ sent = 0 /\ buffer = [s \in Stream |-> e]
  BY <1>2, Zenon DEF Init
<1>5. Typed(e, e, buffer, e, 0)
  BY <1>2, <1>4 DEF Typed
<1>6. Ordered(e, e, buffer, e, 0)
  BY <1>2, <1>4 DEF Ordered, Ascending, Precede, UpTo, IsOf
<1>7. Total(e, e, buffer, e) = 0
  <2>1. Len(Bytes(e)) = 0
    BY <1>2, NothingKept, Zenon DEF Bytes
  <2>2. Len(buffer["stdout"]) = 0 /\ Len(buffer["stderr"]) = 0
    BY <1>2, <1>4 DEF Stream
  <2>3. Total(e, e, buffer, e) = 0 + 0 + 0 + 0 + 0
    BY <1>2, <2>1, <2>2, Zenon DEF Total
  <2> QED
    BY <2>3
<1> QED
  BY <1>1, <1>3, <1>4, <1>5, <1>6, <1>7 DEF Flow, Way

(* Reading, posting, showing and resizing preserve it.                       *)
LEMMA FlowStep == ASSUME Flow, [Next]_vars PROVE Flow'
<1> DEFINE Delivered == shown \o FlattenSeq(texts)
<1>0. /\ TypeOK /\ gui \in {"new", "open", "closing", "closed"}
      /\ shown \in Seq(Byte) /\ texts \in Seq(Seq(Byte)) /\ output \in Seq(Byte)
      /\ wire \in Seq(Packet) /\ buffer \in [Stream -> Seq(Byte)] /\ sent \in 0 .. MaxSent
      /\ MaxSent \in Nat /\ MaxResizes \in Nat
      /\ gui # "closed" => Way(Delivered, output, buffer, wire, sent)
  BY SessionAssumption DEF Flow, TypeOK, Packet
<1>t. /\ pc \in {"idle", "stdout", "stderr", "stopped"} /\ half \subseteq Stream /\ ended \in BOOLEAN
      /\ remote_eof \in BOOLEAN /\ screen_size \in Sizes /\ resizes \in 0 .. MaxResizes
      /\ size \in Sizes /\ remote_size \in Sizes /\ (pc = "idle" => output = <<>>)
  BY DEF Flow, TypeOK
<1> HIDE DEF Delivered
(* The bytes are left alone.                                                 *)
<1>1. ASSUME UNCHANGED <<shown, texts, output, buffer, wire, sent, half, remote_eof>>,
             gui' \in {"new", "open", "closing", "closed"},
             pc' \in {"idle", "stdout", "stderr", "stopped"}, ended' \in BOOLEAN,
             screen_size' \in Sizes, resizes' \in 0 .. MaxResizes, size' \in Sizes,
             remote_size' \in Sizes,
             pc' = "idle" => pc = "idle", gui' # "closed" => gui # "closed"
      PROVE  Flow'
  <2>1. TypeOK'
    BY <1>0, <1>1, <1>t DEF TypeOK, Packet
  <2>2. Delivered' = Delivered
    BY <1>1 DEF Delivered
  <2>3. gui' # "closed" => Way(Delivered, output, buffer, wire, sent)
    BY <1>0, <1>1
  <2>4. gui' # "closed" => Way(Delivered', output', buffer', wire', sent')
    BY <1>1, <2>2, <2>3
  <2> QED
    BY <2>1, <2>4 DEF Flow, Delivered
(* Only the bytes move: between the buffers, the read and the queue.         *)
<1>2. ASSUME UNCHANGED <<gui, sent, half, ended, screen_size, resizes, size, remote_size>>,
             wire' \in Seq(Packet), buffer' \in [Stream -> Seq(Byte)], remote_eof' \in BOOLEAN,
             output' \in Seq(Byte), texts' \in Seq(Seq(Byte)), shown' \in Seq(Byte),
             pc' \in {"idle", "stdout", "stderr", "stopped"}, pc' = "idle" => output' = <<>>,
             gui # "closed" => Way(Delivered', output', buffer', wire', sent)
      PROVE  Flow'
  <2>1. TypeOK'
    BY <1>0, <1>2, <1>t DEF TypeOK, Packet
  <2>2. gui' # "closed" => Way(Delivered', output', buffer', wire', sent')
    BY <1>2
  <2> QED
    BY <2>1, <2>2 DEF Flow, Delivered
<1>3. ASSUME NEW stream \in Stream, ShellWrites(stream) PROVE Flow'
  <2>1. PICK part \in {"all", "first", "second"} :
           /\ wire' = Append(wire, [stream |-> stream, n |-> sent + 1, part |-> part])
           /\ half' = IF part = "first" THEN half \cup {stream} ELSE half \ {stream}
    BY <1>3 DEF ShellWrites
  <2>2. /\ sent < MaxSent /\ sent' = sent + 1
        /\ UNCHANGED <<gui, pc, ended, buffer, remote_eof, output, texts, shown>>
        /\ UNCHANGED <<screen_size, resizes, size, remote_size>>
    BY <1>3 DEF ShellWrites, sizeVars
  <2> DEFINE x == [stream |-> stream, n |-> sent + 1, part |-> part]
  <2>3. sent' \in 0 .. MaxSent /\ sent' \in Nat /\ sent \in Nat /\ sent + 1 \in 1 .. MaxSent
    BY <1>0, <2>2
  <2>4. x \in Byte /\ x \in Packet /\ x.n = sent'
    BY <2>2, <2>3 DEF Byte, Packet
  <2> HIDE DEF x
  <2>5. wire' = Append(wire, x)
    BY <2>1 DEF x
  <2>6. wire' \in Seq(Packet)
    BY <1>0, <2>4, <2>5
  <2>7. half' \subseteq Stream
    BY <1>t, <2>1
  <2>8. TypeOK'
    BY <1>0, <1>t, <2>2, <2>3, <2>6, <2>7 DEF TypeOK, Packet
  <2>9. Delivered' = Delivered
    BY <2>2 DEF Delivered
  <2>a. gui # "closed" => Way(Delivered, output, buffer, Append(wire, x), sent')
    BY <1>0, <2>2, <2>3, <2>4, WayArrives
  <2>b. gui' # "closed" => Way(Delivered', output', buffer', wire', sent')
    BY <2>2, <2>5, <2>9, <2>a
  <2> QED
    BY <2>8, <2>b DEF Flow, Delivered
<1>4. CASE ShellExits
  <2>1. /\ ended' = TRUE /\ wire' = Append(wire, Eof)
        /\ UNCHANGED <<gui, pc, sent, half, buffer, remote_eof, output, texts, shown>>
        /\ UNCHANGED <<screen_size, resizes, size, remote_size>>
    BY <1>4 DEF ShellExits, sizeVars
  <2>2. Eof \in Packet /\ sent \in Nat
    BY <1>0 DEF Packet
  <2>3. wire' \in Seq(Packet)
    BY <1>0, <2>1, <2>2
  <2>4. TypeOK'
    BY <1>0, <1>t, <2>1, <2>3 DEF TypeOK, Packet
  <2>5. Delivered' = Delivered
    BY <2>1 DEF Delivered
  <2>6. gui # "closed" => Way(Delivered, output, buffer, Append(wire, Eof), sent)
    BY <1>0, <2>2, WayArrives
  <2>7. gui' # "closed" => Way(Delivered', output', buffer', wire', sent')
    BY <2>1, <2>5, <2>6
  <2> QED
    BY <2>4, <2>7 DEF Flow, Delivered
<1>5. CASE add_text
  <2>1. /\ texts # <<>> /\ shown' = shown \o Head(texts) /\ texts' = Tail(texts)
        /\ UNCHANGED <<gui, pc, wire, buffer, remote_eof, output, sent, half, ended>>
        /\ UNCHANGED <<screen_size, resizes, size, remote_size>>
    BY <1>5 DEF add_text, remoteVars, sizeVars
  <2>2. Head(texts) \in Seq(Byte) /\ Tail(texts) \in Seq(Seq(Byte))
    BY <1>0, <2>1
  <2>3. shown' \in Seq(Byte) /\ texts' \in Seq(Seq(Byte))
    BY <1>0, <2>1, <2>2
  <2>4. Delivered' = Delivered
    <3>1. FlattenSeq(texts) = Head(texts) \o FlattenSeq(Tail(texts))
      BY <1>0, <2>1, FlattenHead
    <3>2. FlattenSeq(Tail(texts)) \in Seq(Byte)
      BY <2>2, Flat
    <3>3. \A u, v, w \in Seq(Byte) : (u \o v) \o w = u \o (v \o w)
      OBVIOUS
    <3>4. (shown \o Head(texts)) \o FlattenSeq(Tail(texts)) = shown \o (Head(texts) \o FlattenSeq(Tail(texts)))
      BY <1>0, <2>2, <3>2, <3>3
    <3> QED
      BY <2>1, <3>1, <3>4, Zenon DEF Delivered
  <2>5. gui # "closed" => Way(Delivered', output', buffer', wire', sent)
    BY <1>0, <2>1, <2>4
  <2> QED
    BY <1>0, <1>2, <1>t, <2>1, <2>3, <2>5
<1>6. CASE ScreenClosed
  <2>1. /\ gui' = "closed" /\ texts' = <<>> /\ resizes' = 0
        /\ UNCHANGED <<pc, wire, buffer, remote_eof, output, shown, screen_size, size, remote_size>>
        /\ UNCHANGED <<sent, half, ended>>
    BY <1>6 DEF ScreenClosed, remoteVars
  <2>2. texts' \in Seq(Seq(Byte)) /\ resizes' \in 0 .. MaxResizes
    BY <1>0, <2>1
  <2>3. TypeOK'
    BY <1>0, <1>t, <2>1, <2>2 DEF TypeOK, Packet
  <2> QED
    BY <2>1, <2>3 DEF Flow
<1>7. CASE check_for_data
  <2>1. /\ pc = "idle" /\ pc' = "stdout" /\ output' = <<>>
        /\ UNCHANGED <<gui, wire, buffer, remote_eof, texts, shown, sent, half, ended>>
        /\ UNCHANGED <<screen_size, resizes, size, remote_size>>
    BY <1>7 DEF check_for_data, remoteVars, sizeVars
  <2>2. output' = output
    BY <1>t, <2>1
  <2> QED
    BY <1>0, <1>1, <1>t, <2>1, <2>2
<1>8. ASSUME NEW stream \in Stream, read(stream) PROVE Flow'
  <2> DEFINE b == BufferAfterPoll(stream)
  <2>1. /\ Poll(stream) /\ pc = stream
        /\ UNCHANGED <<gui, shown, sent, half, ended, screen_size, resizes, size, remote_size>>
    BY <1>8 DEF read, ReadByte, ReadEof, ReadDone, remoteVars, sizeVars
  <2>2. /\ wire' \in Seq(Packet) /\ remote_eof' \in BOOLEAN /\ b \in [Stream -> Seq(Byte)]
        /\ gui # "closed" => Way(Delivered, output, b, wire', sent)
    BY <1>0, <2>1, Polled
  <2>3. stream \in {"stdout", "stderr"}
    BY DEF Stream
  <2>4. CASE ReadByte(stream)
    <3>1. /\ b[stream] # <<>> /\ output' = Append(output, Head(b[stream]))
          /\ buffer' = [b EXCEPT ![stream] = Tail(b[stream])]
          /\ UNCHANGED <<pc, texts>>
      BY <2>4 DEF ReadByte
    <3> HIDE DEF b
    <3>2. b[stream] \in Seq(Byte)
      BY <2>2
    <3>3. Head(b[stream]) \in Byte /\ Tail(b[stream]) \in Seq(Byte)
      BY <3>1, <3>2
    <3>4. output' \in Seq(Byte) /\ buffer' \in [Stream -> Seq(Byte)]
      BY <1>0, <2>2, <3>1, <3>3
    <3>5. gui # "closed" => Way(Delivered, Append(output, Head(b[stream])),
                                [b EXCEPT ![stream] = Tail(b[stream])], wire', sent)
      BY <2>2, <3>1, WayRead
    <3>6. Delivered' = Delivered
      BY <2>1, <3>1 DEF Delivered
    <3>7. gui # "closed" => Way(Delivered', output', buffer', wire', sent)
      BY <3>1, <3>5, <3>6, Zenon
    <3>8. pc' \in {"idle", "stdout", "stderr", "stopped"} /\ pc' # "idle"
      BY <2>1, <2>3, <3>1
    <3> QED
      BY <1>0, <1>2, <2>1, <2>2, <3>1, <3>4, <3>7, <3>8
  <2>5. CASE ReadEof(stream)
    <3>1. buffer' = b /\ UNCHANGED <<pc, output, texts>>
      BY <2>5 DEF ReadEof
    <3> HIDE DEF b
    <3>2. Delivered' = Delivered
      BY <2>1, <3>1 DEF Delivered
    <3>3. gui # "closed" => Way(Delivered', output', buffer', wire', sent)
      BY <2>2, <3>1, <3>2, Zenon
    <3>4. pc' \in {"idle", "stdout", "stderr", "stopped"} /\ pc' # "idle"
      BY <2>1, <2>3, <3>1
    <3> QED
      BY <1>0, <1>2, <2>1, <2>2, <3>1, <3>3, <3>4
  <2>6. CASE ReadDone(stream)
    <3>1. /\ buffer' = b /\ output' = <<>> /\ pc' = AfterStream(stream)
          /\ texts' = IF output = <<>> THEN texts ELSE Append(texts, Decoded(output))
      BY <2>6 DEF ReadDone, OutputAfter, Posted
    <3> HIDE DEF b
    <3>2. Decoded(output) \in Seq(Byte) /\ Alike(Decoded(output), output)
      BY <1>0, DecodedAlike
    <3>3. texts' \in Seq(Seq(Byte))
      BY <1>0, <3>1, <3>2
    <3>4. pc' \in {"idle", "stdout", "stderr", "stopped"}
      BY <3>1 DEF AfterStream
    <3>5. output' \in Seq(Byte)
      BY <3>1
    <3>6. gui # "closed" => Way(Delivered', output', buffer', wire', sent)
      <4>1. CASE output = <<>>
        <5>1. Delivered' = Delivered /\ output' = output
          BY <2>1, <3>1, <4>1 DEF Delivered
        <5> QED
          BY <2>2, <3>1, <5>1, Zenon
      <4>2. CASE output # <<>>
        <5>1. FlattenSeq(Append(texts, Decoded(output))) = FlattenSeq(texts) \o Decoded(output)
          BY <1>0, <3>2, FlattenAppend
        <5>2. FlattenSeq(texts) \in Seq(Byte)
          BY <1>0, Flat
        <5>3. \A u, v, w \in Seq(Byte) : (u \o v) \o w = u \o (v \o w)
          OBVIOUS
        <5>4. shown \o (FlattenSeq(texts) \o Decoded(output)) = Delivered \o Decoded(output)
          BY <1>0, <3>2, <5>2, <5>3 DEF Delivered
        <5>5. Delivered' = Delivered \o Decoded(output)
          BY <2>1, <3>1, <4>2, <5>1, <5>4, Zenon DEF Delivered
        <5>6. gui # "closed" => Way(Delivered \o Decoded(output), <<>>, b, wire', sent)
          BY <2>2, <3>2, WayPosted
        <5> QED
          BY <3>1, <5>5, <5>6, Zenon
      <4> QED
        BY <4>1, <4>2
    <3> QED
      BY <1>0, <1>2, <2>1, <2>2, <3>1, <3>3, <3>4, <3>5, <3>6
  <2> QED
    BY <1>8, <2>4, <2>5, <2>6 DEF read
<1>9. CASE \/ set_server
           \/ \E new_size \in Sizes : WindowResized(new_size)
           \/ CloseScreen
           \/ ThreadStops
           \/ set_size
           \/ UNCHANGED vars
  <2>1. UNCHANGED <<shown, texts, output, buffer, wire, sent, half, remote_eof, ended>>
    BY <1>9 DEF set_server, WindowResized, CloseScreen, ThreadStops, set_size, vars, remoteVars, sizeVars
  <2>2. /\ gui' \in {"new", "open", "closing", "closed"}
        /\ pc' \in {"idle", "stdout", "stderr", "stopped"}
        /\ pc' = "idle" => pc = "idle"
        /\ gui' # "closed" => gui # "closed"
    BY <1>0, <1>9, <1>t DEF set_server, WindowResized, CloseScreen, ThreadStops, set_size, vars
  <2>3. /\ screen_size' \in Sizes /\ resizes' \in 0 .. MaxResizes /\ size' \in Sizes
        /\ remote_size' \in Sizes
    BY <1>0, <1>9, <1>t DEF set_server, WindowResized, CloseScreen, ThreadStops, set_size, vars, sizeVars,
       RemoteTold
  <2> QED
    BY <1>1, <1>t, <2>1, <2>2, <2>3
<1> QED
  BY <1>3, <1>4, <1>5, <1>6, <1>7, <1>8, <1>9 DEF Next, GuiThread, PtyThread, Shell

(* The bytes of the terminal, of the queued signals, of libssh and of the    *)
(* wire are bytes of the two streams, and a thread between two events has    *)
(* gathered nothing.                                                         *)
THEOREM TypesHold == Spec => []TypeOK
<1>1. Flow => TypeOK
  BY DEF Flow
<1> QED
  BY <1>1, FlowInit, FlowStep, PTL DEF Spec

(* Every byte the remote shell wrote is in exactly one place between the     *)
(* network and the terminal, and the bytes of one stream are in the order    *)
(* they were written, however the reads of the Pty's thread, its queued      *)
(* signals and the packets interleave.                                       *)
THEOREM NothingLostOnTheWay == Spec => []TextKept
<1>1. Flow => TextKept
  <2> SUFFICES ASSUME Flow, gui # "closed" PROVE Len(InTransit) = sent /\ InOrder(InTransit)
    BY DEF TextKept
  <2> DEFINE d == shown \o FlattenSeq(texts)
  <2>1. Way(d, output, buffer, wire, sent)
    BY DEF Flow
  <2>2. InTransit = d \o output \o buffer["stdout"] \o buffer["stderr"] \o Bytes(wire)
    BY Zenon DEF InTransit, Bytes
  <2> HIDE DEF d
  <2> QED
    BY <2>1, <2>2, WayTogether
<1> QED
  BY <1>1, FlowInit, FlowStep, PTL DEF Spec

(* The thread that saw the end of the channel is in a read, and stands still *)
(* in it; a page is closed only after its thread has stopped.                *)
HeldByEnd ==
    /\ remote_eof => pc \in Stream
    /\ gui = "closed" => pc = "stopped"

(* A read that has seen the end of the channel has no last turn.             *)
LEMMA EndHolds ==
    ASSUME HeldByEnd, [Next]_vars
    PROVE  HeldByEnd' /\ (remote_eof => remote_eof' /\ pc' = pc)
<1> USE DEF HeldByEnd
<1>1. pc \in Stream => pc # "idle" /\ pc # "stopped"
  BY DEF Stream
<1>2. CASE \E stream \in Stream : ReadByte(stream) \/ ReadEof(stream)
  <2>1. pc \in Stream /\ UNCHANGED <<gui, pc>> /\ (remote_eof => remote_eof')
    BY <1>2 DEF ReadByte, ReadEof, Poll, EofAfterPoll
  <2> QED
    BY <1>1, <2>1
<1>3. CASE \E stream \in Stream : ReadDone(stream)
  <2>1. ~remote_eof /\ ~remote_eof' /\ pc \in Stream /\ gui' = gui
    BY <1>3 DEF ReadDone, Poll, EofAfterPoll
  <2> QED
    BY <1>1, <2>1
<1>4. CASE ThreadStops \/ check_for_data \/ set_size
  <2>1. pc = "idle" /\ UNCHANGED <<gui, remote_eof>>
    BY <1>4 DEF ThreadStops, check_for_data, set_size
  <2> QED
    BY <1>1, <2>1
<1>5. CASE ScreenClosed
  <2>1. pc = "stopped" /\ UNCHANGED <<pc, remote_eof>>
    BY <1>5 DEF ScreenClosed
  <2> QED
    BY <1>1, <2>1
<1>6. CASE \/ set_server \/ (\E new_size \in Sizes : WindowResized(new_size)) \/ add_text
           \/ CloseScreen \/ Shell \/ UNCHANGED vars
  <2>1. UNCHANGED <<pc, remote_eof>> /\ (gui' = "closed" => gui = "closed")
    BY <1>6 DEF set_server, WindowResized, add_text, CloseScreen, Shell, ShellExits, ShellWrites, vars
  <2> QED
    BY <2>1
<1> QED
  BY <1>2, <1>3, <1>4, <1>5, <1>6 DEF Next, GuiThread, PtyThread, read

(* Once libssh has seen the end of the channel, the loop of Pty::read never  *)
(* ends, so that the thread handles no more events (a resize, quit), and     *)
(* ~Screen, which waits for it, does not return.  This holds for any number  *)
(* of bytes; the run about the exit of the shell shows that it happens.      *)
THEOREM EndHoldsThread ==
    Spec => /\ [](remote_eof => pc \in Stream /\ gui # "closed")
            /\ [][remote_eof => remote_eof' /\ pc' = pc]_vars
<1>1. Init => HeldByEnd
  BY DEF Init, HeldByEnd
<1>2. HeldByEnd /\ [Next]_vars => HeldByEnd' /\ [remote_eof => remote_eof' /\ pc' = pc]_vars
  BY EndHolds
<1>3. HeldByEnd => (remote_eof => pc \in Stream /\ gui # "closed")
  BY DEF HeldByEnd, Stream
<1> QED
  BY <1>1, <1>2, <1>3, PTL DEF Spec

===============================================================================
