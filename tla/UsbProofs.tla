----------------------------- MODULE UsbProofs ------------------------------
(***************************************************************************)
(* Proofs about the USB transports, for every packet size, every length of *)
(* replies and any number of packets on the wire: no byte of a reply is    *)
(* lost, doubled or moved (TxInOrder), and the stub resets only on a       *)
(* falling RTS, the safety half of ResetOnFall.                            *)
(*                                                                         *)
(* TxInOrder is about FlattenSeq, which is a recursive function.  What it  *)
(* computes is proved by least counterexample: the lengths at which a      *)
(* claim fails are a set of naturals, and its smallest member, if there is *)
(* one, contradicts the length before it.                                  *)
(***************************************************************************)
EXTENDS UsbSerial, SequenceTheorems, WellFoundedInduction, TLAPS

(***************************************************************************)
(* Flattening                                                              *)
(***************************************************************************)
\* A set of naturals that is not empty has a least member.
LEMMA LeastNatural ==
    ASSUME NEW T, T \subseteq Nat, T # {}
    PROVE  \E x \in T : \A y \in T : x <= y
  <1> DEFINE R == OpToRel(<, Nat)
  <1>1. IsWellFoundedOn(R, Nat)
    BY NatLessThanWellFounded
  <1>2. \A x, y \in Nat : x < y => <<x, y>> \in R
    BY DEF OpToRel
  <1> HIDE DEF R
  <1>3. PICK x \in T : \A y \in T : ~ (<<y, x>> \in R)
    BY <1>1, WFMin
  <1>4. ASSUME NEW y \in T PROVE x <= y
    <2>1. x \in Nat /\ y \in Nat /\ ~(y < x)
      BY <1>2, <1>3
    <2> QED BY <2>1
  <1> QED BY <1>4

\* What FlattenSeq builds up, piece by piece
Piled(w, n, f) == f = [i \in 1 .. n |-> IF i = 1 THEN w[i] ELSE f[i - 1] \o w[i]]

\* Every list of pieces can be piled up.
LEMMA PiledExists == ASSUME NEW w, NEW n \in Nat PROVE \E f : Piled(w, n, f)
  <1> DEFINE T == {k \in Nat : ~ \E f : Piled(w, k, f)}
  <1> SUFFICES ASSUME T # {} PROVE FALSE
    OBVIOUS
  <1>1. PICK m \in T : \A y \in T : m <= y
    BY LeastNatural
  <1>2. CASE m = 0
    <2> DEFINE f == [i \in 1 .. 0 |-> {}]
    <2>1. f = [i \in 1 .. 0 |-> IF i = 1 THEN w[i] ELSE f[i - 1] \o w[i]]
      OBVIOUS
    <2>2. Piled(w, 0, f)
      BY <2>1 DEF Piled
    <2> QED BY <1>1, <1>2, <2>2
  <1>3. CASE m # 0
    <2>0. m \in Nat \ {0}
      BY <1>1, <1>3
    <2>1. m - 1 \notin T /\ m - 1 \in Nat
      BY <1>1, <1>3
    <2>2. PICK f : Piled(w, m - 1, f)
      BY <2>1
    <2> DEFINE last == IF m = 1 THEN w[m] ELSE f[m - 1] \o w[m]
               g == [i \in 1 .. m |-> IF i = m THEN last ELSE f[i]]
    <2> HIDE DEF T
    <2>3. ASSUME NEW i \in 1 .. m
          PROVE  g[i] = IF i = 1 THEN w[i] ELSE g[i - 1] \o w[i]
      <3>1. CASE i = m
        <4>1. g[i] = last
          BY <3>1
        <4>2. i # 1 => g[i - 1] = f[i - 1]
          BY <2>0, <3>1
        <4> QED BY <3>1, <4>1, <4>2
      <3>2. CASE i # m
        <4>1. i \in 1 .. m - 1
          BY <2>0, <3>2
        <4>2. f[i] = IF i = 1 THEN w[i] ELSE f[i - 1] \o w[i]
          BY <2>2, <4>1 DEF Piled
        <4>3. g[i] = f[i] /\ (i # 1 => g[i - 1] = f[i - 1])
          BY <2>0, <3>2, <4>1
        <4> QED BY <4>2, <4>3
      <3> QED BY <3>1, <3>2
    <2>4. g = [i \in 1 .. m |-> g[i]]
      OBVIOUS
    <2> HIDE DEF g
    <2>5. g = [i \in 1 .. m |-> IF i = 1 THEN w[i] ELSE g[i - 1] \o w[i]]
      BY <2>3, <2>4
    <2>6. Piled(w, m, g)
      BY <2>5 DEF Piled
    <2> QED BY <1>1, <2>6 DEF T
  <1> QED BY <1>2, <1>3

\* FlattenSeq is the top of the pile.
LEMMA FlattenPiled ==
    ASSUME NEW w, Len(w) \in Nat \ {0}
    PROVE  \E f : Piled(w, Len(w), f) /\ FlattenSeq(w) = f[Len(w)]
  <1> DEFINE g == CHOOSE f : Piled(w, Len(w), f)
  <1>1. Piled(w, Len(w), g)
    BY PiledExists
  <1>2. FlattenSeq(w) = g[Len(w)]
    BY DEF FlattenSeq, Piled
  <1> QED BY <1>1, <1>2

\* Three sequences put together, in either order
Associative(B) == \A x, y, z \in B : (x \o y) \o z = x \o (y \o z)

\* The order does not matter.
LEMMA Assoc == ASSUME NEW S PROVE Associative(Seq(S))
  BY ConcatAssociative DEF Associative

\* The first n pieces are the same; the pieces are sequences; one starts a piece later.
SameStart(v, w, n) == \A i \in 1 .. n : v[i] = w[i]
Pieces(v, n, B) == \A i \in 1 .. n : v[i] \in B
OnTop(f, x, g, n) == \A k \in 1 .. n : f[k + 1] = x \o g[k]
StartsLater(v, w, n) == \A i \in 1 .. n : v[i] = w[i + 1]

\* Two piles of the same pieces agree, so far as they both go.
LEMMA PiledAgree ==
    ASSUME NEW v, NEW w, NEW n \in Nat, NEW f, NEW g,
           Piled(v, n, f), Piled(w, n + 1, g), SameStart(v, w, n)
    PROVE  SameStart(f, g, n)
  <1> DEFINE T == {k \in 1 .. n : f[k] # g[k]}
  <1> SUFFICES ASSUME T # {} PROVE FALSE
    BY DEF SameStart
  <1>0. T \subseteq Nat
    OBVIOUS
  <1>1. PICK k \in T : \A y \in T : k <= y
    <2> HIDE DEF T
    <2> QED BY <1>0, LeastNatural
  <1>2. k \in 1 .. n /\ k \in 1 .. n + 1 /\ v[k] = w[k] /\ f[k] # g[k]
    BY <1>1 DEF SameStart
  <1>3. /\ f[k] = IF k = 1 THEN v[k] ELSE f[k - 1] \o v[k]
        /\ g[k] = IF k = 1 THEN w[k] ELSE g[k - 1] \o w[k]
    BY <1>2 DEF Piled
  <1>4. k # 1 /\ f[k - 1] # g[k - 1]
    BY <1>2, <1>3
  <1>5. k - 1 \in T
    BY <1>2, <1>4
  <1> QED BY <1>1, <1>2, <1>5

\* A pile of sequences is a sequence.
LEMMA PiledType ==
    ASSUME NEW S, NEW w \in Seq(Seq(S)), NEW f, Piled(w, Len(w), f)
    PROVE  \A i \in 1 .. Len(w) : f[i] \in Seq(S)
  <1> DEFINE T == {k \in 1 .. Len(w) : f[k] \notin Seq(S)}
  <1> SUFFICES ASSUME T # {} PROVE FALSE
    OBVIOUS
  <1>0. T \subseteq Nat
    OBVIOUS
  <1>1. PICK k \in T : \A y \in T : k <= y
    <2> HIDE DEF T
    <2> QED BY <1>0, LeastNatural
  <1>2. k \in 1 .. Len(w) /\ f[k] \notin Seq(S) /\ w[k] \in Seq(S)
    BY <1>1
  <1>3. f[k] = IF k = 1 THEN w[k] ELSE f[k - 1] \o w[k]
    BY <1>2 DEF Piled
  <1>4. k # 1
    BY <1>2, <1>3
  <1>5. k - 1 \in 1 .. Len(w) /\ k - 1 \notin T
    BY <1>1, <1>2, <1>4
  <1>6. f[k - 1] \in Seq(S)
    BY <1>5
  <1>7. f[k - 1] \o w[k] \in Seq(S)
    BY <1>2, <1>6, ConcatProperties
  <1> QED BY <1>2, <1>3, <1>4, <1>7

\* What is flattened is a sequence of the same elements.
LEMMA FlattenType == ASSUME NEW S, NEW w \in Seq(Seq(S)) PROVE FlattenSeq(w) \in Seq(S)
  <1>1. CASE w = <<>>
    BY <1>1 DEF FlattenSeq
  <1>2. CASE w # <<>>
    <2>1. Len(w) \in Nat \ {0}
      BY <1>2
    <2>2. PICK f : Piled(w, Len(w), f) /\ FlattenSeq(w) = f[Len(w)]
      BY <2>1, FlattenPiled
    <2> QED BY <2>1, <2>2, PiledType
  <1> QED BY <1>1, <1>2

\* No packets, no bytes
LEMMA FlattenEmpty == FlattenSeq(<<>>) = <<>>
  BY DEF FlattenSeq

\* One packet more at the end
LEMMA FlattenAppend ==
    ASSUME NEW S, NEW w \in Seq(Seq(S)), NEW b \in Seq(S)
    PROVE  FlattenSeq(Append(w, b)) = FlattenSeq(w) \o b
  <1>1. PICK v : v = Append(w, b)
    OBVIOUS
  <1>2. PICK n \in Nat : Len(w) = n
    OBVIOUS
  <1>3. /\ v \in Seq(Seq(S)) /\ Len(v) = n + 1 /\ v[n + 1] = b
        /\ \A i \in 1 .. n : w[i] = v[i]
    BY <1>1, <1>2, AppendProperties
  <1>4. PICK g : Piled(v, n + 1, g) /\ FlattenSeq(v) = g[n + 1]
    <2>1. Len(v) \in Nat \ {0}
      BY <1>3
    <2> QED BY <1>3, <2>1, FlattenPiled
  <1>5. g[n + 1] = IF n = 0 THEN b ELSE g[n] \o b
    <2>1. n + 1 \in 1 .. n + 1 /\ (n + 1) - 1 = n /\ (n + 1 = 1 <=> n = 0)
      OBVIOUS
    <2>2. g[n + 1] = IF n + 1 = 1 THEN v[n + 1] ELSE g[(n + 1) - 1] \o v[n + 1]
      BY <1>4, <2>1 DEF Piled
    <2> QED BY <1>3, <2>1, <2>2
  <1>6. CASE n = 0
    <2>1. FlattenSeq(w) = <<>>
      BY <1>2, <1>6, FlattenEmpty
    <2>2. <<>> \o b = b
      BY ConcatEmptySeq
    <2> QED BY <1>1, <1>4, <1>5, <1>6, <2>1, <2>2
  <1>7. CASE n # 0
    <2>1. PICK f : Piled(w, n, f) /\ FlattenSeq(w) = f[n]
      <3>1. Len(w) \in Nat \ {0}
        BY <1>2, <1>7
      <3> QED BY <1>2, <3>1, FlattenPiled
    <2>2. n \in 1 .. n
      BY <1>7
    <2>3. f[n] = g[n]
      <3>1. SameStart(w, v, n)
        BY <1>3 DEF SameStart
      <3>2. SameStart(f, g, n)
        BY <1>4, <2>1, <3>1, PiledAgree
      <3> QED BY <2>2, <3>2 DEF SameStart
    <2> QED BY <1>1, <1>4, <1>5, <1>7, <2>1, <2>2, <2>3
  <1> QED BY <1>6, <1>7

\* A pile that starts one piece later
LEMMA PiledShift ==
    ASSUME NEW B, Associative(B), NEW n \in Nat, NEW v, NEW w, NEW f, NEW g,
           Piled(w, n + 1, f), Piled(v, n, g), StartsLater(v, w, n),
           w[1] \in B, Pieces(v, n, B), Pieces(g, n, B)
    PROVE  OnTop(f, w[1], g, n)
  <1> DEFINE T == {k \in 1 .. n : f[k + 1] # w[1] \o g[k]}
  <1> SUFFICES ASSUME T # {} PROVE FALSE
    BY DEF OnTop
  <1>0. T \subseteq Nat
    <2>1. T \subseteq 1 .. n
      BY Zenon
    <2> HIDE DEF T
    <2> QED BY <2>1
  <1>1. PICK k \in T : \A y \in T : k <= y
    <2> HIDE DEF T
    <2> QED BY <1>0, LeastNatural
  <1>2. k \in 1 .. n /\ f[k + 1] # w[1] \o g[k]
    BY <1>1
  <1>3. k + 1 \in 1 .. n + 1 /\ k + 1 # 1 /\ (k + 1) - 1 = k
    BY <1>2
  <1>4. f[k + 1] = f[k] \o v[k]
    <2>1. f[k + 1] = f[(k + 1) - 1] \o w[k + 1]
      BY <1>3 DEF Piled
    <2>2. v[k] = w[k + 1]
      BY <1>2 DEF StartsLater
    <2> QED BY <1>3, <2>1, <2>2
  <1>5. CASE k = 1
    <2>1. g[1] = v[1]
      BY <1>2, <1>5 DEF Piled
    <2>2. f[1] = w[1]
      <3>1. 1 \in 1 .. n + 1
        OBVIOUS
      <3> QED BY <3>1 DEF Piled
    <2> QED BY <1>2, <1>4, <1>5, <2>1, <2>2
  <1>6. CASE k # 1
    <2>1. k - 1 \in 1 .. n /\ (k - 1) + 1 = k /\ ~(k <= k - 1)
      BY <1>2, <1>6
    <2>2. k - 1 \notin T
      BY <1>1, <2>1
    <2>3. f[(k - 1) + 1] = w[1] \o g[k - 1]
      BY <2>1, <2>2
    <2> HIDE DEF T
    <2>4. g[k] = g[k - 1] \o v[k]
      BY <1>2, <1>6 DEF Piled
    <2>5. w[1] \in B /\ g[k - 1] \in B /\ v[k] \in B
      BY <1>2, <2>1 DEF Pieces
    <2>6. (w[1] \o g[k - 1]) \o v[k] = w[1] \o (g[k - 1] \o v[k])
      BY <2>5 DEF Associative
    <2> QED BY <1>2, <1>4, <2>1, <2>3, <2>4, <2>6
  <1> QED BY <1>5, <1>6

\* The first packet taken away
LEMMA FlattenHead ==
    ASSUME NEW S, NEW w \in Seq(Seq(S)), w # <<>>
    PROVE  FlattenSeq(w) = Head(w) \o FlattenSeq(Tail(w))
  <1>1. PICK v : v = Tail(w)
    OBVIOUS
  <1>2. PICK n \in Nat : Len(w) = n + 1
    <2>1. Len(w) - 1 \in Nat /\ Len(w) = (Len(w) - 1) + 1
      OBVIOUS
    <2> QED BY <2>1
  <1>3. v \in Seq(Seq(S)) /\ Len(v) = n /\ \A i \in 1 .. n : v[i] = w[i + 1]
    BY <1>1, <1>2, HeadTailProperties
  <1>4. Head(w) = w[1] /\ w[1] \in Seq(S) /\ \A i \in 1 .. n : v[i] \in Seq(S)
    BY <1>2, <1>3
  <1>5. PICK f : Piled(w, n + 1, f) /\ FlattenSeq(w) = f[n + 1]
    <2>1. Len(w) \in Nat \ {0}
      BY <1>2
    <2> QED BY <1>2, <2>1, FlattenPiled
  <1>6. CASE n = 0
    <2>1. FlattenSeq(v) = <<>>
      BY <1>3, <1>6, FlattenEmpty
    <2>2. w[1] \o <<>> = w[1]
      BY <1>4, ConcatEmptySeq
    <2>3. f[1] = w[1]
      BY <1>5, <1>6 DEF Piled
    <2> QED BY <1>1, <1>4, <1>5, <1>6, <2>1, <2>2, <2>3
  <1>7. CASE n # 0
    <2>1. PICK g : Piled(v, n, g) /\ FlattenSeq(v) = g[n]
      <3>1. Len(v) \in Nat \ {0}
        BY <1>3, <1>7
      <3> QED BY <1>3, <3>1, FlattenPiled
    <2>2. Pieces(g, n, Seq(S))
      BY <1>3, <2>1, PiledType DEF Pieces
    <2>3. OnTop(f, w[1], g, n)
      <3>1. StartsLater(v, w, n) /\ Pieces(v, n, Seq(S)) /\ Associative(Seq(S))
        BY <1>3, <1>4, Assoc DEF StartsLater, Pieces
      <3> QED BY <1>4, <1>5, <2>1, <2>2, <3>1, PiledShift
    <2>4. n \in 1 .. n
      BY <1>7
    <2>5. f[n + 1] = w[1] \o g[n]
      BY <2>3, <2>4 DEF OnTop
    <2> QED BY <1>1, <1>4, <1>5, <2>1, <2>5
  <1> QED BY <1>6, <1>7

(***************************************************************************)
(* The inductive invariant                                                 *)
(***************************************************************************)
Byte == [no : Nat, end : BOOLEAN]
Bytes == Seq(Byte)
Places == {"attach", "unmask", "poll", "work", "send", "flush", "reset", "settle", "restarted"}
MainType == [pc : Places, left : Int]
ClientType == [got : Int, sent : Bytes]
LineType == [rts : BOOLEAN, want : BOOLEAN, pending : BOOLEAN, sets : Int, fell : BOOLEAN]
HostType == [left : Int, asked : Int, waiting : BOOLEAN, part : Bytes, got : Bytes]

TypeOK ==
    /\ device \in {"usj", "otg"}
    /\ s_cdcacm_txbuf \in Bytes /\ fifo \in Bytes /\ wire \in Seq(Bytes)
    /\ main \in MainType /\ client \in ClientType /\ line \in LineType /\ host \in HostType

\* The USB OTG code has the buffer, the other controller the FIFO; attaching throws
\* nothing away.
OneBuffer ==
    /\ device = "usj" => s_cdcacm_txbuf = <<>>
    /\ device = "otg" => fifo = <<>>
    /\ main.pc = "attach" => s_cdcacm_txbuf = <<>>

TxInv == TypeOK /\ OneBuffer /\ TxInOrder

\* The line states the stub compares are those the host has set one after the other.
LineInv ==
    /\ main.pc \in {"attach", "unmask"} => masked
    /\ device = "otg" /\ main.pc # "attach" => s_cdcacm_old_rts = line.rts
    /\ line.rts /\ ~line.want => line.fell
    /\ ~line.pending => line.want = line.rts
    /\ s_reset_requested => line.fell
    /\ main.pc \in {"reset", "settle", "restarted"} => line.fell /\ device = "otg"
    /\ device = "usj" => ~s_reset_requested

UsbInv == TxInv /\ LineInv

(***************************************************************************)
(* Bytes put together                                                      *)
(***************************************************************************)
\* What \o and Append do to the bytes of a reply
LEMMA ByteFacts ==
    /\ <<>> \in Bytes /\ <<>> \in Seq(Bytes)
    /\ \A x, y \in Bytes : x \o y \in Bytes
    /\ \A x \in Bytes : x \o <<>> = x /\ <<>> \o x = x
    /\ \A x \in Bytes, c \in Byte : Append(x, c) \in Bytes /\ Append(x, c) = x \o <<c>>
    /\ \A c \in Byte : <<c>> \in Bytes
    /\ \A w \in Seq(Bytes), b \in Bytes : Append(w, b) \in Seq(Bytes)
  <1>1. <<>> \in Bytes /\ <<>> \in Seq(Bytes)
    BY DEF Bytes
  <1>2. \A x, y \in Bytes : x \o y \in Bytes
    BY ConcatProperties DEF Bytes
  <1>3. \A x \in Bytes : x \o <<>> = x /\ <<>> \o x = x
    BY ConcatEmptySeq DEF Bytes
  <1>4. \A x \in Bytes, c \in Byte : Append(x, c) \in Bytes /\ Append(x, c) = x \o <<c>>
    BY AppendProperties, AppendIsConcat DEF Bytes
  <1>5. \A c \in Byte : <<c>> \in Bytes
    BY DEF Bytes
  <1>6. \A w \in Seq(Bytes), b \in Bytes : Append(w, b) \in Seq(Bytes)
    BY AppendProperties
  <1> QED BY <1>1, <1>2, <1>3, <1>4, <1>5, <1>6

\* Bytes put together in either order
LEMMA ByteAssoc == \A x, y, z \in Bytes : (x \o y) \o z = x \o (y \o z)
  BY Assoc DEF Bytes, Associative

\* A byte more at the end
LEMMA JoinByte ==
    ASSUME NEW x \in Bytes, NEW y \in Bytes, NEW c \in Byte
    PROVE  Append(x \o y, c) = x \o Append(y, c)
  <1>1. /\ Append(x \o y, c) = (x \o y) \o <<c>>
        /\ Append(y, c) = y \o <<c>> /\ <<c>> \in Bytes
    BY ByteFacts
  <1>2. (x \o y) \o <<c>> = x \o (y \o <<c>>)
    BY <1>1, ByteAssoc
  <1> QED BY <1>1, <1>2

\* A byte more, and all that is with the host or on its way to it
Plus(x, c) == Append(x, c)
Way(g, p, w, f, t) == (((g \o p) \o w) \o f) \o t

\* A byte more in the FIFO, and one more in the buffer
LEMMA WayByte ==
    ASSUME NEW g \in Bytes, NEW p \in Bytes, NEW w \in Bytes, NEW f \in Bytes, NEW c \in Byte
    PROVE  /\ Plus(Way(g, p, w, f, <<>>), c) = Way(g, p, w, Plus(f, c), <<>>)
           /\ Plus(Way(g, p, w, <<>>, f), c) = Way(g, p, w, <<>>, Plus(f, c))
  <1>1. PICK x \in Bytes : x = (g \o p) \o w
    BY ByteFacts
  <1>2. Append(f, c) \in Bytes /\ Append(x \o f, c) = x \o Append(f, c)
    BY JoinByte, ByteFacts
  <1>3. /\ Way(g, p, w, f, <<>>) = x \o f
        /\ Way(g, p, w, <<>>, f) = x \o f
        /\ Way(g, p, w, Append(f, c), <<>>) = x \o Append(f, c)
        /\ Way(g, p, w, <<>>, Append(f, c)) = x \o Append(f, c)
    BY <1>1, <1>2, ByteFacts DEF Way
  <1> QED BY <1>2, <1>3 DEF Plus

\* The FIFO or the buffer becomes a packet.
LEMMA WayPacket ==
    ASSUME NEW g \in Bytes, NEW p \in Bytes, NEW w \in Bytes, NEW f \in Bytes
    PROVE  /\ Way(g, p, w, f, <<>>) = Way(g, p, w \o f, <<>>, <<>>)
           /\ Way(g, p, w, <<>>, f) = Way(g, p, w \o f, <<>>, <<>>)
  <1>1. PICK x \in Bytes : x = g \o p
    BY ByteFacts
  <1>2. (x \o w) \o f = x \o (w \o f) /\ x \o w \in Bytes /\ w \o f \in Bytes
    <2>1. (x \o w) \o f = x \o (w \o f)
      BY ByteAssoc
    <2> QED BY <2>1, ByteFacts
  <1>3. x \o (w \o f) \in Bytes /\ (x \o w) \o f \in Bytes
    BY <1>2, ByteFacts
  <1>4. /\ Way(g, p, w, f, <<>>) = (x \o w) \o f
        /\ Way(g, p, w, <<>>, f) = (x \o w) \o f
        /\ Way(g, p, w \o f, <<>>, <<>>) = x \o (w \o f)
    BY <1>1, <1>2, <1>3, ByteFacts DEF Way
  <1> QED BY <1>2, <1>4

\* The host fetches a packet, in the middle or at the end of a transfer.
LEMMA WayFetch ==
    ASSUME NEW g \in Bytes, NEW p \in Bytes, NEW h \in Bytes, NEW w \in Bytes, NEW f, NEW t
    PROVE  /\ Way(g, p, h \o w, f, t) = Way(g, p \o h, w, f, t)
           /\ Way(g, p, h \o w, f, t) = Way(g \o (p \o h), <<>>, w, f, t)
  <1>1. p \o h \in Bytes /\ g \o (p \o h) \in Bytes /\ g \o p \in Bytes
    BY ByteFacts
  <1>2. (g \o p) \o (h \o w) = ((g \o p) \o h) \o w
    <2>1. PICK x \in Bytes : x = g \o p
      BY <1>1
    <2>2. (x \o h) \o w = x \o (h \o w)
      BY ByteAssoc
    <2> QED BY <2>1, <2>2
  <1>3. (g \o p) \o h = g \o (p \o h)
    BY ByteAssoc
  <1>4. (g \o (p \o h)) \o <<>> = g \o (p \o h)
    BY <1>1, ByteFacts
  <1> QED BY <1>2, <1>3, <1>4 DEF Way

\* What has been sent is all that is on the way.
LEMMA SentIsWay ==
    TxInOrder <=> client.sent = Way(host.got, host.part, FlattenSeq(wire), fifo, s_cdcacm_txbuf)
  BY DEF TxInOrder, Way

(***************************************************************************)
(* Sending                                                                 *)
(***************************************************************************)
\* The byte that is sent, and the packets on the wire
LEMMA SendFacts ==
    ASSUME TypeOK
    PROVE  /\ NextByte \in Byte
           /\ client.sent \in Bytes /\ host.got \in Bytes /\ host.part \in Bytes
           /\ FlattenSeq(wire) \in Bytes
  <1>1. client.sent \in Bytes /\ host.got \in Bytes /\ host.part \in Bytes
    BY DEF TypeOK, ClientType, HostType
  <1>2. Len(client.sent) + 1 \in Nat
    BY <1>1 DEF Bytes
  <1>3. (main.left = 1) \in BOOLEAN
    BY Zenon
  <1>4. NextByte \in Byte
    BY <1>2, <1>3 DEF NextByte, Byte
  <1>5. FlattenSeq(wire) \in Bytes
    BY FlattenType DEF TypeOK, Bytes
  <1> QED BY <1>1, <1>4, <1>5

\* The wire after a packet more, and after the first one on an empty wire
LEMMA WireFacts ==
    ASSUME TypeOK, NEW b \in Bytes
    PROVE  /\ Append(wire, b) \in Seq(Bytes)
           /\ FlattenSeq(Append(wire, b)) = FlattenSeq(wire) \o b
           /\ wire = <<>> => <<b>> = Append(wire, b)
  <1>1. Append(wire, b) \in Seq(Bytes)
    BY ByteFacts DEF TypeOK
  <1>2. FlattenSeq(Append(wire, b)) = FlattenSeq(wire) \o b
    BY FlattenAppend DEF TypeOK, Bytes
  <1>3. Append(<<>>, b) = <<b>>
    OBVIOUS
  <1> QED BY <1>1, <1>2, <1>3

\* A step that moves no byte
LEMMA TxFrame ==
    ASSUME TxInv, UNCHANGED <<device, s_cdcacm_txbuf, fifo, wire>>,
           main' \in MainType, client' \in ClientType, line' \in LineType, host' \in HostType,
           client'.sent = client.sent, host'.part = host.part, host'.got = host.got,
           main'.pc = "attach" => main.pc = "attach"
    PROVE  TxInv'
  BY DEF TxInv, TypeOK, OneBuffer, TxInOrder

\* The main loop is in its type after a byte, and goes on to a place that is not the first.
LEMMA MainFacts ==
    ASSUME TypeOK
    PROVE  /\ Goto("poll") => main' \in MainType /\ main'.pc = "poll"
           /\ ByteDone => main' \in MainType /\ main'.pc \in {"flush", "send"}
           /\ Accepted => /\ client' \in ClientType
                          /\ client'.sent = Append(client.sent, NextByte)
  <1>1. Goto("poll") => main' \in MainType /\ main'.pc = "poll"
    BY DEF TypeOK, MainType, Places, Goto
  <1>2. ByteDone => main' \in MainType /\ main'.pc \in {"flush", "send"}
    <2>1. main.left - 1 \in Int
      BY DEF TypeOK, MainType
    <2>2. CASE main.left = 1
      BY <2>1, <2>2 DEF MainType, Places, ByteDone
    <2>3. CASE main.left # 1
      BY <2>1, <2>3 DEF MainType, Places, ByteDone
    <2> QED BY <2>2, <2>3
  <1>3. Append(client.sent, NextByte) \in Bytes
    BY SendFacts, ByteFacts
  <1>4. Accepted => client' \in ClientType /\ client'.sent = Append(client.sent, NextByte)
    BY <1>3 DEF Accepted, TypeOK, ClientType
  <1> QED BY <1>1, <1>2, <1>4

\* The USB serial JTAG controller takes a byte.
LEMMA UsjByte == ASSUME TxInv, usj_tx_one_char PROVE TxInv'
  <1>1. TypeOK /\ OneBuffer /\ TxInOrder /\ device = "usj" /\ s_cdcacm_txbuf = <<>>
    BY DEF TxInv, OneBuffer, usj_tx_one_char
  <1>2. UNCHANGED <<device, s_cdcacm_txbuf, line, host>> /\ ByteDone
    BY DEF usj_tx_one_char, config, otg
  <1>3. main' \in MainType /\ main'.pc # "attach"
    BY <1>1, <1>2, MainFacts
  <1>4. CASE UNCHANGED <<fifo, wire, client>>
    BY <1>1, <1>2, <1>3, <1>4, TxFrame DEF TypeOK
  <1>5. CASE DataFree /\ WriteEp1(NextByte) /\ Accepted
    <2>1. /\ client' \in ClientType /\ client'.sent = Append(client.sent, NextByte)
          /\ NextByte \in Byte /\ host.got \in Bytes /\ host.part \in Bytes
          /\ FlattenSeq(wire) \in Bytes /\ fifo \in Bytes /\ Append(fifo, NextByte) \in Bytes
      BY <1>1, <1>5, MainFacts, SendFacts, ByteFacts DEF TypeOK
    <2>2. client'.sent = Way(host.got, host.part, FlattenSeq(wire), Append(fifo, NextByte), <<>>)
      <3>1. client.sent = Way(host.got, host.part, FlattenSeq(wire), fifo, <<>>)
        BY <1>1, SentIsWay
      <3>2. Plus(Way(host.got, host.part, FlattenSeq(wire), fifo, <<>>), NextByte)
               = Way(host.got, host.part, FlattenSeq(wire), Plus(fifo, NextByte), <<>>)
        BY <2>1, WayByte
      <3> QED BY <2>1, <3>1, <3>2 DEF Plus
    <2>3. CASE fifo' = Append(fifo, NextByte) /\ UNCHANGED wire
      <3>1. TypeOK'
        BY <1>1, <1>2, <1>3, <2>1, <2>3 DEF TypeOK
      <3>2. TxInOrder'
        BY <1>1, <1>2, <2>2, <2>3, SentIsWay DEF TxInOrder, Way
      <3> QED BY <1>1, <1>2, <1>3, <3>1, <3>2 DEF TxInv, OneBuffer
    <2>4. CASE wire' = <<Append(fifo, NextByte)>> /\ fifo' = <<>>
      <3>1. wire' = Append(wire, Append(fifo, NextByte))
        BY <1>1, <1>5, <2>1, <2>4, WireFacts DEF DataFree
      <3>2. /\ wire' \in Seq(Bytes)
            /\ FlattenSeq(wire') = FlattenSeq(wire) \o Append(fifo, NextByte)
        BY <1>1, <2>1, <3>1, WireFacts
      <3>3. TypeOK'
        BY <1>1, <1>2, <1>3, <2>1, <2>4, <3>2, ByteFacts DEF TypeOK
      <3>4. client'.sent = Way(host.got, host.part, FlattenSeq(wire'), <<>>, <<>>)
        BY <2>1, <2>2, <3>2, WayPacket
      <3>5. TxInOrder'
        BY <1>1, <1>2, <2>4, <3>4 DEF TxInOrder, Way
      <3> QED BY <1>1, <1>2, <1>3, <3>3, <3>5 DEF TxInv, OneBuffer
    <2> QED BY <1>5, <2>3, <2>4 DEF WriteEp1
  <1> QED BY <1>4, <1>5 DEF usj_tx_one_char

\* What is in its FIFO becomes a packet.
LEMMA UsjFlush == ASSUME TxInv, usj_tx_flush PROVE TxInv'
  <1>1. TypeOK /\ OneBuffer /\ TxInOrder /\ device = "usj" /\ s_cdcacm_txbuf = <<>>
    BY DEF TxInv, OneBuffer, usj_tx_flush
  <1>2. UNCHANGED <<device, s_cdcacm_txbuf, client, line, host>> /\ Goto("poll")
    BY DEF usj_tx_flush, config, otg
  <1>3. main' \in MainType /\ main'.pc # "attach"
    BY <1>1, <1>2, MainFacts
  <1>4. CASE UNCHANGED <<fifo, wire>>
    BY <1>1, <1>2, <1>3, <1>4, TxFrame DEF TypeOK
  <1>5. CASE DataFree /\ wire' = <<fifo>> /\ fifo' = <<>>
    <2>1. /\ host.got \in Bytes /\ host.part \in Bytes
          /\ FlattenSeq(wire) \in Bytes /\ fifo \in Bytes
      BY <1>1, SendFacts DEF TypeOK
    <2>2. wire' = Append(wire, fifo)
      BY <1>1, <1>5, <2>1, WireFacts DEF DataFree
    <2>3. wire' \in Seq(Bytes) /\ FlattenSeq(wire') = FlattenSeq(wire) \o fifo
      BY <1>1, <2>1, <2>2, WireFacts
    <2>4. TypeOK'
      BY <1>1, <1>2, <1>3, <1>5, <2>3, ByteFacts DEF TypeOK
    <2>5. client.sent = Way(host.got, host.part, FlattenSeq(wire'), <<>>, <<>>)
      BY <1>1, <2>1, <2>3, SentIsWay, WayPacket
    <2>6. TxInOrder'
      BY <1>1, <1>2, <1>5, <2>5 DEF TxInOrder, Way
    <2> QED BY <1>1, <1>2, <1>3, <2>4, <2>6 DEF TxInv, OneBuffer
  <1> QED BY <1>4, <1>5 DEF usj_tx_flush, WrDone

\* The USB OTG buffer takes a byte, and becomes a packet when it is full.
LEMMA OtgByte == ASSUME TxInv, otg_tx_one_char PROVE TxInv'
  <1>1. TypeOK /\ OneBuffer /\ TxInOrder /\ device = "otg" /\ fifo = <<>>
    BY DEF TxInv, OneBuffer, otg_tx_one_char
  <1>2. UNCHANGED <<device, fifo, line, host>> /\ ByteDone /\ Accepted
    BY DEF otg_tx_one_char, config
  <1>3. main' \in MainType /\ main'.pc # "attach"
    BY <1>1, <1>2, MainFacts
  <1> DEFINE txbuf == Append(s_cdcacm_txbuf, NextByte)
  <1>4. /\ client' \in ClientType /\ client'.sent = Append(client.sent, NextByte)
        /\ NextByte \in Byte /\ host.got \in Bytes /\ host.part \in Bytes
        /\ FlattenSeq(wire) \in Bytes /\ s_cdcacm_txbuf \in Bytes /\ txbuf \in Bytes
    BY <1>1, <1>2, MainFacts, SendFacts, ByteFacts DEF TypeOK
  <1>5. client'.sent = Way(host.got, host.part, FlattenSeq(wire), <<>>, txbuf)
    <2>1. client.sent = Way(host.got, host.part, FlattenSeq(wire), <<>>, s_cdcacm_txbuf)
      BY <1>1, SentIsWay
    <2>2. Plus(Way(host.got, host.part, FlattenSeq(wire), <<>>, s_cdcacm_txbuf), NextByte)
             = Way(host.got, host.part, FlattenSeq(wire), <<>>, Plus(s_cdcacm_txbuf, NextByte))
      BY <1>4, WayByte
    <2> QED BY <1>4, <2>1, <2>2 DEF Plus
  <1>6. CASE s_cdcacm_txbuf' = txbuf /\ UNCHANGED wire
    <2>1. TypeOK'
      BY <1>1, <1>2, <1>3, <1>4, <1>6 DEF TypeOK
    <2>2. TxInOrder'
      BY <1>1, <1>2, <1>5, <1>6 DEF TxInOrder, Way
    <2> QED BY <1>1, <1>2, <1>3, <2>1, <2>2 DEF TxInv, OneBuffer
  <1>7. CASE FifoFill(txbuf) /\ s_cdcacm_txbuf' = <<>>
    <2>1. wire' \in Seq(Bytes) /\ FlattenSeq(wire') = FlattenSeq(wire) \o txbuf
      BY <1>1, <1>4, <1>7, WireFacts, ByteFacts DEF FifoFill, TypeOK
    <2>2. TypeOK'
      BY <1>1, <1>2, <1>3, <1>4, <1>7, <2>1, ByteFacts DEF TypeOK
    <2>3. client'.sent = Way(host.got, host.part, FlattenSeq(wire'), <<>>, <<>>)
      BY <1>4, <1>5, <2>1, WayPacket
    <2>4. TxInOrder'
      BY <1>1, <1>2, <1>7, <2>3 DEF TxInOrder, Way
    <2> QED BY <1>1, <1>2, <1>3, <2>2, <2>4 DEF TxInv, OneBuffer
  <1> QED BY <1>6, <1>7 DEF otg_tx_one_char

\* What is in the buffer becomes a packet, if there is any.
LEMMA OtgFlush == ASSUME TxInv, otg_tx_flush PROVE TxInv'
  <1>1. TypeOK /\ OneBuffer /\ TxInOrder /\ device = "otg" /\ fifo = <<>>
    BY DEF TxInv, OneBuffer, otg_tx_flush
  <1>2. /\ UNCHANGED <<device, fifo, client, line, host>> /\ Goto("poll")
        /\ FifoFill(s_cdcacm_txbuf) /\ s_cdcacm_txbuf' = <<>>
    BY DEF otg_tx_flush, config
  <1>3. main' \in MainType /\ main'.pc # "attach"
    BY <1>1, <1>2, MainFacts
  <1>4. /\ host.got \in Bytes /\ host.part \in Bytes
        /\ FlattenSeq(wire) \in Bytes /\ s_cdcacm_txbuf \in Bytes
    BY <1>1, SendFacts DEF TypeOK
  <1>5. wire' \in Seq(Bytes) /\ FlattenSeq(wire') = FlattenSeq(wire) \o s_cdcacm_txbuf
    BY <1>1, <1>2, <1>4, WireFacts, ByteFacts DEF FifoFill, TypeOK
  <1>6. TypeOK'
    BY <1>1, <1>2, <1>3, <1>5, ByteFacts DEF TypeOK
  <1>7. client.sent = Way(host.got, host.part, FlattenSeq(wire'), <<>>, <<>>)
    BY <1>1, <1>4, <1>5, SentIsWay, WayPacket
  <1>8. TxInOrder'
    BY <1>1, <1>2, <1>7 DEF TxInOrder, Way
  <1> QED BY <1>1, <1>2, <1>3, <1>6, <1>8 DEF TxInv, OneBuffer

\* A packet goes to the host, which keeps it until the transfer ends.
LEMMA FetchStep == ASSUME TxInv, HostFetch PROVE TxInv'
  <1>1. TypeOK /\ OneBuffer /\ TxInOrder /\ wire # <<>>
    BY DEF TxInv, HostFetch
  <1>2. UNCHANGED <<device, s_cdcacm_txbuf, fifo, main, client, line>> /\ wire' = Tail(wire)
    BY DEF HostFetch, config, otg
  <1>3. /\ Head(wire) \in Bytes /\ wire' \in Seq(Bytes)
        /\ FlattenSeq(wire) = Head(wire) \o FlattenSeq(wire')
        /\ FlattenSeq(wire') \in Bytes
    <2>1. wire \in Seq(Bytes)
      BY <1>1 DEF TypeOK
    <2>2. Head(wire) \in Bytes /\ wire' \in Seq(Bytes)
      BY <1>1, <1>2, <2>1, HeadTailProperties
    <2> QED BY <1>1, <1>2, <2>1, <2>2, FlattenHead, FlattenType DEF Bytes
  <1>4. host.got \in Bytes /\ host.part \in Bytes /\ host \in HostType
    BY <1>1, SendFacts DEF TypeOK
  <1> DEFINE part == host.part \o Head(wire)
  <1>5. PICK waiting \in BOOLEAN :
            \/ host' = [host EXCEPT !.part = part, !.waiting = waiting]
            \/ host' = [host EXCEPT !.part = <<>>, !.got = @ \o part, !.waiting = waiting]
    <2> DEFINE ends == device = "otg" \/ Len(Head(wire)) < PacketSize
               done == ends /\ \E i \in DOMAIN part : part[i].end
    <2>1. host' = [host EXCEPT !.part = IF ends THEN <<>> ELSE part,
                               !.got = IF ends THEN @ \o part ELSE @,
                               !.waiting = @ /\ ~done]
      BY DEF HostFetch
    <2>2. (host.waiting /\ ~done) \in BOOLEAN
      BY Zenon
    <2> HIDE DEF ends, done
    <2>3. CASE ends
      BY <2>1, <2>2, <2>3
    <2>4. CASE ~ends
      BY <1>4, <2>1, <2>2, <2>4 DEF HostType
    <2> QED BY <2>3, <2>4
  <1>6. part \in Bytes /\ host.got \o part \in Bytes
    BY <1>3, <1>4, ByteFacts
  <1>7. /\ Way(host.got, host.part, FlattenSeq(wire), fifo, s_cdcacm_txbuf)
              = Way(host.got, part, FlattenSeq(wire'), fifo, s_cdcacm_txbuf)
        /\ Way(host.got, host.part, FlattenSeq(wire), fifo, s_cdcacm_txbuf)
              = Way(host.got \o part, <<>>, FlattenSeq(wire'), fifo, s_cdcacm_txbuf)
    BY <1>3, <1>4, WayFetch
  <1> HIDE DEF part
  <1>8. /\ host' \in HostType
        /\ \/ host'.got = host.got /\ host'.part = part
           \/ host'.got = host.got \o part /\ host'.part = <<>>
    BY <1>4, <1>5, <1>6, ByteFacts DEF HostType
  <1>9. TypeOK' /\ OneBuffer'
    BY <1>1, <1>2, <1>3, <1>8 DEF TypeOK, OneBuffer
  <1>10. client'.sent = Way(host'.got, host'.part, FlattenSeq(wire'), fifo', s_cdcacm_txbuf')
    BY <1>1, <1>2, <1>7, <1>8, SentIsWay
  <1>11. TxInOrder'
    BY <1>10 DEF TxInOrder, Way
  <1> QED BY <1>9, <1>11 DEF TxInv

\* Attaching finds an empty buffer.
LEMMA AttachStep == ASSUME TxInv, otg_intr_attach PROVE TxInv'
  <1>1. TypeOK /\ s_cdcacm_txbuf = <<>>
    BY DEF TxInv, OneBuffer, otg_intr_attach, Running
  <1>2. /\ UNCHANGED <<device, fifo, wire, client, line, host>>
        /\ s_cdcacm_txbuf' = <<>> /\ Goto("unmask")
    BY DEF otg_intr_attach, config
  <1>3. main' \in MainType /\ main'.pc = "unmask"
    BY <1>1, <1>2 DEF TypeOK, MainType, Places, Goto
  <1> QED BY <1>1, <1>2, <1>3, TxFrame DEF TypeOK

\* Every step of the main loop that sends nothing
LEMMA QuietMain ==
    ASSUME TxInv, otg_target_intr_attach \/ usj_intr_attach \/ Poll \/ Work \/ handle_reset
                  \/ target_handle_reset
    PROVE  TxInv'
  <1>1. TypeOK
    BY DEF TxInv
  <1>2. UNCHANGED <<device, s_cdcacm_txbuf, fifo, wire, host>>
    BY DEF otg_target_intr_attach, usj_intr_attach, Poll, Work, handle_reset,
           target_handle_reset, config, otg
  <1>3. main' \in MainType /\ main'.pc # "attach"
    <2>1. ASSUME NEW pc \in Places \ {"attach"}, Goto(pc)
          PROVE  main' \in MainType /\ main'.pc # "attach"
      BY <1>1, <2>1 DEF TypeOK, MainType, Goto
    <2>2. ASSUME NEW n \in ReplySizes, main' = [pc |-> "work", left |-> n]
          PROVE  main' \in MainType /\ main'.pc # "attach"
      BY <2>2, UsbSerialAssumption DEF MainType, Places
    <2> QED BY <2>1, <2>2 DEF otg_target_intr_attach, usj_intr_attach, Poll, Work, handle_reset,
                              target_handle_reset, Places
  <1>4. client' \in ClientType /\ client'.sent = client.sent
    <2>1. client' = client \/ client' = [client EXCEPT !.got = 0]
      BY DEF otg_target_intr_attach, usj_intr_attach, Poll, Work, handle_reset,
             target_handle_reset
    <2> QED BY <1>1, <2>1 DEF TypeOK, ClientType
  <1>5. line' \in LineType
    <2>1. line' = line \/ line' = [line EXCEPT !.pending = FALSE, !.rts = line.want]
      BY DEF otg_target_intr_attach, usj_intr_attach, Poll, Work, handle_reset,
             target_handle_reset
    <2> QED BY <1>1, <2>1 DEF TypeOK, LineType
  <1> QED BY <1>1, <1>2, <1>3, <1>4, <1>5, TxFrame DEF TypeOK

\* The interrupt handler sends nothing.
LEMMA QuietIsr == ASSUME TxInv, Isr PROVE TxInv'
  <1> USE DEF Isr, usj_IsrEnter, clear_intr_flags, callback_rx, read_byte, drained,
              callback_linestate
  <1>1. TypeOK
    BY DEF TxInv
  <1>2. UNCHANGED <<device, s_cdcacm_txbuf, fifo, wire, main, host>>
    BY DEF config, otg
  <1>3. client' \in ClientType /\ client'.sent = client.sent
    <2>1. client' = client \/ client' = [client EXCEPT !.got = @ + 1]
      OBVIOUS
    <2> QED BY <1>1, <2>1 DEF TypeOK, ClientType
  <1>4. line' \in LineType
    <2>1. line' = line \/ line' = [line EXCEPT !.pending = FALSE, !.rts = line.want]
      OBVIOUS
    <2> QED BY <1>1, <2>1 DEF TypeOK, LineType
  <1> QED BY <1>1, <1>2, <1>3, <1>4, TxFrame DEF TypeOK

\* The host's requests and line states move no byte of a reply.
LEMMA QuietHost == ASSUME TxInv, HostAsk \/ HostSend \/ HostSetLine PROVE TxInv'
  <1>1. TypeOK
    BY DEF TxInv
  <1>2. UNCHANGED <<device, s_cdcacm_txbuf, fifo, wire, main, client>>
    BY DEF HostAsk, HostSend, HostSetLine, config, otg
  <1>3. CASE HostAsk
    <2>1. host \in HostType
      BY <1>1 DEF TypeOK
    <2>2. host.asked \in Int
      BY <2>1 DEF HostType
    <2>3. PICK m \in Int, n \in Int : m = RequestSize /\ n = host.asked + 1
      BY <2>2, UsbSerialAssumption
    <2>4. host' = [host EXCEPT !.left = m, !.asked = n, !.waiting = TRUE]
      BY <1>3, <2>3 DEF HostAsk
    <2>5. host' \in HostType /\ host'.part = host.part /\ host'.got = host.got
      BY <2>1, <2>4 DEF HostType
    <2>6. line' = line
      BY <1>3 DEF HostAsk
    <2> QED BY <1>1, <1>2, <2>5, <2>6, TxFrame DEF TypeOK
  <1>4. CASE HostSend
    <2>1. host.left \in Int /\ PacketSize \in Int
      BY <1>1, UsbSerialAssumption DEF TypeOK, HostType
    <2>2. rxfifo' \in Int
      BY <1>4, <2>1 DEF HostSend
    <2>3. PICK n \in Int : n = host.left - rxfifo'
      BY <2>1, <2>2
    <2>4. host' = [host EXCEPT !.left = n]
      BY <1>4, <2>3 DEF HostSend
    <2>5. host' \in HostType /\ host'.part = host.part /\ host'.got = host.got
      BY <1>1, <2>4 DEF TypeOK, HostType
    <2>6. line' = line
      BY <1>4 DEF HostSend
    <2> QED BY <1>1, <1>2, <2>5, <2>6, TxFrame DEF TypeOK
  <1>5. CASE HostSetLine
    <2>1. PICK v \in BOOLEAN :
              line' = [line EXCEPT !.want = v, !.pending = TRUE, !.sets = @ + 1,
                                   !.fell = @ \/ (line.rts /\ ~v)]
      BY <1>5 DEF HostSetLine
    <2>2. line \in LineType
      BY <1>1 DEF TypeOK
    <2>3. line.sets \in Int
      BY <2>2 DEF LineType
    <2>4. PICK n \in Int : n = line.sets + 1
      BY <2>3
    <2>5. PICK b \in BOOLEAN : b = (line.fell \/ (line.rts /\ ~v))
      BY Zenon
    <2>6. line' = [line EXCEPT !.want = v, !.pending = TRUE, !.sets = n, !.fell = b]
      BY <2>1, <2>4, <2>5, Zenon
    <2>7. line' \in LineType
      BY <2>2, <2>6 DEF LineType
    <2>8. host' = host
      BY <1>5 DEF HostSetLine
    <2> QED BY <1>1, <1>2, <2>7, <2>8, TxFrame DEF TypeOK
  <1> QED BY <1>3, <1>4, <1>5

\* Every step keeps what has been sent in order.
LEMMA TxStep == TxInv /\ [Next]_vars => TxInv'
  <1>1. ASSUME TxInv, UNCHANGED vars PROVE TxInv'
    BY <1>1 DEF vars, TxInv, TypeOK, OneBuffer, TxInOrder
  <1> QED BY <1>1, UsjByte, UsjFlush, OtgByte, OtgFlush, FetchStep, AttachStep, QuietMain,
             QuietIsr, QuietHost DEF Next, Main, Host

(***************************************************************************)
(* The line state                                                          *)
(***************************************************************************)
\* A step that leaves the line state alone
LEMMA LineFrame ==
    ASSUME LineInv, UNCHANGED <<device, s_cdcacm_old_rts, line>>, device \in {"usj", "otg"},
           s_reset_requested' => s_reset_requested,
           main.pc = "attach" => main'.pc = "attach",
           main'.pc \in {"attach", "unmask"} =>
               main.pc \in {"attach", "unmask"} /\ masked' = masked,
           main'.pc \in {"reset", "settle", "restarted"} =>
               s_reset_requested \/ main.pc \in {"reset", "settle", "restarted"}
    PROVE  LineInv'
  BY DEF LineInv

\* Every step keeps the line states in step.
LEMMA LineStep == ASSUME TypeOK, LineInv, [Next]_vars PROVE LineInv'
  <1>1. main \in MainType /\ line \in LineType /\ device \in {"usj", "otg"}
    BY DEF TypeOK
  <1>2. CASE UNCHANGED vars
    BY <1>2 DEF vars, LineInv
  <1>3. CASE otg_intr_attach
    <2>1. /\ UNCHANGED <<device, line, masked>> /\ s_cdcacm_old_rts' = line.rts
          /\ ~s_reset_requested' /\ main.pc = "attach" /\ device = "otg"
      BY <1>3 DEF otg_intr_attach, config, Running
    <2>2. main'.pc = "unmask"
      BY <1>1, <1>3 DEF otg_intr_attach, Goto, MainType
    <2> QED BY <2>1, <2>2 DEF LineInv
  <1>4. CASE otg_target_intr_attach
    <2>1. UNCHANGED <<device, s_cdcacm_old_rts, s_reset_requested, line>> /\ main.pc = "unmask"
      BY <1>4 DEF otg_target_intr_attach, config, otg, Running
    <2>2. main'.pc = "poll"
      BY <1>1, <1>4 DEF otg_target_intr_attach, Goto, MainType
    <2> QED BY <2>1, <2>2, <1>1, LineFrame
  <1>5. CASE usj_intr_attach
    <2>1. /\ UNCHANGED <<device, s_cdcacm_old_rts, s_reset_requested, line>>
          /\ main.pc = "attach" /\ device = "usj"
      BY <1>5 DEF usj_intr_attach, config, otg, Running
    <2>2. main'.pc = "poll"
      BY <1>1, <1>5 DEF usj_intr_attach, Goto, MainType
    <2> QED BY <2>1, <2>2 DEF LineInv
  <1>6. CASE Poll
    <2>1. UNCHANGED <<device, s_cdcacm_old_rts, s_reset_requested, line>> /\ main.pc = "poll"
      BY <1>6 DEF Poll, config, otg, Running
    <2>2. main'.pc = "work" \/ (main'.pc = "reset" /\ s_reset_requested)
      <3>1. (s_reset_requested /\ Goto("reset"))
                \/ \E n \in ReplySizes : main' = [pc |-> "work", left |-> n]
        BY <1>6 DEF Poll
      <3>2. Goto("reset") => main'.pc = "reset"
        BY <1>1 DEF Goto, MainType
      <3> QED BY <3>1, <3>2
    <2> QED BY <2>1, <2>2, <1>1, LineFrame
  <1>7. CASE Work
    <2>1. UNCHANGED <<device, s_cdcacm_old_rts, s_reset_requested, line>> /\ main.pc = "work"
      BY <1>7 DEF Work, config, otg, Running
    <2>2. main'.pc = "send"
      BY <1>1, <1>7 DEF Work, Goto, MainType
    <2> QED BY <2>1, <2>2, <1>1, LineFrame
  <1>8. CASE usj_tx_one_char \/ usj_tx_flush \/ otg_tx_one_char \/ otg_tx_flush
    <2>1. /\ UNCHANGED <<device, s_cdcacm_old_rts, s_reset_requested, line>>
          /\ main.pc \in {"send", "flush"}
      BY <1>8 DEF usj_tx_one_char, usj_tx_flush, otg_tx_one_char, otg_tx_flush, config, otg,
                  Running
    <2>2. main'.pc \in {"send", "flush", "poll"}
      BY <1>8, MainFacts DEF usj_tx_one_char, usj_tx_flush, otg_tx_one_char, otg_tx_flush
    <2> QED BY <2>1, <2>2, <1>1, LineFrame
  <1>9. CASE handle_reset
    <2>1. /\ UNCHANGED <<device, s_cdcacm_old_rts, line>> /\ main.pc = "reset"
          /\ ~s_reset_requested'
      BY <1>9 DEF handle_reset, config, Running
    <2>2. main'.pc = "settle"
      BY <1>1, <1>9 DEF handle_reset, Goto, MainType
    <2> QED BY <2>1, <2>2, <1>1, LineFrame
  <1>10. CASE target_handle_reset
    <2>1. /\ device' = device /\ main.pc = "settle" /\ s_cdcacm_old_rts' = line.want
          /\ line' = [line EXCEPT !.pending = FALSE, !.rts = line.want]
      BY <1>10 DEF target_handle_reset, config, Running
    <2>2. main'.pc = "restarted"
      BY <1>1, <1>10 DEF target_handle_reset, Goto, MainType
    <2>3. line'.rts = line.want /\ line'.want = line.want /\ line'.fell = line.fell
      BY <1>1, <2>1 DEF LineType
    <2> QED BY <2>1, <2>2, <2>3 DEF LineInv
  <1>11. CASE usj_IsrEnter \/ clear_intr_flags \/ callback_rx \/ read_byte \/ drained
    <2>1. UNCHANGED <<device, s_cdcacm_old_rts, s_reset_requested, line, main, masked>>
      BY <1>11 DEF usj_IsrEnter, clear_intr_flags, callback_rx, read_byte, drained, config, otg
    <2> QED BY <2>1, <1>1, LineFrame
  <1>12. CASE callback_linestate
    <2>1. /\ UNCHANGED <<device, main, masked>> /\ device = "otg" /\ ~masked
          /\ s_reset_requested' = (s_reset_requested \/ (s_cdcacm_old_rts /\ ~line.want))
          /\ s_cdcacm_old_rts' = line.want
          /\ line' = [line EXCEPT !.pending = FALSE, !.rts = line.want]
      BY <1>12 DEF callback_linestate, config
    <2>2. line'.rts = line.want /\ line'.want = line.want /\ line'.fell = line.fell
      BY <1>1, <2>1 DEF LineType
    <2>3. main.pc \notin {"attach", "unmask"} /\ s_cdcacm_old_rts = line.rts
      BY <2>1 DEF LineInv
    <2>4. s_reset_requested' => line.fell
      BY <2>1, <2>3 DEF LineInv
    <2> QED BY <2>1, <2>2, <2>3, <2>4 DEF LineInv
  <1>13. CASE HostAsk \/ HostSend \/ HostFetch
    <2>1. UNCHANGED <<device, s_cdcacm_old_rts, s_reset_requested, line, main, masked>>
      BY <1>13 DEF HostAsk, HostSend, HostFetch, config, otg
    <2> QED BY <2>1, <1>1, LineFrame
  <1>14. CASE HostSetLine
    <2>1. /\ UNCHANGED <<device, s_cdcacm_old_rts, s_reset_requested, main, masked>>
          /\ device = "otg"
      BY <1>14 DEF HostSetLine, config, otg
    <2>2. PICK v \in BOOLEAN :
              line' = [line EXCEPT !.want = v, !.pending = TRUE, !.sets = @ + 1,
                                   !.fell = @ \/ (line.rts /\ ~v)]
      BY <1>14 DEF HostSetLine
    <2>3. /\ line'.rts = line.rts /\ line'.want = v /\ line'.pending
          /\ line.fell => line'.fell
          /\ line.rts /\ ~v => line'.fell
      BY <1>1, <2>2 DEF LineType
    <2> QED BY <2>1, <2>3 DEF LineInv
  <1> QED BY <1>2, <1>3, <1>4, <1>5, <1>6, <1>7, <1>8, <1>9, <1>10, <1>11, <1>12, <1>13, <1>14
          DEF Next, Main, Isr, Host

(***************************************************************************)
(* The theorems                                                            *)
(***************************************************************************)
\* The invariant holds when the stub starts.
LEMMA InitUsb == Init => UsbInv
  <1> SUFFICES ASSUME Init PROVE UsbInv
    OBVIOUS
  <1>1. TypeOK
    <2>1. main \in MainType
      BY DEF Init, MainType, Places
    <2>2. client \in ClientType
      BY ByteFacts DEF Init, ClientType
    <2>4. line \in LineType
      <3>1. {FALSE} \subseteq BOOLEAN
        BY Zenon
      <3>2. PICK F \in SUBSET BOOLEAN, Z \in SUBSET Int :
                line \in [rts : BOOLEAN, want : BOOLEAN, pending : F, sets : Z, fell : F]
        <4>1. {0} \subseteq Int
          OBVIOUS
        <4> QED BY <3>1, <4>1, Zenon DEF Init
      <3> QED BY <3>2 DEF LineType
    <2>3. host \in HostType
      BY ByteFacts DEF Init, HostType
    <2> QED BY <2>1, <2>2, <2>3, <2>4, ByteFacts DEF Init, TypeOK
  <1>2. OneBuffer
    BY DEF Init, OneBuffer
  <1>3. TxInOrder
    <2>1. /\ client.sent = <<>> /\ host.got = <<>> /\ host.part = <<>>
          /\ FlattenSeq(wire) = <<>> /\ fifo = <<>> /\ s_cdcacm_txbuf = <<>>
      BY FlattenEmpty DEF Init
    <2>2. <<>> \o <<>> = <<>>
      BY ByteFacts
    <2> QED BY <2>1, <2>2 DEF TxInOrder
  <1>4. LineInv
    BY DEF Init, LineInv
  <1> QED BY <1>1, <1>2, <1>3, <1>4 DEF UsbInv, TxInv

\* The inductive invariant holds of both transports in every state.
THEOREM UsbInvariant == Spec => []UsbInv
  <1>1. UsbInv /\ [Next]_vars => UsbInv'
    BY TxStep, LineStep DEF UsbInv, TxInv
  <1> QED BY InitUsb, <1>1, PTL DEF Spec

\* Every byte tx_one_char has accepted is with the host or on its way to it, once and in
\* order, for every packet size and every number of packets (TxInOrder).
THEOREM UsbTxInOrder == Spec => []TxInOrder
  <1>1. UsbInv => TxInOrder
    BY DEF UsbInv, TxInv
  <1> QED BY <1>1, UsbInvariant, PTL

\* The stub goes for a reset only when the host has lowered RTS: the safety half of
\* ResetOnFall.
THEOREM UsbResetAsked ==
    Spec => [](main.pc \in {"reset", "settle", "restarted"} => line.fell)
  <1>1. UsbInv => (main.pc \in {"reset", "settle", "restarted"} => line.fell)
    BY DEF UsbInv, LineInv
  <1> QED BY <1>1, UsbInvariant, PTL
=============================================================================
