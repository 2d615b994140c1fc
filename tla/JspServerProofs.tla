-------------------------- MODULE JspServerProofs ---------------------------
(***************************************************************************)
(* What is proved of the JTAG serial port server, for every size of the    *)
(* rings and of a burst: the indices stay in the arrays, and each          *)
(* direction implements the serial link of SerialLink.                     *)
(***************************************************************************)
EXTENDS JspServer, SequenceTheorems, TLAPS

-----------------------------------------------------------------------------
(***************************************************************************)
(* The arithmetic of the rings.                                            *)
(***************************************************************************)

\* The remainder of an index, which is never more than once round the ring.
LEMMA ModFacts ==
  ASSUME NEW N \in Nat \ {0}
  PROVE  /\ \A x \in Nat : x % N \in 0..(N - 1)
         /\ \A x \in 0..(N - 1) : x % N = x
         /\ \A x \in N..(2 * N - 1) : x % N = x - N
<1>1. ASSUME NEW x \in Nat PROVE x % N \in 0..(N - 1)
  OBVIOUS
<1>2. ASSUME NEW x \in 0..(N - 1) PROVE x % N = x
  OBVIOUS
<1>3. ASSUME NEW x \in N..(2 * N - 1) PROVE x % N = x - N
  OBVIOUS
<1> QED BY <1>1, <1>2, <1>3

\* Any index the code computes with % JSP_BUFFER_SIZE is one of a slot.
LEMMA WrapInSlots ==
  ASSUME NEW x \in Nat
  PROVE  x % JSP_BUFFER_SIZE \in Slots
BY JspAssumption, ModFacts DEF Slots

\* The slot of an index that is less than two rounds.
LEMMA WrapOnce ==
  ASSUME NEW x \in Nat, x < 2 * JSP_BUFFER_SIZE
  PROVE  /\ x < JSP_BUFFER_SIZE => x % JSP_BUFFER_SIZE = x
         /\ ~(x < JSP_BUFFER_SIZE) => x % JSP_BUFFER_SIZE = x - JSP_BUFFER_SIZE
<1>1. JSP_BUFFER_SIZE \in Nat \ {0}
  BY JspAssumption
<1>2. CASE x < JSP_BUFFER_SIZE
  <2>1. x \in 0..(JSP_BUFFER_SIZE - 1)
    BY <1>1, <1>2
  <2> QED BY <2>1, <1>1, <1>2, ModFacts
<1>3. CASE ~(x < JSP_BUFFER_SIZE)
  <2>1. x \in JSP_BUFFER_SIZE..(2 * JSP_BUFFER_SIZE - 1)
    BY <1>1, <1>3
  <2> QED BY <2>1, <1>1, <1>3, ModFacts
<1> QED BY <1>2, <1>3

\* Advancing an index by a and then by b is advancing it by their sum.
LEMMA WrapAdds ==
  ASSUME NEW i \in Slots, NEW a \in Nat, NEW b \in Nat, a + b <= JSP_BUFFER_SIZE
  PROVE  (((i + a) % JSP_BUFFER_SIZE) + b) % JSP_BUFFER_SIZE = (i + (a + b)) % JSP_BUFFER_SIZE
<1> DEFINE N == JSP_BUFFER_SIZE
           x == i + a
           y == i + (a + b)
           w == x % N
           z == w + b
<1>0. N \in Nat \ {0} /\ i \in 0..(N - 1)
  BY JspAssumption DEF Slots
<1>1. x \in Nat /\ x < 2 * N /\ y \in Nat /\ y < 2 * N /\ y = x + b /\ x < i + N + 1
  BY <1>0
<1> HIDE DEF x, y
<1>2. (x < N => w = x) /\ (~(x < N) => w = x - N)
  BY <1>1, WrapOnce
<1>3. (y < N => y % N = y) /\ (~(y < N) => y % N = y - N)
  BY <1>1, WrapOnce
<1> HIDE DEF w
<1>4. z \in Nat /\ z < 2 * N /\ z = w + b
  BY <1>0, <1>1, <1>2 DEF x
<1> HIDE DEF z
<1>5. (z < N => z % N = z) /\ (~(z < N) => z % N = z - N)
  BY <1>4, WrapOnce
<1>6. z % N = y % N
  BY <1>0, <1>1, <1>2, <1>3, <1>4, <1>5 DEF x
<1> QED BY <1>6 DEF x, y, z, w

\* Different offsets of less than a round are different slots.
LEMMA WrapInjective ==
  ASSUME NEW i \in Slots, NEW a \in 0..(JSP_BUFFER_SIZE - 1),
         NEW b \in 0..(JSP_BUFFER_SIZE - 1),
         (i + a) % JSP_BUFFER_SIZE = (i + b) % JSP_BUFFER_SIZE
  PROVE  a = b
<1> DEFINE N == JSP_BUFFER_SIZE
           x == i + a
           y == i + b
<1>0. N \in Nat \ {0} /\ i \in 0..(N - 1)
  BY JspAssumption DEF Slots
<1>1. x \in Nat /\ x < 2 * N /\ y \in Nat /\ y < 2 * N /\ x % N = y % N
  BY <1>0
<1> HIDE DEF x, y
<1>2. (x < N => x % N = x) /\ (~(x < N) => x % N = x - N)
  BY <1>1, WrapOnce
<1>3. (y < N => y % N = y) /\ (~(y < N) => y % N = y - N)
  BY <1>1, WrapOnce
<1>4. x = y \/ x = y - N \/ y = x - N
  BY <1>0, <1>1, <1>2, <1>3
<1> QED BY <1>0, <1>4 DEF x, y

\* What a ring holds is a sequence of bytes.
LEMMA RingIsSeq ==
  ASSUME NEW buf \in [Slots -> Nat], NEW i \in Nat, NEW n \in Nat
  PROVE  /\ Ring(buf, i, n) \in Seq(Nat)
         /\ Len(Ring(buf, i, n)) = n
         /\ \A k \in 1..n : Ring(buf, i, n)[k] = buf[(i + (k - 1)) % JSP_BUFFER_SIZE]
<1>1. ASSUME NEW k \in 1..n
      PROVE  /\ i + k - 1 = i + (k - 1)
             /\ buf[(i + k - 1) % JSP_BUFFER_SIZE] \in Nat
  <2>1. i + k - 1 \in Nat
    OBVIOUS
  <2> QED BY <2>1, WrapInSlots
<1>2. Ring(buf, i, n) \in [1..n -> Nat]
  BY <1>1 DEF Ring
<1>3. Ring(buf, i, n) \in Seq(Nat) /\ Len(Ring(buf, i, n)) = n
  BY <1>2
<1> QED BY <1>1, <1>3 DEF Ring

\* Stored puts the bytes in their slots and leaves the other slots alone.
LEMMA StoredFacts ==
  ASSUME NEW buf \in [Slots -> Nat], NEW w \in Slots, NEW seq \in Seq(Nat),
         Len(seq) <= JSP_BUFFER_SIZE
  PROVE  /\ Stored(buf, w, seq) \in [Slots -> Nat]
         /\ \A k \in 1..Len(seq) :
              Stored(buf, w, seq)[(w + (k - 1)) % JSP_BUFFER_SIZE] = seq[k]
         /\ \A j \in Slots :
              (\A k \in 1..Len(seq) : (w + (k - 1)) % JSP_BUFFER_SIZE # j)
                => Stored(buf, w, seq)[j] = buf[j]
<1> DEFINE N == JSP_BUFFER_SIZE
           hits(j) == {k \in 1..Len(seq) : (w + k - 1) % N = j}
           last(j) == CHOOSE k \in hits(j) : \A m \in hits(j) : m <= k
<1>0. N \in Nat \ {0} /\ w \in Nat /\ Len(seq) \in Nat
  BY JspAssumption DEF Slots
<1>1. Stored(buf, w, seq) = [j \in Slots |-> IF hits(j) = {} THEN buf[j] ELSE seq[last(j)]]
  BY DEF Stored
<1>2. ASSUME NEW k \in 1..Len(seq) PROVE w + k - 1 = w + (k - 1) /\ w + (k - 1) \in Nat
  BY <1>0
<1>3. ASSUME NEW k \in 1..Len(seq), NEW j, j = (w + (k - 1)) % N
      PROVE  hits(j) = {k} /\ last(j) = k
  <2>1. k \in hits(j)
    BY <1>2, <1>3
  <2>2. ASSUME NEW m \in hits(j) PROVE m = k
    <3>1. m \in 1..Len(seq) /\ (w + (m - 1)) % N = (w + (k - 1)) % N
      BY <1>2, <1>3
    <3>2. m - 1 \in 0..(N - 1) /\ k - 1 \in 0..(N - 1)
      BY <3>1, <1>0
    <3>3. m - 1 = k - 1
      BY <3>1, <3>2, WrapInjective
    <3> QED BY <3>1, <3>3
  <2>3. hits(j) = {k}
    BY <2>1, <2>2
  <2>4. last(j) \in {k}
    <3> HIDE DEF hits
    <3>1. \E x \in hits(j) : \A m \in hits(j) : m <= x
      BY <2>3
    <3>2. last(j) \in hits(j)
      BY <3>1
    <3> QED BY <3>2, <2>3
  <2> QED BY <2>3, <2>4
<1>4. ASSUME NEW j \in Slots PROVE Stored(buf, w, seq)[j] \in Nat
  <2>1. CASE hits(j) = {}
    <3> HIDE DEF hits, last
    <3> QED BY <2>1, <1>1
  <2>2. CASE hits(j) # {}
    <3>1. PICK k \in 1..Len(seq) : (w + (k - 1)) % N = j
      BY <2>2, <1>2
    <3>2. last(j) = k
      BY <3>1, <1>3
    <3>3. seq[k] \in Nat
      BY ElementOfSeq
    <3> HIDE DEF hits, last
    <3> QED BY <2>2, <3>2, <3>3, <1>1
  <2> QED BY <2>1, <2>2
<1>5. Stored(buf, w, seq) \in [Slots -> Nat]
  <2> HIDE DEF hits, last
  <2> QED BY <1>1, <1>4
<1>6. ASSUME NEW k \in 1..Len(seq)
      PROVE  Stored(buf, w, seq)[(w + (k - 1)) % N] = seq[k]
  <2> DEFINE j == (w + (k - 1)) % N
  <2>1. j \in Slots
    BY <1>2, WrapInSlots
  <2>2. hits(j) = {k} /\ last(j) = k
    BY <1>3
  <2> HIDE DEF hits, last, j
  <2>3. Stored(buf, w, seq)[j] = seq[k]
    BY <1>1, <2>1, <2>2
  <2> QED BY <2>3 DEF j
<1>7. ASSUME NEW j \in Slots, \A k \in 1..Len(seq) : (w + (k - 1)) % N # j
      PROVE  Stored(buf, w, seq)[j] = buf[j]
  <2>1. hits(j) = {}
    BY <1>2, <1>7
  <2> HIDE DEF hits, last
  <2> QED BY <1>1, <2>1
<1> QED BY <1>5, <1>6, <1>7

\* Storing a sequence behind the bytes of a ring appends it to them.
LEMMA StoreAppends ==
  ASSUME NEW buf \in [Slots -> Nat], NEW rd \in Slots, NEW c \in Nat,
         NEW seq \in Seq(Nat), c + Len(seq) <= JSP_BUFFER_SIZE
  PROVE  Ring(Stored(buf, (rd + c) % JSP_BUFFER_SIZE, seq), rd, c + Len(seq))
           = Ring(buf, rd, c) \o seq
<1> DEFINE N == JSP_BUFFER_SIZE
           w == (rd + c) % N
           new == Stored(buf, w, seq)
           lhs == Ring(new, rd, c + Len(seq))
           rhs == Ring(buf, rd, c) \o seq
<1>0. N \in Nat \ {0} /\ rd \in Nat /\ Len(seq) \in Nat /\ c + Len(seq) \in Nat
  BY JspAssumption DEF Slots
<1>1. w \in Slots /\ Len(seq) <= N
  <2>1. rd + c \in Nat /\ Len(seq) <= N
    BY <1>0
  <2>2. w \in Slots
    BY <2>1, WrapInSlots, Zenon
  <2> QED BY <2>1, <2>2
<1>2. /\ new \in [Slots -> Nat]
      /\ \A k \in 1..Len(seq) : new[(w + (k - 1)) % N] = seq[k]
      /\ \A j \in Slots : (\A k \in 1..Len(seq) : (w + (k - 1)) % N # j) => new[j] = buf[j]
  <2> HIDE DEF w
  <2> QED BY <1>1, StoredFacts
<1>3. /\ lhs \in Seq(Nat) /\ Len(lhs) = c + Len(seq)
      /\ \A k \in 1..(c + Len(seq)) : lhs[k] = new[(rd + (k - 1)) % N]
  <2> HIDE DEF new
  <2> QED BY <1>0, <1>2, RingIsSeq
<1>4. /\ Ring(buf, rd, c) \in Seq(Nat) /\ Len(Ring(buf, rd, c)) = c
      /\ \A k \in 1..c : Ring(buf, rd, c)[k] = buf[(rd + (k - 1)) % N]
  BY <1>0, RingIsSeq
<1>5. /\ rhs \in Seq(Nat) /\ Len(rhs) = c + Len(seq)
      /\ \A k \in 1..(c + Len(seq)) :
           rhs[k] = IF k <= c THEN Ring(buf, rd, c)[k] ELSE seq[k - c]
  <2> DEFINE r == Ring(buf, rd, c)
  <2>1. r \in Seq(Nat) /\ Len(r) = c
    BY <1>4
  <2> HIDE DEF r
  <2>2. /\ r \o seq \in Seq(Nat)
        /\ Len(r \o seq) = Len(r) + Len(seq)
        /\ \A k \in 1..(Len(r) + Len(seq)) :
             (r \o seq)[k] = IF k <= Len(r) THEN r[k] ELSE seq[k - Len(r)]
    BY <2>1, ConcatProperties
  <2>3. /\ r \o seq \in Seq(Nat)
        /\ Len(r \o seq) = c + Len(seq)
        /\ \A k \in 1..(c + Len(seq)) :
             (r \o seq)[k] = IF k <= c THEN r[k] ELSE seq[k - c]
    BY <2>1, <2>2
  <2> QED BY <2>3 DEF r
<1>6. ASSUME NEW k \in 1..Len(seq)
      PROVE  (w + (k - 1)) % N = (rd + (c + (k - 1))) % N
  <2>1. k - 1 \in Nat /\ c + (k - 1) <= N
    BY <1>0
  <2> QED BY <2>1, <1>0, WrapAdds, Zenon
<1>7. ASSUME NEW k \in 1..(c + Len(seq)) PROVE lhs[k] = rhs[k]
  <2>1. CASE k <= c
    <3>1. ASSUME NEW m \in 1..Len(seq)
          PROVE  (w + (m - 1)) % N # (rd + (k - 1)) % N
      <4>1. c + (m - 1) \in 0..(N - 1) /\ k - 1 \in 0..(N - 1) /\ c + (m - 1) # k - 1
        BY <1>0, <2>1
      <4>2. (rd + (c + (m - 1))) % N # (rd + (k - 1)) % N
        BY <4>1, WrapInjective
      <4> QED BY <4>2, <1>6
    <3>2. (rd + (k - 1)) % N \in Slots
      <4>1. rd + (k - 1) \in Nat
        BY <1>0
      <4> QED BY <4>1, WrapInSlots
    <3>3. new[(rd + (k - 1)) % N] = buf[(rd + (k - 1)) % N]
      <4> HIDE DEF new, w
      <4> QED BY <3>1, <3>2, <1>2
    <3> HIDE DEF lhs, rhs, new
    <3>4. k \in 1..c
      BY <2>1
    <3> QED BY <3>3, <3>4, <2>1, <1>3, <1>4, <1>5
  <2>2. CASE ~(k <= c)
    <3>1. k - c \in 1..Len(seq) /\ c + ((k - c) - 1) = k - 1
      BY <1>0, <2>2
    <3>2. (w + ((k - c) - 1)) % N = (rd + (k - 1)) % N
      BY <1>6, <3>1
    <3>3. new[(rd + (k - 1)) % N] = seq[k - c]
      <4> HIDE DEF new, w
      <4> QED BY <3>1, <3>2, <1>2
    <3> HIDE DEF lhs, rhs, new
    <3> QED BY <3>3, <2>2, <1>3, <1>5
  <2> QED BY <2>1, <2>2
<1> HIDE DEF lhs, rhs
<1>8. lhs = rhs
  BY <1>3, <1>5, <1>7, SeqEqual
<1> QED BY <1>8 DEF lhs, rhs

\* Advancing the read index by n takes the n oldest bytes and leaves the others.
LEMMA RingSplits ==
  ASSUME NEW buf \in [Slots -> Nat], NEW rd \in Slots,
         NEW c \in 0..JSP_BUFFER_SIZE, NEW n \in 0..c
  PROVE  /\ Ring(buf, rd, n) = SubSeq(Ring(buf, rd, c), 1, n)
         /\ Ring(buf, (rd + n) % JSP_BUFFER_SIZE, c - n) = SubSeq(Ring(buf, rd, c), n + 1, c)
<1> DEFINE N == JSP_BUFFER_SIZE
           w == (rd + n) % N
           all == Ring(buf, rd, c)
<1>0. /\ N \in Nat \ {0} /\ rd \in Nat /\ c \in Nat /\ n \in Nat /\ c - n \in Nat
      /\ rd + n \in Nat /\ w \in Slots /\ w \in Nat
  <2>1. N \in Nat \ {0} /\ rd \in Nat /\ c \in Nat /\ n \in Nat /\ c - n \in Nat
    BY JspAssumption DEF Slots
  <2>2. rd + n \in Nat
    BY <2>1
  <2>3. w \in Slots
    BY <2>2, WrapInSlots
  <2> QED BY <2>1, <2>2, <2>3 DEF Slots
<1>1. /\ all \in Seq(Nat) /\ Len(all) = c
      /\ \A k \in 1..c : all[k] = buf[(rd + (k - 1)) % N]
  BY <1>0, RingIsSeq
<1>2. /\ Ring(buf, rd, n) \in Seq(Nat) /\ Len(Ring(buf, rd, n)) = n
      /\ \A k \in 1..n : Ring(buf, rd, n)[k] = buf[(rd + (k - 1)) % N]
  BY <1>0, RingIsSeq
<1>3. /\ Ring(buf, w, c - n) \in Seq(Nat) /\ Len(Ring(buf, w, c - n)) = c - n
      /\ \A k \in 1..(c - n) : Ring(buf, w, c - n)[k] = buf[(w + (k - 1)) % N]
  <2> HIDE DEF w
  <2> QED BY <1>0, RingIsSeq
<1>4. \A k \in 1..c : all[k] \in Nat
  BY <1>1, ElementOfSeq
<1> HIDE DEF all
<1>5. /\ SubSeq(all, 1, n) \in Seq(Nat) /\ Len(SubSeq(all, 1, n)) = n
      /\ \A k \in 1..n : SubSeq(all, 1, n)[k] = all[k]
  <2>1. \A k \in 1..n : all[k] \in Nat
    BY <1>4, <1>0
  <2> QED BY <2>1, <1>0, SubSeqProperties
<1>6. /\ SubSeq(all, n + 1, c) \in Seq(Nat) /\ Len(SubSeq(all, n + 1, c)) = c - n
      /\ \A k \in 1..(c - n) : SubSeq(all, n + 1, c)[k] = all[n + k]
  <2>1. \A k \in (n + 1)..c : all[k] \in Nat
    BY <1>4, <1>0
  <2>2. /\ SubSeq(all, n + 1, c) \in Seq(Nat)
        /\ Len(SubSeq(all, n + 1, c)) = IF n + 1 <= c THEN c - (n + 1) + 1 ELSE 0
        /\ \A k \in 1..(c - (n + 1) + 1) : SubSeq(all, n + 1, c)[k] = all[(n + 1) + k - 1]
    BY <2>1, <1>0, SubSeqProperties
  <2> QED BY <2>2, <1>0
<1>7. Ring(buf, rd, n) = SubSeq(all, 1, n)
  <2>1. ASSUME NEW k \in 1..n
        PROVE  Ring(buf, rd, n)[k] = SubSeq(all, 1, n)[k]
    <3>1. k \in 1..c
      BY <1>0
    <3> QED BY <3>1, <1>1, <1>2, <1>5
  <2> QED BY <2>1, <1>2, <1>5, SeqEqual
<1>8. Ring(buf, w, c - n) = SubSeq(all, n + 1, c)
  <2>1. ASSUME NEW k \in 1..(c - n)
        PROVE  Ring(buf, w, c - n)[k] = SubSeq(all, n + 1, c)[k]
    <3>1. (w + (k - 1)) % N = (rd + (n + (k - 1))) % N
      <4>1. k - 1 \in Nat /\ n + (k - 1) <= N
        BY <1>0
      <4> QED BY <4>1, <1>0, WrapAdds, Zenon
    <3>2. n + k \in 1..c /\ (n + k) - 1 = n + (k - 1)
      BY <1>0
    <3>3. all[n + k] = buf[(rd + (n + (k - 1))) % N]
      BY <3>2, <1>1
    <3> HIDE DEF w
    <3> QED BY <3>1, <3>3, <1>3, <1>6
  <2> HIDE DEF w
  <2> QED BY <2>1, <1>3, <1>6, SeqEqual
<1> QED BY <1>7, <1>8 DEF all

-----------------------------------------------------------------------------
(***************************************************************************)
(* Towards the hardware.                                                   *)
(***************************************************************************)

\* The write index is where the bytes of the ring end, and before a client is
\* accepted there are none: Accept clears the ring, so that bytes left in it
\* would be lost.
ToHwInv ==
  /\ jsp_tohw_buf \in [Slots -> Nat]
  /\ csock \in Seq(Nat)
  /\ clientPut \in Nat
  /\ hwGot \in Seq(Nat)
  /\ jsp_tohw_wr_idx = (jsp_tohw_rd_idx + jsp_tohw_count) % JSP_BUFFER_SIZE
  /\ jpc = "accept" => jsp_tohw_count = 0

\* Concatenation of bytes is associative.
LEMMA BytesAssociate ==
  ASSUME NEW s \in Seq(Nat), NEW t \in Seq(Nat), NEW u \in Seq(Nat)
  PROVE  (s \o t) \o u = s \o (t \o u)
BY ConcatAssociative, SMTT(30)

\* The smaller of two numbers.
LEMMA SmallerFacts ==
  ASSUME NEW a \in Nat, NEW b \in Nat
  PROVE  /\ Smaller(a, b) \in Nat /\ Smaller(a, b) <= a /\ Smaller(a, b) <= b
         /\ Smaller(a, b) = a \/ Smaller(a, b) = b
BY DEF Smaller

\* A recv() has room up to the end of the array and of the free slots.
LEMMA RoomFacts ==
  ASSUME NEW wr \in Slots, NEW c \in 0..JSP_BUFFER_SIZE
  PROVE  Room(wr, c) \in Nat /\ c + Room(wr, c) <= JSP_BUFFER_SIZE
<1>1. /\ JSP_BUFFER_SIZE - wr \in Nat /\ JSP_BUFFER_SIZE - c \in Nat
      /\ c \in Nat /\ JSP_BUFFER_SIZE \in Nat
  BY JspAssumption DEF Slots
<1> QED BY <1>1 DEF Room, Smaller

\* The two recv() calls move bytes from the socket to the ring and change
\* nothing of the bytes on the way.
LEMMA QueueKeepsBytes ==
  ASSUME TypeOK, ToHwInv, QueueDataFromClient
  PROVE  /\ jsp_tohw_count' \in 0..JSP_BUFFER_SIZE
         /\ jsp_tohw_rd_idx' = jsp_tohw_rd_idx
         /\ jsp_tohw_wr_idx' \in Slots
         /\ jsp_tohw_wr_idx' = (jsp_tohw_rd_idx' + jsp_tohw_count') % JSP_BUFFER_SIZE
         /\ jsp_tohw_buf' \in [Slots -> Nat]
         /\ csock' \in Seq(Nat)
         /\ ToHwQueue' = ToHwQueue
<1> DEFINE N == JSP_BUFFER_SIZE
           L == Len(csock)
           rd == jsp_tohw_rd_idx
           wr == jsp_tohw_wr_idx
           c == jsp_tohw_count
           n1 == Smaller(Room(wr, c), L)
           wr1 == (wr + n1) % N
           n2 == Smaller(Room(wr1, c + n1), L - n1)
           s1 == SubSeq(csock, 1, n1)
           s2 == SubSeq(csock, n1 + 1, n1 + n2)
           s3 == SubSeq(csock, n1 + n2 + 1, L)
           buf1 == Stored(jsp_tohw_buf, wr, s1)
           buf2 == Stored(buf1, wr1, s2)
<1>0. /\ N \in Nat \ {0} /\ L \in Nat /\ rd \in Slots /\ rd \in Nat /\ wr \in Slots /\ wr \in Nat
      /\ c \in 0..N /\ c \in Nat /\ wr = (rd + c) % N
      /\ csock \in Seq(Nat) /\ jsp_tohw_buf \in [Slots -> Nat]
  BY JspAssumption DEF TypeOK, ToHwInv, Slots
<1>1. /\ jsp_tohw_buf' = buf2
      /\ jsp_tohw_wr_idx' = (wr1 + n2) % N
      /\ jsp_tohw_count' = c + n1 + n2
      /\ csock' = s3
      /\ jsp_tohw_rd_idx' = rd
  BY DEF QueueDataFromClient
<1>2. n1 \in Nat /\ n1 <= L /\ c + n1 <= N
  <2>1. Room(wr, c) \in Nat /\ c + Room(wr, c) <= N
    BY <1>0, RoomFacts
  <2> DEFINE r1 == Room(wr, c)
  <2> HIDE DEF r1
  <2>2. Smaller(r1, L) \in Nat /\ Smaller(r1, L) <= r1 /\ Smaller(r1, L) <= L
    BY <2>1, <1>0, SmallerFacts DEF r1
  <2>3. n1 = Smaller(r1, L)
    BY DEF r1
  <2> HIDE DEF n1
  <2>4. n1 \in Nat /\ n1 <= r1 /\ n1 <= L /\ r1 \in Nat /\ c + r1 <= N
    BY <2>1, <2>2, <2>3 DEF r1
  <2> QED BY <2>4, <1>0
<1> HIDE DEF n1
<1>3. wr1 \in Slots /\ wr1 \in Nat /\ wr1 = (rd + (c + n1)) % N
  <2>1. wr + n1 \in Nat
    BY <1>0, <1>2
  <2>2. wr1 \in Slots
    BY <2>1, WrapInSlots
  <2>3. wr1 = (rd + (c + n1)) % N
    BY <1>0, <1>2, WrapAdds, ZenonT(60)
  <2> QED BY <2>2, <2>3 DEF Slots
<1> HIDE DEF wr1
<1>4. n2 \in Nat /\ n1 + n2 <= L /\ (c + n1) + n2 <= N
  <2> DEFINE c1 == c + n1
             l1 == L - n1
             r1 == Room(wr1, c1)
  <2>1. c1 \in 0..N /\ l1 \in Nat
    BY <1>0, <1>2
  <2> HIDE DEF c1, l1
  <2>2. r1 \in Nat /\ c1 + r1 <= N
    BY <2>1, <1>3, RoomFacts
  <2> HIDE DEF r1
  <2>3. Smaller(r1, l1) \in Nat /\ Smaller(r1, l1) <= r1 /\ Smaller(r1, l1) <= l1
    BY <2>1, <2>2, SmallerFacts
  <2>4. n2 = Smaller(r1, l1)
    BY DEF r1, l1, c1
  <2> HIDE DEF n2
  <2> QED BY <2>1, <2>2, <2>3, <2>4, <1>0, <1>2 DEF c1, l1
<1> HIDE DEF n2
<1>5. \A k \in 1..L : csock[k] \in Nat
  BY <1>0, ElementOfSeq
<1>6. s1 \in Seq(Nat) /\ Len(s1) = n1
  <2>1. \A k \in 1..n1 : csock[k] \in Nat
    BY <1>0, <1>2, <1>5
  <2> QED BY <2>1, <1>2, SubSeqProperties
<1>7. s2 \in Seq(Nat) /\ Len(s2) = n2
  <2>1. \A k \in (n1 + 1)..(n1 + n2) : csock[k] \in Nat
    BY <1>0, <1>2, <1>4, <1>5
  <2>2. n1 + 1 \in Int /\ n1 + n2 \in Int
    BY <1>2, <1>4
  <2>3. s2 \in Seq(Nat) /\ Len(s2) = IF n1 + 1 <= n1 + n2 THEN (n1 + n2) - (n1 + 1) + 1 ELSE 0
    BY <2>1, <2>2, SubSeqProperties
  <2> HIDE DEF s2
  <2> QED BY <2>3, <1>2, <1>4
<1>8. s3 \in Seq(Nat)
  <2>1. \A k \in (n1 + n2 + 1)..L : csock[k] \in Nat
    BY <1>0, <1>2, <1>4, <1>5
  <2>2. n1 + n2 + 1 \in Int /\ L \in Int
    BY <1>0, <1>2, <1>4
  <2> QED BY <2>1, <2>2, SubSeqProperties
<1>9. s1 \o (s2 \o s3) = csock
  <2>1. SubSeq(csock, 1, n1) \o SubSeq(csock, n1 + 1, n1 + n2) = SubSeq(csock, 1, n1 + n2)
    <3>1. /\ 1 \in 1..(Len(csock) + 1) /\ n1 \in (1 - 1)..Len(csock)
          /\ n1 + n2 \in n1..Len(csock)
      BY <1>0, <1>2, <1>4
    <3> QED BY <3>1, <1>0, ConcatAdjacentSubSeq, Zenon
  <2>2. SubSeq(csock, 1, n1 + n2) \o SubSeq(csock, n1 + n2 + 1, Len(csock)) = SubSeq(csock, 1, Len(csock))
    <3>1. /\ 1 \in 1..(Len(csock) + 1) /\ n1 + n2 \in (1 - 1)..Len(csock)
          /\ Len(csock) \in (n1 + n2)..Len(csock)
      BY <1>0, <1>2, <1>4
    <3> QED BY <3>1, <1>0, ConcatAdjacentSubSeq, Zenon
  <2>3. SubSeq(csock, 1, Len(csock)) = csock
    BY <1>0, SubSeqFull
  <2>4. (s1 \o s2) \o s3 = csock
    BY <2>1, <2>2, <2>3, Zenon
  <2>5. (s1 \o s2) \o s3 = s1 \o (s2 \o s3)
    <3> HIDE DEF s1, s2, s3
    <3> QED BY <1>6, <1>7, <1>8, BytesAssociate
  <2> QED BY <2>4, <2>5, Zenon
<1> HIDE DEF s1, s2, s3
<1>10. buf1 \in [Slots -> Nat] /\ Ring(buf1, rd, c + n1) = Ring(jsp_tohw_buf, rd, c) \o s1
  <2>1. Len(s1) <= N /\ c + Len(s1) <= N
    BY <1>0, <1>2, <1>6
  <2>2. buf1 \in [Slots -> Nat]
    BY <2>1, <1>0, <1>6, StoredFacts
  <2>3. Ring(Stored(jsp_tohw_buf, (rd + c) % N, s1), rd, c + Len(s1)) = Ring(jsp_tohw_buf, rd, c) \o s1
    BY <2>1, <1>0, <1>6, StoreAppends, ZenonT(60)
  <2> QED BY <2>2, <2>3, <1>0, <1>6, Zenon
<1> HIDE DEF buf1
<1>11. buf2 \in [Slots -> Nat] /\ Ring(buf2, rd, (c + n1) + n2) = Ring(buf1, rd, c + n1) \o s2
  <2>1. Len(s2) <= N /\ (c + n1) + Len(s2) <= N /\ c + n1 \in Nat
    BY <1>0, <1>2, <1>4, <1>7
  <2>2. buf2 \in [Slots -> Nat]
    BY <2>1, <1>3, <1>7, <1>10, StoredFacts
  <2>3. Ring(Stored(buf1, (rd + (c + n1)) % N, s2), rd, (c + n1) + Len(s2)) = Ring(buf1, rd, c + n1) \o s2
    BY <2>1, <1>0, <1>7, <1>10, StoreAppends, ZenonT(60)
  <2> QED BY <2>2, <2>3, <1>3, <1>7, Zenon
<1> HIDE DEF buf2
<1>12. jsp_tohw_wr_idx' = (rd + ((c + n1) + n2)) % N /\ jsp_tohw_wr_idx' \in Slots
  <2>1. c + n1 \in Nat /\ wr1 + n2 \in Nat
    BY <1>0, <1>2, <1>3, <1>4
  <2>2. (((rd + (c + n1)) % N) + n2) % N = (rd + ((c + n1) + n2)) % N
    <3> DEFINE c1 == c + n1
    <3>1. c1 \in Nat /\ c1 + n2 <= N
      BY <2>1, <1>4
    <3> HIDE DEF c1
    <3>2. (((rd + c1) % N) + n2) % N = (rd + (c1 + n2)) % N
      BY <3>1, <1>0, <1>4, WrapAdds, ZenonT(60)
    <3> QED BY <3>2 DEF c1
  <2>3. (wr1 + n2) % N \in Slots
    BY <2>1, WrapInSlots, Zenon
  <2> QED BY <2>2, <2>3, <1>1, <1>3, Zenon
<1>13. jsp_tohw_count' = (c + n1) + n2 /\ jsp_tohw_count' \in 0..N
  BY <1>0, <1>1, <1>2, <1>4
<1>14. ToHwQueue' = ToHwQueue
  <2> DEFINE r == Ring(jsp_tohw_buf, rd, c)
  <2>1. r \in Seq(Nat)
    BY <1>0, RingIsSeq
  <2> HIDE DEF r
  <2>2. ToHwQueue' = ((r \o s1) \o s2) \o s3
    <3>1. ToHwQueue' = Ring(buf2, rd, (c + n1) + n2) \o s3
      BY <1>1, <1>13 DEF ToHwQueue
    <3> QED BY <3>1, <1>10, <1>11 DEF r
  <2>3. s1 \o s2 \in Seq(Nat) /\ s2 \o s3 \in Seq(Nat) /\ r \o s1 \in Seq(Nat)
    BY <2>1, <1>6, <1>7, <1>8, ConcatProperties
  <2>4. ((r \o s1) \o s2) \o s3 = (r \o s1) \o (s2 \o s3)
    <3> DEFINE q == r \o s1
    <3>1. q \in Seq(Nat)
      BY <2>3
    <3> HIDE DEF q
    <3>2. (q \o s2) \o s3 = q \o (s2 \o s3)
      BY <3>1, <1>7, <1>8, BytesAssociate
    <3> QED BY <3>2 DEF q
  <2>5. (r \o s1) \o (s2 \o s3) = r \o (s1 \o (s2 \o s3))
    BY <2>1, <2>3, <1>6, BytesAssociate
  <2> QED BY <2>2, <2>4, <2>5, <1>9 DEF ToHwQueue, r
<1> QED BY <1>1, <1>8, <1>11, <1>12, <1>13, <1>14, Zenon

\* A transaction takes the oldest bytes of the ring.
LEMMA TransactTakesOldest ==
  ASSUME TypeOK, ToHwInv, NEW n \in Nat, n <= jsp_tohw_count,
         hwGot' = hwGot \o Ring(jsp_tohw_buf, jsp_tohw_rd_idx, n),
         jsp_tohw_count' = jsp_tohw_count - n,
         jsp_tohw_rd_idx' = (jsp_tohw_rd_idx + n) % JSP_BUFFER_SIZE,
         UNCHANGED <<jsp_tohw_buf, jsp_tohw_wr_idx, csock, clientPut, late>>
  PROVE  /\ jsp_tohw_count' \in 0..JSP_BUFFER_SIZE
         /\ jsp_tohw_rd_idx' \in Slots
         /\ jsp_tohw_wr_idx' = (jsp_tohw_rd_idx' + jsp_tohw_count') % JSP_BUFFER_SIZE
         /\ hwGot' \in Seq(Nat)
         /\ [ToHw!LinkNext]_(ToHw!linkVars)
<1> DEFINE N == JSP_BUFFER_SIZE
           rd == jsp_tohw_rd_idx
           c == jsp_tohw_count
           r == Ring(jsp_tohw_buf, rd, c)
           q == r \o csock
<1>0. /\ N \in Nat \ {0} /\ rd \in Slots /\ rd \in Nat /\ c \in 0..N /\ c \in Nat /\ n \in 0..c
      /\ c - n \in Nat /\ jsp_tohw_wr_idx = (rd + c) % N
      /\ csock \in Seq(Nat) /\ Len(csock) \in Nat
      /\ jsp_tohw_buf \in [Slots -> Nat] /\ hwGot \in Seq(Nat)
  BY JspAssumption DEF TypeOK, ToHwInv, Slots
<1>1. jsp_tohw_count' \in 0..N
  BY <1>0
<1>2. jsp_tohw_rd_idx' \in Slots
  <2>1. rd + n \in Nat
    BY <1>0
  <2> QED BY <2>1, WrapInSlots, Zenon
<1>3. jsp_tohw_wr_idx' = (jsp_tohw_rd_idx' + jsp_tohw_count') % N
  <2> DEFINE d == c - n
  <2>1. d \in Nat /\ n + d = c /\ n + d <= N
    BY <1>0
  <2> HIDE DEF d
  <2>2. (((rd + n) % N) + d) % N = (rd + (n + d)) % N
    BY <2>1, <1>0, WrapAdds, ZenonT(60)
  <2>3. (((rd + n) % N) + d) % N = (rd + c) % N
    BY <2>1, <2>2, Zenon
  <2> QED BY <2>3, <1>0, Zenon DEF d
<1>4. r \in Seq(Nat) /\ Len(r) = c
  BY <1>0, RingIsSeq
<1>5. /\ Ring(jsp_tohw_buf, rd, n) = SubSeq(r, 1, n)
      /\ Ring(jsp_tohw_buf, (rd + n) % N, c - n) = SubSeq(r, n + 1, c)
  BY <1>0, RingSplits, Zenon
<1>6. /\ ToHwQueue = q
      /\ ToHwQueue' = SubSeq(r, n + 1, c) \o csock
      /\ hwGot' = hwGot \o SubSeq(r, 1, n)
  BY <1>5 DEF ToHwQueue
<1> HIDE DEF r
<1>7. SubSeq(r, 1, n) \in Seq(Nat)
  <2>1. \A k \in 1..n : r[k] \in Nat
    BY <1>0, <1>4, ElementOfSeq
  <2> QED BY <2>1, <1>0, SubSeqProperties
<1>8. hwGot' \in Seq(Nat)
  BY <1>0, <1>6, <1>7, ConcatProperties
<1>9. CASE n = 0
  <2>1. SubSeq(r, 1, n) = <<>>
    BY <1>9, SubSeqEmpty
  <2>2. SubSeq(r, n + 1, c) = r
    BY <1>9, <1>4, SubSeqFull
  <2>3. hwGot' = hwGot
    BY <2>1, <1>0, <1>6, ConcatEmptySeq
  <2>4. ToHwQueue' = ToHwQueue
    BY <2>2, <1>6
  <2> QED BY <2>3, <2>4, <1>1, <1>2, <1>3, <1>8 DEF ToHw!linkVars
<1>10. CASE n # 0
  <2>1. n \in 1..c /\ 1 \in 1..Len(r) /\ n \in 1..Len(r)
    BY <1>0, <1>4, <1>10
  <2>2. SubSeq(q, 1, n) = SubSeq(r, 1, n)
    BY <2>1, <1>0, <1>4, SubSeqOfConcat1, Zenon
  <2>3. q \in Seq(Nat) /\ Len(q) = c + Len(csock)
        /\ \A k \in 1..(c + Len(csock)) : q[k] = IF k <= c THEN r[k] ELSE csock[k - c]
    BY <1>0, <1>4, ConcatProperties
  <2>4. SubSeq(q, n + 1, Len(q)) = SubSeq(r, n + 1, c) \o csock
    <3> DEFINE a == SubSeq(q, n + 1, Len(q))
               t == SubSeq(r, n + 1, c)
               b == t \o csock
    <3> HIDE DEF q
    <3>1. \A k \in (n + 1)..c : r[k] \in Nat
      BY <1>0, <1>4, ElementOfSeq
    <3>2. \A k \in (n + 1)..Len(q) : q[k] \in Nat
      BY <1>0, <2>3, ElementOfSeq
    <3>3. n + 1 \in Int /\ c \in Int /\ Len(q) \in Int
      BY <1>0, <2>3
    <3>4. /\ t \in Seq(Nat)
          /\ Len(t) = IF n + 1 <= c THEN c - (n + 1) + 1 ELSE 0
          /\ \A k \in 1..(c - (n + 1) + 1) : t[k] = r[(n + 1) + k - 1]
      BY <3>1, <3>3, SubSeqProperties
    <3>5. /\ a \in Seq(Nat)
          /\ Len(a) = IF n + 1 <= Len(q) THEN Len(q) - (n + 1) + 1 ELSE 0
          /\ \A k \in 1..(Len(q) - (n + 1) + 1) : a[k] = q[(n + 1) + k - 1]
      BY <3>2, <3>3, SubSeqProperties
    <3> HIDE DEF a, t
    <3>n. n \in Nat /\ c \in Nat /\ n <= c /\ Len(csock) \in Nat /\ Len(q) = c + Len(csock)
      BY <1>0, <2>3
    <3>6. Len(t) = c - n /\ Len(a) = (c - n) + Len(csock)
      BY <3>4, <3>5, <3>n
    <3>7. /\ b \in Seq(Nat) /\ Len(b) = Len(t) + Len(csock)
          /\ \A k \in 1..(Len(t) + Len(csock)) :
               b[k] = IF k <= Len(t) THEN t[k] ELSE csock[k - Len(t)]
      BY <3>4, <1>0, ConcatProperties
    <3> HIDE DEF b
    <3>8. ASSUME NEW k \in 1..Len(a) PROVE a[k] = b[k]
      <4>1. k \in Int /\ n + k \in 1..(c + Len(csock)) /\ (n + 1) + k - 1 = n + k
        BY <3>6, <3>n
      <4>2. a[k] = q[n + k]
        BY <4>1, <3>5, <3>6, <3>n
      <4>3. CASE k <= c - n
        <5>0. n + k <= c
          BY <4>1, <4>3, <3>n
        <5>1. q[n + k] = r[n + k]
          BY <4>1, <5>0, <2>3
        <5>2. t[k] = r[n + k]
          BY <4>1, <4>3, <3>4, <3>n
        <5>3. b[k] = t[k]
          BY <4>1, <4>3, <3>6, <3>7, <3>n
        <5> QED BY <4>2, <5>1, <5>2, <5>3
      <4>4. CASE ~(k <= c - n)
        <5>0. ~(n + k <= c)
          BY <4>1, <4>4, <3>n
        <5>1. q[n + k] = csock[(n + k) - c]
          BY <4>1, <5>0, <2>3
        <5>2. b[k] = csock[k - (c - n)]
          BY <4>1, <4>4, <3>6, <3>7, <3>n
        <5>3. (n + k) - c = k - (c - n)
          BY <4>1, <3>n
        <5> QED BY <4>2, <5>1, <5>2, <5>3
      <4> QED BY <4>3, <4>4
    <3>9. a = b
      BY <3>5, <3>6, <3>7, <3>8, SeqEqual
    <3> QED BY <3>9 DEF a, b, t
  <2>5. n \in 1..Len(q)
    BY <2>1, <2>3, <1>0
  <2>6. ToHw!Get(n)
    <3> HIDE DEF q
    <3> QED BY <2>2, <2>4, <1>6 DEF ToHw!Get
  <2>7. \E k \in 1..Len(ToHwQueue) : ToHw!Get(k)
    BY <2>5, <2>6, <1>6, Zenon
  <2> QED BY <2>7, <1>1, <1>2, <1>3, <1>8 DEF ToHw!LinkNext
<1> QED BY <1>9, <1>10

\* A transaction that fails after the UART took n bytes leaves them in the ring:
\* the link repeats them.
LEMMA FailureRepeatsOldest ==
  ASSUME TypeOK, ToHwInv, NEW n \in Nat, NEW m \in Nat, n <= jsp_tohw_count,
         hwGot' = hwGot \o Ring(jsp_tohw_buf, jsp_tohw_rd_idx, n),
         late' = (IF n + m = 0 THEN late ELSE late + 1),
         UNCHANGED <<tohwVars, csock, clientPut>>
  PROVE  /\ hwGot' \in Seq(Nat)
         /\ [ToHw!LinkNext]_(ToHw!linkVars)
<1> DEFINE c == jsp_tohw_count
           r == Ring(jsp_tohw_buf, jsp_tohw_rd_idx, c)
           q == r \o csock
<1>0. /\ JSP_BUFFER_SIZE \in Nat /\ jsp_tohw_rd_idx \in Slots /\ jsp_tohw_rd_idx \in Nat
      /\ c \in 0..JSP_BUFFER_SIZE /\ c \in Nat /\ n \in 0..c
      /\ csock \in Seq(Nat) /\ Len(csock) \in Nat
      /\ jsp_tohw_buf \in [Slots -> Nat] /\ hwGot \in Seq(Nat)
  BY JspAssumption DEF TypeOK, ToHwInv, Slots
<1>1. r \in Seq(Nat) /\ Len(r) = c
  BY <1>0, RingIsSeq
<1>2. Ring(jsp_tohw_buf, jsp_tohw_rd_idx, n) = SubSeq(r, 1, n)
  BY <1>0, RingSplits, Zenon
<1>3. ToHwQueue = q /\ ToHwQueue' = ToHwQueue
  BY DEF ToHwQueue, tohwVars
<1> HIDE DEF r
<1>4. q \in Seq(Nat) /\ Len(q) = c + Len(csock)
  BY <1>0, <1>1, ConcatProperties
<1>5. SubSeq(r, 1, n) \in Seq(Nat)
  <2>1. \A k \in 1..n : r[k] \in Nat
    BY <1>0, <1>1, ElementOfSeq
  <2> QED BY <2>1, <1>0, SubSeqProperties
<1>6. hwGot' \in Seq(Nat)
  BY <1>0, <1>2, <1>5, ConcatProperties
<1>7. CASE n + m = 0
  <2>1. n = 0
    BY <1>7
  <2>2. SubSeq(r, 1, n) = <<>>
    BY <2>1, SubSeqEmpty
  <2>3. hwGot' = hwGot
    BY <2>2, <1>0, <1>2, ConcatEmptySeq
  <2> QED BY <2>3, <1>3, <1>6, <1>7 DEF ToHw!linkVars
<1>8. CASE n + m # 0
  <2>1. SubSeq(q, 1, n) = SubSeq(r, 1, n)
    <3>1. CASE n = 0
      <4>1. SubSeq(q, 1, 0) = <<>> /\ SubSeq(r, 1, 0) = <<>>
        BY SubSeqEmpty
      <4> QED BY <4>1, <3>1
    <3>2. CASE n # 0
      <4>1. 1 \in 1..Len(r) /\ n \in 1..Len(r)
        BY <1>0, <1>1, <3>2
      <4> QED BY <4>1, <1>0, <1>1, SubSeqOfConcat1, Zenon
    <3> QED BY <3>1, <3>2
  <2>2. n \in 0..Len(q)
    BY <1>0, <1>4
  <2>3. late' = late + 1
    BY <1>8
  <2>4. ToHw!Repeat(n)
    <3> HIDE DEF q
    <3> QED BY <2>1, <2>3, <1>2, <1>3 DEF ToHw!Repeat
  <2>5. \E k \in 0..Len(ToHwQueue) : ToHw!Repeat(k)
    BY <2>2, <2>4, <1>3, Zenon
  <2> QED BY <2>5, <1>6 DEF ToHw!LinkNext
<1> QED BY <1>7, <1>8

\* What the client's socket takes is no more than it is offered.
LEMMA AcceptedFacts ==
  ASSUME NEW a \in Nat, NEW n \in Accepted(a)
  PROVE  n \in Nat /\ n <= a
BY DEF Accepted

\* Sending to the client takes n1 and then n2 bytes, no more than there are, and
\* keeps the read index in the ring.
LEMMA SendTakes ==
  ASSUME TypeOK, SendDataToClient
  PROVE  /\ jsp_fromhw_rd_idx' \in Slots /\ jsp_fromhw_count' \in Nat
         /\ \E n1, n2 \in Nat :
              LET rd1 == (jsp_fromhw_rd_idx + n1) % JSP_BUFFER_SIZE IN
              /\ n1 <= jsp_fromhw_count /\ n2 <= jsp_fromhw_count - n1
              /\ clientGot' = clientGot \o Ring(jsp_fromhw_buf, jsp_fromhw_rd_idx, n1)
                                        \o Ring(jsp_fromhw_buf, rd1, n2)
              /\ jsp_fromhw_rd_idx' = (rd1 + n2) % JSP_BUFFER_SIZE
              /\ jsp_fromhw_count' = jsp_fromhw_count - n1 - n2
<1> DEFINE N == JSP_BUFFER_SIZE
           rd == jsp_fromhw_rd_idx
           c == jsp_fromhw_count
           a1 == Smaller(c, N - rd)
           rd1(n1) == (rd + n1) % N
           a2(n1) == Smaller(c - n1, N - rd1(n1))
<1>0. N \in Nat \ {0} /\ rd \in Nat /\ c \in Nat /\ N - rd \in Nat
  BY JspAssumption DEF TypeOK, Slots
<1>a. PICK n1 \in Accepted(a1) : \E n2 \in Accepted(a2(n1)) :
        /\ clientGot' = clientGot \o Ring(jsp_fromhw_buf, rd, n1) \o Ring(jsp_fromhw_buf, rd1(n1), n2)
        /\ jsp_fromhw_rd_idx' = (rd1(n1) + n2) % N
        /\ jsp_fromhw_count' = c - n1 - n2
  BY DEF SendDataToClient
<1>1. PICK n2 \in Accepted(a2(n1)) :
        /\ clientGot' = clientGot \o Ring(jsp_fromhw_buf, rd, n1) \o Ring(jsp_fromhw_buf, rd1(n1), n2)
        /\ jsp_fromhw_rd_idx' = (rd1(n1) + n2) % N
        /\ jsp_fromhw_count' = c - n1 - n2
  BY <1>a
<1>2. a1 \in Nat /\ a1 <= c
  BY <1>0, SmallerFacts
<1> HIDE DEF a1
<1>3. n1 \in Nat /\ n1 <= c
  <2>1. n1 \in Nat /\ n1 <= a1
    BY <1>2, AcceptedFacts
  <2> QED BY <2>1, <1>0, <1>2
<1>4. rd1(n1) \in Slots /\ rd1(n1) \in Nat /\ N - rd1(n1) \in Nat
  <2>1. rd + n1 \in Nat
    BY <1>0, <1>3
  <2>2. rd1(n1) \in Slots
    BY <2>1, WrapInSlots, Zenon
  <2> HIDE DEF rd1
  <2> QED BY <2>2, <1>0 DEF Slots
<1> HIDE DEF rd1
<1>5. a2(n1) \in Nat /\ a2(n1) <= c - n1
  <2> DEFINE d == c - n1
             e == N - rd1(n1)
  <2>1. d \in Nat /\ e \in Nat
    BY <1>0, <1>3, <1>4
  <2> HIDE DEF d, e
  <2>2. Smaller(d, e) \in Nat /\ Smaller(d, e) <= d
    BY <2>1, SmallerFacts
  <2> QED BY <2>2 DEF d, e
<1> HIDE DEF a2
<1>6. n2 \in Nat /\ n2 <= c - n1
  <2>1. n2 \in Nat /\ n2 <= a2(n1)
    BY <1>1, <1>5, AcceptedFacts
  <2> QED BY <2>1, <1>0, <1>3, <1>5
<1>7. rd1(n1) + n2 \in Nat
  BY <1>4, <1>6
<1>8. (rd1(n1) + n2) % N \in Slots
  BY <1>7, WrapInSlots, Zenon
<1>9. c - n1 - n2 \in Nat
  BY <1>0, <1>3, <1>6
<1>10. jsp_fromhw_rd_idx' \in Slots /\ jsp_fromhw_count' \in Nat
  BY <1>1, <1>8, <1>9, Zenon
<1>11. \E k1, k2 \in Nat :
        /\ k1 <= c /\ k2 <= c - k1
        /\ clientGot' = clientGot \o Ring(jsp_fromhw_buf, rd, k1) \o Ring(jsp_fromhw_buf, rd1(k1), k2)
        /\ jsp_fromhw_rd_idx' = (rd1(k1) + k2) % N
        /\ jsp_fromhw_count' = c - k1 - k2
  BY <1>1, <1>3, <1>6, Zenon
<1> QED BY <1>10, <1>11 DEF rd1

\* At the start nothing is on the way.
LEMMA ToHwStart ==
  ASSUME Init
  PROVE  TypeOK /\ ToHwInv /\ ToHw!LinkInit
<1>1. JSP_BUFFER_SIZE \in Nat \ {0} /\ 0 \in Slots
  BY JspAssumption DEF Slots
<1>2. 0 % JSP_BUFFER_SIZE = 0
  BY <1>1, ModFacts DEF Slots
<1>3. TypeOK
  BY <1>1 DEF Init, TypeOK
<1>4. ToHwInv
  <2>1. jsp_tohw_buf \in [Slots -> Nat]
    BY DEF Init
  <2>2. jsp_tohw_wr_idx = (jsp_tohw_rd_idx + jsp_tohw_count) % JSP_BUFFER_SIZE
    BY <1>2 DEF Init
  <2>3. <<>> \in Seq(Nat)
    BY EmptySeq
  <2> QED BY <2>1, <2>2, <2>3 DEF Init, ToHwInv
<1>5. ToHwQueue = <<>>
  <2>1. Ring(jsp_tohw_buf, 0, 0) \in Seq(Nat) /\ Len(Ring(jsp_tohw_buf, 0, 0)) = 0
    BY <1>4, RingIsSeq DEF ToHwInv
  <2>2. Ring(jsp_tohw_buf, 0, 0) = <<>>
    BY <2>1, EmptySeq
  <2>3. ToHwQueue = <<>> \o <<>>
    BY <2>2 DEF Init, ToHwQueue
  <2> QED BY <2>3, EmptySeq, ConcatEmptySeq
<1> QED BY <1>3, <1>4, <1>5 DEF Init, ToHw!LinkInit

\* One step of the server keeps the indices in range and is a step of the link
\* to the hardware, or none of it: a byte goes in when the client sends it and
\* comes out in a transaction; everything else only moves bytes along.
LEMMA ToHwStep ==
  ASSUME TypeOK, ToHwInv, [Next]_vars
  PROVE  TypeOK' /\ ToHwInv' /\ [ToHw!LinkNext]_(ToHw!linkVars)
<1> DEFINE N == JSP_BUFFER_SIZE
           r == Ring(jsp_tohw_buf, jsp_tohw_rd_idx, jsp_tohw_count)
<1>0. N \in Nat \ {0} /\ 0 \in Slots /\ 0 % N = 0
  <2>1. N \in Nat \ {0} /\ 0 \in Slots
    BY JspAssumption DEF Slots
  <2> QED BY <2>1, ModFacts DEF Slots
<1>r. r \in Seq(Nat)
  <2>1. jsp_tohw_rd_idx \in Nat /\ jsp_tohw_count \in Nat
    BY DEF TypeOK, Slots
  <2> QED BY <2>1, RingIsSeq DEF ToHwInv
<1>1. CASE Accept
  <2>1. TypeOK'
    BY <1>0, <1>1 DEF Accept, TypeOK, envVars
  <2>2. jsp_tohw_wr_idx' = (jsp_tohw_rd_idx' + jsp_tohw_count') % N
    BY <1>0, <1>1 DEF Accept
  <2>3. ToHwInv'
    BY <1>1, <2>2 DEF Accept, ToHwInv, envVars
  <2>4. ToHwQueue' = ToHwQueue
    <3>1. jsp_tohw_count = 0 /\ jsp_tohw_count' = 0
      BY <1>1 DEF Accept, ToHwInv
    <3>2. \A i \in Nat : Ring(jsp_tohw_buf, i, 0) = <<>>
      <4>1. ASSUME NEW i \in Nat PROVE Ring(jsp_tohw_buf, i, 0) = <<>>
        <5>1. Ring(jsp_tohw_buf, i, 0) \in Seq(Nat) /\ Len(Ring(jsp_tohw_buf, i, 0)) = 0
          BY RingIsSeq DEF ToHwInv
        <5> QED BY <5>1, EmptySeq
      <4> QED BY <4>1
    <3>3. jsp_tohw_rd_idx \in Nat /\ jsp_tohw_rd_idx' \in Nat
      BY <2>1 DEF TypeOK, Slots
    <3>4. jsp_tohw_buf' = jsp_tohw_buf /\ csock' = csock
      BY <1>1 DEF Accept, envVars
    <3>5. /\ Ring(jsp_tohw_buf, jsp_tohw_rd_idx, 0) = <<>>
          /\ Ring(jsp_tohw_buf, jsp_tohw_rd_idx', 0) = <<>>
      BY <3>2, <3>3
    <3>6. ToHwQueue = Ring(jsp_tohw_buf, jsp_tohw_rd_idx, 0) \o csock
      BY <3>1 DEF ToHwQueue
    <3>7. ToHwQueue' = Ring(jsp_tohw_buf, jsp_tohw_rd_idx', 0) \o csock
      BY <3>1, <3>4 DEF ToHwQueue
    <3> QED BY <3>5, <3>6, <3>7, Zenon
  <2>5. UNCHANGED <<clientPut, hwGot, late>>
    BY <1>1 DEF Accept, envVars
  <2> QED BY <2>1, <2>3, <2>4, <2>5 DEF ToHw!linkVars
<1>2. CASE Select
  <2>1. /\ jpc' = "send" /\ hangup' = hangup
        /\ UNCHANGED <<clientPut, fromhwVars, hwGot, hwPut, clientGot, late, overrun>>
    BY <1>2 DEF Select
  <2>2. jsp_target_is_running' \in BOOLEAN
    <3>1. CASE pipe # <<>>
      BY <1>2, <3>1 DEF Select
    <3>2. CASE pipe = <<>>
      BY <1>2, <3>2 DEF Select, TypeOK
    <3> QED BY <3>1, <3>2
  <2>3. /\ jsp_tohw_count' \in 0..N
        /\ jsp_tohw_rd_idx' = jsp_tohw_rd_idx
        /\ jsp_tohw_wr_idx' \in Slots
        /\ jsp_tohw_wr_idx' = (jsp_tohw_rd_idx' + jsp_tohw_count') % N
        /\ jsp_tohw_buf' \in [Slots -> Nat]
        /\ csock' \in Seq(Nat)
        /\ ToHwQueue' = ToHwQueue
    <3>1. CASE csock # <<>>
      <4>1. QueueDataFromClient
        BY <1>2, <3>1 DEF Select
      <4> QED BY <4>1, QueueKeepsBytes
    <3>2. CASE csock = <<>>
      <4>1. UNCHANGED <<tohwVars, csock>>
        BY <1>2, <3>2 DEF Select
      <4>2. ToHwQueue' = ToHwQueue
        BY <4>1 DEF tohwVars, ToHwQueue
      <4> QED BY <4>1, <4>2 DEF tohwVars, TypeOK, ToHwInv
    <3> QED BY <3>1, <3>2
  <2>4. TypeOK'
    BY <2>1, <2>2, <2>3 DEF TypeOK, fromhwVars
  <2>5. ToHwInv'
    BY <2>1, <2>3 DEF ToHwInv
  <2> QED BY <2>1, <2>3, <2>4, <2>5 DEF ToHw!linkVars
<1>3. CASE SendDataToClient
  <2>1. /\ jpc' \in {"transact", "select"}
        /\ UNCHANGED <<jsp_target_is_running, envVars, tohwVars, jsp_fromhw_wr_idx, hwGot,
                       late, overrun>>
    BY <1>3 DEF SendDataToClient
  <2>2. TypeOK'
    BY <1>3, <2>1, SendTakes DEF TypeOK, envVars, tohwVars
  <2>3. ToHwInv'
    BY <2>1 DEF ToHwInv, envVars, tohwVars
  <2> QED BY <2>1, <2>2, <2>3 DEF ToHw!linkVars, ToHwQueue, envVars, tohwVars
<1>4. CASE Transact
  <2>1. PICK n \in 0..BURST, m \in 0..BURST : HardwareTransact(n, m)
    BY <1>4 DEF Transact
  <2>2. n \in Nat /\ m \in Nat /\ BURST \in Nat
    BY JspAssumption
  <2>3. n <= jsp_tohw_count
    <3>1. n <= Smaller(jsp_tohw_count, BURST) /\ jsp_tohw_count \in Nat
      BY <2>1 DEF HardwareTransact, TypeOK
    <3> QED BY <3>1, <2>2 DEF Smaller
  <2>4. /\ hwGot' = hwGot \o Ring(jsp_tohw_buf, jsp_tohw_rd_idx, n)
        /\ jsp_tohw_count' = jsp_tohw_count - n
        /\ jsp_tohw_rd_idx' = (jsp_tohw_rd_idx + n) % N
        /\ jsp_fromhw_wr_idx' = (jsp_fromhw_wr_idx + m) % N
        /\ jsp_fromhw_count' = jsp_fromhw_count + m
        /\ jpc' = "select"
        /\ UNCHANGED <<jsp_target_is_running, envVars, jsp_tohw_buf, jsp_tohw_wr_idx,
                       jsp_fromhw_rd_idx, clientGot, late>>
        /\ overrun' \in BOOLEAN
    BY <2>1 DEF HardwareTransact
  <2>5. /\ jsp_tohw_count' \in 0..N
        /\ jsp_tohw_rd_idx' \in Slots
        /\ jsp_tohw_wr_idx' = (jsp_tohw_rd_idx' + jsp_tohw_count') % N
        /\ hwGot' \in Seq(Nat)
        /\ [ToHw!LinkNext]_(ToHw!linkVars)
    <3>1. UNCHANGED <<jsp_tohw_buf, jsp_tohw_wr_idx, csock, clientPut, late>>
      BY <2>4 DEF envVars
    <3> QED BY <3>1, <2>2, <2>3, <2>4, TransactTakesOldest
  <2>6. jsp_fromhw_wr_idx' \in Slots /\ jsp_fromhw_count' \in Nat
    <3>1. jsp_fromhw_wr_idx + m \in Nat /\ jsp_fromhw_count + m \in Nat
      BY <2>2 DEF TypeOK, Slots
    <3>2. (jsp_fromhw_wr_idx + m) % N \in Slots
      BY <3>1, WrapInSlots, Zenon
    <3> QED BY <3>1, <3>2, <2>4, Zenon
  <2>7. TypeOK'
    BY <2>4, <2>5, <2>6 DEF TypeOK, envVars
  <2>8. ToHwInv'
    BY <2>4, <2>5 DEF ToHwInv, envVars
  <2> QED BY <2>5, <2>7, <2>8
<1>5. CASE TransactFails
  <2>1. PICK n \in 0..BURST, m \in 0..BURST : TransactError(n, m)
    BY <1>5 DEF TransactFails
  <2>2. n \in Nat /\ m \in Nat /\ BURST \in Nat
    BY JspAssumption
  <2>3. n <= jsp_tohw_count
    <3>1. n <= Smaller(jsp_tohw_count, BURST) /\ jsp_tohw_count \in Nat
      BY <2>1 DEF TransactError, FailedExchange, TypeOK
    <3> QED BY <3>1, <2>2 DEF Smaller
  <2>4. /\ hwGot' = hwGot \o Ring(jsp_tohw_buf, jsp_tohw_rd_idx, n)
        /\ late' = (IF n + m = 0 THEN late ELSE late + 1)
        /\ late' <= MaxLate
        /\ jpc' = "select"
        /\ UNCHANGED <<jsp_target_is_running, envVars, tohwVars, fromhwVars, clientGot, overrun>>
    BY <2>1 DEF TransactError, FailedExchange
  <2>5. hwGot' \in Seq(Nat) /\ [ToHw!LinkNext]_(ToHw!linkVars)
    <3>1. UNCHANGED <<tohwVars, csock, clientPut>>
      BY <2>4 DEF envVars
    <3> QED BY <3>1, <2>2, <2>3, <2>4, FailureRepeatsOldest
  <2>6. late' \in 0..MaxLate
    BY <2>2, <2>4, JspAssumption DEF TypeOK
  <2>7. TypeOK'
    BY <2>4, <2>6 DEF TypeOK, envVars, tohwVars, fromhwVars
  <2>8. ToHwInv'
    BY <2>4, <2>5 DEF ToHwInv, envVars, tohwVars
  <2> QED BY <2>5, <2>7, <2>8
<1>6. CASE ClientSend
  <2>1. /\ clientPut' = clientPut + 1 /\ csock' = Append(csock, clientPut + 1)
        /\ UNCHANGED <<jpc, jsp_target_is_running, pipe, hangup, tohwVars, fromhwVars, hwGot,
                       late, overrun>>
    BY <1>6 DEF ClientSend
  <2>2. clientPut + 1 \in Nat /\ csock \in Seq(Nat) /\ <<clientPut + 1>> \in Seq(Nat)
    BY DEF ToHwInv
  <2>3. csock' = csock \o <<clientPut + 1>> /\ csock' \in Seq(Nat)
    BY <2>1, <2>2, AppendIsConcat, AppendProperties
  <2>4. TypeOK'
    BY <2>1 DEF TypeOK, tohwVars, fromhwVars
  <2>5. ToHwInv'
    BY <2>1, <2>2, <2>3 DEF ToHwInv, tohwVars
  <2>6. ToHw!Bytes(clientPut, 1) = <<clientPut + 1>>
    BY DEF ToHw!Bytes
  <2>7. ToHwQueue' = ToHwQueue \o <<clientPut + 1>>
    <3> DEFINE b == <<clientPut + 1>>
    <3>1. ToHwQueue' = r \o (csock \o b)
      BY <2>1, <2>3 DEF tohwVars, ToHwQueue
    <3>2. b \in Seq(Nat)
      BY <2>2
    <3> HIDE DEF r, b
    <3>3. r \o (csock \o b) = (r \o csock) \o b
      BY <3>2, <2>2, <1>r, BytesAssociate
    <3> QED BY <3>1, <3>3 DEF r, b, ToHwQueue
  <2>8. ToHw!Put(1)
    BY <2>1, <2>6, <2>7 DEF ToHw!Put
  <2>9. \E k \in 1..1 : ToHw!Put(k)
    BY <2>8
  <2> QED BY <2>4, <2>5, <2>9 DEF ToHw!LinkNext
<1>7. CASE ClientHangup
  BY <1>7 DEF ClientHangup, TypeOK, ToHwInv, ToHw!linkVars, ToHwQueue, tohwVars, fromhwVars
<1>8. CASE MonitorNotice
  BY <1>8 DEF MonitorNotice, TypeOK, ToHwInv, ToHw!linkVars, ToHwQueue, tohwVars, fromhwVars
<1>9. CASE UNCHANGED vars
  BY <1>9 DEF vars, TypeOK, ToHwInv, ToHw!linkVars, ToHwQueue, envVars, tohwVars, fromhwVars
<1> QED BY <1>1, <1>2, <1>3, <1>4, <1>5, <1>6, <1>7, <1>8, <1>9 DEF Next

\* The inductive invariant behind both theorems of this direction.
LEMMA ToHwInvariant == Spec => [](TypeOK /\ ToHwInv)
<1>1. Init => TypeOK /\ ToHwInv
  BY ToHwStart
<1>2. (TypeOK /\ ToHwInv) /\ [Next]_vars => (TypeOK /\ ToHwInv)'
  BY ToHwStep
<1> QED BY <1>1, <1>2, PTL DEF Spec

\* Whatever the sizes of the rings and of a burst, and also when the client
\* leaves bytes in its socket and the ring from the hardware overflows, every
\* index of jsp_server.c stays inside its array and the ring to the hardware
\* never holds more bytes than it has slots.
THEOREM JspTypeCorrect == Spec => []TypeOK
BY ToHwInvariant, PTL

\* Whatever the sizes and however many transactions fail after bytes have moved,
\* the bytes of the client reach the UART in order and none is lost:
\* jsp_queue_data_from_client and jsp_hardware_transact implement the serial link
\* that repeats, with each such failure, the bytes the UART took in it.
THEOREM BytesReachTheUart == Spec => ToHwInOrder
<1>1. Init => ToHw!LinkInit
  BY ToHwStart
<1>2. TypeOK /\ ToHwInv /\ [Next]_vars => [ToHw!LinkNext]_(ToHw!linkVars)
  BY ToHwStep
<1> QED BY <1>1, <1>2, ToHwInvariant, PTL DEF Spec, ToHwInOrder, ToHw!LinkSpec

-----------------------------------------------------------------------------
(***************************************************************************)
(* From the hardware.  The code stores what a transaction brings without   *)
(* looking at the room there is.  As long as it fits, the ring is a link;  *)
(* and it always fits if the client's socket takes all it is offered,      *)
(* since the ring is then empty whenever a transaction stores into it.     *)
(***************************************************************************)

\* The ring holds no more than its slots as long as it was not overrun, and
\* nothing when accept() clears it.
FromHwInv ==
  /\ jsp_fromhw_buf \in [Slots -> Nat]
  /\ hwPut \in Nat
  /\ clientGot \in Seq(Nat)
  /\ jpc = "accept" => jsp_fromhw_count = 0
  /\ ~overrun => /\ jsp_fromhw_wr_idx = (jsp_fromhw_rd_idx + jsp_fromhw_count) % JSP_BUFFER_SIZE
                 /\ jsp_fromhw_count <= JSP_BUFFER_SIZE

\* A ring without bytes holds the empty sequence.
LEMMA EmptyRing ==
  ASSUME NEW buf \in [Slots -> Nat], NEW i \in Nat
  PROVE  Ring(buf, i, 0) = <<>>
<1>1. Ring(buf, i, 0) \in Seq(Nat) /\ Len(Ring(buf, i, 0)) = 0
  BY RingIsSeq
<1> QED BY <1>1, EmptySeq

\* The bytes of two rings one after the other behind those of a sequence.
LEMMA TwoRings ==
  ASSUME NEW s \in Seq(Nat), NEW buf \in [Slots -> Nat],
         NEW i \in Nat, NEW m \in Nat, NEW j \in Nat, NEW n \in Nat
  PROVE  /\ s \o Ring(buf, i, m) \o Ring(buf, j, n) \in Seq(Nat)
         /\ s \o Ring(buf, i, m) \o Ring(buf, j, n) = s \o (Ring(buf, i, m) \o Ring(buf, j, n))
<1> DEFINE x == Ring(buf, i, m)
           y == Ring(buf, j, n)
<1>1. x \in Seq(Nat) /\ y \in Seq(Nat)
  BY RingIsSeq
<1> HIDE DEF x, y
<1>2. s \o x \in Seq(Nat)
  BY <1>1, ConcatProperties
<1>3. (s \o x) \o y \in Seq(Nat)
  BY <1>1, <1>2, ConcatProperties
<1>4. (s \o x) \o y = s \o (x \o y)
  BY <1>1, BytesAssociate
<1> QED BY <1>3, <1>4 DEF x, y

\* What jsp_send_data_to_client sends is a sequence of bytes, also after an overrun.
LEMMA SendKeepsBytes ==
  ASSUME TypeOK, FromHwInv, SendDataToClient
  PROVE  clientGot' \in Seq(Nat)
<1> DEFINE rd1(n1) == (jsp_fromhw_rd_idx + n1) % JSP_BUFFER_SIZE
<1>1. PICK n1 \in Nat, n2 \in Nat :
        clientGot' = clientGot \o Ring(jsp_fromhw_buf, jsp_fromhw_rd_idx, n1)
                               \o Ring(jsp_fromhw_buf, rd1(n1), n2)
  BY SendTakes
<1>2. jsp_fromhw_rd_idx \in Nat /\ jsp_fromhw_rd_idx + n1 \in Nat
  BY DEF TypeOK, Slots
<1>3. rd1(n1) \in Slots
  BY <1>2, WrapInSlots, Zenon
<1>4. rd1(n1) \in Nat
  <2> HIDE DEF rd1
  <2> QED BY <1>3 DEF Slots
<1> HIDE DEF rd1
<1> QED BY <1>1, <1>2, <1>4, TwoRings DEF FromHwInv

\* jsp_send_data_to_client takes the oldest bytes of a ring that was not
\* overrun: the second call of send() goes on where the first one stopped.
LEMMA SendTakesOldest ==
  ASSUME TypeOK, FromHwInv, SendDataToClient, ~overrun
  PROVE  /\ jsp_fromhw_wr_idx' = (jsp_fromhw_rd_idx' + jsp_fromhw_count') % JSP_BUFFER_SIZE
         /\ jsp_fromhw_count' <= JSP_BUFFER_SIZE
         /\ UNCHANGED <<hwPut, late, overrun>>
         /\ \/ UNCHANGED <<FromHwQueue, clientGot>>
            \/ \E n \in 1..Len(FromHwQueue) : FromHw!Get(n)
<1> DEFINE N == JSP_BUFFER_SIZE
           rd == jsp_fromhw_rd_idx
           c == jsp_fromhw_count
           buf == jsp_fromhw_buf
           rd1(n1) == (rd + n1) % N
           r == Ring(buf, rd, c)
<1>0. /\ N \in Nat \ {0} /\ rd \in Slots /\ rd \in Nat /\ c \in Nat /\ c \in 0..N
      /\ buf \in [Slots -> Nat] /\ clientGot \in Seq(Nat)
      /\ jsp_fromhw_wr_idx = (rd + c) % N
  BY JspAssumption DEF TypeOK, FromHwInv, Slots
<1>1. PICK n1 \in Nat, n2 \in Nat :
        /\ n1 <= c /\ n2 <= c - n1
        /\ clientGot' = clientGot \o Ring(buf, rd, n1) \o Ring(buf, rd1(n1), n2)
        /\ jsp_fromhw_rd_idx' = (rd1(n1) + n2) % N
        /\ jsp_fromhw_count' = c - n1 - n2
  BY SendTakes
<1>u. UNCHANGED <<jsp_fromhw_buf, jsp_fromhw_wr_idx, hwPut, late, overrun>>
  BY DEF SendDataToClient
<1> DEFINE n == n1 + n2
           d == c - n
<1>2. /\ n1 \in 0..n /\ n - n1 = n2 /\ n \in Nat /\ n \in 0..c /\ n \in 0..N /\ n1 + n2 <= N
      /\ d \in Nat /\ n + d = c /\ n + d <= N /\ d <= N /\ c - n1 - n2 = d /\ rd + n1 \in Nat
  BY <1>0, <1>1
<1>3. rd1(n1) \in Slots /\ rd1(n1) \in Nat
  <2>1. rd1(n1) \in Slots
    BY <1>2, WrapInSlots, Zenon
  <2> HIDE DEF rd1
  <2> QED BY <2>1 DEF Slots
<1>4. jsp_fromhw_rd_idx' = (rd + n) % N
  <2>1. (((rd + n1) % N) + n2) % N = (rd + (n1 + n2)) % N
    BY <1>0, <1>2, WrapAdds, Zenon
  <2> QED BY <2>1, <1>1, Zenon DEF n
<1>5. Ring(buf, rd, n1) \o Ring(buf, rd1(n1), n2) = Ring(buf, rd, n)
  <2> DEFINE t == Ring(buf, rd, n)
  <2>1. t \in Seq(Nat) /\ Len(t) = n
    BY <1>0, <1>2, RingIsSeq
  <2> HIDE DEF n
  <2>2. /\ Ring(buf, rd, n1) = SubSeq(t, 1, n1)
        /\ Ring(buf, rd1(n1), n - n1) = SubSeq(t, n1 + 1, n)
    BY <1>0, <1>2, RingSplits, Zenon
  <2> HIDE DEF t
  <2>3. SubSeq(t, 1, n1) \o SubSeq(t, n1 + 1, Len(t)) = SubSeq(t, 1, Len(t))
    <3>1. /\ 1 \in 1..(Len(t) + 1) /\ n1 \in (1 - 1)..Len(t)
          /\ Len(t) \in n1..Len(t)
      BY <1>2, <2>1
    <3> QED BY <3>1, <2>1, ConcatAdjacentSubSeq, Zenon
  <2>4. SubSeq(t, 1, Len(t)) = t
    BY <2>1, SubSeqFull
  <2> HIDE DEF rd1
  <2> QED BY <2>1, <2>2, <2>3, <2>4, <1>2, Zenon DEF t
<1>6. clientGot' = clientGot \o Ring(buf, rd, n)
  <2>1. clientGot \o Ring(buf, rd, n1) \o Ring(buf, rd1(n1), n2)
          = clientGot \o (Ring(buf, rd, n1) \o Ring(buf, rd1(n1), n2))
    <3> DEFINE j == rd1(n1)
    <3>1. j \in Nat
      BY <1>3
    <3> HIDE DEF rd1, j
    <3>2. clientGot \o Ring(buf, rd, n1) \o Ring(buf, j, n2)
            = clientGot \o (Ring(buf, rd, n1) \o Ring(buf, j, n2))
      BY <3>1, <1>0, TwoRings
    <3> QED BY <3>2 DEF j
  <2> HIDE DEF rd1, n
  <2> QED BY <2>1, <1>1, <1>5, Zenon
<1> HIDE DEF rd1, n
<1>7. jsp_fromhw_count' = d
  BY <1>1, <1>2
<1> HIDE DEF d
<1>8. jsp_fromhw_wr_idx' = (jsp_fromhw_rd_idx' + jsp_fromhw_count') % N
  <2>1. (((rd + n) % N) + d) % N = (rd + (n + d)) % N
    BY <1>0, <1>2, WrapAdds, ZenonT(60)
  <2> QED BY <2>1, <1>0, <1>2, <1>4, <1>7, <1>u, Zenon
<1>9. r \in Seq(Nat) /\ Len(r) = c
  BY <1>0, RingIsSeq
<1>10. FromHwQueue = r
  BY DEF FromHwQueue
<1>11. /\ Ring(buf, rd, n) = SubSeq(r, 1, n)
       /\ FromHwQueue' = SubSeq(r, n + 1, c)
  <2>1. /\ Ring(buf, rd, n) = SubSeq(r, 1, n)
        /\ Ring(buf, (rd + n) % N, c - n) = SubSeq(r, n + 1, c)
    BY <1>0, <1>2, RingSplits, Zenon
  <2>2. FromHwQueue' = Ring(buf, (rd + n) % N, c - n)
    BY <1>4, <1>7, <1>u DEF FromHwQueue, d
  <2> QED BY <2>1, <2>2, Zenon
<1> HIDE DEF r
<1>12. CASE n = 0
  <2>1. SubSeq(r, 1, n) = <<>>
    BY <1>12, SubSeqEmpty
  <2>2. SubSeq(r, n + 1, c) = r
    BY <1>12, <1>9, SubSeqFull
  <2>3. clientGot' = clientGot
    BY <2>1, <1>0, <1>6, <1>11, ConcatEmptySeq
  <2> QED BY <2>2, <2>3, <1>2, <1>7, <1>8, <1>10, <1>11, <1>u
<1>13. CASE n # 0
  <2>1. n \in 1..Len(r)
    BY <1>2, <1>9, <1>13
  <2>2. FromHw!Get(n)
    BY <1>6, <1>9, <1>10, <1>11, <1>u DEF FromHw!Get
  <2> QED BY <2>1, <2>2, <1>2, <1>7, <1>8, <1>10, <1>u
<1> QED BY <1>12, <1>13

\* At the start nothing is on the way.
LEMMA FromHwStart ==
  ASSUME Init
  PROVE  FromHwInv /\ FromHw!LinkInit
<1>1. JSP_BUFFER_SIZE \in Nat \ {0} /\ 0 \in 0..(JSP_BUFFER_SIZE - 1)
  BY JspAssumption
<1>2. 0 % JSP_BUFFER_SIZE = 0
  BY <1>1, ModFacts
<1>3. jsp_fromhw_buf \in [Slots -> Nat] /\ <<>> \in Seq(Nat)
  BY EmptySeq DEF Init
<1>4. FromHwInv
  BY <1>1, <1>2, <1>3 DEF Init, FromHwInv
<1>5. FromHwQueue = <<>>
  BY <1>3, EmptyRing DEF Init, FromHwQueue
<1> QED BY <1>4, <1>5 DEF Init, FromHw!LinkInit

\* A transaction puts the bytes of the UART in the ring, or overruns it.
LEMMA TransactStores ==
  ASSUME TypeOK, FromHwInv, NEW n \in 0..BURST, NEW m \in 0..BURST, HardwareTransact(n, m)
  PROVE  FromHwInv' /\ [FromHw!LinkNext]_(FromHw!linkVars)
<1> DEFINE N == JSP_BUFFER_SIZE
           rd == jsp_fromhw_rd_idx
           c == jsp_fromhw_count
           buf == jsp_fromhw_buf
           in == [k \in 1..m |-> hwPut + k]
<1>0. /\ N \in Nat \ {0} /\ rd \in Slots /\ rd \in Nat /\ c \in Nat /\ buf \in [Slots -> Nat]
      /\ m \in Nat /\ hwPut \in Nat /\ clientGot \in Seq(Nat)
      /\ jsp_fromhw_wr_idx \in Slots /\ overrun \in BOOLEAN
  BY JspAssumption DEF TypeOK, FromHwInv, Slots
<1>2. /\ jsp_fromhw_buf' = Stored(buf, jsp_fromhw_wr_idx, in)
      /\ jsp_fromhw_wr_idx' = (jsp_fromhw_wr_idx + m) % N
      /\ jsp_fromhw_count' = c + m
      /\ hwPut' = hwPut + m
      /\ overrun' = (overrun \/ c + m > N)
      /\ jpc' = "select"
      /\ jsp_fromhw_rd_idx' = rd /\ clientGot' = clientGot /\ late' = late
  BY DEF HardwareTransact
<1>3. in \in Seq(Nat) /\ Len(in) = m
  <2>1. in \in [1..m -> Nat]
    BY <1>0
  <2> QED BY <2>1, <1>0
<1>4. FromHw!Bytes(hwPut, m) = in
  BY DEF FromHw!Bytes
<1> HIDE DEF in
<1>5. hwPut' \in Nat
  BY <1>0, <1>2
<1>b. jsp_fromhw_buf' \in [Slots -> Nat]
  <2>1. Len(in) <= N
    BY <1>0, <1>3, JspAssumption
  <2> QED BY <2>1, <1>0, <1>2, <1>3, StoredFacts
<1>6. CASE overrun \/ c + m > N
  <2>1. overrun'
    BY <1>2, <1>6
  <2>2. FromHwInv'
    BY <2>1, <1>0, <1>2, <1>5, <1>b DEF FromHwInv
  <2> QED BY <2>1, <2>2 DEF FromHw!LinkNext
<1>7. CASE ~(overrun \/ c + m > N)
  <2>0. /\ ~overrun /\ c + m <= N /\ ~overrun' /\ overrun' = overrun
        /\ jsp_fromhw_wr_idx = (rd + c) % N
    BY <1>0, <1>2, <1>7 DEF FromHwInv
  <2>1. jsp_fromhw_wr_idx' = (rd + (c + m)) % N
    <3>1. (((rd + c) % N) + m) % N = (rd + (c + m)) % N
      BY <2>0, <1>0, WrapAdds, Zenon
    <3> QED BY <3>1, <2>0, <1>2, Zenon
  <2>2. FromHwInv'
    <3>1. jsp_fromhw_wr_idx' = (jsp_fromhw_rd_idx' + jsp_fromhw_count') % N
      BY <2>1, <1>2, Zenon
    <3> QED BY <3>1, <2>0, <1>0, <1>2, <1>5, <1>b DEF FromHwInv
  <2>3. FromHwQueue' = FromHwQueue \o in
    <3>1. c + Len(in) = c + m /\ c + Len(in) <= N
      BY <2>0, <1>3
    <3>2. Ring(Stored(buf, (rd + c) % N, in), rd, c + Len(in)) = Ring(buf, rd, c) \o in
      BY <3>1, <1>0, <1>3, StoreAppends, Zenon
    <3>3. FromHwQueue' = Ring(Stored(buf, (rd + c) % N, in), rd, c + m)
      BY <2>0, <1>2 DEF FromHwQueue
    <3> QED BY <3>1, <3>2, <3>3, Zenon DEF FromHwQueue
  <2>4. CASE m = 0
    <3>1. in = <<>>
      BY <1>3, <2>4, EmptySeq
    <3>2. hwPut' = hwPut
      BY <1>0, <1>2, <2>4
    <3>3. FromHwQueue \in Seq(Nat)
      BY <1>0, RingIsSeq DEF FromHwQueue
    <3>4. FromHwQueue' = FromHwQueue
      BY <2>3, <3>1, <3>3, ConcatEmptySeq
    <3> QED BY <3>2, <3>4, <2>0, <2>2, <1>2 DEF FromHw!linkVars
  <2>5. CASE m # 0
    <3>1. m \in 1..BURST
      BY <2>5
    <3>2. FromHw!Put(m)
      BY <2>3, <1>2, <1>4 DEF FromHw!Put
    <3> QED BY <3>1, <3>2, <2>0, <2>2 DEF FromHw!LinkNext
  <2> QED BY <2>4, <2>5
<1> QED BY <1>6, <1>7

\* One step of the server is a step of the link from the hardware or none of it.
LEMMA FromHwStep ==
  ASSUME TypeOK, FromHwInv, [Next]_vars
  PROVE  FromHwInv' /\ [FromHw!LinkNext]_(FromHw!linkVars)
<1> DEFINE N == JSP_BUFFER_SIZE
<1>0. N \in Nat \ {0} /\ jsp_fromhw_rd_idx \in Nat /\ jsp_fromhw_count \in Nat /\ 0 % N = 0
  <2>1. N \in Nat \ {0} /\ 0 \in 0..(N - 1)
    BY JspAssumption
  <2> QED BY <2>1, ModFacts DEF TypeOK, Slots
<1>1. CASE Accept
  <2>1. /\ jsp_fromhw_rd_idx' = 0 /\ jsp_fromhw_wr_idx' = 0 /\ jsp_fromhw_count' = 0
        /\ jpc = "accept" /\ jpc' = "select"
        /\ UNCHANGED <<jsp_fromhw_buf, hwPut, clientGot, late, overrun>>
    BY <1>1 DEF Accept
  <2>2. FromHwInv'
    BY <2>1, <1>0 DEF FromHwInv
  <2>3. FromHwQueue = <<>>
    <3>1. jsp_fromhw_count = 0
      BY <2>1 DEF FromHwInv
    <3> QED BY <3>1, <1>0, EmptyRing DEF FromHwInv, FromHwQueue
  <2>4. FromHwQueue' = <<>>
    <3>1. FromHwQueue' = Ring(jsp_fromhw_buf, 0, 0)
      BY <2>1 DEF FromHwQueue
    <3> QED BY <3>1, EmptyRing DEF FromHwInv
  <2> QED BY <2>1, <2>2, <2>3, <2>4 DEF FromHw!linkVars
<1>2. CASE Select
  <2>1. jpc' = "send" /\ UNCHANGED <<fromhwVars, hwPut, clientGot, late, overrun>>
    BY <1>2 DEF Select
  <2> QED BY <2>1 DEF FromHwInv, FromHw!linkVars, FromHwQueue, fromhwVars
<1>3. CASE SendDataToClient
  <2>1. /\ jsp_fromhw_buf' = jsp_fromhw_buf /\ hwPut' = hwPut /\ overrun' = overrun
        /\ jpc' # "accept"
    BY <1>3 DEF SendDataToClient
  <2>2. clientGot' \in Seq(Nat)
    BY <1>3, SendKeepsBytes
  <2>3. CASE overrun
    <3>1. FromHwInv'
      BY <2>1, <2>2, <2>3 DEF FromHwInv
    <3>2. overrun'
      BY <2>1, <2>3
    <3> QED BY <3>1, <3>2 DEF FromHw!LinkNext
  <2>4. CASE ~overrun
    <3>1. /\ jsp_fromhw_wr_idx' = (jsp_fromhw_rd_idx' + jsp_fromhw_count') % N
          /\ jsp_fromhw_count' <= N
          /\ UNCHANGED <<hwPut, late, overrun>>
          /\ \/ UNCHANGED <<FromHwQueue, clientGot>>
             \/ \E n \in 1..Len(FromHwQueue) : FromHw!Get(n)
      BY <1>3, <2>4, SendTakesOldest
    <3>2. FromHwInv'
      BY <2>1, <2>2, <3>1 DEF FromHwInv
    <3> QED BY <3>1, <3>2 DEF FromHw!LinkNext, FromHw!linkVars
  <2> QED BY <2>3, <2>4
<1>4. CASE Transact
  <2>1. PICK n \in 0..BURST, m \in 0..BURST : HardwareTransact(n, m)
    BY <1>4 DEF Transact
  <2> QED BY <2>1, TransactStores
<1>5. CASE TransactFails
  <2>1. PICK n \in 0..BURST, m \in 0..BURST : TransactError(n, m)
    BY <1>5 DEF TransactFails
  <2>2. /\ jpc' = "select" /\ UNCHANGED <<fromhwVars, clientGot, overrun>>
        /\ hwPut' = hwPut + m
        /\ late' = (IF n + m = 0 THEN late ELSE late + 1)
    BY <2>1 DEF TransactError, FailedExchange
  <2>3. n \in Nat /\ m \in Nat /\ hwPut \in Nat /\ hwPut' \in Nat
    BY <2>2, JspAssumption DEF FromHwInv
  <2>4. FromHwInv' /\ FromHwQueue' = FromHwQueue
    BY <2>2, <2>3 DEF FromHwInv, FromHwQueue, fromhwVars
  <2>5. CASE n + m = 0
    <3>1. hwPut' = hwPut
      BY <2>2, <2>3, <2>5
    <3> QED BY <3>1, <2>2, <2>4, <2>5 DEF FromHw!linkVars
  <2>6. CASE n + m # 0
    <3>1. FromHw!Lose(m)
      BY <2>2, <2>4, <2>6 DEF FromHw!Lose
    <3> QED BY <3>1, <2>2, <2>4 DEF FromHw!LinkNext
  <2> QED BY <2>5, <2>6
<1>6. CASE ClientSend \/ ClientHangup \/ MonitorNotice \/ UNCHANGED vars
  <2>1. jpc' = jpc /\ UNCHANGED <<fromhwVars, hwPut, clientGot, late, overrun>>
    BY <1>6 DEF ClientSend, ClientHangup, MonitorNotice, vars
  <2> QED BY <2>1 DEF FromHwInv, FromHw!linkVars, FromHwQueue, fromhwVars
<1> QED BY <1>1, <1>2, <1>3, <1>4, <1>5, <1>6 DEF Next

\* The inductive invariant behind both theorems of this direction.
LEMMA FromHwInvariant == Spec => [](TypeOK /\ FromHwInv)
<1>1. Init => FromHwInv
  BY FromHwStart
<1>2. TypeOK /\ FromHwInv /\ [Next]_vars => FromHwInv'
  BY FromHwStep
<1> QED BY <1>1, <1>2, JspTypeCorrect, PTL DEF Spec

\* Whatever the sizes of the ring and of a burst, and whatever the client's
\* socket takes, the client gets the bytes of the UART in order and none twice as
\* long as the ring is not overrun; only a transaction that failed loses bytes.
THEOREM BytesReachTheClient == Spec => FromHwInOrder
<1>1. Init => FromHw!LinkInit
  BY FromHwStart
<1>2. TypeOK /\ FromHwInv /\ [Next]_vars => [FromHw!LinkNext]_(FromHw!linkVars)
  BY FromHwStep
<1> QED BY <1>1, <1>2, FromHwInvariant, PTL DEF Spec, FromHwInOrder, FromHw!LinkSpec

-----------------------------------------------------------------------------
\* The ring is empty when a transaction stores into it.
KeepsUpInv == ~overrun /\ (jpc = "transact" => jsp_fromhw_count = 0)

\* With a client that keeps up, jsp_send_data_to_client empties the ring with its
\* two calls of send(): the second starts at slot 0 when the first one stopped at
\* the end of the array.
LEMMA SendEmpties ==
  ASSUME TypeOK, FromHwInv, SendDataToClient, ~ClientMayLag, ~overrun
  PROVE  jsp_fromhw_count' = 0
<1> DEFINE N == JSP_BUFFER_SIZE
           rd == jsp_fromhw_rd_idx
           c == jsp_fromhw_count
           a1 == Smaller(c, N - rd)
           rd1(n1) == (rd + n1) % N
           a2(n1) == Smaller(c - n1, N - rd1(n1))
<1>0. N \in Nat \ {0} /\ rd \in 0..(N - 1) /\ c \in Nat /\ c \in 0..N /\ N - rd \in Nat
  BY JspAssumption DEF TypeOK, FromHwInv, Slots
<1>a. PICK n1 \in Accepted(a1) : \E n2 \in Accepted(a2(n1)) : jsp_fromhw_count' = c - n1 - n2
  BY DEF SendDataToClient
<1>1. PICK n2 \in Accepted(a2(n1)) : jsp_fromhw_count' = c - n1 - n2
  BY <1>a
<1>2. n1 = a1 /\ n2 = a2(n1)
  BY DEF Accepted
<1>3. /\ n1 \in 0..c /\ n1 \in Nat /\ c - n1 \in Nat
      /\ n1 = c \/ rd + n1 = N
  BY <1>0, <1>2 DEF Smaller
<1>4. n2 = c - n1
  <2>1. CASE n1 = c
    <3>1. c - n1 = 0
      BY <2>1, <1>0
    <3>2. N - rd1(n1) \in Nat
      <4>1. rd + n1 \in Nat
        BY <1>0, <1>3
      <4>2. rd1(n1) \in Slots
        BY <4>1, WrapInSlots, Zenon
      <4> HIDE DEF rd1
      <4> QED BY <4>2, <1>0 DEF Slots
    <3>3. a2(n1) = Smaller(0, N - rd1(n1))
      BY <3>1
    <3> HIDE DEF rd1, a2
    <3> QED BY <3>1, <3>2, <3>3, <1>2 DEF Smaller
  <2>2. CASE rd + n1 = N
    <3>1. rd1(n1) = 0
      <4>1. N % N = 0
        <5>1. N \in Nat /\ N < 2 * N /\ ~(N < N) /\ N - N = 0
          BY <1>0
        <5> QED BY <5>1, WrapOnce
      <4> QED BY <4>1, <2>2
    <3>2. a2(n1) = Smaller(c - n1, N - 0)
      BY <3>1
    <3> HIDE DEF a2
    <3> QED BY <3>2, <1>0, <1>2, <1>3 DEF Smaller
  <2> QED BY <2>1, <2>2, <1>3
<1> HIDE DEF a1, a2
<1> QED BY <1>0, <1>1, <1>3, <1>4

\* One step of a server whose client keeps up overruns nothing.
LEMMA KeepsUpStep ==
  ASSUME TypeOK, FromHwInv, KeepsUpInv, ~ClientMayLag, [Next]_vars
  PROVE  KeepsUpInv'
<1>1. CASE SendDataToClient
  BY <1>1, SendEmpties DEF KeepsUpInv, SendDataToClient
<1>2. CASE Transact
  <2>1. PICK n \in 0..BURST, m \in 0..BURST : HardwareTransact(n, m)
    BY <1>2 DEF Transact
  <2>2. /\ jpc = "transact" /\ jpc' = "select"
        /\ overrun' = (overrun \/ jsp_fromhw_count + m > JSP_BUFFER_SIZE)
    BY <2>1 DEF HardwareTransact
  <2>3. ~(jsp_fromhw_count + m > JSP_BUFFER_SIZE)
    BY <2>2, JspAssumption DEF KeepsUpInv
  <2> QED BY <2>2, <2>3 DEF KeepsUpInv
<1>3. CASE TransactFails
  BY <1>3 DEF TransactFails, TransactError, KeepsUpInv
<1>4. CASE Accept \/ Select
  BY <1>4 DEF Accept, Select, KeepsUpInv
<1>5. CASE ClientSend \/ ClientHangup \/ MonitorNotice \/ UNCHANGED vars
  BY <1>5 DEF ClientSend, ClientHangup, MonitorNotice, vars, fromhwVars, KeepsUpInv
<1> QED BY <1>1, <1>2, <1>3, <1>4, <1>5 DEF Next

\* Whatever the sizes of the ring and of a burst, a client that
\* takes what it is offered never lets the ring overrun: by the time
\* jsp_hardware_transact stores, without looking at the room there is,
\* jsp_send_data_to_client has emptied the ring.
THEOREM NoOverrun ==
  ASSUME ~ClientMayLag
  PROVE  Spec => []NeverOverrun
<1>1. Init => KeepsUpInv
  BY DEF Init, KeepsUpInv
<1>2. TypeOK /\ FromHwInv /\ KeepsUpInv /\ [Next]_vars => KeepsUpInv'
  BY KeepsUpStep
<1>3. KeepsUpInv => NeverOverrun
  BY DEF KeepsUpInv, NeverOverrun
<1> QED BY <1>1, <1>2, <1>3, FromHwInvariant, PTL DEF Spec

=============================================================================
