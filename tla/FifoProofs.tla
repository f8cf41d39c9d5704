----------------------------- MODULE FifoProofs -----------------------------
(***************************************************************************)
(* Proofs about Fifo, for any number of writers and readers, any sizes of  *)
(* header, payload and pipe, and any number of lines, signals and kills:   *)
(* IInv is inductive, so between one writer and one reader every frame     *)
(* arrives whole and in order, and an end of file between two frames means *)
(* that nothing is unread.                                                 *)
(***************************************************************************)
EXTENDS Fifo, SequenceTheorems, TLAPS

-----------------------------------------------------------------------------
(* Pieces of a stream                                                      *)

LEMMA MinOfTwo ==
    ASSUME NEW a \in Nat, NEW b \in Nat
    PROVE  /\ Min({a, b}) \in Nat
           /\ Min({a, b}) = IF a <= b THEN a ELSE b
<1>1. \E x \in {a, b} : \A y \in {a, b} : x <= y
  OBVIOUS
<1>2. Min({a, b}) \in {a, b} /\ \A y \in {a, b} : Min({a, b}) <= y
  BY <1>1 DEF Min
<1>. QED
  BY <1>2

(* The bytes of a frame follow each other.                                 *)
LEMMA HeaderIsSeq ==
    ASSUME NEW w \in Writers, NEW l \in [no : 1 .. MaxLines, len : 1 .. BUF_SIZE]
    PROVE  /\ Header(w, l) \in Seq(Bytes) /\ Len(Header(w, l)) = HeaderSize
           /\ \A k \in 1 .. HeaderSize : Header(w, l)[k] = Byte(w, l, k)
<1> USE ConstantsAssumption
<1>1. \A k \in 1 .. HeaderSize : Byte(w, l, k) \in Bytes
  BY DEF Byte, Bytes
<1>2. HeaderSize \in Nat
  OBVIOUS
<1>. QED
  BY <1>1, <1>2 DEF Header

LEMMA PayloadIsSeq ==
    ASSUME NEW w \in Writers, NEW l \in [no : 1 .. MaxLines, len : 1 .. BUF_SIZE]
    PROVE  /\ Payload(w, l) \in Seq(Bytes) /\ Len(Payload(w, l)) = l.len
           /\ \A k \in 1 .. l.len : Payload(w, l)[k] = Byte(w, l, HeaderSize + k)
<1> USE ConstantsAssumption
<1>1. l.len \in 1 .. BUF_SIZE /\ l.len \in Nat
  OBVIOUS
<1>2. \A k \in 1 .. l.len : Byte(w, l, HeaderSize + k) \in Bytes
  BY <1>1 DEF Byte, Bytes
<1>. QED
  BY <1>1, <1>2 DEF Payload

(* What a byte says of itself.                                             *)
LEMMA ByteFields ==
    ASSUME NEW b \in Bytes
    PROVE  /\ b.from \in Writers /\ b.no \in Nat
           /\ b.len \in Nat /\ b.len > 0 /\ b.pos \in Nat /\ b.pos > 0
           /\ b.no \in 1 .. MaxLines /\ b.len \in 1 .. BUF_SIZE
BY ConstantsAssumption DEF Bytes

LEMMA FieldsOfByte ==
    ASSUME NEW w, NEW l, NEW k
    PROVE  /\ Byte(w, l, k).from = w /\ Byte(w, l, k).no = l.no
           /\ Byte(w, l, k).len = l.len /\ Byte(w, l, k).pos = k
BY DEF Byte

(* The place after a bytes of frame l.                                     *)
PlaceIn(l, a) ==
    IF a = 0 THEN Between(l.no)
    ELSE IF a = HeaderSize + l.len THEN Between(l.no + 1)
    ELSE Place(l.no, a, l.len)

(* A part of frame l, the bytes after the first a, is written at its place:*)
(* d is c with these m bytes behind its n bytes.                           *)
LEMMA FramesExtend ==
    ASSUME NEW c \in Seq(Bytes), NEW w \in Writers, NEW from,
           NEW l, l.no \in Nat, l.len \in Nat, l.len > 0,
           NEW a \in Nat, NEW n \in Nat, n = Len(c), NEW m \in Nat, m > 0,
           a + m <= HeaderSize + l.len,
           NEW d \in Seq(Bytes), Len(d) = n + m,
           \A k \in 1 .. n : d[k] = c[k],
           \A k \in (n + 1) .. (n + m) : d[k] = Byte(w, l, a + k - n),
           Frames(c, w), Links(c, from, {PlaceIn(l, a)})
    PROVE  /\ Frames(d, w)
           /\ Links(d, from, {PlaceIn(l, a + m)})
<1>1. /\ HeaderSize \in Nat /\ HeaderSize > 0
      /\ BUF_SIZE \in Nat /\ BUF_SIZE > 0
  BY ConstantsAssumption
<1>n. \A x \in Nat : HeaderSize + x \in Nat
  BY <1>1
<1>3. \A k \in 1 .. n : c[k] \in Bytes
  OBVIOUS
<1>4. \A k \in 1 .. (n + m) : k \in 1 .. n \/ k \in (n + 1) .. (n + m)
  OBVIOUS
<1>f. \A k \in (n + 1) .. (n + m) :
         /\ d[k].from = w /\ d[k].no = l.no
         /\ d[k].len = l.len /\ d[k].pos = a + k - n
  BY FieldsOfByte
<1>c. \A k \in 1 .. n : /\ c[k].from = w /\ c[k].pos <= HeaderSize + c[k].len
                        /\ c[k].no \in Nat /\ c[k].len \in Nat /\ c[k].len > 0
                        /\ c[k].pos \in Nat /\ c[k].pos > 0
  BY <1>3, ByteFields DEF Frames
<1>b. ASSUME NEW j \in 1 .. n, NEW k \in 1 .. n,
             j - k + c[k].pos \in 1 .. (HeaderSize + c[k].len)
      PROVE  c[j] = Byte(w, c[k], j - k + c[k].pos)
  BY <1>b DEF Frames
<1>s. ASSUME NEW k \in (n + 1) .. (n + m), NEW i
      PROVE  Byte(w, d[k], i) = Byte(w, l, i)
  <2>1. d[k].no = l.no /\ d[k].len = l.len
    BY <1>f
  <2>. QED
    BY <2>1 DEF Byte
<1>5. ASSUME n > 0
      PROVE  /\ a = 0 => (c[n].pos = HeaderSize + c[n].len /\ l.no = c[n].no + 1)
             /\ a # 0 => (c[n].pos = a /\ c[n].no = l.no /\ c[n].len = l.len)
  <2>1. c[n] \in Bytes /\ n \in 1 .. n /\ c # <<>>
    BY <1>5
  <2>2. After(c[n]) = PlaceIn(l, a)
    BY <2>1 DEF Links
  <2>3. a < HeaderSize + l.len
    BY <1>1
  <2>4. CASE a = 0
    BY <1>c, <2>1, <2>2, <2>4 DEF After, PlaceIn, Between, Place
  <2>5. CASE a # 0
    BY <1>c, <2>1, <2>2, <2>3, <2>5 DEF After, PlaceIn, Between, Place
  <2>. QED
    BY <2>4, <2>5
<1>6. ASSUME NEW k \in 1 .. (n + m)
      PROVE  d[k].from = w /\ d[k].pos <= HeaderSize + d[k].len
  <2>1. CASE k \in 1 .. n
    BY <1>c, <2>1
  <2>2. CASE k \in (n + 1) .. (n + m)
    BY <1>1, <1>f, <2>2
  <2>. QED
    BY <1>4, <2>1, <2>2
<1>7. ASSUME NEW j \in 1 .. (n + m), NEW k \in 1 .. (n + m),
             j - k + d[k].pos \in 1 .. (HeaderSize + d[k].len)
      PROVE  d[j] = Byte(w, d[k], j - k + d[k].pos)
  <2>1. CASE j \in 1 .. n /\ k \in 1 .. n
    <3>1. d[j] = c[j] /\ d[k] = c[k]
      BY <2>1
    <3>. QED
      BY <1>7, <1>b, <2>1, <3>1
  <2>2. CASE j \in (n + 1) .. (n + m) /\ k \in (n + 1) .. (n + m)
    <3>1. d[j] = Byte(w, l, a + j - n) /\ d[k].pos = a + k - n
      BY <1>f, <2>2
    <3>2. j - k + (a + k - n) = a + j - n
      OBVIOUS
    <3>3. Byte(w, d[k], a + j - n) = Byte(w, l, a + j - n)
      BY <1>s, <2>2
    <3>. QED
      BY <3>1, <3>2, <3>3
  <2>3. CASE j \in 1 .. n /\ k \in (n + 1) .. (n + m)
    <3>1. /\ d[k].pos = a + k - n /\ d[k].len = l.len
          /\ d[j] = c[j] /\ n \in 1 .. n
      BY <1>f, <2>3
    <3>2. j - k + (a + k - n) = j - n + a
      OBVIOUS
    <3>3. a # 0 /\ j - n + a \in 1 .. (HeaderSize + l.len)
      BY <1>1, <1>7, <2>3, <3>1, <3>2
    <3>4. c[n].pos = a /\ c[n].no = l.no /\ c[n].len = l.len
      BY <1>5, <3>1, <3>3
    <3>5. c[j] = Byte(w, c[n], j - n + a)
      BY <1>b, <2>3, <3>1, <3>3, <3>4
    <3>6. Byte(w, c[n], j - n + a) = Byte(w, l, j - n + a)
      BY <3>4 DEF Byte
    <3>7. Byte(w, d[k], j - n + a) = Byte(w, l, j - n + a)
      BY <1>s, <2>3
    <3>. QED
      BY <3>1, <3>2, <3>5, <3>6, <3>7
  <2>4. CASE j \in (n + 1) .. (n + m) /\ k \in 1 .. n
    <3>1. d[k] = c[k] /\ n \in 1 .. n
      BY <2>4
    <3>0. c[k].pos \in Nat /\ c[k].pos > 0 /\ c[k].len \in Nat
      BY <1>c, <2>4
    <3>2. PICK e \in Int : e = n - k + c[k].pos
      BY <3>0
    <3>3. e > 0 /\ j - k + c[k].pos = e + (j - n)
      <4>1. \A x \in Nat : (x > 0 /\ e = n - k + x)
                => (e > 0 /\ j - k + x = e + (j - n))
        BY ONLY <2>4, n \in Nat, e \in Int, j \in 1 .. (n + m), k \in 1 .. (n + m),
                m \in Nat
      <4>. QED
        BY <3>0, <3>2, <4>1
    <3>4. e + (j - n) <= HeaderSize + c[k].len
      BY <1>1, <1>7, <1>c, <2>4, <3>1, <3>2, <3>3
    <3>5. e \in 1 .. (HeaderSize + c[k].len) /\ e < HeaderSize + c[k].len
      <4>1. \A x \in Nat : (e > 0 /\ e + (j - n) <= x) => (e \in 1 .. x /\ e < x)
        BY ONLY <2>4, n \in Nat, m \in Nat, j \in 1 .. (n + m), e \in Int
      <4>2. HeaderSize + c[k].len \in Nat
        BY <1>n, <3>0
      <4>. QED
        BY <3>3, <3>4, <4>1, <4>2
    <3>6. c[n] = Byte(w, c[k], e)
      BY <1>b, <2>4, <3>1, <3>2, <3>5
    <3>7. c[n].pos = e /\ c[n].len = c[k].len /\ c[n].no = c[k].no
      BY <3>6, FieldsOfByte
    <3>8. a # 0
      BY <1>1, <1>5, <3>1, <3>5, <3>7
    <3>9. a = e /\ c[k].no = l.no /\ c[k].len = l.len
      BY <1>5, <3>1, <3>7, <3>8
    <3>10. j - k + d[k].pos = a + j - n /\ d[j] = Byte(w, l, a + j - n)
      BY <2>4, <3>1, <3>3, <3>9
    <3>11. Byte(w, c[k], a + j - n) = Byte(w, l, a + j - n)
      BY <3>9 DEF Byte
    <3>. QED
      BY <3>1, <3>10, <3>11
  <2>. QED
    BY <1>4, <2>1, <2>2, <2>3, <2>4
<1>8. ASSUME NEW k \in 1 .. (n + m - 1), d[k].pos = HeaderSize + d[k].len
      PROVE  d[k + 1].no = d[k].no + 1 /\ d[k + 1].pos = 1
  <2>1. CASE k \in 1 .. (n - 1)
    <3>1. k \in 1 .. n /\ k + 1 \in 1 .. n /\ d[k] = c[k] /\ d[k + 1] = c[k + 1]
      BY <2>1
    <3>. QED
      BY <1>8, <2>1, <3>1 DEF Frames
  <2>2. CASE k = n
    <3>1. n + 1 \in (n + 1) .. (n + m) /\ n \in 1 .. n /\ a + (n + 1) - n = a + 1
      BY <2>2
    <3>4. d[n + 1].no = l.no /\ d[n + 1].pos = a + 1
      BY <1>f, <3>1
    <3>2. d[k] = c[n] /\ d[k + 1].no = l.no /\ d[k + 1].pos = a + 1
      BY <2>2, <3>1, <3>4
    <3>3. a = 0
      BY <1>1, <1>5, <1>8, <3>1, <3>2
    <3>. QED
      BY <1>5, <3>1, <3>2, <3>3
  <2>3. CASE k \in (n + 1) .. (n + m - 1)
    <3>1. k \in (n + 1) .. (n + m) /\ d[k].pos = a + k - n /\ d[k].len = l.len
      BY <1>f, <2>3
    <3>. QED
      BY <1>1, <1>8, <2>3, <3>1
  <2>. QED
    BY <2>1, <2>2, <2>3
<1>9. Frames(d, w)
  BY <1>6, <1>7, <1>8 DEF Frames
<1>10. Links(d, from, {PlaceIn(l, a + m)})
  <2>1. /\ n + m \in (n + 1) .. (n + m) /\ d # <<>>
    OBVIOUS
  <2>2. d[n + m].pos = a + m /\ d[n + m].no = l.no /\ d[n + m].len = l.len
    BY <1>f, <2>1
  <2>3. After(d[n + m]) = PlaceIn(l, a + m)
    BY <1>1, <2>2 DEF After, PlaceIn
  <2>4. CASE n > 0
    <3>1. d[1] = c[1] /\ c # <<>>
      BY <2>4
    <3>. QED
      BY <2>1, <2>3, <3>1 DEF Links
  <2>5. CASE n = 0
    <3>1. c = <<>> /\ 1 \in (n + 1) .. (n + m) /\ a + 1 - n = a + 1
      <4>1. c = <<>>
        BY <2>5, EmptySeq
      <4>. QED
        BY <2>5, <4>1
    <3>2. d[1].pos = a + 1 /\ d[1].no = l.no /\ d[1].len = l.len
      BY <1>f, <2>5, <3>1
    <3>3. from = PlaceIn(l, a) /\ a # HeaderSize + l.len
      BY <1>1, <3>1 DEF Links
    <3>4. Fits(from, d[1])
      BY <1>1, <3>2, <3>3 DEF PlaceIn, Fits, Between, Place
    <3>. QED
      BY <2>1, <2>3, <3>4 DEF Links
  <2>. QED
    BY <2>4, <2>5
<1>. QED
  BY <1>9, <1>10

(* d is what is left of c when m bytes are taken.                          *)
Without(c, m, d) ==
    /\ d \in Seq(Bytes) /\ Len(d) = Len(c) - m
    /\ \A k \in 1 .. (Len(c) - m) : d[k] = c[m + k]

(* The first m bytes of c, all of one frame, are taken: they follow each   *)
(* other, and what is left goes on where they end.                         *)
LEMMA FramesTake ==
    ASSUME NEW c \in Seq(Bytes), NEW w \in Writers, NEW from, NEW to,
           NEW m \in Nat, m > 0, m <= Len(c),
           NEW b, b = c[1], b.pos - 1 + m <= HeaderSize + b.len,
           NEW d, Without(c, m, d), Frames(c, w), Links(c, from, to)
    PROVE  /\ \A k \in 1 .. m : c[k] = Byte(w, b, b.pos - 1 + k)
           /\ Frames(d, w)
           /\ Links(d, After(Byte(w, b, b.pos - 1 + m)), to)
<1>d. PICK n \in Nat : n = Len(c)
  OBVIOUS
<1>0. /\ n = Len(c) /\ m <= n
      /\ d \in Seq(Bytes) /\ Len(d) = n - m
      /\ \A k \in 1 .. (n - m) : d[k] = c[m + k]
  BY <1>d DEF Without
<1> USE <1>0
<1>1. HeaderSize \in Nat /\ HeaderSize > 0 /\ BUF_SIZE \in Nat
  BY ConstantsAssumption
<1>n. \A x \in Nat : HeaderSize + x \in Nat
  BY <1>1
<1>2. \A k \in 1 .. n : c[k] \in Bytes
  OBVIOUS
<1>c. \A k \in 1 .. n : /\ c[k].from = w /\ c[k].pos <= HeaderSize + c[k].len
                        /\ c[k].no \in Nat /\ c[k].len \in Nat /\ c[k].len > 0
                        /\ c[k].pos \in Nat /\ c[k].pos > 0
  BY <1>2, ByteFields DEF Frames
<1>b. ASSUME NEW j \in 1 .. n, NEW k \in 1 .. n,
             j - k + c[k].pos \in 1 .. (HeaderSize + c[k].len)
      PROVE  c[j] = Byte(w, c[k], j - k + c[k].pos)
  BY <1>b DEF Frames
<1>3. ASSUME NEW k \in 1 .. m
      PROVE  c[k] = Byte(w, b, b.pos - 1 + k)
  <2>1. /\ k \in 1 .. n /\ 1 \in 1 .. n /\ b.pos \in Nat /\ b.pos > 0
        /\ b.len \in Nat
    BY <1>c
  <2>2. k - 1 + b.pos = b.pos - 1 + k
    BY <2>1
  <2>3. k - 1 + b.pos \in 1 .. (HeaderSize + b.len)
    <3>1. \A x, y \in Nat : (x > 0 /\ x - 1 + m <= HeaderSize + y)
             => k - 1 + x \in 1 .. (HeaderSize + y)
      BY <1>1
    <3>. QED
      BY <2>1, <3>1
  <2>. QED
    BY <1>b, <2>1, <2>2, <2>3
<1>4. \A k \in 1 .. (n - m) : m + k \in 1 .. n /\ d[k] = c[m + k]
  OBVIOUS
<1>5. Frames(d, w)
  <2>1. ASSUME NEW k \in 1 .. (n - m)
        PROVE  d[k].from = w /\ d[k].pos <= HeaderSize + d[k].len
    BY <1>c, <1>4
  <2>2. ASSUME NEW j \in 1 .. (n - m), NEW k \in 1 .. (n - m),
               j - k + d[k].pos \in 1 .. (HeaderSize + d[k].len)
        PROVE  d[j] = Byte(w, d[k], j - k + d[k].pos)
    <3>1. /\ m + j \in 1 .. n /\ m + k \in 1 .. n
          /\ d[j] = c[m + j] /\ d[k] = c[m + k]
      BY <1>4
    <3>2. \A x \in Nat : (m + j) - (m + k) + x = j - k + x
      OBVIOUS
    <3>3. (m + j) - (m + k) + c[m + k].pos = j - k + c[m + k].pos
      BY <1>c, <3>1, <3>2
    <3>4. (m + j) - (m + k) + c[m + k].pos \in 1 .. (HeaderSize + c[m + k].len)
      BY <2>2, <3>1, <3>3
    <3>5. c[m + j] = Byte(w, c[m + k], (m + j) - (m + k) + c[m + k].pos)
      BY <1>b, <3>1, <3>4
    <3>. QED
      BY <3>1, <3>3, <3>5
  <2>3. ASSUME NEW k \in 1 .. (n - m - 1), d[k].pos = HeaderSize + d[k].len
        PROVE  d[k + 1].no = d[k].no + 1 /\ d[k + 1].pos = 1
    <3>1. /\ k \in 1 .. (n - m) /\ k + 1 \in 1 .. (n - m)
          /\ m + k \in 1 .. (n - 1) /\ m + (k + 1) = (m + k) + 1
      OBVIOUS
    <3>2. d[k] = c[m + k] /\ d[k + 1] = c[(m + k) + 1]
      BY ONLY <1>4, <3>1
    <3>. QED
      BY <2>3, <3>1, <3>2 DEF Frames
  <2>. QED
    BY <2>1, <2>2, <2>3 DEF Frames
<1>6. m \in 1 .. n /\ m \in 1 .. m /\ c # <<>> /\ After(c[n]) \in to
  <2>1. c # <<>>
    BY EmptySeq
  <2>. QED
    BY <2>1 DEF Links
<1>7. c[m] = Byte(w, b, b.pos - 1 + m)
  BY <1>3, <1>6
<1>8. CASE m = n
  <2>1. d = <<>>
    BY <1>8, EmptySeq
  <2>. QED
    BY <1>3, <1>5, <1>6, <1>7, <1>8, <2>1 DEF Links
<1>9. CASE m < n
  <2>1. /\ 1 \in 1 .. (n - m) /\ n - m \in 1 .. (n - m) /\ m \in 1 .. (n - 1)
        /\ m + (n - m) = n /\ m + 1 \in 1 .. n
    BY <1>9
  <2>2. d # <<>> /\ d[1] = c[m + 1] /\ d[Len(d)] = c[n]
    <3>1. d[1] = c[m + 1] /\ d[n - m] = c[m + (n - m)]
      BY <1>4, <2>1
    <3>. QED
      BY <1>9, <2>1, <3>1, EmptySeq
  <2>3. Fits(After(c[m]), c[m + 1])
    <3>1. CASE c[m].pos = HeaderSize + c[m].len
      <4>1. c[m + 1].no = c[m].no + 1 /\ c[m + 1].pos = 1
        BY <2>1, <3>1 DEF Frames
      <4>. QED
        BY <3>1, <4>1 DEF Fits, After, Between, Place
    <3>2. CASE c[m].pos # HeaderSize + c[m].len
      <4>1. /\ c[m].pos \in Nat /\ c[m].len \in Nat
            /\ c[m].pos < HeaderSize + c[m].len
        <5>1. /\ c[m].pos \in Nat /\ c[m].len \in Nat
              /\ c[m].pos <= HeaderSize + c[m].len
          BY <1>6, <1>c
        <5>2. \A x, y \in Nat : (x <= HeaderSize + y /\ x # HeaderSize + y)
                                  => x < HeaderSize + y
          BY <1>1
        <5>. QED
          BY <3>2, <5>1, <5>2
      <4>2. (m + 1) - m + c[m].pos = c[m].pos + 1
        BY <4>1
      <4>3. c[m].pos + 1 \in 1 .. (HeaderSize + c[m].len)
        <5>1. \A x, y \in Nat : x < y => x + 1 \in 1 .. y
          OBVIOUS
        <5>2. HeaderSize + c[m].len \in Nat
          BY <1>n, <4>1
        <5>. QED
          BY <4>1, <5>1, <5>2
      <4>4. c[m + 1] = Byte(w, c[m], c[m].pos + 1)
        BY <1>6, <1>b, <2>1, <4>2, <4>3
      <4>5. /\ c[m + 1].pos = c[m].pos + 1 /\ c[m + 1].no = c[m].no
            /\ c[m + 1].len = c[m].len
        BY <4>4, FieldsOfByte
      <4>. QED
        BY <3>2, <4>5 DEF Fits, After, Between, Place
    <3>. QED
      BY <3>1, <3>2
  <2>. QED
    BY <1>3, <1>5, <1>6, <1>7, <2>2, <2>3 DEF Links
<1>. QED
  BY <1>8, <1>9

-----------------------------------------------------------------------------
(* Streams that a step leaves alone                                        *)

NoneOpen == {"off", "mkfifo", "open", "unlink", "exit", "killed"}

LEMMA OpenHere ==
    ASSUME TypeOK, Opens, NEW p \in Procs, NEW o \in Pipes, p \in opened[o],
           pc[p] \notin NoneOpen
    PROVE  fd[p] = o
<1>1. fd[p] # NoPipe /\ fd[p] \in Pipes
  BY DEF Opens, NoneOpen, TypeOK
<1>2. p \in opened[fd[p]]
  BY <1>1 DEF Opens
<1>. QED
  BY <1>1, <1>2 DEF Opens

(* Who has been in a pipe keeps having been in it, and what was nobody's   *)
(* pipe but theirs was so before.                                          *)
LEMMA StreamKept ==
    ASSUME Streams, NEW o \in Pipes, NEW w \in opened[o] \cap Writers,
           NEW r \in opened[o] \cap Readers, Private(o), Reading(r),
           content'[o] = content[o], ReaderAt(r)' = ReaderAt(r),
           WriterAt(w) \subseteq WriterAt(w)', Collects(r, w)'
    PROVE  Stream(o, w, r)'
<1>1. Stream(o, w, r)
  BY DEF Streams
<1>2. Frames(content[o], w)'
  BY <1>1 DEF Stream, Frames
<1>3. Links(content[o], ReaderAt(r), WriterAt(w))'
  BY <1>1 DEF Stream, Links
<1>. QED
  BY <1>2, <1>3 DEF Stream

(* A step of writer w to `to` that touches no pipe.                        *)
WriterTo(w, to) ==
    /\ pc' = [pc EXCEPT ![w] = to]
    /\ line' \in [Writers -> [no : 0 .. MaxLines, len : 0 .. BUF_SIZE]]
    /\ \A v \in Writers \ {w} : line'[v] = line[v]
    /\ UNCHANGED <<nonblocking, kernel, sent, reading>>
    /\ stop_flag' \in [Procs -> BOOLEAN] /\ faults' \in 0 .. MaxFaults

WriterMay(w, to) ==
    \/ /\ UNCHANGED line
       /\ \/ pc[w] = "off" /\ to = "open"
          \/ pc[w] = "open" /\ to = "exit"
          \/ pc[w] = "check" /\ to = "fgets"
          \/ pc[w] = "check_payload" /\ to = "write_payload"
          \/ /\ pc[w] \in {"opening", "check", "fgets", "write_len",
                            "check_payload", "write_payload"}
             /\ to = "close"
    \/ /\ pc[w] = "fgets" /\ to = "write_len"
       /\ line'[w].no = line[w].no + 1 /\ line'[w].len > 0

LEMMA WriterStep ==
    ASSUME IInv, NEW w \in Writers, NEW to, WriterTo(w, to), WriterMay(w, to)
    PROVE  IInv'
<1> USE ConstantsAssumption DEF IInv, WriterTo, kernel, reading, Procs, Pipes
<1>1. pc[w] # to /\ to \in WriterPC /\ \A p \in Procs \ {w} : pc'[p] = pc[p]
  BY DEF WriterMay, WriterPC, TypeOK
<1>0. \A r \in Readers : r \in Procs /\ r # w /\ pc'[r] = pc[r]
  BY <1>1
<1>2. TypeOK'
  <2>1. pc' \in [Procs -> WriterPC \cup ReaderPC]
    BY <1>1 DEF TypeOK
  <2>2. \A v \in Writers : pc'[v] \in WriterPC
    BY <1>1 DEF TypeOK
  <2>3. \A r \in Readers : pc'[r] \in ReaderPC
    BY <1>0 DEF TypeOK
  <2>. QED
    BY <1>0, <2>1, <2>2, <2>3 DEF TypeOK
<1>3. Opens'
  BY <1>1 DEF Opens, TypeOK, WriterMay
<1>4. Lines'
  <2> SUFFICES ASSUME NEW v \in Writers
               PROVE  LineOf(v)'
    BY DEF Lines
  <2>0. LineOf(v)
    BY DEF Lines
  <2>1. CASE v # w
    BY <1>1, <2>0, <2>1 DEF LineOf
  <2>2. CASE v = w
    <3>1. pc'[w] = to
      BY DEF TypeOK
    <3>. QED
      BY <2>0, <2>2, <3>1 DEF LineOf, WriterMay
  <2>. QED
    BY <2>1, <2>2
<1>5. Buffers'
  BY <1>0 DEF Buffers, BufferOf
<1>6. OneSided'
  <2> SUFFICES ASSUME NEW o \in Pipes
               PROVE  BeforeReader(o)' /\ BeforeWriter(o)'
    BY DEF OneSided
  <2>0. BeforeReader(o) /\ BeforeWriter(o)
    BY DEF OneSided
  <2>1. \A r \in opened[o] \cap Readers : pc'[r] = pc[r]
    BY <1>0
  <2>2. ASSUME w \in opened[o], pc[w] \in {"opening"} \cup Gone
        PROVE  pc'[w] \in {"opening"} \cup Gone
    <3>1. pc'[w] = to
      BY DEF TypeOK
    <3>. QED
      BY <2>2, <3>1 DEF WriterMay, Gone
  <2>3. \A v \in opened[o] \cap Writers :
            pc[v] \in {"opening"} \cup Gone => pc'[v] \in {"opening"} \cup Gone
    BY <1>1, <2>2
  <2>. QED
    BY <2>0, <2>1, <2>3 DEF BeforeReader, BeforeWriter
<1>7. Streams'
  <2> SUFFICES ASSUME NEW o \in Pipes, Private(o)', NEW v \in opened[o] \cap Writers,
                      NEW r \in opened[o] \cap Readers, Reading(r)'
               PROVE  Stream(o, v, r)'
    BY DEF Streams
  <2>1. Private(o)
    BY DEF Private
  <2>2. pc'[r] = pc[r] /\ Reading(r) /\ ReaderAt(r)' = ReaderAt(r)
    BY <1>1 DEF Reading, ReaderAt
  <2>3. Collects(r, v)'
    <3>1. Collects(r, v)
      BY <2>1, <2>2 DEF Streams, Stream
    <3>. QED
      BY <2>2, <3>1 DEF Collects
  <2>4. WriterAt(v) \subseteq WriterAt(v)'
    BY <1>1 DEF WriterAt, WriterMay, Gone, TypeOK
  <2>. QED
    BY <2>1, <2>2, <2>3, <2>4, StreamKept
<1>8. Ends'
  <2>1. pc[w] \notin {"exit", "killed"}
    BY DEF WriterMay
  <2>2. \A o \in Pipes : Private(o)' => Private(o)
    BY DEF Private
  <2>3. \A v \in Writers : pc[v] \in {"exit", "killed"} => pc'[v] = pc[v]
    BY <1>1, <2>1
  <2>4. at_eof' = at_eof /\ \A r \in at_eof : r \in Readers
    BY DEF TypeOK
  <2>. QED
    BY <1>0, <2>2, <2>3, <2>4 DEF Ends
<1>. QED
  BY <1>2, <1>3, <1>4, <1>5, <1>6, <1>7, <1>8

(* A step of reader r to `to` that touches no pipe.                        *)
ReaderTo(r, to) ==
    /\ pc' = [pc EXCEPT ![r] = to]
    /\ path' \in Pipes \cup {NoPipe}
    /\ buf' \in [Readers -> Seq(Bytes)] /\ msg_len' \in [Readers -> 0 .. (BUF_SIZE + 1)]
    /\ received' \in [Readers -> Nat] /\ at_eof' \in {at_eof, at_eof \cup {r}}
    /\ \A q \in Readers \ {r} : /\ buf'[q] = buf[q] /\ msg_len'[q] = msg_len[q]
                                /\ received'[q] = received[q]
    /\ UNCHANGED <<nonblocking, fd, content, opened, writing>>
    /\ stop_flag' \in [Procs -> BOOLEAN] /\ faults' \in 0 .. MaxFaults

ReaderMay(r, to) ==
    \/ /\ buf'[r] = buf[r] /\ msg_len'[r] = msg_len[r] /\ received'[r] = received[r]
       /\ \/ pc[r] = "off" /\ to = "mkfifo" /\ at_eof' = at_eof
          \/ pc[r] = "mkfifo" /\ to = "open" /\ at_eof' = at_eof
          \/ pc[r] = "open" /\ to = "unlink" /\ at_eof' = at_eof
          \/ pc[r] = "unlink" /\ to = "exit" /\ at_eof' = at_eof
          \/ pc[r] = "check_payload" /\ to = "payload" /\ at_eof' = at_eof
          \/ pc[r] = "len" /\ to = "close"
          \/ /\ pc[r] \in {"opening", "check_payload", "payload"} /\ to = "close"
             /\ at_eof' = at_eof
    \/ /\ pc[r] = "check" /\ to \in {"len", "close"} /\ at_eof' = at_eof
       /\ nonblocking => (to = "close" \/ content[fd[r]] # <<>>)
       /\ buf'[r] = <<>> /\ msg_len'[r] = msg_len[r] /\ received'[r] = received[r]
    \/ /\ pc[r] = "decode" /\ at_eof' = at_eof
       /\ buf'[r] = <<>> /\ msg_len'[r] \in Lengths(buf[r])
       /\ received'[r] = received[r]
       /\ IF msg_len'[r] = 0 \/ msg_len'[r] > BUF_SIZE
          THEN to = "close" ELSE to \in {"check_payload", "payload"}
    \/ /\ pc[r] = "print" /\ to = "check" /\ at_eof' = at_eof
       /\ buf'[r] = buf[r] /\ msg_len'[r] = msg_len[r]
       /\ received'[r] = received[r] + 1

(* What a whole header in the buffer of r says is the length of the frame. *)
LEMMA DecodesLength ==
    ASSUME TypeOK, Buffers, NEW w \in Writers, NEW r \in Readers, pc[r] = "decode",
           Collects(r, w)
    PROVE  Lengths(buf[r]) = {buf[r][1].len} /\ buf[r] # <<>>
<1>1. HeaderSize \in Nat /\ HeaderSize > 0
  BY ConstantsAssumption
<1>2. buf[r] \in Seq(Bytes) /\ Len(buf[r]) = HeaderSize
  BY DEF TypeOK, Buffers, BufferOf
<1>3. \A k \in 1 .. HeaderSize :
         buf[r][k] = Byte(w, Place(received[r] + 1, 0, buf[r][1].len), k)
  BY <1>2 DEF Collects
<1>4. buf[r][1].no = received[r] + 1 /\ buf[r][1].from = w
  <2>1. 1 \in 1 .. HeaderSize
    BY <1>1
  <2>2. buf[r][1] = Byte(w, Place(received[r] + 1, 0, buf[r][1].len), 1)
    BY <1>3, <2>1
  <2>3. Place(received[r] + 1, 0, buf[r][1].len).no = received[r] + 1
    BY DEF Place
  <2>. QED
    BY <2>2, <2>3, FieldsOfByte
<1>5. \A k \in 1 .. HeaderSize : buf[r][k] = Byte(w, buf[r][1], k)
  BY <1>3, <1>4 DEF Byte, Place
<1>6. buf[r] = [k \in 1 .. HeaderSize |-> Byte(w, buf[r][1], k)]
  BY <1>2, <1>5
<1>7. buf[r] = Header(buf[r][1].from, buf[r][1])
  BY <1>4, <1>6 DEF Header
<1>8. buf[r] # <<>>
  BY <1>1, <1>2, EmptySeq
<1>. QED
  BY <1>7, <1>8 DEF Lengths

LEMMA ReaderStep ==
    ASSUME IInv, NEW r \in Readers, NEW to, ReaderTo(r, to), ReaderMay(r, to),
           at_eof' = at_eof \/ Ends'
    PROVE  IInv'
<1> USE ConstantsAssumption DEF IInv, ReaderTo, writing, Procs, Pipes
<1>1. /\ to \in ReaderPC /\ pc'[r] = to
      /\ \A p \in Procs \ {r} : pc'[p] = pc[p]
  BY DEF ReaderMay, ReaderPC, TypeOK
<1>0. \A w \in Writers : w \in Procs /\ w # r /\ pc'[w] = pc[w]
  BY <1>1
<1>b. BufferOf(r)
  BY DEF Buffers
<1>2. TypeOK'
  <2>1. pc' \in [Procs -> WriterPC \cup ReaderPC]
    BY <1>1 DEF TypeOK
  <2>2. \A q \in Readers : pc'[q] \in ReaderPC
    BY <1>1 DEF TypeOK
  <2>3. \A w \in Writers : pc'[w] \in WriterPC
    BY <1>0 DEF TypeOK
  <2>4. ASSUME NEW q \in Readers
        PROVE  Len(buf'[q]) <=
                   CASE pc'[q] \in {"len", "decode"} -> HeaderSize
                     [] pc'[q] \in {"check_payload", "payload", "print"} -> msg_len'[q]
                     [] OTHER -> HeaderSize + BUF_SIZE
    <3>1. CASE q # r
      BY <1>1, <3>1 DEF TypeOK
    <3>2. CASE q = r
      <4>1. /\ HeaderSize \in Nat /\ HeaderSize > 0 /\ BUF_SIZE \in Nat
            /\ Len(<<>>) = 0
        BY EmptySeq
      <4>2. msg_len[r] \in 0 .. (BUF_SIZE + 1) /\ msg_len'[r] \in 0 .. (BUF_SIZE + 1)
        BY DEF TypeOK
      <4>3. Len(buf[r]) \in Nat /\ Len(buf'[r]) \in Nat
        <5>1. buf[r] \in Seq(Bytes) /\ buf'[r] \in Seq(Bytes)
          BY DEF TypeOK
        <5>. QED
          BY <5>1, LenProperties
      <4>4. Len(buf[r]) <= HeaderSize + BUF_SIZE
        <5>1. Len(buf[r]) <=
                  CASE pc[r] \in {"len", "decode"} -> HeaderSize
                    [] pc[r] \in {"check_payload", "payload", "print"} -> msg_len[r]
                    [] OTHER -> HeaderSize + BUF_SIZE
          BY DEF TypeOK
        <5>. QED
          BY <4>1, <4>2, <4>3, <5>1, SMTT(20)
      <4>5. CASE buf'[r] = <<>>
        BY <3>2, <4>1, <4>2, <4>5
      <4>6. CASE buf'[r] = buf[r] /\ msg_len'[r] = msg_len[r]
        <5>1. to \in {"len", "decode", "check_payload", "print"} => buf'[r] = <<>>
          BY <1>1, <4>6 DEF ReaderMay
        <5>2. to = "payload" => (buf'[r] = <<>> \/ Len(buf[r]) <= msg_len[r])
          BY <1>b, <4>2, <4>3 DEF ReaderMay, BufferOf
        <5>. QED
          BY <1>1, <3>2, <4>1, <4>2, <4>3, <4>4, <4>5, <4>6, <5>1, <5>2
      <4>. QED
        BY <4>5, <4>6 DEF ReaderMay
    <3>. QED
      BY <3>1, <3>2
  <2>. QED
    BY <1>0, <2>1, <2>2, <2>3, <2>4 DEF TypeOK
<1>3. Opens'
  BY <1>1 DEF Opens, TypeOK, ReaderMay
<1>4. Lines'
  BY <1>0 DEF Lines, LineOf
<1>5. Buffers'
  <2> SUFFICES ASSUME NEW q \in Readers PROVE BufferOf(q)'
    BY DEF Buffers
  <2>1. CASE q # r
    BY <1>1, <2>1 DEF Buffers, BufferOf
  <2>2. CASE q = r
    <3>1. /\ Len(<<>>) = 0 /\ HeaderSize > 0 /\ msg_len'[r] \in Nat /\ BUF_SIZE \in Nat
      OBVIOUS
    <3>. QED
      BY <1>1, <1>b, <2>2, <3>1 DEF BufferOf, ReaderMay
  <2>. QED
    BY <2>1, <2>2
<1>6. OneSided'
  <2> SUFFICES ASSUME NEW o \in Pipes
               PROVE  BeforeReader(o)' /\ BeforeWriter(o)'
    BY DEF OneSided
  <2>0. BeforeReader(o) /\ BeforeWriter(o)
    BY DEF OneSided
  <2>1. BeforeReader(o)'
    BY <1>0, <2>0 DEF BeforeReader
  <2>2. ASSUME opened[o] \cap Writers = {}, r \in opened[o]
        PROVE  /\ received'[r] = 0 /\ r \notin at_eof'
               /\ \/ pc'[r] \in {"opening"} \cup Gone
                  \/ nonblocking /\ pc'[r] = "check"
    <3>1. /\ content[o] = <<>> /\ received[r] = 0 /\ r \notin at_eof
          /\ \/ pc[r] \in {"opening"} \cup Gone
             \/ nonblocking /\ pc[r] = "check"
      BY <2>0, <2>2 DEF BeforeWriter
    <3>2. pc[r] = "check" => fd[r] = o
      BY <2>2, OpenHere DEF NoneOpen
    <3>. QED
      BY <1>1, <3>1, <3>2 DEF ReaderMay, Gone
  <2>3. \A q \in Readers : q # r => (pc'[q] = pc[q] /\ (q \in at_eof' => q \in at_eof))
    BY <1>1
  <2>4. BeforeWriter(o)'
    BY <2>0, <2>2, <2>3 DEF BeforeWriter
  <2>. QED
    BY <2>1, <2>4
<1>7. Streams'
  <2> SUFFICES ASSUME NEW o \in Pipes, Private(o)', NEW w \in opened[o] \cap Writers,
                      NEW q \in opened[o] \cap Readers, Reading(q)'
               PROVE  Stream(o, w, q)'
    BY DEF Streams
  <2>1. Private(o)
    BY DEF Private
  <2>2. WriterAt(w) \subseteq WriterAt(w)'
    BY <1>0 DEF WriterAt
  <2>3. CASE q # r
    <3>1. Reading(q) /\ ReaderAt(q)' = ReaderAt(q)
      BY <1>1, <2>3 DEF Reading, ReaderAt
    <3>2. Collects(q, w)
      BY <2>1, <3>1 DEF Streams, Stream
    <3>3. Collects(q, w)'
      BY <1>1, <2>3, <3>2 DEF Collects
    <3>. QED
      BY <2>1, <2>2, <3>1, <3>3, StreamKept
  <2>4. CASE q = r
    <3>1. Reading(r)
      BY <1>1, <2>4 DEF Reading, ReaderMay, Opens, TypeOK
    <3>2. Collects(r, w)
      BY <2>1, <2>4, <3>1 DEF Streams, Stream
    <3>3. ASSUME pc[r] = "decode"
          PROVE  msg_len'[r] = buf[r][1].len /\ buf[r] # <<>>
      <4>1. Lengths(buf[r]) = {buf[r][1].len} /\ buf[r] # <<>>
        BY <3>2, <3>3, DecodesLength
      <4>. QED
        BY <3>3, <4>1 DEF ReaderMay
    <3>4. Len(<<>>) = 0 /\ received[r] \in Nat /\ HeaderSize \in Nat
      BY DEF TypeOK
    <3>5. pc'[r] # "close"
      BY <2>4 DEF Reading
    <3>6. CASE pc[r] = "check" /\ to = "len"
      <4>1. buf'[r] = <<>> /\ received'[r] = received[r]
        BY <3>6 DEF ReaderMay
      <4>2. ReaderAt(r)' = ReaderAt(r)
        BY <1>1, <3>6, <4>1 DEF ReaderAt
      <4>3. Collects(r, w)'
        BY <1>1, <3>4, <3>6, <4>1 DEF Collects
      <4>. QED
        BY <2>1, <2>2, <2>4, <3>1, <4>2, <4>3, StreamKept
    <3>7. CASE pc[r] = "decode" /\ to \in {"check_payload", "payload"}
      <4>1. buf'[r] = <<>> /\ received'[r] = received[r]
        BY <3>7 DEF ReaderMay
      <4>5. HeaderSize + Len(buf'[r]) = HeaderSize
        BY <3>4, <4>1
      <4>2. ReaderAt(r) = Place(received[r] + 1, HeaderSize, buf[r][1].len)
        BY <1>b, <3>3, <3>7 DEF ReaderAt, BufferOf
      <4>3. ReaderAt(r)' = Place(received[r] + 1, HeaderSize, msg_len'[r])
        BY <1>1, <3>7, <4>1, <4>5 DEF ReaderAt
      <4>4. Collects(r, w)'
        BY <1>1, <3>4, <3>7, <4>1 DEF Collects
      <4>. QED
        BY <2>1, <2>2, <2>4, <3>1, <3>3, <3>7, <4>2, <4>3, <4>4, StreamKept
    <3>8. CASE pc[r] = "check_payload" /\ to = "payload"
      <4>1. /\ buf'[r] = buf[r] /\ received'[r] = received[r]
            /\ msg_len'[r] = msg_len[r]
        BY <3>8 DEF ReaderMay
      <4>2. ReaderAt(r)' = ReaderAt(r)
        BY <1>1, <3>8, <4>1 DEF ReaderAt
      <4>3. Collects(r, w)'
        BY <1>1, <3>2, <3>8, <4>1 DEF Collects
      <4>. QED
        BY <2>1, <2>2, <2>4, <3>1, <4>2, <4>3, StreamKept
    <3>9. CASE pc[r] = "print" /\ to = "check"
      <4>1. received'[r] = received[r] + 1 /\ received'[r] + 1 = received[r] + 2
        <5>1. received'[r] = received[r] + 1
          BY <3>9 DEF ReaderMay
        <5>2. \A x \in Nat : (x + 1) + 1 = x + 2
          OBVIOUS
        <5>. QED
          BY <3>4, <5>1, <5>2
      <4>2. ReaderAt(r)' = ReaderAt(r)
        BY <1>1, <3>9, <4>1 DEF ReaderAt
      <4>3. Collects(r, w)'
        BY <1>1, <3>9 DEF Collects
      <4>. QED
        BY <2>1, <2>2, <2>4, <3>1, <4>2, <4>3, StreamKept
    <3>. QED
      BY <1>1, <2>4, <3>5, <3>6, <3>7, <3>8, <3>9 DEF ReaderMay, Reading
  <2>. QED
    BY <2>3, <2>4
<1>8. Ends'
  <2> SUFFICES ASSUME at_eof' = at_eof PROVE Ends'
    OBVIOUS
  <2>1. pc[r] \in Gone => pc'[r] \in Gone /\ received'[r] = received[r]
    BY <1>1 DEF ReaderMay, Gone
  <2>2. \A o \in Pipes : Private(o)' => Private(o)
    BY DEF Private
  <2>3. \A q \in at_eof : /\ q \in Readers /\ pc'[q] \in Gone
                          /\ received'[q] = received[q]
    BY <1>1, <2>1 DEF Ends, TypeOK
  <2>. QED
    BY <1>0, <2>2, <2>3 DEF Ends
<1>. QED
  BY <1>2, <1>3, <1>4, <1>5, <1>6, <1>7, <1>8

(* Nothing but the flag of the process or the bounded count changes.       *)
LEMMA FlagStep ==
    ASSUME IInv, UNCHANGED <<nonblocking, pc, kernel, writing, reading>>,
           stop_flag' \in [Procs -> BOOLEAN], faults' \in 0 .. MaxFaults
    PROVE  IInv'
<1> USE DEF IInv, kernel, writing, reading
<1>1. TypeOK'
  BY DEF TypeOK
<1>2. Opens' /\ Lines' /\ Buffers'
  BY DEF Opens, Lines, LineOf, Buffers, BufferOf
<1>3. OneSided'
  BY DEF OneSided, BeforeReader, BeforeWriter
<1>4. Streams'
  <2> SUFFICES ASSUME NEW o \in Pipes, Private(o), NEW w \in opened[o] \cap Writers,
                      NEW r \in opened[o] \cap Readers, Reading(r)
               PROVE  Stream(o, w, r)'
    BY DEF Streams, Private, Reading
  <2>1. Collects(r, w)
    BY DEF Streams, Stream
  <2>2. ReaderAt(r)' = ReaderAt(r) /\ WriterAt(w)' = WriterAt(w) /\ Collects(r, w)'
    BY <2>1 DEF ReaderAt, WriterAt, Collects
  <2>. QED
    BY <2>2, StreamKept
<1>5. Ends'
  BY DEF Ends, Private
<1>. QED
  BY <1>1, <1>2, <1>3, <1>4, <1>5

LEMMA StutterStep ==
    ASSUME IInv, UNCHANGED vars PROVE IInv'
<1>1. stop_flag' \in [Procs -> BOOLEAN] /\ faults' \in 0 .. MaxFaults
  BY DEF IInv, TypeOK, vars, signals
<1>. QED
  BY <1>1, FlagStep DEF vars

-----------------------------------------------------------------------------
(* The actions that touch no pipe                                          *)

(* Without a new line, what WriterTo asks of the types is given.           *)
LEMMA WriterFrame ==
    ASSUME TypeOK, NEW w \in Writers, NEW to, pc' = [pc EXCEPT ![w] = to],
           UNCHANGED <<nonblocking, kernel, writing, reading>>,
           stop_flag' \in [Procs -> BOOLEAN], faults' \in 0 .. MaxFaults
    PROVE  WriterTo(w, to) /\ UNCHANGED line
BY DEF WriterTo, TypeOK, writing

LEMMA QuietSignals ==
    ASSUME TypeOK, UNCHANGED signals
    PROVE  stop_flag' \in [Procs -> BOOLEAN] /\ faults' \in 0 .. MaxFaults
BY DEF TypeOK, signals

LEMMA StartWriter ==
    ASSUME IInv, NEW w \in Writers, Start(w) PROVE IInv'
<1>1. pc[w] = "off" /\ pc' = [pc EXCEPT ![w] = "open"]
  BY ConstantsAssumption DEF Start, Goto
<1>2. WriterTo(w, "open") /\ UNCHANGED line
  BY <1>1, WriterFrame, QuietSignals DEF IInv, Start, Goto
<1>. QED
  BY <1>1, <1>2, WriterStep DEF WriterMay

LEMMA WriterOpenFails ==
    ASSUME IInv, NEW w \in Writers, OpenFails(w) PROVE IInv'
<1>1. pc[w] = "open" /\ pc' = [pc EXCEPT ![w] = "exit"]
  BY ConstantsAssumption DEF OpenFails, Goto
<1>2. WriterTo(w, "exit") /\ UNCHANGED line
  BY <1>1, WriterFrame, QuietSignals DEF IInv, OpenFails, Goto
<1>. QED
  BY <1>1, <1>2, WriterStep DEF WriterMay

LEMMA CheckWriterStep ==
    ASSUME IInv, NEW w \in Writers, CheckWriter(w) PROVE IInv'
<1> DEFINE to == IF stop_flag[w] THEN "close" ELSE "fgets"
<1>1. pc[w] = "check" /\ pc' = [pc EXCEPT ![w] = to]
  BY DEF CheckWriter, Goto
<1>2. WriterTo(w, to) /\ UNCHANGED line
  BY <1>1, WriterFrame, QuietSignals DEF IInv, CheckWriter, Goto
<1>. QED
  BY <1>1, <1>2, WriterStep DEF WriterMay

LEMMA TypeLineStep ==
    ASSUME IInv, NEW w \in Writers, TypeLine(w) PROVE IInv'
<1> USE ConstantsAssumption
<1>1. pc[w] = "fgets" /\ pc' = [pc EXCEPT ![w] = "write_len"]
  BY DEF TypeLine, Goto
<1>2. PICK len \in 1 .. BUF_SIZE :
         line' = [line EXCEPT ![w] = [no |-> line[w].no + 1, len |-> len]]
  BY DEF TypeLine
<1>3. line[w].no \in Nat /\ line[w].no < MaxLines /\ MaxLines \in Nat
  BY DEF TypeLine, IInv, TypeOK
<1>4. [no |-> line[w].no + 1, len |-> len] \in [no : 0 .. MaxLines, len : 0 .. BUF_SIZE]
  BY <1>3
<1>5. WriterTo(w, "write_len")
  BY <1>1, <1>2, <1>4, QuietSignals DEF WriterTo, TypeLine, Goto, IInv, TypeOK
<1>6. line'[w].no = line[w].no + 1 /\ line'[w].len > 0
  BY <1>2 DEF IInv, TypeOK
<1>. QED
  BY <1>1, <1>5, <1>6, WriterStep DEF WriterMay

LEMMA EndOfInputStep ==
    ASSUME IInv, NEW w \in Writers, EndOfInput(w) PROVE IInv'
<1>1. pc[w] = "fgets" /\ pc' = [pc EXCEPT ![w] = "close"]
  BY DEF EndOfInput, Goto
<1>2. WriterTo(w, "close") /\ UNCHANGED line
  BY <1>1, WriterFrame, QuietSignals DEF IInv, EndOfInput, Goto
<1>. QED
  BY <1>1, <1>2, WriterStep DEF WriterMay

LEMMA CheckWritingStep ==
    ASSUME IInv, NEW w \in Writers, CheckWriting(w) PROVE IInv'
<1> DEFINE to == IF stop_flag[w] THEN "close" ELSE "write_payload"
<1>1. pc[w] = "check_payload" /\ pc' = [pc EXCEPT ![w] = to]
  BY DEF CheckWriting, Goto
<1>2. WriterTo(w, to) /\ UNCHANGED line
  BY <1>1, WriterFrame, QuietSignals DEF IInv, CheckWriting, Goto
<1>. QED
  BY <1>1, <1>2, WriterStep DEF WriterMay

LEMMA BrokenPipeStep ==
    ASSUME IInv, NEW w \in Writers, BrokenPipe(w) PROVE IInv'
<1>1. pc[w] \in {"write_len", "write_payload"} /\ pc' = [pc EXCEPT ![w] = "close"]
  BY DEF BrokenPipe, Goto
<1>2. WriterTo(w, "close") /\ UNCHANGED line
  BY <1>1, WriterFrame, QuietSignals DEF IInv, BrokenPipe, Goto
<1>. QED
  BY <1>1, <1>2, WriterStep DEF WriterMay

LEMMA SignalledWriter ==
    ASSUME IInv, NEW w \in Writers, Signalled(w) PROVE IInv'
<1>1. stop_flag' \in [Procs -> BOOLEAN] /\ faults' \in 0 .. MaxFaults
  <2>1. faults' \in 0 .. MaxFaults
    BY ConstantsAssumption DEF IInv, TypeOK, Signalled
  <2>. QED
    BY <2>1 DEF IInv, TypeOK, Signalled
<1>2. CASE UNCHANGED <<nonblocking, pc>>
  BY <1>1, <1>2, FlagStep DEF Signalled
<1>3. CASE Sleeps(w) /\ Goto(w, pc[w], "close")
  <2>1. pc[w] \in {"opening", "fgets", "write_len", "write_payload"}
    BY <1>3 DEF Sleeps, IInv, TypeOK, WriterPC
  <2>2. WriterTo(w, "close") /\ UNCHANGED line
    BY <1>1, <1>3, WriterFrame DEF IInv, Signalled, Goto
  <2>. QED
    BY <2>1, <2>2, WriterStep DEF WriterMay
<1>. QED
  BY <1>2, <1>3 DEF Signalled

(* The same for a reader that only moves on.                               *)
LEMMA ReaderFrame ==
    ASSUME TypeOK, NEW r \in Readers, NEW to, pc' = [pc EXCEPT ![r] = to],
           path' \in Pipes \cup {NoPipe},
           UNCHANGED <<nonblocking, fd, content, opened, writing, buf, msg_len, received>>,
           at_eof' \in {at_eof, at_eof \cup {r}},
           stop_flag' \in [Procs -> BOOLEAN], faults' \in 0 .. MaxFaults
    PROVE  /\ ReaderTo(r, to)
           /\ buf'[r] = buf[r] /\ msg_len'[r] = msg_len[r] /\ received'[r] = received[r]
BY DEF ReaderTo, TypeOK

LEMMA StartReader ==
    ASSUME IInv, NEW r \in Readers, Start(r) PROVE IInv'
<1>1. pc[r] = "off" /\ pc' = [pc EXCEPT ![r] = "mkfifo"] /\ at_eof' = at_eof
  BY DEF Start, Goto, reading
<1>2. /\ ReaderTo(r, "mkfifo")
      /\ buf'[r] = buf[r] /\ msg_len'[r] = msg_len[r] /\ received'[r] = received[r]
  <2>1. path' \in Pipes \cup {NoPipe}
    BY DEF IInv, TypeOK, Start, kernel
  <2>. QED
    BY <1>1, <2>1, ReaderFrame, QuietSignals DEF IInv, Start, Goto, kernel, reading
<1>. QED
  BY <1>1, <1>2, ReaderStep DEF ReaderMay

LEMMA MakeFifoStep ==
    ASSUME IInv, NEW r \in Readers, MakeFifo(r) PROVE IInv'
<1>1. pc[r] = "mkfifo" /\ pc' = [pc EXCEPT ![r] = "open"] /\ at_eof' = at_eof
  BY DEF MakeFifo, Goto, reading
<1>2. /\ ReaderTo(r, "open")
      /\ buf'[r] = buf[r] /\ msg_len'[r] = msg_len[r] /\ received'[r] = received[r]
  <2>1. path' \in Pipes \cup {NoPipe}
    BY DEF IInv, TypeOK, MakeFifo, Pipes
  <2>. QED
    BY <1>1, <2>1, ReaderFrame, QuietSignals DEF IInv, MakeFifo, Goto, reading
<1>. QED
  BY <1>1, <1>2, ReaderStep DEF ReaderMay

LEMMA ReaderOpenFails ==
    ASSUME IInv, NEW r \in Readers, OpenFails(r) PROVE IInv'
<1>1. pc[r] = "open" /\ pc' = [pc EXCEPT ![r] = "unlink"] /\ at_eof' = at_eof
  BY DEF OpenFails, Goto, reading
<1>2. /\ ReaderTo(r, "unlink")
      /\ buf'[r] = buf[r] /\ msg_len'[r] = msg_len[r] /\ received'[r] = received[r]
  <2>1. path' \in Pipes \cup {NoPipe}
    BY DEF IInv, TypeOK, OpenFails, kernel
  <2>. QED
    BY <1>1, <2>1, ReaderFrame, QuietSignals DEF IInv, OpenFails, Goto, kernel, reading
<1>. QED
  BY <1>1, <1>2, ReaderStep DEF ReaderMay

LEMMA UnlinkStep ==
    ASSUME IInv, NEW r \in Readers, Unlink(r) PROVE IInv'
<1>1. pc[r] = "unlink" /\ pc' = [pc EXCEPT ![r] = "exit"] /\ at_eof' = at_eof
  BY DEF Unlink, Goto, reading
<1>2. /\ ReaderTo(r, "exit")
      /\ buf'[r] = buf[r] /\ msg_len'[r] = msg_len[r] /\ received'[r] = received[r]
  BY <1>1, ReaderFrame, QuietSignals DEF IInv, Unlink, Goto, reading
<1>. QED
  BY <1>1, <1>2, ReaderStep DEF ReaderMay

LEMMA CheckReaderStep ==
    ASSUME IInv, NEW r \in Readers, CheckReader(r) PROVE IInv'
<1> DEFINE to == NextFrame(r)
<1>1. /\ pc[r] = "check" /\ pc' = [pc EXCEPT ![r] = to] /\ to \in {"len", "close"}
      /\ UNCHANGED <<nonblocking, kernel, writing, msg_len, received, at_eof>>
      /\ buf' = [buf EXCEPT ![r] = <<>>]
  BY DEF CheckReader, Goto, NextFrame
<1>2. ReaderTo(r, to) /\ buf'[r] = <<>>
  <2>1. /\ buf' \in [Readers -> Seq(Bytes)] /\ buf'[r] = <<>>
        /\ \A q \in Readers \ {r} : buf'[q] = buf[q]
    BY <1>1, EmptySeq DEF IInv, TypeOK
  <2>2. stop_flag' \in [Procs -> BOOLEAN] /\ faults' \in 0 .. MaxFaults
    BY QuietSignals DEF IInv, CheckReader
  <2>. QED
    BY <1>1, <2>1, <2>2 DEF ReaderTo, IInv, TypeOK, kernel
<1>3. nonblocking => (to = "close" \/ content[fd[r]] # <<>>)
  BY <1>1 DEF CheckReader, IInv, TypeOK, Procs
<1>. QED
  BY <1>1, <1>2, <1>3, ReaderStep DEF ReaderMay

LEMMA DecodeStep ==
    ASSUME IInv, NEW r \in Readers, Decode(r) PROVE IInv'
<1>1. PICK l \in Lengths(buf[r]) :
         /\ Goto(r, "decode", IF l = 0 \/ l > BUF_SIZE THEN "close" ELSE ReadsPayload)
         /\ msg_len' = [msg_len EXCEPT ![r] = l]
  BY DEF Decode
<1> DEFINE to == IF l = 0 \/ l > BUF_SIZE THEN "close" ELSE ReadsPayload
<1>2. /\ pc[r] = "decode" /\ pc' = [pc EXCEPT ![r] = to]
      /\ ReadsPayload \in {"check_payload", "payload"}
      /\ UNCHANGED <<nonblocking, kernel, writing, received, at_eof>>
      /\ buf' = [buf EXCEPT ![r] = <<>>]
  BY <1>1 DEF Decode, Goto, ReadsPayload
<1>3. l \in 0 .. (BUF_SIZE + 1)
  <2>1. HeaderSize \in Nat /\ HeaderSize > 0 /\ BUF_SIZE \in Nat
    BY ConstantsAssumption
  <2>2. buf[r] \in Seq(Bytes) /\ Len(buf[r]) = HeaderSize
    BY <1>2 DEF IInv, TypeOK, Buffers, BufferOf
  <2>3. buf[r][1] \in Bytes
    BY <2>1, <2>2
  <2>. QED
    BY <1>1, <2>1, <2>3, ByteFields DEF Lengths
<1>4. ReaderTo(r, to) /\ buf'[r] = <<>> /\ msg_len'[r] = l
  <2>1. /\ buf' \in [Readers -> Seq(Bytes)] /\ buf'[r] = <<>>
        /\ \A q \in Readers \ {r} : buf'[q] = buf[q]
    BY <1>2, EmptySeq DEF IInv, TypeOK
  <2>2. /\ msg_len' \in [Readers -> 0 .. (BUF_SIZE + 1)] /\ msg_len'[r] = l
        /\ \A q \in Readers \ {r} : msg_len'[q] = msg_len[q]
    BY <1>1, <1>3 DEF IInv, TypeOK
  <2>3. stop_flag' \in [Procs -> BOOLEAN] /\ faults' \in 0 .. MaxFaults
    BY QuietSignals DEF IInv, Decode
  <2>. QED
    BY <1>2, <2>1, <2>2, <2>3 DEF ReaderTo, IInv, TypeOK, kernel
<1>5. received'[r] = received[r] /\ at_eof' = at_eof
  BY <1>2
<1>. QED
  BY <1>1, <1>2, <1>4, <1>5, ReaderStep DEF ReaderMay

LEMMA CheckReadingStep ==
    ASSUME IInv, NEW r \in Readers, CheckReading(r) PROVE IInv'
<1> DEFINE to == IF stop_flag[r] THEN "close" ELSE "payload"
<1>1. pc[r] = "check_payload" /\ pc' = [pc EXCEPT ![r] = to] /\ at_eof' = at_eof
  BY DEF CheckReading, Goto, reading
<1>2. /\ ReaderTo(r, to)
      /\ buf'[r] = buf[r] /\ msg_len'[r] = msg_len[r] /\ received'[r] = received[r]
  <2>1. path' \in Pipes \cup {NoPipe}
    BY DEF IInv, TypeOK, CheckReading, kernel
  <2>. QED
    BY <1>1, <2>1, ReaderFrame, QuietSignals DEF IInv, CheckReading, Goto, kernel, reading
<1>. QED
  BY <1>1, <1>2, ReaderStep DEF ReaderMay

LEMMA PrintMessageStep ==
    ASSUME IInv, NEW r \in Readers, PrintMessage(r) PROVE IInv'
<1>1. /\ pc[r] = "print" /\ pc' = [pc EXCEPT ![r] = "check"]
      /\ UNCHANGED <<nonblocking, kernel, writing, buf, msg_len, at_eof>>
      /\ received' = [received EXCEPT ![r] = @ + 1]
  BY DEF PrintMessage, Goto
<1>2. /\ ReaderTo(r, "check") /\ received'[r] = received[r] + 1
      /\ buf'[r] = buf[r] /\ msg_len'[r] = msg_len[r]
  <2>1. /\ received' \in [Readers -> Nat] /\ received'[r] = received[r] + 1
        /\ \A q \in Readers \ {r} : received'[q] = received[q]
    BY <1>1 DEF IInv, TypeOK
  <2>2. stop_flag' \in [Procs -> BOOLEAN] /\ faults' \in 0 .. MaxFaults
    BY QuietSignals DEF IInv, PrintMessage
  <2>. QED
    BY <1>1, <2>1, <2>2 DEF ReaderTo, IInv, TypeOK, kernel
<1>. QED
  BY <1>1, <1>2, ReaderStep DEF ReaderMay

LEMMA SignalledReader ==
    ASSUME IInv, NEW r \in Readers, Signalled(r) PROVE IInv'
<1>1. stop_flag' \in [Procs -> BOOLEAN] /\ faults' \in 0 .. MaxFaults
  <2>1. faults' \in 0 .. MaxFaults
    BY ConstantsAssumption DEF IInv, TypeOK, Signalled
  <2>. QED
    BY <2>1 DEF IInv, TypeOK, Signalled
<1>2. CASE UNCHANGED <<nonblocking, pc>>
  BY <1>1, <1>2, FlagStep DEF Signalled
<1>3. CASE Sleeps(r) /\ Goto(r, pc[r], "close")
  <2>1. pc[r] \in {"opening", "len", "payload"}
    BY <1>3 DEF Sleeps, IInv, TypeOK, ReaderPC
  <2>2. path' \in Pipes \cup {NoPipe}
    BY DEF IInv, TypeOK, Signalled, kernel
  <2>3. /\ ReaderTo(r, "close") /\ at_eof' = at_eof
        /\ buf'[r] = buf[r] /\ msg_len'[r] = msg_len[r] /\ received'[r] = received[r]
    BY <1>1, <1>3, <2>2, ReaderFrame DEF IInv, Signalled, Goto, kernel, reading
  <2>. QED
    BY <2>1, <2>3, ReaderStep DEF ReaderMay
<1>. QED
  BY <1>2, <1>3 DEF Signalled

(* A place between two frames is not one within a frame.                   *)
LEMMA OutsideFrames ==
    ASSUME TypeOK, Buffers, NEW r \in Readers, pc[r] = "len", NEW w \in Writers,
           pc[w] \in Gone, ReaderAt(r) \in WriterAt(w)
    PROVE  received[r] = sent[w]
<1>1. HeaderSize \in Nat /\ HeaderSize > 0
  BY ConstantsAssumption
<1>2. Len(buf[r]) \in Nat /\ Len(buf[r]) < HeaderSize
  BY DEF TypeOK, Buffers, BufferOf
<1>3. buf[r] \in Seq(Bytes) /\ (buf[r] # <<>> => Len(buf[r]) > 0)
  <2>1. buf[r] \in Seq(Bytes)
    BY DEF TypeOK
  <2>. QED
    BY <2>1, EmptySeq
<1>4. received[r] \in Nat /\ sent[w] \in Nat
  BY ConstantsAssumption DEF TypeOK
<1>5. WriterAt(w) = {Between(sent[w] + 1), Place(sent[w] + 1, HeaderSize, line[w].len)}
  BY DEF WriterAt, Gone
<1>6. CASE buf[r] # <<>>
  <2>1. ReaderAt(r) = Place(received[r] + 1, Len(buf[r]), buf[r][1].len)
    BY <1>6 DEF ReaderAt
  <2>2. ReaderAt(r).pos = Len(buf[r])
    BY <2>1 DEF Place
  <2>3. ReaderAt(r).pos \in {0, HeaderSize}
    BY <1>5 DEF Between, Place
  <2>. QED
    BY <1>2, <1>3, <1>6, <2>2, <2>3
<1>7. CASE buf[r] = <<>>
  <2>1. ReaderAt(r) = Between(received[r] + 1)
    BY <1>7 DEF ReaderAt
  <2>2. ReaderAt(r).no = received[r] + 1 /\ ReaderAt(r).no = sent[w] + 1
    BY <1>5, <2>1 DEF Between, Place
  <2>. QED
    BY <1>4, <2>2
<1>. QED
  BY <1>6, <1>7

LEMMA EndOfFileStep ==
    ASSUME IInv, NEW r \in Readers, EndOfFile(r) PROVE IInv'
<1> USE DEF IInv
<1>1. /\ pc[r] \in {"len", "payload"} /\ pc' = [pc EXCEPT ![r] = "close"]
      /\ at_eof' = IF pc[r] = "len" THEN at_eof \cup {r} ELSE at_eof
      /\ UNCHANGED <<nonblocking, kernel, writing, buf, msg_len, received>>
      /\ AtEnd(r)
  BY DEF EndOfFile, Goto
<1>2. /\ ReaderTo(r, "close")
      /\ buf'[r] = buf[r] /\ msg_len'[r] = msg_len[r] /\ received'[r] = received[r]
  <2>1. path' \in Pipes \cup {NoPipe}
    BY <1>1 DEF TypeOK, kernel
  <2>2. stop_flag' \in [Procs -> BOOLEAN] /\ faults' \in 0 .. MaxFaults
    BY QuietSignals DEF EndOfFile
  <2>. QED
    BY <1>1, <2>1, <2>2, ReaderFrame DEF kernel
<1>3. ReaderMay(r, "close")
  BY <1>1, <1>2 DEF ReaderMay
<1>4. ASSUME pc[r] = "len" PROVE Ends'
  <2>0. r \in Procs /\ \A p \in Procs \ {r} : pc'[p] = pc[p]
    BY <1>1 DEF TypeOK, Procs
  <2>1. ASSUME NEW o \in Pipes, Private(o), r \in opened[o],
               NEW w \in opened[o] \cap Writers
        PROVE  pc[w] \in {"exit", "killed"} /\ received[r] = sent[w]
    <3>1. fd[r] = o
      BY <1>4, <2>0, <2>1, OpenHere DEF NoneOpen
    <3>2. content[o] = <<>> /\ fd[w] # o
      BY <1>1, <3>1 DEF AtEnd, WritersOf
    <3>3. pc[w] \in {"exit", "killed"}
      <4>1. w \in Procs /\ pc[w] \in WriterPC
        BY DEF Procs, TypeOK
      <4>2. pc[w] \in NoneOpen
        BY <3>2, <4>1, OpenHere
      <4>3. pc[w] \notin {"off", "mkfifo", "open"}
        BY <4>1 DEF Opens
      <4>. QED
        BY <4>1, <4>2, <4>3 DEF NoneOpen, WriterPC
    <3>4. Stream(o, w, r)
      BY <1>4, <2>1 DEF Streams, Reading
    <3>5. ReaderAt(r) \in WriterAt(w)
      BY <3>2, <3>4 DEF Stream, Links
    <3>. QED
      BY <1>4, <3>3, <3>5, OutsideFrames DEF Gone
  <2>2. \A w \in Writers : pc'[w] = pc[w] /\ sent'[w] = sent[w]
    BY <1>1, <2>0, ConstantsAssumption DEF Procs, writing
  <2>3. /\ pc'[r] \in Gone
        /\ \A q \in at_eof : q \in Readers /\ pc'[q] \in Gone
    BY <1>1, <1>4, <2>0 DEF Gone, TypeOK, Ends, Procs
  <2>4. opened' = opened /\ received' = received /\ \A o : Private(o)' => Private(o)
    BY <1>1 DEF kernel, Private
  <2>. QED
    BY <1>1, <1>4, <2>1, <2>2, <2>3, <2>4 DEF Ends
<1>. QED
  BY <1>1, <1>2, <1>3, <1>4, ReaderStep

-----------------------------------------------------------------------------
(* Open and close                                                          *)

(* p closes its pipe on its way to `to`.                                   *)
LEMMA LeaveStep ==
    ASSUME IInv, NEW p \in Procs, NEW to, pc' = [pc EXCEPT ![p] = to],
           pc[p] \notin {"off", "exit", "killed"},
           to \in {"exit", "killed"} \/ (p \in Readers /\ to = "unlink"),
           ClosePipe(p), UNCHANGED <<nonblocking, writing, reading>>,
           stop_flag' \in [Procs -> BOOLEAN], faults' \in 0 .. MaxFaults
    PROVE  IInv'
<1> USE DEF IInv, writing, reading
<1>1. /\ UNCHANGED <<path, opened>> /\ fd' = [fd EXCEPT ![p] = NoPipe]
      /\ content' \in [Pipes -> Seq(Bytes)]
      /\ \A o \in Pipes : \/ content'[o] = content[o]
                          \/ /\ content'[o] = <<>>
                             /\ fd[p] = o /\ \A q \in Procs \ {p} : fd[q] # o
  <2>1. content' = [o \in Pipes |-> IF fd[p] = o /\ \A q \in Procs \ {p} : fd[q] # o
                                    THEN <<>> ELSE content[o]]
    BY DEF ClosePipe
  <2>2. \A o \in Pipes : content[o] \in Seq(Bytes) /\ <<>> \in Seq(Bytes)
    BY DEF TypeOK
  <2>3. content' \in [Pipes -> Seq(Bytes)]
    BY <2>1, <2>2
  <2>. QED
    BY <2>1, <2>3 DEF ClosePipe
<1>2. /\ pc'[p] = to /\ to \in Gone /\ to # "close"
      /\ \A q \in Procs \ {p} : pc'[q] = pc[q] /\ fd'[q] = fd[q]
  BY <1>1 DEF TypeOK, Gone
<1>3. Writers \cap Readers = {} /\ \A q : q \in Writers \/ q \in Readers <=> q \in Procs
  BY ConstantsAssumption DEF Procs
<1>4. TypeOK'
  <2>1. /\ pc' \in [Procs -> WriterPC \cup ReaderPC]
        /\ \A w \in Writers : pc'[w] \in WriterPC
        /\ \A r \in Readers : pc'[r] \in ReaderPC
    <3>1. to \in WriterPC \cup ReaderPC
      BY DEF WriterPC, ReaderPC
    <3>2. (p \in Writers => to \in WriterPC) /\ (p \in Readers => to \in ReaderPC)
      BY <1>3 DEF WriterPC, ReaderPC
    <3>. QED
      BY <1>2, <1>3, <3>1, <3>2 DEF TypeOK
  <2>2. fd' \in [Procs -> Pipes \cup {NoPipe}]
    BY <1>1 DEF TypeOK
  <2>3. \A o \in Pipes : Len(content'[o]) <= Capacity
    <3>1. Capacity \in Nat /\ Len(<<>>) = 0
      BY ConstantsAssumption
    <3>. QED
      BY <1>1, <3>1 DEF TypeOK
  <2>4. ASSUME NEW r \in Readers
        PROVE  Len(buf[r]) <=
                   CASE pc'[r] \in {"len", "decode"} -> HeaderSize
                     [] pc'[r] \in {"check_payload", "payload", "print"} -> msg_len[r]
                     [] OTHER -> HeaderSize + BUF_SIZE
    <3>0. Len(buf[r]) <=
              CASE pc[r] \in {"len", "decode"} -> HeaderSize
                [] pc[r] \in {"check_payload", "payload", "print"} -> msg_len[r]
                [] OTHER -> HeaderSize + BUF_SIZE
      BY DEF TypeOK
    <3>1. CASE r # p
      BY <1>2, <1>3, <3>0, <3>1
    <3>2. CASE r = p
      <4>1. /\ HeaderSize \in Nat /\ HeaderSize > 0 /\ BUF_SIZE \in Nat
            /\ msg_len[r] \in 0 .. (BUF_SIZE + 1)
        BY ConstantsAssumption DEF TypeOK
      <4>2. Len(buf[r]) \in Nat
        BY LenProperties DEF TypeOK
      <4>3. Len(buf[r]) <= HeaderSize + BUF_SIZE
        BY <3>0, <4>1, <4>2
      <4>. QED
        BY <1>2, <3>2, <4>3 DEF Gone
    <3>. QED
      BY <3>1, <3>2
  <2>. QED
    BY <1>1, <2>1, <2>2, <2>3, <2>4 DEF TypeOK
<1>5. Opens'
  <2>1. fd'[p] = NoPipe /\ NoPipe \notin Pipes
    BY <1>1, ConstantsAssumption DEF TypeOK
  <2>2. pc[p] \in {"off", "mkfifo", "open"} => \A o \in Pipes : p \notin opened[o]
    BY DEF Opens
  <2>. QED
    BY <1>1, <1>2, <2>1, <2>2 DEF Opens
<1>6. Lines'
  BY <1>2, <1>3 DEF Lines, LineOf, Gone
<1>7. Buffers'
  BY <1>2, <1>3 DEF Buffers, BufferOf, Gone
<1>8. OneSided'
  <2> SUFFICES ASSUME NEW o \in Pipes
               PROVE  BeforeReader(o)' /\ BeforeWriter(o)'
    BY DEF OneSided
  <2>1. BeforeReader(o) /\ BeforeWriter(o)
    BY DEF OneSided
  <2>2. content[o] = <<>> => content'[o] = <<>>
    BY <1>1
  <2>3. \A q \in Procs : \/ pc'[q] = pc[q]
                         \/ pc'[q] \in Gone
    BY <1>2
  <2>. QED
    BY <1>1, <1>3, <2>1, <2>2, <2>3 DEF BeforeReader, BeforeWriter
<1>9. Streams'
  <2> SUFFICES ASSUME NEW o \in Pipes, Private(o), NEW w \in opened[o] \cap Writers,
                      NEW r \in opened[o] \cap Readers, Reading(r)'
               PROVE  Stream(o, w, r)'
    BY <1>1 DEF Streams, Private
  <2>1. r # p /\ pc'[r] = pc[r] /\ Reading(r)
    BY <1>2, <1>3 DEF Reading, Gone
  <2>2. content'[o] = content[o]
    <3>1. r \in Procs /\ fd[r] = o
      BY <1>3, <2>1, OpenHere DEF NoneOpen, Reading
    <3>. QED
      BY <1>1, <2>1, <3>1
  <2>3. Collects(r, w)
    BY <2>1 DEF Streams, Stream
  <2>4. ReaderAt(r)' = ReaderAt(r) /\ Collects(r, w)'
    BY <2>1, <2>3 DEF ReaderAt, Collects
  <2>5. WriterAt(w) \subseteq WriterAt(w)'
    BY <1>2, <1>3 DEF WriterAt, Gone
  <2>. QED
    BY <2>1, <2>2, <2>4, <2>5, StreamKept
<1>10. Ends'
  <2>1. \A q \in Procs : pc[q] \in Gone => pc'[q] \in Gone
    BY <1>2
  <2>2. \A q \in Procs : pc[q] \in {"exit", "killed"} => pc'[q] = pc[q]
    BY <1>2
  <2>3. at_eof \subseteq Procs /\ Writers \subseteq Procs
    BY DEF TypeOK, Procs
  <2>. QED
    BY <1>1, <2>1, <2>2, <2>3 DEF Ends, Private
<1>. QED
  BY <1>4, <1>5, <1>6, <1>7, <1>8, <1>9, <1>10

LEMMA CloseStep ==
    ASSUME IInv, NEW p \in Procs, Close(p) PROVE IInv'
<1> DEFINE to == IF p \in Readers THEN "unlink" ELSE "exit"
<1>1. pc[p] = "close" /\ pc' = [pc EXCEPT ![p] = to]
  BY DEF Close, Goto
<1>. QED
  BY <1>1, LeaveStep, QuietSignals DEF Close, Goto, IInv

LEMMA KilledStep ==
    ASSUME IInv, NEW p \in Procs, Killed(p) PROVE IInv'
<1>1. stop_flag' \in [Procs -> BOOLEAN] /\ faults' \in 0 .. MaxFaults
  <2>1. faults' \in 0 .. MaxFaults
    BY ConstantsAssumption DEF IInv, TypeOK, Killed
  <2>. QED
    BY <2>1 DEF IInv, TypeOK, Killed
<1>2. pc' = [pc EXCEPT ![p] = "killed"]
  BY DEF Killed, Goto
<1>. QED
  BY <1>1, <1>2, LeaveStep DEF Killed, Goto

(* p opens the pipe that has the name, which may let others go on.         *)
LEMMA OpenStep ==
    ASSUME IInv, NEW p \in Procs, pc[p] = "open", NEW others,
           \/ p \in Readers /\ others = WritersOf(path)
           \/ /\ p \in Writers /\ others = ReadersOf(path)
              /\ nonblocking => others # {},
           OpenPipe(p, others)
    PROVE  IInv'
<1> USE DEF IInv, writing, reading, signals
<1> DEFINE n == path
<1>1. /\ n \in Pipes /\ n # NoPipe /\ UNCHANGED <<nonblocking, path, content, writing, reading, signals>>
      /\ fd' = [fd EXCEPT ![p] = n] /\ opened' = [opened EXCEPT ![n] = @ \cup {p}]
  BY DEF OpenPipe, TypeOK
<1>2. Writers \cap Readers = {} /\ \A q : q \in Writers \/ q \in Readers <=> q \in Procs
  BY ConstantsAssumption DEF Procs
<1>3. /\ others \subseteq Procs /\ p \notin others
      /\ \A q \in others : fd[q] = n /\ q \in opened[n] /\ (q \in Readers <=> p \in Writers)
  BY <1>1, <1>2 DEF WritersOf, ReadersOf, Opens
<1>4. /\ pc'[p] = IF nonblocking \/ others # {} THEN "check" ELSE "opening"
      /\ \A q \in Procs \ {p} : \/ pc'[q] = pc[q]
                                \/ q \in others /\ pc[q] = "opening" /\ pc'[q] = "check"
      /\ pc' \in [Procs -> WriterPC \cup ReaderPC]
  <2>1. pc' = [q \in Procs |->
                IF q = p THEN IF nonblocking \/ others # {} THEN "check" ELSE "opening"
                ELSE IF q \in others /\ pc[q] = "opening" THEN "check" ELSE pc[q]]
    BY DEF OpenPipe
  <2>2. {"check", "opening"} \subseteq WriterPC \cup ReaderPC
    BY DEF WriterPC, ReaderPC
  <2>3. \A q \in Procs : pc[q] \in WriterPC \cup ReaderPC
    BY DEF TypeOK
  <2>4. pc' \in [Procs -> WriterPC \cup ReaderPC]
    BY <2>1, <2>2, <2>3
  <2>5. ASSUME NEW q \in Procs \ {p}
        PROVE  \/ pc'[q] = pc[q]
               \/ q \in others /\ pc[q] = "opening" /\ pc'[q] = "check"
    <3>1. pc'[q] = IF q \in others /\ pc[q] = "opening" THEN "check" ELSE pc[q]
      BY <2>1
    <3>. QED
      BY <3>1, Zenon
  <2>6. pc'[p] = IF nonblocking \/ others # {} THEN "check" ELSE "opening"
    BY <2>1
  <2>. QED
    BY <2>4, <2>5, <2>6
<1>5. /\ \A o \in Pipes : p \notin opened[o]
      /\ \A o \in Pipes \ {n} : opened'[o] = opened[o]
      /\ opened'[n] = opened[n] \cup {p}
  BY <1>1 DEF Opens, TypeOK
<1>6. TypeOK'
  <2>1. /\ \A w \in Writers : pc'[w] \in WriterPC
        /\ \A r \in Readers : pc'[r] \in ReaderPC
    BY <1>2, <1>4 DEF TypeOK, WriterPC, ReaderPC
  <2>2. /\ fd' \in [Procs -> Pipes \cup {NoPipe}]
        /\ opened' \in [Pipes -> SUBSET Procs]
    BY <1>1 DEF TypeOK
  <2>3. ASSUME NEW r \in Readers
        PROVE  Len(buf[r]) <=
                   CASE pc'[r] \in {"len", "decode"} -> HeaderSize
                     [] pc'[r] \in {"check_payload", "payload", "print"} -> msg_len[r]
                     [] OTHER -> HeaderSize + BUF_SIZE
    <3>1. Len(buf[r]) <=
              CASE pc[r] \in {"len", "decode"} -> HeaderSize
                [] pc[r] \in {"check_payload", "payload", "print"} -> msg_len[r]
                [] OTHER -> HeaderSize + BUF_SIZE
      BY DEF TypeOK
    <3>2. \/ pc'[r] = pc[r]
          \/ pc[r] \in {"open", "opening"} /\ pc'[r] \in {"opening", "check"}
      BY <1>2, <1>4
    <3>. QED
      BY <3>1, <3>2
  <2>. QED
    BY <1>1, <1>4, <2>1, <2>2, <2>3 DEF TypeOK
<1>7. Opens'
  BY <1>1, <1>3, <1>4, <1>5 DEF Opens, TypeOK
<1>8. Lines'
  BY <1>1, <1>2, <1>4 DEF Lines, LineOf
<1>9. Buffers'
  BY <1>1, <1>2, <1>4 DEF Buffers, BufferOf
<1>10. OneSided'
  <2> SUFFICES ASSUME NEW o \in Pipes
               PROVE  BeforeReader(o)' /\ BeforeWriter(o)'
    BY DEF OneSided
  <2>1. BeforeReader(o) /\ BeforeWriter(o)
    BY DEF OneSided
  <2>2. CASE o # n
    <3>1. \A q \in opened[o] : q # p /\ q \notin others
      BY <1>1, <1>3, <1>5, <2>2 DEF Opens
    <3>2. \A q \in opened[o] \cap Procs : pc'[q] = pc[q]
      BY <1>4, <3>1
    <3>. QED
      BY <1>1, <1>2, <1>5, <2>1, <2>2, <3>2 DEF BeforeReader, BeforeWriter
  <2>3. CASE o = n
    <3>1. ASSUME opened'[n] \cap Readers = {}
          PROVE  /\ content[n] = <<>>
                 /\ \A w \in opened'[n] \cap Writers :
                       sent[w] = 0 /\ pc'[w] \in {"opening"} \cup Gone
      <4>1. p \in Writers /\ opened[n] \cap Readers = {}
        BY <1>2, <1>5, <3>1
      <4>2. others = {}
        BY <1>2, <1>3, <4>1 DEF ReadersOf
      <4>3. pc'[p] = "opening" /\ sent[p] = 0
        BY <1>2, <1>4, <4>1, <4>2 DEF Lines, LineOf
      <4>4. \A w \in opened[n] \cap Writers : pc'[w] = pc[w]
        BY <1>1, <1>2, <1>4, <1>5, <4>2
      <4>. QED
        BY <1>5, <2>1, <2>3, <4>1, <4>3, <4>4 DEF BeforeReader
    <3>2. ASSUME opened'[n] \cap Writers = {}
          PROVE  /\ content[n] = <<>>
                 /\ \A r \in opened'[n] \cap Readers :
                       /\ received[r] = 0 /\ r \notin at_eof
                       /\ \/ pc'[r] \in {"opening"} \cup Gone
                          \/ nonblocking /\ pc'[r] = "check"
      <4>1. p \in Readers /\ opened[n] \cap Writers = {}
        BY <1>2, <1>5, <3>2
      <4>2. others = {}
        BY <1>2, <1>3, <4>1 DEF WritersOf
      <4>3. received[p] = 0 /\ p \notin at_eof
        BY <4>1 DEF Buffers, BufferOf, Ends, Gone
      <4>4. pc'[p] = "opening" \/ (nonblocking /\ pc'[p] = "check")
        BY <1>4, <4>2
      <4>5. \A r \in opened[n] \cap Readers : pc'[r] = pc[r]
        BY <1>1, <1>2, <1>4, <1>5, <4>2
      <4>. QED
        BY <1>5, <2>1, <2>3, <4>1, <4>3, <4>4, <4>5 DEF BeforeWriter
    <3>. QED
      BY <1>1, <2>3, <3>1, <3>2 DEF BeforeReader, BeforeWriter
  <2>. QED
    BY <2>2, <2>3
<1>11. Streams'
  <2> SUFFICES ASSUME NEW o \in Pipes, Private(o)', NEW w \in opened'[o] \cap Writers,
                      NEW r \in opened'[o] \cap Readers, Reading(r)'
               PROVE  Stream(o, w, r)'
    BY DEF Streams
  <2>1. opened[o] \subseteq opened'[o] /\ Private(o)
    BY <1>5 DEF Private
  <2>2. CASE w # p /\ r # p
    <3>1. w \in opened[o] /\ r \in opened[o] /\ w \in Procs /\ r \in Procs
      BY <1>2, <1>5, <2>2
    <3>2. pc'[r] = pc[r] \/ (pc[r] = "opening" /\ pc'[r] = "check")
      BY <1>4, <2>2, <3>1
    <3>3. pc'[w] = pc[w] \/ (pc[w] = "opening" /\ pc'[w] = "check")
      BY <1>4, <2>2, <3>1
    <3>4. Reading(r)
      BY <3>2 DEF Reading
    <3>5. Collects(r, w)
      BY <2>1, <3>1, <3>4 DEF Streams, Stream
    <3>6. ReaderAt(r)' = ReaderAt(r) /\ Collects(r, w)'
      BY <1>1, <3>2, <3>5 DEF ReaderAt, Collects
    <3>7. WriterAt(w) \subseteq WriterAt(w)'
      BY <1>1, <3>3 DEF WriterAt, Gone
    <3>. QED
      BY <1>1, <2>1, <3>1, <3>4, <3>6, <3>7, StreamKept
  <2>3. CASE w = p \/ r = p
    <3>1. o = n
      BY <1>5, <2>3
    <3>2. content[n] = <<>> /\ received[r] = 0 /\ sent[w] = 0
      <4>1. CASE w = p
        <5>1. opened[n] \cap Writers = {} /\ r \in opened[n]
          BY <1>2, <1>5, <2>3, <3>1, <4>1 DEF Private
        <5>. QED
          BY <1>1, <4>1, <5>1 DEF OneSided, BeforeWriter, Lines, LineOf
      <4>2. CASE r = p
        <5>1. opened[n] \cap Readers = {} /\ w \in opened[n]
          BY <1>2, <1>5, <2>3, <3>1, <4>2 DEF Private
        <5>. QED
          BY <1>1, <4>2, <5>1 DEF OneSided, BeforeReader, Buffers, BufferOf
      <4>. QED
        BY <2>3, <4>1, <4>2
    <3>3. pc'[r] \in {"opening", "check"}
      <4>1. CASE r = p
        BY <1>4, <4>1
      <4>2. CASE w = p
        <5>1. opened[n] \cap Writers = {} /\ r \in opened[n] /\ r \in Procs /\ r # p
          BY <1>2, <1>5, <3>1, <4>2 DEF Private
        <5>2. pc[r] \in {"opening", "check"} \cup Gone
          BY <1>1, <5>1 DEF OneSided, BeforeWriter
        <5>. QED
          BY <1>4, <5>1, <5>2 DEF Reading, Gone
      <4>. QED
        BY <2>3, <4>1, <4>2
    <3>4. Between(sent[w] + 1) \in WriterAt(w)'
      <4>1. pc'[w] \in {"opening", "check"} \cup Gone
        <5>1. CASE w = p
          BY <1>4, <5>1
        <5>2. CASE r = p
          <6>1. opened[n] \cap Readers = {} /\ w \in opened[n] /\ w \in Procs /\ w # p
            BY <1>2, <1>5, <3>1, <5>2 DEF Private
          <6>2. pc[w] \in {"opening"} \cup Gone
            BY <1>1, <6>1 DEF OneSided, BeforeReader
          <6>. QED
            BY <1>4, <6>1, <6>2
        <5>. QED
          BY <2>3, <5>1, <5>2
      <4>. QED
        BY <1>1, <4>1 DEF WriterAt, Gone
    <3>5. ReaderAt(r)' = Between(sent[w] + 1)
      BY <1>1, <3>2, <3>3 DEF ReaderAt
    <3>6. Frames(content[o], w)'
      BY <1>1, <3>1, <3>2 DEF Frames
    <3>7. Collects(r, w)'
      BY <3>3 DEF Collects
    <3>. QED
      BY <1>1, <3>1, <3>2, <3>4, <3>5, <3>6, <3>7 DEF Stream, Links
  <2>. QED
    BY <2>2, <2>3
<1>12. Ends'
  <2> SUFFICES ASSUME NEW r \in at_eof
               PROVE  /\ pc'[r] \in Gone
                      /\ \A o \in Pipes : (Private(o)' /\ r \in opened'[o]) =>
                            \A w \in opened'[o] \cap Writers :
                                pc'[w] \in {"exit", "killed"} /\ received[r] = sent[w]
    BY <1>1 DEF Ends
  <2>1. r \in Readers /\ r \in Procs /\ pc[r] \in Gone
    BY <1>2 DEF TypeOK, Ends
  <2>2. r # p /\ pc'[r] \in Gone
    BY <1>4, <2>1 DEF Gone
  <2>3. ASSUME NEW o \in Pipes, Private(o)', r \in opened'[o],
               NEW w \in opened'[o] \cap Writers
        PROVE  pc'[w] \in {"exit", "killed"} /\ received[r] = sent[w]
    <3>1. r \in opened[o] /\ Private(o)
      BY <1>5, <2>2, <2>3 DEF Private
    <3>2. w # p
      <4> SUFFICES ASSUME w = p PROVE FALSE
        OBVIOUS
      <4>1. o = n /\ opened[n] \cap Writers = {}
        BY <1>2, <1>5, <2>3 DEF Private
      <4>. QED
        BY <1>1, <2>1, <3>1, <4>1 DEF OneSided, BeforeWriter
    <3>3. w \in opened[o] /\ w \in Procs
      BY <1>2, <1>5, <2>3, <3>2
    <3>4. pc[w] \in {"exit", "killed"} /\ received[r] = sent[w]
      BY <3>1, <3>3 DEF Ends
    <3>. QED
      BY <1>4, <3>2, <3>3, <3>4
  <2>. QED
    BY <2>2, <2>3
<1>. QED
  BY <1>6, <1>7, <1>8, <1>9, <1>10, <1>11, <1>12

LEMMA OpenReaderStep ==
    ASSUME IInv, NEW r \in Readers, OpenReader(r) PROVE IInv'
BY OpenStep DEF OpenReader, Procs

LEMMA OpenWriterStep ==
    ASSUME IInv, NEW w \in Writers, OpenWriter(w) PROVE IInv'
BY OpenStep DEF OpenWriter, Procs

-----------------------------------------------------------------------------
(* Writing                                                                 *)

(* w writes the bytes of its frame that follow the first a.                *)
LEMMA SendStep ==
    ASSUME IInv, NEW w \in Writers, NEW to, NEW a \in Nat, NEW x \in Seq(Bytes),
           pc[w] \in {"write_len", "write_payload"}, pc' = [pc EXCEPT ![w] = to],
           SendBytes(w, x), x # <<>>, UNCHANGED <<nonblocking, line, reading, signals>>,
           \A k \in 1 .. Len(x) : x[k] = Byte(w, line[w], a + k),
           a + Len(x) <= HeaderSize + line[w].len,
           \/ /\ pc[w] = "write_len" /\ to \in {"check_payload", "write_payload"}
              /\ a = 0 /\ Len(x) = HeaderSize /\ sent' = sent
           \/ /\ pc[w] = "write_payload" /\ to = "check"
              /\ a = HeaderSize /\ Len(x) = line[w].len
              /\ sent' = [sent EXCEPT ![w] = @ + 1]
    PROVE  IInv'
<1> USE DEF IInv, reading, signals
<1> DEFINE n == fd[w]
           c == content[n]
<1>1. Writers \cap Readers = {} /\ \A q : q \in Writers \/ q \in Readers <=> q \in Procs
  BY ConstantsAssumption DEF Procs
<1>2. /\ n \in Pipes /\ w \in opened[n] /\ \A o \in Pipes : w \in opened[o] => o = n
      /\ \E r \in Readers : r \in opened[n]
  <2>1. n \in Pipes /\ w \in opened[n]
    BY <1>1, ZenonT(30) DEF Opens, TypeOK
  <2>2. PICK r \in Readers : fd[r] = n
    BY DEF SendBytes, ReadersOf
  <2>. QED
    BY <1>1, <2>1, <2>2 DEF Opens
<1>3. /\ HeaderSize \in Nat /\ HeaderSize > 0 /\ BUF_SIZE \in Nat /\ Capacity \in Nat
      /\ MaxLines \in Nat
  BY ConstantsAssumption
<1>4. /\ line[w] \in [no : 0 .. MaxLines, len : 0 .. BUF_SIZE]
      /\ line[w].no = sent[w] + 1 /\ line[w].no \in Nat
      /\ line[w].len \in Nat /\ line[w].len > 0 /\ sent[w] \in Nat
  <2>1. line[w] \in [no : 0 .. MaxLines, len : 0 .. BUF_SIZE] /\ sent[w] \in 0 .. MaxLines
    BY DEF TypeOK
  <2>2. line[w].no = sent[w] + 1 /\ line[w].len > 0
    BY DEF Lines, LineOf
  <2>. QED
    BY <1>3, <2>1, <2>2
<1>5. /\ UNCHANGED <<path, fd, opened>> /\ content' = [content EXCEPT ![n] = c \o x]
      /\ Len(c) + Len(x) <= Capacity
  BY DEF SendBytes, HasRoom
<1>6. c \in Seq(Bytes) /\ \A o \in Pipes \ {n} : content'[o] = content[o]
  BY <1>2, <1>5 DEF TypeOK
<1> DEFINE d == c \o x
<1>7. /\ content'[n] = d /\ d \in Seq(Bytes) /\ Len(d) = Len(c) + Len(x)
      /\ content' \in [Pipes -> Seq(Bytes)]
  <2>1. d \in Seq(Bytes) /\ Len(d) = Len(c) + Len(x)
    BY <1>6, ConcatProperties
  <2> HIDE DEF d
  <2>2. content' = [content EXCEPT ![n] = d]
    BY <1>5 DEF d
  <2>. QED
    BY <1>2, <2>1, <2>2 DEF TypeOK
<1>8. /\ pc'[w] = to /\ \A q \in Procs \ {w} : pc'[q] = pc[q]
      /\ \A r \in Readers : pc'[r] = pc[r]
      /\ \A v \in Writers \ {w} : sent'[v] = sent[v]
      /\ sent'[w] = IF to = "check" THEN sent[w] + 1 ELSE sent[w]
  BY <1>1 DEF TypeOK
<1>9. TypeOK'
  <2>1. /\ pc' \in [Procs -> WriterPC \cup ReaderPC]
        /\ \A v \in Writers : pc'[v] \in WriterPC
        /\ \A r \in Readers : pc'[r] \in ReaderPC
    <3>1. to \in WriterPC
      BY DEF WriterPC
    <3>. QED
      BY <1>1, <1>8, <3>1 DEF TypeOK
  <2>2. \A o \in Pipes : Len(content'[o]) <= Capacity
    BY <1>5, <1>6, <1>7 DEF TypeOK
  <2>3. sent' \in [Writers -> 0 .. MaxLines]
    <3>1. sent[w] + 1 \in 0 .. MaxLines
      BY <1>3, <1>4
    <3>. QED
      BY <3>1 DEF TypeOK
  <2>. QED
    BY <1>5, <1>7, <1>8, <2>1, <2>2, <2>3 DEF TypeOK
<1>10. Opens'
  BY <1>1, <1>5, <1>8 DEF Opens
<1>11. Lines'
  BY <1>1, <1>4, <1>8 DEF Lines, LineOf
<1>12. Buffers'
  BY <1>8 DEF Buffers, BufferOf
<1>13. OneSided'
  <2> SUFFICES ASSUME NEW o \in Pipes
               PROVE  BeforeReader(o)' /\ BeforeWriter(o)'
    BY DEF OneSided
  <2>1. BeforeReader(o) /\ BeforeWriter(o)
    BY DEF OneSided
  <2>2. CASE o = n
    BY <1>2, <1>5, <2>2 DEF BeforeReader, BeforeWriter
  <2>3. CASE o # n
    <3>1. \A v \in opened[o] \cap Writers : v # w
      BY <1>2, <2>3
    <3>. QED
      BY <1>1, <1>5, <1>6, <1>8, <2>1, <2>3, <3>1 DEF BeforeReader, BeforeWriter
  <2>. QED
    BY <2>2, <2>3
<1>14. Streams'
  <2> SUFFICES ASSUME NEW o \in Pipes, Private(o), NEW v \in opened[o] \cap Writers,
                      NEW r \in opened[o] \cap Readers, Reading(r)
               PROVE  Stream(o, v, r)'
    BY <1>5, <1>8 DEF Streams, Private, Reading
  <2>1. Stream(o, v, r)
    BY DEF Streams
  <2>2. ReaderAt(r)' = ReaderAt(r) /\ Collects(r, v)'
    BY <1>8, <2>1 DEF ReaderAt, Stream, Collects
  <2>3. CASE o # n
    <3>1. v # w
      BY <1>2, <2>3
    <3>2. WriterAt(v)' = WriterAt(v)
      BY <1>1, <1>8, <3>1 DEF WriterAt
    <3>. QED
      BY <1>6, <2>2, <2>3, <3>2, StreamKept
  <2>4. CASE o = n
    <3>1. v = w
      BY <1>2, <2>4 DEF Private
    <3>2. Len(x) \in Nat /\ Len(x) > 0 /\ Len(c) \in Nat
      BY <1>6, EmptySeq, LenProperties
    <3>3. WriterAt(w) = {PlaceIn(line[w], a)}
      BY <1>3, <1>4 DEF WriterAt, PlaceIn, Gone
    <3>4. WriterAt(w)' = {PlaceIn(line[w], a + Len(x))}
      <4>1. CASE to = "check"
        <5>1. /\ a + Len(x) = HeaderSize + line[w].len /\ a + Len(x) # 0
              /\ sent'[w] + 1 = line[w].no + 1
          BY <1>3, <1>4, <1>8, <4>1
        <5>. QED
          BY <1>8, <4>1, <5>1 DEF WriterAt, PlaceIn, Gone
      <4>2. CASE to \in {"check_payload", "write_payload"}
        <5>1. /\ a + Len(x) = HeaderSize /\ HeaderSize # 0
              /\ HeaderSize # HeaderSize + line[w].len
          BY <1>3, <1>4, <4>2
        <5>. QED
          BY <1>4, <1>8, <4>2, <5>1 DEF WriterAt, PlaceIn, Gone
      <4>. QED
        BY <4>1, <4>2
    <3>5. \A k \in 1 .. Len(c) + Len(x) :
             d[k] = IF k <= Len(c) THEN c[k] ELSE x[k - Len(c)]
      BY <1>6, ConcatProperties
    <3> HIDE DEF c, d
    <3>8. \A k \in 1 .. Len(c) : d[k] = c[k]
      BY <3>2, <3>5
    <3>9. ASSUME NEW k \in (Len(c) + 1) .. (Len(c) + Len(x))
          PROVE  d[k] = Byte(w, line[w], a + k - Len(c))
      <4>1. k - Len(c) \in 1 .. Len(x) /\ a + (k - Len(c)) = a + k - Len(c)
        BY <3>2
      <4>2. d[k] = x[k - Len(c)]
        BY <3>2, <3>5
      <4>. QED
        BY <4>1, <4>2
    <3>6. Frames(c, w) /\ Links(c, ReaderAt(r), {PlaceIn(line[w], a)})
      BY <2>1, <2>4, <3>1, <3>3 DEF Stream, c
    <3>7. /\ Frames(d, w)
          /\ Links(d, ReaderAt(r), {PlaceIn(line[w], a + Len(x))})
      <4> DEFINE l == line[w]
                 m == Len(x)
                 k0 == Len(c)
      <4>1. /\ l.no \in Nat /\ l.len \in Nat /\ l.len > 0 /\ a \in Nat
            /\ k0 \in Nat /\ m \in Nat /\ m > 0 /\ a + m <= HeaderSize + l.len
            /\ c \in Seq(Bytes) /\ d \in Seq(Bytes) /\ Len(d) = k0 + m
        BY <1>4, <1>6, <1>7, <3>2
      <4>2. /\ \A k \in 1 .. k0 : d[k] = c[k]
            /\ \A k \in (k0 + 1) .. (k0 + m) : d[k] = Byte(w, l, a + k - k0)
        BY <3>8, <3>9
      <4>3. Frames(c, w) /\ Links(c, ReaderAt(r), {PlaceIn(l, a)})
        BY <3>6
      <4>4. k0 = Len(c)
        OBVIOUS
      <4> HIDE DEF l, m, k0
      <4>5. Frames(d, w) /\ Links(d, ReaderAt(r), {PlaceIn(l, a + m)})
        BY <4>1, <4>2, <4>3, <4>4, FramesExtend, ZenonT(30)
      <4>. QED
        BY <4>5 DEF l, m
    <3>. QED
      BY <1>7, <2>2, <2>4, <3>1, <3>4, <3>7 DEF Stream
  <2>. QED
    BY <2>3, <2>4
<1>15. Ends'
  <2>1. at_eof \subseteq Readers
    BY DEF TypeOK
  <2>2. \A v \in Writers : pc[v] \in {"exit", "killed"} =>
                              (v # w /\ pc'[v] = pc[v] /\ sent'[v] = sent[v])
    BY <1>1, <1>8
  <2>3. \A r \in at_eof : pc'[r] = pc[r]
    BY <1>8, <2>1
  <2>. QED
    BY <1>5, <2>2, <2>3 DEF Ends, Private
<1>. QED
  BY <1>9, <1>10, <1>11, <1>12, <1>13, <1>14, <1>15

LEMMA SentLine ==
    ASSUME IInv, NEW w \in Writers, pc[w] \in {"write_len", "write_payload"}
    PROVE  line[w] \in [no : 1 .. MaxLines, len : 1 .. BUF_SIZE]
<1>1. line[w] \in [no : 0 .. MaxLines, len : 0 .. BUF_SIZE] /\ sent[w] \in 0 .. MaxLines
  BY DEF IInv, TypeOK
<1>2. line[w].no = sent[w] + 1 /\ line[w].len > 0
  BY DEF IInv, Lines, LineOf
<1>3. line[w].no \in 1 .. MaxLines /\ line[w].len \in 1 .. BUF_SIZE
  BY <1>1, <1>2, ConstantsAssumption
<1>. QED
  BY <1>1, <1>3

LEMMA WriteLenStep ==
    ASSUME IInv, NEW w \in Writers, WriteLen(w) PROVE IInv'
<1> DEFINE to == IF nonblocking THEN "write_payload" ELSE "check_payload"
           x == Header(w, line[w])
<1>1. /\ pc[w] = "write_len" /\ pc' = [pc EXCEPT ![w] = to] /\ SendBytes(w, x)
      /\ UNCHANGED <<nonblocking, line, sent, reading, signals>>
  BY DEF WriteLen, Goto, writing
<1>2. line[w] \in [no : 1 .. MaxLines, len : 1 .. BUF_SIZE]
  BY <1>1, SentLine
<1>3. /\ x \in Seq(Bytes) /\ Len(x) = HeaderSize
      /\ \A k \in 1 .. HeaderSize : x[k] = Byte(w, line[w], k)
  BY <1>2, HeaderIsSeq
<1>4. HeaderSize \in Nat /\ HeaderSize > 0 /\ line[w].len \in Nat
  BY <1>2, ConstantsAssumption
<1>5. /\ x # <<>> /\ 0 + Len(x) <= HeaderSize + line[w].len
      /\ \A k \in 1 .. Len(x) : x[k] = Byte(w, line[w], 0 + k)
  BY <1>3, <1>4, EmptySeq
<1> HIDE DEF x
<1>. QED
  BY <1>1, <1>3, <1>5, SendStep

LEMMA WritePayloadStep ==
    ASSUME IInv, NEW w \in Writers, WritePayload(w) PROVE IInv'
<1> DEFINE x == Payload(w, line[w])
<1>1. /\ pc[w] = "write_payload" /\ pc' = [pc EXCEPT ![w] = "check"] /\ SendBytes(w, x)
      /\ UNCHANGED <<nonblocking, line, reading, signals>>
      /\ sent' = [sent EXCEPT ![w] = @ + 1]
  BY DEF WritePayload, SendPayload, Goto
<1>2. line[w] \in [no : 1 .. MaxLines, len : 1 .. BUF_SIZE]
  BY <1>1, SentLine
<1>3. /\ x \in Seq(Bytes) /\ Len(x) = line[w].len
      /\ \A k \in 1 .. line[w].len : x[k] = Byte(w, line[w], HeaderSize + k)
  BY <1>2, PayloadIsSeq
<1>4. HeaderSize \in Nat /\ line[w].len \in Nat /\ line[w].len > 0
  BY <1>2, ConstantsAssumption
<1>5. /\ x # <<>> /\ HeaderSize + Len(x) <= HeaderSize + line[w].len
  BY <1>3, <1>4, EmptySeq
<1> HIDE DEF x
<1>. QED
  BY <1>1, <1>3, <1>4, <1>5, SendStep

-----------------------------------------------------------------------------
(* Reading                                                                 *)

(* The buffer before and after a read of the next bytes of a frame.        *)
LEMMA ReadParts ==
    ASSUME TypeOK, NEW r \in Readers, fd[r] \in Pipes, NEW missing \in Nat,
           ReadBytes(r, missing)
    PROVE  \E m \in Nat :
              /\ m > 0 /\ m <= missing /\ m <= Len(content[fd[r]])
              /\ m = missing \/ m = Len(content[fd[r]])
              /\ buf'[r] \in Seq(Bytes) /\ Len(buf'[r]) = Len(buf[r]) + m
              /\ \A k \in 1 .. Len(buf[r]) : buf'[r][k] = buf[r][k]
              /\ \A k \in (Len(buf[r]) + 1) .. (Len(buf[r]) + m) :
                    buf'[r][k] = content[fd[r]][k - Len(buf[r])]
              /\ content'[fd[r]] \in Seq(Bytes)
              /\ Len(content'[fd[r]]) = Len(content[fd[r]]) - m
              /\ \A k \in 1 .. (Len(content[fd[r]]) - m) :
                    content'[fd[r]][k] = content[fd[r]][m + k]
              /\ buf' \in [Readers -> Seq(Bytes)] /\ content' \in [Pipes -> Seq(Bytes)]
              /\ \A q \in Readers \ {r} : buf'[q] = buf[q]
              /\ \A o \in Pipes \ {fd[r]} : content'[o] = content[o]
              /\ UNCHANGED <<path, fd, opened>>
<1> DEFINE n == fd[r]
           c == content[n]
           b == buf[r]
           m == Min({missing, Len(c)})
           got == SubSeq(c, 1, m)
           rest == SubSeq(c, m + 1, Len(c))
<1>1. c \in Seq(Bytes) /\ Len(c) \in Nat /\ b \in Seq(Bytes) /\ Len(b) \in Nat
  <2>1. c \in Seq(Bytes) /\ b \in Seq(Bytes)
    BY DEF TypeOK
  <2>. QED
    BY <2>1, LenProperties
<1>2. /\ m \in Nat /\ m > 0 /\ m <= missing /\ m <= Len(c)
      /\ m = missing \/ m = Len(c)
  <2>1. m \in Nat /\ m = IF missing <= Len(c) THEN missing ELSE Len(c)
    BY <1>1, MinOfTwo
  <2>2. m > 0
    BY DEF ReadBytes
  <2> HIDE DEF m, c
  <2>. QED
    BY <1>1, <2>1, <2>2
<1>3. /\ buf' = [buf EXCEPT ![r] = b \o got] /\ content' = [content EXCEPT ![n] = rest]
      /\ UNCHANGED <<path, fd, opened>>
  BY DEF ReadBytes
<1> HIDE DEF m, c, b, n
<1>4. /\ got \in Seq(Bytes) /\ Len(got) = m
      /\ \A k \in 1 .. m : got[k] = c[k]
  <2>1. \A k \in 1 .. m : c[k] \in Bytes
    BY <1>1, <1>2
  <2>2. /\ SubSeq(c, 1, m) \in Seq(Bytes)
        /\ Len(SubSeq(c, 1, m)) = IF 1 <= m THEN m - 1 + 1 ELSE 0
        /\ \A i \in 1 .. m - 1 + 1 : SubSeq(c, 1, m)[i] = c[1 + i - 1]
    BY <1>1, <1>2, <2>1, SubSeqProperties
  <2>3. 1 <= m /\ m - 1 + 1 = m /\ \A k \in 1 .. m : 1 + k - 1 = k
    BY <1>2
  <2>. QED
    BY <2>2, <2>3
<1>5. /\ rest \in Seq(Bytes) /\ Len(rest) = Len(c) - m
      /\ \A k \in 1 .. (Len(c) - m) : rest[k] = c[m + k]
  <2>1. \A k \in (m + 1) .. Len(c) : c[k] \in Bytes
    BY <1>1, <1>2
  <2>2. /\ SubSeq(c, m + 1, Len(c)) \in Seq(Bytes)
        /\ Len(SubSeq(c, m + 1, Len(c))) =
               IF m + 1 <= Len(c) THEN Len(c) - (m + 1) + 1 ELSE 0
        /\ \A i \in 1 .. Len(c) - (m + 1) + 1 :
               SubSeq(c, m + 1, Len(c))[i] = c[(m + 1) + i - 1]
    BY <1>1, <1>2, <2>1, SubSeqProperties
  <2>3. /\ Len(c) - (m + 1) + 1 = Len(c) - m
        /\ ~(m + 1 <= Len(c)) => Len(c) - m = 0
        /\ \A k \in 1 .. (Len(c) - m) : (m + 1) + k - 1 = m + k
    BY <1>1, <1>2
  <2>. QED
    BY <2>2, <2>3
<1> HIDE DEF got, rest
<1>6. /\ b \o got \in Seq(Bytes) /\ Len(b \o got) = Len(b) + m
      /\ \A k \in 1 .. Len(b) + m :
            (b \o got)[k] = IF k <= Len(b) THEN b[k] ELSE got[k - Len(b)]
  BY <1>1, <1>4, ConcatProperties
<1> DEFINE e == b \o got
<1>7. /\ buf'[r] = e /\ buf' \in [Readers -> Seq(Bytes)]
      /\ \A q \in Readers \ {r} : buf'[q] = buf[q]
  <2> HIDE DEF e
  <2>1. buf' = [buf EXCEPT ![r] = e] /\ e \in Seq(Bytes)
    BY <1>3, <1>6 DEF e
  <2>. QED
    BY <2>1 DEF TypeOK
<1>8. /\ content'[n] = rest /\ content' \in [Pipes -> Seq(Bytes)]
      /\ \A o \in Pipes \ {n} : content'[o] = content[o]
  BY <1>3, <1>5 DEF TypeOK, n
<1> HIDE DEF e
<1>9. /\ \A k \in 1 .. Len(b) : e[k] = b[k]
      /\ \A k \in (Len(b) + 1) .. (Len(b) + m) : e[k] = c[k - Len(b)]
  <2>1. ASSUME NEW k \in 1 .. Len(b) PROVE e[k] = b[k]
    BY <1>1, <1>2, <1>6 DEF e
  <2>2. ASSUME NEW k \in (Len(b) + 1) .. (Len(b) + m) PROVE e[k] = c[k - Len(b)]
    <3>1. k \in 1 .. Len(b) + m /\ ~(k <= Len(b)) /\ k - Len(b) \in 1 .. m
      BY <1>1, <1>2
    <3>. QED
      BY <1>4, <1>6, <3>1 DEF e
  <2>. QED
    BY <2>1, <2>2
<1>10. /\ m > 0 /\ m <= missing /\ m <= Len(c) /\ (m = missing \/ m = Len(c))
       /\ buf'[r] \in Seq(Bytes) /\ Len(buf'[r]) = Len(b) + m
       /\ \A k \in 1 .. Len(b) : buf'[r][k] = b[k]
       /\ \A k \in (Len(b) + 1) .. (Len(b) + m) : buf'[r][k] = c[k - Len(b)]
       /\ content'[n] \in Seq(Bytes) /\ Len(content'[n]) = Len(c) - m
       /\ \A k \in 1 .. (Len(c) - m) : content'[n][k] = c[m + k]
  BY <1>2, <1>5, <1>6, <1>7, <1>8, <1>9 DEF e
<1>. QED
  BY <1>2, <1>3, <1>7, <1>8, <1>10 DEF b, c, n

(* What r reads next between a writer and it is the next byte of the part  *)
(* of the frame it is reading.                                             *)
LEMMA NextByte ==
    ASSUME TypeOK, Buffers, NEW r \in Readers, NEW c \in Seq(Bytes), c # <<>>, NEW to,
           Links(c, ReaderAt(r), to)
    PROVE  /\ c[1] \in Bytes
           /\ pc[r] = "len" =>
                 /\ c[1].no = received[r] + 1 /\ c[1].pos = Len(buf[r]) + 1
                 /\ buf[r] # <<>> => c[1].len = buf[r][1].len
           /\ pc[r] = "payload" =>
                 /\ c[1].no = received[r] + 1 /\ c[1].len = msg_len[r]
                 /\ c[1].pos = HeaderSize + Len(buf[r]) + 1
<1>1. Fits(ReaderAt(r), c[1])
  BY DEF Links
<1>2. c[1] \in Bytes
  BY EmptySeq
<1>3. /\ buf[r] \in Seq(Bytes) /\ Len(buf[r]) \in Nat /\ Len(<<>>) = 0
      /\ buf[r] # <<>> => Len(buf[r]) # 0
  <2>1. buf[r] \in Seq(Bytes)
    BY DEF TypeOK
  <2>. QED
    BY <2>1, EmptySeq, LenProperties
<1>4. HeaderSize \in Nat /\ HeaderSize # 0 /\ HeaderSize + Len(buf[r]) # 0
  BY <1>3, ConstantsAssumption
<1>5. CASE pc[r] = "len" /\ buf[r] # <<>>
  <2>1. ReaderAt(r) = Place(received[r] + 1, Len(buf[r]), buf[r][1].len)
    BY <1>5 DEF ReaderAt
  <2>. QED
    BY <1>1, <1>2, <1>3, <1>5, <2>1 DEF Fits, Place
<1>6. CASE pc[r] = "len" /\ buf[r] = <<>>
  <2>1. ReaderAt(r) = Place(received[r] + 1, 0, 0) /\ Len(buf[r]) = 0
    BY <1>3, <1>6 DEF ReaderAt, Between
  <2>. QED
    BY <1>1, <1>2, <1>6, <2>1 DEF Fits, Place
<1>7. CASE pc[r] = "payload"
  <2>1. ReaderAt(r) = Place(received[r] + 1, HeaderSize + Len(buf[r]), msg_len[r])
    BY <1>7 DEF ReaderAt
  <2>. QED
    BY <1>1, <1>2, <1>4, <1>7, <2>1 DEF Fits, Place
<1>. QED
  BY <1>2, <1>5, <1>6, <1>7

(* One read, of a part of a header or of a payload.                        *)
LEMMA ReadStep ==
    ASSUME IInv, NEW r \in Readers, NEW to, NEW missing, ReadBytes(r, missing),
           pc' = [pc EXCEPT ![r] = to],
           UNCHANGED <<nonblocking, writing, msg_len, received, at_eof, signals>>,
           \/ /\ pc[r] = "len" /\ missing = HeaderSize - Len(buf[r])
              /\ to = IF Len(buf'[r]) = HeaderSize THEN "decode" ELSE "len"
           \/ /\ pc[r] = "payload" /\ missing = msg_len[r] - Len(buf[r])
              /\ IF Len(buf'[r]) = msg_len[r] THEN to = "print"
                 ELSE to \in {"check_payload", "payload"}
    PROVE  IInv'
<1> USE DEF IInv, writing, signals
<1> DEFINE n == fd[r]
           c == content[n]
           b == buf[r]
<1>1. Writers \cap Readers = {} /\ \A q : q \in Writers \/ q \in Readers <=> q \in Procs
  BY ConstantsAssumption DEF Procs
<1>2. /\ n \in Pipes /\ r \in opened[n] /\ \A o \in Pipes : r \in opened[o] => o = n
  <2>1. n \in Pipes /\ r \in opened[n]
    BY <1>1 DEF Opens, TypeOK
  <2>. QED
    BY <1>1, <2>1 DEF Opens
<1>3. /\ HeaderSize \in Nat /\ HeaderSize > 0 /\ BUF_SIZE \in Nat /\ Capacity \in Nat
      /\ b \in Seq(Bytes) /\ Len(b) \in Nat /\ c \in Seq(Bytes) /\ Len(c) \in Nat
      /\ msg_len[r] \in Nat /\ received[r] \in Nat /\ Len(c) <= Capacity
  <2>1. /\ b \in Seq(Bytes) /\ c \in Seq(Bytes) /\ msg_len[r] \in 0 .. (BUF_SIZE + 1)
        /\ received[r] \in Nat /\ Len(c) <= Capacity
    BY <1>2 DEF TypeOK
  <2>. QED
    BY <2>1, LenProperties, ConstantsAssumption
<1>4. /\ pc[r] = "len" => Len(b) < HeaderSize
      /\ pc[r] = "payload" => (Len(b) < msg_len[r] /\ msg_len[r] <= BUF_SIZE)
  BY DEF Buffers, BufferOf
<1>5. missing \in Nat
  BY <1>3, <1>4
<1>6. PICK m \in Nat :
         /\ m > 0 /\ m <= missing /\ m <= Len(c) /\ (m = missing \/ m = Len(c))
         /\ buf'[r] \in Seq(Bytes) /\ Len(buf'[r]) = Len(b) + m
         /\ \A k \in 1 .. Len(b) : buf'[r][k] = b[k]
         /\ \A k \in (Len(b) + 1) .. (Len(b) + m) : buf'[r][k] = c[k - Len(b)]
         /\ content'[n] \in Seq(Bytes) /\ Len(content'[n]) = Len(c) - m
         /\ \A k \in 1 .. (Len(c) - m) : content'[n][k] = c[m + k]
         /\ buf' \in [Readers -> Seq(Bytes)] /\ content' \in [Pipes -> Seq(Bytes)]
         /\ \A q \in Readers \ {r} : buf'[q] = buf[q]
         /\ \A o \in Pipes \ {n} : content'[o] = content[o]
         /\ UNCHANGED <<path, fd, opened>>
  BY <1>2, <1>5, ReadParts
<1>7. /\ pc'[r] = to /\ \A q \in Procs \ {r} : pc'[q] = pc[q]
      /\ \A w \in Writers : pc'[w] = pc[w]
  BY <1>1 DEF TypeOK
<1>8. c # <<>>
  BY <1>3, <1>6, EmptySeq
<1> DEFINE e == buf'[r]
           d == content'[n]
<1>9. /\ to \in {"len", "decode"} <=> pc[r] = "len"
      /\ to \in {"check_payload", "payload", "print"} <=> pc[r] = "payload"
      /\ pc[r] = "len" => (Len(e) <= HeaderSize /\ (to = "decode" <=> Len(e) = HeaderSize))
      /\ pc[r] = "payload" =>
            (Len(e) <= msg_len[r] /\ (to = "print" <=> Len(e) = msg_len[r]))
  <2>1. pc[r] = "len" => Len(b) + m <= HeaderSize
    BY <1>3, <1>6
  <2>2. pc[r] = "payload" => Len(b) + m <= msg_len[r]
    BY <1>3, <1>6
  <2>. QED
    BY <1>6, <2>1, <2>2
<1>10. TypeOK'
  <2>1. /\ pc' \in [Procs -> WriterPC \cup ReaderPC]
        /\ \A w \in Writers : pc'[w] \in WriterPC
        /\ \A q \in Readers : pc'[q] \in ReaderPC
    <3>1. to \in ReaderPC
      BY DEF ReaderPC
    <3>. QED
      BY <1>1, <1>7, <3>1 DEF TypeOK
  <2>2. \A o \in Pipes : Len(content'[o]) <= Capacity
    <3>1. Len(d) <= Capacity
      BY <1>3, <1>6
    <3>. QED
      BY <1>6, <3>1 DEF TypeOK
  <2>3. ASSUME NEW q \in Readers
        PROVE  Len(buf'[q]) <=
                   CASE pc'[q] \in {"len", "decode"} -> HeaderSize
                     [] pc'[q] \in {"check_payload", "payload", "print"} -> msg_len[q]
                     [] OTHER -> HeaderSize + BUF_SIZE
    <3>1. CASE q # r
      <4>1. pc'[q] = pc[q] /\ buf'[q] = buf[q]
        BY <1>1, <1>6, <1>7, <3>1
      <4>2. Len(buf[q]) <=
                CASE pc[q] \in {"len", "decode"} -> HeaderSize
                  [] pc[q] \in {"check_payload", "payload", "print"} -> msg_len[q]
                  [] OTHER -> HeaderSize + BUF_SIZE
        BY DEF TypeOK
      <4>. QED
        BY <4>1, <4>2
    <3>2. CASE q = r
      BY <1>7, <1>9, <3>2
    <3>. QED
      BY <3>1, <3>2
  <2>. QED
    BY <1>6, <2>1, <2>2, <2>3 DEF TypeOK
<1>11. Opens'
  BY <1>6, <1>7 DEF Opens
<1>12. Lines'
  BY <1>7 DEF Lines, LineOf
<1>13. Buffers'
  <2> SUFFICES ASSUME NEW q \in Readers PROVE BufferOf(q)'
    BY DEF Buffers
  <2>1. CASE q # r
    BY <1>1, <1>6, <1>7, <2>1, SMTT(20) DEF Buffers, BufferOf
  <2>2. CASE q = r
    <3>1. Len(e) \in Nat /\ Len(e) > 0
      BY <1>3, <1>6
    <3>2. /\ to = "len" => Len(e) < HeaderSize
          /\ to \in {"check_payload", "payload"} => Len(e) < msg_len[r]
          /\ to = "print" => msg_len[r] \in 1 .. BUF_SIZE
      BY <1>3, <1>4, <1>9, <3>1
    <3>. QED
      BY <1>4, <1>7, <1>9, <2>2, <3>2 DEF BufferOf
  <2>. QED
    BY <2>1, <2>2
<1>14. OneSided'
  <2> SUFFICES ASSUME NEW o \in Pipes
               PROVE  BeforeReader(o)' /\ BeforeWriter(o)'
    BY DEF OneSided
  <2>1. BeforeReader(o) /\ BeforeWriter(o)
    BY DEF OneSided
  <2>2. CASE o = n
    BY <1>2, <1>6, <1>8, <2>1, <2>2 DEF BeforeReader, BeforeWriter
  <2>3. CASE o # n
    <3>1. \A q \in opened[o] \cap Readers : q # r
      BY <1>2, <2>3
    <3>. QED
      BY <1>1, <1>6, <1>7, <2>1, <2>3, <3>1 DEF BeforeReader, BeforeWriter
  <2>. QED
    BY <2>2, <2>3
<1>15. ASSUME Private(n), NEW w \in opened[n] \cap Writers
       PROVE  /\ Frames(d, w) /\ Links(d, ReaderAt(r)', WriterAt(w))
              /\ Collects(r, w)'
  <2> DEFINE f == c[1]
             g == Byte(w, f, f.pos - 1 + m)
  <2>1. Frames(c, w) /\ Links(c, ReaderAt(r), WriterAt(w)) /\ Collects(r, w)
    BY <1>2, <1>15 DEF Streams, Stream, Reading
  <2>2. /\ f \in Bytes
        /\ pc[r] = "len" => /\ f.no = received[r] + 1 /\ f.pos = Len(b) + 1
                            /\ b # <<>> => f.len = b[1].len
        /\ pc[r] = "payload" => /\ f.no = received[r] + 1 /\ f.len = msg_len[r]
                                /\ f.pos = HeaderSize + Len(b) + 1
    BY <1>3, <1>8, <2>1, NextByte
  <2>3. /\ f.len \in Nat /\ f.len > 0
        /\ pc[r] = "len" => f.pos - 1 + m = Len(e)
        /\ pc[r] = "payload" => f.pos - 1 + m = HeaderSize + Len(e)
        /\ f.pos - 1 + m <= HeaderSize + f.len
    <3>1. f.len \in Nat /\ f.len > 0 /\ f.pos \in Nat
      BY <2>2, ByteFields
    <3>2. CASE pc[r] = "len"
      <4>0. \A x \in Nat : (x + 1) - 1 + m = x + m
        OBVIOUS
      <4>1. f.pos - 1 + m = Len(e) /\ Len(e) <= HeaderSize
        BY <1>3, <1>6, <1>9, <2>2, <3>2, <4>0
      <4>. QED
        BY <1>3, <3>1, <3>2, <4>1, SMTT(20)
    <3>3. CASE pc[r] = "payload"
      <4>1. f.pos - 1 + m = HeaderSize + Len(e) /\ Len(e) <= f.len
        BY <1>3, <1>6, <1>9, <2>2, <3>3, SMTT(20)
      <4>. QED
        BY <1>3, <1>6, <3>1, <3>3, <4>1
    <3>. QED
      BY <3>2, <3>3
  <2>4. /\ \A k \in 1 .. m : c[k] = Byte(w, f, f.pos - 1 + k)
        /\ Frames(d, w) /\ Links(d, After(g), WriterAt(w))
    <3>1. Len(d) = Len(c) - m /\ \A k \in 1 .. (Len(c) - m) : d[k] = c[m + k]
      BY <1>6
    <3>2. /\ f \in Bytes /\ f = c[1] /\ f.pos - 1 + m <= HeaderSize + f.len
          /\ c \in Seq(Bytes) /\ Len(c) \in Nat /\ d \in Seq(Bytes)
          /\ m \in Nat /\ m > 0 /\ m <= Len(c)
      BY <1>3, <1>6, <2>2, <2>3
    <3> DEFINE s == ReaderAt(r)
               t == WriterAt(w)
    <3>3. /\ Frames(c, w) /\ Links(c, s, t) /\ Without(c, m, d)
          /\ w \in Writers
      BY <2>1, <3>1, <3>2 DEF Without
    <3> HIDE DEF d, f, c, s, t
    <3>4. /\ \A k \in 1 .. m : c[k] = Byte(w, f, f.pos - 1 + k)
          /\ Frames(d, w) /\ Links(d, After(Byte(w, f, f.pos - 1 + m)), t)
      BY <3>2, <3>3, FramesTake
    <3>. QED
      BY <3>4 DEF c, d, f, t
  <2>5. /\ e # <<>> /\ e[1] = IF b = <<>> THEN f ELSE b[1]
        /\ Len(e) = Len(b) + m
    <3>1. Len(e) = Len(b) + m /\ Len(e) > 0
      BY <1>3, <1>6
    <3>2. b # <<>> => e[1] = b[1]
      BY <1>3, <1>6, EmptySeq
    <3>3. CASE b = <<>>
      <4>1. Len(b) = 0 /\ 1 \in (Len(b) + 1) .. (Len(b) + m) /\ 1 - Len(b) = 1
        BY <1>6, <3>3, EmptySeq
      <4>. QED
        BY <1>6, <3>1, <3>3, <4>1, EmptySeq
    <3>. QED
      BY <3>1, <3>2, <3>3, EmptySeq
  <2>6. g.no = received[r] + 1 /\ g.len = f.len /\ g.pos = f.pos - 1 + m
    BY <2>2, FieldsOfByte
  <2>7. \A k \in (Len(b) + 1) .. Len(e) : e[k] = Byte(w, f, f.pos - 1 + (k - Len(b)))
    <3> SUFFICES ASSUME NEW k \in (Len(b) + 1) .. Len(e)
                 PROVE  e[k] = Byte(w, f, f.pos - 1 + (k - Len(b)))
      OBVIOUS
    <3>1. k - Len(b) \in 1 .. m /\ k \in (Len(b) + 1) .. (Len(b) + m)
      <4> HIDE DEF e, b
      <4>. QED
        BY <1>3, <1>6, <2>5
    <3>2. e[k] = c[k - Len(b)]
      BY <1>6, <3>1
    <3>. QED
      BY <2>4, <3>1, <3>2
  <2> HIDE DEF g, f
  <2>8. CASE pc[r] = "len"
    <3>1. e[1].len = f.len
      BY <2>2, <2>5, <2>8
    <3>2. ReaderAt(r)' = Place(received[r] + 1, Len(e), f.len)
      BY <1>7, <1>9, <2>5, <2>8, <3>1 DEF ReaderAt
    <3>3. g.pos = Len(e) /\ Len(e) # HeaderSize + f.len
      BY <1>3, <1>6, <1>9, <2>3, <2>6, <2>8
    <3>4. After(g) = ReaderAt(r)'
      BY <2>6, <3>2, <3>3 DEF After
    <3>5. ASSUME NEW k \in 1 .. Len(e)
          PROVE  e[k] = Byte(w, Place(received[r] + 1, 0, e[1].len), k)
      <4>1. CASE k \in 1 .. Len(b)
        <5>1. e[k] = b[k] /\ b # <<>>
          BY <1>3, <1>6, <4>1, EmptySeq
        <5>2. b[k] = Byte(w, Place(received[r] + 1, 0, b[1].len), k)
          BY <2>1, <2>8, <4>1 DEF Collects
        <5>. QED
          BY <2>5, <5>1, <5>2
      <4>2. CASE k \in (Len(b) + 1) .. Len(e)
        <5>1. f.pos - 1 + (k - Len(b)) = k
          BY <1>3, <2>2, <2>8
        <5>2. e[k] = Byte(w, f, k)
          BY <2>7, <4>2, <5>1
        <5>. QED
          BY <2>2, <2>8, <3>1, <5>2 DEF Byte, Place
      <4>. QED
        BY <1>3, <2>5, <4>1, <4>2
    <3>6. Collects(r, w)'
      BY <1>7, <1>9, <2>8, <3>5 DEF Collects
    <3>. QED
      BY <2>4, <3>4, <3>6
  <2>9. CASE pc[r] = "payload"
    <3>1. g.pos = HeaderSize + Len(e) /\ g.len = msg_len[r]
      BY <2>2, <2>3, <2>6, <2>9
    <3>2. After(g) = ReaderAt(r)'
      <4>1. CASE to = "print"
        <5>1. g.pos = HeaderSize + g.len
          BY <1>9, <2>9, <3>1, <4>1
        <5>2. ReaderAt(r)' = Between(received[r] + 2) /\ g.no + 1 = received[r] + 2
          <6>1. (received[r] + 1) + 1 = received[r] + 2
            BY <1>3
          <6>. QED
            BY <1>7, <2>6, <4>1, <6>1 DEF ReaderAt
        <5>. QED
          BY <5>1, <5>2 DEF After
      <4>2. CASE to \in {"check_payload", "payload"}
        <5>1. Len(e) # msg_len[r] /\ Len(e) \in Nat
          BY <1>3, <1>6, <1>9, <2>9, <4>2
        <5>2. g.pos # HeaderSize + g.len
          BY <1>3, <3>1, <5>1
        <5>3. ReaderAt(r)' = Place(received[r] + 1, HeaderSize + Len(e), msg_len[r])
          BY <1>7, <4>2 DEF ReaderAt
        <5>. QED
          BY <2>6, <3>1, <5>2, <5>3 DEF After
      <4>. QED
        BY <1>9, <2>9, <4>1, <4>2
    <3>3. ASSUME NEW k \in 1 .. Len(e)
          PROVE  e[k] = Byte(w, Place(received[r] + 1, 0, msg_len[r]), HeaderSize + k)
      <4>1. CASE k \in 1 .. Len(b)
        <5>1. e[k] = b[k]
          BY <1>6, <4>1
        <5>. QED
          BY <2>1, <2>9, <4>1, <5>1 DEF Collects
      <4>2. CASE k \in (Len(b) + 1) .. Len(e)
        <5>1. f.pos - 1 + (k - Len(b)) = HeaderSize + k
          BY <1>3, <2>2, <2>9
        <5>2. e[k] = Byte(w, f, HeaderSize + k)
          BY <2>7, <4>2, <5>1
        <5>. QED
          BY <2>2, <2>9, <5>2 DEF Byte, Place
      <4>. QED
        BY <1>3, <2>5, <4>1, <4>2
    <3>4. Collects(r, w)'
      BY <1>7, <1>9, <2>9, <3>3 DEF Collects
    <3>. QED
      BY <2>4, <3>2, <3>4
  <2>. QED
    BY <2>8, <2>9
<1>16. Streams'
  <2> SUFFICES ASSUME NEW o \in Pipes, Private(o), NEW w \in opened[o] \cap Writers,
                      NEW q \in opened[o] \cap Readers, Reading(q)'
               PROVE  Stream(o, w, q)'
    BY <1>6 DEF Streams, Private
  <2>1. WriterAt(w)' = WriterAt(w)
    BY <1>7 DEF WriterAt
  <2>2. CASE q = r
    <3>1. o = n
      BY <1>2, <2>2
    <3>. QED
      BY <1>15, <2>1, <2>2, <3>1 DEF Stream
  <2>3. CASE q # r
    <3>1. o # n
      BY <1>2, <2>3 DEF Private
    <3>2. pc'[q] = pc[q] /\ buf'[q] = buf[q] /\ content'[o] = content[o]
      BY <1>1, <1>6, <1>7, <2>3, <3>1
    <3>3. Reading(q) /\ ReaderAt(q)' = ReaderAt(q)
      BY <3>2 DEF Reading, ReaderAt
    <3>4. Collects(q, w)
      BY <3>3 DEF Streams, Stream
    <3>5. Collects(q, w)'
      BY <3>2, <3>4 DEF Collects
    <3>. QED
      BY <2>1, <3>2, <3>3, <3>5, StreamKept
  <2>. QED
    BY <2>2, <2>3
<1>17. Ends'
  <2>1. \A q \in at_eof : q \in Readers /\ q # r
    BY DEF Ends, Gone, TypeOK
  <2>2. \A q \in at_eof : pc'[q] = pc[q]
    BY <1>1, <1>7, <2>1
  <2>3. \A o \in Pipes : Private(o)' => Private(o)
    BY <1>6 DEF Private
  <2>. QED
    BY <1>6, <1>7, <2>2, <2>3 DEF Ends
<1>. QED
  BY <1>10, <1>11, <1>12, <1>13, <1>14, <1>16, <1>17

LEMMA ReadLenStep ==
    ASSUME IInv, NEW r \in Readers, ReadLenPart(r) PROVE IInv'
<1> DEFINE to == IF Len(buf'[r]) = HeaderSize THEN "decode" ELSE "len"
<1>1. /\ pc[r] = "len" /\ pc' = [pc EXCEPT ![r] = to]
      /\ ReadBytes(r, HeaderSize - Len(buf[r]))
      /\ UNCHANGED <<nonblocking, writing, msg_len, received, at_eof, signals>>
  BY DEF ReadLenPart, Goto
<1>. QED
  BY <1>1, ReadStep

LEMMA ReadPayloadStep ==
    ASSUME IInv, NEW r \in Readers, ReadPayload(r) PROVE IInv'
<1> DEFINE to == IF Len(buf'[r]) - Len(buf[r]) = MissingPayload(r)
                 THEN "print" ELSE ReadsPayload
<1>1. /\ pc[r] = "payload" /\ pc' = [pc EXCEPT ![r] = to]
      /\ ReadBytes(r, msg_len[r] - Len(buf[r]))
      /\ UNCHANGED <<nonblocking, writing, msg_len, received, at_eof, signals>>
  BY DEF ReadPayload, Goto, MissingPayload
<1>2. IF Len(buf'[r]) = msg_len[r] THEN to = "print"
      ELSE to \in {"check_payload", "payload"}
  <2>1. Len(buf[r]) \in Nat /\ Len(buf'[r]) \in Nat /\ msg_len[r] \in Nat
    <3>1. /\ buf[r] \in Seq(Bytes) /\ msg_len[r] \in 0 .. (BUF_SIZE + 1)
          /\ fd[r] \in Pipes
      BY <1>1, ConstantsAssumption DEF IInv, TypeOK, Opens, Procs
    <3>2. msg_len[r] - Len(buf[r]) \in Nat
      <4>1. Len(buf[r]) < msg_len[r]
        BY <1>1 DEF IInv, Buffers, BufferOf
      <4>. QED
        BY <3>1, <4>1, LenProperties, ConstantsAssumption
    <3>3. buf'[r] \in Seq(Bytes)
      BY <1>1, <3>1, <3>2, ReadParts DEF IInv
    <3>. QED
      BY <3>1, <3>3, LenProperties, ConstantsAssumption
  <2>2. Len(buf'[r]) - Len(buf[r]) = MissingPayload(r) <=> Len(buf'[r]) = msg_len[r]
    <3>1. \A x, y, z \in Nat : x - y = z - y <=> x = z
      OBVIOUS
    <3>. QED
      BY <2>1, <3>1 DEF MissingPayload
  <2>. QED
    BY <2>2 DEF ReadsPayload
<1>. QED
  BY <1>1, <1>2, ReadStep

-----------------------------------------------------------------------------
(* Every step keeps the invariant.                                         *)

LEMMA WriterKeeps ==
    ASSUME IInv, NEW w \in Writers, Writer(w) \/ TypeLine(w) \/ EndOfInput(w)
    PROVE  IInv'
<1>1. w \in Procs
  BY DEF Procs
<1>2. CASE OpenWriter(w)
  BY <1>2, OpenWriterStep
<1>3. CASE OpenFails(w)
  BY <1>3, WriterOpenFails
<1>4. CASE CheckWriter(w)
  BY <1>4, CheckWriterStep
<1>5. CASE TypeLine(w)
  BY <1>5, TypeLineStep
<1>6. CASE EndOfInput(w)
  BY <1>6, EndOfInputStep
<1>7. CASE WriteLen(w)
  BY <1>7, WriteLenStep
<1>8. CASE CheckWriting(w)
  BY <1>8, CheckWritingStep
<1>9. CASE WritePayload(w)
  BY <1>9, WritePayloadStep
<1>10. CASE BrokenPipe(w)
  BY <1>10, BrokenPipeStep
<1>11. CASE Close(w)
  BY <1>1, <1>11, CloseStep
<1>. QED
  BY <1>2, <1>3, <1>4, <1>5, <1>6, <1>7, <1>8, <1>9, <1>10, <1>11 DEF Writer

LEMMA ReaderKeeps ==
    ASSUME IInv, NEW r \in Readers, Reader(r) PROVE IInv'
<1>1. r \in Procs
  BY DEF Procs
<1>2. CASE MakeFifo(r)
  BY <1>2, MakeFifoStep
<1>3. CASE OpenReader(r)
  BY <1>3, OpenReaderStep
<1>4. CASE OpenFails(r)
  BY <1>4, ReaderOpenFails
<1>5. CASE CheckReader(r)
  BY <1>5, CheckReaderStep
<1>6. CASE ReadLenPart(r)
  BY <1>6, ReadLenStep
<1>7. CASE Decode(r)
  BY <1>7, DecodeStep
<1>8. CASE CheckReading(r)
  BY <1>8, CheckReadingStep
<1>9. CASE ReadPayload(r)
  BY <1>9, ReadPayloadStep
<1>10. CASE EndOfFile(r)
  BY <1>10, EndOfFileStep
<1>11. CASE PrintMessage(r)
  BY <1>11, PrintMessageStep
<1>12. CASE Close(r)
  BY <1>1, <1>12, CloseStep
<1>13. CASE Unlink(r)
  BY <1>13, UnlinkStep
<1>. QED
  BY <1>2, <1>3, <1>4, <1>5, <1>6, <1>7, <1>8, <1>9, <1>10, <1>11, <1>12, <1>13 DEF Reader

LEMMA InitEstablishes == Init => IInv
<1> SUFFICES ASSUME Init PROVE IInv
  OBVIOUS
<1> USE ConstantsAssumption DEF Init
<1>0. /\ HeaderSize \in Nat /\ BUF_SIZE \in Nat /\ Capacity \in Nat
      /\ MaxLines \in Nat /\ MaxFaults \in Nat /\ Len(<<>>) = 0 /\ <<>> \in Seq(Bytes)
  BY EmptySeq
<1>1. TypeOK
  <2>1. \A r \in Readers : pc[r] = "off" /\ Len(buf[r]) <= HeaderSize + BUF_SIZE
    BY <1>0 DEF Procs
  <2>2. \A w \in Writers : pc[w] = "off"
    BY DEF Procs
  <2>3. \A o \in Pipes : Len(content[o]) <= Capacity
    BY <1>0
  <2>4. pc \in [Procs -> WriterPC \cup ReaderPC]
    BY DEF WriterPC
  <2>5. line \in [Writers -> [no : 0 .. MaxLines, len : 0 .. BUF_SIZE]]
    BY <1>0
  <2>. QED
    BY <1>0, <2>1, <2>2, <2>3, <2>4, <2>5 DEF TypeOK, WriterPC, ReaderPC
<1>2. Opens
  BY DEF Opens
<1>3. Lines /\ Buffers
  BY DEF Lines, LineOf, Buffers, BufferOf, Procs
<1>4. OneSided
  BY DEF OneSided, BeforeReader, BeforeWriter
<1>5. Streams
  BY DEF Streams
<1>6. Ends
  BY DEF Ends
<1>. QED
  BY <1>1, <1>2, <1>3, <1>4, <1>5, <1>6 DEF IInv

(* The inductive invariant holds in every state (11_4 and 11_5, Reader and *)
(* Writer).                                                                *)
THEOREM Invariance == Spec => []IInv
<1>1. Init => IInv
  BY InitEstablishes
<1>2. IInv /\ [Next]_vars => IInv'
  <2> SUFFICES ASSUME IInv, [Next]_vars PROVE IInv'
    OBVIOUS
  <2>1. CASE UNCHANGED vars
    BY <2>1, StutterStep
  <2>2. ASSUME NEW w \in Writers, Writer(w) \/ TypeLine(w) \/ EndOfInput(w)
        PROVE  IInv'
    BY <2>2, WriterKeeps
  <2>3. ASSUME NEW r \in Readers, Reader(r) PROVE IInv'
    BY <2>3, ReaderKeeps
  <2>4. ASSUME NEW p \in Procs, Start(p) \/ Signalled(p) \/ Killed(p)
        PROVE  IInv'
    BY <2>4, StartWriter, StartReader, SignalledWriter, SignalledReader, KilledStep
       DEF Procs
  <2>. QED
    BY <2>1, <2>2, <2>3, <2>4 DEF Next
<1>. QED
  BY <1>1, <1>2, PTL DEF Spec

(* No pipe ever holds more than its capacity and no buffer more than was   *)
(* allocated for it (11_4 Reader lines 150-192, 11_5 Reader 147-189).      *)
THEOREM TypeCorrect == Spec => []TypeOK
BY Invariance, PTL DEF IInv

(* Between one writer and one reader every message that is printed is the  *)
(* next frame, whole (11_4 Reader lines 118-196, Writer 75-117).           *)
THEOREM InOrder == Spec => []ArriveInOrder
<1>1. IInv => ArriveInOrder
  <2> SUFFICES ASSUME IInv, NEW r \in Readers, pc[r] = "print", Private(fd[r])
               PROVE  PrintsPayload(r)
    BY DEF ArriveInOrder
  <2> USE DEF IInv
  <2> DEFINE o == fd[r]
  <2>1. o \in Pipes /\ r \in opened[o]
    BY ConstantsAssumption DEF Opens, TypeOK, Procs
  <2>2. PICK w \in Writers : w \in opened[o]
    <3>1. opened[o] \cap Writers # {}
      BY <2>1 DEF OneSided, BeforeWriter, Gone
    <3>. QED
      BY <3>1
  <2>3. Collects(r, w)
    BY <2>1, <2>2 DEF Streams, Stream, Reading
  <2> DEFINE l == Place(received[r] + 1, 0, msg_len[r])
             k == [no |-> received[r] + 1, len |-> Len(buf[r])]
  <2>4. buf[r] \in Seq(Bytes) /\ Len(buf[r]) = msg_len[r]
    BY DEF TypeOK, Buffers, BufferOf
  <2>5. \A i \in 1 .. Len(buf[r]) : buf[r][i] = Byte(w, l, HeaderSize + i)
    BY <2>3 DEF Collects
  <2>6. \A i : Byte(w, l, HeaderSize + i) = Byte(w, k, HeaderSize + i)
    BY <2>4 DEF Byte, Place
  <2>7. buf[r] = [i \in 1 .. Len(buf[r]) |-> Byte(w, k, HeaderSize + i)]
    BY <2>4, <2>5, <2>6, SMTT(20)
  <2>8. buf[r] = Payload(w, k)
    BY <2>7 DEF Payload
  <2>. QED
    BY <2>8 DEF PrintsPayload
<1>. QED
  BY <1>1, Invariance, PTL

(* A reader that takes an end of file between two frames for the end of    *)
(* its writer has printed all that the writer had sent (11_4 Reader lines  *)
(* 124-147, 11_5 Reader 112-140).                                          *)
THEOREM AllPrinted == Spec => []NothingUnread
<1>1. IInv => NothingUnread
  <2> SUFFICES ASSUME IInv, NEW r \in at_eof, NEW o \in Pipes, NEW w \in Writers,
                      opened[o] = {r, w}
               PROVE  received[r] = sent[w]
    BY DEF NothingUnread
  <2>1. r \in Readers /\ r \notin Writers /\ w \notin Readers
    BY ConstantsAssumption DEF IInv, TypeOK
  <2>2. Private(o)
    BY <2>1 DEF Private
  <2>. QED
    BY <2>1, <2>2 DEF IInv, Ends
<1>. QED
  BY <1>1, Invariance, PTL
=============================================================================
