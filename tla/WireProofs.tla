----------------------------- MODULE WireProofs -----------------------------
(* Proofs about Wire, for messages of all sizes, every number of           *)
(* connections and every length of a stream: on a connection that none of  *)
(* the five events has broken, the reader takes apart what was written.    *)
EXTENDS Wire, TLAPS

-----------------------------------------------------------------------------
(* Fields in a stream                                                      *)

Idle == <<"idle", 1>>

\* the place and the size of the field that begins at i, and the integer there
StartOf(s, i) == <<s[i].at, s[i].left>>
IntAt(s, i) == Value(<<s[i].v, s[i + 1].v, s[i + 2].v, s[i + 3].v>>)

\* What the bytes of the field at i make the reader do next is what its mark says,
\* d telling whether the hosts differ in byte order.
Meaning(d, s, i) ==
  /\ s[i].at = "request" => s[i].next = <<"port", 4>> /\ (s[i].v = permanentBridge => ~d)
  /\ s[i].at = "port" => s[i].next = <<"index", 4>>
  /\ s[i].at \in {"index", "body", "data"} => s[i].next = Idle
  /\ s[i].at = "idle" =>
       /\ s[i].v = clbkCmd => s[i].next = <<"type", 4>>
       /\ s[i].v \in {newNode, removeNode} => s[i].next = <<"key", KeySize>>
       /\ s[i].v = oldLeaderDied => s[i].next = <<"length", 4>>
       /\ s[i].v \notin News \cup {clbkCmd} => s[i].next = Idle
  /\ s[i].at = "key" => s[i].next = <<"length", 4>>
  /\ s[i].at = "entries" => s[i].next = Idle
  /\ ~d => /\ s[i].at = "type" =>
                /\ IntAt(s, i) \in 0 .. 3
                /\ s[i].next = <<IF IntAt(s, i) = APPENDENTRIES THEN "entries" ELSE "body",
                                 BodySize(IntAt(s, i))>>
           /\ s[i].at = "entries" => IntAt(s, i + 16) = 0
           /\ s[i].at = "length" =>
                s[i].next = IF IntAt(s, i) = 0 THEN Idle ELSE <<"data", IntAt(s, i)>>

\* the sizes that the reader's code knows without reading them
Sized(place, n) ==
  /\ place \in {"request", "port", "index", "type", "length"} => n = 4
  /\ place = "idle" => n = 1
  /\ place = "entries" => n = 24
  /\ place = "key" => n = KeySize

\* The field at i is there as a whole.
Whole(s, i) ==
  /\ Sized(s[i].at, s[i].left) /\ s[i].left >= 1
  /\ i + s[i].left - 1 <= Len(s)
  /\ \A j \in i .. i + s[i].left - 1 :
       s[j].at = s[i].at /\ s[j].next = s[i].next /\ s[j].left = s[i].left - (j - i)

\* A field of its own, and a sequence of fields each of which is followed by the
\* one its mark says.
IsField(d, f) == f # <<>> /\ f[1].left = Len(f) /\ Whole(f, 1) /\ Meaning(d, f, 1)

Begins(s, i) == i = 1 \/ s[i - 1].left = 1

Framed(d, s) ==
  /\ s # <<>> => s[Len(s)].left = 1
  /\ \A i \in 1 .. Len(s) : Begins(s, i) =>
       /\ Whole(s, i) /\ Meaning(d, s, i)
       /\ i + s[i].left <= Len(s) => StartOf(s, i + s[i].left) = s[i].next

\* The marks of a byte are typed.
LEMMA ByteTyped ==
  ASSUME NEW s \in Seq(MarkedByte), NEW i \in 1 .. Len(s)
  PROVE  /\ s[i] \in MarkedByte
         /\ s[i].v \in 0 .. 255 /\ s[i].at \in Place
         /\ s[i].left \in Nat /\ s[i].next \in Place \X Nat
<1>1. s[i] \in MarkedByte
  OBVIOUS
<1>. QED
  BY <1>1, Zenon DEF MarkedByte, Byte

\* A field means the same wherever its bytes are.
LEMMA MeaningMoves ==
  ASSUME NEW d \in BOOLEAN, NEW s \in Seq(MarkedByte), NEW r \in Seq(MarkedByte),
         NEW i \in 1 .. Len(s), NEW j \in 1 .. Len(r), Whole(s, i), Meaning(d, s, i),
         \A k \in 0 .. s[i].left - 1 : r[j + k] = s[i + k]
  PROVE  Meaning(d, r, j)
<1>1. s[i].left \in Nat /\ s[i].left >= 1
  BY ByteTyped DEF Whole
<1>2. r[j] = s[i]
  <2>1. r[j + 0] = s[i + 0]
    BY <1>1
  <2>. QED
    BY <2>1
<1>3. s[i].at \in {"type", "length"} => IntAt(r, j) = IntAt(s, i)
  <2>. SUFFICES ASSUME s[i].at \in {"type", "length"} PROVE IntAt(r, j) = IntAt(s, i)
    OBVIOUS
  <2>1. s[i].left = 4
    BY DEF Whole, Sized
  <2>2. r[j + 1] = s[i + 1] /\ r[j + 2] = s[i + 2] /\ r[j + 3] = s[i + 3]
    BY <2>1
  <2>. QED
    BY <1>2, <2>2, Zenon DEF IntAt
<1>4. s[i].at = "entries" => IntAt(r, j + 16) = IntAt(s, i + 16)
  <2>. SUFFICES ASSUME s[i].at = "entries" PROVE IntAt(r, j + 16) = IntAt(s, i + 16)
    OBVIOUS
  <2>1. s[i].left = 24
    BY DEF Whole, Sized
  <2>2. ASSUME NEW k \in 16 .. 19 PROVE r[j + k] = s[i + k]
    <3>1. k \in 0 .. s[i].left - 1
      BY <2>1
    <3>. QED
      BY <3>1, Zenon
  <2>3. /\ r[j + 16] = s[i + 16] /\ r[j + 17] = s[i + 17]
        /\ r[j + 18] = s[i + 18] /\ r[j + 19] = s[i + 19]
    BY <2>2
  <2>4. /\ (j + 16) + 1 = j + 17 /\ (j + 16) + 2 = j + 18 /\ (j + 16) + 3 = j + 19
        /\ (i + 16) + 1 = i + 17 /\ (i + 16) + 2 = i + 18 /\ (i + 16) + 3 = i + 19
    OBVIOUS
  <2>. QED
    BY <2>3, <2>4, Zenon DEF IntAt
<1>. QED
  BY <1>2, <1>3, <1>4, Zenon DEF Meaning

\* The same of being there as a whole.
LEMMA WholeMoves ==
  ASSUME NEW s \in Seq(MarkedByte), NEW r \in Seq(MarkedByte),
         NEW i \in 1 .. Len(s), NEW j \in 1 .. Len(r), Whole(s, i),
         j + s[i].left - 1 <= Len(r),
         \A k \in 0 .. s[i].left - 1 : r[j + k] = s[i + k]
  PROVE  r[j] = s[i] /\ Whole(r, j)
<1>1. s[i].left \in Nat /\ s[i].left >= 1 /\ Sized(s[i].at, s[i].left)
  BY ByteTyped DEF Whole
<1>2. r[j] = s[i]
  <2>1. r[j + 0] = s[i + 0]
    BY <1>1
  <2>. QED
    BY <2>1
<1>3. ASSUME NEW l \in j .. j + r[j].left - 1
      PROVE  r[l].at = r[j].at /\ r[l].next = r[j].next /\ r[l].left = r[j].left - (l - j)
  <2>1. l - j \in 0 .. s[i].left - 1 /\ j + (l - j) = l
    BY <1>1, <1>2
  <2>2. r[l] = s[i + (l - j)]
    BY <2>1, Zenon
  <2>3. i + (l - j) \in i .. i + s[i].left - 1 /\ (i + (l - j)) - i = l - j
    BY <1>1, <2>1
  <2>. QED
    BY <1>2, <2>2, <2>3, Zenon DEF Whole
<1>. QED
  BY <1>1, <1>2, <1>3 DEF Whole

\* the field at i has l bytes and the last of them, and only that, at e
EndsAt(s, i, l, e) ==
  /\ s[i].left = l /\ e = i + l - 1
  /\ s[e].left = 1 /\ s[e].next = s[i].next
  /\ \A j \in i .. e : s[j].left = 1 => j = e

\* The last byte of a field, and only that, has nothing left of it.
LEMMA WholeEnds ==
  ASSUME NEW s \in Seq(MarkedByte), NEW i \in 1 .. Len(s), Whole(s, i)
  PROVE  \E l \in Nat \ {0} : \E e \in i .. Len(s) : EndsAt(s, i, l, e)
<1>1. PICK l \in Nat \ {0} : s[i].left = l
  BY ByteTyped DEF Whole
<1>2. i + l - 1 <= Len(s)
  BY <1>1, Zenon DEF Whole
<1>3. \A j \in i .. i + l - 1 : s[j].next = s[i].next /\ s[j].left = l - (j - i)
  BY <1>1, Zenon DEF Whole
<1>4. PICK e \in i .. Len(s) : e = i + l - 1
  BY <1>2
<1>5. e \in i .. i + l - 1 /\ l - (e - i) = 1
  BY <1>4
<1>6. s[e].left = 1 /\ s[e].next = s[i].next
  BY <1>3, <1>5, Zenon
<1>7. ASSUME NEW j \in i .. e, s[j].left = 1 PROVE j = e
  <2>1. l - (j - i) = 1
    BY <1>3, <1>4, <1>7, Zenon
  <2>. QED
    BY <1>4, <2>1
<1>. QED
  BY <1>1, <1>4, <1>6, <1>7, Zenon DEF EndsAt

\* A whole field that the end of a stream asks for makes a stream again.
LEMMA Appended ==
  ASSUME NEW d \in BOOLEAN, NEW s \in Seq(MarkedByte), NEW f \in Seq(MarkedByte),
         Framed(d, s), IsField(d, f), s # <<>> => StartOf(f, 1) = s[Len(s)].next
  PROVE  /\ Framed(d, s \o f) /\ s \o f # <<>>
         /\ (s \o f)[Len(s \o f)].next = f[1].next
         /\ StartOf(s \o f, 1) = IF s = <<>> THEN StartOf(f, 1) ELSE StartOf(s, 1)
<1>. DEFINE r == s \o f
            n == Len(s)
            m == Len(f)
<1>1. n \in Nat /\ m \in Nat /\ m >= 1 /\ Len(r) = n + m
  BY DEF IsField
<1>2. r \in Seq(MarkedByte) /\ (n = 0 <=> s = <<>>)
  OBVIOUS
<1>3. ASSUME NEW i \in 1 .. n PROVE r[i] = s[i]
  OBVIOUS
<1>4. ASSUME NEW i \in 1 .. m PROVE r[n + i] = f[i]
  OBVIOUS
<1>5. 1 \in 1 .. Len(f) /\ Whole(f, 1) /\ Meaning(d, f, 1) /\ f[1].left = m
  BY <1>1 DEF IsField
<1>. HIDE DEF r, n, m
<1>6. /\ f[m].left = 1 /\ f[m].next = f[1].next
      /\ \A j \in 1 .. m : f[j].left = 1 => j = m
  <2>1. PICK l \in Nat \ {0} : \E e \in 1 .. Len(f) : EndsAt(f, 1, l, e)
    BY <1>5, WholeEnds
  <2>2. 1 + m - 1 = m
    BY <1>1
  <2>. QED
    BY <1>5, <2>1, <2>2, Zenon DEF EndsAt
<1>7. r[n + 1] = f[1] /\ Whole(r, n + 1) /\ Meaning(d, r, n + 1)
  <2>1. ASSUME NEW k \in 0 .. f[1].left - 1 PROVE r[n + 1 + k] = f[1 + k]
    <3>1. k \in 0 .. m - 1
      BY <1>5, <2>1, Zenon
    <3>2. 1 + k \in 1 .. m /\ n + (1 + k) = n + 1 + k
      BY <1>1, <3>1
    <3>. QED
      BY <1>4, <3>2, Zenon
  <2>2. n + 1 \in 1 .. Len(r) /\ n + 1 + m - 1 <= Len(r)
    BY <1>1
  <2>3. r[n + 1] = f[1] /\ Whole(r, n + 1)
    BY <1>2, <1>5, <2>1, <2>2, WholeMoves, Zenon
  <2>. QED
    BY <1>2, <1>5, <2>1, <2>2, <2>3, MeaningMoves, Zenon
<1>8. r[Len(r)].left = 1 /\ r[Len(r)].next = f[1].next
  <2>1. m \in 1 .. m
    BY <1>1
  <2>2. r[n + m] = f[m]
    BY <1>4, <2>1, Zenon
  <2>. QED
    BY <1>1, <1>6, <2>2, Zenon
<1>9. ASSUME NEW i \in 1 .. Len(r), Begins(r, i)
      PROVE  /\ Whole(r, i) /\ Meaning(d, r, i)
             /\ i + r[i].left <= Len(r) => StartOf(r, i + r[i].left) = r[i].next
  <2>0. i \in 1 .. n + m
    BY <1>1, Zenon
  <2>1. CASE i <= n
    <3>1. i \in 1 .. n /\ (i # 1 => i - 1 \in 1 .. n)
      BY <1>1, <2>0, <2>1
    <3>2. i \in 1 .. Len(s) /\ Begins(s, i) /\ r[i] = s[i]
      BY <1>3, <1>9, <3>1, Zenon DEF Begins, n
    <3>3. Whole(s, i) /\ Meaning(d, s, i) /\ (s # <<>> => s[n].left = 1)
      BY <3>2, Zenon DEF Framed, n
    <3>a. \E l \in Nat \ {0} : \E e \in i .. n : EndsAt(s, i, l, e)
      BY <3>2, <3>3, WholeEnds DEF n
    <3>b. PICK l \in Nat \ {0}, e \in i .. n : s[i].left = l /\ e = i + l - 1 /\ s[e].next = s[i].next
      BY <3>a, Zenon DEF EndsAt
    <3>4. e = i + l - 1
      BY <3>b, Zenon
    <3>5. ASSUME NEW k \in 0 .. s[i].left - 1 PROVE r[i + k] = s[i + k]
      <4>0. k \in 0 .. l - 1
        BY <3>b, Zenon
      <4>1. i + k \in 1 .. n
        BY <1>1, <3>1, <3>4, <4>0
      <4>. QED
        BY <1>3, <4>1, Zenon
    <3>6. i + s[i].left - 1 <= Len(r)
      <4>1. i + l - 1 <= Len(r)
        BY <1>1, <3>4
      <4>. QED
        BY <3>b, <4>1, Zenon
    <3>7. Whole(r, i)
      BY <1>2, <3>2, <3>3, <3>5, <3>6, WholeMoves, Zenon
    <3>8. Meaning(d, r, i)
      BY <1>2, <3>2, <3>3, <3>5, MeaningMoves, Zenon
    <3>9. CASE e < n
      <4>1. i + l \in 1 .. n /\ i + l <= n
        BY <1>1, <3>1, <3>4, <3>9
      <4>2. StartOf(s, i + l) = s[i].next
        BY <3>2, <3>b, <4>1, Zenon DEF Framed, n
      <4>3. r[i + l] = s[i + l]
        BY <1>3, <4>1, Zenon
      <4>. QED
        BY <3>b, <3>2, <3>7, <3>8, <4>2, <4>3, Zenon DEF StartOf
    <3>10. CASE e = n
      <4>1. i + l = n + 1 /\ n # 0
        BY <1>1, <3>1, <3>4, <3>10
      <4>2. StartOf(r, n + 1) = s[i].next
        BY <1>2, <1>7, <3>b, <3>10, <4>1, Zenon DEF StartOf, n
      <4>. QED
        BY <3>b, <3>2, <3>7, <3>8, <4>1, <4>2, Zenon
    <3>11. e < n \/ e = n
      BY <1>1
    <3>. QED
      BY <3>9, <3>10, <3>11
  <2>2. CASE i > n
    <3>1. i = n + 1
      <4>. SUFFICES ASSUME i # n + 1 PROVE FALSE
        OBVIOUS
      <4>. DEFINE j == i - 1 - n
      <4>1. i # 1 /\ j \in 1 .. m /\ j # m /\ n + j = i - 1
        BY <1>1, <2>0, <2>2
      <4>2. r[i - 1] = f[j] /\ r[i - 1].left = 1
        BY <1>4, <1>9, <4>1, Zenon DEF Begins
      <4>. QED
        BY <1>6, <4>1, <4>2, Zenon
    <3>2. ~(n + 1 + m <= n + m)
      BY <1>1
    <3>. QED
      BY <1>1, <1>5, <1>7, <3>1, <3>2, Zenon
  <2>3. i <= n \/ i > n
    BY <1>1, <2>0
  <2>. QED
    BY <2>1, <2>2, <2>3
<1>10. Framed(d, r) /\ r # <<>>
  <2>1. r # <<>>
    BY <1>1, <1>2
  <2>. QED
    BY <2>1, <1>8, <1>9, Zenon DEF Framed
<1>11. StartOf(r, 1) = IF s = <<>> THEN StartOf(f, 1) ELSE StartOf(s, 1)
  <2>1. n = 0 => n + 1 = 1
    OBVIOUS
  <2>2. n # 0 => 1 \in 1 .. n
    BY <1>1
  <2>. QED
    BY <1>2, <1>3, <1>7, <2>1, <2>2, Zenon DEF StartOf
<1>. QED
  BY <1>8, <1>10, <1>11, Zenon DEF r

\* What is left of a stream when its first n bytes are taken.
LEMMA Dropped ==
  ASSUME NEW S, NEW s \in Seq(S), NEW n \in Nat, n <= Len(s)
  PROVE  LET r == SubSeq(s, n + 1, Len(s)) IN
           /\ r \in Seq(S) /\ Len(r) = Len(s) - n
           /\ \A i \in 1 .. Len(r) : r[i] = s[n + i]
<1>1. SubSeq(s, n + 1, Len(s)) \in Seq(S) /\ Len(SubSeq(s, n + 1, Len(s))) = Len(s) - n
  OBVIOUS
<1>2. \A i \in 1 .. Len(s) - n : SubSeq(s, n + 1, Len(s))[i] = s[n + i]
  OBVIOUS
<1>. QED
  BY <1>1, <1>2, Zenon

\* A reader that takes the first field leaves a stream that begins with the field
\* its mark says and ends as it did.
LEMMA FirstTaken ==
  ASSUME NEW d \in BOOLEAN, NEW s \in Seq(MarkedByte), Framed(d, s), s # <<>>,
         NEW n, n = s[1].left
  PROVE  LET r == SubSeq(s, n + 1, Len(s)) IN
           /\ n \in Nat \ {0} /\ n <= Len(s) /\ Sized(s[1].at, n) /\ Meaning(d, s, 1)
           /\ r \in Seq(MarkedByte) /\ Framed(d, r)
           /\ r # <<>> => StartOf(r, 1) = s[1].next /\ r[Len(r)] = s[Len(s)]
           /\ r = <<>> => s[Len(s)].next = s[1].next
<1>1. 1 \in 1 .. Len(s) /\ Begins(s, 1)
  BY DEF Begins
<1>2. Whole(s, 1) /\ Meaning(d, s, 1) /\ Sized(s[1].at, n) /\ s[Len(s)].left = 1
  BY <1>1, Zenon DEF Framed, Whole
<1>3. \E l \in Nat \ {0} : \E e \in 1 .. Len(s) : EndsAt(s, 1, l, e)
  BY <1>1, <1>2, WholeEnds
<1>4. PICK e \in 1 .. Len(s) :
        n \in Nat \ {0} /\ e = 1 + n - 1 /\ s[e].left = 1 /\ s[e].next = s[1].next
  BY <1>3, Zenon DEF EndsAt
<1>5. n \in Nat \ {0} /\ e = 1 + n - 1
  BY <1>4, Zenon
<1>6. n = e /\ n <= Len(s)
  BY <1>5
<1>. DEFINE r == SubSeq(s, n + 1, Len(s))
            m == Len(r)
<1>7. r \in Seq(MarkedByte) /\ m = Len(s) - n
  BY <1>5, <1>6, Dropped, Zenon
<1>8. ASSUME NEW i \in 1 .. m PROVE r[i] = s[n + i]
  BY <1>5, <1>6, Dropped, Zenon
<1>. HIDE DEF r
<1>9. m \in Nat /\ (r = <<>> <=> m = 0) /\ n + m = Len(s) /\ n >= 1
  BY <1>5, <1>7
<1>. HIDE DEF m
<1>a. PICK q \in Nat \ {0} : q = n
  BY <1>5, Zenon
<1>b. PICK z \in Nat : z = Len(s)
  OBVIOUS
<1>c. m \in Nat /\ q + m = z
  BY <1>9, <1>a, <1>b, Zenon
<1>10. ASSUME NEW i \in 1 .. m, Begins(r, i)
       PROVE  /\ Whole(r, i) /\ Meaning(d, r, i)
              /\ i + r[i].left <= m => StartOf(r, i + r[i].left) = r[i].next
  <2>0. q + i \in 1 .. z /\ (i # 1 => i - 1 \in 1 .. m /\ q + (i - 1) = (q + i) - 1)
    BY <1>c
  <2>1. n + i \in 1 .. Len(s) /\ (i # 1 => i - 1 \in 1 .. m /\ n + (i - 1) = (n + i) - 1)
    BY <1>a, <1>b, <2>0, Zenon
  <2>2. Begins(s, n + i)
    <3>1. CASE i = 1
      <4>1. (n + i) - 1 = e
        BY <1>5, <3>1
      <4>. QED
        BY <1>4, <4>1, Zenon DEF Begins
    <3>2. CASE i # 1
      <4>1. r[i - 1].left = 1 /\ r[i - 1] = s[n + (i - 1)]
        BY <1>8, <1>10, <2>1, <3>2, Zenon DEF Begins
      <4>2. s[(n + i) - 1].left = 1
        BY <2>1, <3>2, <4>1, Zenon
      <4>. QED
        BY <4>2, Zenon DEF Begins
    <3>. QED
      BY <3>1, <3>2
  <2>3. r[i] = s[n + i] /\ Whole(s, n + i) /\ Meaning(d, s, n + i)
    BY <1>8, <2>1, <2>2, Zenon DEF Framed
  <2>4. \E l \in Nat \ {0} : \E f \in n + i .. Len(s) : EndsAt(s, n + i, l, f)
    BY <2>1, <2>3, WholeEnds
  <2>5. PICK l \in Nat \ {0}, f \in n + i .. Len(s) : s[n + i].left = l /\ f = n + i + l - 1
    BY <2>4, Zenon DEF EndsAt
  <2>6. f = n + i + l - 1
    BY <2>5, Zenon
  <2>7. i + l - 1 <= m
    BY <1>5, <1>9, <2>6, SMTT(30)
  <2>8. ASSUME NEW k \in 0 .. s[n + i].left - 1 PROVE r[i + k] = s[n + i + k]
    <3>1. k \in 0 .. l - 1
      BY <2>5, Zenon
    <3>2. i + k \in 1 .. m /\ q + (i + k) = q + i + k
      <4>1. PICK j \in 0 .. l - 1 : j = k
        BY <3>1, Zenon
      <4>2. i + j \in 1 .. m /\ q + (i + j) = q + i + j
        BY <1>c, <2>7
      <4>. QED
        BY <4>1, <4>2, Zenon
    <3>3. n + (i + k) = n + i + k
      BY <1>a, <3>2, Zenon
    <3>. QED
      BY <1>8, <3>2, <3>3, Zenon
  <2>9. Whole(r, i)
    BY <1>7, <2>1, <2>3, <2>5, <2>7, <2>8, WholeMoves, Zenon DEF m
  <2>10. Meaning(d, r, i)
    BY <1>7, <2>1, <2>3, <2>8, MeaningMoves, Zenon DEF m
  <2>11. ASSUME i + l <= m PROVE StartOf(r, i + l) = r[i].next
    <3>0. i + l \in 1 .. m /\ q + (i + l) = q + i + l /\ q + i + l <= z
      BY <1>c, <2>11
    <3>1. i + l \in 1 .. m /\ n + (i + l) = n + i + l /\ n + i + l <= Len(s)
      BY <1>a, <1>b, <3>0, Zenon
    <3>2. StartOf(s, n + i + l) = s[n + i].next
      BY <2>1, <2>2, <2>5, <3>1, Zenon DEF Framed
    <3>. QED
      BY <1>8, <2>3, <3>1, <3>2, Zenon DEF StartOf
  <2>. QED
    BY <2>3, <2>5, <2>9, <2>10, <2>11, Zenon
<1>11. r # <<>> => StartOf(r, 1) = s[1].next /\ r[m] = s[Len(s)]
  <2>. SUFFICES ASSUME r # <<>> PROVE StartOf(r, 1) = s[1].next /\ r[m] = s[Len(s)]
    OBVIOUS
  <2>0. m # 0
    BY <1>9, Zenon
  <2>a. 1 \in 1 .. m /\ m \in 1 .. m /\ q + 1 = 1 + q /\ 1 + q <= z
    BY <1>c, <2>0
  <2>1. 1 \in 1 .. m /\ m \in 1 .. m /\ n + 1 = 1 + n /\ 1 + n <= Len(s)
    BY <1>a, <1>b, <2>a, Zenon
  <2>2. StartOf(s, 1 + n) = s[1].next
    BY <1>1, <2>1, Zenon DEF Framed
  <2>3. r[1] = s[1 + n] /\ r[m] = s[n + m]
    BY <1>8, <2>1, Zenon
  <2>. QED
    BY <1>9, <2>2, <2>3, Zenon DEF StartOf
<1>12. r = <<>> => s[Len(s)].next = s[1].next
  <2>. SUFFICES ASSUME r = <<>> PROVE s[Len(s)].next = s[1].next
    OBVIOUS
  <2>1. Len(s) = e
    BY <1>6, <1>9
  <2>. QED
    BY <1>4, <2>1, Zenon
<1>13. Framed(d, r)
  BY <1>2, <1>10, <1>11, Zenon DEF Framed, m
<1>. QED
  BY <1>2, <1>5, <1>6, <1>7, <1>11, <1>12, <1>13, Zenon DEF r, m

-----------------------------------------------------------------------------
(* Messages                                                                *)

\* One field with its marks, and a message whose fields have them.
Mark(at, data, next) ==
  [j \in DOMAIN data |-> [v |-> data[j], at |-> at, left |-> Len(data) - j + 1, next |-> next]]

\* Fields that a writer puts down one after the other: h of them open a bridge, and
\* the rest belong to a message.
Queue(d, q, h) ==
  /\ q \in Seq(Seq(MarkedByte))
  /\ \A k \in 1 .. Len(q) :
       /\ IsField(d, q[k])
       /\ k = h \/ k = Len(q) => q[k][1].next = Idle
       /\ k # h /\ k < Len(q) => StartOf(q[k + 1], 1) = q[k][1].next

Chain(d, q) == Queue(d, q, 0) /\ q # <<>>

\* The largest int is big enough for the numbers in what opens a bridge.
LEMMA MaxIntBig == MaxInt \in Nat /\ 8 <= MaxInt /\ MaxInt <= 2147483647
BY SMT DEF MaxInt

\* Four bytes carry an int: they are bytes, and B reads the int that A wrote
\* when the hosts have the same byte order.
LEMMA Int4Bytes ==
  ASSUME NEW n \in 0 .. MaxInt
  PROVE  /\ Int4(n) \in Seq(Byte) /\ Len(Int4(n)) = 4
         /\ ~differ => Value(<<Int4(n)[1], Int4(n)[2], Int4(n)[3], Int4(n)[4]>>) = n
<1>. DEFINE a == n % 256
            b == (n \div 256) % 256
            c == (n \div 65536) % 256
            e == (n \div 16777216) % 256
<1>1. a \in 0 .. 255 /\ b \in 0 .. 255 /\ c \in 0 .. 255 /\ e \in 0 .. 255
  BY SMT
<1>2. a + (256 * b) + (65536 * c) + (16777216 * e) = n
  BY MaxIntBig, SMT
<1>3. Int4(n) = IF differ THEN <<e, c, b, a>> ELSE <<a, b, c, e>>
  BY SMT DEF Int4
<1>. HIDE DEF a, b, c, e
<1>4. Value(<<a, b, c, e>>) = n
  BY <1>1, <1>2, SMT DEF Value
<1>. QED
  <2>1. <<e, c, b, a>> \in Seq(Byte) /\ <<a, b, c, e>> \in Seq(Byte)
    BY <1>1, SMT DEF Byte
  <2>2. CASE differ
    BY <1>3, <2>1, <2>2, SMT
  <2>3. CASE ~differ
    <3>1. Int4(n) = <<a, b, c, e>>
      BY <1>3, <2>3, Zenon
    <3>2. Int4(n)[1] = a /\ Int4(n)[2] = b /\ Int4(n)[3] = c /\ Int4(n)[4] = e
      BY <3>1, SMT
    <3>3. Len(Int4(n)) = 4
      BY <3>1, SMT
    <3>. QED
      BY <1>4, <2>1, <3>1, <3>2, <3>3, Zenon
  <2>. QED
    BY <2>2, <2>3

\* A field with its marks is there as a whole.
LEMMA MarkWhole ==
  ASSUME NEW at \in Place, NEW data \in Seq(Byte), data # <<>>, Sized(at, Len(data)),
         NEW next \in Place \X Nat
  PROVE  LET f == Mark(at, data, next) IN
           /\ f \in Seq(MarkedByte) /\ f # <<>> /\ Len(f) = Len(data)
           /\ f[1].left = Len(f) /\ Whole(f, 1) /\ StartOf(f, 1) = <<at, Len(data)>>
           /\ f[1].at = at /\ f[1].next = next
           /\ \A j \in 1 .. Len(data) : f[j].v = data[j]
<1>. DEFINE f == Mark(at, data, next)
            z == Len(data)
<1>1. z \in Nat \ {0} /\ DOMAIN data = 1 .. z
  OBVIOUS
<1>2. ASSUME NEW j \in 1 .. z
      PROVE  f[j] = [v |-> data[j], at |-> at, left |-> z - j + 1, next |-> next]
  BY DEF Mark
<1>3. ASSUME NEW j \in 1 .. z
      PROVE  /\ f[j].v = data[j] /\ f[j].at = at /\ f[j].left = z - j + 1
             /\ f[j].next = next /\ f[j] \in MarkedByte
  <2>1. z - j + 1 \in Nat /\ data[j] \in Byte
    OBVIOUS
  <2>2. PICK w \in Nat, x \in Byte : w = z - j + 1 /\ x = data[j]
    BY <2>1, Zenon
  <2>3. f[j] = [v |-> x, at |-> at, left |-> w, next |-> next]
    BY <1>2, <2>2, Zenon
  <2>. HIDE DEF f, z
  <2>4. f[j].v = x /\ f[j].at = at /\ f[j].left = w /\ f[j].next = next /\ f[j] \in MarkedByte
    BY <2>3 DEF MarkedByte
  <2>. QED
    BY <2>2, <2>4, Zenon
<1>4. f \in Seq(MarkedByte) /\ Len(f) = z
  <2>1. f = [j \in 1 .. z |-> f[j]]
    BY <1>1 DEF Mark
  <2>. HIDE DEF f
  <2>2. f \in [1 .. z -> MarkedByte]
    BY <1>3, <2>1
  <2>. QED
    BY <1>1, <2>2
<1>5. 1 \in 1 .. z /\ z - 1 + 1 = z /\ z >= 1 /\ 1 + z - 1 = z
  BY <1>1
<1>6. f[1].left = z /\ f[1].at = at /\ f[1].next = next
  BY <1>3, <1>5
<1>. HIDE DEF f
<1>7. Whole(f, 1)
  <2>1. \A j \in 1 .. z : f[j].at = f[1].at /\ f[j].next = f[1].next /\ f[j].left = z - (j - 1)
    <3>1. ASSUME NEW j \in 1 .. z PROVE z - j + 1 = z - (j - 1)
      BY <1>1
    <3>. QED
      BY <1>3, <1>6, <3>1, Zenon
  <2>2. \A j \in 1 .. 1 + f[1].left - 1 :
          f[j].at = f[1].at /\ f[j].next = f[1].next /\ f[j].left = f[1].left - (j - 1)
    BY <1>5, <1>6, <2>1, Zenon
  <2>3. Sized(f[1].at, f[1].left) /\ f[1].left >= 1 /\ 1 + f[1].left - 1 <= Len(f)
    <3>1. z <= z
      BY <1>1
    <3>. QED
      BY <1>4, <1>5, <1>6, <3>1, Zenon
  <2>. QED
    BY <2>2, <2>3, Zenon DEF Whole
<1>8. f # <<>>
  BY <1>1, <1>4
<1>. QED
  BY <1>3, <1>4, <1>6, <1>7, <1>8, Zenon DEF f, z, StartOf

\* A field as it is written, whose bytes make the reader go on as next says.
Fields == [at : Place, data : Seq(Byte)]
Aims == Place \X Nat

Reads(d, at, data, next) ==
  /\ at = "request" => next = <<"port", 4>> /\ (data[1] = permanentBridge => ~d)
  /\ at = "port" => next = <<"index", 4>>
  /\ at \in {"index", "body", "data"} => next = Idle
  /\ at = "idle" =>
       /\ data[1] = clbkCmd => next = <<"type", 4>>
       /\ data[1] \in {newNode, removeNode} => next = <<"key", KeySize>>
       /\ data[1] = oldLeaderDied => next = <<"length", 4>>
       /\ data[1] \notin News \cup {clbkCmd} => next = Idle
  /\ at = "key" => next = <<"length", 4>>
  /\ at = "entries" =>
       next = Idle /\ (~d => Value(<<data[17], data[18], data[19], data[20]>>) = 0)
  /\ at \in {"type", "length"} /\ ~d =>
       LET n == Value(<<data[1], data[2], data[3], data[4]>>) IN
         IF at = "type"
         THEN n \in 0 .. 3 /\ next = <<IF n = APPENDENTRIES THEN "entries" ELSE "body", BodySize(n)>>
         ELSE next = IF n = 0 THEN Idle ELSE <<"data", n>>

Fits(d, f, next) ==
  /\ f \in Fields /\ next \in Aims
  /\ f.data # <<>> /\ Sized(f.at, Len(f.data)) /\ Meaning(d, Mark(f.at, f.data, next), 1)

\* The marks of a field say what its bytes say.
LEMMA FieldFits ==
  ASSUME NEW d \in BOOLEAN, NEW at \in Place, NEW data \in Seq(Byte), data # <<>>,
         Sized(at, Len(data)), NEW next \in Aims, Reads(d, at, data, next)
  PROVE  /\ Field(at, data) \in Fields /\ Field(at, data).at = at /\ Field(at, data).data = data
         /\ Fits(d, Field(at, data), next)
<1>. DEFINE f == Mark(at, data, next)
<1>1. /\ f[1].at = at /\ f[1].next = next
      /\ \A j \in 1 .. Len(data) : f[j].v = data[j]
  <2>1. DOMAIN data = 1 .. Len(data) /\ 1 \in DOMAIN data
    OBVIOUS
  <2>2. ASSUME NEW j \in DOMAIN data
        PROVE  f[j] = [v |-> data[j], at |-> at, left |-> Len(data) - j + 1, next |-> next]
    BY Zenon DEF Mark
  <2>. HIDE DEF f
  <2>3. ASSUME NEW j \in DOMAIN data
        PROVE  f[j].v = data[j] /\ f[j].at = at /\ f[j].next = next
    <3>1. PICK w, x : w = Len(data) - j + 1 /\ x = data[j]
      BY Zenon
    <3>2. f[j] = [v |-> x, at |-> at, left |-> w, next |-> next]
      BY <2>2, <3>1, Zenon
    <3>3. f[j].v = x /\ f[j].at = at /\ f[j].next = next
      BY <3>2
    <3>. QED
      BY <3>1, <3>3, Zenon
  <2>. QED
    BY <2>1, <2>3, Zenon
<1>. HIDE DEF f
<1>2. f[1].v = data[1]
  <2>1. 1 \in 1 .. Len(data)
    OBVIOUS
  <2>. QED
    BY <1>1, <2>1, Zenon
<1>3. at \in {"type", "length"} =>
        IntAt(f, 1) = Value(<<data[1], data[2], data[3], data[4]>>)
  <2>. SUFFICES ASSUME at \in {"type", "length"}
                PROVE  IntAt(f, 1) = Value(<<data[1], data[2], data[3], data[4]>>)
    OBVIOUS
  <2>1. Len(data) = 4
    BY DEF Sized
  <2>2. 1 \in 1 .. 4 /\ 2 \in 1 .. 4 /\ 3 \in 1 .. 4 /\ 4 \in 1 .. 4
    OBVIOUS
  <2>3. 1 + 1 = 2 /\ 1 + 2 = 3 /\ 1 + 3 = 4
    OBVIOUS
  <2>4. f[1].v = data[1] /\ f[2].v = data[2] /\ f[3].v = data[3] /\ f[4].v = data[4]
    BY <1>1, <2>1, <2>2, Zenon
  <2>. QED
    BY <2>3, <2>4, Zenon DEF IntAt
<1>4. at = "entries" => IntAt(f, 1 + 16) = Value(<<data[17], data[18], data[19], data[20]>>)
  <2>. SUFFICES ASSUME at = "entries"
                PROVE  IntAt(f, 1 + 16) = Value(<<data[17], data[18], data[19], data[20]>>)
    OBVIOUS
  <2>1. Len(data) = 24
    BY DEF Sized
  <2>2. 17 \in 1 .. 24 /\ 18 \in 1 .. 24 /\ 19 \in 1 .. 24 /\ 20 \in 1 .. 24
    OBVIOUS
  <2>3. 1 + 16 = 17 /\ 17 + 1 = 18 /\ 17 + 2 = 19 /\ 17 + 3 = 20
    OBVIOUS
  <2>4. f[17].v = data[17] /\ f[18].v = data[18] /\ f[19].v = data[19] /\ f[20].v = data[20]
    BY <1>1, <2>1, <2>2, Zenon
  <2>. QED
    BY <2>3, <2>4, Zenon DEF IntAt
<1>5. Meaning(d, f, 1)
  BY <1>1, <1>2, <1>3, <1>4 DEF Meaning, Reads
<1>6. Field(at, data) \in Fields /\ Field(at, data).at = at /\ Field(at, data).data = data
  BY DEF Field, Fields
<1>. QED
  BY <1>5, <1>6, Zenon DEF Fits, f

\* A message: the bytes of every field say which one comes next.
Message(d, m) ==
  m \in Seq(Fields) /\ Len(m) # 0 /\ \A i \in 1 .. Len(m) : Fits(d, m[i], After(m, i))

\* The fields of a message follow one another as their marks say.
LEMMA MarkedChain ==
  ASSUME NEW d \in BOOLEAN, NEW m, Message(d, m)
  PROVE  /\ Chain(d, Marked(m)) /\ Len(Marked(m)) = Len(m)
         /\ StartOf(Marked(m)[1], 1) = <<m[1].at, Len(m[1].data)>>
<1>. DEFINE q == Marked(m)
            z == Len(m)
<1>0. z \in Nat \ {0}
  BY DEF Message
<1>1. DOMAIN m = 1 .. z
  BY DEF Message
<1>2. ASSUME NEW i \in 1 .. z
      PROVE  /\ m[i].at \in Place /\ m[i].data \in Seq(Byte) /\ After(m, i) \in Aims
             /\ m[i].data # <<>> /\ Sized(m[i].at, Len(m[i].data))
             /\ Meaning(d, Mark(m[i].at, m[i].data, After(m, i)), 1)
  <2>1. Fits(d, m[i], After(m, i))
    BY Zenon DEF Message
  <2>2. m[i] \in Fields
    BY <2>1, Zenon DEF Fits
  <2>3. m[i].at \in Place /\ m[i].data \in Seq(Byte)
    BY <2>2 DEF Fields
  <2>. QED
    BY <2>1, <2>3, Zenon DEF Fits
<1>3. ASSUME NEW i \in 1 .. z
      PROVE  After(m, i) = IF i = z THEN Idle ELSE <<m[i + 1].at, Len(m[i + 1].data)>>
  BY DEF After, Idle
<1>5. ASSUME NEW i \in 1 .. z PROVE q[i] = Mark(m[i].at, m[i].data, After(m, i))
  BY <1>1 DEF Marked, Mark
<1>6. ASSUME NEW i \in 1 .. z
      PROVE  /\ q[i] \in Seq(MarkedByte) /\ IsField(d, q[i])
             /\ q[i][1].next = After(m, i) /\ StartOf(q[i], 1) = <<m[i].at, Len(m[i].data)>>
  <2>. HIDE DEF q, z
  <2>1. /\ q[i] \in Seq(MarkedByte) /\ q[i] # <<>> /\ q[i][1].left = Len(q[i]) /\ Whole(q[i], 1)
        /\ q[i][1].next = After(m, i) /\ StartOf(q[i], 1) = <<m[i].at, Len(m[i].data)>>
    BY <1>2, <1>5, MarkWhole DEF Aims
  <2>2. Meaning(d, q[i], 1)
    BY <1>2, <1>5, Zenon
  <2>. QED
    BY <2>1, <2>2, Zenon DEF IsField
<1>7. q \in Seq(Seq(MarkedByte)) /\ Len(q) = z
  <2>1. q = [i \in 1 .. z |-> q[i]]
    BY <1>1 DEF Marked
  <2>. HIDE DEF q
  <2>2. q \in [1 .. z -> Seq(MarkedByte)]
    BY <1>6, <2>1
  <2>. QED
    BY <1>0, <2>2
<1>. HIDE DEF q, z
<1>8. q # <<>>
  BY <1>0, <1>7
<1>9. ASSUME NEW k \in 1 .. z
      PROVE  /\ IsField(d, q[k])
             /\ k = 0 \/ k = z => q[k][1].next = Idle
             /\ k # 0 /\ k < z => StartOf(q[k + 1], 1) = q[k][1].next
  <2>1. k # 0 /\ (k < z => k + 1 \in 1 .. z /\ k # z)
    BY <1>0
  <2>. QED
    BY <1>3, <1>6, <2>1, Zenon
<1>10. 1 \in 1 .. z
  BY <1>0
<1>. QED
  BY <1>6, <1>7, <1>8, <1>9, <1>10, Zenon DEF Chain, Queue, q, z


\* Messages of one to four fields.
One(m, a) == m \in Seq(Fields) /\ Len(m) = 1 /\ m[1] = a
Two(m, a, b) == m \in Seq(Fields) /\ Len(m) = 2 /\ m[1] = a /\ m[2] = b
Three(m, a, b, c) == m \in Seq(Fields) /\ Len(m) = 3 /\ m[1] = a /\ m[2] = b /\ m[3] = c
Four(m, a, b, c, e) ==
  m \in Seq(Fields) /\ Len(m) = 4 /\ m[1] = a /\ m[2] = b /\ m[3] = c /\ m[4] = e

\* A tuple is the message it lists.
LEMMA Tuples ==
  ASSUME NEW a \in Fields, NEW b \in Fields, NEW c \in Fields
  PROVE  One(<<a>>, a) /\ Two(<<a>> \o <<b>>, a, b) /\ Three(<<a, b, c>>, a, b, c)
BY DEF One, Two, Three

\* One more field at the end of a message.
LEMMA Joined ==
  ASSUME NEW m \in Seq(Fields), NEW e \in Fields
  PROVE  /\ m \o <<>> = m
         /\ \A a, b : Two(m, a, b) => Three(m \o <<e>>, a, b, e)
         /\ \A a, b, c : Three(m, a, b, c) => Four(m \o <<e>>, a, b, c, e)
<1>1. /\ m \o <<e>> \in Seq(Fields) /\ Len(m \o <<e>>) = Len(m) + 1
      /\ (m \o <<e>>)[Len(m) + 1] = e
      /\ \A i \in 1 .. Len(m) : (m \o <<e>>)[i] = m[i]
  OBVIOUS
<1>2. ASSUME NEW a, NEW b, Two(m, a, b) PROVE Three(m \o <<e>>, a, b, e)
  BY <1>1, <1>2 DEF Two, Three
<1>3. ASSUME NEW a, NEW b, NEW c, Three(m, a, b, c) PROVE Four(m \o <<e>>, a, b, c, e)
  BY <1>1, <1>3 DEF Three, Four
<1>4. m \o <<>> = m
  OBVIOUS
<1>. QED
  BY <1>2, <1>3, <1>4, Zenon

\* A message of one field is a chain when the reader goes back to select after it.
LEMMA Message1 ==
  ASSUME NEW d \in BOOLEAN, NEW m, NEW a, One(m, a),
         Fits(d, a, Idle)
  PROVE  /\ Chain(d, Marked(m)) /\ Len(Marked(m)) = 1
         /\ StartOf(Marked(m)[1], 1) = <<a.at, Len(a.data)>>
<1>1. m \in Seq(Fields) /\ Len(m) = 1 /\ m[1] = a
  BY Zenon DEF One
<1>2. After(m, 1) = Idle
  BY <1>1 DEF After, Idle
<1>3. (\A i \in 1 .. 1 : i = 1) /\ 1 # 0
  OBVIOUS
<1>4. Message(d, m)
  BY <1>1, <1>2, <1>3, Zenon DEF Message
<1>. QED
  BY <1>1, <1>4, MarkedChain, Zenon

\* A message of two fields is a chain when the first is followed by the second.
LEMMA Message2 ==
  ASSUME NEW d \in BOOLEAN, NEW m, NEW a, NEW b, Two(m, a, b),
         Fits(d, a, <<b.at, Len(b.data)>>), Fits(d, b, Idle)
  PROVE  /\ Chain(d, Marked(m)) /\ Len(Marked(m)) = 2
         /\ StartOf(Marked(m)[1], 1) = <<a.at, Len(a.data)>>
<1>1. m \in Seq(Fields) /\ Len(m) = 2 /\ m[1] = a /\ m[2] = b
  BY Zenon DEF Two
<1>2. /\ After(m, 1) = <<b.at, Len(b.data)>>
      /\ After(m, 2) = Idle
  BY <1>1 DEF After, Idle
<1>3. (\A i \in 1 .. 2 : i = 1 \/ i = 2) /\ 2 # 0
  OBVIOUS
<1>4. Message(d, m)
  BY <1>1, <1>2, <1>3, Zenon DEF Message
<1>. QED
  BY <1>1, <1>4, MarkedChain, Zenon

\* The same of three fields.
LEMMA Message3 ==
  ASSUME NEW d \in BOOLEAN, NEW m, NEW a, NEW b, NEW c, Three(m, a, b, c),
         Fits(d, a, <<b.at, Len(b.data)>>), Fits(d, b, <<c.at, Len(c.data)>>), Fits(d, c, Idle)
  PROVE  /\ Chain(d, Marked(m)) /\ Len(Marked(m)) = 3
         /\ StartOf(Marked(m)[1], 1) = <<a.at, Len(a.data)>>
<1>1. m \in Seq(Fields) /\ Len(m) = 3 /\ m[1] = a /\ m[2] = b /\ m[3] = c
  BY Zenon DEF Three
<1>2. /\ After(m, 1) = <<b.at, Len(b.data)>>
      /\ After(m, 2) = <<c.at, Len(c.data)>>
      /\ After(m, 3) = Idle
  BY <1>1 DEF After, Idle
<1>3. (\A i \in 1 .. 3 : i = 1 \/ i = 2 \/ i = 3) /\ 3 # 0
  OBVIOUS
<1>4. Message(d, m)
  BY <1>1, <1>2, <1>3, Zenon DEF Message
<1>. QED
  BY <1>1, <1>4, MarkedChain, Zenon

\* The same of four fields.
LEMMA Message4 ==
  ASSUME NEW d \in BOOLEAN, NEW m, NEW a, NEW b, NEW c, NEW e, Four(m, a, b, c, e),
         Fits(d, a, <<b.at, Len(b.data)>>), Fits(d, b, <<c.at, Len(c.data)>>),
         Fits(d, c, <<e.at, Len(e.data)>>), Fits(d, e, Idle)
  PROVE  /\ Chain(d, Marked(m)) /\ Len(Marked(m)) = 4
         /\ StartOf(Marked(m)[1], 1) = <<a.at, Len(a.data)>>
<1>1. m \in Seq(Fields) /\ Len(m) = 4 /\ m[1] = a /\ m[2] = b /\ m[3] = c /\ m[4] = e
  BY Zenon DEF Four
<1>2. /\ After(m, 1) = <<b.at, Len(b.data)>>
      /\ After(m, 2) = <<c.at, Len(c.data)>>
      /\ After(m, 3) = <<e.at, Len(e.data)>>
      /\ After(m, 4) = Idle
  BY <1>1 DEF After, Idle
<1>3. (\A i \in 1 .. 4 : i = 1 \/ i = 2 \/ i = 3 \/ i = 4) /\ 4 # 0
  OBVIOUS
<1>4. Message(d, m)
  BY <1>1, <1>2, <1>3, Zenon DEF Message
<1>. QED
  BY <1>1, <1>4, MarkedChain, Zenon

\* What has four bytes is not empty.
LEMMA NonEmpty ==
  ASSUME NEW S, NEW s \in Seq(S), Len(s) = 4
  PROVE  s # <<>>
OBVIOUS

\* An element of a sequence is of its set.
LEMMA ElementOf ==
  ASSUME NEW S, NEW s \in Seq(S), NEW k \in 1 .. Len(s)
  PROVE  s[k] \in S
OBVIOUS

\* Integers one after the other are bytes, and the fifth one is read where it was
\* written.
LEMMA IntsBytes ==
  ASSUME NEW q \in Seq(0 .. MaxInt), q # <<>>
  PROVE  /\ Ints(q) \in Seq(Byte) /\ Len(Ints(q)) = 4 * Len(q) /\ Ints(q) # <<>>
         /\ Len(q) = 6 => \A j \in 1 .. 4 : Ints(q)[16 + j] = Int4(q[5])[j]
<1>. DEFINE z == 4 * Len(q)
<1>0. PICK l \in Nat \ {0} : l = Len(q)
  OBVIOUS
<1>1. z = 4 * l /\ z \in Nat \ {0}
  BY <1>0
<1>2. ASSUME NEW i \in 1 .. z
      PROVE  Int4(q[(i + 3) \div 4])[((i + 3) % 4) + 1] \in Byte
  <2>0. i \in 1 .. 4 * l
    BY <1>1, Zenon
  <2>1. (i + 3) \div 4 \in 1 .. l /\ ((i + 3) % 4) + 1 \in 1 .. 4
    BY <2>0
  <2>2. PICK k \in 1 .. l, j \in 1 .. 4 : k = (i + 3) \div 4 /\ j = ((i + 3) % 4) + 1
    BY <2>1, Zenon
  <2>3. q[k] \in 0 .. MaxInt
    BY <1>0, ElementOf, Zenon
  <2>4. Int4(q[k]) \in Seq(Byte) /\ Len(Int4(q[k])) = 4
    BY <2>3, Int4Bytes, Zenon
  <2>5. Int4(q[k])[j] \in Byte
    BY <2>4
  <2>. QED
    BY <2>2, <2>5, Zenon
<1>3. Ints(q) = [i \in 1 .. z |-> Int4(q[(i + 3) \div 4])[((i + 3) % 4) + 1]]
  BY DEF Ints
<1>. HIDE DEF z
<1>4. Ints(q) \in [1 .. z -> Byte]
  BY <1>2, <1>3
<1>5. Ints(q) \in Seq(Byte) /\ Len(Ints(q)) = z /\ Ints(q) # <<>>
  BY <1>1, <1>4
<1>6. ASSUME Len(q) = 6, NEW j \in 1 .. 4 PROVE Ints(q)[16 + j] = Int4(q[5])[j]
  <2>1. 16 + j \in 1 .. z
    BY <1>6 DEF z
  <2>2. ((16 + j) + 3) \div 4 = 5 /\ (((16 + j) + 3) % 4) + 1 = j
    OBVIOUS
  <2>. QED
    BY <1>3, <2>1, <2>2
<1>. QED
  BY <1>5, <1>6, Zenon DEF z

\* The three fields that open a bridge.
LEMMA OpeningMessage ==
  ASSUME differ \in BOOLEAN
  PROVE  /\ Chain(differ, Opening) /\ Len(Opening) = 3
         /\ StartOf(Opening[1], 1) = <<"request", 4>>
<1>. DEFINE a == Field("request", Int4(permanentBridge))
            b == Field("port", Int4(Port))
            c == Field("index", Int4(0))
<1>1. 0 \in 0 .. MaxInt /\ permanentBridge \in 0 .. MaxInt /\ Port \in 0 .. MaxInt
  BY MaxIntBig DEF permanentBridge, Port
<1>2. ASSUME NEW n \in 0 .. MaxInt, NEW at \in {"request", "port", "index"}
      PROVE  /\ Int4(n) \in Seq(Byte) /\ Len(Int4(n)) = 4 /\ Int4(n) # <<>>
             /\ Sized(at, Len(Int4(n))) /\ at \in Place
  <2>1. Int4(n) \in Seq(Byte) /\ Len(Int4(n)) = 4
    BY Int4Bytes, Zenon
  <2>. QED
    BY <2>1 DEF Sized, Place
<1>3. Int4(permanentBridge)[1] = permanentBridge => ~differ
  BY SMT DEF Int4, permanentBridge
<1>4. <<"port", 4>> \in Aims /\ <<"index", 4>> \in Aims /\ Idle \in Aims
  BY DEF Place, Idle, Aims
<1>5. /\ a \in Fields /\ a.at = "request" /\ a.data = Int4(permanentBridge)
      /\ Fits(differ, a, <<"port", 4>>)
  <2>1. Reads(differ, "request", Int4(permanentBridge), <<"port", 4>>)
    BY <1>3 DEF Reads
  <2>. QED
    BY <1>1, <1>2, <1>4, <2>1, FieldFits
<1>6. b \in Fields /\ b.at = "port" /\ b.data = Int4(Port) /\ Fits(differ, b, <<"index", 4>>)
  <2>1. Reads(differ, "port", Int4(Port), <<"index", 4>>)
    BY DEF Reads
  <2>. QED
    BY <1>1, <1>2, <1>4, <2>1, FieldFits
<1>7. c \in Fields /\ c.at = "index" /\ c.data = Int4(0) /\ Fits(differ, c, Idle)
  <2>1. Reads(differ, "index", Int4(0), Idle)
    BY DEF Reads
  <2>. QED
    BY <1>1, <1>2, <1>4, <2>1, FieldFits
<1>8. Opening = Marked(<<a, b, c>>)
  BY Zenon DEF Opening
<1>9. Len(Int4(permanentBridge)) = 4 /\ Len(Int4(Port)) = 4 /\ Len(Int4(0)) = 4
  BY <1>1, <1>2, Zenon
<1>. HIDE DEF a, b, c
<1>. QED
  <2>1. Fits(differ, a, <<b.at, Len(b.data)>>) /\ Fits(differ, b, <<c.at, Len(c.data)>>)
    BY <1>5, <1>6, <1>7, <1>9, Zenon
  <2>2. PICK m : m = <<a, b, c>> /\ Three(m, a, b, c)
    BY <1>5, <1>6, <1>7, Tuples, Zenon
  <2>3. /\ Chain(differ, Marked(m)) /\ Len(Marked(m)) = 3
        /\ StartOf(Marked(m)[1], 1) = <<a.at, Len(a.data)>>
    BY <1>7, <2>1, <2>2, Message3, Zenon
  <2>. QED
    BY <1>5, <1>8, <1>9, <2>2, <2>3, Zenon

\* A request of one byte.
LEMMA ByteFits ==
  ASSUME differ \in BOOLEAN, NEW b \in Byte, NEW next \in Aims,
         Reads(differ, "idle", <<b>>, next)
  PROVE  LET f == Field("idle", <<b>>) IN
           f \in Fields /\ f.at = "idle" /\ Len(f.data) = 1 /\ Fits(differ, f, next)
<1>1. <<b>> \in Seq(Byte) /\ <<b>> # <<>> /\ Len(<<b>>) = 1
  OBVIOUS
<1>2. Sized("idle", Len(<<b>>)) /\ "idle" \in Place
  BY <1>1 DEF Sized, Place
<1>3. PICK x : x = <<b>>
  OBVIOUS
<1>4. x \in Seq(Byte) /\ x # <<>> /\ Sized("idle", Len(x)) /\ Reads(differ, "idle", x, next)
  BY <1>1, <1>2, <1>3, Zenon
<1>5. /\ Field("idle", x) \in Fields /\ Field("idle", x).at = "idle"
      /\ Field("idle", x).data = x /\ Fits(differ, Field("idle", x), next)
  <2>1. "idle" \in Place
    BY <1>2, Zenon
  <2>. QED
    BY <1>4, <2>1, FieldFits
<1>. QED
  BY <1>1, <1>3, <1>5, Zenon

\* A message of one byte that has no more fields.
LEMMA ByteMessage ==
  ASSUME NEW b \in Byte \ (News \cup {clbkCmd}), differ \in BOOLEAN
  PROVE  LET q == Marked(<<Field("idle", <<b>>)>>) IN Chain(differ, q) /\ StartOf(q[1], 1) = Idle
<1>1. Reads(differ, "idle", <<b>>, Idle) /\ Idle \in Aims
  BY DEF Reads, News, clbkCmd, newNode, removeNode, oldLeaderDied, Idle, Place, Aims
<1>. DEFINE f == Field("idle", <<b>>)
<1>2. f \in Fields /\ f.at = "idle" /\ Len(f.data) = 1 /\ Fits(differ, f, Idle)
  BY <1>1, ByteFits
<1>. HIDE DEF f
<1>3. PICK m : m = <<f>> /\ One(m, f)
  BY <1>2, Tuples, Zenon
<1>4. Chain(differ, Marked(m)) /\ StartOf(Marked(m)[1], 1) = <<f.at, Len(f.data)>>
  BY <1>2, <1>3, Message1, Zenon
<1>. QED
  BY <1>2, <1>3, <1>4, Zenon DEF f, Idle

\* The messages of the library: the type tells the reader the size of the rest.
LEMMA ClbkMessage ==
  ASSUME differ \in BOOLEAN, NEW type \in 0 .. 3,
         NEW ints \in Seq(0 .. MaxInt), ints # <<>>, 4 * Len(ints) = BodySize(type),
         NEW place, place = IF type = APPENDENTRIES THEN "entries" ELSE "body",
         type = APPENDENTRIES => Len(ints) = 6 /\ ints[5] = 0
  PROVE  LET q == Marked(Clbk(type, place, ints)) IN
           Chain(differ, q) /\ StartOf(q[1], 1) = Idle
<1>. DEFINE a == Field("idle", <<clbkCmd>>)
            b == Field("type", Int4(type))
            c == Field(place, Ints(ints))
            n == BodySize(type)
<1>0. type \in 0 .. MaxInt /\ 0 \in 0 .. MaxInt /\ clbkCmd \in Byte
  BY MaxIntBig DEF clbkCmd, Byte
<1>1. n \in Nat \ {0} /\ (type = APPENDENTRIES => n = 24)
  BY DEF BodySize, REQUESTVOTE, REQUESTVOTE_RESPONSE, APPENDENTRIES, APPENDENTRIES_RESPONSE
<1>2. /\ Int4(type) \in Seq(Byte) /\ Len(Int4(type)) = 4
      /\ ~differ => Value(<<Int4(type)[1], Int4(type)[2], Int4(type)[3], Int4(type)[4]>>) = type
  BY <1>0, Int4Bytes, Zenon
<1>3. Ints(ints) \in Seq(Byte) /\ Ints(ints) # <<>> /\ Len(Ints(ints)) = n
  BY IntsBytes, Zenon
<1>. HIDE DEF n
<1>4. /\ "type" \in Place /\ place \in Place /\ <<"type", 4>> \in Aims
      /\ <<place, n>> \in Aims /\ Idle \in Aims
  BY <1>1 DEF Place, Idle, Aims
<1>5. a \in Fields /\ a.at = "idle" /\ Len(a.data) = 1 /\ Fits(differ, a, <<"type", 4>>)
  <2>1. Reads(differ, "idle", <<clbkCmd>>, <<"type", 4>>)
    BY DEF Reads, clbkCmd, newNode, removeNode, oldLeaderDied
  <2>. QED
    BY <1>0, <1>4, <2>1, ByteFits
<1>6. b \in Fields /\ b.at = "type" /\ b.data = Int4(type) /\ Fits(differ, b, <<place, n>>)
  <2>1. Reads(differ, "type", Int4(type), <<place, n>>)
    BY <1>2 DEF Reads, n
  <2>2. Int4(type) # <<>> /\ Sized("type", Len(Int4(type)))
    <3>1. Int4(type) \in Seq(Byte) /\ Len(Int4(type)) = 4
      BY <1>2, Zenon
    <3>. QED
      BY <3>1 DEF Sized
  <2>. QED
    BY <1>2, <1>4, <2>1, <2>2, FieldFits, Zenon
<1>7. c \in Fields /\ c.at = place /\ c.data = Ints(ints) /\ Fits(differ, c, Idle)
  <2>1. Reads(differ, place, Ints(ints), Idle)
    <3>1. CASE type # APPENDENTRIES
      BY <3>1 DEF Reads
    <3>2. CASE type = APPENDENTRIES
      <4>1. \A j \in 1 .. 4 : Ints(ints)[16 + j] = Int4(0)[j]
        BY <3>2, IntsBytes, Zenon
      <4>2. ~differ => Value(<<Int4(0)[1], Int4(0)[2], Int4(0)[3], Int4(0)[4]>>) = 0
        BY <1>0, Int4Bytes, Zenon
      <4>3. /\ 1 \in 1 .. 4 /\ 2 \in 1 .. 4 /\ 3 \in 1 .. 4 /\ 4 \in 1 .. 4
            /\ 16 + 1 = 17 /\ 16 + 2 = 18 /\ 16 + 3 = 19 /\ 16 + 4 = 20
        OBVIOUS
      <4>4. /\ Ints(ints)[17] = Int4(0)[1] /\ Ints(ints)[18] = Int4(0)[2]
            /\ Ints(ints)[19] = Int4(0)[3] /\ Ints(ints)[20] = Int4(0)[4]
        BY <4>1, <4>3
      <4>5. ~differ => Value(<<Ints(ints)[17], Ints(ints)[18], Ints(ints)[19], Ints(ints)[20]>>) = 0
        BY <4>2, <4>4, Zenon
      <4>. QED
        BY <3>2, <4>5 DEF Reads
    <3>. QED
      BY <3>1, <3>2
  <2>2. Sized(place, Len(Ints(ints)))
    BY <1>1, <1>3 DEF Sized
  <2>. QED
    BY <1>3, <1>4, <2>1, <2>2, FieldFits
<1>8. Clbk(type, place, ints) = <<a, b, c>>
  BY Zenon DEF Clbk
<1>. HIDE DEF a, b, c
<1>9. Fits(differ, a, <<b.at, Len(b.data)>>) /\ Fits(differ, b, <<c.at, Len(c.data)>>)
  BY <1>2, <1>3, <1>5, <1>6, <1>7, Zenon
<1>10. PICK m : m = <<a, b, c>> /\ Three(m, a, b, c)
  BY <1>5, <1>6, <1>7, Tuples, Zenon
<1>11. Chain(differ, Marked(m)) /\ StartOf(Marked(m)[1], 1) = <<a.at, Len(a.data)>>
  BY <1>7, <1>9, <1>10, Message3, Zenon
<1>. QED
  BY <1>5, <1>8, <1>10, <1>11, Zenon DEF Idle

\* A key is KeySize bytes.
LEMMA KeyBytes == Key \in Seq(Byte) /\ Len(Key) = KeySize /\ Key # <<>>
<1>1. 8 \in 0 .. MaxInt
  BY MaxIntBig
<1>2. Int4(8) \in Seq(Byte) /\ Len(Int4(8)) = 4
  BY <1>1, Int4Bytes, Zenon
<1>3. \A i \in 1 .. 4 : Int4(8)[i] \in Byte
  BY <1>2
<1>4. Key \in [1 .. KeySize -> Byte]
  BY <1>3 DEF Key, KeySize, Byte
<1>5. KeySize \in Nat \ {0}
  BY DEF KeySize
<1>. QED
  BY <1>4, <1>5

\* News of nodes: the request tells the reader whether a key comes, and the
\* length how many bytes of data.
LEMMA NewsMessage ==
  ASSUME differ \in BOOLEAN, NEW r \in News, NEW extra \in Seq(Byte), Len(extra) <= MaxInt
  PROVE  /\ r \in {newNode, removeNode} =>
              LET q == Marked(Information(r, <<Field("key", Key)>>, extra)) IN
                Chain(differ, q) /\ StartOf(q[1], 1) = Idle
         /\ r \notin {newNode, removeNode} =>
              LET q == Marked(Information(r, <<>>, extra)) IN
                Chain(differ, q) /\ StartOf(q[1], 1) = Idle
<1>1. PICK n \in Nat : n = Len(extra) /\ n \in 0 .. MaxInt /\ (n = 0 <=> extra = <<>>)
  BY MaxIntBig
<1>. DEFINE a == Field("idle", <<r>>)
            k == Field("key", Key)
            l == Field("length", Int4(n))
            e == Field("data", extra)
<1>2. /\ Int4(n) \in Seq(Byte) /\ Len(Int4(n)) = 4
      /\ ~differ => Value(<<Int4(n)[1], Int4(n)[2], Int4(n)[3], Int4(n)[4]>>) = n
  BY <1>1, Int4Bytes, Zenon
<1>3. /\ "length" \in Place /\ "data" \in Place /\ "key" \in Place /\ Idle \in Aims
      /\ <<"length", 4>> \in Aims /\ <<"key", KeySize>> \in Aims
      /\ <<"data", n>> \in Aims
  BY <1>1 DEF Place, Idle, KeySize, Aims
<1>4. /\ a \in Fields /\ a.at = "idle" /\ Len(a.data) = 1
      /\ r \in {newNode, removeNode} => Fits(differ, a, <<"key", KeySize>>)
      /\ r \notin {newNode, removeNode} => Fits(differ, a, <<"length", 4>>)
  <2>1. r \in Byte
    BY DEF News, Byte, newNode, removeNode, oldLeaderDied, toNewNodeAddPartitions
  <2>2. CASE r \in {newNode, removeNode}
    <3>1. Reads(differ, "idle", <<r>>, <<"key", KeySize>>)
      BY <2>2 DEF Reads, News, clbkCmd, newNode, removeNode, oldLeaderDied
    <3>. QED
      BY <1>3, <2>1, <2>2, <3>1, ByteFits, Zenon
  <2>3. CASE r \notin {newNode, removeNode}
    <3>1. Reads(differ, "idle", <<r>>, <<"length", 4>>)
      BY <2>3 DEF Reads, News, clbkCmd, oldLeaderDied, toNewNodeAddPartitions
    <3>. QED
      BY <1>3, <2>1, <2>3, <3>1, ByteFits, Zenon
  <2>. QED
    BY <2>2, <2>3
<1>5. k \in Fields /\ k.at = "key" /\ k.data = Key /\ Fits(differ, k, <<"length", 4>>)
  <2>1. Reads(differ, "key", Key, <<"length", 4>>)
    BY DEF Reads
  <2>2. Sized("key", Len(Key))
    BY KeyBytes DEF Sized
  <2>. QED
    BY <1>3, <2>1, <2>2, KeyBytes, FieldFits
<1>6. /\ l \in Fields /\ l.at = "length" /\ l.data = Int4(n)
      /\ Fits(differ, l, IF n = 0 THEN Idle ELSE <<"data", n>>)
  <2>. DEFINE next == IF n = 0 THEN Idle ELSE <<"data", n>>
  <2>1. Reads(differ, "length", Int4(n), next)
    BY <1>2 DEF Reads
  <2>2. Int4(n) # <<>> /\ Sized("length", Len(Int4(n)))
    <3>1. PICK x : x = Int4(n) /\ x \in Seq(Byte) /\ Len(x) = 4
      BY <1>2, Zenon
    <3>2. Sized("length", 4)
      BY DEF Sized
    <3>3. x # <<>>
      BY <3>1, NonEmpty, Zenon
    <3>. QED
      BY <3>1, <3>2, <3>3, Zenon
  <2>3. next \in Aims
    BY <1>3, Zenon
  <2>. HIDE DEF next
  <2>4. l \in Fields /\ l.at = "length" /\ l.data = Int4(n) /\ Fits(differ, l, next)
    BY <1>2, <1>3, <2>1, <2>2, <2>3, FieldFits, Zenon
  <2>. QED
    BY <2>4, Zenon DEF next
<1>7. extra # <<>> => e \in Fields /\ e.at = "data" /\ e.data = extra /\ Fits(differ, e, Idle)
  <2>1. Reads(differ, "data", extra, Idle) /\ Sized("data", Len(extra))
    BY DEF Reads, Sized
  <2>. QED
    BY <1>3, <2>1, FieldFits, Zenon
<1>. HIDE DEF a, k, l, e
<1>8. /\ Information(r, <<k>>, extra) =
           <<a>> \o <<k>> \o <<l>> \o (IF extra = <<>> THEN <<>> ELSE <<e>>)
      /\ Information(r, <<>>, extra) =
           <<a>> \o <<>> \o <<l>> \o (IF extra = <<>> THEN <<>> ELSE <<e>>)
  BY <1>1, Zenon DEF Information, a, l, e
<1>9. Len(Int4(n)) = 4 /\ Len(Key) = KeySize
  BY <1>2, KeyBytes, Zenon
<1>10. /\ Fits(differ, k, <<l.at, Len(l.data)>>)
       /\ r \in {newNode, removeNode} => Fits(differ, a, <<k.at, Len(k.data)>>)
       /\ r \notin {newNode, removeNode} => Fits(differ, a, <<l.at, Len(l.data)>>)
       /\ extra = <<>> => Fits(differ, l, Idle)
       /\ extra # <<>> => Fits(differ, l, <<e.at, Len(e.data)>>)
  BY <1>1, <1>4, <1>5, <1>6, <1>7, <1>9, Zenon
<1>11. <<a.at, Len(a.data)>> = Idle
  BY <1>4, Zenon DEF Idle
<1>12. ASSUME r \in {newNode, removeNode}
       PROVE  /\ Chain(differ, Marked(Information(r, <<k>>, extra)))
              /\ StartOf(Marked(Information(r, <<k>>, extra))[1], 1) = Idle
  <2>1. PICK p : p = <<a>> \o <<k>> /\ Two(p, a, k)
    BY <1>4, <1>5, Tuples, Zenon
  <2>2. PICK q : q = p \o <<l>> /\ Three(q, a, k, l)
    BY <1>6, <2>1, Joined, Zenon DEF Two
  <2>3. q \in Seq(Fields)
    BY <2>2, Zenon DEF Three
  <2>4. CASE extra = <<>>
    <3>1. Information(r, <<k>>, extra) = q
      BY <1>6, <1>8, <2>1, <2>2, <2>3, <2>4, Joined, Zenon
    <3>. QED
      BY <1>10, <1>11, <1>12, <2>2, <2>4, <3>1, Message3, Zenon
  <2>5. CASE extra # <<>>
    <3>1. PICK m : m = q \o <<e>> /\ Four(m, a, k, l, e)
      BY <1>7, <2>2, <2>3, <2>5, Joined, Zenon
    <3>2. Information(r, <<k>>, extra) = m
      BY <1>8, <2>1, <2>2, <2>5, <3>1, Zenon
    <3>. QED
      BY <1>7, <1>10, <1>11, <1>12, <2>5, <3>1, <3>2, Message4, Zenon
  <2>. QED
    BY <2>4, <2>5
<1>13. ASSUME r \notin {newNode, removeNode}
       PROVE  /\ Chain(differ, Marked(Information(r, <<>>, extra)))
              /\ StartOf(Marked(Information(r, <<>>, extra))[1], 1) = Idle
  <2>1. <<a>> \o <<>> = <<a>>
    BY <1>4
  <2>2. PICK q : q = <<a>> \o <<l>> /\ Two(q, a, l)
    BY <1>4, <1>6, Tuples, Zenon
  <2>3. q \in Seq(Fields)
    BY <2>2, Zenon DEF Two
  <2>4. CASE extra = <<>>
    <3>1. Information(r, <<>>, extra) = q
      BY <1>6, <1>8, <2>1, <2>2, <2>3, <2>4, Joined, Zenon
    <3>. QED
      BY <1>10, <1>11, <1>13, <2>2, <2>4, <3>1, Message2, Zenon
  <2>5. CASE extra # <<>>
    <3>1. PICK m : m = q \o <<e>> /\ Three(m, a, l, e)
      BY <1>7, <2>2, <2>3, <2>5, Joined, Zenon
    <3>2. Information(r, <<>>, extra) = m
      BY <1>8, <2>1, <2>2, <2>5, <3>1, Zenon
    <3>. QED
      BY <1>7, <1>10, <1>11, <1>13, <2>5, <3>1, <3>2, Message3, Zenon
  <2>. QED
    BY <2>4, <2>5
<1>. QED
  BY <1>12, <1>13, Zenon DEF k

\* Whatever a thread sends begins between messages, and its fields follow one
\* another as their marks say.
LEMMA SendsChain ==
  ASSUME differ \in BOOLEAN, NEW t \in Thread, NEW m \in Sends(t)
  PROVE  Chain(differ, Marked(m)) /\ StartOf(Marked(m)[1], 1) = Idle
<1>1. 0 \in 0 .. MaxInt /\ 1 \in 0 .. MaxInt
  BY MaxIntBig
<1>2. ASSUME NEW n \in Terms
      PROVE  /\ Chain(differ, Marked(requestvote(n)))
             /\ Chain(differ, Marked(requestvote_response(n)))
             /\ Chain(differ, Marked(appendentries(n)))
             /\ Chain(differ, Marked(appendentries_response(n)))
             /\ StartOf(Marked(requestvote(n))[1], 1) = Idle
             /\ StartOf(Marked(requestvote_response(n))[1], 1) = Idle
             /\ StartOf(Marked(appendentries(n))[1], 1) = Idle
             /\ StartOf(Marked(appendentries_response(n))[1], 1) = Idle
  <2>0. n \in 0 .. MaxInt
    BY WireAssumption
  <2>1. Chain(differ, Marked(requestvote(n))) /\ StartOf(Marked(requestvote(n))[1], 1) = Idle
    <3>1. <<n, 0, 1, 0>> \in Seq(0 .. MaxInt) /\ <<n, 0, 1, 0>> # <<>>
      BY <1>1, <2>0
    <3>2. 4 * Len(<<n, 0, 1, 0>>) = BodySize(REQUESTVOTE)
      BY DEF BodySize, REQUESTVOTE, REQUESTVOTE_RESPONSE, APPENDENTRIES, APPENDENTRIES_RESPONSE
    <3>3. REQUESTVOTE \in 0 .. 3 /\ REQUESTVOTE # APPENDENTRIES
      BY DEF REQUESTVOTE, APPENDENTRIES
    <3>. QED
      BY <3>1, <3>2, <3>3, ClbkMessage, Zenon DEF requestvote
  <2>2. /\ Chain(differ, Marked(requestvote_response(n)))
        /\ StartOf(Marked(requestvote_response(n))[1], 1) = Idle
    <3>1. <<n, 1>> \in Seq(0 .. MaxInt) /\ <<n, 1>> # <<>>
      BY <1>1, <2>0
    <3>2. 4 * Len(<<n, 1>>) = BodySize(REQUESTVOTE_RESPONSE)
      BY DEF BodySize, REQUESTVOTE, REQUESTVOTE_RESPONSE, APPENDENTRIES, APPENDENTRIES_RESPONSE
    <3>3. REQUESTVOTE_RESPONSE \in 0 .. 3 /\ REQUESTVOTE_RESPONSE # APPENDENTRIES
      BY DEF REQUESTVOTE_RESPONSE, APPENDENTRIES
    <3>. QED
      BY <3>1, <3>2, <3>3, ClbkMessage, Zenon DEF requestvote_response
  <2>3. Chain(differ, Marked(appendentries(n))) /\ StartOf(Marked(appendentries(n))[1], 1) = Idle
    <3>1. /\ <<n, 0, 1, 0, 0, 0>> \in Seq(0 .. MaxInt) /\ <<n, 0, 1, 0, 0, 0>> # <<>>
          /\ Len(<<n, 0, 1, 0, 0, 0>>) = 6 /\ <<n, 0, 1, 0, 0, 0>>[5] = 0
      BY <1>1, <2>0
    <3>2. 4 * Len(<<n, 0, 1, 0, 0, 0>>) = BodySize(APPENDENTRIES)
      BY DEF BodySize, REQUESTVOTE, REQUESTVOTE_RESPONSE, APPENDENTRIES, APPENDENTRIES_RESPONSE
    <3>3. APPENDENTRIES \in 0 .. 3
      BY DEF APPENDENTRIES
    <3>. QED
      BY <3>1, <3>2, <3>3, ClbkMessage, Zenon DEF appendentries
  <2>4. /\ Chain(differ, Marked(appendentries_response(n)))
        /\ StartOf(Marked(appendentries_response(n))[1], 1) = Idle
    <3>1. <<n, 1, 1, 0>> \in Seq(0 .. MaxInt) /\ <<n, 1, 1, 0>> # <<>>
      BY <1>1, <2>0
    <3>2. 4 * Len(<<n, 1, 1, 0>>) = BodySize(APPENDENTRIES_RESPONSE)
      BY DEF BodySize, REQUESTVOTE, REQUESTVOTE_RESPONSE, APPENDENTRIES, APPENDENTRIES_RESPONSE
    <3>3. APPENDENTRIES_RESPONSE \in 0 .. 3 /\ APPENDENTRIES_RESPONSE # APPENDENTRIES
      BY DEF APPENDENTRIES_RESPONSE, APPENDENTRIES
    <3>. QED
      BY <3>1, <3>2, <3>3, ClbkMessage, Zenon DEF appendentries_response
  <2>. QED
    BY <2>1, <2>2, <2>3, <2>4
<1>3. /\ Chain(differ, Marked(<<Field("idle", <<ok>>)>>))
      /\ StartOf(Marked(<<Field("idle", <<ok>>)>>)[1], 1) = Idle
  <2>1. ok \in Byte \ (News \cup {clbkCmd})
    BY DEF Byte, News, clbkCmd, ok, newNode, removeNode, oldLeaderDied, toNewNodeAddPartitions
  <2>. QED
    BY <2>1, ByteMessage, Zenon
<1>4. ASSUME NEW r \in {newNode, removeNode}
      PROVE  /\ Chain(differ, Marked(Information(r, <<Field("key", Key)>>, Extra[r])))
             /\ StartOf(Marked(Information(r, <<Field("key", Key)>>, Extra[r]))[1], 1) = Idle
  <2>1. r \in News
    BY Zenon DEF News
  <2>. QED
    BY <2>1, NewsMessage, WireAssumption, Zenon
<1>5. ASSUME NEW r \in {oldLeaderDied, toNewNodeAddPartitions}
      PROVE  /\ Chain(differ, Marked(Information(r, <<>>, Extra[r])))
             /\ StartOf(Marked(Information(r, <<>>, Extra[r]))[1], 1) = Idle
  <2>1. r \in News /\ r \notin {newNode, removeNode}
    BY DEF News, newNode, removeNode, oldLeaderDied, toNewNodeAddPartitions
  <2>. QED
    BY <2>1, NewsMessage, WireAssumption, Zenon
<1>6. CASE t = "periodic" /\ ~greeted
  <2>1. m = <<Field("idle", <<ok>>)>>
    BY <1>6 DEF Sends
  <2>. QED
    BY <1>3, <2>1, Zenon
<1>7. CASE t = "periodic" /\ greeted
  <2>1. \E n \in Terms : m = requestvote(n) \/ m = appendentries(n)
    BY <1>7 DEF Sends
  <2>. QED
    BY <1>2, <2>1, Zenon
<1>8. CASE t = "receiver"
  <2>1. \E n \in Terms : m = requestvote_response(n) \/ m = appendentries_response(n)
    BY <1>8 DEF Sends
  <2>. QED
    BY <1>2, <2>1, Zenon
<1>9. CASE t = "worker"
  <2>1. \/ m = <<Field("idle", <<ok>>)>>
        \/ \E r \in {newNode, removeNode} : m = Information(r, <<Field("key", Key)>>, Extra[r])
        \/ \E r \in {oldLeaderDied, toNewNodeAddPartitions} : m = Information(r, <<>>, Extra[r])
    BY <1>9 DEF Sends
  <2>. QED
    BY <1>3, <1>4, <1>5, <2>1, Zenon
<1>. QED
  BY <1>6, <1>7, <1>8, <1>9, Zenon DEF Thread
-----------------------------------------------------------------------------
(* The reader                                                              *)

\* IS_ENDIAN_DIFFER_AND_REQUEST: the outer bytes stay where they are when the
\* request is swapped, so that no request of a host of the other byte order is
\* taken for the opening of a bridge.
LEMMA RequestRead ==
  ASSUME NEW b \in [1 .. 4 -> Byte], Request(b) = permanentBridge
  PROVE  ~EndianDiffers(b) /\ b[1] = permanentBridge
<1>1. b[1] \in 0 .. 255 /\ b[2] \in 0 .. 255 /\ b[3] \in 0 .. 255 /\ b[4] \in 0 .. 255
  BY DEF Byte
<1>2. PICK w \in 0 .. 255, x \in 0 .. 255, y \in 0 .. 255, z \in 0 .. 255 :
        w = b[1] /\ x = b[2] /\ y = b[3] /\ z = b[4]
  BY <1>1, Zenon
<1>3. Value(b) = w + 256 * x + 65536 * y + 16777216 * z
  BY <1>2, SMT DEF Value
<1>4. Value(SWAP4BYTES(b)) = w + 256 * y + 65536 * x + 16777216 * z
  BY <1>2, SMT DEF Value, SWAP4BYTES
<1>5. Value(b) = permanentBridge \/ Value(SWAP4BYTES(b)) = permanentBridge
  BY DEF Request
<1>6. w = 2 /\ x = 0 /\ y = 0 /\ z = 0
  BY <1>3, <1>4, <1>5, SMT DEF permanentBridge
<1>. QED
  BY <1>2, <1>3, <1>6, SMT DEF EndianDiffers, MAX_REQUEST_NUMBER_PRVT, permanentBridge

-----------------------------------------------------------------------------
(* The inductive invariant                                                 *)

\* A thread that is not between messages has something to write, and has the mutex
\* unless it is the periodic thread with its first ok.
ThreadInv(t) ==
  /\ Queue(differ, todo[t], shake[t])
  /\ pc[t] = "idle" => todo[t] = <<>> /\ shake[t] = 0 /\ went[t] = 0
  /\ pc[t] # "idle" => shake[t] < Len(todo[t]) /\ (mutex = t \/ t = "periodic")
  /\ pc[t] # "write" => shake[t] = 0
  /\ pc[t] # "idle" /\ went[t] = 0 => StartOf(todo[t][shake[t] + 1], 1) = Idle
  /\ went[t] # 0 /\ (pc[t] # "write" \/ shake[t] > 0) => went[t] # sock

\* B still reads from connection c, and nothing has gone wrong on it.
Live(c) == c \notin bclosed \/ rfd = c
Unbroken(c) == broken[c] = {} /\ Live(c)

\* The field that B will take from c next.
Expected(c) ==
  IF acc[c] \in {"port", "index"} THEN <<acc[c], 4>>
  ELSE IF acc[c] = "bridge" THEN IF rfd = c THEN <<pcR, need>> ELSE Idle
  ELSE <<"request", 4>>

\* The field that will be wanted when everything on c is read.
End(c) == IF stream[c] = <<>> THEN Expected(c) ELSE stream[c][Len(stream[c])].next

Opened(c) == acc[c] \in {"port", "index", "bridge"}

InOrder(c) ==
  /\ Framed(differ, stream[c])
  /\ stream[c] # <<>> => StartOf(stream[c], 1) = Expected(c)
  /\ Opened(c) => ~differ

\* The thread has begun something on the connection that A holds.
Busy(t) == pc[t] = "endian" \/ shake[t] > 0 \/ went[t] = sock

Continues(t) ==
  End(sock) = IF pc[t] = "endian" THEN <<"request", 4>> ELSE StartOf(todo[t][1], 1)

\* What is on that connection ends where its one writer goes on, or between
\* messages when there is none.
WriterInv ==
  sock # 0 /\ Unbroken(sock) =>
    /\ \A t \in Thread : Busy(t) /\ (\A u \in Thread \ {t} : ~Busy(u)) => Continues(t)
    /\ (\A t \in Thread : ~Busy(t)) => End(sock) = Idle

\* The sockets of B.
Ends ==
  /\ \A c \in Conn :
       /\ acc[c] = "none" <=> c > conns
       /\ acc[c] = "none" => stream[c] = <<>>
       /\ acc[c] # "swapPort"
       /\ c \in bclosed => acc[c] \in {"bridge", "closed"}
       /\ acc[c] = "closed" => c \in bclosed
  /\ rfd # 0 => acc[rfd] = "bridge" /\ (rfd = bridge \/ rfd \in bclosed) /\ bridge # 0
  /\ bridge # 0 => acc[bridge] = "bridge"
  /\ ~isEndianDiffer
  /\ Sized(pcR, need)

IInv ==
  /\ TypeOK /\ Ends /\ WriterInv
  /\ \A t \in Thread : ThreadInv(t)
  /\ \A c \in Conn : Unbroken(c) => InOrder(c)

\* The sockets that A and B hold are among the connections.
LEMMA Sockets ==
  ASSUME TypeOK
  PROVE  /\ MaxConns \in Nat /\ conns \in Nat /\ conns <= MaxConns
         /\ sock \in 0 .. conns /\ rfd \in 0 .. conns /\ bridge \in 0 .. conns
         /\ bclosed \subseteq 1 .. conns /\ bridge \notin bclosed
         /\ sock # 0 => sock \in Conn
         /\ rfd # 0 => rfd \in Conn
         /\ bridge # 0 => bridge \in Conn
         /\ pcR = "idle" <=> rfd = 0
<1>1. /\ MaxConns \in Nat /\ conns \in 0 .. MaxConns /\ sock \in 0 .. conns /\ rfd \in 0 .. conns
      /\ bclosed \subseteq 1 .. conns /\ bridge \in 0 .. conns /\ bridge \notin bclosed
      /\ pcR = "idle" <=> rfd = 0
  BY WireAssumption, Zenon DEF TypeOK
<1>2. conns \in Nat /\ conns <= MaxConns
  BY <1>1
<1>3. \A c \in 0 .. conns : c # 0 => c \in 1 .. MaxConns
  BY <1>1, <1>2
<1>. QED
  BY <1>1, <1>2, <1>3, Zenon DEF Conn

\* What is left of a queue when its first field has been written.
LEMMA QueueTail ==
  ASSUME NEW d, NEW q, NEW h \in Nat, Queue(d, q, h), Len(q) > 1
  PROVE  /\ Queue(d, Tail(q), IF h > 0 THEN h - 1 ELSE 0)
         /\ Len(Tail(q)) = Len(q) - 1 /\ \A k \in 1 .. Len(q) - 1 : Tail(q)[k] = q[k + 1]
<1>. DEFINE r == Tail(q)
            g == IF h > 0 THEN h - 1 ELSE 0
<1>1. q \in Seq(Seq(MarkedByte))
  BY DEF Queue
<1>2. r \in Seq(Seq(MarkedByte)) /\ Len(r) = Len(q) - 1 /\ \A k \in 1 .. Len(q) - 1 : r[k] = q[k + 1]
  BY <1>1
<1>. HIDE DEF r
<1>3. PICK z \in Nat : z = Len(q) /\ z > 1
  BY <1>1
<1>4. ASSUME NEW k \in 1 .. z - 1
      PROVE  /\ IsField(d, r[k])
             /\ k = g \/ k = z - 1 => r[k][1].next = Idle
             /\ k # g /\ k < z - 1 => StartOf(r[k + 1], 1) = r[k][1].next
  <2>1. /\ k + 1 \in 1 .. z /\ (k = g => k + 1 = h) /\ (k = z - 1 => k + 1 = z)
        /\ k # g /\ k < z - 1 => k + 1 # h /\ k + 1 < z /\ k + 1 \in 1 .. z - 1
    BY <1>3
  <2>. QED
    BY <1>2, <1>3, <2>1, Zenon DEF Queue
<1>. QED
  BY <1>2, <1>3, <1>4, Zenon DEF Queue, r

\* The fields of a chain follow each other.
LEMMA ChainFields ==
  ASSUME NEW d, NEW q, Chain(d, q)
  PROVE  /\ q \in Seq(Seq(MarkedByte)) /\ q # <<>>
         /\ \A k \in 1 .. Len(q) :
              /\ IsField(d, q[k]) /\ (k = Len(q) => q[k][1].next = Idle)
              /\ k < Len(q) => StartOf(q[k + 1], 1) = q[k][1].next
<1>1. ASSUME NEW k \in 1 .. Len(q)
      PROVE  /\ IsField(d, q[k]) /\ (k = Len(q) => q[k][1].next = Idle)
             /\ k < Len(q) => StartOf(q[k + 1], 1) = q[k][1].next
  <2>1. k # 0
    OBVIOUS
  <2>. QED
    BY <2>1, Zenon DEF Chain, Queue
<1>. QED
  BY <1>1, Zenon DEF Chain, Queue

\* The fields that open a bridge before those of a message.
Before(d, o, q) ==
  /\ Queue(d, o \o q, Len(o)) /\ Len(o \o q) = Len(q) + Len(o)
  /\ (o \o q)[1] = o[1] /\ (o \o q)[Len(o) + 1] = q[1]

\* The fields that open a bridge go before those of a message.
LEMMA QueueOpened ==
  ASSUME NEW d, NEW o, Chain(d, o), NEW q, Chain(d, q)
  PROVE  Before(d, o, q)
<1>. DEFINE r == o \o q
<1>1. /\ o \in Seq(Seq(MarkedByte)) /\ q \in Seq(Seq(MarkedByte)) /\ q # <<>> /\ o # <<>>
      /\ \A k \in 1 .. Len(q) :
           /\ IsField(d, q[k]) /\ (k = Len(q) => q[k][1].next = Idle)
           /\ k < Len(q) => StartOf(q[k + 1], 1) = q[k][1].next
      /\ \A k \in 1 .. Len(o) :
           /\ IsField(d, o[k]) /\ (k = Len(o) => o[k][1].next = Idle)
           /\ k < Len(o) => StartOf(o[k + 1], 1) = o[k][1].next
  BY ChainFields, Zenon
<1>2. /\ o \o q \in Seq(Seq(MarkedByte)) /\ Len(o \o q) = Len(q) + Len(o)
      /\ \A k \in 1 .. Len(o) : (o \o q)[k] = o[k]
      /\ \A k \in 1 .. Len(q) : (o \o q)[k + Len(o)] = q[k]
  BY <1>1
<1>3. PICK z \in Nat \ {0} : z = Len(q)
  BY <1>1
<1>4. PICK n \in Nat \ {0} : n = Len(o)
  BY <1>1
<1>5. /\ r \in Seq(Seq(MarkedByte)) /\ Len(r) = z + n
      /\ \A k \in 1 .. n : r[k] = o[k]
      /\ \A k \in 1 .. z : r[k + n] = q[k]
  BY <1>2, <1>3, <1>4, Zenon
<1>. HIDE DEF r
<1>6. ASSUME NEW k \in 1 .. z + n
      PROVE  /\ IsField(d, r[k])
             /\ k = n \/ k = z + n => r[k][1].next = Idle
             /\ k # n /\ k < z + n => StartOf(r[k + 1], 1) = r[k][1].next
  <2>1. CASE k \in 1 .. n
    <3>1. k # z + n /\ (k # n => k < n /\ k + 1 \in 1 .. n)
      BY <2>1
    <3>. QED
      BY <1>1, <1>4, <1>5, <2>1, <3>1, Zenon
  <2>2. CASE k \notin 1 .. n
    <3>1. k # n
      BY <2>2
    <3>2. PICK j \in 1 .. z : k = j + n
      <4>1. k - n \in 1 .. z /\ k = (k - n) + n
        BY <2>2
      <4>. QED
        BY <4>1, Zenon
    <3>3. (k = z + n => j = z) /\ (k < z + n => j < z /\ j + 1 \in 1 .. z /\ (j + 1) + n = k + 1)
      BY <3>2
    <3>4. r[k] = q[j] /\ (k < z + n => r[k + 1] = q[j + 1])
      BY <1>5, <3>2, <3>3, Zenon
    <3>. QED
      BY <1>1, <1>3, <3>1, <3>3, <3>4, Zenon
  <2>. QED
    BY <2>1, <2>2
<1>7. r[1] = o[1] /\ r[n + 1] = q[1]
  <2>1. 1 \in 1 .. n /\ 1 \in 1 .. z /\ 1 + n = n + 1
    BY <1>3
  <2>. QED
    BY <1>5, <2>1, Zenon
<1>. QED
  BY <1>3, <1>4, <1>5, <1>6, <1>7, Zenon DEF Before, Queue, r

-----------------------------------------------------------------------------
(* Steps of B                                                              *)

\* A connection that a step leaves alone.
LEMMA StaysInOrder ==
  ASSUME NEW c \in Conn, InOrder(c), stream'[c] = stream[c], Expected(c)' = Expected(c),
         differ' = differ, Opened(c)' => Opened(c)
  PROVE  InOrder(c)' /\ End(c)' = End(c)
BY Zenon DEF InOrder, End

\* The field at the head of a connection is the one that B wants, and its bytes
\* mean what its mark says.
LEMMA NextField ==
  ASSUME NEW c \in Conn, differ \in BOOLEAN, stream[c] \in Seq(MarkedByte), InOrder(c),
         stream[c] # <<>>
  PROVE  /\ <<stream[c][1].at, stream[c][1].left>> = Expected(c)
         /\ Sized(stream[c][1].at, stream[c][1].left) /\ Meaning(differ, stream[c], 1)
         /\ stream[c][1].left <= Len(stream[c])
BY FirstTaken, Zenon DEF InOrder, StartOf

\* A connection from which B takes that field, and goes on as the mark says.
LEMMA TakesField ==
  ASSUME NEW c \in Conn, differ \in BOOLEAN, stream[c] \in Seq(MarkedByte), InOrder(c),
         stream[c] # <<>>, NEW place, NEW n, Expected(c) = <<place, n>>,
         stream'[c] = SubSeq(stream[c], n + 1, Len(stream[c])),
         Expected(c)' = stream[c][1].next, differ' = differ, Opened(c)' => ~differ
  PROVE  InOrder(c)' /\ End(c)' = End(c)
<1>1. <<stream[c][1].at, stream[c][1].left>> = <<place, n>>
  BY NextField, Zenon
<1>2. n = stream[c][1].left
  BY <1>1
<1>. DEFINE s == stream[c]
            r == SubSeq(s, n + 1, Len(s))
<1>3. /\ Framed(differ, r)
      /\ r # <<>> => StartOf(r, 1) = s[1].next /\ r[Len(r)] = s[Len(s)]
      /\ r = <<>> => s[Len(s)].next = s[1].next
  BY <1>2, FirstTaken, Zenon DEF InOrder
<1>4. stream'[c] = r /\ s # <<>>
  BY Zenon
<1>. HIDE DEF r, s
<1>5. InOrder(c)'
  <2>1. Framed(differ', stream'[c])
    BY <1>3, <1>4, Zenon
  <2>2. stream'[c] # <<>> => StartOf(stream'[c], 1) = Expected(c)'
    BY <1>3, <1>4, Zenon DEF s
  <2>3. Opened(c)' => ~differ'
    BY Zenon
  <2>. QED
    BY <2>1, <2>2, <2>3, Zenon DEF InOrder
<1>6. End(c)' = End(c)
  <2>1. End(c) = s[Len(s)].next
    BY <1>4, Zenon DEF End, s
  <2>2. CASE r = <<>>
    BY <1>3, <1>4, <2>1, <2>2, Zenon DEF End, s
  <2>3. CASE r # <<>>
    BY <1>3, <1>4, <2>1, <2>3, Zenon DEF End
  <2>. QED
    BY <2>2, <2>3
<1>. QED
  BY <1>5, <1>6

\* A step of B keeps the invariant when no connection comes to life again, and
\* those that stay alive are in order and end where they did.
LEMMA StepOfB ==
  ASSUME IInv, UNCHANGED <<orders, writers, ends>>, TypeOK', Ends',
         \A c \in Conn : Unbroken(c)' => Unbroken(c) /\ InOrder(c)' /\ End(c)' = End(c)
  PROVE  IInv'
<1>1. /\ differ' = differ /\ mutex' = mutex /\ todo' = todo /\ shake' = shake /\ went' = went
      /\ pc' = pc /\ sock' = sock /\ conns' = conns
  BY Zenon DEF orders, writers, ends
<1>2. ASSUME NEW t \in Thread PROVE ThreadInv(t)'
  BY <1>1, Zenon DEF IInv, ThreadInv
<1>3. WriterInv'
  <2>. SUFFICES ASSUME sock # 0, Unbroken(sock)'
                PROVE  /\ \A t \in Thread : (Busy(t) /\ (\A u \in Thread \ {t} : ~Busy(u)) => Continues(t))'
                       /\ ((\A t \in Thread : ~Busy(t)) => End(sock) = Idle)'
    BY <1>1, Zenon DEF WriterInv
  <2>1. sock \in Conn
    BY WireAssumption DEF IInv, TypeOK, Conn
  <2>2. Unbroken(sock) /\ End(sock)' = End(sock)
    BY <1>1, <2>1, Zenon DEF Unbroken, Live, End, Expected
  <2>3. WriterInv
    BY Zenon DEF IInv
  <2>. QED
    BY <1>1, <2>2, <2>3, Zenon DEF WriterInv, Busy, Continues
<1>. QED
  BY <1>2, <1>3, Zenon DEF IInv

\* A field read by the receive thread of B: it goes on inside the message, perhaps
\* on another socket, or returns.
LEMMA ReadStep ==
  ASSUME IInv, NEW c \in Conn, rfd = c \/ (rfd = 0 /\ bridge = c), Len(stream[c]) >= need,
         Taken(c, need), UNCHANGED <<orders, writers, ends, back, accepts>>, req' \in Byte,
         NEW place \in {"type", "body", "entries", "key", "length", "data"},
         NEW k \in Nat \ {0}, Sized(place, k), NEW causes \in SUBSET Cause,
         \/ ReadNext(place, k, c) /\ (Unbroken(c) => stream[c][1].next = <<place, k>>)
         \/ Done(c, causes) /\ (Unbroken(c) /\ causes = {} => stream[c][1].next = Idle)
  PROVE  IInv'
<1>1. TypeOK /\ Ends /\ \A b \in Conn : Unbroken(b) => InOrder(b)
  BY Zenon DEF IInv
<1>2. /\ differ' = differ /\ conns' = conns /\ acc' = acc /\ bclosed' = bclosed /\ bridge' = bridge
      /\ isEndianDiffer' = isEndianDiffer /\ back' = back
      /\ mutex' = mutex /\ todo' = todo /\ shake' = shake /\ went' = went
      /\ pc' = pc /\ sock' = sock /\ sent' = sent /\ greeted' = greeted
  BY Zenon DEF orders, writers, ends, accepts
<1>3. /\ acc[c] = "bridge" /\ bridge # 0 /\ bridge \in Conn /\ bridge \notin bclosed
      /\ c # 0 /\ (c = bridge \/ (c \in bclosed /\ rfd = c))
  <2>1. conns \in Nat /\ conns <= MaxConns /\ bridge \in 0 .. conns /\ bridge \notin bclosed
    BY <1>1, WireAssumption DEF TypeOK
  <2>2. MaxConns \in Nat /\ c \in 1 .. MaxConns
    BY WireAssumption, Zenon DEF Conn
  <2>3. c # 0
    BY <2>2
  <2>4. acc[c] = "bridge" /\ bridge # 0 /\ (c = bridge \/ (c \in bclosed /\ rfd = c))
    BY <1>1, <2>3, Zenon DEF Ends
  <2>5. bridge \in Conn
    BY <2>1, <2>2, <2>4 DEF Conn
  <2>. QED
    BY <2>1, <2>3, <2>4, <2>5, Zenon
<1>4. Expected(c) = <<pcR, need>>
  <2>1. CASE rfd = c
    BY <1>3, <2>1, Zenon DEF Expected
  <2>2. CASE rfd # c
    <3>1. pcR = "idle" /\ need = 1
      BY <1>1, <2>2 DEF TypeOK, Ends, Sized
    <3>. QED
      BY <1>3, <2>2, <3>1 DEF Expected, Idle
  <2>. QED
    BY <2>1, <2>2
<1>5. stream \in [Conn -> Seq(MarkedByte)] /\ stream[c] \in Seq(MarkedByte) /\ stream[c] # <<>>
  <2>1. /\ stream \in [Conn -> Seq(MarkedByte)] /\ stream[c] \in Seq(MarkedByte)
        /\ need \in Nat \ {0}
    BY <1>1, Zenon DEF TypeOK
  <2>2. stream[c] # <<>>
    BY <2>1
  <2>. QED
    BY <2>1, <2>2, Zenon
<1>6. /\ stream' = [stream EXCEPT ![c] = SubSeq(stream[c], need + 1, Len(stream[c]))]
      /\ stream'[c] = SubSeq(stream[c], need + 1, Len(stream[c]))
      /\ \A b \in Conn : b # c => stream'[b] = stream[b]
      /\ stream' \in [Conn -> Seq(MarkedByte)]
  <2>1. SubSeq(stream[c], need + 1, Len(stream[c])) \in Seq(MarkedByte)
    BY <1>1, <1>5, Dropped DEF TypeOK
  <2>. QED
    BY <1>5, <2>1, Zenon DEF Taken
<1>7. /\ pcR' \in {"idle", "type", "body", "entries", "key", "length", "data"}
      /\ need' \in Nat \ {0} /\ Sized(pcR', need') /\ (pcR' = "idle" <=> rfd' = 0)
      /\ rfd' \in {0, bridge} /\ (rfd' = 0 => need' = 1)
      /\ broken' \in [Conn -> SUBSET Cause] /\ \A b \in Conn : broken[b] \subseteq broken'[b]
  <2>0. broken \in [Conn -> SUBSET Cause]
    BY <1>1 DEF TypeOK
  <2>1. CASE ReadNext(place, k, c)
    BY <1>3, <2>0, <2>1 DEF ReadNext, Cause
  <2>2. CASE Done(c, causes)
    BY <1>3, <2>0, <2>2 DEF Done, Sized
  <2>. QED
    BY <2>1, <2>2
<1>8. TypeOK'
  <2>1. rfd' \in 0 .. conns'
    BY <1>1, <1>2, <1>7 DEF TypeOK
  <2>. QED
    BY <1>1, <1>2, <1>6, <1>7, <2>1, Zenon DEF TypeOK
<1>9. Ends'
  <2>1. \A b \in Conn : acc[b] = "none" => stream'[b] = <<>>
    BY <1>1, <1>3, <1>6, Zenon DEF Ends
  <2>2. rfd' # 0 => acc[rfd'] = "bridge" /\ rfd' = bridge
    BY <1>1, <1>3, <1>7, Zenon DEF Ends
  <2>. QED
    BY <1>1, <1>2, <1>7, <2>1, <2>2, Zenon DEF Ends
<1>10. ASSUME NEW b \in Conn, Unbroken(b)'
       PROVE  Unbroken(b) /\ InOrder(b)' /\ End(b)' = End(b)
  <2>1. broken[b] = {} /\ b \notin bclosed
    <3>1. broken'[b] = {} /\ (b \notin bclosed' \/ rfd' = b)
      BY <1>10, Zenon DEF Unbroken, Live
    <3>2. broken[b] \subseteq broken'[b] /\ rfd' \in {0, bridge} /\ bclosed' = bclosed
      BY <1>2, <1>7, Zenon
    <3>3. b # 0
      BY WireAssumption DEF Conn
    <3>. QED
      BY <1>3, <3>1, <3>2, <3>3, Zenon
  <2>2. Unbroken(b) /\ InOrder(b)
    BY <1>1, <2>1, Zenon DEF Unbroken, Live
  <2>3. CASE b # c
    <3>1. rfd' # b \/ acc[b] # "bridge"
      <4>1. CASE ReadNext(place, k, c)
        <5>1. b # bridge
          <6>1. bridge # c => "switched" \in broken'[bridge]
            BY <1>1, <1>3, <4>1 DEF ReadNext, TypeOK
          <6>. QED
            BY <1>10, <2>3, <6>1 DEF Unbroken
        <5>. QED
          BY <4>1, <5>1 DEF ReadNext
      <4>2. CASE Done(c, causes)
        BY <4>2 DEF Done, Conn
      <4>. QED
        BY <4>1, <4>2, Zenon
    <3>2. rfd # b
      BY <2>3 DEF Conn
    <3>3. Expected(b)' = Expected(b)
      BY <1>2, <3>1, <3>2, Zenon DEF Expected
    <3>. QED
      BY <1>2, <1>6, <2>2, <2>3, <3>3, StaysInOrder, Zenon DEF Opened
  <2>4. CASE b = c
    <3>1. c = bridge
      BY <1>3, <2>1, <2>4, Zenon
    <3>2. Expected(c)' = stream[c][1].next
      <4>1. CASE ReadNext(place, k, c)
        <5>1. rfd' = c /\ pcR' = place /\ need' = k
          BY <3>1, <4>1, Zenon DEF ReadNext
        <5>2. stream[c][1].next = <<place, k>>
          <6>1. ~Done(c, causes)
            BY <1>3, <5>1 DEF Done
          <6>. QED
            BY <2>2, <2>4, <6>1, Zenon
        <5>. QED
          BY <1>2, <1>3, <5>1, <5>2, Zenon DEF Expected
      <4>2. CASE Done(c, causes)
        <5>1. rfd' = 0 /\ causes = {}
          BY <1>1, <1>10, <2>4, <4>2, Zenon DEF Done, Unbroken, TypeOK
        <5>2. stream[c][1].next = Idle
          <6>1. ~ReadNext(place, k, c)
            BY <1>3, <5>1 DEF ReadNext
          <6>. QED
            BY <2>2, <2>4, <5>1, <6>1, Zenon
        <5>3. rfd' # c
          BY <1>3, <5>1, Zenon
        <5>. QED
          BY <1>2, <1>3, <5>2, <5>3 DEF Expected
      <4>. QED
        BY <4>1, <4>2
    <3>3. Opened(c)' => ~differ
      BY <1>2, <1>3, <2>2, <2>4, Zenon DEF Opened, InOrder
    <3>4. differ \in BOOLEAN
      BY <1>1, Zenon DEF TypeOK
    <3>. QED
      BY <1>2, <1>4, <1>5, <1>6, <2>2, <2>4, <3>2, <3>3, <3>4, TakesField, Zenon
  <2>. QED
    BY <2>3, <2>4, Zenon
<1>. QED
  BY <1>8, <1>9, <1>10, StepOfB, Zenon

\* Four bytes make a natural number.
LEMMA ValueTyped ==
  ASSUME NEW b, b[1] \in Byte, b[2] \in Byte, b[3] \in Byte, b[4] \in Byte
  PROVE  Value(b) \in Nat /\ Value(b) = Value(<<b[1], b[2], b[3], b[4]>>)
<1>1. b[1] \in Nat /\ b[2] \in Nat /\ b[3] \in Nat /\ b[4] \in Nat
  BY DEF Byte
<1>2. Value(b) = Value(<<b[1], b[2], b[3], b[4]>>)
  BY SMT DEF Value
<1>3. Value(b) \in Nat
  BY <1>1, SMT DEF Value
<1>. QED
  BY <1>2, <1>3

\* The first integer of what is on a connection.
LEMMA FourBytes ==
  ASSUME NEW c \in Conn, stream[c] \in Seq(MarkedByte), Len(stream[c]) >= 4
  PROVE  /\ Bytes(c, 4) \in [1 .. 4 -> Byte] /\ Value(Bytes(c, 4)) = IntAt(stream[c], 1)
         /\ Value(Bytes(c, 4)) \in Nat
<1>1. ASSUME NEW i \in 1 .. 4 PROVE stream[c][i].v \in Byte
  <2>1. i \in 1 .. Len(stream[c])
    OBVIOUS
  <2>. QED
    BY <2>1, ByteTyped, Zenon DEF Byte
<1>2. /\ Bytes(c, 4) \in [1 .. 4 -> Byte]
      /\ Bytes(c, 4)[1] = stream[c][1].v /\ Bytes(c, 4)[2] = stream[c][2].v
      /\ Bytes(c, 4)[3] = stream[c][3].v /\ Bytes(c, 4)[4] = stream[c][4].v
  BY <1>1 DEF Bytes
<1>3. /\ stream[c][1].v \in Byte /\ stream[c][2].v \in Byte
      /\ stream[c][3].v \in Byte /\ stream[c][4].v \in Byte
  BY <1>1
<1>4. IntAt(stream[c], 1) = Value(<<stream[c][1].v, stream[c][2].v, stream[c][3].v, stream[c][4].v>>)
  <2>1. 1 + 1 = 2 /\ 1 + 2 = 3 /\ 1 + 3 = 4
    OBVIOUS
  <2>. QED
    BY <2>1, Zenon DEF IntAt
<1>5. /\ Bytes(c, 4)[1] \in Byte /\ Bytes(c, 4)[2] \in Byte
      /\ Bytes(c, 4)[3] \in Byte /\ Bytes(c, 4)[4] \in Byte
  BY <1>2, <1>3, Zenon
<1>6. /\ Value(Bytes(c, 4)) \in Nat
      /\ Value(Bytes(c, 4)) = Value(<<Bytes(c, 4)[1], Bytes(c, 4)[2], Bytes(c, 4)[3], Bytes(c, 4)[4]>>)
  BY <1>5, ValueTyped, Zenon
<1>. QED
  BY <1>2, <1>4, <1>6, Zenon

\* The fifth integer.
LEMMA FifthInt ==
  ASSUME NEW c \in Conn, stream[c] \in Seq(MarkedByte), Len(stream[c]) >= 24
  PROVE  /\ Value(SubSeq(Bytes(c, 24), 17, 20)) = IntAt(stream[c], 17)
         /\ Value(SubSeq(Bytes(c, 24), 17, 20)) \in Nat
<1>. DEFINE b == SubSeq(Bytes(c, 24), 17, 20)
<1>1. ASSUME NEW i \in 1 .. 24 PROVE stream[c][i].v \in Byte
  <2>1. i \in 1 .. Len(stream[c])
    OBVIOUS
  <2>. QED
    BY <2>1, ByteTyped, Zenon DEF Byte
<1>2. /\ Bytes(c, 24) \in Seq(Byte) /\ Len(Bytes(c, 24)) = 24
      /\ \A i \in 1 .. 24 : Bytes(c, 24)[i] = stream[c][i].v
  BY <1>1 DEF Bytes
<1>3. /\ b[1] = stream[c][17].v /\ b[2] = stream[c][18].v
      /\ b[3] = stream[c][19].v /\ b[4] = stream[c][20].v
  BY <1>2
<1>4. /\ stream[c][17].v \in Byte /\ stream[c][18].v \in Byte
      /\ stream[c][19].v \in Byte /\ stream[c][20].v \in Byte
  BY <1>1
<1>5. IntAt(stream[c], 17) = Value(<<stream[c][17].v, stream[c][18].v, stream[c][19].v, stream[c][20].v>>)
  <2>1. 17 + 1 = 18 /\ 17 + 2 = 19 /\ 17 + 3 = 20
    OBVIOUS
  <2>. QED
    BY <2>1, SMT DEF IntAt
<1>. HIDE DEF b
<1>6. Value(b) = IntAt(stream[c], 17) /\ Value(b) \in Nat
  <2>1. b[1] \in Byte /\ b[2] \in Byte /\ b[3] \in Byte /\ b[4] \in Byte
    BY <1>3, <1>4, Zenon
  <2>2. Value(b) \in Nat /\ Value(b) = Value(<<b[1], b[2], b[3], b[4]>>)
    BY <2>1, ValueTyped, Zenon
  <2>. QED
    BY <1>3, <1>5, <2>2, Zenon
<1>. QED
  BY <1>6, Zenon DEF b

\* The receive thread finds the field that it waits for on a connection that is
\* not broken.
LEMMA FieldFound ==
  ASSUME IInv, NEW c \in Conn, rfd = c \/ (rfd = 0 /\ bridge = c), Len(stream[c]) >= need
  PROVE  /\ stream[c] \in Seq(MarkedByte) /\ stream[c] # <<>> /\ Sized(pcR, need)
         /\ ~isEndianDiffer /\ req \in Byte
         /\ Unbroken(c) => /\ ~differ /\ stream[c][1].at = pcR
                           /\ Meaning(differ, stream[c], 1)
<1>1. TypeOK /\ Ends /\ (Unbroken(c) => InOrder(c))
  BY Zenon DEF IInv
<1>2. stream[c] \in Seq(MarkedByte) /\ stream[c] # <<>> /\ differ \in BOOLEAN /\ req \in Byte
  BY <1>1 DEF TypeOK
<1>3. Sized(pcR, need) /\ ~isEndianDiffer
  BY <1>1, Zenon DEF Ends
<1>4. acc[c] = "bridge" /\ (rfd # c => pcR = "idle" /\ need = 1)
  <2>1. c # 0
    BY DEF Conn
  <2>. QED
    BY <1>1, <2>1 DEF Ends, TypeOK, Sized
<1>5. Expected(c) = <<pcR, need>>
  BY <1>4, Zenon DEF Expected, Idle
<1>6. ASSUME Unbroken(c)
      PROVE ~differ /\ stream[c][1].at = pcR /\ Meaning(differ, stream[c], 1)
  <2>1. InOrder(c)
    BY <1>1, <1>6, Zenon
  <2>2. <<stream[c][1].at, stream[c][1].left>> = <<pcR, need>> /\ Meaning(differ, stream[c], 1)
    BY <1>2, <1>5, <2>1, NextField, Zenon
  <2>. QED
    BY <1>4, <2>1, <2>2 DEF InOrder, Opened
<1>. QED
  BY <1>2, <1>3, <1>6, Zenon

\* the receive thread takes a field from c
TakesFrom(c) ==
  /\ c \in Conn /\ (rfd = c \/ (rfd = 0 /\ bridge = c)) /\ Len(stream[c]) >= need
  /\ Taken(c, need)
  /\ UNCHANGED <<orders, writers, ends, back, accepts>>
  /\ req' \in Byte

\* The two ways to go on after a field.
LEMMA GoesOn ==
  ASSUME IInv, NEW c, TakesFrom(c),
         NEW place \in {"type", "body", "entries", "key", "length", "data"},
         NEW k \in Nat \ {0}, Sized(place, k), ReadNext(place, k, c),
         Unbroken(c) => stream[c][1].next = <<place, k>>
  PROVE  IInv'
<1>1. {} \in SUBSET Cause
  BY Zenon
<1>. QED
  BY <1>1, ReadStep, Zenon DEF TakesFrom

\* Steps that take a field and end the message.
LEMMA Returns ==
  ASSUME IInv, NEW c, TakesFrom(c), NEW causes \in SUBSET Cause, Done(c, causes),
         Unbroken(c) /\ causes = {} => stream[c][1].next = Idle
  PROVE  IInv'
<1>1. "type" \in {"type", "body", "entries", "key", "length", "data"} /\ 4 \in Nat \ {0}
      /\ Sized("type", 4)
  BY DEF Sized
<1>. QED
  BY <1>1, ReadStep, Zenon DEF TakesFrom

\* What a handler that refuses leaves in broken.
LEMMA RefusedIsCause == {"refused"} \in SUBSET Cause /\ {"refused"} # {} /\ {} \in SUBSET Cause
BY Zenon DEF Cause

\* The first byte of a message.
LEMMA RcvRequestStep ==
  ASSUME IInv, RcvRequest
  PROVE  IInv'
<1>. DEFINE c == bridge
            v == Head(stream[c]).v
<1>1. TypeOK /\ Ends
  BY Zenon DEF IInv
<1>2. c \in Conn /\ rfd = 0 /\ need = 1 /\ pcR = "idle" /\ stream[c] # <<>>
  <2>1. pcR = "idle" /\ bridge # 0 /\ stream[c] # <<>>
    BY Zenon DEF RcvRequest
  <2>2. need = 1
    BY <1>1, <2>1, Zenon DEF Ends, Sized
  <2>. QED
    BY <1>1, <2>1, <2>2, Sockets, Zenon
<1>3. stream[c] \in Seq(MarkedByte) /\ Len(stream[c]) >= need
  BY <1>1, <1>2 DEF TypeOK
<1>4. v = stream[c][1].v /\ v \in Byte
  <2>1. v = stream[c][1].v /\ 1 \in 1 .. Len(stream[c])
    BY <1>2, <1>3
  <2>. QED
    BY <1>3, <2>1, ByteTyped, Zenon DEF Byte
<1>5. TakesFrom(c)
  BY <1>2, <1>3, <1>4, Zenon DEF TakesFrom, RcvRequest
<1>6. Unbroken(c) =>
        /\ v = clbkCmd => stream[c][1].next = <<"type", 4>>
        /\ v \in {newNode, removeNode} => stream[c][1].next = <<"key", KeySize>>
        /\ v = oldLeaderDied => stream[c][1].next = <<"length", 4>>
        /\ v \notin News \cup {clbkCmd} => stream[c][1].next = Idle
  BY <1>2, <1>3, <1>4, FieldFound, Zenon DEF Meaning
<1>7. /\ 4 \in Nat \ {0} /\ KeySize \in Nat \ {0}
      /\ Sized("type", 4) /\ Sized("key", KeySize) /\ Sized("length", 4)
  BY DEF Sized, KeySize
<1>. HIDE DEF v, c
<1>8. CASE v = clbkCmd /\ ReadNext("type", 4, c)
  BY <1>5, <1>6, <1>7, <1>8, GoesOn, Zenon
<1>9. CASE v \in {newNode, removeNode} /\ ReadNext("key", KeySize, c)
  BY <1>5, <1>6, <1>7, <1>9, GoesOn, Zenon
<1>10. CASE v = oldLeaderDied /\ ReadNext("length", 4, c)
  BY <1>5, <1>6, <1>7, <1>10, GoesOn, Zenon
<1>11. CASE Done(c, {"refused"})
  BY <1>5, <1>11, Returns, RefusedIsCause, Zenon
<1>12. CASE v \notin {clbkCmd, newNode, removeNode, oldLeaderDied, toNewNodeAddPartitions} /\ Done(c, {})
  BY <1>5, <1>6, <1>12, Returns, RefusedIsCause, Zenon DEF News
<1>. QED
  BY <1>8, <1>9, <1>10, <1>11, <1>12, Zenon DEF RcvRequest, v, c

\* What a read of the receive thread inside a message finds.
LEMMA InsideMessage ==
  ASSUME IInv, Enough, Taken(rfd, need), UNCHANGED <<orders, writers, ends, back, accepts, req>>
  PROVE  /\ rfd \in Conn /\ stream[rfd] \in Seq(MarkedByte) /\ Len(stream[rfd]) >= need
         /\ TakesFrom(rfd) /\ Sized(pcR, need) /\ ~isEndianDiffer
         /\ Unbroken(rfd) =>
              ~differ /\ stream[rfd][1].at = pcR /\ Meaning(differ, stream[rfd], 1)
<1>1. TypeOK
  BY Zenon DEF IInv
<1>2. rfd \in Conn /\ Len(stream[rfd]) >= need /\ req' \in Byte
  BY <1>1, WireAssumption DEF Enough, TypeOK, Conn
<1>3. TakesFrom(rfd)
  BY <1>2, Zenon DEF TakesFrom
<1>. QED
  BY <1>2, <1>3, FieldFound, Zenon

\* The structures of HandleSeedClbk have a size.
LEMMA BodySized ==
  ASSUME NEW type \in 0 .. 3
  PROVE  BodySize(type) \in Nat \ {0} /\ (type = APPENDENTRIES => BodySize(type) = 24)
<1>1. type \in {0, 1, 2, 3}
  OBVIOUS
<1>. QED
  BY <1>1 DEF BodySize, REQUESTVOTE, REQUESTVOTE_RESPONSE, APPENDENTRIES, APPENDENTRIES_RESPONSE

\* The type of a message of the library.
LEMMA ReadTypeStep ==
  ASSUME IInv, ReadType
  PROVE  IInv'
<1>. DEFINE c == rfd
            type == Value(Bytes(c, 4))
            place == IF type = APPENDENTRIES THEN "entries" ELSE "body"
<1>1. /\ c \in Conn /\ stream[c] \in Seq(MarkedByte) /\ Len(stream[c]) >= need
      /\ TakesFrom(c) /\ Sized(pcR, need)
      /\ Unbroken(c) => ~differ /\ stream[c][1].at = pcR /\ Meaning(differ, stream[c], 1)
  BY InsideMessage, Zenon DEF ReadType
<1>2. pcR = "type" /\ need = 4
  BY <1>1, Zenon DEF ReadType, Sized
<1>3. type = IntAt(stream[c], 1) /\ type \in Nat
  <2>1. Len(stream[c]) >= 4
    BY <1>1, <1>2, Zenon
  <2>. QED
    BY <1>1, <2>1, FourBytes, Zenon
<1>. HIDE DEF c, type
<1>4. Unbroken(c) => type \in 0 .. 3 /\ stream[c][1].next = <<place, BodySize(type)>>
  BY <1>1, <1>2, <1>3, Zenon DEF Meaning
<1>5. CASE Done(c, {"refused"})
  BY <1>1, <1>5, Returns, RefusedIsCause, Zenon
<1>6. CASE type \in 0 .. 3 /\ ReadNext(place, BodySize(type), c)
  <2>1. BodySize(type) \in Nat \ {0} /\ (type = APPENDENTRIES => BodySize(type) = 24)
    BY <1>6, BodySized, Zenon
  <2>2. Sized(place, BodySize(type)) /\ place \in {"type", "body", "entries", "key", "length", "data"}
    BY <2>1 DEF Sized
  <2>. HIDE DEF place
  <2>. QED
    BY <1>1, <1>4, <1>6, <2>1, <2>2, GoesOn, Zenon
<1>7. CASE type > 3 /\ Done(c, {})
  <2>1. type \notin 0 .. 3
    BY <1>3, <1>7
  <2>. QED
    BY <1>1, <1>4, <1>7, <2>1, Returns, RefusedIsCause, Zenon
<1>. QED
  BY <1>5, <1>6, <1>7, Zenon DEF ReadType, c, type, place

\* The last field of a message.
LEMMA LastFieldStep ==
  ASSUME IInv, ReadBody \/ ReadData
  PROVE  IInv'
<1>1. /\ TakesFrom(rfd)
      /\ Unbroken(rfd) => stream[rfd][1].at = pcR /\ Meaning(differ, stream[rfd], 1)
  BY InsideMessage, Zenon DEF ReadBody, ReadData
<1>2. pcR \in {"body", "data"} /\ Done(rfd, {})
  BY Zenon DEF ReadBody, ReadData
<1>3. Unbroken(rfd) => stream[rfd][1].next = Idle
  BY <1>1, <1>2, Zenon DEF Meaning
<1>. QED
  BY <1>1, <1>2, <1>3, Returns, RefusedIsCause, Zenon

\* The entries, of which there are none in what the library sends.
LEMMA ReadEntriesStep ==
  ASSUME IInv, ReadEntries
  PROVE  IInv'
<1>. DEFINE c == rfd
            m_nSize == Value(SubSeq(Bytes(c, 24), 17, 20))
            n == EntrySize * (IF m_nSize > MaxEntries THEN MaxEntries + 1 ELSE m_nSize)
<1>1. /\ c \in Conn /\ stream[c] \in Seq(MarkedByte) /\ Len(stream[c]) >= need
      /\ TakesFrom(c) /\ Sized(pcR, need)
      /\ Unbroken(c) => ~differ /\ stream[c][1].at = pcR /\ Meaning(differ, stream[c], 1)
  BY InsideMessage, Zenon DEF ReadEntries
<1>2. pcR = "entries" /\ need = 24
  BY <1>1, Zenon DEF ReadEntries, Sized
<1>3. m_nSize = IntAt(stream[c], 17) /\ m_nSize \in Nat
  <2>1. Len(stream[c]) >= 24
    BY <1>1, <1>2, Zenon
  <2>. QED
    BY <1>1, <2>1, FifthInt, Zenon
<1>4. IF m_nSize = 0 THEN Done(c, {}) ELSE ReadNext("body", n, c)
  BY <1>2, Zenon DEF ReadEntries
<1>. HIDE DEF c, m_nSize
<1>5. Unbroken(c) => m_nSize = 0 /\ stream[c][1].next = Idle
  <2>1. 1 + 16 = 17
    OBVIOUS
  <2>. QED
    BY <1>1, <1>2, <1>3, <2>1, Zenon DEF Meaning
<1>6. CASE m_nSize = 0
  BY <1>1, <1>4, <1>5, <1>6, Returns, RefusedIsCause, Zenon
<1>7. CASE m_nSize # 0
  <2>1. n \in Nat \ {0}
    BY <1>3, <1>7 DEF EntrySize, MaxEntries
  <2>2. Sized("body", n)
    BY DEF Sized
  <2>. HIDE DEF n
  <2>. QED
    BY <1>1, <1>4, <1>5, <1>7, <2>1, <2>2, GoesOn, Zenon
<1>. QED
  BY <1>6, <1>7

\* The key of a node, after which comes the length of the data.
LEMMA ReadKeyStep ==
  ASSUME IInv, ReadKey
  PROVE  IInv'
<1>1. /\ TakesFrom(rfd)
      /\ Unbroken(rfd) => stream[rfd][1].at = pcR /\ Meaning(differ, stream[rfd], 1)
  BY InsideMessage, Zenon DEF ReadKey
<1>2. Unbroken(rfd) => stream[rfd][1].next = <<"length", 4>>
  BY <1>1, Zenon DEF Meaning, ReadKey
<1>3. 4 \in Nat \ {0} /\ Sized("length", 4)
  BY DEF Sized
<1>4. CASE ReadNext("length", 4, rfd)
  BY <1>1, <1>2, <1>3, <1>4, GoesOn, Zenon
<1>5. CASE Done(rfd, {"refused"})
  BY <1>1, <1>5, Returns, RefusedIsCause, Zenon
<1>. QED
  BY <1>4, <1>5, Zenon DEF ReadKey

\* The length of the data: no bridge is open between hosts of different byte order,
\* so that it makes no difference which handler swaps it.
LEMMA ReadLengthStep ==
  ASSUME IInv, ReadLength
  PROVE  IInv'
<1>. DEFINE c == rfd
            n == Value(Bytes(c, 4))
<1>1. /\ c \in Conn /\ stream[c] \in Seq(MarkedByte) /\ Len(stream[c]) >= need
      /\ TakesFrom(c) /\ Sized(pcR, need) /\ ~isEndianDiffer
      /\ Unbroken(c) => ~differ /\ stream[c][1].at = pcR /\ Meaning(differ, stream[c], 1)
  BY InsideMessage, Zenon DEF ReadLength
<1>2. pcR = "length" /\ need = 4
  BY <1>1, Zenon DEF ReadLength, Sized
<1>3. n = IntAt(stream[c], 1) /\ n \in Nat
  <2>1. Len(stream[c]) >= 4
    BY <1>1, <1>2, Zenon
  <2>. QED
    BY <1>1, <2>1, FourBytes, Zenon
<1>4. IF n = 0 THEN Done(c, {}) ELSE ReadNext("data", n, c)
  BY <1>1, Zenon DEF ReadLength
<1>. HIDE DEF c, n
<1>5. Unbroken(c) => stream[c][1].next = IF n = 0 THEN Idle ELSE <<"data", n>>
  BY <1>1, <1>2, <1>3, Zenon DEF Meaning
<1>6. CASE n = 0
  BY <1>1, <1>4, <1>5, <1>6, Returns, RefusedIsCause, Zenon
<1>7. CASE n # 0
  <2>1. n \in Nat \ {0} /\ Sized("data", n)
    BY <1>3, <1>7 DEF Sized
  <2>. QED
    BY <1>1, <1>4, <1>5, <1>7, <2>1, GoesOn, Zenon
<1>. QED
  BY <1>6, <1>7

\* The receive thread returns to select without the rest of a message, and closes
\* the socket that it holds or leaves a connection marked as broken.
LEMMA ReaderStops ==
  ASSUME IInv, UNCHANGED <<orders, writers, ends, back, acc, isEndianDiffer, req>>,
         pcR' = "idle", need' = 1, rfd' = 0,
         broken' \in [Conn -> SUBSET Cause], \A b \in Conn : broken[b] \subseteq broken'[b],
         stream' \in [Conn -> Seq(MarkedByte)],
         \A b \in Conn : b # rfd => stream'[b] = stream[b],
         closeC \/ (UNCHANGED <<bridge, bclosed>> /\ (rfd # 0 => broken'[rfd] # {}))
  PROVE  IInv'
<1>1. TypeOK /\ Ends /\ \A b \in Conn : Unbroken(b) => InOrder(b)
  BY Zenon DEF IInv
<1>2. /\ differ' = differ /\ greeted' = greeted /\ mutex' = mutex /\ todo' = todo /\ shake' = shake
      /\ went' = went /\ pc' = pc /\ sent' = sent /\ sock' = sock /\ conns' = conns
      /\ back' = back /\ acc' = acc /\ isEndianDiffer' = isEndianDiffer /\ req' = req
  BY Zenon DEF orders, writers, ends
<1>3. /\ bclosed \subseteq bclosed' /\ bclosed' \subseteq bclosed \cup ({bridge} \ {0})
      /\ bridge' \in {0, bridge} /\ bridge' \notin bclosed'
  <2>1. bridge \notin bclosed /\ 0 \notin bclosed
    BY <1>1 DEF TypeOK
  <2>. QED
    BY <2>1, Zenon DEF closeC
<1>4. TypeOK'
  <2>1. bclosed' \subseteq 1 .. conns /\ bridge' \in (0 .. conns) \ bclosed'
    BY <1>1, <1>3 DEF TypeOK
  <2>2. rfd' \in 0 .. conns /\ need' \in Nat \ {0}
    BY <1>1 DEF TypeOK
  <2>. QED
    BY <1>1, <1>2, <2>1, <2>2, Zenon DEF TypeOK
<1>5. Ends'
  <2>1. \A b \in Conn : acc[b] = "none" => stream'[b] = <<>>
    <3>1. ASSUME NEW b \in Conn, acc[b] = "none" PROVE b # rfd
      BY <1>1, <3>1 DEF Ends, Conn
    <3>. QED
      BY <1>1, <3>1, Zenon DEF Ends
  <2>2. \A b \in Conn : /\ b \in bclosed' => acc[b] \in {"bridge", "closed"}
                        /\ acc[b] = "closed" => b \in bclosed'
    BY <1>1, <1>3, Zenon DEF Ends
  <2>3. Sized(pcR', need')
    BY DEF Sized
  <2>4. bridge' # 0 => acc[bridge'] = "bridge"
    BY <1>1, <1>3, Zenon DEF Ends
  <2>5. \A b \in Conn : (acc[b] = "none" <=> b > conns) /\ acc[b] # "swapPort"
    BY <1>1, Zenon DEF Ends
  <2>6. ~isEndianDiffer
    BY <1>1, Zenon DEF Ends
  <2>7. \A b \in Conn :
          /\ acc'[b] = "none" <=> b > conns'
          /\ acc'[b] = "none" => stream'[b] = <<>>
          /\ acc'[b] # "swapPort"
          /\ b \in bclosed' => acc'[b] \in {"bridge", "closed"}
          /\ acc'[b] = "closed" => b \in bclosed'
    BY <1>2, <2>1, <2>2, <2>5, Zenon
  <2>8. bridge' # 0 => acc'[bridge'] = "bridge"
    BY <1>2, <2>4, Zenon
  <2>. QED
    BY <1>2, <2>3, <2>6, <2>7, <2>8 DEF Ends
<1>6. ASSUME NEW b \in Conn, Unbroken(b)'
      PROVE  Unbroken(b) /\ InOrder(b)' /\ End(b)' = End(b)
  <2>1. b # 0 /\ b \notin bclosed' /\ broken'[b] = {}
    BY <1>6 DEF Unbroken, Live, Conn
  <2>2. Unbroken(b)
    BY <1>3, <2>1 DEF Unbroken, Live
  <2>3. b # rfd
    BY <1>1, <1>3, <2>1, Zenon DEF Ends, closeC
  <2>4. Expected(b)' = Expected(b)
    BY <1>2, <2>1, <2>3, Zenon DEF Expected
  <2>. QED
    BY <1>1, <1>2, <2>2, <2>3, <2>4, StaysInOrder, Zenon DEF Opened
<1>. QED
  BY <1>4, <1>5, <1>6, StepOfB, Zenon

\* A read that ends early, and the end of the stream.
LEMMA ShortReadStep ==
  ASSUME IInv, ShortRead
  PROVE  IInv'
<1>1. TypeOK
  BY Zenon DEF IInv
<1>2. rfd \in Conn /\ broken \in [Conn -> SUBSET Cause] /\ stream \in [Conn -> Seq(MarkedByte)]
  BY <1>1, Sockets, Zenon DEF TypeOK, ShortRead
<1>3. /\ stream' \in [Conn -> Seq(MarkedByte)]
      /\ \A b \in Conn : b # rfd => stream'[b] = stream[b]
  <2>1. SubSeq(stream[rfd], Len(stream[rfd]) + 1, Len(stream[rfd])) \in Seq(MarkedByte)
    BY <1>2
  <2>. QED
    BY <1>2, <2>1 DEF ShortRead, Taken
<1>4. CASE Done(rfd, {"cut"}) /\ UNCHANGED <<bridge, bclosed>>
  <2>1. /\ broken' \in [Conn -> SUBSET Cause] /\ broken'[rfd] # {}
        /\ \A b \in Conn : broken[b] \subseteq broken'[b]
    BY <1>2, <1>4 DEF Done, Cause
  <2>. QED
    BY <1>3, <1>4, <2>1, ReaderStops, Zenon DEF Done, ShortRead
<1>5. CASE /\ pcR' = "idle" /\ need' = 1 /\ rfd' = 0
           /\ closeC /\ UNCHANGED broken
  BY <1>2, <1>3, <1>5, ReaderStops, Zenon DEF ShortRead
<1>. QED
  BY <1>4, <1>5, Zenon DEF ShortRead

\* The receive thread finds the end of the stream, and gives the bridge up.
LEMMA RcvClosedStep ==
  ASSUME IInv, RcvClosed
  PROVE  IInv'
<1>1. TypeOK /\ Ends
  BY Zenon DEF IInv
<1>2. pcR' = "idle" /\ need' = 1 /\ rfd' = 0
  BY <1>1 DEF RcvClosed, reader, TypeOK, Ends, Sized
<1>3. stream' = stream /\ broken' = broken /\ back' = back /\ req' = req
  BY Zenon DEF RcvClosed, bytes, reader
<1>4. stream' \in [Conn -> Seq(MarkedByte)] /\ broken' \in [Conn -> SUBSET Cause]
  BY <1>1, <1>3, Zenon DEF TypeOK
<1>. QED
  BY <1>2, <1>3, <1>4, ReaderStops, Zenon DEF RcvClosed

\* A connection that a handler of B has is neither the bridge nor closed, and the
\* receive thread does not read from it.
LEMMA Handled ==
  ASSUME IInv, NEW c \in Conn, acc[c] \in {"accepted", "request", "port", "swapPort", "index"}
  PROVE  /\ c \in 1 .. conns /\ c # rfd /\ c # bridge /\ c \notin bclosed /\ acc[c] # "swapPort"
         /\ conns \in Nat /\ c # 0
<1>1. TypeOK /\ Ends
  BY Zenon DEF IInv
<1>2. conns \in Nat /\ c \in 1 .. conns /\ c # 0
  <2>1. ~(c > conns)
    BY <1>1 DEF Ends
  <2>2. conns \in Nat /\ c \in 1 .. MaxConns /\ MaxConns \in Nat
    BY <1>1, WireAssumption DEF TypeOK, Conn
  <2>. QED
    BY <2>1, <2>2
<1>. QED
  BY <1>1, <1>2 DEF Ends

\* The destructor closes the connection of a handler that returns.
LEMMA ClosedStep ==
  ASSUME IInv, NEW c \in Conn, acc[c] \in {"accepted", "request", "port", "swapPort", "index"},
         Closed(c), UNCHANGED <<orders, writers, ends, back, broken, bridge, isEndianDiffer, reader>>
  PROVE  IInv'
<1>1. TypeOK /\ Ends /\ \A b \in Conn : Unbroken(b) => InOrder(b)
  BY Zenon DEF IInv
<1>2. /\ differ' = differ /\ greeted' = greeted /\ mutex' = mutex /\ todo' = todo /\ shake' = shake
      /\ went' = went /\ pc' = pc /\ sent' = sent /\ sock' = sock /\ conns' = conns
      /\ back' = back /\ broken' = broken /\ bridge' = bridge /\ isEndianDiffer' = isEndianDiffer
      /\ pcR' = pcR /\ req' = req /\ need' = need /\ rfd' = rfd
  BY Zenon DEF orders, writers, ends, reader
<1>3. c \in 1 .. conns /\ c # rfd /\ c # bridge /\ c # 0
  BY Handled, Zenon
<1>4. /\ acc'[c] = "closed" /\ bclosed' = bclosed \cup {c} /\ stream'[c] = <<>>
      /\ \A b \in Conn : b # c => acc'[b] = acc[b] /\ stream'[b] = stream[b]
      /\ stream' \in [Conn -> Seq(MarkedByte)]
      /\ acc' \in [Conn -> {"none", "accepted", "request", "port", "swapPort", "index", "bridge", "closed"}]
  BY <1>1 DEF Closed, TypeOK
<1>5. TypeOK'
  <2>1. bclosed' \subseteq 1 .. conns /\ bridge \in (0 .. conns) \ bclosed'
    BY <1>1, <1>3, <1>4, Zenon DEF TypeOK
  <2>. QED
    BY <1>1, <1>2, <1>4, <2>1, Zenon DEF TypeOK
<1>6. Ends'
  <2>1. ASSUME NEW b \in Conn
        PROVE  /\ acc'[b] = "none" <=> b > conns'
               /\ acc'[b] = "none" => stream'[b] = <<>>
               /\ acc'[b] # "swapPort"
               /\ b \in bclosed' => acc'[b] \in {"bridge", "closed"}
               /\ acc'[b] = "closed" => b \in bclosed'
    <3>1. ~(c > conns)
      BY <1>1, <1>3 DEF TypeOK
    <3>. QED
      BY <1>1, <1>2, <1>4, <3>1, Zenon DEF Ends
  <2>2. rfd' # 0 => acc'[rfd'] = "bridge" /\ (rfd' = bridge' \/ rfd' \in bclosed') /\ bridge' # 0
    <3>1. rfd # 0 => rfd \in Conn
      BY <1>1, WireAssumption DEF TypeOK, Conn
    <3>. QED
      BY <1>1, <1>2, <1>3, <1>4, <3>1, Zenon DEF Ends
  <2>3. bridge' # 0 => acc'[bridge'] = "bridge"
    <3>1. bridge # 0 => bridge \in Conn
      BY <1>1, WireAssumption DEF TypeOK, Conn
    <3>. QED
      BY <1>1, <1>2, <1>3, <1>4, <3>1, Zenon DEF Ends
  <2>4. ~isEndianDiffer' /\ Sized(pcR', need')
    <3>1. ~isEndianDiffer /\ Sized(pcR, need)
      BY <1>1, Zenon DEF Ends
    <3>. QED
      BY <1>2, <3>1
  <2>. QED
    BY <2>1, <2>2, <2>3, <2>4, Zenon DEF Ends
<1>7. ASSUME NEW b \in Conn, Unbroken(b)'
      PROVE  Unbroken(b) /\ InOrder(b)' /\ End(b)' = End(b)
  <2>1. b # c
    BY <1>2, <1>3, <1>4, <1>7, Zenon DEF Unbroken, Live
  <2>2. Unbroken(b)
    BY <1>2, <1>4, <1>7, Zenon DEF Unbroken, Live
  <2>3. Expected(b)' = Expected(b) /\ (Opened(b)' => Opened(b))
    BY <1>2, <1>4, <2>1, Zenon DEF Expected, Opened
  <2>. QED
    BY <1>1, <1>2, <1>4, <2>1, <2>2, <2>3, StaysInOrder, Zenon
<1>. QED
  BY <1>5, <1>6, <1>7, StepOfB, Zenon

\* A handler that waits in vain closes its connection.
LEMMA HandlerFailsStep ==
  ASSUME IInv, NEW c \in Conn, HandlerFails(c)
  PROVE  IInv'
<1>1. acc[c] \in {"accepted", "request", "port", "swapPort", "index"}
  BY Zenon DEF HandlerFails
<1>. QED
  BY <1>1, ClosedStep, Zenon DEF HandlerFails

\* A handler reads one of the three integers that open a bridge, and after the last
\* of them B holds the connection.
LEMMA HandlerStep ==
  ASSUME IInv, NEW c \in Conn, acc[c] \in {"request", "port", "index"}, Len(stream[c]) >= 4,
         Taken(c, 4), UNCHANGED <<orders, writers, ends, back, isEndianDiffer, pcR, req, need>>,
         NEW a \in {"port", "index", "bridge"}, acc' = [acc EXCEPT ![c] = a],
         Unbroken(c) => stream[c][1].next = (IF a = "bridge" THEN Idle ELSE <<a, 4>>) /\ ~differ,
         \/ a # "bridge" /\ UNCHANGED <<bclosed, bridge, rfd, broken>>
         \/ /\ a = "bridge" /\ bridge' = c /\ bclosed' = bclosed \cup ({bridge} \ {0})
            /\ \/ UNCHANGED <<rfd, broken>>
               \/ /\ pcR # "idle" /\ rfd' = c
                  /\ broken' = [broken EXCEPT ![c] = @ \cup {"switched"}]
  PROVE  IInv'
<1>1. TypeOK /\ Ends /\ \A b \in Conn : Unbroken(b) => InOrder(b)
  BY Zenon DEF IInv
<1>2. /\ differ' = differ /\ greeted' = greeted /\ mutex' = mutex /\ todo' = todo /\ shake' = shake
      /\ went' = went /\ pc' = pc /\ sent' = sent /\ sock' = sock /\ conns' = conns
      /\ back' = back /\ isEndianDiffer' = isEndianDiffer
      /\ pcR' = pcR /\ req' = req /\ need' = need
  BY Zenon DEF orders, writers, ends
<1>3. c \in 1 .. conns /\ c # rfd /\ c # bridge /\ c # 0 /\ c \notin bclosed
  BY Handled, Zenon
<1>4. /\ acc'[c] = a /\ \A b \in Conn : b # c => acc'[b] = acc[b]
      /\ acc' \in [Conn -> {"none", "accepted", "request", "port", "swapPort", "index", "bridge", "closed"}]
  BY <1>1, Zenon DEF TypeOK
<1>5. stream[c] \in Seq(MarkedByte) /\ stream[c] # <<>> /\ differ \in BOOLEAN
  <2>1. stream[c] \in Seq(MarkedByte) /\ differ \in BOOLEAN
    BY <1>1, Zenon DEF TypeOK
  <2>2. stream[c] # <<>>
    BY <2>1
  <2>. QED
    BY <2>1, <2>2, Zenon
<1>6. /\ stream'[c] = SubSeq(stream[c], 4 + 1, Len(stream[c]))
      /\ \A b \in Conn : b # c => stream'[b] = stream[b]
      /\ stream' \in [Conn -> Seq(MarkedByte)]
  <2>1. SubSeq(stream[c], 4 + 1, Len(stream[c])) \in Seq(MarkedByte)
    BY <1>5, Dropped
  <2>. QED
    BY <1>1, <2>1, Zenon DEF Taken, TypeOK
<1>7. /\ broken' \in [Conn -> SUBSET Cause] /\ rfd' \in {rfd, c} /\ (rfd' # rfd => pcR # "idle")
      /\ \A b \in Conn : b # c => broken'[b] = broken[b]
      /\ broken'[c] = {} => broken[c] = {} /\ rfd' = rfd
      /\ bclosed \subseteq bclosed' /\ bclosed' \subseteq bclosed \cup ({bridge} \ {0})
      /\ bridge' \in {bridge, c} /\ (bridge' = c <=> a = "bridge")
      /\ (bridge' = c /\ bridge # 0 => bridge \in bclosed')
      /\ (bridge' = bridge => bclosed' = bclosed /\ rfd' = rfd)
  <2>1. broken \in [Conn -> SUBSET Cause]
    BY <1>1, Zenon DEF TypeOK
  <2>. QED
    BY <1>3, <2>1, Zenon DEF Cause
<1>8. (rfd # 0 => rfd \in Conn) /\ (bridge # 0 => bridge \in Conn)
  BY <1>1, Sockets, Zenon
<1>9. TypeOK'
  <2>1. bclosed' \subseteq 1 .. conns /\ bridge' \in (0 .. conns) \ bclosed'
    <3>1. /\ conns \in Nat /\ bridge \in 0 .. conns /\ bclosed \subseteq 1 .. conns
          /\ bridge \notin bclosed
      BY <1>1, Sockets, Zenon
    <3>2. c \in 0 .. conns /\ (bridge # 0 => bridge \in 1 .. conns)
      BY <1>3, <3>1
    <3>. QED
      BY <1>3, <1>7, <3>1, <3>2, Zenon
  <2>2. rfd' \in 0 .. conns /\ (pcR = "idle" <=> rfd' = 0)
    BY <1>1, <1>3, <1>7, Sockets, SMTT(30)
  <2>. QED
    BY <1>1, <1>2, <1>4, <1>6, <1>7, <2>1, <2>2, Zenon DEF TypeOK
<1>10. Ends'
  <2>1. ASSUME NEW b \in Conn
        PROVE  /\ acc'[b] = "none" <=> b > conns'
               /\ acc'[b] = "none" => stream'[b] = <<>>
               /\ acc'[b] # "swapPort"
               /\ b \in bclosed' => acc'[b] \in {"bridge", "closed"}
               /\ acc'[b] = "closed" => b \in bclosed'
    <3>1. CASE b = c
      <4>1. ~(c > conns) /\ c \notin bclosed'
        BY <1>1, <1>3, <1>7, Sockets, SMTT(30)
      <4>. QED
        BY <1>2, <1>4, <3>1, <4>1, Zenon
    <3>2. CASE b # c
      <4>1. /\ acc'[b] = acc[b] /\ stream'[b] = stream[b] /\ conns' = conns
            /\ b \in bclosed => b \in bclosed'
            /\ b \in bclosed' => b \in bclosed \/ acc[b] = "bridge"
        BY <1>1, <1>2, <1>4, <1>6, <1>7, <3>2, Zenon DEF Ends
      <4>2. /\ acc[b] = "none" <=> b > conns
            /\ acc[b] = "none" => stream[b] = <<>>
            /\ acc[b] # "swapPort"
            /\ b \in bclosed => acc[b] \in {"bridge", "closed"}
            /\ acc[b] = "closed" => b \in bclosed
        BY <1>1, Zenon DEF Ends
      <4>. QED
        BY <4>1, <4>2, Zenon
    <3>. QED
      BY <3>1, <3>2, Zenon
  <2>2. rfd' # 0 => acc'[rfd'] = "bridge" /\ (rfd' = bridge' \/ rfd' \in bclosed') /\ bridge' # 0
    <3>1. rfd # 0 => acc[rfd] = "bridge" /\ (rfd = bridge \/ rfd \in bclosed) /\ bridge # 0
      BY <1>1, Zenon DEF Ends
    <3>2. CASE rfd' = rfd
      BY <1>3, <1>4, <1>7, <1>8, <3>1, <3>2, Zenon
    <3>3. CASE rfd' # rfd
      BY <1>3, <1>4, <1>7, <3>3, Zenon
    <3>. QED
      BY <3>2, <3>3, Zenon
  <2>3. bridge' # 0 => acc'[bridge'] = "bridge"
    BY <1>1, <1>3, <1>4, <1>7, <1>8, Zenon DEF Ends
  <2>4. ~isEndianDiffer' /\ Sized(pcR', need')
    <3>1. ~isEndianDiffer /\ Sized(pcR, need)
      BY <1>1, Zenon DEF Ends
    <3>. QED
      BY <1>2, <3>1
  <2>. QED
    BY <2>1, <2>2, <2>3, <2>4, Zenon DEF Ends
<1>11. ASSUME NEW b \in Conn, Unbroken(b)'
       PROVE  Unbroken(b) /\ InOrder(b)' /\ End(b)' = End(b)
  <2>1. CASE b # c
    <3>1. broken[b] = {} /\ (b \notin bclosed' \/ rfd' = b)
      BY <1>7, <1>11, <2>1, Zenon DEF Unbroken, Live
    <3>2. rfd' = b <=> rfd = b
      <4>1. ASSUME rfd = b, rfd' # b PROVE FALSE
        <5>1. rfd' = c /\ b \notin bclosed' /\ rfd # 0 /\ bridge' # bridge
          BY <1>7, <3>1, <4>1, SMTT(30) DEF Conn
        <5>. QED
          BY <1>1, <1>7, <4>1, <5>1, Zenon DEF Ends
      <4>. QED
        BY <1>7, <2>1, <4>1, Zenon
    <3>3. Unbroken(b)
      BY <1>7, <3>1, <3>2, Zenon DEF Unbroken, Live
    <3>4. Expected(b)' = Expected(b) /\ (Opened(b)' => Opened(b))
      BY <1>2, <1>4, <2>1, <3>2, Zenon DEF Expected, Opened
    <3>. QED
      BY <1>1, <1>2, <1>6, <2>1, <3>3, <3>4, StaysInOrder, Zenon
  <2>2. CASE b = c
    <3>1. broken[c] = {} /\ rfd' = rfd
      BY <1>7, <1>11, <2>2, Zenon DEF Unbroken
    <3>2. Unbroken(c)
      BY <1>3, <3>1, Zenon DEF Unbroken, Live
    <3>3. InOrder(c) /\ stream[c][1].next = (IF a = "bridge" THEN Idle ELSE <<a, 4>>) /\ ~differ
      BY <1>1, <3>2, Zenon
    <3>4. Expected(c)' = stream[c][1].next
      <4>1. rfd' # c
        BY <1>3, <3>1, Zenon
      <4>2. CASE a = "bridge"
        BY <1>4, <3>3, <4>1, <4>2, Zenon DEF Expected
      <4>3. CASE a # "bridge"
        BY <1>4, <3>3, <4>3, Zenon DEF Expected
      <4>. QED
        BY <4>2, <4>3, Zenon
    <3>5. \E place : Expected(c) = <<place, 4>>
      BY Zenon DEF Expected
    <3>. QED
      BY <1>2, <1>5, <1>6, <2>2, <3>2, <3>3, <3>4, <3>5, TakesField, Zenon
  <2>. QED
    BY <2>1, <2>2, Zenon
<1>. QED
  BY <1>9, <1>10, <1>11, StepOfB, Zenon

\* The field that a handler reads.
LEMMA OpeningFound ==
  ASSUME IInv, NEW c \in Conn, acc[c] \in {"request", "port", "index"}, Len(stream[c]) >= 4
  PROVE  /\ Bytes(c, 4) \in [1 .. 4 -> Byte] /\ Bytes(c, 4)[1] = stream[c][1].v
         /\ Unbroken(c) => /\ stream[c][1].at = acc[c] /\ Meaning(differ, stream[c], 1)
                           /\ acc[c] # "request" => ~differ
<1>1. TypeOK /\ Ends /\ (Unbroken(c) => InOrder(c))
  BY Zenon DEF IInv
<1>2. stream[c] \in Seq(MarkedByte) /\ stream[c] # <<>> /\ differ \in BOOLEAN
  BY <1>1 DEF TypeOK
<1>3. Bytes(c, 4) \in [1 .. 4 -> Byte] /\ Bytes(c, 4)[1] = stream[c][1].v
  <2>1. Bytes(c, 4)[1] = stream[c][1].v
    BY SMTT(30) DEF Bytes
  <2>. QED
    BY <1>2, <2>1, FourBytes, Zenon
<1>4. ASSUME Unbroken(c)
      PROVE  /\ stream[c][1].at = acc[c] /\ Meaning(differ, stream[c], 1)
             /\ acc[c] # "request" => ~differ
  <2>1. InOrder(c)
    BY <1>1, <1>4, Zenon
  <2>2. <<stream[c][1].at, stream[c][1].left>> = Expected(c) /\ Meaning(differ, stream[c], 1)
    BY <1>2, <2>1, NextField, Zenon
  <2>3. Expected(c) = <<acc[c], 4>>
    BY DEF Expected
  <2>. QED
    BY <2>1, <2>2, <2>3, SMTT(30) DEF InOrder, Opened
<1>. QED
  BY <1>3, <1>4, Zenon

\* The request that opens a bridge: from a host of the other byte order it is unknown.
LEMMA ReadRequestStep ==
  ASSUME IInv, NEW c \in Conn, ReadRequest(c)
  PROVE  IInv'
<1>. DEFINE b == Bytes(c, 4)
<1>1. acc[c] = "request" /\ acc[c] \in {"request", "port", "index"} /\ Len(stream[c]) >= 4
  BY Zenon DEF ReadRequest
<1>2. /\ b \in [1 .. 4 -> Byte] /\ b[1] = stream[c][1].v
      /\ Unbroken(c) => stream[c][1].at = acc[c] /\ Meaning(differ, stream[c], 1)
  BY <1>1, OpeningFound, Zenon
<1>. HIDE DEF b
<1>3. CASE Request(b) = permanentBridge
  <2>1. ~EndianDiffers(b) /\ b[1] = permanentBridge
    BY <1>2, <1>3, RequestRead, Zenon
  <2>2. acc' = [acc EXCEPT ![c] = "port"] /\ bclosed' = bclosed /\ Taken(c, 4)
    BY <1>3, <2>1, Zenon DEF ReadRequest, b
  <2>3. Unbroken(c) => stream[c][1].next = <<"port", 4>> /\ ~differ
    BY <1>1, <1>2, <2>1, Zenon DEF Meaning
  <2>4. "port" \in {"port", "index", "bridge"} /\ "port" # "bridge"
    OBVIOUS
  <2>5. /\ UNCHANGED <<orders, writers, ends, back, isEndianDiffer, pcR, req, need>>
        /\ UNCHANGED <<bclosed, bridge, rfd, broken>>
    BY <2>2, Zenon DEF ReadRequest, reader
  <2>6. Unbroken(c) => stream[c][1].next = (IF "port" = "bridge" THEN Idle ELSE <<"port", 4>>) /\ ~differ
    BY <2>3, <2>4, Zenon
  <2>. QED
    BY <1>1, <2>2, <2>4, <2>5, <2>6, HandlerStep, Zenon
<1>4. CASE Request(b) # permanentBridge
  <2>1. acc[c] \in {"accepted", "request", "port", "swapPort", "index"} /\ Closed(c)
    BY <1>1, <1>4, Zenon DEF ReadRequest, b
  <2>. QED
    BY <2>1, ClosedStep, Zenon DEF ReadRequest
<1>. QED
  BY <1>3, <1>4

\* The port of A.
LEMMA ReadPortStep ==
  ASSUME IInv, NEW c \in Conn, ReadPort(c)
  PROVE  IInv'
<1>1. Ends
  BY Zenon DEF IInv
<1>2. acc[c] = "port" /\ acc[c] \in {"request", "port", "index"} /\ Len(stream[c]) >= 4
  BY <1>1, Zenon DEF ReadPort, Ends
<1>3. Unbroken(c) => stream[c][1].next = <<"index", 4>> /\ ~differ
  BY <1>2, OpeningFound, Zenon DEF Meaning
<1>4. CASE /\ acc' = [acc EXCEPT ![c] = "index"]
           /\ isEndianDiffer' = (acc[c] = "swapPort")
           /\ UNCHANGED bclosed
           /\ Taken(c, 4)
  <2>1. isEndianDiffer' = isEndianDiffer
    <3>1. ~isEndianDiffer /\ isEndianDiffer \in BOOLEAN /\ isEndianDiffer' = FALSE
      BY <1>1, <1>2, <1>4, Zenon DEF Ends, IInv, TypeOK
    <3>. QED
      BY <3>1, Zenon
  <2>2. "index" \in {"port", "index", "bridge"} /\ "index" # "bridge"
    OBVIOUS
  <2>3. /\ UNCHANGED <<orders, writers, ends, back, isEndianDiffer, pcR, req, need>>
        /\ UNCHANGED <<bclosed, bridge, rfd, broken>>
    BY <1>4, <2>1, Zenon DEF ReadPort, reader
  <2>4. Unbroken(c) => stream[c][1].next = (IF "index" = "bridge" THEN Idle ELSE <<"index", 4>>) /\ ~differ
    BY <1>3, <2>2, Zenon
  <2>. QED
    BY <1>2, <1>4, <2>2, <2>3, <2>4, HandlerStep, Zenon
<1>5. CASE Closed(c) /\ UNCHANGED isEndianDiffer
  <2>1. acc[c] \in {"accepted", "request", "port", "swapPort", "index"}
    BY <1>2, Zenon
  <2>. QED
    BY <1>5, <2>1, ClosedStep, Zenon DEF ReadPort
<1>. QED
  BY <1>4, <1>5, Zenon DEF ReadPort

\* The index and setSocket, after which the connection is the bridge.
LEMMA ReadIndexStep ==
  ASSUME IInv, NEW c \in Conn, ReadIndex(c)
  PROVE  IInv'
<1>1. acc[c] = "index" /\ acc[c] \in {"request", "port", "index"} /\ Len(stream[c]) >= 4
  BY Zenon DEF ReadIndex
<1>2. Unbroken(c) => stream[c][1].next = Idle /\ ~differ
  BY <1>1, OpeningFound, Zenon DEF Meaning
<1>3. "bridge" \in {"port", "index", "bridge"}
  OBVIOUS
<1>4. Unbroken(c) => stream[c][1].next = (IF "bridge" = "bridge" THEN Idle ELSE <<"bridge", 4>>) /\ ~differ
  BY <1>2, Zenon
<1>. QED
  BY <1>1, <1>3, <1>4, HandlerStep, Zenon DEF ReadIndex

\* Steps that touch only what B sends to A.
LEMMA BackStep ==
  ASSUME IInv, UNCHANGED <<orders, writers, ends, stream, broken, bclosed, bridge, isEndianDiffer, reader>>,
         back' \in [Conn -> Seq(Byte)], \A b \in Conn : Len(back'[b]) <= 2,
         acc' = acc \/ \E c \in Conn : acc[c] = "accepted" /\ acc' = [acc EXCEPT ![c] = "request"]
  PROVE  IInv'
<1>1. TypeOK /\ Ends /\ \A b \in Conn : Unbroken(b) => InOrder(b)
  BY Zenon DEF IInv
<1>2. /\ differ' = differ /\ greeted' = greeted /\ mutex' = mutex /\ todo' = todo /\ shake' = shake
      /\ went' = went /\ pc' = pc /\ sent' = sent /\ sock' = sock /\ conns' = conns
      /\ stream' = stream /\ broken' = broken /\ bclosed' = bclosed
      /\ bridge' = bridge /\ isEndianDiffer' = isEndianDiffer
      /\ pcR' = pcR /\ req' = req /\ need' = need /\ rfd' = rfd
  BY Zenon DEF orders, writers, ends, reader
<1>3. /\ acc' \in [Conn -> {"none", "accepted", "request", "port", "swapPort", "index", "bridge", "closed"}]
      /\ \A b \in Conn : acc'[b] = acc[b] \/ (acc[b] = "accepted" /\ acc'[b] = "request")
  BY <1>1, Zenon DEF TypeOK
<1>4. TypeOK'
  BY <1>1, <1>2, <1>3, Zenon DEF TypeOK
<1>5. Ends'
  <2>1. ASSUME NEW b \in Conn
        PROVE  /\ acc'[b] = "none" <=> b > conns'
               /\ acc'[b] = "none" => stream'[b] = <<>>
               /\ acc'[b] # "swapPort"
               /\ b \in bclosed' => acc'[b] \in {"bridge", "closed"}
               /\ acc'[b] = "closed" => b \in bclosed'
    BY <1>1, <1>2, <1>3, Zenon DEF Ends
  <2>2. (rfd # 0 => rfd \in Conn) /\ (bridge # 0 => bridge \in Conn)
    BY <1>1, WireAssumption DEF TypeOK, Conn
  <2>3. /\ rfd' # 0 => acc'[rfd'] = "bridge" /\ (rfd' = bridge' \/ rfd' \in bclosed') /\ bridge' # 0
        /\ bridge' # 0 => acc'[bridge'] = "bridge"
    BY <1>1, <1>2, <1>3, <2>2, Zenon DEF Ends
  <2>4. ~isEndianDiffer' /\ Sized(pcR', need')
    <3>1. ~isEndianDiffer /\ Sized(pcR, need)
      BY <1>1, Zenon DEF Ends
    <3>. QED
      BY <1>2, <3>1
  <2>. QED
    BY <2>1, <2>3, <2>4, Zenon DEF Ends
<1>6. ASSUME NEW b \in Conn, Unbroken(b)'
      PROVE  Unbroken(b) /\ InOrder(b)' /\ End(b)' = End(b)
  <2>1. Unbroken(b)
    BY <1>2, <1>6, Zenon DEF Unbroken, Live
  <2>2. Expected(b)' = Expected(b) /\ (Opened(b)' => Opened(b))
    BY <1>2, <1>3, Zenon DEF Expected, Opened
  <2>. QED
    BY <1>1, <1>2, <2>1, <2>2, StaysInOrder, Zenon
<1>. QED
  BY <1>4, <1>5, <1>6, StepOfB, Zenon

\* B sends its byte order.
LEMMA SendEndianStep ==
  ASSUME IInv, NEW c \in Conn, SendEndian(c)
  PROVE  IInv'
<1>1. back \in [Conn -> Seq(Byte)] /\ \A b \in Conn : Len(back[b]) <= 2
  BY DEF IInv, TypeOK
<1>2. <<1, 0>> \in Seq(Byte) /\ Len(<<1, 0>>) = 2
  BY DEF Byte
<1>3. back' = [back EXCEPT ![c] = <<1, 0>>]
  BY Zenon DEF SendEndian
<1>4. back' \in [Conn -> Seq(Byte)] /\ \A b \in Conn : Len(back'[b]) <= 2
  BY <1>1, <1>2, <1>3
<1>. QED
  BY <1>4, BackStep, Zenon DEF SendEndian

\* The receive thread of A takes a byte that the connecting thread waits for.
LEMMA RcvTakesStep ==
  ASSUME IInv, RcvTakes
  PROVE  IInv'
<1>1. back \in [Conn -> Seq(Byte)] /\ (\A b \in Conn : Len(back[b]) <= 2) /\ sock \in Conn
  BY Sockets, Zenon DEF IInv, TypeOK, RcvTakes
<1>2. Tail(back[sock]) \in Seq(Byte) /\ Len(Tail(back[sock])) <= 2
  BY <1>1 DEF RcvTakes
<1>3. back' \in [Conn -> Seq(Byte)] /\ \A b \in Conn : Len(back'[b]) <= 2
  BY <1>1, <1>2 DEF RcvTakes
<1>. QED
  BY <1>3, BackStep, Zenon DEF RcvTakes, accepts

-----------------------------------------------------------------------------
(* Steps of A                                                              *)

\* The part of the type invariant that is about the threads of A.
ThreadsOK ==
  /\ mutex \in Thread \cup {"free"}
  /\ mutex # "free" => pc[mutex] # "idle" /\ todo[mutex] # <<>>
  /\ pc \in [Thread -> {"idle", "write", "connect", "endian"}]
  /\ todo \in [Thread -> Seq(Seq(MarkedByte))]
  /\ shake \in [Thread -> 0 .. 3] /\ went \in [Thread -> 0 .. conns]

\* A step of one thread, which may take the free mutex or give its own back.
LEMMA ThreadStep ==
  ASSUME IInv, NEW t \in Thread, NEW p \in {"idle", "write", "connect", "endian"},
         NEW q \in Seq(Seq(MarkedByte)), NEW h \in 0 .. 3, NEW w \in 0 .. conns',
         pc' = [pc EXCEPT ![t] = p], todo' = [todo EXCEPT ![t] = q],
         shake' = [shake EXCEPT ![t] = h], went' = [went EXCEPT ![t] = w],
         conns' \in Nat, conns <= conns', differ' = differ,
         \/ mutex' = mutex
         \/ mutex = "free" /\ mutex' = t
         \/ mutex = t /\ mutex' = "free",
         mutex' = t => p # "idle" /\ q # <<>>,
         ThreadInv(t)', sock' \in {0, sock} \/ sock' > conns
  PROVE  ThreadsOK' /\ \A u \in Thread : ThreadInv(u)'
<1>1. TypeOK /\ \A u \in Thread : ThreadInv(u)
  BY Zenon DEF IInv
<1>2. /\ mutex \in Thread \cup {"free"}
      /\ mutex # "free" => pc[mutex] # "idle" /\ todo[mutex] # <<>>
      /\ pc \in [Thread -> {"idle", "write", "connect", "endian"}]
      /\ todo \in [Thread -> Seq(Seq(MarkedByte))]
      /\ shake \in [Thread -> 0 .. 3] /\ went \in [Thread -> 0 .. conns] /\ conns \in Nat
  BY <1>1, Sockets, Zenon DEF TypeOK
<1>3. /\ pc'[t] = p /\ todo'[t] = q /\ shake'[t] = h /\ went'[t] = w
      /\ \A u \in Thread : u # t => /\ pc'[u] = pc[u] /\ todo'[u] = todo[u]
                                    /\ shake'[u] = shake[u] /\ went'[u] = went[u]
  BY <1>2
<1>4. "free" \notin Thread
  BY DEF Thread
<1>5. ThreadsOK'
  <2>1. went' \in [Thread -> 0 .. conns']
    <3>1. \A u \in Thread : went[u] \in 0 .. conns'
      BY <1>2
    <3>. QED
      BY <1>2, <3>1
  <2>2. /\ pc' \in [Thread -> {"idle", "write", "connect", "endian"}]
        /\ todo' \in [Thread -> Seq(Seq(MarkedByte))] /\ shake' \in [Thread -> 0 .. 3]
    BY <1>2
  <2>3. mutex' \in Thread \cup {"free"}
    BY <1>2, Zenon
  <2>4. mutex' # "free" => pc'[mutex'] # "idle" /\ todo'[mutex'] # <<>>
    BY <1>2, <1>3, <1>4, Zenon
  <2>. QED
    BY <2>1, <2>2, <2>3, <2>4, Zenon DEF ThreadsOK
<1>6. ASSUME NEW u \in Thread, u # t PROVE ThreadInv(u)'
  <2>1. mutex = u => mutex' = u
    BY <1>4, <1>6, Zenon
  <2>2. went[u] # 0 /\ (pc[u] # "write" \/ shake[u] > 0) => went[u] # sock'
    <3>1. went[u] \in 0 .. conns
      BY <1>2
    <3>2. sock' > conns => went[u] # sock'
      BY <1>2, <3>1
    <3>. QED
      BY <1>1, <3>2, Zenon DEF ThreadInv
  <2>3. /\ Queue(differ', todo'[u], shake'[u])
        /\ pc'[u] = "idle" => todo'[u] = <<>> /\ shake'[u] = 0 /\ went'[u] = 0
        /\ pc'[u] # "idle" => shake'[u] < Len(todo'[u]) /\ (mutex' = u \/ u = "periodic")
        /\ pc'[u] # "write" => shake'[u] = 0
        /\ pc'[u] # "idle" /\ went'[u] = 0 => StartOf(todo'[u][shake'[u] + 1], 1) = Idle
    BY <1>1, <1>3, <1>6, <2>1, Zenon DEF ThreadInv
  <2>. QED
    BY <1>3, <1>6, <2>2, <2>3, Zenon DEF ThreadInv
<1>. QED
  BY <1>5, <1>6, Zenon

\* The message is written or given up.
LEMMA ReturnStep ==
  ASSUME IInv, NEW t \in Thread, Return(t), differ' = differ, conns' = conns, sock' \in {0, sock}
  PROVE  ThreadsOK' /\ \A u \in Thread : ThreadInv(u)'
<1>1. conns \in Nat /\ mutex \in Thread \cup {"free"} /\ TypeOK
  BY Sockets, Zenon DEF IInv, TypeOK
<1>2. /\ pc' = [pc EXCEPT ![t] = "idle"] /\ todo' = [todo EXCEPT ![t] = <<>>]
      /\ shake' = [shake EXCEPT ![t] = 0] /\ went' = [went EXCEPT ![t] = 0]
      /\ mutex' = IF mutex = t THEN "free" ELSE mutex
  BY Zenon DEF Return, Goto
<1>3. /\ "idle" \in {"idle", "write", "connect", "endian"} /\ <<>> \in Seq(Seq(MarkedByte))
      /\ 0 \in 0 .. 3 /\ 0 \in 0 .. conns' /\ conns <= conns' /\ "free" \notin Thread
  BY <1>1 DEF Thread
<1>4. mutex' # t
  BY <1>2, <1>3, Zenon
<1>5. pc'[t] = "idle" /\ todo'[t] = <<>> /\ shake'[t] = 0 /\ went'[t] = 0
  BY <1>1, <1>2 DEF TypeOK
<1>6. ThreadInv(t)'
  <2>1. Queue(differ', <<>>, 0)
    BY DEF Queue
  <2>. QED
    BY <1>5, <2>1, Zenon DEF ThreadInv
<1>. QED
  BY <1>1, <1>2, <1>3, <1>4, <1>6, ThreadStep, Zenon

\* A step of A that writes nothing leaves the connections in order.
LEMMA StepOfA ==
  ASSUME IInv, UNCHANGED <<orders, conns, stream, broken, accepts, reader>>,
         greeted' \in BOOLEAN, sent' \in 0 .. MaxEvents, sock' \in {0, sock},
         back' \in [Conn -> Seq(Byte)], \A c \in Conn : Len(back'[c]) <= 2,
         ThreadsOK', \A u \in Thread : ThreadInv(u)', WriterInv'
  PROVE  IInv'
<1>1. TypeOK /\ Ends /\ \A c \in Conn : Unbroken(c) => InOrder(c)
  BY Zenon DEF IInv
<1>2. /\ differ' = differ /\ conns' = conns /\ stream' = stream /\ broken' = broken
      /\ acc' = acc /\ bclosed' = bclosed /\ bridge' = bridge /\ isEndianDiffer' = isEndianDiffer
      /\ pcR' = pcR /\ req' = req /\ need' = need /\ rfd' = rfd
  BY Zenon DEF orders, accepts, reader
<1>3. TypeOK'
  <2>1. sock' \in 0 .. conns
    BY <1>1, WireAssumption DEF TypeOK
  <2>. QED
    BY <1>1, <1>2, <2>1, Zenon DEF TypeOK, ThreadsOK
<1>4. Ends'
  BY <1>1, <1>2, Zenon DEF Ends
<1>5. ASSUME NEW c \in Conn, Unbroken(c)' PROVE InOrder(c)'
  BY <1>1, <1>2, <1>5, Zenon DEF Unbroken, Live, InOrder, Expected, Opened
<1>. QED
  BY <1>3, <1>4, <1>5, Zenon DEF IInv

\* The one writer of a connection stays the same.
LEMMA StaysWriter ==
  ASSUME IInv, NEW t \in Thread, UNCHANGED <<orders, sock, stream, broken, accepts, reader>>,
         \A u \in Thread : u # t => /\ pc'[u] = pc[u] /\ todo'[u] = todo[u]
                                    /\ shake'[u] = shake[u] /\ went'[u] = went[u],
         sock # 0 => /\ Busy(t)' <=> Busy(t)
                     /\ Busy(t) /\ Continues(t) => Continues(t)'
  PROVE  WriterInv'
<1>1. /\ differ' = differ /\ sock' = sock /\ stream' = stream /\ broken' = broken
      /\ acc' = acc /\ bclosed' = bclosed /\ bridge' = bridge
      /\ pcR' = pcR /\ need' = need /\ rfd' = rfd
  BY Zenon DEF orders, accepts, reader
<1>. SUFFICES ASSUME sock # 0, Unbroken(sock)'
              PROVE  /\ \A u \in Thread : (Busy(u) /\ (\A v \in Thread \ {u} : ~Busy(v)) => Continues(u))'
                     /\ ((\A u \in Thread : ~Busy(u)) => End(sock) = Idle)'
  BY <1>1, Zenon DEF WriterInv
<1>2. Unbroken(sock) /\ End(sock)' = End(sock)
  BY <1>1, Zenon DEF Unbroken, Live, End, Expected
<1>3. /\ \A u \in Thread : Busy(u) /\ (\A v \in Thread \ {u} : ~Busy(v)) => Continues(u)
      /\ (\A u \in Thread : ~Busy(u)) => End(sock) = Idle
  BY <1>2, Zenon DEF IInv, WriterInv
<1>4. \A u \in Thread : Busy(u)' <=> Busy(u)
  BY <1>1, Zenon DEF Busy
<1>5. \A u \in Thread : Busy(u) /\ Continues(u) => Continues(u)'
  <2>1. ASSUME NEW u \in Thread, u # t, Continues(u) PROVE Continues(u)'
    BY <1>1, <1>2, <2>1, Zenon DEF Continues
  <2>. QED
    BY <2>1, Zenon
<1>. QED
  BY <1>2, <1>3, <1>4, <1>5, Zenon

\* Steps that leave alone what B sends.
LEMMA BackTyped ==
  ASSUME IInv, back' = back
  PROVE  back' \in [Conn -> Seq(Byte)] /\ \A c \in Conn : Len(back'[c]) <= 2
BY Zenon DEF IInv, TypeOK

\* Steps after which A holds no connection.
LEMMA NoSocket ==
  ASSUME sock' = 0
  PROVE  WriterInv'
BY Zenon DEF WriterInv

\* The receive thread of A finds that B has closed.
LEMMA RcvEndsStep ==
  ASSUME IInv, RcvEnds
  PROVE  IInv'
<1>1. TypeOK /\ \A t \in Thread : ThreadInv(t)
  BY Zenon DEF IInv
<1>2. /\ sock' = 0 /\ differ' = differ /\ greeted' = greeted /\ mutex' = mutex /\ todo' = todo
      /\ shake' = shake /\ went' = went /\ pc' = pc /\ sent' = sent /\ conns' = conns /\ back' = back
  BY Zenon DEF RcvEnds, orders, writers, bytes
<1>3. ThreadsOK' /\ greeted' \in BOOLEAN /\ sent' \in 0 .. MaxEvents
  BY <1>1, <1>2, Zenon DEF TypeOK, ThreadsOK
<1>4. ASSUME NEW t \in Thread PROVE ThreadInv(t)'
  BY <1>1, <1>2, Zenon DEF ThreadInv
<1>5. UNCHANGED <<orders, conns, stream, broken, accepts, reader>>
  BY Zenon DEF RcvEnds, bytes
<1>. QED
  BY <1>2, <1>3, <1>4, <1>5, BackTyped, NoSocket, StepOfA, Zenon

\* A message is given up, with the socket closed or B no longer reading from it.
LEMMA GivenUp ==
  ASSUME IInv, NEW t \in Thread, Return(t), sock' = 0 \/ (sock' = sock /\ ~Live(sock)),
         UNCHANGED <<orders, greeted, sent, conns, bytes, accepts, reader>>
  PROVE  IInv'
<1>1. /\ differ' = differ /\ greeted' = greeted /\ sent' = sent /\ conns' = conns /\ back' = back
      /\ broken' = broken /\ bclosed' = bclosed /\ rfd' = rfd
  BY Zenon DEF orders, bytes, accepts, reader
<1>2. greeted' \in BOOLEAN /\ sent' \in 0 .. MaxEvents /\ sock' \in {0, sock}
  BY <1>1, Zenon DEF IInv, TypeOK
<1>3. ThreadsOK' /\ \A u \in Thread : ThreadInv(u)'
  BY <1>1, <1>2, ReturnStep, Zenon
<1>4. WriterInv'
  <2>1. CASE sock' = 0
    BY <2>1, NoSocket, Zenon
  <2>2. CASE sock' = sock /\ ~Live(sock)
    BY <1>1, <2>2, Zenon DEF WriterInv, Unbroken, Live
  <2>. QED
    BY <2>1, <2>2
<1>5. UNCHANGED <<orders, conns, stream, broken, accepts, reader>>
  BY Zenon DEF bytes
<1>. QED
  BY <1>1, <1>2, <1>3, <1>4, <1>5, BackTyped, StepOfA, Zenon

\* A write fails, on a connection that B has closed or that is gone.
LEMMA WriteFailsStep ==
  ASSUME IInv, NEW t \in Thread, WriteFails(t)
  PROVE  IInv'
<1>1. sock' = 0 \/ (sock' = sock /\ ~Live(sock))
  BY Zenon DEF WriteFails, Live
<1>. QED
  BY <1>1, GivenUp, Zenon DEF WriteFails

\* No connection, or no byte order in time.
LEMMA ConnectFailsStep ==
  ASSUME IInv, NEW t \in Thread, ConnectFails(t)
  PROVE  IInv'
BY GivenUp, Zenon DEF ConnectFails

\* The thread that finds the socket closed goes to open the bridge.
LEMMA FindClosedStep ==
  ASSUME IInv, NEW t \in Thread, FindClosed(t)
  PROVE  IInv'
<1>1. TypeOK /\ ThreadInv(t)
  BY Zenon DEF IInv
<1>2. /\ pc[t] = "write" /\ sock = 0 /\ shake[t] = 0 /\ pc' = [pc EXCEPT ![t] = "connect"]
      /\ differ' = differ /\ greeted' = greeted /\ mutex' = mutex /\ todo' = todo /\ shake' = shake
      /\ went' = went /\ sent' = sent /\ conns' = conns /\ sock' = sock /\ back' = back
  BY Zenon DEF FindClosed, Goto, orders, ends, bytes
<1>3. /\ todo' = [todo EXCEPT ![t] = todo[t]] /\ shake' = [shake EXCEPT ![t] = shake[t]]
      /\ went' = [went EXCEPT ![t] = went[t]]
      /\ todo[t] \in Seq(Seq(MarkedByte)) /\ shake[t] \in 0 .. 3 /\ went[t] \in 0 .. conns'
      /\ conns' \in Nat /\ conns <= conns' /\ sock' \in {0, sock} /\ pc'[t] = "connect"
  BY <1>1, <1>2, WireAssumption DEF TypeOK
<1>4. "connect" \in {"idle", "write", "connect", "endian"} /\ todo[t] # <<>>
  BY <1>1, <1>2, <1>3 DEF ThreadInv
<1>5. ThreadInv(t)'
  BY <1>1, <1>2, <1>3 DEF ThreadInv
<1>6. "connect" # "idle"
  OBVIOUS
<1>7. ThreadsOK' /\ \A u \in Thread : ThreadInv(u)'
  BY <1>2, <1>3, <1>4, <1>5, <1>6, ThreadStep, Zenon
<1>8. greeted' \in BOOLEAN /\ sent' \in 0 .. MaxEvents /\ sock' = 0
  BY <1>1, <1>2, Zenon DEF TypeOK
<1>9. UNCHANGED <<orders, conns, stream, broken, accepts, reader>>
  BY Zenon DEF FindClosed, bytes, ends
<1>. QED
  BY <1>2, <1>3, <1>7, <1>8, <1>9, BackTyped, NoSocket, StepOfA, Zenon

\* A thread begins a message.
LEMMA BeginStep ==
  ASSUME IInv, NEW t \in Thread, pc[t] = "idle", NEW q, Chain(differ, q), StartOf(q[1], 1) = Idle,
         todo' = [todo EXCEPT ![t] = q], Goto(t, "write"),
         (mutex = "free" /\ mutex' = t) \/ (mutex' = mutex /\ t = "periodic"),
         greeted' \in BOOLEAN, sent' \in 0 .. MaxEvents,
         UNCHANGED <<orders, shake, went, ends, bytes, accepts, reader>>
  PROVE  IInv'
<1>1. TypeOK /\ ThreadInv(t)
  BY Zenon DEF IInv
<1>2. /\ pc' = [pc EXCEPT ![t] = "write"] /\ differ' = differ /\ shake' = shake /\ went' = went
      /\ conns' = conns /\ sock' = sock /\ back' = back
  BY Zenon DEF Goto, orders, ends, bytes
<1>3. shake[t] = 0 /\ went[t] = 0
  BY <1>1, Zenon DEF ThreadInv
<1>4. Queue(differ, q, 0) /\ q \in Seq(Seq(MarkedByte)) /\ q # <<>> /\ 0 < Len(q)
  <2>1. Queue(differ, q, 0) /\ q \in Seq(Seq(MarkedByte)) /\ q # <<>>
    BY Zenon DEF Chain, Queue
  <2>. QED
    BY <2>1
<1>5. /\ shake' = [shake EXCEPT ![t] = 0] /\ went' = [went EXCEPT ![t] = 0]
      /\ 0 \in 0 .. 3 /\ 0 \in 0 .. conns' /\ conns' \in Nat /\ conns <= conns'
      /\ sock' \in {0, sock} /\ pc'[t] = "write" /\ todo'[t] = q
      /\ \A u \in Thread : u # t => /\ pc'[u] = pc[u] /\ todo'[u] = todo[u]
                                    /\ shake'[u] = shake[u] /\ went'[u] = went[u]
  BY <1>1, <1>2, <1>3, WireAssumption DEF TypeOK
<1>6. "write" \in {"idle", "write", "connect", "endian"} /\ "write" # "idle" /\ "write" # "endian"
  OBVIOUS
<1>7. mutex' = t \/ t = "periodic"
  BY Zenon
<1>8. ThreadInv(t)'
  <2>1. 0 + 1 = 1
    OBVIOUS
  <2>. QED
    BY <1>2, <1>3, <1>4, <1>5, <1>6, <1>7, <2>1, Zenon DEF ThreadInv
<1>9. ThreadsOK' /\ \A u \in Thread : ThreadInv(u)'
  BY <1>2, <1>4, <1>5, <1>6, <1>8, ThreadStep, Zenon
<1>10. sock # 0 => ~Busy(t) /\ ~Busy(t)'
  BY <1>2, <1>3, <1>5 DEF Busy
<1>11. UNCHANGED <<orders, conns, stream, broken, accepts, reader>> /\ sock' = sock
  BY Zenon DEF bytes, ends
<1>12. WriterInv'
  <2>1. UNCHANGED <<orders, sock, stream, broken, accepts, reader>>
    BY <1>11, Zenon
  <2>. QED
    BY <1>5, <1>10, <2>1, StaysWriter, Zenon
<1>. QED
  BY <1>2, <1>5, <1>9, <1>11, <1>12, BackTyped, StepOfA, Zenon

\* A thread takes the mutex and begins a message.
LEMMA SendStep ==
  ASSUME IInv, NEW t \in Thread, Send(t)
  PROVE  IInv'
<1>1. TypeOK
  BY Zenon DEF IInv
<1>2. PICK m \in Sends(t) : todo' = [todo EXCEPT ![t] = Marked(m)]
  BY Zenon DEF Send
<1>3. Chain(differ, Marked(m)) /\ StartOf(Marked(m)[1], 1) = Idle
  BY <1>1, SendsChain, Zenon DEF TypeOK
<1>4. greeted' \in BOOLEAN /\ sent' \in 0 .. MaxEvents
  <2>1. /\ greeted' = greeted /\ greeted \in BOOLEAN /\ sent' = sent + 1
        /\ sent + conns < MaxEvents /\ sent \in 0 .. MaxEvents /\ conns \in Nat /\ MaxEvents \in Nat
    BY <1>1, WireAssumption, Sockets, Zenon DEF Send, TypeOK
  <2>. QED
    BY <2>1
<1>. QED
  BY <1>2, <1>3, <1>4, BeginStep, Zenon DEF Send

\* The periodic thread begins its first ok without the mutex.
LEMMA SendUnlockedStep ==
  ASSUME IInv, SendUnlocked
  PROVE  IInv'
<1>1. TypeOK /\ "periodic" \in Thread
  BY Zenon DEF IInv, Thread
<1>2. ok \in Byte \ (News \cup {clbkCmd})
  BY DEF ok, Byte, News, clbkCmd, newNode, removeNode, oldLeaderDied, toNewNodeAddPartitions
<1>3. PICK q : q = Marked(<<Field("idle", <<ok>>)>>)
  BY Zenon
<1>4. Chain(differ, q) /\ StartOf(q[1], 1) = Idle
  BY <1>1, <1>2, <1>3, ByteMessage, Zenon DEF TypeOK
<1>5. greeted' \in BOOLEAN /\ sent' \in 0 .. MaxEvents
  BY <1>1, Zenon DEF SendUnlocked, TypeOK
<1>. QED
  BY <1>1, <1>3, <1>4, <1>5, BeginStep, Zenon DEF SendUnlocked

\* The byte order of B has arrived, and the fields that open the bridge go first.
LEMMA ReadEndianStep ==
  ASSUME IInv, NEW t \in Thread, ReadEndian(t)
  PROVE  IInv'
<1>. DEFINE q == Opening \o todo[t]
<1>1. TypeOK /\ ThreadInv(t)
  BY Zenon DEF IInv
<1>2. /\ pc[t] = "endian" /\ sock # 0 /\ pc' = [pc EXCEPT ![t] = "write"]
      /\ differ' = differ /\ greeted' = greeted /\ mutex' = mutex /\ todo' = [todo EXCEPT ![t] = q]
      /\ shake' = [shake EXCEPT ![t] = 3] /\ back' = [back EXCEPT ![sock] = <<>>]
      /\ went' = went /\ sent' = sent /\ conns' = conns /\ sock' = sock
  BY Zenon DEF ReadEndian, Goto, orders, ends
<1>3. /\ Chain(differ, Opening) /\ Len(Opening) = 3 /\ StartOf(Opening[1], 1) = <<"request", 4>>
  BY <1>1, OpeningMessage, Zenon DEF TypeOK
<1>4. shake[t] = 0 /\ todo[t] \in Seq(Seq(MarkedByte)) /\ 0 < Len(todo[t])
  BY <1>1, <1>2 DEF ThreadInv, TypeOK
<1>5. Chain(differ, todo[t])
  <2>1. todo[t] # <<>>
    BY <1>4
  <2>. QED
    BY <1>1, <1>4, <2>1, Zenon DEF ThreadInv, Chain
<1>6. /\ Queue(differ, q, 3) /\ Len(q) = Len(todo[t]) + 3
      /\ q[1] = Opening[1] /\ q[3 + 1] = todo[t][1]
  <2>1. Chain(differ, Opening)
    BY <1>3, Zenon
  <2>2. Before(differ, Opening, todo[t])
    BY <1>5, <2>1, QueueOpened, Zenon
  <2>. QED
    BY <1>3, <2>2, Zenon DEF Before
<1>. HIDE DEF q
<1>7. q \in Seq(Seq(MarkedByte)) /\ 3 < Len(q) /\ q # <<>>
  <2>1. q \in Seq(Seq(MarkedByte))
    BY <1>6, Zenon DEF Queue
  <2>. QED
    BY <1>4, <1>6, <2>1
<1>8. /\ went' = [went EXCEPT ![t] = went[t]]
      /\ 3 \in 0 .. 3 /\ went[t] \in 0 .. conns' /\ conns' \in Nat /\ conns <= conns'
      /\ sock' \in {0, sock} /\ pc'[t] = "write" /\ todo'[t] = q /\ shake'[t] = 3
      /\ \A u \in Thread : u # t => /\ pc'[u] = pc[u] /\ todo'[u] = todo[u]
                                    /\ shake'[u] = shake[u] /\ went'[u] = went[u]
  BY <1>1, <1>2, WireAssumption DEF TypeOK
<1>9. "write" \in {"idle", "write", "connect", "endian"} /\ "write" # "idle" /\ "write" # "endian"
  OBVIOUS
<1>10. ThreadInv(t)'
  <2>1. 0 + 1 = 1 /\ "endian" # "write" /\ "endian" # "idle"
    OBVIOUS
  <2>2. went[t] = 0 => StartOf(todo[t][1], 1) = Idle
    BY <1>1, <1>2, <1>4, <2>1, Zenon DEF ThreadInv
  <2>3. mutex = t \/ t = "periodic"
    BY <1>1, <1>2, <2>1, Zenon DEF ThreadInv
  <2>4. went[t] # 0 => went[t] # sock
    BY <1>1, <1>2, <2>1, Zenon DEF ThreadInv
  <2>. QED
    BY <1>2, <1>6, <1>7, <1>8, <1>9, <2>2, <2>3, <2>4, Zenon DEF ThreadInv
<1>11. ThreadsOK' /\ \A u \in Thread : ThreadInv(u)'
  BY <1>2, <1>7, <1>8, <1>9, <1>10, ThreadStep, Zenon
<1>12. UNCHANGED <<orders, conns, stream, broken, accepts, reader>> /\ sock' = sock
  BY Zenon DEF ReadEndian, ends
<1>13. WriterInv'
  <2>1. UNCHANGED <<orders, sock, stream, broken, accepts, reader>>
    BY <1>12, Zenon
  <2>2. Busy(t) /\ Busy(t)'
    BY <1>2, <1>8 DEF Busy
  <2>3. End(sock)' = End(sock)
    BY <1>12, Zenon DEF End, Expected, accepts, reader
  <2>4. Continues(t) => Continues(t)'
    BY <1>2, <1>3, <1>6, <1>8, <1>9, <2>3, Zenon DEF Continues
  <2>. QED
    BY <1>8, <2>1, <2>2, <2>4, StaysWriter, Zenon
<1>14. back' \in [Conn -> Seq(Byte)] /\ \A c \in Conn : Len(back'[c]) <= 2
  <2>1. <<>> \in Seq(Byte) /\ Len(<<>>) = 0
    OBVIOUS
  <2>2. back \in [Conn -> Seq(Byte)] /\ \A c \in Conn : Len(back[c]) <= 2
    BY <1>1, Zenon DEF TypeOK
  <2>3. back' = [back EXCEPT ![sock] = <<>>]
    BY <1>2, Zenon
  <2>4. \A c \in Conn : back'[c] = <<>> \/ back'[c] = back[c]
    BY <2>2, <2>3
  <2>5. \A c \in Conn : Len(back'[c]) <= 2
    BY <2>1, <2>2, <2>4
  <2>6. back' \in [Conn -> Seq(Byte)]
    BY <2>1, <2>2, <2>3, Zenon
  <2>. QED
    BY <2>5, <2>6
<1>15. greeted' \in BOOLEAN /\ sent' \in 0 .. MaxEvents
  BY <1>1, <1>2, Zenon DEF TypeOK
<1>. QED
  BY <1>8, <1>11, <1>12, <1>13, <1>14, <1>15, StepOfA, Zenon

\* A new connection: nothing is on it, and only the thread that opens it writes to it
\* unless the periodic thread meets it with its first ok.
LEMMA connectCStep ==
  ASSUME IInv, NEW t \in Thread, connectC(t)
  PROVE  IInv'
<1>1. /\ TypeOK /\ Ends /\ ThreadInv(t) /\ \A c \in Conn : Unbroken(c) => InOrder(c)
  BY Zenon DEF IInv
<1>a. conns \in Nat
  BY <1>1, WireAssumption DEF TypeOK
<1>b. PICK n \in Nat : n = conns + 1
  BY <1>a
<1>2. /\ pc[t] = "connect" /\ conns' = n /\ sock' = n /\ acc' = [acc EXCEPT ![n] = "accepted"]
      /\ pc' = [pc EXCEPT ![t] = "endian"] /\ differ' = differ /\ greeted' = greeted
      /\ mutex' = mutex /\ todo' = todo /\ shake' = shake /\ went' = went /\ sent' = sent
      /\ stream' = stream /\ back' = back /\ broken' = broken
      /\ bclosed' = bclosed /\ bridge' = bridge /\ isEndianDiffer' = isEndianDiffer
      /\ pcR' = pcR /\ req' = req /\ need' = need /\ rfd' = rfd
  BY <1>b, Zenon DEF connectC, Goto, orders, bytes, reader
<1>3. /\ conns \in Nat /\ n \in Nat /\ n > conns /\ n \in Conn /\ n # 0 /\ MaxConns \in Nat /\ n <= MaxConns
      /\ rfd \in 0 .. conns /\ bridge \in 0 .. conns /\ bclosed \subseteq 1 .. conns
      /\ (rfd # 0 => rfd \in Conn) /\ (bridge # 0 => bridge \in Conn)
  <2>1. conns < MaxConns
    BY Zenon DEF connectC
  <2>2. /\ MaxConns \in Nat /\ n \in Nat /\ n > conns /\ n # 0 /\ n <= MaxConns
        /\ n \in Conn
    BY <1>1, <1>b, <2>1, Sockets DEF Conn
  <2>. QED
    BY <1>1, <2>2, Sockets, Zenon
<1>4. n \notin bclosed /\ rfd # n /\ bridge # n
  BY <1>3
<1>5. acc[n] = "none" /\ stream[n] = <<>>
  BY <1>1, <1>3 DEF Ends
<1>6. /\ acc'[n] = "accepted" /\ \A c \in Conn : c # n => acc'[c] = acc[c]
      /\ acc' \in [Conn -> {"none", "accepted", "request", "port", "swapPort", "index", "bridge", "closed"}]
  BY <1>1, <1>2, <1>3 DEF TypeOK
<1>7. /\ todo' = [todo EXCEPT ![t] = todo[t]] /\ shake' = [shake EXCEPT ![t] = shake[t]]
      /\ went' = [went EXCEPT ![t] = went[t]] /\ pc'[t] = "endian"
      /\ todo[t] \in Seq(Seq(MarkedByte)) /\ shake[t] \in 0 .. 3 /\ went[t] \in 0 .. conns
  BY <1>1, <1>2 DEF TypeOK
<1>8. ThreadsOK' /\ \A u \in Thread : ThreadInv(u)'
  <2>1. todo[t] # <<>>
    BY <1>1, <1>2, <1>7 DEF ThreadInv
  <2>2. ThreadInv(t)'
    <3>1. "connect" # "write" /\ "connect" # "idle" /\ "endian" # "idle" /\ "endian" # "write"
      OBVIOUS
    <3>2. went[t] # n
      BY <1>3, <1>7
    <3>. QED
      BY <1>1, <1>2, <1>7, <3>1, <3>2, Zenon DEF ThreadInv
  <2>3. /\ "endian" \in {"idle", "write", "connect", "endian"} /\ "endian" # "idle"
        /\ went[t] \in 0 .. conns' /\ conns' \in Nat /\ conns <= conns' /\ sock' > conns
    BY <1>2, <1>3, <1>7
  <2>. QED
    BY <1>2, <1>7, <2>1, <2>2, <2>3, ThreadStep, Zenon
<1>9. TypeOK'
  <2>1. /\ conns' \in 0 .. MaxConns /\ sock' \in 0 .. conns' /\ rfd \in 0 .. conns'
        /\ bclosed \subseteq 1 .. conns' /\ bridge \in (0 .. conns') \ bclosed
    BY <1>1, <1>2, <1>3, Sockets, SMTT(30)
  <2>. QED
    BY <1>1, <1>2, <1>6, <1>8, <2>1, Zenon DEF TypeOK, ThreadsOK
<1>10. Ends'
  <2>1. ASSUME NEW c \in Conn
        PROVE  /\ acc'[c] = "none" <=> c > conns'
               /\ acc'[c] = "none" => stream'[c] = <<>>
               /\ acc'[c] # "swapPort"
               /\ c \in bclosed' => acc'[c] \in {"bridge", "closed"}
               /\ acc'[c] = "closed" => c \in bclosed'
    <3>1. CASE c = n
      BY <1>2, <1>3, <1>4, <1>6, <3>1
    <3>2. CASE c # n
      <4>1. c > conns <=> c > n
        BY <1>b, <1>3, <3>2 DEF Conn
      <4>. QED
        BY <1>1, <1>2, <1>6, <3>2, <4>1, Zenon DEF Ends
    <3>. QED
      BY <3>1, <3>2
  <2>2. rfd' # 0 => acc'[rfd'] = "bridge" /\ (rfd' = bridge' \/ rfd' \in bclosed') /\ bridge' # 0
    BY <1>1, <1>2, <1>3, <1>4, <1>6, Zenon DEF Ends
  <2>3. bridge' # 0 => acc'[bridge'] = "bridge"
    BY <1>1, <1>2, <1>3, <1>4, <1>6, Zenon DEF Ends
  <2>4. ~isEndianDiffer' /\ Sized(pcR', need')
    <3>1. ~isEndianDiffer /\ Sized(pcR, need)
      BY <1>1, Zenon DEF Ends
    <3>. QED
      BY <1>2, <3>1
  <2>. QED
    BY <2>1, <2>2, <2>3, <2>4 DEF Ends
<1>11. Expected(n)' = <<"request", 4>> /\ ~Opened(n)' /\ End(n)' = <<"request", 4>>
  <2>1. Expected(n)' = <<"request", 4>> /\ ~Opened(n)'
    BY <1>6 DEF Expected, Opened
  <2>. QED
    BY <1>2, <1>5, <2>1, Zenon DEF End
<1>12. ASSUME NEW c \in Conn, Unbroken(c)' PROVE InOrder(c)'
  <2>1. CASE c = n
    <3>1. Framed(differ, <<>>)
      BY DEF Framed
    <3>. QED
      BY <1>2, <1>5, <1>11, <2>1, <3>1, Zenon DEF InOrder
  <2>2. CASE c # n
    <3>1. Unbroken(c) /\ Expected(c)' = Expected(c) /\ (Opened(c)' => Opened(c))
      BY <1>2, <1>6, <1>12, <2>2, Zenon DEF Unbroken, Live, Expected, Opened
    <3>. QED
      BY <1>1, <1>2, <3>1, StaysInOrder, Zenon
  <2>. QED
    BY <2>1, <2>2
<1>13. WriterInv'
  <2>1. Busy(t)'
    BY <1>7, Zenon DEF Busy
  <2>2. End(sock)' = <<"request", 4>>
    BY <1>2, <1>11, Zenon DEF End, Expected
  <2>3. Continues(t)'
    BY <1>7, <2>2, Zenon DEF Continues
  <2>4. ASSUME NEW u \in Thread, (Busy(u) /\ (\A v \in Thread \ {u} : ~Busy(v)))' PROVE Continues(u)'
    <3>1. u = t
      BY <2>1, <2>4, Zenon
    <3>. QED
      BY <2>3, <3>1, Zenon
  <2>. QED
    BY <2>1, <2>4, Zenon DEF WriterInv
<1>. QED
  BY <1>8, <1>9, <1>10, <1>12, <1>13, Zenon DEF IInv

\* The thread that writes: what is left of its message.
LEMMA WriteThread ==
  ASSUME IInv, NEW t \in Thread, writeC(t)
  PROVE  ThreadsOK' /\ \A u \in Thread : ThreadInv(u)'
<1>. DEFINE q == todo[t]
            h == shake[t]
            g == IF h > 0 THEN h - 1 ELSE 0
            w == IF h > 0 THEN went[t] ELSE sock
<1>1. TypeOK /\ ThreadInv(t)
  BY Zenon DEF IInv
<1>2. pc[t] = "write" /\ sock # 0 /\ differ' = differ /\ conns' = conns /\ sock' = sock
  BY Zenon DEF writeC, orders, ends
<1>3. CASE Len(q) = 1
  <2>1. Return(t)
    BY <1>3, Zenon DEF writeC
  <2>. QED
    BY <1>2, <2>1, ReturnStep, Zenon
<1>4. CASE Len(q) # 1
  <2>1. /\ todo' = [todo EXCEPT ![t] = Tail(q)] /\ shake' = [shake EXCEPT ![t] = g]
        /\ went' = [went EXCEPT ![t] = w] /\ mutex' = mutex /\ pc' = pc
    BY <1>4, Zenon DEF writeC
  <2>2. q \in Seq(Seq(MarkedByte)) /\ h \in 0 .. 3 /\ went[t] \in 0 .. conns /\ sock \in 0 .. conns /\ conns \in Nat
    BY <1>1, WireAssumption DEF TypeOK
  <2>3. Queue(differ, q, h) /\ h < Len(q) /\ (mutex = t \/ t = "periodic")
    <3>1. "write" # "idle"
      OBVIOUS
    <3>. QED
      BY <1>1, <1>2, <3>1, Zenon DEF ThreadInv
  <2>4. h \in Nat /\ Len(q) \in Nat /\ Len(q) > 1
    <3>1. PICK z \in Nat : z = Len(q)
      BY <2>2
    <3>2. PICK i \in 0 .. 3 : i = h
      BY <2>2, Zenon
    <3>3. i < z /\ z # 1
      BY <1>4, <2>3, <3>1, <3>2, Zenon
    <3>4. i \in Nat /\ z > 1
      BY <3>3
    <3>. QED
      BY <3>1, <3>2, <3>4, Zenon
  <2>5. /\ Queue(differ, Tail(q), g) /\ Len(Tail(q)) = Len(q) - 1
        /\ \A k \in 1 .. Len(q) - 1 : Tail(q)[k] = q[k + 1]
    BY <2>3, <2>4, QueueTail, Zenon
  <2>6. /\ Tail(q) \in Seq(Seq(MarkedByte)) /\ Tail(q) # <<>> /\ g < Len(Tail(q)) /\ g \in 0 .. 3
        /\ w \in 0 .. conns'
    <3>1. Tail(q) \in Seq(Seq(MarkedByte))
      BY <2>5, Zenon DEF Queue
    <3>2. g < Len(q) - 1 /\ g \in 0 .. 3 /\ w \in 0 .. conns'
      BY <1>2, <2>2, <2>3, <2>4
    <3>3. Tail(q) # <<>>
      <4>1. PICK z \in Nat : z = Len(q) /\ z > 1
        BY <2>4, Zenon
      <4>2. z > 1
        BY <4>1, Zenon
      <4>3. z - 1 # 0
        BY <4>2
      <4>4. Len(<<>>) = 0
        OBVIOUS
      <4>. QED
        BY <2>5, <4>1, <4>3, <4>4, Zenon
    <3>. QED
      BY <2>5, <3>1, <3>2, <3>3, Zenon
  <2>7. /\ todo'[t] = Tail(q) /\ shake'[t] = g /\ went'[t] = w /\ pc'[t] = "write"
        /\ pc' = [pc EXCEPT ![t] = "write"]
    BY <1>1, <1>2, <2>1 DEF TypeOK
  <2>8. w = 0 => StartOf(Tail(q)[g + 1], 1) = Idle
    <3>. SUFFICES ASSUME w = 0 PROVE StartOf(Tail(q)[g + 1], 1) = Idle
      BY Zenon
    <3>1. h > 0 /\ went[t] = 0
      BY <1>2
    <3>2. g + 1 = h /\ h \in 1 .. Len(q) - 1
      BY <2>2, <2>3, <2>4, <3>1
    <3>3. StartOf(q[h + 1], 1) = Idle
      <4>1. "write" # "idle"
        OBVIOUS
      <4>. QED
        BY <1>1, <1>2, <3>1, <4>1, Zenon DEF ThreadInv
    <3>. HIDE DEF g, h, q
    <3>. QED
      BY <2>5, <3>2, <3>3, Zenon
  <2>9. w # 0 /\ g > 0 => w # sock
    <3>. SUFFICES ASSUME w # 0, g > 0 PROVE w # sock
      OBVIOUS
    <3>1. h > 0 /\ w = went[t]
      BY <2>2
    <3>. QED
      BY <1>1, <3>1, Zenon DEF ThreadInv
  <2>. HIDE DEF q, h, g, w
  <2>10. ThreadInv(t)'
    <3>1. "write" # "idle"
      OBVIOUS
    <3>. QED
      BY <1>2, <2>1, <2>3, <2>5, <2>6, <2>7, <2>8, <2>9, <3>1, Zenon DEF ThreadInv
  <2>11. /\ "write" \in {"idle", "write", "connect", "endian"} /\ "write" # "idle"
         /\ conns' \in Nat /\ conns <= conns'
    BY <1>2, <2>2
  <2>. QED
    BY <1>2, <2>1, <2>6, <2>7, <2>10, <2>11, ThreadStep, Zenon
<1>. QED
  BY <1>3, <1>4

\* On a connection that stays unbroken the thread is the only one that has begun
\* something, and what is there ends where its next field goes.
LEMMA WritesWhereItEnds ==
  ASSUME IInv, NEW t \in Thread, writeC(t), Unbroken(sock)'
  PROVE  /\ Unbroken(sock) /\ \A u \in Thread : u # t => ~Busy(u)
         /\ End(sock) = StartOf(todo[t][1], 1)
<1>1. TypeOK /\ WriterInv /\ \A u \in Thread : ThreadInv(u)
  BY Zenon DEF IInv
<1>2. /\ pc[t] = "write" /\ sock # 0 /\ sock' = sock /\ bclosed' = bclosed /\ rfd' = rfd
      /\ pc["periodic"] \in {"idle", "write", "connect", "endian"}
  BY <1>1, Zenon DEF writeC, ends, accepts, reader, TypeOK, Thread
<1>3. sock \in Conn /\ broken \in [Conn -> SUBSET Cause]
  BY <1>1, <1>2, WireAssumption DEF TypeOK, Conn
<1>4. /\ broken[sock] = {} /\ ~Amidst(t) /\ (went[t] \in {0, sock} \/ shake[t] # 0)
  <2>1. broken'[sock] = {}
    BY <1>2, Zenon DEF Unbroken
  <2>2. broken'[sock] = broken[sock]
          \cup (IF Amidst(t) THEN {"stray"} ELSE {})
          \cup (IF went[t] \notin {0, sock} /\ shake[t] = 0 THEN {"continued"} ELSE {})
    BY <1>3 DEF writeC
  <2>. QED
    BY <2>1, <2>2
<1>5. Unbroken(sock)
  BY <1>2, <1>4, Zenon DEF Unbroken, Live
<1>6. ASSUME NEW u \in Thread, u # t PROVE ~Busy(u)
  <2>. SUFFICES ASSUME Busy(u) PROVE FALSE
    OBVIOUS
  <2>1. pc[u] # "idle"
    <3>1. pc[u] = "idle" => shake[u] = 0 /\ went[u] = 0
      BY <1>1, Zenon DEF ThreadInv
    <3>2. pc[u] = "endian" \/ shake[u] > 0 \/ went[u] = sock
      BY Zenon DEF Busy
    <3>. QED
      BY <1>2, <3>1, <3>2
  <2>2. (mutex = t \/ t = "periodic") /\ (mutex = u \/ u = "periodic")
    <3>1. "write" # "idle"
      OBVIOUS
    <3>. QED
      BY <1>1, <1>2, <2>1, <3>1, Zenon DEF ThreadInv
  <2>3. "periodic" \in {t, u} /\ mutex # "periodic" /\ pc["periodic"] # "idle"
    <3>1. "write" # "idle"
      OBVIOUS
    <3>. QED
      BY <1>2, <1>6, <2>1, <2>2, <3>1, Zenon
  <2>4. Amidst(t)
    BY <1>6, <2>3, Zenon DEF Amidst, Busy
  <2>. QED
    BY <1>4, <2>4, Zenon
<1>7. End(sock) = StartOf(todo[t][1], 1)
  <2>1. CASE Busy(t)
    <3>1. Continues(t)
      BY <1>1, <1>2, <1>5, <1>6, <2>1, Zenon DEF WriterInv
    <3>2. "write" # "endian"
      OBVIOUS
    <3>. QED
      BY <1>2, <3>1, <3>2, Zenon DEF Continues
  <2>2. CASE ~Busy(t)
    <3>1. End(sock) = Idle
      BY <1>1, <1>2, <1>5, <1>6, <2>2, Zenon DEF WriterInv
    <3>2. shake[t] = 0 /\ went[t] = 0
      <4>1. shake[t] \in 0 .. 3
        BY <1>1 DEF TypeOK
      <4>2. ~(shake[t] > 0) /\ went[t] # sock
        BY <2>2, Zenon DEF Busy
      <4>3. shake[t] = 0
        BY <4>1, <4>2
      <4>. QED
        BY <1>4, <4>2, <4>3, Zenon
    <3>3. StartOf(todo[t][1], 1) = Idle
      <4>1. "write" # "idle" /\ shake[t] + 1 = 1
        BY <3>2
      <4>2. StartOf(todo[t][shake[t] + 1], 1) = Idle
        BY <1>1, <1>2, <3>2, <4>1, Zenon DEF ThreadInv
      <4>. QED
        BY <4>1, <4>2, Zenon
    <3>. QED
      BY <3>1, <3>3, Zenon
  <2>. QED
    BY <2>1, <2>2
<1>. QED
  BY <1>5, <1>6, <1>7, Zenon

\* The field becomes a part of what is there.
LEMMA WritesField ==
  ASSUME IInv, NEW t \in Thread, writeC(t), Unbroken(sock)'
  PROVE  InOrder(sock)' /\ End(sock)' = todo[t][1][1].next
<1>. DEFINE s == stream[sock]
            f == todo[t][1]
<1>1. TypeOK /\ ThreadInv(t) /\ \A c \in Conn : Unbroken(c) => InOrder(c)
  BY Zenon DEF IInv
<1>2. /\ pc[t] = "write" /\ sock # 0 /\ differ' = differ /\ sock' = sock /\ acc' = acc
      /\ pcR' = pcR /\ need' = need /\ rfd' = rfd
  BY Zenon DEF writeC, orders, ends, accepts, reader
<1>3. sock \in Conn /\ stream \in [Conn -> Seq(MarkedByte)] /\ s \in Seq(MarkedByte) /\ differ \in BOOLEAN
  BY <1>1, <1>2, WireAssumption DEF TypeOK, Conn
<1>4. Unbroken(sock) /\ End(sock) = StartOf(f, 1)
  BY WritesWhereItEnds, Zenon
<1>5. InOrder(sock)
  BY <1>1, <1>3, <1>4, Zenon
<1>6. todo[t] \in Seq(Seq(MarkedByte)) /\ todo[t] # <<>>
  <2>1. todo[t] \in Seq(Seq(MarkedByte)) /\ shake[t] \in 0 .. 3
    BY <1>1 DEF TypeOK
  <2>2. "write" # "idle"
    OBVIOUS
  <2>3. shake[t] < Len(todo[t])
    BY <1>1, <1>2, <2>2, Zenon DEF ThreadInv
  <2>. QED
    BY <2>1, <2>3, SMTT(30)
<1>7. f \in Seq(MarkedByte) /\ f = Head(todo[t])
  BY <1>6
<1>8. IsField(differ, f)
  <2>1. 1 \in 1 .. Len(todo[t])
    BY <1>6
  <2>. QED
    BY <1>1, <2>1, Zenon DEF ThreadInv, Queue
<1>9. stream'[sock] = s \o f
  <2>1. stream' = [stream EXCEPT ![sock] = s \o f]
    BY <1>4, <1>7, Zenon DEF writeC, Unbroken, Live
  <2>. QED
    BY <1>3, <2>1
<1>10. s # <<>> => StartOf(f, 1) = s[Len(s)].next
  BY <1>4, Zenon DEF End
<1>11. s = <<>> => StartOf(f, 1) = Expected(sock)
  BY <1>4, Zenon DEF End
<1>12. Framed(differ, s) /\ (s # <<>> => StartOf(s, 1) = Expected(sock)) /\ (Opened(sock) => ~differ)
  BY <1>5, Zenon DEF InOrder
<1>. HIDE DEF f, s
<1>13. PICK r : r = s \o f
  BY Zenon
<1>14. /\ Framed(differ, r) /\ r # <<>> /\ r[Len(r)].next = f[1].next
       /\ StartOf(r, 1) = IF s = <<>> THEN StartOf(f, 1) ELSE StartOf(s, 1)
  <2>1. /\ Framed(differ, s \o f) /\ s \o f # <<>>
        /\ (s \o f)[Len(s \o f)].next = f[1].next
        /\ StartOf(s \o f, 1) = IF s = <<>> THEN StartOf(f, 1) ELSE StartOf(s, 1)
    BY <1>3, <1>7, <1>8, <1>10, <1>12, Appended, Zenon
  <2>. QED
    BY <1>13, <2>1, Zenon
<1>15. Expected(sock)' = Expected(sock) /\ (Opened(sock)' => Opened(sock)) /\ stream'[sock] = r
  BY <1>2, <1>9, <1>13, Zenon DEF Expected, Opened
<1>16. StartOf(r, 1) = Expected(sock)
  BY <1>11, <1>12, <1>14, Zenon
<1>17. InOrder(sock)'
  BY <1>2, <1>12, <1>14, <1>15, <1>16, Zenon DEF InOrder
<1>18. End(sock)' = f[1].next
  BY <1>2, <1>14, <1>15, Zenon DEF End
<1>. QED
  BY <1>17, <1>18, Zenon DEF f

\* After the last field of the opening or of the message the connection has no
\* writer, and before it the thread goes on with the next field.
LEMMA StaysOneWriter ==
  ASSUME IInv, NEW t \in Thread, writeC(t)
  PROVE  WriterInv'
<1>. DEFINE q == todo[t]
            h == shake[t]
<1>1. TypeOK /\ ThreadInv(t)
  BY Zenon DEF IInv
<1>2. pc[t] = "write" /\ sock # 0 /\ sock' = sock
  BY Zenon DEF writeC, ends
<1>. SUFFICES ASSUME Unbroken(sock)'
              PROVE  /\ \A u \in Thread : (Busy(u) /\ (\A v \in Thread \ {u} : ~Busy(v)) => Continues(u))'
                     /\ ((\A u \in Thread : ~Busy(u)) => End(sock) = Idle)'
  BY Zenon DEF WriterInv
<1>3. (\A u \in Thread : u # t => ~Busy(u)) /\ End(sock)' = q[1][1].next
  BY WritesWhereItEnds, WritesField, Zenon
<1>4. /\ q \in Seq(Seq(MarkedByte)) /\ h \in 0 .. 3 /\ pc \in [Thread -> {"idle", "write", "connect", "endian"}]
      /\ todo \in [Thread -> Seq(Seq(MarkedByte))] /\ shake \in [Thread -> 0 .. 3]
      /\ went \in [Thread -> 0 .. conns]
  BY <1>1 DEF TypeOK
<1>5. Queue(differ, q, h) /\ h < Len(q)
  <2>1. "write" # "idle"
    OBVIOUS
  <2>. QED
    BY <1>1, <1>2, <2>1, Zenon DEF ThreadInv
<1>6. PICK z \in Nat : z = Len(q) /\ h < z
  BY <1>4, <1>5
<1>7. 1 \in 1 .. z
  BY <1>4, <1>6
<1>8. /\ 1 = h \/ 1 = z => q[1][1].next = Idle
      /\ 1 # h /\ 1 < z => StartOf(q[1 + 1], 1) = q[1][1].next
  BY <1>5, <1>6, <1>7, Zenon DEF Queue
<1>9. ASSUME NEW u \in Thread, u # t PROVE ~Busy(u)'
  <2>1. pc'[u] = pc[u] /\ shake'[u] = shake[u] /\ went'[u] = went[u]
    BY <1>4, <1>9 DEF writeC, Return, Goto
  <2>. QED
    BY <1>2, <1>3, <1>9, <2>1, Zenon DEF Busy
<1>10. CASE ~Busy(t)' /\ q[1][1].next = Idle
  BY <1>3, <1>9, <1>10, Zenon
<1>11. CASE Busy(t)' /\ pc'[t] = "write" /\ StartOf(todo'[t][1], 1) = q[1][1].next
  <2>1. "write" # "endian"
    OBVIOUS
  <2>2. Continues(t)'
    BY <1>3, <1>11, <2>1, Zenon DEF Continues
  <2>. QED
    BY <1>9, <1>11, <2>2, Zenon
<1>12. CASE z = 1
  <2>1. Return(t)
    BY <1>6, <1>12, Zenon DEF writeC
  <2>2. pc'[t] = "idle" /\ shake'[t] = 0 /\ went'[t] = 0
    BY <1>4, <2>1 DEF Return, Goto
  <2>3. ~Busy(t)'
    <3>1. sock' # 0
      BY <1>2, Zenon
    <3>. QED
      BY <2>2, <3>1 DEF Busy
  <2>. QED
    BY <1>8, <1>10, <1>12, <2>3, Zenon
<1>13. CASE z # 1
  <2>1. /\ todo' = [todo EXCEPT ![t] = Tail(q)]
        /\ shake' = [shake EXCEPT ![t] = IF h > 0 THEN h - 1 ELSE 0]
        /\ went' = [went EXCEPT ![t] = IF h > 0 THEN went[t] ELSE sock] /\ pc' = pc
    BY <1>6, <1>13, Zenon DEF writeC
  <2>2. 1 < z /\ 1 \in 1 .. z - 1 /\ z > 1 /\ h \in Nat
    BY <1>4, <1>6, <1>7, <1>13
  <2>3. /\ todo'[t] = Tail(q) /\ shake'[t] = (IF h > 0 THEN h - 1 ELSE 0)
        /\ went'[t] = (IF h > 0 THEN went[t] ELSE sock) /\ pc'[t] = "write"
    BY <1>2, <1>4, <2>1
  <2>4. Tail(q)[1] = q[1 + 1]
    BY <1>5, <1>6, <2>2, QueueTail, Zenon
  <2>5. CASE h = 1
    <3>1. shake'[t] = 0 /\ went'[t] = went[t] /\ h > 0
      BY <2>3, <2>5
    <3>2. went[t] # sock
      BY <1>1, <1>2, <3>1, Zenon DEF ThreadInv
    <3>3. "write" # "endian" /\ ~(0 > 0)
      OBVIOUS
    <3>4. ~Busy(t)'
      BY <1>2, <2>3, <3>1, <3>2, <3>3, Zenon DEF Busy
    <3>. QED
      BY <1>8, <1>10, <2>5, <3>4, Zenon
  <2>6. CASE h # 1
    <3>1. shake'[t] > 0 \/ went'[t] = sock
      BY <1>4, <2>3, <2>6
    <3>2. Busy(t)'
      BY <1>2, <3>1, Zenon DEF Busy
    <3>3. StartOf(todo'[t][1], 1) = q[1][1].next
      <4>1. 1 # h
        BY <2>6
      <4>. QED
        BY <1>8, <2>2, <2>3, <2>4, <4>1, Zenon
    <3>. QED
      BY <1>11, <2>3, <3>2, <3>3, Zenon
  <2>. QED
    BY <2>5, <2>6
<1>. QED
  BY <1>12, <1>13

\* A field is written: it continues the connection, or its thread breaks it.
LEMMA writeCStep ==
  ASSUME IInv, NEW t \in Thread, writeC(t)
  PROVE  IInv'
<1>1. TypeOK /\ Ends /\ ThreadInv(t) /\ \A c \in Conn : Unbroken(c) => InOrder(c)
  BY Zenon DEF IInv
<1>2. /\ sock # 0 /\ differ' = differ /\ greeted' = greeted /\ sent' = sent /\ sock' = sock
      /\ conns' = conns /\ back' = back /\ acc' = acc /\ bclosed' = bclosed /\ bridge' = bridge
      /\ isEndianDiffer' = isEndianDiffer /\ pcR' = pcR /\ req' = req /\ need' = need /\ rfd' = rfd
  BY Zenon DEF writeC, orders, ends, accepts, reader
<1>3. /\ sock \in Conn /\ sock \in 0 .. conns /\ conns \in Nat
      /\ stream \in [Conn -> Seq(MarkedByte)] /\ broken \in [Conn -> SUBSET Cause]
      /\ todo[t] \in Seq(Seq(MarkedByte)) /\ shake[t] \in 0 .. 3
  BY <1>1, <1>2, Sockets, Zenon DEF TypeOK
<1>4. ThreadsOK' /\ \A u \in Thread : ThreadInv(u)'
  BY WriteThread, Zenon
<1>5. Head(todo[t]) \in Seq(MarkedByte)
  <2>1. pc[t] = "write" /\ "write" # "idle"
    BY DEF writeC
  <2>2. shake[t] < Len(todo[t])
    BY <1>1, <2>1, Zenon DEF ThreadInv
  <2>. QED
    BY <1>3, <2>2
<1>6. /\ stream' \in [Conn -> Seq(MarkedByte)]
      /\ \A c \in Conn : c # sock => stream'[c] = stream[c]
  <2>1. stream[sock] \o Head(todo[t]) \in Seq(MarkedByte)
    BY <1>3, <1>5
  <2>. QED
    BY <1>3, <2>1 DEF writeC
<1>7. /\ broken' \in [Conn -> SUBSET Cause]
      /\ \A c \in Conn : c # sock => broken'[c] = broken[c]
  BY <1>3 DEF writeC, Cause
<1>8. TypeOK'
  BY <1>1, <1>2, <1>4, <1>6, <1>7, Zenon DEF TypeOK, ThreadsOK
<1>9. Ends'
  <2>1. acc[sock] # "none"
    <3>1. ~(sock > conns)
      BY <1>3
    <3>. QED
      BY <1>1, <1>3, <3>1, Zenon DEF Ends
  <2>2. \A c \in Conn : acc[c] = "none" => stream'[c] = <<>>
    BY <1>1, <1>6, <2>1, Zenon DEF Ends
  <2>. QED
    BY <1>1, <1>2, <2>2, Zenon DEF Ends
<1>10. ASSUME NEW c \in Conn, Unbroken(c)' PROVE InOrder(c)'
  <2>1. CASE c = sock
    <3>1. Unbroken(sock)'
      BY <1>2, <1>10, <2>1, Zenon DEF Unbroken, Live
    <3>2. InOrder(sock)'
      BY <3>1, WritesField, Zenon
    <3>. QED
      BY <1>2, <2>1, <3>2, Zenon DEF InOrder, Expected, Opened
  <2>2. CASE c # sock
    <3>1. Unbroken(c) /\ Expected(c)' = Expected(c) /\ (Opened(c)' => Opened(c))
      BY <1>2, <1>7, <1>10, <2>2, Zenon DEF Unbroken, Live, Expected, Opened
    <3>. QED
      BY <1>1, <1>2, <1>6, <2>2, <3>1, StaysInOrder, Zenon
  <2>. QED
    BY <2>1, <2>2
<1>. QED
  BY <1>4, <1>8, <1>9, <1>10, StaysOneWriter, Zenon DEF IInv

-----------------------------------------------------------------------------
(* The theorems                                                            *)

\* The invariant holds before the first connection.
LEMMA InitInv ==
  ASSUME Init
  PROVE  IInv
<1>1. /\ MaxConns \in Nat /\ MaxEvents \in Nat /\ 0 \in 0 .. MaxConns /\ 0 \in 0 .. MaxEvents
      /\ <<>> \in Seq(Seq(MarkedByte)) /\ <<>> \in Seq(MarkedByte) /\ <<>> \in Seq(Byte)
      /\ 0 \in 0 .. 0 /\ 0 \in 0 .. 3 /\ 0 \in Byte /\ 1 \in Nat \ {0} /\ Len(<<>>) = 0
  BY WireAssumption DEF Byte
<1>2. TypeOK
  <2>1. /\ differ \in BOOLEAN /\ greeted \in BOOLEAN /\ isEndianDiffer \in BOOLEAN
        /\ mutex \in Thread \cup {"free"} /\ mutex = "free" /\ sent \in 0 .. MaxEvents
        /\ pc \in [Thread -> {"idle", "write", "connect", "endian"}]
        /\ todo \in [Thread -> Seq(Seq(MarkedByte))]
    BY <1>1, Zenon DEF Init
  <2>2. /\ shake \in [Thread -> 0 .. 3] /\ went \in [Thread -> 0 .. conns]
        /\ conns \in 0 .. MaxConns /\ sock \in 0 .. conns
        /\ stream \in [Conn -> Seq(MarkedByte)]
        /\ back \in [Conn -> Seq(Byte)] /\ \A c \in Conn : Len(back[c]) <= 2
    BY <1>1 DEF Init
  <2>3. /\ broken \in [Conn -> SUBSET Cause]
        /\ acc \in [Conn -> {"none", "accepted", "request", "port", "swapPort", "index", "bridge", "closed"}]
        /\ bclosed \subseteq 1 .. conns /\ bridge \in (0 .. conns) \ bclosed
        /\ pcR \in {"idle", "type", "body", "entries", "key", "length", "data"}
        /\ req \in Byte /\ need \in Nat \ {0} /\ rfd \in 0 .. conns
        /\ pcR = "idle" <=> rfd = 0
    BY <1>1 DEF Init, ok
  <2>. QED
    BY <2>1, <2>2, <2>3, Zenon DEF TypeOK
<1>3. Ends
  BY <1>1 DEF Init, Ends, Conn, Sized
<1>4. WriterInv
  BY Zenon DEF Init, WriterInv
<1>5. ASSUME NEW t \in Thread PROVE ThreadInv(t)
  <2>1. todo[t] = <<>> /\ shake[t] = 0 /\ went[t] = 0 /\ pc[t] = "idle"
    BY DEF Init
  <2>2. Queue(differ, <<>>, 0)
    BY DEF Queue
  <2>. QED
    BY <2>1, <2>2, Zenon DEF ThreadInv
<1>6. ASSUME NEW c \in Conn PROVE InOrder(c)
  <2>1. stream[c] = <<>> /\ acc[c] = "none"
    BY DEF Init
  <2>2. Framed(differ, <<>>)
    BY DEF Framed
  <2>. QED
    BY <2>1, <2>2 DEF InOrder, Opened
<1>. QED
  BY <1>2, <1>3, <1>4, <1>5, <1>6, Zenon DEF IInv

\* Every step of A and of B keeps it.
LEMMA NextInv ==
  ASSUME IInv, [Next]_vars
  PROVE  IInv'
<1>1. ASSUME NEW t \in Thread, Send(t) PROVE IInv'
  BY <1>1, SendStep, Zenon
<1>2. ASSUME NEW t \in Thread, Writing(t) PROVE IInv'
  BY <1>2, writeCStep, WriteFailsStep, FindClosedStep, Zenon DEF Writing
<1>3. ASSUME NEW t \in Thread, Connecting(t) PROVE IInv'
  BY <1>3, connectCStep, ReadEndianStep, ConnectFailsStep, Zenon DEF Connecting
<1>4. CASE SendUnlocked \/ RcvTakes \/ RcvEnds
  BY <1>4, SendUnlockedStep, RcvTakesStep, RcvEndsStep, Zenon
<1>5. ASSUME NEW c \in Conn, Handler(c) PROVE IInv'
  BY <1>5, SendEndianStep, ReadRequestStep, ReadPortStep, ReadIndexStep, HandlerFailsStep, Zenon DEF Handler
<1>6. CASE RcvRequest \/ RcvClosed
  BY <1>6, RcvRequestStep, RcvClosedStep, Zenon
<1>7. CASE Reading
  BY <1>7, ReadTypeStep, LastFieldStep, ReadEntriesStep, ReadKeyStep, ReadLengthStep, ShortReadStep,
     Zenon DEF Reading
<1>8. CASE UNCHANGED vars
  <2>1. /\ UNCHANGED <<orders, writers, ends, stream, broken, bclosed, bridge, isEndianDiffer, reader>>
        /\ back' = back /\ acc' = acc
    BY <1>8, Zenon DEF vars, bytes, accepts
  <2>. QED
    BY <2>1, BackTyped, BackStep, Zenon
<1>. QED
  BY <1>1, <1>2, <1>3, <1>4, <1>5, <1>6, <1>7, <1>8, Zenon DEF Next

\* In select, the next byte of the bridge is the first of a message.
LEMMA InvImpliesInStep ==
  ASSUME IInv
  PROVE  InStep
<1>. SUFFICES ASSUME pcR = "idle", bridge # 0, stream[bridge] # <<>>, broken[bridge] = {}
              PROVE  Head(stream[bridge]).at = "idle"
  BY Zenon DEF InStep
<1>1. TypeOK /\ Ends /\ \A c \in Conn : Unbroken(c) => InOrder(c)
  BY Zenon DEF IInv
<1>2. /\ bridge \in Conn /\ bridge \notin bclosed /\ differ \in BOOLEAN /\ rfd = 0
      /\ stream[bridge] \in Seq(MarkedByte) /\ acc[bridge] = "bridge"
  BY <1>1, WireAssumption DEF TypeOK, Ends, Conn
<1>3. InOrder(bridge)
  BY <1>1, <1>2, Zenon DEF Unbroken, Live
<1>4. <<stream[bridge][1].at, stream[bridge][1].left>> = Expected(bridge)
  BY <1>2, <1>3, NextField, Zenon
<1>5. Expected(bridge) = Idle
  BY <1>2, Zenon DEF Expected
<1>6. stream[bridge][1].at = "idle"
  BY <1>4, <1>5 DEF Idle
<1>. QED
  BY <1>2, <1>6

\* Inside a message, the next bytes are the field that is waited for.
LEMMA InvImpliesReadsFields ==
  ASSUME IInv
  PROVE  ReadsFields
<1>. SUFFICES ASSUME pcR # "idle", stream[rfd] # <<>>, broken[rfd] = {}
              PROVE  Head(stream[rfd]).at = pcR /\ Head(stream[rfd]).left = need
  BY Zenon DEF ReadsFields
<1>1. TypeOK /\ Ends /\ \A c \in Conn : Unbroken(c) => InOrder(c)
  BY Zenon DEF IInv
<1>2. /\ rfd \in Conn /\ differ \in BOOLEAN
      /\ stream[rfd] \in Seq(MarkedByte) /\ acc[rfd] = "bridge"
  BY <1>1, WireAssumption DEF TypeOK, Ends, Conn
<1>3. InOrder(rfd)
  BY <1>1, <1>2, Zenon DEF Unbroken, Live
<1>4. <<stream[rfd][1].at, stream[rfd][1].left>> = Expected(rfd)
  BY <1>2, <1>3, NextField, Zenon
<1>5. Expected(rfd) = <<pcR, need>>
  BY <1>2, Zenon DEF Expected
<1>6. stream[rfd][1].at = pcR /\ stream[rfd][1].left = need
  BY <1>4, <1>5
<1>. QED
  BY <1>2, <1>6

\* The conjunction of what every state satisfies is an invariant.
THEOREM Invariance == Spec => []IInv
BY InitInv, NextInv, PTL DEF Spec

\* Every variable stays within its type, for every number of connections and of
\* messages: in particular the send mutex of a bridge is always with a thread that
\* has something to write, and closeC leaves B no bridge that it has closed.
THEOREM Typing == Spec => []TypeOK
<1>1. IInv => TypeOK
  BY Zenon DEF IInv
<1>. QED
  BY <1>1, Invariance, PTL

\* ReceiveFromSocketAndInform stands at the first byte of a message whenever it is
\* in select, on a connection that nothing has broken.
THEOREM ReaderInStep == Spec => []InStep
BY InvImpliesInStep, Invariance, PTL

\* Inside a message the receive thread waits for the bytes of the next field, no
\* more and no fewer, whatever was written and however the steps interleave.
THEOREM FieldsRead == Spec => []ReadsFields
BY InvImpliesReadsFields, Invariance, PTL

\* What B has guessed of the byte order of A is true of every bridge that nothing
\* has broken.  The argument goes through raft_swap_4_bytes as it is: it leaves the
\* outer bytes in place, so IS_ENDIAN_DIFFER_AND_REQUEST recognises no request of a
\* host of the other byte order, and such a bridge joins hosts of one order.
THEOREM ByteOrderKnown == Spec => []OrderKnown
<1>1. IInv => OrderKnown
  <2>. SUFFICES ASSUME IInv PROVE OrderKnown
    OBVIOUS
  <2>1. TypeOK /\ Ends /\ \A c \in Conn : Unbroken(c) => InOrder(c)
    BY Zenon DEF IInv
  <2>2. ASSUME bridge # 0, broken[bridge] = {} PROVE ~differ
    <3>1. bridge \in Conn /\ bridge \notin bclosed /\ acc[bridge] = "bridge"
      BY <2>1, <2>2, WireAssumption DEF TypeOK, Ends, Conn
    <3>2. InOrder(bridge)
      BY <2>1, <2>2, <3>1, Zenon DEF Unbroken, Live
    <3>. QED
      BY <3>1, <3>2, Zenon DEF InOrder, Opened
  <2>. QED
    BY <2>1, <2>2, Zenon DEF OrderKnown, Ends
<1>. QED
  BY <1>1, Invariance, PTL
=============================================================================
