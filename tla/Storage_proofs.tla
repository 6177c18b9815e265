--------------------------- MODULE Storage_proofs ---------------------------
(***************************************************************************)
(* Proofs about Storage: a file that opens holds what was pushed, and a     *)
(* batch that is fetched from it delivers what was pushed, with the reads   *)
(* and bytes its plan was charged for.                                      *)
(***************************************************************************)
EXTENDS Storage, Ranking, SequenceTheorems

(* Powers of two.                                                          *)

LEMMA HalfOfPower ==
  ASSUME NEW n \in Nat, IsPowerOfTwo(n), n > 1
  PROVE  \E h \in Nat : n = 2 * h /\ h < n /\ IsPowerOfTwo(h)
<1>1. n \in 2 .. n /\ n % n = 0
  OBVIOUS
<1>2. n % 2 = 0
  BY <1>1 DEF IsPowerOfTwo
<1>3. PICK h \in Nat : h = n \div 2
  OBVIOUS
<1>4. n = 2 * h /\ h < n /\ h > 0
  BY <1>2, <1>3
<1>5. ASSUME NEW d \in 2 .. h, h % d = 0 PROVE d % 2 = 0
  <2>1. PICK q \in Int : h = d * q
    <3>1. h = d * (h \div d) + (h % d)
      BY <1>4, <1>5
    <3>2. h \div d \in Int
      OBVIOUS
    <3> QED
      BY <1>5, <3>1, <3>2
  <2>2. PICK p \in Int : p = 2 * q
    OBVIOUS
  <2>3. n = d * p
    BY <1>4, <2>1, <2>2
  <2>4. n % d = 0
    BY <2>3, MultipleHasNoRest
  <2> QED
    BY <1>4, <2>4 DEF IsPowerOfTwo
<1> QED
  BY <1>4, <1>5 DEF IsPowerOfTwo

\* A power of two divides every power of two that is no smaller.
LEMMA PowersDivide ==
  ASSUME NEW n \in Nat, NEW f \in Nat, IsPowerOfTwo(n), IsPowerOfTwo(f), f <= n
  PROVE  n % f = 0
<1> DEFINE Wrong == {g \in Nat : /\ IsPowerOfTwo(g)
                                 /\ \E m \in Nat : IsPowerOfTwo(m) /\ g <= m /\ m % g # 0}
<1>1. ASSUME Wrong # {} PROVE FALSE
  <2>1. PICK g \in Wrong : \A y \in Wrong : g <= y
    BY <1>1, LeastNumber
  <2>2. PICK m \in Nat : IsPowerOfTwo(m) /\ g <= m /\ m % g # 0
    OBVIOUS
  <2>3. g \in Nat /\ g > 0 /\ IsPowerOfTwo(g)
    BY DEF IsPowerOfTwo
  <2>4. g > 1
    BY <2>2, <2>3
  <2>5. PICK e \in Nat : g = 2 * e /\ e < g /\ IsPowerOfTwo(e)
    BY <2>3, <2>4, HalfOfPower
  <2>6. PICK h \in Nat : m = 2 * h /\ h < m /\ IsPowerOfTwo(h)
    BY <2>2, <2>3, <2>4, HalfOfPower
  <2>7. e \notin Wrong
    BY <2>1, <2>3, <2>5
  <2>8. e <= h /\ e > 0
    BY <2>2, <2>3, <2>5, <2>6
  <2>9. h % e = 0
    BY <2>5, <2>6, <2>7, <2>8
  <2>10. PICK q \in Int : h = e * q
    <3>1. h = e * (h \div e) + (h % e) /\ h \div e \in Int
      BY <2>8
    <3> QED
      BY <2>9, <3>1
  <2>11. m = g * q
    BY <2>5, <2>6, <2>10
  <2>12. m % g = 0
    BY <2>3, <2>11, MultipleHasNoRest
  <2> QED
    BY <2>2, <2>12
<1> QED
  BY <1>1

-----------------------------------------------------------------------------
(* Blocks.                                                                 *)

\* A layout that BlockLayout::new gives.
Geometry(L) == /\ L.dtype \in {"f32", "f16", "i8"} /\ L.dims \in Nat /\ L.blockSize \in Nat
               /\ ValidLayout(L)

LEMMA LayoutBounds ==
  ASSUME NEW L, Geometry(L)
  PROVE  /\ VectorBytes(L) \in Nat \ {0} /\ L.dims \in Nat \ {0}
         /\ L.dims <= VectorBytes(L)
         /\ L.blockSize \in Nat /\ VectorBytes(L) <= L.blockSize
         /\ VectorsPerBlock(L) \in Nat \ {0}
         /\ VectorsPerBlock(L) <= L.blockSize
         /\ VectorsPerBlock(L) * VectorBytes(L) <= L.blockSize
         /\ L.blockSize < VectorsPerBlock(L) * VectorBytes(L) + VectorBytes(L)
<1>1. L.dims \in Nat \ {0} /\ L.blockSize \in Nat /\ L.dtype \in {"f32", "f16", "i8"}
  BY DEF Geometry, ValidLayout
<1>2. VectorBytes(L) \in Nat \ {0} /\ L.dims <= VectorBytes(L)
  BY <1>1 DEF VectorBytes
<1>3. VectorBytes(L) <= L.blockSize
  BY DEF Geometry, ValidLayout
<1> DEFINE s == L.blockSize
           v == VectorBytes(L)
           p == VectorsPerBlock(L)
<1>4. p = s \div v
  BY DEF VectorsPerBlock
<1>5. s \in Nat /\ v \in Nat \ {0} /\ v <= s
  BY <1>1, <1>2, <1>3
<1> HIDE DEF s, v, p
<1>6. p \in Int /\ s = v * p + (s % v) /\ s % v \in 0 .. v - 1
  BY <1>4, <1>5
<1>7. p >= 1
  BY <1>4, <1>5, <1>6
<1>8. p * v >= p
  BY <1>5, <1>6, <1>7
<1>9. p * v = v * p
  BY <1>5, <1>6
<1>10. p * v <= s /\ s < p * v + v
  BY <1>5, <1>6, <1>9
<1> QED
  BY <1>1, <1>2, <1>3, <1>6, <1>7, <1>8, <1>10 DEF s, v, p

\* The place after a place: the next slot, or the first slot of the next block.
LEMMA NextPlace ==
  ASSUME NEW p \in Nat \ {0}, NEW n \in Nat
  PROVE  /\ n \div p \in Nat /\ n % p \in 0 .. p - 1
         /\ IF (n % p) + 1 = p
            THEN (n + 1) \div p = n \div p + 1 /\ (n + 1) % p = 0
            ELSE (n + 1) \div p = n \div p /\ (n + 1) % p = (n % p) + 1
<1>1. PICK q \in Int : q = n \div p
  OBVIOUS
<1>2. PICK r \in 0 .. p - 1 : r = n % p
  OBVIOUS
<1>3. n = p * q + r
  BY <1>1, <1>2
<1>4. PICK t \in Int : t = (n + 1) \div p
  OBVIOUS
<1>5. PICK u \in 0 .. p - 1 : u = (n + 1) % p
  OBVIOUS
<1>6. n + 1 = p * t + u
  BY <1>4, <1>5
<1>7. q >= 0
  BY <1>1
<1>8. PICK e \in Int : e = t - q
  OBVIOUS
<1>9. p * e = r + 1 - u
  BY <1>3, <1>6, <1>8
<1>10. e >= 0
  <2>1. ASSUME e <= -1 PROVE p * e <= -p
    BY <2>1
  <2> QED
    BY <1>9, <2>1
<1>11. e <= 1
  <2>1. ASSUME e >= 2 PROVE p * e >= 2 * p
    BY <2>1
  <2> QED
    BY <1>9, <2>1
<1>12. e = 0 \/ e = 1
  BY <1>10, <1>11
<1>13. IF r + 1 = p THEN t = q + 1 /\ u = 0 ELSE t = q /\ u = r + 1
  BY <1>8, <1>9, <1>12
<1> QED
  BY <1>1, <1>2, <1>4, <1>5, <1>7, <1>13

-----------------------------------------------------------------------------
(* The writer packs.                                                       *)

Byte == {Pad} \cup (Nat \X Nat)

Place(L, i) == BlockOf(L, i) * L.blockSize + SlotOf(L, i) * VectorBytes(L)

\* Vector i lies in bytes where layout L names it.
Lies(L, i, bytes) ==
  /\ Place(L, i) + VectorBytes(L) <= Len(bytes)
  /\ \A b \in 1 .. VectorBytes(L) : bytes[Place(L, i) + b] = <<i, b>>

\* Between two pushes: the cursor is the end of the last vector in its block, and the
\* buffer ends there.
AtEnd ==
  IF count = 0 THEN cursor = 0 /\ body = <<>>
  ELSE /\ cursor = (SlotOf(layout, count - 1) + 1) * VectorBytes(layout)
       /\ Len(body) = BlockOf(layout, count - 1) * layout.blockSize + cursor

Packing ==
  /\ Geometry(layout)
  /\ count \in Nat /\ body \in Seq(Byte)
  /\ \A i \in 0 .. count - 1 : Lies(layout, i, body)
  /\ stage = "writing" => AtEnd
  /\ header # Zeroes => stage = "finished" /\ header = HeaderOf(layout, count)

LEMMA PlaceIsNat ==
  ASSUME NEW L, Geometry(L), NEW i \in Nat
  PROVE  Place(L, i) \in Nat /\ BlockOf(L, i) \in Nat /\ SlotOf(L, i) \in Nat
<1>1. VectorsPerBlock(L) \in Nat \ {0} /\ L.blockSize \in Nat /\ VectorBytes(L) \in Nat
  BY LayoutBounds
<1>2. BlockOf(L, i) \in Nat /\ SlotOf(L, i) \in Nat
  BY <1>1, NextPlace DEF BlockOf, SlotOf
<1> QED
  BY <1>1, <1>2 DEF Place

\* What is appended does not move a vector that lies in the buffer.
LEMMA AppendedKeeps ==
  ASSUME NEW L, Geometry(L), NEW i \in Nat,
         NEW s \in Seq(Byte), NEW t \in Seq(Byte), Lies(L, i, s)
  PROVE  Lies(L, i, s \o t)
<1> DEFINE u == s \o t
           o == Place(L, i)
           v == VectorBytes(L)
<1>1. o \in Nat /\ v \in Nat
  BY PlaceIsNat, LayoutBounds
<1>6. Len(s) \in Nat /\ Len(t) \in Nat
  OBVIOUS
<1>2. Len(u) = Len(s) + Len(t) /\ \A k \in 1 .. Len(s) : u[k] = s[k]
  BY ConcatProperties
<1>3. o + v <= Len(s) /\ \A b \in 1 .. v : s[o + b] = <<i, b>>
  BY DEF Lies
<1> HIDE DEF u, o, v
<1>4. ASSUME NEW b \in 1 .. v PROVE u[o + b] = <<i, b>>
  <2>1. PICK k \in Int : k = o + b
    BY <1>1
  <2>2. k \in 1 .. Len(s)
    BY <1>1, <1>3, <1>6, <2>1
  <2>3. u[k] = s[k]
    BY <1>2, <2>2
  <2> QED
    BY <1>3, <2>1, <2>3
<1>5. o + v <= Len(u)
  BY <1>1, <1>2, <1>3, <1>6
<1> QED
  BY <1>4, <1>5 DEF Lies, u, o, v

LEMMA PaddingIsBytes ==
  ASSUME NEW n \in Nat
  PROVE  Padding(n) \in Seq(Byte) /\ Len(Padding(n)) = n
BY DEF Padding, Byte

LEMMA VectorIsBytes ==
  ASSUME NEW L, Geometry(L), NEW i \in Nat
  PROVE  BytesOf(L, i) \in Seq(Byte) /\ Len(BytesOf(L, i)) = VectorBytes(L)
<1>1. PICK v \in Nat : v = VectorBytes(L)
  BY LayoutBounds
<1>2. \A b \in 1 .. v : <<i, b>> \in Byte
  BY DEF Byte
<1> QED
  BY <1>1, <1>2 DEF BytesOf

\* A push pads the buffer up to the place of its vector.
LEMMA PushReaches ==
  ASSUME Packing, stage = "writing"
  PROVE  LET v == VectorBytes(layout)
             remaining == layout.blockSize - cursor
             gap == IF remaining < v THEN remaining ELSE 0
         IN  /\ cursor \in Nat /\ cursor <= layout.blockSize
             /\ gap \in Nat
             /\ Len(body) + gap = Place(layout, count)
             /\ (IF remaining < v THEN 0 ELSE cursor) = SlotOf(layout, count) * v
<1> DEFINE v == VectorBytes(layout)
           s == layout.blockSize
           p == VectorsPerBlock(layout)
           gap == IF s - cursor < v THEN s - cursor ELSE 0
<1>1. /\ v \in Nat \ {0} /\ s \in Nat /\ p \in Nat \ {0} /\ v <= s
      /\ p * v <= s /\ s < p * v + v
  BY LayoutBounds DEF Packing
<1>2. count \in Nat /\ AtEnd
  BY DEF Packing
<1>3. Place(layout, count) = (count \div p) * s + (count % p) * v
  BY DEF Place, BlockOf, SlotOf
<1>4. SlotOf(layout, count) = count % p
  BY DEF SlotOf
<1>5. CASE count = 0
  <2>1. cursor = 0 /\ Len(body) = 0
    BY <1>2, <1>5 DEF AtEnd
  <2>2. count \div p = 0 /\ count % p = 0
    <3> HIDE DEF p
    <3> QED
      BY <1>1, <1>5
  <2> HIDE DEF s, v, p
  <2>3. gap = 0 /\ ~ (s - cursor < v)
    BY <1>1, <2>1
  <2>4. (count \div p) * s = 0 /\ (count % p) * v = 0
    BY <1>1, <2>2
  <2> QED
    BY <1>1, <1>3, <1>4, <2>1, <2>3, <2>4 DEF s, v, p
<1>6. CASE count # 0
  <2>1. PICK n \in Nat : n = count - 1
    BY <1>2, <1>6
  <2>2. cursor = (SlotOf(layout, n) + 1) * v /\ Len(body) = BlockOf(layout, n) * s + cursor
    BY <1>2, <1>6, <2>1 DEF AtEnd
  <2>3. PICK q \in Nat : q = n \div p
    BY <1>1, <2>1, NextPlace
  <2>4. PICK r \in 0 .. p - 1 : r = n % p
    BY <1>1, <2>1, NextPlace
  <2>5. cursor = (r + 1) * v /\ Len(body) = q * s + cursor
    BY <2>2, <2>3, <2>4 DEF BlockOf, SlotOf
  <2>6. count = n + 1
    BY <1>2, <2>1
  <2>7. IF r + 1 = p THEN count \div p = q + 1 /\ count % p = 0
                     ELSE count \div p = q /\ count % p = r + 1
    <3> HIDE DEF p
    <3>1. IF (n % p) + 1 = p
          THEN (n + 1) \div p = n \div p + 1 /\ (n + 1) % p = 0
          ELSE (n + 1) \div p = n \div p /\ (n + 1) % p = (n % p) + 1
      BY <1>1, NextPlace
    <3> QED
      BY <2>3, <2>4, <2>6, <3>1
  <2> HIDE DEF s, v, p
  <2>8. cursor \in Nat /\ cursor <= s
    <3>1. (r + 1) * v <= p * v
      BY <1>1
    <3> QED
      BY <1>1, <2>5, <3>1
  <2>9. CASE r + 1 = p
    <3>1. s - cursor < v
      BY <1>1, <2>5, <2>9
    <3>2. (q + 1) * s = q * s + s /\ 0 * v = 0 /\ q * s \in Int
      BY <1>1
    <3>3. Place(layout, count) = q * s + s
      BY <1>1, <1>3, <2>7, <2>9, <3>2
    <3>4. Len(body) + (s - cursor) = Place(layout, count)
      BY <1>1, <2>5, <2>8, <3>2, <3>3
    <3>5. SlotOf(layout, count) * v = 0
      BY <1>4, <2>7, <2>9, <3>2
    <3> QED
      BY <1>1, <2>8, <3>1, <3>4, <3>5 DEF s, v, p
  <2>10. CASE r + 1 # p
    <3>1. (r + 2) * v <= p * v
      BY <1>1, <2>10
    <3>2. (r + 2) * v = (r + 1) * v + v
      BY <1>1
    <3>3. ~ (s - cursor < v)
      BY <1>1, <2>5, <2>8, <3>1, <3>2
    <3>4. Place(layout, count) = q * s + cursor
      BY <1>1, <1>3, <2>5, <2>7, <2>10
    <3>5. SlotOf(layout, count) * v = cursor
      BY <1>4, <2>5, <2>7, <2>10
    <3>6. Len(body) \in Nat
      BY DEF Packing
    <3> QED
      BY <1>1, <2>5, <2>8, <3>3, <3>4, <3>5, <3>6 DEF s, v, p
  <2> QED
    BY <2>9, <2>10
<1> QED
  BY <1>5, <1>6

\* The step of a writer that appends bytes to its buffer keeps what lies there.
LEMMA PushPacks ==
  ASSUME Packing, Push
  PROVE  Packing'
<1> DEFINE v == VectorBytes(layout)
           s == layout.blockSize
           remaining == s - cursor
           full == remaining < v
           gap == IF full THEN remaining ELSE 0
           pad == IF full THEN Padding(remaining) ELSE << >>
           vector == BytesOf(layout, count)
           padded == body \o pad
           here == Place(layout, count)
<1>1. /\ stage = "writing" /\ Geometry(layout)
      /\ count \in Nat /\ body \in Seq(Byte)
  BY DEF Packing, Push
<1>2. v \in Nat \ {0} /\ s \in Nat
  BY <1>1, LayoutBounds
<1>3. /\ cursor \in Nat /\ cursor <= s /\ gap \in Nat
      /\ Len(body) + gap = here
      /\ (IF full THEN 0 ELSE cursor) = SlotOf(layout, count) * v
  BY <1>1, PushReaches
<1>4. pad \in Seq(Byte) /\ Len(pad) = gap
  <2>1. CASE full
    BY <1>3, <2>1, PaddingIsBytes
  <2>2. CASE ~ full
    BY <2>2
  <2> QED
    BY <2>1, <2>2
<1>5. vector \in Seq(Byte) /\ Len(vector) = v
  BY <1>1, VectorIsBytes
<1>6. vector = [b \in 1 .. v |-> <<count, b>>]
  BY DEF BytesOf
<1>7. /\ body' = padded \o vector
      /\ cursor' = (IF full THEN 0 ELSE cursor) + v
      /\ count' = count + 1
      /\ UNCHANGED <<layout, stage, onDisk, header>>
  BY DEF Push
<1>8. here \in Nat /\ SlotOf(layout, count) \in Nat /\ BlockOf(layout, count) \in Nat
  BY <1>1, PlaceIsNat
<1>9. here = BlockOf(layout, count) * s + SlotOf(layout, count) * v
  BY DEF Place
<1> HIDE DEF pad, vector, gap, full, here
<1>10. padded \in Seq(Byte) /\ Len(padded) = here
  BY <1>1, <1>3, <1>4, ConcatProperties
<1> HIDE DEF padded
<1>11. /\ body' \in Seq(Byte) /\ Len(body') = here + v
       /\ \A k \in 1 .. here : body'[k] = padded[k]
       /\ \A k \in here + 1 .. here + v : body'[k] = vector[k - here]
  <2> DEFINE whole == padded \o vector
  <2>1. /\ whole \in Seq(Byte) /\ Len(whole) = Len(padded) + Len(vector)
        /\ \A k \in 1 .. Len(padded) + Len(vector) :
             whole[k] = IF k <= Len(padded) THEN padded[k] ELSE vector[k - Len(padded)]
    BY <1>5, <1>10, ConcatProperties
  <2>2. body' = whole
    BY <1>7
  <2> HIDE DEF whole
  <2>3. here \in Nat /\ v \in Nat
    BY <1>2, <1>8
  <2> HIDE DEF v
  <2>4. /\ whole \in Seq(Byte) /\ Len(whole) = here + v
        /\ \A k \in 1 .. here + v : whole[k] = IF k <= here THEN padded[k] ELSE vector[k - here]
    BY <1>5, <1>10, <2>1
  <2>5. \A k \in 1 .. here : whole[k] = padded[k]
    BY <2>3, <2>4
  <2>6. \A k \in here + 1 .. here + v : whole[k] = vector[k - here]
    BY <2>3, <2>4
  <2> QED
    BY <2>2, <2>4, <2>5, <2>6
<1>12. \A i \in 0 .. count - 1 : Lies(layout, i, body')
  <2> SUFFICES ASSUME NEW i \in 0 .. count - 1 PROVE Lies(layout, i, body')
    OBVIOUS
  <2>1. i \in Nat /\ Lies(layout, i, body)
    BY <1>1 DEF Packing
  <2>2. Lies(layout, i, padded)
    BY <1>1, <1>4, <2>1, AppendedKeeps DEF padded
  <2> QED
    BY <1>1, <1>5, <1>7, <1>10, <2>1, <2>2, AppendedKeeps
<1>13. Lies(layout, count, body')
  <2>1. ASSUME NEW b \in 1 .. v PROVE body'[here + b] = <<count, b>>
    <3>1. PICK k \in Int : k = here + b
      BY <1>8
    <3>2. k \in here + 1 .. here + v /\ k - here = b
      BY <1>2, <1>8, <3>1
    <3>3. body'[k] = vector[k - here]
      BY <1>11, <3>2
    <3> QED
      BY <1>6, <3>1, <3>2, <3>3
  <2>2. here + v <= Len(body')
    BY <1>2, <1>8, <1>11
  <2> QED
    BY <2>1, <2>2 DEF Lies, here
<1>14. \A i \in 0 .. count' - 1 : Lies(layout, i, body')
  <2> SUFFICES ASSUME NEW i \in 0 .. count' - 1 PROVE Lies(layout, i, body')
    OBVIOUS
  <2>1. i \in 0 .. count - 1 \/ i = count
    BY <1>1, <1>7
  <2> QED
    BY <1>12, <1>13, <2>1
<1>15. AtEnd'
  <2>1. count' # 0 /\ count' - 1 = count
    BY <1>1, <1>7
  <2>2. cursor' = SlotOf(layout, count) * v + v
    BY <1>3, <1>7
  <2>3. (SlotOf(layout, count) + 1) * v = SlotOf(layout, count) * v + v
    BY <1>2, <1>8
  <2>4. Len(body') = BlockOf(layout, count) * s + cursor'
    BY <1>2, <1>8, <1>9, <1>11, <2>2
  <2> QED
    BY <1>7, <2>1, <2>2, <2>3, <2>4 DEF AtEnd
<1>16. header' # Zeroes => stage' = "finished" /\ header' = HeaderOf(layout', count')
  BY <1>1, <1>7 DEF Packing
<1>17. \A i \in 0 .. count' - 1 : Lies(layout', i, body')
  BY <1>7, <1>14
<1>18. count' \in Nat /\ body' \in Seq(Byte)
  BY <1>1, <1>7, <1>11
<1> QED
  BY <1>1, <1>7, <1>15, <1>16, <1>17, <1>18 DEF Packing

LEMMA FinishPacks ==
  ASSUME Packing, FinishBlocks
  PROVE  Packing'
<1> DEFINE n == layout.blockSize - cursor
           pad == IF cursor > 0 THEN Padding(n) ELSE << >>
<1>1. /\ stage = "writing" /\ Geometry(layout)
      /\ count \in Nat /\ body \in Seq(Byte) /\ header = Zeroes
  BY DEF Packing, FinishBlocks
<1>2. n \in Nat
  <2>1. layout.blockSize \in Nat
    BY <1>1, LayoutBounds
  <2> QED
    BY <1>1, <2>1, PushReaches
<1>3. pad \in Seq(Byte)
  BY <1>2, PaddingIsBytes
<1>4. body' = body \o pad /\ stage' = "padded" /\ UNCHANGED <<layout, count, header>>
  BY DEF FinishBlocks
<1> HIDE DEF pad
<1>5. body' \in Seq(Byte)
  BY <1>1, <1>3, <1>4
<1>6. \A i \in 0 .. count - 1 : Lies(layout, i, body')
  BY <1>1, <1>3, <1>4, AppendedKeeps DEF Packing
<1>7. /\ \A i \in 0 .. count' - 1 : Lies(layout', i, body')
      /\ stage' # "writing"
  BY <1>4, <1>6
<1>8. header' = Zeroes /\ Geometry(layout') /\ count' \in Nat
  BY <1>1, <1>4
<1> QED
  BY <1>5, <1>7, <1>8 DEF Packing

\* The writer keeps what it packed, and the header it leaves describes it.
LEMMA WriterPacks == Packing /\ [Next]_vars => Packing'
<1> SUFFICES ASSUME Packing, [Next]_vars PROVE Packing'
  OBVIOUS
<1>1. CASE Push
  BY <1>1, PushPacks
<1>2. CASE Drain
  BY <1>2 DEF Packing, Drain, AtEnd
<1>3. CASE FinishBlocks
  BY <1>3, FinishPacks
<1>4. CASE WriteHeader
  BY <1>4 DEF Packing, WriteHeader
<1>5. CASE Abandon
  BY <1>5 DEF Packing, Abandon
<1>6. CASE UNCHANGED vars
  BY <1>6 DEF Packing, vars, AtEnd
<1> QED
  BY <1>1, <1>2, <1>3, <1>4, <1>5, <1>6 DEF Next

LEMMA WriterStarts == Init => Packing
<1> SUFFICES ASSUME Init PROVE Packing
  OBVIOUS
<1>1. count = 0 /\ body = << >> /\ header = Zeroes /\ AtEnd
  BY DEF Init, AtEnd
<1>2. Geometry(layout)
  BY StoreFileAssumption DEF Init, Geometry
<1>3. body \in Seq(Byte) /\ 0 .. count - 1 = {}
  BY <1>1
<1> QED
  BY <1>1, <1>2, <1>3 DEF Packing

\* A header that is accepted was not cut: it is the writer's layout.
LEMMA AcceptedIsUncut ==
  ASSUME Packing, HeaderIsValid
  PROVE  /\ header.dtype = layout.dtype /\ header.dims = layout.dims
         /\ header.blockSize = layout.blockSize /\ header.count = count
         /\ layout.dims < FieldRange /\ layout.blockSize < FieldRange
<1>1. /\ header # Zeroes /\ header.dims # 0 /\ header.blockSize >= VectorBytes(header)
  BY DEF HeaderIsValid
<1>2. header = HeaderOf(layout, count)
  BY <1>1 DEF Packing
<1>3. /\ header.dtype = layout.dtype /\ header.count = count
      /\ header.dims = layout.dims % FieldRange
      /\ header.blockSize = layout.blockSize % FieldRange
  BY <1>2 DEF HeaderOf
<1>4. /\ Geometry(layout)
      /\ layout.dtype \in {"f32", "f16", "i8"}
      /\ layout.dims \in Nat \ {0} /\ layout.blockSize \in Nat
      /\ layout.dims <= VectorBytes(layout) /\ VectorBytes(layout) <= layout.blockSize
      /\ VectorBytes(layout) \in Nat
  BY LayoutBounds DEF Packing, Geometry
<1>5. FieldRange \in Nat \ {0} /\ IsPowerOfTwo(FieldRange)
  BY StoreFileAssumption DEF IsPowerOfTwo
<1>6. header.dims \in Nat /\ VectorBytes(header) >= header.dims
  BY <1>3, <1>4, <1>5 DEF VectorBytes
<1>7. header.blockSize # 0
  <2>1. VectorBytes(header) \in Int
    BY <1>3, <1>4, <1>6 DEF VectorBytes
  <2>2. header.blockSize \in Int
    BY <1>3, <1>4, <1>5
  <2> QED
    BY <1>1, <1>6, <2>1, <2>2
<1>8. layout.blockSize < FieldRange
  <2>1. IsPowerOfTwo(layout.blockSize)
    BY <1>4 DEF Geometry, ValidLayout
  <2>2. ASSUME FieldRange <= layout.blockSize PROVE FALSE
    <3>1. layout.blockSize % FieldRange = 0
      BY <1>4, <1>5, <2>1, <2>2, PowersDivide
    <3> QED
      BY <1>3, <1>7, <3>1
  <2> QED
    BY <1>4, <1>5, <2>2
<1>9. layout.dims < FieldRange
  BY <1>4, <1>5, <1>8
<1>10. layout.dims % FieldRange = layout.dims /\ layout.blockSize % FieldRange = layout.blockSize
  BY <1>4, <1>5, <1>8, <1>9
<1> QED
  BY <1>3, <1>8, <1>9, <1>10

\* What lies where the layout names it is what is read.
LEMMA LyingIsRead ==
  ASSUME NEW L, Geometry(L), NEW i \in Nat, body \in Seq(Byte), Lies(L, i, body)
  PROVE  Read(L, i) = BytesOf(L, i)
<1> DEFINE o == Place(L, i)
           v == VectorBytes(L)
           end == VectorOffset(L, i) + v - HeaderSize
           bytes == SubSeq(body, o + 1, o + v)
<1>1. o \in Nat /\ v \in Nat \ {0} /\ HeaderSize \in Nat
  BY PlaceIsNat, LayoutBounds, HeaderAssumption
<1>2. BlockOf(L, i) \in Nat /\ SlotOf(L, i) \in Nat /\ L.blockSize \in Nat
  BY LayoutBounds, PlaceIsNat
<1>3. BlockOf(L, i) * L.blockSize \in Nat /\ SlotOf(L, i) * v \in Nat
  BY <1>1, <1>2
<1>4. VectorOffset(L, i) = HeaderSize + o
  BY <1>1, <1>3 DEF VectorOffset, BlockOffset, Place
<1>5. end = o + v /\ end - v + 1 = o + 1
  BY <1>1, <1>4
<1>6. Len(body) \in Nat /\ o + v <= Len(body)
  BY DEF Lies
<1>7. Read(L, i) = bytes
  <2>1. Read(L, i) = IF end > Len(body) THEN << >> ELSE SubSeq(body, end - v + 1, end)
    BY DEF Read
  <2> HIDE DEF end, o, v
  <2> QED
    BY <1>1, <1>5, <1>6, <2>1
<1>8. \A b \in 1 .. v : body[o + b] = <<i, b>>
  BY DEF Lies
<1> HIDE DEF o, v
<1>9. bytes = [b \in 1 .. v |-> body[o + b]]
  BY <1>1, <1>6
<1>10. bytes = [b \in 1 .. v |-> <<i, b>>]
  BY <1>8, <1>9
<1> QED
  BY <1>7, <1>10 DEF BytesOf, v

LEMMA PackedOpensWhole == Packing => OpenedIsWhole
<1> SUFFICES ASSUME Packing, Opens PROVE header.count = count /\ \A i \in 0 .. count - 1 : Read(header, i) = BytesOf(layout, i)
  BY DEF OpenedIsWhole
<1>1. /\ header.dtype = layout.dtype /\ header.dims = layout.dims
      /\ header.blockSize = layout.blockSize /\ header.count = count
  BY AcceptedIsUncut DEF Opens
<1>2. \A i : Read(header, i) = Read(layout, i)
  BY <1>1 DEF Read, VectorOffset, BlockOffset, BlockOf, SlotOf, VectorsPerBlock, VectorBytes
<1>3. ASSUME NEW i \in 0 .. count - 1 PROVE Read(layout, i) = BytesOf(layout, i)
  BY LyingIsRead DEF Packing
<1> QED
  BY <1>1, <1>2, <1>3

\* Whenever the writer dies, and whatever part of its bytes reached the file, the file is
\* refused or holds every vector that was pushed, for every geometry, also one that does
\* not fit the header, and every number of vectors.
THEOREM FilesOpenWhole == Spec => []OpenedIsWhole
<1>1. Spec => []Packing
  BY WriterStarts, WriterPacks, PTL DEF Spec
<1> QED
  BY <1>1, PackedOpensWhole, PTL

LEMMA StoragePacks == StorageSpec => []Packing
<1>1. StorageInit => Packing
  BY WriterStarts DEF StorageInit
<1>2. Packing /\ [StorageNext]_storageVars => Packing'
  <2>1. [StorageNext]_storageVars => [Next]_vars
    BY DEF StorageNext, storageVars, Write, OpenAndFetch, Fetching, ReadFails
  <2> QED
    BY <2>1, WriterPacks
<1> QED
  BY <1>1, <1>2, PTL DEF StorageSpec

\* So it is for the store that a batch is fetched from.
THEOREM FetchedFilesOpenWhole == StorageSpec => []OpenedIsWhole
BY StoragePacks, PackedOpensWhole, PTL

-----------------------------------------------------------------------------
(* Ascending sequences.                                                    *)

\* The elements of a finite set of numbers can be listed in order.
LEMMA AscendingLists ==
  ASSUME NEW S \in SUBSET Nat, IsFiniteSet(S)
  PROVE  /\ Cardinality(S) \in Nat
         /\ Ascending(S) \in [1 .. Cardinality(S) -> S]
         /\ \A i, j \in 1 .. Cardinality(S) : i < j => Ascending(S)[i] < Ascending(S)[j]
         /\ \A x \in S : \E k \in 1 .. Cardinality(S) : Ascending(S)[k] = x
<1> DEFINE d == [x \in S |-> 0]
           size == Cardinality(S)
           rank == [x \in S |-> Cardinality(AllAhead(S, d, x))]
           below == [x \in S |-> Cardinality({y \in S : y < x})]
           o == Ascending(S)
<1>1. size \in Nat
  BY FS_CardinalityType
<1>2. Ranked(S, d)
  BY DEF Ranked
<1>3. \A x, y \in S : Ahead(d, y, x) <=> y < x
  BY DEF Ahead
<1>4. \A x \in S : AllAhead(S, d, x) = {y \in S : y < x}
  BY <1>3 DEF AllAhead
<1>5. rank = below
  BY <1>4
<1>6. rank \in Bijection(S, 0 .. size - 1)
  BY <1>2, RanksAreABijection
<1>7. o = [k \in 1 .. size |-> CHOOSE x \in S : Cardinality({y \in S : y < x}) = k - 1]
  BY DEF Ascending
<1>71. \A x \in S : below[x] = Cardinality({y \in S : y < x})
  OBVIOUS
<1>8. \A x, y \in S : x < y => rank[x] < rank[y]
  BY <1>2, <1>3, AheadCountsLess
<1> HIDE DEF rank, below, size, o, d
<1>9. /\ below \in [S -> 0 .. size - 1]
      /\ \A x, y \in S : below[x] = below[y] => x = y
      /\ \A i \in 0 .. size - 1 : \E x \in S : below[x] = i
  BY <1>5, <1>6 DEF Bijection, Injection, Surjection, IsInjective
<1>10. ASSUME NEW k \in 1 .. size PROVE o[k] \in S /\ below[o[k]] = k - 1
  <2>1. k - 1 \in 0 .. size - 1
    BY <1>1
  <2>2. \E x \in S : below[x] = k - 1
    BY <1>9, <2>1
  <2>3. \E x \in S : Cardinality({y \in S : y < x}) = k - 1
    BY <1>71, <2>2
  <2>4. o[k] \in S /\ Cardinality({y \in S : y < o[k]}) = k - 1
    BY <1>7, <2>3
  <2> QED
    BY <1>71, <2>4
<1>11. o \in [1 .. size -> S]
  BY <1>7, <1>10
<1>12. ASSUME NEW i \in 1 .. size, NEW j \in 1 .. size, i < j PROVE o[i] < o[j]
  <2>1. o[i] \in S /\ o[j] \in S /\ below[o[i]] = i - 1 /\ below[o[j]] = j - 1
    BY <1>10
  <2>2. o[i] \in Nat /\ o[j] \in Nat
    BY <2>1
  <2>3. \A x, y \in S : x < y => below[x] < below[y]
    BY <1>5, <1>8
  <2>4. i \in Int /\ j \in Int
    BY <1>1
  <2>5. ASSUME o[j] < o[i] PROVE FALSE
    <3>1. below[o[j]] < below[o[i]]
      BY <2>1, <2>3, <2>5
    <3> QED
      BY <1>12, <2>1, <2>4, <3>1
  <2>6. o[i] # o[j]
    BY <1>12, <2>1, <2>4
  <2> QED
    BY <2>2, <2>5, <2>6
<1>13. ASSUME NEW x \in S PROVE \E k \in 1 .. size : o[k] = x
  <2>1. below[x] \in 0 .. size - 1
    BY <1>9
  <2>2. PICK k \in Int : k = below[x] + 1
    BY <2>1
  <2>3. k \in 1 .. size /\ below[x] = k - 1
    BY <1>1, <2>1, <2>2
  <2>4. o[k] = x
    BY <1>9, <1>10, <2>3
  <2> QED
    BY <2>3, <2>4
<1> QED
  BY <1>1, <1>11, <1>12, <1>13 DEF o, size

\* The elements of an interval in order.
LEMMA IntervalAscends ==
  ASSUME NEW a \in Int, NEW n \in Nat
  PROVE  Ascending(a .. a + n - 1) = [k \in 1 .. n |-> a + k - 1]
<1> DEFINE S == a .. a + n - 1
<1>1. Cardinality(S) = n
  <2>1. PICK b \in Int : b = a + n - 1
    OBVIOUS
  <2>2. Cardinality(a .. b) = IF a > b THEN 0 ELSE b - a + 1
    BY FS_Interval
  <2> QED
    BY <2>1, <2>2
<1>2. ASSUME NEW x \in S PROVE Cardinality({y \in S : y < x}) = x - a
  <2>1. PICK b \in Int : b = x - 1
    OBVIOUS
  <2>2. {y \in S : y < x} = a .. b
    BY <2>1
  <2>3. Cardinality(a .. b) = IF a > b THEN 0 ELSE b - a + 1
    BY FS_Interval
  <2>4. x \in Int /\ a <= x
    OBVIOUS
  <2>5. Cardinality(a .. b) = x - a
    BY <2>1, <2>3, <2>4
  <2> QED
    BY <2>2, <2>5
<1>3. ASSUME NEW k \in 1 .. n
      PROVE  (CHOOSE x \in S : Cardinality({y \in S : y < x}) = k - 1) = a + k - 1
  <2>1. a + k - 1 \in S
    OBVIOUS
  <2>2. Cardinality({y \in S : y < a + k - 1}) = k - 1
    BY <1>2, <2>1
  <2>3. \A x \in S : Cardinality({y \in S : y < x}) = k - 1 => x = a + k - 1
    BY <1>2
  <2> QED
    BY <2>1, <2>2, <2>3
<1> HIDE DEF S
<1>4. Ascending(S) = [k \in 1 .. n |-> a + k - 1]
  BY <1>1, <1>3 DEF Ascending
<1> QED
  BY <1>4 DEF S

-----------------------------------------------------------------------------
(* Places.                                                                 *)

\* A later vector lies behind an earlier one.
LEMMA PlacesAscend ==
  ASSUME NEW L, Geometry(L), NEW i \in Nat, NEW j \in Nat, i < j
  PROVE  Place(L, i) + VectorBytes(L) <= Place(L, j)
<1> DEFINE v == VectorBytes(L)
           s == L.blockSize
           p == VectorsPerBlock(L)
<1>1. v \in Nat \ {0} /\ s \in Nat /\ p \in Nat \ {0} /\ p * v <= s
  BY LayoutBounds
<1>2. PICK q \in Nat, r \in 0 .. p - 1 : q = i \div p /\ r = i % p
  <2> HIDE DEF p
  <2>1. i \div p \in Nat /\ i % p \in 0 .. p - 1
    BY <1>1, NextPlace
  <2> QED
    BY <2>1
<1>3. PICK t \in Nat, u \in 0 .. p - 1 : t = j \div p /\ u = j % p
  <2> HIDE DEF p
  <2>1. j \div p \in Nat /\ j % p \in 0 .. p - 1
    BY <1>1, NextPlace
  <2> QED
    BY <2>1
<1>4. Place(L, i) = q * s + r * v /\ Place(L, j) = t * s + u * v
  BY <1>2, <1>3 DEF Place, BlockOf, SlotOf
<1> HIDE DEF v, s, p
<1>5. i = p * q + r /\ j = p * t + u
  BY <1>1, <1>2, <1>3
<1>6. r * v \in Nat /\ u * v \in Nat /\ q * s \in Nat /\ t * s \in Nat
  BY <1>1
<1>7. r * v + v <= s
  <2>1. (r + 1) * v <= p * v
    BY <1>1
  <2>2. (r + 1) * v = r * v + v
    BY <1>1
  <2> QED
    BY <1>1, <1>6, <2>1, <2>2
<1>8. q <= t
  <2>1. ASSUME t + 1 <= q PROVE FALSE
    <3>1. p * (t + 1) <= p * q
      BY <1>1, <2>1
    <3>2. p * (t + 1) = p * t + p
      BY <1>1
    <3>3. p * t \in Int /\ p * q \in Int
      BY <1>1
    <3> QED
      BY <1>1, <1>5, <3>1, <3>2, <3>3
  <2> QED
    BY <2>1
<1>9. CASE q = t
  <2>1. r + 1 <= u
    BY <1>1, <1>5, <1>9
  <2>2. (r + 1) * v <= u * v
    BY <1>1, <2>1
  <2>3. (r + 1) * v = r * v + v
    BY <1>1
  <2> QED
    BY <1>1, <1>4, <1>6, <1>9, <2>2, <2>3 DEF v
<1>10. CASE q < t
  <2>1. (q + 1) * s <= t * s
    BY <1>1, <1>10
  <2>2. (q + 1) * s = q * s + s
    BY <1>1
  <2>3. q * s + r * v + v <= t * s + u * v
    BY <1>1, <1>6, <1>7, <2>1, <2>2
  <2> QED
    BY <1>4, <2>3 DEF v
<1> QED
  BY <1>8, <1>9, <1>10

\* The blocks of a file have room for its vectors.
LEMMA PlacesFit ==
  ASSUME NEW L, Geometry(L), NEW n \in Nat, NEW i \in 0 .. n - 1
  PROVE  VectorOffset(L, i) + VectorBytes(L) <= FileSizeFor(L, n)
<1> DEFINE v == VectorBytes(L)
           s == L.blockSize
           p == VectorsPerBlock(L)
<1>1. v \in Nat \ {0} /\ s \in Nat /\ p \in Nat \ {0} /\ p * v <= s
  BY LayoutBounds
<1>0. i \in Nat
  OBVIOUS
<1>2. PICK q \in Nat, r \in 0 .. p - 1 : q = i \div p /\ r = i % p
  <2> HIDE DEF p
  <2>1. i \div p \in Nat /\ i % p \in 0 .. p - 1
    BY <1>0, <1>1, NextPlace
  <2> QED
    BY <2>1
<1>3. PICK t \in Int, u \in 0 .. p - 1 : t = (n + p - 1) \div p /\ u = (n + p - 1) % p
  BY <1>1
<1>4. /\ VectorOffset(L, i) = HeaderSize + q * s + r * v
      /\ FileSizeFor(L, n) = HeaderSize + t * s
  BY <1>2, <1>3 DEF VectorOffset, BlockOffset, BlockOf, SlotOf, FileSizeFor, BlocksFor
<1> HIDE DEF v, s, p
<1>5. i = p * q + r /\ n + p - 1 = p * t + u
  BY <1>1, <1>2, <1>3
<1>6. r * v + v <= s /\ r * v \in Nat
  <2>1. (r + 1) * v <= p * v
    BY <1>1
  <2>2. (r + 1) * v = r * v + v
    BY <1>1
  <2>3. r * v \in Nat
    BY <1>1
  <2> QED
    BY <1>1, <2>1, <2>2, <2>3
<1>7. q + 1 <= t
  <2>1. ASSUME t <= q PROVE FALSE
    <3>1. p * t <= p * q
      BY <1>1, <2>1
    <3>2. p * t \in Int /\ p * q \in Int
      BY <1>1
    <3> QED
      BY <1>1, <1>5, <3>1, <3>2
  <2> QED
    BY <2>1
<1>8. q * s + s <= t * s
  <2>1. (q + 1) * s <= t * s
    BY <1>1, <1>7
  <2>2. (q + 1) * s = q * s + s
    BY <1>1
  <2> QED
    BY <2>1, <2>2
<1>9. q * s \in Int /\ t * s \in Int /\ HeaderSize \in Int
  BY <1>1, HeaderAssumption
<1>10. (HeaderSize + q * s + r * v) + v <= HeaderSize + t * s
  BY <1>1, <1>6, <1>8, <1>9
<1> QED
  BY <1>4, <1>10 DEF v

-----------------------------------------------------------------------------
(* Folds over the places of a sequence.                                    *)

LEMMA LargestMember ==
  ASSUME NEW n \in Nat, NEW s \in SUBSET (1 .. n), s # {}
  PROVE  Max(s) \in s /\ \A y \in s : y <= Max(s)
<1> DEFINE T == {n - y : y \in s}
<1>0. \A y \in s : y \in Int /\ y <= n /\ n - y \in Nat
  OBVIOUS
<1>1. T \in SUBSET Nat /\ T # {}
  BY <1>0
<1>2. PICK m \in T : \A y \in T : m <= y
  BY <1>1, LeastNumber
<1>3. PICK x \in s : m = n - x
  OBVIOUS
<1>4. \A y \in s : n - y \in T /\ m <= n - y
  BY <1>2
<1>5. \A y \in s : x >= y
  BY <1>0, <1>3, <1>4
<1>6. Max(s) \in s /\ \A y \in s : Max(s) >= y
  BY <1>5 DEF Max
<1> QED
  BY <1>6

LEMMA LargestOfPrefix ==
  ASSUME NEW k \in Nat \ {0}
  PROVE  Max(1 .. k) = k /\ (1 .. k) \ {k} = 1 .. k - 1 /\ 1 .. k # {}
<1>1. k \in 1 .. k /\ k \in Nat
  OBVIOUS
<1>2. Max(1 .. k) \in 1 .. k /\ k <= Max(1 .. k)
  BY <1>1, LargestMember
<1> QED
  BY <1>1, <1>2

\* g is the fold of step over the places up to n, the greatest taken off last.
Folds(g, n, Acc, base, step) ==
  /\ g \in [SUBSET (1 .. n) -> Acc]
  /\ \A s \in SUBSET (1 .. n) :
       g[s] = IF s = {} THEN base ELSE step[<<g[s \ {Max(s)}], Max(s)>>]

\* A fold is defined whenever its step is.
LEMMA FoldExists ==
  ASSUME NEW n \in Nat, NEW Acc, NEW base \in Acc, NEW step \in [Acc \X (1 .. n) -> Acc]
  PROVE  \E g : Folds(g, n, Acc, base, step)
<1> DEFINE Has(m) == \E g \in [SUBSET (1 .. m) -> Acc] :
                       \A s \in SUBSET (1 .. m) :
                         g[s] = IF s = {} THEN base ELSE step[<<g[s \ {Max(s)}], Max(s)>>]
           Bad == {m \in Nat : m <= n /\ ~ Has(m)}
<1>1. Has(0)
  <2>1. \A s \in SUBSET (1 .. 0) : s = {}
    OBVIOUS
  <2>2. [s \in SUBSET (1 .. 0) |-> base] \in [SUBSET (1 .. 0) -> Acc]
    OBVIOUS
  <2> QED
    BY <2>1, <2>2
<1>2. ASSUME NEW m \in Nat, m + 1 <= n, Has(m) PROVE Has(m + 1)
  <2>1. PICK g \in [SUBSET (1 .. m) -> Acc] :
          \A s \in SUBSET (1 .. m) :
            g[s] = IF s = {} THEN base ELSE step[<<g[s \ {Max(s)}], Max(s)>>]
    BY <1>2
  <2> DEFINE h == [s \in SUBSET (1 .. m + 1) |->
                     IF s \in SUBSET (1 .. m) THEN g[s]
                     ELSE step[<<g[s \ {Max(s)}], Max(s)>>]]
  <2>2. ASSUME NEW s \in SUBSET (1 .. m + 1), s # {}
        PROVE  Max(s) \in s /\ Max(s) \in 1 .. m + 1 /\ s \ {Max(s)} \in SUBSET (1 .. m)
    <3>1. PICK k \in Nat : k = m + 1
      OBVIOUS
    <3>2. s \in SUBSET (1 .. k)
      BY <3>1
    <3>3. Max(s) \in s /\ \A y \in s : y <= Max(s)
      BY <2>2, <3>2, LargestMember
    <3>4. PICK x \in s : x = Max(s)
      BY <3>3
    <3>5. ASSUME NEW y \in s \ {x} PROVE y \in 1 .. m
      <4>1. y \in 1 .. m + 1 /\ x \in 1 .. m + 1 /\ y <= x /\ y # x
        BY <3>3, <3>4
      <4> QED
        BY <4>1
    <3> QED
      BY <3>3, <3>4, <3>5
  <2>3. \A s \in SUBSET (1 .. m) : s \in SUBSET (1 .. m + 1) /\ h[s] = g[s]
    OBVIOUS
  <2>4. h \in [SUBSET (1 .. m + 1) -> Acc]
    <3> SUFFICES ASSUME NEW s \in SUBSET (1 .. m + 1)
                 PROVE  (IF s \in SUBSET (1 .. m) THEN g[s]
                         ELSE step[<<g[s \ {Max(s)}], Max(s)>>]) \in Acc
      OBVIOUS
    <3>1. CASE s \in SUBSET (1 .. m)
      BY <3>1
    <3>2. CASE s \notin SUBSET (1 .. m)
      <4>1. s # {}
        BY <3>2
      <4>2. Max(s) \in 1 .. n /\ g[s \ {Max(s)}] \in Acc
        BY <1>2, <2>2, <4>1
      <4>3. <<g[s \ {Max(s)}], Max(s)>> \in Acc \X (1 .. n)
        BY <4>2
      <4> QED
        BY <3>2, <4>3
    <3> QED
      BY <3>1, <3>2
  <2>5. ASSUME NEW s \in SUBSET (1 .. m + 1)
        PROVE  h[s] = IF s = {} THEN base ELSE step[<<h[s \ {Max(s)}], Max(s)>>]
    <3>1. CASE s = {}
      <4>1. s \in SUBSET (1 .. m) /\ h[s] = g[s]
        BY <2>3, <3>1
      <4> HIDE DEF h
      <4> QED
        BY <2>1, <3>1, <4>1
    <3>2. CASE s # {}
      <4>1. h[s \ {Max(s)}] = g[s \ {Max(s)}]
        BY <2>2, <2>3, <3>2
      <4>2. h[s] = step[<<g[s \ {Max(s)}], Max(s)>>]
        <5>1. CASE s \in SUBSET (1 .. m)
          <6>1. h[s] = g[s]
            BY <2>3, <5>1
          <6> HIDE DEF h
          <6> QED
            BY <2>1, <3>2, <5>1, <6>1
        <5>2. CASE s \notin SUBSET (1 .. m)
          BY <5>2
        <5> QED
          BY <5>1, <5>2
      <4> HIDE DEF h
      <4> QED
        BY <3>2, <4>1, <4>2
    <3> QED
      BY <3>1, <3>2
  <2> HIDE DEF h
  <2> QED
    BY <2>4, <2>5
<1> HIDE DEF Has
<1>3. Bad = {}
  <2> SUFFICES ASSUME Bad # {} PROVE FALSE
    OBVIOUS
  <2>0. Bad \in SUBSET Nat
    OBVIOUS
  <2>1. PICK m \in Bad : \A y \in Bad : m <= y
    BY <2>0, LeastNumber
  <2>2. m \in Nat /\ m <= n /\ ~ Has(m) /\ m # 0
    BY <1>1
  <2>3. m - 1 \in Nat /\ m - 1 \notin Bad /\ m - 1 + 1 = m
    BY <2>1, <2>2
  <2>4. Has(m - 1)
    BY <2>2, <2>3
  <2> QED
    BY <1>2, <2>2, <2>3, <2>4
<1>4. Has(n)
  BY <1>3
<1> QED
  BY <1>4 DEF Has, Folds

-----------------------------------------------------------------------------
(* The folds of the schedule.                                              *)

PlanAcc == [runs : Nat, first : Nat, last : Nat, spanBytes : Int]

PlanStart == [runs |-> 0, first |-> 0, last |-> 0, spanBytes |-> 0]

PlanStep(L, acc, i) ==
  IF acc.runs > 0 /\ Continues(L, acc.last, i)
    THEN [acc EXCEPT !.last = i]
    ELSE [runs |-> acc.runs + 1, first |-> i, last |-> i,
          spanBytes |-> IF acc.runs = 0 THEN 0
                        ELSE acc.spanBytes + RunSpan(L, acc.first, acc.last).len]

\* What the fold in PlanOf computes for every set of places.
PlanFold(L, order) ==
  CHOOSE g : g = [s \in SUBSET (DOMAIN order) |->
                    IF s = {} THEN PlanStart
                    ELSE PlanStep(L, g[s \ {Max(s)}], order[Max(s)])]

LEMMA PlanIsFold ==
  \A L, requested :
    LET order == Ascending(ToSet(requested))
        swept == PlanFold(L, order)[DOMAIN order]
    IN  PlanOf(L, requested) =
          [order |-> order,
           runs |-> swept.runs,
           bytes |-> Len(order) * VectorBytes(L),
           spanBytes |-> IF order = << >> THEN 0
                         ELSE swept.spanBytes + RunSpan(L, swept.first, swept.last).len]
BY DEF PlanOf, FoldLeft, MapThenFoldSet, PlanFold, PlanStep, PlanStart

Window == [start : Nat, count : Nat]

GroupStep(L, order, spans, pos) ==
  IF pos > 1 /\ Continues(L, order[pos - 1], order[pos])
    THEN [spans EXCEPT ![Len(spans)].count = @ + 1]
    ELSE Append(spans, [start |-> pos, count |-> 1])

Positions(order) == [i \in DOMAIN order |-> i]

\* What the fold in RunSpans computes for every set of places.
GroupFold(L, order) ==
  CHOOSE g : g = [s \in SUBSET (DOMAIN Positions(order)) |->
                    IF s = {} THEN << >>
                    ELSE GroupStep(L, order, g[s \ {Max(s)}], Positions(order)[Max(s)])]

LEMMA GroupingIsFold ==
  \A L, order : RunSpans(L, order) = GroupFold(L, order)[DOMAIN Positions(order)]
BY DEF RunSpans, FoldLeftDomain, FoldLeft, MapThenFoldSet, GroupFold, GroupStep, Positions

ScatterAcc == [prevEnd : Int, sinkLeft : Int, dests : Seq(Nat)]

ScatterStart(L, ws, span) ==
  [prevEnd |-> 0, dests |-> << >>, sinkLeft |-> span.len - Len(ws) * VectorBytes(L)]

ScatterStep(L, ws, span, acc, n) ==
  LET rel == VectorOffset(L, ws[n]) - span.start
      gap == rel - acc.prevEnd
  IN [prevEnd |-> rel + VectorBytes(L),
      sinkLeft |-> acc.sinkLeft - gap,
      dests |-> acc.dests \o [b \in 1 .. gap |-> 0]
                          \o [b \in 1 .. VectorBytes(L) |-> n]]

\* What the fold in Scatter computes for every set of places.
ScatterFold(L, ws, span) ==
  CHOOSE g : g = [s \in SUBSET (DOMAIN Positions(ws)) |->
                    IF s = {} THEN ScatterStart(L, ws, span)
                    ELSE ScatterStep(L, ws, span, g[s \ {Max(s)}], Positions(ws)[Max(s)])]

LEMMA ScatterIsFold ==
  \A L, ws, span : Scatter(L, ws, span) = ScatterFold(L, ws, span)[DOMAIN Positions(ws)]
BY DEF Scatter, FoldLeftDomain, FoldLeft, MapThenFoldSet, ScatterFold, ScatterStep,
       ScatterStart, Positions


LEMMA OffsetIsPlace ==
  ASSUME NEW L, Geometry(L), NEW i \in Nat
  PROVE  VectorOffset(L, i) = HeaderSize + Place(L, i) /\ VectorOffset(L, i) \in Nat
<1>1. /\ BlockOf(L, i) \in Nat /\ SlotOf(L, i) \in Nat /\ L.blockSize \in Nat
      /\ VectorBytes(L) \in Nat /\ HeaderSize \in Nat /\ Place(L, i) \in Nat
  BY LayoutBounds, PlaceIsNat, HeaderAssumption
<1>2. BlockOf(L, i) * L.blockSize \in Nat /\ SlotOf(L, i) * VectorBytes(L) \in Nat
  BY <1>1
<1> QED
  BY <1>1, <1>2 DEF VectorOffset, BlockOffset, Place

LEMMA SpanLengths ==
  ASSUME NEW L, Geometry(L), NEW i \in Nat, NEW j \in Nat
  PROVE  /\ RunSpan(L, i, j).start = VectorOffset(L, i)
         /\ RunSpan(L, i, j).len = Place(L, j) + VectorBytes(L) - Place(L, i)
         /\ RunSpan(L, i, j).len \in Int
<1>1. /\ VectorOffset(L, i) = HeaderSize + Place(L, i) /\ Place(L, i) \in Nat
      /\ VectorOffset(L, j) = HeaderSize + Place(L, j) /\ Place(L, j) \in Nat
      /\ VectorBytes(L) \in Nat /\ HeaderSize \in Nat
  BY OffsetIsPlace, PlaceIsNat, LayoutBounds, HeaderAssumption
<1>2. RunSpan(L, i, j).len = VectorOffset(L, j) + VectorBytes(L) - VectorOffset(L, i)
  BY DEF RunSpan
<1>3. RunSpan(L, i, j).start = VectorOffset(L, i)
  BY DEF RunSpan
<1> QED
  BY <1>1, <1>2, <1>3

\* The sweep of plan, place by place.
LEMMA PlanUnfolds ==
  ASSUME NEW L, Geometry(L), NEW order \in Seq(Nat)
  PROVE  \E acc :
           /\ acc[0] = PlanStart
           /\ \A k \in 1 .. Len(order) : acc[k] = PlanStep(L, acc[k - 1], order[k])
           /\ PlanFold(L, order)[DOMAIN order] = acc[Len(order)]
<1> DEFINE n == Len(order)
           step == [p \in PlanAcc \X (1 .. n) |-> PlanStep(L, p[1], order[p[2]])]
           G == PlanFold(L, order)
           acc == [k \in 0 .. n |-> G[1 .. k]]
<1>1. n \in Nat /\ DOMAIN order = 1 .. n
  OBVIOUS
<1>2. step \in [PlanAcc \X (1 .. n) -> PlanAcc]
  <2> SUFFICES ASSUME NEW a \in PlanAcc, NEW k \in 1 .. n PROVE PlanStep(L, a, order[k]) \in PlanAcc
    OBVIOUS
  <2>1. a.runs \in Nat /\ a.first \in Nat /\ a.last \in Nat /\ a.spanBytes \in Int
    BY DEF PlanAcc
  <2>2. order[k] \in Nat
    OBVIOUS
  <2>3. RunSpan(L, a.first, a.last).len \in Int
    BY <2>1, SpanLengths
  <2>4. CASE a.runs > 0 /\ Continues(L, a.last, order[k])
    BY <2>2, <2>4 DEF PlanStep, PlanAcc
  <2>5. CASE ~ (a.runs > 0 /\ Continues(L, a.last, order[k]))
    BY <2>1, <2>2, <2>3, <2>5 DEF PlanStep, PlanAcc
  <2> QED
    BY <2>4, <2>5
<1>3. PlanStart \in PlanAcc
  BY DEF PlanStart, PlanAcc
<1> HIDE DEF n, step
<1>4. PICK g \in [SUBSET (1 .. n) -> PlanAcc] :
        \A s \in SUBSET (1 .. n) :
          g[s] = IF s = {} THEN PlanStart ELSE step[<<g[s \ {Max(s)}], Max(s)>>]
  <2>1. \E g : Folds(g, n, PlanAcc, PlanStart, step)
    BY <1>1, <1>2, <1>3, FoldExists
  <2> QED
    BY <2>1 DEF Folds
<1>5. \A s \in SUBSET (1 .. n) :
        g[s] = IF s = {} THEN PlanStart ELSE PlanStep(L, g[s \ {Max(s)}], order[Max(s)])
  <2> SUFFICES ASSUME NEW s \in SUBSET (1 .. n), s # {}
               PROVE  g[s] = PlanStep(L, g[s \ {Max(s)}], order[Max(s)])
    BY <1>4
  <2>1. Max(s) \in 1 .. n
    BY <1>1, LargestMember
  <2>2. g[s \ {Max(s)}] \in PlanAcc
    BY <1>4
  <2>3. <<g[s \ {Max(s)}], Max(s)>> \in PlanAcc \X (1 .. n)
    BY <2>1, <2>2
  <2>4. step[<<g[s \ {Max(s)}], Max(s)>>] = PlanStep(L, g[s \ {Max(s)}], order[Max(s)])
    BY <2>3 DEF step
  <2> QED
    BY <1>4, <2>4
<1>6. g = [s \in SUBSET (DOMAIN order) |->
             IF s = {} THEN PlanStart ELSE PlanStep(L, g[s \ {Max(s)}], order[Max(s)])]
  BY <1>1, <1>4, <1>5
<1>7. G = [s \in SUBSET (DOMAIN order) |->
             IF s = {} THEN PlanStart ELSE PlanStep(L, G[s \ {Max(s)}], order[Max(s)])]
  BY <1>6 DEF PlanFold
<1> HIDE DEF G
<1>8. ASSUME NEW k \in 1 .. n PROVE G[1 .. k] = PlanStep(L, G[1 .. k - 1], order[k])
  <2>1. PICK m \in Nat \ {0} : m = k
    BY <1>1
  <2>2. Max(1 .. k) = k /\ (1 .. k) \ {k} = 1 .. k - 1 /\ 1 .. k # {}
    BY <2>1, LargestOfPrefix
  <2>3. 1 .. k \in SUBSET (DOMAIN order)
    BY <1>1, <2>1
  <2> QED
    BY <1>7, <2>2, <2>3
<1>9. G[1 .. 0] = PlanStart
  <2>1. 1 .. 0 = {}
    OBVIOUS
  <2> QED
    BY <1>7, <2>1
<1>10. /\ acc[0] = PlanStart /\ acc[n] = G[DOMAIN order]
       /\ \A k \in 1 .. n : acc[k] = PlanStep(L, acc[k - 1], order[k])
  <2>1. \A k \in 0 .. n : acc[k] = G[1 .. k]
    OBVIOUS
  <2>2. 0 \in 0 .. n /\ n \in 0 .. n /\ \A k \in 1 .. n : k \in 0 .. n /\ k - 1 \in 0 .. n
    BY <1>1
  <2> HIDE DEF acc
  <2> QED
    BY <1>1, <1>8, <1>9, <2>1, <2>2
<1> HIDE DEF acc
<1> QED
  BY <1>10 DEF G, n

LEMMA PositionsAreIndices ==
  ASSUME NEW S, NEW w \in Seq(S)
  PROVE  DOMAIN Positions(w) = 1 .. Len(w) /\ \A k \in 1 .. Len(w) : Positions(w)[k] = k
BY DEF Positions

LEMMA GroupStepIsTyped ==
  ASSUME NEW L, NEW order, NEW spans \in Seq(Window), NEW pos \in Nat
  PROVE  GroupStep(L, order, spans, pos) \in Seq(Window)
<1> DEFINE m == Len(spans)
           longer == [spans EXCEPT ![m].count = @ + 1]
<1>1. [start |-> pos, count |-> 1] \in Window
  BY DEF Window
<1>2. Append(spans, [start |-> pos, count |-> 1]) \in Seq(Window)
  BY <1>1
<1>3. longer \in Seq(Window)
  <2>1. m \in Nat /\ DOMAIN spans = 1 .. m
    OBVIOUS
  <2>2. DOMAIN longer = 1 .. m
    BY <2>1
  <2>3. ASSUME NEW i \in 1 .. m PROVE longer[i] \in Window
    <3>1. spans[i] \in Window
      BY <2>1
    <3>2. CASE i = m
      <4>1. longer[i] = [spans[i] EXCEPT !.count = @ + 1]
        BY <2>1, <3>2
      <4> QED
        BY <3>1, <4>1 DEF Window
    <3>3. CASE i # m
      <4>1. longer[i] = spans[i]
        BY <2>1, <3>3
      <4> QED
        BY <3>1, <4>1
    <3> QED
      BY <3>2, <3>3
  <2>4. longer = [i \in 1 .. m |-> longer[i]]
    BY <2>1, <2>2
  <2> HIDE DEF longer
  <2> QED
    BY <2>1, <2>3, <2>4
<1> QED
  BY <1>2, <1>3 DEF GroupStep

\* The grouping of run_spans, place by place.
LEMMA GroupUnfolds ==
  ASSUME NEW L, NEW order \in Seq(Nat)
  PROVE  \E acc :
           /\ acc[0] = << >>
           /\ \A k \in 1 .. Len(order) : acc[k] = GroupStep(L, order, acc[k - 1], k)
           /\ RunSpans(L, order) = acc[Len(order)]
<1> DEFINE n == Len(order)
           step == [p \in Seq(Window) \X (1 .. n) |-> GroupStep(L, order, p[1], p[2])]
           G == GroupFold(L, order)
           acc == [k \in 0 .. n |-> G[1 .. k]]
<1>1. /\ n \in Nat /\ DOMAIN Positions(order) = 1 .. n
      /\ \A k \in 1 .. n : Positions(order)[k] = k
  BY PositionsAreIndices
<1>2. step \in [Seq(Window) \X (1 .. n) -> Seq(Window)]
  <2>1. \A a \in Seq(Window), k \in 1 .. n : GroupStep(L, order, a, k) \in Seq(Window)
    BY <1>1, GroupStepIsTyped
  <2> QED
    BY <2>1
<1>3. << >> \in Seq(Window)
  OBVIOUS
<1> HIDE DEF n, step
<1>4. PICK g \in [SUBSET (1 .. n) -> Seq(Window)] :
        \A s \in SUBSET (1 .. n) :
          g[s] = IF s = {} THEN << >> ELSE step[<<g[s \ {Max(s)}], Max(s)>>]
  <2>1. \E g : Folds(g, n, Seq(Window), << >>, step)
    BY <1>1, <1>2, <1>3, FoldExists
  <2> QED
    BY <2>1 DEF Folds
<1>5. \A s \in SUBSET (1 .. n) :
        g[s] = IF s = {} THEN << >> ELSE GroupStep(L, order, g[s \ {Max(s)}], Positions(order)[Max(s)])
  <2> SUFFICES ASSUME NEW s \in SUBSET (1 .. n), s # {}
               PROVE  g[s] = GroupStep(L, order, g[s \ {Max(s)}], Positions(order)[Max(s)])
    BY <1>4
  <2>1. Max(s) \in 1 .. n
    BY <1>1, LargestMember
  <2>2. g[s \ {Max(s)}] \in Seq(Window) /\ Positions(order)[Max(s)] = Max(s)
    BY <1>1, <1>4, <2>1
  <2>3. <<g[s \ {Max(s)}], Max(s)>> \in Seq(Window) \X (1 .. n)
    BY <2>1, <2>2
  <2>4. step[<<g[s \ {Max(s)}], Max(s)>>] = GroupStep(L, order, g[s \ {Max(s)}], Max(s))
    BY <2>3 DEF step
  <2> QED
    BY <1>4, <2>2, <2>4
<1>6. g = [s \in SUBSET (DOMAIN Positions(order)) |->
             IF s = {} THEN << >>
             ELSE GroupStep(L, order, g[s \ {Max(s)}], Positions(order)[Max(s)])]
  BY <1>1, <1>4, <1>5
<1>7. G = [s \in SUBSET (DOMAIN Positions(order)) |->
             IF s = {} THEN << >>
             ELSE GroupStep(L, order, G[s \ {Max(s)}], Positions(order)[Max(s)])]
  BY <1>6 DEF GroupFold
<1> HIDE DEF G
<1>8. ASSUME NEW k \in 1 .. n PROVE G[1 .. k] = GroupStep(L, order, G[1 .. k - 1], k)
  <2>1. PICK m \in Nat \ {0} : m = k
    BY <1>1
  <2>2. Max(1 .. k) = k /\ (1 .. k) \ {k} = 1 .. k - 1 /\ 1 .. k # {}
    BY <2>1, LargestOfPrefix
  <2>3. 1 .. k \in SUBSET (DOMAIN Positions(order)) /\ Positions(order)[k] = k
    BY <1>1, <2>1
  <2>4. PICK s : s = 1 .. k
    OBVIOUS
  <2>5. G[s] = GroupStep(L, order, G[s \ {Max(s)}], Positions(order)[Max(s)])
    BY <1>7, <2>2, <2>3, <2>4
  <2>6. Max(s) = k /\ s \ {Max(s)} = 1 .. k - 1
    BY <2>2, <2>4
  <2> QED
    BY <2>3, <2>4, <2>5, <2>6
<1>9. G[1 .. 0] = << >>
  <2>1. 1 .. 0 = {}
    OBVIOUS
  <2> QED
    BY <1>7, <2>1
<1>10. /\ acc[0] = << >> /\ acc[n] = G[DOMAIN Positions(order)]
       /\ \A k \in 1 .. n : acc[k] = GroupStep(L, order, acc[k - 1], k)
  <2>1. \A k \in 0 .. n : acc[k] = G[1 .. k]
    OBVIOUS
  <2>2. 0 \in 0 .. n /\ n \in 0 .. n /\ \A k \in 1 .. n : k \in 0 .. n /\ k - 1 \in 0 .. n
    BY <1>1
  <2> HIDE DEF acc
  <2> QED
    BY <1>1, <1>8, <1>9, <2>1, <2>2
<1>11. RunSpans(L, order) = acc[n]
  BY <1>10, GroupingIsFold DEF G
<1> HIDE DEF acc, G
<1> QED
  BY <1>10, <1>11 DEF n


LEMMA ZerosAreASequence == \A k \in Int : /\ [b \in 1 .. k |-> 0] \in Seq(Nat)
                                         /\ k \in Nat => Len([b \in 1 .. k |-> 0]) = k
<1> SUFFICES ASSUME NEW k \in Int
             PROVE  /\ [b \in 1 .. k |-> 0] \in Seq(Nat)
                    /\ k \in Nat => Len([b \in 1 .. k |-> 0]) = k
  OBVIOUS
<1>1. CASE k \in Nat
  BY <1>1
<1>2. CASE k \notin Nat
  <2>1. 1 .. k = 1 .. 0
    BY <1>2
  <2>2. [b \in 1 .. k |-> 0] = [b \in 1 .. 0 |-> 0]
    BY <2>1
  <2>3. [b \in 1 .. 0 |-> 0] \in Seq(Nat)
    OBVIOUS
  <2> QED
    BY <1>2, <2>2, <2>3
<1> QED
  BY <1>1, <1>2

\* The list of buffers of scatter_run, vector by vector.
LEMMA ScatterUnfolds ==
  ASSUME NEW L, Geometry(L), NEW ws \in Seq(Nat), NEW span, span.start \in Int,
         span.len \in Int
  PROVE  \E acc :
           /\ acc[0] = ScatterStart(L, ws, span)
           /\ \A k \in 1 .. Len(ws) : acc[k] = ScatterStep(L, ws, span, acc[k - 1], k)
           /\ Scatter(L, ws, span) = acc[Len(ws)]
<1> DEFINE n == Len(ws)
           step == [p \in ScatterAcc \X (1 .. n) |-> ScatterStep(L, ws, span, p[1], p[2])]
           G == ScatterFold(L, ws, span)
           acc == [k \in 0 .. n |-> G[1 .. k]]
<1>1. /\ n \in Nat /\ DOMAIN Positions(ws) = 1 .. n
      /\ \A k \in 1 .. n : Positions(ws)[k] = k
  BY PositionsAreIndices
<1>2. step \in [ScatterAcc \X (1 .. n) -> ScatterAcc]
  <2>1. ASSUME NEW a \in ScatterAcc, NEW k \in 1 .. n
        PROVE  ScatterStep(L, ws, span, a, k) \in ScatterAcc
    <3> DEFINE rel == VectorOffset(L, ws[k]) - span.start
               gap == rel - a.prevEnd
               v == VectorBytes(L)
               zeros == [b \in 1 .. gap |-> 0]
               own == [b \in 1 .. v |-> k]
    <3>1. a.prevEnd \in Int /\ a.sinkLeft \in Int /\ a.dests \in Seq(Nat)
      BY DEF ScatterAcc
    <3>2. rel \in Int /\ v \in Nat /\ k \in Nat
      <4>1. ws[k] \in Nat
        OBVIOUS
      <4>2. VectorOffset(L, ws[k]) \in Nat /\ VectorBytes(L) \in Nat
        BY <4>1, OffsetIsPlace, LayoutBounds
      <4> QED
        BY <1>1, <4>2
    <3>3. gap \in Int
      BY <3>1, <3>2
    <3>4. zeros \in Seq(Nat)
      BY <3>3, ZerosAreASequence
    <3>5. own \in Seq(Nat)
      BY <3>2
    <3>6. ScatterStep(L, ws, span, a, k) =
            [prevEnd |-> rel + v, sinkLeft |-> a.sinkLeft - gap, dests |-> a.dests \o zeros \o own]
      BY DEF ScatterStep
    <3> HIDE DEF rel, gap, v, zeros, own
    <3>7. a.dests \o zeros \o own \in Seq(Nat)
      BY <3>1, <3>4, <3>5
    <3>8. rel + v \in Int /\ a.sinkLeft - gap \in Int
      BY <3>1, <3>2, <3>3
    <3> QED
      BY <3>6, <3>7, <3>8 DEF ScatterAcc
  <2> QED
    BY <2>1
<1>3. ScatterStart(L, ws, span) \in ScatterAcc
  <2>1. VectorBytes(L) \in Nat
    BY LayoutBounds
  <2>2. n * VectorBytes(L) \in Int
    BY <1>1, <2>1
  <2> QED
    BY <2>2 DEF ScatterStart, ScatterAcc
<1> HIDE DEF n, step
<1>4. PICK g \in [SUBSET (1 .. n) -> ScatterAcc] :
        \A s \in SUBSET (1 .. n) :
          g[s] = IF s = {} THEN ScatterStart(L, ws, span) ELSE step[<<g[s \ {Max(s)}], Max(s)>>]
  <2>1. \E g : Folds(g, n, ScatterAcc, ScatterStart(L, ws, span), step)
    BY <1>1, <1>2, <1>3, FoldExists
  <2> QED
    BY <2>1 DEF Folds
<1>5. \A s \in SUBSET (1 .. n) :
        g[s] = IF s = {} THEN ScatterStart(L, ws, span) ELSE ScatterStep(L, ws, span, g[s \ {Max(s)}], Positions(ws)[Max(s)])
  <2> SUFFICES ASSUME NEW s \in SUBSET (1 .. n), s # {}
               PROVE  g[s] = ScatterStep(L, ws, span, g[s \ {Max(s)}], Positions(ws)[Max(s)])
    BY <1>4
  <2>1. Max(s) \in 1 .. n
    BY <1>1, LargestMember
  <2>2. g[s \ {Max(s)}] \in ScatterAcc /\ Positions(ws)[Max(s)] = Max(s)
    BY <1>1, <1>4, <2>1
  <2>3. <<g[s \ {Max(s)}], Max(s)>> \in ScatterAcc \X (1 .. n)
    BY <2>1, <2>2
  <2>4. step[<<g[s \ {Max(s)}], Max(s)>>] = ScatterStep(L, ws, span, g[s \ {Max(s)}], Max(s))
    BY <2>3 DEF step
  <2> QED
    BY <1>4, <2>2, <2>4
<1>6. g = [s \in SUBSET (DOMAIN Positions(ws)) |->
             IF s = {} THEN ScatterStart(L, ws, span)
             ELSE ScatterStep(L, ws, span, g[s \ {Max(s)}], Positions(ws)[Max(s)])]
  BY <1>1, <1>4, <1>5
<1>7. G = [s \in SUBSET (DOMAIN Positions(ws)) |->
             IF s = {} THEN ScatterStart(L, ws, span)
             ELSE ScatterStep(L, ws, span, G[s \ {Max(s)}], Positions(ws)[Max(s)])]
  BY <1>6 DEF ScatterFold
<1> HIDE DEF G
<1>8. ASSUME NEW k \in 1 .. n PROVE G[1 .. k] = ScatterStep(L, ws, span, G[1 .. k - 1], k)
  <2>1. PICK m \in Nat \ {0} : m = k
    BY <1>1
  <2>2. Max(1 .. k) = k /\ (1 .. k) \ {k} = 1 .. k - 1 /\ 1 .. k # {}
    BY <2>1, LargestOfPrefix
  <2>3. 1 .. k \in SUBSET (DOMAIN Positions(ws)) /\ Positions(ws)[k] = k
    BY <1>1, <2>1
  <2>4. PICK s : s = 1 .. k
    OBVIOUS
  <2>5. G[s] = ScatterStep(L, ws, span, G[s \ {Max(s)}], Positions(ws)[Max(s)])
    BY <1>7, <2>2, <2>3, <2>4
  <2>6. Max(s) = k /\ s \ {Max(s)} = 1 .. k - 1
    BY <2>2, <2>4
  <2> QED
    BY <2>3, <2>4, <2>5, <2>6
<1>9. G[1 .. 0] = ScatterStart(L, ws, span)
  <2>1. 1 .. 0 = {}
    OBVIOUS
  <2> QED
    BY <1>7, <2>1
<1>10. /\ acc[0] = ScatterStart(L, ws, span) /\ acc[n] = G[DOMAIN Positions(ws)]
       /\ \A k \in 1 .. n : acc[k] = ScatterStep(L, ws, span, acc[k - 1], k)
  <2>1. \A k \in 0 .. n : acc[k] = G[1 .. k]
    OBVIOUS
  <2>2. 0 \in 0 .. n /\ n \in 0 .. n /\ \A k \in 1 .. n : k \in 0 .. n /\ k - 1 \in 0 .. n
    BY <1>1
  <2> HIDE DEF acc
  <2> QED
    BY <1>1, <1>8, <1>9, <2>1, <2>2
<1>11. Scatter(L, ws, span) = acc[n]
  BY <1>10, ScatterIsFold DEF G
<1> HIDE DEF acc, G
<1> QED
  BY <1>10, <1>11 DEF n

-----------------------------------------------------------------------------
(* A list of buffers covers its run.                                       *)

\* w is a, then z, then o.
Joined(w, a, z, o) ==
  LET l == Len(a)
      m == Len(a) + Len(z)
      n == Len(a) + Len(z) + Len(o)
  IN  /\ w \in Seq(Nat) /\ Len(w) = n
      /\ \A b \in 1 .. l : w[b] = a[b]
      /\ \A b \in l + 1 .. m : w[b] = z[b - l]
      /\ \A b \in m + 1 .. n : w[b] = o[b - m]

LEMMA ThreeParts ==
  ASSUME NEW a \in Seq(Nat), NEW z \in Seq(Nat), NEW o \in Seq(Nat)
  PROVE  Joined(a \o z \o o, a, z, o)
<1> DEFINE y == a \o z
           w == y \o o
           l == Len(a)
           m == Len(a) + Len(z)
           n == m + Len(o)
<1>1. l \in Nat /\ Len(z) \in Nat /\ Len(o) \in Nat
  OBVIOUS
<1>2. /\ y \in Seq(Nat) /\ Len(y) = m
      /\ \A b \in 1 .. m : y[b] = IF b <= l THEN a[b] ELSE z[b - l]
  BY ConcatProperties
<1> HIDE DEF y
<1>3. /\ w \in Seq(Nat) /\ Len(w) = n
      /\ \A b \in 1 .. n : w[b] = IF b <= m THEN y[b] ELSE o[b - m]
  <2>1. y \in Seq(Nat) /\ o \in Seq(Nat)
    BY <1>2
  <2>2. /\ w \in Seq(Nat) /\ Len(w) = Len(y) + Len(o)
        /\ \A b \in 1 .. Len(y) + Len(o) : w[b] = IF b <= Len(y) THEN y[b] ELSE o[b - Len(y)]
    BY <2>1, ConcatProperties
  <2>3. Len(y) = m
    BY <1>2
  <2> HIDE DEF w, m
  <2> QED
    BY <2>2, <2>3
<1>9. m \in Nat /\ n \in Nat /\ l <= m /\ m <= n
  BY <1>1
<1> HIDE DEF w, l, m, n
<1>4. \A b \in 1 .. l : w[b] = a[b]
  <2> SUFFICES ASSUME NEW b \in 1 .. l PROVE w[b] = a[b]
    OBVIOUS
  <2>1. b \in 1 .. n /\ b \in 1 .. m /\ b <= m /\ b <= l
    BY <1>1, <1>9 DEF l
  <2> QED
    BY <1>2, <1>3, <2>1
<1>5. \A b \in l + 1 .. m : w[b] = z[b - l]
  <2> SUFFICES ASSUME NEW b \in l + 1 .. m PROVE w[b] = z[b - l]
    OBVIOUS
  <2>1. b \in 1 .. n /\ b \in 1 .. m /\ b <= m /\ ~ (b <= l)
    <3>1. l \in Nat
      BY <1>1 DEF l
    <3> QED
      BY <1>9, <3>1
  <2> QED
    BY <1>2, <1>3, <2>1
<1>6. \A b \in m + 1 .. n : w[b] = o[b - m]
  <2> SUFFICES ASSUME NEW b \in m + 1 .. n PROVE w[b] = o[b - m]
    OBVIOUS
  <2>1. b \in 1 .. n /\ ~ (b <= m)
    BY <1>9
  <2> QED
    BY <1>3, <2>1
<1> QED
  BY <1>3, <1>4, <1>5, <1>6 DEF w, y, l, m, n, Joined

Increasing(w) == \A i, j \in 1 .. Len(w) : i < j => w[i] < w[j]

\* Where in its run vector n begins.
At(L, ws, n) == Place(L, ws[n]) - Place(L, ws[1])

LEMMA RunPlaces ==
  ASSUME NEW L, Geometry(L), NEW ws \in Seq(Nat), Increasing(ws), ws # << >>
  PROVE  /\ \A n \in 1 .. Len(ws) :
              /\ Place(L, ws[n]) \in Nat /\ At(L, ws, n) \in Nat
              /\ VectorOffset(L, ws[n]) - VectorOffset(L, ws[1]) = At(L, ws, n)
         /\ \A i, j \in 1 .. Len(ws) : i < j => At(L, ws, i) + VectorBytes(L) <= At(L, ws, j)
         /\ At(L, ws, 1) = 0
<1> DEFINE v == VectorBytes(L)
<1>1. v \in Nat /\ Len(ws) \in Nat /\ 1 \in 1 .. Len(ws) /\ HeaderSize \in Nat
  BY LayoutBounds, HeaderAssumption
<1>2. \A n \in 1 .. Len(ws) : ws[n] \in Nat
  OBVIOUS
<1>3. \A n \in 1 .. Len(ws) : /\ Place(L, ws[n]) \in Nat
                              /\ VectorOffset(L, ws[n]) = HeaderSize + Place(L, ws[n])
  BY <1>2, PlaceIsNat, OffsetIsPlace
<1>4. \A i, j \in 1 .. Len(ws) : i < j => Place(L, ws[i]) + v <= Place(L, ws[j])
  BY <1>2, PlacesAscend DEF Increasing
<1> HIDE DEF v
<1>5. \A n \in 1 .. Len(ws) : At(L, ws, n) = Place(L, ws[n]) - Place(L, ws[1])
  BY DEF At
<1>6. ASSUME NEW n \in 1 .. Len(ws) PROVE Place(L, ws[1]) <= Place(L, ws[n])
  <2>1. CASE n = 1
    BY <1>1, <1>3, <2>1
  <2>2. CASE 1 < n
    <3>1. Place(L, ws[1]) + v <= Place(L, ws[n])
      BY <1>1, <1>4, <2>2
    <3>2. Place(L, ws[1]) \in Nat /\ Place(L, ws[n]) \in Nat
      BY <1>1, <1>3
    <3> QED
      BY <1>1, <3>1, <3>2
  <2> QED
    BY <1>1, <2>1, <2>2
<1>7. \A n \in 1 .. Len(ws) :
        /\ Place(L, ws[n]) \in Nat /\ At(L, ws, n) \in Nat
        /\ VectorOffset(L, ws[n]) - VectorOffset(L, ws[1]) = At(L, ws, n)
  BY <1>1, <1>3, <1>5, <1>6
<1>8. \A i, j \in 1 .. Len(ws) : i < j => At(L, ws, i) + v <= At(L, ws, j)
  BY <1>1, <1>3, <1>4, <1>5, SMTT(20)
<1>9. At(L, ws, 1) = 0
  BY <1>1, <1>3, <1>5
<1> QED
  BY <1>7, <1>8, <1>9 DEF v

\* The first k vectors of a run are covered: every byte up to the end of the k-th has the
\* destination of the vector it is of, or none.
Covered(L, ws, k, list, size) ==
  LET v == VectorBytes(L)
      end == IF k = 0 THEN 0 ELSE At(L, ws, k) + v
  IN  /\ list.dests \in Seq(Nat) /\ Len(list.dests) = end /\ list.prevEnd = end
      /\ list.sinkLeft = size - Len(ws) * v - (end - k * v)
      /\ \A b \in 1 .. end : \A n \in 1 .. Len(ws) :
           list.dests[b] = n <=> n <= k /\ b \in At(L, ws, n) + 1 .. At(L, ws, n) + v

LEMMA StepCovers ==
  ASSUME NEW L, Geometry(L), NEW ws \in Seq(Nat), Increasing(ws), ws # << >>,
         NEW span, span.start = VectorOffset(L, ws[1]), span.len \in Int,
         NEW k \in Nat, k + 1 <= Len(ws), NEW list, Covered(L, ws, k, list, span.len)
  PROVE  Covered(L, ws, k + 1, ScatterStep(L, ws, span, list, k + 1), span.len)
<1> DEFINE v == VectorBytes(L)
           N == Len(ws)
           at == [n \in 1 .. N |-> At(L, ws, n)]
           end == IF k = 0 THEN 0 ELSE at[k] + v
           gap == at[k + 1] - end
           zeros == [b \in 1 .. gap |-> 0]
           own == [b \in 1 .. v |-> k + 1]
           new == ScatterStep(L, ws, span, list, k + 1)
<1>1. v \in Nat \ {0} /\ N \in Nat /\ k + 1 \in 1 .. N /\ k + 1 \in Nat
  BY LayoutBounds
<1>2. /\ at \in [1 .. N -> Nat] /\ at[1] = 0
      /\ \A i, j \in 1 .. N : i < j => at[i] + v <= at[j]
      /\ VectorOffset(L, ws[k + 1]) - VectorOffset(L, ws[1]) = at[k + 1]
  BY <1>1, RunPlaces
<1>3. /\ list.dests \in Seq(Nat) /\ Len(list.dests) = end /\ list.prevEnd = end
      /\ list.sinkLeft = span.len - N * v - (end - k * v)
      /\ \A b \in 1 .. end : \A n \in 1 .. N :
           list.dests[b] = n <=> n <= k /\ b \in at[n] + 1 .. at[n] + v
  <2>1. \A n \in 1 .. N : at[n] = At(L, ws, n)
    OBVIOUS
  <2>2. k # 0 => k \in 1 .. N
    BY <1>1
  <2> HIDE DEF at
  <2>3. end = IF k = 0 THEN 0 ELSE At(L, ws, k) + v
    BY <2>1, <2>2
  <2> HIDE DEF end
  <2>4. /\ list.dests \in Seq(Nat) /\ Len(list.dests) = end /\ list.prevEnd = end
        /\ list.sinkLeft = span.len - N * v - (end - k * v)
        /\ \A b \in 1 .. end : \A n \in 1 .. N :
             list.dests[b] = n <=> n <= k /\ b \in At(L, ws, n) + 1 .. At(L, ws, n) + v
    BY <2>3 DEF Covered
  <2> QED
    BY <2>1, <2>4
<1>4. new = [prevEnd |-> at[k + 1] + v, sinkLeft |-> list.sinkLeft - gap,
             dests |-> list.dests \o zeros \o own]
  BY <1>2, <1>3 DEF ScatterStep
<1> HIDE DEF v, N, at, new
<1>5. end \in Nat /\ gap \in Nat
  <2>1. CASE k = 0
    BY <1>2, <2>1, <1>1
  <2>2. CASE k # 0
    <3>1. k \in 1 .. N /\ at[k] + v <= at[k + 1] /\ at[k] \in Nat /\ at[k + 1] \in Nat
      BY <1>1, <1>2, <2>2
    <3> QED
      BY <1>1, <2>2, <3>1, SMTT(20)
  <2> QED
    BY <2>1, <2>2
<1>6. /\ zeros \in Seq(Nat) /\ Len(zeros) = gap /\ \A b \in 1 .. gap : zeros[b] = 0
      /\ own \in Seq(Nat) /\ Len(own) = v /\ \A b \in 1 .. v : own[b] = k + 1
  BY <1>1, <1>5
<1>7. \A n \in 1 .. k : at[n] \in Nat /\ at[n] + v <= end
  <2> SUFFICES ASSUME NEW n \in 1 .. k PROVE at[n] \in Nat /\ at[n] + v <= end
    OBVIOUS
  <2>1. n \in 1 .. N /\ k \in 1 .. N /\ at[n] \in Nat /\ at[k] \in Nat
    BY <1>1, <1>2, SMTT(20)
  <2>2. CASE n = k
    BY <1>1, <2>1, <2>2
  <2>3. CASE n < k
    <3>1. at[n] + v <= at[k]
      BY <1>2, <2>1, <2>3
    <3> QED
      BY <1>1, <2>1, <3>1, SMTT(20)
  <2> QED
    BY <2>1, <2>2, <2>3
<1>8. end + gap = at[k + 1] /\ at[k + 1] \in Nat
  BY <1>1, <1>2, <1>5, SMTT(20)
<1> HIDE DEF end, gap, zeros, own
<1> DEFINE w == list.dests \o zeros \o own
<1>9. /\ w \in Seq(Nat) /\ Len(w) = at[k + 1] + v
      /\ \A b \in 1 .. end : w[b] = list.dests[b]
      /\ \A b \in end + 1 .. at[k + 1] : w[b] = zeros[b - end]
      /\ \A b \in at[k + 1] + 1 .. at[k + 1] + v : w[b] = own[b - at[k + 1]]
  <2>1. Joined(w, list.dests, zeros, own)
    BY <1>3, <1>6, ThreeParts
  <2>2. Len(list.dests) = end /\ Len(zeros) = gap /\ Len(own) = v
    BY <1>3, <1>6
  <2> HIDE DEF w
  <2> QED
    BY <1>8, <2>1, <2>2 DEF Joined
<1> HIDE DEF w
<1>10. ASSUME NEW b \in 1 .. at[k + 1] + v, NEW n \in 1 .. N
       PROVE  w[b] = n <=> n <= k + 1 /\ b \in at[n] + 1 .. at[n] + v
  <2>1. b \in Nat /\ n \in Nat /\ at[n] \in Nat
    BY <1>2
  <2>2. CASE b \in 1 .. end
    <3>1. w[b] = n <=> n <= k /\ b \in at[n] + 1 .. at[n] + v
      BY <1>3, <1>9, <2>2
    <3>2. n = k + 1 => ~ (b \in at[n] + 1 .. at[n] + v)
      BY <1>1, <1>5, <1>8, <2>1, <2>2
    <3> QED
      BY <2>1, <3>1, <3>2
  <2>3. CASE b \in end + 1 .. at[k + 1]
    <3>1. w[b] = 0
      <4>1. b - end \in 1 .. gap
        BY <1>5, <1>8, <2>3
      <4> QED
        BY <1>6, <1>9, <2>3, <4>1
    <3>2. n = k + 1 => ~ (b \in at[n] + 1 .. at[n] + v)
      BY <1>8, <2>1, <2>3
    <3>3. n <= k => ~ (b \in at[n] + 1 .. at[n] + v)
      <4>1. n <= k => at[n] + v <= end
        BY <1>7, <2>1
      <4> QED
        BY <1>1, <1>5, <2>1, <2>3, <4>1
    <3> QED
      BY <2>1, <3>1, <3>2, <3>3
  <2>4. CASE b \in at[k + 1] + 1 .. at[k + 1] + v
    <3>1. w[b] = k + 1
      <4>1. b - at[k + 1] \in 1 .. v
        BY <1>1, <1>8, <2>4
      <4> QED
        BY <1>6, <1>9, <2>4, <4>1
    <3>2. ASSUME n <= k PROVE ~ (b \in at[n] + 1 .. at[n] + v)
      <4>1. PICK c \in Nat : c = at[k + 1]
        BY <1>8
      <4>2. at[n] + v <= end /\ end <= c
        BY <1>5, <1>7, <1>8, <2>1, <3>2, <4>1
      <4>3. b > c
        BY <2>1, <2>4, <4>1
      <4>4. PICK e \in Nat : e = at[n] + v
        BY <1>1, <2>1
      <4>5. b > e
        BY <1>5, <2>1, <4>2, <4>3, <4>4
      <4> QED
        BY <2>1, <4>4, <4>5
    <3> QED
      BY <2>1, <2>4, <3>1, <3>2
  <2> QED
    BY <1>1, <1>5, <1>8, <2>1, <2>2, <2>3, <2>4
<1>11. list.sinkLeft - gap = span.len - N * v - (at[k + 1] + v - (k + 1) * v)
  <2>1. (k + 1) * v = k * v + v
    BY <1>1
  <2>2. N * v \in Int /\ k * v \in Int
    BY <1>1
  <2> QED
    BY <1>1, <1>3, <1>5, <1>8, <2>1, <2>2, SMTT(20)
<1>12. new.dests = w /\ new.prevEnd = at[k + 1] + v /\ new.sinkLeft = list.sinkLeft - gap
  BY <1>4 DEF w
<1>13. k + 1 # 0
  OBVIOUS
<1>14. \A n \in 1 .. N : at[n] = At(L, ws, n)
  BY DEF at
<1>15. \A b \in 1 .. at[k + 1] + v : \A n \in 1 .. N :
         new.dests[b] = n <=> n <= k + 1 /\ b \in At(L, ws, n) + 1 .. At(L, ws, n) + v
  BY <1>10, <1>12, <1>14
<1>16. at[k + 1] = At(L, ws, k + 1)
  BY <1>1, <1>14
<1>17. /\ new.dests \in Seq(Nat) /\ Len(new.dests) = at[k + 1] + v /\ new.prevEnd = at[k + 1] + v
       /\ new.sinkLeft = span.len - N * v - (at[k + 1] + v - (k + 1) * v)
  BY <1>9, <1>11, <1>12
<1> HIDE DEF new
<1>18. LET e == IF k + 1 = 0 THEN 0 ELSE At(L, ws, k + 1) + v
       IN  /\ new.dests \in Seq(Nat) /\ Len(new.dests) = e /\ new.prevEnd = e
           /\ new.sinkLeft = span.len - N * v - (e - (k + 1) * v)
           /\ \A b \in 1 .. e : \A n \in 1 .. N :
                new.dests[b] = n <=> n <= k + 1 /\ b \in At(L, ws, n) + 1 .. At(L, ws, n) + v
  <2>1. PICK e \in Nat : e = at[k + 1] + v
    BY <1>1, <1>8
  <2>2. e = IF k + 1 = 0 THEN 0 ELSE At(L, ws, k + 1) + v
    BY <1>13, <1>16, <2>1
  <2>3. \A b \in 1 .. e : \A n \in 1 .. N :
          new.dests[b] = n <=> n <= k + 1 /\ b \in At(L, ws, n) + 1 .. At(L, ws, n) + v
    BY <1>15, <2>1
  <2>4. new.dests \in Seq(Nat) /\ Len(new.dests) = e /\ new.prevEnd = e
    BY <1>17, <2>1
  <2>5. new.sinkLeft = span.len - N * v - (e - (k + 1) * v)
    <3>1. N * v \in Int /\ (k + 1) * v \in Int
      BY <1>1
    <3> QED
      BY <1>1, <1>8, <1>17, <2>1, <3>1
  <2> QED
    BY <2>2, <2>3, <2>4, <2>5
<1> QED
  BY <1>18 DEF Covered, v, N, new

\* Where each byte of a run goes, and that the sink is used up.
Exact(L, ws, list) ==
  LET v == VectorBytes(L)
      size == At(L, ws, Len(ws)) + v
  IN  /\ RunSpan(L, ws[1], ws[Len(ws)]).len = size
      /\ list.dests \in Seq(Nat) /\ Len(list.dests) = size
      /\ list.sinkLeft = 0
      /\ \A b \in 1 .. size : \A n \in 1 .. Len(ws) :
           list.dests[b] = n <=> b \in At(L, ws, n) + 1 .. At(L, ws, n) + v

LEMMA ScatterCovers ==
  ASSUME NEW L, Geometry(L), NEW ws \in Seq(Nat), Increasing(ws), ws # << >>
  PROVE  Exact(L, ws, Scatter(L, ws, RunSpan(L, ws[1], ws[Len(ws)])))
<1> DEFINE N == Len(ws)
           v == VectorBytes(L)
           span == RunSpan(L, ws[1], ws[N])
           size == At(L, ws, N) + v
<1>1. N \in Nat /\ N >= 1 /\ 1 \in 1 .. N /\ N \in 1 .. N /\ v \in Nat \ {0}
  BY LayoutBounds
<1>2. ws[1] \in Nat /\ ws[N] \in Nat
  BY <1>1
<1>3. /\ span.start = VectorOffset(L, ws[1]) /\ span.start \in Int /\ span.len \in Int
      /\ span.len = Place(L, ws[N]) + v - Place(L, ws[1])
  <2>1. PICK i \in Nat, j \in Nat : i = ws[1] /\ j = ws[N]
    BY <1>2
  <2>2. PICK r : r = RunSpan(L, i, j)
    OBVIOUS
  <2>3. r.start = VectorOffset(L, i) /\ r.len = Place(L, j) + v - Place(L, i) /\ r.len \in Int
    BY <2>2, SpanLengths
  <2>4. VectorOffset(L, i) \in Int
    BY OffsetIsPlace
  <2>5. span = r
    BY <2>1, <2>2
  <2> HIDE DEF span, N, v
  <2> QED
    BY <2>1, <2>3, <2>4, <2>5
<1>4. At(L, ws, N) \in Nat /\ span.len = size
  <2>1. At(L, ws, N) \in Nat /\ Place(L, ws[1]) \in Nat /\ Place(L, ws[N]) \in Nat
    BY <1>1, RunPlaces
  <2> QED
    BY <1>1, <1>3, <2>1 DEF At
<1> HIDE DEF span, N, v
<1>5. PICK acc :
        /\ acc[0] = ScatterStart(L, ws, span)
        /\ \A k \in 1 .. N : acc[k] = ScatterStep(L, ws, span, acc[k - 1], k)
        /\ Scatter(L, ws, span) = acc[N]
  BY <1>3, ScatterUnfolds DEF N
<1> DEFINE Wrong == {k \in Nat : k <= N /\ ~ Covered(L, ws, k, acc[k], span.len)}
<1>6. Covered(L, ws, 0, acc[0], span.len)
  <2>1. 0 * v = 0 /\ N * v \in Int /\ 1 .. 0 = {}
    BY <1>1
  <2>2. span.len - N * v - (0 - 0 * v) = span.len - N * v
    BY <1>3, <2>1
  <2> QED
    BY <1>5, <2>1, <2>2 DEF Covered, ScatterStart, N, v
<1>7. ASSUME Wrong # {} PROVE FALSE
  <2>1. PICK m \in Wrong : \A y \in Wrong : m <= y
    BY <1>7, LeastNumber
  <2>2. m \in Nat /\ m <= N /\ m # 0 /\ ~ Covered(L, ws, m, acc[m], span.len)
    BY <1>6
  <2>3. PICK k \in Nat : m = k + 1
    <3>1. m - 1 \in Nat /\ m = m - 1 + 1
      BY <2>2
    <3> QED
      BY <3>1
  <2>4. k \notin Wrong /\ k <= N
    BY <1>1, <2>1, <2>2, <2>3
  <2>5. Covered(L, ws, k, acc[k], span.len)
    BY <2>4
  <2>6. Covered(L, ws, k + 1, ScatterStep(L, ws, span, acc[k], k + 1), span.len)
    BY <1>3, <2>2, <2>3, <2>5, StepCovers DEF N
  <2>7. m \in 1 .. N /\ m - 1 = k
    BY <1>1, <2>2, <2>3
  <2>8. acc[m] = ScatterStep(L, ws, span, acc[k], k + 1)
    BY <1>5, <2>3, <2>7
  <2> QED
    BY <2>2, <2>3, <2>6, <2>8
<1>8. Covered(L, ws, N, acc[N], span.len)
  BY <1>1, <1>7
<1>9. PICK list : list = Scatter(L, ws, span)
  OBVIOUS
<1>10. /\ list.dests \in Seq(Nat) /\ Len(list.dests) = size
       /\ list.sinkLeft = span.len - N * v - (size - N * v)
       /\ \A b \in 1 .. size : \A n \in 1 .. N :
            list.dests[b] = n <=> n <= N /\ b \in At(L, ws, n) + 1 .. At(L, ws, n) + v
  <2>1. N # 0 /\ list = acc[N]
    BY <1>1, <1>5, <1>9
  <2> HIDE DEF size
  <2>2. size = IF N = 0 THEN 0 ELSE At(L, ws, N) + v
    BY <2>1 DEF size
  <2> QED
    BY <1>8, <2>1, <2>2 DEF Covered, N, v
<1>11. list.sinkLeft = 0
  <2>1. N * v \in Int
    BY <1>1
  <2> QED
    BY <1>1, <1>4, <1>10, <2>1
<1>12. \A n \in 1 .. N : n <= N
  BY <1>1
<1> HIDE DEF size
<1>13. Exact(L, ws, list)
  <2>1. RunSpan(L, ws[1], ws[Len(ws)]).len = size /\ size = At(L, ws, Len(ws)) + VectorBytes(L)
    BY <1>4 DEF size, span, N, v
  <2> QED
    BY <1>10, <1>11, <1>12, <2>1 DEF Exact, N, v
<1> QED
  BY <1>9, <1>13 DEF span, N

-----------------------------------------------------------------------------
(* The plan and the executor cut the order into the same runs.             *)

\* How many vectors the first j windows hold.
Upto(spans, j) == IF j = 0 THEN 0 ELSE spans[j].start + spans[j].count - 1

\* The windows are the places 1 .. n, cut into pieces.
Tiles(spans, n) ==
  /\ spans \in Seq(Window)
  /\ \A j \in 1 .. Len(spans) : spans[j].count >= 1 /\ spans[j].start = Upto(spans, j - 1) + 1
  /\ n = Upto(spans, Len(spans))

\* Bytes from the first to the last vector of a window.
Extent(L, order, window) ==
  RunSpan(L, order[window.start], order[window.start + window.count - 1]).len

\* C sums the extents of the first m windows.
Charges(L, order, spans, m, C) ==
  /\ C \in [0 .. m -> Int] /\ C[0] = 0
  /\ \A j \in 1 .. m : C[j] = C[j - 1] + Extent(L, order, spans[j])

\* After n vectors plan has counted the windows that run_spans has made of them.
Agree(L, order, n, acc, spans) ==
  /\ acc \in PlanAcc /\ Tiles(spans, n)
  /\ n = 0 => acc = PlanStart /\ spans = << >>
  /\ n > 0 => /\ Len(spans) > 0 /\ acc.runs = Len(spans)
              /\ acc.first = order[spans[Len(spans)].start] /\ acc.last = order[n]
              /\ \E C : /\ Charges(L, order, spans, Len(spans) - 1, C)
                        /\ acc.spanBytes = C[Len(spans) - 1]

LEMMA PlanStepIsTyped ==
  ASSUME NEW L, Geometry(L), NEW a \in PlanAcc, NEW i \in Nat
  PROVE  PlanStep(L, a, i) \in PlanAcc
<1>1. a.runs \in Nat /\ a.first \in Nat /\ a.last \in Nat /\ a.spanBytes \in Int
  BY DEF PlanAcc
<1>2. RunSpan(L, a.first, a.last).len \in Int
  BY <1>1, SpanLengths
<1>3. CASE a.runs > 0 /\ Continues(L, a.last, i)
  BY <1>3 DEF PlanStep, PlanAcc
<1>4. CASE ~ (a.runs > 0 /\ Continues(L, a.last, i))
  BY <1>1, <1>2, <1>4 DEF PlanStep, PlanAcc
<1> QED
  BY <1>3, <1>4

IsGrown(longer, spans) == longer = [spans EXCEPT ![Len(spans)].count = @ + 1]

IsOpened(longer, spans, pos) == longer = Append(spans, [start |-> pos, count |-> 1])

\* A run goes on: its window grows.
LEMMA Growing ==
  ASSUME NEW n \in Nat, NEW spans, Tiles(spans, n), spans # << >>,
         NEW longer, IsGrown(longer, spans)
  PROVE  /\ Tiles(longer, n + 1) /\ Len(longer) = Len(spans)
         /\ \A j \in 1 .. Len(spans) - 1 : longer[j] = spans[j]
         /\ longer[Len(spans)].start = spans[Len(spans)].start
<1> DEFINE m == Len(spans)
<1>1. m \in Nat /\ m >= 1 /\ spans \in Seq(Window) /\ DOMAIN spans = 1 .. m
  BY DEF Tiles
<1>2. \A j \in 1 .. m : spans[j] \in Window
  BY <1>1
<1>3. \A j \in 1 .. m : spans[j].start \in Nat /\ spans[j].count \in Nat
  BY <1>2 DEF Window
<1>4. DOMAIN longer = 1 .. m
  BY <1>1 DEF IsGrown
<1>5. \A j \in 1 .. m - 1 : longer[j] = spans[j]
  <2> SUFFICES ASSUME NEW j \in 1 .. m - 1 PROVE longer[j] = spans[j]
    OBVIOUS
  <2>1. j \in 1 .. m /\ j # m
    <3> HIDE DEF m
    <3> QED
      BY <1>1
  <2> QED
    BY <1>1, <2>1 DEF IsGrown
<1>6. /\ longer[m].start = spans[m].start /\ longer[m].count = spans[m].count + 1
      /\ longer[m] \in Window
  <2>1. m \in 1 .. m
    BY <1>1
  <2>2. longer[m] = [spans[m] EXCEPT !.count = @ + 1]
    BY <1>1, <2>1 DEF IsGrown
  <2>3. spans[m] \in Window
    BY <1>2, <2>1
  <2> HIDE DEF m
  <2> QED
    BY <2>2, <2>3 DEF Window
<1> HIDE DEF m
<1>7. longer \in Seq(Window) /\ Len(longer) = m
  <2>1. \A j \in 1 .. m : longer[j] \in Window
    <3> SUFFICES ASSUME NEW j \in 1 .. m PROVE longer[j] \in Window
      OBVIOUS
    <3>1. j \in 1 .. m - 1 \/ j = m
      BY <1>1
    <3> QED
      BY <1>2, <1>5, <1>6, <3>1
  <2>2. longer = [j \in 1 .. m |-> longer[j]]
    BY <1>4 DEF IsGrown
  <2> QED
    BY <1>1, <2>1, <2>2
<1>8. \A j \in 0 .. m - 1 : Upto(longer, j) = Upto(spans, j)
  <2> SUFFICES ASSUME NEW j \in 0 .. m - 1 PROVE Upto(longer, j) = Upto(spans, j)
    OBVIOUS
  <2>1. CASE j = 0
    BY <2>1 DEF Upto
  <2>2. CASE j # 0
    <3>1. longer[j] = spans[j]
      BY <1>1, <1>5, <2>2
    <3> QED
      BY <2>2, <3>1 DEF Upto
  <2> QED
    BY <2>1, <2>2
<1>9. Upto(longer, m) = n + 1
  <2>1. m \in 1 .. m /\ m # 0
    BY <1>1
  <2>2. n = spans[m].start + spans[m].count - 1
    BY <2>1 DEF Tiles, Upto, m
  <2> QED
    BY <1>3, <1>6, <2>1, <2>2 DEF Upto
<1>10. \A j \in 1 .. m : longer[j].count >= 1 /\ longer[j].start = Upto(longer, j - 1) + 1
  <2> SUFFICES ASSUME NEW j \in 1 .. m
               PROVE  longer[j].count >= 1 /\ longer[j].start = Upto(longer, j - 1) + 1
    OBVIOUS
  <2>1. spans[j].count >= 1 /\ spans[j].start = Upto(spans, j - 1) + 1
    BY DEF Tiles, m
  <2>2. j - 1 \in 0 .. m - 1
    BY <1>1
  <2>3. longer[j].start = spans[j].start /\ longer[j].count >= 1
    <3>1. j \in 1 .. m - 1 \/ j = m
      BY <1>1
    <3> QED
      BY <1>3, <1>5, <1>6, <2>1, <3>1
  <2> QED
    BY <1>8, <2>1, <2>2, <2>3
<1> QED
  BY <1>5, <1>6, <1>7, <1>9, <1>10 DEF Tiles, m

\* Another run begins.
LEMMA Opening ==
  ASSUME NEW n \in Nat, NEW spans, Tiles(spans, n),
         NEW longer, IsOpened(longer, spans, n + 1)
  PROVE  /\ Tiles(longer, n + 1) /\ Len(longer) = Len(spans) + 1
         /\ \A j \in 1 .. Len(spans) : longer[j] = spans[j]
         /\ longer[Len(spans) + 1] = [start |-> n + 1, count |-> 1]
<1> DEFINE m == Len(spans)
           w == [start |-> n + 1, count |-> 1]
<1>1. m \in Nat /\ spans \in Seq(Window) /\ w \in Window
  BY DEF Tiles, Window
<1>2. /\ longer \in Seq(Window) /\ Len(longer) = m + 1
      /\ \A j \in 1 .. m : longer[j] = spans[j]
      /\ longer[m + 1] = w
  <2>1. longer = Append(spans, w)
    BY DEF IsOpened
  <2> HIDE DEF w
  <2> QED
    BY <1>1, <2>1
<1>3. w.start = n + 1 /\ w.count = 1
  OBVIOUS
<1> HIDE DEF m, w
<1>4. \A j \in 0 .. m : Upto(longer, j) = Upto(spans, j)
  <2> SUFFICES ASSUME NEW j \in 0 .. m PROVE Upto(longer, j) = Upto(spans, j)
    OBVIOUS
  <2>1. j = 0 \/ longer[j] = spans[j]
    BY <1>1, <1>2
  <2> QED
    BY <2>1 DEF Upto
<1>5. Upto(longer, m + 1) = n + 1
  BY <1>1, <1>2, <1>3 DEF Upto
<1>6. ASSUME NEW j \in 1 .. m + 1
      PROVE  longer[j].count >= 1 /\ longer[j].start = Upto(longer, j - 1) + 1
  <2>1. CASE j \in 1 .. m
    <3>1. spans[j].count >= 1 /\ spans[j].start = Upto(spans, j - 1) + 1
      BY <2>1 DEF Tiles, m
    <3>2. j - 1 \in 0 .. m
      BY <1>1
    <3> QED
      BY <1>2, <1>4, <2>1, <3>1, <3>2
  <2>2. CASE j = m + 1
    <3>1. Upto(spans, m) = n
      BY DEF Tiles, m
    <3>2. j - 1 = m /\ m \in 0 .. m
      BY <1>1, <2>2
    <3>3. longer[j] = w /\ Upto(longer, j - 1) = n
      BY <1>2, <1>4, <2>2, <3>1, <3>2
    <3> QED
      BY <1>3, <3>3
  <2> QED
    BY <1>1, <2>1, <2>2
<1> QED
  BY <1>2, <1>5, <1>6 DEF Tiles, m, w

LEMMA AgreeStep ==
  ASSUME NEW L, Geometry(L), NEW order \in Seq(Nat), NEW n \in Nat, n + 1 <= Len(order),
         NEW acc, NEW spans, Agree(L, order, n, acc, spans)
  PROVE  Agree(L, order, n + 1, PlanStep(L, acc, order[n + 1]), GroupStep(L, order, spans, n + 1))
<1> DEFINE i == order[n + 1]
           m == Len(spans)
           new == PlanStep(L, acc, i)
           longer == GroupStep(L, order, spans, n + 1)
<1>1. /\ acc \in PlanAcc /\ Tiles(spans, n) /\ spans \in Seq(Window) /\ m \in Nat
      /\ i \in Nat /\ n + 1 \in Nat
  <2>1. n + 1 \in 1 .. Len(order)
    OBVIOUS
  <2> QED
    BY <2>1 DEF Agree, Tiles
<1>2. new \in PlanAcc
  BY <1>1, PlanStepIsTyped
<1>3. n + 1 # 0 /\ n + 1 > 0
  OBVIOUS
<1>4. CASE n = 0
  <2>1. acc = PlanStart /\ spans = << >> /\ m = 0 /\ n + 1 = 1
    BY <1>4 DEF Agree
  <2>2. acc.runs = 0
    BY <2>1 DEF PlanStart
  <2>3. new = [runs |-> 1, first |-> i, last |-> i, spanBytes |-> 0]
    BY <2>2 DEF PlanStep
  <2>4. IsOpened(longer, spans, n + 1)
    BY <2>1 DEF GroupStep, IsOpened
  <2> HIDE DEF longer, new, i, m
  <2>5. /\ Tiles(longer, n + 1) /\ Len(longer) = 1
        /\ longer[1] = [start |-> n + 1, count |-> 1]
    <3>1. /\ Tiles(longer, n + 1) /\ Len(longer) = m + 1
          /\ longer[m + 1] = [start |-> n + 1, count |-> 1]
      BY <1>1, <2>4, Opening DEF m
    <3>2. m + 1 = 1
      BY <2>1
    <3> QED
      BY <3>1, <3>2
  <2>6. longer[1].start = n + 1
    BY <2>5
  <2>7. Charges(L, order, longer, 0, [j \in 0 .. 0 |-> 0])
    BY DEF Charges
  <2>8. \E C : Charges(L, order, longer, 0, C) /\ 0 = C[0]
    BY <2>7 DEF Charges
  <2>9. Len(longer) - 1 = 0 /\ Len(longer) > 0
    BY <2>5
  <2>10. new.runs = 1 /\ new.first = i /\ new.last = i /\ new.spanBytes = 0
    BY <2>3
  <2> QED
    BY <1>2, <1>3, <2>5, <2>6, <2>8, <2>9, <2>10 DEF Agree, i, new, longer
<1>5. CASE n > 0
  <2>1. /\ m > 0 /\ acc.runs = m /\ acc.first = order[spans[m].start] /\ acc.last = order[n]
    BY <1>5 DEF Agree
  <2>2. PICK C : Charges(L, order, spans, m - 1, C) /\ acc.spanBytes = C[m - 1]
    BY <1>5 DEF Agree
  <2>3. n + 1 > 1 /\ n + 1 - 1 = n /\ acc.runs > 0
    BY <1>1, <1>5, <2>1
  <2>4. CASE Continues(L, order[n], i)
    <3>1. new = [acc EXCEPT !.last = i]
      BY <2>1, <2>3, <2>4 DEF PlanStep
    <3>2. IsGrown(longer, spans)
      BY <2>3, <2>4 DEF GroupStep, IsGrown
    <3> HIDE DEF longer, new, i, m
    <3>3. new.runs = m /\ new.first = acc.first /\ new.last = i /\ new.spanBytes = C[m - 1]
      BY <1>1, <2>1, <2>2, <3>1 DEF PlanAcc
    <3>4. spans # << >>
      BY <1>1, <2>1 DEF m
    <3>5. /\ Tiles(longer, n + 1) /\ Len(longer) = m
          /\ \A j \in 1 .. m - 1 : longer[j] = spans[j]
          /\ longer[m].start = spans[m].start
      BY <1>1, <3>2, <3>4, Growing DEF m
    <3>6. Charges(L, order, longer, m - 1, C)
      BY <2>2, <3>5 DEF Charges
    <3>7. \E D : Charges(L, order, longer, m - 1, D) /\ new.spanBytes = D[m - 1]
      BY <3>3, <3>6
    <3>8. new.first = order[longer[m].start]
      BY <2>1, <3>3, <3>5
    <3> QED
      BY <1>2, <1>3, <2>1, <3>3, <3>5, <3>7, <3>8 DEF Agree, i, new, longer
  <2>5. CASE ~ Continues(L, order[n], i)
    <3> DEFINE len == RunSpan(L, acc.first, acc.last).len
    <3>1. new = [runs |-> acc.runs + 1, first |-> i, last |-> i, spanBytes |-> acc.spanBytes + len]
      BY <2>1, <2>3, <2>5 DEF PlanStep
    <3>2. IsOpened(longer, spans, n + 1)
      BY <2>3, <2>5 DEF GroupStep, IsOpened
    <3> HIDE DEF longer, new, i, m
    <3>3. /\ Tiles(longer, n + 1) /\ Len(longer) = m + 1
          /\ \A j \in 1 .. m : longer[j] = spans[j]
          /\ longer[m + 1] = [start |-> n + 1, count |-> 1]
      BY <1>1, <3>2, Opening DEF m
    <3>4. len \in Int
      <4>1. acc.first \in Nat /\ acc.last \in Nat
        BY <1>1 DEF PlanAcc
      <4> QED
        BY <4>1, SpanLengths
    <3>5. len = Extent(L, order, spans[m])
      <4>1. n = spans[m].start + spans[m].count - 1
        BY <1>1, <2>1 DEF Tiles, Upto, m
      <4> QED
        BY <2>1, <4>1 DEF Extent
    <3> HIDE DEF len
    <3> DEFINE D == [j \in 0 .. m |-> IF j = m THEN C[m - 1] + len ELSE C[j]]
    <3>6. /\ C \in [0 .. m - 1 -> Int] /\ C[0] = 0
          /\ \A j \in 1 .. m - 1 : C[j] = C[j - 1] + Extent(L, order, spans[j])
      BY <2>2 DEF Charges
    <3>7. m - 1 \in 0 .. m - 1 /\ C[m - 1] \in Int
      BY <1>1, <2>1, <3>6
    <3>8. /\ D \in [0 .. m -> Int] /\ D[0] = 0 /\ D[m] = C[m - 1] + len
          /\ \A j \in 0 .. m - 1 : D[j] = C[j]
      <4>1. \A j \in 0 .. m : j \in 0 .. m - 1 \/ j = m
        BY <1>1
      <4>2. 0 \in 0 .. m - 1 /\ m \in 0 .. m /\ \A j \in 0 .. m - 1 : j \in 0 .. m /\ j # m
        BY <1>1, <2>1
      <4> QED
        BY <3>4, <3>6, <3>7, <4>1, <4>2
    <3> HIDE DEF D
    <3>9. ASSUME NEW j \in 1 .. m PROVE D[j] = D[j - 1] + Extent(L, order, longer[j])
      <4>1. longer[j] = spans[j]
        BY <3>3
      <4>2. CASE j = m
        <5>1. D[j - 1] = C[m - 1]
          BY <3>7, <3>8, <4>2
        <5> QED
          BY <3>5, <3>8, <4>1, <4>2, <5>1
      <4>3. CASE j # m
        <5>1. j \in 1 .. m - 1 /\ j \in 0 .. m - 1 /\ j - 1 \in 0 .. m - 1
          BY <1>1, <4>3
        <5>2. D[j] = C[j] /\ D[j - 1] = C[j - 1]
          BY <3>8, <5>1
        <5> QED
          BY <3>6, <4>1, <5>1, <5>2
      <4> QED
        BY <4>2, <4>3
    <3>10. Charges(L, order, longer, m, D)
      BY <3>8, <3>9 DEF Charges
    <3>11. /\ new.runs = m + 1 /\ new.first = i /\ new.last = i /\ new.spanBytes = D[m]
      BY <2>1, <2>2, <3>1, <3>8
    <3>12. \E E : Charges(L, order, longer, m, E) /\ new.spanBytes = E[m]
      BY <3>10, <3>11
    <3>13. Len(longer) > 0 /\ Len(longer) - 1 = m
      BY <1>1, <3>3
    <3>14. longer[Len(longer)].start = n + 1
      BY <3>3
    <3> QED
      BY <1>2, <1>3, <3>3, <3>11, <3>12, <3>13, <3>14 DEF Agree, i, new, longer
  <2> QED
    BY <2>4, <2>5
<1> QED
  BY <1>4, <1>5

\* The runs and their bytes, as plan and run_spans see them.
SameRuns(L, requested) ==
  LET p == PlanOf(L, requested)
      spans == RunSpans(L, p.order)
  IN  /\ Tiles(spans, Len(p.order))
      /\ p.runs = Len(spans)
      /\ \E C : Charges(L, p.order, spans, Len(spans), C) /\ p.spanBytes = C[Len(spans)]

LEMMA PlanAgrees ==
  ASSUME NEW L, Geometry(L), NEW requested, Ascending(ToSet(requested)) \in Seq(Nat)
  PROVE  SameRuns(L, requested)
<1> DEFINE order == Ascending(ToSet(requested))
           N == Len(order)
           spans == RunSpans(L, order)
           m == Len(spans)
           swept == PlanFold(L, order)[DOMAIN order]
           p == PlanOf(L, requested)
<1>1. N \in Nat /\ order \in Seq(Nat)
  OBVIOUS
<1>2. p = [order |-> order, runs |-> swept.runs, bytes |-> N * VectorBytes(L),
           spanBytes |-> IF order = << >> THEN 0
                         ELSE swept.spanBytes + RunSpan(L, swept.first, swept.last).len]
  BY PlanIsFold
<1> HIDE DEF order, N, spans, swept, p
<1>3. PICK pa :
        /\ pa[0] = PlanStart
        /\ \A k \in 1 .. N : pa[k] = PlanStep(L, pa[k - 1], order[k])
        /\ swept = pa[N]
  BY <1>1, PlanUnfolds DEF N, swept
<1>4. PICK ga :
        /\ ga[0] = << >>
        /\ \A k \in 1 .. N : ga[k] = GroupStep(L, order, ga[k - 1], k)
        /\ spans = ga[N]
  BY <1>1, GroupUnfolds DEF N, spans
<1> DEFINE Wrong == {k \in Nat : k <= N /\ ~ Agree(L, order, k, pa[k], ga[k])}
<1>5. Agree(L, order, 0, pa[0], ga[0])
  <2>1. PlanStart \in PlanAcc
    BY DEF PlanStart, PlanAcc
  <2>2. Tiles(<< >>, 0)
    BY DEF Tiles, Upto
  <2> QED
    BY <1>3, <1>4, <2>1, <2>2 DEF Agree
<1>6. ASSUME Wrong # {} PROVE FALSE
  <2>1. PICK y \in Wrong : \A z \in Wrong : y <= z
    BY <1>6, LeastNumber
  <2>2. y \in Nat /\ y <= N /\ y # 0 /\ ~ Agree(L, order, y, pa[y], ga[y])
    BY <1>5
  <2>3. PICK k \in Nat : y = k + 1
    <3>1. y - 1 \in Nat /\ y = y - 1 + 1
      BY <2>2
    <3> QED
      BY <3>1
  <2>4. k \notin Wrong /\ k <= N
    BY <1>1, <2>1, <2>2, <2>3
  <2>5. Agree(L, order, k, pa[k], ga[k])
    BY <2>4
  <2>6. Agree(L, order, k + 1, PlanStep(L, pa[k], order[k + 1]), GroupStep(L, order, ga[k], k + 1))
    BY <1>1, <2>2, <2>3, <2>5, AgreeStep DEF N
  <2>7. y \in 1 .. N /\ y - 1 = k
    BY <1>1, <2>2, <2>3
  <2>8. pa[y] = PlanStep(L, pa[k], order[k + 1]) /\ ga[y] = GroupStep(L, order, ga[k], k + 1)
    BY <1>3, <1>4, <2>3, <2>7
  <2> QED
    BY <2>2, <2>3, <2>6, <2>8
<1>7. Agree(L, order, N, swept, spans)
  BY <1>1, <1>3, <1>4, <1>6
<1>8. /\ Tiles(spans, N) /\ p.order = order /\ p.runs = swept.runs
  BY <1>2, <1>7 DEF Agree
<1>9. CASE N = 0
  <2>1. swept = PlanStart /\ spans = << >> /\ order = << >>
    BY <1>1, <1>7, <1>9 DEF Agree, N
  <2>2. p.runs = 0 /\ p.spanBytes = 0 /\ m = 0
    BY <1>2, <2>1 DEF PlanStart
  <2>3. Charges(L, order, spans, 0, [j \in 0 .. 0 |-> 0])
    BY DEF Charges
  <2>4. \E C : Charges(L, order, spans, 0, C) /\ 0 = C[0]
    BY <2>3 DEF Charges
  <2> QED
    BY <1>8, <2>2, <2>4 DEF SameRuns, N, spans, p
<1>10. CASE N > 0
  <2>1. /\ m > 0 /\ swept.runs = m /\ swept.first = order[spans[m].start] /\ swept.last = order[N]
    BY <1>7, <1>10 DEF Agree
  <2>2. PICK C : Charges(L, order, spans, m - 1, C) /\ swept.spanBytes = C[m - 1]
    BY <1>7, <1>10 DEF Agree
  <2> DEFINE len == RunSpan(L, swept.first, swept.last).len
             D == [j \in 0 .. m |-> IF j = m THEN C[m - 1] + len ELSE C[j]]
  <2>3. m \in Nat
    BY <1>8 DEF Tiles
  <2>4. len \in Int
    <3>1. swept.first \in Nat /\ swept.last \in Nat
      BY <1>7 DEF Agree, PlanAcc
    <3> QED
      BY <3>1, SpanLengths
  <2>5. len = Extent(L, order, spans[m])
    <3>1. N = spans[m].start + spans[m].count - 1
      BY <1>8, <2>1 DEF Tiles, Upto
    <3> QED
      BY <2>1, <3>1 DEF Extent
  <2>6. p.spanBytes = C[m - 1] + len
    <3>1. order # << >>
      BY <1>1, <1>10 DEF N
    <3> QED
      BY <1>2, <2>2, <3>1
  <2> HIDE DEF len, m
  <2>7. /\ C \in [0 .. m - 1 -> Int] /\ C[0] = 0
        /\ \A j \in 1 .. m - 1 : C[j] = C[j - 1] + Extent(L, order, spans[j])
    BY <2>2 DEF Charges
  <2>8. m - 1 \in 0 .. m - 1 /\ C[m - 1] \in Int
    BY <2>1, <2>3, <2>7
  <2>9. /\ D \in [0 .. m -> Int] /\ D[0] = 0 /\ D[m] = C[m - 1] + len
        /\ \A j \in 0 .. m - 1 : D[j] = C[j]
    <3>1. \A j \in 0 .. m : j \in 0 .. m - 1 \/ j = m
      BY <2>3
    <3>2. 0 \in 0 .. m - 1 /\ m \in 0 .. m /\ \A j \in 0 .. m - 1 : j \in 0 .. m /\ j # m
      BY <2>1, <2>3
    <3> QED
      BY <2>4, <2>7, <2>8, <3>1, <3>2
  <2> HIDE DEF D
  <2>10. ASSUME NEW j \in 1 .. m PROVE D[j] = D[j - 1] + Extent(L, order, spans[j])
    <3>1. CASE j = m
      <4>1. D[j - 1] = C[m - 1]
        BY <2>8, <2>9, <3>1
      <4> QED
        BY <2>5, <2>9, <3>1, <4>1
    <3>2. CASE j # m
      <4>1. j \in 1 .. m - 1 /\ j \in 0 .. m - 1 /\ j - 1 \in 0 .. m - 1
        BY <2>3, <3>2
      <4>2. D[j] = C[j] /\ D[j - 1] = C[j - 1]
        BY <2>9, <4>1
      <4> QED
        BY <2>7, <4>1, <4>2
    <3> QED
      BY <3>1, <3>2
  <2>11. Charges(L, order, spans, m, D)
    BY <2>9, <2>10 DEF Charges
  <2>12. \E E : Charges(L, order, spans, m, E) /\ p.spanBytes = E[m]
    BY <2>6, <2>9, <2>11
  <2> QED
    BY <1>8, <2>1, <2>12 DEF SameRuns, N, spans, p, m
<1> QED
  BY <1>1, <1>9, <1>10

\* Between two vectors of an ascending order there is room for those in between.
LEMMA PlacesSpread ==
  ASSUME NEW L, Geometry(L), NEW order \in Seq(Nat), Increasing(order),
         NEW a \in 1 .. Len(order), NEW b \in 1 .. Len(order), a <= b
  PROVE  Place(L, order[a]) + (b - a) * VectorBytes(L) <= Place(L, order[b])
<1> DEFINE v == VectorBytes(L)
           N == Len(order)
           at == [n \in 1 .. N |-> Place(L, order[n])]
           Wrong == {d \in Nat : \E i, j \in 1 .. N : j = i + d /\ ~ (at[i] + d * v <= at[j])}
<1>1. v \in Nat /\ N \in Nat
  BY LayoutBounds
<1>2. at \in [1 .. N -> Nat]
  <2>1. \A n \in 1 .. N : order[n] \in Nat
    OBVIOUS
  <2> QED
    BY <2>1, PlaceIsNat
<1>3. \A i, j \in 1 .. N : i < j => at[i] + v <= at[j]
  <2>1. \A n \in 1 .. N : order[n] \in Nat
    OBVIOUS
  <2> QED
    BY <2>1, PlacesAscend DEF Increasing
<1> HIDE DEF v, N, at
<1>4. ASSUME Wrong # {} PROVE FALSE
  <2>1. PICK d \in Wrong : \A y \in Wrong : d <= y
    BY <1>4, LeastNumber
  <2>2. PICK i \in 1 .. N, j \in 1 .. N : j = i + d /\ ~ (at[i] + d * v <= at[j])
    OBVIOUS
  <2>3. d \in Nat /\ d # 0
    <3>1. 0 * v = 0
      BY <1>1
    <3>2. d = 0 => i = j /\ at[i] + 0 <= at[j]
      BY <1>2, <2>2
    <3> QED
      BY <2>2, <3>1, <3>2
  <2>4. PICK e \in Nat : d = e + 1
    <3>1. d - 1 \in Nat /\ d = d - 1 + 1
      BY <2>3
    <3> QED
      BY <3>1
  <2>5. PICK k \in Int : k = i + e
    BY <2>4
  <2>6. k \in 1 .. N /\ k < j
    BY <1>1, <2>2, <2>4, <2>5
  <2>7. at[i] + e * v <= at[k]
    <3>1. e \notin Wrong
      BY <2>1, <2>4
    <3> QED
      BY <2>5, <2>6, <3>1
  <2>8. at[k] + v <= at[j]
    BY <1>3, <2>6
  <2>9. d * v = e * v + v
    BY <1>1, <2>4
  <2>10. PICK x \in Int, p \in Int, q \in Int, r \in Int :
           x = e * v /\ p = at[i] /\ q = at[k] /\ r = at[j]
    <3>1. e * v \in Int /\ at[i] \in Int /\ at[j] \in Int /\ at[k] \in Int
      BY <1>1, <1>2, <2>6
    <3> QED
      BY <3>1
  <2>11. p + x <= q /\ q + v <= r
    BY <2>7, <2>8, <2>10
  <2>12. ~ (p + (x + v) <= r)
    BY <2>2, <2>9, <2>10
  <2> QED
    BY <1>1, <2>11, <2>12
<1>5. PICK d \in Nat : d = b - a
  OBVIOUS
<1>6. at[a] + d * v <= at[b]
  <2>1. b = a + d /\ a \in 1 .. N /\ b \in 1 .. N
    BY <1>5 DEF N
  <2>2. d \notin Wrong
    <3> HIDE DEF Wrong
    <3> QED
      BY <1>4
  <2> QED
    BY <2>1, <2>2
<1>7. at[a] = Place(L, order[a]) /\ at[b] = Place(L, order[b])
  BY DEF at, N
<1> QED
  BY <1>5, <1>6, <1>7 DEF v

\* The windows lie within the order.
LEMMA TilesInside ==
  ASSUME NEW n \in Nat, NEW spans, Tiles(spans, n)
  PROVE  /\ Len(spans) \in Nat
         /\ \A j \in 0 .. Len(spans) : Upto(spans, j) \in 0 .. n
         /\ \A j \in 1 .. Len(spans) :
              /\ spans[j].start \in 1 .. n /\ spans[j].count \in 1 .. n
              /\ spans[j].start = Upto(spans, j - 1) + 1
              /\ spans[j].start + spans[j].count - 1 = Upto(spans, j)
<1> DEFINE m == Len(spans)
           up == [j \in 0 .. m |-> Upto(spans, j)]
           Wrong == {d \in Nat : d <= m /\ ~ (up[m - d] <= n)}
<1>1. m \in Nat /\ spans \in Seq(Window)
  BY DEF Tiles
<1>2. \A j \in 1 .. m : spans[j] \in Window
  BY <1>1
<1>3. \A j \in 1 .. m : /\ spans[j].start \in Nat /\ spans[j].count \in Nat /\ spans[j].count >= 1
                        /\ spans[j].start = Upto(spans, j - 1) + 1
  BY <1>2 DEF Window, Tiles
<1>4. up[0] = 0 /\ \A j \in 1 .. m : up[j] = spans[j].start + spans[j].count - 1
  BY <1>1 DEF Upto
<1>5. \A j \in 1 .. m : spans[j].start = up[j - 1] + 1
  <2>1. \A j \in 1 .. m : j - 1 \in 0 .. m
    BY <1>1
  <2> QED
    BY <1>3, <2>1
<1>6. up[m] = n
  BY <1>1 DEF Tiles
<1>7. \A j \in 0 .. m : up[j] = Upto(spans, j)
  OBVIOUS
<1> HIDE DEF m, up
<1>8. \A j \in 0 .. m : up[j] \in Nat
  <2> SUFFICES ASSUME NEW j \in 0 .. m PROVE up[j] \in Nat
    OBVIOUS
  <2>1. CASE j = 0
    BY <1>4, <2>1
  <2>2. CASE j # 0
    <3>1. j \in 1 .. m
      BY <2>2
    <3> QED
      BY <1>3, <1>4, <3>1
  <2> QED
    BY <2>1, <2>2
<1>9. \A j \in 1 .. m : up[j - 1] < up[j]
  <2> SUFFICES ASSUME NEW j \in 1 .. m PROVE up[j - 1] < up[j]
    OBVIOUS
  <2>1. j - 1 \in 0 .. m /\ j \in 0 .. m
    BY <1>1
  <2> QED
    BY <1>3, <1>4, <1>5, <1>8, <2>1
<1>10. ASSUME Wrong # {} PROVE FALSE
  <2>1. PICK d \in Wrong : \A y \in Wrong : d <= y
    BY <1>10, LeastNumber
  <2>2. d \in Nat /\ d <= m /\ ~ (up[m - d] <= n) /\ d # 0
    BY <1>1, <1>6
  <2>3. d - 1 \in Nat /\ d - 1 <= m /\ d - 1 \notin Wrong
    BY <1>1, <2>1, <2>2
  <2>4. up[m - (d - 1)] <= n
    BY <2>3
  <2>5. PICK j \in Int : j = m - d
    BY <1>1, <2>2
  <2>6. m - (d - 1) = j + 1 /\ j + 1 \in 1 .. m /\ j + 1 - 1 = j /\ j \in 0 .. m /\ j + 1 \in 0 .. m
    BY <1>1, <2>2, <2>5
  <2>7. up[j] < up[j + 1]
    BY <1>9, <2>6
  <2>8. up[j] \in Nat /\ up[j + 1] \in Nat /\ up[j + 1] <= n
    BY <1>8, <2>4, <2>6
  <2> QED
    BY <2>2, <2>5, <2>7, <2>8
<1>11. \A j \in 0 .. m : up[j] \in 0 .. n
  <2> SUFFICES ASSUME NEW j \in 0 .. m PROVE up[j] \in 0 .. n
    OBVIOUS
  <2>1. PICK d \in Nat : d = m - j
    BY <1>1
  <2>2. d \notin Wrong /\ d <= m /\ m - d = j
    <3> HIDE DEF Wrong
    <3> QED
      BY <1>1, <1>10, <2>1
  <2>3. up[j] <= n /\ up[j] \in Nat
    BY <1>8, <2>2
  <2> QED
    BY <2>3
<1>12. ASSUME NEW j \in 1 .. m
       PROVE  /\ spans[j].start \in 1 .. n /\ spans[j].count \in 1 .. n
              /\ spans[j].start = Upto(spans, j - 1) + 1
              /\ spans[j].start + spans[j].count - 1 = Upto(spans, j)
  <2>1. j - 1 \in 0 .. m /\ j \in 0 .. m
    BY <1>1
  <2>2. up[j - 1] \in 0 .. n /\ up[j] \in 0 .. n
    BY <1>11, <2>1
  <2> QED
    BY <1>3, <1>4, <1>5, <1>7, <2>1, <2>2
<1> QED
  BY <1>1, <1>7, <1>11, <1>12 DEF m

\* The runs hold at least their vectors.
LEMMA ChargesCover ==
  ASSUME NEW L, Geometry(L), NEW order \in Seq(Nat), Increasing(order),
         NEW spans, Tiles(spans, Len(order)), NEW C, Charges(L, order, spans, Len(spans), C)
  PROVE  /\ C[Len(spans)] \in Int
         /\ C[Len(spans)] >= Len(order) * VectorBytes(L)
<1> DEFINE m == Len(spans)
           N == Len(order)
           v == VectorBytes(L)
<1>1. /\ m \in Nat /\ N \in Nat
      /\ \A j \in 0 .. m : Upto(spans, j) \in 0 .. N
      /\ \A j \in 1 .. m : /\ spans[j].start \in 1 .. N /\ spans[j].count \in 1 .. N
                           /\ spans[j].start = Upto(spans, j - 1) + 1
                           /\ spans[j].start + spans[j].count - 1 = Upto(spans, j)
  BY TilesInside
<1>2. v \in Nat
  BY LayoutBounds
<1>3. /\ C \in [0 .. m -> Int] /\ C[0] = 0
      /\ \A j \in 1 .. m : C[j] = C[j - 1] + Extent(L, order, spans[j])
  BY DEF Charges
<1>4. ASSUME NEW j \in 1 .. m
      PROVE  /\ Extent(L, order, spans[j]) >= spans[j].count * v
             /\ Extent(L, order, spans[j]) \in Int
  <2>0. /\ spans[j].start \in 1 .. N /\ spans[j].count \in 1 .. N
        /\ spans[j].start + spans[j].count - 1 = Upto(spans, j)
        /\ Upto(spans, j) \in 0 .. N
    <3>1. j \in 0 .. m
      BY <1>1
    <3> HIDE DEF m, N
    <3> QED
      BY <1>1, <3>1
  <2>1. PICK a \in 1 .. N, c \in 1 .. N : a = spans[j].start /\ c = spans[j].count
    BY <2>0
  <2>2. PICK b \in 1 .. N : b = a + c - 1
    <3>1. a + c - 1 = Upto(spans, j)
      BY <2>0, <2>1
    <3> HIDE DEF N
    <3>2. a + c - 1 >= 1
      BY <1>1
    <3> QED
      BY <1>1, <2>0, <3>1, <3>2
  <2>3. /\ a <= b /\ c = b - a + 1
    BY <2>2
  <2>4. Place(L, order[a]) + (b - a) * v <= Place(L, order[b])
    BY <2>3, PlacesSpread
  <2>5. PICK i \in Nat, k \in Nat : i = order[a] /\ k = order[b]
    OBVIOUS
  <2>6. Extent(L, order, spans[j]) = RunSpan(L, i, k).len
    BY <2>1, <2>2, <2>5 DEF Extent
  <2>7. RunSpan(L, i, k).len = Place(L, k) + v - Place(L, i) /\ RunSpan(L, i, k).len \in Int
    BY SpanLengths
  <2>8. PICK x \in Int, y \in Int : x = Place(L, i) /\ y = Place(L, k)
    <3>1. Place(L, i) \in Nat /\ Place(L, k) \in Nat
      BY PlaceIsNat
    <3> QED
      BY <3>1
  <2> HIDE DEF v
  <2>9. (b - a + 1) * v = (b - a) * v + v /\ (b - a) * v \in Int
    BY <1>2, <2>1
  <2>10. c * v = (b - a) * v + v
    BY <2>3, <2>9
  <2>11. RunSpan(L, i, k).len >= c * v
    <3>1. PICK z \in Int : z = (b - a) * v
      BY <2>9
    <3>2. x + z <= y
      BY <2>4, <2>5, <2>8, <3>1
    <3>3. c * v = z + v /\ RunSpan(L, i, k).len = y + v - x
      BY <2>7, <2>8, <2>10, <3>1
    <3> QED
      BY <1>2, <3>2, <3>3
  <2> QED
    BY <2>1, <2>6, <2>7, <2>11
<1> DEFINE up == [j \in 0 .. m |-> Upto(spans, j)]
           cnt == [j \in 1 .. m |-> spans[j].count]
           ext == [j \in 1 .. m |-> Extent(L, order, spans[j])]
           Wrong == {j \in Nat : j <= m /\ ~ (C[j] >= up[j] * v)}
<1>5. /\ up \in [0 .. m -> Int] /\ cnt \in [1 .. m -> Int] /\ ext \in [1 .. m -> Int]
      /\ up[0] = 0 /\ up[m] = N
      /\ \A j \in 1 .. m : /\ up[j] = up[j - 1] + cnt[j] /\ ext[j] >= cnt[j] * v
                           /\ C[j] = C[j - 1] + ext[j]
  <2>1. up \in [0 .. m -> Int] /\ cnt \in [1 .. m -> Int] /\ ext \in [1 .. m -> Int]
    BY <1>1, <1>4
  <2>2. up[0] = 0 /\ up[m] = N
    BY <1>1 DEF Tiles, Upto
  <2>3. ASSUME NEW j \in 1 .. m PROVE up[j] = up[j - 1] + cnt[j]
    <3>1. j - 1 \in 0 .. m /\ j \in 0 .. m
      <4> HIDE DEF m
      <4> QED
        BY <1>1
    <3>2. up[j - 1] = Upto(spans, j - 1) /\ up[j] = Upto(spans, j)
      BY <3>1
    <3>3. PICK e \in Int, f \in Int : e = Upto(spans, j - 1) /\ f = Upto(spans, j)
      BY <2>1, <3>1, <3>2
    <3>4. spans[j].start = e + 1 /\ spans[j].start + spans[j].count - 1 = f
      BY <1>1, <3>3
    <3>5. PICK c \in Int : c = spans[j].count
      BY <1>1
    <3>6. e + 1 + c - 1 = f
      BY <3>4, <3>5
    <3>7. up[j - 1] = e /\ up[j] = f /\ cnt[j] = c
      BY <3>2, <3>3, <3>5
    <3> HIDE DEF up, cnt
    <3> QED
      BY <3>6, <3>7
  <2>4. \A j \in 1 .. m : ext[j] >= cnt[j] * v /\ C[j] = C[j - 1] + ext[j]
    BY <1>3, <1>4
  <2> HIDE DEF up, cnt, ext
  <2> QED
    BY <2>1, <2>2, <2>3, <2>4
<1> HIDE DEF m, N, v, up, cnt, ext
<1>6. ASSUME Wrong # {} PROVE FALSE
  <2>1. PICK j \in Wrong : \A y \in Wrong : j <= y
    BY <1>6, LeastNumber
  <2>2. j \in Nat /\ j <= m /\ ~ (C[j] >= up[j] * v) /\ j # 0
    <3>1. up[0] * v = 0
      BY <1>2, <1>5
    <3>2. C[0] >= up[0] * v
      BY <1>3, <3>1
    <3> QED
      BY <3>2
  <2>3. j \in 1 .. m /\ j - 1 \in Nat /\ j - 1 <= m /\ j - 1 \in 0 .. m
    BY <1>1, <2>2
  <2>4. C[j - 1] >= up[j - 1] * v
    <3>1. j - 1 \notin Wrong
      BY <2>1, <2>2
    <3> QED
      BY <2>3, <3>1
  <2>5. PICK u \in Int, c \in Int : u = up[j - 1] /\ c = cnt[j]
    BY <1>5, <2>3
  <2>6. (u + c) * v = u * v + c * v /\ u * v \in Int /\ c * v \in Int
    BY <1>2
  <2>7. up[j] = u + c
    BY <1>5, <2>3, <2>5
  <2>8. ext[j] >= c * v /\ C[j] = C[j - 1] + ext[j] /\ C[j - 1] \in Int /\ ext[j] \in Int
    BY <1>3, <1>5, <2>3, <2>5
  <2>9. C[j] >= u * v + c * v
    BY <2>4, <2>5, <2>6, <2>8
  <2> QED
    BY <2>2, <2>6, <2>7, <2>9
<1>7. C[m] >= N * v
  <2>1. m \notin Wrong /\ m <= m
    BY <1>1, <1>6
  <2> QED
    BY <1>1, <1>5, <2>1
<1>8. C[m] \in Int
  BY <1>1, <1>3
<1> QED
  BY <1>7, <1>8 DEF m, N, v

-----------------------------------------------------------------------------
(* A batch in progress.                                                    *)

\* The offsets of the first n bytes of vector i.
Offsets(L, i, n) == [b \in 1 .. n |-> VectorOffset(L, i) + b - 1]

\* How many bytes of vector i lie before an offset.
Got(L, i, at) ==
  IF at <= VectorOffset(L, i) THEN 0
  ELSE IF at >= VectorOffset(L, i) + VectorBytes(L) THEN VectorBytes(L)
  ELSE at - VectorOffset(L, i)

Piece(order, window) == SubSeq(order, window.start, window.start + window.count - 1)

\* What the header says is what the writer was given.
Uncut ==
  /\ Geometry(header) /\ header.count = count
  /\ header.dtype = layout.dtype /\ header.dims = layout.dims
  /\ header.blockSize = layout.blockSize

\* What the schedule of a batch is: C sums the bytes of its runs.
Scheduled(spans, C) ==
  /\ plan.order \in Seq(Nat) /\ Increasing(plan.order)
  /\ \A n \in 1 .. Len(plan.order) : plan.order[n] < count
  /\ plan.bytes = Len(plan.order) * VectorBytes(header)
  /\ spans = RunSpans(header, plan.order) /\ Tiles(spans, Len(plan.order))
  /\ plan.runs = Len(spans)
  /\ Charges(header, plan.order, spans, Len(spans), C) /\ plan.spanBytes = C[Len(spans)]

\* Where the bytes of a run end in the file.
RunEnd(L, ws) == VectorOffset(L, ws[Len(ws)]) + VectorBytes(L)

\* Bytes from an offset on have the destinations of the vectors they are of.
Destined(L, ws, ds, from) ==
  \A b \in 1 .. Len(ds) : \A n \in 1 .. Len(ws) :
    ds[b] = n <=>
      from + b - 1 \in VectorOffset(L, ws[n]) .. VectorOffset(L, ws[n]) + VectorBytes(L) - 1

\* What the slots hold when a run is read up to an offset.
Received(L, ws, at) == [n \in 1 .. Len(ws) |-> Offsets(L, ws[n], Got(L, ws[n], at))]

\* The run being read: what is left has the destinations of its bytes, what is read is in
\* the slots.
Filling(window) ==
  /\ wanted = Piece(plan.order, window)
  /\ cur \in VectorOffset(header, wanted[1]) .. RunEnd(header, wanted)
  /\ dests \in Seq(Nat) /\ Len(dests) = RunEnd(header, wanted) - cur
  /\ Destined(header, wanted, dests, cur)
  /\ sinkLeft = 0
  /\ slots = Received(header, wanted, cur)

\* The vectors of the first j runs, whole.
Seen(spans, j) ==
  [n \in 1 .. Upto(spans, j) |->
     [index |-> plan.order[n],
      bytes |-> Offsets(header, plan.order[n], VectorBytes(header))]]

InRun == {"reading", "read", "failed", "too many buffers"}

Progress(spans, C) ==
  /\ phase \in {"next", "done"} \cup InRun
  /\ readRuns \in 0 .. Len(spans)
  /\ todo = SubSeq(spans, readRuns + 1, Len(spans))
  /\ phase \in {"next", "done"} => visited = Seen(spans, readRuns) /\ readBytes = C[readRuns]
  /\ phase = "done" => readRuns = Len(spans)
  /\ phase \in InRun => readRuns > 0 /\ visited = Seen(spans, readRuns - 1)
  /\ phase \in {"reading", "read"} => /\ Filling(spans[readRuns])
                                      /\ readBytes = C[readRuns] - Len(dests)
  /\ phase = "read" => dests = << >>

Delivering ==
  IF phase = "idle" THEN plan = NoPlan /\ visited = << >> /\ readRuns = 0 /\ readBytes = 0
  ELSE /\ stage = "finished" /\ Uncut
       /\ \E spans, C : Scheduled(spans, C) /\ Progress(spans, C)

\* A batch may name any vectors of the store, in any order and more than once: it is
\* planned in ascending order.
LEMMA RequestsAscend ==
  ASSUME NEW n \in Nat, NEW requested \in BoundedSeq(0 .. n - 1, MaxBatch)
  PROVE  LET order == Ascending(ToSet(requested))
         IN  /\ order \in Seq(Nat) /\ Increasing(order)
             /\ \A k \in 1 .. Len(order) : order[k] < n
<1> DEFINE S == ToSet(requested)
           order == Ascending(S)
           size == Cardinality(S)
<1>1. S \in SUBSET (0 .. n - 1)
  <2>1. PICK m \in 0 .. MaxBatch : requested \in [1 .. m -> 0 .. n - 1]
    BY DEF BoundedSeq, SeqOf
  <2> QED
    BY <2>1 DEF ToSet
<1>2. IsFiniteSet(S)
  <2>1. PICK b \in Int : b = n - 1
    OBVIOUS
  <2>2. IsFiniteSet(0 .. b)
    BY FS_Interval
  <2> QED
    BY <1>1, <2>1, <2>2, FS_Subset
<1>3. S \in SUBSET Nat
  BY <1>1
<1> HIDE DEF S
<1>4. /\ size \in Nat /\ order \in [1 .. size -> S]
      /\ \A i, j \in 1 .. size : i < j => order[i] < order[j]
  BY <1>2, <1>3, AscendingLists
<1> HIDE DEF order, size
<1>5. order \in Seq(Nat) /\ Len(order) = size
  <2>1. order \in [1 .. size -> Nat]
    BY <1>3, <1>4
  <2> QED
    BY <1>4, <2>1
<1>6. Increasing(order)
  BY <1>4, <1>5 DEF Increasing
<1>7. \A k \in 1 .. Len(order) : order[k] < n
  <2> SUFFICES ASSUME NEW k \in 1 .. size PROVE order[k] < n
    BY <1>5
  <2>1. order[k] \in 0 .. n - 1
    BY <1>1, <1>4
  <2> QED
    BY <2>1
<1> QED
  BY <1>5, <1>6, <1>7 DEF order, S

\* A file that is opened is finished, and is read with the layout it was written with.
LEMMA OpenedIsUncut ==
  ASSUME Packing, Opens
  PROVE  stage = "finished" /\ Uncut
<1>1. HeaderIsValid /\ ValidLayout(header)
  BY DEF Opens
<1>2. /\ header.dtype = layout.dtype /\ header.dims = layout.dims
      /\ header.blockSize = layout.blockSize /\ header.count = count
  BY <1>1, AcceptedIsUncut
<1>3. stage = "finished"
  BY <1>1 DEF Packing, HeaderIsValid
<1>4. Geometry(header)
  BY <1>1, <1>2 DEF Packing, Geometry
<1> QED
  BY <1>2, <1>3, <1>4 DEF Uncut

LEMMA BatchStarts ==
  ASSUME Packing, Delivering, OpenAndFetch
  PROVE  Delivering'
<1>1. /\ phase = "idle" /\ phase' = "next" /\ Opens
      /\ plan = NoPlan /\ visited = << >> /\ readRuns = 0 /\ readBytes = 0
  BY DEF OpenAndFetch, Schedule, Delivering
<1>2. /\ UNCHANGED vars /\ UNCHANGED <<visited, readRuns, readBytes>>
      /\ todo' = RunSpans(header, plan'.order)
  BY DEF OpenAndFetch, Schedule
<1>3. PICK requested \in BoundedSeq(0 .. header.count - 1, MaxBatch) :
        plan' = PlanOf(header, requested)
  BY DEF OpenAndFetch, Schedule
<1>4. stage = "finished" /\ Uncut /\ count \in Nat
  BY <1>1, OpenedIsUncut DEF Packing
<1>5. header.count = count /\ Geometry(header)
  BY <1>4 DEF Uncut
<1> DEFINE order == Ascending(ToSet(requested))
<1>6. /\ order \in Seq(Nat) /\ Increasing(order)
      /\ \A k \in 1 .. Len(order) : order[k] < count
  BY <1>3, <1>4, <1>5, RequestsAscend
<1>7. plan'.order = order /\ plan'.bytes = Len(order) * VectorBytes(header)
  BY <1>3, PlanIsFold
<1>8. SameRuns(header, requested)
  BY <1>5, <1>6, PlanAgrees
<1> HIDE DEF order
<1>0. PICK spans : spans = RunSpans(header, order)
  OBVIOUS
<1>9. PICK C : /\ Tiles(spans, Len(order)) /\ plan'.runs = Len(spans)
               /\ Charges(header, order, spans, Len(spans), C) /\ plan'.spanBytes = C[Len(spans)]
  <2>1. PICK p : p = PlanOf(header, requested)
    OBVIOUS
  <2>2. p.order = order /\ plan' = p
    BY <1>3, <1>7, <2>1
  <2>3. /\ Tiles(RunSpans(header, p.order), Len(p.order))
        /\ p.runs = Len(RunSpans(header, p.order))
        /\ \E C : /\ Charges(header, p.order, RunSpans(header, p.order), Len(RunSpans(header, p.order)), C)
                  /\ p.spanBytes = C[Len(RunSpans(header, p.order))]
    BY <1>8, <2>1 DEF SameRuns
  <2> QED
    BY <1>0, <2>2, <2>3
<1>10. header' = header /\ count' = count /\ stage' = stage /\ layout' = layout
  BY <1>2 DEF vars
<1>11. Scheduled(spans, C)'
  BY <1>0, <1>6, <1>7, <1>9, <1>10 DEF Scheduled
<1>12. Progress(spans, C)'
  <2>1. Len(spans) \in Nat /\ spans \in Seq(Window)
    BY <1>9 DEF Tiles
  <2>2. todo' = SubSeq(spans, 1, Len(spans))
    BY <1>0, <1>2, <1>7, <2>1
  <2>3. visited' = Seen(spans, 0)'
    BY <1>1, <1>2 DEF Seen, Upto
  <2>4. C[0] = 0
    BY <1>9 DEF Charges
  <2>5. phase' = "next" /\ readRuns' = 0 /\ readBytes' = 0
    BY <1>1, <1>2
  <2>6. readRuns' \in 0 .. Len(spans) /\ readRuns' + 1 = 1
    BY <2>1, <2>5
  <2>7. todo' = SubSeq(spans, readRuns' + 1, Len(spans))
    BY <2>2, <2>6
  <2>8. visited' = Seen(spans, readRuns)' /\ readBytes' = C[readRuns']
    BY <2>3, <2>4, <2>5
  <2>9. phase' \notin InRun /\ phase' # "done" /\ phase' # "reading" /\ phase' # "read"
    BY <2>5 DEF InRun
  <2>10. (phase \in {"next", "done"} \cup InRun)'
    BY <2>5
  <2>11. (todo = SubSeq(spans, readRuns + 1, Len(spans)))'
    BY <2>7
  <2>12. (phase \in {"next", "done"} => visited = Seen(spans, readRuns) /\ readBytes = C[readRuns])'
    BY <2>8
  <2>13. (phase = "done" => readRuns = Len(spans))'
    BY <2>9
  <2>14. (phase \in InRun => readRuns > 0 /\ visited = Seen(spans, readRuns - 1))'
    BY <2>9
  <2>15. (phase \in {"reading", "read"} => /\ Filling(spans[readRuns])
                                      /\ readBytes = C[readRuns] - Len(dests))'
    BY <2>9
  <2> QED
    BY <2>9, <2>6, <2>10, <2>11, <2>12, <2>13, <2>14, <2>15 DEF Progress
<1>13. stage' = "finished" /\ Uncut'
  BY <1>4, <1>10 DEF Uncut
<1> QED
  BY <1>1, <1>11, <1>12, <1>13 DEF Delivering

\* w is what order has at the places a .. e.
IsPiece(w, order, a, e) ==
  /\ w \in Seq(Nat) /\ Len(w) = e - a + 1 /\ w # << >>
  /\ \A n \in 1 .. Len(w) : w[n] = order[a + n - 1]
  /\ Increasing(w) /\ Head(w) = w[1] /\ Last(w) = w[Len(w)]

LEMMA PieceOf ==
  ASSUME NEW order \in Seq(Nat), Increasing(order),
         NEW a \in 1 .. Len(order), NEW e \in 1 .. Len(order), a <= e,
         NEW w, w = SubSeq(order, a, e)
  PROVE  IsPiece(w, order, a, e)
<1> DEFINE s == SubSeq(order, a, e)
<1>1. /\ s \in Seq(Nat) /\ Len(s) = e - a + 1
      /\ \A i \in 1 .. e - a + 1 : s[i] = order[a + i - 1]
  <2>1. \A i \in a .. e : order[i] \in Nat
    OBVIOUS
  <2>2. a \in Int /\ e \in Int
    OBVIOUS
  <2>3. /\ s \in Seq(Nat) /\ Len(s) = (IF a <= e THEN e - a + 1 ELSE 0)
        /\ \A i \in 1 .. e - a + 1 : s[i] = order[a + i - 1]
    BY <2>1, <2>2, SubSeqProperties
  <2> HIDE DEF s
  <2> QED
    BY <2>3
<1>2. w = s
  OBVIOUS
<1> HIDE DEF s
<1>3. Len(s) \in Nat /\ Len(s) >= 1
  BY <1>1
<1>4. Increasing(s)
  <2> SUFFICES ASSUME NEW i \in 1 .. Len(s), NEW j \in 1 .. Len(s), i < j PROVE s[i] < s[j]
    BY DEF Increasing
  <2>1. PICK x \in 1 .. Len(order), y \in 1 .. Len(order) : x = a + i - 1 /\ y = a + j - 1
    BY <1>1
  <2>2. order[x] < order[y]
    <3>1. x < y /\ \A p, q \in 1 .. Len(order) : p < q => order[p] < order[q]
      BY <2>1 DEF Increasing
    <3> QED
      BY <3>1
  <2>3. s[i] = order[x] /\ s[j] = order[y]
    BY <1>1, <2>1
  <2> QED
    BY <2>2, <2>3
<1>5. s # << >> /\ Head(s) = s[1]
  BY <1>1, <1>3
<1> QED
  BY <1>1, <1>2, <1>4, <1>5 DEF Last, IsPiece

LEMMA RestOfRuns ==
  ASSUME NEW spans \in Seq(Window), NEW r \in 0 .. Len(spans),
         SubSeq(spans, r + 1, Len(spans)) # << >>
  PROVE  /\ r + 1 \in 1 .. Len(spans)
         /\ Head(SubSeq(spans, r + 1, Len(spans))) = spans[r + 1]
         /\ Tail(SubSeq(spans, r + 1, Len(spans))) = SubSeq(spans, r + 1 + 1, Len(spans))
<1> DEFINE m == Len(spans)
           s == SubSeq(spans, r + 1, m)
           t == SubSeq(spans, r + 1 + 1, m)
<1>1. m \in Nat /\ r \in Nat
  OBVIOUS
<1>2. r < m
  <2>1. ASSUME r = m PROVE FALSE
    <3>1. m < m + 1 /\ m + 1 \in Int /\ m \in Int
      BY <1>1
    <3>2. SubSeq(spans, m + 1, m) = << >>
      <4> HIDE DEF m
      <4> QED
        BY <3>1, SubSeqEmpty
    <3> QED
      BY <2>1, <3>2
  <2> QED
    BY <1>1, <2>1
<1>3. \A i \in r + 1 .. m : spans[i] \in Window
  BY <1>1
<1>4. /\ s \in Seq(Window) /\ Len(s) = m - r
      /\ \A i \in 1 .. m - r : s[i] = spans[r + i]
  <2> HIDE DEF m
  <2>1. PICK q \in Int : q = r + 1
    BY <1>1
  <2>2. /\ SubSeq(spans, q, m) \in Seq(Window)
        /\ Len(SubSeq(spans, q, m)) = (IF q <= m THEN m - q + 1 ELSE 0)
        /\ \A i \in 1 .. m - q + 1 : SubSeq(spans, q, m)[i] = spans[q + i - 1]
    BY <1>1, <1>3, <2>1, SubSeqProperties
  <2>3. \A i \in Int : q + i - 1 = r + i
    BY <1>1, <2>1
  <2>4. m - q + 1 = m - r /\ q <= m
    BY <1>1, <1>2, <2>1
  <2> HIDE DEF s
  <2>5. s = SubSeq(spans, q, m)
    BY <2>1 DEF s
  <2>6. s \in Seq(Window) /\ Len(s) = m - r /\ \A i \in 1 .. m - r : s[i] = spans[q + i - 1]
    BY <2>2, <2>4, <2>5
  <2>7. ASSUME NEW i \in 1 .. m - r PROVE s[i] = spans[r + i]
    <3>1. i \in Int
      OBVIOUS
    <3>2. q + i - 1 = r + i
      BY <2>3, <3>1
    <3>3. s[i] = spans[q + i - 1]
      BY <2>6
    <3> QED
      BY <3>2, <3>3
  <2> QED
    BY <2>6, <2>7
<1>5. /\ t \in Seq(Window) /\ Len(t) = m - r - 1
      /\ \A i \in 1 .. m - r - 1 : t[i] = spans[r + 1 + i]
  <2> HIDE DEF m
  <2>1. PICK q \in Int : q = r + 1 + 1
    BY <1>1
  <2>2. /\ SubSeq(spans, q, m) \in Seq(Window)
        /\ Len(SubSeq(spans, q, m)) = (IF q <= m THEN m - q + 1 ELSE 0)
        /\ \A i \in 1 .. m - q + 1 : SubSeq(spans, q, m)[i] = spans[q + i - 1]
    <3>1. \A i \in q .. m : spans[i] \in Window
      BY <1>1, <1>3, <2>1
    <3> QED
      BY <1>1, <2>1, <3>1, SubSeqProperties
  <2>3. \A i \in Int : q + i - 1 = r + 1 + i
    BY <1>1, <2>1
  <2>4. m - q + 1 = m - r - 1 /\ (q <= m \/ m - r - 1 = 0)
    BY <1>1, <1>2, <2>1
  <2> HIDE DEF t
  <2>5. t = SubSeq(spans, q, m)
    BY <2>1 DEF t
  <2> QED
    BY <2>2, <2>3, <2>4, <2>5, SMTT(20)
<1> HIDE DEF s, t, m
<1>6. s # << >> /\ Head(s) = spans[r + 1]
  BY <1>1, <1>2, <1>4
<1>7. Tail(s) = t
  <2>1. Tail(s) \in Seq(Window) /\ Len(Tail(s)) = m - r - 1
    BY <1>1, <1>2, <1>4, <1>6
  <2>2. \A i \in 1 .. m - r - 1 : Tail(s)[i] = s[i + 1]
    BY <1>1, <1>2, <1>4, <1>6
  <2>3. \A i \in 1 .. m - r - 1 : Tail(s)[i] = t[i]
    <3> SUFFICES ASSUME NEW i \in 1 .. m - r - 1 PROVE Tail(s)[i] = t[i]
      OBVIOUS
    <3>1. PICK k \in 1 .. m - r : k = i + 1
      BY <1>1
    <3>2. s[k] = spans[r + k] /\ r + k = r + 1 + i
      BY <1>1, <1>4, <3>1
    <3> QED
      BY <1>5, <2>2, <3>1, <3>2
  <2> QED
    BY <1>5, <2>1, <2>3, SeqEqual
<1> QED
  BY <1>1, <1>2, <1>6, <1>7 DEF s, t, m

\* The list of buffers of a run, before any of it is read.
IsLaidOut(L, ws, list) ==
  LET from == VectorOffset(L, ws[1])
  IN  /\ from \in Nat /\ from <= RunEnd(L, ws) /\ RunEnd(L, ws) \in Nat
      /\ list.dests \in Seq(Nat) /\ Len(list.dests) = RunEnd(L, ws) - from
      /\ list.sinkLeft = 0
      /\ Destined(L, ws, list.dests, from)
      /\ Received(L, ws, from) = [n \in 1 .. Len(ws) |-> << >>]
      /\ RunSpan(L, ws[1], ws[Len(ws)]).start = from
      /\ RunSpan(L, ws[1], ws[Len(ws)]).len = RunEnd(L, ws) - from

LEMMA RunIsLaidOut ==
  ASSUME NEW L, Geometry(L), NEW ws \in Seq(Nat), Increasing(ws), ws # << >>,
         NEW list, list = Scatter(L, ws, RunSpan(L, ws[1], ws[Len(ws)]))
  PROVE  IsLaidOut(L, ws, list)
<1> DEFINE N == Len(ws)
           v == VectorBytes(L)
           from == VectorOffset(L, ws[1])
           off == [n \in 1 .. N |-> VectorOffset(L, ws[n])]
           at == [n \in 1 .. N |-> At(L, ws, n)]
           size == at[N] + v
<1>1. N \in Nat /\ N >= 1 /\ 1 \in 1 .. N /\ N \in 1 .. N /\ v \in Nat \ {0}
  BY LayoutBounds
<1>2. /\ at \in [1 .. N -> Nat] /\ \A n \in 1 .. N : at[n] = At(L, ws, n)
      /\ \A n \in 1 .. N : off[n] - from = at[n]
  BY <1>1, RunPlaces
<1>3. off \in [1 .. N -> Nat] /\ off[1] = from /\ from \in Nat
  <2>1. \A n \in 1 .. N : ws[n] \in Nat
    OBVIOUS
  <2> QED
    BY <1>1, <2>1, OffsetIsPlace
<1>4. /\ RunSpan(L, ws[1], ws[N]).len = size
      /\ list.dests \in Seq(Nat) /\ Len(list.dests) = size
      /\ list.sinkLeft = 0
      /\ \A b \in 1 .. size : \A n \in 1 .. N :
           list.dests[b] = n <=> b \in at[n] + 1 .. at[n] + v
  <2>1. Exact(L, ws, list)
    BY ScatterCovers
  <2> HIDE DEF at
  <2>2. size = At(L, ws, N) + v
    BY <1>1, <1>2
  <2> HIDE DEF size
  <2>3. /\ RunSpan(L, ws[1], ws[N]).len = size
        /\ list.dests \in Seq(Nat) /\ Len(list.dests) = size
        /\ list.sinkLeft = 0
        /\ \A b \in 1 .. size : \A n \in 1 .. N :
             list.dests[b] = n <=> b \in At(L, ws, n) + 1 .. At(L, ws, n) + v
    BY <2>1, <2>2 DEF Exact
  <2> QED
    BY <1>2, <2>3
<1>5. RunEnd(L, ws) = off[N] + v
  BY <1>1 DEF RunEnd
<1> HIDE DEF N, v, from, off, at
<1>6. RunEnd(L, ws) \in Nat /\ from <= RunEnd(L, ws) /\ size = RunEnd(L, ws) - from
  <2>1. PICK x \in Nat, y \in Nat : x = off[N] /\ y = at[N]
    BY <1>1, <1>2, <1>3
  <2>2. x - from = y /\ size = y + v /\ RunEnd(L, ws) = x + v
    BY <1>1, <1>2, <1>5, <2>1
  <2> HIDE DEF size
  <2> QED
    BY <1>1, <1>3, <2>2
<1>7. \A n \in 1 .. N : off[n] = VectorOffset(L, ws[n])
  BY DEF off
<1>8. Destined(L, ws, list.dests, from)
  <2>1. ASSUME NEW b \in 1 .. size, NEW n \in 1 .. N
        PROVE  list.dests[b] = n <=> from + b - 1 \in off[n] .. off[n] + v - 1
    <3>1. PICK o \in Int, a \in Int : o = off[n] /\ a = at[n]
      BY <1>2, <1>3
    <3>2. o - from = a
      BY <1>2, <3>1
    <3>3. list.dests[b] = n <=> b \in a + 1 .. a + v
      BY <1>4, <3>1
    <3>4. b \in Int /\ v \in Int /\ from \in Int
      <4>1. size \in Int
        BY <1>1, <1>2
      <4> QED
        BY <1>1, <1>3, <4>1
    <3>5. b \in a + 1 .. a + v <=> from + b - 1 \in o .. o + v - 1
      BY <3>2, <3>4
    <3> QED
      BY <3>1, <3>3, <3>5
  <2>2. \A b \in 1 .. Len(list.dests) : \A n \in 1 .. N :
          list.dests[b] = n <=> from + b - 1 \in VectorOffset(L, ws[n]) .. VectorOffset(L, ws[n]) + v - 1
    BY <1>4, <1>7, <2>1
  <2> QED
    BY <2>2 DEF Destined, N, v
<1>9. Received(L, ws, from) = [n \in 1 .. N |-> << >>]
  <2>1. ASSUME NEW n \in 1 .. N PROVE Offsets(L, ws[n], Got(L, ws[n], from)) = << >>
    <3>1. from <= VectorOffset(L, ws[n])
      <4>1. off[n] \in Nat /\ at[n] \in Nat /\ off[n] - from = at[n]
        BY <1>2, <1>3
      <4> QED
        BY <1>3, <1>7, <4>1
    <3>2. Got(L, ws[n], from) = 0
      BY <3>1 DEF Got
    <3> QED
      BY <3>2 DEF Offsets
  <2> QED
    BY <2>1 DEF Received, N
<1>10. RunSpan(L, ws[1], ws[Len(ws)]).start = from
  BY DEF RunSpan, from
<1> QED
  BY <1>3, <1>4, <1>6, <1>8, <1>9, <1>10 DEF from, N, IsLaidOut

\* w is the j-th run of the order.
IsRun(w, order, spans, j) ==
  /\ w \in Seq(Nat) /\ w # << >> /\ Increasing(w)
  /\ Upto(spans, j) = Upto(spans, j - 1) + Len(w)
  /\ Upto(spans, j) \in Nat /\ Upto(spans, j - 1) \in Nat
  /\ \A n \in 1 .. Len(w) : /\ Upto(spans, j - 1) + n \in 1 .. Len(order)
                            /\ w[n] = order[Upto(spans, j - 1) + n]
  /\ Head(w) = w[1] /\ Last(w) = w[Len(w)]
  /\ Extent(header, order, spans[j]) = RunSpan(header, w[1], w[Len(w)]).len

LEMMA WindowsAscend ==
  ASSUME NEW spans, NEW order \in Seq(Nat), Increasing(order), Tiles(spans, Len(order)),
         NEW j \in 1 .. Len(spans)
  PROVE  IsRun(Piece(order, spans[j]), order, spans, j)
<1> DEFINE n == Len(order)
<1>1. /\ n \in Nat /\ spans[j].start \in 1 .. n /\ spans[j].count \in 1 .. n
      /\ spans[j].start = Upto(spans, j - 1) + 1
      /\ spans[j].start + spans[j].count - 1 = Upto(spans, j)
  BY TilesInside, SMTT(20)
<1>2. Upto(spans, j) \in 0 .. n /\ Upto(spans, j - 1) \in 0 .. n
  <2>1. Len(spans) \in Nat /\ \A k \in 0 .. Len(spans) : Upto(spans, k) \in 0 .. n
    BY <1>1, TilesInside
  <2>2. j \in 0 .. Len(spans) /\ j - 1 \in 0 .. Len(spans)
    BY <2>1
  <2> QED
    BY <2>1, <2>2
<1>3. PICK a \in 1 .. n, c \in 1 .. n, u \in 0 .. n, t \in 0 .. n :
        /\ a = spans[j].start /\ c = spans[j].count
        /\ u = Upto(spans, j) /\ t = Upto(spans, j - 1)
  BY <1>1, <1>2
<1> HIDE DEF n
<1>4. a = t + 1 /\ u = a + c - 1 /\ u = t + c
  <2>1. a = t + 1 /\ u = a + c - 1
    BY <1>1, <1>3
  <2> QED
    BY <1>1, <2>1
<1>5. u \in 1 .. n /\ a <= u
  BY <1>1, <1>4
<1>6. PICK w : w = SubSeq(order, a, u)
  OBVIOUS
<1>7. w = Piece(order, spans[j])
  BY <1>3, <1>4, <1>6 DEF Piece
<1>8. /\ w \in Seq(Nat) /\ Len(w) = u - a + 1 /\ w # << >>
      /\ \A i \in 1 .. Len(w) : w[i] = order[a + i - 1]
      /\ Increasing(w) /\ Head(w) = w[1] /\ Last(w) = w[Len(w)]
  <2>1. IsPiece(w, order, a, u)
    BY <1>5, <1>6, PieceOf DEF n
  <2> QED
    BY <2>1 DEF IsPiece
<1>9. Len(w) = c
  BY <1>1, <1>4, <1>8
<1>10. ASSUME NEW i \in 1 .. Len(w) PROVE t + i \in 1 .. n /\ w[i] = order[t + i]
  <2>1. i \in Int /\ 1 <= i /\ i <= c
    BY <1>9
  <2>2. a + i - 1 = t + i /\ t + i \in 1 .. n
    BY <1>1, <1>4, <1>5, <2>1
  <2>3. w[i] = order[a + i - 1]
    BY <1>8
  <2> QED
    BY <2>2, <2>3
<1>11. w[1] = order[a] /\ w[Len(w)] = order[a + c - 1]
  <2>1. 1 \in 1 .. Len(w) /\ Len(w) \in 1 .. Len(w) /\ a + 1 - 1 = a
    BY <1>9
  <2> QED
    BY <1>8, <1>9, <2>1
<1>12. Extent(header, order, spans[j]) = RunSpan(header, w[1], w[Len(w)]).len
  BY <1>3, <1>11 DEF Extent
<1>13. /\ Upto(spans, j) = Upto(spans, j - 1) + Len(w)
       /\ Upto(spans, j) \in Nat /\ Upto(spans, j - 1) \in Nat
  BY <1>1, <1>3, <1>4, <1>9
<1>14. \A i \in 1 .. Len(w) : /\ Upto(spans, j - 1) + i \in 1 .. Len(order)
                              /\ w[i] = order[Upto(spans, j - 1) + i]
  BY <1>3, <1>10 DEF n
<1> QED
  BY <1>7, <1>8, <1>12, <1>13, <1>14 DEF IsRun

LEMMA RunStarts ==
  ASSUME Packing, Delivering, StartRun, UNCHANGED vars
  PROVE  Delivering'
<1>1. /\ phase = "next" /\ todo # << >> /\ readRuns' = readRuns + 1 /\ todo' = Tail(todo)
      /\ UNCHANGED <<header, plan, visited, readBytes>>
  BY DEF StartRun
<1>2. stage = "finished" /\ Uncut
  BY <1>1 DEF Delivering
<1>3. PICK spans, C : Scheduled(spans, C) /\ Progress(spans, C)
  BY <1>1 DEF Delivering
<1>4. /\ plan.order \in Seq(Nat) /\ Increasing(plan.order)
      /\ \A n \in 1 .. Len(plan.order) : plan.order[n] < count
      /\ Tiles(spans, Len(plan.order))
      /\ Charges(header, plan.order, spans, Len(spans), C)
  BY <1>3 DEF Scheduled
<1>5. /\ readRuns \in 0 .. Len(spans) /\ todo = SubSeq(spans, readRuns + 1, Len(spans))
      /\ visited = Seen(spans, readRuns) /\ readBytes = C[readRuns]
  BY <1>1, <1>3 DEF Progress
<1>6. spans \in Seq(Window) /\ Len(spans) \in Nat
  BY <1>4 DEF Tiles
<1>7. /\ readRuns + 1 \in 1 .. Len(spans) /\ Head(todo) = spans[readRuns + 1]
      /\ todo' = SubSeq(spans, readRuns + 1 + 1, Len(spans))
  BY <1>1, <1>5, <1>6, RestOfRuns
<1>8. PICK r \in 1 .. Len(spans) : r = readRuns + 1 /\ r - 1 = readRuns
  BY <1>5, <1>6, <1>7
<1>9. PICK ws : ws = Piece(plan.order, spans[r])
  OBVIOUS
<1>10. IsRun(ws, plan.order, spans, r)
  BY <1>4, <1>9, WindowsAscend
<1>11. /\ ws \in Seq(Nat) /\ ws # << >> /\ Increasing(ws)
       /\ Head(ws) = ws[1] /\ Last(ws) = ws[Len(ws)]
       /\ Extent(header, plan.order, spans[r]) = RunSpan(header, ws[1], ws[Len(ws)]).len
       /\ \A n \in 1 .. Len(ws) : /\ Upto(spans, r - 1) + n \in 1 .. Len(plan.order)
                                  /\ ws[n] = plan.order[Upto(spans, r - 1) + n]
  BY <1>10 DEF IsRun
<1>12. PICK span : span = RunSpan(header, ws[1], ws[Len(ws)])
  OBVIOUS
<1>13. PICK list : list = Scatter(header, ws, span)
  OBVIOUS
<1>14. /\ wanted' = ws /\ dests' = list.dests /\ sinkLeft' = list.sinkLeft
       /\ cur' = span.start /\ slots' = [n \in 1 .. Len(ws) |-> << >>]
       /\ phase' = IF span.start + Len(list.dests) > FileSizeFor(header, header.count)
                     THEN "out of bounds" ELSE "reading"
  <2>1. ws = SubSeq(plan.order, Head(todo).start, Head(todo).start + Head(todo).count - 1)
    BY <1>7, <1>8, <1>9 DEF Piece
  <2>2. span = RunSpan(header, Head(ws), Last(ws))
    BY <1>11, <1>12
  <2> QED
    BY <1>13, <2>1, <2>2 DEF StartRun
<1>15. Geometry(header) /\ header.count = count /\ count \in Nat
  BY <1>2 DEF Uncut, Packing
<1>16. IsLaidOut(header, ws, list)
  BY <1>11, <1>12, <1>13, <1>15, RunIsLaidOut
<1>17. PICK from : from = VectorOffset(header, ws[1])
  OBVIOUS
<1>18. /\ from \in Nat /\ from <= RunEnd(header, ws) /\ RunEnd(header, ws) \in Nat
       /\ list.dests \in Seq(Nat) /\ Len(list.dests) = RunEnd(header, ws) - from
       /\ list.sinkLeft = 0
       /\ Destined(header, ws, list.dests, from)
       /\ Received(header, ws, from) = [n \in 1 .. Len(ws) |-> << >>]
       /\ span.start = from /\ span.len = RunEnd(header, ws) - from
  BY <1>12, <1>16, <1>17 DEF IsLaidOut
<1>19. phase' = "reading"
  <2>1. Len(ws) \in 1 .. Len(ws)
    BY <1>11
  <2>2. ws[Len(ws)] \in 0 .. count - 1
    <3>1. ws[Len(ws)] \in Nat
      BY <1>11, <2>1
    <3>2. ws[Len(ws)] < count
      BY <1>4, <1>11, <2>1
    <3> QED
      BY <1>15, <3>1, <3>2
  <2>3. RunEnd(header, ws) <= FileSizeFor(header, count)
    BY <1>15, <2>2, PlacesFit DEF RunEnd
  <2>4. FileSizeFor(header, count) = FileSizeFor(header, header.count)
    BY <1>15
  <2>5. span.start + Len(list.dests) = RunEnd(header, ws)
    BY <1>18
  <2>6. ASSUME RunEnd(header, ws) > FileSizeFor(header, header.count) PROVE FALSE
    <3>1. FileSizeFor(header, header.count) \in Int
      <4>1. /\ HeaderSize \in Nat /\ header.blockSize \in Nat /\ VectorsPerBlock(header) \in Nat \ {0}
        BY <1>15, LayoutBounds, HeaderAssumption
      <4>2. BlocksFor(header, count) \in Int
        BY <1>15, <4>1 DEF BlocksFor
      <4>3. BlocksFor(header, count) * header.blockSize \in Int
        BY <4>1, <4>2
      <4> QED
        BY <2>4, <4>1, <4>3 DEF FileSizeFor
    <3> QED
      BY <1>18, <2>3, <2>4, <2>6, <3>1
  <2> QED
    BY <1>14, <2>5, <2>6
<1>20. readBytes' = C[r] - Len(dests')
  <2>1. C[r] = C[r - 1] + Extent(header, plan.order, spans[r])
    BY <1>4 DEF Charges
  <2>2. C[r] = C[r - 1] + span.len
    BY <1>11, <1>12, <2>1
  <2>3. C[r - 1] \in Int
    <3>1. r - 1 \in 0 .. Len(spans)
      BY <1>6, <1>8
    <3> QED
      BY <1>4, <3>1 DEF Charges
  <2>4. PICK c \in Int, l \in Int : c = C[r - 1] /\ l = span.len
    BY <1>18, <2>3
  <2>5. readBytes' = c /\ C[r] = c + l /\ Len(dests') = l
    BY <1>1, <1>5, <1>8, <1>14, <1>18, <2>2, <2>4
  <2> QED
    BY <2>5
<1>21. Filling(spans[r])'
  <2>1. header' = header /\ plan' = plan
    BY <1>1
  <2>2. wanted' = Piece(plan'.order, spans[r])
    BY <1>9, <1>14, <2>1
  <2>3. /\ cur' = from /\ from \in VectorOffset(header', wanted'[1]) .. RunEnd(header', wanted')
        /\ dests' \in Seq(Nat) /\ Len(dests') = RunEnd(header', wanted') - cur'
        /\ Destined(header', wanted', dests', cur')
        /\ sinkLeft' = 0 /\ slots' = Received(header', wanted', cur')
    <3>1. cur' = from /\ wanted' = ws /\ dests' = list.dests /\ sinkLeft' = 0
      BY <1>14, <1>18
    <3>2. PICK end \in Nat : end = RunEnd(header, ws)
      BY <1>18
    <3>3. from \in VectorOffset(header, ws[1]) .. end
      BY <1>17, <1>18, <3>2
    <3>4. slots' = Received(header, ws, from)
      BY <1>14, <1>18
    <3> QED
      BY <1>18, <2>1, <3>1, <3>2, <3>3, <3>4
  <2> QED
    BY <2>2, <2>3 DEF Filling
<1>22. Scheduled(spans, C)'
  BY <1>1, <1>3 DEF Scheduled, vars
<1>23. Progress(spans, C)'
  <2>1. readRuns' = r /\ readRuns' \in 0 .. Len(spans) /\ readRuns' > 0
    BY <1>1, <1>6, <1>8
  <2>2. (todo = SubSeq(spans, readRuns + 1, Len(spans)))'
    BY <1>7, <1>8, <2>1
  <2>3. (visited = Seen(spans, readRuns - 1))'
    BY <1>1, <1>5, <1>8, <2>1 DEF Seen
  <2>4. (Filling(spans[readRuns]) /\ readBytes = C[readRuns] - Len(dests))'
    BY <1>20, <1>21, <2>1
  <2> QED
    BY <1>19, <2>1, <2>2, <2>3, <2>4 DEF Progress, InRun
<1>24. stage' = "finished" /\ Uncut' /\ phase' # "idle"
  BY <1>2, <1>19 DEF Uncut, vars
<1> QED
  BY <1>22, <1>23, <1>24 DEF Delivering

\* The first bytes of vector i lie before an offset, the others do not.
IsPart(L, i, at, g) ==
  /\ g \in 0 .. VectorBytes(L)
  /\ \A x \in Int : x \in VectorOffset(L, i) .. VectorOffset(L, i) + VectorBytes(L) - 1 =>
       (x < at <=> x < VectorOffset(L, i) + g)

LEMMA GotIsPart ==
  ASSUME NEW L, Geometry(L), NEW i \in Nat, NEW at \in Int
  PROVE  IsPart(L, i, at, Got(L, i, at))
<1>1. PICK o \in Nat, v \in Nat : o = VectorOffset(L, i) /\ v = VectorBytes(L)
  BY OffsetIsPlace, LayoutBounds
<1>2. PICK g : g = Got(L, i, at)
  OBVIOUS
<1>3. g = IF at <= o THEN 0 ELSE IF at >= o + v THEN v ELSE at - o
  BY <1>1, <1>2 DEF Got
<1>4. g \in 0 .. v
  BY <1>3
<1>5. \A x \in Int : x \in o .. o + v - 1 => (x < at <=> x < o + g)
  BY <1>3
<1> QED
  BY <1>1, <1>2, <1>4, <1>5 DEF IsPart

\* The bytes a read of n adds to slot s are the next ones of its vector.
Grows(L, ws, ds, from, n, s) ==
  Offsets(L, ws[s], Got(L, ws[s], from))
    \o Ascending({from + k - 1 : k \in {b \in 1 .. n : ds[b] = s}})
  = Offsets(L, ws[s], Got(L, ws[s], from + n))

LEMMA SlotGrows ==
  ASSUME NEW L, Geometry(L), NEW ws \in Seq(Nat), NEW ds, NEW from \in Nat,
         Destined(L, ws, ds, from), NEW n \in 1 .. Len(ds), Len(ds) \in Nat, NEW s \in 1 .. Len(ws)
  PROVE  Grows(L, ws, ds, from, n, s)
<1>1. PICK i \in Nat : i = ws[s]
  OBVIOUS
<1>2. PICK o \in Nat, v \in Nat : o = VectorOffset(L, i) /\ v = VectorBytes(L)
  BY OffsetIsPlace, LayoutBounds
<1>3. PICK to \in Nat : to = from + n
  OBVIOUS
<1>40. from \in Int /\ to \in Int
  OBVIOUS
<1>41. IsPart(L, i, from, Got(L, i, from)) /\ IsPart(L, i, to, Got(L, i, to))
  BY <1>40, GotIsPart
<1>4. PICK g \in 0 .. v, h \in 0 .. v : g = Got(L, i, from) /\ h = Got(L, i, to)
  BY <1>2, <1>41 DEF IsPart
<1>5. /\ \A x \in Int : x \in o .. o + v - 1 => (x < from <=> x < o + g)
      /\ \A x \in Int : x \in o .. o + v - 1 => (x < to <=> x < o + h)
  BY <1>2, <1>4, <1>41 DEF IsPart
<1>6. g <= h
  <2>1. /\ g = (IF from <= o THEN 0 ELSE IF from >= o + v THEN v ELSE from - o)
        /\ h = (IF to <= o THEN 0 ELSE IF to >= o + v THEN v ELSE to - o)
    BY <1>2, <1>4 DEF Got
  <2> QED
    BY <1>3, <2>1
<1>7. PICK c \in Nat : c = h - g
  BY <1>6
<1>8. PICK a \in Int : a = o + g
  OBVIOUS
<1> DEFINE Set == {from + k - 1 : k \in {b \in 1 .. n : ds[b] = s}}
<1>9. \A b \in 1 .. n : ds[b] = s <=> from + b - 1 \in o .. o + v - 1
  <2>1. \A b \in 1 .. n : b \in 1 .. Len(ds)
    OBVIOUS
  <2> QED
    BY <1>1, <1>2, <2>1 DEF Destined
<1>10. Set = a .. a + c - 1
  <2>1. ASSUME NEW x \in Set PROVE x \in a .. a + c - 1
    <3>1. PICK k \in 1 .. n : x = from + k - 1 /\ ds[k] = s
      OBVIOUS
    <3>2. x \in Int /\ x \in o .. o + v - 1 /\ ~ (x < from) /\ x < to
      BY <1>3, <1>9, <3>1
    <3>3. ~ (x < o + g) /\ x < o + h
      BY <1>5, <3>2
    <3> QED
      BY <1>7, <1>8, <3>2, <3>3
  <2>2. ASSUME NEW x \in a .. a + c - 1 PROVE x \in Set
    <3>1. x \in Int /\ x \in o .. o + v - 1 /\ ~ (x < o + g) /\ x < o + h
      BY <1>7, <1>8
    <3>2. ~ (x < from) /\ x < to
      BY <1>5, <3>1
    <3>3. PICK k \in 1 .. n : x = from + k - 1
      <4>1. x - from + 1 \in 1 .. n /\ x = from + (x - from + 1) - 1
        BY <1>3, <3>1, <3>2
      <4> QED
        BY <4>1
    <3>4. ds[k] = s
      BY <1>9, <3>1, <3>3
    <3> QED
      BY <3>3, <3>4
  <2> HIDE DEF Set
  <2> QED
    BY <2>1, <2>2
<1> HIDE DEF Set
<1>11. Ascending(Set) = [k \in 1 .. c |-> a + k - 1]
  BY <1>10, IntervalAscends
<1>12. Offsets(L, i, g) = [b \in 1 .. g |-> o + b - 1] /\ Offsets(L, i, h) = [b \in 1 .. h |-> o + b - 1]
  BY <1>2 DEF Offsets
<1>13. [b \in 1 .. g |-> o + b - 1] \o [k \in 1 .. c |-> a + k - 1] = [b \in 1 .. h |-> o + b - 1]
  <2> DEFINE x == [b \in 1 .. g |-> o + b - 1]
             y == [k \in 1 .. c |-> a + k - 1]
             z == [b \in 1 .. h |-> o + b - 1]
  <2>1. x \in Seq(Int) /\ Len(x) = g /\ \A b \in 1 .. g : x[b] = o + b - 1
    OBVIOUS
  <2>2. y \in Seq(Int) /\ Len(y) = c /\ \A b \in 1 .. c : y[b] = a + b - 1
    OBVIOUS
  <2>3. z \in Seq(Int) /\ Len(z) = h /\ \A b \in 1 .. h : z[b] = o + b - 1
    OBVIOUS
  <2> HIDE DEF x, y, z
  <2>4. PICK w : w = x \o y
    OBVIOUS
  <2>5. /\ w \in Seq(Int) /\ Len(w) = Len(x) + Len(y)
        /\ \A k \in 1 .. Len(x) + Len(y) : w[k] = IF k <= Len(x) THEN x[k] ELSE y[k - Len(x)]
    BY <2>1, <2>2, <2>4, ConcatProperties
  <2>6. /\ Len(w) = h /\ \A k \in 1 .. h : w[k] = IF k <= g THEN x[k] ELSE y[k - g]
    <3>1. Len(x) + Len(y) = h
      BY <1>7, <2>1, <2>2
    <3> QED
      BY <2>1, <2>5, <3>1
  <2>7. ASSUME NEW k \in 1 .. h PROVE w[k] = z[k]
    <3>1. CASE k <= g
      <4>1. k \in 1 .. g
        BY <3>1
      <4>2. w[k] = x[k]
        BY <2>6, <3>1
      <4> QED
        BY <2>1, <2>3, <4>1, <4>2
    <3>2. CASE ~ (k <= g)
      <4>1. PICK m \in 1 .. c : m = k - g
        BY <1>7, <3>2
      <4>2. w[k] = y[m]
        BY <2>6, <3>2, <4>1
      <4>3. a + m - 1 = o + k - 1
        BY <1>8, <4>1
      <4> QED
        BY <2>2, <2>3, <4>2, <4>3
    <3> QED
      BY <3>1, <3>2
  <2>8. w = z
    BY <2>3, <2>5, <2>6, <2>7, SeqEqual
  <2> QED
    BY <2>4, <2>8 DEF x, y, z
<1> QED
  BY <1>1, <1>3, <1>4, <1>11, <1>12, <1>13 DEF Set, Grows

\* What is left after a read has the destinations it had.
IsRest(rest, ds, n) == rest = SubSeq(ds, n + 1, Len(ds))

RestFits(L, ws, ds, from, n, rest) ==
  /\ rest \in Seq(Nat) /\ Len(rest) = Len(ds) - n
  /\ Destined(L, ws, rest, from + n)

LEMMA RestIsDestined ==
  ASSUME NEW L, Geometry(L), NEW ws \in Seq(Nat), NEW ds \in Seq(Nat), NEW from \in Nat,
         Destined(L, ws, ds, from), NEW n \in 1 .. Len(ds),
         NEW rest, IsRest(rest, ds, n)
  PROVE  RestFits(L, ws, ds, from, n, rest)
<1> DEFINE l == Len(ds)
           r == SubSeq(ds, n + 1, l)
<1>1. l \in Nat /\ n \in Nat /\ n <= l
  OBVIOUS
<1>2. r \in Seq(Nat) /\ Len(r) = l - n /\ \A b \in 1 .. l - n : r[b] = ds[n + b]
  <2>1. \A i \in 1 .. l : ds[i] \in Nat
    OBVIOUS
  <2> HIDE DEF l
  <2>2. PICK q \in Int : q = n + 1
    BY <1>1
  <2>3. \A i \in q .. l : ds[i] \in Nat
    BY <1>1, <2>1, <2>2
  <2>4. /\ SubSeq(ds, q, l) \in Seq(Nat)
        /\ Len(SubSeq(ds, q, l)) = (IF q <= l THEN l - q + 1 ELSE 0)
        /\ \A i \in 1 .. l - q + 1 : SubSeq(ds, q, l)[i] = ds[q + i - 1]
    BY <1>1, <2>2, <2>3, SubSeqProperties
  <2>5. l - q + 1 = l - n /\ (q <= l \/ l - n = 0)
    BY <1>1, <2>2
  <2> HIDE DEF r
  <2>6. r = SubSeq(ds, q, l)
    BY <2>2 DEF r
  <2>7. r \in Seq(Nat) /\ Len(r) = l - n /\ \A i \in 1 .. l - n : r[i] = ds[q + i - 1]
    BY <2>4, <2>5, <2>6
  <2>8. ASSUME NEW i \in 1 .. l - n PROVE r[i] = ds[n + i]
    <3>1. i \in Int
      OBVIOUS
    <3>2. q + i - 1 = n + i
      BY <1>1, <2>2, <3>1
    <3> QED
      BY <2>7, <3>2
  <2> QED
    BY <2>7, <2>8
<1>3. rest = r
  BY DEF IsRest
<1> HIDE DEF l, r
<1>4. \A k \in 1 .. Len(ws) : VectorOffset(L, ws[k]) \in Nat /\ VectorBytes(L) \in Nat
  <2>1. \A k \in 1 .. Len(ws) : ws[k] \in Nat
    OBVIOUS
  <2> QED
    BY <2>1, OffsetIsPlace, LayoutBounds
<1>5. ASSUME NEW b \in 1 .. Len(r), NEW k \in 1 .. Len(ws)
      PROVE  r[b] = k <=>
               from + n + b - 1 \in VectorOffset(L, ws[k]) .. VectorOffset(L, ws[k]) + VectorBytes(L) - 1
  <2>1. PICK c \in 1 .. l : c = n + b
    BY <1>1, <1>2
  <2>2. r[b] = ds[c]
    BY <1>2, <2>1
  <2>3. ds[c] = k <=>
          from + c - 1 \in VectorOffset(L, ws[k]) .. VectorOffset(L, ws[k]) + VectorBytes(L) - 1
    BY DEF Destined, l
  <2>4. from + c - 1 = from + n + b - 1
    <3>1. b \in Int
      BY <1>2
    <3> QED
      BY <1>1, <2>1, <3>1
  <2> QED
    BY <2>2, <2>3, <2>4
<1>6. Destined(L, ws, r, from + n)
  BY <1>5 DEF Destined
<1> QED
  BY <1>2, <1>3, <1>6 DEF l, RestFits

\* What a read of n bytes leaves of a run.
IsFilled(window, n) ==
  /\ Filling(window)' /\ Len(dests') = Len(dests) - n /\ readBytes' = readBytes + n
  /\ phase' = (IF n = Len(dests) THEN "read" ELSE "reading")
  /\ n = Len(dests) => dests' = << >>

LEMMA FillingGoesOn ==
  ASSUME NEW window, Geometry(header), wanted \in Seq(Nat), wanted # << >>,
         Filling(window), NEW n \in 1 .. Len(dests), Preadv(n)
  PROVE  IsFilled(window, n)
<1>1. /\ wanted = Piece(plan.order, window)
      /\ cur \in VectorOffset(header, wanted[1]) .. RunEnd(header, wanted)
      /\ dests \in Seq(Nat) /\ Len(dests) = RunEnd(header, wanted) - cur
      /\ Destined(header, wanted, dests, cur)
      /\ sinkLeft = 0
      /\ slots = Received(header, wanted, cur)
  BY DEF Filling
<1>2. /\ slots' = [s \in DOMAIN slots |->
                     slots[s] \o Ascending({cur + k - 1 : k \in {b \in 1 .. n : dests[b] = s}})]
      /\ dests' = SubSeq(dests, n + 1, Len(dests))
      /\ cur' = cur + n /\ readBytes' = readBytes + n
      /\ phase' = (IF n = Len(dests) THEN "read" ELSE "reading")
      /\ header' = header /\ plan' = plan /\ wanted' = wanted /\ sinkLeft' = sinkLeft
  BY DEF Preadv
<1>3. /\ Len(wanted) \in Nat /\ Len(wanted) >= 1 /\ Len(dests) \in Nat /\ n \in Nat
      /\ \A s \in 1 .. Len(wanted) : wanted[s] \in Nat
  BY <1>1
<1>4. PICK first \in Nat, end \in Nat :
        first = VectorOffset(header, wanted[1]) /\ end = RunEnd(header, wanted)
  <2>1. \A s \in 1 .. Len(wanted) : VectorOffset(header, wanted[s]) \in Nat
    BY <1>3, OffsetIsPlace
  <2>2. PICK last \in Nat : last = VectorOffset(header, wanted[Len(wanted)])
    BY <1>3, <2>1
  <2>3. VectorBytes(header) \in Nat
    BY LayoutBounds
  <2>4. RunEnd(header, wanted) = last + VectorBytes(header)
    BY <2>2 DEF RunEnd
  <2>5. RunEnd(header, wanted) \in Nat
    BY <2>3, <2>4
  <2> QED
    BY <1>3, <2>1, <2>5
<1>5. PICK from \in Nat, to \in Nat : from = cur /\ to = from + n /\ from \in first .. end
  BY <1>1, <1>3, <1>4
<1>6. to \in first .. end
  <2>1. Len(dests) = end - from /\ n <= Len(dests)
    BY <1>1, <1>4, <1>5
  <2> QED
    BY <1>3, <1>5, <2>1
<1>7. PICK rest : rest = SubSeq(dests, n + 1, Len(dests))
  OBVIOUS
<1>8. Destined(header, wanted, dests, from)
  BY <1>1, <1>5
<1>9. /\ rest \in Seq(Nat) /\ Len(rest) = Len(dests) - n
      /\ Destined(header, wanted, rest, from + n)
  <2>1. IsRest(rest, dests, n) /\ dests \in Seq(Nat)
    BY <1>1, <1>7 DEF IsRest
  <2>2. RestFits(header, wanted, dests, from, n, rest)
    BY <1>8, <2>1, RestIsDestined
  <2> QED
    BY <2>2 DEF RestFits
<1>10. n = Len(dests) => rest = << >>
  BY <1>3, <1>9
<1>11. \A s \in 1 .. Len(wanted) :
         Offsets(header, wanted[s], Got(header, wanted[s], from))
           \o Ascending({from + k - 1 : k \in {b \in 1 .. n : dests[b] = s}})
         = Offsets(header, wanted[s], Got(header, wanted[s], from + n))
  <2>1. \A s \in 1 .. Len(wanted) : Grows(header, wanted, dests, from, n, s)
    BY <1>3, <1>8, SlotGrows
  <2> QED
    BY <2>1 DEF Grows
<1>12. slots' = Received(header, wanted, to)
  <2>1. slots = Received(header, wanted, from)
    BY <1>1, <1>5
  <2>2. /\ DOMAIN slots = 1 .. Len(wanted)
        /\ \A s \in 1 .. Len(wanted) :
             slots[s] = Offsets(header, wanted[s], Got(header, wanted[s], from))
    BY <2>1 DEF Received
  <2>3. slots' = [s \in 1 .. Len(wanted) |->
                    slots[s] \o Ascending({from + k - 1 : k \in {b \in 1 .. n : dests[b] = s}})]
    BY <1>2, <1>5, <2>2
  <2>4. \A s \in 1 .. Len(wanted) :
          slots[s] \o Ascending({from + k - 1 : k \in {b \in 1 .. n : dests[b] = s}})
          = Offsets(header, wanted[s], Got(header, wanted[s], to))
    BY <1>5, <1>11, <2>2
  <2> QED
    BY <2>3, <2>4 DEF Received
<1>13. Filling(window)'
  <2>1. cur' = to /\ dests' = rest /\ sinkLeft' = 0
    BY <1>1, <1>2, <1>5, <1>7
  <2>2. Len(rest) = end - to
    BY <1>1, <1>3, <1>4, <1>5, <1>9
  <2>3. /\ (wanted = Piece(plan.order, window))'
        /\ (cur \in VectorOffset(header, wanted[1]) .. RunEnd(header, wanted))'
    BY <1>1, <1>2, <1>4, <1>6, <2>1
  <2>4. (dests \in Seq(Nat) /\ Len(dests) = RunEnd(header, wanted) - cur)'
    BY <1>2, <1>4, <1>9, <2>1, <2>2
  <2>5. Destined(header, wanted, dests, cur)'
    <3>1. Destined(header, wanted, rest, to)
      BY <1>5, <1>9
    <3> QED
      BY <1>2, <2>1, <3>1
  <2>6. (slots = Received(header, wanted, cur))'
    BY <1>2, <1>12, <2>1
  <2> QED
    BY <2>1, <2>3, <2>4, <2>5, <2>6 DEF Filling
<1> QED
  BY <1>2, <1>7, <1>9, <1>10, <1>13 DEF IsFilled

LEMMA ReadGoesOn ==
  ASSUME Packing, Delivering, NEW n \in 1 .. Len(dests), Preadv(n), UNCHANGED vars
  PROVE  Delivering'
<1>1. /\ phase = "reading" /\ phase \in InRun
      /\ UNCHANGED <<header, plan, todo, visited, readRuns>>
  BY DEF Preadv, InRun
<1>2. stage = "finished" /\ Uncut /\ Geometry(header)
  BY <1>1 DEF Delivering, Uncut
<1>3. PICK spans, C : Scheduled(spans, C) /\ Progress(spans, C)
  BY <1>1 DEF Delivering
<1>4. /\ plan.order \in Seq(Nat) /\ Increasing(plan.order) /\ Tiles(spans, Len(plan.order))
      /\ Charges(header, plan.order, spans, Len(spans), C)
  BY <1>3 DEF Scheduled
<1>5. /\ readRuns \in 0 .. Len(spans) /\ todo = SubSeq(spans, readRuns + 1, Len(spans))
      /\ readRuns > 0 /\ visited = Seen(spans, readRuns - 1)
      /\ Filling(spans[readRuns]) /\ readBytes = C[readRuns] - Len(dests)
  BY <1>1, <1>3 DEF Progress
<1>6. PICK r \in 1 .. Len(spans) : r = readRuns
  <2>1. Len(spans) \in Nat
    BY <1>4 DEF Tiles
  <2> QED
    BY <1>5, <2>1
<1>7. wanted \in Seq(Nat) /\ wanted # << >>
  <2>1. IsRun(Piece(plan.order, spans[r]), plan.order, spans, r)
    BY <1>4, WindowsAscend
  <2>2. wanted = Piece(plan.order, spans[r])
    BY <1>5, <1>6 DEF Filling
  <2> QED
    BY <2>1, <2>2 DEF IsRun
<1>8. IsFilled(spans[r], n)
  BY <1>2, <1>5, <1>6, <1>7, FillingGoesOn
<1>9. /\ Filling(spans[r])' /\ Len(dests') = Len(dests) - n /\ readBytes' = readBytes + n
      /\ phase' = (IF n = Len(dests) THEN "read" ELSE "reading")
      /\ n = Len(dests) => dests' = << >>
  BY <1>8 DEF IsFilled
<1>10. readBytes' = C[r] - Len(dests')
  <2>1. dests \in Seq(Nat) /\ Len(dests) \in Nat /\ n \in Nat
    BY <1>5 DEF Filling
  <2>2. C[r] \in Int
    BY <1>4 DEF Charges
  <2>3. readBytes = C[r] - Len(dests)
    BY <1>5, <1>6
  <2> QED
    BY <1>9, <2>1, <2>2, <2>3
<1>11. Scheduled(spans, C)'
  BY <1>1, <1>3 DEF Scheduled, vars
<1>12. Progress(spans, C)'
  <2>1. readRuns' = r /\ readRuns' \in 0 .. Len(spans) /\ readRuns' > 0
    BY <1>1, <1>5, <1>6
  <2>2. (todo = SubSeq(spans, readRuns + 1, Len(spans)))'
    BY <1>1, <1>5
  <2>3. (visited = Seen(spans, readRuns - 1))'
    BY <1>1, <1>5 DEF Seen
  <2>4. (Filling(spans[readRuns]) /\ readBytes = C[readRuns] - Len(dests))'
    BY <1>9, <1>10, <2>1
  <2>5. phase' \in {"reading", "read"} /\ (phase' = "read" => dests' = << >>)
    BY <1>9
  <2> QED
    BY <2>1, <2>2, <2>3, <2>4, <2>5 DEF Progress, InRun
<1>13. stage' = "finished" /\ Uncut' /\ phase' # "idle"
  BY <1>2, <1>9 DEF Uncut, vars
<1> QED
  BY <1>11, <1>12, <1>13 DEF Delivering

\* When the last byte of a run is read, each of its vectors is whole.
LEMMA RunIsWhole ==
  ASSUME NEW L, Geometry(L), NEW ws \in Seq(Nat), Increasing(ws), ws # << >>,
         NEW n \in 1 .. Len(ws)
  PROVE  Got(L, ws[n], RunEnd(L, ws)) = VectorBytes(L)
<1> DEFINE N == Len(ws)
<1>1. N \in Nat /\ N \in 1 .. N /\ n \in 1 .. N /\ 1 \in 1 .. N
  OBVIOUS
<1>2. PICK v \in Nat \ {0} : v = VectorBytes(L)
  BY LayoutBounds
<1>3. \A k \in 1 .. N : VectorOffset(L, ws[k]) \in Nat
  <2>1. \A k \in 1 .. N : ws[k] \in Nat
    OBVIOUS
  <2> QED
    BY <2>1, OffsetIsPlace
<1>4. PICK o \in Nat, e \in Nat, z \in Nat :
        o = VectorOffset(L, ws[n]) /\ e = VectorOffset(L, ws[N]) /\ z = VectorOffset(L, ws[1])
  BY <1>1, <1>3
<1>5. /\ \A k \in 1 .. N : At(L, ws, k) \in Nat /\ VectorOffset(L, ws[k]) - z = At(L, ws, k)
      /\ \A i, j \in 1 .. N : i < j => At(L, ws, i) + v <= At(L, ws, j)
  BY <1>2, <1>4, RunPlaces
<1>6. PICK a \in Nat, b \in Nat : a = At(L, ws, n) /\ b = At(L, ws, N) /\ o - z = a /\ e - z = b
  BY <1>1, <1>4, <1>5
<1>7. o <= e
  <2>1. CASE n = N
    BY <1>4, <2>1
  <2>2. CASE n < N
    <3>1. a + v <= b
      BY <1>1, <1>5, <1>6, <2>2
    <3> QED
      BY <1>6, <3>1
  <2> QED
    BY <1>1, <2>1, <2>2
<1>8. RunEnd(L, ws) = e + v
  BY <1>2, <1>4 DEF RunEnd
<1>9. PICK end \in Nat : end = RunEnd(L, ws) /\ end >= o + v
  BY <1>7, <1>8
<1>10. Got(L, ws[n], end) = IF end <= o THEN 0 ELSE IF end >= o + v THEN v ELSE end - o
  BY <1>2, <1>4 DEF Got
<1>11. ~ (end <= o)
  BY <1>9
<1> QED
  BY <1>2, <1>9, <1>10, <1>11

\* A sequence is its first t elements followed by the others.
IsList(f, u) == f = [n \in 1 .. u |-> f[n]]

LEMMA TwoParts ==
  ASSUME NEW t \in Nat, NEW l \in Nat, NEW f, IsList(f, t + l)
  PROVE  [n \in 1 .. t |-> f[n]] \o [n \in 1 .. l |-> f[t + n]] = f
<1> DEFINE T == {f[n] : n \in 1 .. t + l}
           x == [n \in 1 .. t |-> f[n]]
           y == [n \in 1 .. l |-> f[t + n]]
<1>1. \A n \in 1 .. t + l : f[n] \in T
  OBVIOUS
<1> HIDE DEF T
<1>2. PICK u \in Nat : u = t + l
  OBVIOUS
<1>3. f \in [1 .. u -> T]
  BY <1>1, <1>2 DEF IsList
<1>4. f \in Seq(T) /\ Len(f) = u
  BY <1>3
<1>5. x \in Seq(T) /\ Len(x) = t /\ \A n \in 1 .. t : x[n] = f[n]
  <2>1. \A n \in 1 .. t : n \in 1 .. u
    BY <1>2
  <2>2. x \in [1 .. t -> T]
    BY <1>1, <1>2, <2>1
  <2>3. \A n \in 1 .. t : x[n] = f[n]
    OBVIOUS
  <2> HIDE DEF x, y
  <2> QED
    BY <2>2, <2>3
<1>6. y \in Seq(T) /\ Len(y) = l /\ \A n \in 1 .. l : y[n] = f[t + n]
  <2>1. \A n \in 1 .. l : t + n \in 1 .. u
    BY <1>2
  <2>2. y \in [1 .. l -> T]
    <3> SUFFICES ASSUME NEW n \in 1 .. l PROVE f[t + n] \in T
      OBVIOUS
    <3>1. PICK k \in 1 .. u : k = t + n
      BY <2>1
    <3>2. f[k] \in T
      BY <1>1, <1>2
    <3> QED
      BY <3>1, <3>2
  <2>3. \A n \in 1 .. l : y[n] = f[t + n]
    OBVIOUS
  <2> HIDE DEF x, y
  <2> QED
    BY <2>2, <2>3
<1> HIDE DEF x, y
<1>7. PICK w : w = x \o y
  OBVIOUS
<1>70. x \in Seq(T) /\ y \in Seq(T)
  BY <1>5, <1>6
<1>8. /\ w \in Seq(T) /\ Len(w) = Len(x) + Len(y)
      /\ \A k \in 1 .. Len(x) + Len(y) : w[k] = IF k <= Len(x) THEN x[k] ELSE y[k - Len(x)]
  BY <1>70, <1>7, ConcatProperties
<1>9. Len(w) = u /\ \A k \in 1 .. u : w[k] = IF k <= t THEN x[k] ELSE y[k - t]
  BY <1>2, <1>5, <1>6, <1>8
<1>10. ASSUME NEW k \in 1 .. u PROVE w[k] = f[k]
  <2>1. CASE k <= t
    <3>1. k \in 1 .. t
      BY <2>1
    <3> QED
      BY <1>5, <1>9, <2>1, <3>1
  <2>2. CASE ~ (k <= t)
    <3>1. PICK m \in 1 .. l : m = k - t /\ t + m = k
      BY <1>2, <2>2
    <3> QED
      BY <1>6, <1>9, <2>2, <3>1
  <2> QED
    BY <2>1, <2>2
<1>11. w = f
  BY <1>4, <1>8, <1>9, <1>10, SeqEqual
<1> QED
  BY <1>7, <1>11 DEF x, y

LEMMA RunIsSeen ==
  ASSUME Packing, Delivering, VisitRun, UNCHANGED vars
  PROVE  Delivering'
<1>1. /\ phase = "read" /\ phase' = "next"
      /\ visited' = visited \o [n \in 1 .. Len(wanted) |->
                                  [index |-> wanted[n], bytes |-> slots[n]]]
      /\ UNCHANGED <<header, plan, todo, readRuns, readBytes>>
  BY DEF VisitRun
<1>2. stage = "finished" /\ Uncut /\ Geometry(header)
  BY <1>1 DEF Delivering, Uncut
<1>3. PICK spans, C : Scheduled(spans, C) /\ Progress(spans, C)
  BY <1>1 DEF Delivering
<1>4. /\ plan.order \in Seq(Nat) /\ Increasing(plan.order) /\ Tiles(spans, Len(plan.order))
      /\ Charges(header, plan.order, spans, Len(spans), C)
  BY <1>3 DEF Scheduled
<1>5. /\ readRuns \in 0 .. Len(spans) /\ todo = SubSeq(spans, readRuns + 1, Len(spans))
      /\ readRuns > 0 /\ visited = Seen(spans, readRuns - 1)
      /\ Filling(spans[readRuns]) /\ readBytes = C[readRuns] - Len(dests) /\ dests = << >>
  BY <1>1, <1>3 DEF Progress, InRun
<1>6. PICK r \in 1 .. Len(spans) : r = readRuns
  <2>1. Len(spans) \in Nat
    BY <1>4 DEF Tiles
  <2> QED
    BY <1>5, <2>1
<1>7. wanted = Piece(plan.order, spans[r]) /\ slots = Received(header, wanted, cur)
  BY <1>5, <1>6 DEF Filling
<1>8. IsRun(wanted, plan.order, spans, r)
  BY <1>4, <1>7, WindowsAscend
<1>9. /\ wanted \in Seq(Nat) /\ wanted # << >> /\ Increasing(wanted)
      /\ Upto(spans, r) = Upto(spans, r - 1) + Len(wanted)
      /\ Upto(spans, r) \in Nat /\ Upto(spans, r - 1) \in Nat
      /\ \A n \in 1 .. Len(wanted) : wanted[n] = plan.order[Upto(spans, r - 1) + n]
  BY <1>8 DEF IsRun
<1>10. cur = RunEnd(header, wanted)
  <2>1. cur \in VectorOffset(header, wanted[1]) .. RunEnd(header, wanted)
    BY <1>5 DEF Filling
  <2>2. 0 = RunEnd(header, wanted) - cur
    BY <1>5 DEF Filling
  <2>3. RunEnd(header, wanted) \in Int
    <3>1. wanted[Len(wanted)] \in Nat
      BY <1>9
    <3>2. VectorOffset(header, wanted[Len(wanted)]) \in Nat /\ VectorBytes(header) \in Nat
      BY <1>2, <3>1, OffsetIsPlace, LayoutBounds
    <3> QED
      BY <3>2 DEF RunEnd
  <2>4. cur \in Int
    BY <2>1, <2>3
  <2> QED
    BY <2>2, <2>3, <2>4
<1>11. \A n \in 1 .. Len(wanted) :
         slots[n] = Offsets(header, wanted[n], VectorBytes(header))
  <2>1. \A n \in 1 .. Len(wanted) : Got(header, wanted[n], cur) = VectorBytes(header)
    BY <1>2, <1>9, <1>10, RunIsWhole
  <2>2. \A n \in 1 .. Len(wanted) : slots[n] = Offsets(header, wanted[n], Got(header, wanted[n], cur))
    BY <1>7 DEF Received
  <2> QED
    BY <2>1, <2>2
<1>12. PICK t \in Nat, l \in Nat : t = Upto(spans, r - 1) /\ l = Len(wanted) /\ Upto(spans, r) = t + l
  BY <1>9
<1>13. visited' = Seen(spans, r)
  <2>1. PICK f : f = Seen(spans, r)
    OBVIOUS
  <2>2. /\ f = [n \in 1 .. t + l |-> f[n]]
        /\ \A n \in 1 .. t + l :
             f[n] = [index |-> plan.order[n],
                     bytes |-> Offsets(header, plan.order[n], VectorBytes(header))]
    <3>1. Seen(spans, r) =
            [n \in 1 .. t + l |-> [index |-> plan.order[n],
                                   bytes |-> Offsets(header, plan.order[n], VectorBytes(header))]]
      BY <1>12 DEF Seen
    <3>2. /\ Seen(spans, r) = [n \in 1 .. t + l |-> Seen(spans, r)[n]]
          /\ \A n \in 1 .. t + l :
               Seen(spans, r)[n] = [index |-> plan.order[n],
                                    bytes |-> Offsets(header, plan.order[n], VectorBytes(header))]
      BY <3>1, Zenon
    <3> QED
      BY <2>1, <3>2, Zenon
  <2>3. \A n \in 1 .. t : n \in 1 .. t + l
    OBVIOUS
  <2>4. visited = [n \in 1 .. t |-> f[n]]
    BY <1>5, <1>6, <1>12, <2>2, <2>3 DEF Seen
  <2>5. \A n \in 1 .. l : t + n \in 1 .. t + l
    OBVIOUS
  <2>6. \A n \in 1 .. l : [index |-> wanted[n], bytes |-> slots[n]] = f[t + n]
    <3> SUFFICES ASSUME NEW n \in 1 .. l
                 PROVE  [index |-> wanted[n], bytes |-> slots[n]] = f[t + n]
      OBVIOUS
    <3>1. PICK k \in 1 .. t + l : k = t + n
      BY <2>5
    <3>2. wanted[n] = plan.order[k] /\ slots[n] = Offsets(header, wanted[n], VectorBytes(header))
      BY <1>9, <1>11, <1>12, <3>1
    <3>3. f[k] = [index |-> plan.order[k],
                  bytes |-> Offsets(header, plan.order[k], VectorBytes(header))]
      BY <2>2
    <3> QED
      BY <3>1, <3>2, <3>3
  <2>7. [n \in 1 .. Len(wanted) |-> [index |-> wanted[n], bytes |-> slots[n]]]
        = [n \in 1 .. l |-> f[t + n]]
    BY <1>12, <2>6
  <2>8. [n \in 1 .. t |-> f[n]] \o [n \in 1 .. l |-> f[t + n]] = f
    BY <2>2, TwoParts DEF IsList
  <2> QED
    BY <1>1, <2>1, <2>4, <2>7, <2>8
<1>14. Scheduled(spans, C)'
  BY <1>1, <1>3 DEF Scheduled, vars
<1>15. Progress(spans, C)'
  <2>1. readRuns' = r /\ readRuns' \in 0 .. Len(spans)
    BY <1>1, <1>5, <1>6
  <2>2. (todo = SubSeq(spans, readRuns + 1, Len(spans)))'
    BY <1>1, <1>5
  <2>3. (visited = Seen(spans, readRuns))'
    BY <1>1, <1>13, <2>1 DEF Seen
  <2>4. (readBytes = C[readRuns])'
    <3>1. C[r] \in Int
      BY <1>4 DEF Charges
    <3> QED
      BY <1>1, <1>5, <1>6, <2>1, <3>1
  <2> QED
    BY <1>1, <2>1, <2>2, <2>3, <2>4 DEF Progress, InRun
<1>16. stage' = "finished" /\ Uncut' /\ phase' # "idle"
  BY <1>1, <1>2 DEF Uncut, vars
<1> QED
  BY <1>14, <1>15, <1>16 DEF Delivering

\* A batch ends when every run is read.
LEMMA BatchFinishes ==
  ASSUME Packing, Delivering, Finish, UNCHANGED vars
  PROVE  Delivering'
<1>1. /\ phase = "next" /\ todo = << >> /\ phase' = "done"
      /\ UNCHANGED <<header, plan, todo, visited, readRuns, readBytes>>
  BY DEF Finish
<1>2. stage = "finished" /\ Uncut
  BY <1>1 DEF Delivering
<1>3. PICK spans, C : Scheduled(spans, C) /\ Progress(spans, C)
  BY <1>1 DEF Delivering
<1>4. /\ readRuns \in 0 .. Len(spans) /\ todo = SubSeq(spans, readRuns + 1, Len(spans))
      /\ visited = Seen(spans, readRuns) /\ readBytes = C[readRuns]
  BY <1>1, <1>3 DEF Progress
<1>5. spans \in Seq(Window) /\ Len(spans) \in Nat
  BY <1>3 DEF Scheduled, Tiles
<1>6. readRuns = Len(spans)
  <2> SUFFICES ASSUME readRuns # Len(spans) PROVE FALSE
    OBVIOUS
  <2>1. PICK q \in Int, m \in Int : q = readRuns + 1 /\ m = Len(spans) /\ q \in 1 .. m
    BY <1>4, <1>5
  <2>2. \A i \in q .. m : spans[i] \in Window
    BY <1>5, <2>1
  <2>3. Len(SubSeq(spans, q, m)) = (IF q <= m THEN m - q + 1 ELSE 0)
    BY <2>1, <2>2, SubSeqProperties
  <2>4. SubSeq(spans, q, m) = << >>
    BY <1>1, <1>4, <2>1
  <2>5. Len(SubSeq(spans, q, m)) = 0
    BY <2>4
  <2> QED
    BY <2>1, <2>3, <2>5
<1>7. Scheduled(spans, C)'
  BY <1>1, <1>3 DEF Scheduled, vars
<1>8. Progress(spans, C)'
  <2>1. readRuns' = readRuns /\ (todo = SubSeq(spans, readRuns + 1, Len(spans)))'
    BY <1>1, <1>4
  <2>2. (visited = Seen(spans, readRuns) /\ readBytes = C[readRuns])'
    BY <1>1, <1>4 DEF Seen
  <2> QED
    BY <1>1, <1>4, <1>6, <2>1, <2>2 DEF Progress, InRun
<1>9. stage' = "finished" /\ Uncut' /\ phase' # "idle"
  BY <1>1, <1>2 DEF Uncut, vars
<1> QED
  BY <1>7, <1>8, <1>9 DEF Delivering

\* A read that fails leaves what was visited.
LEMMA BatchBreaks ==
  ASSUME Packing, Delivering, PreadvRefused \/ PreadvFails, UNCHANGED vars
  PROVE  Delivering'
<1>1. /\ phase = "reading" /\ phase' \in {"failed", "too many buffers"}
      /\ UNCHANGED <<header, plan, todo, visited, readRuns, readBytes>>
  BY DEF PreadvRefused, PreadvFails
<1>2. stage = "finished" /\ Uncut
  BY <1>1 DEF Delivering
<1>3. PICK spans, C : Scheduled(spans, C) /\ Progress(spans, C)
  BY <1>1 DEF Delivering
<1>4. /\ readRuns \in 0 .. Len(spans) /\ todo = SubSeq(spans, readRuns + 1, Len(spans))
      /\ readRuns > 0 /\ visited = Seen(spans, readRuns - 1)
  BY <1>1, <1>3 DEF Progress, InRun
<1>5. Scheduled(spans, C)'
  BY <1>1, <1>3 DEF Scheduled, vars
<1>6. Progress(spans, C)'
  <2>1. readRuns' = readRuns /\ (todo = SubSeq(spans, readRuns + 1, Len(spans)))'
    BY <1>1, <1>4
  <2>2. (visited = Seen(spans, readRuns - 1))'
    BY <1>1, <1>4 DEF Seen
  <2> QED
    BY <1>1, <1>4, <2>1, <2>2 DEF Progress, InRun
<1>7. stage' = "finished" /\ Uncut' /\ phase' # "idle"
  BY <1>1, <1>2 DEF Uncut, vars
<1> QED
  BY <1>5, <1>6, <1>7 DEF Delivering

LEMMA DeliveryGoesOn == Packing /\ Delivering /\ [StorageNext]_storageVars => Delivering'
<1> SUFFICES ASSUME Packing, Delivering, [StorageNext]_storageVars PROVE Delivering'
  OBVIOUS
<1>1. CASE Write
  <2>1. Next /\ UNCHANGED batch
    BY <1>1 DEF Write
  <2>2. stage # "finished"
    BY <2>1 DEF Next, Push, Drain, FinishBlocks, WriteHeader, Abandon
  <2>3. phase = "idle" /\ plan = NoPlan /\ visited = << >> /\ readRuns = 0 /\ readBytes = 0
    BY <2>2 DEF Delivering
  <2> QED
    BY <2>1, <2>3 DEF Delivering, batch, NoPlan
<1>2. CASE OpenAndFetch
  BY <1>2, BatchStarts
<1>3. CASE Fetching
  <2>1. Advance /\ UNCHANGED vars
    BY <1>3 DEF Fetching
  <2>2. CASE StartRun
    BY <2>1, <2>2, RunStarts
  <2>3. CASE \E n \in 1 .. Len(dests) : Preadv(n)
    BY <2>1, <2>3, ReadGoesOn
  <2>4. CASE PreadvRefused
    BY <2>1, <2>4, BatchBreaks
  <2>5. CASE VisitRun
    BY <2>1, <2>5, RunIsSeen
  <2>6. CASE Finish
    BY <2>1, <2>6, BatchFinishes
  <2> QED
    BY <2>1, <2>2, <2>3, <2>4, <2>5, <2>6 DEF Advance
<1>4. CASE ReadFails
  BY <1>4, BatchBreaks DEF ReadFails
<1>5. CASE UNCHANGED storageVars
  <2>1. UNCHANGED vars /\ UNCHANGED batch
    BY <1>5 DEF storageVars
  <2>2. CASE phase = "idle"
    BY <2>1, <2>2 DEF Delivering, batch, NoPlan
  <2>3. CASE phase # "idle"
    <3>1. PICK spans, C : Scheduled(spans, C) /\ Progress(spans, C)
      BY <2>3 DEF Delivering
    <3>2. Scheduled(spans, C)'
      BY <2>1, <3>1 DEF Scheduled, vars, batch
    <3>3. header' = header
      BY <2>1 DEF vars
    <3>4. Filling(spans[readRuns]) => Filling(spans[readRuns])'
      BY <2>1, <3>3 DEF Filling, batch
    <3>5. Progress(spans, C)'
      <4>1. \A j : Seen(spans, j)' = Seen(spans, j)
        BY <2>1, <3>3 DEF Seen, batch
      <4> QED
        BY <2>1, <3>1, <3>4, <4>1 DEF Progress, batch
    <3>6. stage' = "finished" /\ Uncut' /\ phase' # "idle"
      BY <2>1, <2>3 DEF Delivering, Uncut, vars, batch
    <3> QED
      BY <3>2, <3>5, <3>6 DEF Delivering
  <2> QED
    BY <2>2, <2>3
<1> QED
  BY <1>1, <1>2, <1>3, <1>4, <1>5 DEF StorageNext

LEMMA StorageDelivers == StorageSpec => [](Packing /\ Delivering)
<1>1. StorageInit => Delivering
  BY DEF StorageInit, Idle, Delivering
<1> QED
  BY <1>1, StoragePacks, DeliveryGoesOn, PTL DEF StorageSpec

-----------------------------------------------------------------------------
(* What a batch in progress has delivered.                                 *)

\* visited holds the first t vectors of the order, whole.
HasSeen(t) ==
  /\ t \in 0 .. Len(plan.order) /\ plan.order \in Seq(Nat)
  /\ \A n \in 1 .. Len(plan.order) : plan.order[n] < count
  /\ visited = [n \in 1 .. t |->
                  [index |-> plan.order[n],
                   bytes |-> Offsets(header, plan.order[n], VectorBytes(header))]]
  /\ phase = "done" => t = Len(plan.order)

LEMMA BatchHasSeen ==
  ASSUME Delivering, phase # "idle"
  PROVE  Uncut /\ \E t : HasSeen(t)
<1>1. Uncut
  BY DEF Delivering
<1>2. PICK spans, C : Scheduled(spans, C) /\ Progress(spans, C)
  BY DEF Delivering
<1>3. /\ plan.order \in Seq(Nat) /\ Tiles(spans, Len(plan.order))
      /\ \A n \in 1 .. Len(plan.order) : plan.order[n] < count
  BY <1>2 DEF Scheduled
<1>4. /\ Len(spans) \in Nat /\ Len(plan.order) \in Nat
      /\ \A j \in 0 .. Len(spans) : Upto(spans, j) \in 0 .. Len(plan.order)
  BY <1>3, TilesInside
<1>5. Upto(spans, Len(spans)) = Len(plan.order)
  BY <1>3 DEF Tiles
<1>6. PICK j \in 0 .. Len(spans) :
        visited = Seen(spans, j) /\ (phase = "done" => j = Len(spans))
  <2>1. readRuns \in 0 .. Len(spans)
    BY <1>2 DEF Progress
  <2>2. CASE phase \in {"next", "done"}
    BY <1>2, <2>1, <2>2 DEF Progress
  <2>3. CASE phase \in InRun
    <3>1. readRuns > 0 /\ visited = Seen(spans, readRuns - 1)
      BY <1>2, <2>3 DEF Progress
    <3>2. PICK j \in 0 .. Len(spans) : j = readRuns - 1
      BY <1>4, <2>1, <3>1
    <3> QED
      BY <2>3, <3>1, <3>2 DEF InRun
  <2> QED
    BY <1>2, <2>2, <2>3 DEF Progress
<1>7. PICK t \in 0 .. Len(plan.order) : t = Upto(spans, j)
  BY <1>4
<1>8. visited = [n \in 1 .. t |->
                   [index |-> plan.order[n],
                    bytes |-> Offsets(header, plan.order[n], VectorBytes(header))]]
  BY <1>6, <1>7 DEF Seen
<1>9. phase = "done" => t = Len(plan.order)
  BY <1>5, <1>6, <1>7
<1> QED
  BY <1>1, <1>3, <1>8, <1>9 DEF HasSeen

LEMMA SeenInOrder == ASSUME NEW t, HasSeen(t) PROVE VisitsInOrder
<1>1. /\ t \in 0 .. Len(plan.order) /\ plan.order \in Seq(Nat)
      /\ phase = "done" => t = Len(plan.order)
      /\ visited = [n \in 1 .. t |->
                      [index |-> plan.order[n],
                       bytes |-> Offsets(header, plan.order[n], VectorBytes(header))]]
  BY DEF HasSeen
<1>2. DOMAIN visited = 1 .. t /\ \A n \in 1 .. t : visited[n].index = plan.order[n]
  BY <1>1
<1>3. t \in Nat /\ Len(plan.order) \in Nat
  BY <1>1
<1>4. Len(visited) = t
  <2>1. PICK f : f = visited
    OBVIOUS
  <2>2. f \in [1 .. t -> {f[n] : n \in 1 .. t}]
    BY <1>1, <2>1
  <2>3. Len(f) = t
    BY <1>3, <2>2
  <2> QED
    BY <2>1, <2>3
<1>5. SubSeq(plan.order, 1, t) = [n \in 1 .. t |-> plan.order[n]]
  BY <1>1, <1>3
<1>6. [n \in DOMAIN visited |-> visited[n].index] = [n \in 1 .. t |-> plan.order[n]]
  BY <1>2
<1> QED
  BY <1>1, <1>4, <1>5, <1>6 DEF VisitsInOrder

LEMMA SeenIsPushed ==
  ASSUME Packing, Uncut, NEW t, HasSeen(t), NEW n \in DOMAIN visited
  PROVE  BytesAt(visited[n].bytes) = BytesOf(layout, visited[n].index)
<1>1. /\ t \in 0 .. Len(plan.order) /\ plan.order \in Seq(Nat)
      /\ \A k \in 1 .. Len(plan.order) : plan.order[k] < count
      /\ visited = [k \in 1 .. t |->
                      [index |-> plan.order[k],
                       bytes |-> Offsets(header, plan.order[k], VectorBytes(header))]]
  BY DEF HasSeen
<1>2. n \in 1 .. t /\ n \in 1 .. Len(plan.order)
  BY <1>1
<1>3. PICK i \in Nat : i = plan.order[n] /\ i < count
  BY <1>1, <1>2
<1>4. visited[n].index = i /\ visited[n].bytes = Offsets(header, i, VectorBytes(header))
  BY <1>1, <1>2, <1>3
<1>5. PICK v \in Nat : v = VectorBytes(layout) /\ v = VectorBytes(header)
  <2>1. VectorBytes(header) = VectorBytes(layout)
    BY DEF Uncut, VectorBytes
  <2> QED
    BY <2>1, LayoutBounds DEF Packing
<1>6. PICK p \in Nat : p = Place(layout, i) /\ VectorOffset(header, i) = HeaderSize + p
  <2>1. Place(header, i) = Place(layout, i)
    BY DEF Uncut, Place, BlockOf, SlotOf, VectorsPerBlock, VectorBytes
  <2>2. VectorOffset(header, i) = HeaderSize + Place(header, i) /\ Place(header, i) \in Nat
    BY OffsetIsPlace, PlaceIsNat DEF Uncut
  <2> QED
    BY <2>1, <2>2
<1>7. Lies(layout, i, body)
  <2>1. i \in 0 .. count - 1 /\ \A k \in 0 .. count - 1 : Lies(layout, k, body)
    BY <1>3 DEF Packing
  <2> QED
    BY <2>1
<1>8. \A b \in 1 .. v : body[p + b] = <<i, b>>
  BY <1>5, <1>6, <1>7 DEF Lies
<1>9. PICK off : off = Offsets(header, i, v)
  OBVIOUS
<1>10. DOMAIN off = 1 .. v /\ \A b \in 1 .. v : off[b] = VectorOffset(header, i) + b - 1
  BY <1>9 DEF Offsets
<1>11. \A b \in 1 .. v : off[b] - HeaderSize + 1 = p + b
  BY <1>6, <1>10, HeaderAssumption
<1>12. BytesAt(off) = [b \in 1 .. v |-> body[off[b] - HeaderSize + 1]]
  BY <1>10 DEF BytesAt
<1>13. \A b \in 1 .. v : body[off[b] - HeaderSize + 1] = <<i, b>>
  BY <1>8, <1>11
<1>14. BytesAt(off) = [b \in 1 .. v |-> <<i, b>>]
  BY <1>12, <1>13
<1> QED
  BY <1>4, <1>5, <1>9, <1>14 DEF BytesOf

\* A batch gives visit the vectors asked for, each once and in ascending order, and with
\* each the bytes that StoreWriter::push was given as that vector, for every geometry, every
\* number of vectors, every batch and every way the kernel cuts a vectored read short.
\* The gaps between the vectors of a run use up the sink exactly, and no run leaves the file.
THEOREM BatchesDeliver == StorageSpec => []DeliversWhatWasPushed
<1>1. Packing /\ Delivering => DeliversWhatWasPushed
  <2> SUFFICES ASSUME Packing, Delivering PROVE DeliversWhatWasPushed
    OBVIOUS
  <2>1. CASE phase = "idle"
    <3>1. visited = << >> /\ plan.order = << >>
      BY <2>1 DEF Delivering, NoPlan
    <3>2. VisitsInOrder
      BY <2>1, <3>1 DEF VisitsInOrder
    <3> QED
      BY <2>1, <3>1, <3>2 DEF DeliversWhatWasPushed, RunsAreExact
  <2>2. CASE phase # "idle"
    <3>1. Uncut /\ \E t : HasSeen(t)
      BY <2>2, BatchHasSeen
    <3>2. VisitsInOrder
      BY <3>1, SeenInOrder
    <3>3. RunsAreExact
      <4>1. PICK spans, C : Progress(spans, C)
        BY <2>2 DEF Delivering
      <4> QED
        BY <4>1 DEF Progress, Filling, RunsAreExact, InRun
    <3>4. \A n \in DOMAIN visited :
            BytesAt(visited[n].bytes) = BytesOf(layout, visited[n].index)
      BY <3>1, SeenIsPushed
    <3> QED
      BY <3>2, <3>3, <3>4 DEF DeliversWhatWasPushed
  <2> QED
    BY <2>1, <2>2
<1> QED
  BY <1>1, StorageDelivers, PTL

\* The counters of a batch are charged from its plan: when it is done, the executor, which
\* cuts the order into runs with a loop of its own, has made that many reads and has read
\* that many bytes, never fewer than the payload.
THEOREM ChargesAreRead == StorageSpec => []ChargesWhatItReads
<1>1. Packing /\ Delivering => ChargesWhatItReads
  <2> SUFFICES ASSUME Packing, Delivering, phase = "done"
               PROVE  /\ readRuns = plan.runs /\ readBytes = plan.spanBytes
                      /\ plan.spanBytes >= plan.bytes
    BY DEF ChargesWhatItReads
  <2>1. Geometry(header)
    BY DEF Delivering, Uncut
  <2>2. PICK spans, C : Scheduled(spans, C) /\ Progress(spans, C)
    BY DEF Delivering
  <2>3. readRuns = Len(spans) /\ readBytes = C[readRuns]
    BY <2>2 DEF Progress
  <2>4. /\ plan.order \in Seq(Nat) /\ Increasing(plan.order) /\ Tiles(spans, Len(plan.order))
        /\ Charges(header, plan.order, spans, Len(spans), C)
        /\ plan.bytes = Len(plan.order) * VectorBytes(header)
        /\ plan.runs = Len(spans) /\ plan.spanBytes = C[Len(spans)]
    BY <2>2 DEF Scheduled
  <2>5. C[Len(spans)] >= Len(plan.order) * VectorBytes(header)
    BY <2>1, <2>4, ChargesCover
  <2> QED
    BY <2>3, <2>4, <2>5
<1> QED
  BY <1>1, StorageDelivers, PTL
=============================================================================
