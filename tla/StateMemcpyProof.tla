-------------------------- MODULE StateMemcpyProof --------------------------
(***************************************************************************)
(* Proofs about StateMemcpy for every word size, every number of lanes and *)
(* tiles, and every copy.                                                  *)
(***************************************************************************)
EXTENDS StateMemcpy, TLAPS

-----------------------------------------------------------------------------
(* Arithmetic. *)

(* Division by any divisor. *)
LEMMA DivFacts ==
  ASSUME NEW x \in Int, NEW d \in Nat \ {0}
  PROVE  /\ x \div d \in Int
         /\ x % d \in 0 .. d - 1
         /\ x = d * (x \div d) + (x % d)
OBVIOUS

(* Order and multiplication. *)
LEMMA MulMono ==
  ASSUME NEW a \in Int, NEW b \in Int, NEW d \in Nat, a <= b
  PROVE  d * a <= d * b
OBVIOUS

(* Quotient and remainder are determined. *)
LEMMA DivUnique ==
  ASSUME NEW d \in Nat \ {0}, NEW a \in Int, NEW b \in Int,
         NEW x \in 0 .. d - 1, NEW y \in 0 .. d - 1,
         d * a + x = d * b + y
  PROVE  a = b /\ x = y
<1>1. ~ a < b
  <2>1. SUFFICES ASSUME a + 1 <= b PROVE FALSE
    OBVIOUS
  <2>2. d * (a + 1) <= d * b
    BY <2>1, MulMono
  <2>3. d * (a + 1) = d * a + d
    OBVIOUS
  <2>4. d * a \in Int /\ d * b \in Int
    OBVIOUS
  <2>5. QED BY <2>2, <2>3, <2>4
<1>2. ~ b < a
  <2>1. SUFFICES ASSUME b + 1 <= a PROVE FALSE
    OBVIOUS
  <2>2. d * (b + 1) <= d * a
    BY <2>1, MulMono
  <2>3. d * (b + 1) = d * b + d
    OBVIOUS
  <2>4. d * a \in Int /\ d * b \in Int
    OBVIOUS
  <2>5. QED BY <2>2, <2>3, <2>4
<1>3. a = b
  BY <1>1, <1>2
<1>4. d * a \in Int
  OBVIOUS
<1>5. QED BY <1>3, <1>4

(* A sum taken apart again. *)
LEMMA DivOfSum ==
  ASSUME NEW d \in Nat \ {0}, NEW a \in Int, NEW x \in 0 .. d - 1
  PROVE  (d * a + x) \div d = a /\ (d * a + x) % d = x
<1>1. d * a + x \in Int
  OBVIOUS
<1>2. QED BY <1>1, DivFacts, DivUnique

(* Rounding up covers. *)
LEMMA CdivCovers ==
  ASSUME NEW n \in Nat, NEW d \in Nat \ {0}
  PROVE  Cdiv(n, d) \in Nat /\ n <= d * Cdiv(n, d)
<1> DEFINE q == Cdiv(n, d)
           r == (n + d - 1) % d
<1>1. q \in Int /\ r \in 0 .. d - 1 /\ n + d - 1 = d * q + r
  <2>1. \A x \in Int : /\ x \div d \in Int /\ x % d \in 0 .. d - 1
                       /\ x = d * (x \div d) + (x % d)
    BY DivFacts
  <2>2. n + d - 1 \in Int
    OBVIOUS
  <2>3. QED BY ONLY <2>1, <2>2 DEF Cdiv
<1> HIDE DEF q, r
<1>2. d * q \in Int
  BY <1>1
<1>3. n <= d * q
  BY <1>1, <1>2
<1>4. ~ q <= -1
  <2>1. SUFFICES ASSUME q <= -1 PROVE FALSE
    OBVIOUS
  <2>2. d * q <= d * (-1)
    BY <1>1, <2>1, MulMono
  <2>3. d * (-1) = - d
    OBVIOUS
  <2>4. QED BY <1>2, <1>3, <2>2, <2>3
<1>5. QED BY <1>1, <1>3, <1>4 DEF q

(* What lifts an address to a word boundary. *)
LEMMA HeadLifts ==
  ASSUME NEW a \in Int, NEW d \in Nat \ {0}
  PROVE  (a + ((- a) % d)) % d = 0
<1> DEFINE q == (- a) \div d
           m == (- a) % d
<1>1. q \in Int /\ m \in 0 .. d - 1 /\ - a = d * q + m
  <2>1. \A x \in Int : /\ x \div d \in Int /\ x % d \in 0 .. d - 1
                       /\ x = d * (x \div d) + (x % d)
    BY DivFacts
  <2>2. - a \in Int
    OBVIOUS
  <2>3. QED BY ONLY <2>1, <2>2
<1> HIDE DEF q, m
<1>2. a + m = d * (- q) + 0
  <2>1. d * (- q) = - (d * q) /\ d * q \in Int
    BY <1>1
  <2>2. QED BY <1>1, <2>1
<1>3. - q \in Int /\ 0 \in 0 .. d - 1
  BY <1>1
<1>4. (d * (- q) + 0) % d = 0
  BY <1>3, DivOfSum
<1>5. QED BY <1>2, <1>4 DEF m

-----------------------------------------------------------------------------
(* The region of a token. *)

(* The parameters of a copy. *)
LEMMA CopyFacts ==
  ASSUME CopyOK
  PROVE  /\ copy.width \in Nat \ {0} /\ copy.bytes \in Nat \ {0}
         /\ copy.bias \in Nat /\ copy.bias < copy.width
         /\ copy.tiles \in Nat \ {0} /\ copy.src \in Nat /\ copy.dst \in Nat
         /\ copy.inplace \in BOOLEAN
         /\ Rounds \in Nat \ {0} /\ copy.bytes <= CopyBlock * Rounds
         /\ Total \in Nat
         /\ copy.kind # "batch" => Total = (copy.width - copy.bias) * Rounds
         /\ Word \in Nat \ {0} /\ CopyBlock \in Nat \ {0}
<1>1. /\ copy.width \in Nat \ {0} /\ copy.bytes \in Nat \ {0}
      /\ copy.bias \in Nat /\ copy.bias < copy.width
      /\ copy.tiles \in Nat \ {0} /\ copy.src \in Nat /\ copy.dst \in Nat
      /\ copy.inplace \in BOOLEAN
  BY MemcpyAssumption DEF CopyOK, Copies, IsCopy
<1>2. Word \in Nat \ {0} /\ CopyBlock \in Nat \ {0}
  BY MemcpyAssumption
<1>3. Rounds \in Nat /\ copy.bytes <= CopyBlock * Rounds
  BY <1>1, <1>2, CdivCovers DEF Rounds
<1>4. Rounds # 0
  BY <1>1, <1>2, <1>3
<1>5. (copy.width - copy.bias) * Rounds \in Nat
  BY <1>1, <1>3
<1>6. Cdiv(copy.width - copy.bias, CopyBlock) \in Nat
  <2>1. copy.width - copy.bias \in Nat
    BY <1>1
  <2>2. QED BY <2>1, <1>2, CdivCovers
<1>7. QED BY <1>1, <1>2, <1>3, <1>4, <1>5, <1>6 DEF Total

(* Head, words and tail lie one behind the other, and the tail is shorter   *)
(* than a word.                                                             *)
LEMMA RegionFacts ==
  ASSUME CopyOK, NEW t \in Nat
  PROVE  /\ Unit(t) \in 1 .. Word
         /\ Head(t) \in 0 .. copy.bytes /\ Head(t) < Word
         /\ Body(t) \in Nat
         /\ Unit(t) * Body(t) \in Nat
         /\ Head(t) + Unit(t) * Body(t) <= copy.bytes
         /\ copy.bytes < Head(t) + Unit(t) * Body(t) + Unit(t)
         /\ PerTile(t) \in Nat
         /\ Body(t) <= copy.tiles * PerTile(t)
<1>1. DstAddr(t) \in Int
  BY CopyFacts DEF DstAddr
<1>2. (- DstAddr(t)) % Word \in 0 .. Word - 1
  <2>1. - DstAddr(t) \in Int
    BY <1>1
  <2>2. QED BY <2>1, CopyFacts, DivFacts
<1>3. Unit(t) \in 1 .. Word
  BY CopyFacts DEF Unit
<1>4. Head(t) \in 0 .. copy.bytes /\ Head(t) < Word
  BY <1>2, CopyFacts DEF Head, Least
<1>5. /\ Body(t) \in Int
      /\ (copy.bytes - Head(t)) % Unit(t) \in 0 .. Unit(t) - 1
      /\ copy.bytes - Head(t) = Unit(t) * Body(t) + ((copy.bytes - Head(t)) % Unit(t))
  <2>1. copy.bytes - Head(t) \in Int /\ Unit(t) \in Nat \ {0}
    BY <1>3, <1>4, CopyFacts
  <2>2. QED BY <2>1, DivFacts DEF Body
<1>6. Unit(t) * Body(t) \in Int
  BY <1>3, <1>5
<1>7. /\ Head(t) + Unit(t) * Body(t) <= copy.bytes
      /\ copy.bytes < Head(t) + Unit(t) * Body(t) + Unit(t)
  BY <1>3, <1>4, <1>5, <1>6, CopyFacts
<1>8. Body(t) \in Nat
  <2>1. SUFFICES ASSUME Body(t) <= -1 PROVE FALSE
    BY <1>5
  <2>2. Unit(t) * Body(t) <= Unit(t) * (-1)
    BY <2>1, <1>3, <1>5, MulMono
  <2>3. QED BY <2>2, <1>3, <1>4, <1>6, <1>7, CopyFacts
<1>9. Unit(t) * Body(t) \in Nat
  BY <1>3, <1>8
<1>10. PerTile(t) \in Nat /\ Body(t) <= copy.tiles * PerTile(t)
  <2> DEFINE a == Cdiv(Body(t), copy.tiles)
             b == Cdiv(a, CopyBlock)
  <2>1. a \in Nat /\ Body(t) <= copy.tiles * a
    BY <1>8, CopyFacts, CdivCovers
  <2>2. b \in Nat /\ a <= CopyBlock * b
    BY <2>1, CopyFacts, CdivCovers
  <2>3. PerTile(t) = CopyBlock * b
    BY <2>1, <2>2, CopyFacts DEF PerTile
  <2> HIDE DEF a, b
  <2>4. PerTile(t) \in Nat
    BY <2>2, <2>3, CopyFacts
  <2>5. copy.tiles * a <= copy.tiles * PerTile(t)
    BY <2>1, <2>2, <2>3, <2>4, CopyFacts, MulMono
  <2>6. copy.tiles * a \in Nat /\ copy.tiles * PerTile(t) \in Nat
    BY <2>1, <2>4, CopyFacts
  <2>7. QED BY <1>8, <2>1, <2>4, <2>5, <2>6
<1>11. QED BY <1>3, <1>4, <1>7, <1>8, <1>9, <1>10

(* The word of lane l in round i. *)
WordOf(l, t, i) == l.tile * PerTile(t) + i * CopyBlock + l.j

(* Which bytes of a token a lane copies. *)
LEMMA OffsetsFacts ==
  ASSUME CopyOK, NEW l \in Lanes, NEW t \in Nat, NEW i \in Nat,
         NEW o \in Offsets(l, t, i)
  PROVE  /\ o \in 0 .. copy.bytes - 1
         /\ l.part = "body" =>
              /\ WordOf(l, t, i) \in 0 .. Body(t) - 1
              /\ \E x \in 0 .. Unit(t) - 1 : o = Head(t) + Unit(t) * WordOf(l, t, i) + x
              /\ Head(t) <= o /\ o < Head(t) + Unit(t) * Body(t)
         /\ l.part = "head" => i = 0 /\ o = l.j /\ o < Head(t)
         /\ l.part = "tail" => i = 0 /\ o = Head(t) + Unit(t) * Body(t) + l.j
<1>0. /\ Unit(t) \in Nat /\ Head(t) \in Nat /\ Body(t) \in Nat
      /\ Unit(t) * Body(t) \in Nat /\ PerTile(t) \in Nat
      /\ Head(t) + Unit(t) * Body(t) <= copy.bytes /\ Head(t) <= copy.bytes
      /\ copy.bytes \in Nat /\ CopyBlock \in Nat
  <2>1. /\ Unit(t) \in 1 .. Word /\ Head(t) \in 0 .. copy.bytes
        /\ Body(t) \in Nat /\ Unit(t) * Body(t) \in Nat
        /\ Head(t) + Unit(t) * Body(t) <= copy.bytes /\ PerTile(t) \in Nat
    BY RegionFacts
  <2>2. copy.bytes \in Nat /\ CopyBlock \in Nat /\ Word \in Nat
    BY CopyFacts
  <2>3. QED BY ONLY <2>1, <2>2
<1>1. /\ l.part \in {"head", "body", "tail"} /\ l.tile \in Nat /\ l.j \in Nat
  BY CopyFacts DEF Lanes
<1>2. CASE l.part = "body"
  <2> DEFINE e == WordOf(l, t, i)
  <2>1. e \in Nat
    <3>1. l.tile * PerTile(t) \in Nat /\ i * CopyBlock \in Nat
      BY <1>0, <1>1
    <3>2. QED BY <3>1, <1>1 DEF WordOf
  <2>2. /\ e < Least((l.tile + 1) * PerTile(t), Body(t))
        /\ o \in Head(t) + e * Unit(t) .. Head(t) + e * Unit(t) + Unit(t) - 1
    BY <1>2 DEF Offsets, WordOf
  <2> HIDE DEF e
  <2>3. (l.tile + 1) * PerTile(t) \in Nat
    BY <1>1, RegionFacts
  <2>4. e < Body(t)
    BY <2>1, <2>2, <2>3, RegionFacts DEF Least
  <2>5. Unit(t) * (e + 1) <= Unit(t) * Body(t)
    <3>1. e + 1 <= Body(t) /\ e + 1 \in Int
      BY <1>0, <2>1, <2>4
    <3>2. QED BY <3>1, <1>0, MulMono
  <2>6. /\ Unit(t) * (e + 1) = Unit(t) * e + Unit(t)
        /\ Unit(t) * e = e * Unit(t) /\ Unit(t) * e \in Nat
    BY <2>1, <1>0
  <2>7. o \in Int /\ Head(t) + Unit(t) * e <= o /\ o < Head(t) + Unit(t) * e + Unit(t)
    BY <2>2, <2>6, <1>0
  <2>8. Head(t) <= o /\ o < Head(t) + Unit(t) * Body(t)
    BY <2>5, <2>6, <2>7, <1>0
  <2>9. o \in 0 .. copy.bytes - 1
    BY <2>7, <2>8, <1>0
  <2>10. \E x \in 0 .. Unit(t) - 1 : o = Head(t) + Unit(t) * e + x
    <3>1. o - (Head(t) + Unit(t) * e) \in 0 .. Unit(t) - 1
      BY <2>6, <2>7, <1>0
    <3>2. o = Head(t) + Unit(t) * e + (o - (Head(t) + Unit(t) * e))
      BY <2>6, <2>7, <1>0
    <3>3. QED BY <3>1, <3>2
  <2>11. QED BY <1>0, <1>2, <2>1, <2>4, <2>8, <2>9, <2>10 DEF e
<1>3. CASE l.part = "head"
  <2>1. i = 0 /\ o = l.j /\ o < Head(t)
    BY <1>3 DEF Offsets
  <2>2. o \in 0 .. copy.bytes - 1
    BY <1>0, <1>1, <2>1
  <2>3. QED BY <1>3, <2>1, <2>2
<1>4. CASE l.part = "tail"
  <2>1. i = 0 /\ o = Head(t) + Body(t) * Unit(t) + l.j /\ o < copy.bytes
    BY <1>4 DEF Offsets
  <2>2. Body(t) * Unit(t) = Unit(t) * Body(t)
    BY RegionFacts
  <2>3. o \in 0 .. copy.bytes - 1
    BY <1>0, <1>1, <2>1, <2>2
  <2>4. QED BY <1>4, <2>1, <2>2, <2>3
<1>5. QED BY <1>1, <1>2, <1>3, <1>4

-----------------------------------------------------------------------------
(* Who copies which cell. *)

(* In place a token is copied by one tile, and each byte of it by one lane  *)
(* in one round, the same for all tokens that begin alike.                  *)
LEMMA OffsetOwner ==
  ASSUME CopyOK, copy.tiles = 1,
         NEW l \in Lanes, NEW m \in Lanes, NEW t \in Nat, NEW u \in Nat,
         NEW i \in Nat, NEW k \in Nat,
         Head(t) = Head(u), Unit(t) = Unit(u), Body(t) = Body(u),
         NEW o \in Offsets(l, t, i), o \in Offsets(m, u, k)
  PROVE  l = m /\ i = k
<1>1. /\ l.part \in {"head", "body", "tail"} /\ m.part \in {"head", "body", "tail"}
      /\ l.tile = 0 /\ m.tile = 0 /\ l.j \in Nat /\ m.j \in Nat
      /\ l.part = "body" => l.j \in 0 .. CopyBlock - 1
      /\ m.part = "body" => m.j \in 0 .. CopyBlock - 1
  BY CopyFacts DEF Lanes
<1>2. l.part = m.part /\ l.j = m.j => l = m
  BY <1>1 DEF Lanes
<1>3. /\ Unit(t) \in 1 .. Word /\ Head(t) \in Nat /\ Unit(t) * Body(t) \in Nat
      /\ PerTile(t) \in Nat /\ PerTile(u) \in Nat
  BY RegionFacts
<1>4. CopyBlock \in Nat \ {0} /\ Word \in Nat
  BY CopyFacts
<1>5. /\ o \in Int
      /\ l.part = "body" =>
           /\ WordOf(l, t, i) \in Int
           /\ \E x \in 0 .. Unit(t) - 1 : o = Head(t) + Unit(t) * WordOf(l, t, i) + x
           /\ Head(t) <= o /\ o < Head(t) + Unit(t) * Body(t)
      /\ l.part = "head" => i = 0 /\ o = l.j /\ o < Head(t)
      /\ l.part = "tail" => i = 0 /\ o = Head(t) + Unit(t) * Body(t) + l.j
  BY OffsetsFacts
<1>6. /\ m.part = "body" =>
           /\ WordOf(m, u, k) \in Int
           /\ \E x \in 0 .. Unit(t) - 1 : o = Head(t) + Unit(t) * WordOf(m, u, k) + x
           /\ Head(t) <= o /\ o < Head(t) + Unit(t) * Body(t)
      /\ m.part = "head" => k = 0 /\ o = m.j /\ o < Head(t)
      /\ m.part = "tail" => k = 0 /\ o = Head(t) + Unit(t) * Body(t) + m.j
  BY OffsetsFacts
<1>7. l.part = m.part
  BY <1>1, <1>3, <1>5, <1>6
<1>8. CASE l.part = "body"
  <2>1. PICK x \in 0 .. Unit(t) - 1 : o = Head(t) + Unit(t) * WordOf(l, t, i) + x
    BY <1>5, <1>8
  <2>2. PICK y \in 0 .. Unit(t) - 1 : o = Head(t) + Unit(t) * WordOf(m, u, k) + y
    BY <1>6, <1>7, <1>8
  <2>3. WordOf(l, t, i) \in Int /\ WordOf(m, u, k) \in Int
    BY <1>5, <1>6, <1>7, <1>8
  <2>4. Unit(t) \in Nat \ {0}
    BY <1>3, <1>4
  <2>5. /\ Unit(t) * WordOf(l, t, i) \in Int /\ Unit(t) * WordOf(m, u, k) \in Int
    BY <2>3, <2>4
  <2>6. Unit(t) * WordOf(l, t, i) + x = Unit(t) * WordOf(m, u, k) + y
    <3>1. x \in Int /\ y \in Int /\ Head(t) \in Int
      BY <2>4, <1>3
    <3>2. /\ Head(t) + Unit(t) * WordOf(l, t, i) + x
               = Head(t) + Unit(t) * WordOf(m, u, k) + y
      BY <2>1, <2>2
    <3>3. QED BY ONLY <3>1, <3>2, <2>5
  <2>7. WordOf(l, t, i) = WordOf(m, u, k)
    BY <2>3, <2>4, <2>6, DivUnique
  <2>8. /\ WordOf(l, t, i) = CopyBlock * i + l.j
        /\ WordOf(m, u, k) = CopyBlock * k + m.j
    BY <1>1, <1>3, <1>4 DEF WordOf
  <2>9. l.j \in 0 .. CopyBlock - 1 /\ m.j \in 0 .. CopyBlock - 1
    BY <1>1, <1>7, <1>8
  <2>10. i = k /\ l.j = m.j
    <3>1. CopyBlock * i + l.j = CopyBlock * k + m.j
      BY <2>7, <2>8
    <3>2. i \in Int /\ k \in Int
      OBVIOUS
    <3>3. QED BY <3>1, <3>2, <2>9, <1>4, DivUnique
  <2>11. QED BY <1>2, <1>7, <2>10
<1>9. CASE l.part = "head"
  BY <1>2, <1>5, <1>6, <1>7, <1>9
<1>10. CASE l.part = "tail"
  <2>1. i = 0 /\ k = 0 /\ l.j = m.j
    BY <1>1, <1>3, <1>5, <1>6, <1>7, <1>10
  <2>2. QED BY <1>2, <1>7, <2>1
<1>11. QED BY <1>1, <1>8, <1>9, <1>10

(* In place a token and the token it is copied from begin alike: on the    *)
(* fast path they are a whole number of words apart.                       *)
LEMMA SourceAlike ==
  ASSUME CopyOK, copy.src = copy.dst, NEW t \in Nat
  PROVE  /\ Unit(t) = Unit(t + copy.bias)
         /\ Head(t) = Head(t + copy.bias)
         /\ Body(t) = Body(t + copy.bias)
<1> DEFINE s == copy.bias * copy.bytes
           u == t + copy.bias
<1>1. /\ copy.bias \in Nat /\ copy.bytes \in Nat /\ copy.src \in Nat
      /\ Word \in Nat \ {0}
  BY CopyFacts
<1>2. s \in Nat /\ u \in Nat
  BY <1>1
<1>3. DstAddr(t) \in Int /\ DstAddr(u) = DstAddr(t) + s
  BY <1>1 DEF DstAddr
<1>4. SrcAddr(t) = DstAddr(t) + s /\ SrcAddr(u) = DstAddr(u) + s
  BY <1>1 DEF DstAddr, SrcAddr
<1> HIDE DEF s, u
<1>5. SrcAddr(t) - DstAddr(t) = s /\ SrcAddr(u) - DstAddr(u) = s
  BY <1>2, <1>3, <1>4
<1>6. Fast(t) = (copy.kind # "rows" /\ s % Word = 0) /\ Fast(u) = Fast(t)
  BY <1>5 DEF Fast
<1>7. s % Word = 0 => (- DstAddr(u)) % Word = (- DstAddr(t)) % Word
  <2> SUFFICES ASSUME s % Word = 0
               PROVE  (- DstAddr(u)) % Word = (- DstAddr(t)) % Word
    OBVIOUS
  <2>1. /\ s \div Word \in Int /\ s = Word * (s \div Word) + 0
    BY <1>1, <1>2, DivFacts
  <2> DEFINE a == - DstAddr(t)
             q == a \div Word
             r == a % Word
             k == s \div Word
  <2>2. a \in Int
    BY <1>3
  <2>3. q \in Int /\ r \in 0 .. Word - 1 /\ a = Word * q + r
    BY <2>2, <1>1, DivFacts
  <2>4. - DstAddr(u) = a - s
    BY <1>2, <1>3
  <2> HIDE DEF a, q, r, k
  <2>5. k \in Int /\ s = Word * k
    BY <2>1, <1>1 DEF k
  <2>6. a - s = Word * (q - k) + r /\ q - k \in Int
    <3>1. Word * (q - k) = Word * q - Word * k /\ Word * q \in Int /\ Word * k \in Int
      BY <2>3, <2>5, <1>1
    <3>2. QED BY <3>1, <2>3, <2>5, <1>1
  <2>7. (Word * (q - k) + r) % Word = r
    BY <2>3, <2>6, <1>1, DivOfSum
  <2>8. QED BY <2>4, <2>6, <2>7 DEF r, a
<1>8. Unit(t) = Unit(u)
  BY <1>6 DEF Unit
<1>9. Head(t) = Head(u)
  BY <1>6, <1>7 DEF Head
<1>10. Body(t) = Body(u)
  BY <1>8, <1>9 DEF Body
<1>11. QED BY <1>8, <1>9, <1>10 DEF u

(* A vector lies in the part of the block that is copied. *)
LEMMA VectorFacts ==
  ASSUME CopyOK, NEW l \in Lanes, NEW n \in 0 .. Total - 1, NEW c \in Vector(l, n)
  PROVE  c \in Cells /\ Moving(c) /\ Source(c) \in Cells
<1>1. /\ copy.bias \in Nat /\ copy.width \in Nat /\ copy.bytes \in Nat
      /\ Rounds \in Nat \ {0} /\ Total \in Nat
  BY CopyFacts
<1>2. CASE copy.kind = "batch"
  <2>1. c \in Cells /\ Moving(c)
    BY <1>2 DEF Vector
  <2>2. QED BY <1>1, <2>1 DEF Cells, Moving, Source
<1>3. CASE copy.kind # "batch"
  <2> DEFINE t == n \div Rounds
             i == n % Rounds
  <2>1. t \in Int /\ i \in 0 .. Rounds - 1 /\ n = Rounds * t + i
    BY <1>1, DivFacts
  <2>2. c \in {t} \X Offsets(l, t, i)
    BY <1>3 DEF Vector
  <2>3. n < (copy.width - copy.bias) * Rounds /\ n \in Nat
    BY <1>1, <1>3, CopyFacts
  <2> HIDE DEF t, i
  <2>4. Rounds * t \in Int
    BY <1>1, <2>1
  <2>5. t >= 0
    <3>1. SUFFICES ASSUME t + 1 <= 0 PROVE FALSE
      BY <2>1
    <3>2. Rounds * (t + 1) <= Rounds * 0
      BY <3>1, <2>1, <1>1, MulMono
    <3>3. Rounds * (t + 1) = Rounds * t + Rounds /\ Rounds * 0 = 0
      BY <2>1, <1>1
    <3>4. QED BY <3>2, <3>3, <2>1, <2>3, <2>4, <1>1
  <2>6. t < copy.width - copy.bias
    <3>1. SUFFICES ASSUME copy.width - copy.bias <= t PROVE FALSE
      BY <1>1, <2>1
    <3>2. Rounds * (copy.width - copy.bias) <= Rounds * t
      BY <3>1, <2>1, <1>1, MulMono
    <3>3. /\ Rounds * (copy.width - copy.bias) = (copy.width - copy.bias) * Rounds
          /\ Rounds * (copy.width - copy.bias) \in Int
      BY <1>1
    <3>4. QED BY <3>2, <3>3, <2>1, <2>3, <2>4, <1>1
  <2>7. /\ c = <<c[1], c[2]>> /\ c[1] = t /\ c[2] \in Offsets(l, t, i)
    BY <2>2
  <2>8. c[2] \in 0 .. copy.bytes - 1
    BY <2>1, <2>5, <2>7, <1>1, OffsetsFacts
  <2>9. QED BY <1>1, <2>1, <2>5, <2>6, <2>7, <2>8 DEF Cells, Moving, Source
<1>4. QED BY <1>2, <1>3

(* In a shift, the lane that copies a cell is no later than whoever writes  *)
(* over its source, and for tokens and rows it is the same lane.            *)
LEMMA SourceOwner ==
  ASSUME CopyOK, copy.inplace, copy.bias > 0,
         NEW l \in Lanes, NEW m \in Lanes,
         NEW n \in 0 .. Total - 1, NEW k \in 0 .. Total - 1,
         NEW c \in Vector(l, n), Source(c) \in Vector(m, k)
  PROVE  n <= k /\ (copy.kind # "batch" => l = m)
<1>1. /\ copy.bias \in Nat /\ Rounds \in Nat \ {0} /\ Total \in Nat
      /\ CopyBlock \in Nat \ {0}
  BY CopyFacts
<1>2. c \in Cells /\ Moving(c) /\ n \in Nat /\ k \in Nat
  BY <1>1, VectorFacts
<1>3. CASE copy.kind = "batch"
  <2>1. l.j \in 0 .. CopyBlock - 1 /\ m.j \in 0 .. CopyBlock - 1
    BY <1>3 DEF Lanes
  <2>2. c[1] = n * CopyBlock + l.j /\ c[1] + copy.bias = k * CopyBlock + m.j
    BY <1>3 DEF Vector, Source
  <2>3. SUFFICES ASSUME k + 1 <= n PROVE FALSE
    BY <1>2, <1>3
  <2>4. CopyBlock * (k + 1) <= CopyBlock * n
    BY <2>3, <1>1, <1>2, MulMono
  <2>5. /\ CopyBlock * (k + 1) = k * CopyBlock + CopyBlock
        /\ CopyBlock * n = n * CopyBlock
        /\ k * CopyBlock \in Int /\ n * CopyBlock \in Int
    BY <1>1, <1>2
  <2>6. QED BY <1>1, <2>1, <2>2, <2>4, <2>5
<1>4. CASE copy.kind # "batch"
  <2> DEFINE t == n \div Rounds
             i == n % Rounds
             u == k \div Rounds
             j == k % Rounds
  <2>1. /\ t \in Int /\ i \in 0 .. Rounds - 1 /\ n = Rounds * t + i
        /\ u \in Int /\ j \in 0 .. Rounds - 1 /\ k = Rounds * u + j
    BY <1>1, <1>2, DivFacts
  <2>2. /\ c = <<c[1], c[2]>> /\ c[1] = t /\ c[2] \in Offsets(l, t, i)
        /\ c[1] + copy.bias = u /\ c[2] \in Offsets(m, u, j)
    BY <1>4 DEF Vector, Source
  <2> HIDE DEF t, i, u, j
  <2>3. t \in Nat /\ u \in Nat /\ u = t + copy.bias
    BY <1>1, <1>2, <2>1, <2>2, CopyFacts DEF Cells
  <2>4. copy.tiles = 1 /\ copy.src = copy.dst
    BY <1>1 DEF CopyOK, IsCopy
  <2>5. Unit(t) = Unit(u) /\ Head(t) = Head(u) /\ Body(t) = Body(u)
    BY <2>3, <2>4, SourceAlike
  <2>6. i \in Nat /\ j \in Nat
    BY <1>1, <2>1
  <2>7. l = m /\ i = j
    BY <2>2, <2>3, <2>4, <2>5, <2>6, OffsetOwner
  <2>8. Rounds * t <= Rounds * u
    BY <1>1, <2>3, MulMono
  <2>9. Rounds * t \in Int /\ Rounds * u \in Int
    BY <1>1, <2>3
  <2>10. QED BY <1>1, <2>1, <2>7, <2>8, <2>9
<1>5. QED BY <1>3, <1>4

(* Bounds of a quotient. *)
LEMMA DivBounds ==
  ASSUME NEW x \in Nat, NEW d \in Nat \ {0}, NEW a \in Int, x < d * a
  PROVE  x \div d \in Nat /\ x \div d < a
<1> DEFINE q == x \div d
           r == x % d
<1>1. q \in Int /\ r \in 0 .. d - 1 /\ x = d * q + r
  BY DivFacts
<1> HIDE DEF q, r
<1>2. d * q \in Int /\ d * a \in Int
  BY <1>1
<1>3. q < a
  <2>1. SUFFICES ASSUME a <= q PROVE FALSE
    BY <1>1
  <2>2. d * a <= d * q
    BY <1>1, <2>1, MulMono
  <2>3. QED BY <1>1, <1>2, <2>2
<1>4. 0 <= q
  <2>1. SUFFICES ASSUME q <= -1 PROVE FALSE
    BY <1>1
  <2>2. d * q <= d * (-1)
    BY <1>1, <2>1, MulMono
  <2>3. d * (-1) = - d
    OBVIOUS
  <2>4. QED BY <1>1, <1>2, <2>2, <2>3
<1>5. QED BY <1>1, <1>3, <1>4 DEF q

(* Every byte of a token is some lane's in some round. *)
LEMMA OffsetsCover ==
  ASSUME CopyOK, copy.kind # "batch", NEW t \in Nat, NEW o \in 0 .. copy.bytes - 1
  PROVE  \E l \in Lanes : \E i \in 0 .. Rounds - 1 : o \in Offsets(l, t, i)
<1> DEFINE H == Head(t)
           U == Unit(t)
           B == Body(t)
           P == PerTile(t)
<1>1. /\ U \in 1 .. Word /\ H \in 0 .. copy.bytes /\ H < Word
      /\ B \in Nat /\ U * B \in Nat /\ H + U * B <= copy.bytes
      /\ copy.bytes < H + U * B + U
      /\ P \in Nat /\ B <= copy.tiles * P
  BY RegionFacts
<1>2. /\ copy.bytes \in Nat \ {0} /\ copy.tiles \in Nat \ {0}
      /\ Rounds \in Nat \ {0} /\ copy.bytes <= CopyBlock * Rounds
      /\ Word \in Nat \ {0} /\ CopyBlock \in Nat \ {0}
  BY CopyFacts
<1>3. \A p \in {"head", "tail"} : \A j \in 0 .. Word - 1 :
        [part |-> p, tile |-> 0, j |-> j] \in Lanes
  BY DEF Lanes
<1>4. \A a \in 0 .. copy.tiles - 1 : \A j \in 0 .. CopyBlock - 1 :
        [part |-> "body", tile |-> a, j |-> j] \in Lanes
  BY DEF Lanes
<1>5. 0 \in 0 .. Rounds - 1
  BY <1>2
<1>6. CASE o < H
  <2> DEFINE l == [part |-> "head", tile |-> 0, j |-> o]
  <2>1. l \in Lanes
    BY <1>1, <1>2, <1>3, <1>6
  <2>2. o \in Offsets(l, t, 0)
    BY <1>6 DEF Offsets
  <2>3. QED BY <1>5, <2>1, <2>2
<1>7. CASE H + U * B <= o
  <2> DEFINE x == o - (H + U * B)
             l == [part |-> "tail", tile |-> 0, j |-> x]
  <2>1. x \in 0 .. Word - 1 /\ o = H + U * B + x
    BY <1>1, <1>2, <1>7
  <2>2. l \in Lanes
    BY <2>1, <1>3
  <2>3. B * U = U * B
    BY <1>1
  <2> HIDE DEF x
  <2>4. o \in Offsets(l, t, 0)
    <3>1. o = H + B * U + l.j /\ o < copy.bytes
      BY <2>1, <2>3, <1>2
    <3>2. QED BY ONLY <3>1 DEF Offsets
  <2>5. QED BY <1>5, <2>2, <2>4
<1>8. CASE H <= o /\ o < H + U * B
  <2> DEFINE w == o - H
             e == w \div U
             x == w % U
             a == e \div P
             r == e % P
             i == r \div CopyBlock
             j == r % CopyBlock
             l == [part |-> "body", tile |-> a, j |-> j]
  <2>1. w \in Nat /\ w < U * B /\ o = H + w
    BY <1>1, <1>2, <1>8
  <2> HIDE DEF w
  <2>2. U \in Nat \ {0}
    BY <1>1
  <2>3. e \in Nat /\ e < B
    BY <2>1, <2>2, <1>1, DivBounds
  <2>4. x \in 0 .. U - 1 /\ w = U * e + x
    <3>1. w \in Int
      BY <2>1
    <3>2. QED BY ONLY <3>1, <2>2, DivFacts
  <2> HIDE DEF e, x
  <2>5. P * copy.tiles = copy.tiles * P /\ copy.tiles * P \in Nat
    BY <1>1, <1>2
  <2>6. P \in Nat \ {0}
    <3>1. SUFFICES ASSUME P = 0 PROVE FALSE
      BY <1>1
    <3>2. copy.tiles * 0 = 0
      BY <1>2
    <3>3. QED BY <1>1, <2>3, <3>1, <3>2
  <2>7. a \in Nat /\ a < copy.tiles
    <3>1. e < P * copy.tiles
      BY <1>1, <2>3, <2>5
    <3>2. QED BY <3>1, <2>3, <2>6, <1>2, DivBounds
  <2>8. r \in 0 .. P - 1 /\ e = P * a + r
    <3>1. e \in Int
      BY <2>3
    <3>2. QED BY ONLY <3>1, <2>6, DivFacts
  <2> HIDE DEF a, r
  <2>9. P * a \in Nat /\ r \in Nat /\ r <= e
    BY <2>3, <2>6, <2>7, <2>8
  <2>10. B <= U * B
    <3>1. B * 1 <= B * U
      BY <1>1, <2>2, MulMono
    <3>2. B * 1 = B /\ B * U = U * B
      BY <1>1
    <3>3. QED BY <3>1, <3>2
  <2>11. r < CopyBlock * Rounds
    <3>1. CopyBlock * Rounds \in Nat
      BY <1>2
    <3>2. QED BY <3>1, <2>3, <2>9, <2>10, <1>1, <1>2
  <2>12. i \in Nat /\ i < Rounds
    <3>1. r \in Nat /\ CopyBlock \in Nat \ {0} /\ Rounds \in Int
      BY <2>9, <1>2
    <3>2. QED BY ONLY <3>1, <2>11, DivBounds
  <2>13. j \in 0 .. CopyBlock - 1 /\ r = CopyBlock * i + j
    <3>1. r \in Int /\ CopyBlock \in Nat \ {0}
      BY <2>9, <1>2
    <3>2. QED BY ONLY <3>1, DivFacts
  <2> HIDE DEF i, j
  <2>14. l \in Lanes
    BY <2>7, <2>13, <1>2, <1>4
  <2>15. /\ a * P = P * a /\ i * CopyBlock = CopyBlock * i
         /\ CopyBlock * i \in Nat /\ e * U = U * e /\ U * e \in Nat
         /\ (a + 1) * P = P * a + P
    BY <2>2, <2>3, <2>6, <2>7, <2>12, <1>2
  <2>16. e = a * P + i * CopyBlock + j
    BY <2>8, <2>9, <2>13, <2>15, <1>2
  <2>17. e < Least((a + 1) * P, B)
    BY <2>3, <2>6, <2>8, <2>9, <2>15 DEF Least
  <2>18. o \in H + e * U .. H + e * U + U - 1
    BY <2>1, <2>2, <2>4, <2>15, <1>1, <1>2
  <2>19. o \in Offsets(l, t, i)
    BY <2>16, <2>17, <2>18 DEF Offsets
  <2>20. i \in 0 .. Rounds - 1
    BY <2>12, <1>2
  <2>21. QED BY <2>14, <2>19, <2>20
<1>9. QED BY <1>1, <1>2, <1>6, <1>7, <1>8

(* Every cell that moves is in a vector of some lane. *)
LEMMA Coverage ==
  ASSUME CopyOK, NEW c \in Cells, Moving(c)
  PROVE  \E l \in Lanes : \E n \in 0 .. Total - 1 : c \in Vector(l, n)
<1>1. /\ copy.bias \in Nat /\ copy.width \in Nat /\ Rounds \in Nat \ {0}
      /\ CopyBlock \in Nat \ {0} /\ copy.tiles \in Nat \ {0} /\ Total \in Nat
      /\ copy.bias < copy.width
  BY CopyFacts
<1>2. /\ c = <<c[1], c[2]>> /\ c[1] \in Nat /\ c[1] < copy.width - copy.bias
      /\ c[2] \in 0 .. copy.bytes - 1
  BY <1>1 DEF Cells, Moving
<1>3. CASE copy.kind = "batch"
  <2> DEFINE n == c[1] \div CopyBlock
             j == c[1] % CopyBlock
             l == [part |-> "body", tile |-> 0, j |-> j]
             w == copy.width - copy.bias
  <2>1. w \in Nat
    BY <1>1
  <2>2. Total = Cdiv(w, CopyBlock) /\ Cdiv(w, CopyBlock) \in Nat
        /\ w <= CopyBlock * Cdiv(w, CopyBlock)
    BY <1>1, <1>3, <2>1, CdivCovers DEF Total
  <2> HIDE DEF w
  <2>3. c[1] < CopyBlock * Total
    <3>1. CopyBlock * Total \in Nat
      BY <1>1
    <3>2. QED BY <3>1, <1>2, <2>1, <2>2 DEF w
  <2>4. n \in Nat /\ n < Total
    BY <1>1, <1>2, <2>3, DivBounds
  <2>5. j \in 0 .. CopyBlock - 1 /\ c[1] = CopyBlock * n + j
    BY <1>1, <1>2, DivFacts
  <2> HIDE DEF n, j
  <2>6. l \in Lanes
    BY <1>1, <2>5 DEF Lanes
  <2>7. CopyBlock * n = n * CopyBlock
    BY <1>1, <2>4
  <2>8. c \in Vector(l, n)
    BY <1>3, <2>5, <2>7 DEF Vector
  <2>9. QED BY <1>1, <2>4, <2>6, <2>8
<1>4. CASE copy.kind # "batch"
  <2>1. PICK l \in Lanes : \E i \in 0 .. Rounds - 1 : c[2] \in Offsets(l, c[1], i)
    BY <1>2, <1>4, OffsetsCover
  <2>2. PICK i \in 0 .. Rounds - 1 : c[2] \in Offsets(l, c[1], i)
    BY <2>1
  <2> DEFINE t == c[1]
             n == Rounds * t + i
  <2>3. n \div Rounds = t /\ n % Rounds = i
    BY <1>1, <1>2, DivOfSum
  <2>4. c \in Vector(l, n)
    BY <1>2, <1>4, <2>2, <2>3 DEF Vector
  <2>5. n \in 0 .. Total - 1
    <3>1. Rounds * (t + 1) <= Rounds * (copy.width - copy.bias)
      <4>1. t + 1 \in Int /\ copy.width - copy.bias \in Int
            /\ t + 1 <= copy.width - copy.bias
        BY <1>1, <1>2
      <4>2. QED BY <4>1, <1>1, MulMono
    <3>2. /\ Rounds * (t + 1) = Rounds * t + Rounds /\ Rounds * t \in Nat
          /\ Rounds * (copy.width - copy.bias) = (copy.width - copy.bias) * Rounds
      BY <1>1, <1>2
    <3>3. Total = (copy.width - copy.bias) * Rounds
      BY <1>4, CopyFacts
    <3>4. QED BY <3>1, <3>2, <3>3, <1>1
  <2>6. QED BY <2>4, <2>5
<1>5. QED BY <1>3, <1>4

-----------------------------------------------------------------------------
(* The steps. *)

(* What is about to be loaded is still there. *)
LEMMA LoadedIntact ==
  ASSUME IInv, copy.inplace, NEW l \in Lanes, pc[l] = "load",
         NEW n \in at[l] .. Total - 1, Loads(l, n), NEW c \in Vector(l, n)
  PROVE  mem[Source(c)] = Source(c)
<1>1. /\ CopyOK /\ DOMAIN mem = Cells /\ at \in [Lanes -> 0 .. Total]
      /\ copy.bias \in Nat /\ Total \in Nat
  BY CopyFacts DEF IInv, TypeOK
<1>2. n \in 0 .. Total - 1
  BY <1>1
<1>3. c \in Cells /\ Moving(c) /\ Source(c) \in Cells
  BY <1>1, <1>2, VectorFacts
<1>4. CASE mem[Source(c)] = Original(Source(c))
  BY <1>4 DEF Original
<1>5. CASE \E m \in Lanes : \E k \in 0 .. at[m] - 1 : Source(c) \in Vector(m, k)
  <2>0. PICK m \in Lanes : \E k \in 0 .. at[m] - 1 : Source(c) \in Vector(m, k)
    BY <1>5
  <2>1. PICK k \in 0 .. at[m] - 1 : Source(c) \in Vector(m, k)
    BY <2>0
  <2>2. k \in 0 .. Total - 1 /\ k < at[m]
    BY <1>1, <2>1
  <2>3. CASE copy.bias = 0
    <3>1. c = <<c[1], c[2]>> /\ c[1] \in Nat
      BY <1>1, <1>3, CopyFacts DEF Cells
    <3>2. Source(c) = c
      BY <2>3, <3>1 DEF Source
    <3>3. mem[Source(c)] = Moved(Source(c))
      BY <2>1 DEF IInv, StoredExact
    <3>4. QED BY <1>3, <3>2, <3>3 DEF Moved
  <2>4. CASE copy.bias > 0
    <3>1. n <= k /\ (copy.kind # "batch" => l = m)
      BY <1>1, <1>2, <2>1, <2>2, <2>4, SourceOwner
    <3>2. at[l] <= n /\ at[l] \in Int /\ at[m] \in Int /\ n \in Int /\ k \in Int
      BY <1>1, <2>2
    <3>3. copy.kind = "batch"
      BY <2>2, <3>1, <3>2
    <3>4. Barrier
      <4>1. c[1] \in Nat /\ Source(c)[1] = c[1] + copy.bias /\ copy.width \in Nat
        BY <1>1, <1>3, CopyFacts DEF Cells, Source
      <4>2. Source(c)[1] + copy.bias < copy.width
        BY <1>1, <2>1, <2>2, VectorFacts DEF Moving
      <4>3. copy.width - copy.bias > copy.bias
        BY <1>1, <4>1, <4>2
      <4>4. QED BY <2>4, <3>3, <4>3 DEF Barrier
    <3>5. at[l] < at[m]
      BY <2>2, <3>1, <3>2
    <3>6. QED BY <3>4, <3>5 DEF IInv, InStep
  <2>5. QED BY <1>1, <2>3, <2>4
<1>6. QED BY <1>3, <1>4, <1>5 DEF IInv, RestOriginal

LEMMA LoadInv ==
  ASSUME IInv, NEW l \in Lanes, Load(l)
  PROVE  IInv'
<1>1. PICK n \in at[l] .. Total - 1 :
        /\ Loads(l, n)
        /\ at' = [at EXCEPT ![l] = n]
        /\ reg' = [reg EXCEPT ![l] =
                     [c \in Vector(l, n) |->
                        IF copy.inplace THEN mem[Source(c)] ELSE Source(c)]]
  BY DEF Load
<1>2. /\ pc[l] = "load" /\ pc' = [pc EXCEPT ![l] = "store"]
      /\ copy' = copy /\ mem' = mem
  BY DEF Load
<1>3. /\ CopyOK /\ DOMAIN mem = Cells /\ at \in [Lanes -> 0 .. Total]
      /\ pc \in [Lanes -> {"load", "store"}] /\ DOMAIN reg = Lanes
      /\ Total \in Nat
  BY CopyFacts DEF IInv, TypeOK
<1>4. n \in 0 .. Total - 1 /\ n \in Int /\ at[l] <= n /\ at[l] \in Nat
  BY <1>3
<1>5. /\ Lanes' = Lanes /\ Total' = Total /\ Cells' = Cells /\ CopyOK' = CopyOK
      /\ Barrier' = Barrier
      /\ \A m, k : Vector(m, k)' = Vector(m, k)
      /\ \A c : Moved(c)' = Moved(c) /\ Original(c)' = Original(c)
  BY <1>2 DEF Lanes, Total, Rounds, Cells, CopyOK, Barrier, Vector, Moved, Moving,
     Source, Original, Offsets, Head, Body, Unit, PerTile, Fast, SrcAddr, DstAddr
<1>6. TypeOK'
  BY <1>1, <1>2, <1>3, <1>4, <1>5 DEF IInv, TypeOK
<1>7. reg'[l] = [c \in Vector(l, n) |-> Moved(c)]
  <2>1. ASSUME NEW c \in Vector(l, n)
        PROVE  (IF copy.inplace THEN mem[Source(c)] ELSE Source(c)) = Moved(c)
    <3>1. Moving(c)
      BY <1>3, <1>4, VectorFacts
    <3>2. copy.inplace => mem[Source(c)] = Source(c)
      BY <1>1, <1>2, LoadedIntact
    <3>3. QED BY <3>1, <3>2 DEF Moved
  <2>2. reg'[l] = [c \in Vector(l, n) |->
                     IF copy.inplace THEN mem[Source(c)] ELSE Source(c)]
    BY <1>1, <1>3
  <2>3. QED BY <2>1, <2>2
<1>8. \A k \in at[l] .. n - 1 : Vector(l, k) = {}
  BY <1>1, <1>4 DEF Loads
<1>9. StoredExact'
  <2>1. ASSUME NEW m \in Lanes
        PROVE  /\ \A k \in 0 .. at'[m] - 1 : \A c \in Vector(m, k) : mem[c] = Moved(c)
               /\ pc'[m] = "store" => reg'[m] = [c \in Vector(m, at'[m]) |-> Moved(c)]
    <3>1. CASE m = l
      <4>1. at'[l] = n
        BY <1>1, <1>3
      <4>2. \A k \in 0 .. n - 1 : k \in 0 .. at[l] - 1 \/ k \in at[l] .. n - 1
        BY <1>4
      <4>3. \A k \in 0 .. n - 1 : \A c \in Vector(l, k) : mem[c] = Moved(c)
        BY <1>8, <4>2 DEF IInv, StoredExact
      <4>4. QED BY <1>7, <3>1, <4>1, <4>3
    <3>2. CASE m # l
      <4>1. at'[m] = at[m] /\ pc'[m] = pc[m] /\ reg'[m] = reg[m]
        BY <1>1, <1>2, <1>3, <3>2
      <4>2. QED BY <4>1 DEF IInv, StoredExact
    <3>3. QED BY <3>1, <3>2
  <2>2. QED BY <2>1, <1>2, <1>5 DEF StoredExact
<1>10. RestOriginal'
  <2>1. ASSUME NEW m \in Lanes, NEW k \in 0 .. at[m] - 1
        PROVE  k \in 0 .. at'[m] - 1
    <3>1. at'[m] \in Int /\ at[m] \in Int /\ at[m] <= at'[m]
      BY <1>1, <1>3, <1>4
    <3>2. QED BY <3>1
  <2>2. ASSUME NEW c \in Cells
        PROVE  \/ mem[c] = Original(c)
               \/ \E m \in Lanes : \E k \in 0 .. at'[m] - 1 : c \in Vector(m, k)
    BY <2>1 DEF IInv, RestOriginal
  <2>3. QED BY <2>2, <1>2, <1>5 DEF RestOriginal
<1>11. InStep'
  <2>1. SUFFICES ASSUME Barrier, NEW a \in Lanes, NEW b \in Lanes, at'[a] < at'[b]
                 PROVE  at'[b] = at'[a] + 1 /\ pc'[a] = "store"
    BY <1>5 DEF InStep
  <2>2. at' = at
    BY <1>1, <1>3, <2>1 DEF Loads
  <2>3. QED BY <1>2, <1>3, <2>1, <2>2 DEF IInv, InStep
<1>12. QED BY <1>6, <1>9, <1>10, <1>11 DEF IInv

LEMMA StoreInv ==
  ASSUME IInv, NEW l \in Lanes, Store(l)
  PROVE  IInv'
<1>1. /\ pc[l] = "store" /\ Passes(l)
      /\ mem' = [c \in Cells |-> IF c \in DOMAIN reg[l] THEN reg[l][c] ELSE mem[c]]
      /\ at' = [at EXCEPT ![l] = @ + 1]
      /\ pc' = [pc EXCEPT ![l] = "load"]
      /\ reg' = [reg EXCEPT ![l] = <<>>]
      /\ copy' = copy
  BY DEF Store
<1>2. /\ CopyOK /\ DOMAIN mem = Cells /\ at \in [Lanes -> 0 .. Total]
      /\ pc \in [Lanes -> {"load", "store"}] /\ DOMAIN reg = Lanes
      /\ Total \in Nat
  BY CopyFacts DEF IInv, TypeOK
<1>3. at[l] \in Nat /\ at[l] < Total
  BY <1>1, <1>2 DEF IInv, TypeOK
<1>4. /\ Lanes' = Lanes /\ Total' = Total /\ Cells' = Cells /\ CopyOK' = CopyOK
      /\ Barrier' = Barrier
      /\ \A m, k : Vector(m, k)' = Vector(m, k)
      /\ \A c : Moved(c)' = Moved(c) /\ Original(c)' = Original(c)
  BY <1>1 DEF Lanes, Total, Rounds, Cells, CopyOK, Barrier, Vector, Moved, Moving,
     Source, Original, Offsets, Head, Body, Unit, PerTile, Fast, SrcAddr, DstAddr
<1>5. /\ at' \in [Lanes -> 0 .. Total] /\ at'[l] = at[l] + 1
      /\ \A m \in Lanes : m # l => at'[m] = at[m] /\ pc'[m] = pc[m] /\ reg'[m] = reg[m]
      /\ pc'[l] = "load" /\ reg'[l] = <<>>
  BY <1>1, <1>2, <1>3
<1>6. TypeOK'
  <2>1. DOMAIN <<>> = {}
    OBVIOUS
  <2>2. \A m \in Lanes : IF pc'[m] = "store" THEN at'[m] < Total ELSE DOMAIN reg'[m] = {}
    BY <1>5, <2>1 DEF IInv, TypeOK
  <2>3. pc' \in [Lanes -> {"load", "store"}] /\ DOMAIN reg' = Lanes /\ DOMAIN mem' = Cells
    BY <1>1, <1>2
  <2>4. QED BY <1>2, <1>4, <1>5, <2>2, <2>3 DEF TypeOK
<1>7. reg[l] = [c \in Vector(l, at[l]) |-> Moved(c)]
  BY <1>1 DEF IInv, StoredExact
<1>8. \A c \in Cells : mem'[c] = IF c \in Vector(l, at[l]) THEN Moved(c) ELSE mem[c]
  BY <1>1, <1>7
<1>9. StoredExact'
  <2>1. ASSUME NEW m \in Lanes
        PROVE  /\ \A k \in 0 .. at'[m] - 1 : \A c \in Vector(m, k) : mem'[c] = Moved(c)
               /\ pc'[m] = "store" => reg'[m] = [c \in Vector(m, at'[m]) |-> Moved(c)]
    <3>1. ASSUME NEW k \in 0 .. at'[m] - 1, NEW c \in Vector(m, k)
          PROVE  mem'[c] = Moved(c)
      <4>1. k \in 0 .. Total - 1
        BY <1>2, <1>5
      <4>2. c \in Cells
        BY <1>2, <4>1, VectorFacts
      <4>3. CASE k \in 0 .. at[m] - 1
        <5>1. mem[c] = Moved(c)
          BY <4>3 DEF IInv, StoredExact
        <5>2. QED BY <1>8, <4>2, <5>1
      <4>4. CASE k \notin 0 .. at[m] - 1
        <5>1. m = l /\ k = at[l]
          BY <1>2, <1>3, <1>5, <4>4
        <5>2. QED BY <1>8, <4>2, <5>1
      <4>5. QED BY <4>3, <4>4
    <3>2. pc'[m] = "store" => reg'[m] = [c \in Vector(m, at'[m]) |-> Moved(c)]
      BY <1>5 DEF IInv, StoredExact
    <3>3. QED BY <3>1, <3>2
  <2>2. QED BY <2>1, <1>4 DEF StoredExact
<1>10. RestOriginal'
  <2>1. ASSUME NEW c \in Cells
        PROVE  \/ mem'[c] = Original(c)
               \/ \E m \in Lanes : \E k \in 0 .. at'[m] - 1 : c \in Vector(m, k)
    <3>1. CASE c \in Vector(l, at[l])
      <4>1. at[l] \in 0 .. at'[l] - 1
        BY <1>3, <1>5
      <4>2. QED BY <3>1, <4>1
    <3>2. CASE c \notin Vector(l, at[l])
      <4>1. mem'[c] = mem[c]
        BY <1>8, <3>2
      <4>2. ASSUME NEW m \in Lanes, NEW k \in 0 .. at[m] - 1
            PROVE  k \in 0 .. at'[m] - 1
        <5>1. at'[m] \in Int /\ at[m] \in Int /\ at[m] <= at'[m]
          BY <1>2, <1>3, <1>5
        <5>2. QED BY <5>1
      <4>3. QED BY <4>1, <4>2 DEF IInv, RestOriginal
    <3>3. QED BY <3>1, <3>2
  <2>2. QED BY <2>1, <1>4 DEF RestOriginal
<1>11. InStep'
  <2>1. SUFFICES ASSUME Barrier, NEW a \in Lanes, NEW b \in Lanes, at'[a] < at'[b]
                 PROVE  at'[b] = at'[a] + 1 /\ pc'[a] = "store"
    BY <1>4 DEF InStep
  <2>2. /\ \A m \in Lanes : at[m] > at[l] \/ (at[m] = at[l] /\ pc[m] = "store")
        /\ at[a] < at[b] => at[b] = at[a] + 1 /\ pc[a] = "store"
        /\ at[a] \in Int /\ at[b] \in Int
    BY <1>1, <1>2, <2>1 DEF Passes, IInv, InStep
  <2>3. CASE a = l
    BY <1>3, <1>5, <2>1, <2>2, <2>3
  <2>4. CASE a # l /\ b = l
    BY <1>3, <1>5, <2>1, <2>2, <2>4
  <2>5. CASE a # l /\ b # l
    BY <1>5, <2>1, <2>2, <2>5
  <2>6. QED BY <2>3, <2>4, <2>5
<1>12. QED BY <1>6, <1>9, <1>10, <1>11 DEF IInv

-----------------------------------------------------------------------------
(* The theorems. *)

(* What has been stored is right, what is loaded is right, and the rest is  *)
(* as it was, in every interleaving of the lanes.                           *)
THEOREM Invariance == Spec => []IInv
<1>1. Init => IInv
  <2>1. SUFFICES ASSUME Init PROVE IInv
    OBVIOUS
  <2>2. CopyOK
    BY <2>1 DEF Init, CopyOK
  <2>3. Total \in Nat
    BY <2>2, CopyFacts
  <2>4. TypeOK
    <3>1. DOMAIN <<>> = {}
      OBVIOUS
    <3>2. QED BY <2>1, <2>2, <2>3, <3>1 DEF Init, TypeOK
  <2>5. StoredExact /\ RestOriginal /\ InStep
    <3>1. \A l \in Lanes : at[l] = 0 /\ pc[l] = "load"
      BY <2>1 DEF Init
    <3>2. QED BY <2>1, <3>1 DEF Init, StoredExact, RestOriginal, InStep
  <2>6. QED BY <2>4, <2>5 DEF IInv
<1>2. IInv /\ [Next]_vars => IInv'
  <2>1. SUFFICES ASSUME IInv, [Next]_vars PROVE IInv'
    OBVIOUS
  <2>2. CASE UNCHANGED vars
    <3>1. copy' = copy /\ mem' = mem /\ at' = at /\ pc' = pc /\ reg' = reg
      BY <2>2 DEF vars
    <3>2. /\ Lanes' = Lanes /\ Total' = Total /\ Cells' = Cells /\ CopyOK' = CopyOK
          /\ Barrier' = Barrier
          /\ \A m, k : Vector(m, k)' = Vector(m, k)
          /\ \A c : Moved(c)' = Moved(c) /\ Original(c)' = Original(c)
      BY <3>1 DEF Lanes, Total, Rounds, Cells, CopyOK, Barrier, Vector, Moved, Moving,
         Source, Original, Offsets, Head, Body, Unit, PerTile, Fast, SrcAddr, DstAddr
    <3>3. TypeOK' /\ InStep'
      BY <2>1, <3>1, <3>2 DEF IInv, TypeOK, InStep
    <3>4. StoredExact'
      BY <2>1, <3>1, <3>2 DEF IInv, StoredExact
    <3>5. RestOriginal'
      BY <2>1, <3>1, <3>2 DEF IInv, RestOriginal
    <3>6. QED BY <3>3, <3>4, <3>5 DEF IInv
  <2>3. CASE \E l \in Lanes : Load(l) \/ Store(l)
    BY <2>1, <2>3, LoadInv, StoreInv
  <2>4. QED BY <2>1, <2>2, <2>3 DEF Next, Return
<1>3. QED BY <1>1, <1>2, PTL DEF Spec

(* No lane loads what another has written over, in place, with no barrier   *)
(* but that of the scalar path.                                             *)
THEOREM SourcesIntactTheorem == Spec => []SourcesIntact
<1>1. IInv => SourcesIntact
  BY LoadedIntact DEF SourcesIntact
<1>2. QED BY <1>1, Invariance, PTL

(* When the lanes are done every cell that moves has the bytes of its       *)
(* source and every other its own.                                          *)
THEOREM MovedTheorem == Spec => []MovedAtEnd
<1>1. IInv => MovedAtEnd
  <2>1. SUFFICES ASSUME IInv, Finished, NEW c \in Cells PROVE mem[c] = Moved(c)
    BY DEF MovedAtEnd
  <2>2. CopyOK /\ at \in [Lanes -> 0 .. Total] /\ Total \in Nat
    BY <2>1, CopyFacts DEF IInv, TypeOK
  <2>3. CASE Moving(c)
    <3>1. PICK l \in Lanes, n \in 0 .. Total - 1 : c \in Vector(l, n)
      BY <2>2, <2>3, Coverage
    <3>2. n \in 0 .. at[l] - 1
      <4>1. n \notin at[l] .. Total - 1
        BY <2>1, <3>1 DEF Finished
      <4>2. at[l] \in Int /\ n \in Nat /\ n <= Total - 1
        BY <2>2
      <4>3. QED BY <2>2, <4>1, <4>2
    <3>3. QED BY <2>1, <3>1, <3>2 DEF IInv, StoredExact
  <2>4. CASE ~ Moving(c)
    <3>1. ASSUME NEW l \in Lanes, NEW n \in 0 .. at[l] - 1, c \in Vector(l, n)
          PROVE  FALSE
      <4>1. n \in 0 .. Total - 1
        BY <2>2
      <4>2. QED BY <2>2, <2>4, <3>1, <4>1, VectorFacts
    <3>2. mem[c] = Original(c)
      BY <2>1, <3>1 DEF IInv, RestOriginal
    <3>3. QED BY <2>4, <3>2 DEF Moved
  <2>5. QED BY <2>3, <2>4
<1>2. QED BY <1>1, Invariance, PTL

(* Whole words are loaded and stored at word boundaries only.               *)
THEOREM AlignedTheorem == Spec => []WordsAligned
<1>1. IInv => WordsAligned
  <2> DEFINE t(l) == at[l] \div Rounds
             e(l) == WordOf(l, t(l), at[l] % Rounds)
             o(l) == Head(t(l)) + e(l) * Unit(t(l))
  <2>1. SUFFICES ASSUME IInv, NEW l \in Lanes, l.part = "body", copy.kind # "batch",
                        DOMAIN reg[l] # {}
                 PROVE  /\ (DstAddr(t(l)) + o(l)) % Unit(t(l)) = 0
                        /\ (SrcAddr(t(l)) + o(l)) % Unit(t(l)) = 0
    BY DEF WordsAligned, WordOf
  <2>2. /\ CopyOK /\ at[l] \in Nat /\ at[l] \in 0 .. Total - 1 /\ pc[l] = "store"
        /\ copy.bias \in Nat /\ copy.bytes \in Nat \ {0} /\ copy.src \in Nat
        /\ copy.dst \in Nat /\ Rounds \in Nat \ {0} /\ Word \in Nat \ {0}
        /\ CopyBlock \in Nat \ {0}
    BY <2>1, CopyFacts DEF IInv, TypeOK
  <2> DEFINE tt == t(l)
             i == at[l] % Rounds
             H == Head(tt)
             U == Unit(tt)
             w == e(l)
             D == DstAddr(tt)
             S == SrcAddr(tt)
  <2>3. PICK c \in Vector(l, at[l]) : TRUE
    BY <2>1, <2>2 DEF IInv, StoredExact
  <2>4. c[1] = tt /\ c[2] \in Offsets(l, tt, i) /\ c \in Cells
    <3>1. c \in Cells
      BY <2>2, VectorFacts
    <3>2. QED BY <3>1, <2>1 DEF Vector
  <2>5. tt \in Nat /\ i \in Nat
    <3>1. tt \in Nat
      BY <2>2, <2>4 DEF Cells
    <3>2. i \in 0 .. Rounds - 1
      <4>1. at[l] \in Int
        BY <2>2
      <4>2. QED BY ONLY <4>1, <2>2, DivFacts DEF i
    <3>3. QED BY <2>2, <3>1, <3>2
  <2> HIDE DEF tt, i
  <2>6. w \in Nat /\ H \in Nat /\ H <= c[2] /\ c[2] < copy.bytes /\ c[2] \in Int
    <3>1. /\ c[2] \in 0 .. copy.bytes - 1
          /\ WordOf(l, tt, i) \in 0 .. Body(tt) - 1 /\ Head(tt) <= c[2]
      BY <2>1, <2>2, <2>4, <2>5, OffsetsFacts
    <3>2. Body(tt) \in Nat /\ Head(tt) \in 0 .. copy.bytes
      BY <2>2, <2>5, RegionFacts
    <3>3. w = WordOf(l, tt, i)
      BY DEF tt, i
    <3>4. QED BY <2>2, <3>1, <3>2, <3>3
  <2>7. D \in Int /\ S \in Int
    BY <2>2, <2>5 DEF DstAddr, SrcAddr
  <2>8. o(l) = H + w * U
    BY DEF tt
  <2>9. CASE ~ Fast(tt)
    <3>1. U = 1
      BY <2>9 DEF Unit
    <3>2. \A x \in Int : x % 1 = 0
      BY DivFacts
    <3>3. D + (H + w * U) \in Int /\ S + (H + w * U) \in Int
      BY <2>6, <2>7, <3>1
    <3>4. QED BY <2>8, <3>1, <3>2, <3>3 DEF tt
  <2>10. CASE Fast(tt)
    <3>1. U = Word /\ (S - D) % Word = 0 /\ H = Least((- D) % Word, copy.bytes)
      BY <2>10 DEF Unit, Fast, Head
    <3>2. H = (- D) % Word
      <4>1. - D \in Int
        BY <2>7
      <4>2. (- D) % Word \in 0 .. Word - 1
        BY ONLY <4>1, <2>2, DivFacts
      <4>3. QED BY <2>2, <2>6, <3>1, <4>2 DEF Least
    <3>3. (D + H) % Word = 0
      BY <2>2, <2>7, <3>2, HeadLifts
    <3> DEFINE p == (D + H) \div Word
               q == (S - D) \div Word
    <3>4. p \in Int /\ D + H = Word * p + 0
      <4>1. D + H \in Int
        BY <2>6, <2>7
      <4>2. QED BY ONLY <4>1, <3>3, <2>2, DivFacts
    <3>5. q \in Int /\ S - D = Word * q + 0
      <4>1. S - D \in Int
        BY <2>7
      <4>2. QED BY ONLY <4>1, <3>1, <2>2, DivFacts
    <3> HIDE DEF p, q, D, S, H, U, w
    <3>6. /\ Word * (p + w) = Word * p + w * Word
          /\ Word * (p + w + q) = Word * p + w * Word + Word * q
          /\ Word * p \in Int /\ w * Word \in Int /\ Word * q \in Int
      BY <2>2, <2>6, <3>4, <3>5
    <3>7. D + (H + w * U) = Word * (p + w) + 0
      BY <2>6, <2>7, <3>1, <3>4, <3>6
    <3>8. S + (H + w * U) = Word * (p + w + q) + 0
      BY <2>6, <2>7, <3>1, <3>4, <3>5, <3>6
    <3>9. p + w \in Int /\ p + w + q \in Int /\ 0 \in 0 .. Word - 1
      BY <2>2, <2>6, <3>4, <3>5
    <3>10. (Word * (p + w) + 0) % Word = 0 /\ (Word * (p + w + q) + 0) % Word = 0
      BY ONLY <3>9, <2>2, DivOfSum
    <3>11. QED BY <2>8, <3>1, <3>7, <3>8, <3>10 DEF D, S, H, U, w, tt
  <2>11. QED BY <2>9, <2>10
<1>2. QED BY <1>1, Invariance, PTL
=============================================================================
