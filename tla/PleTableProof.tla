---------------------------- MODULE PleTableProof ----------------------------
(***************************************************************************)
(* Proofs about PleTable for any table size, split, chunk, length of a     *)
(* gather and order of the threads.                                        *)
(***************************************************************************)
EXTENDS PleTable, FiniteSetTheorems, TLAPS

(* Every non-empty set of naturals has a least element: the intervals from  *)
(* 0 to its members, ordered by inclusion, have a minimal one.              *)
LEMMA LeastNumber ==
  ASSUME NEW S \in SUBSET Nat, S # {}
  PROVE  \E m \in S : \A n \in S : m <= n
<1>1. PICK b \in S : TRUE
  OBVIOUS
<1> DEFINE R == StrictSubsetOrdering(0 .. b)
           F == FiniteSubsetsOf(0 .. b)
           T == {U \in SUBSET (0 .. b) : \E m \in S : m <= b /\ U = 0 .. m}
<1>2. IsWellFoundedOn(R, F)
  BY FS_StrictSubsetOrderingWellFounded
<1>3. T \subseteq F
  <2>1. IsFiniteSet(0 .. b)
    BY <1>1, FS_Interval
  <2>2. F = SUBSET (0 .. b)
    BY <2>1, FS_FiniteSubsetsOfFinite
  <2> QED BY <2>2
<1>4. T # {}
  BY <1>1
<1>5. \E x \in T : \A y \in T : ~ (<<y, x>> \in R)
  <2> HIDE DEF R, F, T
  <2> QED BY <1>2, <1>3, <1>4, WFMin
<1>6. PICK x \in T : \A y \in T : ~ (<<y, x>> \in R)
  BY <1>5
<1>7. PICK m \in S : m <= b /\ x = 0 .. m
  BY <1>6
<1>8. ASSUME NEW n \in S PROVE m <= n
  <2> SUFFICES ASSUME n < m PROVE FALSE
    BY <1>7
  <2>1. 0 .. n \in T
    BY <1>7
  <2>2. m \in 0 .. m /\ m \notin 0 .. n /\ 0 .. n \subseteq 0 .. m
    BY <1>7
  <2>3. <<0 .. n, x>> \in R
    BY <2>1, <2>2, <1>7, <1>6 DEF StrictSubsetOrdering
  <2> QED BY <2>1, <2>3, <1>6
<1> QED BY <1>7, <1>8

(* And every non-empty set of numbers with an upper bound a greatest. *)
LEMMA GreatestNumber ==
  ASSUME NEW S \in SUBSET Int, S # {}, NEW b \in Int, \A x \in S : x <= b
  PROVE  \E m \in S : \A n \in S : n <= m
<1> DEFINE D == {b - x : x \in S}
<1>1. D \in SUBSET Nat /\ D # {}
  <2>1. \A x \in S : b - x \in Nat
    OBVIOUS
  <2>2. \A e \in D : e \in Nat
    BY <2>1
  <2>3. PICK x \in S : TRUE
    OBVIOUS
  <2>4. b - x \in D
    OBVIOUS
  <2> HIDE DEF D
  <2> QED BY <2>2, <2>4
<1>2. PICK d \in D : \A e \in D : d <= e
  <2> HIDE DEF D
  <2> QED BY <1>1, LeastNumber
<1>3. PICK m \in S : d = b - m
  BY <1>2
<1>4. \A n \in S : n <= m
  <2> TAKE n \in S
  <2>1. b - n \in D
    OBVIOUS
  <2>2. d <= b - n
    <3> HIDE DEF D
    <3> QED BY <2>1, <1>2
  <2> QED BY <2>2, <1>3
<1> QED BY <1>4

(* Bounded sequences, as the functions they are. *)
LEMMA UpToIsSeq ==
  ASSUME NEW S, NEW s \in UpTo(S)
  PROVE  s \in Seq(S) /\ Len(s) \in 0 .. MaxIds /\ s \in [1 .. Len(s) -> S]
<1>1. PICK n \in 0 .. MaxIds : s \in [1 .. n -> S]
  BY DEF UpTo
<1> QED BY <1>1, TableAssumption DEF TableAssumption

LEMMA FunctionIsUpTo ==
  ASSUME NEW S, NEW n \in 0 .. MaxIds, NEW s \in [1 .. n -> S]
  PROVE  s \in UpTo(S)
BY DEF UpTo

LEMMA EmptyIsUpTo ==
  ASSUME NEW S
  PROVE  <<>> \in UpTo(S)
<1>1. 0 \in 0 .. MaxIds /\ <<>> \in [1 .. 0 -> S]
  BY TableAssumption DEF TableAssumption
<1> QED BY <1>1, FunctionIsUpTo

-----------------------------------------------------------------------------
(* Shards and rows. *)

(* What the load leaves behind: no gather before it, and then a table all   *)
(* of whose shards have the rows the vocabulary gives them.                 *)
TableExact ==
  /\ state # "serving" => pc = "idle"
  /\ state = "serving" =>
       /\ DOMAIN mm # {}
       /\ \A i \in DOMAIN mm : mm[i].rows = Expected(i)
       /\ MixedWidths \/ ServedShardsFit

LEMMA DivFacts ==
  ASSUME NEW x \in Int, NEW d \in Nat \ {0}
  PROVE  /\ x \div d \in Int
         /\ x - (x \div d) * d \in 0 .. d - 1
OBVIOUS

LEMMA ShardSize == shard_size \in Nat \ {0}
<1>1. Vocab \in Nat \ {0} /\ Parts \in Nat \ {0}
  BY TableAssumption DEF TableAssumption
<1> DEFINE x == Vocab + Parts - 1
           q == x \div Parts
<1>2. q \in Int /\ x - q * Parts \in 0 .. Parts - 1
  BY <1>1, DivFacts
<1>3. q > 0
  <2> SUFFICES ASSUME q <= 0 PROVE FALSE
    BY <1>2
  <2>1. q * Parts <= 0
    <3> HIDE DEF q
    <3> QED BY <1>1, <1>2
  <2>2. x >= Parts
    BY <1>1
  <2> HIDE DEF q
  <2> QED BY <1>1, <1>2, <2>1, <2>2
<1>4. shard_size = q
  BY DEF shard_size
<1> QED BY <1>2, <1>3, <1>4

LEMMA IdSplit ==
  ASSUME NEW id \in Int
  PROVE  /\ ShardOf(id) \in Int
         /\ LocalOf(id) \in 0 .. shard_size - 1
         /\ ShardOf(id) * shard_size + LocalOf(id) = id
<1>1. ShardOf(id) \in Int /\ id - ShardOf(id) * shard_size \in 0 .. shard_size - 1
  BY ShardSize, DivFacts DEF ShardOf
<1>2. LocalOf(id) = id - ShardOf(id) * shard_size
  BY DEF LocalOf
<1> HIDE DEF ShardOf, LocalOf
<1> QED BY <1>1, <1>2, ShardSize

(* The shards of a table that is there. *)
LEMMA ShardFacts ==
  ASSUME TypeOK, TableExact, state = "serving"
  PROVE  /\ DOMAIN mm \subseteq ShardIds /\ DOMAIN mm # {}
         /\ \A i \in DOMAIN mm : /\ mm[i].rows \in Nat /\ mm[i].rows = Expected(i)
                                /\ mm[i].fits \in BOOLEAN
<1>1. PICK S \in SUBSET ShardIds : mm \in [S -> [rows : 0 .. shard_size, fits : BOOLEAN]]
  BY DEF TypeOK
<1>2. DOMAIN mm # {} /\ \A i \in DOMAIN mm : mm[i].rows = Expected(i)
  BY DEF TableExact
<1>3. \A i \in DOMAIN mm : mm[i].rows \in 0 .. shard_size /\ mm[i].fits \in BOOLEAN
  BY <1>1
<1> QED BY <1>1, <1>2, <1>3, ShardSize

(* One past the last shard is past all of them, and one of them is the last. *)
LEMMA SlotsFacts ==
  ASSUME TypeOK, TableExact, state = "serving"
  PROVE  /\ Slots \in 1 .. Parts + 1
         /\ \A i \in DOMAIN mm : i < Slots
<1>1. DOMAIN mm \subseteq 0 .. Parts /\ DOMAIN mm # {}
  BY ShardFacts DEF ShardIds
<1>2. Parts \in Int
  BY TableAssumption DEF TableAssumption
<1>3. \E m \in DOMAIN mm : \A i \in DOMAIN mm : i <= m
  <2>1. DOMAIN mm \in SUBSET Int /\ \A i \in DOMAIN mm : i <= Parts
    BY <1>1, <1>2
  <2> QED BY <1>1, <1>2, <2>1, GreatestNumber
<1> DEFINE g == CHOOSE m \in DOMAIN mm : \A i \in DOMAIN mm : i <= m
<1>4. g \in DOMAIN mm /\ \A i \in DOMAIN mm : i <= g
  BY <1>3
<1>5. Slots = 1 + g
  BY DEF Slots
<1> HIDE DEF g
<1> QED BY <1>1, <1>2, <1>4, <1>5

(* An id can be read when it is a row of the vocabulary whose shard is      *)
(* there, and only then; what is read is then that row, unless the shard    *)
(* has another width.                                                       *)
LEMMA ReadsExact ==
  ASSUME TypeOK, TableExact, state = "serving", NEW id \in Int
  PROVE  /\ CanRead(id) <=> ShardOf(id) \in DOMAIN mm /\ id \in 0 .. Vocab - 1
         /\ CanRead(id) => RowAt(id) \in {id, Junk}
         /\ CanRead(id) /\ ~ MixedWidths => RowAt(id) = id
<1> DEFINE s == ShardOf(id)
           l == LocalOf(id)
<1>1. s \in Int /\ l \in 0 .. shard_size - 1 /\ s * shard_size + l = id
  BY IdSplit
<1>2. Vocab \in Nat /\ Parts \in Nat
  BY TableAssumption DEF TableAssumption
<1>3. CanRead(id) <=> s \in DOMAIN mm /\ l < mm[s].rows
  BY DEF CanRead, Reads
<1>4. ASSUME s \in DOMAIN mm
      PROVE  l < mm[s].rows <=> id \in 0 .. Vocab - 1
  <2>1. s \in 0 .. Parts /\ mm[s].rows = Expected(s)
    BY <1>4, ShardFacts DEF ShardIds
  <2> DEFINE p == s * shard_size
             left == Smaller(shard_size, Vocab - p)
  <2>2. Expected(s) = IF left < 0 THEN 0 ELSE left
    BY DEF Expected
  <2>3. p \in Nat
    <3> HIDE DEF s
    <3> QED BY <2>1, <1>2, ShardSize
  <2>4. left = IF shard_size < Vocab - p THEN shard_size ELSE Vocab - p
    BY DEF Smaller
  <2>5. id = p + l
    BY <1>1
  <2> HIDE DEF p, left, s, l
  <2> QED BY <2>1, <2>2, <2>3, <2>4, <2>5, <1>1, <1>2, ShardSize
<1>5. RowAt(id) = IF mm[s].fits THEN s * shard_size + l ELSE Junk
  BY DEF RowAt, RowFrom
<1>6. ASSUME s \in DOMAIN mm, ~ MixedWidths
      PROVE  mm[s].fits
  BY <1>6 DEF TableExact, ServedShardsFit
<1> HIDE DEF s, l
<1>7. ShardOf(id) = s
  BY DEF s
<1> QED BY <1>1, <1>3, <1>4, <1>5, <1>6, <1>7

(* An id past the end of the table lies in no shard. *)
LEMMA TooLargeMissing ==
  ASSUME TypeOK, TableExact, state = "serving", NEW id \in Int, TooLarge(id)
  PROVE  ShardOf(id) \notin DOMAIN mm
<1> SUFFICES ASSUME ShardOf(id) \in DOMAIN mm PROVE FALSE
  OBVIOUS
<1>1. Slots \in Nat /\ ShardOf(id) + 1 <= Slots
  <2>1. Slots \in 1 .. Parts + 1 /\ ShardOf(id) < Slots
    BY SlotsFacts
  <2>2. ShardOf(id) \in Int /\ Parts \in Nat
    BY IdSplit, TableAssumption DEF TableAssumption
  <2> QED BY <2>1, <2>2
<1>2. /\ ShardOf(id) \in Int /\ LocalOf(id) \in 0 .. shard_size - 1
      /\ ShardOf(id) * shard_size + LocalOf(id) = id
  BY IdSplit
<1>3. id >= shard_size * Slots
  BY DEF TooLarge
<1> DEFINE s == ShardOf(id)
<1>4. shard_size * (s + 1) <= shard_size * Slots
  <2> HIDE DEF s
  <2> SUFFICES ASSUME NEW a \in Int, NEW b \in Int, NEW c \in Nat, a <= b PROVE c * a <= c * b
    BY <1>1, <1>2, ShardSize DEF s
  <2> QED OBVIOUS
<1>5. shard_size * (s + 1) = s * shard_size + shard_size
  BY <1>2, ShardSize
<1> HIDE DEF s
<1>6. s = ShardOf(id)
  BY DEF s
<1> QED BY <1>1, <1>2, <1>3, <1>4, <1>5, <1>6, ShardSize

(* An id before the end of the table lies in a shard there may be. *)
LEMMA InRangeShard ==
  ASSUME TypeOK, TableExact, state = "serving", NEW id \in Int, id >= 0, ~ TooLarge(id)
  PROVE  ShardOf(id) \in ShardIds
<1> DEFINE s == ShardOf(id)
<1>1. /\ s \in Int /\ LocalOf(id) \in 0 .. shard_size - 1
      /\ s * shard_size + LocalOf(id) = id
  BY IdSplit
<1>2. Slots \in 1 .. Parts + 1 /\ Parts \in Nat
  BY SlotsFacts, TableAssumption DEF TableAssumption
<1>3. id < shard_size * Slots
  BY <1>2, ShardSize DEF TooLarge
<1> HIDE DEF s
<1>4. s >= 0
  <2> SUFFICES ASSUME s <= -1 PROVE FALSE
    BY <1>1
  <2>1. s * shard_size <= (-1) * shard_size
    BY <1>1, ShardSize
  <2> QED BY <2>1, <1>1, ShardSize
<1>5. s < Slots
  <2> SUFFICES ASSUME Slots <= s PROVE FALSE
    BY <1>1, <1>2
  <2>1. shard_size * Slots <= shard_size * s
    BY <1>1, <1>2, ShardSize
  <2>2. shard_size * s = s * shard_size
    BY <1>1, ShardSize
  <2> QED BY <2>1, <2>2, <1>1, <1>2, <1>3, ShardSize
<1>6. s \in 0 .. Parts
  BY <1>1, <1>2, <1>4, <1>5
<1> QED BY <1>6 DEF s, ShardIds

-----------------------------------------------------------------------------
(* Runs of ids of one shard, and the tasks they are cut into. *)

(* A run ends at the end of the ids or just before the next start. *)
LEMMA EndOfFacts ==
  ASSUME NEW u \in UpTo(Ids), NEW s \in Starts(u)
  PROVE  /\ s \in 1 .. Len(u)
         /\ EndOf(u, s) \in s .. Len(u)
         /\ \A p \in Starts(u) : p > s => p > EndOf(u, s)
         /\ EndOf(u, s) = Len(u) \/ EndOf(u, s) + 1 \in Starts(u)
<1>1. Len(u) \in Nat /\ DOMAIN u = 1 .. Len(u)
  <2>1. Len(u) \in 0 .. MaxIds /\ u \in [1 .. Len(u) -> Ids]
    BY UpToIsSeq
  <2> QED BY <2>1, TableAssumption DEF TableAssumption
<1>2. Starts(u) \subseteq 1 .. Len(u)
  BY <1>1 DEF Starts
<1> DEFINE L == {t \in Starts(u) : t > s}
<1>3. CASE L = {}
  <2>1. EndOf(u, s) = Len(u)
    BY <1>3 DEF EndOf
  <2> QED BY <2>1, <1>1, <1>2, <1>3
<1>4. CASE L # {}
  <2>1. PICK m \in L : \A n \in L : m <= n
    <3>1. L \in SUBSET Nat
      BY <1>1, <1>2
    <3> HIDE DEF L
    <3> QED BY <3>1, <1>4, LeastNumber
  <2> DEFINE First(t) == t > s /\ \A v \in Starts(u) : v > s => t <= v
             c == CHOOSE t \in Starts(u) : First(t)
  <2>2. m \in Starts(u) /\ First(m)
    BY <2>1
  <2>3. c \in Starts(u) /\ First(c)
    <3> HIDE DEF First
    <3> QED BY <2>2
  <2>4. EndOf(u, s) = c - 1
    BY <1>4 DEF EndOf
  <2>5. c > s /\ \A v \in Starts(u) : v > s => c <= v
    BY <2>3
  <2> HIDE DEF c
  <2> QED BY <1>1, <1>2, <2>3, <2>4, <2>5
<1> QED BY <1>3, <1>4

(* All ids of a run are of the shard it starts in: the first of another     *)
(* would start a run of its own.                                            *)
LEMMA RunIsOneShard ==
  ASSUME NEW u \in UpTo(Ids), NEW s \in Starts(u), NEW p \in s .. EndOf(u, s)
  PROVE  p \in DOMAIN u /\ ShardOf(u[p]) = ShardOf(u[s])
<1>1. /\ Len(u) \in Nat /\ DOMAIN u = 1 .. Len(u)
      /\ s \in 1 .. Len(u) /\ EndOf(u, s) \in s .. Len(u)
      /\ \A q \in Starts(u) : q > s => q > EndOf(u, s)
  <2>1. Len(u) \in 0 .. MaxIds /\ u \in [1 .. Len(u) -> Ids]
    BY UpToIsSeq
  <2> QED BY <2>1, EndOfFacts, TableAssumption DEF TableAssumption
<1> DEFINE B == {q \in s .. EndOf(u, s) : ShardOf(u[q]) # ShardOf(u[s])}
<1>2. B = {}
  <2> SUFFICES ASSUME B # {} PROVE FALSE
    OBVIOUS
  <2>1. PICK q \in B : \A r \in B : q <= r
    <3>1. B \in SUBSET Nat
      BY <1>1
    <3> HIDE DEF B
    <3> QED BY <3>1, LeastNumber
  <2>2. q \in s + 1 .. EndOf(u, s) /\ q - 1 \in s .. EndOf(u, s) /\ q - 1 \notin B
    BY <1>1, <2>1
  <2>3. ShardOf(u[q - 1]) = ShardOf(u[s]) /\ ShardOf(u[q]) # ShardOf(u[s])
    BY <2>1, <2>2
  <2>4. q \in Starts(u)
    BY <1>1, <2>2, <2>3 DEF Starts
  <2> QED BY <1>1, <2>2, <2>4
<1> QED BY <1>1, <1>2

(* A task is a stretch of positions, all of the shard it names. *)
LEMMA TaskFacts ==
  ASSUME NEW u \in UpTo(Ids), NEW t \in TasksOf(u)
  PROVE  /\ t.a \in 1 .. Len(u) /\ t.b \in t.a .. Len(u)
         /\ t.a .. t.b \subseteq DOMAIN u
         /\ \A p \in t.a .. t.b : ShardOf(u[p]) = t.si
         /\ t = [si |-> t.si, a |-> t.a, b |-> t.b]
<1>1. PICK s \in Starts(u), k \in 0 .. Len(u) :
        /\ s + k * Chunk <= EndOf(u, s)
        /\ t = [si |-> ShardOf(u[s]), a |-> s + k * Chunk,
                b |-> Smaller(s + (k + 1) * Chunk - 1, EndOf(u, s))]
  BY DEF TasksOf
<1>2. /\ Len(u) \in Nat /\ DOMAIN u = 1 .. Len(u)
      /\ s \in 1 .. Len(u) /\ EndOf(u, s) \in s .. Len(u)
  <2>1. Len(u) \in 0 .. MaxIds /\ u \in [1 .. Len(u) -> Ids]
    BY UpToIsSeq
  <2> QED BY <2>1, EndOfFacts, TableAssumption DEF TableAssumption
<1> DEFINE e == EndOf(u, s)
           a == s + k * Chunk
           c == s + (k + 1) * Chunk - 1
<1>3. k * Chunk \in Nat /\ c = a + Chunk - 1 /\ Chunk \in Nat \ {0}
  BY <1>1, <1>2, TableAssumption DEF TableAssumption
<1>4. /\ t.si = ShardOf(u[s]) /\ t.a = a
      /\ t.b = IF c < e THEN c ELSE e
  BY <1>1 DEF Smaller
<1>5. a \in s .. e /\ t.b \in a .. e
  <2>1. a \in s .. e
    BY <1>1, <1>2, <1>3
  <2>2. c >= a
    BY <1>2, <1>3
  <2> HIDE DEF a, c, e
  <2> QED BY <2>1, <2>2, <1>4, <1>2, <1>3 DEF e, c
<1>6. \A p \in t.a .. t.b : p \in s .. e
  BY <1>2, <1>4, <1>5
<1>7. \A p \in t.a .. t.b : p \in DOMAIN u /\ ShardOf(u[p]) = t.si
  BY <1>4, <1>6, RunIsOneShard
<1>8. t = [si |-> t.si, a |-> t.a, b |-> t.b]
  BY <1>1
<1> QED BY <1>2, <1>4, <1>5, <1>7, <1>8

(* Every position lies in a task. *)
LEMMA TasksCover ==
  ASSUME NEW u \in UpTo(Ids), NEW p \in DOMAIN u
  PROVE  \E t \in TasksOf(u) : p \in t.a .. t.b
<1>1. /\ Len(u) \in Nat /\ DOMAIN u = 1 .. Len(u) /\ p \in 1 .. Len(u)
  <2>1. Len(u) \in 0 .. MaxIds /\ u \in [1 .. Len(u) -> Ids]
    BY UpToIsSeq
  <2> QED BY <2>1, TableAssumption DEF TableAssumption
<1> DEFINE B == {q \in Starts(u) : q <= p}
<1>2. PICK s \in B : \A q \in B : q <= s
  <2>1. B \in SUBSET Int /\ \A q \in B : q <= p
    BY <1>1 DEF Starts
  <2>2. 1 \in B
    BY <1>1 DEF Starts
  <2>3. B # {} /\ p \in Int
    BY <1>1, <2>2
  <2> HIDE DEF B
  <2> QED BY ONLY <2>1, <2>3, GreatestNumber
<1>3. s \in Starts(u) /\ s <= p /\ \A q \in Starts(u) : q <= p => q <= s
  BY <1>2
<1> DEFINE e == EndOf(u, s)
<1>4. /\ s \in 1 .. Len(u) /\ e \in s .. Len(u)
      /\ e = Len(u) \/ e + 1 \in Starts(u)
  BY <1>3, EndOfFacts
<1>5. p \in s .. e
  BY <1>1, <1>3, <1>4
<1> DEFINE k == (p - s) \div Chunk
           m == k * Chunk
<1>6. Chunk \in Nat \ {0}
  BY TableAssumption DEF TableAssumption
<1>7. k \in Int /\ p - s - m \in 0 .. Chunk - 1 /\ m \in Int
  <2>1. p - s \in Int
    BY <1>1, <1>4
  <2>2. k \in Int /\ (p - s) - m \in 0 .. Chunk - 1
    BY <2>1, <1>6, DivFacts
  <2> HIDE DEF k
  <2> QED BY <2>2, <1>6
<1>8. k \in 0 .. Len(u)
  <2> HIDE DEF k
  <2>1. k >= 0
    <3> SUFFICES ASSUME k <= -1 PROVE FALSE
      BY <1>7
    <3>1. m <= (-1) * Chunk
      BY <1>6, <1>7
    <3> HIDE DEF m
    <3> QED BY <3>1, <1>1, <1>4, <1>5, <1>6, <1>7
  <2>2. m >= k
    BY <2>1, <1>6, <1>7
  <2> HIDE DEF m
  <2> QED BY <2>1, <2>2, <1>1, <1>4, <1>5, <1>6, <1>7
<1> DEFINE t == [si |-> ShardOf(u[s]), a |-> s + k * Chunk,
                 b |-> Smaller(s + (k + 1) * Chunk - 1, EndOf(u, s))]
<1>9. s + m <= e /\ (k + 1) * Chunk = m + Chunk
  <2> HIDE DEF k
  <2>1. (k + 1) * Chunk = m + Chunk
    BY <1>6, <1>7
  <2> HIDE DEF m
  <2> QED BY <2>1, <1>4, <1>5, <1>6, <1>7
<1>10. t \in TasksOf(u)
  BY <1>3, <1>8, <1>9 DEF TasksOf
<1>11. t.a = s + m /\ t.b = IF s + (k + 1) * Chunk - 1 < e THEN s + (k + 1) * Chunk - 1 ELSE e
  BY DEF Smaller
<1>12. p \in t.a .. t.b
  <2> DEFINE c == s + (k + 1) * Chunk - 1
  <2>1. t.a = s + m /\ t.b = IF c < e THEN c ELSE e
    BY <1>11
  <2>2. c = s + m + Chunk - 1
    <3> HIDE DEF k, m
    <3> QED BY <1>4, <1>6, <1>7, <1>9
  <2>3. /\ s + m \in Int /\ s + m <= p
        /\ c \in Int /\ p <= c
        /\ e \in Int /\ p <= e /\ p \in Int
    <3>1. p \in Int /\ s \in Int /\ e \in Int /\ p <= e
      BY ONLY <1>1, <1>4, <1>5
    <3> HIDE DEF B, t, k, m, e, c
    <3>2. m \in Int /\ p - s - m \in 0 .. Chunk - 1 /\ Chunk \in Nat
      BY <1>6, <1>7
    <3> QED BY ONLY <2>2, <3>1, <3>2
  <2>4. t.b \in Int /\ p <= t.b
    BY ONLY <2>1, <2>3
  <2>5. t.a \in Int /\ t.a <= p
    BY ONLY <2>1, <2>3
  <2> HIDE DEF t
  <2> QED BY ONLY <2>3, <2>4, <2>5
<1> QED BY <1>10, <1>12

-----------------------------------------------------------------------------
(* Each row served is what a shard that is there has in its place. *)
RowsServed ==
  pc = "returned" =>
    /\ Len(result) = Len(ids)
    /\ \A i \in DOMAIN ids : CanRead(ids[i]) /\ result[i] = RowAt(ids[i])

(* The inductive invariant. *)
IInv ==
  /\ TypeOK
  /\ TableExact
  /\ Fp8HasScale
  /\ PoolExact
  /\ RowsServed
  /\ RaisesOnlyForMissing

LEMMA InitIInv == Init => IInv
<1> SUFFICES ASSUME Init PROVE IInv
  OBVIOUS
<1>1. TypeOK
  <2>1. \A S : <<>> \in UpTo(S)
    BY EmptyIsUpTo
  <2>2. mm \in [{} -> [rows : 0 .. shard_size, fits : BOOLEAN]]
    BY DEF Init
  <2>3. {} \in SUBSET ShardIds
    OBVIOUS
  <2>4. \E S \in SUBSET ShardIds : mm \in [S -> [rows : 0 .. shard_size, fits : BOOLEAN]]
    BY <2>2, <2>3
  <2> QED BY <2>1, <2>4 DEF Init, NoGather, TypeOK, Dtypes
<1>2. TableExact /\ Fp8HasScale /\ PoolExact /\ RowsServed /\ RaisesOnlyForMissing
  BY DEF Init, NoGather, TableExact, Fp8HasScale, PoolExact, RowsServed,
         RaisesOnlyForMissing
<1> QED BY <1>1, <1>2 DEF IInv

(* What a table is for is the same after a step that leaves it alone. *)
LEMMA SameTable ==
  ASSUME mm' = mm
  PROVE  /\ Slots' = Slots
         /\ \A id : CanRead(id)' = CanRead(id) /\ RowAt(id)' = RowAt(id)
         /\ \A id : TooLarge(id)' = TooLarge(id)
<1>1. Slots' = Slots
  BY DEF Slots
<1>2. \A id : CanRead(id)' = CanRead(id) /\ RowAt(id)' = RowAt(id)
  BY DEF CanRead, RowAt, Reads, RowFrom, ShardOf, LocalOf, shard_size
<1>3. \A id : TooLarge(id)' = TooLarge(id)
  BY <1>1 DEF TooLarge, shard_size
<1> QED BY <1>1, <1>2, <1>3

(* A gather does not touch the table. *)
LEMMA GatherKeepsTable ==
  ASSUME TypeOK, TableExact, Fp8HasScale, state = "serving", UNCHANGED tableVars
  PROVE  TableExact' /\ Fp8HasScale'
<1>1. state' = state /\ mm' = mm /\ dtype' = dtype /\ scale' = scale
  BY DEF tableVars
<1>2. TableExact'
  BY <1>1 DEF TableExact, ServedShardsFit, Expected, Smaller, shard_size
<1>3. Fp8HasScale'
  BY <1>1 DEF Fp8HasScale
<1> QED BY <1>2, <1>3

(* Nothing of a gather is at stake while none is under way. *)
LEMMA IdleIInv ==
  ASSUME TypeOK', TableExact', Fp8HasScale', pc' = "idle"
  PROVE  IInv'
BY DEF IInv, PoolExact, RowsServed, RaisesOnlyForMissing

LEMMA LoadFailsInv ==
  ASSUME IInv, NEW found \in OnDisk, NEW hasScale \in BOOLEAN, NEW onDisk \in BOOLEAN,
         LoadFails(found, hasScale, onDisk)
  PROVE  IInv'
<1>1. /\ pc = "idle" /\ TypeOK
      /\ state' = "failed" /\ scale' = (scale \/ hasScale)
      /\ UNCHANGED <<mm, dtype, fast_rows, gatherVars>>
  BY DEF LoadFails, IInv, TableExact
<1>2. TypeOK'
  BY <1>1 DEF TypeOK, gatherVars
<1>3. TableExact' /\ Fp8HasScale' /\ pc' = "idle"
  BY <1>1 DEF TableExact, Fp8HasScale, gatherVars
<1> QED BY <1>2, <1>3, IdleIInv

LEMMA LoadWeightsInv ==
  ASSUME IInv, NEW found \in OnDisk, NEW hasScale \in BOOLEAN, NEW onDisk \in BOOLEAN,
         LoadWeights(found, hasScale, onDisk)
  PROVE  IInv'
<1>1. PICK S \in SUBSET ShardIds :
        /\ found \in [S -> Files]
        /\ MixedWidths \/ \A i, j \in S : found[i].fits = found[j].fits
  BY DEF OnDisk
<1>2. PICK last \in DOMAIN found :
        /\ Accepts(found, last, scale \/ hasScale, onDisk)
        /\ dtype' = found[last].dtype
        /\ scale' = ScaleFor(found[last].dtype, scale \/ hasScale, onDisk)
  BY DEF LoadWeights
<1>3. /\ pc = "idle" /\ TypeOK /\ state' = "serving"
      /\ mm' = [i \in DOMAIN found |-> [rows |-> found[i].rows, fits |-> found[i].fits]]
      /\ UNCHANGED <<fast_rows, gatherVars>>
  BY DEF LoadWeights, IInv, TableExact
<1>4. \A i \in S : /\ found[i].rows \in 0 .. shard_size /\ found[i].fits \in BOOLEAN
                   /\ found[i].dtype \in Dtypes
  BY <1>1 DEF Files
<1>5. DOMAIN found = S /\ last \in S
  BY <1>1
<1>6. mm' \in [S -> [rows : 0 .. shard_size, fits : BOOLEAN]]
  BY <1>3, <1>4, <1>5
<1>7. TypeOK'
  <2>1. \E T \in SUBSET ShardIds : mm' \in [T -> [rows : 0 .. shard_size, fits : BOOLEAN]]
    BY <1>6
  <2>2. scale' \in BOOLEAN /\ dtype' \in Dtypes
    BY <1>2, <1>3, <1>4, <1>5 DEF ScaleFor, TypeOK
  <2>3. TypeOK /\ UNCHANGED gatherVars /\ fast_rows' = fast_rows /\ state' = "serving"
    BY <1>3
  <2> QED BY <2>1, <2>2, <2>3 DEF TypeOK, gatherVars
<1>8. TableExact'
  <2>1. DOMAIN mm' # {} /\ \A i \in DOMAIN mm' : mm'[i].rows = Expected(i)
    BY <1>2, <1>3, <1>5 DEF Accepts
  <2>2. MixedWidths \/ \A i \in DOMAIN mm' : mm'[i].fits
    BY <1>1, <1>2, <1>3, <1>5 DEF Accepts
  <2> QED BY <2>1, <2>2, <1>3 DEF TableExact, ServedShardsFit, gatherVars, Expected, Smaller, shard_size
<1>9. Fp8HasScale'
  BY <1>2 DEF Fp8HasScale, Accepts, NeedsScale, ScaleFor
<1>10. pc' = "idle"
  BY <1>3 DEF gatherVars
<1> QED BY <1>7, <1>8, <1>9, <1>10, IdleIInv

LEMMA LoadMoreInv ==
  ASSUME IInv, NEW hasScale \in BOOLEAN, LoadMore(hasScale)
  PROVE  IInv'
<1>1. /\ pc = "idle" /\ state = "serving" /\ TypeOK /\ TableExact /\ Fp8HasScale
      /\ scale' = (scale \/ hasScale)
      /\ UNCHANGED <<state, mm, dtype, fast_rows, gatherVars>>
  BY DEF LoadMore, IInv
<1>2. TypeOK'
  BY <1>1 DEF TypeOK, gatherVars
<1>3. TableExact'
  BY <1>1 DEF TableExact, ServedShardsFit, Expected, Smaller, shard_size, gatherVars
<1>4. Fp8HasScale' /\ pc' = "idle"
  BY <1>1 DEF Fp8HasScale, gatherVars
<1> QED BY <1>2, <1>3, <1>4, IdleIInv

LEMMA RestartInv ==
  ASSUME IInv, Restart
  PROVE  IInv'
<1>1. /\ pc = "idle" /\ TypeOK /\ state' = "fresh" /\ scale' = FALSE
      /\ UNCHANGED <<mm, dtype, fast_rows, gatherVars>>
  BY DEF Restart, IInv, TableExact
<1>2. TypeOK'
  BY <1>1 DEF TypeOK, gatherVars
<1>3. TableExact' /\ Fp8HasScale' /\ pc' = "idle"
  BY <1>1 DEF TableExact, Fp8HasScale, gatherVars
<1> QED BY <1>2, <1>3, IdleIInv

(* An id that is out of the table's range, or cannot be read, is missing. *)
LEMMA BadIdMissing ==
  ASSUME TypeOK, TableExact, state = "serving", NEW id \in Int,
         id < 0 \/ TooLarge(id) \/ ~ CanRead(id)
  PROVE  id \notin 0 .. Vocab - 1 \/ ShardOf(id) \notin DOMAIN mm
BY ReadsExact, TooLargeMissing, TableAssumption DEF TableAssumption

LEMMA IdsAreInts == Ids \subseteq Int /\ Ids \subseteq Rows /\ Junk \in Rows
BY ShardSize, TableAssumption DEF Ids, Rows, TableAssumption

LEMMA GatherInlineInv ==
  ASSUME IInv, state = "serving", pc = "idle", NEW asked \in UpTo(Ids), GatherInline(asked)
  PROVE  IInv'
<1>1. /\ TypeOK /\ TableExact /\ Fp8HasScale
      /\ UNCHANGED tableVars /\ UNCHANGED <<uniq, out, tasks, broken>>
      /\ ids' = asked
  BY DEF IInv, GatherInline
<1>2. state' = state /\ mm' = mm /\ fast_rows' = fast_rows /\ dtype' = dtype /\ scale' = scale
  BY <1>1 DEF tableVars
<1>3. TableExact' /\ Fp8HasScale'
  BY <1>1, GatherKeepsTable
<1>4. Len(asked) \in 0 .. MaxIds /\ asked \in [1 .. Len(asked) -> Ids]
  BY UpToIsSeq
<1>5. \A i \in DOMAIN asked : asked[i] \in Ids /\ asked[i] \in Int
  BY <1>4, IdsAreInts
<1>6. \/ /\ \A i \in DOMAIN asked : CanRead(asked[i])
         /\ pc' = "returned" /\ result' = [i \in DOMAIN asked |-> RowAt(asked[i])]
      \/ /\ ~ (InRange(asked) /\ \A i \in DOMAIN asked : CanRead(asked[i]))
         /\ pc' = "raised" /\ result' = <<>>
  BY DEF GatherInline, Answer, Refuse
<1>7. ASSUME pc' \in {"returned", "raised"}, result' \in UpTo(Rows)
      PROVE  TypeOK'
  BY <1>1, <1>2, <1>7 DEF TypeOK
<1>8. CASE /\ \A i \in DOMAIN asked : CanRead(asked[i])
           /\ pc' = "returned" /\ result' = [i \in DOMAIN asked |-> RowAt(asked[i])]
  <2>1. \A i \in DOMAIN asked : RowAt(asked[i]) \in Rows
    BY <1>1, <1>5, <1>8, ReadsExact, IdsAreInts
  <2>2. result' \in [1 .. Len(asked) -> Rows]
    BY <1>4, <1>8, <2>1
  <2>3. result' \in UpTo(Rows)
    BY <1>4, <2>2, FunctionIsUpTo
  <2>4. RowsServed'
    <3>1. Len(result') = Len(asked) /\ DOMAIN asked = 1 .. Len(asked)
      BY <1>4, <2>2, TableAssumption DEF TableAssumption
    <3>2. \A i \in DOMAIN asked : CanRead(asked[i])' /\ RowAt(asked[i])' = RowAt(asked[i])
      BY <1>2, <1>8, SameTable
    <3>3. \A i \in DOMAIN asked : result'[i] = RowAt(asked[i])
      BY <1>8
    <3> QED BY <1>1, <3>1, <3>2, <3>3 DEF RowsServed
  <2>5. PoolExact' /\ RaisesOnlyForMissing'
    BY <1>8 DEF PoolExact, RaisesOnlyForMissing
  <2> QED BY <1>3, <1>7, <1>8, <2>3, <2>4, <2>5 DEF IInv
<1>9. CASE /\ ~ (InRange(asked) /\ \A i \in DOMAIN asked : CanRead(asked[i]))
           /\ pc' = "raised" /\ result' = <<>>
  <2>1. PICK i \in DOMAIN asked : asked[i] < 0 \/ TooLarge(asked[i]) \/ ~ CanRead(asked[i])
    BY <1>5, <1>9 DEF InRange
  <2>2. asked[i] \notin 0 .. Vocab - 1 \/ ShardOf(asked[i]) \notin DOMAIN mm
    BY <1>1, <1>5, <2>1, BadIdMissing
  <2>3. RaisesOnlyForMissing'
    BY <1>1, <1>2, <2>2 DEF RaisesOnlyForMissing, ShardOf, shard_size
  <2>4. PoolExact' /\ RowsServed' /\ result' \in UpTo(Rows)
    BY <1>9, EmptyIsUpTo DEF PoolExact, RowsServed
  <2> QED BY <1>3, <1>7, <1>9, <2>3, <2>4 DEF IInv
<1> QED BY <1>6, <1>8, <1>9

LEMMA GatherPooledInv ==
  ASSUME IInv, state = "serving", pc = "idle", NEW asked \in UpTo(Ids),
         NEW u \in UpTo({asked[i] : i \in DOMAIN asked}), GatherPooled(asked, u)
  PROVE  IInv'
<1>1. /\ TypeOK /\ TableExact /\ Fp8HasScale
      /\ UNCHANGED tableVars /\ IsUnique(u, asked)
      /\ ids' = asked /\ uniq' = u /\ broken' = FALSE
  BY DEF IInv, GatherPooled
<1>2. state' = state /\ mm' = mm /\ fast_rows' = fast_rows /\ dtype' = dtype /\ scale' = scale
  BY <1>1 DEF tableVars
<1>3. TableExact' /\ Fp8HasScale'
  BY <1>1, GatherKeepsTable
<1>4. u \in UpTo(Ids)
  <2>1. asked \in [1 .. Len(asked) -> Ids]
    BY UpToIsSeq
  <2>2. {asked[i] : i \in DOMAIN asked} \subseteq Ids
    BY <2>1
  <2>3. /\ Len(u) \in 0 .. MaxIds
        /\ u \in [1 .. Len(u) -> {asked[i] : i \in DOMAIN asked}]
    BY UpToIsSeq
  <2>4. u \in [1 .. Len(u) -> Ids]
    BY <2>2, <2>3
  <2> QED BY <2>3, <2>4, FunctionIsUpTo
<1>5. /\ Len(u) \in 0 .. MaxIds /\ u \in [1 .. Len(u) -> Ids]
      /\ \A p \in DOMAIN u : u[p] \in Ids /\ u[p] \in Int
  BY <1>4, UpToIsSeq, IdsAreInts
<1>6. ASSUME pc' \in {"pool", "raised"}, result' = <<>>,
             out' \in UpTo(Rows), tasks' \subseteq Task
      PROVE  TypeOK'
  <2>1. result' \in UpTo(Rows)
    BY <1>6, EmptyIsUpTo
  <2> QED BY <1>1, <1>2, <1>4, <1>6, <2>1 DEF TypeOK
<1>7. CASE InRange(u)
  <2>1. /\ pc' = "pool" /\ result' = <<>>
        /\ out' = [i \in DOMAIN u |-> Junk] /\ tasks' = TasksOf(u)
    BY <1>7 DEF GatherPooled
  <2>2. out' \in UpTo(Rows)
    <3>1. out' \in [1 .. Len(u) -> Rows]
      BY <1>5, <2>1, IdsAreInts
    <3> QED BY <1>5, <3>1, FunctionIsUpTo
  <2>3. tasks' \subseteq Task
    <3> SUFFICES ASSUME NEW t \in TasksOf(u) PROVE t \in Task
      BY <2>1
    <3>1. /\ t.a \in 1 .. Len(u) /\ t.b \in t.a .. Len(u) /\ t.a \in DOMAIN u
          /\ ShardOf(u[t.a]) = t.si
          /\ t = [si |-> t.si, a |-> t.a, b |-> t.b]
      BY <1>4, <1>5, TaskFacts
    <3>2. t.si \in ShardIds
      BY <1>1, <1>5, <1>7, <3>1, InRangeShard DEF InRange
    <3>3. t.a \in 1 .. MaxIds /\ t.b \in 1 .. MaxIds
      BY <1>5, <3>1, TableAssumption DEF TableAssumption
    <3> QED BY <3>1, <3>2, <3>3 DEF Task
  <2>4. PoolExact'
    <3>1. InRange(u)'
      BY <1>2, <1>7, SameTable DEF InRange
    <3>2. DOMAIN out' = DOMAIN u
      BY <2>1
    <3>3. \A p \in DOMAIN u : \E t \in TasksOf(u) : p \in t.a .. t.b
      BY <1>4, TasksCover
    <3> QED BY <1>1, <2>1, <3>1, <3>2, <3>3 DEF PoolExact, InRange, IsUnique
  <2>5. RowsServed' /\ RaisesOnlyForMissing'
    BY <2>1 DEF RowsServed, RaisesOnlyForMissing
  <2> QED BY <1>3, <1>6, <2>1, <2>2, <2>3, <2>4, <2>5 DEF IInv
<1>8. CASE ~ InRange(u)
  <2>1. pc' = "raised" /\ result' = <<>> /\ UNCHANGED <<out, tasks>>
    BY <1>8 DEF GatherPooled, Refuse
  <2>2. TypeOK'
    BY <1>1, <1>6, <2>1 DEF TypeOK
  <2>3. RaisesOnlyForMissing'
    <3>1. PICK p \in DOMAIN u : u[p] < 0 \/ TooLarge(u[p])
      BY <1>5, <1>8 DEF InRange
    <3>2. u[p] \notin 0 .. Vocab - 1 \/ ShardOf(u[p]) \notin DOMAIN mm
      BY <1>1, <1>5, <3>1, BadIdMissing
    <3>3. PICK i \in DOMAIN asked : asked[i] = u[p]
      BY <1>1 DEF IsUnique
    <3> QED BY <1>1, <1>2, <3>2, <3>3 DEF RaisesOnlyForMissing, ShardOf, shard_size
  <2>4. PoolExact' /\ RowsServed'
    BY <2>1 DEF PoolExact, RowsServed
  <2> QED BY <1>3, <2>2, <2>3, <2>4 DEF IInv
<1> QED BY <1>7, <1>8

(* What the pool has to go on. *)
LEMMA PoolFacts ==
  ASSUME IInv, pc = "pool"
  PROVE  /\ TypeOK /\ TableExact /\ Fp8HasScale /\ PoolExact /\ state = "serving"
         /\ uniq \in UpTo(Ids)
         /\ \A p \in DOMAIN uniq : uniq[p] \in Ids /\ uniq[p] \in Int
         /\ out \in [1 .. Len(uniq) -> Rows] /\ Len(uniq) \in 0 .. MaxIds
         /\ DOMAIN uniq = 1 .. Len(uniq)
<1>1. TypeOK /\ TableExact /\ Fp8HasScale /\ PoolExact /\ state = "serving"
  BY DEF IInv, TableExact
<1>2. uniq \in UpTo(Ids) /\ out \in UpTo(Rows)
  BY <1>1 DEF TypeOK
<1>3. Len(uniq) \in 0 .. MaxIds /\ uniq \in [1 .. Len(uniq) -> Ids]
  BY <1>2, UpToIsSeq
<1>4. out \in [1 .. Len(out) -> Rows]
  BY <1>2, UpToIsSeq
<1>5. DOMAIN out = DOMAIN uniq
  BY <1>1 DEF PoolExact
<1>6. out \in [1 .. Len(uniq) -> Rows]
  BY <1>3, <1>4, <1>5
<1> QED BY <1>1, <1>2, <1>3, <1>6, IdsAreInts

LEMMA RunTaskInv ==
  ASSUME IInv, NEW t \in tasks, RunTask(t)
  PROVE  IInv'
<1>1. /\ pc = "pool" /\ tasks' = tasks \ {t}
      /\ UNCHANGED <<tableVars, pc, ids, uniq, result>>
  BY DEF RunTask
<1>2. /\ TypeOK /\ TableExact /\ Fp8HasScale /\ PoolExact /\ state = "serving"
      /\ uniq \in UpTo(Ids)
      /\ \A p \in DOMAIN uniq : uniq[p] \in Ids /\ uniq[p] \in Int
      /\ out \in [1 .. Len(uniq) -> Rows] /\ Len(uniq) \in 0 .. MaxIds
      /\ DOMAIN uniq = 1 .. Len(uniq)
  BY <1>1, PoolFacts
<1>3. /\ state' = state /\ mm' = mm /\ fast_rows' = fast_rows
      /\ dtype' = dtype /\ scale' = scale
  BY <1>1 DEF tableVars
<1>4. TableExact' /\ Fp8HasScale'
  BY <1>1, <1>2, GatherKeepsTable
<1>5. /\ t \in TasksOf(uniq) /\ InRange(uniq) /\ IsUnique(uniq, ids)
      /\ tasks \subseteq TasksOf(uniq)
  BY <1>1, <1>2 DEF PoolExact
<1>6. /\ t.a .. t.b \subseteq DOMAIN uniq
      /\ \A p \in t.a .. t.b : ShardOf(uniq[p]) = t.si
  BY <1>2, <1>5, TaskFacts
<1>7. \A p \in t.a .. t.b : /\ Reads(t.si, uniq[p]) <=> CanRead(uniq[p])
                            /\ RowFrom(t.si, uniq[p]) = RowAt(uniq[p])
  BY <1>6 DEF CanRead, RowAt
<1>8. InRange(uniq)' /\ IsUnique(uniq, ids)' /\ tasks' \subseteq TasksOf(uniq')
  <2>1. InRange(uniq)'
    BY <1>1, <1>3, <1>5, SameTable DEF InRange
  <2>2. IsUnique(uniq, ids)'
    BY <1>1, <1>5 DEF IsUnique
  <2>3. tasks' \subseteq TasksOf(uniq')
    BY <1>1, <1>5
  <2> QED BY <2>1, <2>2, <2>3
<1>9. /\ uniq' = uniq /\ pc' = "pool"
      /\ RowsServed' /\ RaisesOnlyForMissing'
  BY <1>1 DEF RowsServed, RaisesOnlyForMissing
<1>10. ASSUME out' \in UpTo(Rows), broken' \in BOOLEAN PROVE TypeOK'
  BY <1>1, <1>2, <1>3, <1>10 DEF TypeOK
<1> DEFINE Held(p) == \/ \E r \in tasks : p \in r.a .. r.b
                      \/ broken
                      \/ CanRead(uniq[p]) /\ out[p] = RowAt(uniq[p])
           HeldThen(p) == \/ \E r \in tasks' : p \in r.a .. r.b
                          \/ broken'
                          \/ CanRead(uniq[p]) /\ out'[p] = RowAt(uniq[p])
<1>11. ASSUME DOMAIN out' = DOMAIN uniq, \A p \in DOMAIN uniq : HeldThen(p),
              broken' => \E p \in DOMAIN uniq : ~ CanRead(uniq[p])
       PROVE  PoolExact'
  <2>1. \A p : CanRead(uniq[p])' = CanRead(uniq[p]) /\ RowAt(uniq[p])' = RowAt(uniq[p])
    BY <1>3, <1>9, SameTable
  <2> QED BY <1>8, <1>9, <1>11, <2>1 DEF PoolExact
<1>12. \A p \in DOMAIN uniq : Held(p)
  BY <1>1, <1>2 DEF PoolExact
<1>13. CASE \A p \in t.a .. t.b : Reads(t.si, uniq[p])
  <2>1. /\ broken' = broken
        /\ out' = [p \in DOMAIN out |->
                     IF p \in t.a .. t.b THEN RowFrom(t.si, uniq[p]) ELSE out[p]]
    BY <1>13 DEF RunTask
  <2>2. \A p \in t.a .. t.b : CanRead(uniq[p]) /\ RowFrom(t.si, uniq[p]) = RowAt(uniq[p])
    BY <1>7, <1>13
  <2>3. \A p \in t.a .. t.b : RowFrom(t.si, uniq[p]) \in Rows
    BY <1>2, <1>6, <2>2, ReadsExact, IdsAreInts
  <2>4. out' \in [1 .. Len(uniq) -> Rows]
    BY <1>2, <2>1, <2>3
  <2>5. TypeOK'
    BY <1>2, <1>10, <2>1, <2>4, FunctionIsUpTo DEF TypeOK
  <2>6. ASSUME NEW p \in DOMAIN uniq PROVE HeldThen(p)
    <3>1. CASE p \in t.a .. t.b
      BY <1>2, <2>1, <2>2, <3>1
    <3>2. CASE p \notin t.a .. t.b
      <4>1. out'[p] = out[p]
        BY <1>2, <2>1, <3>2
      <4>2. Held(p)
        BY <1>12
      <4> QED BY <1>1, <2>1, <3>2, <4>1, <4>2
    <3> QED BY <3>1, <3>2
  <2>7. broken' => \E p \in DOMAIN uniq : ~ CanRead(uniq[p])
    BY <1>1, <1>2, <2>1 DEF PoolExact
  <2>8. PoolExact'
    <3> HIDE DEF HeldThen
    <3> QED BY <1>2, <1>11, <2>4, <2>6, <2>7
  <2> QED BY <1>4, <1>9, <2>5, <2>8 DEF IInv
<1>14. CASE ~ \A p \in t.a .. t.b : Reads(t.si, uniq[p])
  <2>1. broken' = TRUE /\ out' = out
    BY <1>14 DEF RunTask
  <2>2. \E p \in DOMAIN uniq : ~ CanRead(uniq[p])
    BY <1>6, <1>7, <1>14
  <2>3. PoolExact'
    BY <1>2, <1>11, <2>1, <2>2
  <2>4. TypeOK'
    BY <1>2, <1>10, <2>1 DEF TypeOK
  <2> QED BY <1>4, <1>9, <2>3, <2>4 DEF IInv
<1> QED BY <1>13, <1>14

LEMMA CollectInv ==
  ASSUME IInv, Collect
  PROVE  IInv'
<1>1. /\ pc = "pool" /\ tasks' = {}
      /\ UNCHANGED <<tableVars, ids, uniq, out, broken>>
  BY DEF Collect
<1>2. /\ TypeOK /\ TableExact /\ Fp8HasScale /\ PoolExact /\ state = "serving"
      /\ \A p \in DOMAIN uniq : uniq[p] \in Ids /\ uniq[p] \in Int
      /\ out \in [1 .. Len(uniq) -> Rows]
      /\ DOMAIN uniq = 1 .. Len(uniq)
  BY <1>1, PoolFacts
<1>3. /\ state' = state /\ mm' = mm /\ fast_rows' = fast_rows
      /\ dtype' = dtype /\ scale' = scale
  BY <1>1 DEF tableVars
<1>4. TableExact' /\ Fp8HasScale'
  BY <1>1, <1>2, GatherKeepsTable
<1>5. Len(ids) \in 0 .. MaxIds /\ ids \in [1 .. Len(ids) -> Ids] /\ DOMAIN ids = 1 .. Len(ids)
  <2>1. ids \in UpTo(Ids)
    BY <1>2 DEF TypeOK
  <2> QED BY <2>1, UpToIsSeq
<1>6. \A p \in DOMAIN uniq : \E i \in DOMAIN ids : ids[i] = uniq[p]
  BY <1>1, <1>2 DEF PoolExact, IsUnique
<1>7. \A i \in DOMAIN ids : \E p \in DOMAIN uniq : uniq[p] = ids[i]
  BY <1>1, <1>2 DEF PoolExact, IsUnique
<1>8. ASSUME pc' \in {"returned", "raised"}, result' \in UpTo(Rows) PROVE TypeOK'
  BY <1>1, <1>2, <1>3, <1>8 DEF TypeOK
<1>9. CASE broken /\ Refuse
  <2>1. pc' = "raised" /\ result' \in UpTo(Rows)
    BY <1>9, EmptyIsUpTo DEF Refuse
  <2>2. PICK p \in DOMAIN uniq : ~ CanRead(uniq[p])
    BY <1>1, <1>2, <1>9 DEF PoolExact
  <2>3. uniq[p] \notin 0 .. Vocab - 1 \/ ShardOf(uniq[p]) \notin DOMAIN mm
    BY <1>2, <2>2, BadIdMissing
  <2>4. RaisesOnlyForMissing'
    BY <1>1, <1>3, <1>6, <2>3 DEF RaisesOnlyForMissing, ShardOf, shard_size
  <2>5. PoolExact' /\ RowsServed'
    BY <2>1 DEF PoolExact, RowsServed
  <2> QED BY <1>4, <1>8, <2>1, <2>4, <2>5 DEF IInv
<1>10. CASE ~ broken /\ tasks = {} /\ Answer(Expanded)
  <2> DEFINE at(i) == CHOOSE p \in DOMAIN uniq : uniq[p] = ids[i]
  <2>1. pc' = "returned" /\ result' = [i \in DOMAIN ids |-> out[at(i)]]
    BY <1>10 DEF Answer, Expanded
  <2>2. \A i \in DOMAIN ids : at(i) \in DOMAIN uniq /\ uniq[at(i)] = ids[i]
    BY <1>7
  <2>3. \A p \in DOMAIN uniq : CanRead(uniq[p]) /\ out[p] = RowAt(uniq[p])
    BY <1>1, <1>2, <1>10 DEF PoolExact
  <2>4. \A p \in DOMAIN uniq : out[p] \in Rows
    BY <1>2
  <2> HIDE DEF at
  <2>5. result' \in [1 .. Len(ids) -> Rows]
    BY <1>5, <2>1, <2>2, <2>4
  <2>6. result' \in UpTo(Rows)
    BY <1>5, <2>5, FunctionIsUpTo
  <2>7. RowsServed'
    <3>1. Len(result') = Len(ids)
      BY <1>5, <2>5, TableAssumption DEF TableAssumption
    <3>2. \A i \in DOMAIN ids : CanRead(ids[i]) /\ result'[i] = RowAt(ids[i])
      BY <2>1, <2>2, <2>3
    <3>3. \A i \in DOMAIN ids : CanRead(ids[i])' /\ RowAt(ids[i])' = RowAt(ids[i])
      BY <1>1, <1>3, <3>2, SameTable
    <3> QED BY <1>1, <3>1, <3>2, <3>3 DEF RowsServed
  <2>8. PoolExact' /\ RaisesOnlyForMissing'
    BY <2>1 DEF PoolExact, RaisesOnlyForMissing
  <2> QED BY <1>4, <1>8, <2>1, <2>6, <2>7, <2>8 DEF IInv
<1> QED BY <1>9, <1>10 DEF Collect

LEMMA DoneInv ==
  ASSUME IInv, Done
  PROVE  IInv'
<1>1. /\ TypeOK /\ TableExact /\ Fp8HasScale /\ pc \in {"returned", "raised"}
      /\ UNCHANGED tableVars /\ pc' = "idle"
  BY DEF Done, IInv
<1>2. state = "serving"
  BY <1>1 DEF TableExact
<1>3. TableExact' /\ Fp8HasScale'
  BY <1>1, <1>2, GatherKeepsTable
<1>4. TypeOK'
  <2>1. \A S : <<>> \in UpTo(S)
    BY EmptyIsUpTo
  <2>2. /\ pc' = "idle" /\ ids' = <<>> /\ uniq' = <<>> /\ out' = <<>> /\ result' = <<>>
        /\ tasks' = {} /\ broken' = FALSE
        /\ state' = state /\ mm' = mm /\ fast_rows' = fast_rows
        /\ dtype' = dtype /\ scale' = scale
    BY DEF Done, tableVars
  <2> QED BY <1>1, <2>1, <2>2 DEF TypeOK
<1> QED BY <1>1, <1>3, <1>4, IdleIInv

-----------------------------------------------------------------------------
(* Theorems.                                                               *)

THEOREM Invariance == Spec => []IInv
<1>1. IInv /\ [Next]_vars => IInv'
  <2> SUFFICES ASSUME IInv, [Next]_vars PROVE IInv'
    OBVIOUS
  <2>1. CASE /\ state = "fresh"
             /\ \E found \in OnDisk, hasScale \in BOOLEAN, onDisk \in BOOLEAN :
                  \/ LoadFails(found, hasScale, onDisk)
                  \/ LoadWeights(found, hasScale, onDisk)
    BY <2>1, LoadFailsInv, LoadWeightsInv
  <2>2. CASE \E hasScale \in BOOLEAN : LoadMore(hasScale)
    BY <2>2, LoadMoreInv
  <2>3. CASE Restart
    BY <2>3, RestartInv
  <2>4. CASE Gather
    BY <2>4, GatherInlineInv, GatherPooledInv DEF Gather
  <2>5. CASE \E t \in tasks : RunTask(t)
    BY <2>5, RunTaskInv
  <2>6. CASE Collect
    BY <2>6, CollectInv
  <2>7. CASE Done
    BY <2>7, DoneInv
  <2>8. CASE UNCHANGED vars
    <3>1. /\ UNCHANGED <<state, mm, dtype, scale, fast_rows>>
          /\ UNCHANGED <<pc, ids, uniq, out, tasks, broken, result>>
      BY <2>8 DEF vars, tableVars, gatherVars
    <3>2. TypeOK' /\ TableExact' /\ Fp8HasScale'
      BY <3>1 DEF IInv, TypeOK, TableExact, Fp8HasScale, ServedShardsFit,
                  Expected, Smaller, shard_size
    <3>3. PoolExact'
      <4>1. \A id : /\ CanRead(id)' = CanRead(id) /\ RowAt(id)' = RowAt(id)
                    /\ TooLarge(id)' = TooLarge(id)
        BY <3>1, SameTable
      <4> QED BY <3>1, <4>1 DEF IInv, PoolExact, InRange, IsUnique
    <3>4. RowsServed'
      BY <3>1, SameTable DEF IInv, RowsServed
    <3>5. RaisesOnlyForMissing'
      BY <3>1 DEF IInv, RaisesOnlyForMissing, ShardOf, shard_size
    <3> QED BY <3>2, <3>3, <3>4, <3>5 DEF IInv
  <2> QED BY <2>1, <2>2, <2>3, <2>4, <2>5, <2>6, <2>7, <2>8 DEF Next
<1> QED BY <1>1, InitIInv, PTL DEF Spec

(* Every value has its type; in particular no thread writes to a position   *)
(* outside of the array that gather allocated.                              *)
THEOREM TypeTheorem == Spec => []TypeOK
<1>1. IInv => TypeOK
  BY DEF IInv
<1> QED BY <1>1, Invariance, PTL

(* While the pool works, each position either belongs to a task still to    *)
(* come or holds the row asked for there, or a task has raised for an id    *)
(* that cannot be read.                                                     *)
THEOREM PoolTheorem == Spec => []PoolExact
<1>1. IInv => PoolExact
  BY DEF IInv
<1> QED BY <1>1, Invariance, PTL

(* A gather of a table whose shards have one width returns exactly the rows *)
(* asked for, in the order asked for.                                       *)
THEOREM ServedTheorem ==
  ASSUME ~ MixedWidths
  PROVE  Spec => []ServedRowsExact
<1>1. IInv => ServedRowsExact
  <2> SUFFICES ASSUME IInv, pc = "returned", NEW i \in DOMAIN ids
               PROVE  /\ Len(result) = Len(ids)
                      /\ ids[i] \in 0 .. Vocab - 1 /\ result[i] = ids[i]
    <3>1. IInv /\ pc = "returned" => Len(result) = Len(ids)
      BY DEF IInv, RowsServed
    <3> QED BY <3>1 DEF ServedRowsExact
  <2>1. /\ TypeOK /\ TableExact /\ state = "serving"
        /\ Len(result) = Len(ids) /\ CanRead(ids[i]) /\ result[i] = RowAt(ids[i])
    BY DEF IInv, TableExact, RowsServed
  <2>2. ids[i] \in Int
    <3>1. ids \in UpTo(Ids)
      BY <2>1 DEF TypeOK
    <3>2. ids \in [1 .. Len(ids) -> Ids]
      BY <3>1, UpToIsSeq
    <3> QED BY <3>2, IdsAreInts
  <2> QED BY <2>1, <2>2, ReadsExact
<1> QED BY <1>1, Invariance, PTL

(* A gather raises only for an id that is no row of the vocabulary or whose *)
(* shard is missing: never for the order of the threads, the length of the  *)
(* gather or the width of a shard.                                          *)
THEOREM RaisesTheorem == Spec => []RaisesOnlyForMissing
<1>1. IInv => RaisesOnlyForMissing
  BY DEF IInv
<1> QED BY <1>1, Invariance, PTL

(* An FP8 table is never served without its scale. *)
THEOREM ScaleTheorem == Spec => []Fp8HasScale
<1>1. IInv => Fp8HasScale
  BY DEF IInv
<1> QED BY <1>1, Invariance, PTL
=============================================================================
