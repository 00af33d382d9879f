---------------------------- MODULE QsaTopkProof ----------------------------
(***************************************************************************)
(* Proofs about QsaTopk for any rows, number of key blocks, scores and     *)
(* block_topk.                                                             *)
(***************************************************************************)
EXTENDS QsaTopk, FiniteSetTheorems, TLAPS

Least(a, b) == IF a <= b THEN a ELSE b

(* A row as the mask leaves it: n columns, v of them seen, scored by s. *)
IsMasked(row, n, v, s) ==
  /\ n \in Nat \ {0} /\ v \in 0 .. n
  /\ s \in [0 .. n - 1 -> Nat]
  /\ row \in [0 .. n - 1 -> Int]
  /\ \A c \in 0 .. n - 1 : row[c] = IF c < v THEN s[c] ELSE NegInf

(* What a selection of k of n columns is. *)
Selects(f, row, n, k) ==
  /\ f \in [0 .. k - 1 -> 0 .. n - 1]
  /\ \A i, j \in 0 .. k - 1 : f[i] = f[j] => i = j
  /\ \A c \in 0 .. n - 1 :
       (\A i \in 0 .. k - 1 : f[i] # c) => \A i \in 0 .. k - 1 : row[c] <= row[f[i]]
  /\ \A i, j \in 0 .. k - 1 :
       row[f[j]] < row[f[i]] /\ (\A m \in 0 .. k - 1 : row[f[j]] <= row[f[m]]) => i < j

LEMMA TopKFacts ==
  ASSUME NEW n \in Nat \ {0}, NEW k \in 0 .. n,
         NEW row \in [0 .. n - 1 -> Int], NEW f \in TopK(row, k)
  PROVE  Selects(f, row, n, k)
<1>1. DOMAIN row = 0 .. n - 1
  OBVIOUS
<1>2. f \in [0 .. k - 1 -> 0 .. n - 1] /\ \A i, j \in 0 .. k - 1 : f[i] = f[j] => i = j
  <2>1. f \in Injection(0 .. k - 1, 0 .. n - 1)
    BY <1>1 DEF TopK
  <2> QED BY <2>1 DEF Injection, IsInjective
<1>3. DOMAIN f = 0 .. k - 1
  BY <1>2
<1>4. ASSUME NEW c \in 0 .. n - 1, \A i \in 0 .. k - 1 : f[i] # c
      PROVE  \A i \in 0 .. k - 1 : row[c] <= row[f[i]]
  <2>1. c \in (DOMAIN row) \ Range(f)
    BY <1>1, <1>3, <1>4 DEF Range
  <2> QED BY <1>3, <2>1 DEF TopK
<1>5. \A i, j \in 0 .. k - 1 :
        row[f[j]] < row[f[i]] /\ (\A m \in 0 .. k - 1 : row[f[j]] <= row[f[m]]) => i < j
  BY <1>3 DEF TopK
<1> QED BY <1>2, <1>4, <1>5 DEF Selects

(* No injection goes from an interval to a shorter one. *)
LEMMA NoShorter ==
  ASSUME NEW a \in Nat, NEW b \in Nat, b < a,
         NEW g \in [0 .. a - 1 -> 0 .. b - 1],
         \A i, j \in 0 .. a - 1 : g[i] = g[j] => i = j
  PROVE  FALSE
<1>1. IsFiniteSet(0 .. a - 1) /\ Cardinality(0 .. a - 1) = a
  BY FS_Interval
<1>2. IsFiniteSet(0 .. b - 1) /\ Cardinality(0 .. b - 1) = b
  BY FS_Interval
<1>3. \E x, y \in 0 .. a - 1 : x # y /\ g[x] = g[y]
  BY <1>1, <1>2, FS_PigeonHole
<1> QED BY <1>3

(* An injection of an interval into itself reaches all of it. *)
LEMMA OntoItself ==
  ASSUME NEW a \in Nat, NEW g \in [0 .. a - 1 -> 0 .. a - 1],
         \A i, j \in 0 .. a - 1 : g[i] = g[j] => i = j,
         NEW c \in 0 .. a - 1
  PROVE  \E i \in 0 .. a - 1 : g[i] = c
<1>1. IsFiniteSet(0 .. a - 1)
  BY FS_Interval
<1>2. g \in Injection(0 .. a - 1, 0 .. a - 1)
  BY DEF Injection, IsInjective
<1>3. g \in Surjection(0 .. a - 1, 0 .. a - 1)
  BY <1>1, <1>2, FS_Injection
<1> QED BY <1>3 DEF Surjection

(* The first entries, one for each column seen, are columns seen: a column  *)
(* out of sight has the least score of all, so every column seen would have *)
(* been selected, and before it.                                            *)
LEMMA FirstAreSeen ==
  ASSUME NEW n, NEW v, NEW s, NEW row, IsMasked(row, n, v, s),
         NEW k \in 0 .. n, NEW f, Selects(f, row, n, k),
         NEW i \in 0 .. k - 1, i < v
  PROVE  f[i] < v
<1>1. /\ n \in Nat \ {0} /\ v \in 0 .. n
      /\ s \in [0 .. n - 1 -> Nat] /\ row \in [0 .. n - 1 -> Int]
      /\ \A c \in 0 .. n - 1 : row[c] = IF c < v THEN s[c] ELSE -1
  BY DEF IsMasked, NegInf
<1>2. /\ f \in [0 .. k - 1 -> 0 .. n - 1]
      /\ \A p, q \in 0 .. k - 1 : f[p] = f[q] => p = q
      /\ \A c \in 0 .. n - 1 : (\A p \in 0 .. k - 1 : f[p] # c)
           => \A p \in 0 .. k - 1 : row[c] <= row[f[p]]
      /\ \A p, q \in 0 .. k - 1 :
           row[f[q]] < row[f[p]] /\ (\A m \in 0 .. k - 1 : row[f[q]] <= row[f[m]]) => p < q
  BY DEF Selects
<1> SUFFICES ASSUME ~ (f[i] < v) PROVE FALSE
  OBVIOUS
<1>3. row[f[i]] = -1
  BY <1>1, <1>2
<1>4. \A c \in 0 .. n - 1 : row[c] \in Int /\ -1 <= row[c]
  BY <1>1
<1>5. \A c \in 0 .. v - 1 : \E j \in 0 .. i - 1 : f[j] = c
  <2> TAKE c \in 0 .. v - 1
  <2>1. c \in 0 .. n - 1 /\ row[c] >= 0
    BY <1>1
  <2>2. PICK j \in 0 .. k - 1 : f[j] = c
    <3> SUFFICES ASSUME \A j \in 0 .. k - 1 : f[j] # c PROVE FALSE
      OBVIOUS
    <3>1. row[c] <= row[f[i]]
      BY <1>2, <2>1
    <3> QED BY <1>3, <1>4, <2>1, <3>1
  <2>3. row[f[i]] < row[f[j]]
    BY <1>3, <1>4, <2>1, <2>2
  <2>4. \A m \in 0 .. k - 1 : row[f[i]] <= row[f[m]]
    BY <1>2, <1>3, <1>4
  <2>5. j < i
    BY <1>2, <2>3, <2>4
  <2> QED BY <2>2, <2>5
<1> DEFINE g == [c \in 0 .. v - 1 |-> CHOOSE j \in 0 .. i - 1 : f[j] = c]
<1>6. \A c \in 0 .. v - 1 : g[c] \in 0 .. i - 1 /\ f[g[c]] = c
  BY <1>5
<1>7. g \in [0 .. v - 1 -> 0 .. i - 1]
  BY <1>6
<1>8. \A a, b \in 0 .. v - 1 : g[a] = g[b] => a = b
  BY <1>6
<1>9. v \in Nat /\ i \in Nat
  BY <1>1
<1> HIDE DEF g
<1> QED BY <1>7, <1>8, <1>9, NoShorter

(* The entries read name as many columns as there are entries to read. *)
LEMMA EntriesCount ==
  ASSUME NEW m \in Nat, NEW f,
         \A i, j \in 0 .. m - 1 : f[i] = f[j] => i = j
  PROVE  Cardinality({f[i] : i \in 0 .. m - 1}) = m
<1> DEFINE R == {f[i] : i \in 0 .. m - 1}
           g == [i \in 0 .. m - 1 |-> f[i]]
<1>1. IsFiniteSet(0 .. m - 1) /\ Cardinality(0 .. m - 1) = m
  BY FS_Interval
<1>2. g \in [0 .. m - 1 -> R] /\ \A x \in R : \E i \in 0 .. m - 1 : g[i] = x
  OBVIOUS
<1>3. \A i, j \in 0 .. m - 1 : g[i] = g[j] => i = j
  OBVIOUS
<1> HIDE DEF R, g
<1>4. g \in Surjection(0 .. m - 1, R)
  BY <1>2 DEF Surjection
<1>5. g \in Injection(0 .. m - 1, R)
  BY <1>2, <1>3 DEF Injection, IsInjective
<1>6. Cardinality(R) = Cardinality(0 .. m - 1)
  BY <1>1, <1>4, <1>5, FS_Surjection
<1> QED BY <1>1, <1>6 DEF R

(* A column seen that is not among the entries read scored no higher than   *)
(* those: either it was not selected, or only behind all columns seen.      *)
LEMMA LeftOutScoredLess ==
  ASSUME NEW n, NEW v, NEW s, NEW row, IsMasked(row, n, v, s),
         NEW t \in Nat, NEW f, Selects(f, row, n, Least(t, n)),
         NEW c \in 0 .. v - 1, \A i \in 0 .. Least(v, t) - 1 : f[i] # c,
         NEW d \in 0 .. Least(v, t) - 1
  PROVE  s[c] <= s[f[d]]
<1> DEFINE k == Least(t, n)
           m == Least(v, t)
<1>1. /\ n \in Nat \ {0} /\ v \in 0 .. n
      /\ s \in [0 .. n - 1 -> Nat] /\ row \in [0 .. n - 1 -> Int]
      /\ \A b \in 0 .. n - 1 : row[b] = IF b < v THEN s[b] ELSE -1
  BY DEF IsMasked, NegInf
<1>2. k \in 0 .. n /\ m \in 0 .. k /\ (m = v \/ m = k)
  BY <1>1 DEF Least
<1>3. /\ f \in [0 .. k - 1 -> 0 .. n - 1]
      /\ \A i, j \in 0 .. k - 1 : f[i] = f[j] => i = j
      /\ \A b \in 0 .. n - 1 :
           (\A i \in 0 .. k - 1 : f[i] # b) => \A i \in 0 .. k - 1 : row[b] <= row[f[i]]
  BY DEF Selects
<1>4. m \in Int /\ m <= v
  BY <1>1 DEF Least
<1> HIDE DEF k, m
<1>5. \A i \in 0 .. m - 1 : i \in 0 .. k - 1 /\ f[i] \in 0 .. v - 1
  <2> TAKE i \in 0 .. m - 1
  <2>1. i \in 0 .. k - 1 /\ i < v
    BY <1>1, <1>2, <1>4
  <2>2. f[i] < v
    BY <1>2, <2>1, FirstAreSeen DEF k
  <2>3. f[i] \in 0 .. n - 1
    BY <1>3, <2>1
  <2> QED BY <1>1, <2>1, <2>2, <2>3
<1>6. \A i \in 0 .. k - 1 : f[i] # c
  <2> SUFFICES ASSUME NEW j \in 0 .. k - 1, f[j] = c PROVE FALSE
    OBVIOUS
  <2>1. j \notin 0 .. m - 1
    BY DEF m
  <2>2. m = v
    BY <1>2, <2>1
  <2> DEFINE g == [i \in 0 .. v - 1 |-> f[i]]
  <2>3. g \in [0 .. v - 1 -> 0 .. v - 1]
    BY <1>5, <2>2
  <2>4. \A a, b \in 0 .. v - 1 : g[a] = g[b] => a = b
    BY <1>3, <1>5, <2>2
  <2>5. v \in Nat
    BY <1>1
  <2>6. \E i \in 0 .. v - 1 : g[i] = c
    <3> HIDE DEF g
    <3> QED BY <2>3, <2>4, <2>5, OntoItself
  <2>7. \E i \in 0 .. m - 1 : f[i] = c
    BY <2>2, <2>6
  <2> QED BY <2>7 DEF m
<1>7. row[c] <= row[f[d]]
  <2>1. d \in 0 .. m - 1
    BY DEF m
  <2>2. d \in 0 .. k - 1
    BY <1>5, <2>1
  <2>3. c \in 0 .. n - 1
    BY <1>1
  <2> QED BY ONLY <1>3, <1>6, <2>2, <2>3
<1>8. row[c] = s[c] /\ row[f[d]] = s[f[d]]
  BY <1>1, <1>5 DEF m
<1> QED BY <1>7, <1>8

-----------------------------------------------------------------------------
(* The inductive invariant: what the buffers hold between two kernels. *)
Scored ==
  /\ columns \in 1 .. MaxColumns
  /\ visible \in [Rows -> 0 .. columns]
  /\ score \in [Rows -> [0 .. columns - 1 -> 0 .. MaxScore]]

RowsMasked == \A r \in Rows : IsMasked(logits[r], columns, visible[r], score[r])

IInv ==
  /\ pc \in {"idle", "scored", "masked", "selected"}
  /\ pc # "idle" => Scored
  /\ pc = "scored" => logits = score
  /\ pc = "masked" => RowsMasked
  /\ pc = "selected" /\ Mode = "1" => RowsMasked /\ \A r \in Rows : blocks[r] \in Selections(r)

LEMMA MaskInv ==
  ASSUME IInv, Mask
  PROVE  IInv'
<1>1. /\ Scored /\ logits = score /\ logits' = Masked /\ pc' = "masked"
      /\ UNCHANGED <<env, columns, visible, score, blocks>>
  BY DEF IInv, Mask
<1>2. Scored'
  BY <1>1 DEF Scored
<1>3. RowsMasked'
  <2> SUFFICES ASSUME NEW r \in Rows
               PROVE  IsMasked(logits'[r], columns, visible[r], score[r])
    BY <1>1 DEF RowsMasked
  <2>1. columns \in Nat \ {0} /\ visible[r] \in 0 .. columns
    BY <1>1, TopkAssumption DEF Scored, TopkAssumption
  <2>2. score[r] \in [0 .. columns - 1 -> 0 .. MaxScore]
    BY <1>1 DEF Scored
  <2>3. score[r] \in [0 .. columns - 1 -> Nat]
    BY <2>2, TopkAssumption DEF TopkAssumption
  <2>4. logits'[r] = [c \in 0 .. columns - 1 |->
                        IF c < visible[r] THEN score[r][c] ELSE NegInf]
    BY <1>1 DEF Masked, Sees
  <2>5. /\ logits'[r] \in [0 .. columns - 1 -> Int]
        /\ \A c \in 0 .. columns - 1 :
             logits'[r][c] = IF c < visible[r] THEN score[r][c] ELSE NegInf
    <3>1. \A c \in 0 .. columns - 1 :
            (IF c < visible[r] THEN score[r][c] ELSE NegInf) \in Int
      <4>1. \A c \in 0 .. columns - 1 : score[r][c] \in Nat
        BY <2>3
      <4> QED BY ONLY <4>1 DEF NegInf
    <3> QED BY ONLY <2>4, <3>1
  <2> QED BY <2>1, <2>3, <2>5 DEF IsMasked
<1> QED BY <1>1, <1>2, <1>3 DEF IInv

LEMMA ExactTopkInv ==
  ASSUME IInv, ExactTopk
  PROVE  IInv'
<1>1. /\ Scored /\ RowsMasked /\ pc' = "selected"
      /\ UNCHANGED <<env, columns, visible, score, logits>>
      /\ \A r \in Rows : blocks'[r] \in Selections(r)
  BY DEF IInv, ExactTopk
<1>2. Scored' /\ RowsMasked'
  BY <1>1 DEF Scored, RowsMasked, IsMasked
<1>3. \A r \in Rows : Selections(r)' = Selections(r)
  BY <1>1 DEF Selections
<1>4. \A r \in Rows : (blocks[r] \in Selections(r))'
  BY <1>1, <1>3
<1> QED BY <1>1, <1>2, <1>4 DEF IInv

THEOREM Invariance == Spec => []IInv
<1>1. Init => IInv
  BY DEF Init, IInv
<1>2. IInv /\ [Next]_vars => IInv'
  <2> SUFFICES ASSUME IInv, [Next]_vars PROVE IInv'
    OBVIOUS
  <2>1. CASE Score
    <3>1. pc' = "scored" /\ logits' = score' /\ Scored'
      BY <2>1 DEF Score, Scored
    <3> QED BY <3>1 DEF IInv
  <2>2. CASE Mask
    BY <2>2, MaskInv
  <2>3. CASE ExactTopk
    BY <2>3, ExactTopkInv
  <2>4. CASE StockTopk
    <3>1. /\ Scored /\ pc' = "selected" /\ Mode # "1"
          /\ UNCHANGED <<env, columns, visible, score>>
      BY <2>4 DEF IInv, StockTopk
    <3>2. Scored' /\ Mode' # "1"
      BY <3>1 DEF Scored, Mode
    <3> QED BY <3>1, <3>2 DEF IInv
  <2>5. CASE Expand
    BY <2>5 DEF Expand, IInv
  <2>6. CASE UNCHANGED vars
    <3>1. UNCHANGED <<env, columns, visible, score, logits, blocks, pc>>
      BY <2>6 DEF vars
    <3>2. /\ Scored' <=> Scored
          /\ RowsMasked' <=> RowsMasked
          /\ Mode' = Mode
      BY <3>1 DEF Scored, RowsMasked, IsMasked, Mode
    <3>3. \A r \in Rows : Selections(r)' = Selections(r)
      BY <3>1 DEF Selections
    <3> QED BY <3>1, <3>2, <3>3 DEF IInv
  <2> QED BY <2>1, <2>2, <2>3, <2>4, <2>5, <2>6 DEF Next
<1> QED BY <1>1, <1>2, PTL DEF Spec

-----------------------------------------------------------------------------
(* An exact selection of a row: as many of the columns as there are, up to  *)
(* block_topk, and -1 behind them.                                          *)
LEMMA BlocksFacts ==
  ASSUME IInv, pc = "selected", Mode = "1", NEW r \in Rows
  PROVE  /\ IsMasked(logits[r], columns, visible[r], score[r])
         /\ columns \in Nat \ {0} /\ visible[r] \in 0 .. columns
         /\ \E f : /\ Selects(f, logits[r], columns, Least(BlockTopk, columns))
                   /\ f \in [0 .. Least(BlockTopk, columns) - 1 -> 0 .. columns - 1]
                   /\ \A i \in Slots :
                        blocks[r][i] = IF i \in 0 .. Least(BlockTopk, columns) - 1
                                       THEN f[i] ELSE -1
<1> DEFINE k == Least(BlockTopk, columns)
<1>1. IsMasked(logits[r], columns, visible[r], score[r]) /\ blocks[r] \in Selections(r)
  BY DEF IInv, RowsMasked
<1>2. /\ columns \in Nat \ {0} /\ visible[r] \in 0 .. columns
      /\ logits[r] \in [0 .. columns - 1 -> Int]
  BY <1>1 DEF IsMasked
<1>3. k = (IF BlockTopk <= columns THEN BlockTopk ELSE columns) /\ k \in 0 .. columns
  BY <1>2, TopkAssumption DEF Least, TopkAssumption
<1>4. PICK f \in TopK(logits[r], k) : blocks[r] = Padded(f)
  BY <1>1, <1>3 DEF Selections
<1> HIDE DEF k
<1>5. Selects(f, logits[r], columns, k)
  BY <1>2, <1>3, <1>4, TopKFacts
<1>6. f \in [0 .. k - 1 -> 0 .. columns - 1]
  BY <1>5 DEF Selects
<1>7. \A i \in Slots : blocks[r][i] = IF i \in 0 .. k - 1 THEN f[i] ELSE -1
  BY <1>4, <1>6 DEF Padded
<1> QED BY <1>1, <1>2, <1>5, <1>6, <1>7 DEF k

(* With the exact top-k on, the entries the expansion reads name as many    *)
(* different visible blocks as the row can use, and none that is left out   *)
(* scored higher.                                                           *)
THEOREM SelectionTheorem == Spec => []SelectionExact
<1>1. IInv => SelectionExact
  <2> SUFFICES ASSUME IInv, pc = "selected", Mode = "1", NEW r \in Rows
               PROVE  LET seen == {c \in 0 .. columns - 1 : c < visible[r]}
                          most == IF visible[r] <= BlockTopk THEN visible[r] ELSE BlockTopk
                      IN  /\ ReadEntries(r) \subseteq seen
                          /\ Cardinality(ReadEntries(r)) = most
                          /\ \A c \in seen \ ReadEntries(r) :
                               \A d \in ReadEntries(r) : score[r][c] <= score[r][d]
    BY DEF SelectionExact
  <2> DEFINE k == Least(BlockTopk, columns)
             v == visible[r]
             m == Least(v, BlockTopk)
  <2>1. /\ IsMasked(logits[r], columns, v, score[r])
        /\ columns \in Nat \ {0} /\ v \in 0 .. columns
    BY BlocksFacts
  <2>2. PICK f : /\ Selects(f, logits[r], columns, k)
                 /\ f \in [0 .. k - 1 -> 0 .. columns - 1]
                 /\ \A i \in Slots : blocks[r][i] = IF i \in 0 .. k - 1 THEN f[i] ELSE -1
    BY BlocksFacts
  <2>3. BlockTopk \in Nat
    BY TopkAssumption DEF TopkAssumption
  <2>4. /\ k \in 0 .. columns /\ m \in Nat
        /\ \A i \in 0 .. m - 1 : i \in 0 .. k - 1 /\ i \in Slots /\ i < v
        /\ \A i \in Slots : i < v => i \in 0 .. m - 1
    BY <2>1, <2>3 DEF Least, Slots
  <2>5. m = IF v <= BlockTopk THEN v ELSE BlockTopk
    BY DEF Least
  <2> HIDE DEF k, m, v
  <2>6. ReadEntries(r) = {f[i] : i \in 0 .. m - 1}
    <3>1. \A i \in 0 .. m - 1 : blocks[r][i] = f[i]
      BY <2>2, <2>4
    <3>2. ReadEntries(r) = {blocks[r][i] : i \in {j \in Slots : j < v}}
      BY DEF ReadEntries, v
    <3> QED BY <2>4, <3>1, <3>2
  <2>7. \A i \in 0 .. m - 1 : f[i] \in 0 .. columns - 1 /\ f[i] < v
    BY <2>1, <2>2, <2>4, FirstAreSeen
  <2>8. Cardinality(ReadEntries(r)) = m
    <3>1. \A i, j \in 0 .. m - 1 : f[i] = f[j] => i = j
      BY <2>2, <2>4 DEF Selects
    <3> QED BY <2>4, <2>6, <3>1, EntriesCount
  <2>9. ASSUME NEW c \in 0 .. columns - 1, c < v, c \notin ReadEntries(r),
               NEW d \in ReadEntries(r)
        PROVE  score[r][c] <= score[r][d]
    <3>1. PICK i \in 0 .. m - 1 : d = f[i]
      BY <2>6
    <3>2. c \in 0 .. v - 1 /\ \A j \in 0 .. m - 1 : f[j] # c
      BY <2>1, <2>6, <2>9
    <3> QED BY <2>1, <2>2, <2>3, <3>1, <3>2, LeftOutScoredLess DEF k, m
  <2> QED BY <2>5, <2>6, <2>7, <2>8, <2>9 DEF v
<1> QED BY <1>1, Invariance, PTL

(* No entry of an exact selection is left from an earlier call. *)
THEOREM StaleTheorem == Spec => []NothingStale
<1>1. IInv => NothingStale
  <2> SUFFICES ASSUME IInv, pc = "selected", Mode = "1", NEW r \in Rows, NEW i \in Slots
               PROVE  blocks[r][i] \in -1 .. columns - 1
    BY DEF NothingStale
  <2> DEFINE k == Least(BlockTopk, columns)
  <2>1. columns \in Nat \ {0}
    BY BlocksFacts
  <2>2. PICK f : /\ f \in [0 .. k - 1 -> 0 .. columns - 1]
                 /\ \A j \in Slots : blocks[r][j] = IF j \in 0 .. k - 1 THEN f[j] ELSE -1
    BY BlocksFacts
  <2> HIDE DEF k
  <2> QED BY <2>1, <2>2
<1> QED BY <1>1, Invariance, PTL
=============================================================================
