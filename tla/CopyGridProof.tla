---------------------------- MODULE CopyGridProof ----------------------------
(***************************************************************************)
(* Proofs about CopyGrid for any rows, state tensors, tiles, block size    *)
(* and draft shorter than a block, whatever the order of the programs.     *)
(***************************************************************************)
EXTENDS CopyGrid, FiniteSetTheorems, TLAPS

-----------------------------------------------------------------------------
(* Arithmetic of blocks. *)

LEMMA Consts == /\ BlockSize \in Nat \ {0} /\ NumSpec \in Nat /\ NumSpec < BlockSize
                /\ MaxTokens \in Nat /\ Rows \subseteq Nat /\ ConvStates \subseteq States
                /\ 0 \in Rows /\ 0 \in States /\ 0 \in Tiles
BY GridAssumption DEF GridAssumption

LEMMA DivFacts ==
  ASSUME NEW x \in Int
  PROVE  /\ x \div BlockSize \in Int
         /\ (x \div BlockSize) * BlockSize \in Int
         /\ (x \div BlockSize) * BlockSize <= x
         /\ x < (x \div BlockSize) * BlockSize + BlockSize
         /\ x % BlockSize = x - (x \div BlockSize) * BlockSize
BY Consts

LEMMA MulLess ==
  ASSUME NEW a \in Int, NEW b \in Int, a < b
  PROVE  a * BlockSize + BlockSize <= b * BlockSize
<1>1. BlockSize \in Nat
  BY Consts
<1>2. (a + 1) * BlockSize = a * BlockSize + BlockSize
  BY <1>1
<1>3. (a + 1) * BlockSize <= b * BlockSize
  BY <1>1
<1> QED BY <1>2, <1>3

(* A quotient is known by the block its number lies in. *)
LEMMA DivAtLeast ==
  ASSUME NEW x \in Int, NEW q \in Int, q * BlockSize <= x
  PROVE  q <= x \div BlockSize
<1> DEFINE d == x \div BlockSize
<1>1. d \in Int /\ d * BlockSize \in Int /\ x < d * BlockSize + BlockSize
  BY DivFacts
<1>2. BlockSize \in Nat
  BY Consts
<1> HIDE DEF d
<1> SUFFICES ASSUME d < q PROVE FALSE
  BY <1>1 DEF d
<1>3. d * BlockSize + BlockSize <= q * BlockSize /\ q * BlockSize \in Int
  BY <1>1, <1>2, MulLess
<1> QED BY <1>1, <1>2, <1>3

LEMMA DivMono ==
  ASSUME NEW x \in Int, NEW y \in Int, x <= y
  PROVE  x \div BlockSize <= y \div BlockSize
<1>1. x \div BlockSize \in Int /\ (x \div BlockSize) * BlockSize \in Int
      /\ (x \div BlockSize) * BlockSize <= x
  BY DivFacts
<1>2. (x \div BlockSize) * BlockSize <= y
  BY <1>1
<1> QED BY <1>1, <1>2, DivAtLeast

(* A multiple of the block size. *)
LEMMA Multiple ==
  ASSUME NEW q \in Int
  PROVE  (q * BlockSize) \div BlockSize = q /\ (q * BlockSize) % BlockSize = 0
<1> DEFINE x == q * BlockSize
           d == x \div BlockSize
<1>1. x \in Int /\ BlockSize \in Nat \ {0}
  BY Consts
<1>2. d \in Int /\ d * BlockSize \in Int /\ d * BlockSize <= x
      /\ x < d * BlockSize + BlockSize /\ x % BlockSize = x - d * BlockSize
  BY <1>1, DivFacts
<1>3. q <= d
  BY <1>1, DivAtLeast
<1>4. ~ (q < d)
  <2> HIDE DEF d
  <2> SUFFICES ASSUME q < d PROVE FALSE
    OBVIOUS
  <2>1. q * BlockSize + BlockSize <= d * BlockSize
    BY <1>2, MulLess
  <2> QED BY <2>1, <1>1, <1>2
<1>5. d = q
  BY <1>2, <1>3, <1>4
<1> HIDE DEF d
<1>6. x % BlockSize = 0
  BY <1>1, <1>2, <1>5
<1> QED BY <1>5, <1>6 DEF d

LEMMA CdivFacts ==
  ASSUME NEW n \in Nat
  PROVE  /\ Cdiv(n) \in Nat
         /\ n <= Cdiv(n) * BlockSize /\ Cdiv(n) * BlockSize \in Int
         /\ n > 0 => Cdiv(n) > 0
<1> DEFINE x == n + BlockSize - 1
           d == x \div BlockSize
<1>1. BlockSize \in Nat \ {0} /\ x \in Int
  BY Consts
<1>2. d \in Int /\ d * BlockSize \in Int /\ x < d * BlockSize + BlockSize
  BY <1>1, DivFacts
<1>3. 0 * BlockSize <= x /\ (n > 0 => 1 * BlockSize <= x)
  BY <1>1
<1>4. 0 <= d /\ (n > 0 => 1 <= d)
  BY <1>1, <1>3, DivAtLeast
<1>5. Cdiv(n) = d
  BY DEF Cdiv
<1> HIDE DEF d
<1> QED BY <1>1, <1>2, <1>4, <1>5

LEMMA CdivMono ==
  ASSUME NEW m \in Nat, NEW n \in Nat, m <= n
  PROVE  Cdiv(m) <= Cdiv(n)
BY Consts, DivMono DEF Cdiv

-----------------------------------------------------------------------------
(* What a step of a request asks for. *)

Last == Cdiv(MaxTokens)

(* A copy from a column to a column, its bias not past a draft. *)
IsCopy(m) ==
  /\ m.src \in Cols /\ m.dst \in Cols /\ m.bias \in 0 .. NumSpec
  /\ m.src + m.bias \in Cols
  /\ m = [src |-> m.src, dst |-> m.dst, bias |-> m.bias]

LEMMA ColsFacts == Last \in Nat /\ Cols = 0 .. Last + NumSpec
BY Consts, CdivFacts DEF Last, Cols

LEMMA StepFacts ==
  ASSUME NEW g \in Steps
  PROVE  /\ g.computed \in Nat /\ g.scheduled \in Nat /\ g.draft \in Nat
         /\ g.accepted \in 1 .. NumSpec + 1
         /\ Running(g) \in Nat \ {0}
         /\ NewComputed(g) \in Nat \ {0}
         /\ NewComputed(g) = Running(g) + g.accepted - 1
         /\ NewComputed(g) <= g.computed + g.scheduled
         /\ NewComputed(g) <= MaxTokens
         /\ StateCol(g) \in 0 .. Last - 1
<1>1. /\ g.computed \in 0 .. MaxTokens /\ g.scheduled \in 1 .. MaxTokens - g.computed
      /\ g.draft \in 0 .. NumSpec /\ g.accepted \in 1 .. NumSpec + 1
      /\ g.accepted <= g.draft + 1
      /\ g.draft > 0 => g.scheduled = 1 + g.draft
  BY DEF Steps, Spans
<1>2. /\ Running(g) = g.computed + g.scheduled - g.draft
      /\ NewComputed(g) = Running(g) + g.accepted - 1
      /\ StateCol(g) = Cdiv(g.computed + g.scheduled) - 1
  BY DEF Running, NewComputed, StateCol
<1> DEFINE n == g.computed + g.scheduled
<1>3. n \in Nat /\ n > 0 /\ n <= MaxTokens
  BY <1>1, Consts
<1>4. Cdiv(n) \in 1 .. Last
  <2>2. Cdiv(n) \in Nat /\ Cdiv(n) > 0
    BY <1>3, CdivFacts
  <2>3. Cdiv(n) <= Last /\ Last \in Nat
    BY <1>3, CdivMono, ColsFacts, Consts DEF Last
  <2> HIDE DEF n
  <2> QED BY <2>2, <2>3
<1>5. StateCol(g) \in 0 .. Last - 1
  BY <1>2, <1>4, ColsFacts
<1>a. /\ g.computed \in Nat /\ g.scheduled \in Nat /\ g.draft \in Nat
      /\ g.accepted \in Nat \ {0}
  BY <1>1, Consts
<1>6. Running(g) \in Nat \ {0}
  <2>1. g.scheduled - g.draft \in Nat \ {0}
    BY <1>1, <1>a, Consts
  <2> QED BY ONLY <1>2, <1>a, <2>1
<1>7. /\ NewComputed(g) \in Nat \ {0}
      /\ NewComputed(g) <= n
  <2>1. Running(g) \in Int /\ Running(g) >= 1
    BY <1>6
  <2>2. g.accepted \in Int /\ g.accepted >= 1 /\ g.accepted <= g.draft + 1
    BY <1>1, <1>a
  <2> QED BY ONLY <1>2, <1>a, <2>1, <2>2
<1>8. NewComputed(g) <= MaxTokens
  BY <1>3, <1>7, Consts
<1> QED BY <1>1, <1>2, <1>5, <1>6, <1>7, <1>8, Consts

(* The accepted tokens reach at most one boundary, the last one not past    *)
(* them: a draft is shorter than a block.                                   *)
LEMMA BoundaryFacts ==
  ASSUME NEW g \in Steps, NEW al, al = (NewComputed(g) \div BlockSize) * BlockSize
  PROVE  /\ al \in Nat
         /\ Boundaries(g) = IF al >= Running(g) THEN {al} ELSE {}
<1> DEFINE N == NewComputed(g)
           R == Running(g)
           q == N \div BlockSize
<1>1. /\ N \in Nat /\ R \in Nat /\ R <= N /\ N - R < BlockSize
      /\ BlockSize \in Nat \ {0}
  BY StepFacts, Consts
<1>2. /\ q \in Int /\ al \in Int /\ al <= N /\ N < al + BlockSize
      /\ al % BlockSize = 0 /\ al = q * BlockSize
  <2>1. N \in Int
    BY <1>1
  <2>2. q \in Int /\ q * BlockSize \in Int /\ q * BlockSize <= N
        /\ N < q * BlockSize + BlockSize
    BY <2>1, DivFacts
  <2>3. (q * BlockSize) % BlockSize = 0
    BY <2>2, Multiple
  <2>4. al = q * BlockSize
    OBVIOUS
  <2> HIDE DEF q, N
  <2> QED BY ONLY <2>2, <2>3, <2>4
<1>3. 0 <= q
  <2>1. 0 * BlockSize <= N
    BY <1>1
  <2> QED BY <1>1, <2>1, DivAtLeast
<1>4. al \in Nat
  <2> HIDE DEF q
  <2> QED BY <1>1, <1>2, <1>3
<1>5. Boundaries(g) = {n \in R .. N : n % BlockSize = 0}
  BY DEF Boundaries
<1> HIDE DEF N, R, q
<1>6. ASSUME NEW n \in R .. N, n % BlockSize = 0
      PROVE  n = al
  <2> DEFINE d == n \div BlockSize
  <2>1. d \in Int /\ n = d * BlockSize /\ n \in Int
    BY <1>1, <1>6, DivFacts
  <2>2. ~ (d < q)
    <3> HIDE DEF d
    <3> SUFFICES ASSUME d < q PROVE FALSE
      OBVIOUS
    <3>1. d * BlockSize + BlockSize <= q * BlockSize
      BY <1>2, <2>1, MulLess
    <3> QED BY <3>1, <1>1, <1>2, <1>6, <2>1
  <2>3. ~ (q < d)
    <3> HIDE DEF d
    <3> SUFFICES ASSUME q < d PROVE FALSE
      OBVIOUS
    <3>1. q * BlockSize + BlockSize <= d * BlockSize
      BY <1>2, <2>1, MulLess
    <3> QED BY <3>1, <1>1, <1>2, <1>6, <2>1
  <2>4. d = q
    BY <1>2, <2>1, <2>2, <2>3
  <2> QED BY <1>2, <2>1, <2>4
<1>7. al >= R => al \in R .. N
  BY <1>1, <1>2
<1>8. Boundaries(g) = IF al >= R THEN {al} ELSE {}
  BY <1>1, <1>2, <1>5, <1>6, <1>7
<1> QED BY <1>4, <1>8 DEF R

(* The one copy of a step that reaches a boundary. *)
SaveOf(g) ==
  [src |-> StateCol(g), dst |-> NewComputed(g) \div BlockSize - 1,
   bias |-> (NewComputed(g) \div BlockSize) * BlockSize - Running(g)]

LEMMA SavesFacts ==
  ASSUME NEW g \in Steps
  PROVE  /\ Saves(g) = IF (NewComputed(g) \div BlockSize) * BlockSize >= Running(g)
                       THEN {SaveOf(g)} ELSE {}
         /\ (NewComputed(g) \div BlockSize) * BlockSize >= Running(g) => IsCopy(SaveOf(g))
<1> DEFINE N == NewComputed(g)
           R == Running(g)
           q == N \div BlockSize
           al == q * BlockSize
<1>1. al \in Nat /\ Boundaries(g) = IF al >= R THEN {al} ELSE {}
  BY BoundaryFacts
<1>2. /\ N \in Nat /\ R \in Nat \ {0} /\ N = R + g.accepted - 1
      /\ g.accepted \in 1 .. NumSpec + 1
      /\ StateCol(g) \in 0 .. Last - 1
      /\ g.computed \in Nat /\ g.scheduled \in Nat /\ N <= g.computed + g.scheduled
  BY StepFacts
<1>3. q \in Int /\ al <= N /\ al \div BlockSize = q
  BY <1>2, DivFacts, Multiple
<1>4. Saves(g) = IF al >= R THEN {SaveOf(g)} ELSE {}
  BY <1>1, <1>3 DEF Saves, SaveOf
<1>5. ASSUME al >= R PROVE IsCopy(SaveOf(g))
  <2>1. q >= 1
    <3> SUFFICES ASSUME q <= 0 PROVE FALSE
      BY <1>3
    <3> HIDE DEF q
    <3>1. q * BlockSize <= 0
      BY <1>3, Consts
    <3> QED BY <3>1, <1>1, <1>2, <1>5
  <2>2. q - 1 <= StateCol(g)
    <3> DEFINE n == g.computed + g.scheduled
               x == n + BlockSize - 1
    <3>1. n \in Nat /\ x \in Int /\ N <= x
      BY <1>2, Consts
    <3>2. q <= x \div BlockSize
      BY <1>2, <3>1, DivMono
    <3>3. StateCol(g) = x \div BlockSize - 1 /\ x \div BlockSize \in Int
      BY <3>1, DivFacts DEF StateCol, Cdiv
    <3> HIDE DEF q, x
    <3> QED BY <1>3, <3>2, <3>3
  <2>3. al - R \in 0 .. NumSpec
    <3> HIDE DEF al, N, R
    <3> QED BY <1>1, <1>2, <1>3, <1>5, Consts
  <2>4. SaveOf(g) = [src |-> StateCol(g), dst |-> q - 1, bias |-> al - R]
    BY DEF SaveOf
  <2>5. /\ SaveOf(g).src = StateCol(g) /\ SaveOf(g).dst = q - 1
        /\ SaveOf(g).bias = al - R
    BY <2>4
  <2> HIDE DEF q, al, R, N
  <2>6. /\ StateCol(g) \in Cols /\ q - 1 \in Cols
        /\ StateCol(g) + (al - R) \in Cols
    <3>1. /\ StateCol(g) \in 0 .. Last - 1 /\ q \in Int /\ Last \in Nat
          /\ Cols = 0 .. Last + NumSpec /\ NumSpec \in Nat
      BY <1>2, <1>3, ColsFacts, Consts
    <3> QED BY ONLY <2>1, <2>2, <2>3, <3>1
  <2> QED BY <2>3, <2>4, <2>5, <2>6 DEF IsCopy
<1> QED BY <1>4, <1>5

(* Where the next tokens take a request. *)
LEMMA AdvanceFacts ==
  ASSUME NEW a \in Advances
  PROVE  /\ a.idx \in (0 .. Last - 1) \cup {-1}
         /\ a.next \in Cols
         /\ a.accepted \in 1 .. NumSpec + 1
<1>1. PICK w \in Standing : \E n \in Spans(w.computed) :
        a = [idx |-> w.idx, accepted |-> w.accepted, next |-> Cdiv(w.computed + n) - 1]
  BY DEF Advances
<1>a. PICK n \in Spans(w.computed) :
        a = [idx |-> w.idx, accepted |-> w.accepted, next |-> Cdiv(w.computed + n) - 1]
  BY <1>1
<1>2. /\ w.idx \in (0 .. Last - 1) \cup {-1}
      /\ w.accepted \in 1 .. NumSpec + 1
      /\ w.computed \in Nat /\ w.computed <= MaxTokens
  <2>1. CASE w = Fresh
    BY <2>1, Consts, ColsFacts DEF Fresh
  <2>2. CASE w # Fresh
    <3>1. PICK g \in Steps : w = LeftBy(g)
      BY <2>2 DEF Standing
    <3>2. /\ w.idx = StateCol(g) /\ w.computed = NewComputed(g)
          /\ w.accepted = IF SavedInPlace(g) THEN 1 ELSE g.accepted
      BY <3>1 DEF LeftBy
    <3> QED BY <3>2, StepFacts, Consts
  <2> QED BY <2>1, <2>2
<1>3. a.idx = w.idx /\ a.accepted = w.accepted /\ a.next = Cdiv(w.computed + n) - 1
  BY <1>a
<1> DEFINE x == w.computed + n
<1>4. x \in Nat /\ x > 0 /\ x <= MaxTokens
  BY <1>2, Consts DEF Spans
<1>5. Cdiv(x) \in Nat /\ Cdiv(x) > 0
  BY <1>4, CdivFacts
<1>6. Cdiv(x) <= Last
  BY <1>4, CdivMono, Consts DEF Last
<1>7. Cdiv(x) - 1 \in Cols
  <2> HIDE DEF x
  <2> QED BY <1>5, <1>6, ColsFacts, Consts
<1> QED BY <1>2, <1>3, <1>7

(* The copy that takes a request's state along. *)
MoveOf(a) == [src |-> a.idx, dst |-> a.next, bias |-> a.accepted - 1]

LEMMA MovesFacts ==
  ASSUME NEW a \in Advances
  PROVE  /\ Moves(a) = IF a.idx >= 0 /\ a.idx # a.next THEN {MoveOf(a)} ELSE {}
         /\ a.idx >= 0 => IsCopy(MoveOf(a))
<1>1. /\ MoveOf(a) = [src |-> a.idx, dst |-> a.next, bias |-> a.accepted - 1]
      /\ MoveOf(a).src = a.idx /\ MoveOf(a).dst = a.next /\ MoveOf(a).bias = a.accepted - 1
  BY DEF MoveOf
<1>2. Moves(a) = {m \in {MoveOf(a)} : m.src >= 0 /\ m.src # m.dst}
  BY <1>1 DEF Moves
<1>3. Moves(a) = IF a.idx >= 0 /\ a.idx # a.next THEN {MoveOf(a)} ELSE {}
  BY <1>1, <1>2
<1>4. ASSUME a.idx >= 0 PROVE IsCopy(MoveOf(a))
  <2>1. /\ a.idx \in 0 .. Last - 1 /\ a.next \in Cols
        /\ a.accepted \in 1 .. NumSpec + 1
    BY <1>4, AdvanceFacts
  <2>2. /\ a.idx \in Cols /\ a.accepted - 1 \in 0 .. NumSpec
        /\ a.idx + (a.accepted - 1) \in Cols
    BY <2>1, ColsFacts, Consts
  <2> QED BY <1>1, <2>1, <2>2 DEF IsCopy
<1> QED BY <1>3, <1>4

-----------------------------------------------------------------------------
(* The inductive invariant. *)

(* What the kernels read of a slot says what its step asks for. *)
Ordered(slot) ==
  IF kind = "precopy"
  THEN /\ given[slot] \in Advances
       /\ PrecopyJob(slot) = Moves(given[slot])
       /\ num_accepted[slot] = IF Moves(given[slot]) = {} THEN given[slot].accepted ELSE 1
  ELSE given[slot] \in Steps /\ CountRead(slot) = given[slot].accepted

MapOK == idx_mapping \in [Rows -> Slots \cup {-1}]

OrdersOK ==
  kind # "idle" =>
    /\ \A r, q \in Rows : idx_mapping[r] = idx_mapping[q] /\ idx_mapping[r] >= 0 => r = q
    /\ \A row \in Rows : idx_mapping[row] >= 0 => Ordered(idx_mapping[row])

(* The count a launch leaves, and what it is while programs still run. *)
CountWritten(slot) == IF runner = "V1" THEN num_accepted_out[slot] ELSE num_accepted[slot]

CountsNow ==
  kind = "postprocess" =>
    \A row \in Rows : idx_mapping[row] >= 0 =>
      CountWritten(idx_mapping[row]) =
        IF <<row, 0, 0>> \in done /\ SavedInPlace(given[idx_mapping[row]])
        THEN 1 ELSE given[idx_mapping[row]].accepted

(* A part of a block is as it was until the one program that writes it ran. *)
Moved(s, b, k) ==
  /\ <<b[1], s, k>> \in done /\ CopiesPart(<<b[1], s, k>>)
  /\ \E m \in Asked(b[1]) : m.dst = b[2] /\ ~ Refused(b[1], s, m)

PartNow(s, b, k) ==
  IF Moved(s, b, k)
  THEN LET m == CHOOSE n \in Asked(b[1]) : TRUE
       IN  [from |-> <<b[1], SourceCol(s, m)>>,
            shift |-> IF s \in ConvStates THEN m.bias ELSE 0]
  ELSE [from |-> b, shift |-> 0]

MemNow ==
  kind # "idle" =>
    \A s \in States : \A b \in Blocks : \A k \in Tiles : mem[s][b][k] = PartNow(s, b, k)

(* The programs that have found an id out of range. *)
Hitting(S) == {p \in S : \E m \in Asked(p[1]) : Skips(p, m)}
HitsNow == kind # "idle" => guard_hits = Cardinality(Hitting(done))

IdleNow == kind = "idle" => mem = Untouched /\ done = {} /\ guard_hits = 0

IInv == TypeOK /\ OrdersOK /\ CountsNow /\ MemNow /\ HitsNow /\ IdleNow

-----------------------------------------------------------------------------
(* The kernels do what is asked. *)

LEMMA MapFacts == TypeOK => MapOK
BY DEF TypeOK, MapOK

LEMMA SlotFacts ==
  ASSUME MapOK, NEW row \in Rows
  PROVE  /\ idx_mapping[row] \in Int
         /\ idx_mapping[row] >= 0 <=> ~ (idx_mapping[row] < 0)
         /\ idx_mapping[row] >= 0 => idx_mapping[row] \in Rows
<1>1. idx_mapping[row] \in Rows \/ idx_mapping[row] = -1
  BY DEF MapOK, Slots
<1>2. \A x \in Rows : x \in Int
  BY Consts
<1>3. idx_mapping[row] \in Int
  BY <1>1, <1>2
<1> QED BY <1>1, <1>3

(* A row asks for one copy at most, within its columns. *)
LEMMA AskedFacts ==
  ASSUME MapOK, OrdersOK, kind # "idle", NEW row \in Rows
  PROVE  /\ \A m \in Asked(row) : IsCopy(m)
         /\ \A m, n \in Asked(row) : m = n
<1> DEFINE slot == idx_mapping[row]
<1>1. CASE slot < 0
  BY <1>1 DEF Asked
<1>2. CASE ~ (slot < 0)
  <2>1. slot >= 0
    BY <1>2, SlotFacts
  <2>2. Ordered(slot)
    BY <2>1 DEF OrdersOK
  <2>3. CASE kind = "precopy"
    <3>1. given[slot] \in Advances /\ Asked(row) = Moves(given[slot])
      BY <1>2, <2>2, <2>3 DEF Ordered, Asked
    <3> HIDE DEF slot
    <3> QED BY <3>1, MovesFacts
  <2>4. CASE kind # "precopy"
    <3>1. /\ given[slot] \in Steps
          /\ Asked(row) = {m \in Saves(given[slot]) : m.src # m.dst \/ m.bias # 0}
      BY <1>2, <2>2, <2>4 DEF Ordered, Asked
    <3> HIDE DEF slot
    <3> QED BY <3>1, SavesFacts
  <2> QED BY <2>3, <2>4
<1> QED BY <1>1, <1>2

(* The copy a postprocess kernel works out is the one its step asks for. *)
LEMMA PostJobFacts ==
  ASSUME NEW slot, given[slot] \in Steps, CountRead(slot) = given[slot].accepted
  PROVE  PostJob(slot) = Saves(given[slot])
<1> DEFINE g == given[slot]
           q == NewComputed(g) \div BlockSize
<1>1. /\ Running(g) \in Nat \ {0} /\ g.accepted \in 1 .. NumSpec + 1
      /\ NewComputed(g) = Running(g) + g.accepted - 1
  BY StepFacts
<1>2. RunningRead(slot) = Running(g)
  BY <1>1, Consts DEF RunningRead
<1>3. AlignedNew(slot) = q * BlockSize
  BY <1>1, <1>2 DEF AlignedNew
<1>4. q \in Int /\ AlignedNew(slot) \div BlockSize = q
  <2>1. NewComputed(g) \in Int
    BY <1>1, Consts
  <2>2. q \in Int
    BY <2>1, DivFacts
  <2> QED BY <1>3, <2>2, Multiple
<1>5. /\ NeedsCopy(slot) <=> q * BlockSize >= Running(g)
      /\ DestCol(slot) = q - 1
  BY <1>2, <1>3, <1>4 DEF NeedsCopy, DestCol
<1>6. PostJob(slot) = IF q * BlockSize >= Running(g) THEN {SaveOf(g)} ELSE {}
  BY <1>2, <1>3, <1>5 DEF PostJob, SaveOf
<1> QED BY <1>6, SavesFacts

LEMMA JobFacts ==
  ASSUME TypeOK, OrdersOK, kind # "idle", NEW row \in Rows
  PROVE  Job(row) = Asked(row)
<1> DEFINE slot == idx_mapping[row]
<1>1. CASE slot < 0
  BY <1>1 DEF Asked, Job
<1>2. CASE ~ (slot < 0)
  <2>1. slot >= 0
    BY <1>2, MapFacts, SlotFacts
  <2>2. Ordered(slot)
    BY <2>1 DEF OrdersOK
  <2>3. CASE kind = "precopy"
    BY <1>2, <2>2, <2>3 DEF Ordered, Asked, Job
  <2>4. CASE kind # "precopy"
    <3>1. PostJob(slot) = Saves(given[slot])
      BY <2>2, <2>4, PostJobFacts DEF Ordered
    <3> QED BY <1>2, <2>4, <3>1 DEF Asked, Job
  <2> QED BY <2>3, <2>4
<1> QED BY <1>1, <1>2

(* The count is written for the steps whose state is saved in place. *)
LEMMA WritesCountFacts ==
  ASSUME TypeOK, OrdersOK, kind # "idle", NEW p \in Programs
  PROVE  WritesCount(p) <=> /\ kind = "postprocess" /\ p[2] = 0 /\ p[3] = 0
                            /\ idx_mapping[p[1]] >= 0
                            /\ SavedInPlace(given[idx_mapping[p[1]]])
<1> DEFINE slot == idx_mapping[p[1]]
<1>1. p[1] \in Rows
  BY DEF Programs
<1>2. CASE kind = "postprocess" /\ slot >= 0
  <2>1. Ordered(slot)
    BY <1>1, <1>2 DEF OrdersOK
  <2>2. PostJob(slot) = Saves(given[slot])
    BY <1>2, <2>1, PostJobFacts DEF Ordered
  <2> QED BY <1>2, <2>2 DEF WritesCount, SavedInPlace
<1>3. CASE ~ (kind = "postprocess" /\ slot >= 0)
  BY <1>3 DEF WritesCount
<1> QED BY <1>2, <1>3

LEMMA BlockOfFacts ==
  ASSUME NEW s, NEW row, NEW col
  PROVE  BlockOf(s, row, col) = IF <<Group[s], row, col>> \in wild THEN {} ELSE {<<row, col>>}
BY DEF BlockOf, TableRow

(* A program skips its copy for the ids out of range that it looks at. *)
LEMMA SkipsFacts ==
  ASSUME NEW p, NEW m
  PROVE  /\ Skips(p, m) <=>
              \/ <<Group[p[2]], p[1], m.dst>> \in wild
              \/ CopiesPart(p) /\ <<Group[p[2]], p[1], SourceCol(p[2], m)>> \in wild
         /\ CopiesPart(p) => (Skips(p, m) <=> Refused(p[1], p[2], m))
         /\ Skips(p, m) => Refused(p[1], p[2], m)
<1>1. \A col : BlockOf(p[2], p[1], col) = {} <=> <<Group[p[2]], p[1], col>> \in wild
  BY BlockOfFacts
<1>2. Skips(p, m) <=>
        \/ <<Group[p[2]], p[1], m.dst>> \in wild
        \/ CopiesPart(p) /\ <<Group[p[2]], p[1], SourceCol(p[2], m)>> \in wild
  BY <1>1 DEF Skips
<1>3. Refused(p[1], p[2], m) <=>
        \/ <<Group[p[2]], p[1], m.dst>> \in wild
        \/ <<Group[p[2]], p[1], SourceCol(p[2], m)>> \in wild
  BY DEF Refused
<1> QED BY <1>2, <1>3

LEMMA ChosenFacts ==
  ASSUME TypeOK, OrdersOK, kind # "idle", NEW row \in Rows, NEW m \in Asked(row)
  PROVE  (CHOOSE n \in Asked(row) : TRUE) = m
<1>1. (CHOOSE n \in Asked(row) : TRUE) \in Asked(row)
  OBVIOUS
<1> QED BY <1>1, MapFacts, AskedFacts

LEMMA ProgramFacts ==
  ASSUME NEW p \in Programs
  PROVE  p[1] \in Rows /\ p[2] \in States /\ p[3] \in Tiles /\ p = <<p[1], p[2], p[3]>>
BY DEF Programs

LEMMA BlockFacts ==
  ASSUME NEW b \in Blocks
  PROVE  b[1] \in Rows /\ b[2] \in Cols /\ b = <<b[1], b[2]>>
BY DEF Blocks

LEMMA SourceFacts ==
  ASSUME NEW s, NEW m, IsCopy(m)
  PROVE  SourceCol(s, m) \in Cols
BY DEF IsCopy, SourceCol

-----------------------------------------------------------------------------
(* What one program writes. *)

(* The part a copy brings. *)
Brought(p, m) ==
  [from |-> <<p[1], SourceCol(p[2], m)>>, shift |-> IF p[2] \in ConvStates THEN m.bias ELSE 0]

(* Its source has not been written: only this program writes that part of   *)
(* the row's blocks.                                                        *)
LEMMA SourceUntouched ==
  ASSUME MemNow, kind # "idle", NEW p \in Programs, p \notin done, NEW col \in Cols
  PROVE  mem[p[2]][<<p[1], col>>][p[3]] = [from |-> <<p[1], col>>, shift |-> 0]
<1> DEFINE a == <<p[1], col>>
<1>1. a \in Blocks /\ a[1] = p[1] /\ p[2] \in States /\ p[3] \in Tiles
  BY ProgramFacts DEF Blocks
<1>2. <<a[1], p[2], p[3]>> = p
  BY <1>1, ProgramFacts
<1>3. ~ Moved(p[2], a, p[3])
  BY <1>2 DEF Moved
<1>4. mem[p[2]][a][p[3]] = PartNow(p[2], a, p[3])
  BY <1>1 DEF MemNow
<1> QED BY <1>3, <1>4 DEF PartNow

LEMMA WrittenCopy ==
  ASSUME TypeOK, OrdersOK, MemNow, kind # "idle", NEW p \in Programs, p \notin done,
         NEW m \in Asked(p[1]), CopiesPart(p), ~ Skips(p, m)
  PROVE  Written(p) =
           [b \in Blocks |-> IF b = <<p[1], m.dst>>
                             THEN [mem[p[2]][b] EXCEPT ![p[3]] = Brought(p, m)]
                             ELSE mem[p[2]][b]]
<1> DEFINE row == p[1]
           s == p[2]
           a == <<row, SourceCol(s, m)>>
<1>1. row \in Rows /\ s \in States /\ p[3] \in Tiles
  BY ProgramFacts
<1>2. Job(row) = Asked(row) /\ (CHOOSE i \in Job(row) : TRUE) = m
  BY <1>1, JobFacts, ChosenFacts
<1>3. IsCopy(m) /\ \A n \in Asked(row) : n = m
  BY <1>1, MapFacts, AskedFacts
<1>4. SourceCol(s, m) \in Cols
  BY <1>3, SourceFacts
<1>5. mem[s][a][p[3]] = [from |-> a, shift |-> 0]
  BY <1>4, SourceUntouched
<1>6. Shifted(s, mem[s][a][p[3]], m.bias) = Brought(p, m)
  <2>1. m.bias \in Int
    BY <1>3, Consts DEF IsCopy
  <2>2. Brought(p, m) = [from |-> a, shift |-> IF s \in ConvStates THEN m.bias ELSE 0]
    BY DEF Brought
  <2>3. Shifted(s, [from |-> a, shift |-> 0], m.bias)
          = [from |-> a, shift |-> IF s \in ConvStates THEN m.bias ELSE 0]
    BY <2>1 DEF Shifted
  <2> QED BY <1>5, <2>2, <2>3
<1>7. BlockOf(s, row, m.dst) = {<<row, m.dst>>}
  BY BlockOfFacts DEF Skips
<1>8. \A b : (\E j \in Job(row) : ~ Skips(p, j) /\ CopiesPart(p) /\ b \in BlockOf(s, row, j.dst))
               <=> b = <<row, m.dst>>
  BY <1>2, <1>3, <1>7
<1>9. TableRow(row) = row
  BY DEF TableRow
<1> QED BY <1>2, <1>6, <1>8, <1>9 DEF Written

LEMMA WrittenNothing ==
  ASSUME TypeOK, OrdersOK, kind # "idle", NEW p \in Programs,
         \A m \in Asked(p[1]) : CopiesPart(p) => Skips(p, m)
  PROVE  Written(p) = mem[p[2]]
<1>1. p[1] \in Rows /\ p[2] \in States
  BY ProgramFacts
<1>2. Job(p[1]) = Asked(p[1])
  BY <1>1, JobFacts
<1>3. Written(p) = [b \in Blocks |-> mem[p[2]][b]]
  BY <1>2 DEF Written
<1>4. mem[p[2]] \in [Blocks -> [Tiles -> [from : Blocks, shift : 0 .. NumSpec]]]
  BY <1>1 DEF TypeOK
<1> QED BY <1>3, <1>4

-----------------------------------------------------------------------------
(* A program runs. *)

LEMMA StillAsked ==
  ASSUME UNCHANGED <<kind, idx_mapping, given, wild>>
  PROVE  /\ \A row : Asked(row)' = Asked(row)
         /\ \A row, s, m : Refused(row, s, m)' = Refused(row, s, m)
         /\ \A p, m : Skips(p, m)' = Skips(p, m)
BY DEF Asked, Refused, Skips, BlockOf, TableRow

LEMMA RunParts ==
  ASSUME NEW p \in Programs, Run(p)
  PROVE  /\ kind # "idle" /\ p \notin done
         /\ done' = done \cup {p}
         /\ mem' = [mem EXCEPT ![p[2]] = Written(p)]
         /\ UNCHANGED <<runner, kind, idx_mapping, wild, given, staged>>
BY DEF Run

(* The memory a run leaves: one part of one block, or nothing, is new. *)
LEMMA RunMem ==
  ASSUME TypeOK, OrdersOK, MemNow, NEW p \in Programs, Run(p),
         NEW s \in States, NEW b \in Blocks, NEW k \in Tiles
  PROVE  /\ <<b[1], s, k>> # p => mem'[s][b][k] = mem[s][b][k]
         /\ <<b[1], s, k>> = p => mem'[s][b][k] =
              IF \E m \in Asked(b[1]) : CopiesPart(p) /\ m.dst = b[2] /\ ~ Refused(b[1], s, m)
              THEN Brought(p, CHOOSE n \in Asked(b[1]) : TRUE)
              ELSE mem[s][b][k]
<1>1. /\ kind # "idle" /\ p \notin done
      /\ mem' = [mem EXCEPT ![p[2]] = Written(p)]
  BY RunParts
<1>2. mem \in [States -> [Blocks -> [Tiles -> [from : Blocks, shift : 0 .. NumSpec]]]]
  BY DEF TypeOK
<1>3. p[1] \in Rows /\ p[2] \in States /\ p[3] \in Tiles /\ p = <<p[1], p[2], p[3]>>
  BY ProgramFacts
<1>4. b[1] \in Rows /\ b[2] \in Cols /\ b = <<b[1], b[2]>>
  BY BlockFacts
<1>5. s # p[2] => mem'[s] = mem[s]
  BY <1>1, <1>2
<1>6. s = p[2] => mem'[s] = Written(p)
  BY <1>1, <1>2, <1>3
<1>7. CASE \A m \in Asked(p[1]) : CopiesPart(p) => Skips(p, m)
  <2>1. mem'[s] = mem[s]
    BY <1>1, <1>5, <1>6, <1>7, WrittenNothing
  <2>2. <<b[1], s, k>> = p =>
          ~ \E m \in Asked(b[1]) : CopiesPart(p) /\ m.dst = b[2] /\ ~ Refused(b[1], s, m)
    <3>1. \A m \in Asked(p[1]) : CopiesPart(p) => Refused(p[1], p[2], m)
      BY <1>7, SkipsFacts
    <3>2. <<b[1], s, k>> = p => b[1] = p[1] /\ s = p[2]
      BY <1>3
    <3> QED BY <3>1, <3>2
  <2> QED BY <2>1, <2>2
<1>8. CASE ~ \A m \in Asked(p[1]) : CopiesPart(p) => Skips(p, m)
  <2>1. PICK m \in Asked(p[1]) : CopiesPart(p) /\ ~ Skips(p, m)
    BY <1>8
  <2>2. Written(p) = [c \in Blocks |-> IF c = <<p[1], m.dst>>
                                       THEN [mem[p[2]][c] EXCEPT ![p[3]] = Brought(p, m)]
                                       ELSE mem[p[2]][c]]
    BY <1>1, <2>1, WrittenCopy
  <2>3. /\ \A n \in Asked(p[1]) : n = m
        /\ (CHOOSE n \in Asked(p[1]) : TRUE) = m
        /\ ~ Refused(p[1], p[2], m)
    BY <1>1, <1>3, <2>1, MapFacts, AskedFacts, ChosenFacts, SkipsFacts
  <2>4. CASE s # p[2]
    BY <1>3, <1>5, <2>4
  <2>5. CASE s = p[2] /\ b # <<p[1], m.dst>>
    <3>1. mem'[s][b] = mem[s][b]
      BY <1>6, <2>2, <2>5
    <3>2. b[1] = p[1] => b[2] # m.dst
      BY <1>4, <2>5
    <3>3. <<b[1], s, k>> = p => b[1] = p[1]
      BY <1>3
    <3> QED BY <2>3, <3>1, <3>2, <3>3
  <2>6. CASE s = p[2] /\ b = <<p[1], m.dst>>
    <3>1. mem'[s][b] = [mem[s][b] EXCEPT ![p[3]] = Brought(p, m)]
      BY <1>6, <2>2, <2>6
    <3>2. mem[s][b] \in [Tiles -> [from : Blocks, shift : 0 .. NumSpec]]
      BY <1>2
    <3>3. mem'[s][b][k] = IF k = p[3] THEN Brought(p, m) ELSE mem[s][b][k]
      BY <1>3, <3>1, <3>2
    <3>4. b[1] = p[1] /\ b[2] = m.dst
      BY <2>6
    <3>5. <<b[1], s, k>> = p <=> k = p[3]
      BY <1>3, <2>6, <3>4
    <3> QED BY <2>1, <2>3, <2>6, <3>3, <3>4, <3>5
  <2> QED BY <2>4, <2>5, <2>6
<1> QED BY <1>7, <1>8

LEMMA RunMemNow ==
  ASSUME TypeOK, OrdersOK, MemNow, NEW p \in Programs, Run(p)
  PROVE  MemNow'
<1>1. /\ kind # "idle" /\ p \notin done /\ done' = done \cup {p}
      /\ \A row : Asked(row)' = Asked(row)
      /\ \A row, s, m : Refused(row, s, m)' = Refused(row, s, m)
  BY RunParts, StillAsked
<1> SUFFICES ASSUME NEW s \in States, NEW b \in Blocks, NEW k \in Tiles
             PROVE  mem'[s][b][k] = PartNow(s, b, k)'
  BY DEF MemNow
<1> DEFINE q == <<b[1], s, k>>
<1>2. mem[s][b][k] = PartNow(s, b, k)
  BY <1>1 DEF MemNow
<1>3. Moved(s, b, k)' <=> /\ q \in done \cup {p} /\ CopiesPart(q)
                          /\ \E m \in Asked(b[1]) : m.dst = b[2] /\ ~ Refused(b[1], s, m)
  BY <1>1 DEF Moved, CopiesPart
<1>4. Moved(s, b, k) <=> /\ q \in done /\ CopiesPart(q)
                         /\ \E m \in Asked(b[1]) : m.dst = b[2] /\ ~ Refused(b[1], s, m)
  BY DEF Moved
<1>5. PartNow(s, b, k)' = IF Moved(s, b, k)'
                          THEN Brought(q, CHOOSE n \in Asked(b[1]) : TRUE)
                          ELSE [from |-> b, shift |-> 0]
  <2>1. Asked(b[1])' = Asked(b[1])
    BY <1>1
  <2>2. q[1] = b[1] /\ q[2] = s
    OBVIOUS
  <2>3. PartNow(s, b, k)' =
          IF Moved(s, b, k)'
          THEN Brought(q, CHOOSE n \in Asked(b[1])' : TRUE)
          ELSE [from |-> b, shift |-> 0]
    BY <2>2 DEF PartNow, Brought, SourceCol
  <2> QED BY <2>1, <2>3
<1>6. PartNow(s, b, k) = IF Moved(s, b, k)
                         THEN Brought(q, CHOOSE n \in Asked(b[1]) : TRUE)
                         ELSE [from |-> b, shift |-> 0]
  BY DEF PartNow, Brought
<1> DEFINE want == \E m \in Asked(b[1]) : m.dst = b[2] /\ ~ Refused(b[1], s, m)
<1>7. CASE q # p
  <2>1. mem'[s][b][k] = mem[s][b][k]
    BY <1>7, RunMem
  <2>2. Moved(s, b, k)' <=> Moved(s, b, k)
    BY <1>3, <1>4, <1>7
  <2> QED BY <1>2, <1>5, <1>6, <2>1, <2>2
<1>8. CASE q = p
  <2>1. mem'[s][b][k] = IF CopiesPart(p) /\ want
                        THEN Brought(p, CHOOSE n \in Asked(b[1]) : TRUE)
                        ELSE mem[s][b][k]
    BY <1>8, RunMem
  <2>2. ~ Moved(s, b, k) /\ (Moved(s, b, k)' <=> CopiesPart(p) /\ want)
    BY <1>1, <1>3, <1>4, <1>8
  <2> QED BY <1>2, <1>5, <1>6, <1>8, <2>1, <2>2
<1> QED BY <1>7, <1>8

LEMMA RunOrders ==
  ASSUME TypeOK, OrdersOK, NEW p \in Programs, Run(p)
  PROVE  OrdersOK'
<1>1. /\ kind # "idle"
      /\ UNCHANGED <<runner, kind, idx_mapping, wild, given, src_col, src_off, state_idx>>
      /\ \A row : Asked(row)' = Asked(row)
  BY RunParts, StillAsked DEF staged
<1>2. /\ kind = "precopy" => num_accepted' = num_accepted
      /\ runner = "V1" => num_accepted' = num_accepted
      /\ runner = "V2" => num_accepted_out' = num_accepted_out
  BY DEF Run, WritesCount
<1>3. ASSUME NEW row \in Rows, idx_mapping[row] >= 0
      PROVE  Ordered(idx_mapping[row])'
  <2> DEFINE slot == idx_mapping[row]
  <2>1. Ordered(slot)
    BY <1>1, <1>3 DEF OrdersOK
  <2>2. CASE kind = "precopy"
    <3>1. PrecopyJob(slot)' = PrecopyJob(slot)
      BY <1>1 DEF PrecopyJob
    <3> QED BY <1>1, <1>2, <2>1, <2>2, <3>1 DEF Ordered, Moves
  <2>3. CASE kind # "precopy"
    <3>1. CountRead(slot)' = CountRead(slot)
      BY <1>1, <1>2 DEF CountRead, TypeOK
    <3> QED BY <1>1, <2>1, <2>3, <3>1 DEF Ordered
  <2> QED BY <2>2, <2>3
<1> QED BY <1>1, <1>3 DEF OrdersOK

LEMMA RunCounts ==
  ASSUME TypeOK, OrdersOK, CountsNow, NEW p \in Programs, Run(p)
  PROVE  CountsNow'
<1>1. /\ kind # "idle" /\ done' = done \cup {p}
      /\ UNCHANGED <<runner, kind, idx_mapping, given>>
  BY RunParts
<1> SUFFICES ASSUME kind = "postprocess", NEW row \in Rows, idx_mapping[row] >= 0
             PROVE  CountWritten(idx_mapping[row])' =
                      IF <<row, 0, 0>> \in done' /\ SavedInPlace(given[idx_mapping[row]])
                      THEN 1 ELSE given[idx_mapping[row]].accepted
  BY <1>1 DEF CountsNow, SavedInPlace, Saves
<1> DEFINE slot == idx_mapping[row]
           at == idx_mapping[p[1]]
<1>2. CountWritten(slot) = IF <<row, 0, 0>> \in done /\ SavedInPlace(given[slot])
                           THEN 1 ELSE given[slot].accepted
  BY DEF CountsNow
<1>3. p[1] \in Rows /\ p = <<p[1], p[2], p[3]>>
  BY ProgramFacts
<1>4. WritesCount(p) <=> p[2] = 0 /\ p[3] = 0 /\ at >= 0 /\ SavedInPlace(given[at])
  BY <1>1, WritesCountFacts
<1>5. slot \in Slots
  BY MapFacts, SlotFacts DEF Slots
<1>6. CountWritten(slot)' = IF WritesCount(p) /\ at = slot THEN 1 ELSE CountWritten(slot)
  <2>1. /\ num_accepted \in [Slots -> 1 .. NumSpec + 1]
        /\ num_accepted_out \in [Slots -> 1 .. NumSpec + 1]
        /\ runner \in {"V1", "V2"}
    BY DEF TypeOK
  <2>2. /\ runner = "V1" => num_accepted_out' = IF WritesCount(p)
                                                THEN [num_accepted_out EXCEPT ![at] = 1]
                                                ELSE num_accepted_out
        /\ runner = "V2" => num_accepted' = IF WritesCount(p)
                                            THEN [num_accepted EXCEPT ![at] = 1]
                                            ELSE num_accepted
    BY DEF Run
  <2>3. CountWritten(slot)' = IF runner = "V1" THEN num_accepted_out'[slot] ELSE num_accepted'[slot]
    BY <1>1 DEF CountWritten
  <2>4. CountWritten(slot) = IF runner = "V1" THEN num_accepted_out[slot] ELSE num_accepted[slot]
    BY DEF CountWritten
  <2> QED BY ONLY <1>5, <2>1, <2>2, <2>3, <2>4
<1>7. CASE p[1] = row
  <2>1. <<row, 0, 0>> \in done' <=> <<row, 0, 0>> \in done \/ (p[2] = 0 /\ p[3] = 0)
    BY <1>1, <1>3, <1>7
  <2> QED BY <1>2, <1>4, <1>6, <1>7, <2>1
<1>8. CASE p[1] # row
  <2>1. <<row, 0, 0>> \in done' <=> <<row, 0, 0>> \in done
    BY <1>1, <1>3, <1>8
  <2>2. at # slot
    BY <1>1, <1>3, <1>8 DEF OrdersOK
  <2> QED BY <1>2, <1>6, <2>1, <2>2
<1> QED BY <1>7, <1>8

LEMMA Finite == IsFiniteSet(Rows \X States) /\ IsFiniteSet(Programs)
<1>1. IsFiniteSet(Rows) /\ IsFiniteSet(States) /\ IsFiniteSet(Tiles)
  BY GridAssumption DEF GridAssumption
<1>2. IsFiniteSet(Rows \X States) /\ IsFiniteSet((Rows \X States) \X Tiles)
  BY <1>1, FS_Product
<1> DEFINE f == [p \in Programs |-> <<<<p[1], p[2]>>, p[3]>>]
<1>3. f \in [Programs -> (Rows \X States) \X Tiles]
  BY ProgramFacts
<1>4. \A p, q \in Programs : f[p] = f[q] => p = q
  <2> SUFFICES ASSUME NEW p \in Programs, NEW q \in Programs, f[p] = f[q] PROVE p = q
    OBVIOUS
  <2>1. p[1] = q[1] /\ p[2] = q[2] /\ p[3] = q[3]
    OBVIOUS
  <2> QED BY <2>1, ProgramFacts
<1>5. f \in Injection(Programs, (Rows \X States) \X Tiles)
  BY <1>3, <1>4 DEF Injection, IsInjective
<1>6. IsFiniteSet(Programs)
  BY <1>2, <1>5, FS_Injection
<1> QED BY <1>2, <1>6

LEMMA HittingFacts ==
  ASSUME NEW S, S \subseteq Programs
  PROVE  IsFiniteSet(Hitting(S)) /\ Cardinality(Hitting(S)) \in Nat
<1>1. Hitting(S) \in SUBSET Programs
  BY DEF Hitting
<1>2. IsFiniteSet(Hitting(S))
  BY <1>1, Finite, FS_Subset
<1> QED BY <1>2, FS_CardinalityType

LEMMA RunHits ==
  ASSUME TypeOK, OrdersOK, HitsNow, NEW p \in Programs, Run(p)
  PROVE  HitsNow'
<1>1. /\ kind # "idle" /\ p \notin done /\ done' = done \cup {p}
      /\ guard_hits' = guard_hits + HitsOf(p)
      /\ \A row : Asked(row)' = Asked(row)
      /\ \A q, m : Skips(q, m)' = Skips(q, m)
  BY RunParts, StillAsked DEF Run
<1>2. p[1] \in Rows /\ done \subseteq Programs
  BY ProgramFacts DEF TypeOK
<1>3. HitsOf(p) = IF \E m \in Asked(p[1]) : Skips(p, m) THEN 1 ELSE 0
  BY <1>1, <1>2, JobFacts DEF HitsOf
<1>4. Hitting(done)' = Hitting(done \cup {p})
  BY <1>1 DEF Hitting
<1>5. IsFiniteSet(Hitting(done)) /\ Cardinality(Hitting(done)) \in Nat
  BY <1>2, HittingFacts
<1>6. p \notin Hitting(done)
  BY <1>1 DEF Hitting
<1>7. guard_hits = Cardinality(Hitting(done))
  BY <1>1 DEF HitsNow
<1>8. CASE \E m \in Asked(p[1]) : Skips(p, m)
  <2>1. Hitting(done \cup {p}) = Hitting(done) \cup {p}
    BY <1>8 DEF Hitting
  <2>2. Cardinality(Hitting(done) \cup {p}) = Cardinality(Hitting(done)) + 1
    BY <1>5, <1>6, FS_AddElement
  <2>3. Cardinality(Hitting(done))' = Cardinality(Hitting(done)')
    OBVIOUS
  <2> QED BY <1>1, <1>3, <1>4, <1>7, <1>8, <2>1, <2>2, <2>3 DEF HitsNow
<1>9. CASE ~ \E m \in Asked(p[1]) : Skips(p, m)
  <2>1. Hitting(done \cup {p}) = Hitting(done)
    BY <1>9 DEF Hitting
  <2>2. guard_hits' = guard_hits
    BY <1>1, <1>3, <1>5, <1>7, <1>9
  <2> QED BY <1>1, <1>4, <1>7, <2>1, <2>2 DEF HitsNow
<1> QED BY <1>8, <1>9

LEMMA RunType ==
  ASSUME TypeOK, OrdersOK, MemNow, NEW p \in Programs, Run(p)
  PROVE  TypeOK'
<1>1. /\ kind # "idle" /\ p \notin done /\ done' = done \cup {p}
      /\ mem' = [mem EXCEPT ![p[2]] = Written(p)]
      /\ UNCHANGED <<runner, kind, idx_mapping, wild, src_col, src_off, state_idx>>
  BY RunParts DEF staged
<1>2. done' \subseteq Programs
  BY <1>1 DEF TypeOK
<1>3. guard_hits' \in Nat
  BY DEF Run, HitsOf, TypeOK
<1>4. num_accepted' \in [Slots -> 1 .. NumSpec + 1]
  <2>1. 1 \in 1 .. NumSpec + 1 /\ num_accepted \in [Slots -> 1 .. NumSpec + 1]
    BY Consts DEF TypeOK
  <2>2. num_accepted' = num_accepted
        \/ num_accepted' = [num_accepted EXCEPT ![idx_mapping[p[1]]] = 1]
    BY DEF Run
  <2> QED BY ONLY <2>1, <2>2
<1>5. num_accepted_out' \in [Slots -> 1 .. NumSpec + 1]
  <2>1. 1 \in 1 .. NumSpec + 1 /\ num_accepted_out \in [Slots -> 1 .. NumSpec + 1]
    BY Consts DEF TypeOK
  <2>2. num_accepted_out' = num_accepted_out
        \/ num_accepted_out' = [num_accepted_out EXCEPT ![idx_mapping[p[1]]] = 1]
    BY DEF Run
  <2> QED BY ONLY <2>1, <2>2
<1> DEFINE Part == [from : Blocks, shift : 0 .. NumSpec]
<1>6. Written(p) \in [Blocks -> [Tiles -> Part]]
  <2>1. p[1] \in Rows /\ p[2] \in States
    BY ProgramFacts
  <2>2. mem[p[2]] \in [Blocks -> [Tiles -> Part]]
    BY <2>1 DEF TypeOK
  <2>3. CASE \A m \in Asked(p[1]) : CopiesPart(p) => Skips(p, m)
    BY <1>1, <2>2, <2>3, WrittenNothing
  <2>4. CASE ~ \A m \in Asked(p[1]) : CopiesPart(p) => Skips(p, m)
    <3>1. PICK m \in Asked(p[1]) : CopiesPart(p) /\ ~ Skips(p, m)
      BY <2>4
    <3>2. IsCopy(m)
      BY <1>1, <2>1, MapFacts, AskedFacts
    <3>3. <<p[1], SourceCol(p[2], m)>> \in Blocks
      BY <2>1, <3>2, SourceFacts DEF Blocks
    <3>4. Brought(p, m) \in Part
      BY <3>2, <3>3, Consts DEF Brought, IsCopy
    <3>5. Written(p) = [c \in Blocks |-> IF c = <<p[1], m.dst>>
                                         THEN [mem[p[2]][c] EXCEPT ![p[3]] = Brought(p, m)]
                                         ELSE mem[p[2]][c]]
      BY <1>1, <3>1, WrittenCopy
    <3> HIDE DEF Part
    <3>6. \A c \in Blocks : [mem[p[2]][c] EXCEPT ![p[3]] = Brought(p, m)] \in [Tiles -> Part]
      BY <2>2, <3>4
    <3> QED BY ONLY <2>2, <3>5, <3>6
  <2> QED BY <2>3, <2>4
<1>7. mem' \in [States -> [Blocks -> [Tiles -> Part]]]
  <2>1. mem \in [States -> [Blocks -> [Tiles -> Part]]]
    BY DEF TypeOK
  <2> HIDE DEF Part
  <2> QED BY ONLY <1>1, <1>6, <2>1
<1> QED BY <1>1, <1>2, <1>3, <1>4, <1>5, <1>7 DEF TypeOK, Slots

LEMMA RunInv ==
  ASSUME IInv, NEW p \in Programs, Run(p)
  PROVE  IInv'
<1>1. TypeOK' /\ OrdersOK' /\ CountsNow' /\ MemNow' /\ HitsNow'
  BY RunType, RunOrders, RunCounts, RunMemNow, RunHits DEF IInv
<1>2. IdleNow'
  BY RunParts DEF IdleNow
<1> QED BY <1>1, <1>2 DEF IInv

-----------------------------------------------------------------------------
(* A launch begins. *)

LEMMA LookedIn == MapOK /\ OrdersOK /\ kind # "idle" => \A row \in Rows : Looked(row) \subseteq Entries
<1> SUFFICES ASSUME MapOK, OrdersOK, kind # "idle", NEW row \in Rows
             PROVE  Looked(row) \subseteq Entries
  OBVIOUS
<1>1. \A m \in Asked(row) : m.src \in Cols /\ m.src + m.bias \in Cols /\ m.dst \in Cols
  BY AskedFacts DEF IsCopy
<1>2. UNION {{m.src, m.src + m.bias, m.dst} : m \in Asked(row)} \subseteq Cols
  BY <1>1
<1>3. \A s \in States : Group[s] \in {Group[t] : t \in States}
  OBVIOUS
<1> QED BY <1>2, <1>3 DEF Looked, Entries

LEMMA UntouchedType ==
  Untouched \in [States -> [Blocks -> [Tiles -> [from : Blocks, shift : 0 .. NumSpec]]]]
<1>1. 0 \in 0 .. NumSpec
  BY Consts
<1>2. \A b \in Blocks : [from |-> b, shift |-> 0] \in [from : Blocks, shift : 0 .. NumSpec]
  BY <1>1
<1> QED BY <1>2 DEF Untouched

(* Whatever is launched, if what it stages says what the steps ask for. *)
LEMMA LaunchInv ==
  ASSUME IInv, kind = "idle", NEW k \in {"precopy", "postprocess"}, Launch(k),
         num_accepted' \in [Slots -> 1 .. NumSpec + 1],
         num_accepted_out' \in [Slots -> 1 .. NumSpec + 1],
         state_idx' \in [Slots -> Cols \cup {-1}], src_col' \in [Slots -> Cols \cup {-1}],
         src_off' \in [Slots -> 0 .. NumSpec],
         \A slot \in Slots : Ordered(slot)',
         k = "postprocess" => \A slot \in Slots : CountWritten(slot)' = given'[slot].accepted
  PROVE  IInv'
<1>1. /\ kind = "idle" /\ kind' = k /\ idx_mapping' \in Mappings
      /\ wild' \in {{}} \cup {{e} : e \in UNION {Looked(r)' : r \in Rows}}
      /\ runner' = runner /\ mem' = Untouched /\ done' = {} /\ guard_hits' = 0
      /\ runner \in {"V1", "V2"} /\ k # "idle"
  BY DEF Launch, IInv, IdleNow, TypeOK
<1>2. /\ idx_mapping' \in [Rows -> Slots \cup {-1}]
      /\ \A r, q \in Rows : idx_mapping'[r] = idx_mapping'[q] /\ idx_mapping'[r] >= 0 => r = q
  <2>1. CASE runner = "V1"
    <3>1. idx_mapping' = [r \in Rows |-> r]
      BY <1>1, <2>1 DEF Mappings
    <3> QED BY <3>1 DEF Slots
  <2>2. CASE runner # "V1"
    BY <1>1, <2>2 DEF Mappings
  <2> QED BY <2>1, <2>2
<1>3. MapOK'
  BY <1>2 DEF MapOK, Slots
<1>4. \A row \in Rows : idx_mapping'[row] >= 0 => idx_mapping'[row] \in Slots
  <2>1. \A row \in Rows : idx_mapping'[row] \in Slots \/ idx_mapping'[row] = -1
    BY <1>2
  <2>2. ~ (-1 >= 0)
    OBVIOUS
  <2> QED BY <2>1, <2>2
<1>5. OrdersOK'
  BY <1>1, <1>2, <1>4 DEF OrdersOK
<1>6. wild' \subseteq Entries
  <2>1. (MapOK /\ OrdersOK /\ kind # "idle" => \A row \in Rows : Looked(row) \subseteq Entries)'
    BY LookedIn, PTL
  <2>2. \A row \in Rows : Looked(row)' \subseteq Entries
    BY <1>1, <1>3, <1>5, <2>1 DEF Entries, Cols
  <2> QED BY <1>1, <2>2
<1>7. TypeOK'
  BY <1>1, <1>2, <1>6, UntouchedType DEF TypeOK, Slots
<1>8. CountsNow'
  <2> SUFFICES ASSUME k = "postprocess", NEW row \in Rows, idx_mapping'[row] >= 0
               PROVE  CountWritten(idx_mapping[row])' = given'[idx_mapping'[row]].accepted
    BY <1>1 DEF CountsNow
  <2> QED BY <1>4
<1>9. MemNow'
  <2>1. \A s, b, c : ~ Moved(s, b, c)'
    BY <1>1 DEF Moved
  <2>2. \A s, b, c : PartNow(s, b, c)' = [from |-> b, shift |-> 0]
    BY <2>1 DEF PartNow
  <2>3. \A s \in States : \A b \in Blocks : \A c \in Tiles :
          mem'[s][b][c] = [from |-> b, shift |-> 0]
    BY <1>1 DEF Untouched
  <2> QED BY <2>2, <2>3 DEF MemNow
<1>10. HitsNow'
  <2>1. Hitting(done)' = {}
    BY <1>1 DEF Hitting
  <2>2. Cardinality(Hitting(done))' = Cardinality(Hitting(done)')
    OBVIOUS
  <2> QED BY <1>1, <2>1, <2>2, FS_EmptySet DEF HitsNow
<1>11. IdleNow'
  BY <1>1 DEF IdleNow
<1> QED BY <1>5, <1>7, <1>8, <1>9, <1>10, <1>11 DEF IInv

(* What both runners stage of a request for the precopy. *)
LEMMA StagedFacts ==
  ASSUME NEW a \in Advances
  PROVE  /\ Moves(a) = {} <=> ~ (a.idx >= 0 /\ a.idx # a.next)
         /\ Moves(a) # {} => Moves(a) = {MoveOf(a)}
         /\ a.idx \in Cols \cup {-1} /\ a.next \in Cols
         /\ a.accepted \in 1 .. NumSpec + 1 /\ 1 \in 1 .. NumSpec + 1
         /\ a.accepted - 1 \in 0 .. NumSpec /\ 0 \in 0 .. NumSpec
         /\ OffsetOf(a) = a.accepted - 1
<1>1. /\ a.idx \in (0 .. Last - 1) \cup {-1} /\ a.next \in Cols
      /\ a.accepted \in 1 .. NumSpec + 1
  BY AdvanceFacts
<1>2. Last \in Nat /\ Cols = 0 .. Last + NumSpec /\ NumSpec \in Nat
  BY ColsFacts, Consts
<1>3. a.idx \in Cols \cup {-1}
  BY ONLY <1>1, <1>2
<1>4. /\ a.accepted - 1 \in 0 .. NumSpec /\ 0 \in 0 .. NumSpec
      /\ 1 \in 1 .. NumSpec + 1 /\ a.accepted >= 1 /\ a.accepted \in Int
  BY ONLY <1>1, <1>2
<1>5. OffsetOf(a) = a.accepted - 1
  BY <1>4 DEF OffsetOf
<1> QED BY <1>1, <1>3, <1>4, <1>5, MovesFacts

LEMMA PreprocessV1Inv ==
  ASSUME IInv, PreprocessV1
  PROVE  IInv'
<1>k. kind = "idle"
  BY DEF PreprocessV1
<1>1. PICK a \in [Slots -> Advances] :
        /\ given' = a /\ Launch("precopy")
        /\ state_idx' = [s \in Slots |-> a[s].next]
        /\ src_col' = [s \in Slots |-> IF Moves(a[s]) = {} THEN -1 ELSE a[s].idx]
        /\ src_off' = [s \in Slots |-> IF Moves(a[s]) = {} THEN 0 ELSE a[s].accepted - 1]
        /\ num_accepted' = [s \in Slots |-> IF Moves(a[s]) = {} THEN a[s].accepted ELSE 1]
  BY DEF PreprocessV1
<1>2. /\ num_accepted_out' = num_accepted_out
      /\ num_accepted_out \in [Slots -> 1 .. NumSpec + 1]
  BY DEF PreprocessV1, IInv, TypeOK
<1>3. \A s \in Slots : a[s] \in Advances
  OBVIOUS
<1>4. num_accepted' \in [Slots -> 1 .. NumSpec + 1]
  BY <1>1, <1>3, StagedFacts
<1>5. state_idx' \in [Slots -> Cols \cup {-1}]
  BY <1>1, <1>3, StagedFacts
<1>6. src_col' \in [Slots -> Cols \cup {-1}]
  BY <1>1, <1>3, StagedFacts
<1>7. src_off' \in [Slots -> 0 .. NumSpec]
  BY <1>1, <1>3, StagedFacts
<1>8. ASSUME NEW slot \in Slots PROVE Ordered(slot)'
  <2>1. kind' = "precopy" /\ given'[slot] = a[slot] /\ a[slot] \in Advances
    BY <1>1, <1>3 DEF Launch
  <2>2. PrecopyJob(slot)' =
          {j \in {[src |-> src_col'[slot], dst |-> state_idx'[slot], bias |-> src_off'[slot]]} :
             j.src >= 0 /\ j.src # j.dst}
    BY DEF PrecopyJob
  <2>3. CASE Moves(a[slot]) = {}
    <3>1. src_col'[slot] = -1 /\ ~ (-1 >= 0)
      BY <1>1, <2>3
    <3>2. PrecopyJob(slot)' = {}
      BY <2>2, <3>1
    <3>3. num_accepted'[slot] = a[slot].accepted
      BY <1>1, <2>3
    <3> QED BY <2>1, <2>3, <3>2, <3>3 DEF Ordered, Moves
  <2>4. CASE Moves(a[slot]) # {}
    <3>1. /\ src_col'[slot] = a[slot].idx /\ state_idx'[slot] = a[slot].next
          /\ src_off'[slot] = a[slot].accepted - 1 /\ num_accepted'[slot] = 1
      BY <1>1, <2>4
    <3>2. PrecopyJob(slot)' = Moves(a[slot])
      BY <2>2, <3>1 DEF Moves
    <3> QED BY <2>1, <2>4, <3>1, <3>2 DEF Ordered, Moves
  <2> QED BY <2>3, <2>4
<1> QED BY <1>k, <1>1, <1>2, <1>4, <1>5, <1>6, <1>7, <1>8, LaunchInv

LEMMA PreprocessV2Inv ==
  ASSUME IInv, PreprocessV2
  PROVE  IInv'
<1>k. kind = "idle"
  BY DEF PreprocessV2
<1>1. PICK a \in [Slots -> Advances] :
        /\ given' = a /\ Launch("precopy")
        /\ state_idx' = [s \in Slots |-> a[s].next]
        /\ src_col' = [s \in Slots |-> a[s].idx]
        /\ src_off' = [s \in Slots |-> OffsetOf(a[s])]
        /\ num_accepted' = [s \in Slots |-> IF a[s].idx >= 0 /\ a[s].idx # a[s].next
                                            THEN 1 ELSE a[s].accepted]
  BY DEF PreprocessV2
<1>2. /\ num_accepted_out' = num_accepted_out
      /\ num_accepted_out \in [Slots -> 1 .. NumSpec + 1]
  BY DEF PreprocessV2, IInv, TypeOK
<1>3. \A s \in Slots : a[s] \in Advances
  OBVIOUS
<1>4. num_accepted' \in [Slots -> 1 .. NumSpec + 1]
  BY <1>1, <1>3, StagedFacts
<1>5. state_idx' \in [Slots -> Cols \cup {-1}]
  BY <1>1, <1>3, StagedFacts
<1>6. src_col' \in [Slots -> Cols \cup {-1}]
  BY <1>1, <1>3, StagedFacts
<1>7. src_off' \in [Slots -> 0 .. NumSpec]
  BY <1>1, <1>3, StagedFacts
<1>8. ASSUME NEW slot \in Slots PROVE Ordered(slot)'
  <2>1. kind' = "precopy" /\ given'[slot] = a[slot] /\ a[slot] \in Advances
    BY <1>1, <1>3 DEF Launch
  <2>2. /\ src_col'[slot] = a[slot].idx /\ state_idx'[slot] = a[slot].next
        /\ src_off'[slot] = a[slot].accepted - 1
    BY <1>1, <2>1, StagedFacts
  <2>3. PrecopyJob(slot)' = Moves(a[slot])
    BY <2>2 DEF PrecopyJob, Moves
  <2>4. num_accepted'[slot] = IF Moves(a[slot]) = {} THEN a[slot].accepted ELSE 1
    BY <1>1, <2>1, StagedFacts
  <2> QED BY <2>1, <2>3, <2>4 DEF Ordered, Moves
<1> QED BY <1>k, <1>1, <1>2, <1>4, <1>5, <1>6, <1>7, <1>8, LaunchInv

LEMMA PostprocessInv ==
  ASSUME IInv, Postprocess
  PROVE  IInv'
<1>k. kind = "idle"
  BY DEF Postprocess
<1>1. PICK g \in [Slots -> Steps] :
        /\ given' = g /\ Launch("postprocess")
        /\ num_accepted' = [s \in Slots |-> g[s].accepted]
        /\ num_accepted_out' = num_accepted'
  BY DEF Postprocess
<1>2. /\ UNCHANGED <<src_col, src_off, state_idx>>
      /\ state_idx \in [Slots -> Cols \cup {-1}] /\ src_col \in [Slots -> Cols \cup {-1}]
      /\ src_off \in [Slots -> 0 .. NumSpec]
  BY DEF Postprocess, staged, IInv, TypeOK
<1>3. \A s \in Slots : g[s] \in Steps /\ g[s].accepted \in 1 .. NumSpec + 1
  BY StepFacts
<1>4. /\ num_accepted' \in [Slots -> 1 .. NumSpec + 1]
      /\ num_accepted_out' \in [Slots -> 1 .. NumSpec + 1]
  BY <1>1, <1>3
<1>5. \A s \in Slots : /\ num_accepted'[s] = g[s].accepted
                       /\ num_accepted_out'[s] = g[s].accepted
  BY <1>1
<1>6. \A slot \in Slots : Ordered(slot)'
  <2>1. kind' = "postprocess"
    BY <1>1 DEF Launch
  <2>2. \A slot \in Slots : CountRead(slot)' = given'[slot].accepted
    BY <1>1, <1>5 DEF CountRead
  <2> QED BY <1>1, <1>3, <2>1, <2>2 DEF Ordered
<1>7. \A slot \in Slots : CountWritten(slot)' = given'[slot].accepted
  BY <1>1, <1>5 DEF CountWritten
<1> QED BY <1>k, <1>1, <1>2, <1>4, <1>6, <1>7, LaunchInv

LEMMA QuietFacts ==
  /\ 1 \in 1 .. NumSpec + 1 /\ 0 \in 0 .. NumSpec
  /\ [s \in Slots |-> 1] \in [Slots -> 1 .. NumSpec + 1]
  /\ [s \in Slots |-> 0] \in [Slots -> 0 .. NumSpec]
<1>1. 1 \in 1 .. NumSpec + 1 /\ 0 \in 0 .. NumSpec
  BY Consts
<1> QED BY <1>1

LEMMA ReturnInv ==
  ASSUME IInv, Return
  PROVE  IInv'
<1>1. TypeOK'
  BY QuietFacts, UntouchedType DEF IInv, TypeOK, Return, Slots
<1>2. kind' = "idle" /\ done' = {} /\ mem' = Untouched /\ guard_hits' = 0
  BY DEF Return
<1>3. IdleNow'
  BY <1>2 DEF IdleNow, Untouched, Blocks, Cols, Cdiv
<1>4. OrdersOK' /\ CountsNow' /\ MemNow' /\ HitsNow'
  BY <1>2 DEF OrdersOK, CountsNow, MemNow, HitsNow
<1> QED BY <1>1, <1>3, <1>4 DEF IInv

LEMMA StutterInv ==
  ASSUME IInv, UNCHANGED vars
  PROVE  IInv'
<1>1. UNCHANGED <<runner, kind, idx_mapping, wild, given, src_col, src_off, state_idx,
                  num_accepted, num_accepted_out, mem, done, guard_hits>>
  BY DEF vars, staged
<1>2. TypeOK' /\ IdleNow'
  BY <1>1 DEF IInv, TypeOK, IdleNow, Untouched, Blocks, Cols, Cdiv, Entries, Programs, Slots
<1>3. OrdersOK'
  BY <1>1 DEF IInv, OrdersOK, Ordered, PrecopyJob, Moves, CountRead
<1>4. CountsNow'
  BY <1>1 DEF IInv, CountsNow, CountWritten, SavedInPlace, Saves
<1>5. HitsNow'
  <2>1. \A row : Asked(row)' = Asked(row)
    BY <1>1, StillAsked
  <2>2. \A p, m : Skips(p, m)' = Skips(p, m)
    BY <1>1, StillAsked
  <2>3. Hitting(done)' = Hitting(done)
    BY <1>1, <2>1, <2>2 DEF Hitting
  <2>4. Cardinality(Hitting(done))' = Cardinality(Hitting(done)')
    OBVIOUS
  <2> QED BY <1>1, <2>3, <2>4 DEF IInv, HitsNow
<1>6. MemNow'
  <2>1. /\ \A row : Asked(row)' = Asked(row)
        /\ \A row, s, m : Refused(row, s, m)' = Refused(row, s, m)
    BY <1>1, StillAsked
  <2>2. \A s, b, k : Moved(s, b, k)' = Moved(s, b, k)
    BY <1>1, <2>1 DEF Moved, CopiesPart
  <2>3. ASSUME NEW s, NEW b, NEW k PROVE PartNow(s, b, k)' = PartNow(s, b, k)
    <3>1. Asked(b[1])' = Asked(b[1]) /\ (Moved(s, b, k)' <=> Moved(s, b, k))
      BY <2>1, <2>2
    <3>2. PartNow(s, b, k)' =
            IF Moved(s, b, k)'
            THEN LET m == CHOOSE n \in Asked(b[1])' : TRUE
                 IN  [from |-> <<b[1], SourceCol(s, m)>>,
                      shift |-> IF s \in ConvStates THEN m.bias ELSE 0]
            ELSE [from |-> b, shift |-> 0]
      BY DEF PartNow, SourceCol
    <3> QED BY <3>1, <3>2 DEF PartNow
  <2> QED BY <1>1, <2>3 DEF IInv, MemNow
<1> QED BY <1>2, <1>3, <1>4, <1>5, <1>6 DEF IInv

LEMMA InitInv ==
  ASSUME Init
  PROVE  IInv
<1>1. TypeOK
  BY QuietFacts, UntouchedType DEF TypeOK, Init, Slots
<1> QED BY <1>1 DEF IInv, Init, IdleNow, OrdersOK, CountsNow, MemNow, HitsNow

(* Any order of the programs keeps the invariant.                           *)
THEOREM Invariance == Spec => []IInv
<1>1. Init => IInv
  BY InitInv
<1>2. IInv /\ [Next]_vars => IInv'
  <2> SUFFICES ASSUME IInv, [Next]_vars PROVE IInv'
    OBVIOUS
  <2>1. CASE PreprocessV1
    BY <2>1, PreprocessV1Inv
  <2>2. CASE PreprocessV2
    BY <2>2, PreprocessV2Inv
  <2>3. CASE Postprocess
    BY <2>3, PostprocessInv
  <2>4. CASE Return
    BY <2>4, ReturnInv
  <2>5. CASE \E p \in Programs : Run(p)
    BY <2>5, RunInv
  <2>6. CASE UNCHANGED vars
    BY <2>6, StutterInv
  <2> QED BY <2>1, <2>2, <2>3, <2>4, <2>5, <2>6 DEF Next
<1> QED BY <1>1, <1>2, PTL DEF Spec

(* Counts, columns and parts stay in their ranges: a bias never passes the  *)
(* draft, a column never the block table (TypeOK).                          *)
THEOREM TypeTheorem == Spec => []TypeOK
<1>1. IInv => TypeOK
  BY DEF IInv
<1> QED BY <1>1, Invariance, PTL

-----------------------------------------------------------------------------
(* What is there when all programs have run. *)

LEMMA CompleteFacts ==
  ASSUME IInv, Complete, NEW p \in Programs
  PROVE  /\ WritesCount(p) => p \in done
         /\ \A m \in Asked(p[1]) : CopiesPart(p) \/ Skips(p, m) => p \in done
<1>1. kind # "idle" /\ (HasEffect(p) => p \in done)
  BY DEF Complete
<1>2. Job(p[1]) = Asked(p[1])
  BY <1>1, ProgramFacts, JobFacts DEF IInv
<1> QED BY <1>1, <1>2 DEF HasEffect

LEMMA CountsLemma == IInv => CountsExact
<1> SUFFICES ASSUME IInv, Complete, NEW row \in Rows, idx_mapping[row] >= 0
             PROVE  LET slot == idx_mapping[row]
                        g == given[slot]
                    IN  IF kind = "precopy"
                        THEN num_accepted[slot] = IF Moves(g) = {} THEN g.accepted ELSE 1
                        ELSE (IF runner = "V1" THEN num_accepted_out ELSE num_accepted)[slot]
                               = IF SavedInPlace(g) THEN 1 ELSE g.accepted
  BY DEF CountsExact
<1> DEFINE slot == idx_mapping[row]
           g == given[slot]
           p == <<row, 0, 0>>
<1>1. kind # "idle" /\ kind \in {"idle", "precopy", "postprocess"}
  BY DEF Complete, IInv, TypeOK
<1>2. Ordered(slot)
  BY <1>1 DEF IInv, OrdersOK
<1>3. CASE kind = "precopy"
  BY <1>2, <1>3 DEF Ordered
<1>4. CASE kind = "postprocess"
  <2>1. CountWritten(slot) = IF p \in done /\ SavedInPlace(g) THEN 1 ELSE g.accepted
    BY <1>4 DEF IInv, CountsNow
  <2>2. p \in Programs /\ p[1] = row /\ p[2] = 0 /\ p[3] = 0
    BY Consts DEF Programs
  <2>3. SavedInPlace(g) => WritesCount(p)
    BY <1>1, <1>4, <2>2, WritesCountFacts DEF IInv
  <2>4. SavedInPlace(g) => p \in done
    BY <2>2, <2>3, CompleteFacts
  <2>5. CountWritten(slot) = IF SavedInPlace(g) THEN 1 ELSE g.accepted
    BY <2>1, <2>4
  <2> QED BY <1>4, <2>5 DEF CountWritten
<1> QED BY <1>1, <1>3, <1>4

LEMMA LaunchLemma == IInv => LaunchExact
<1> SUFFICES ASSUME IInv, Complete, NEW s \in States, NEW b \in Blocks,
                    NEW k \in (IF s \in ConvStates THEN {0} ELSE Tiles)
             PROVE  mem[s][b][k] =
                      IF \E m \in Asked(b[1]) : m.dst = b[2] /\ ~ Refused(b[1], s, m)
                      THEN LET m == CHOOSE n \in Asked(b[1]) : TRUE
                           IN  [from |-> <<b[1], SourceCol(s, m)>>,
                                shift |-> IF s \in ConvStates THEN m.bias ELSE 0]
                      ELSE [from |-> b, shift |-> 0]
  BY DEF LaunchExact
<1> DEFINE p == <<b[1], s, k>>
<1>1. k \in Tiles /\ (s \in ConvStates => k = 0)
  BY Consts
<1>2. b[1] \in Rows
  BY BlockFacts
<1>3. p \in Programs /\ p[1] = b[1] /\ CopiesPart(p)
  BY <1>1, <1>2 DEF Programs, CopiesPart
<1>4. (\E m \in Asked(b[1]) : TRUE) => p \in done
  BY <1>3, CompleteFacts
<1>5. Moved(s, b, k) <=> \E m \in Asked(b[1]) : m.dst = b[2] /\ ~ Refused(b[1], s, m)
  BY <1>3, <1>4 DEF Moved
<1>6. mem[s][b][k] = PartNow(s, b, k)
  BY <1>1 DEF IInv, MemNow, Complete
<1> QED BY <1>5, <1>6 DEF PartNow

LEMMA SkipsLemma == IInv => SkipsCounted
<1> SUFFICES ASSUME IInv, Complete
             PROVE  guard_hits \in Cardinality(SkippedCopies) ..
                                   Cardinality(SkippedCopies) * Cardinality(Tiles)
  BY DEF SkipsCounted
<1> DEFINE H == Hitting(done)
           SC == SkippedCopies
<1>1. guard_hits = Cardinality(H) /\ done \subseteq Programs
  BY DEF IInv, HitsNow, TypeOK, Complete
<1>2. IsFiniteSet(H) /\ Cardinality(H) \in Nat
  BY <1>1, HittingFacts
<1>3. IsFiniteSet(SC) /\ Cardinality(SC) \in Nat
  <2>1. SC \in SUBSET (Rows \X States)
    BY DEF SkippedCopies
  <2>2. IsFiniteSet(SC)
    BY <2>1, Finite, FS_Subset
  <2> QED BY <2>2, FS_CardinalityType
<1>4. IsFiniteSet(Tiles) /\ Cardinality(Tiles) \in Nat
  <2>1. IsFiniteSet(Tiles)
    BY GridAssumption DEF GridAssumption
  <2> QED BY <2>1, FS_CardinalityType
(* Tile 0 of every skipped copy has counted it. *)
<1>5. Cardinality(SC) <= Cardinality(H)
  <2> DEFINE f == [x \in SC |-> <<x[1], x[2], 0>>]
  <2>1. ASSUME NEW x \in SC PROVE <<x[1], x[2], 0>> \in H /\ x = <<x[1], x[2]>>
    <3> DEFINE q == <<x[1], x[2], 0>>
    <3>1. x \in Rows \X States /\ \E m \in Asked(x[1]) : Refused(x[1], x[2], m)
      BY DEF SkippedCopies
    <3>2. q \in Programs /\ q[1] = x[1] /\ q[2] = x[2] /\ CopiesPart(q)
      BY <3>1, Consts DEF Programs, CopiesPart
    <3>3. PICK m \in Asked(q[1]) : Refused(q[1], q[2], m)
      BY <3>1, <3>2
    <3>4. Skips(q, m)
      BY <3>2, <3>3, SkipsFacts
    <3>5. q \in done
      BY <3>2, <3>3, <3>4, CompleteFacts
    <3> QED BY <3>1, <3>3, <3>4, <3>5 DEF Hitting
  <2>2. f \in [SC -> H]
    BY <2>1
  <2>3. \A x, y \in SC : f[x] = f[y] => x = y
    <3> SUFFICES ASSUME NEW x \in SC, NEW y \in SC, f[x] = f[y] PROVE x = y
      OBVIOUS
    <3>1. x[1] = y[1] /\ x[2] = y[2]
      OBVIOUS
    <3> QED BY <2>1, <3>1
  <2>4. f \in Injection(SC, H)
    BY <2>2, <2>3 DEF Injection, IsInjective
  <2> QED BY <1>2, <2>4, FS_Injection
(* A program that has counted belongs to a skipped copy and to a tile. *)
<1>6. Cardinality(H) <= Cardinality(SC) * Cardinality(Tiles)
  <2> DEFINE f == [p \in H |-> <<<<p[1], p[2]>>, p[3]>>]
  <2>1. ASSUME NEW p \in H
        PROVE  <<p[1], p[2]>> \in SC /\ p[3] \in Tiles /\ p = <<p[1], p[2], p[3]>>
    <3>1. p \in Programs /\ \E m \in Asked(p[1]) : Skips(p, m)
      BY <1>1 DEF Hitting
    <3>2. p[1] \in Rows /\ p[2] \in States /\ p[3] \in Tiles /\ p = <<p[1], p[2], p[3]>>
      BY <3>1, ProgramFacts
    <3>3. \E m \in Asked(p[1]) : Refused(p[1], p[2], m)
      BY <3>1, SkipsFacts
    <3> QED BY <3>2, <3>3 DEF SkippedCopies
  <2>2. f \in [H -> SC \X Tiles]
    BY <2>1
  <2>3. \A p, q \in H : f[p] = f[q] => p = q
    <3> SUFFICES ASSUME NEW p \in H, NEW q \in H, f[p] = f[q] PROVE p = q
      OBVIOUS
    <3>1. p[1] = q[1] /\ p[2] = q[2] /\ p[3] = q[3]
      OBVIOUS
    <3> QED BY <2>1, <3>1
  <2>4. f \in Injection(H, SC \X Tiles)
    BY <2>2, <2>3 DEF Injection, IsInjective
  <2>5. /\ IsFiniteSet(SC \X Tiles)
        /\ Cardinality(SC \X Tiles) = Cardinality(SC) * Cardinality(Tiles)
    BY <1>3, <1>4, FS_Product
  <2> HIDE DEF f, H, SC
  <2>6. Cardinality(H) <= Cardinality(SC \X Tiles)
    BY <2>4, <2>5, FS_Injection
  <2> QED BY <2>5, <2>6
<1>7. Cardinality(SC) * Cardinality(Tiles) \in Int
  BY <1>3, <1>4
<1> HIDE DEF H, SC
<1> QED BY <1>1, <1>2, <1>3, <1>5, <1>6, <1>7 DEF SC

(* The accepted count that decides the next copy's shift is reset by the    *)
(* program that writes the state at offset 0 and by no other (CountsExact): *)
(* the kernels' bias 0 and one program per row write it, in any order.      *)
THEOREM CountsTheorem == Spec => []CountsExact
BY CountsLemma, Invariance, PTL

(* The launch moves what the steps ask for, from blocks no program of the   *)
(* launch has overwritten (LaunchExact): no order of the programs matters.  *)
THEOREM LaunchTheorem == Spec => []LaunchExact
BY LaunchLemma, Invariance, PTL

(* No copy is skipped without a count in guard_hits, and none that was made *)
(* is counted (SkipsCounted).                                               *)
THEOREM SkipsTheorem == Spec => []SkipsCounted
BY SkipsLemma, Invariance, PTL
=============================================================================
