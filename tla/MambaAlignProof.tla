-------------------------- MODULE MambaAlignProof --------------------------
(***************************************************************************)
(* Proofs about MambaAlign for every set of requests, every block size,    *)
(* every draft length below it and every token bound.                      *)
(***************************************************************************)
EXTENDS MambaAlign, TLAPS

-----------------------------------------------------------------------------
(* Arithmetic of blocks. *)

(* Rounding down to a block. *)
LEMMA DivFacts ==
  ASSUME NEW x \in Int
  PROVE  /\ x \div BlockSize \in Int
         /\ (x \div BlockSize) * BlockSize <= x
         /\ x < (x \div BlockSize + 1) * BlockSize
BY BlockAssumption

(* A multiple of the block size is its quotient times it. *)
LEMMA ModFacts ==
  ASSUME NEW x \in Int, x % BlockSize = 0
  PROVE  x = (x \div BlockSize) * BlockSize
BY BlockAssumption

(* Multiplication by the block size keeps the order, *)
LEMMA MulMono ==
  ASSUME NEW a \in Int, NEW b \in Int, a <= b
  PROVE  a * BlockSize <= b * BlockSize
BY BlockAssumption

(* and reflects it. *)
LEMMA MulLess ==
  ASSUME NEW a \in Int, NEW b \in Int, a * BlockSize < b * BlockSize
  PROVE  a < b
BY BlockAssumption

(* The block of a number is the only one that contains it. *)
LEMMA DivUnique ==
  ASSUME NEW x \in Int, NEW a \in Int,
         a * BlockSize <= x, x < (a + 1) * BlockSize
  PROVE  x \div BlockSize = a
BY BlockAssumption, DivFacts, MulLess

(* The seed column is the block of the last computed token. *)
LEMMA SeedFacts ==
  ASSUME NEW c \in Nat
  PROVE  /\ SeedCol(c) \in Int
         /\ SeedCol(c) >= -1
         /\ c > 0 => SeedCol(c) \in Nat
         /\ c = 0 => SeedCol(c) = -1
         /\ SeedCol(c) * BlockSize < c
         /\ c <= (SeedCol(c) + 1) * BlockSize
<1> DEFINE q == SeedCol(c)
<1>1. /\ q \in Int
      /\ q * BlockSize <= c - 1
      /\ c - 1 < (q + 1) * BlockSize
  BY DivFacts DEF SeedCol
<1>2. (-1) * BlockSize <= c - 1 /\ (-1) * BlockSize < (q + 1) * BlockSize
  BY <1>1, BlockAssumption
<1>3. q >= -1
  BY <1>1, <1>2, MulLess
<1>4. c > 0 => q >= 0
  <2>1. SUFFICES ASSUME c > 0 PROVE 0 < q + 1
    BY <1>1
  <2>2. 0 * BlockSize < (q + 1) * BlockSize
    BY <1>1, <2>1, BlockAssumption
  <2>3. QED BY <1>1, <2>2, MulLess
<1>5. c = 0 => q = -1
  <2>1. SUFFICES ASSUME c = 0 PROVE q < 0
    BY <1>1, <1>3
  <2>2. q * BlockSize < 0 * BlockSize
    BY <1>1, <2>1, BlockAssumption
  <2>3. QED BY <1>1, <2>2, MulLess
<1>6. QED
  <2>1. (q + 1) * BlockSize \in Int /\ q * BlockSize \in Int
    BY <1>1, BlockAssumption
  <2>2. QED BY <1>1, <1>3, <1>4, <1>5, <2>1

(* A boundary belongs to the column that ends there. *)
LEMMA SeedAligned ==
  ASSUME NEW c \in Nat, c % BlockSize = 0
  PROVE  c = (SeedCol(c) + 1) * BlockSize
<1>1. PICK q \in Int : c = q * BlockSize
  BY ModFacts, DivFacts
<1>2. (q - 1) * BlockSize <= c - 1 /\ c - 1 < (q - 1 + 1) * BlockSize
  BY <1>1, BlockAssumption
<1>3. SeedCol(c) = q - 1
  BY <1>1, <1>2, DivUnique DEF SeedCol
<1>4. QED BY <1>1, <1>3

(* The state saved for column k is found again when a request is seeded. *)
LEMMA SeedOfColumn ==
  ASSUME NEW k \in Nat
  PROVE  /\ (k + 1) * BlockSize \in Nat
         /\ (k + 1) * BlockSize > 0
         /\ SeedCol((k + 1) * BlockSize) = k
         /\ ((k + 1) * BlockSize) % BlockSize = 0
<1>1. /\ (k + 1) * BlockSize \in Nat
      /\ (k + 1) * BlockSize > 0
      /\ ((k + 1) * BlockSize) % BlockSize = 0
  BY BlockAssumption
<1>2. /\ k * BlockSize <= (k + 1) * BlockSize - 1
      /\ (k + 1) * BlockSize - 1 < (k + 1) * BlockSize
  BY <1>1, BlockAssumption
<1>3. QED BY <1>1, <1>2, DivUnique DEF SeedCol

(* The running column is the block of the last scheduled token: rounding up *)
(* and rounding down agree.                                                 *)
LEMMA StateFacts ==
  ASSUME NEW c \in Nat, NEW s \in Nat, s > 0
  PROVE  /\ StateCol(c, s) = SeedCol(c + s)
         /\ StateCol(c, s) \in Nat
         /\ StateCol(c, s) * BlockSize < c + s
         /\ c + s <= (StateCol(c, s) + 1) * BlockSize
<1> DEFINE q == SeedCol(c + s)
<1>1. /\ q \in Nat
      /\ q * BlockSize < c + s
      /\ c + s <= (q + 1) * BlockSize
  BY SeedFacts
<1>2. /\ (q + 1) * BlockSize <= c + s + BlockSize - 1
      /\ c + s + BlockSize - 1 < (q + 1 + 1) * BlockSize
  BY <1>1, BlockAssumption
<1>3. Cdiv(c + s) = q + 1
  <2>1. c + s + BlockSize - 1 \in Int /\ q + 1 \in Int
    BY <1>1, BlockAssumption
  <2>2. (c + s + BlockSize - 1) \div BlockSize = q + 1
    BY <1>2, <2>1, DivUnique
  <2>3. QED BY <2>2 DEF Cdiv
<1>4. StateCol(c, s) = q
  BY <1>1, <1>3, BlockAssumption DEF StateCol
<1>5. QED BY <1>1, <1>4

(* The seed column, and the speculative columns behind a running one, exist. *)
LEMMA ColumnsExist ==
  ASSUME NEW c \in 1 .. MaxTokens, NEW d \in 0 .. NumSpec
  PROVE  SeedCol(c) + d \in Cols
<1>1. /\ SeedCol(c) \in Nat
      /\ SeedCol(c) * BlockSize < c
  BY SeedFacts
<1>2. DEFINE m == Cdiv(MaxTokens)
<1>3. /\ m \in Int
      /\ MaxTokens + BlockSize - 1 < (m + 1) * BlockSize
  BY DivFacts, BlockAssumption, BoundAssumption DEF Cdiv
<1>4. SeedCol(c) * BlockSize < m * BlockSize
  BY <1>1, <1>3, BlockAssumption, BoundAssumption
<1>5. SeedCol(c) < m
  BY <1>1, <1>3, <1>4, MulLess
<1>6. QED BY <1>1, <1>3, <1>5, BlockAssumption DEF Cols

(* Columns are numbered from 0. *)
LEMMA ColsNat == Cols \subseteq Nat /\ 0 \in Cols
<1>1. /\ Cdiv(MaxTokens) \in Int
      /\ MaxTokens + BlockSize - 1 < (Cdiv(MaxTokens) + 1) * BlockSize
  BY DivFacts, BlockAssumption, BoundAssumption DEF Cdiv
<1>2. 0 * BlockSize < (Cdiv(MaxTokens) + 1) * BlockSize
  BY <1>1, BlockAssumption, BoundAssumption
<1>3. 0 < Cdiv(MaxTokens) + 1
  BY <1>1, <1>2, MulLess
<1>4. QED BY <1>1, <1>3, BlockAssumption DEF Cols

-----------------------------------------------------------------------------
(* The inductive invariant. *)

(* Every initial state satisfies it. *)
LEMMA InitIInv == Init => IInv
<1> SUFFICES ASSUME Init PROVE IInv
  OBVIOUS
<1>1. Batch = {}
  BY DEF Init, Batch
<1>2. \A r \in Requests : Cleaned(r) = Absent
  BY DEF Init, Cleaned
<1>3. TypeOK
  <2>1. Junk \in Content /\ NoWindow \in Window
    BY BlockAssumption, BoundAssumption DEF Content, Junk, Window, NoWindow
  <2>2. NoStage \in [idx : Cols, scheduled : 0 .. MaxTokens,
                     computed : 0 .. MaxTokens, draft : 0 .. NumSpec]
    BY ColsNat, BlockAssumption, BoundAssumption DEF NoStage
  <2>3. QED
    BY <2>1, <2>2, BlockAssumption, BoundAssumption
       DEF Init, TypeOK, NoneReleased
<1>4. LiveStateExact /\ PromptOnBoundary
  BY DEF Init, LiveStateExact, PromptOnBoundary
<1>5. FreshHasNoEntry
  BY <1>2 DEF FreshHasNoEntry
<1>6. BatchShape
  BY <1>1 DEF Init, BatchShape
<1>7. StepData /\ SpeculativeWindow /\ ReachedExact /\ PublishedExact
  BY <1>1 DEF Init, StepData, SpeculativeWindow, ReachedExact, PublishedExact
<1>8. QED BY <1>3, <1>4, <1>5, <1>6, <1>7 DEF IInv

(* The facts a step of the engine rests on: a scheduled request has room    *)
(* for its running column and every speculative column behind it.           *)
LEMMA BatchFacts ==
  ASSUME TypeOK, BatchShape, NEW r \in Batch
  PROVE  /\ r \in Requests
         /\ status[r] = "running"
         /\ num_computed_tokens[r] \in Nat
         /\ num_scheduled[r] \in Nat
         /\ num_scheduled[r] > num_drafts[r]
         /\ num_drafts[r] \in 0 .. NumSpec
         /\ num_computed_tokens[r] + num_scheduled[r] <= MaxTokens
         /\ CurrCol(r) = SeedCol(num_computed_tokens[r] + num_scheduled[r])
         /\ CurrCol(r) \in Nat
         /\ CurrCol(r) * BlockSize < num_computed_tokens[r] + num_scheduled[r]
         /\ num_computed_tokens[r] + num_scheduled[r]
              <= (CurrCol(r) + 1) * BlockSize
         /\ \A i \in 0 .. NumSpec : CurrCol(r) + i \in Cols
<1>1. /\ r \in Requests
      /\ status[r] = "running"
      /\ num_computed_tokens[r] \in Nat
      /\ num_scheduled[r] \in Nat
      /\ num_scheduled[r] > 0
      /\ num_drafts[r] \in 0 .. NumSpec
      /\ num_computed_tokens[r] + num_scheduled[r] <= MaxTokens
  BY BoundAssumption DEF TypeOK, BatchShape, Batch
<1>2. num_scheduled[r] > num_drafts[r]
  BY <1>1, BlockAssumption DEF BatchShape
<1>3. num_computed_tokens[r] + num_scheduled[r] \in 1 .. MaxTokens
  BY <1>1, BoundAssumption
<1>4. /\ CurrCol(r) = SeedCol(num_computed_tokens[r] + num_scheduled[r])
      /\ CurrCol(r) \in Nat
      /\ CurrCol(r) * BlockSize < num_computed_tokens[r] + num_scheduled[r]
      /\ num_computed_tokens[r] + num_scheduled[r]
           <= (CurrCol(r) + 1) * BlockSize
  BY <1>1, StateFacts DEF CurrCol
<1>5. \A i \in 0 .. NumSpec : CurrCol(r) + i \in Cols
  BY <1>3, <1>4, ColumnsExist
<1>6. QED BY <1>1, <1>2, <1>4, <1>5

(* Staging copies what was scheduled. *)
LEMMA StageStep == IInv /\ Stage => IInv'
<1> SUFFICES ASSUME IInv, Stage PROVE IInv'
  OBVIOUS
<1>1. /\ UNCHANGED <<schedVars, mamba_state_idx, num_accepted, ssm, conv,
                     num_scheduled, num_drafts, num_accepted_gpu,
                     num_accepted_out, published>>
      /\ phase = "prepared"
      /\ phase' = "staged"
  BY DEF Stage
<1>2. Batch' = Batch
  BY <1>1 DEF Batch
<1>3. \A r \in Batch : r \in Requests /\ mamba_state_idx[r] \in Cols
  <2> TAKE r \in Batch
  <2>1. CurrCol(r) + 0 \in Cols /\ CurrCol(r) \in Nat /\ r \in Requests
    BY BatchFacts, BlockAssumption DEF IInv
  <2>2. mamba_state_idx[r] = CurrCol(r)
    BY <1>1 DEF IInv, StepData
  <2>3. QED BY <2>1, <2>2
<1>4. TypeOK'
  BY <1>1, <1>3 DEF IInv, TypeOK, Stage, schedVars
<1>5. \A r \in Requests : /\ Cleaned(r)' = Cleaned(r)
                          /\ PrevCol(r)' = PrevCol(r)
                          /\ CurrCol(r)' = CurrCol(r)
                          /\ MidStep(r) = FALSE
                          /\ MidStep(r)' = FALSE
  BY <1>1 DEF Cleaned, PrevCol, CurrCol, schedVars, MidStep
<1>6. LiveStateExact'
  BY <1>1, <1>5 DEF IInv, LiveStateExact, Holds, LiveCol, LiveBias, LiveTokens,
                    schedVars
<1>7. FreshHasNoEntry'
  BY <1>1, <1>2, <1>5 DEF IInv, FreshHasNoEntry, schedVars
<1>8. PromptOnBoundary'
  BY <1>1, <1>2, <1>5 DEF IInv, PromptOnBoundary, LiveCol, schedVars
<1>9. BatchShape'
  BY <1>1, <1>2 DEF IInv, BatchShape, PassedOver, schedVars
<1>10. StepData'
  BY <1>1, <1>2, <1>3, <1>5 DEF IInv, StepData, Stage, schedVars
<1>11. SpeculativeWindow' /\ ReachedExact' /\ PublishedExact'
  BY <1>1 DEF IInv, SpeculativeWindow, ReachedExact, PublishedExact
<1>12. QED
  BY <1>4, <1>6, <1>7, <1>8, <1>9, <1>10, <1>11 DEF IInv

(* Admitting q: nothing computed, or the state of a cached column, which is *)
(* exact and is found at the seed column.                                   *)
LEMMA AdmitStep ==
  ASSUME IInv, NEW q \in Requests, Admit(q)
  PROVE  IInv'
<1>1. /\ phase = "idle"
      /\ status[q] \in {"new", "preempted"}
      /\ UNCHANGED <<mamba_state_idx, stepVars, published, phase>>
      /\ status' = [status EXCEPT ![q] = "running"]
      /\ prefilling' = [prefilling EXCEPT ![q] = TRUE]
      /\ num_accepted' = [num_accepted EXCEPT ![q] = 1]
      /\ released' = IF status[q] = "preempted"
                     THEN [released EXCEPT !.resumed = @ \cup {q}]
                     ELSE released
  BY DEF Admit, IInv, TypeOK
<1>2. Batch = {} /\ Batch' = {}
  BY <1>1 DEF IInv, BatchShape, Batch, stepVars
<1>3. /\ Cleaned(q)' = Absent
      /\ \A r \in Requests \ {q} : Cleaned(r)' = Cleaned(r)
  BY <1>1 DEF IInv, FreshHasNoEntry, Cleaned, TypeOK
<1> DEFINE Placed(c, f, g) ==
             /\ num_computed_tokens' = [num_computed_tokens EXCEPT ![q] = c]
             /\ ssm' = [ssm EXCEPT ![q] = f]
             /\ conv' = [conv EXCEPT ![q] = g]
             /\ c % BlockSize = 0
             /\ c > 0 => /\ SeedCol(c) \in Cols
                         /\ f[SeedCol(c)] = c
                         /\ g[SeedCol(c)].n = c
<1>4. PICK c \in 0 .. MaxTokens, f \in [Cols -> Content], g \in [Cols -> Window] :
        Placed(c, f, g)
  <2> DEFINE Cold == /\ num_computed_tokens' = [num_computed_tokens EXCEPT ![q] = 0]
                     /\ ssm' = [ssm EXCEPT ![q] = [k \in Cols |-> Junk]]
                     /\ conv' = [conv EXCEPT ![q] = [k \in Cols |-> NoWindow]]
             Hit(e) ==
               /\ (e.col + 1) * BlockSize < MaxTokens
               /\ num_computed_tokens' =
                    [num_computed_tokens EXCEPT ![q] = (e.col + 1) * BlockSize]
               /\ ssm' = [ssm EXCEPT ![q] =
                            [k \in Cols |-> IF k = e.col THEN e.ssm ELSE Junk]]
               /\ conv' = [conv EXCEPT ![q] =
                             [k \in Cols |-> IF k = e.col THEN e.conv ELSE NoWindow]]
  <2>1. Junk \in Content /\ NoWindow \in Window
    BY BlockAssumption, BoundAssumption DEF Content, Junk, Window, NoWindow
  <2>2. CASE Cold
    <3>1. 0 % BlockSize = 0 /\ 0 \in 0 .. MaxTokens
      BY BlockAssumption, BoundAssumption
    <3>2. /\ [k \in Cols |-> Junk] \in [Cols -> Content]
          /\ [k \in Cols |-> NoWindow] \in [Cols -> Window]
      BY <2>1
    <3>3. Placed(0, [k \in Cols |-> Junk], [k \in Cols |-> NoWindow])
      BY <2>2, <3>1
    <3>4. QED BY <3>1, <3>2, <3>3
  <2>3. ASSUME NEW e \in published, Hit(e)
        PROVE  \E c \in 0 .. MaxTokens, f \in [Cols -> Content],
                  g \in [Cols -> Window] : Placed(c, f, g)
    <3>1. e.col \in Cols /\ e.col \in Nat /\ e.ssm \in Content /\ e.conv \in Window
      BY ColsNat DEF IInv, TypeOK
    <3>2. e.ssm = (e.col + 1) * BlockSize /\ e.conv.n = (e.col + 1) * BlockSize
      BY DEF IInv, PublishedExact
    <3>3. /\ (e.col + 1) * BlockSize \in 0 .. MaxTokens
          /\ ((e.col + 1) * BlockSize) % BlockSize = 0
          /\ SeedCol((e.col + 1) * BlockSize) = e.col
      BY <2>3, <3>1, SeedOfColumn, BoundAssumption
    <3>4. /\ [k \in Cols |-> IF k = e.col THEN e.ssm ELSE Junk] \in [Cols -> Content]
          /\ [k \in Cols |-> IF k = e.col THEN e.conv ELSE NoWindow] \in [Cols -> Window]
      BY <2>1, <3>1
    <3>5. Placed((e.col + 1) * BlockSize,
                 [k \in Cols |-> IF k = e.col THEN e.ssm ELSE Junk],
                 [k \in Cols |-> IF k = e.col THEN e.conv ELSE NoWindow])
      BY <2>3, <3>1, <3>2, <3>3
    <3>6. QED BY <3>3, <3>4, <3>5
  <2>4. Cold \/ \E e \in published : Hit(e)
    BY DEF Admit
  <2>5. QED BY <2>2, <2>3, <2>4
<1>5. /\ num_computed_tokens'[q] = c /\ ssm'[q] = f /\ conv'[q] = g
      /\ num_accepted'[q] = 1
      /\ PrevCol(q)' = SeedCol(c)
      /\ \A r \in Requests \ {q} :
           /\ num_computed_tokens'[r] = num_computed_tokens[r]
           /\ ssm'[r] = ssm[r]
           /\ conv'[r] = conv[r]
           /\ status'[r] = status[r]
           /\ prefilling'[r] = prefilling[r]
           /\ num_accepted'[r] = num_accepted[r]
           /\ PrevCol(r)' = PrevCol(r)
  BY <1>1, <1>3, <1>4 DEF IInv, TypeOK, PrevCol
<1>6. TypeOK'
  <2>1. released' \in [finished : SUBSET Requests, preempted : SUBSET Requests,
                       resumed : SUBSET Requests]
    BY <1>1 DEF IInv, TypeOK
  <2>2. /\ num_computed_tokens' \in [Requests -> 0 .. MaxTokens]
        /\ ssm' \in [Requests -> [Cols -> Content]]
        /\ conv' \in [Requests -> [Cols -> Window]]
    BY <1>4 DEF IInv, TypeOK
  <2>3. /\ status' \in [Requests -> {"new", "running", "preempted"}]
        /\ prefilling' \in [Requests -> BOOLEAN]
        /\ num_accepted' \in [Requests -> 1 .. NumSpec + 1]
    BY <1>1, BlockAssumption DEF IInv, TypeOK
  <2>4. UNCHANGED <<mamba_state_idx, stepVars, published, phase>>
    BY <1>1
  <2>5. QED
    BY <2>1, <2>2, <2>3, <2>4 DEF IInv, TypeOK, stepVars
<1>7. LiveStateExact'
  <2>1. ASSUME NEW r \in Requests, status'[r] = "running", LiveTokens(r)' > 0
        PROVE  Holds(r, LiveCol(r), LiveBias(r), LiveTokens(r))'
    <3>1. /\ LiveTokens(r)' = num_computed_tokens'[r]
          /\ LiveBias(r)' = num_accepted'[r] - 1
          /\ LiveCol(r)' = PrevCol(r)'
      BY <1>2 DEF LiveTokens, LiveBias, MidStep, LiveCol
    <3>2. CASE r = q
      <4>1. /\ c > 0
            /\ SeedCol(c) \in Cols
            /\ SeedCol(c) + 0 = SeedCol(c)
            /\ g[SeedCol(c)].ext >= 0
        <5>1. c > 0
          BY <1>5, <2>1, <3>1, <3>2
        <5>2. SeedCol(c) \in Cols /\ SeedCol(c) \in Nat
          BY <1>4, <5>1, ColsNat
        <5>3. g[SeedCol(c)] \in Window
          BY <5>2
        <5>4. g[SeedCol(c)].ext >= 0
          BY <5>3, BlockAssumption DEF Window
        <5>5. QED BY <5>1, <5>2, <5>4
      <4>2. QED BY <1>4, <1>5, <3>1, <3>2, <4>1 DEF Holds
    <3>3. CASE r # q
      <4>1. /\ LiveTokens(r) = num_computed_tokens[r]
            /\ LiveBias(r) = num_accepted[r] - 1
            /\ LiveCol(r) = PrevCol(r)
        BY <1>2 DEF LiveTokens, LiveBias, MidStep, LiveCol
      <4>2. QED BY <1>5, <2>1, <3>1, <3>3, <4>1 DEF IInv, LiveStateExact, Holds
    <3>4. QED BY <3>2, <3>3
  <2>2. QED BY <2>1 DEF LiveStateExact
<1>8. FreshHasNoEntry'
  BY <1>1, <1>3, <1>5 DEF IInv, FreshHasNoEntry
<1>9. PromptOnBoundary'
  BY <1>2, <1>4, <1>5 DEF IInv, PromptOnBoundary, LiveCol
<1>10. BatchShape'
  BY <1>1, <1>2 DEF IInv, BatchShape, stepVars
<1>11. StepData'
  BY <1>1 DEF IInv, StepData, stepVars
<1>12. SpeculativeWindow' /\ ReachedExact' /\ PublishedExact'
  BY <1>1 DEF IInv, SpeculativeWindow, ReachedExact, PublishedExact
<1>13. QED
  BY <1>6, <1>7, <1>8, <1>9, <1>10, <1>11, <1>12 DEF IInv

(* Releasing q: it stops running, and another request in its place starts   *)
(* with no entry.                                                           *)
LEMMA ReleaseStep ==
  ASSUME IInv, NEW q \in Requests, Preempt(q) \/ Finish(q)
  PROVE  IInv'
<1>1. /\ phase = "idle"
      /\ UNCHANGED <<mamba_state_idx, stepVars, published, phase>>
      /\ num_computed_tokens' = [num_computed_tokens EXCEPT ![q] = 0]
      /\ prefilling' = [prefilling EXCEPT ![q] = TRUE]
      /\ ssm' = [ssm EXCEPT ![q] = [k \in Cols |-> Junk]]
      /\ conv' = [conv EXCEPT ![q] = [k \in Cols |-> NoWindow]]
      /\ num_accepted' = [num_accepted EXCEPT ![q] = 1]
  BY DEF Preempt, Finish, FreeBlocks
<1>2. PICK s \in {"new", "preempted"} :
        /\ status' = [status EXCEPT ![q] = s]
        /\ s = "new" => released' = [released EXCEPT !.finished = @ \cup {q}]
        /\ s = "preempted" =>
             \/ released' = [released EXCEPT !.preempted = @ \cup {q}]
             \/ UNCHANGED released
  BY DEF Preempt, Finish
<1>3. Batch = {} /\ Batch' = {}
  BY <1>1 DEF IInv, BatchShape, Batch, stepVars
<1>4. /\ s = "new" => Cleaned(q)' = Absent
      /\ \A r \in Requests \ {q} : Cleaned(r)' = Cleaned(r)
  <2>1. released \in [finished : SUBSET Requests, preempted : SUBSET Requests,
                      resumed : SUBSET Requests]
    BY DEF IInv, TypeOK
  <2>2. CASE released' = [released EXCEPT !.finished = @ \cup {q}]
    BY <1>1, <2>1, <2>2 DEF Cleaned
  <2>3. CASE s = "preempted" /\ released' = [released EXCEPT !.preempted = @ \cup {q}]
    BY <1>1, <2>1, <2>3 DEF Cleaned
  <2>4. CASE s = "preempted" /\ UNCHANGED released
    BY <1>1, <2>4 DEF Cleaned
  <2>5. QED BY <1>2, <2>2, <2>3, <2>4
<1>5. /\ status'[q] = s
      /\ \A r \in Requests \ {q} :
           /\ num_computed_tokens'[r] = num_computed_tokens[r]
           /\ ssm'[r] = ssm[r]
           /\ conv'[r] = conv[r]
           /\ status'[r] = status[r]
           /\ prefilling'[r] = prefilling[r]
           /\ num_accepted'[r] = num_accepted[r]
           /\ PrevCol(r)' = PrevCol(r)
  BY <1>1, <1>2, <1>4 DEF IInv, TypeOK, PrevCol
<1>6. TypeOK'
  <2>1. /\ status' \in [Requests -> {"new", "running", "preempted"}]
        /\ prefilling' \in [Requests -> BOOLEAN]
        /\ num_accepted' \in [Requests -> 1 .. NumSpec + 1]
        /\ num_computed_tokens' \in [Requests -> 0 .. MaxTokens]
    BY <1>1, <1>2, BlockAssumption, BoundAssumption DEF IInv, TypeOK
  <2>2. released' \in [finished : SUBSET Requests, preempted : SUBSET Requests,
                       resumed : SUBSET Requests]
    <3>1. released \in [finished : SUBSET Requests, preempted : SUBSET Requests,
                        resumed : SUBSET Requests]
      BY DEF IInv, TypeOK
    <3>2. \/ released' = [released EXCEPT !.finished = @ \cup {q}]
          \/ released' = [released EXCEPT !.preempted = @ \cup {q}]
          \/ released' = released
      BY <1>2
    <3>3. QED BY <3>1, <3>2
  <2>3. Junk \in Content /\ NoWindow \in Window
    BY BlockAssumption, BoundAssumption DEF Content, Junk, Window, NoWindow
  <2>4. /\ ssm' \in [Requests -> [Cols -> Content]]
        /\ conv' \in [Requests -> [Cols -> Window]]
    BY <1>1, <2>3 DEF IInv, TypeOK
  <2>5. UNCHANGED <<mamba_state_idx, stepVars, published, phase>>
    BY <1>1
  <2>6. QED
    BY <2>1, <2>2, <2>4, <2>5 DEF IInv, TypeOK, stepVars
<1>7. LiveStateExact'
  <2>1. ASSUME NEW r \in Requests, status'[r] = "running", LiveTokens(r)' > 0
        PROVE  Holds(r, LiveCol(r), LiveBias(r), LiveTokens(r))'
    <3>1. r # q
      BY <1>5, <2>1
    <3>2. /\ LiveTokens(r)' = num_computed_tokens'[r]
          /\ LiveBias(r)' = num_accepted'[r] - 1
          /\ LiveCol(r)' = PrevCol(r)'
          /\ LiveTokens(r) = num_computed_tokens[r]
          /\ LiveBias(r) = num_accepted[r] - 1
          /\ LiveCol(r) = PrevCol(r)
      BY <1>3 DEF LiveTokens, LiveBias, MidStep, LiveCol
    <3>3. QED BY <1>5, <2>1, <3>1, <3>2 DEF IInv, LiveStateExact, Holds
  <2>2. QED BY <2>1 DEF LiveStateExact
<1>8. FreshHasNoEntry'
  BY <1>1, <1>4, <1>5 DEF IInv, FreshHasNoEntry
<1>9. PromptOnBoundary'
  BY <1>3, <1>5 DEF IInv, PromptOnBoundary, LiveCol
<1>10. BatchShape'
  BY <1>1, <1>3 DEF IInv, BatchShape, stepVars
<1>11. StepData'
  BY <1>1 DEF IInv, StepData, stepVars
<1>12. SpeculativeWindow' /\ ReachedExact' /\ PublishedExact'
  BY <1>1 DEF IInv, SpeculativeWindow, ReachedExact, PublishedExact
<1>13. QED
  BY <1>6, <1>7, <1>8, <1>9, <1>10, <1>11, <1>12 DEF IInv

(* The live columns of a request are never among those a chunk passes over: *)
(* a prompt chunk starts right behind its state, and a decode step is too   *)
(* short to leave a column out.                                             *)
LEMMA LiveNotPassedOver ==
  ASSUME IInv, phase = "idle",
         NEW r \in Requests, status[r] = "running", num_computed_tokens[r] > 0,
         NEW c, c.n \in 0 .. MaxTokens, c.d \in 0 .. NumSpec, IsChunk(r, c),
         NEW k \in {PrevCol(r), PrevCol(r) + num_accepted[r] - 1}
  PROVE  ~ PassedOver(r, c.n, k)
<1> DEFINE C == num_computed_tokens[r]
<1>1. SUFFICES ASSUME PassedOver(r, c.n, k) PROVE FALSE
  OBVIOUS
<1>2. C \in Nat /\ num_accepted[r] \in Nat
  BY BlockAssumption, BoundAssumption DEF IInv, TypeOK
<1>3. /\ c.n \in Nat
      /\ c.n > 0
      /\ SeedCol(C) < k
      /\ k < StateCol(C, c.n)
  BY <1>1, BoundAssumption DEF PassedOver
<1>4. SeedCol(C) \in Int /\ C <= (SeedCol(C) + 1) * BlockSize
  BY <1>2, SeedFacts
<1>5. CASE prefilling[r]
  <2>1. r \notin Batch
    BY DEF IInv, BatchShape
  <2>2. num_accepted[r] = 1 /\ PrevCol(r) = SeedCol(C)
    BY <1>5, <2>1 DEF IInv, PromptOnBoundary, LiveCol
  <2>3. QED BY <1>3, <1>4, <2>2
<1>6. CASE ~ prefilling[r]
  <2>1. c.n = 1 + c.d
    BY <1>3, <1>6 DEF IsChunk
  <2>2. c.n <= BlockSize
    BY <2>1, BlockAssumption
  <2>3. /\ StateCol(C, c.n) \in Nat
        /\ StateCol(C, c.n) * BlockSize < C + c.n
    BY <1>2, <1>3, StateFacts
  <2>4. (SeedCol(C) + 2) * BlockSize = (SeedCol(C) + 1) * BlockSize + BlockSize
    BY <1>4, BlockAssumption
  <2>5. StateCol(C, c.n) * BlockSize < (SeedCol(C) + 2) * BlockSize
    BY <1>2, <1>3, <1>4, <2>2, <2>3, <2>4, BlockAssumption
  <2>6. StateCol(C, c.n) < SeedCol(C) + 2
    BY <1>4, <2>3, <2>5, MulLess
  <2>7. PrevCol(r) \in Nat
    <3>1. LiveTokens(r) = C /\ LiveCol(r) = PrevCol(r)
      BY DEF LiveTokens, MidStep, LiveCol
    <3>2. PrevCol(r) \in Cols
      BY <3>1 DEF IInv, LiveStateExact, Holds
    <3>3. QED BY <3>2, ColsNat
  <2>8. k \in Int
    BY <1>2, <2>7
  <2>9. QED BY <1>3, <1>4, <2>3, <2>6, <2>8
<1>7. QED BY <1>5, <1>6

(* Scheduling: a chunk passes over columns that do not hold the state, so   *)
(* that nulling them loses nothing.                                         *)
LEMMA ScheduleStep == IInv /\ Schedule => IInv'
<1> SUFFICES ASSUME IInv, Schedule PROVE IInv'
  OBVIOUS
<1>1. /\ phase = "idle"
      /\ phase' = "scheduled"
      /\ UNCHANGED <<status, num_computed_tokens, released, mamba_state_idx,
                     num_accepted, staged, num_accepted_gpu, num_accepted_out,
                     published>>
  BY DEF Schedule
<1>2. PICK choice \in
            [Requests -> {c \in Chunks : \E r \in Requests : IsChunk(r, c)}] :
        /\ \A r \in Requests : IsChunk(r, choice[r])
        /\ num_scheduled' = [r \in Requests |-> choice[r].n]
        /\ num_drafts' = [r \in Requests |-> choice[r].d]
        /\ prefilling' = [r \in Requests |-> ~ choice[r].last]
        /\ ssm' = [r \in Requests |-> [k \in Cols |->
                     IF PassedOver(r, choice[r].n, k) THEN Junk ELSE ssm[r][k]]]
        /\ conv' = [r \in Requests |-> [k \in Cols |->
                     IF PassedOver(r, choice[r].n, k) THEN NoWindow
                     ELSE conv[r][k]]]
  BY DEF Schedule
<1>3. Batch = {}
  BY <1>1 DEF IInv, BatchShape
<1>4. \A r \in Requests : /\ Cleaned(r)' = Cleaned(r)
                          /\ PrevCol(r)' = PrevCol(r)
                          /\ LiveCol(r)' = PrevCol(r)
                          /\ LiveCol(r) = PrevCol(r)
                          /\ LiveTokens(r)' = num_computed_tokens[r]
                          /\ LiveTokens(r) = num_computed_tokens[r]
                          /\ LiveBias(r)' = num_accepted[r] - 1
                          /\ LiveBias(r) = num_accepted[r] - 1
  BY <1>1, <1>3 DEF Cleaned, PrevCol, LiveCol, LiveTokens, LiveBias, MidStep
<1>5. \A r \in Requests :
        /\ choice[r].n \in 0 .. MaxTokens
        /\ choice[r].d \in 0 .. NumSpec
        /\ choice[r].last \in BOOLEAN
  BY <1>2 DEF Chunks
<1>6. TypeOK'
  <2>1. Junk \in Content /\ NoWindow \in Window
    BY BlockAssumption, BoundAssumption DEF Content, Junk, Window, NoWindow
  <2>2. /\ ssm' \in [Requests -> [Cols -> Content]]
        /\ conv' \in [Requests -> [Cols -> Window]]
    BY <1>2, <2>1 DEF IInv, TypeOK
  <2>3. /\ num_scheduled' \in [Requests -> 0 .. MaxTokens]
        /\ num_drafts' \in [Requests -> 0 .. NumSpec]
        /\ prefilling' \in [Requests -> BOOLEAN]
    BY <1>2, <1>5
  <2>4. QED
    BY <1>1, <2>2, <2>3 DEF IInv, TypeOK
<1>7. LiveStateExact'
  <2>1. ASSUME NEW r \in Requests, status[r] = "running",
               num_computed_tokens[r] > 0,
               NEW k \in {PrevCol(r), PrevCol(r) + num_accepted[r] - 1}
        PROVE  ~ PassedOver(r, choice[r].n, k)
    BY <1>1, <1>2, <1>5, <2>1, LiveNotPassedOver
  <2>2. ASSUME NEW r \in Requests, status'[r] = "running", LiveTokens(r)' > 0
        PROVE  Holds(r, LiveCol(r), LiveBias(r), LiveTokens(r))'
    <3>1. status[r] = "running" /\ num_computed_tokens[r] > 0
      BY <1>1, <1>4, <2>2
    <3>2. Holds(r, PrevCol(r), num_accepted[r] - 1, num_computed_tokens[r])
      BY <1>4, <3>1 DEF IInv, LiveStateExact
    <3>3. PrevCol(r) \in Nat /\ num_accepted[r] \in Nat
      <4>1. PrevCol(r) \in Nat
        BY <3>2, ColsNat DEF Holds
      <4>2. num_accepted[r] \in 1 .. NumSpec + 1
        BY DEF IInv, TypeOK
      <4>3. QED BY <4>1, <4>2, BlockAssumption
    <3>4. PrevCol(r) + (num_accepted[r] - 1) = PrevCol(r) + num_accepted[r] - 1
      BY <3>3
    <3>5. /\ ssm'[r][PrevCol(r) + (num_accepted[r] - 1)]
              = ssm[r][PrevCol(r) + (num_accepted[r] - 1)]
          /\ conv'[r][PrevCol(r)] = conv[r][PrevCol(r)]
      BY <1>2, <2>1, <3>1, <3>2, <3>4 DEF Holds
    <3>6. QED BY <1>4, <3>2, <3>5 DEF Holds
  <2>3. QED BY <2>2 DEF LiveStateExact
<1>8. FreshHasNoEntry'
  BY <1>1, <1>4 DEF IInv, FreshHasNoEntry
<1>9. PromptOnBoundary'
  <2>1. ASSUME NEW r \in Requests, status'[r] = "running", prefilling'[r]
        PROVE  IF r \in Batch'
               THEN /\ num_drafts'[r] = 0
                    /\ (num_computed_tokens'[r] + num_scheduled'[r]) % BlockSize = 0
               ELSE /\ num_computed_tokens'[r] % BlockSize = 0
                    /\ num_accepted'[r] = 1
                    /\ LiveCol(r)' = SeedCol(num_computed_tokens'[r])
    <3>1. ~ choice[r].last /\ prefilling[r]
      BY <1>2, <2>1, <1>5 DEF IsChunk, IInv, TypeOK
    <3>2. CASE r \in Batch'
      <4>1. choice[r].n > 0
        BY <1>2, <3>2 DEF Batch
      <4>2. QED BY <1>1, <1>2, <1>5, <3>1, <3>2, <4>1 DEF IsChunk
    <3>3. CASE r \notin Batch'
      BY <1>1, <1>3, <1>4, <2>1, <3>1, <3>3 DEF IInv, PromptOnBoundary
    <3>4. QED BY <3>2, <3>3
  <2>2. QED BY <2>1, <1>1 DEF PromptOnBoundary
<1>10. BatchShape'
  <2>1. ASSUME NEW r \in Requests \ Batch' PROVE num_drafts'[r] = 0
    BY <1>2, <1>5, <2>1 DEF IsChunk, Batch
  <2>2. ASSUME NEW r \in Batch'
        PROVE  /\ status'[r] = "running"
               /\ num_computed_tokens'[r] + num_scheduled'[r] <= MaxTokens
               /\ \/ num_scheduled'[r] = 1 + num_drafts'[r]
                  \/ /\ num_drafts'[r] = 0
                     /\ num_computed_tokens'[r] % BlockSize = 0
                     /\ \A k \in Cols :
                          PassedOver(r, num_scheduled[r], k)' =>
                            ssm'[r][k] = Junk /\ conv'[r][k] = NoWindow
    <3>1. r \in Requests /\ choice[r].n > 0
      BY <1>2, <2>2 DEF Batch
    <3>2. /\ status[r] = "running"
          /\ num_computed_tokens[r] + choice[r].n <= MaxTokens
      BY <1>2, <1>5, <3>1 DEF IsChunk
    <3>3. CASE ~ prefilling[r]
      BY <1>1, <1>2, <1>5, <3>1, <3>2, <3>3 DEF IsChunk
    <3>4. CASE prefilling[r]
      <4>1. num_computed_tokens[r] % BlockSize = 0
        BY <1>3, <3>1, <3>2, <3>4 DEF IInv, PromptOnBoundary
      <4>2. num_drafts'[r] = 0
        BY <1>2, <1>5, <3>1, <3>4 DEF IsChunk
      <4>3. \A k \in Cols : PassedOver(r, num_scheduled[r], k)' =>
                              ssm'[r][k] = Junk /\ conv'[r][k] = NoWindow
        BY <1>1, <1>2, <3>1 DEF PassedOver
      <4>4. QED BY <1>1, <1>2, <3>1, <3>2, <4>1, <4>2, <4>3
    <3>5. QED BY <3>3, <3>4 DEF IInv, TypeOK
  <2>3. QED BY <1>1, <2>1, <2>2 DEF BatchShape
<1>11. StepData'
  BY <1>1, <1>2, <1>3, <1>5, BlockAssumption DEF IInv, StepData, BatchShape, TypeOK
<1>12. SpeculativeWindow' /\ ReachedExact' /\ PublishedExact'
  BY <1>1 DEF IInv, SpeculativeWindow, ReachedExact, PublishedExact
<1>13. QED
  BY <1>6, <1>7, <1>8, <1>9, <1>10, <1>11, <1>12 DEF IInv

(* The columns f, g are those of r except for column k, which holds the      *)
(* state after n tokens.                                                    *)
MovedTo(r, n, k, f, g) ==
  /\ f \in [Cols -> Content]
  /\ g \in [Cols -> Window]
  /\ f[k] = n
  /\ g[k].n = n
  /\ g[k].ext >= 0
  /\ \A c \in Cols \ {k} : f[c] = ssm[r][c] /\ g[c] = conv[r][c]

(* A pre-copy moves exactly the state a request has into its new running    *)
(* column, and touches no other column.                                     *)
LEMMA PrecopyFacts ==
  ASSUME IInv, phase = "scheduled", NEW r \in Requests, NeedsPrecopy(r)
  PROVE  /\ num_computed_tokens[r] > 0
         /\ MovedTo(r, num_computed_tokens[r], CurrCol(r),
                    CopyTemporal(ssm[r], PrevCol(r), CurrCol(r), num_accepted[r] - 1),
                    CopyConv(conv[r], PrevCol(r), CurrCol(r), num_accepted[r] - 1))
<1> DEFINE C == num_computed_tokens[r]
           b == num_accepted[r] - 1
           w == conv[r][PrevCol(r)]
<1>1. /\ r \in Batch
      /\ status[r] = "running"
      /\ C \in Nat
      /\ b \in 0 .. NumSpec
      /\ PrevCol(r) # -1
  BY BlockAssumption, BoundAssumption
     DEF IInv, TypeOK, BatchShape, NeedsPrecopy
<1>2. C > 0
  <2>1. SUFFICES ASSUME C = 0 PROVE FALSE
    BY <1>1
  <2>2. PrevCol(r) = SeedCol(0)
    BY <1>1, <2>1 DEF IInv, FreshHasNoEntry, PrevCol
  <2>3. QED BY <1>1, <2>2, SeedFacts
<1>3. Holds(r, PrevCol(r), b, C)
  <2>1. /\ LiveTokens(r) = C
        /\ LiveCol(r) = PrevCol(r)
        /\ LiveBias(r) = b
    BY DEF LiveTokens, MidStep, LiveCol, LiveBias
  <2>2. QED BY <1>1, <1>2, <2>1 DEF IInv, LiveStateExact
<1>4. w \in Window /\ w.n = C - b /\ w.ext >= b
  BY <1>3 DEF Holds, IInv, TypeOK
<1>5. b <= C /\ w.ext - b \in 0 .. NumSpec
  <2>1. w.ext \in 0 .. NumSpec
    BY <1>4 DEF Window
  <2>2. QED BY <1>1, <1>3, <1>4, <2>1, BlockAssumption DEF Holds
<1>6. Shift(w, b) = [n |-> C, ext |-> w.ext - b]
  <2>1. b \in Int /\ w.ext \in Int
    BY <1>1, <1>4, BlockAssumption DEF Window
  <2>2. w.n # -1 /\ ~ (b > w.ext) /\ w.n + b = C
    BY <1>1, <1>4, <1>5, <2>1
  <2>3. QED BY <2>2 DEF Shift, Junk
<1>7. CopyTemporal(ssm[r], PrevCol(r), CurrCol(r), b) = [ssm[r] EXCEPT ![CurrCol(r)] = C]
  BY <1>3 DEF CopyTemporal, Holds
<1>8. CopyConv(conv[r], PrevCol(r), CurrCol(r), b)
        = [conv[r] EXCEPT ![CurrCol(r)] = [n |-> C, ext |-> w.ext - b]]
  BY <1>6 DEF CopyConv
<1>9. CurrCol(r) \in Cols
  <2>1. CurrCol(r) + 0 \in Cols /\ CurrCol(r) \in Nat
    BY <1>1, BatchFacts, BlockAssumption DEF IInv
  <2>2. QED BY <2>1
<1>10. ssm[r] \in [Cols -> Content] /\ conv[r] \in [Cols -> Window]
  BY DEF IInv, TypeOK
<1>11. C \in Content /\ [n |-> C, ext |-> w.ext - b] \in Window
  <2>1. C \in Content
    BY BoundAssumption DEF IInv, TypeOK, Content, Junk
  <2>2. QED BY <1>5, <2>1 DEF Window
<1>12. w.ext - b >= 0
  BY <1>5, BlockAssumption
<1>13. MovedTo(r, C, CurrCol(r), [ssm[r] EXCEPT ![CurrCol(r)] = C],
               [conv[r] EXCEPT ![CurrCol(r)] = [n |-> C, ext |-> w.ext - b]])
  BY <1>9, <1>10, <1>11, <1>12 DEF MovedTo
<1>14. QED BY <1>2, <1>7, <1>8, <1>13

(* preprocess_mamba keeps the invariant: every scheduled request finds its  *)
(* state in the running column of this step.                                *)
LEMMA PreprocessStep == IInv /\ Preprocess => IInv'
<1> SUFFICES ASSUME IInv, Preprocess PROVE IInv'
  OBVIOUS
<1>1. /\ phase = "scheduled"
      /\ phase' = IF Batch = {} THEN "idle" ELSE "prepared"
      /\ released' = NoneReleased
      /\ UNCHANGED <<status, num_computed_tokens, prefilling, stepVars, published>>
      /\ mamba_state_idx' =
           [r \in Requests |-> IF r \in Batch THEN CurrCol(r) ELSE Cleaned(r)]
      /\ num_accepted' =
           [r \in Requests |-> IF NeedsPrecopy(r) THEN 1 ELSE num_accepted[r]]
  BY DEF Preprocess
<1>2. Batch' = Batch
  BY <1>1 DEF Batch, stepVars
<1>3. \A r \in Batch : /\ r \in Requests
                       /\ CurrCol(r) \in Cols
                       /\ CurrCol(r) \in Nat
  <2> TAKE r \in Batch
  <2>1. CurrCol(r) + 0 \in Cols /\ CurrCol(r) \in Nat /\ r \in Requests
    BY BatchFacts, BlockAssumption DEF IInv
  <2>2. QED BY <2>1
<1>4. \A r \in Requests \ Batch :
        /\ ~ NeedsPrecopy(r)
        /\ mamba_state_idx'[r] = Cleaned(r)
        /\ Cleaned(r)' = Cleaned(r)
        /\ PrevCol(r)' = PrevCol(r)
  BY <1>1 DEF NeedsPrecopy, Cleaned, PrevCol, NoneReleased
<1>5. \A r \in Batch :
        /\ mamba_state_idx'[r] = CurrCol(r)
        /\ CurrCol(r)' = CurrCol(r)
        /\ PrevCol(r)' = CurrCol(r)
  <2> TAKE r \in Batch
  <2>1. mamba_state_idx'[r] = CurrCol(r) /\ CurrCol(r) # Absent
    BY <1>1, <1>3 DEF Absent
  <2>2. Cleaned(r)' = CurrCol(r)
    BY <1>1, <2>1 DEF Cleaned, NoneReleased
  <2>3. CurrCol(r)' = CurrCol(r)
    BY <1>1 DEF CurrCol, stepVars
  <2>4. QED BY <2>1, <2>2, <2>3 DEF PrevCol
<1>6. \A r \in Requests :
        /\ ~ NeedsPrecopy(r) => /\ ssm'[r] = ssm[r]
                                /\ conv'[r] = conv[r]
                                /\ num_accepted'[r] = num_accepted[r]
        /\ NeedsPrecopy(r) =>
             /\ num_computed_tokens[r] > 0
             /\ num_accepted'[r] = 1
             /\ MovedTo(r, num_computed_tokens[r], CurrCol(r), ssm'[r], conv'[r])
  <2> TAKE r \in Requests
  <2>1. CASE ~ NeedsPrecopy(r)
    BY <2>1 DEF Preprocess
  <2>2. CASE NeedsPrecopy(r)
    BY <1>1, <2>2, PrecopyFacts DEF Preprocess
  <2>3. QED BY <2>1, <2>2
<1>7. TypeOK'
  <2>1. ASSUME NEW r \in Requests
        PROVE  /\ ssm'[r] \in [Cols -> Content]
               /\ conv'[r] \in [Cols -> Window]
    <3>1. ssm[r] \in [Cols -> Content] /\ conv[r] \in [Cols -> Window]
      BY DEF IInv, TypeOK
    <3>2. QED BY <1>6, <3>1 DEF MovedTo
  <2>2. /\ ssm' \in [Requests -> [Cols -> Content]]
        /\ conv' \in [Requests -> [Cols -> Window]]
    BY <2>1 DEF Preprocess
  <2>3. mamba_state_idx' \in [Requests -> {Absent} \cup Cols]
    BY <1>1, <1>3 DEF Cleaned, IInv, TypeOK
  <2>4. num_accepted' \in [Requests -> 1 .. NumSpec + 1]
    BY <1>1, BlockAssumption DEF IInv, TypeOK
  <2>5. /\ phase' \in {"idle", "prepared"}
        /\ released' \in [finished : SUBSET Requests,
                          preempted : SUBSET Requests, resumed : SUBSET Requests]
    BY <1>1 DEF NoneReleased
  <2>6. UNCHANGED <<status, num_computed_tokens, prefilling, stepVars, published>>
    BY <1>1
  <2>7. QED
    BY <2>2, <2>3, <2>4, <2>5, <2>6 DEF IInv, TypeOK, stepVars
<1>8. \A r \in Requests : /\ LiveTokens(r) = num_computed_tokens[r]
                          /\ LiveTokens(r)' = num_computed_tokens[r]
                          /\ LiveCol(r) = PrevCol(r)
                          /\ LiveCol(r)' = PrevCol(r)'
                          /\ LiveBias(r) = num_accepted[r] - 1
                          /\ LiveBias(r)' = num_accepted'[r] - 1
  BY <1>1 DEF LiveTokens, LiveCol, LiveBias, MidStep
<1>9. LiveStateExact'
  <2>1. ASSUME NEW r \in Requests, status[r] = "running",
               num_computed_tokens[r] > 0
        PROVE  Holds(r, LiveCol(r), LiveBias(r), LiveTokens(r))'
    <3>1. Holds(r, PrevCol(r), num_accepted[r] - 1, num_computed_tokens[r])
      BY <1>8, <2>1 DEF IInv, LiveStateExact
    <3>2. CASE r \notin Batch
      BY <1>4, <1>6, <1>8, <3>1, <3>2 DEF Holds
    <3>3. CASE r \in Batch /\ ~ NeedsPrecopy(r)
      <4>1. PrevCol(r) = CurrCol(r)
        BY <3>1, <3>3, ColsNat DEF NeedsPrecopy, Holds
      <4>2. QED BY <1>5, <1>6, <1>8, <3>1, <3>3, <4>1 DEF Holds
    <3>4. CASE NeedsPrecopy(r)
      <4>1. r \in Batch /\ CurrCol(r) \in Cols /\ CurrCol(r) + 0 = CurrCol(r)
        BY <1>3, <3>4 DEF NeedsPrecopy
      <4>2. /\ ssm'[r][CurrCol(r)] = num_computed_tokens[r]
            /\ conv'[r][CurrCol(r)].n = num_computed_tokens[r]
            /\ conv'[r][CurrCol(r)].ext >= 0
        BY <1>6, <3>4 DEF MovedTo
      <4>3. LiveBias(r)' = 0 /\ LiveCol(r)' = CurrCol(r)
        BY <1>5, <1>6, <1>8, <3>4, <4>1
      <4>4. num_computed_tokens[r] \in Nat
        BY BoundAssumption DEF IInv, TypeOK
      <4>5. num_computed_tokens[r] - 0 = num_computed_tokens[r]
        BY <4>4
      <4>6. LiveTokens(r)' = num_computed_tokens[r]
        BY <1>8
      <4>7. QED BY <2>1, <4>1, <4>2, <4>3, <4>4, <4>5, <4>6 DEF Holds
    <3>5. QED BY <3>2, <3>3, <3>4
  <2>2. QED BY <1>1, <1>8, <2>1 DEF LiveStateExact
<1>10. FreshHasNoEntry'
  <2>1. \A r \in Batch : status[r] = "running"
    BY DEF IInv, BatchShape
  <2>2. phase' = "idle" => Batch = {}
    BY <1>1
  <2>3. phase' # "scheduled"
    BY <1>1
  <2>4. QED BY <1>1, <1>2, <1>4, <2>1, <2>2, <2>3 DEF IInv, FreshHasNoEntry
<1>11. PromptOnBoundary'
  BY <1>1, <1>2, <1>4, <1>6, <1>8 DEF IInv, PromptOnBoundary, stepVars
<1>12. BatchShape'
  <2>1. ASSUME NEW r \in Batch, NEW k \in Cols,
               PassedOver(r, num_scheduled[r], k)
        PROVE  ssm'[r][k] = ssm[r][k] /\ conv'[r][k] = conv[r][k]
    <3>1. k # CurrCol(r)
      BY <1>3, <2>1, ColsNat DEF PassedOver, CurrCol
    <3>2. QED BY <1>3, <1>6, <3>1 DEF MovedTo
  <2>2. \A r \in Batch, k \in Cols :
          PassedOver(r, num_scheduled[r], k)' = PassedOver(r, num_scheduled[r], k)
    BY <1>1 DEF PassedOver, stepVars
  <2>3. phase' = "idle" => Batch = {}
    BY <1>1
  <2>4. QED BY <1>1, <1>2, <2>1, <2>2, <2>3 DEF IInv, BatchShape, stepVars
<1>13. StepData'
  BY <1>1, <1>2, <1>5 DEF IInv, StepData, stepVars
<1>14. SpeculativeWindow' /\ ReachedExact' /\ PublishedExact'
  BY <1>1 DEF IInv, SpeculativeWindow, ReachedExact, PublishedExact
<1>15. QED
  BY <1>7, <1>9, <1>10, <1>11, <1>12, <1>13, <1>14 DEF IInv

(* What a forward pass reads is the state after the computed tokens. *)
LEMMA ReadExact ==
  ASSUME IInv, phase \in {"prepared", "staged"},
         NEW r \in Batch, num_computed_tokens[r] > 0
  PROVE  /\ TemporalRead(r) = num_computed_tokens[r]
         /\ ConvRead(r).n = num_computed_tokens[r]
<1> DEFINE C == num_computed_tokens[r]
           b == num_accepted[r] - 1
           w == conv[r][mamba_state_idx[r]]
<1>1. /\ r \in Requests
      /\ status[r] = "running"
      /\ C \in Nat
      /\ CurrCol(r) \in Nat
  BY BatchFacts DEF IInv
<1>2. num_accepted[r] \in Int /\ b \in 0 .. NumSpec
  BY <1>1, BlockAssumption DEF IInv, TypeOK
<1>3. mamba_state_idx[r] = CurrCol(r) /\ PrevCol(r) = mamba_state_idx[r]
  <2>1. released = NoneReleased /\ mamba_state_idx[r] = CurrCol(r)
    BY DEF IInv, StepData
  <2>2. Cleaned(r) = CurrCol(r) /\ CurrCol(r) # Absent
    BY <1>1, <2>1 DEF Cleaned, NoneReleased, Absent
  <2>3. QED BY <2>1, <2>2 DEF PrevCol
<1>4. Holds(r, mamba_state_idx[r], b, C)
  <2>1. /\ LiveTokens(r) = C
        /\ LiveCol(r) = PrevCol(r)
        /\ LiveBias(r) = b
    BY DEF LiveTokens, MidStep, LiveCol, LiveBias
  <2>2. QED BY <1>1, <1>3, <2>1 DEF IInv, LiveStateExact
<1>5. TemporalRead(r) = C
  <2>1. mamba_state_idx[r] + b = mamba_state_idx[r] + num_accepted[r] - 1
    BY <1>1, <1>2, <1>3
  <2>2. QED BY <1>4, <2>1 DEF Holds, TemporalRead
<1>6. w \in Window
  BY <1>1, <1>4 DEF Holds, IInv, TypeOK
<1>7. w.n # -1 /\ ~ (b > w.ext) /\ w.n + b = C
  <2>1. b \in Int /\ w.ext \in Int
    BY <1>2, <1>6, BlockAssumption DEF Window
  <2>2. QED BY <1>1, <1>2, <1>4, <2>1, BlockAssumption DEF Holds
<1>8. ConvRead(r).n = C
  BY <1>7 DEF ConvRead, Shift, Junk
<1>9. QED BY <1>5, <1>8

(* Hence a forward pass leaves exact states behind it. *)
LEMMA AfterExact ==
  ASSUME IInv, phase = "staged", NEW r \in Batch, NEW i, NEW a, i < a
  PROVE  After(r, i, a)
           = num_computed_tokens[r] + num_scheduled[r] - num_drafts[r] + i
<1>1. InitialState(r) = num_computed_tokens[r]
  <2>1. CASE num_computed_tokens[r] = 0
    BY <2>1 DEF InitialState
  <2>2. CASE num_computed_tokens[r] # 0
    <3>1. num_computed_tokens[r] > 0
      BY <2>2, BatchFacts DEF IInv
    <3>2. QED BY <2>2, <3>1, ReadExact DEF InitialState
  <2>3. QED BY <2>1, <2>2
<1>2. QED BY <1>1 DEF After

(* The forward pass keeps the invariant: the state moves on with it, to the *)
(* speculative column of the last accepted token.                           *)
LEMMA ForwardStep == IInv /\ Forward => IInv'
<1> SUFFICES ASSUME IInv, Forward PROVE IInv'
  OBVIOUS
<1>1. /\ phase = "staged"
      /\ phase' = "forwarded"
      /\ UNCHANGED <<schedVars, mamba_state_idx, num_accepted, num_scheduled,
                     num_drafts, staged, num_accepted_out, published>>
  BY DEF Forward
<1>2. PICK a \in [Requests -> 1 .. NumSpec + 1] :
        /\ \A r \in Requests : a[r] <= num_drafts[r] + 1
        /\ num_accepted_gpu' = a
        /\ ssm' = [r \in Requests |-> [k \in Cols |->
                     IF r \in Batch /\ k \in mamba_state_idx[r] ..
                                             mamba_state_idx[r] + num_drafts[r]
                     THEN After(r, k - mamba_state_idx[r], a[r])
                     ELSE ssm[r][k]]]
        /\ conv' = [r \in Requests |-> [k \in Cols |->
                     IF r \in Batch /\ k = mamba_state_idx[r]
                     THEN IF After(r, 0, a[r]) = Junk THEN NoWindow
                          ELSE [n |-> After(r, 0, a[r]), ext |-> a[r] - 1]
                     ELSE conv[r][k]]]
  BY DEF Forward
<1>3. Batch' = Batch
  BY <1>1 DEF Batch
<1> DEFINE I(r) == mamba_state_idx[r]
           R(r) == num_computed_tokens[r] + num_scheduled[r] - num_drafts[r]
<1>4. ASSUME NEW r \in Batch
      PROVE  /\ r \in Requests
             /\ status[r] = "running"
             /\ I(r) = CurrCol(r)
             /\ I(r) \in Nat
             /\ I(r) \in Cols
             /\ \A i \in 0 .. NumSpec : I(r) + i \in Cols
             /\ R(r) \in Nat
             /\ R(r) > 0
             /\ num_drafts[r] \in Nat
             /\ num_drafts[r] <= NumSpec
             /\ R(r) + num_drafts[r] <= MaxTokens
             /\ a[r] \in Nat
             /\ a[r] >= 1
             /\ a[r] - 1 <= num_drafts[r]
  <2>1. /\ r \in Requests
        /\ status[r] = "running"
        /\ CurrCol(r) \in Nat
        /\ \A i \in 0 .. NumSpec : CurrCol(r) + i \in Cols
        /\ num_computed_tokens[r] \in Nat
        /\ num_scheduled[r] \in Nat
        /\ num_scheduled[r] > num_drafts[r]
        /\ num_drafts[r] \in 0 .. NumSpec
        /\ num_computed_tokens[r] + num_scheduled[r] <= MaxTokens
    BY BatchFacts DEF IInv
  <2>2. I(r) = CurrCol(r)
    BY <1>1 DEF IInv, StepData
  <2>3. CurrCol(r) + 0 \in Cols /\ CurrCol(r) + 0 = CurrCol(r)
    BY <2>1, BlockAssumption
  <2>4. a[r] \in 1 .. NumSpec + 1 /\ a[r] <= num_drafts[r] + 1
    BY <1>2, <2>1
  <2>5. QED BY <2>1, <2>2, <2>3, <2>4, BlockAssumption, BoundAssumption
<1>5. ASSUME NEW r \in Batch, NEW i \in Int, 0 <= i, i < a[r]
      PROVE  ssm'[r][I(r) + i] = R(r) + i
  <2>1. /\ i \in 0 .. NumSpec
        /\ i <= num_drafts[r]
    BY <1>4, <1>5, BlockAssumption
  <2>2. /\ I(r) + i \in Cols
        /\ I(r) + i \in I(r) .. I(r) + num_drafts[r]
        /\ I(r) + i - I(r) = i
    BY <1>4, <1>5, <2>1
  <2>3. ssm'[r][I(r) + i] = After(r, i, a[r])
    BY <1>2, <1>4, <2>2
  <2>4. QED BY <1>1, <1>5, <2>3, AfterExact
<1>6. ASSUME NEW r \in Batch
      PROVE  /\ conv'[r][I(r)] = [n |-> R(r), ext |-> a[r] - 1]
             /\ conv'[r][I(r)].n = R(r)
             /\ conv'[r][I(r)].ext = a[r] - 1
  <2>1. 0 < a[r] /\ R(r) + 0 = R(r) /\ R(r) # Junk
    BY <1>4 DEF Junk
  <2>2. After(r, 0, a[r]) = R(r)
    BY <1>1, <2>1, AfterExact
  <2>3. conv'[r][I(r)] = [n |-> R(r), ext |-> a[r] - 1]
    BY <1>2, <1>4, <2>1, <2>2
  <2>4. QED BY <2>3
<1>7. ASSUME NEW r \in Requests \ Batch
      PROVE  ssm'[r] = ssm[r] /\ conv'[r] = conv[r]
  BY <1>2 DEF IInv, TypeOK
<1>8. TypeOK'
  <2>1. ASSUME NEW r \in Requests
        PROVE  ssm'[r] \in [Cols -> Content] /\ conv'[r] \in [Cols -> Window]
    <3>1. ssm[r] \in [Cols -> Content] /\ conv[r] \in [Cols -> Window]
      BY DEF IInv, TypeOK
    <3>2. CASE r \notin Batch
      BY <1>7, <3>1, <3>2
    <3>3. CASE r \in Batch
      <4>1. ASSUME NEW k \in Cols PROVE ssm'[r][k] \in Content
        <5>1. CASE k \notin I(r) .. I(r) + num_drafts[r]
          BY <1>2, <3>1, <5>1
        <5>2. CASE k \in I(r) .. I(r) + num_drafts[r]
          <6> DEFINE i == k - I(r)
          <6>1. /\ k \in Int
                /\ i \in Int
                /\ 0 <= i
                /\ i <= num_drafts[r]
            BY <1>4, <3>3, <5>2, ColsNat
          <6>2. ssm'[r][k] = After(r, i, a[r])
            BY <1>2, <3>3, <5>2
          <6>3. CASE i < a[r]
            <7>1. After(r, i, a[r]) = R(r) + i
              BY <1>1, <3>3, <6>3, AfterExact
            <7>2. R(r) + i \in Content
              BY <1>4, <3>3, <6>1, BoundAssumption DEF Content, Junk
            <7>3. QED BY <6>2, <7>1, <7>2
          <6>4. CASE ~ (i < a[r])
            <7>1. After(r, i, a[r]) = Junk
              BY <6>4 DEF After
            <7>2. Junk \in Content
              BY BoundAssumption DEF Content, Junk
            <7>3. QED BY <6>2, <7>1, <7>2
          <6>5. QED BY <6>3, <6>4
        <5>3. QED BY <5>1, <5>2
      <4>2. [n |-> R(r), ext |-> a[r] - 1] \in Window
        BY <1>4, <3>3, BlockAssumption, BoundAssumption DEF Window, Content, Junk
      <4>3. ASSUME NEW k \in Cols PROVE conv'[r][k] \in Window
        <5>1. CASE k = I(r)
          BY <1>6, <3>3, <4>2, <5>1
        <5>2. CASE k # I(r)
          BY <1>2, <3>1, <5>2
        <5>3. QED BY <5>1, <5>2
      <4>4. QED BY <1>2, <4>1, <4>3
    <3>4. QED BY <3>2, <3>3
  <2>2. /\ ssm' \in [Requests -> [Cols -> Content]]
        /\ conv' \in [Requests -> [Cols -> Window]]
    BY <1>2, <2>1
  <2>3. num_accepted_gpu' \in [Requests -> 1 .. NumSpec + 1]
    BY <1>2
  <2>4. QED
    BY <1>1, <2>2, <2>3 DEF IInv, TypeOK, schedVars
<1>9. \A r \in Requests : /\ Cleaned(r)' = Cleaned(r)
                          /\ LiveCol(r)' = LiveCol(r)
                          /\ PrevCol(r)' = PrevCol(r)
                          /\ LiveCol(r) = PrevCol(r)
  BY <1>1 DEF Cleaned, PrevCol, LiveCol, schedVars
<1>10. ASSUME NEW r \in Batch
       PROVE  /\ RunningTokens(r)' = R(r)
              /\ RunningTokens(r) = R(r)
              /\ NewComputed(r)' = R(r) + a[r] - 1
              /\ staged[r].idx = I(r)
              /\ PrevCol(r) = I(r)
  <2>1. /\ staged[r] = [idx |-> mamba_state_idx[r],
                        scheduled |-> num_scheduled[r],
                        computed |-> num_computed_tokens[r],
                        draft |-> num_drafts[r]]
        /\ released = NoneReleased
    BY <1>1 DEF IInv, StepData
  <2>2. Cleaned(r) = I(r) /\ I(r) # Absent
    BY <1>4, <2>1 DEF Cleaned, NoneReleased, Absent
  <2>3. QED
    BY <1>1, <1>2, <2>1, <2>2 DEF RunningTokens, NewComputed, PrevCol
<1>11. LiveStateExact'
  <2>1. ASSUME NEW r \in Requests, status[r] = "running", LiveTokens(r)' > 0
        PROVE  Holds(r, LiveCol(r), LiveBias(r), LiveTokens(r))'
    <3>1. CASE r \notin Batch
      <4>1. /\ LiveTokens(r)' = LiveTokens(r)
            /\ LiveBias(r)' = LiveBias(r)
        BY <1>1, <1>3, <3>1 DEF LiveTokens, LiveBias, MidStep, schedVars
      <4>2. QED BY <1>7, <1>9, <2>1, <3>1, <4>1 DEF IInv, LiveStateExact, Holds
    <3>2. CASE r \in Batch
      <4>1. /\ LiveTokens(r)' = R(r) + a[r] - 1
            /\ LiveBias(r)' = a[r] - 1
            /\ LiveCol(r)' = I(r)
        BY <1>1, <1>2, <1>3, <1>9, <1>10, <3>2 DEF LiveTokens, LiveBias, MidStep
      <4>2. /\ I(r) \in Cols
            /\ I(r) + (a[r] - 1) \in Cols
            /\ a[r] - 1 <= R(r) + a[r] - 1
            /\ R(r) = R(r) + a[r] - 1 - (a[r] - 1)
            /\ R(r) + (a[r] - 1) = R(r) + a[r] - 1
        BY <1>4, <3>2, BlockAssumption
      <4>3. ssm'[r][I(r) + (a[r] - 1)] = R(r) + (a[r] - 1)
        BY <1>4, <1>5, <3>2
      <4>4. conv'[r][I(r)].n = R(r) /\ conv'[r][I(r)].ext = a[r] - 1
        BY <1>6, <3>2
      <4>5. a[r] - 1 >= a[r] - 1
        BY <1>4, <3>2
      <4> HIDE DEF I, R
      <4>6. /\ LiveCol(r)' \in Cols
            /\ LiveCol(r)' + LiveBias(r)' \in Cols
            /\ LiveBias(r)' <= LiveTokens(r)'
        BY <4>1, <4>2
      <4>7. ssm'[r][LiveCol(r)' + LiveBias(r)'] = LiveTokens(r)'
        BY <4>1, <4>2, <4>3
      <4>8. /\ conv'[r][LiveCol(r)'].n = LiveTokens(r)' - LiveBias(r)'
            /\ conv'[r][LiveCol(r)'].ext >= LiveBias(r)'
        <5>1. conv'[r][LiveCol(r)'] = conv'[r][I(r)]
          BY <4>1
        <5>2. LiveTokens(r)' - LiveBias(r)' = R(r)
          BY <1>4, <3>2, <4>1
        <5>3. conv'[r][I(r)].ext >= LiveBias(r)'
          BY <4>1, <4>4, <4>5
        <5>4. QED BY <4>4, <5>1, <5>2, <5>3
      <4>9. QED BY <4>6, <4>7, <4>8 DEF Holds
    <3>3. QED BY <3>1, <3>2
  <2>2. QED BY <1>1, <2>1 DEF LiveStateExact, schedVars
<1>12. FreshHasNoEntry'
  BY <1>1, <1>3, <1>9 DEF IInv, FreshHasNoEntry, schedVars
<1>13. PromptOnBoundary'
  BY <1>1, <1>3, <1>9 DEF IInv, PromptOnBoundary, schedVars
<1>14. BatchShape'
  <2>1. ASSUME NEW r \in Batch, num_drafts[r] = 0, NEW k \in Cols,
               PassedOver(r, num_scheduled[r], k)
        PROVE  ssm'[r][k] = ssm[r][k] /\ conv'[r][k] = conv[r][k]
    <3>1. k # I(r)
      BY <1>4, <2>1, ColsNat DEF PassedOver, CurrCol
    <3>2. k \notin I(r) .. I(r) + num_drafts[r]
      BY <1>4, <2>1, <3>1, ColsNat
    <3>3. QED BY <1>2, <1>4, <3>1, <3>2
  <2>2. \A r \in Batch, k \in Cols :
          PassedOver(r, num_scheduled[r], k)' = PassedOver(r, num_scheduled[r], k)
    BY <1>1 DEF PassedOver, schedVars
  <2>3. QED BY <1>1, <1>3, <2>1, <2>2 DEF IInv, BatchShape, schedVars
<1>15. StepData'
  <2>1. \A r \in Requests : CurrCol(r)' = CurrCol(r)
    BY <1>1 DEF CurrCol, schedVars
  <2>2. \A r \in Requests : /\ num_accepted_gpu'[r] <= num_drafts'[r] + 1
                             /\ num_accepted_out'[r] <= num_drafts'[r] + 1
    BY <1>1, <1>2 DEF IInv, StepData
  <2>3. /\ released = NoneReleased
        /\ \A r \in Batch : mamba_state_idx[r] = CurrCol(r)
        /\ \A r \in Batch :
             staged[r] = [idx |-> mamba_state_idx[r],
                          scheduled |-> num_scheduled[r],
                          computed |-> num_computed_tokens[r],
                          draft |-> num_drafts[r]]
    BY <1>1 DEF IInv, StepData
  <2>4. /\ released' = NoneReleased
        /\ \A r \in Batch : mamba_state_idx'[r] = CurrCol(r)'
        /\ \A r \in Batch :
             staged'[r] = [idx |-> mamba_state_idx'[r],
                           scheduled |-> num_scheduled'[r],
                           computed |-> num_computed_tokens'[r],
                           draft |-> num_drafts'[r]]
    <3>1. Batch \subseteq Requests
      BY DEF Batch
    <3>2. QED BY <1>1, <2>1, <2>3, <3>1 DEF schedVars
  <2>5. QED BY <1>3, <2>2, <2>4 DEF StepData, NoneReleased
<1>16. SpeculativeWindow'
  <2>1. ASSUME NEW r \in Batch
        PROVE  /\ \A i \in 0 .. num_accepted_gpu'[r] - 1 :
                    ssm'[r][staged'[r].idx + i] = RunningTokens(r)' + i
               /\ conv'[r][staged'[r].idx] = [n |-> RunningTokens(r)',
                                              ext |-> num_accepted_gpu'[r] - 1]
    <3>1. /\ staged'[r].idx = I(r)
          /\ RunningTokens(r)' = R(r)
          /\ num_accepted_gpu'[r] = a[r]
      BY <1>1, <1>2, <1>10
    <3>2. conv'[r][I(r)] = [n |-> R(r), ext |-> a[r] - 1]
      BY <1>6
    <3>3. \A i \in 0 .. a[r] - 1 : ssm'[r][I(r) + i] = R(r) + i
      <4>1. ASSUME NEW i \in 0 .. a[r] - 1
            PROVE  ssm'[r][I(r) + i] = R(r) + i
        <5>1. i \in Int /\ 0 <= i /\ i < a[r]
          BY <1>4
        <5>2. QED BY <1>5, <5>1
      <4>2. QED BY <4>1
    <3> HIDE DEF I, R
    <3>4. QED BY <3>1, <3>2, <3>3
  <2>2. QED BY <1>3, <2>1 DEF SpeculativeWindow
<1>17. ReachedExact' /\ PublishedExact'
  BY <1>1 DEF IInv, ReachedExact, PublishedExact
<1>18. QED
  BY <1>8, <1>11, <1>12, <1>13, <1>14, <1>15, <1>16, <1>17 DEF IInv

(* What the postprocess kernel finds: the states of the accepted tokens in  *)
(* the running column and behind it.                                        *)
LEMMA AcceptedFacts ==
  ASSUME IInv, phase = "forwarded", NEW r \in Batch
  PROVE  /\ RunningTokens(r)
              = num_computed_tokens[r] + num_scheduled[r] - num_drafts[r]
         /\ NewComputed(r) = RunningTokens(r) + num_accepted_gpu[r] - 1
         /\ RunningTokens(r) \in Nat
         /\ RunningTokens(r) > num_computed_tokens[r]
         /\ NewComputed(r) \in Nat
         /\ NewComputed(r) <= num_computed_tokens[r] + num_scheduled[r]
         /\ num_accepted_gpu[r] \in 1 .. NumSpec + 1
         /\ num_accepted_gpu[r] <= num_drafts[r] + 1
         /\ staged[r].idx = CurrCol(r)
         /\ mamba_state_idx[r] = CurrCol(r)
         /\ \A i \in 0 .. num_accepted_gpu[r] - 1 :
              ssm[r][CurrCol(r) + i] = RunningTokens(r) + i
         /\ conv[r][CurrCol(r)] = [n |-> RunningTokens(r),
                                   ext |-> num_accepted_gpu[r] - 1]
         /\ ssm[r] \in [Cols -> Content]
         /\ conv[r] \in [Cols -> Window]
<1>1. /\ r \in Requests
      /\ num_computed_tokens[r] \in Nat
      /\ num_scheduled[r] \in Nat
      /\ num_scheduled[r] > num_drafts[r]
      /\ num_drafts[r] \in 0 .. NumSpec
  BY BatchFacts DEF IInv
<1>2. /\ staged[r] = [idx |-> mamba_state_idx[r],
                      scheduled |-> num_scheduled[r],
                      computed |-> num_computed_tokens[r],
                      draft |-> num_drafts[r]]
      /\ mamba_state_idx[r] = CurrCol(r)
      /\ num_accepted_gpu[r] <= num_drafts[r] + 1
  BY <1>1 DEF IInv, StepData
<1>3. num_accepted_gpu[r] \in 1 .. NumSpec + 1
  BY <1>1 DEF IInv, TypeOK
<1>4. ssm[r] \in [Cols -> Content] /\ conv[r] \in [Cols -> Window]
  BY <1>1 DEF IInv, TypeOK
<1>5. /\ \A i \in 0 .. num_accepted_gpu[r] - 1 :
           ssm[r][staged[r].idx + i] = RunningTokens(r) + i
      /\ conv[r][staged[r].idx] = [n |-> RunningTokens(r),
                                   ext |-> num_accepted_gpu[r] - 1]
  BY DEF IInv, SpeculativeWindow
<1>6. /\ RunningTokens(r)
           = num_computed_tokens[r] + num_scheduled[r] - num_drafts[r]
      /\ NewComputed(r) = RunningTokens(r) + num_accepted_gpu[r] - 1
      /\ staged[r].idx = CurrCol(r)
  BY <1>2 DEF RunningTokens, NewComputed
<1>7. /\ RunningTokens(r) \in Nat
      /\ RunningTokens(r) > num_computed_tokens[r]
      /\ NewComputed(r) \in Nat
      /\ NewComputed(r) <= num_computed_tokens[r] + num_scheduled[r]
  BY <1>1, <1>2, <1>3, <1>6, BlockAssumption
<1>8. QED BY <1>2, <1>3, <1>4, <1>5, <1>6, <1>7

(* Where the copy goes and what it takes: the boundary among the accepted   *)
(* tokens, to that boundary's column, which is not behind the running one.  *)
LEMMA BoundaryFacts ==
  ASSUME IInv, phase = "forwarded", NEW r \in Batch, NeedsCopy(r)
  PROVE  /\ DestCol(r) \in Cols
         /\ DestCol(r) \in Nat
         /\ DestCol(r) <= CurrCol(r)
         /\ AlignedNew(r) = (DestCol(r) + 1) * BlockSize
         /\ AlignedNew(r) \in Nat
         /\ AlignedNew(r) <= NewComputed(r)
         /\ CopyBias(r) \in 0 .. num_accepted_gpu[r] - 1
         /\ AlignedNew(r) = RunningTokens(r) + CopyBias(r)
         /\ DestCol(r) = CurrCol(r) =>
              /\ AlignedNew(r) = NewComputed(r)
              /\ CopyBias(r) = num_accepted_gpu[r] - 1
<1> DEFINE q == NewComputed(r) \div BlockSize
           C == num_computed_tokens[r]
           n == num_scheduled[r]
<1>1. /\ C \in Nat
      /\ n \in Nat
      /\ CurrCol(r) \in Nat
      /\ C + n <= (CurrCol(r) + 1) * BlockSize
      /\ CurrCol(r) + 0 \in Cols
  BY BatchFacts, BlockAssumption DEF IInv
<1>2. /\ RunningTokens(r) \in Nat
      /\ RunningTokens(r) > C
      /\ NewComputed(r) \in Nat
      /\ NewComputed(r) = RunningTokens(r) + num_accepted_gpu[r] - 1
      /\ NewComputed(r) <= C + n
      /\ num_accepted_gpu[r] \in Nat
  <2>1. num_accepted_gpu[r] \in 1 .. NumSpec + 1
    BY AcceptedFacts
  <2>2. num_accepted_gpu[r] \in Nat
    BY <2>1, BlockAssumption
  <2>3. QED BY <2>2, AcceptedFacts
<1>3. /\ q \in Int
      /\ q * BlockSize <= NewComputed(r)
      /\ AlignedNew(r) = q * BlockSize
      /\ RunningTokens(r) <= q * BlockSize
  BY <1>2, DivFacts DEF AlignedNew, NeedsCopy
<1>4. AlignedNew(r) \div BlockSize = q
  <2>1. q * BlockSize \in Int /\ q * BlockSize < (q + 1) * BlockSize
    BY <1>3, BlockAssumption
  <2>2. QED BY <1>3, <2>1, DivUnique
<1>5. DestCol(r) = q - 1
  BY <1>4 DEF DestCol
<1>6. q > 0
  <2>1. 0 * BlockSize < q * BlockSize
    BY <1>1, <1>2, <1>3, BlockAssumption
  <2>2. QED BY <1>3, <2>1, MulLess
<1>7. q <= CurrCol(r) + 1
  <2>1. (CurrCol(r) + 1) * BlockSize < (CurrCol(r) + 1 + 1) * BlockSize
    BY <1>1, BlockAssumption
  <2>2. (CurrCol(r) + 1) * BlockSize \in Int
        /\ (CurrCol(r) + 1 + 1) * BlockSize \in Int
        /\ q * BlockSize \in Int
    BY <1>1, <1>3, BlockAssumption
  <2>3. q * BlockSize < (CurrCol(r) + 1 + 1) * BlockSize
    BY <1>1, <1>2, <1>3, <2>1, <2>2
  <2>4. q < CurrCol(r) + 1 + 1
    BY <1>1, <1>3, <2>3, MulLess
  <2>5. QED BY <1>1, <1>3, <2>4
<1>8. /\ DestCol(r) \in Nat
      /\ DestCol(r) <= CurrCol(r)
      /\ DestCol(r) + 1 = q
  BY <1>1, <1>3, <1>5, <1>6, <1>7
<1>9. DestCol(r) \in Cols
  <2>1. CurrCol(r) \in Cols
    BY <1>1
  <2>2. QED BY <1>8, <2>1, <1>1, BlockAssumption, BoundAssumption DEF Cols, Cdiv
<1>10. q * BlockSize \in Nat
  BY <1>3, <1>6, BlockAssumption
<1>11. /\ CopyBias(r) \in 0 .. num_accepted_gpu[r] - 1
       /\ AlignedNew(r) = RunningTokens(r) + CopyBias(r)
  BY <1>2, <1>3, <1>10 DEF CopyBias
<1>12. ASSUME DestCol(r) = CurrCol(r)
       PROVE  /\ AlignedNew(r) = NewComputed(r)
              /\ CopyBias(r) = num_accepted_gpu[r] - 1
  <2>1. q * BlockSize = (CurrCol(r) + 1) * BlockSize
    BY <1>8, <1>12
  <2>2. q * BlockSize = NewComputed(r)
    BY <1>1, <1>2, <1>3, <1>10, <2>1
  <2>3. QED BY <1>2, <1>3, <2>2 DEF CopyBias
<1>13. QED BY <1>3, <1>8, <1>9, <1>10, <1>11, <1>12

(* The copy leaves the state of the boundary in its column, also when it    *)
(* was there already, and touches no other column.                          *)
LEMMA PostcopyFacts ==
  ASSUME IInv, Postprocess, NEW r \in Batch, NeedsCopy(r)
  PROVE  MovedTo(r, AlignedNew(r), DestCol(r), ssm'[r], conv'[r])
<1> DEFINE a == num_accepted_gpu[r]
           b == CopyBias(r)
           D == DestCol(r)
           w == conv[r][CurrCol(r)]
<1>1. /\ phase = "forwarded"
      /\ r \in Requests
  BY DEF Postprocess, Batch
<1>2. /\ staged[r].idx = CurrCol(r)
      /\ a \in 1 .. NumSpec + 1
      /\ w = [n |-> RunningTokens(r), ext |-> a - 1]
      /\ \A i \in 0 .. a - 1 : ssm[r][CurrCol(r) + i] = RunningTokens(r) + i
      /\ RunningTokens(r) \in Nat
      /\ ssm[r] \in [Cols -> Content]
      /\ conv[r] \in [Cols -> Window]
  BY <1>1, AcceptedFacts
<1>3. /\ D \in Cols
      /\ D \in Nat
      /\ AlignedNew(r) \in Nat
      /\ AlignedNew(r) <= NewComputed(r)
      /\ b \in 0 .. a - 1
      /\ AlignedNew(r) = RunningTokens(r) + b
  BY <1>1, BoundaryFacts
<1>4. /\ a \in Nat
      /\ b \in Nat
      /\ b <= a - 1
      /\ a - 1 - b \in 0 .. NumSpec
      /\ a - 1 - b >= 0
  BY <1>2, <1>3, BlockAssumption
<1>5. ssm[r][CurrCol(r) + b] = AlignedNew(r)
  BY <1>2, <1>3
<1>6. Shift(w, b) = [n |-> AlignedNew(r), ext |-> a - 1 - b]
  <2>1. w.n # Junk /\ ~ (b > w.ext)
    BY <1>2, <1>4 DEF Junk
  <2>2. w.n + b = AlignedNew(r) /\ w.ext - b = a - 1 - b
    BY <1>2, <1>3
  <2>3. QED BY <2>1, <2>2 DEF Shift
<1>7. AlignedNew(r) \in Content /\ [n |-> AlignedNew(r), ext |-> a - 1 - b] \in Window
  <2>1. NewComputed(r) <= MaxTokens
    <3>1. /\ NewComputed(r) <= num_computed_tokens[r] + num_scheduled[r]
          /\ NewComputed(r) \in Nat
      BY <1>1, AcceptedFacts
    <3>2. /\ num_computed_tokens[r] + num_scheduled[r] <= MaxTokens
          /\ num_computed_tokens[r] \in Nat
          /\ num_scheduled[r] \in Nat
      BY BatchFacts DEF IInv
    <3>3. QED BY <3>1, <3>2, BoundAssumption
  <2>2. NewComputed(r) \in Nat
    BY <1>1, AcceptedFacts
  <2>3. AlignedNew(r) \in Content
    BY <1>3, <2>1, <2>2, BoundAssumption DEF Content, Junk
  <2>4. QED BY <1>4, <2>3 DEF Window
<1>8. CASE SelfCopy(r)
  <2>1. D = CurrCol(r) /\ b = 0
    BY <1>2, <1>8 DEF SelfCopy
  <2>2. ssm'[r] = ssm[r] /\ conv'[r] = conv[r]
    BY <1>1, <1>8 DEF Postprocess
  <2>3. D + b = D
    BY <1>3, <2>1
  <2>4. ssm[r][D] = AlignedNew(r)
    BY <1>5, <2>1, <2>3
  <2>5. w.n = AlignedNew(r) /\ w.ext >= 0
    BY <1>2, <1>3, <1>4, <2>1
  <2>6. QED BY <1>2, <2>1, <2>2, <2>4, <2>5 DEF MovedTo
<1>9. CASE ~ SelfCopy(r)
  <2>1. /\ ssm'[r] = CopyTemporal(ssm[r], CurrCol(r), D, b)
        /\ conv'[r] = CopyConv(conv[r], CurrCol(r), D, b)
    BY <1>1, <1>2, <1>9 DEF Postprocess
  <2>2. ssm'[r] = [ssm[r] EXCEPT ![D] = AlignedNew(r)]
    BY <1>5, <2>1 DEF CopyTemporal
  <2>3. conv'[r] = [conv[r] EXCEPT ![D] = [n |-> AlignedNew(r),
                                           ext |-> a - 1 - b]]
    BY <1>6, <2>1 DEF CopyConv
  <2>4. MovedTo(r, AlignedNew(r), D, ssm'[r], conv'[r])
    <3> HIDE DEF D
    <3>1. /\ ssm'[r] \in [Cols -> Content]
          /\ ssm'[r][D] = AlignedNew(r)
          /\ \A c \in Cols \ {D} : ssm'[r][c] = ssm[r][c]
      BY <1>2, <1>3, <1>7, <2>2
    <3>2. /\ conv'[r] \in [Cols -> Window]
          /\ conv'[r][D] = [n |-> AlignedNew(r), ext |-> a - 1 - b]
          /\ \A c \in Cols \ {D} : conv'[r][c] = conv[r][c]
      BY <1>2, <1>3, <1>7, <2>3
    <3>3. conv'[r][D].n = AlignedNew(r) /\ conv'[r][D].ext = a - 1 - b
      BY <3>2
    <3>4. QED BY <1>4, <3>1, <3>2, <3>3 DEF MovedTo
  <2>5. QED BY <2>4
<1>10. QED BY <1>8, <1>9

(* A column whose boundary this step passed is the one the copy fills, or   *)
(* it has no block: a decode step passes at most one boundary, because a    *)
(* draft is shorter than a block, and a prompt chunk owns only its last     *)
(* column.                                                                  *)
LEMMA ReachedByCopy ==
  ASSUME IInv, phase = "forwarded", NEW r \in Batch, NEW k \in Cols,
         (k + 1) * BlockSize > num_computed_tokens[r],
         (k + 1) * BlockSize <= NewComputed(r)
  PROVE  \/ NeedsCopy(r) /\ k = DestCol(r)
         \/ ssm[r][k] = Junk /\ conv[r][k] = NoWindow
<1> DEFINE q == NewComputed(r) \div BlockSize
           C == num_computed_tokens[r]
           n == num_scheduled[r]
           d == num_drafts[r]
<1>1. /\ C \in Nat
      /\ n \in Nat
      /\ d \in 0 .. NumSpec
      /\ C + n <= (CurrCol(r) + 1) * BlockSize
      /\ CurrCol(r) \in Nat
  BY BatchFacts DEF IInv
<1>2. /\ RunningTokens(r) = C + n - d
      /\ RunningTokens(r) \in Nat
      /\ NewComputed(r) \in Nat
      /\ NewComputed(r) <= C + n
  BY AcceptedFacts
<1>3. k \in Nat /\ (k + 1) * BlockSize \in Nat
  BY ColsNat, BlockAssumption
<1>4. /\ q \in Int
      /\ AlignedNew(r) = q * BlockSize
      /\ q * BlockSize <= NewComputed(r)
      /\ NewComputed(r) < (q + 1) * BlockSize
  BY <1>2, DivFacts DEF AlignedNew
<1>5. k + 1 <= q
  <2>1. (k + 1) * BlockSize < (q + 1) * BlockSize
    BY <1>2, <1>3, <1>4, BlockAssumption
  <2>2. k + 1 < q + 1
    BY <1>3, <1>4, <2>1, MulLess
  <2>3. QED BY <1>3, <1>4, <2>2
<1>6. (k + 1) * BlockSize <= q * BlockSize /\ q * BlockSize \in Nat
  BY <1>3, <1>4, <1>5, MulMono, BlockAssumption
<1>7. ASSUME q = k + 1, RunningTokens(r) <= q * BlockSize
      PROVE  NeedsCopy(r) /\ k = DestCol(r)
  <2>1. NeedsCopy(r)
    BY <1>2, <1>4, <1>6, <1>7 DEF NeedsCopy
  <2>2. AlignedNew(r) = (DestCol(r) + 1) * BlockSize /\ DestCol(r) \in Nat
    BY <2>1, BoundaryFacts
  <2>3. DestCol(r) + 1 = q
    <3>1. (q * BlockSize) \div BlockSize = q
      <4>1. q * BlockSize < (q + 1) * BlockSize
        BY <1>4, BlockAssumption
      <4>2. QED BY <1>4, <1>6, <4>1, DivUnique
    <3>2. QED BY <1>4, <3>1 DEF DestCol
  <2>4. QED BY <1>3, <1>7, <2>1, <2>2, <2>3
<1>8. CASE n = 1 + d
  <2>1. RunningTokens(r) = C + 1
    BY <1>1, <1>2, <1>8, BlockAssumption
  <2>2. RunningTokens(r) <= q * BlockSize
    BY <1>1, <1>3, <1>6, <2>1
  <2>3. q = k + 1
    <3>1. SUFFICES ASSUME q > k + 1 PROVE FALSE
      BY <1>3, <1>4, <1>5
    <3>2. (k + 1 + 1) * BlockSize <= q * BlockSize
      BY <1>3, <1>4, <3>1, MulMono
    <3>3. (k + 1 + 1) * BlockSize = (k + 1) * BlockSize + BlockSize
      BY <1>3, BlockAssumption
    <3>4. C + n <= C + BlockSize
      BY <1>1, <1>8, BlockAssumption
    <3>5. QED
      BY <1>1, <1>2, <1>3, <1>4, <1>6, <3>2, <3>3, <3>4, BlockAssumption
  <2>4. QED BY <1>7, <2>2, <2>3
<1>9. CASE /\ d = 0
           /\ C % BlockSize = 0
           /\ \A c \in Cols : PassedOver(r, n, c) =>
                                ssm[r][c] = Junk /\ conv[r][c] = NoWindow
  <2>1. RunningTokens(r) = C + n /\ n > 0
    BY <1>1, <1>2, <1>9 DEF Batch
  <2>2. C = (SeedCol(C) + 1) * BlockSize /\ SeedCol(C) \in Int
    BY <1>1, <1>9, SeedAligned, SeedFacts
  <2>3. SeedCol(C) < k
    <3>1. (SeedCol(C) + 1) * BlockSize < (k + 1) * BlockSize
      BY <2>2
    <3>2. SeedCol(C) + 1 < k + 1
      BY <1>3, <2>2, <3>1, MulLess
    <3>3. QED BY <1>3, <2>2, <3>2
  <2>4. CASE k < CurrCol(r)
    <3>1. PassedOver(r, n, k)
      BY <2>1, <2>3, <2>4 DEF PassedOver, CurrCol
    <3>2. QED BY <1>9, <3>1
  <2>5. CASE k >= CurrCol(r)
    <3>1. (CurrCol(r) + 1) * BlockSize <= (k + 1) * BlockSize
      BY <1>1, <1>3, <2>5, MulMono
    <3>2. (CurrCol(r) + 1) * BlockSize \in Nat
      BY <1>1, BlockAssumption
    <3>3. NewComputed(r) = (k + 1) * BlockSize /\ NewComputed(r) = C + n
      BY <1>1, <1>2, <1>3, <3>1, <3>2
    <3>4. q * BlockSize = (k + 1) * BlockSize
      BY <1>2, <1>3, <1>4, <1>6, <3>3
    <3>5. q = k + 1
      <4>1. (k + 1) * BlockSize < (k + 1 + 1) * BlockSize
        BY <1>3, BlockAssumption
      <4>2. NewComputed(r) \div BlockSize = k + 1
        BY <1>2, <1>3, <3>3, <4>1, DivUnique
      <4>3. QED BY <4>2
    <3>6. QED BY <1>7, <2>1, <3>3, <3>4, <3>5, <1>2
  <2>6. QED BY <1>1, <1>3, <2>4, <2>5
<1>10. QED
  BY <1>8, <1>9 DEF IInv, BatchShape

(* The postprocess copy keeps the invariant: the state stays readable, at   *)
(* offset 0 when the running column was the destination.                    *)
LEMMA PostprocessStep == IInv /\ Postprocess => IInv'
<1> SUFFICES ASSUME IInv, Postprocess PROVE IInv'
  OBVIOUS
<1>1. /\ phase = "forwarded"
      /\ phase' = "postprocessed"
      /\ num_accepted_out' = [r \in Requests |-> Accepted(r)]
      /\ UNCHANGED <<schedVars, mamba_state_idx, num_accepted, num_scheduled,
                     num_drafts, staged, num_accepted_gpu, published>>
  BY DEF Postprocess
<1>2. Batch' = Batch /\ Batch \subseteq Requests
  BY <1>1 DEF Batch
<1>3. \A r \in Requests : ~ NeedsCopy(r) => ssm'[r] = ssm[r] /\ conv'[r] = conv[r]
  BY DEF Postprocess
<1>4. \A r \in Requests : NeedsCopy(r) =>
        MovedTo(r, AlignedNew(r), DestCol(r), ssm'[r], conv'[r])
  BY PostcopyFacts DEF NeedsCopy
<1>5. \A r \in Requests : NeedsCopy(r) => r \in Batch
  BY DEF NeedsCopy
<1>6. \A r \in Requests : /\ Cleaned(r)' = Cleaned(r)
                          /\ PrevCol(r)' = PrevCol(r)
                          /\ CurrCol(r)' = CurrCol(r)
                          /\ RunningTokens(r)' = RunningTokens(r)
                          /\ NewComputed(r)' = NewComputed(r)
                          /\ LiveCol(r) = PrevCol(r)
                          /\ LiveCol(r)' = PrevCol(r)
  BY <1>1 DEF Cleaned, PrevCol, CurrCol, RunningTokens, NewComputed, LiveCol,
              schedVars
<1>7. TypeOK'
  <2>1. ASSUME NEW r \in Requests
        PROVE  /\ ssm'[r] \in [Cols -> Content]
               /\ conv'[r] \in [Cols -> Window]
    <3>1. ssm[r] \in [Cols -> Content] /\ conv[r] \in [Cols -> Window]
      BY DEF IInv, TypeOK
    <3>2. QED BY <1>3, <1>4, <3>1 DEF MovedTo
  <2>2. /\ ssm' \in [Requests -> [Cols -> Content]]
        /\ conv' \in [Requests -> [Cols -> Window]]
    BY <2>1 DEF Postprocess
  <2>3. num_accepted_out' \in [Requests -> 1 .. NumSpec + 1]
    <3>1. num_accepted_gpu \in [Requests -> 1 .. NumSpec + 1]
      BY DEF IInv, TypeOK
    <3>2. \A r \in Requests : Accepted(r) \in 1 .. NumSpec + 1
      BY <3>1, BlockAssumption DEF Accepted
    <3>3. QED BY <1>1, <3>2
  <2>4. QED BY <1>1, <2>2, <2>3 DEF IInv, TypeOK, schedVars
<1>8. LiveStateExact'
  <2>1. ASSUME NEW r \in Requests, status[r] = "running", LiveTokens(r)' > 0
        PROVE  Holds(r, LiveCol(r), LiveBias(r), LiveTokens(r))'
    <3>1. CASE r \notin Batch
      <4>1. /\ LiveTokens(r)' = LiveTokens(r)
            /\ LiveBias(r)' = LiveBias(r)
        BY <1>1, <1>2, <1>6, <3>1 DEF LiveTokens, LiveBias, MidStep, schedVars
      <4>2. ssm'[r] = ssm[r] /\ conv'[r] = conv[r]
        BY <1>3, <1>5, <3>1
      <4>3. QED BY <1>6, <2>1, <4>1, <4>2 DEF IInv, LiveStateExact, Holds
    <3>2. CASE r \in Batch
      <4>1. /\ LiveTokens(r) = NewComputed(r)
            /\ LiveTokens(r)' = NewComputed(r)
            /\ LiveBias(r) = num_accepted_gpu[r] - 1
            /\ LiveBias(r)' = num_accepted_out'[r] - 1
            /\ num_accepted_out'[r] = Accepted(r)
        BY <1>1, <1>2, <1>6, <3>2 DEF LiveTokens, LiveBias, MidStep
      <4>2. Holds(r, LiveCol(r), num_accepted_gpu[r] - 1, NewComputed(r))
        BY <2>1, <4>1 DEF IInv, LiveStateExact
      <4>3. /\ LiveCol(r) = CurrCol(r)
            /\ CurrCol(r) \in Nat
            /\ num_accepted_gpu[r] \in Nat
            /\ num_accepted_gpu[r] >= 1
            /\ staged[r].idx = CurrCol(r)
            /\ NewComputed(r) \in Nat
        <5>1. /\ mamba_state_idx[r] = CurrCol(r)
              /\ CurrCol(r) \in Nat
              /\ staged[r].idx = CurrCol(r)
              /\ NewComputed(r) \in Nat
          BY <1>1, <3>2, AcceptedFacts, BatchFacts DEF IInv
        <5>2. released = NoneReleased
          BY <1>1 DEF IInv, StepData
        <5>3. PrevCol(r) = CurrCol(r)
          BY <5>1, <5>2 DEF PrevCol, Cleaned, NoneReleased, Absent
        <5>4. num_accepted_gpu[r] \in 1 .. NumSpec + 1
          BY <1>1, <3>2, AcceptedFacts
        <5>5. QED BY <1>6, <5>1, <5>3, <5>4, BlockAssumption
      <4>4. CASE ~ NeedsCopy(r)
        <5>1. Accepted(r) = num_accepted_gpu[r]
          BY <4>4 DEF Accepted
        <5>2. QED BY <1>3, <1>6, <4>1, <4>2, <4>4, <5>1 DEF Holds
      <4>5. CASE NeedsCopy(r) /\ DestCol(r) # CurrCol(r)
        <5>1. /\ Accepted(r) = num_accepted_gpu[r]
              /\ DestCol(r) <= CurrCol(r)
              /\ DestCol(r) \in Nat
          BY <1>1, <3>2, <4>3, <4>5, BoundaryFacts DEF Accepted
        <5>2. CurrCol(r) + (num_accepted_gpu[r] - 1) # DestCol(r)
          BY <4>3, <4>5, <5>1
        <5>3. MovedTo(r, AlignedNew(r), DestCol(r), ssm'[r], conv'[r])
          BY <1>4, <4>5
        <5>4. /\ CurrCol(r) \in Cols
              /\ CurrCol(r) + (num_accepted_gpu[r] - 1) \in Cols
          BY <4>2, <4>3 DEF Holds
        <5>5. /\ ssm'[r][CurrCol(r) + (num_accepted_gpu[r] - 1)]
                   = ssm[r][CurrCol(r) + (num_accepted_gpu[r] - 1)]
              /\ conv'[r][CurrCol(r)] = conv[r][CurrCol(r)]
          BY <4>5, <5>2, <5>3, <5>4 DEF MovedTo
        <5>6. QED BY <1>6, <4>1, <4>2, <4>3, <5>1, <5>5 DEF Holds
      <4>6. CASE NeedsCopy(r) /\ DestCol(r) = CurrCol(r)
        <5>1. Accepted(r) = 1 /\ AlignedNew(r) = NewComputed(r) /\ DestCol(r) \in Cols
          BY <1>1, <3>2, <4>3, <4>6, BoundaryFacts DEF Accepted
        <5>2. MovedTo(r, AlignedNew(r), DestCol(r), ssm'[r], conv'[r])
          BY <1>4, <4>6
        <5>3. /\ ssm'[r][CurrCol(r)] = NewComputed(r)
              /\ conv'[r][CurrCol(r)].n = NewComputed(r)
              /\ conv'[r][CurrCol(r)].ext >= 0
          BY <4>6, <5>1, <5>2 DEF MovedTo
        <5>4. LiveBias(r)' = 0 /\ LiveCol(r)' = CurrCol(r) /\ CurrCol(r) \in Cols
          BY <1>6, <4>1, <4>3, <4>6, <5>1
        <5>5. /\ NewComputed(r) - 0 = NewComputed(r)
              /\ CurrCol(r) + 0 = CurrCol(r)
              /\ 0 <= NewComputed(r)
          BY <4>3
        <5>6. QED BY <4>1, <5>3, <5>4, <5>5 DEF Holds
      <4>7. QED BY <4>4, <4>5, <4>6
    <3>3. QED BY <3>1, <3>2
  <2>2. QED BY <1>1, <2>1 DEF LiveStateExact, schedVars
<1>9. FreshHasNoEntry'
  BY <1>1, <1>2, <1>6 DEF IInv, FreshHasNoEntry, schedVars
<1>10. PromptOnBoundary'
  BY <1>1, <1>2, <1>6 DEF IInv, PromptOnBoundary, schedVars
<1>11. BatchShape'
  <2>1. ASSUME NEW r \in Batch, num_drafts[r] = 0, NEW k \in Cols,
               PassedOver(r, num_scheduled[r], k)
        PROVE  ssm'[r][k] = ssm[r][k] /\ conv'[r][k] = conv[r][k]
    <3>1. CASE ~ NeedsCopy(r)
      BY <1>2, <1>3, <3>1
    <3>2. CASE NeedsCopy(r)
      <4>1. /\ CopyBias(r) \in 0 .. num_accepted_gpu[r] - 1
            /\ AlignedNew(r) = RunningTokens(r) + CopyBias(r)
            /\ AlignedNew(r) = (DestCol(r) + 1) * BlockSize
            /\ DestCol(r) \in Nat
        BY <1>1, <3>2, BoundaryFacts
      <4>2. /\ RunningTokens(r) = num_computed_tokens[r] + num_scheduled[r]
                                    - num_drafts[r]
            /\ num_accepted_gpu[r] \in 1 .. NumSpec + 1
            /\ num_accepted_gpu[r] <= num_drafts[r] + 1
        BY <1>1, AcceptedFacts
      <4>3. /\ num_computed_tokens[r] \in Nat
            /\ num_scheduled[r] \in Nat
            /\ CurrCol(r) \in Nat
            /\ CurrCol(r) * BlockSize < num_computed_tokens[r] + num_scheduled[r]
        BY BatchFacts DEF IInv
      <4>4. num_accepted_gpu[r] = 1
        BY <2>1, <4>2, BlockAssumption
      <4>5. (DestCol(r) + 1) * BlockSize = num_computed_tokens[r] + num_scheduled[r]
        BY <2>1, <4>1, <4>2, <4>3, <4>4
      <4>6. CurrCol(r) < DestCol(r) + 1
        BY <4>1, <4>3, <4>5, MulLess
      <4>7. k # DestCol(r)
        BY <2>1, <4>1, <4>3, <4>6, ColsNat DEF PassedOver, CurrCol
      <4>8. QED BY <1>2, <1>4, <3>2, <4>7 DEF MovedTo
    <3>3. QED BY <3>1, <3>2
  <2>2. \A r \in Batch, k \in Cols :
          PassedOver(r, num_scheduled[r], k)' = PassedOver(r, num_scheduled[r], k)
    BY <1>1 DEF PassedOver, schedVars
  <2>3. QED BY <1>1, <1>2, <2>1, <2>2 DEF IInv, BatchShape, schedVars
<1>12. StepData'
  <2>1. \A r \in Requests : num_accepted_out'[r] <= num_drafts'[r] + 1
    <3>1. ASSUME NEW r \in Requests PROVE Accepted(r) <= num_drafts[r] + 1
      <4>1. num_accepted_gpu[r] <= num_drafts[r] + 1 /\ num_drafts[r] \in 0 .. NumSpec
        BY DEF IInv, StepData, TypeOK
      <4>2. QED BY <4>1, BlockAssumption DEF Accepted
    <3>2. QED BY <1>1, <3>1
  <2>2. QED BY <1>1, <1>2, <1>6, <2>1 DEF IInv, StepData, schedVars
<1>13. ReachedExact'
  <2>1. ASSUME NEW r \in Batch, NEW k \in Cols,
               (k + 1) * BlockSize > num_computed_tokens[r],
               (k + 1) * BlockSize <= NewComputed(r),
               ssm'[r][k] # Junk \/ conv'[r][k] # NoWindow
        PROVE  /\ ssm'[r][k] = (k + 1) * BlockSize
               /\ conv'[r][k].n = (k + 1) * BlockSize
    <3>1. CASE NeedsCopy(r) /\ k = DestCol(r)
      <4>1. AlignedNew(r) = (k + 1) * BlockSize
        BY <1>1, <3>1, BoundaryFacts
      <4>2. QED BY <1>2, <1>4, <3>1, <4>1 DEF MovedTo
    <3>2. CASE ~ (NeedsCopy(r) /\ k = DestCol(r))
      <4>1. ssm[r][k] = Junk /\ conv[r][k] = NoWindow
        BY <1>1, <2>1, <3>2, ReachedByCopy
      <4>2. ssm'[r][k] = ssm[r][k] /\ conv'[r][k] = conv[r][k]
        BY <1>2, <1>3, <1>4, <3>2 DEF MovedTo
      <4>3. QED BY <2>1, <4>1, <4>2
    <3>3. QED BY <3>1, <3>2
  <2>2. ASSUME NEW r \in Batch, NEW e \in Reached(r)'
        PROVE  e.ssm = (e.col + 1) * BlockSize /\ e.conv.n = (e.col + 1) * BlockSize
    <3>1. PICK k \in Cols :
            /\ (k + 1) * BlockSize > num_computed_tokens[r]
            /\ (k + 1) * BlockSize <= NewComputed(r)
            /\ ssm'[r][k] # Junk \/ conv'[r][k] # NoWindow
            /\ e = [col |-> k, ssm |-> ssm'[r][k], conv |-> conv'[r][k]]
      BY <1>1, <1>2, <1>6, <2>2 DEF Reached, schedVars
    <3>2. /\ ssm'[r][k] = (k + 1) * BlockSize
          /\ conv'[r][k].n = (k + 1) * BlockSize
      BY <2>1, <3>1
    <3>3. QED BY <3>1, <3>2
  <2>3. QED BY <1>2, <2>2 DEF ReachedExact
<1>14. SpeculativeWindow' /\ PublishedExact'
  BY <1>1 DEF IInv, SpeculativeWindow, PublishedExact
<1>15. QED
  BY <1>7, <1>8, <1>9, <1>10, <1>11, <1>12, <1>13, <1>14 DEF IInv

(* The accepted counts arrive: what was the state of the step becomes the   *)
(* state between steps, and the reached columns become cache entries.       *)
LEMMA DeliverStep == IInv /\ Deliver => IInv'
<1> SUFFICES ASSUME IInv, Deliver PROVE IInv'
  OBVIOUS
<1>1. /\ phase = "postprocessed"
      /\ phase' = "idle"
      /\ num_accepted' = [r \in Requests |->
                            IF r \in Batch THEN num_accepted_out[r]
                            ELSE num_accepted[r]]
      /\ num_computed_tokens' =
           [r \in Requests |-> IF r \in Batch THEN NewComputed(r)
                               ELSE num_computed_tokens[r]]
      /\ published' = published \cup UNION {Reached(r) : r \in Batch}
      /\ num_scheduled' = [r \in Requests |-> 0]
      /\ num_drafts' = [r \in Requests |-> 0]
      /\ staged' = [r \in Requests |-> NoStage]
      /\ num_accepted_gpu' = [r \in Requests |-> 1]
      /\ num_accepted_out' = [r \in Requests |-> 1]
      /\ UNCHANGED <<status, prefilling, released, mamba_state_idx, ssm, conv>>
  BY DEF Deliver
<1>2. Batch' = {} /\ Batch \subseteq Requests
  BY <1>1 DEF Batch
<1>3. ASSUME NEW r \in Batch
      PROVE  /\ num_computed_tokens[r] \in Nat
             /\ NewComputed(r) \in Nat
             /\ NewComputed(r) > num_computed_tokens[r]
             /\ NewComputed(r) <= MaxTokens
             /\ num_drafts[r] = 0 =>
                  NewComputed(r) = num_computed_tokens[r] + num_scheduled[r]
             /\ CurrCol(r) = SeedCol(num_computed_tokens[r] + num_scheduled[r])
             /\ Cleaned(r) = CurrCol(r)
             /\ Cleaned(r) # Absent
  <2>1. /\ num_computed_tokens[r] \in Nat
        /\ num_scheduled[r] \in Nat
        /\ num_scheduled[r] > num_drafts[r]
        /\ num_drafts[r] \in 0 .. NumSpec
        /\ num_computed_tokens[r] + num_scheduled[r] <= MaxTokens
        /\ CurrCol(r) = SeedCol(num_computed_tokens[r] + num_scheduled[r])
        /\ CurrCol(r) \in Nat
    BY BatchFacts DEF IInv
  <2>2. /\ staged[r] = [idx |-> mamba_state_idx[r],
                        scheduled |-> num_scheduled[r],
                        computed |-> num_computed_tokens[r],
                        draft |-> num_drafts[r]]
        /\ mamba_state_idx[r] = CurrCol(r)
        /\ released = NoneReleased
        /\ num_accepted_gpu[r] <= num_drafts[r] + 1
    BY <1>1, <1>2 DEF IInv, StepData
  <2>3. num_accepted_gpu[r] \in 1 .. NumSpec + 1
    BY <1>2 DEF IInv, TypeOK
  <2>4. NewComputed(r) = num_computed_tokens[r] + num_scheduled[r]
                           - num_drafts[r] + num_accepted_gpu[r] - 1
    BY <2>2 DEF NewComputed, RunningTokens
  <2>5. Cleaned(r) = CurrCol(r)
    BY <2>2 DEF Cleaned, NoneReleased
  <2>6. QED BY <2>1, <2>2, <2>3, <2>4, <2>5, BlockAssumption, BoundAssumption
               DEF Absent
<1>4. \A r \in Requests : Cleaned(r)' = Cleaned(r)
  BY <1>1 DEF Cleaned
<1>5. \A r \in Requests : /\ num_computed_tokens'[r] = LiveTokens(r)
                          /\ LiveTokens(r)' = LiveTokens(r)
                          /\ LiveBias(r)' = LiveBias(r)
                          /\ LiveBias(r)' = num_accepted'[r] - 1
                          /\ LiveCol(r)' = LiveCol(r)
                          /\ LiveCol(r) = PrevCol(r)
  <2> TAKE r \in Requests
  <2>1. PrevCol(r)' = PrevCol(r)
    BY <1>1, <1>3, <1>4 DEF PrevCol
  <2>2. num_computed_tokens'[r] = LiveTokens(r)
    BY <1>1 DEF LiveTokens, MidStep
  <2>3. LiveTokens(r)' = num_computed_tokens'[r] /\ LiveBias(r)' = num_accepted'[r] - 1
    BY <1>2 DEF LiveTokens, LiveBias, MidStep
  <2>4. LiveBias(r) = num_accepted'[r] - 1
    BY <1>1 DEF LiveBias, MidStep
  <2>5. QED BY <2>1, <2>2, <2>3, <2>4 DEF LiveCol
<1>6. TypeOK'
  <2>1. num_computed_tokens' \in [Requests -> 0 .. MaxTokens]
    <3>1. num_computed_tokens \in [Requests -> 0 .. MaxTokens]
      BY DEF IInv, TypeOK
    <3>2. \A r \in Batch : NewComputed(r) \in 0 .. MaxTokens
      BY <1>3, BoundAssumption
    <3>3. QED BY <1>1, <3>1, <3>2
  <2>2. num_accepted' \in [Requests -> 1 .. NumSpec + 1]
    <3>1. /\ num_accepted \in [Requests -> 1 .. NumSpec + 1]
          /\ num_accepted_out \in [Requests -> 1 .. NumSpec + 1]
      BY DEF IInv, TypeOK
    <3>2. QED BY <1>1, <3>1
  <2>3. published' \subseteq [col : Cols, ssm : Content, conv : Window]
    <3>1. \A r \in Batch : /\ ssm[r] \in [Cols -> Content]
                           /\ conv[r] \in [Cols -> Window]
      BY <1>2 DEF IInv, TypeOK
    <3>2. \A r \in Batch : Reached(r) \subseteq
                             [col : Cols, ssm : Content, conv : Window]
      BY <3>1 DEF Reached
    <3>3. published \subseteq [col : Cols, ssm : Content, conv : Window]
      BY DEF IInv, TypeOK
    <3>4. QED BY <1>1, <3>2, <3>3
  <2>4. /\ num_scheduled' \in [Requests -> 0 .. MaxTokens]
        /\ num_drafts' \in [Requests -> 0 .. NumSpec]
        /\ num_accepted_gpu' \in [Requests -> 1 .. NumSpec + 1]
        /\ num_accepted_out' \in [Requests -> 1 .. NumSpec + 1]
    BY <1>1, BlockAssumption, BoundAssumption
  <2>5. staged' \in [Requests -> [idx : Cols, scheduled : 0 .. MaxTokens,
                                  computed : 0 .. MaxTokens, draft : 0 .. NumSpec]]
    BY <1>1, ColsNat, BlockAssumption, BoundAssumption DEF NoStage
  <2>6. QED
    BY <1>1, <2>1, <2>2, <2>3, <2>4, <2>5 DEF IInv, TypeOK
<1>7. LiveStateExact'
  BY <1>1, <1>5 DEF IInv, LiveStateExact, Holds
<1>8. FreshHasNoEntry'
  <2>1. ASSUME NEW r \in Requests, status[r] = "running",
               num_computed_tokens'[r] = 0
        PROVE  Cleaned(r) = Absent
    <3>1. r \notin Batch
      BY <1>1, <1>3, <2>1
    <3>2. num_computed_tokens[r] = 0
      BY <1>1, <2>1, <3>1
    <3>3. QED BY <2>1, <3>1, <3>2 DEF IInv, FreshHasNoEntry
  <2>2. QED BY <1>1, <1>4, <2>1 DEF IInv, FreshHasNoEntry
<1>9. PromptOnBoundary'
  <2>1. ASSUME NEW r \in Requests, status[r] = "running", prefilling[r]
        PROVE  /\ num_computed_tokens'[r] % BlockSize = 0
               /\ num_accepted'[r] = 1
               /\ LiveCol(r)' = SeedCol(num_computed_tokens'[r])
    <3>1. CASE r \notin Batch
      BY <1>1, <1>5, <2>1, <3>1 DEF IInv, PromptOnBoundary
    <3>2. CASE r \in Batch
      <4>1. /\ num_drafts[r] = 0
            /\ (num_computed_tokens[r] + num_scheduled[r]) % BlockSize = 0
        BY <2>1, <3>2 DEF IInv, PromptOnBoundary
      <4>2. num_computed_tokens'[r] = num_computed_tokens[r] + num_scheduled[r]
        BY <1>1, <1>3, <3>2, <4>1
      <4>3. num_accepted_out[r] = 1
        <5>1. num_accepted_out[r] \in 1 .. NumSpec + 1
          BY DEF IInv, TypeOK
        <5>2. num_accepted_out[r] <= 0 + 1
          BY <4>1 DEF IInv, StepData
        <5>3. QED BY <5>1, <5>2, BlockAssumption
      <4>4. LiveCol(r)' = CurrCol(r)
        BY <1>3, <1>5, <3>2 DEF PrevCol
      <4>5. QED BY <1>1, <1>3, <3>2, <4>1, <4>2, <4>3, <4>4
    <3>3. QED BY <3>1, <3>2
  <2>2. QED BY <1>1, <1>2, <2>1 DEF PromptOnBoundary
<1>10. BatchShape' /\ StepData'
  BY <1>1, <1>2, BlockAssumption DEF BatchShape, StepData
<1>11. PublishedExact'
  <2>1. \A r \in Batch : \A e \in Reached(r) :
          e.ssm = (e.col + 1) * BlockSize /\ e.conv.n = (e.col + 1) * BlockSize
    BY <1>1 DEF IInv, ReachedExact
  <2>2. QED BY <1>1, <2>1 DEF IInv, PublishedExact
<1>12. SpeculativeWindow' /\ ReachedExact'
  BY <1>1 DEF SpeculativeWindow, ReachedExact
<1>13. QED
  BY <1>6, <1>7, <1>8, <1>9, <1>10, <1>11, <1>12 DEF IInv

-----------------------------------------------------------------------------
(* Every step, and a step that changes nothing, keeps the invariant. *)
LEMMA NextIInv == IInv /\ [Next]_vars => IInv'
<1> SUFFICES ASSUME IInv, [Next]_vars PROVE IInv'
  OBVIOUS
<1>1. ASSUME NEW r \in Requests, Admit(r) PROVE IInv'
  BY <1>1, AdmitStep
<1>2. ASSUME NEW r \in Requests, Preempt(r) \/ Finish(r) PROVE IInv'
  BY <1>2, ReleaseStep
<1>3. CASE UNCHANGED vars
  <2>1. /\ Batch' = Batch
        /\ \A r \in Requests : /\ Cleaned(r)' = Cleaned(r)
                               /\ PrevCol(r)' = PrevCol(r)
                               /\ CurrCol(r)' = CurrCol(r)
                               /\ RunningTokens(r)' = RunningTokens(r)
                               /\ NewComputed(r)' = NewComputed(r)
    BY <1>3 DEF vars, schedVars, stepVars, Batch, Cleaned, PrevCol, CurrCol,
                RunningTokens, NewComputed
  <2>2. \A r \in Requests : Reached(r)' = Reached(r)
    BY <1>3, <2>1 DEF vars, schedVars, Reached
  <2>3. TypeOK' /\ FreshHasNoEntry' /\ PublishedExact'
    BY <1>3, <2>1 DEF vars, schedVars, stepVars, IInv, TypeOK, FreshHasNoEntry,
                      PublishedExact
  <2>4. \A r \in Requests : /\ LiveTokens(r)' = LiveTokens(r)
                            /\ LiveCol(r)' = LiveCol(r)
                            /\ LiveBias(r)' = LiveBias(r)
    BY <1>3, <2>1 DEF vars, schedVars, stepVars, LiveTokens, LiveCol, LiveBias,
                      MidStep
  <2>5. LiveStateExact'
    BY <1>3, <2>4 DEF vars, schedVars, IInv, LiveStateExact, Holds
  <2>6. PromptOnBoundary'
    BY <1>3, <2>1, <2>4 DEF vars, schedVars, stepVars, IInv, PromptOnBoundary
  <2>7. BatchShape'
    BY <1>3, <2>1 DEF vars, schedVars, stepVars, IInv, BatchShape, PassedOver
  <2>8. StepData' /\ SpeculativeWindow' /\ ReachedExact'
    <3>1. Batch \subseteq Requests
      BY DEF Batch
    <3>2. QED
      BY <1>3, <2>1, <2>2, <3>1 DEF vars, schedVars, stepVars, IInv, StepData,
                                    SpeculativeWindow, ReachedExact
  <2>9. QED BY <2>3, <2>5, <2>6, <2>7, <2>8 DEF IInv
<1>4. QED
  BY <1>1, <1>2, <1>3, ScheduleStep, PreprocessStep, StageStep, ForwardStep,
     PostprocessStep, DeliverStep
     DEF Next

(* The invariant holds in every reachable state: at every point of a step,  *)
(* across preemptions, prefix hits and rejected drafts, the running column  *)
(* and the bias of a request lead to its state (preprocess_mamba,           *)
(* stage_postprocess_inputs_to_gpu, the two fused kernels).                 *)
THEOREM InvariantHolds == Spec => []IInv
<1>1. Init => IInv
  BY InitIInv
<1>2. IInv /\ [Next]_vars => IInv'
  BY NextIInv
<1>3. QED BY <1>1, <1>2, PTL DEF Spec

(* Columns, counts and indices stay in range; a column index never leaves   *)
(* the block table, a bias never leaves the speculative blocks.             *)
THEOREM TypeCorrect == Spec => []TypeOK
<1>1. IInv => TypeOK
  BY DEF IInv
<1>2. QED BY <1>1, InvariantHolds, PTL

(* The forward pass starts from the state after exactly the computed tokens *)
(* (preprocess_mamba, both fused kernels), for any block size, any draft    *)
(* length below it and any number of requests.                              *)
THEOREM ForwardReadsExact == Spec => []ForwardReadsExactState
<1>1. IInv => ForwardReadsExactState
  BY ReadExact DEF ForwardReadsExactState
<1>2. QED BY <1>1, InvariantHolds, PTL

(* Every column the prefix cache offers holds the state its label says      *)
(* (postprocess_mamba_fused_kernel), for all values of the constants.       *)
THEOREM PublishedColumnsExact == Spec => []PublishedExact
<1>1. IInv => PublishedExact
  BY DEF IInv
<1>2. QED BY <1>1, InvariantHolds, PTL

-----------------------------------------------------------------------------
(* Columns that are shared with the prefix cache. *)

(* A column whose boundary request r has computed past, and its content. *)
Passed(r, k) == (k + 1) * BlockSize <= num_computed_tokens[r]
KeepsCol(r, k) == ssm'[r][k] = ssm[r][k] /\ conv'[r][k] = conv[r][k]

(* A boundary behind another one belongs to a later column. *)
LEMMA LaterColumn ==
  ASSUME NEW k \in Nat, NEW c \in Int, NEW m \in Int,
         (k + 1) * BlockSize <= c, c < (m + 1) * BlockSize
  PROVE  k < m
<1>1. (k + 1) * BlockSize \in Int /\ (m + 1) * BlockSize \in Int
  BY BlockAssumption
<1>2. (k + 1) * BlockSize < (m + 1) * BlockSize
  BY <1>1
<1>3. k + 1 < m + 1
  BY <1>2, MulLess
<1>4. QED BY <1>3

(* The running column of a step lies behind every column passed before it. *)
LEMMA PassedBeforeRunning ==
  ASSUME TypeOK, BatchShape, NEW r \in Batch, NEW k \in Cols, Passed(r, k)
  PROVE  k < CurrCol(r)
<1>1. /\ k \in Nat
      /\ num_computed_tokens[r] \in Nat
      /\ num_scheduled[r] \in Nat /\ num_scheduled[r] > 0
      /\ CurrCol(r) \in Nat
      /\ num_computed_tokens[r] + num_scheduled[r] <= (CurrCol(r) + 1) * BlockSize
  BY ColsNat, BatchFacts, BlockAssumption DEF Batch
<1>2. (CurrCol(r) + 1) * BlockSize \in Int
  BY <1>1, BlockAssumption
<1>3. num_computed_tokens[r] < (CurrCol(r) + 1) * BlockSize
  BY <1>1, <1>2
<1>4. QED BY <1>1, <1>3, LaterColumn DEF Passed

(* The scheduler gives no null block to a column that was passed. *)
LEMMA ScheduleKeeps ==
  ASSUME IInv, Schedule, NEW r \in Requests, NEW k \in Cols, Passed(r, k)
  PROVE  KeepsCol(r, k)
<1>1. k \in Nat /\ num_computed_tokens[r] \in Nat
  BY ColsNat, BoundAssumption DEF IInv, TypeOK
<1>2. k < SeedCol(num_computed_tokens[r]) + 1
  <2>1. /\ SeedCol(num_computed_tokens[r]) \in Int
        /\ num_computed_tokens[r] <= (SeedCol(num_computed_tokens[r]) + 1) * BlockSize
    BY <1>1, SeedFacts
  <2>2. (k + 1) * BlockSize <= (SeedCol(num_computed_tokens[r]) + 1) * BlockSize
    BY <1>1, <2>1, BlockAssumption DEF Passed
  <2>3. (k + 1) * BlockSize < (SeedCol(num_computed_tokens[r]) + 1 + 1) * BlockSize
    BY <1>1, <2>1, <2>2, BlockAssumption
  <2>4. QED BY <1>1, <2>1, <2>3, MulLess
<1>3. \A n : ~ PassedOver(r, n, k)
  BY <1>1, <1>2, SeedFacts DEF PassedOver
<1>4. QED BY <1>3 DEF Schedule, KeepsCol

(* The copy before the forward writes the running column only. *)
LEMMA PreprocessKeeps ==
  ASSUME IInv, Preprocess, NEW r \in Requests, NEW k \in Cols, Passed(r, k)
  PROVE  KeepsCol(r, k)
<1>1. CASE NeedsPrecopy(r)
  <2>1. k < CurrCol(r) /\ CurrCol(r) \in Nat /\ k \in Nat
    BY <1>1, ColsNat, BatchFacts, PassedBeforeRunning DEF NeedsPrecopy, IInv
  <2>2. k # CurrCol(r)
    BY <2>1
  <2>3. /\ ssm'[r] = [ssm[r] EXCEPT ![CurrCol(r)] = ssm[r][PrevCol(r) + (num_accepted[r] - 1)]]
        /\ conv'[r] = [conv[r] EXCEPT ![CurrCol(r)] =
                          Shift(conv[r][PrevCol(r)], num_accepted[r] - 1)]
    BY <1>1 DEF Preprocess, CopyTemporal, CopyConv
  <2>4. DOMAIN ssm[r] = Cols /\ DOMAIN conv[r] = Cols
    BY DEF IInv, TypeOK
  <2>5. QED BY <2>2, <2>3, <2>4 DEF KeepsCol
<1>2. CASE ~ NeedsPrecopy(r)
  BY <1>2 DEF Preprocess, KeepsCol
<1>3. QED BY <1>1, <1>2

(* The forward writes the running column and those behind it. *)
LEMMA ForwardKeeps ==
  ASSUME IInv, Forward, NEW r \in Requests, NEW k \in Cols, Passed(r, k)
  PROVE  KeepsCol(r, k)
<1>1. CASE r \in Batch
  <2>1. k < CurrCol(r) /\ CurrCol(r) \in Nat /\ k \in Nat
    BY <1>1, ColsNat, BatchFacts, PassedBeforeRunning DEF IInv
  <2>2. mamba_state_idx[r] = CurrCol(r)
    BY <1>1 DEF Forward, IInv, StepData
  <2>3. /\ k \notin mamba_state_idx[r] .. mamba_state_idx[r] + num_drafts[r]
        /\ k # mamba_state_idx[r]
    BY <2>1, <2>2
  <2>4. QED BY <2>3 DEF Forward, KeepsCol
<1>2. CASE r \notin Batch
  BY <1>2 DEF Forward, KeepsCol
<1>3. QED BY <1>1, <1>2

(* The copy after the forward writes the column of a boundary that the step *)
(* has only just reached.                                                   *)
LEMMA PostprocessKeeps ==
  ASSUME IInv, Postprocess, NEW r \in Requests, NEW k \in Cols, Passed(r, k)
  PROVE  KeepsCol(r, k)
<1>1. CASE NeedsCopy(r) /\ ~ SelfCopy(r)
  <2>1. r \in Batch /\ phase = "forwarded"
    BY <1>1 DEF NeedsCopy, Postprocess
  <2>2. /\ DestCol(r) \in Nat
        /\ AlignedNew(r) = (DestCol(r) + 1) * BlockSize
        /\ AlignedNew(r) \in Nat
    BY <1>1, <2>1, BoundaryFacts
  <2>3. /\ staged[r].scheduled = num_scheduled[r]
        /\ staged[r].computed = num_computed_tokens[r]
        /\ staged[r].draft = num_drafts[r]
    <3>1. staged[r] = [idx |-> mamba_state_idx[r], scheduled |-> num_scheduled[r],
                       computed |-> num_computed_tokens[r], draft |-> num_drafts[r]]
      BY <2>1 DEF IInv, StepData
    <3>2. QED BY <3>1
  <2>4. /\ num_computed_tokens[r] \in Nat /\ num_scheduled[r] \in Nat
        /\ num_drafts[r] \in Nat /\ num_scheduled[r] > num_drafts[r]
    BY <2>1, BatchFacts, BlockAssumption DEF IInv
  <2>5. num_computed_tokens[r] < AlignedNew(r)
    BY <1>1, <2>2, <2>3, <2>4 DEF NeedsCopy, RunningTokens
  <2>6. k < DestCol(r) /\ k \in Nat
    BY <2>2, <2>4, <2>5, ColsNat, LaterColumn DEF Passed
  <2>7. k # DestCol(r)
    BY <2>2, <2>6
  <2>8. /\ ssm'[r] = [ssm[r] EXCEPT ![DestCol(r)] = ssm[r][staged[r].idx + CopyBias(r)]]
        /\ conv'[r] = [conv[r] EXCEPT ![DestCol(r)] =
                          Shift(conv[r][staged[r].idx], CopyBias(r))]
    BY <1>1 DEF Postprocess, CopyTemporal, CopyConv
  <2>9. DOMAIN ssm[r] = Cols /\ DOMAIN conv[r] = Cols
    BY DEF IInv, TypeOK
  <2>10. QED BY <2>7, <2>8, <2>9 DEF KeepsCol
<1>2. CASE ~ (NeedsCopy(r) /\ ~ SelfCopy(r))
  BY <1>2 DEF Postprocess, KeepsCol
<1>3. QED BY <1>1, <1>2

(* What the scheduler does to other requests leaves the columns of a        *)
(* request that goes on running alone.                                      *)
LEMMA SchedulerKeeps ==
  ASSUME IInv, NEW q \in Requests, Admit(q) \/ Preempt(q) \/ Finish(q),
         NEW r \in Requests, NEW k \in Cols,
         status[r] = "running", status'[r] = "running"
  PROVE  KeepsCol(r, k)
<1>1. DOMAIN status = Requests /\ DOMAIN ssm = Requests /\ DOMAIN conv = Requests
  BY DEF IInv, TypeOK
<1>2. r # q
  BY <1>1 DEF Admit, Preempt, Finish
<1>3. CASE Admit(q)
  BY <1>1, <1>2, <1>3 DEF Admit, KeepsCol
<1>4. CASE Preempt(q) \/ Finish(q)
  BY <1>1, <1>2, <1>4 DEF Preempt, Finish, FreeBlocks, KeepsCol
<1>5. QED BY <1>3, <1>4

(* While a request runs, no copy and no forward pass writes a column of a   *)
(* boundary it has passed, so what the prefix cache shares stays as it is   *)
(* (preprocess_mamba, postprocess_mamba_fused_kernel), for every block      *)
(* size, every number of requests and every draft shorter than a block.     *)
THEOREM ReachedColumnsStay == Spec => ReachedColumnsImmutable
<1> DEFINE Keeps ==
      \A r \in Requests : \A k \in Cols :
        (/\ status[r] = "running" /\ status'[r] = "running"
         /\ (k + 1) * BlockSize <= num_computed_tokens[r]
         /\ ssm[r][k] = (k + 1) * BlockSize)
        => ssm'[r][k] = ssm[r][k] /\ conv'[r][k].n = conv[r][k].n
<1>1. IInv /\ [Next]_vars => Keeps
  <2> SUFFICES ASSUME IInv, [Next]_vars, NEW r \in Requests, NEW k \in Cols,
                      status[r] = "running", status'[r] = "running", Passed(r, k)
               PROVE  KeepsCol(r, k)
    BY Zenon DEF KeepsCol, Passed
  <2>1. CASE Schedule \/ Preprocess \/ Forward \/ Postprocess
    BY <2>1, ScheduleKeeps, PreprocessKeeps, ForwardKeeps, PostprocessKeeps
  <2>2. CASE \E q \in Requests : Admit(q) \/ Preempt(q) \/ Finish(q)
    BY <2>2, SchedulerKeeps
  <2>3. CASE Stage \/ Deliver \/ UNCHANGED vars
    BY <2>3 DEF Stage, Deliver, vars, KeepsCol
  <2>4. QED BY <2>1, <2>2, <2>3 DEF Next
<1>2. QED BY <1>1, InvariantHolds, PTL DEF Spec, ReachedColumnsImmutable
-----------------------------------------------------------------------------
(* MambaAlign implements RecurrentState: under the invariant the state a    *)
(* request has is the number of tokens it counts, so that every step of the *)
(* columns is a step of one state per request, or none.                     *)

(* A request without blocks counts no tokens. *)
NothingWithoutBlocks ==
  \A r \in Requests : status[r] # "running" => num_computed_tokens[r] = 0

RInv == IInv /\ NothingWithoutBlocks

LEMMA StepNothing == RInv /\ [Next]_vars => NothingWithoutBlocks'
<1> SUFFICES ASSUME RInv, [Next]_vars PROVE NothingWithoutBlocks'
  OBVIOUS
<1>1. /\ DOMAIN status = Requests /\ DOMAIN num_computed_tokens = Requests
      /\ IInv /\ NothingWithoutBlocks
  BY DEF RInv, IInv, TypeOK
<1>2. ASSUME NEW q \in Requests, Admit(q) \/ Preempt(q) \/ Finish(q)
      PROVE  NothingWithoutBlocks'
  <2>1. \/ status'[q] = "running"
        \/ num_computed_tokens'[q] = 0
    BY <1>1, <1>2 DEF Admit, Preempt, Finish, FreeBlocks
  <2>2. \A r \in Requests \ {q} : /\ status'[r] = status[r]
                                  /\ num_computed_tokens'[r] = num_computed_tokens[r]
    BY <1>1, <1>2 DEF Admit, Preempt, Finish, FreeBlocks
  <2>3. QED BY <1>1, <2>1, <2>2 DEF NothingWithoutBlocks
<1>3. CASE Deliver
  BY <1>1, <1>3 DEF Deliver, NothingWithoutBlocks, IInv, BatchShape
<1>4. CASE Schedule \/ Preprocess \/ Stage \/ Forward \/ Postprocess \/ UNCHANGED vars
  BY <1>1, <1>4 DEF Schedule, Preprocess, Stage, Forward, Postprocess, vars, schedVars,
                    NothingWithoutBlocks
<1>5. QED BY <1>2, <1>3, <1>4 DEF Next

LEMMA RInvHolds == Spec => []RInv
<1>1. Init => RInv
  BY InitIInv DEF Init, RInv, NothingWithoutBlocks
<1>2. RInv /\ [Next]_vars => RInv'
  BY NextIInv, StepNothing DEF RInv
<1>3. QED BY <1>1, <1>2, PTL DEF Spec

-----------------------------------------------------------------------------
(* The tokens of a request at any point of a step. *)
LEMMA LiveTokensFacts ==
  ASSUME IInv, NEW r \in Requests
  PROVE  /\ LiveTokens(r) \in 0 .. MaxTokens
         /\ num_computed_tokens[r] \in 0 .. MaxTokens
         /\ MidStep(r) => LiveTokens(r) > num_computed_tokens[r]
<1>1. num_computed_tokens[r] \in 0 .. MaxTokens
  BY DEF IInv, TypeOK
<1>2. CASE MidStep(r)
  <2>1. r \in Batch /\ phase \in {"forwarded", "postprocessed"}
    BY <1>2 DEF MidStep
  <2>2. staged[r] = [idx |-> mamba_state_idx[r], scheduled |-> num_scheduled[r],
                     computed |-> num_computed_tokens[r], draft |-> num_drafts[r]]
    BY <2>1 DEF IInv, StepData
  <2>3. LiveTokens(r) = num_computed_tokens[r] + num_scheduled[r] - num_drafts[r]
                          + num_accepted_gpu[r] - 1
    BY <1>2, <2>2 DEF LiveTokens, NewComputed, RunningTokens
  <2>4. /\ num_computed_tokens[r] \in Nat /\ num_scheduled[r] \in Nat
        /\ num_drafts[r] \in Nat /\ num_scheduled[r] > num_drafts[r]
        /\ num_computed_tokens[r] + num_scheduled[r] <= MaxTokens
    BY <2>1, BatchFacts, BlockAssumption DEF IInv
  <2>5. num_accepted_gpu[r] \in 1 .. NumSpec + 1 /\ num_accepted_gpu[r] <= num_drafts[r] + 1
    BY DEF IInv, TypeOK, StepData
  <2>6. QED BY <1>1, <2>3, <2>4, <2>5, BlockAssumption, BoundAssumption
<1>3. CASE ~ MidStep(r)
  BY <1>1, <1>3 DEF LiveTokens
<1>4. QED BY <1>2, <1>3

(* Only running requests count tokens. *)
LEMMA CountingIsRunning ==
  ASSUME RInv, NEW r \in Requests, LiveTokens(r) # 0
  PROVE  status[r] = "running"
<1>1. CASE MidStep(r)
  BY <1>1 DEF MidStep, RInv, IInv, BatchShape
<1>2. CASE ~ MidStep(r)
  BY <1>2 DEF LiveTokens, RInv, NothingWithoutBlocks
<1>3. QED BY <1>1, <1>2

(* The state a request has is the number of tokens it counts. *)
LEMMA StateIsTokens ==
  ASSUME RInv, NEW r \in Requests
  PROVE  AbsState(r) = LiveTokens(r)
<1>1. LiveTokens(r) \in Nat
  BY LiveTokensFacts, BoundAssumption DEF RInv
<1>2. CASE LiveTokens(r) = 0
  BY <1>2 DEF AbsState
<1>3. CASE LiveTokens(r) # 0
  <2> DEFINE n == LiveTokens(r)
             k == LiveCol(r)
             b == LiveBias(r)
  <2>1. status[r] = "running"
    BY <1>3, CountingIsRunning
  <2>2. Holds(r, k, b, n)
    BY <1>1, <1>3, <2>1 DEF RInv, IInv, LiveStateExact
  <2>3. b \in Int
    <3>1. num_accepted[r] \in Int /\ num_accepted_gpu[r] \in Int /\ num_accepted_out[r] \in Int
      BY BlockAssumption DEF RInv, IInv, TypeOK
    <3>2. QED BY <3>1 DEF LiveBias
  <2>4. /\ k + b \in Cols /\ ssm[r][k + b] = n
        /\ b <= n /\ conv[r][k].n = n - b /\ conv[r][k].ext >= b
    BY <2>2 DEF Holds
  <2>5. conv[r][k] \in Window
    BY <2>2 DEF RInv, IInv, TypeOK, Holds
  <2>6. Shift(conv[r][k], b).n = n
    <3>1. conv[r][k].n # Junk /\ ~ (b > conv[r][k].ext)
      BY <1>1, <2>3, <2>4, <2>5, BlockAssumption DEF Junk, Window
    <3>2. Shift(conv[r][k], b) = [n |-> conv[r][k].n + b, ext |-> conv[r][k].ext - b]
      BY <3>1 DEF Shift
    <3>3. QED BY <1>1, <2>3, <2>4, <3>2
  <2>7. QED BY <1>3, <2>4, <2>6 DEF AbsState
<1>4. QED BY <1>2, <1>3

(* Both facts, of a state and of the one after it. *)
TokensAreStates ==
  \A r \in Requests :
    /\ AbsState(r) = LiveTokens(r)
    /\ LiveTokens(r) \in 0 .. MaxTokens
    /\ MidStep(r) => LiveTokens(r) > num_computed_tokens[r]

LEMMA StatesNow == RInv => TokensAreStates
BY StateIsTokens, LiveTokensFacts DEF RInv, TokensAreStates

LEMMA StatesNext == RInv' => TokensAreStates'
BY StatesNow, PTL

-----------------------------------------------------------------------------
(* The checkpoints a step offers are those of the entries it has. *)
Mark(e) == <<(e.col + 1) * BlockSize, IF e.ssm = e.conv.n THEN e.ssm ELSE Junk>>

LEMMA MarksExact ==
  ASSUME RInv, NEW e \in published
  PROVE  Mark(e) = <<(e.col + 1) * BlockSize, (e.col + 1) * BlockSize>>
BY DEF RInv, IInv, PublishedExact, Mark

(* A step that moves no token count, no request and no entry is a stutter, *)
LEMMA StutterMapped ==
  ASSUME RInv, RInv', UNCHANGED <<status, published>>,
         \A r \in Requests : LiveTokens(r)' = LiveTokens(r)
  PROVE  UNCHANGED Recurrent!absVars
<1>1. \A r \in Requests : AbsState(r)' = AbsState(r)
  BY StatesNow, StatesNext DEF TokensAreStates
<1>2. QED BY <1>1 DEF Recurrent!absVars

(* and one that moves counts of running requests forward is an advance. *)
LEMMA AdvanceMapped ==
  ASSUME RInv, RInv', UNCHANGED <<status, published>>,
         \A r \in Requests : /\ LiveTokens(r)' >= LiveTokens(r)
                             /\ LiveTokens(r)' > LiveTokens(r) => status[r] = "running"
  PROVE  Recurrent!Advance
<1>1. \A r \in Requests : LiveTokens(r)' \in 0 .. MaxTokens /\ LiveTokens(r) \in 0 .. MaxTokens
  BY StatesNow, StatesNext DEF TokensAreStates
<1>2. \A r \in Requests : AbsState(r)' = LiveTokens(r)' /\ AbsState(r) = LiveTokens(r)
  BY StatesNow, StatesNext DEF TokensAreStates
<1>3. \A r \in Requests : AbsState(r)' = AbsState(r) + LiveTokens(r)' - LiveTokens(r)
  BY <1>1, <1>2, BoundAssumption
<1>4. QED BY <1>1, <1>3 DEF Recurrent!Advance

(* Admission starts a request from nothing or from an entry. *)
LEMMA AdmitMapped ==
  ASSUME RInv, RInv', NEW q \in Requests, Admit(q)
  PROVE  Recurrent!Start(q)
<1>1. /\ DOMAIN status = Requests /\ DOMAIN num_computed_tokens = Requests
      /\ phase = "idle" /\ phase' = "idle" /\ UNCHANGED published
      /\ status[q] # "running" /\ status' = [status EXCEPT ![q] = "running"]
  BY DEF RInv, IInv, TypeOK, Admit
<1>2. \A r \in Requests : /\ LiveTokens(r) = num_computed_tokens[r]
                          /\ LiveTokens(r)' = num_computed_tokens'[r]
  BY <1>1 DEF LiveTokens, MidStep
<1>3. \A r \in Requests : AbsState(r)' = LiveTokens(r)' /\ AbsState(r) = LiveTokens(r)
  BY StatesNow, StatesNext DEF TokensAreStates
<1>4. PICK c \in {Mark(e) : e \in published} \cup {<<0, 0>>} :
        /\ c[1] = c[2]
        /\ num_computed_tokens' = [num_computed_tokens EXCEPT ![q] = c[1]]
  <2>1. CASE num_computed_tokens' = [num_computed_tokens EXCEPT ![q] = 0]
    <3>1. WITNESS <<0, 0>> \in {Mark(e) : e \in published} \cup {<<0, 0>>}
    <3>2. QED BY <2>1
  <2>2. CASE \E e \in published :
               num_computed_tokens' = [num_computed_tokens EXCEPT ![q] = (e.col + 1) * BlockSize]
    <3>1. PICK e \in published :
            num_computed_tokens' = [num_computed_tokens EXCEPT ![q] = (e.col + 1) * BlockSize]
      BY <2>2
    <3>2. Mark(e) = <<(e.col + 1) * BlockSize, (e.col + 1) * BlockSize>>
      BY MarksExact
    <3>3. /\ Mark(e) \in {Mark(d) : d \in published} \cup {<<0, 0>>}
          /\ Mark(e)[1] = Mark(e)[2] /\ Mark(e)[1] = (e.col + 1) * BlockSize
      BY <3>1, <3>2
    <3>4. QED BY <3>1, <3>3
  <2>3. QED BY <2>1, <2>2 DEF Admit
<1> DEFINE T  == [r \in Requests |-> LiveTokens(r)]
           S  == [r \in Requests |-> AbsState(r)]
<1>5. T' = [T EXCEPT ![q] = c[1]] /\ S' = [S EXCEPT ![q] = c[2]]
  <2>1. \A r \in Requests : LiveTokens(r)' = IF r = q THEN c[1] ELSE LiveTokens(r)
    BY <1>1, <1>2, <1>4
  <2>2. \A r \in Requests : AbsState(r)' = IF r = q THEN c[2] ELSE AbsState(r)
    BY <1>3, <1>4, <2>1
  <2>3. T' = [T EXCEPT ![q] = c[1]]
    BY <2>1
  <2>4. S' = [S EXCEPT ![q] = c[2]]
    BY <2>2
  <2>5. QED BY <2>3, <2>4
<1>6. c \in {<<(e.col + 1) * BlockSize, IF e.ssm = e.conv.n THEN e.ssm ELSE Junk>>
            : e \in published} \cup {<<0, 0>>}
  BY <1>4 DEF Mark
<1>7. {r \in Requests : status[r] = "running"}'
        = {r \in Requests : status[r] = "running"} \cup {q}
  BY <1>1
<1>8. QED BY <1>1, <1>5, <1>6, <1>7 DEF Recurrent!Start

(* Freeing the blocks of a running request drops its state; for one that    *)
(* has none it is a stutter.                                                *)
LEMMA FreeMapped ==
  ASSUME RInv, RInv', NEW q \in Requests, Preempt(q) \/ Finish(q)
  PROVE  Recurrent!Drop(q) \/ UNCHANGED Recurrent!absVars
<1>1. /\ DOMAIN status = Requests /\ DOMAIN num_computed_tokens = Requests
      /\ phase = "idle" /\ phase' = "idle" /\ UNCHANGED published
      /\ num_computed_tokens' = [num_computed_tokens EXCEPT ![q] = 0]
      /\ \E s \in {"new", "preempted"} : status' = [status EXCEPT ![q] = s]
  BY DEF RInv, IInv, TypeOK, Preempt, Finish, FreeBlocks
<1>2. \A r \in Requests : /\ LiveTokens(r) = num_computed_tokens[r]
                          /\ LiveTokens(r)' = num_computed_tokens'[r]
  BY <1>1 DEF LiveTokens, MidStep
<1>3. \A r \in Requests : AbsState(r)' = LiveTokens(r)' /\ AbsState(r) = LiveTokens(r)
  BY StatesNow, StatesNext DEF TokensAreStates
<1> DEFINE T  == [r \in Requests |-> LiveTokens(r)]
           S  == [r \in Requests |-> AbsState(r)]
           L  == {r \in Requests : status[r] = "running"}
<1>4. T' = [T EXCEPT ![q] = 0] /\ S' = [S EXCEPT ![q] = 0] /\ L' = L \ {q}
  <2>1. \A r \in Requests : LiveTokens(r)' = IF r = q THEN 0 ELSE LiveTokens(r)
    BY <1>1, <1>2
  <2>2. \A r \in Requests : AbsState(r)' = IF r = q THEN 0 ELSE AbsState(r)
    BY <1>3, <2>1
  <2>3. T' = [T EXCEPT ![q] = 0]
    BY <2>1
  <2>4. S' = [S EXCEPT ![q] = 0]
    BY <2>2
  <2>5. L' = L \ {q}
    BY <1>1
  <2>6. QED BY <2>3, <2>4, <2>5
<1>5. CASE status[q] = "running"
  BY <1>1, <1>4, <1>5 DEF Recurrent!Drop
<1>6. CASE status[q] # "running"
  <2>1. num_computed_tokens[q] = 0
    BY <1>6 DEF RInv, NothingWithoutBlocks
  <2>2. T' = T /\ S' = S /\ L' = L
    BY <1>1, <1>2, <1>3, <1>4, <1>6, <2>1
  <2>3. QED BY <1>1, <2>2 DEF Recurrent!absVars
<1>7. QED BY <1>5, <1>6

(* Delivery keeps the boundaries the step has reached. *)
LEMMA DeliverMapped ==
  ASSUME RInv, RInv', Deliver
  PROVE  Recurrent!Checkpoint
<1>1. /\ DOMAIN status = Requests /\ DOMAIN num_computed_tokens = Requests
      /\ phase = "postprocessed" /\ phase' = "idle" /\ UNCHANGED status
      /\ published' = published \cup UNION {Reached(r) : r \in Batch}
      /\ Batch \subseteq Requests
  BY DEF RInv, IInv, TypeOK, Deliver, Batch
<1>2. \A r \in Requests : LiveTokens(r)' = LiveTokens(r)
  <2> TAKE r \in Requests
  <2>1. LiveTokens(r)' = num_computed_tokens'[r]
    BY <1>1 DEF LiveTokens, MidStep
  <2>2. LiveTokens(r) = IF r \in Batch THEN NewComputed(r) ELSE num_computed_tokens[r]
    BY <1>1 DEF LiveTokens, MidStep
  <2>3. QED BY <2>1, <2>2 DEF Deliver
<1>3. \A r \in Requests : AbsState(r)' = AbsState(r)
  BY <1>2, StatesNow, StatesNext DEF TokensAreStates
<1> DEFINE New == UNION {Reached(r) : r \in Batch}
           H   == {(e.col + 1) * BlockSize : e \in New}
           C   == {<<(e.col + 1) * BlockSize, IF e.ssm = e.conv.n THEN e.ssm ELSE Junk>>
                   : e \in published}
<1>4. ASSUME NEW e \in New
      PROVE  /\ (e.col + 1) * BlockSize \in 1 .. MaxTokens
             /\ ((e.col + 1) * BlockSize) % BlockSize = 0
             /\ \E r \in Requests : status[r] = "running"
                                   /\ (e.col + 1) * BlockSize <= LiveTokens(r)
             /\ e.ssm = (e.col + 1) * BlockSize /\ e.conv.n = (e.col + 1) * BlockSize
  <2>1. PICK r \in Batch : e \in Reached(r)
    OBVIOUS
  <2>2. /\ e.col \in Cols
        /\ (e.col + 1) * BlockSize <= NewComputed(r)
    BY <2>1 DEF Reached
  <2>3. /\ (e.col + 1) * BlockSize \in Nat
        /\ (e.col + 1) * BlockSize > 0
        /\ ((e.col + 1) * BlockSize) % BlockSize = 0
    BY <2>2, ColsNat, SeedOfColumn
  <2>4. LiveTokens(r) = NewComputed(r)
    BY <1>1, <2>1 DEF LiveTokens, MidStep
  <2>5. LiveTokens(r) \in 0 .. MaxTokens
    BY <1>1, <2>1, LiveTokensFacts DEF RInv
  <2>6. status[r] = "running"
    BY <2>1 DEF RInv, IInv, BatchShape
  <2>7. e.ssm = (e.col + 1) * BlockSize /\ e.conv.n = (e.col + 1) * BlockSize
    BY <1>1, <2>1 DEF RInv, IInv, ReachedExact
  <2>8. QED BY <1>1, <2>1, <2>2, <2>3, <2>4, <2>5, <2>6, <2>7, BoundAssumption
<1>5. C' = C \cup {<<h, h>> : h \in H}
  <2>1. C' = {<<(e.col + 1) * BlockSize, IF e.ssm = e.conv.n THEN e.ssm ELSE Junk>>
              : e \in published \cup New}
    BY <1>1
  <2>2. \A e \in New :
          <<(e.col + 1) * BlockSize, IF e.ssm = e.conv.n THEN e.ssm ELSE Junk>>
            = <<(e.col + 1) * BlockSize, (e.col + 1) * BlockSize>>
    BY <1>4
  <2>3. QED BY <2>1, <2>2
<1>6. H \in SUBSET {h \in 1 .. MaxTokens :
                      /\ h % BlockSize = 0
                      /\ \E r \in {q \in Requests : status[q] = "running"} :
                           h <= [q \in Requests |-> LiveTokens(q)][r]}
  BY <1>4
<1>7. QED BY <1>1, <1>2, <1>3, <1>5, <1>6 DEF Recurrent!Checkpoint

(* Every step of the columns is a step of the abstract states, or none. *)
LEMMA StepMapped == RInv /\ RInv' /\ [Next]_vars => [Recurrent!Next]_(Recurrent!absVars)
<1> SUFFICES ASSUME RInv, RInv', [Next]_vars
             PROVE  Recurrent!Next \/ UNCHANGED Recurrent!absVars
  OBVIOUS
<1>1. ASSUME NEW q \in Requests, Admit(q) \/ Preempt(q) \/ Finish(q)
      PROVE  Recurrent!Next \/ UNCHANGED Recurrent!absVars
  BY <1>1, AdmitMapped, FreeMapped DEF Recurrent!Next
<1>2. CASE Schedule \/ Preprocess \/ Stage \/ UNCHANGED vars
  <2>1. UNCHANGED <<status, published, num_computed_tokens>>
    BY <1>2 DEF Schedule, Preprocess, Stage, vars, schedVars
  <2>2. CASE UNCHANGED vars
    BY <2>1, <2>2, StutterMapped
       DEF vars, stepVars, LiveTokens, MidStep, Batch, NewComputed, RunningTokens
  <2>3. CASE Schedule \/ Preprocess \/ Stage
    <3>1. phase \notin {"forwarded", "postprocessed"} /\ phase' \notin {"forwarded", "postprocessed"}
      BY <2>3 DEF Schedule, Preprocess, Stage
    <3>2. QED BY <2>1, <3>1, StutterMapped DEF LiveTokens, MidStep
  <2>4. QED BY <1>2, <2>2, <2>3
<1>3. CASE Forward
  <2>1. /\ UNCHANGED <<status, published, num_computed_tokens, num_scheduled>>
        /\ phase = "staged"
    BY <1>3 DEF Forward, schedVars
  <2>2. ASSUME NEW r \in Requests
        PROVE  /\ LiveTokens(r)' >= LiveTokens(r)
               /\ LiveTokens(r)' > LiveTokens(r) => status[r] = "running"
    <3>1. LiveTokens(r) = num_computed_tokens[r] /\ num_computed_tokens[r] \in 0 .. MaxTokens
      BY <2>1, LiveTokensFacts DEF LiveTokens, MidStep, RInv
    <3>2. CASE MidStep(r)'
      <4>1. LiveTokens(r)' > num_computed_tokens'[r] /\ LiveTokens(r)' \in 0 .. MaxTokens
        BY <3>2, StatesNext DEF TokensAreStates
      <4>2. status[r] = "running"
        BY <2>1, <3>2 DEF MidStep, Batch, RInv, IInv, BatchShape
      <4>3. QED BY <2>1, <3>1, <4>1, <4>2, BoundAssumption
    <3>3. CASE ~ MidStep(r)'
      <4>1. LiveTokens(r)' = num_computed_tokens'[r]
        BY <3>3 DEF LiveTokens
      <4>2. QED BY <2>1, <3>1, <4>1, BoundAssumption
    <3>4. QED BY <3>2, <3>3
  <2>3. QED BY <2>1, <2>2, AdvanceMapped DEF Recurrent!Next
<1>4. CASE Postprocess
  <2>1. /\ UNCHANGED <<status, published, num_computed_tokens, num_scheduled, staged,
                       num_accepted_gpu>>
        /\ phase = "forwarded" /\ phase' = "postprocessed"
    BY <1>4 DEF Postprocess, schedVars
  <2>2. QED
    BY <2>1, StutterMapped DEF LiveTokens, MidStep, Batch, NewComputed, RunningTokens
<1>5. CASE Deliver
  BY <1>5, DeliverMapped DEF Recurrent!Next
<1>6. QED BY <1>1, <1>2, <1>3, <1>4, <1>5 DEF Next

(* The columns, their copies and the accepted counts implement one state    *)
(* per request that simply advances with its tokens (preprocess_mamba,      *)
(* postprocess_mamba_fused_kernel), for every value of the constants.       *)
THEOREM RefinesRecurrentState == Spec => ImplementsRecurrentState
<1>1. Init => Recurrent!Init
  <2> SUFFICES ASSUME Init PROVE Recurrent!Init
    OBVIOUS
  <2>1. \A r \in Requests : LiveTokens(r) = 0
    BY DEF Init, LiveTokens, MidStep
  <2>2. \A r \in Requests : AbsState(r) = 0
    BY <2>1 DEF AbsState
  <2>3. QED BY <2>1, <2>2 DEF Init, Recurrent!Init
<1>2. RInv /\ RInv' /\ [Next]_vars => [Recurrent!Next]_(Recurrent!absVars)
  BY StepMapped
<1>3. QED
  BY <1>1, <1>2, RInvHolds, PTL DEF Spec, ImplementsRecurrentState, Recurrent!Spec

-----------------------------------------------------------------------------
(* What MambaAlign asks of the kernels is what CopyOrders orders.          *)

StandsAt(r) ==
  [idx |-> LiveCol(r), computed |-> LiveTokens(r), accepted |-> LiveBias(r) + 1]
Waits(r) ==
  status[r] = "running" /\ (phase \in {"idle", "scheduled", "postprocessed"} \/ r \notin Batch)

(* The only boundary near enough to the accepted tokens is the last one:    *)
(* a draft is shorter than a block.                                         *)
LEMMA OneBoundary ==
  ASSUME NEW R \in Nat, NEW N \in Nat, R <= N, N - R < BlockSize,
         NEW al \in Int, al = (N \div BlockSize) * BlockSize
  PROVE  {n \in R .. N : n % BlockSize = 0} = IF al >= R THEN {al} ELSE {}
<1> DEFINE q == N \div BlockSize
<1>1. q \in Int /\ al = q * BlockSize /\ al <= N /\ N < (q + 1) * BlockSize
  BY DivFacts
<1>2. al % BlockSize = 0
  <2>1. al \div BlockSize = q
    <3>1. al < (q + 1) * BlockSize
      BY <1>1, BlockAssumption
    <3> QED BY <1>1, <3>1, DivUnique
  <2> QED BY <1>1, <2>1, BlockAssumption
<1>3. ASSUME NEW n \in R .. N, n % BlockSize = 0
      PROVE  n = al
  <2> DEFINE d == n \div BlockSize
  <2>1. n \in Int /\ d \in Int /\ n = d * BlockSize
    BY <1>3, ModFacts, DivFacts
  <2>2. d * BlockSize < (q + 1) * BlockSize
    <3>1. /\ n \in R .. N /\ n = d * BlockSize /\ N < (q + 1) * BlockSize
          /\ (q + 1) * BlockSize \in Int /\ R \in Nat /\ N \in Nat
      BY <1>1, <1>3, <2>1, BlockAssumption
    <3> HIDE DEF d, q
    <3> QED BY ONLY <3>1
  <2>3. d < q + 1
    BY <1>1, <2>1, <2>2, MulLess
  <2>4. ~ (d < q)
    <3> HIDE DEF d, q
    <3> SUFFICES ASSUME d < q PROVE FALSE
      OBVIOUS
    <3>1. (d + 1) * BlockSize <= q * BlockSize
      BY <1>1, <2>1, MulMono
    <3>2. (d + 1) * BlockSize = n + BlockSize
      BY <2>1, BlockAssumption
    <3> QED BY <1>1, <2>1, <3>1, <3>2, BlockAssumption
  <2>5. d = q
    BY <1>1, <2>1, <2>3, <2>4
  <2> QED BY <1>1, <2>1, <2>5
<1> HIDE DEF q
<1>4. al >= R => al \in R .. N
  BY <1>1
<1> QED BY <1>2, <1>3, <1>4

(* A request that enters with a cached prefix stands where the step that    *)
(* computed that prefix in one chunk left it.                               *)
LEMMA OnBoundaryStands ==
  ASSUME NEW c \in 0 .. MaxTokens, c % BlockSize = 0
  PROVE  [idx |-> SeedCol(c), computed |-> c, accepted |-> 1] \in Orders!Standing
<1>1. CASE c = 0
  <2>1. SeedCol(c) = -1
    BY <1>1, SeedFacts
  <2> QED BY <1>1, <2>1 DEF Orders!Standing, Orders!Fresh
<1>2. CASE c > 0
  <2> DEFINE g == [computed |-> 0, scheduled |-> c, draft |-> 0, accepted |-> 1]
  <2>1. c \in Nat /\ 0 % BlockSize = 0 /\ c \in 1 .. MaxTokens
    BY <1>2, BlockAssumption, BoundAssumption
  <2>2. g \in Orders!Steps
    BY <2>1, BlockAssumption, BoundAssumption DEF Orders!Steps, Orders!Spans
  <2>3. Orders!Running(g) = c /\ Orders!NewComputed(g) = c
    BY <2>1 DEF Orders!Running, Orders!NewComputed
  <2>4. Orders!StateCol(g) = SeedCol(c)
    <3>1. StateCol(0, c) = SeedCol(0 + c) /\ StateCol(0, c) \in Nat
      BY <1>2, <2>1, StateFacts
    <3>2. /\ StateCol(0, c) = Cdiv(c) + NumSpec - 1 - NumSpec
          /\ Cdiv(c) \in Int
      BY <2>1, DivFacts, BlockAssumption DEF StateCol, Cdiv
    <3>3. Orders!StateCol(g) = Cdiv(c) - 1
      BY <2>1 DEF Orders!StateCol, Orders!Cdiv, Cdiv
    <3> QED BY <2>1, <3>1, <3>2, <3>3, BlockAssumption
  <2>5. Orders!LeftBy(g) = [idx |-> SeedCol(c), computed |-> c, accepted |-> 1]
    BY <2>3, <2>4 DEF Orders!LeftBy
  <2> QED BY <2>2, <2>5 DEF Orders!Standing
<1> QED BY <1>1, <1>2, BoundAssumption

(* The step of a request, as the postprocess kernel is given it. *)
LEMMA StepOrdered ==
  ASSUME IInv, phase = "forwarded", NEW r \in Batch
  PROVE  /\ StepOf(r) \in Orders!Steps
         /\ PostcopiesOf(r) = Orders!Saves(StepOf(r))
         /\ Orders!LeftBy(StepOf(r)) =
              [idx |-> CurrCol(r), computed |-> NewComputed(r), accepted |-> Accepted(r)]
<1> DEFINE g == StepOf(r)
<1>1. /\ num_computed_tokens[r] \in Nat /\ num_scheduled[r] \in Nat
      /\ num_scheduled[r] > num_drafts[r] /\ num_drafts[r] \in 0 .. NumSpec
      /\ num_computed_tokens[r] + num_scheduled[r] <= MaxTokens
      /\ num_accepted_gpu[r] \in 1 .. NumSpec + 1
      /\ num_accepted_gpu[r] <= num_drafts[r] + 1
  BY BatchFacts, AcceptedFacts DEF IInv
<1>2. \/ num_scheduled[r] = 1 + num_drafts[r]
      \/ num_drafts[r] = 0 /\ num_computed_tokens[r] % BlockSize = 0
  BY DEF IInv, BatchShape
<1>3. /\ g.computed = num_computed_tokens[r] /\ g.scheduled = num_scheduled[r]
      /\ g.draft = num_drafts[r] /\ g.accepted = num_accepted_gpu[r]
  BY DEF StepOf
<1>4. g \in Orders!Steps
  <2>1. /\ num_computed_tokens[r] \in 0 .. MaxTokens
        /\ num_scheduled[r] \in 1 .. MaxTokens - num_computed_tokens[r]
        /\ num_scheduled[r] \in 1 .. MaxTokens
    BY <1>1, BlockAssumption, BoundAssumption
  <2>2. num_scheduled[r] <= NumSpec + 1 \/ num_computed_tokens[r] % BlockSize = 0
    BY <1>1, <1>2, BlockAssumption
  <2>3. num_drafts[r] > 0 => num_scheduled[r] = 1 + num_drafts[r]
    BY <1>1, <1>2
  <2>4. g.scheduled \in Orders!Spans(g.computed)
    BY <1>3, <2>1, <2>2 DEF Orders!Spans
  <2>5. g \in [computed : 0 .. MaxTokens, scheduled : 1 .. MaxTokens,
               draft : 0 .. NumSpec, accepted : 1 .. NumSpec + 1]
    BY <1>1, <2>1 DEF StepOf
  <2> HIDE DEF g
  <2> QED BY <1>1, <1>3, <2>3, <2>4, <2>5 DEF Orders!Steps
<1>5. /\ RunningTokens(r) = num_computed_tokens[r] + num_scheduled[r] - num_drafts[r]
      /\ NewComputed(r) = RunningTokens(r) + num_accepted_gpu[r] - 1
      /\ RunningTokens(r) \in Nat /\ NewComputed(r) \in Nat
      /\ staged[r].idx = CurrCol(r)
  BY AcceptedFacts
<1>6. Orders!Running(g) = RunningTokens(r) /\ Orders!NewComputed(g) = NewComputed(r)
  BY <1>3, <1>5 DEF Orders!Running, Orders!NewComputed
<1>7. Orders!StateCol(g) = CurrCol(r)
  <2> DEFINE n == num_computed_tokens[r] + num_scheduled[r]
  <2>1. Cdiv(n) \in Int /\ NumSpec \in Int
    BY <1>1, DivFacts, BlockAssumption DEF Cdiv
  <2>2. CurrCol(r) = Cdiv(n) - 1
    BY <2>1 DEF CurrCol, StateCol
  <2>3. Orders!StateCol(g) = Cdiv(n) - 1
    BY <1>3 DEF Orders!StateCol, Orders!Cdiv, Cdiv
  <2> HIDE DEF n
  <2> QED BY <2>1, <2>2, <2>3
<1> HIDE DEF g
<1>8. /\ AlignedNew(r) \in Int
      /\ Orders!Boundaries(g) = IF NeedsCopy(r) THEN {AlignedNew(r)} ELSE {}
  <2>1. /\ AlignedNew(r) = (NewComputed(r) \div BlockSize) * BlockSize
        /\ AlignedNew(r) \in Int
    BY <1>5, DivFacts, BlockAssumption DEF AlignedNew
  <2>2. RunningTokens(r) <= NewComputed(r) /\ NewComputed(r) - RunningTokens(r) < BlockSize
    BY <1>1, <1>5, BlockAssumption
  <2>3. NeedsCopy(r) <=> AlignedNew(r) >= RunningTokens(r)
    BY DEF NeedsCopy
  <2> QED BY <1>5, <1>6, <2>1, <2>2, <2>3, OneBoundary DEF Orders!Boundaries
<1>9. Orders!Saves(g) =
        IF NeedsCopy(r)
        THEN {[src |-> staged[r].idx, dst |-> DestCol(r), bias |-> CopyBias(r)]}
        ELSE {}
  BY <1>5, <1>6, <1>7, <1>8 DEF Orders!Saves, DestCol, CopyBias
<1>10. PostcopiesOf(r) = Orders!Saves(g)
  BY <1>9 DEF PostcopiesOf
<1>11. Orders!SavedInPlace(g) <=> NeedsCopy(r) /\ staged[r].idx = DestCol(r)
  <2> DEFINE j == [src |-> staged[r].idx, dst |-> DestCol(r), bias |-> CopyBias(r)]
  <2>1. j.src = staged[r].idx /\ j.dst = DestCol(r)
    OBVIOUS
  <2>2. Orders!Saves(g) = IF NeedsCopy(r) THEN {j} ELSE {}
    BY <1>9
  <2> HIDE DEF j
  <2> QED BY <2>1, <2>2 DEF Orders!SavedInPlace
<1>12. Orders!LeftBy(g) =
         [idx |-> CurrCol(r), computed |-> NewComputed(r), accepted |-> Accepted(r)]
  BY <1>3, <1>6, <1>7, <1>11 DEF Orders!LeftBy, Accepted
<1> QED BY <1>4, <1>10, <1>12 DEF g

(* A request that keeps its place keeps standing. *)
LEMMA KeepsPlace ==
  ASSUME StandsAsLeft, NEW r \in Requests, Waits(r), StandsAt(r)' = StandsAt(r)
  PROVE  StandsAt(r)' \in Orders!Standing
BY DEF StandsAsLeft, Waits, StandsAt

(* So does one that has just entered, from nothing or from a cached column. *)
EnteredStand ==
  \A r \in Requests : r \notin Batch /\ status[r] = "running" /\ prefilling[r] =>
    StandsAt(r) \in Orders!Standing

LEMMA EntersStanding == IInv => EnteredStand
<1> SUFFICES ASSUME IInv, NEW r \in Requests,
                    r \notin Batch, status[r] = "running", prefilling[r]
             PROVE  StandsAt(r) \in Orders!Standing
  BY DEF EnteredStand
<1>1. /\ num_computed_tokens[r] % BlockSize = 0 /\ num_accepted[r] = 1
      /\ LiveCol(r) = SeedCol(num_computed_tokens[r])
      /\ num_computed_tokens[r] \in 0 .. MaxTokens
  BY DEF IInv, PromptOnBoundary, TypeOK
<1>2. LiveTokens(r) = num_computed_tokens[r] /\ LiveBias(r) + 1 = 1
  BY <1>1 DEF LiveTokens, LiveBias, MidStep
<1> QED BY <1>1, <1>2, OnBoundaryStands DEF StandsAt

(* The scheduler's steps move no request but the one they are about. *)
LEMMA SchedulerStands ==
  ASSUME IInv, IInv', StandsAsLeft, NEW q \in Requests,
         Admit(q) \/ Preempt(q) \/ Finish(q),
         NEW r \in Requests, Waits(r)'
  PROVE  StandsAt(r)' \in Orders!Standing
<1>1. /\ phase = "idle" /\ UNCHANGED <<mamba_state_idx, stepVars, published, phase>>
      /\ Batch = {} /\ Batch' = {}
  BY DEF Admit, Preempt, Finish, FreeBlocks, IInv, BatchShape, Batch, stepVars
<1>2. CASE r = q
  <2>1. Admit(q)
    BY <1>2 DEF Waits, Preempt, Finish, IInv, TypeOK
  <2>2. status'[r] = "running" /\ prefilling'[r]
    BY <1>2, <2>1 DEF Admit, IInv, TypeOK
  <2>3. (IInv => EnteredStand)'
    BY EntersStanding, PTL
  <2> QED BY <1>1, <2>2, <2>3 DEF EnteredStand
<1>3. CASE r # q
  <2>1. /\ status'[r] = status[r] /\ num_computed_tokens'[r] = num_computed_tokens[r]
        /\ num_accepted'[r] = num_accepted[r]
    BY <1>3 DEF Admit, Preempt, Finish, FreeBlocks, IInv, TypeOK
  <2>2. Cleaned(r)' = Cleaned(r)
    <3>1. released \in [finished : SUBSET Requests, preempted : SUBSET Requests,
                        resumed : SUBSET Requests]
      BY DEF IInv, TypeOK
    <3>2. \/ released' = released
          \/ released' = [released EXCEPT !.resumed = @ \cup {q}]
          \/ released' = [released EXCEPT !.preempted = @ \cup {q}]
          \/ released' = [released EXCEPT !.finished = @ \cup {q}]
      BY DEF Admit, Preempt, Finish
    <3>3. /\ r \in released'.finished <=> r \in released.finished
          /\ r \in released'.preempted <=> r \in released.preempted
          /\ r \in released'.resumed <=> r \in released.resumed
      BY <1>3, <3>1, <3>2
    <3> QED BY <1>1, <3>3 DEF Cleaned
  <2>3. ~ MidStep(r) /\ ~ MidStep(r)'
    BY <1>1 DEF MidStep
  <2>4. StandsAt(r)' = StandsAt(r)
    BY <2>1, <2>2, <2>3 DEF StandsAt, LiveCol, LiveTokens, LiveBias, PrevCol
  <2>5. Waits(r)
    BY <1>1, <2>1 DEF Waits
  <2> QED BY <2>4, <2>5, KeepsPlace
<1> QED BY <1>2, <1>3

(* Nor do the steps of the worker move one that waits, *)
LEMMA WaitingStands ==
  ASSUME IInv, StandsAsLeft, Schedule \/ Preprocess \/ Stage \/ Forward \/ Postprocess,
         NEW r \in Requests, Waits(r)',
         r \notin Batch \/ Schedule
  PROVE  StandsAt(r)' \in Orders!Standing
<1>1. /\ status' = status /\ num_computed_tokens' = num_computed_tokens
  BY DEF Schedule, Preprocess, Stage, Forward, Postprocess, schedVars
<1>2. ~ MidStep(r) /\ ~ MidStep(r)' /\ Waits(r)
  BY <1>1 DEF Schedule, Preprocess, Stage, Forward, Postprocess, MidStep, Waits, Batch, stepVars
<1>3. num_accepted'[r] = num_accepted[r]
  BY <1>2 DEF Schedule, Preprocess, Stage, Forward, Postprocess, NeedsPrecopy
<1>4. Cleaned(r)' = Cleaned(r)
  <2>1. CASE Preprocess
    <3>1. r \notin Batch /\ mamba_state_idx'[r] = Cleaned(r) /\ released' = NoneReleased
      BY <2>1 DEF Preprocess, Schedule
    <3> QED BY <3>1 DEF Cleaned, NoneReleased
  <2>2. CASE ~ Preprocess
    BY <2>2 DEF Schedule, Stage, Forward, Postprocess, Cleaned, schedVars
  <2> QED BY <2>1, <2>2
<1>5. StandsAt(r)' = StandsAt(r)
  BY <1>1, <1>2, <1>3, <1>4 DEF StandsAt, LiveCol, LiveTokens, LiveBias, PrevCol
<1> QED BY <1>2, <1>5, KeepsPlace

(* the postprocess leaves a scheduled one where its step ends, *)
LEMMA PostprocessStands ==
  ASSUME IInv, Postprocess, NEW r \in Batch
  PROVE  StandsAt(r)' \in Orders!Standing
<1>1. /\ phase = "forwarded" /\ phase' = "postprocessed" /\ r \in Requests
      /\ UNCHANGED <<schedVars, mamba_state_idx, num_accepted, num_scheduled,
                     num_drafts, staged, num_accepted_gpu, published>>
      /\ num_accepted_out'[r] = Accepted(r)
  BY DEF Postprocess, Batch
<1>2. /\ released = NoneReleased /\ mamba_state_idx[r] = CurrCol(r) /\ CurrCol(r) \in Nat
      /\ num_accepted_gpu[r] \in 1 .. NumSpec + 1
  BY <1>1, BatchFacts, AcceptedFacts DEF IInv, StepData
<1>3. LiveCol(r)' = CurrCol(r)
  BY <1>1, <1>2 DEF LiveCol, PrevCol, Cleaned, NoneReleased, Absent, schedVars
<1>4. MidStep(r)'
  BY <1>1 DEF MidStep, Batch
<1>5. LiveTokens(r)' = NewComputed(r)
  BY <1>1, <1>4 DEF LiveTokens, NewComputed, RunningTokens
<1>6. LiveBias(r)' + 1 = Accepted(r)
  <2>1. Accepted(r) \in Int
    BY <1>2, BlockAssumption DEF Accepted
  <2> QED BY <1>1, <1>4, <2>1 DEF LiveBias
<1>7. StandsAt(r)' = Orders!LeftBy(StepOf(r))
  BY <1>1, <1>3, <1>5, <1>6, StepOrdered DEF StandsAt
<1>8. StepOf(r) \in Orders!Steps
  BY <1>1, StepOrdered
<1> QED BY <1>7, <1>8 DEF Orders!Standing

(* and the next schedule finds it there. *)
LEMMA DeliverStands ==
  ASSUME IInv, StandsAsLeft, Deliver, NEW r \in Requests, Waits(r)'
  PROVE  StandsAt(r)' \in Orders!Standing
<1>1. /\ phase = "postprocessed" /\ phase' = "idle" /\ status' = status
      /\ released' = released /\ mamba_state_idx' = mamba_state_idx
      /\ num_accepted'[r] = IF r \in Batch THEN num_accepted_out[r] ELSE num_accepted[r]
      /\ num_computed_tokens'[r] = IF r \in Batch THEN NewComputed(r)
                                   ELSE num_computed_tokens[r]
      /\ num_accepted[r] \in Int /\ num_accepted_out[r] \in Int
  BY BlockAssumption DEF Deliver, IInv, TypeOK
<1>2. Waits(r) /\ ~ MidStep(r)' /\ (MidStep(r) <=> r \in Batch)
  BY <1>1 DEF Waits, MidStep
<1>3. Cleaned(r)' = Cleaned(r)
  BY <1>1 DEF Cleaned
<1>4. LiveCol(r)' = LiveCol(r)
  <2>1. CASE r \in Batch
    <3>1. mamba_state_idx[r] = CurrCol(r) /\ CurrCol(r) \in Nat /\ released = NoneReleased
      BY <1>1, <2>1, BatchFacts DEF IInv, StepData
    <3> QED BY <1>3, <3>1 DEF LiveCol, PrevCol, Cleaned, NoneReleased, Absent
  <2>2. CASE r \notin Batch
    BY <1>1, <1>3, <2>2 DEF LiveCol, PrevCol
  <2> QED BY <2>1, <2>2
<1>5. LiveTokens(r)' = LiveTokens(r) /\ LiveBias(r)' = LiveBias(r)
  BY <1>1, <1>2 DEF LiveTokens, LiveBias
<1> QED BY <1>2, <1>4, <1>5, KeepsPlace DEF StandsAt

(* Every step keeps every waiting request standing where a step left it. *)
LEMMA StepStands == IInv /\ IInv' /\ StandsAsLeft /\ [Next]_vars => StandsAsLeft'
<1> SUFFICES ASSUME IInv, IInv', StandsAsLeft, [Next]_vars, NEW r \in Requests, Waits(r)'
             PROVE  StandsAt(r)' \in Orders!Standing
  BY DEF StandsAsLeft, Waits, StandsAt
<1>1. CASE \E q \in Requests : Admit(q) \/ Preempt(q) \/ Finish(q)
  BY <1>1, SchedulerStands
<1>2. CASE Schedule
  BY <1>2, WaitingStands
<1>3. CASE Preprocess \/ Stage \/ Forward
  <2>1. Batch' = Batch /\ phase' \in {"idle", "prepared", "staged", "forwarded"}
        /\ (phase' = "idle" => Batch = {})
    BY <1>3 DEF Preprocess, Stage, Forward, Batch, stepVars
  <2>2. r \notin Batch
    BY <2>1 DEF Waits
  <2> QED BY <1>3, <2>2, WaitingStands
<1>4. CASE Postprocess
  BY <1>4, WaitingStands, PostprocessStands
<1>5. CASE Deliver
  BY <1>5, DeliverStands
<1>6. CASE UNCHANGED vars
  <2>1. StandsAt(r)' = StandsAt(r) /\ Waits(r)
    BY <1>6 DEF vars, schedVars, stepVars, Waits, Batch, StandsAt, LiveCol, LiveTokens,
                LiveBias, MidStep, PrevCol, Cleaned, NewComputed, RunningTokens
  <2> QED BY <2>1, KeepsPlace
<1> QED BY <1>1, <1>2, <1>3, <1>4, <1>5, <1>6 DEF Next

(* Where a request waits and what its step is say what it asks for. *)
LEMMA AskedAsOrdered == IInv /\ StandsAsLeft => CopiesAsOrdered
<1> SUFFICES ASSUME IInv, StandsAsLeft PROVE CopiesAsOrdered
  OBVIOUS
<1>1. ASSUME phase = "scheduled", NEW r \in Batch
      PROVE  /\ AdvanceOf(r) \in Orders!Advances
             /\ PrecopiesOf(r) = Orders!Moves(AdvanceOf(r))
  <2>1. /\ r \in Requests /\ status[r] = "running"
        /\ num_computed_tokens[r] \in Nat /\ num_scheduled[r] \in Nat
        /\ num_scheduled[r] > num_drafts[r] /\ num_drafts[r] \in 0 .. NumSpec
        /\ num_computed_tokens[r] + num_scheduled[r] <= MaxTokens
        /\ CurrCol(r) \in Nat
        /\ num_accepted[r] \in Int
    BY BatchFacts, BlockAssumption DEF IInv, TypeOK
  <2>2. LiveTokens(r) = num_computed_tokens[r] /\ LiveBias(r) + 1 = num_accepted[r]
    BY <1>1, <2>1 DEF LiveTokens, LiveBias, MidStep
  <2> DEFINE w == [idx |-> PrevCol(r), computed |-> num_computed_tokens[r],
                   accepted |-> num_accepted[r]]
             n == num_scheduled[r]
  <2>3. w \in Orders!Standing
    BY <1>1, <2>1, <2>2 DEF StandsAsLeft, LiveCol
  <2>4. n \in Orders!Spans(w.computed)
    <3>1. n <= NumSpec + 1 \/ num_computed_tokens[r] % BlockSize = 0
      BY <2>1, BlockAssumption DEF IInv, BatchShape
    <3> QED BY <2>1, <3>1, BlockAssumption, BoundAssumption DEF Orders!Spans
  <2>5. Orders!Cdiv(w.computed + n) - 1 = CurrCol(r)
    <3>1. Cdiv(w.computed + n) \in Int
      BY <2>1, DivFacts, BlockAssumption DEF Cdiv
    <3> QED BY <3>1, BlockAssumption DEF CurrCol, StateCol, Orders!Cdiv, Cdiv
  <2>6. AdvanceOf(r) = [idx |-> w.idx, accepted |-> w.accepted,
                        next |-> Orders!Cdiv(w.computed + n) - 1]
    BY <2>5 DEF AdvanceOf
  <2>7. AdvanceOf(r) \in Orders!Advances
    <3> HIDE DEF w, n
    <3> QED BY <2>3, <2>4, <2>6 DEF Orders!Advances
  <2>8. PrevCol(r) >= 0 <=> PrevCol(r) # -1
    <3>1. PrevCol(r) \in Int /\ PrevCol(r) >= -1
      <4>1. Cleaned(r) = Absent \/ Cleaned(r) \in Nat
        BY <2>1, ColsNat DEF Cleaned, IInv, TypeOK
      <4> QED BY <2>1, <4>1, SeedFacts DEF PrevCol
    <3> QED BY <3>1
  <2>9. PrecopiesOf(r) = Orders!Moves(AdvanceOf(r))
    BY <1>1, <2>8 DEF PrecopiesOf, NeedsPrecopy, Orders!Moves, AdvanceOf
  <2> QED BY <2>7, <2>9
<1> QED BY <1>1, StepOrdered DEF CopiesAsOrdered

(* For any number of requests, over the whole life of each, the fused      *)
(* kernels are asked for nothing that one launch of CopyGrid is not given:  *)
(* what CopyGrid proves of a launch holds of every launch of the engine.    *)
THEOREM CopiesOrdered == Spec => []CopiesAsOrdered
<1>1. Init => StandsAsLeft
  BY DEF Init, StandsAsLeft
<1>2. IInv /\ IInv' /\ StandsAsLeft /\ [Next]_vars => StandsAsLeft'
  BY StepStands
<1>3. IInv /\ StandsAsLeft => CopiesAsOrdered
  BY AskedAsOrdered
<1> QED BY <1>1, <1>2, <1>3, InvariantHolds, PTL DEF Spec
=============================================================================
