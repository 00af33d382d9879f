------------------------------ MODULE QsaTopk ------------------------------
(***************************************************************************)
(* The block top-k of the QSA indexer as patch_qsa_exact_topk.py makes it: *)
(* a scoring kernel writes the columns a row can see into a buffer that is *)
(* not initialised, a selection picks block_topk of them, and the          *)
(* expansion reads as many entries as the row has visible blocks.          *)
(***************************************************************************)
EXTENDS Integers, FiniteSets, Functions

CONSTANTS
  Rows,        \* query rows of a call
  BlockTopk,   \* block_topk, entries a row selects
  MaxColumns,  \* bound on the key blocks of a call
  MaxScore     \* bound on the scores

ASSUME TopkAssumption ==
  BlockTopk \in Nat /\ MaxColumns \in Nat /\ MaxScore \in Nat

VARIABLES
  env,      \* VLLM_QSA_EXACT_TOPK, in lower case
  columns,  \* key blocks of this call
  visible,  \* visible_blocks: how many of them a row can see
  score,    \* what the scoring kernel wrote
  logits,   \* the buffer, masked or not
  blocks,   \* the selection
  pc

vars == <<env, columns, visible, score, logits, blocks, pc>>

Stale   == -2  \* what an earlier call left in a buffer
NegInf  == -1
Slots   == 0 .. BlockTopk - 1
Unknown == [r \in Rows |-> [i \in Slots |-> Stale]]

Mode == IF env \in {"true", "yes"} THEN "1" ELSE env

(* Mutant: the first column a row cannot see stays. *)
SeesOneMore(r, c) == c <= visible[r]
Sees(r, c) == c < visible[r]

(* _qsa_cols, _qsa_mask_invisible_ *)
Masked ==
  [r \in Rows |-> [c \in 0 .. columns - 1 |-> IF Sees(r, c) THEN logits[r][c] ELSE NegInf]]

(* Mutant: topk(sorted=False) in any order, all that its interface says. *)
TopKAnyOrder(row, k) ==
  {f \in Injection(0 .. k - 1, DOMAIN row) :
     \A c \in (DOMAIN row) \ Range(f) : \A i \in DOMAIN f : row[c] <= row[f[i]]}

(* torch.topk with sorted=False (external): the k best columns, those above *)
(* the k-th score before those that tie with it, as its radix selection     *)
(* gathers them.                                                            *)
TopK(row, k) ==
  {f \in Injection(0 .. k - 1, DOMAIN row) :
     /\ \A c \in (DOMAIN row) \ Range(f) : \A i \in DOMAIN f : row[c] <= row[f[i]]
     /\ \A i, j \in DOMAIN f :
          row[f[j]] < row[f[i]] /\ (\A m \in DOMAIN f : row[f[j]] <= row[f[m]]) => i < j}

(* Mutant: entries past k stay as they are. *)
Unpadded(f) == [i \in Slots |-> IF i \in DOMAIN f THEN f[i] ELSE Stale]
Padded(f)   == [i \in Slots |-> IF i \in DOMAIN f THEN f[i] ELSE -1]

(* The selections of _qsa_exact_topk for a row. *)
Selections(r) ==
  {Padded(f) : f \in TopK(logits[r], IF BlockTopk <= columns THEN BlockTopk ELSE columns)}

-----------------------------------------------------------------------------
Init ==
  /\ env \in {"0", "1", "fill", "true", "yes"}
  /\ columns = 0 /\ visible = [r \in Rows |-> 0]
  /\ score = [r \in Rows |-> <<>>] /\ logits = score
  /\ blocks = Unknown /\ pc = "idle"

(* The scoring kernel (external): the buffer is torch.empty, so the columns *)
(* a row cannot see hold anything.                                          *)
Score ==
  /\ pc = "idle"
  /\ columns' \in 1 .. MaxColumns
  /\ visible' \in [Rows -> 0 .. columns']
  /\ score' \in [Rows -> [0 .. columns' - 1 -> 0 .. MaxScore]]
  /\ logits' = score'
  /\ pc' = "scored"
  /\ UNCHANGED <<env, blocks>>

Mask ==
  /\ pc = "scored" /\ Mode # "0"
  /\ logits' = Masked
  /\ pc' = "masked"
  /\ UNCHANGED <<env, columns, visible, score, blocks>>

ExactTopk ==
  /\ pc = "masked" /\ Mode = "1"
  /\ \E f \in [Rows -> UNION {Selections(r) : r \in Rows}] :
       blocks' = f /\ \A r \in Rows : f[r] \in Selections(r)
  /\ pc' = "selected"
  /\ UNCHANGED <<env, columns, visible, score, logits>>

(* topk_op, the stock kernel (external), of which nothing is said: it "may  *)
(* drop candidates".                                                        *)
StockTopk ==
  /\ pc = (IF Mode = "fill" THEN "masked" ELSE "scored") /\ Mode # "1"
  /\ pc' = "selected"
  /\ UNCHANGED <<env, columns, visible, score, logits, blocks>>

(* The expansion kernel (external) has read the selection; the next call    *)
(* starts with other buffers.                                               *)
Expand ==
  /\ pc = "selected" /\ pc' = "idle"
  /\ columns' = 0 /\ visible' = [r \in Rows |-> 0]
  /\ score' = [r \in Rows |-> <<>>] /\ logits' = score' /\ blocks' = Unknown
  /\ UNCHANGED env

Next == Score \/ Mask \/ ExactTopk \/ StockTopk \/ Expand
Spec == Init /\ [][Next]_vars

-----------------------------------------------------------------------------
(* What the expansion reads: min(visible, block_topk) entries. *)
ReadEntries(r) == {blocks[r][i] : i \in {j \in Slots : j < visible[r]}}

(* With VLLM_QSA_EXACT_TOPK on, whatever the unwritten columns hold, the    *)
(* entries the expansion reads name as many different visible blocks as the *)
(* row can use, and no visible block it leaves out scored higher: no        *)
(* candidate is dropped and none is read that was never written, also for   *)
(* rows with fewer visible blocks than k.                                   *)
SelectionExact ==
  pc = "selected" /\ Mode = "1" =>
    \A r \in Rows :
      LET seen == {c \in 0 .. columns - 1 : c < visible[r]}
          most == IF visible[r] <= BlockTopk THEN visible[r] ELSE BlockTopk
      IN  /\ ReadEntries(r) \subseteq seen
          /\ Cardinality(ReadEntries(r)) = most
          /\ \A c \in seen \ ReadEntries(r) :
               \A d \in ReadEntries(r) : score[r][c] <= score[r][d]

(* No entry of an exact selection is left from an earlier call, read or     *)
(* not: it is a column of this call or -1.                                  *)
NothingStale ==
  pc = "selected" /\ Mode = "1" =>
    \A r \in Rows, i \in Slots : blocks[r][i] \in -1 .. columns - 1
=============================================================================
