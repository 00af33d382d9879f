----------------------------- MODULE StateMemcpy -----------------------------
(***************************************************************************)
(* One copy of a Mamba state block on the GPU, lane by lane:               *)
(* _memcpy_u64_tiled, the conv branches of _copy_mamba_state_block and     *)
(* batch_memcpy_kernel of mamba_utils_guarded.py.                          *)
(*                                                                         *)
(* A block is a grid of cells <<t, o>>: byte o of token t, for the         *)
(* dimension-first layout row o of token t, for the scalar path byte t.    *)
(* Copying with bias b moves cell <<t + b, o>> to <<t, o>>, in place or    *)
(* from another block.  Lanes load and store one vector after the other    *)
(* and wait for each other nowhere but at the barrier of the scalar path,  *)
(* so any lane may be ahead of any other.                                  *)
(*                                                                         *)
(* The content of a cell is the cell whose original bytes it holds.        *)
(***************************************************************************)
EXTENDS Integers

CONSTANTS
  Word,        \* bytes of a u64 (8)
  CopyBlock,   \* COPY_BLOCK_SIZE, lanes of a program (1024)
  Tiles,       \* _TEMPORAL_TILES, programs that share a temporal copy (16)
  MaxTokens, MaxBytes   \* bounds on the blocks copied

ASSUME MemcpyAssumption ==
  /\ Word \in Nat \ {0} /\ CopyBlock \in Nat \ {0} /\ Tiles \in Nat \ {0}
  /\ MaxTokens \in Nat /\ MaxBytes \in Nat

VARIABLES
  copy,   \* what is copied
  mem,    \* the destination block
  at,     \* at[l]: the vector lane l is at
  pc,     \* pc[l]: whether it is about to load or to store it
  reg     \* reg[l]: what it has loaded

vars == <<copy, mem, at, pc, reg>>

-----------------------------------------------------------------------------
Cdiv(n, d) == (n + d - 1) \div d
Least(a, b) == IF a <= b THEN a ELSE b

(* The copies the kernels make.  "tokens": a conv window within its block,  *)
(* token by token.  "rows": a dimension-first window.  "whole": one region  *)
(* from another block or exactly onto itself, a temporal state by all       *)
(* tiles.  "batch": the scalar path.                                        *)
Copies ==
  [kind : {"tokens", "rows", "whole", "batch"}, inplace : BOOLEAN,
   tiles : {1, Tiles}, width : 1 .. MaxTokens, bytes : 1 .. MaxBytes,
   bias : 0 .. MaxTokens, src : 0 .. Word - 1, dst : 0 .. Word - 1]

IsCopy(c) ==
  /\ c.bias < c.width
  /\ c.inplace => c.src = c.dst
  /\ c.kind = "tokens" => c.inplace /\ c.bias > 0
  /\ c.kind = "whole" => c.bias = 0 /\ c.width = 1
  /\ c.kind # "whole" => c.tiles = 1
  /\ c.kind = "batch" => c.bytes = 1

CopyOK == copy \in Copies /\ IsCopy(copy)

Cells == (0 .. copy.width - 1) \X (0 .. copy.bytes - 1)
Moving(c) == c[1] + copy.bias < copy.width

Source(c)   == <<c[1] + copy.bias, c[2]>>
(* A destination block of its own starts with other content. *)
Original(c) == IF copy.inplace THEN c ELSE <<-1, c[2]>>
Moved(c)    == IF Moving(c) THEN Source(c) ELSE Original(c)

(* Head and tail belong to the lanes of the first tile. *)
Lanes ==
  [part : {"body"}, tile : 0 .. copy.tiles - 1, j : 0 .. CopyBlock - 1]
  \cup IF copy.kind = "batch" THEN {}
       ELSE [part : {"head", "tail"}, tile : {0}, j : 0 .. Word - 1]

-----------------------------------------------------------------------------
(* _memcpy_u64_tiled of the token at t.  The fast path needs source and     *)
(* destination in step; dimension-first rows are copied element by element. *)
DstAddr(t) == copy.dst + t * copy.bytes
SrcAddr(t) == copy.src + (t + copy.bias) * copy.bytes

Fast(t) == copy.kind # "rows" /\ (SrcAddr(t) - DstAddr(t)) % Word = 0
Unit(t) == IF Fast(t) THEN Word ELSE 1
(* Mutant: every token has the head of the first. *)
HeadOfFirst(t) == IF Fast(t) THEN Least((- copy.dst) % Word, copy.bytes) ELSE 0
Head(t) == IF Fast(t) THEN Least((- DstAddr(t)) % Word, copy.bytes) ELSE 0
Body(t) == (copy.bytes - Head(t)) \div Unit(t)
(* Mutant: the words that do not divide evenly belong to no tile. *)
PerTileFloor(t) == Cdiv(Body(t) \div copy.tiles, CopyBlock) * CopyBlock
PerTile(t) == Cdiv(Cdiv(Body(t), copy.tiles), CopyBlock) * CopyBlock

(* The bytes of token t lane l copies in round i of its loop. *)
Offsets(l, t, i) ==
  IF l.part = "body"
  THEN LET e == l.tile * PerTile(t) + i * CopyBlock + l.j
       IN  IF e < Least((l.tile + 1) * PerTile(t), Body(t))
           THEN Head(t) + e * Unit(t) .. Head(t) + e * Unit(t) + Unit(t) - 1
           ELSE {}
  ELSE LET o == IF l.part = "head" THEN l.j ELSE Head(t) + Body(t) * Unit(t) + l.j
           end == IF l.part = "head" THEN Head(t) ELSE copy.bytes
       IN  IF i = 0 /\ o < end THEN {o} ELSE {}

(* is_left_overlap: within a block the source starts bias bytes behind the  *)
(* destination.  Regions that only touch do not overlap.                    *)
(* Mutant: a byte of overlap too few.                                       *)
BarrierFromTwo ==
  /\ copy.kind = "batch" /\ copy.inplace
  /\ copy.bias > 0 /\ copy.width - copy.bias > copy.bias + 1
Barrier ==
  /\ copy.kind = "batch" /\ copy.inplace
  /\ copy.bias > 0 /\ copy.width - copy.bias > copy.bias

(* No token has more rounds than its bytes need lanes. *)
Rounds == Cdiv(copy.bytes, CopyBlock)
Total  == IF copy.kind = "batch" THEN Cdiv(copy.width - copy.bias, CopyBlock)
          ELSE (copy.width - copy.bias) * Rounds

(* The cells of the n-th vector of lane l. *)
Vector(l, n) ==
  IF copy.kind = "batch"
  THEN {c \in Cells : c[1] = n * CopyBlock + l.j /\ Moving(c)}
  ELSE {n \div Rounds} \X Offsets(l, n \div Rounds, n % Rounds)

-----------------------------------------------------------------------------
Init ==
  /\ copy \in {c \in Copies : IsCopy(c)}
  /\ mem = [c \in Cells |-> Original(c)]
  /\ at = [l \in Lanes |-> 0]
  /\ pc = [l \in Lanes |-> "load"]
  /\ reg = [l \in Lanes |-> <<>>]

(* A lane that is masked out goes on, except that it too meets a barrier. *)
Loads(l, n) ==
  IF Barrier THEN n = at[l]
  ELSE Vector(l, n) # {} /\ \A i \in at[l] .. n - 1 : Vector(l, i) = {}

Load(l) ==
  /\ pc[l] = "load"
  /\ \E n \in at[l] .. Total - 1 :
       /\ Loads(l, n)
       /\ at' = [at EXCEPT ![l] = n]
       /\ reg' = [reg EXCEPT ![l] =
                    [c \in Vector(l, n) |->
                       IF copy.inplace THEN mem[Source(c)] ELSE Source(c)]]
  /\ pc' = [pc EXCEPT ![l] = "store"]
  /\ UNCHANGED <<copy, mem>>

(* Mutant: no debug_barrier. *)
PassesAtOnce(l) == TRUE
Passes(l) ==
  Barrier => \A m \in Lanes : at[m] > at[l] \/ (at[m] = at[l] /\ pc[m] = "store")

Store(l) ==
  /\ pc[l] = "store"
  /\ Passes(l)
  /\ mem' = [c \in Cells |-> IF c \in DOMAIN reg[l] THEN reg[l][c] ELSE mem[c]]
  /\ at' = [at EXCEPT ![l] = @ + 1]
  /\ pc' = [pc EXCEPT ![l] = "load"]
  /\ reg' = [reg EXCEPT ![l] = <<>>]
  /\ UNCHANGED copy

Finished ==
  \A l \in Lanes : /\ pc[l] = "load"
                   /\ \A n \in at[l] .. Total - 1 : ~ Barrier /\ Vector(l, n) = {}

(* The kernel returns; the next copy is another launch. *)
Return == Finished /\ UNCHANGED vars

Next == Return \/ \E l \in Lanes : Load(l) \/ Store(l)

Spec == Init /\ [][Next]_vars

-----------------------------------------------------------------------------
(* A lane never loads bytes another lane has already written over: the      *)
(* left shift within one block is safe, without a barrier for the token and *)
(* row loops, with one for the scalar path ("memmove-safe without a         *)
(* barrier", "Preserve each lane's source").                                *)
SourcesIntact ==
  copy.inplace =>
    \A l \in Lanes : pc[l] = "load" =>
      \A n \in at[l] .. Total - 1 : \A c \in Vector(l, n) :
        Loads(l, n) => mem[Source(c)] = Source(c)

(* When all lanes are done, every cell that moves holds the bytes of its    *)
(* source and every other cell its own: no byte is lost between head, body, *)
(* tail and tiles, and none written twice with different content.           *)
MovedAtEnd == Finished => \A c \in Cells : mem[c] = Moved(c)

(* A load or store of a whole word is aligned in source and destination:    *)
(* "Some NVIDIA parts reject misaligned u64 loads".                         *)
WordsAligned ==
  \A l \in Lanes :
    l.part = "body" /\ copy.kind # "batch" /\ DOMAIN reg[l] # {} =>
    LET t == at[l] \div Rounds
        e == l.tile * PerTile(t) + (at[l] % Rounds) * CopyBlock + l.j
        o == Head(t) + e * Unit(t)
    IN  (DstAddr(t) + o) % Unit(t) = 0 /\ (SrcAddr(t) + o) % Unit(t) = 0

-----------------------------------------------------------------------------
TypeOK ==
  /\ CopyOK
  /\ DOMAIN mem = Cells
  /\ at \in [Lanes -> 0 .. Total]
  /\ pc \in [Lanes -> {"load", "store"}]
  /\ DOMAIN reg = Lanes
  /\ \A l \in Lanes : IF pc[l] = "store" THEN at[l] < Total ELSE DOMAIN reg[l] = {}

(* What a lane has stored has arrived; what it has loaded is right. *)
StoredExact ==
  \A l \in Lanes :
    /\ \A n \in 0 .. at[l] - 1 : \A c \in Vector(l, n) : mem[c] = Moved(c)
    /\ pc[l] = "store" => reg[l] = [c \in Vector(l, at[l]) |-> Moved(c)]

(* A cell no lane has stored is as it was. *)
RestOriginal ==
  \A c \in Cells :
    \/ mem[c] = Original(c)
    \/ \E l \in Lanes : \E n \in 0 .. at[l] - 1 : c \in Vector(l, n)

(* No lane is past a barrier another has not reached. *)
InStep ==
  Barrier => \A l, m \in Lanes :
               at[l] < at[m] => at[m] = at[l] + 1 /\ pc[l] = "store"

IInv == TypeOK /\ StoredExact /\ RestOriginal /\ InStep
=============================================================================
