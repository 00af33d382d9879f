------------------------------ MODULE CopyGrid ------------------------------
(***************************************************************************)
(* One launch of the fused copy kernels of mamba_utils_guarded.py: the     *)
(* grid of (batch row, state tensor, tile) programs, which the GPU runs in *)
(* any order, for the V1 runner (counts staged by the host) and for the V2 *)
(* runner (decision arrays by request slot, block tables by batch row).    *)
(*                                                                         *)
(* MambaAlign has the decisions over a request's life, CopyOrders what its *)
(* steps ask for, StateMemcpy the bytes of one copy; here a copy moves one *)
(* part (a tile's share) of one block of one state tensor.  A part is      *)
(* known by the block its content comes from and the tokens its conv       *)
(* window was shifted by.                                                  *)
(***************************************************************************)
EXTENDS CopyOrders, FiniteSets

CONSTANTS
  Rows,        \* batch rows of the launch, 0 .. num_reqs - 1
  States,      \* indices of the state tensors, 0 .. num_states - 1
  Group,       \* state_group_indices
  ConvStates,  \* the states with conv_width > 0
  Tiles        \* 0 .. _TEMPORAL_TILES - 1

ASSUME GridAssumption ==
  /\ BlockSize \in Nat \ {0} /\ NumSpec \in Nat /\ NumSpec < BlockSize
  /\ MaxTokens \in Nat /\ ConvStates \subseteq States
  /\ 0 \in Rows \cap States \cap Tiles
  /\ Rows \subseteq Nat
  /\ IsFiniteSet(Rows) /\ IsFiniteSet(States) /\ IsFiniteSet(Tiles)

VARIABLES
  runner,       \* "V1" or "V2"
  kind,         \* the launch under way: "idle", "precopy", "postprocess"
  idx_mapping,  \* batch row -> request slot; -1: no request
  wild,         \* block-table entries whose id is out of range
  given,        \* slot -> where the request stands and what the step does
  src_col, src_off, state_idx,       \* by slot, read by the precopy kernel
  num_accepted, num_accepted_out,    \* the two count buffers
  mem,          \* the state tensors, block by block and part by part
  done,         \* programs that have run
  guard_hits

staged == <<src_col, src_off, state_idx>>
vars == <<runner, kind, idx_mapping, wild, given, staged, num_accepted,
          num_accepted_out, mem, done, guard_hits>>

-----------------------------------------------------------------------------
Slots == Rows

Cols   == 0 .. Cdiv(MaxTokens) + NumSpec
Blocks == Rows \X Cols
Entries == {Group[s] : s \in States} \X Rows \X Cols
Untouched == [s \in States |-> [b \in Blocks |-> [k \in Tiles |->
                [from |-> b, shift |-> 0]]]]
Programs == Rows \X States \X Tiles

(* Mutant: the block table in the order of the decision arrays. *)
TableRowBySlot(row) == idx_mapping[row]
TableRow(row) == row

(* A block id, or none when it is out of range.  Every group has its own    *)
(* block table.                                                             *)
BlockOf(s, row, col) ==
  {b \in {<<TableRow(row), col>>} : <<Group[s], row, col>> \notin wild}

-----------------------------------------------------------------------------
(* What the programs of a row are to do, as the kernels work it out. *)

(* Mutant: the counts the launch itself updates. *)
CountReadLive(slot) == num_accepted[slot]
(* V1 keeps its counts and writes a copy; V2 reads a copy taken before the  *)
(* launch and updates its counts in place.                                  *)
CountRead(slot) == IF runner = "V1" THEN num_accepted[slot] ELSE num_accepted_out[slot]

RunningRead(slot) ==
  IF runner = "V1" THEN Running(given[slot])
  ELSE NewComputed(given[slot]) - CountRead(slot) + 1
AlignedNew(slot) ==
  ((RunningRead(slot) + CountRead(slot) - 1) \div BlockSize) * BlockSize
NeedsCopy(slot) == AlignedNew(slot) >= RunningRead(slot)
DestCol(slot) == AlignedNew(slot) \div BlockSize - 1

PostJob(slot) ==
  IF NeedsCopy(slot)
  THEN {[src |-> StateCol(given[slot]), dst |-> DestCol(slot),
         bias |-> AlignedNew(slot) - RunningRead(slot)]}
  ELSE {}

PrecopyJob(slot) ==
  {j \in {[src |-> src_col[slot], dst |-> state_idx[slot], bias |-> src_off[slot]]} :
     j.src >= 0 /\ j.src # j.dst}

Job(row) ==
  IF idx_mapping[row] < 0 THEN {}
  ELSE IF kind = "precopy" THEN PrecopyJob(idx_mapping[row])
  ELSE {j \in PostJob(idx_mapping[row]) : j.src # j.dst \/ j.bias # 0}

(* Mutant: every saved state resets the count. *)
WritesCountOfEverySave(p) ==
  /\ kind = "postprocess" /\ idx_mapping[p[1]] >= 0 /\ p[2] = 0 /\ p[3] = 0
  /\ PostJob(idx_mapping[p[1]]) # {}
(* Only the programs of state 0 and tile 0 write the count back. *)
WritesCount(p) ==
  /\ kind = "postprocess" /\ idx_mapping[p[1]] >= 0 /\ p[2] = 0 /\ p[3] = 0
  /\ \E j \in PostJob(idx_mapping[p[1]]) : j.src = j.dst

(* _copy_mamba_state_block: a conv state is tile 0's and is taken from the  *)
(* source column, a temporal state is shared by the tiles and taken from    *)
(* the column the bias selects.  The destination is looked at first, by     *)
(* every program, the source by those that copy.                            *)
SourceCol(s, j) == IF s \in ConvStates THEN j.src ELSE j.src + j.bias
CopiesPart(p) == p[2] \in ConvStates => p[3] = 0

(* Mutant: only the destination is guarded. *)
DestinationOnly(p, j) == BlockOf(p[2], p[1], j.dst) = {}
Skips(p, j) ==
  \/ BlockOf(p[2], p[1], j.dst) = {}
  \/ CopiesPart(p) /\ BlockOf(p[2], p[1], SourceCol(p[2], j)) = {}

Shifted(s, part, bias) ==
  IF s \in ConvStates THEN [part EXCEPT !.shift = @ + bias] ELSE part

(* A program that skips counts its own skip. *)
HitsOf(p) == IF \E j \in Job(p[1]) : Skips(p, j) THEN 1 ELSE 0

Written(p) ==
  [b \in Blocks |->
     IF \E j \in Job(p[1]) : ~ Skips(p, j) /\ CopiesPart(p) /\ b \in BlockOf(p[2], p[1], j.dst)
     THEN LET j == CHOOSE i \in Job(p[1]) : TRUE
              a == <<TableRow(p[1]), SourceCol(p[2], j)>>
          IN  [mem[p[2]][b] EXCEPT ![p[3]] = Shifted(p[2], mem[p[2]][a][p[3]], j.bias)]
     ELSE mem[p[2]][b]]

(* A program that returns with nothing done is left out of the orders. *)
HasEffect(p) == WritesCount(p) \/ \E j \in Job(p[1]) : CopiesPart(p) \/ Skips(p, j)

Run(p) ==
  /\ kind # "idle" /\ p \notin done /\ HasEffect(p)
  /\ done' = done \cup {p}
  /\ mem' = [mem EXCEPT ![p[2]] = Written(p)]
  /\ guard_hits' = guard_hits + HitsOf(p)
  /\ num_accepted' =
       IF WritesCount(p) /\ runner = "V2"
       THEN [num_accepted EXCEPT ![idx_mapping[p[1]]] = 1] ELSE num_accepted
  /\ num_accepted_out' =
       IF WritesCount(p) /\ runner = "V1"
       THEN [num_accepted_out EXCEPT ![idx_mapping[p[1]]] = 1] ELSE num_accepted_out
  /\ UNCHANGED <<runner, kind, idx_mapping, wild, given, staged>>

Complete == kind # "idle" /\ \A p \in Programs \ done : ~ HasEffect(p)

-----------------------------------------------------------------------------
(* V1 has a request in every row, in order. *)
Mappings ==
  IF runner = "V1" THEN {[r \in Rows |-> r]}
  ELSE {f \in [Rows -> Slots \cup {-1}] :
          \A r, q \in Rows : f[r] = f[q] /\ f[r] >= 0 => r = q}

Idle == [s \in Slots |-> Fresh]
NoStep(k) ==
  IF k = "precopy" THEN [idx |-> -1, accepted |-> 1, next |-> 0]
  ELSE [computed |-> 0, scheduled |-> 1, draft |-> 0, accepted |-> 1]

Init ==
  /\ runner \in {"V1", "V2"} /\ kind = "idle" /\ wild = {}
  /\ idx_mapping = [r \in Rows |-> -1] /\ given = Idle
  /\ src_col = [s \in Slots |-> -1] /\ src_off = [s \in Slots |-> 0]
  /\ state_idx = [s \in Slots |-> -1]
  /\ num_accepted = [s \in Slots |-> 1] /\ num_accepted_out = [s \in Slots |-> 1]
  /\ mem = Untouched /\ done = {} /\ guard_hits = 0

(* The copy a row asks for, said without the kernels. *)
Asked(row) ==
  IF idx_mapping[row] < 0 THEN {}
  ELSE IF kind = "precopy" THEN Moves(given[idx_mapping[row]])
  ELSE {m \in Saves(given[idx_mapping[row]]) : m.src # m.dst \/ m.bias # 0}

(* The entries of the block tables a row's copies read. *)
Looked(row) ==
  {<<Group[s], row, col>> : s \in States,
     col \in UNION {{m.src, m.src + m.bias, m.dst} : m \in Asked(row)}}

(* At most one of the entries a launch reads has gone wild; a slot without  *)
(* a row has nothing new.                                                   *)
Launch(k) ==
  /\ kind' = k
  /\ idx_mapping' \in Mappings
  /\ \A s \in Slots : s \notin {idx_mapping'[r] : r \in Rows} => given'[s] = NoStep(k)
  /\ wild' \in {{}} \cup {{e} : e \in UNION {Looked(r)' : r \in Rows}}
  /\ UNCHANGED <<runner, mem, done, guard_hits>>

(* The host's loop in preprocess_mamba: a request that stays where it is    *)
(* is staged as -1.                                                         *)
PreprocessV1 ==
  /\ kind = "idle" /\ runner = "V1"
  /\ \E a \in [Slots -> Advances] :
       /\ given' = a
       /\ Launch("precopy")
       /\ state_idx' = [s \in Slots |-> a[s].next]
       /\ src_col' = [s \in Slots |-> IF Moves(a[s]) = {} THEN -1 ELSE a[s].idx]
       /\ src_off' = [s \in Slots |->
                        IF Moves(a[s]) = {} THEN 0 ELSE a[s].accepted - 1]
       /\ num_accepted' = [s \in Slots |->
                             IF Moves(a[s]) = {} THEN a[s].accepted ELSE 1]
  /\ UNCHANGED num_accepted_out

(* Mutant: the count is reset first. *)
OffsetAfterReset(a) == IF Moves(a) = {} THEN a.accepted - 1 ELSE 0
(* Mutant: the count for the bias. *)
OffsetIsCount(a) == a.accepted
OffsetOf(a) == IF a.accepted > 1 THEN a.accepted - 1 ELSE 0
(* preprocess_mamba_align_fused_kernel: the source column is stored in any  *)
(* case, the offset before the count is reset.  A row of -1 is only in the  *)
(* contract of the precopy kernel (and skipped there): what this kernel,    *)
(* which does not look, would do with one is not modelled.                  *)
PreprocessV2 ==
  /\ kind = "idle" /\ runner = "V2"
  /\ \E a \in [Slots -> Advances] :
       /\ given' = a
       /\ Launch("precopy")
       /\ state_idx' = [s \in Slots |-> a[s].next]
       /\ src_col' = [s \in Slots |-> a[s].idx]
       /\ src_off' = [s \in Slots |-> OffsetOf(a[s])]
       /\ num_accepted' = [s \in Slots |->
                             IF a[s].idx >= 0 /\ a[s].idx # a[s].next
                             THEN 1 ELSE a[s].accepted]
  /\ UNCHANGED num_accepted_out

(* run_fused_postprocess and run_fused_postprocess_align: either way the    *)
(* other buffer starts as a copy.                                           *)
Postprocess ==
  /\ kind = "idle"
  /\ \E g \in [Slots -> Steps] :
       /\ given' = g
       /\ Launch("postprocess")
       /\ num_accepted' = [s \in Slots |-> g[s].accepted]
       /\ num_accepted_out' = num_accepted'
  /\ UNCHANGED staged

(* The stream is idle again; what becomes of the states is MambaAlign's. *)
Return ==
  /\ Complete
  /\ kind' = "idle" /\ wild' = {} /\ done' = {} /\ guard_hits' = 0
  /\ mem' = Untouched /\ given' = Idle
  /\ idx_mapping' = [r \in Rows |-> -1]
  /\ src_col' = [s \in Slots |-> -1] /\ src_off' = [s \in Slots |-> 0]
  /\ state_idx' = [s \in Slots |-> -1]
  /\ num_accepted' = [s \in Slots |-> 1] /\ num_accepted_out' = [s \in Slots |-> 1]
  /\ UNCHANGED runner

Next == PreprocessV1 \/ PreprocessV2 \/ Postprocess \/ Return \/ \E p \in Programs : Run(p)

Spec == Init /\ [][Next]_vars

-----------------------------------------------------------------------------
Refused(row, s, m) ==
  \E col \in {m.dst, SourceCol(s, m)} : <<Group[s], row, col>> \in wild

(* After a launch each state of each request has been moved as its step     *)
(* asks, from and to its own blocks, whole and in whatever order the        *)
(* programs ran; a state one of whose ids is out of range, and every block  *)
(* no one asked for, is as before in all its parts.                         *)
LaunchExact ==
  Complete =>
    \A s \in States : \A b \in Blocks :
      \A k \in (IF s \in ConvStates THEN {0} ELSE Tiles) :
        mem[s][b][k] =
          IF \E m \in Asked(b[1]) : m.dst = b[2] /\ ~ Refused(b[1], s, m)
          THEN LET m == CHOOSE n \in Asked(b[1]) : TRUE
               IN  [from |-> <<b[1], SourceCol(s, m)>>,
                    shift |-> IF s \in ConvStates THEN m.bias ELSE 0]
          ELSE [from |-> b, shift |-> 0]

(* The accepted count of a request is reset by the launch that moves its    *)
(* state to offset 0, by no other, and whether or not the copy was skipped. *)
CountsExact ==
  Complete =>
    \A row \in Rows : idx_mapping[row] >= 0 =>
      LET slot == idx_mapping[row]
          g == given[slot]
      IN  IF kind = "precopy"
          THEN num_accepted[slot] = IF Moves(g) = {} THEN g.accepted ELSE 1
          ELSE (IF runner = "V1" THEN num_accepted_out ELSE num_accepted)[slot]
                 = IF SavedInPlace(g) THEN 1 ELSE g.accepted

SkippedCopies ==
  {x \in Rows \X States : \E m \in Asked(x[1]) : Refused(x[1], x[2], m)}

(* guard_hits counts programs: no skipped copy goes uncounted, no copy that *)
(* was made is counted, and one skip counts at most once per tile.          *)
SkipsCounted ==
  Complete => guard_hits \in Cardinality(SkippedCopies) ..
                             Cardinality(SkippedCopies) * Cardinality(Tiles)

TypeOK ==
  /\ runner \in {"V1", "V2"} /\ kind \in {"idle", "precopy", "postprocess"}
  /\ idx_mapping \in [Rows -> Slots \cup {-1}]
  /\ wild \subseteq Entries /\ done \subseteq Programs /\ guard_hits \in Nat
  /\ num_accepted \in [Slots -> 1 .. NumSpec + 1]
  /\ num_accepted_out \in [Slots -> 1 .. NumSpec + 1]
  /\ state_idx \in [Slots -> Cols \cup {-1}] /\ src_col \in [Slots -> Cols \cup {-1}]
  /\ src_off \in [Slots -> 0 .. NumSpec]
  /\ mem \in [States -> [Blocks -> [Tiles -> [from : Blocks, shift : 0 .. NumSpec]]]]
=============================================================================
