----------------------------- MODULE MambaAlign -----------------------------
(***************************************************************************)
(* The block-aligned ("align") Mamba state cache of the V1 runner, as kept *)
(* by mamba_utils_guarded.py: preprocess_mamba with the fused pre-copy,    *)
(* stage_postprocess_inputs_to_gpu, the forward pass, the fused            *)
(* postprocess kernel, and the accepted-token count that comes back.       *)
(*                                                                         *)
(* A request's state lives in block columns.  The running column is the    *)
(* one of the last scheduled token; with draft tokens in flight the        *)
(* forward also writes one speculative column per draft, and the number of *)
(* accepted tokens says which of them holds the state that counts.  A copy *)
(* moves the state when the running column changes (before the forward)    *)
(* and when a block boundary was reached (after it).                       *)
(*                                                                         *)
(* Content is abstracted to the number of tokens a state has consumed.     *)
(* Junk stands for a column with no state of this request: never written,  *)
(* a null block, or a state that consumed a rejected draft token.          *)
(***************************************************************************)
EXTENDS Integers, FiniteSets

CONSTANTS
  Requests,     \* request ids
  BlockSize,    \* mamba_spec.block_size, tokens per block
  NumSpec,      \* mamba_spec.num_speculative_blocks = longest draft
  MaxTokens     \* bound on the tokens of one request

ASSUME BlockAssumption ==
  /\ BlockSize \in Nat \ {0}
  /\ NumSpec \in Nat
  /\ NumSpec < BlockSize
ASSUME BoundAssumption == MaxTokens \in Nat

VARIABLES
  status,               \* where the scheduler has each request
  num_computed_tokens,  \* requests[r].num_computed_tokens
  prefilling,           \* the prompt is not fully computed yet
  mamba_state_idx,      \* req_id -> running column; Absent: no entry
  num_accepted,         \* input_batch.num_accepted_tokens_cpu
  ssm,                  \* temporal state held by each column of each request
  conv,                 \* conv window held by each column of each request
  released,             \* id lists of the next SchedulerOutput
  num_scheduled,        \* this step's tokens per request; 0: not scheduled
  num_drafts,           \* draft tokens among them
  staged,               \* what the postprocess kernel will read
  num_accepted_gpu,     \* the sampler's accepted counts
  num_accepted_out,     \* num_accepted_tokens_out of the fused kernel
  published,            \* prefix-cache entries: a column's label and states
  phase                 \* how far the current engine step has come

schedVars == <<status, num_computed_tokens, prefilling, released>>
stepVars  == <<num_scheduled, num_drafts, staged, num_accepted_gpu,
               num_accepted_out>>
vars == <<schedVars, stepVars, mamba_state_idx, num_accepted, ssm, conv,
          published, phase>>

-----------------------------------------------------------------------------
Absent == -2                       \* mamba_state_idx.get(req_id) is None
Junk   == -1
NoWindow == [n |-> Junk, ext |-> 0]

Cdiv(n) == (n + BlockSize - 1) \div BlockSize

(* Mutant: the running block of the computed tokens, not the scheduled ones. *)
StateColOfComputed(computed, scheduled) ==
  IF computed = 0 THEN 0 ELSE Cdiv(computed) - 1

(* preprocess_mamba: the running state is kept in the last block before the *)
(* speculative ones, the block of the last scheduled token.                 *)
StateCol(computed, scheduled) ==
  LET num_blocks == Cdiv(computed + scheduled) + NumSpec
  IN  num_blocks - 1 - NumSpec

(* Mutant: seeding with another KV group's small block size. *)
SeedColSmallBlock(computed) == computed - 1

(* A new or resumed request is seeded at the block of its last computed     *)
(* token; nothing computed gives -1, no block.                              *)
SeedCol(computed) == (computed - 1) \div BlockSize

Cols    == 0 .. Cdiv(MaxTokens) + NumSpec
Content == Junk .. MaxTokens
(* A conv window holds the state after n tokens and, shifted by up to ext   *)
(* accepted tokens, the states that follow.                                 *)
Window  == [n : Content, ext : 0 .. NumSpec]

Batch == {r \in Requests : num_scheduled[r] > 0}

NoStage == [idx |-> 0, scheduled |-> 0, computed |-> 0, draft |-> 0]

TypeOK ==
  /\ status \in [Requests -> {"new", "running", "preempted"}]
  /\ num_computed_tokens \in [Requests -> 0 .. MaxTokens]
  /\ prefilling \in [Requests -> BOOLEAN]
  /\ mamba_state_idx \in [Requests -> {Absent} \cup Cols]
  /\ num_accepted \in [Requests -> 1 .. NumSpec + 1]
  /\ ssm \in [Requests -> [Cols -> Content]]
  /\ conv \in [Requests -> [Cols -> Window]]
  /\ released \in [finished : SUBSET Requests,
                   preempted : SUBSET Requests,
                   resumed : SUBSET Requests]
  /\ num_scheduled \in [Requests -> 0 .. MaxTokens]
  /\ num_drafts \in [Requests -> 0 .. NumSpec]
  /\ staged \in [Requests -> [idx : Cols, scheduled : 0 .. MaxTokens,
                              computed : 0 .. MaxTokens, draft : 0 .. NumSpec]]
  /\ num_accepted_gpu \in [Requests -> 1 .. NumSpec + 1]
  /\ num_accepted_out \in [Requests -> 1 .. NumSpec + 1]
  /\ published \subseteq [col : Cols, ssm : Content, conv : Window]
  /\ phase \in {"idle", "scheduled", "prepared", "staged", "forwarded",
                "postprocessed"}

NoneReleased == [finished |-> {}, preempted |-> {}, resumed |-> {}]

Init ==
  /\ status = [r \in Requests |-> "new"]
  /\ num_computed_tokens = [r \in Requests |-> 0]
  /\ prefilling = [r \in Requests |-> TRUE]
  /\ mamba_state_idx = [r \in Requests |-> Absent]
  /\ num_accepted = [r \in Requests |-> 1]
  /\ ssm = [r \in Requests |-> [k \in Cols |-> Junk]]
  /\ conv = [r \in Requests |-> [k \in Cols |-> NoWindow]]
  /\ released = NoneReleased
  /\ num_scheduled = [r \in Requests |-> 0]
  /\ num_drafts = [r \in Requests |-> 0]
  /\ staged = [r \in Requests |-> NoStage]
  /\ num_accepted_gpu = [r \in Requests |-> 1]
  /\ num_accepted_out = [r \in Requests |-> 1]
  /\ published = {}
  /\ phase = "idle"

-----------------------------------------------------------------------------
(* The scheduler, as the worker's code relies on it (external).            *)

(* A request enters the batch with nothing computed, or with the state of a *)
(* cached column: blocks before it are null, blocks after it are new.  A    *)
(* request that was preempted is announced in resumed_req_ids.              *)
Admit(r) ==
  /\ phase = "idle"
  /\ status[r] # "running"
  /\ r \notin released.finished
  /\ \/ /\ num_computed_tokens' = [num_computed_tokens EXCEPT ![r] = 0]
        /\ ssm' = [ssm EXCEPT ![r] = [k \in Cols |-> Junk]]
        /\ conv' = [conv EXCEPT ![r] = [k \in Cols |-> NoWindow]]
     \/ \E e \in published :
        /\ (e.col + 1) * BlockSize < MaxTokens
        /\ num_computed_tokens' =
             [num_computed_tokens EXCEPT ![r] = (e.col + 1) * BlockSize]
        /\ ssm' = [ssm EXCEPT ![r] =
                     [k \in Cols |-> IF k = e.col THEN e.ssm ELSE Junk]]
        /\ conv' = [conv EXCEPT ![r] =
                     [k \in Cols |-> IF k = e.col THEN e.conv ELSE NoWindow]]
  /\ released' = IF status[r] = "preempted"
                 THEN [released EXCEPT !.resumed = @ \cup {r}]
                 ELSE released
  /\ status' = [status EXCEPT ![r] = "running"]
  /\ prefilling' = [prefilling EXCEPT ![r] = TRUE]
  /\ num_accepted' = [num_accepted EXCEPT ![r] = 1]
  /\ UNCHANGED <<mamba_state_idx, stepVars, published, phase>>

(* What a request leaves behind when its blocks are freed; its              *)
(* mamba_state_idx entry stays until the worker hears of it.                *)
FreeBlocks(r) ==
  /\ num_computed_tokens' = [num_computed_tokens EXCEPT ![r] = 0]
  /\ prefilling' = [prefilling EXCEPT ![r] = TRUE]
  /\ ssm' = [ssm EXCEPT ![r] = [k \in Cols |-> Junk]]
  /\ conv' = [conv EXCEPT ![r] = [k \in Cols |-> NoWindow]]
  /\ num_accepted' = [num_accepted EXCEPT ![r] = 1]
  /\ UNCHANGED <<mamba_state_idx, stepVars, published, phase>>

(* A preempted request is listed in preempted_req_ids, except when it was   *)
(* force-preempted (reset_prefix_cache, KV cache flush).                    *)
Preempt(r) ==
  /\ phase = "idle"
  /\ status[r] = "running"
  /\ status' = [status EXCEPT ![r] = "preempted"]
  /\ \/ released' = [released EXCEPT !.preempted = @ \cup {r}]
     \/ UNCHANGED released
  /\ FreeBlocks(r)

(* The slot r is free for another request once the worker was told. *)
Finish(r) ==
  /\ phase = "idle"
  /\ status[r] # "new"
  /\ status' = [status EXCEPT ![r] = "new"]
  /\ released' = [released EXCEPT !.finished = @ \cup {r}]
  /\ FreeBlocks(r)

(* A prefill chunk ends on a block boundary or at the end of the prompt; a  *)
(* decode step is one token plus its drafts.                                *)
Chunks == [n : 0 .. MaxTokens, d : 0 .. NumSpec, last : BOOLEAN]

IsChunk(r, c) ==
  \/ c.n = 0 /\ c.d = 0 /\ c.last = ~ prefilling[r]
  \/ /\ status[r] = "running"
     /\ num_computed_tokens[r] + c.n <= MaxTokens
     /\ \/ /\ prefilling[r]
           /\ c.n > 0
           /\ c.d = 0
           /\ (num_computed_tokens[r] + c.n) % BlockSize = 0 \/ c.last
        \/ /\ ~ prefilling[r]
           /\ c.n = 1 + c.d
           /\ c.last

(* Columns a chunk passes over get no block of their own. *)
PassedOver(r, n, k) ==
  /\ n > 0
  /\ SeedCol(num_computed_tokens[r]) < k
  /\ k < StateCol(num_computed_tokens[r], n)

Schedule ==
  /\ phase = "idle"
  /\ \E choice \in
         [Requests -> {c \in Chunks : \E r \in Requests : IsChunk(r, c)}] :
       /\ \A r \in Requests : IsChunk(r, choice[r])
       /\ \/ \E r \in Requests : choice[r].n > 0
          \/ released # NoneReleased
       /\ num_scheduled' = [r \in Requests |-> choice[r].n]
       /\ num_drafts' = [r \in Requests |-> choice[r].d]
       /\ prefilling' = [r \in Requests |-> ~ choice[r].last]
       /\ ssm' = [r \in Requests |-> [k \in Cols |->
                    IF PassedOver(r, choice[r].n, k) THEN Junk ELSE ssm[r][k]]]
       /\ conv' = [r \in Requests |-> [k \in Cols |->
                    IF PassedOver(r, choice[r].n, k) THEN NoWindow
                    ELSE conv[r][k]]]
  /\ phase' = "scheduled"
  /\ UNCHANGED <<status, num_computed_tokens, released, mamba_state_idx,
                 num_accepted, staged, num_accepted_gpu, num_accepted_out,
                 published>>

-----------------------------------------------------------------------------
(* _copy_mamba_state_block for the two kinds of state: the temporal state   *)
(* is taken from the speculative column the bias selects, the conv window   *)
(* is shifted by the bias and loses that much of its tail.                  *)
CopyTemporal(cols, src, dst, bias) == [cols EXCEPT ![dst] = cols[src + bias]]

Shift(w, bias) ==
  IF w.n = Junk \/ bias > w.ext THEN NoWindow
  ELSE [n |-> w.n + bias, ext |-> w.ext - bias]

CopyConv(cols, src, dst, bias) == [cols EXCEPT ![dst] = Shift(cols[src], bias)]

(* Mutant: force-preempted requests, which are only listed as resumed, keep  *)
(* their entry.                                                             *)
CleanedWithoutResumed(r) ==
  IF r \in released.finished \cup released.preempted
  THEN Absent ELSE mamba_state_idx[r]

(* cleanup_mamba_state_idx *)
Cleaned(r) ==
  IF r \in released.finished \cup released.preempted \cup released.resumed
  THEN Absent ELSE mamba_state_idx[r]

PrevCol(r) ==
  IF Cleaned(r) = Absent THEN SeedCol(num_computed_tokens[r]) ELSE Cleaned(r)

CurrCol(r) == StateCol(num_computed_tokens[r], num_scheduled[r])

NeedsPrecopy(r) ==
  /\ r \in Batch
  /\ PrevCol(r) # -1
  /\ PrevCol(r) # CurrCol(r)

(* preprocess_mamba with the fused pre-copy: drop stale entries, advance    *)
(* each scheduled request to its new running column, move its state there,  *)
(* and forget the bias of a state that moved.                               *)
Preprocess ==
  /\ phase = "scheduled"
  /\ mamba_state_idx' =
       [r \in Requests |-> IF r \in Batch THEN CurrCol(r) ELSE Cleaned(r)]
  /\ ssm' = [r \in Requests |->
               IF NeedsPrecopy(r)
               THEN CopyTemporal(ssm[r], PrevCol(r), CurrCol(r),
                                 num_accepted[r] - 1)
               ELSE ssm[r]]
  /\ conv' = [r \in Requests |->
               IF NeedsPrecopy(r)
               THEN CopyConv(conv[r], PrevCol(r), CurrCol(r),
                             num_accepted[r] - 1)
               ELSE conv[r]]
  /\ num_accepted' =
       [r \in Requests |-> IF NeedsPrecopy(r) THEN 1 ELSE num_accepted[r]]
  /\ released' = NoneReleased
  /\ phase' = IF Batch = {} THEN "idle" ELSE "prepared"
  /\ UNCHANGED <<status, num_computed_tokens, prefilling, stepVars, published>>

(* stage_postprocess_inputs_to_gpu *)
Stage ==
  /\ phase = "prepared"
  /\ staged' = [r \in Requests |->
                  IF r \in Batch
                  THEN [idx |-> mamba_state_idx[r],
                        scheduled |-> num_scheduled[r],
                        computed |-> num_computed_tokens[r],
                        draft |-> num_drafts[r]]
                  ELSE staged[r]]
  /\ phase' = "staged"
  /\ UNCHANGED <<schedVars, mamba_state_idx, num_accepted, ssm, conv,
                 num_scheduled, num_drafts, num_accepted_gpu, num_accepted_out,
                 published>>

-----------------------------------------------------------------------------
(* The forward pass and the sampler (external).  The kernels read the       *)
(* initial state in the running column, or as many columns (offsets, for    *)
(* conv) further as tokens were accepted last time; they leave the state    *)
(* after the non-draft tokens in the running column and one more state per  *)
(* draft in the columns behind it.                                          *)

TemporalRead(r) == ssm[r][mamba_state_idx[r] + num_accepted[r] - 1]
ConvRead(r)     == Shift(conv[r][mamba_state_idx[r]], num_accepted[r] - 1)

(* The state a forward of r starts from; with nothing computed there is no  *)
(* initial state to read.                                                   *)
InitialState(r) ==
  IF num_computed_tokens[r] = 0 THEN 0
  ELSE IF ConvRead(r).n = TemporalRead(r) THEN TemporalRead(r) ELSE Junk

(* The state i drafts after the first ones, when a tokens were accepted. *)
After(r, i, a) ==
  IF InitialState(r) = num_computed_tokens[r] /\ i < a
  THEN num_computed_tokens[r] + num_scheduled[r] - num_drafts[r] + i
  ELSE Junk

Forward ==
  /\ phase = "staged"
  /\ \E a \in [Requests -> 1 .. NumSpec + 1] :
       /\ \A r \in Requests : a[r] <= num_drafts[r] + 1
       /\ num_accepted_gpu' = a
       /\ ssm' = [r \in Requests |-> [k \in Cols |->
                    IF r \in Batch /\ k \in mamba_state_idx[r] ..
                                            mamba_state_idx[r] + num_drafts[r]
                    THEN After(r, k - mamba_state_idx[r], a[r])
                    ELSE ssm[r][k]]]
       /\ conv' = [r \in Requests |-> [k \in Cols |->
                    IF r \in Batch /\ k = mamba_state_idx[r]
                    THEN IF After(r, 0, a[r]) = Junk THEN NoWindow
                         ELSE [n |-> After(r, 0, a[r]), ext |-> a[r] - 1]
                    ELSE conv[r][k]]]
  /\ phase' = "forwarded"
  /\ UNCHANGED <<schedVars, mamba_state_idx, num_accepted, num_scheduled,
                 num_drafts, staged, num_accepted_out, published>>

-----------------------------------------------------------------------------
(* postprocess_mamba_fused_kernel: decide from the staged counts whether a  *)
(* block boundary lies in what the accepted tokens reached, and copy the    *)
(* state of exactly that boundary into its column.                          *)
(* Mutant: draft tokens counted as running. *)
RunningTokensWithDrafts(r) == staged[r].computed + staged[r].scheduled
RunningTokens(r) == staged[r].computed + staged[r].scheduled - staged[r].draft
NewComputed(r)   == RunningTokens(r) + num_accepted_gpu[r] - 1
AlignedNew(r)    == (NewComputed(r) \div BlockSize) * BlockSize

(* Mutant: a boundary the non-draft tokens reach exactly needs no copy. *)
NeedsCopyStrict(r) == r \in Batch /\ AlignedNew(r) > RunningTokens(r)
NeedsCopy(r)     == r \in Batch /\ AlignedNew(r) >= RunningTokens(r)

(* Mutant: the last accepted state instead of the boundary's. *)
CopyBiasAccepted(r) == num_accepted_gpu[r] - 1
CopyBias(r)      == AlignedNew(r) - RunningTokens(r)
DestCol(r)       == AlignedNew(r) \div BlockSize - 1

SelfCopy(r) == staged[r].idx = DestCol(r) /\ CopyBias(r) = 0

(* Mutant: the bias of a state copied to offset 0 is kept. *)
AcceptedKept(r) == num_accepted_gpu[r]

Accepted(r) ==
  IF NeedsCopy(r) /\ staged[r].idx = DestCol(r) THEN 1 ELSE num_accepted_gpu[r]

(* run_fused_postprocess; what the kernel reads it read before any copy. *)
Postprocess ==
  /\ phase = "forwarded"
  /\ num_accepted_out' = [r \in Requests |-> Accepted(r)]
  /\ ssm' = [r \in Requests |->
               IF NeedsCopy(r) /\ ~ SelfCopy(r)
               THEN CopyTemporal(ssm[r], staged[r].idx, DestCol(r), CopyBias(r))
               ELSE ssm[r]]
  /\ conv' = [r \in Requests |->
               IF NeedsCopy(r) /\ ~ SelfCopy(r)
               THEN CopyConv(conv[r], staged[r].idx, DestCol(r), CopyBias(r))
               ELSE conv[r]]
  /\ phase' = "postprocessed"
  /\ UNCHANGED <<schedVars, mamba_state_idx, num_accepted, num_scheduled,
                 num_drafts, staged, num_accepted_gpu, published>>

(* The entries the KV cache manager adds when a step moved a request past   *)
(* block boundaries: the columns that own a block.                          *)
Reached(r) ==
  {[col |-> k, ssm |-> ssm[r][k], conv |-> conv[r][k]] :
     k \in {c \in Cols : /\ (c + 1) * BlockSize > num_computed_tokens[r]
                         /\ (c + 1) * BlockSize <= NewComputed(r)
                         /\ ssm[r][c] # Junk \/ conv[r][c] # NoWindow}}

(* The accepted counts arrive on the CPU for the next preprocess, and the   *)
(* scheduler takes the accepted tokens into account and caches full blocks. *)
Deliver ==
  /\ phase = "postprocessed"
  /\ num_accepted' = [r \in Requests |->
                        IF r \in Batch THEN num_accepted_out[r]
                        ELSE num_accepted[r]]
  /\ num_computed_tokens' =
       [r \in Requests |-> IF r \in Batch THEN NewComputed(r)
                           ELSE num_computed_tokens[r]]
  /\ published' = published \cup UNION {Reached(r) : r \in Batch}
  /\ num_scheduled' = [r \in Requests |-> 0]
  /\ num_drafts' = [r \in Requests |-> 0]
  /\ staged' = [r \in Requests |-> NoStage]
  /\ num_accepted_gpu' = [r \in Requests |-> 1]
  /\ num_accepted_out' = [r \in Requests |-> 1]
  /\ phase' = "idle"
  /\ UNCHANGED <<status, prefilling, released, mamba_state_idx, ssm, conv>>

Next ==
  \/ \E r \in Requests : Admit(r) \/ Preempt(r) \/ Finish(r)
  \/ Schedule
  \/ Preprocess
  \/ Stage
  \/ Forward
  \/ Postprocess
  \/ Deliver

Spec == Init /\ [][Next]_vars

-----------------------------------------------------------------------------
(* The forward pass never starts from anything but the state after exactly  *)
(* the tokens the scheduler counts as computed, in the temporal column and  *)
(* in the conv window alike: across rejected drafts, crossed boundaries,    *)
(* prefix hits and preemptions (preprocess_mamba, both fused kernels).      *)
ForwardReadsExactState ==
  phase \in {"prepared", "staged"} =>
    \A r \in Batch :
      num_computed_tokens[r] > 0 =>
        /\ TemporalRead(r) = num_computed_tokens[r]
        /\ ConvRead(r).n = num_computed_tokens[r]

(* Whatever column the prefix cache offers holds the state after exactly    *)
(* the tokens its label says, never a running or a speculative one          *)
(* (postprocess_mamba_fused_kernel, patch_mamba_block_size.py).             *)
PublishedExact ==
  \A e \in published :
    /\ e.ssm = (e.col + 1) * BlockSize
    /\ e.conv.n = (e.col + 1) * BlockSize

(* A column that holds the state of a boundary the request has passed is    *)
(* shared with the prefix cache: while the request runs, neither copies nor *)
(* forward passes write it again.                                           *)
ReachedColumnsImmutable ==
  [][\A r \in Requests : \A k \in Cols :
       (/\ status[r] = "running" /\ status'[r] = "running"
        /\ (k + 1) * BlockSize <= num_computed_tokens[r]
        /\ ssm[r][k] = (k + 1) * BlockSize)
       => ssm'[r][k] = ssm[r][k] /\ conv'[r][k].n = conv[r][k].n]_vars

-----------------------------------------------------------------------------
(* Where the state of a request is, at every point of a step: the running   *)
(* column, or the seed column before it has one, and the bias its accepted  *)
(* tokens ask for.  The state advances with the forward pass.               *)
MidStep(r) == r \in Batch /\ phase \in {"forwarded", "postprocessed"}

LiveCol(r) == PrevCol(r)

LiveBias(r) ==
  (IF ~ MidStep(r) THEN num_accepted[r]
   ELSE IF phase = "forwarded" THEN num_accepted_gpu[r]
   ELSE num_accepted_out[r]) - 1

LiveTokens(r) == IF MidStep(r) THEN NewComputed(r) ELSE num_computed_tokens[r]

(* Column k of r yields the state after n tokens when read with a bias. *)
Holds(r, k, bias, n) ==
  /\ k \in Cols
  /\ k + bias \in Cols
  /\ bias <= n
  /\ ssm[r][k + bias] = n
  /\ conv[r][k].n = n - bias
  /\ conv[r][k].ext >= bias

(* Every running request can find its state, at every point of a step. *)
LiveStateExact ==
  \A r \in Requests :
    status[r] = "running" /\ LiveTokens(r) > 0 =>
      Holds(r, LiveCol(r), LiveBias(r), LiveTokens(r))

(* A request with nothing computed has no entry that could be stale. *)
FreshHasNoEntry ==
  \A r \in Requests :
    /\ status[r] = "new" => Cleaned(r) = Absent
    /\ (/\ status[r] = "running"
        /\ num_computed_tokens[r] = 0
        /\ phase \in {"idle", "scheduled"} \/ r \notin Batch) =>
         Cleaned(r) = Absent

(* Between chunks a prompt stands on a block boundary. *)
PromptOnBoundary ==
  \A r \in Requests :
    status[r] = "running" /\ prefilling[r] =>
      IF r \in Batch
      THEN /\ num_drafts[r] = 0
           /\ (num_computed_tokens[r] + num_scheduled[r]) % BlockSize = 0
      ELSE /\ num_computed_tokens[r] % BlockSize = 0
           /\ num_accepted[r] = 1
           /\ LiveCol(r) = SeedCol(num_computed_tokens[r])

(* What a scheduled request looks like: a decode step, or a prompt chunk    *)
(* from a boundary with nothing in the columns it passes over.              *)
BatchShape ==
  /\ phase = "idle" => Batch = {}
  /\ \A r \in Requests \ Batch : num_drafts[r] = 0
  /\ \A r \in Batch :
       /\ status[r] = "running"
       /\ num_computed_tokens[r] + num_scheduled[r] <= MaxTokens
       /\ \/ num_scheduled[r] = 1 + num_drafts[r]
          \/ /\ num_drafts[r] = 0
             /\ num_computed_tokens[r] % BlockSize = 0
             /\ \A k \in Cols :
                  PassedOver(r, num_scheduled[r], k) =>
                    ssm[r][k] = Junk /\ conv[r][k] = NoWindow

(* From preprocess on the worker's entry is the running column of this step, *)
(* and what was staged is what was scheduled.                                *)
StepData ==
  /\ phase \notin {"idle", "scheduled"} =>
       /\ released = NoneReleased
       /\ \A r \in Batch : mamba_state_idx[r] = CurrCol(r)
  /\ phase \in {"staged", "forwarded", "postprocessed"} =>
       \A r \in Batch :
         staged[r] = [idx |-> mamba_state_idx[r],
                      scheduled |-> num_scheduled[r],
                      computed |-> num_computed_tokens[r],
                      draft |-> num_drafts[r]]
  /\ \A r \in Requests : /\ num_accepted_gpu[r] <= num_drafts[r] + 1
                         /\ num_accepted_out[r] <= num_drafts[r] + 1

(* After a forward the speculative columns hold the accepted states. *)
SpeculativeWindow ==
  phase = "forwarded" =>
    \A r \in Batch :
      /\ \A i \in 0 .. num_accepted_gpu[r] - 1 :
           ssm[r][staged[r].idx + i] = RunningTokens(r) + i
      /\ conv[r][staged[r].idx] = [n |-> RunningTokens(r),
                                   ext |-> num_accepted_gpu[r] - 1]

(* After postprocess every column a step has completed is exact. *)
ReachedExact ==
  phase = "postprocessed" =>
    \A r \in Batch : \A e \in Reached(r) :
      /\ e.ssm = (e.col + 1) * BlockSize
      /\ e.conv.n = (e.col + 1) * BlockSize

(* The inductive invariant behind ForwardReadsExactState and PublishedExact. *)
IInv ==
  /\ TypeOK
  /\ LiveStateExact
  /\ FreshHasNoEntry
  /\ PromptOnBoundary
  /\ BatchShape
  /\ StepData
  /\ SpeculativeWindow
  /\ ReachedExact
  /\ PublishedExact

-----------------------------------------------------------------------------
(* Refinement: copies, in the middle of a step or between steps, do not     *)
(* change the state a request has.                                          *)
AbsState(r) ==
  IF LiveTokens(r) = 0 THEN 0
  ELSE IF LiveCol(r) + LiveBias(r) \notin Cols THEN Junk
  ELSE LET s == ssm[r][LiveCol(r) + LiveBias(r)]
       IN  IF Shift(conv[r][LiveCol(r)], LiveBias(r)).n = s THEN s ELSE Junk

Recurrent == INSTANCE RecurrentState WITH
  live <- {r \in Requests : status[r] = "running"},
  tokens <- [r \in Requests |-> LiveTokens(r)],
  state <- [r \in Requests |-> AbsState(r)],
  checkpoints <- {<<(e.col + 1) * BlockSize,
                    IF e.ssm = e.conv.n THEN e.ssm ELSE Junk>> : e \in published}

(* Blocks, columns and biases implement one state per request that simply   *)
(* advances with its tokens.                                                *)
ImplementsRecurrentState == Recurrent!Spec

-----------------------------------------------------------------------------
(* The copies of a step, as CopyOrders orders them of one launch. *)
Orders == INSTANCE CopyOrders

StepOf(r) ==
  [computed |-> num_computed_tokens[r], scheduled |-> num_scheduled[r],
   draft |-> num_drafts[r], accepted |-> num_accepted_gpu[r]]
AdvanceOf(r) ==
  [idx |-> PrevCol(r), accepted |-> num_accepted[r], next |-> CurrCol(r)]

PrecopiesOf(r) ==
  {j \in {[src |-> PrevCol(r), dst |-> CurrCol(r), bias |-> num_accepted[r] - 1]} :
     NeedsPrecopy(r)}
PostcopiesOf(r) ==
  {j \in {[src |-> staged[r].idx, dst |-> DestCol(r), bias |-> CopyBias(r)]} :
     NeedsCopy(r)}

(* A request that waits for its next step stands where some step left it,   *)
(* also when it got there through the prefix cache.                         *)
StandsAsLeft ==
  \A r \in Requests :
    (/\ status[r] = "running"
     /\ phase \in {"idle", "scheduled", "postprocessed"} \/ r \notin Batch)
    => [idx |-> LiveCol(r), computed |-> LiveTokens(r),
        accepted |-> LiveBias(r) + 1] \in Orders!Standing

(* Over its whole life a request asks the kernels for nothing but what one  *)
(* launch of CopyGrid is given: preprocess_mamba advances it from where     *)
(* some step left it, and the fused postprocess saves the one boundary its  *)
(* accepted tokens reach.                                                   *)
CopiesAsOrdered ==
  /\ StandsAsLeft
  /\ phase = "scheduled" =>
       \A r \in Batch : /\ AdvanceOf(r) \in Orders!Advances
                        /\ PrecopiesOf(r) = Orders!Moves(AdvanceOf(r))
  /\ phase = "forwarded" =>
       \A r \in Batch : /\ StepOf(r) \in Orders!Steps
                        /\ PostcopiesOf(r) = Orders!Saves(StepOf(r))
=============================================================================
