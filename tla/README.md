# Formal models of the Qwen3.8-Flash-Next TP4 stack

TLA+ modules, TLC configurations and TLAPS proofs for the code of this
repository: the patches it puts into vLLM and the scripts that run a four-node
(TP4) fleet with it. `src/...` below is the repository root.

## 1. The system and its parts

The repository serves one model on four nodes. Each node runs one container with
one tensor-parallel rank; rank 0 (the head) also serves HTTP. Inside every rank
runs vLLM, patched at image build time by the files in `src/src/`; outside, shell
scripts build, distribute, launch, watch and test the fleet.

| # | Part | Source | State it keeps | Operations |
|---|---|---|---|---|
| 1 | Mamba align state cache | `src/src/mamba_utils_guarded.py`, `patch_mamba_block_size.py` | running column per request, block tables, state pools, accepted counts, staging buffers, guard counter | cleanup, preprocess + pre-copy, stage, postprocess kernel, return of counts; the same kernels for the V2 runner; the copy of a block, lane by lane; the scalar path, all-mode |
| 2 | PLE mmap table | `src/src/vllm_ple_mmap.py` | mmapped shards, thread pool, pinned buffer, layer registry, statistics | find shards, set up, gather (inline and threaded), lookup |
| 3 | Fleet watchdog | `src/fleet_watchdog.sh` | lock, pause flag, give-up flag, two counters | probe, recover (teardown, ritual, launch, wait, stop), give up |
| 4 | Flusher | `src/flusher-unconditional.sh` | its own process | drop the page cache once a minute, for 90 minutes |
| 5 | Launcher | `src/launch-qwen38-tp4.sh` | the node's container | check prerequisites, replace the container |
| 6 | Node scripts | `src/scripts/*.sh` | images, weights, `.prepared` marker on the nodes | preflight, sync image, sync weights, prepare the hybrid checkpoint, teardown, smoke test |
| 7 | fp8 hybrid checkpoint | `src/tools/fp8_convert.py`, `src/src/vllm_fp8_hybrid_modelopt.py` | shard files, index; on the config, the names of the fp8 layers and their normalised copy | convert, scan, rename, dispatch |
| 8 | QSA exact top-k | `src/src/patch_qsa_exact_topk.py` | environment switch, logits buffer, selection | mask, select |
| 9 | Build-time patches | `patch_ple_offload_*.py`, Dockerfiles | none at run time | text substitution |
| 10 | Evals | `src/evals/` | none | gates, benchmarks |

Interactions. The vLLM scheduler (external) tells part 1 what it admitted,
scheduled, preempted and finished; part 1 answers only through the content of
the columns and the accepted counts. The forward pass calls part 2 once per PLE layer,
between CUDA kernels; it synchronises with the stream when it reads the ids.
Part 3 sees a node through `docker inspect` and the engine through HTTP, and
changes them through commands (parts 4 and 5 among them) that run on the nodes
and may outlive the shell that sent them. Part 5 refuses to serve a hybrid checkpoint
that part 6 has not marked as prepared; the engine it starts scans the files part 7
converted and decides from them how each layer is read.

Hard behaviours: a state that moves between columns while drafts are accepted or
rejected, requests are preempted and their slots reused; GPU programs and lanes that
run in any order over the blocks they copy (1); a host buffer shared with
an asynchronous copy (2); processes that are killed and leave children, nodes that
cannot be reached, probes that lie, retries with a limit (3); conversions that stop
half-way, names cached before they are final (6, 7); buffers that are not initialised
(8). The full list, each with its line, is `hazards` in `PROJECT.json`.

What makes a part correct:

1. every forward starts from the state after exactly the computed tokens; a cached
   column holds what its label says, and nobody overwrites it; a launch makes the copies
   asked for and no other, whole, whatever the order of its programs and lanes;
2. the rows returned are the rows asked for, on both paths, and the device reads
   them before the host overwrites them;
3. one actor at a time; complete teardown before a launch; bounded relaunches;
   quiet after giving up; a dead fleet comes back or a person is asked for;
6./7. a checkpoint marked as prepared is completely converted, and every layer is read as
   it is stored;
8. the entries the expansion reads are an exact top-k of the visible columns.

## 2. Modules

| Module | What it is |
|---|---|
| `RecurrentState` | abstract specification: one recurrent state per live request that advances with the request's tokens, and checkpoints at block boundaries |
| `MambaAlign` | part 1 in detail; `ImplementsRecurrentState` is its refinement of `RecurrentState` |
| `MCMambaAlign` | instances for TLC (symmetry of requests) |
| `MambaAlignProof` | `IInv` is inductive; type correctness, the two safety theorems, `ReachedColumnsImmutable`, the refinement of `RecurrentState`, and `CopiesAsOrdered` |
| `CopyOrders` | part 1: what one step of a request asks of the copy kernels, shared by `MambaAlign` and `CopyGrid` |
| `CopyGrid`, `MCCopyGrid` | part 1: one launch of the fused kernels, V1 and V2, as a grid of programs with the guard |
| `CopyGridProof` | `IInv` is inductive for any order of the programs; the copies, the counts and the skips of a launch |
| `StateMemcpy` | part 1: one copy of one block, lane by lane, with the scalar path |
| `StateMemcpyProof` | `IInv` of `StateMemcpy` is inductive; the copy is exact and aligned |
| `FleetWatchdog` | part 3, with the effect on a node of what it runs there (parts 4 and 5) |
| `MCFleetWatchdog` | instances for TLC (symmetry of watchdog processes) |
| `FleetWatchdogProof` | type correctness, `OneActor`, `GivenUpIsQuiet`, `NoOldRankAtLaunch`, `BoundedRelaunches` |
| `PleTable` | part 2: which shards are accepted, the scale, gathering inline and in the pool |
| `MCPleTable` | instances for TLC |
| `PleTableProof` | `IInv` is inductive; the positions of the pool, exact rows, exceptions, the scale |
| `RowLookup` | abstract specification: a lookup is answered once, in order, with the rows of its ids |
| `PleStaging` | part 2: the pinned buffer of a layer and the CUDA stream; `ImplementsRowLookup` is its refinement of `RowLookup` |
| `MCPleStaging` | instances for TLC (symmetry of layers) |
| `PleStagingProof` | `IInv` is inductive; exact answers, no buffer written under a copy, and the refinement of `RowLookup` |
| `HybridPrepare` | parts 6 and 7: prepare-hybrid on one node with the converter it runs |
| `HybridServe`, `MCHybridServe` | composes `HybridPrepare` with parts 5 and 7 of an engine that starts over what it leaves |
| `HybridServeProof` | the invariant of both, and the marker, the source and the dispatch it protects |
| `QsaTopk` | part 8 between the scoring kernel and the expansion |
| `QsaTopkProof` | `IInv` is inductive; the exact selection, nothing stale |

### MambaAlign

One engine step is a cycle of `phase`:
`idle -Schedule-> scheduled -Preprocess-> prepared -Stage-> staged -Forward->
forwarded -Postprocess-> postprocessed -Deliver-> idle`; between steps the scheduler
admits, preempts and finishes requests.

| Action | Code |
|---|---|
| `Preprocess` | `preprocess_mamba` with `cleanup_mamba_state_idx` and the fused pre-copy kernel |
| `Stage` | `stage_postprocess_inputs_to_gpu` |
| `Postprocess` | `run_fused_postprocess` and `postprocess_mamba_fused_kernel` |
| `Deliver` | the end of `postprocess_mamba_align_gpu`, and (external) what the scheduler does with the result |
| `Admit`, `Preempt`, `Finish`, `Schedule`, `Forward` | external: vLLM's scheduler, its KV cache manager, the model's kernels |

`StateCol` and `SeedCol` are the two column computations of `preprocess_mamba`;
`CopyTemporal`, `Shift` and `CopyConv` are `_copy_mamba_state_block` for the two
kinds of state; `RunningTokens` to `SelfCopy` are the decisions of the kernel,
line by line.

Abstraction of the data. A temporal state is the number of tokens it has consumed,
a conv window the number of tokens and how far it may still be shifted; `Junk` is a
null block, a column never written, or a state that consumed a rejected draft.
All requests draw on one stream of tokens, so that any cached column can be
hit by any request. All layers and state types of a request are copied
alike, in one step: `CopyGrid` shows that a launch does that as long as no block id is
wild, `StateMemcpy` that one copy moves the bytes it should. What a launch of `CopyGrid` may
be given is written once, in `CopyOrders`: `Steps` and the `Saves` they ask for, `Standing` and
the `Advances` from there with their `Moves`. `CopiesAsOrdered` says that `MambaAlign` stays within it, so
what is proved of a launch holds of each one the engine makes, V1 with its counts from the host.

Assumed of the external code, from how the worker's code relies on it:

- a prompt chunk ends on a block boundary or at the end of the prompt
  (`patch_mamba_block_size.py` makes the scheduler do so), a decode step is one token
  and its drafts, and drafts are fewer than a block (`NumSpec < BlockSize`);
- columns that a chunk passes over are null blocks;
- the accepted count belongs to a request and is 1 when it is (re)admitted;
- the copy of the accepted counts to the CPU has arrived when the next preprocess
  runs;
- a scheduler output without any request is sent only to announce released ids;
- a force-preempted request is announced as resumed when it comes back and as
  nothing before (the docstring of `cleanup_mamba_state_idx`).

`Requests` are slots: once the worker has been told of the end of a request its slot
stands for another one. `MaxTokens` bounds the tokens of a request.

### CopyGrid and StateMemcpy

`CopyGrid` is one launch over `Programs`, the grid of batch rows, state tensors and tiles:
`PreprocessV1`, `PreprocessV2` and `Postprocess` stage and launch it, `Run(p)` is one
program of `precopy_mamba_align_fused_kernel` or `postprocess_mamba_fused_kernel` with
`_copy_mamba_state_block` inlined, in any order; `Return` empties the stream. The runner
is chosen at the start: V1 stages counts by the host and writes the updated counts to
a second buffer; V2 keeps decisions by request slot, reads block tables by batch row
(`idx_mapping`), and updates its counts in place after copying them. `wild` is
the block-table entry, if any, whose id is out of range; the guard skips the programs
that read it and counts each. Where a request stands before a launch (`Standing`, of
`CopyOrders`) is what a step can leave. A block's content is the block it comes from and the tokens it
was shifted by, per tile; a program with nothing to do is left out of the orders. A V2 row mapped to -1 is
skipped by the precopy and postprocess kernels, and so it is here.
`preprocess_mamba_align_fused_kernel` (lines 487-503) has no such check, and its contract names
no such row: what it would do with one is not modelled.

`StateMemcpy` is one copy. `Load(l)` and `Store(l)` are the two halves of an iteration of
the loop of lane `l` in `_memcpy_u64_tiled` (head, body, tail; words when source and
destination are in step, bytes otherwise), in the row loop of a dimension-first window, and in
`batch_memcpy_kernel`, whose `debug_barrier` is `Passes`. Lanes wait for each other nowhere
else; that the GPU runs 32 of them in lockstep is not relied on. `Barrier` is
`is_left_overlap`: a shift within a block has a barrier only when it moves more bytes than it
shifts by, and regions that do not overlap have none. `copy` enumerates the kinds of copies,
sizes and alignments the callers produce, the copy of a region onto itself included.

### FleetWatchdog

A watchdog process is a shell (`pc`, the loop variables) and the child it waits for
(`cmd`). `Kill` ends the shell only: the child goes on, takes effect, and holds the
inherited lock descriptor until it ends. One action per statement whose effect
another process can see: `Loop` (the two flags), `ProbeRank`, `ProbeHealth`,
`ProbeCanary` (in the order of `probe`), `Issue`/`RunCmd`/`EndStage` (a stage of
`recover`, one command per rank in `RANK_ORDER`), `WaitHealthy`, `WaitAgain`,
`WaitTimeout`, `Recovered`.

Data: a container is missing, exited, or runs and belongs to the latest recovery
(`new`) or an earlier one (`old`); the engine is down, booting, up, dead (nothing
answers) or hung (`/health` answers, requests do not). Rank 0 is `SELF`, whose commands
do not use ssh. `docker rm -f` may fail unseen where `RemoveCanFail`. The launcher may fail on a prerequisite or its container may exit at
once. `relaunches` is a history variable: recoveries begun since the engine last
served (a new watchdog or a re-armed flag starts it again).

Left out: `mem_ritual` (sets nothing that a property looks at), logging, the length of
a sleep, and the short-lived `sleep`, `curl` and `docker inspect` children, which change
nothing and only keep the lock a little longer than the model does.

### PleTable and PleStaging

A lookup has two halves that meet in `table.gather(uniq)`. `PleTable` is that call and the
load before it: `LoadWeights`, `LoadFails` and `LoadMore` are the patched `load_weights`
with `_setup_table` and `_find_shards`; `Gather` is `_gather` with both its paths, and
`RunTask` and `Collect` are the pool. A task reads all its positions from the shard it was
made for, as the closure `run` of `_gather` does. `PleStaging` is what surrounds the call:
`Lookup` (`forward_impl`), `ReadIds` (the synchronous `.to("cpu")`), `Stage` and
`NoPinned` (`_pinned_buf` and the write), the two copies, `Expand`, and `Execute`, the
device, which takes one operation out of the stream at any later time.

Data: the content of a row is its id; `Junk` is memory nobody has written, or a row cut
from a shard of another width. Shard files are given by their rows, dtype and whether
their width is `head_dim`; one shard more than there should be may lie on disk. Exceptions
are one outcome, `raised`: that a missing shard is a `TypeError` inline and an `IndexError`
in the pool is not told apart. After a task has raised, the others write to an array that
nobody reads. There is one stream. A copy from pageable memory has left it when the call
returns, and the content of a new pinned buffer is `Junk`.

### HybridPrepare

The shell of `CONVERT_CMD` (`Check` to `Touch`, under `set -euo pipefail`), its container
(`LoadShard` to `AssertError`, `main()` of `fp8_convert.py`), and the files of `$DST`:
`dst` says of each entry whether it is still the inode of the source (`"link"`) or a file
of its own, so that a write in place shows up in `src`. `KillShell` leaves the container
running; `ClearDir` removes the directory it has mounted, after which all it does fails.
A file is written in one step: cut short, it is in the way of the count and of a rerun like
one that was never written. With several `Shells` runs overlap on a node; then `cp -al`
may copy below a directory that is there, which changes none of these files.

### HybridServe

An engine over the directory: `Launch` (the check of the marker), `ScanFp8Layers` (which
may raise and is then cached as empty), `ApplyVllmMapper` (renames the names when a model
is loaded with this config, or never: a drafter does so a second time), `GetQuantMethod`
(the dispatch of one module, with the two cached sets). A name is a space and a tail; a
fused module stands for the layers behind it. The steps of `HybridPrepare` go on beneath:
a rerun may start while an engine serves.

### QsaTopk

`Score` fills what a row can see of a buffer from `torch.empty`, the rest is what an earlier
call left there; `Mask` and `ExactTopk` are the patch, `StockTopk` the kernel it stands in
for, `Expand` the kernel that reads `min(visible, block_topk)` entries. `Mode` is the
environment variable.

## 3. Runs

| Run | Bounds | Shows |
|---|---|---|
| `mamba_align` | 2 requests, blocks of 2, 1 draft, 5 tokens | all safety properties, `IInv` and the refinement, with prefix hits across requests, preemption and slots reused; `CopiesAsOrdered` |
| `copy_grid` | 2 rows, 2 states in 2 groups, 2 tiles, blocks of 2, 1 draft, 5 tokens, up to 1 wild id; V1 and V2 | a launch makes exactly the copies asked for, resets exactly the counts it should, and counts every skip |
| `state_memcpy` | words of 2 bytes, 2 lanes, 2 tiles, up to 4 tokens of up to 7 bytes, every alignment | no lane reads what another overwrote, no byte lost, words aligned; `IInv` |
| `fleet_watchdog` | 2 watchdogs, 3 ranks, thresholds 3 and 3, 4 faults; reliable ssh and `docker rm`, honest `/health` | `OneActor`, `GivenUpIsQuiet`, `BoundedRelaunches`, `NoOldRankAtLaunch` |
| `fleet_watchdog_live` | 1 watchdog, 3 ranks, thresholds 2 and 2, 3 faults; ssh and `docker rm` fail, `/health` lies | `ServesOrGivesUp` |
| `fleet_flusher_at_launch`, `fleet_lying_health`, `fleet_unreachable_teardown` | 1 watchdog, 2 ranks | the three findings of section 5 |
| `ple_table` | 5 rows in 2 parts, 1 shard id too many, chunks of 2, up to 3 ids, one id or all inline | accepted tables and both gather paths: exact rows or an exception, never without the scale; every position of the pool's array is a task's to come or right (`PoolExact`) |
| `ple_staging` | 2 layers, 3 rows, up to 2 ids, buffers of 1 to 3 rows | exact answers in order, no write under a copy, refinement, `IInv` |
| `hybrid_serve` | 1 run at a time, 3 shards, 2 of them to convert, 5 layers in 3 modules, 3 faults | marker, source and reruns through any crash; every module read as it is stored |
| `qsa_topk` | 2 rows, k of 2, up to 3 columns, scores 0 and 1 | exact selection, nothing stale |

Why these bounds. Two requests are the fewest that share a column. With blocks of 2
and 1 draft a boundary falls on, before and behind the accepted draft, and 5 tokens
cross two of them; the theorems of section 6 cover every other block size, and with it
the positions a block of 2 cannot tell apart. Two watchdogs are the fewest for a killed
one and its successor; three ranks give a first, a middle and a last one. `MaxFaults` bounds
deaths, kills, wedges, launch failures and what the operator does; four is enough to
fail every relaunch up to the limit and to kill a watchdog in each stage. Small
`FAIL_THRESHOLD`, `MAX_RECOVERIES` and `ReadyChecks` stand for 3, 3 and 120.

A launch needs two rows for an order of slots that differs from that of rows, two states
for a conv and a temporal state with block tables of their own, two tiles for a copy of which
one part is done; the programs of a row do not look at another one's wild id, so one is enough.
5 tokens let a request stand on, before and behind a boundary, and are the fewest after
which the next step moves a state with a bias: one at 3 tokens with an accepted draft, two more
scheduled. Words of 2 bytes stand for 8, 2 lanes for 1024 and 2 tiles for 16: up to 7 bytes have a
head, a tail and more words than a round has lanes, and 4 tokens pass the
barrier of the scalar path twice, or shift by 1, 2 or 3 with an overlap, regions that touch,
and a gap; again the theorems are for all values. Three columns
and k of 2 give a row with fewer, as many and more visible columns than k, two scores ties.

Five rows in two parts give a full and a short shard, and the surplus id an empty and a
missing one; three ids are enough for a repeated id, a run of two chunks and a run in each
shard. Staging needs two layers for a buffer that is used between two lookups of another
one, and buffers that start smaller than a lookup, so that they are replaced; `MinCap`
stands for 4096. The thread waits for the stream in every lookup, which keeps it short
without a bound. Two converted shards give a first and a last one, three faults a
killed shell, a failed container and a lost node in one history; of the three modules one
spans both shards, one has a layer that was skipped for its shape, and one is not
converted.

Deadlock is checked in every run.

## 4. Fairness

`MambaAlign` has no liveness property: the engine drives it, and nothing in the
repository promises that it does. `FleetWatchdog` assumes weak fairness of

- each living shell: `curl` is bounded by `-m`, `sleep` by itself, ssh by `ConnectTimeout` while
  it connects. Neither ssh once it is connected nor `docker inspect` (lines 76, 78) has a timeout:
  that docker answers, and that a connection does not hang, is assumed;
- each running command, under the same assumption;
- `Reach`: an unreachable node comes back some time;
- `Boot`: an engine whose ranks are all there and undisturbed serves some time.

`HybridServe` assumes weak fairness of each shell, which includes that a person runs the
script again, and of each container; none of the engine. Faults are bounded. From it follows
`RerunsPrepare`: whatever was cut short, some rerun ends with the marker.

The other modules state no fairness. A launch and a copy that make no progress are a hang of
the device, of which the repository promises nothing.

`FleetWatchdog` assumes no fairness of `Start` ("Not started automatically") nor of
anything the operator does. Its faults are bounded too, so
`ServesOrGivesUp` says: after the last fault the fleet serves, or the give-up flag or the pause flag stands, or nobody watches.

## 5. Findings

- `src/fleet_watchdog.sh:90`. The command text of `start_flusher` contains
  `./flusher-unconditional.sh` besides the bracketed pattern; the shell that carries
  the text matches its own `pkill -f` and is gone before it starts the flusher. Line
  110: "Memory ritual + unconditional flusher on all nodes, for the whole boot."
  (`FlusherRunsAtLaunch`)
- `src/fleet_watchdog.sh:130`, `:165`. A recovery succeeds on the word of `/health`,
  which the header (lines 18-21) says may be 200 for a hung engine: the count of failed
  recoveries is reset each time and relaunches never end. Lines 38 and 169 promise
  a limit. (`BoundedRelaunches`, which holds when `/health` is honest)
- `src/fleet_watchdog.sh:106`. The outcome of a teardown is not looked at; with a node
  out of reach the others are launched beside its old rank. Line 102: "Tear down
  EVERYTHING first." Nor is a `docker rm -f` looked at that fails on a node that is reached
  (`|| true`). (`NoOldRankAtLaunch`, which holds when ssh and `docker rm -f` work)

Known limits, met while modelling. The repository promises nothing else for the first three;
the fourth is a matter of what a comment calls a number. No run of the project is about them:

- `src/src/vllm_ple_mmap.py:328`. `shard_cols` keeps the width of the shard seen last, and
  the check of line 517 looks at that one only. With `MixedWidths = TRUE` in
  `MCPleTable.cfg` TLC finds a table of different widths served (`ServedShardsFit`).
- `src/scripts/prepare-hybrid.sh:42`. There is no lock, and the marker is touched by path: a
  run that is finishing marks the directory another run is removing. With
  `Shells = {s1, s2}` in `MCHybridServe.cfg` TLC finds `PreparedIsComplete` violated.
- `src/src/patch_qsa_exact_topk.py:54`. `topk(sorted=False)` promises no order, and the
  expansion reads only the first `visible` entries. The patch is right because the radix
  selection of torch gathers what lies above the k-th score before what ties with it, which
  `TopK` models as an assumption on external code; `TopKAnyOrder` is all the interface says and
  breaks `SelectionExact`.
- `src/src/mamba_utils_guarded.py:345` and `:760` call `guard_hits` a number of copies skipped,
  the warning at `:1169` one of block ids. It counts programs, up to one per tile for each skipped
  copy, so these three lines say more than the number does; `SkipsCounted` states what it
  does say.

## 6. Proofs

For every value of the constants that satisfies the named assumptions
(`BlockAssumption`, `BoundAssumption`, `FleetAssumption`, `TableAssumption`,
`StagingAssumption`, `MemcpyAssumption`, `GridAssumption`, `PrepareAssumption`,
`ServeAssumption`, `TopkAssumption`), every safety invariant, every action property and both
refinements that a run checks are theorems:

- `InvariantHolds`, `TypeCorrect`, `ForwardReadsExact`, `PublishedColumnsExact`,
  `ReachedColumnsStay`, `RefinesRecurrentState`, `CopiesOrdered` (`MambaAlignProof`);
- `Invariance`, `TypeTheorem`, `LaunchTheorem`, `CountsTheorem`, `SkipsTheorem`
  (`CopyGridProof`);
- `Invariance`, `SourcesIntactTheorem`, `MovedTheorem`, `AlignedTheorem`
  (`StateMemcpyProof`);
- `ActorInvHolds`, `FleetTypes`, `OneActorHolds`, `GivenUpIsQuietHolds`; `NoOldRankHolds` for
  a network that works (`~ SshCanFail`) and a `docker rm -f` that removes (`~ RemoveCanFail`);
  `BoundedRelaunchesHolds` for these and a `/health` that is honest (`~ HealthCanLie`)
  (`FleetWatchdogProof`);
- `TypeTheorem`, `PoolTheorem`, `RaisesTheorem`, `ScaleTheorem`; `ServedTheorem` for shards of
  one width (`~ MixedWidths`: without it the statement is false, see the first known limit
  above) (`PleTableProof`);
- `StagingInvariant`, `StagingTypes`, `AnswersExact`, `CopiesUndisturbed`,
  `RefinesRowLookup` (`PleStagingProof`);
- with one run at a time (`OneShell`): `ServeInvariant`, `ServeTypesTheorem`,
  `PreparedCompleteTheorem`, `SourceUntouchedTheorem`, `PreparedStaysTheorem`,
  `ServedAsStoredTheorem` (`HybridServeProof`);
- `Invariance`, `SelectionTheorem`, `StaleTheorem` (`QsaTopkProof`).

The assumptions that are more than types: drafts are shorter than a block
(`BlockAssumption`, `GridAssumption`; the same in both modules), the rows, states and
tiles of a launch are finitely many and row, state and tile 0 are among them.

`ForwardReadsExactState` is not inductive: it looks at two phases only. `IInv` says
where the state is at every point of a step. `LiveStateExact`: the running column (or
the seed column before there is one), read with the bias of the accepted count,
yields the state after the counted tokens. `BatchShape` and `PromptOnBoundary` say what
a scheduled request may look like, so that the column computations of preprocess and
kernel agree; `StepData` that the kernel reads this step's counts; `FreshHasNoEntry` that
a stale running column cannot survive for a request that starts anew;
`SpeculativeWindow` and `ReachedExact` carry the accepted states from the forward to the
copy and from the copy to the prefix cache. The proof has one lemma per action and one
step per conjunct; arithmetic about blocks (`Cdiv`, division of boundaries) is in
lemmas of its own.

`ReachedColumnsStay` needs little of it: what is copied or computed in a step goes to the
running column or to a boundary the step has just reached, and `LaterColumn` says that both lie
behind every boundary that was passed before.

`RefinesRecurrentState` rests on one equation, `StateIsTokens`: under `IInv`, and since a
request without blocks counts no tokens (`NothingWithoutBlocks`), the state the refinement
mapping finds through column and bias is the number of tokens the request counts. The forward
is then an advance, delivery a checkpoint, admission a start, preemption and the end of a
request a drop, and every copy a stutter.

`CopiesOrdered` adds `StandsAsLeft` to `IInv`: column, count and bias of a waiting request are
what some step of `CopyOrders` leaves. A request with a cached prefix stands where the chunk that
computes the prefix at once would have left it (`OnBoundaryStands`); the postprocess leaves one
where its own step ends (`StepOrdered`), and nothing else moves it.

`IInv` of `StateMemcpy`: what a lane has stored has arrived and what it has loaded is
right (`StoredExact`), a cell no lane has stored is as it was (`RestOriginal`), and with the
barrier no lane is a round ahead of one that has not loaded (`InStep`). That a left shift
needs no barrier otherwise is the arithmetic of the proof: of tokens and rows, the lane that
overwrites a source is the lane that read it, earlier in its own loop; on the scalar path a
source that is written over at all lies in both regions, and then `is_left_overlap` is true.

`ActorInv` adds to `OneActor` and `GivenUpIsQuiet` that a command belongs to a stage of
`recover` or to a shell killed in one (`BusyInStage`): a shell outside the stages has
no child, so giving up, which happens outside them, leaves nothing behind. `TypeInv`
adds the bounds of the counters (`CountersBelow`); `CleanInv` that no old container is left
behind the loop of a teardown, but for one whose removal is on its way, and none at all from
the ritual to the last launch; `RelaunchInv` that relaunches exceed `failed_recoveries`
by the recovery under way at most, and are 0 while the engine serves.

The invariant of `HybridServe` follows the files of `$DST` through the script and the
converter: `Place` says what the directory holds at each statement of the script, `Converting`
how far the converter is, `Container` that an orphaned one works in a directory without
marker, `Disk` that a marked directory is complete. An engine serves marked directories only,
so a scan finds the converted layers or, when it failed, nothing, and both caches hold
one of the two (`ServeInv`).

`IInv` of `PleStaging` says why one buffer per layer is enough: from the wait for the ids
to the copy the stream is empty (`QuietWhileStaging`), an expansion in it is directly
preceded by its copy, whose source still holds its rows, or its rows are on the device
already (`ExpansionsFed`), and between the two the rows are on their way
(`RowsOnTheirWay`). `CopiesUndisturbed` is the action property that follows: a buffer is
written only where the stream is empty.

For `RefinesRowLookup` the invariant is joined by `OneExpansion`: the stream never holds the
expansions of two lookups, because the second waits for the stream before it issues its
own. So the lookups without an answer are the one in the stream and the one in the thread, in
this order, and the device's next expansion is the reply to the older one.

`IInv` of `CopyGrid` says what the memory is while the programs of a launch are half done:
`MemNow` that a part of a block is as it was until the one program that writes it has run,
and then what that program brought from a part that no other one writes. That the parts are
disjoint needs that a row asks for one copy at most (`AskedFacts`: `NumSpec < BlockSize`, so
the accepted tokens cross one boundary at most, which `BoundaryFacts` shows) and that the source of a
copy belongs to the same row, state and tile. `OrdersOK` ties what the kernels work out from counts
and columns to what the step asks for, in both runners; it holds through the launch because
the count the kernels read is not the one they write. `HitsNow` counts the programs that
have skipped; `SkipsTheorem` compares them with the skipped copies by two injections.

`PleTableProof` needs two inductions, which the prover has no rule for; `LeastNumber` and
`GreatestNumber` (a non-empty bounded set of numbers has an end) come from the well-founded
order of the library, and each induction is done by its least counterexample. From them:
the start of the run a position lies in, the end of a run, the chunk of a position
(`TasksCover`), and the last shard that is there (`ReadsExact`). `TableExact` says what was
accepted: each shard has exactly the rows it should, so that an id is readable if and only if
it is a row of the vocabulary whose shard is there. The rest of `IInv` is `PoolExact`, and
what `Collect` and `GatherInline` return follows from it.

`IInv` of `QsaTopk` says of the selection of a row that it is one of those the kernel can
make of the masked buffer. `SelectionTheorem` then is about counting: a top-k of a
row with fewer visible columns than k must contain them all, before anything masked.

Model-checked only: `ServesOrGivesUp` and `RerunsPrepare`. Liveness under fairness, and with it
`ENABLED`, is beyond the prover.

## 7. Not modelled

- Part 1: the periodic report of the guard counter (it only logs); the collection of the
  scalar copies, sizes and addresses of the tensors, which are set up once; all-mode,
  which records a column for kernels that are not in the repository.
- Part 2: header parsing, decoding of the scale, prewarm, statistics, registration of the op.
- Parts 4 and 5: the loop of the flusher and the command line of the launcher; their
  effect on a node is in `FleetWatchdog` and `HybridServe`.
- Part 6: the other scripts are checks and copies without a state of their own; the comparison
  of the nodes at the end of prepare-hybrid prints and decides nothing.
- Part 7: the quantization (an error that is small enough or not), the registration of
  the patches on the config class, a launch with HYBRID=0, where the shim does nothing.
- Parts 9 and 10: text substitution at build time, and clients that send requests one after the
  other and print. Neither keeps a state worth a model.

## 8. What is left

All-mode would be a module beside `MambaAlign`. A theorem that a program of `CopyGrid` is a run
of `StateMemcpy` would turn the rest of the composition argued in section 2 into a proof. A lock
in prepare-hybrid and a width per shard would turn the two limits of section 5 into theorems
without their assumptions.
