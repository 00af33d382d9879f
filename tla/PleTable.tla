------------------------------ MODULE PleTable ------------------------------
(***************************************************************************)
(* vllm_ple_mmap.py: which shard files are accepted as the n-gram table    *)
(* when the weights are loaded, and how rows are gathered from it, inline  *)
(* for a few ids and by a pool of threads for many.                        *)
(*                                                                         *)
(* A row's content is its global row id; Junk is memory nobody has         *)
(* written, or a row read from a shard of another width.                   *)
(***************************************************************************)
EXTENDS Integers, Sequences, FiniteSets

CONSTANTS
  Vocab,         \* org_vocab_size, rows of the whole table
  Parts,         \* split_ngram_parts
  Chunk,         \* VLLM_PLE_MMAP_CHUNK, rows per gather task
  FastRows,      \* values of VLLM_PLE_MMAP_FAST_ROWS
  MaxIds,        \* bound on the ids of one gather
  MixedWidths    \* TRUE: shard files of different widths may lie on disk

ASSUME TableAssumption ==
  /\ Vocab \in Nat \ {0}
  /\ Parts \in Nat \ {0}
  /\ Chunk \in Nat \ {0}
  /\ FastRows \subseteq Nat /\ FastRows # {}
  /\ MaxIds \in Nat
  /\ MixedWidths \in BOOLEAN

VARIABLES
  state,      \* "fresh": no weights yet; "failed": the load raised
  mm,         \* MmapPleTable.mm, the shards that are there
  dtype,      \* of the shards
  scale,      \* the layer has _offload_weight_scale
  fast_rows,
  pc,         \* of the gather: "idle", "pool", "returned" or "raised"
  ids,        \* asked for
  uniq,       \* np.unique(ids): sorted, without repetitions
  out,        \* the array the threads write to
  tasks,      \* not run yet
  broken,     \* a task raised
  result      \* what gather returned

tableVars  == <<state, mm, dtype, scale, fast_rows>>
gatherVars == <<pc, ids, uniq, out, tasks, broken, result>>
vars == <<tableVars, gatherVars>>

Junk == -9

shard_size == (Vocab + Parts - 1) \div Parts
ShardIds   == 0 .. Parts                   \* one more than there should be
Ids        == -1 .. shard_size * (Parts + 1)
Rows       == Ids \cup {Junk}
Dtypes     == {"fp8", "bf16", "unsupported"}
Files      == [rows : 0 .. shard_size, dtype : Dtypes, fits : BOOLEAN]

UpTo(S) == UNION {[1 .. n -> S] : n \in 0 .. MaxIds}
Task    == [si : ShardIds, a : 1 .. MaxIds, b : 1 .. MaxIds]

TypeOK ==
  /\ state \in {"fresh", "serving", "failed"}
  /\ \E S \in SUBSET ShardIds : mm \in [S -> [rows : 0 .. shard_size, fits : BOOLEAN]]
  /\ dtype \in Dtypes
  /\ scale \in BOOLEAN
  /\ fast_rows \in FastRows
  /\ pc \in {"idle", "pool", "returned", "raised"}
  /\ ids \in UpTo(Ids)
  /\ uniq \in UpTo(Ids)
  /\ out \in UpTo(Rows)
  /\ tasks \subseteq Task
  /\ broken \in BOOLEAN
  /\ result \in UpTo(Rows)

NoGather ==
  /\ pc = "idle"
  /\ ids = <<>> /\ uniq = <<>> /\ out = <<>> /\ result = <<>>
  /\ tasks = {}
  /\ broken = FALSE

Init ==
  /\ state = "fresh"
  /\ mm = <<>>
  /\ dtype = "bf16"
  /\ scale = FALSE
  /\ fast_rows \in FastRows
  /\ NoGather

-----------------------------------------------------------------------------
(* load_weights and _setup_table.                                          *)

Smaller(a, b)  == IF a < b THEN a ELSE b
Expected(idx)  == LET left == Smaller(shard_size, Vocab - idx * shard_size)
                  IN  IF left < 0 THEN 0 ELSE left

(* Mutant: the scale in the file is looked for and not read. *)
ScaleNotRead(d, has, onDisk) == has

(* The scale a table of this dtype ends up with; FP8 cannot do without. *)
ScaleFor(d, has, onDisk) == has \/ (d = "fp8" /\ onDisk)
NeedsScale(d)            == d = "fp8"

(* What the checks of _find_shards and _setup_table let pass.  The width    *)
(* they compare with head_dim is that of the shard seen last.               *)
Accepts(found, last, has, onDisk) ==
  /\ DOMAIN found # {}
  /\ \A i, j \in DOMAIN found : found[i].dtype = found[j].dtype
  /\ found[last].fits
  /\ found[last].dtype # "unsupported"
  /\ NeedsScale(found[last].dtype) => has \/ onDisk
  /\ \A i \in DOMAIN found : found[i].rows = Expected(i)

(* Shard files of one checkpoint.  The check of the rows does not depend on *)
(* what else is there: one file with wrong rows stands for many.            *)
OnDisk ==
  UNION {{f \in [S -> Files] :
            /\ Cardinality({i \in S : f[i].rows # Expected(i)}) <= 1
            /\ MixedWidths \/ \A i, j \in S : f[i].fits = f[j].fits}
         : S \in SUBSET ShardIds}

(* load_weights; the names of a call contain the scale or not.  A failed    *)
(* check raises out of the load.                                            *)
LoadFails(found, hasScale, onDisk) ==
  /\ state = "fresh"
  /\ \/ DOMAIN found = {}
     \/ \E last \in DOMAIN found :
          ~ Accepts(found, last, scale \/ hasScale, onDisk)
  /\ state' = "failed"
  /\ scale' = (scale \/ hasScale)
  /\ UNCHANGED <<mm, dtype, fast_rows, gatherVars>>

LoadWeights(found, hasScale, onDisk) ==
  /\ state = "fresh"
  /\ \E last \in DOMAIN found :
       /\ Accepts(found, last, scale \/ hasScale, onDisk)
       /\ dtype' = found[last].dtype
       /\ scale' = ScaleFor(found[last].dtype, scale \/ hasScale, onDisk)
  /\ state' = "serving"
  /\ mm' = [i \in DOMAIN found |->
              [rows |-> found[i].rows, fits |-> found[i].fits]]
  /\ UNCHANGED <<fast_rows, gatherVars>>

(* Another call for further names of the same layer finds the table set up. *)
LoadMore(hasScale) ==
  /\ state = "serving"
  /\ pc = "idle"
  /\ scale' = (scale \/ hasScale)
  /\ UNCHANGED <<state, mm, dtype, fast_rows, gatherVars>>

(* A rank whose load raised is started anew (external). *)
Restart ==
  /\ state = "failed"
  /\ state' = "fresh"
  /\ scale' = FALSE
  /\ UNCHANGED <<mm, dtype, fast_rows, gatherVars>>

-----------------------------------------------------------------------------
(* gather *)

ShardOf(id) == id \div shard_size
LocalOf(id) == id - ShardOf(id) * shard_size

(* len(self.mm): the shards up to the last one that is there. *)
Slots == 1 + CHOOSE m \in DOMAIN mm : \A i \in DOMAIN mm : i <= m

(* mm[si][local]: None cannot be indexed, and an index past the rows of the *)
(* shard raises.                                                            *)
Reads(si, id) == si \in DOMAIN mm /\ LocalOf(id) < mm[si].rows
CanRead(id)   == Reads(ShardOf(id), id)

(* Mutant: an id is too large when there are not as many rows. *)
TooLargeByRows(id) == id >= Cardinality({i \in Ids : i >= 0 /\ CanRead(i)})
TooLarge(id)       == id >= shard_size * Slots

InRange(asked) ==
  \A i \in DOMAIN asked : asked[i] >= 0 /\ ~ TooLarge(asked[i])

RowFrom(si, id) == IF mm[si].fits THEN si * shard_size + LocalOf(id) ELSE Junk
RowAt(id)       == RowFrom(ShardOf(id), id)

Answer(rows) == pc' = "returned" /\ result' = rows
Refuse       == pc' = "raised" /\ result' = <<>>

(* At most fast_rows ids: no pool, no deduplication. *)
GatherInline(asked) ==
  /\ asked # <<>> => Len(asked) <= fast_rows
  /\ ids' = asked
  /\ IF InRange(asked) /\ \A i \in DOMAIN asked : CanRead(asked[i])
     THEN Answer([i \in DOMAIN asked |-> RowAt(asked[i])])
     ELSE Refuse
  /\ UNCHANGED <<tableVars, uniq, out, tasks, broken>>

IsUnique(u, asked) ==
  /\ {u[i] : i \in DOMAIN u} = {asked[i] : i \in DOMAIN asked}
  /\ \A i, j \in DOMAIN u : i < j => u[i] < u[j]

(* Mutant: the ids are not cut where the shard changes. *)
StartsUncut(u) == {p \in DOMAIN u : p = 1}
(* Where a run of ids of one shard starts and ends in u. *)
Starts(u) ==
  {p \in DOMAIN u : p = 1 \/ ShardOf(u[p]) # ShardOf(u[p - 1])}

(* Mutant: the end of a run, off by one. *)
EndOfShort(u, s) ==
  IF \E t \in Starts(u) : t > s
  THEN (CHOOSE t \in Starts(u) : t > s /\ \A v \in Starts(u) : v > s => t <= v) - 1
  ELSE Smaller(s, Len(u))

EndOf(u, s) ==
  IF \E t \in Starts(u) : t > s
  THEN (CHOOSE t \in Starts(u) : t > s /\ \A v \in Starts(u) : v > s => t <= v) - 1
  ELSE Len(u)

(* Mutant: the last task of a run is not cut at its end. *)
TasksOfUncut(u) ==
  UNION {{[si |-> ShardOf(u[s]), a |-> s + k * Chunk, b |-> s + (k + 1) * Chunk - 1]
          : k \in {n \in 0 .. Len(u) : s + n * Chunk <= EndOf(u, s)}}
         : s \in Starts(u)}

(* A task copies positions a to b, all of shard si, at most Chunk of them. *)
TasksOf(u) ==
  UNION {{[si |-> ShardOf(u[s]), a |-> s + k * Chunk,
           b |-> Smaller(s + (k + 1) * Chunk - 1, EndOf(u, s))]
          : k \in {n \in 0 .. Len(u) : s + n * Chunk <= EndOf(u, s)}}
         : s \in Starts(u)}

GatherPooled(asked, u) ==
  /\ Len(asked) > fast_rows
  /\ IsUnique(u, asked)
  /\ ids' = asked
  /\ uniq' = u
  /\ IF InRange(u)
     THEN /\ pc' = "pool"
          /\ out' = [i \in DOMAIN u |-> Junk]
          /\ tasks' = TasksOf(u)
          /\ result' = <<>>
     ELSE /\ Refuse
          /\ UNCHANGED <<out, tasks>>
  /\ broken' = FALSE
  /\ UNCHANGED tableVars

Gather ==
  /\ state = "serving"
  /\ pc = "idle"
  /\ \E asked \in UpTo(Ids) :
       \/ GatherInline(asked)
       \/ \E u \in UpTo({asked[i] : i \in DOMAIN asked}) : GatherPooled(asked, u)

(* Tasks run in threads, in any order.  A task reads all its positions from *)
(* the shard it was made for.                                              *)
RunTask(t) ==
  /\ pc = "pool"
  /\ t \in tasks
  /\ tasks' = tasks \ {t}
  /\ IF \A p \in t.a .. t.b : Reads(t.si, uniq[p])
     THEN /\ out' = [p \in DOMAIN out |->
                       IF p \in t.a .. t.b THEN RowFrom(t.si, uniq[p]) ELSE out[p]]
          /\ UNCHANGED broken
     ELSE /\ broken' = TRUE
          /\ UNCHANGED out
  /\ UNCHANGED <<tableVars, pc, ids, uniq, result>>

Expanded ==
  [i \in DOMAIN ids |-> out[CHOOSE p \in DOMAIN uniq : uniq[p] = ids[i]]]

(* The results of pool.map are consumed: the first exception is raised, and *)
(* tasks still in the pool then write to an array nobody reads.             *)
Collect ==
  /\ pc = "pool"
  /\ \/ broken /\ Refuse
     \/ ~ broken /\ tasks = {} /\ Answer(Expanded)
  /\ tasks' = {}
  /\ UNCHANGED <<tableVars, ids, uniq, out, broken>>

(* The caller has its rows or its exception. *)
Done ==
  /\ pc \in {"returned", "raised"}
  /\ pc' = "idle"
  /\ ids' = <<>> /\ uniq' = <<>> /\ out' = <<>> /\ result' = <<>>
  /\ tasks' = {}
  /\ broken' = FALSE
  /\ UNCHANGED tableVars

Next ==
  \/ /\ state = "fresh"
     /\ \E found \in OnDisk, hasScale \in BOOLEAN, onDisk \in BOOLEAN :
          \/ LoadFails(found, hasScale, onDisk)
          \/ LoadWeights(found, hasScale, onDisk)
  \/ \E hasScale \in BOOLEAN : LoadMore(hasScale)
  \/ Restart
  \/ Gather
  \/ \E t \in tasks : RunTask(t)
  \/ Collect
  \/ Done

Spec == Init /\ [][Next]_vars

-----------------------------------------------------------------------------
(* What gather returns are the rows asked for, in the order asked for, and  *)
(* every one of them is a row of the table: repeated ids, chunked runs and  *)
(* threads change nothing, and a missing or short shard never shows up as   *)
(* unwritten memory ("out-of-range must raise, not corrupt").               *)
ServedRowsExact ==
  pc = "returned" =>
    /\ Len(result) = Len(ids)
    /\ \A i \in DOMAIN ids : ids[i] \in 0 .. Vocab - 1 /\ result[i] = ids[i]

(* A gather raises only for an id whose shard is missing or that no shard   *)
(* of the table has; both paths agree on which ids these are.               *)
RaisesOnlyForMissing ==
  pc = "raised" =>
    \E i \in DOMAIN ids :
      \/ ids[i] \notin 0 .. Vocab - 1
      \/ ShardOf(ids[i]) \notin DOMAIN mm

(* FP8 rows are never served without the scale that dequantizes them,       *)
(* whether the scale came with the weights, before or after the shards, or  *)
(* was read from the file.                                                  *)
Fp8HasScale == state = "serving" /\ dtype = "fp8" => scale

(* "shard width {cols} != head_dim": a table whose rows have another width  *)
(* is not served.                                                           *)
ServedShardsFit == state = "serving" => \A i \in DOMAIN mm : mm[i].fits

(* While the pool works, in whatever order its threads run: each position   *)
(* either belongs to a task still to come or holds the row asked for there, *)
(* unless a task has raised, and then an id is one that cannot be read.     *)
PoolExact ==
  pc = "pool" =>
    /\ IsUnique(uniq, ids)
    /\ InRange(uniq)
    /\ tasks \subseteq TasksOf(uniq)
    /\ DOMAIN out = DOMAIN uniq
    /\ \A p \in DOMAIN uniq :
         \/ \E t \in tasks : p \in t.a .. t.b
         \/ broken
         \/ CanRead(uniq[p]) /\ out[p] = RowAt(uniq[p])
    /\ broken => \E p \in DOMAIN uniq : ~ CanRead(uniq[p])
=============================================================================
