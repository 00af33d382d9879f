----------------------------- MODULE PleStaging -----------------------------
(***************************************************************************)
(* _MmapNgramEmbedding.forward of vllm_ple_mmap.py: the rows of a lookup   *)
(* go through one pinned buffer per layer that every call reuses, and from *)
(* there to the device by a copy nobody waits for.                         *)
(*                                                                         *)
(* Two actors: the thread that runs the model's forward, and the CUDA      *)
(* stream that executes, in order and some time later, what the thread has *)
(* put into it.  A row's content is its id.  A layer without a table       *)
(* answers zeros and touches none of this.                                 *)
(***************************************************************************)
EXTENDS Integers, Sequences, FiniteSets

CONSTANTS
  Layers,     \* layers with a PLE table
  RowIds,     \* rows of the table
  MaxIds,     \* bound on the ids of one lookup
  MinCap      \* least number of rows of a pinned buffer (4096)

ASSUME StagingAssumption ==
  /\ RowIds \subseteq Nat
  /\ MaxIds \in Nat
  /\ MinCap \in Nat

VARIABLES
  pc,        \* where the thread is in forward
  layer,     \* the layer of the current call
  ids,       \* its ids, on the device until they are read
  uniq,      \* its ids without repetitions, and so its rows, on the host
  pinned,    \* of each layer: content of the pinned buffer; <<>>: None
  stream,    \* operations the device has not executed
  dev,       \* device tensor of the rows of the latest copy
  answer     \* the latest lookup the device has answered

vars == <<pc, layer, ids, uniq, pinned, stream, dev, answer>>

Junk == -1

UpTo(n, S) == UNION {[1 .. k -> S] : k \in 0 .. n}
Requests   == UpTo(MaxIds, RowIds)

Kernel == [op |-> "kernel"]
Copies(l, n) == [op |-> "h2d", layer |-> l, n |-> n]
Expands(a, v) == [op |-> "index", ids |-> a, inv |-> v]

Bigger(a, b) == IF a > b THEN a ELSE b
MaxCap       == Bigger(MaxIds + MaxIds \div 2, MinCap)

Ops == {Kernel}
       \cup [op : {"h2d"}, layer : Layers, n : 0 .. MaxIds]
       \cup [op : {"index"}, ids : Requests, inv : UpTo(MaxIds, 1 .. MaxIds)]

TypeOK ==
  /\ pc \in {"idle", "sync", "stage", "pageable", "copy", "expand"}
  /\ layer \in Layers
  /\ ids \in Requests
  /\ uniq \in Requests
  /\ pinned \in [Layers -> UpTo(MaxCap, RowIds \cup {Junk})]
  /\ stream \in Seq(Ops)
  /\ dev \in UpTo(MaxIds, RowIds \cup {Junk})
  /\ answer \in [ids : Requests, rows : UpTo(MaxIds, RowIds \cup {Junk})]

Init ==
  /\ pc = "idle"
  /\ layer \in Layers
  /\ ids = <<>>
  /\ uniq = <<>>
  /\ pinned = [l \in Layers |-> <<>>]
  /\ stream = <<>>
  /\ dev = <<>>
  /\ answer = [ids |-> <<>>, rows |-> <<>>]

-----------------------------------------------------------------------------
(* forward_impl: the lookup is called when the kernels that compute its ids *)
(* are in the stream.                                                       *)
Lookup(l, a) ==
  /\ pc = "idle"
  /\ pc' = "sync"
  /\ layer' = l
  /\ ids' = a
  /\ stream' = Append(stream, Kernel)
  /\ UNCHANGED <<uniq, pinned, dev, answer>>

(* np.unique: sorted, without repetitions. *)
IsUnique(u, a) ==
  /\ {u[i] : i \in DOMAIN u} = {a[i] : i \in DOMAIN a}
  /\ \A i, j \in DOMAIN u : i < j => u[i] < u[j]

(* Mutant: the ids are read without waiting for the device. *)
IdsAnyTime == TRUE

(* .to("cpu", non_blocking=False) returns when the stream has run dry. *)
IdsOnHost == stream = <<>>

(* The ids are read and their rows gathered (PleTable). *)
ReadIds ==
  /\ pc = "sync"
  /\ IdsOnHost
  /\ \E u \in UpTo(Len(ids), {ids[i] : i \in DOMAIN ids}) :
       IsUnique(u, ids) /\ uniq' = u
  /\ pc' = "stage"
  /\ UNCHANGED <<layer, ids, pinned, stream, dev, answer>>

Fits == pinned[layer] # <<>> /\ Len(pinned[layer]) >= Len(uniq)
Grown == Bigger(Len(uniq) + Len(uniq) \div 2, MinCap)

(* _pinned_buf, and the rows written to the front of the buffer it returns; *)
(* what an earlier call left behind them stays.                             *)
Stage ==
  /\ pc = "stage"
  /\ \E cap \in IF Fits THEN {Len(pinned[layer])} ELSE {Grown} :
       pinned' = [pinned EXCEPT ![layer] =
                    [i \in 1 .. cap |-> IF i <= Len(uniq) THEN uniq[i]
                                        ELSE IF Fits THEN pinned[layer][i]
                                        ELSE Junk]]
  /\ pc' = "copy"
  /\ UNCHANGED <<layer, ids, uniq, stream, dev, answer>>

(* Pinning failed: there is no buffer, until the next call tries again. *)
NoPinned ==
  /\ pc = "stage"
  /\ ~ Fits
  /\ pinned' = [pinned EXCEPT ![layer] = <<>>]
  /\ pc' = "pageable"
  /\ UNCHANGED <<layer, ids, uniq, stream, dev, answer>>

(* The copy of a pageable array is over when the call returns. *)
CopyPageable ==
  /\ pc = "pageable"
  /\ stream = <<>>
  /\ dev' = uniq
  /\ pc' = "expand"
  /\ UNCHANGED <<layer, ids, uniq, pinned, stream, answer>>

(* Mutant: the whole buffer is copied. *)
CopiedAll == Len(pinned[layer])
Copied    == Len(uniq)

CopyPinned ==
  /\ pc = "copy"
  /\ stream' = Append(stream, Copies(layer, Copied))
  /\ pc' = "expand"
  /\ UNCHANGED <<layer, ids, uniq, pinned, dev, answer>>

(* Mutant: as if there were no repetitions. *)
InverseOfDistinct(u, a) ==
  [i \in DOMAIN a |-> IF i > Len(u) THEN Len(u) ELSE i]

Inverse(u, a) == [i \in DOMAIN a |-> CHOOSE p \in DOMAIN u : u[p] = a[i]]

(* The inverse is pageable: its copy has left the host array when the call  *)
(* returns.  The lookup returns tensors that the device still has to fill.  *)
Expand ==
  /\ pc = "expand"
  /\ stream' = Append(stream, Expands(ids, Inverse(uniq, ids)))
  /\ pc' = "idle"
  /\ UNCHANGED <<layer, ids, uniq, pinned, dev, answer>>

-----------------------------------------------------------------------------
(* What lies beyond the end is not ours. *)
Row(buf, i) == IF i \in DOMAIN buf THEN buf[i] ELSE Junk

(* The device executes the next operation of the stream (external). *)
Execute ==
  /\ stream # <<>>
  /\ stream' = Tail(stream)
  /\ LET o == Head(stream)
     IN  \/ o.op = "kernel" /\ UNCHANGED <<dev, answer>>
         \/ /\ o.op = "h2d"
            /\ dev' = [i \in 1 .. o.n |-> Row(pinned[o.layer], i)]
            /\ UNCHANGED answer
         \/ /\ o.op = "index"
            /\ answer' = [ids |-> o.ids,
                          rows |-> [i \in DOMAIN o.ids |-> Row(dev, o.inv[i])]]
            /\ UNCHANGED dev
  /\ UNCHANGED <<pc, layer, ids, uniq, pinned>>

Forward ==
  \/ \E l \in Layers, a \in Requests : Lookup(l, a)
  \/ ReadIds \/ Stage \/ NoPinned \/ CopyPageable \/ CopyPinned \/ Expand

Next == Forward \/ Execute

Spec == Init /\ [][Next]_vars

-----------------------------------------------------------------------------
(* The rows a lookup leaves on the device are those of its own ids, however *)
(* late the device gets to the copy and however often the buffer was used   *)
(* or replaced (_MmapNgramEmbedding.forward).                               *)
AnswerExact == answer.rows = answer.ids

(* No buffer is written or replaced while a copy from it is in the stream.  *)
NoWriteUnderCopy ==
  [][\A l \in Layers :
       pinned'[l] # pinned[l] =>
         \A j \in DOMAIN stream : stream[j].op = "h2d" => stream[j].layer # l]_vars

(* Lookups whose answer is still to come: the one whose expansion is in the *)
(* stream, if there is one (the thread has waited for any earlier one), and *)
(* the one that is under way.                                               *)
Expansions == {j \in DOMAIN stream : stream[j].op = "index"}
Asked ==
  LET queued == IF Expansions = {} THEN <<>>
                ELSE <<stream[CHOOSE j \in Expansions : TRUE].ids>>
  IN  IF pc = "idle" THEN queued ELSE Append(queued, ids)

Rows == INSTANCE RowLookup WITH asked <- Asked

(* Buffer, stream and expansion implement a lookup that is answered once    *)
(* and in order.                                                            *)
ImplementsRowLookup == Rows!Spec

-----------------------------------------------------------------------------
(* The inductive invariant behind AnswerExact. *)

(* In the source of an expansion the rows are where its inverse points. *)
Yields(src, o) ==
  \A i \in DOMAIN o.ids : o.inv[i] \in DOMAIN src /\ src[o.inv[i]] = o.ids[i]

(* An expansion is preceded by its copy, or its rows are on the device. *)
ExpansionsFed ==
  \A j \in DOMAIN stream :
    stream[j].op = "index" =>
      IF j = 1 THEN Yields(dev, stream[j])
      ELSE LET c == stream[j - 1]
           IN  /\ c.op = "h2d"
               /\ c.n <= Len(pinned[c.layer])
               /\ Yields([i \in 1 .. c.n |-> pinned[c.layer][i]], stream[j])

(* Between reading the ids and the copy, the stream is empty. *)
QuietWhileStaging ==
  pc \in {"stage", "pageable", "copy"} => stream = <<>>

Staged ==
  /\ Len(uniq) <= Len(pinned[layer])
  /\ \A i \in DOMAIN uniq : pinned[layer][i] = uniq[i]

RowsOnTheirWay ==
  /\ pc \in {"stage", "pageable", "copy", "expand"} => IsUnique(uniq, ids)
  /\ pc = "copy" => Staged
  /\ pc = "expand" =>
       \/ stream = <<>> /\ dev = uniq
       \/ stream = <<Copies(layer, Len(uniq))>> /\ Staged

IInv ==
  /\ TypeOK
  /\ ExpansionsFed
  /\ QuietWhileStaging
  /\ RowsOnTheirWay
  /\ AnswerExact
=============================================================================
