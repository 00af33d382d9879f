-------------------------- MODULE PleStagingProof --------------------------
(***************************************************************************)
(* Proofs about PleStaging for any layers, rows, length of a lookup and    *)
(* capacity of the pinned buffers, however far the device lags behind.     *)
(***************************************************************************)
EXTENDS PleStaging, TLAPS

(* Bounded sequences, as the functions they are. *)
LEMMA UpToIsSeq ==
  ASSUME NEW n \in Nat, NEW S, NEW s \in UpTo(n, S)
  PROVE  s \in Seq(S) /\ Len(s) \in 0 .. n /\ s \in [1 .. Len(s) -> S]
<1>1. PICK k \in 0 .. n : s \in [1 .. k -> S]
  BY DEF UpTo
<1>2. QED BY <1>1

LEMMA FunctionIsUpTo ==
  ASSUME NEW n \in Nat, NEW S, NEW k \in 0 .. n, NEW s \in [1 .. k -> S]
  PROVE  s \in UpTo(n, S)
BY DEF UpTo

LEMMA EmptyIsUpTo ==
  ASSUME NEW n \in Nat, NEW S
  PROVE  <<>> \in UpTo(n, S)
<1>1. 0 \in 0 .. n /\ <<>> \in [1 .. 0 -> S]
  OBVIOUS
<1>2. QED BY <1>1, FunctionIsUpTo

(* What is in the stream after an operation was put into it. *)
LEMMA StreamAppended ==
  ASSUME stream \in Seq(Ops), NEW o \in Ops, stream' = Append(stream, o)
  PROVE  /\ stream' \in Seq(Ops)
         /\ Len(stream') = Len(stream) + 1
         /\ DOMAIN stream = 1 .. Len(stream)
         /\ DOMAIN stream' = 1 .. Len(stream) + 1
         /\ \A j \in 1 .. Len(stream) : stream'[j] = stream[j]
         /\ stream'[Len(stream) + 1] = o
OBVIOUS

(* What is in it after the device has taken one out. *)
LEMMA StreamAdvanced ==
  ASSUME stream \in Seq(Ops), stream # <<>>, stream' = Tail(stream)
  PROVE  /\ stream' \in Seq(Ops)
         /\ Len(stream) \in Nat \ {0}
         /\ Len(stream') = Len(stream) - 1
         /\ DOMAIN stream = 1 .. Len(stream)
         /\ DOMAIN stream' = 1 .. Len(stream) - 1
         /\ \A j \in 1 .. Len(stream) - 1 : stream'[j] = stream[j + 1]
         /\ Head(stream) = stream[1]
         /\ Head(stream) \in Ops
OBVIOUS

(* The expansions in the stream stay fed when an operation that is none is *)
(* put behind them and the buffers stay.                                   *)
LEMMA AppendedFed ==
  ASSUME TypeOK, ExpansionsFed, NEW o \in Ops, stream' = Append(stream, o),
         o.op # "index", UNCHANGED <<pinned, dev>>
  PROVE  ExpansionsFed'
<1>1. stream \in Seq(Ops)
  BY DEF TypeOK
<1> SUFFICES ASSUME NEW j \in DOMAIN stream', stream'[j].op = "index"
             PROVE  IF j = 1 THEN Yields(dev, stream'[j])
                    ELSE LET c == stream'[j - 1]
                         IN  /\ c.op = "h2d"
                             /\ c.n <= Len(pinned[c.layer])
                             /\ Yields([i \in 1 .. c.n |-> pinned[c.layer][i]], stream'[j])
  BY DEF ExpansionsFed, Yields
<1>2. j \in DOMAIN stream /\ stream'[j] = stream[j]
      /\ (j # 1 => stream'[j - 1] = stream[j - 1])
  BY <1>1, StreamAppended
<1>3. QED BY <1>2 DEF ExpansionsFed

LEMMA InitIInv == Init => IInv
<1> SUFFICES ASSUME Init PROVE IInv
  OBVIOUS
<1> USE StagingAssumption
<1>1. TypeOK
  <2>1. MaxCap \in Nat
    BY DEF MaxCap, Bigger
  <2>2. \A S : <<>> \in UpTo(MaxIds, S) /\ <<>> \in UpTo(MaxCap, S)
    BY <2>1, EmptyIsUpTo
  <2>3. QED BY <2>2 DEF Init, TypeOK, Requests
<1>2. ExpansionsFed /\ QuietWhileStaging /\ RowsOnTheirWay /\ AnswerExact
  BY DEF Init, ExpansionsFed, QuietWhileStaging, RowsOnTheirWay, AnswerExact
<1>3. QED BY <1>1, <1>2 DEF IInv

LEMMA LookupIInv ==
  ASSUME IInv, NEW l \in Layers, NEW a \in Requests, Lookup(l, a)
  PROVE  IInv'
<1>1. Kernel \in Ops /\ Kernel.op # "index"
  BY DEF Ops, Kernel
<1>2. TypeOK'
  <2>1. stream' \in Seq(Ops)
    BY <1>1, StreamAppended DEF IInv, TypeOK, Lookup
  <2>2. QED BY <2>1 DEF IInv, TypeOK, Lookup
<1>3. ExpansionsFed'
  BY <1>1, AppendedFed DEF IInv, Lookup
<1>4. QuietWhileStaging' /\ RowsOnTheirWay' /\ AnswerExact'
  BY DEF IInv, Lookup, QuietWhileStaging, RowsOnTheirWay, AnswerExact
<1>5. QED BY <1>2, <1>3, <1>4 DEF IInv

(* A step of the thread while the stream is empty leaves it fed. *)
LEMMA EmptyFed ==
  ASSUME stream' = <<>>
  PROVE  ExpansionsFed'
BY DEF ExpansionsFed

LEMMA ReadIdsIInv == ASSUME IInv, ReadIds PROVE IInv'
<1>1. stream = <<>> /\ stream' = <<>>
  BY DEF ReadIds, IdsOnHost
<1>2. PICK u \in UpTo(Len(ids), {ids[i] : i \in DOMAIN ids}) :
        IsUnique(u, ids) /\ uniq' = u
  BY DEF ReadIds
<1>3. u \in Requests
  <2>1. /\ Len(ids) \in 0 .. MaxIds
        /\ ids \in [1 .. Len(ids) -> RowIds]
    BY UpToIsSeq, StagingAssumption DEF IInv, TypeOK, Requests
  <2>2. PICK k \in 0 .. Len(ids) : u \in [1 .. k -> {ids[i] : i \in DOMAIN ids}]
    BY DEF UpTo
  <2>3. k \in 0 .. MaxIds /\ u \in [1 .. k -> RowIds]
    BY <2>1, <2>2, StagingAssumption
  <2>4. QED BY <2>3, FunctionIsUpTo, StagingAssumption DEF Requests
<1>4. TypeOK'
  BY <1>2, <1>3 DEF IInv, TypeOK, ReadIds
<1>5. RowsOnTheirWay'
  BY <1>2 DEF ReadIds, RowsOnTheirWay, IsUnique
<1>6. QuietWhileStaging' /\ AnswerExact'
  BY <1>1 DEF IInv, ReadIds, QuietWhileStaging, AnswerExact
<1>7. QED BY <1>1, <1>4, <1>5, <1>6, EmptyFed DEF IInv

LEMMA StageIInv == ASSUME IInv, Stage PROVE IInv'
<1>1. stream = <<>> /\ stream' = <<>>
  BY DEF IInv, Stage, QuietWhileStaging
<1>2. PICK cap \in IF Fits THEN {Len(pinned[layer])} ELSE {Grown} :
        pinned' = [pinned EXCEPT ![layer] =
                     [i \in 1 .. cap |-> IF i <= Len(uniq) THEN uniq[i]
                                         ELSE IF Fits THEN pinned[layer][i]
                                         ELSE Junk]]
  BY DEF Stage
<1>3. /\ layer \in Layers
      /\ DOMAIN pinned = Layers
      /\ Len(uniq) \in 0 .. MaxIds
      /\ uniq \in [1 .. Len(uniq) -> RowIds]
  BY UpToIsSeq, StagingAssumption DEF IInv, TypeOK, Requests
<1>4. MaxCap \in Nat
  BY StagingAssumption DEF MaxCap, Bigger
<1>5. /\ Len(pinned[layer]) \in 0 .. MaxCap
      /\ pinned[layer] \in [1 .. Len(pinned[layer]) -> RowIds \cup {Junk}]
  BY <1>3, <1>4, UpToIsSeq DEF IInv, TypeOK
<1>6. cap \in 0 .. MaxCap /\ Len(uniq) <= cap
  <2>1. CASE Fits
    BY <1>2, <1>5, <2>1 DEF Fits
  <2>2. CASE ~ Fits
    BY <1>2, <1>3, <2>2, StagingAssumption DEF Grown, MaxCap, Bigger
  <2>3. QED BY <2>1, <2>2
<1>7. \A i \in 1 .. cap : (Fits => i \in 1 .. Len(pinned[layer]))
  BY <1>2
<1>8. pinned'[layer] \in [1 .. cap -> RowIds \cup {Junk}]
      /\ \A i \in 1 .. Len(uniq) : pinned'[layer][i] = uniq[i]
  <2> DEFINE b(i) == IF i <= Len(uniq) THEN uniq[i]
                     ELSE IF Fits THEN pinned[layer][i] ELSE Junk
  <2>1. pinned'[layer] = [i \in 1 .. cap |-> b(i)]
    BY <1>2, <1>3
  <2>2. \A i \in 1 .. cap : b(i) \in RowIds \cup {Junk}
    <3>1. SUFFICES ASSUME NEW i \in 1 .. cap
                   PROVE  b(i) \in RowIds \cup {Junk}
      OBVIOUS
    <3>2. CASE i <= Len(uniq)
      BY <1>3, <1>4, <1>6, <3>2
    <3>3. CASE ~ (i <= Len(uniq))
      BY <1>5, <1>7, <3>3
    <3>4. QED BY <3>2, <3>3
  <2>3. \A i \in 1 .. Len(uniq) : i \in 1 .. cap /\ b(i) = uniq[i]
    BY <1>3, <1>6
  <2> HIDE DEF b
  <2>4. QED BY <2>1, <2>2, <2>3
<1>9. Len(pinned'[layer]) = cap
  BY <1>6, <1>8
<1>10. TypeOK'
  <2>1. pinned'[layer] \in UpTo(MaxCap, RowIds \cup {Junk})
    BY <1>4, <1>6, <1>8, FunctionIsUpTo
  <2>2. pinned' \in [Layers -> UpTo(MaxCap, RowIds \cup {Junk})]
    BY <1>2, <1>3, <2>1 DEF IInv, TypeOK
  <2>3. QED BY <2>2 DEF IInv, TypeOK, Stage
<1>11. RowsOnTheirWay'
  <2>1. IsUnique(uniq, ids)' /\ pc' = "copy"
    BY DEF IInv, Stage, RowsOnTheirWay, IsUnique
  <2>2. Staged'
    BY <1>3, <1>6, <1>8, <1>9 DEF Stage, Staged
  <2>3. QED BY <2>1, <2>2 DEF RowsOnTheirWay
<1>12. QuietWhileStaging' /\ AnswerExact'
  BY <1>1 DEF IInv, Stage, QuietWhileStaging, AnswerExact
<1>13. QED BY <1>1, <1>10, <1>11, <1>12, EmptyFed DEF IInv

LEMMA NoPinnedIInv == ASSUME IInv, NoPinned PROVE IInv'
<1>1. stream' = <<>>
  BY DEF IInv, NoPinned, QuietWhileStaging
<1>2. TypeOK'
  <2>1. <<>> \in UpTo(MaxCap, RowIds \cup {Junk})
    BY EmptyIsUpTo, StagingAssumption DEF MaxCap, Bigger
  <2>2. QED BY <2>1 DEF IInv, TypeOK, NoPinned
<1>3. RowsOnTheirWay'
  BY DEF IInv, NoPinned, RowsOnTheirWay, IsUnique
<1>4. QuietWhileStaging' /\ AnswerExact'
  BY <1>1 DEF IInv, NoPinned, QuietWhileStaging, AnswerExact
<1>5. QED BY <1>1, <1>2, <1>3, <1>4, EmptyFed DEF IInv

LEMMA CopyPageableIInv == ASSUME IInv, CopyPageable PROVE IInv'
<1>1. stream' = <<>>
  BY DEF CopyPageable
<1>2. TypeOK'
  <2>1. uniq \in UpTo(MaxIds, RowIds \cup {Junk})
    BY UpToIsSeq, FunctionIsUpTo, StagingAssumption DEF IInv, TypeOK, Requests, UpTo
  <2>2. QED BY <2>1 DEF IInv, TypeOK, CopyPageable
<1>3. RowsOnTheirWay'
  BY <1>1 DEF IInv, CopyPageable, RowsOnTheirWay, IsUnique
<1>4. QuietWhileStaging' /\ AnswerExact'
  BY <1>1 DEF IInv, CopyPageable, QuietWhileStaging, AnswerExact
<1>5. QED BY <1>1, <1>2, <1>3, <1>4, EmptyFed DEF IInv

LEMMA CopyPinnedIInv == ASSUME IInv, CopyPinned PROVE IInv'
<1> DEFINE c == Copies(layer, Len(uniq))
<1>1. stream' = Append(stream, c) /\ stream = <<>>
  BY DEF IInv, CopyPinned, QuietWhileStaging, Copied
<1>2. c \in Ops /\ c.op # "index"
  BY UpToIsSeq, StagingAssumption DEF IInv, TypeOK, Requests, Ops, Copies
<1>3. TypeOK'
  <2>1. stream' \in Seq(Ops)
    BY <1>1, <1>2, StreamAppended DEF IInv, TypeOK
  <2>2. QED BY <2>1 DEF IInv, TypeOK, CopyPinned
<1>4. ExpansionsFed'
  BY <1>1, <1>2, AppendedFed DEF IInv, CopyPinned
<1>5. RowsOnTheirWay'
  <2>1. IsUnique(uniq, ids)' /\ Staged' /\ pc' = "expand"
    BY DEF IInv, CopyPinned, RowsOnTheirWay, IsUnique, Staged
  <2>2. stream' = <<c>>
    BY <1>1, <1>2
  <2>3. QED BY <2>1, <2>2 DEF RowsOnTheirWay, CopyPinned, Copies
<1>6. QuietWhileStaging' /\ AnswerExact'
  BY DEF IInv, CopyPinned, QuietWhileStaging, AnswerExact
<1>7. QED BY <1>3, <1>4, <1>5, <1>6 DEF IInv

(* The inverse points at the rows of the ids. *)
LEMMA InverseYields ==
  ASSUME TypeOK, IsUnique(uniq, ids)
  PROVE  /\ Inverse(uniq, ids) \in UpTo(MaxIds, 1 .. MaxIds)
         /\ \A i \in DOMAIN ids :
              /\ Inverse(uniq, ids)[i] \in 1 .. Len(uniq)
              /\ uniq[Inverse(uniq, ids)[i]] = ids[i]
<1>1. /\ Len(ids) \in 0 .. MaxIds /\ DOMAIN ids = 1 .. Len(ids)
      /\ Len(uniq) \in 0 .. MaxIds /\ DOMAIN uniq = 1 .. Len(uniq)
  BY UpToIsSeq, StagingAssumption DEF TypeOK, Requests
<1>2. \A i \in DOMAIN ids : \E p \in DOMAIN uniq : uniq[p] = ids[i]
  <2>1. SUFFICES ASSUME NEW i \in DOMAIN ids
                 PROVE  \E p \in DOMAIN uniq : uniq[p] = ids[i]
    OBVIOUS
  <2>2. ids[i] \in {uniq[p] : p \in DOMAIN uniq}
    BY DEF IsUnique
  <2>3. QED BY <2>2
<1>3. \A i \in DOMAIN ids :
        /\ Inverse(uniq, ids)[i] \in DOMAIN uniq
        /\ uniq[Inverse(uniq, ids)[i]] = ids[i]
  BY <1>2 DEF Inverse
<1>4. Inverse(uniq, ids) \in [1 .. Len(ids) -> 1 .. MaxIds]
  <2>1. \A p \in DOMAIN uniq : p \in 1 .. MaxIds
    BY <1>1, StagingAssumption
  <2>2. DOMAIN Inverse(uniq, ids) = 1 .. Len(ids)
        /\ Inverse(uniq, ids) = [i \in DOMAIN ids |-> Inverse(uniq, ids)[i]]
    BY <1>1 DEF Inverse
  <2>3. QED BY <1>1, <1>3, <2>1, <2>2
<1>5. QED BY <1>1, <1>3, <1>4, FunctionIsUpTo, StagingAssumption

LEMMA ExpandIInv == ASSUME IInv, Expand PROVE IInv'
<1> DEFINE e == Expands(ids, Inverse(uniq, ids))
<1>1. stream' = Append(stream, e) /\ UNCHANGED <<layer, ids, uniq, pinned, dev>>
  BY DEF Expand
<1>2. IsUnique(uniq, ids)
  BY DEF IInv, Expand, RowsOnTheirWay
<1>3. e \in Ops
  BY <1>2, InverseYields DEF IInv, TypeOK, Ops, Expands
<1>4. stream \in Seq(Ops)
  BY DEF IInv, TypeOK
<1>5. TypeOK'
  <2>1. stream' \in Seq(Ops)
    BY <1>1, <1>3, <1>4, StreamAppended
  <2>2. QED BY <2>1 DEF IInv, TypeOK, Expand
<1>6. /\ e.op = "index" /\ e.ids = ids /\ e.inv = Inverse(uniq, ids)
      /\ DOMAIN ids = 1 .. Len(ids) /\ DOMAIN uniq = 1 .. Len(uniq)
      /\ Len(uniq) \in Nat
  BY UpToIsSeq, StagingAssumption DEF IInv, TypeOK, Requests, Expands
<1>7. Yields(uniq, e)
  BY <1>2, <1>6, InverseYields DEF IInv, Yields
<1>8. ExpansionsFed'
  <2>1. CASE stream = <<>> /\ dev = uniq
    <3>1. DOMAIN stream' = {1} /\ stream'[1] = e
      BY <1>1, <2>1
    <3>2. QED BY <1>1, <1>7, <2>1, <3>1 DEF ExpansionsFed, Yields
  <2>2. CASE stream = <<Copies(layer, Len(uniq))>> /\ Staged
    <3> DEFINE c == Copies(layer, Len(uniq))
    <3>1. DOMAIN stream' = {1, 2} /\ stream'[1] = c /\ stream'[2] = e
      BY <1>1, <2>2
    <3>2. c.op = "h2d" /\ c.layer = layer /\ c.n = Len(uniq)
      BY DEF Copies
    <3>3. Yields([i \in 1 .. Len(uniq) |-> pinned[layer][i]], e)
      BY <1>6, <1>7, <2>2 DEF Yields, Staged
    <3>4. Len(uniq) <= Len(pinned[layer])
      BY <2>2 DEF Staged
    <3> HIDE DEF c, e
    <3>5. SUFFICES ASSUME NEW j \in DOMAIN stream', stream'[j].op = "index"
                   PROVE  IF j = 1 THEN Yields(dev, stream'[j])
                          ELSE LET d == stream'[j - 1]
                               IN  /\ d.op = "h2d"
                                   /\ d.n <= Len(pinned[d.layer])
                                   /\ Yields([i \in 1 .. d.n |-> pinned[d.layer][i]],
                                             stream'[j])
      BY <1>1 DEF ExpansionsFed, Yields
    <3>6. j = 2
      BY <3>1, <3>2, <3>5
    <3>7. QED BY <3>1, <3>2, <3>3, <3>4, <3>6
  <2>3. QED BY <2>1, <2>2 DEF IInv, Expand, RowsOnTheirWay
<1>9. QuietWhileStaging' /\ RowsOnTheirWay' /\ AnswerExact'
  BY DEF IInv, Expand, QuietWhileStaging, RowsOnTheirWay, AnswerExact
<1>10. QED BY <1>5, <1>8, <1>9 DEF IInv

(* What the device took out was no expansion, or one whose rows were there; *)
(* in either case those behind it stay fed.                                 *)
LEMMA AdvancedFed ==
  ASSUME TypeOK, ExpansionsFed, stream # <<>>, stream' = Tail(stream),
         UNCHANGED pinned,
         Head(stream).op = "h2d" =>
           dev' = [i \in 1 .. Head(stream).n |->
                     Row(pinned[Head(stream).layer], i)]
  PROVE  ExpansionsFed'
<1>1. stream \in Seq(Ops)
  BY DEF TypeOK
<1>2. SUFFICES ASSUME NEW j \in DOMAIN stream', stream'[j].op = "index"
               PROVE  IF j = 1 THEN Yields(dev', stream'[j])
                      ELSE LET c == stream'[j - 1]
                           IN  /\ c.op = "h2d"
                               /\ c.n <= Len(pinned[c.layer])
                               /\ Yields([i \in 1 .. c.n |-> pinned[c.layer][i]],
                                         stream'[j])
  BY DEF ExpansionsFed, Yields
<1>3. /\ j \in 1 .. Len(stream) - 1 /\ Len(stream) \in Nat
      /\ j + 1 \in DOMAIN stream /\ j + 1 # 1 /\ (j + 1) - 1 = j
      /\ stream'[j] = stream[j + 1]
      /\ j # 1 => j - 1 \in 1 .. Len(stream) - 1 /\ stream'[j - 1] = stream[(j - 1) + 1]
      /\ (j - 1) + 1 = j
      /\ Head(stream) = stream[1]
  BY <1>1, StreamAdvanced
<1>4. /\ stream[j].op = "h2d"
      /\ stream[j].n <= Len(pinned[stream[j].layer])
      /\ Yields([i \in 1 .. stream[j].n |-> pinned[stream[j].layer][i]], stream[j + 1])
  BY <1>2, <1>3 DEF ExpansionsFed
<1>5. CASE j = 1
  <2> DEFINE h == stream[1]
  <2>1. h = Head(stream) /\ h.op = "h2d" /\ h.n <= Len(pinned[h.layer])
        /\ Yields([i \in 1 .. h.n |-> pinned[h.layer][i]], stream[2])
    BY <1>3, <1>4, <1>5
  <2>2. h \in Ops
    BY <1>1, <2>1, StreamAdvanced
  <2>3. h.layer \in Layers /\ h.n \in 0 .. MaxIds
    BY <2>1, <2>2 DEF Ops, Kernel
  <2>4. pinned[h.layer] \in UpTo(MaxCap, RowIds \cup {Junk}) /\ MaxCap \in Nat
    <3>1. MaxCap \in Nat
      BY StagingAssumption DEF MaxCap, Bigger
    <3>2. QED BY <2>3, <3>1 DEF TypeOK
  <2>5. DOMAIN pinned[h.layer] = 1 .. Len(pinned[h.layer])
        /\ Len(pinned[h.layer]) \in Nat
    BY <2>4, UpToIsSeq
  <2>6. dev' = [i \in 1 .. h.n |-> pinned[h.layer][i]]
    <3>1. \A i \in 1 .. h.n : Row(pinned[h.layer], i) = pinned[h.layer][i]
      BY <2>1, <2>3, <2>5 DEF Row
    <3>2. dev' = [i \in 1 .. h.n |-> Row(pinned[h.layer], i)]
      BY <2>1
    <3>3. QED BY <3>1, <3>2
  <2>7. QED BY <1>3, <1>5, <2>1, <2>6
<1>6. CASE j # 1
  BY <1>3, <1>4, <1>6
<1>7. QED BY <1>5, <1>6

LEMMA ExecuteIInv == ASSUME IInv, Execute PROVE IInv'
<1> DEFINE o == Head(stream)
<1>1. /\ stream # <<>> /\ stream' = Tail(stream)
      /\ UNCHANGED <<pc, layer, ids, uniq, pinned>>
  BY DEF Execute
<1>2. /\ stream \in Seq(Ops) /\ stream' \in Seq(Ops)
      /\ o \in Ops /\ o = stream[1] /\ 1 \in DOMAIN stream
  BY <1>1, StreamAdvanced DEF IInv, TypeOK
<1>3. /\ MaxCap \in Nat
      /\ DOMAIN pinned = Layers
      /\ \A l \in Layers :
           /\ DOMAIN pinned[l] = 1 .. Len(pinned[l])
           /\ \A i \in DOMAIN pinned[l] : pinned[l][i] \in RowIds \cup {Junk}
  <2>1. MaxCap \in Nat
    BY StagingAssumption DEF MaxCap, Bigger
  <2>2. QED BY <2>1, UpToIsSeq DEF IInv, TypeOK
<1>4. \/ o.op = "kernel" /\ UNCHANGED <<dev, answer>>
      \/ o.op = "h2d" /\ dev' = [i \in 1 .. o.n |-> Row(pinned[o.layer], i)]
         /\ UNCHANGED answer
      \/ o.op = "index" /\ UNCHANGED dev
         /\ answer' = [ids |-> o.ids,
                       rows |-> [i \in DOMAIN o.ids |-> Row(dev, o.inv[i])]]
  BY DEF Execute
<1>5. ExpansionsFed'
  BY <1>1, <1>4, AdvancedFed DEF IInv
<1>6. QuietWhileStaging'
  BY <1>1 DEF IInv, QuietWhileStaging
<1>7. RowsOnTheirWay'
  <2>1. SUFFICES ASSUME pc = "expand"
                 PROVE  stream' = <<>> /\ dev' = uniq
    BY <1>1, <1>6 DEF IInv, RowsOnTheirWay, QuietWhileStaging, IsUnique
  <2>2. stream = <<Copies(layer, Len(uniq))>> /\ Staged
    BY <1>1, <2>1 DEF IInv, RowsOnTheirWay
  <2>3. stream' = <<>> /\ o = Copies(layer, Len(uniq))
    BY <1>1, <2>2
  <2>4. dev' = [i \in 1 .. Len(uniq) |-> Row(pinned[layer], i)]
    BY <1>4, <2>3 DEF Copies
  <2>5. /\ layer \in Layers
        /\ Len(uniq) \in Nat /\ uniq \in [1 .. Len(uniq) -> RowIds]
        /\ Len(pinned[layer]) \in Nat /\ DOMAIN pinned[layer] = 1 .. Len(pinned[layer])
    BY <1>3, UpToIsSeq, StagingAssumption DEF IInv, TypeOK, Requests
  <2>6. \A i \in 1 .. Len(uniq) : Row(pinned[layer], i) = uniq[i]
    BY <2>2, <2>5 DEF Staged, Row
  <2>7. QED BY <2>3, <2>4, <2>5, <2>6
<1>8. AnswerExact'
  <2>1. CASE o.op = "index"
    <3>1. Yields(dev, o)
      BY <1>2, <2>1 DEF IInv, ExpansionsFed
    <3>2. o.ids \in Requests /\ o.ids = [i \in DOMAIN o.ids |-> o.ids[i]]
      BY <1>2, <2>1, UpToIsSeq, StagingAssumption DEF Ops, Kernel, Requests
    <3>3. \A i \in DOMAIN o.ids : Row(dev, o.inv[i]) = o.ids[i]
      BY <3>1 DEF Yields, Row
    <3>4. answer'.ids = o.ids
          /\ answer'.rows = [i \in DOMAIN o.ids |-> Row(dev, o.inv[i])]
      BY <1>4, <2>1
    <3>5. QED BY <3>2, <3>3, <3>4 DEF AnswerExact
  <2>2. CASE o.op # "index"
    BY <1>4, <2>2 DEF IInv, AnswerExact
  <2>3. QED BY <2>1, <2>2
<1>9. TypeOK'
  <2>1. dev' \in UpTo(MaxIds, RowIds \cup {Junk})
    <3>1. CASE o.op = "h2d"
      <4>1. o.layer \in Layers /\ o.n \in 0 .. MaxIds
        BY <1>2, <3>1 DEF Ops, Kernel
      <4>2. \A i \in 1 .. o.n : Row(pinned[o.layer], i) \in RowIds \cup {Junk}
        BY <1>3, <4>1 DEF Row
      <4>3. dev' \in [1 .. o.n -> RowIds \cup {Junk}]
        BY <1>4, <3>1, <4>2
      <4>4. QED BY <4>1, <4>3, FunctionIsUpTo, StagingAssumption
    <3>2. CASE o.op # "h2d"
      BY <1>4, <3>2 DEF IInv, TypeOK
    <3>3. QED BY <3>1, <3>2
  <2>2. answer' \in [ids : Requests, rows : UpTo(MaxIds, RowIds \cup {Junk})]
    <3>1. CASE o.op = "index"
      <4>1. o.ids \in Requests
        BY <1>2, <3>1 DEF Ops, Kernel
      <4>2. PICK k \in 0 .. MaxIds : o.ids \in [1 .. k -> RowIds]
        BY <4>1 DEF Requests, UpTo
      <4>3. /\ Yields(dev, o)
            /\ \A i \in DOMAIN o.ids : Row(dev, o.inv[i]) \in RowIds
        BY <1>2, <3>1, <4>2 DEF IInv, ExpansionsFed, Yields, Row
      <4>4. [i \in DOMAIN o.ids |-> Row(dev, o.inv[i])] \in [1 .. k -> RowIds \cup {Junk}]
        BY <4>2, <4>3
      <4>5. [i \in DOMAIN o.ids |-> Row(dev, o.inv[i])] \in UpTo(MaxIds, RowIds \cup {Junk})
        BY <4>4, FunctionIsUpTo, StagingAssumption
      <4>6. QED BY <1>4, <3>1, <4>1, <4>5
    <3>2. CASE o.op # "index"
      BY <1>4, <3>2 DEF IInv, TypeOK
    <3>3. QED BY <3>1, <3>2
  <2>3. QED BY <1>1, <1>2, <2>1, <2>2 DEF IInv, TypeOK
<1>10. QED BY <1>5, <1>6, <1>7, <1>8, <1>9 DEF IInv

LEMMA NextIInv == ASSUME IInv, [Next]_vars PROVE IInv'
<1>1. ASSUME NEW l \in Layers, NEW a \in Requests, Lookup(l, a) PROVE IInv'
  BY <1>1, LookupIInv
<1>2. CASE ReadIds       BY <1>2, ReadIdsIInv
<1>3. CASE Stage         BY <1>3, StageIInv
<1>4. CASE NoPinned      BY <1>4, NoPinnedIInv
<1>5. CASE CopyPageable  BY <1>5, CopyPageableIInv
<1>6. CASE CopyPinned    BY <1>6, CopyPinnedIInv
<1>7. CASE Expand        BY <1>7, ExpandIInv
<1>8. CASE Execute       BY <1>8, ExecuteIInv
<1>9. CASE UNCHANGED vars
  <2>1. UNCHANGED <<pc, layer, ids, uniq, pinned, stream, dev, answer>>
    BY <1>9 DEF vars
  <2>2. TypeOK'
    BY <2>1 DEF IInv, TypeOK
  <2>3. ExpansionsFed'
    BY <2>1 DEF IInv, ExpansionsFed, Yields
  <2>4. QuietWhileStaging' /\ RowsOnTheirWay' /\ AnswerExact'
    BY <2>1 DEF IInv, QuietWhileStaging, RowsOnTheirWay, IsUnique, Staged, AnswerExact
  <2>5. QED BY <2>2, <2>3, <2>4 DEF IInv
<1>10. QED
  BY <1>1, <1>2, <1>3, <1>4, <1>5, <1>6, <1>7, <1>8, <1>9 DEF Next, Forward

-----------------------------------------------------------------------------
(* For any layers, rows, lookups and capacities, the stream, the buffers    *)
(* and the thread stay in step (_MmapNgramEmbedding.forward).               *)
THEOREM StagingInvariant == Spec => []IInv
<1>1. Init => IInv
  BY InitIInv
<1>2. IInv /\ [Next]_vars => IInv'
  BY NextIInv
<1>3. QED BY <1>1, <1>2, PTL DEF Spec

(* Every variable keeps its type. *)
THEOREM StagingTypes == Spec => []TypeOK
<1>1. IInv => TypeOK
  BY DEF IInv
<1>2. QED BY <1>1, StagingInvariant, PTL

(* Every lookup the device has answered got the rows of its own ids.        *)
THEOREM AnswersExact == Spec => []AnswerExact
<1>1. IInv => AnswerExact
  BY DEF IInv
<1>2. QED BY <1>1, StagingInvariant, PTL

(* No buffer is written while a copy from it is outstanding: the wait for   *)
(* the ids has emptied the stream, and nothing was put into it since.       *)
THEOREM CopiesUndisturbed == Spec => NoWriteUnderCopy
<1> DEFINE A == \A l \in Layers :
                 pinned'[l] # pinned[l] =>
                   \A j \in DOMAIN stream :
                     stream[j].op = "h2d" => stream[j].layer # l
<1>1. IInv /\ [Next]_vars => [A]_vars
  <2>1. SUFFICES ASSUME IInv, Next PROVE A
    OBVIOUS
  <2>2. CASE pinned' = pinned
    BY <2>2
  <2>3. CASE Stage \/ NoPinned
    <3>1. stream = <<>>
      BY <2>1, <2>3 DEF IInv, QuietWhileStaging, Stage, NoPinned
    <3>2. QED BY <3>1
  <2>4. pinned' = pinned \/ Stage \/ NoPinned
    BY <2>1 DEF Next, Forward, Lookup, ReadIds, CopyPageable, CopyPinned, Expand, Execute
  <2>5. QED BY <2>2, <2>3, <2>4
<1>2. QED BY <1>1, StagingInvariant, PTL DEF Spec, NoWriteUnderCopy

-----------------------------------------------------------------------------
(* The refinement of RowLookup. *)

(* One expansion at most is in the stream: a lookup waits for the stream    *)
(* before it puts its own into it.                                          *)
OneExpansion == \A i, j \in Expansions : i = j

(* What the pending expansion asks for. *)
Queued == IF Expansions = {} THEN <<>> ELSE <<stream[CHOOSE j \in Expansions : TRUE].ids>>

LEMMA AskedIs == Asked = IF pc = "idle" THEN Queued ELSE Append(Queued, ids)
BY DEF Asked, Queued

LEMMA QueuedOf ==
  ASSUME OneExpansion, NEW j \in Expansions
  PROVE  Queued = <<stream[j].ids>>
<1>1. (CHOOSE i \in Expansions : TRUE) = j
  <2>1. (CHOOSE i \in Expansions : TRUE) \in Expansions
    OBVIOUS
  <2> QED BY <2>1 DEF OneExpansion
<1> QED BY <1>1 DEF Queued

(* An operation that is no expansion changes nothing of it. *)
LEMMA AppendedQueued ==
  ASSUME TypeOK, NEW o \in Ops, o.op # "index", stream' = Append(stream, o)
  PROVE  Expansions' = Expansions /\ Queued' = Queued
<1>1. /\ stream \in Seq(Ops) /\ DOMAIN stream = 1 .. Len(stream)
      /\ DOMAIN stream' = 1 .. Len(stream) + 1 /\ Len(stream) \in Nat
      /\ \A j \in 1 .. Len(stream) : stream'[j] = stream[j]
      /\ stream'[Len(stream) + 1] = o
  BY StreamAppended DEF TypeOK
<1>2. Expansions' = Expansions
  BY <1>1 DEF Expansions
<1>3. CASE Expansions = {}
  BY <1>2, <1>3 DEF Queued
<1>4. CASE Expansions # {}
  <2>1. (CHOOSE j \in Expansions : TRUE) \in Expansions
    BY <1>4
  <2>2. (CHOOSE j \in Expansions' : TRUE) = (CHOOSE j \in Expansions : TRUE)
    BY <1>2
  <2>3. stream'[CHOOSE j \in Expansions : TRUE] = stream[CHOOSE j \in Expansions : TRUE]
    BY <1>1, <2>1 DEF Expansions
  <2> QED BY <1>2, <1>4, <2>2, <2>3 DEF Queued
<1> QED BY <1>2, <1>3, <1>4

LEMMA ExpandQueued ==
  ASSUME IInv, Expand
  PROVE  Queued = <<>> /\ Queued' = <<ids>> /\ OneExpansion'
<1> DEFINE o == Expands(ids, Inverse(uniq, ids))
<1>1. stream' = Append(stream, o) /\ (stream = <<>> \/ stream = <<Copies(layer, Len(uniq))>>)
  BY DEF Expand, IInv, RowsOnTheirWay
<1>2. o.op = "index" /\ o.ids = ids /\ Copies(layer, Len(uniq)).op = "h2d"
  BY DEF Expands, Copies
<1>3. Expansions = {}
  BY <1>1, <1>2 DEF Expansions
<1> DEFINE n == Len(stream) + 1
<1>4. Expansions' = {n} /\ stream'[n] = o
  <2> HIDE DEF o
  <2>1. CASE stream = <<>>
    BY <1>1, <1>2, <2>1 DEF Expansions
  <2>2. CASE stream = <<Copies(layer, Len(uniq))>>
    <3> DEFINE c == Copies(layer, Len(uniq))
    <3>1. n = 2
      BY <2>2
    <3>2. DOMAIN stream' = {1, 2} /\ stream'[1] = c /\ stream'[2] = o
      BY <1>1, <2>2
    <3>3. c.op = "h2d"
      BY <1>2
    <3> HIDE DEF n, c
    <3> QED BY <3>1, <3>2, <3>3, <1>2 DEF Expansions
  <2> QED BY <1>1, <2>1, <2>2
<1> HIDE DEF n, o
<1>5. (CHOOSE j \in Expansions' : TRUE) = n
  BY <1>4
<1>6. Queued' = <<stream'[n].ids>>
  BY <1>4, <1>5 DEF Queued
<1>7. OneExpansion'
  BY <1>4 DEF OneExpansion
<1> QED BY <1>2, <1>3, <1>4, <1>6, <1>7 DEF Queued

(* The device takes an operation out: the expansions behind it move up. *)
LEMMA ExecuteQueued ==
  ASSUME IInv, OneExpansion, Execute
  PROVE  /\ OneExpansion'
         /\ Head(stream).op # "index" => Queued' = Queued
         /\ Head(stream).op = "index" => Queued = <<Head(stream).ids>> /\ Queued' = <<>>
<1>1. /\ Len(stream) \in Nat \ {0}
      /\ DOMAIN stream = 1 .. Len(stream) /\ DOMAIN stream' = 1 .. Len(stream) - 1
      /\ \A j \in 1 .. Len(stream) - 1 : stream'[j] = stream[j + 1]
      /\ Head(stream) = stream[1]
  BY StreamAdvanced DEF IInv, TypeOK, Execute
<1>2. \A j \in DOMAIN stream' : j + 1 \in DOMAIN stream /\ stream'[j] = stream[j + 1]
  BY <1>1
<1>3. \A j \in Expansions' : j + 1 \in Expansions /\ stream'[j].ids = stream[j + 1].ids
  BY <1>2 DEF Expansions
<1>4. \A j \in Expansions : j # 1 => j - 1 \in Expansions' /\ stream'[j - 1].ids = stream[j].ids
  <2> SUFFICES ASSUME NEW j \in Expansions, j # 1
               PROVE  j - 1 \in Expansions' /\ stream'[j - 1].ids = stream[j].ids
    OBVIOUS
  <2>1. j \in DOMAIN stream /\ stream[j].op = "index"
    BY DEF Expansions
  <2>2. j - 1 \in DOMAIN stream' /\ stream'[j - 1] = stream[j]
    BY <1>1, <2>1
  <2> QED BY <2>1, <2>2 DEF Expansions
<1>5. OneExpansion'
  <2> SUFFICES ASSUME NEW i \in Expansions', NEW j \in Expansions' PROVE i = j
    BY DEF OneExpansion
  <2>1. i + 1 = j + 1
    BY <1>3 DEF OneExpansion
  <2>2. i \in Int /\ j \in Int
    BY <1>1 DEF Expansions
  <2> QED BY <2>1, <2>2
<1>6. ASSUME Head(stream).op = "index"
      PROVE  Queued = <<Head(stream).ids>> /\ Queued' = <<>>
  <2>1. 1 \in Expansions
    BY <1>1, <1>6 DEF Expansions
  <2>2. Expansions' = {}
    <3> SUFFICES ASSUME NEW j \in Expansions' PROVE FALSE
      OBVIOUS
    <3>1. j + 1 = 1 /\ j \in 1 .. Len(stream) - 1
      BY <1>1, <1>3, <2>1 DEF OneExpansion, Expansions
    <3> QED BY <3>1, <1>1
  <2> QED BY <1>1, <2>1, <2>2, QueuedOf DEF Queued
<1>7. ASSUME Head(stream).op # "index"
      PROVE  Queued' = Queued
  <2>0. 1 \notin Expansions
    BY <1>1, <1>7 DEF Expansions
  <2>1. CASE Expansions = {}
    <3>1. Expansions' = {}
      BY <1>3, <2>1
    <3> QED BY <2>1, <3>1 DEF Queued
  <2>2. CASE Expansions # {}
    <3>1. PICK j \in Expansions : TRUE
      BY <2>2
    <3>2. j - 1 \in Expansions' /\ stream'[j - 1].ids = stream[j].ids
      BY <1>4, <2>0, <3>1
    <3>3. Queued = <<stream[j].ids>>
      BY QueuedOf
    <3>4. (CHOOSE i \in Expansions' : TRUE) = j - 1
      <4>1. (CHOOSE i \in Expansions' : TRUE) \in Expansions'
        BY <3>2
      <4> QED BY <4>1, <1>5, <3>2 DEF OneExpansion
    <3>5. Queued' = <<stream'[j - 1].ids>>
      BY <3>2, <3>4 DEF Queued
    <3> QED BY <3>2, <3>3, <3>5
  <2> QED BY <2>1, <2>2
<1> QED BY <1>5, <1>6, <1>7

LEMMA OneLong ==
  ASSUME NEW S, NEW v \in Seq(S), Len(v) = 1
  PROVE  v = <<v[1]>>
<1>1. v \in [1 .. 1 -> S]
  OBVIOUS
<1>2. v = [i \in 1 .. 1 |-> v[1]]
  BY <1>1
<1>3. <<v[1]>> = [i \in 1 .. 1 |-> v[1]]
  OBVIOUS
<1> QED BY <1>2, <1>3

LEMMA AppendFacts ==
  ASSUME NEW S, NEW t \in Seq(S), NEW y \in S, NEW u, u = Append(t, y)
  PROVE  /\ u \in Seq(S) /\ Len(u) = Len(t) + 1
         /\ \A i \in 1 .. Len(t) : u[i] = t[i]
         /\ u[Len(t) + 1] = y
OBVIOUS

LEMMA OneAppended ==
  ASSUME NEW S, NEW t \in Seq(S), Len(t) = 1, NEW y \in S
  PROVE  /\ Append(t, y) # <<>> /\ Head(Append(t, y)) = t[1]
         /\ Tail(Append(t, y)) = <<y>>
<1> DEFINE u == Append(t, y)
<1> HIDE DEF u
<1>1. u = Append(t, y)
  BY DEF u
<1>2. u \in Seq(S) /\ Len(u) = 2 /\ u[1] = t[1] /\ u[2] = y
  BY <1>1, AppendFacts
<1>3. /\ u # <<>> /\ Head(u) = t[1]
      /\ Tail(u) \in Seq(S) /\ Len(Tail(u)) = 1 /\ Tail(u)[1] = y
  BY <1>2
<1>4. Tail(u) = <<y>>
  BY <1>3, OneLong
<1> QED BY <1>3, <1>4 DEF u

LEMMA Pairs ==
  ASSUME NEW S, NEW x \in S, NEW y \in S
  PROVE  /\ Append(<<>>, y) = <<y>>
         /\ Append(<<x>>, y) # <<>> /\ Head(Append(<<x>>, y)) = x
         /\ Tail(Append(<<x>>, y)) = <<y>>
<1>1. <<x>> \in Seq(S) /\ Len(<<x>>) = 1 /\ <<x>>[1] = x
  OBVIOUS
<1>2. Append(<<>>, y) = <<y>>
  OBVIOUS
<1> QED BY <1>1, <1>2, OneAppended

(* Nothing of a lookup can be told from outside between the call and the    *)
(* answer.                                                                  *)
LEMMA UnderWay ==
  ASSUME IInv, OneExpansion, ReadIds \/ Stage \/ NoPinned \/ CopyPageable \/ CopyPinned
  PROVE  OneExpansion' /\ UNCHANGED <<Asked, answer>>
<1>1. /\ pc # "idle" /\ pc' # "idle" /\ UNCHANGED <<ids, answer>>
  BY DEF ReadIds, Stage, NoPinned, CopyPageable, CopyPinned
<1>2. Expansions' = Expansions /\ Queued' = Queued
  <2>1. CASE CopyPinned
    <3> DEFINE o == Copies(layer, Len(uniq))
    <3>1. stream' = Append(stream, o)
      BY <2>1 DEF CopyPinned, Copied
    <3>2. o \in Ops /\ o.op = "h2d"
      BY UpToIsSeq, StagingAssumption DEF IInv, TypeOK, Requests, Ops, Copies
    <3> HIDE DEF o
    <3> QED BY <3>1, <3>2, AppendedQueued DEF IInv
  <2>2. CASE ~ CopyPinned
    <3>1. stream' = stream
      BY <2>2 DEF ReadIds, Stage, NoPinned, CopyPageable
    <3> QED BY <3>1 DEF Expansions, Queued
  <2> QED BY <2>1, <2>2
<1>3. OneExpansion'
  BY <1>2 DEF OneExpansion
<1>4. Asked' = IF pc' = "idle" THEN Queued' ELSE Append(Queued', ids')
  BY DEF Asked, Queued
<1>5. Asked' = Asked
  BY <1>1, <1>2, <1>4, AskedIs
<1> QED BY <1>1, <1>3, <1>5

LEMMA LookupMapped ==
  ASSUME IInv, OneExpansion, NEW l \in Layers, NEW a \in Requests, Lookup(l, a)
  PROVE  OneExpansion' /\ Rows!Ask(a)
<1>1. Kernel \in Ops /\ Kernel.op = "kernel"
  BY DEF Kernel, Ops
<1>2. Expansions' = Expansions /\ Queued' = Queued
  BY <1>1, AppendedQueued DEF Lookup, IInv
<1>3. OneExpansion'
  BY <1>2 DEF OneExpansion
<1>4. Asked = Queued
  BY AskedIs DEF Lookup
<1>5. Asked' = IF pc' = "idle" THEN Queued' ELSE Append(Queued', ids')
  BY DEF Asked, Queued
<1>6. Asked' = Append(Asked, a) /\ answer' = answer
  BY <1>2, <1>4, <1>5 DEF Lookup
<1> QED BY <1>3, <1>6 DEF Rows!Ask

LEMMA ExpandMapped ==
  ASSUME IInv, OneExpansion, Expand
  PROVE  OneExpansion' /\ UNCHANGED <<Asked, answer>>
<1>1. Queued = <<>> /\ Queued' = <<ids>> /\ OneExpansion'
  BY ExpandQueued
<1>2. Asked = Append(Queued, ids)
  BY AskedIs DEF Expand
<1>3. Asked' = IF pc' = "idle" THEN Queued' ELSE Append(Queued', ids')
  BY DEF Asked, Queued
<1>4. Asked' = Queued'
  BY <1>3 DEF Expand
<1>5. Append(<<>>, ids) = <<ids>>
  OBVIOUS
<1>6. Asked' = Asked
  BY <1>1, <1>2, <1>4, <1>5
<1> QED BY <1>1, <1>6 DEF Expand

LEMMA ExecuteMapped ==
  ASSUME IInv, IInv', OneExpansion, Execute
  PROVE  OneExpansion' /\ (Rows!Reply \/ UNCHANGED <<Asked, answer>>)
<1>1. UNCHANGED <<pc, ids>>
  BY DEF Execute
<1>2. Asked' = IF pc' = "idle" THEN Queued' ELSE Append(Queued', ids')
  BY DEF Asked, Queued
<1>3. OneExpansion'
  BY ExecuteQueued
<1>4. CASE Head(stream).op # "index"
  <2>1. Queued' = Queued
    BY <1>4, ExecuteQueued
  <2>2. answer' = answer
    BY <1>4 DEF Execute
  <2> QED BY <1>1, <1>2, <1>3, <2>1, <2>2, AskedIs
<1>5. CASE Head(stream).op = "index"
  <2> DEFINE r == Head(stream).ids
  <2>1. Queued = <<r>> /\ Queued' = <<>>
    BY <1>5, ExecuteQueued
  <2>2. answer' = [ids |-> r, rows |-> [i \in DOMAIN r |-> Row(dev, Head(stream).inv[i])]]
    BY <1>5 DEF Execute
  <2>3. answer'.rows = answer'.ids
    BY DEF IInv, AnswerExact
  <2>4. answer' = [ids |-> r, rows |-> r]
    BY <2>2, <2>3
  <2> HIDE DEF r
  <2>5. /\ Asked # <<>> /\ Head(Asked) = r /\ Asked' = Tail(Asked)
    <3>1. /\ <<r>> # <<>> /\ Head(<<r>>) = r /\ Tail(<<r>>) = <<>>
      OBVIOUS
    <3>2. /\ Append(<<r>>, ids) # <<>> /\ Head(Append(<<r>>, ids)) = r
          /\ Tail(Append(<<r>>, ids)) = <<ids>> /\ Append(<<>>, ids) = <<ids>>
      <4>1. r \in {r, ids} /\ ids \in {r, ids}
        OBVIOUS
      <4> QED BY ONLY <4>1, Pairs
    <3>3. CASE pc = "idle"
      BY <1>1, <1>2, <2>1, <3>1, <3>3, AskedIs
    <3>4. CASE pc # "idle"
      BY <1>1, <1>2, <2>1, <3>2, <3>4, AskedIs
    <3> QED BY <3>3, <3>4
  <2> QED BY <1>3, <2>4, <2>5 DEF Rows!Reply
<1> QED BY <1>4, <1>5

LEMMA StepMapped ==
  ASSUME IInv, IInv', OneExpansion, [Next]_vars
  PROVE  OneExpansion' /\ [Rows!Next]_(Rows!absVars)
<1>1. CASE \E l \in Layers, a \in Requests : Lookup(l, a)
  BY <1>1, LookupMapped DEF Rows!Next
<1>2. CASE ReadIds \/ Stage \/ NoPinned \/ CopyPageable \/ CopyPinned
  BY <1>2, UnderWay DEF Rows!absVars
<1>3. CASE Expand
  BY <1>3, ExpandMapped DEF Rows!absVars
<1>4. CASE Execute
  BY <1>4, ExecuteMapped DEF Rows!Next, Rows!absVars
<1>5. CASE UNCHANGED vars
  <2>1. UNCHANGED <<pc, ids, stream, answer>>
    BY <1>5 DEF vars
  <2>2. Expansions' = Expansions
    BY <2>1 DEF Expansions
  <2>3. OneExpansion' /\ Asked' = Asked
    BY <2>1, <2>2 DEF OneExpansion, Asked
  <2> QED BY <2>1, <2>3 DEF Rows!absVars
<1> QED BY <1>1, <1>2, <1>3, <1>4, <1>5 DEF Next, Forward

(* Buffer, stream and expansion implement a lookup that is answered once,   *)
(* in order and with the rows of its ids (_MmapNgramEmbedding.forward),     *)
(* whatever the layers, the ids and the capacity of the buffers.            *)
THEOREM RefinesRowLookup == Spec => ImplementsRowLookup
<1>1. Init => OneExpansion /\ Rows!Init
  <2> SUFFICES ASSUME Init PROVE OneExpansion /\ Rows!Init
    OBVIOUS
  <2>1. Expansions = {}
    BY DEF Init, Expansions
  <2> QED BY <2>1 DEF Init, OneExpansion, Asked, Rows!Init
<1>2. IInv /\ IInv' /\ OneExpansion /\ [Next]_vars
        => OneExpansion' /\ [Rows!Next]_(Rows!absVars)
  BY StepMapped
<1>3. QED
  BY <1>1, <1>2, StagingInvariant, PTL DEF Spec, ImplementsRowLookup, Rows!Spec
=============================================================================
