-------------------------- MODULE L1ContentProofs --------------------------
(***************************************************************************)
(* Proofs about what a reader finds in the tables at any moment: every     *)
(* reference leads to a record, no index below one in use is missing, and  *)
(* the service implements IndexedChain.                                    *)
(***************************************************************************)
EXTENDS L1WindowProofs, FunctionTheorems

-----------------------------------------------------------------------------
(* The chain has no holes.                                                 *)

\* Which indices a log has in which table.
LEMMA IndicesOf ==
    ASSUME NEW l \in Log, NEW i \in Int
    PROVE  /\ HasIndex(l, "enqueue", i) <=>
                  l.kind = "TransactionEnqueued" /\ i = l.queueIndex
           /\ HasIndex(l, "batch:transaction", i) <=>
                  l.kind \in TransactionBatchKinds /\ i = l.batchIndex
           /\ HasIndex(l, "transaction", i) <=>
                  /\ l.kind \in TransactionBatchKinds
                  /\ i \in l.prev .. l.prev + Len(l.shape) - 1
           /\ HasIndex(l, "batch:stateroot", i) <=>
                  l.kind = "StateBatchAppended" /\ i = l.batchIndex
           /\ HasIndex(l, "stateroot", i) <=>
                  /\ l.kind = "StateBatchAppended"
                  /\ i \in l.prev .. l.prev + l.size - 1
<1>1. /\ EntriesOf(l, "enqueue") =
             IF l.kind = "TransactionEnqueued"
             THEN {[index |-> l.queueIndex, blockNumber |-> l.block]} ELSE {}
      /\ EntriesOf(l, "batch:transaction") =
             IF l.kind \in TransactionBatchKinds
             THEN {TransactionBatchEntry(l)} ELSE {}
      /\ EntriesOf(l, "transaction") =
             IF l.kind \in TransactionBatchKinds
             THEN TransactionEntries(l) ELSE {}
      /\ EntriesOf(l, "batch:stateroot") =
             IF l.kind = "StateBatchAppended"
             THEN {StateRootBatchEntry(l)} ELSE {}
      /\ EntriesOf(l, "stateroot") =
             IF l.kind = "StateBatchAppended"
             THEN StateRootEntries(l) ELSE {}
    BY DEF EntriesOf
<1>2. ASSUME l.kind \in TransactionBatchKinds
      PROVE  (\E f \in TransactionEntries(l) : f.index = i) <=>
                 i \in l.prev .. l.prev + Len(l.shape) - 1
    <2>1. l.prev \in Nat /\ Len(l.shape) \in Nat
        BY <1>2, LogOfKind, ShapeType DEF TransactionBatchLog
    <2>2. (\E f \in TransactionEntries(l) : f.index = i) <=>
              \E k \in 1 .. Len(l.shape) : i = l.prev + k - 1
        <3> DEFINE tx(k) == [index |-> TransactionIndex(l, k),
                             batchIndex |-> l.batchIndex,
                             queueOrigin |-> l.shape[k],
                             queueIndex |-> QueueIndex(l, k)]
        <3>1. TransactionEntries(l) = {tx(k) : k \in 1 .. Len(l.shape)}
            BY DEF TransactionEntries
        <3>2. \A k : tx(k).index = l.prev + k - 1
            BY DEF TransactionIndex
        <3> HIDE DEF tx
        <3> QED
            BY <3>1, <3>2
    <2>3. ASSUME i \in l.prev .. l.prev + Len(l.shape) - 1
          PROVE  \E k \in 1 .. Len(l.shape) : i = l.prev + k - 1
        <3>1. /\ i - l.prev + 1 \in 1 .. Len(l.shape)
              /\ i = l.prev + (i - l.prev + 1) - 1
            BY <2>1, <2>3
        <3> QED
            BY <3>1
    <2> QED
        BY <2>1, <2>2, <2>3
<1>3. ASSUME l.kind = "StateBatchAppended"
      PROVE  (\E f \in StateRootEntries(l) : f.index = i) <=>
                 i \in l.prev .. l.prev + l.size - 1
    <2>1. l.prev \in Nat /\ l.size \in Nat
        BY <1>3, LogOfKind DEF StateBatchLog
    <2>2. (\E f \in StateRootEntries(l) : f.index = i) <=>
              \E k \in 0 .. l.size - 1 : i = l.prev + k
        <3> DEFINE root(k) == [index |-> l.prev + k,
                               batchIndex |-> l.batchIndex]
        <3>1. StateRootEntries(l) = {root(k) : k \in 0 .. l.size - 1}
            BY DEF StateRootEntries
        <3>2. \A k : root(k).index = l.prev + k
            OBVIOUS
        <3> HIDE DEF root
        <3> QED
            BY <3>1, <3>2
    <2>3. ASSUME i \in l.prev .. l.prev + l.size - 1
          PROVE  \E k \in 0 .. l.size - 1 : i = l.prev + k
        <3>1. i - l.prev \in 0 .. l.size - 1 /\ i = l.prev + (i - l.prev)
            BY <2>1, <2>3
        <3> QED
            BY <3>1
    <2> QED
        BY <2>1, <2>2, <2>3
<1>4. /\ TransactionBatchEntry(l).index = l.batchIndex
      /\ StateRootBatchEntry(l).index = l.batchIndex
      /\ [index |-> l.queueIndex, blockNumber |-> l.block].index = l.queueIndex
    BY DEF TransactionBatchEntry, StateRootBatchEntry
<1>5. /\ \A f : f \in {TransactionBatchEntry(l)} => f.index = l.batchIndex
      /\ \A f : f \in {StateRootBatchEntry(l)} => f.index = l.batchIndex
    BY <1>4
<1>6. /\ HasIndex(l, "enqueue", i) <=>
             l.kind = "TransactionEnqueued" /\ i = l.queueIndex
      /\ HasIndex(l, "batch:transaction", i) <=>
             l.kind \in TransactionBatchKinds /\ i = l.batchIndex
      /\ HasIndex(l, "batch:stateroot", i) <=>
             l.kind = "StateBatchAppended" /\ i = l.batchIndex
    BY <1>1, <1>4, <1>5 DEF HasIndex
<1> QED
    BY <1>1, <1>2, <1>3, <1>6 DEF HasIndex

\* End is the largest number of a set, or 0.
LEMMA EndReached ==
    ASSUME NEW S, NEW n \in End(S)
    PROVE  n = 0 \/ n \in S
    BY DEF End

\* Every index below the next one is taken.
LEMMA TakenBelow ==
    ASSUME ChainTypeOK, ChainDense, NEW t \in Tables, NEW m \in logs,
           NEW j \in Nat, HasIndex(m, t, j), NEW i \in 0 .. j
    PROVE  \E k \in logs : HasIndex(k, t, i)
    BY DEF ChainDense, HasIndex, IndexBefore

LEMMA NextTaken ==
    ASSUME ChainTypeOK, ChainDense, NEW i \in Nat, NEW n, i < n
    PROVE  /\ n \in NextQueueIndex =>
                  \E m \in logs : HasIndex(m, "enqueue", i)
           /\ n \in NextBatchIndex(TransactionBatches) =>
                  \E m \in logs : HasIndex(m, "batch:transaction", i)
           /\ n \in TotalElements(TransactionBatches) =>
                  \E m \in logs : HasIndex(m, "transaction", i)
           /\ n \in NextBatchIndex(StateBatches) =>
                  \E m \in logs : HasIndex(m, "batch:stateroot", i)
           /\ n \in TotalStates =>
                  \E m \in logs : HasIndex(m, "stateroot", i)
<1>log. /\ \A m \in Enqueued : /\ m \in logs /\ m \in Log /\ m.queueIndex \in Nat
                               /\ m.kind = "TransactionEnqueued"
        /\ \A m \in TransactionBatches :
               /\ m \in logs /\ m \in Log /\ m.batchIndex \in Nat
               /\ m.prev \in Nat /\ Len(m.shape) \in Nat /\ Len(m.shape) > 0
               /\ m.kind \in TransactionBatchKinds
        /\ \A m \in StateBatches :
               /\ m \in logs /\ m \in Log /\ m.batchIndex \in Nat
               /\ m.prev \in Nat /\ m.size \in Nat /\ m.size > 0
               /\ m.kind = "StateBatchAppended"
    <2>1. \A m \in TransactionBatches : Len(m.shape) \in Nat /\ Len(m.shape) > 0
        <3> SUFFICES ASSUME NEW m \in TransactionBatches
                     PROVE  Len(m.shape) \in Nat /\ Len(m.shape) > 0
            OBVIOUS
        <3>1. m.shape \in Shapes
            BY LogSets DEF TransactionBatchLog
        <3>2. m.shape \in Seq(QueueOrigins) /\ m.shape # <<>>
            BY <3>1, L1ChainAssumption
        <3> QED
            BY <3>2
    <2>2. \A m \in StateBatches : m.size > 0
        BY DEF ChainDense
    <2> QED
        BY <2>1, <2>2, LogSets
        DEF Enqueued, TransactionBatches, StateBatches, OfKind, ChainTypeOK,
            EnqueuedLog, TransactionBatchLog, StateBatchLog
<1>end. ASSUME NEW S, n \in End(S)
        PROVE  n \in S
    BY <1>end, EndReached
<1>top. ASSUME NEW t \in Tables, NEW m \in logs, NEW j \in Nat,
               HasIndex(m, t, j), i <= j
        PROVE  \E k \in logs : HasIndex(k, t, i)
    BY <1>top, TakenBelow
<1>1. ASSUME n \in NextQueueIndex
      PROVE  \E m \in logs : HasIndex(m, "enqueue", i)
    <2>1. PICK m \in Enqueued : n = m.queueIndex + 1
        BY <1>1, <1>end DEF NextQueueIndex
    <2>2. HasIndex(m, "enqueue", m.queueIndex)
        BY <1>log, IndicesOf
    <2> QED
        BY <1>log, <1>top, <2>1, <2>2 DEF Tables
<1>2. ASSUME n \in NextBatchIndex(TransactionBatches)
      PROVE  \E m \in logs : HasIndex(m, "batch:transaction", i)
    <2>1. PICK m \in TransactionBatches : n = m.batchIndex + 1
        BY <1>2, <1>end DEF NextBatchIndex
    <2>2. HasIndex(m, "batch:transaction", m.batchIndex)
        BY <1>log, IndicesOf
    <2> QED
        BY <1>log, <1>top, <2>1, <2>2 DEF Tables
<1>3. ASSUME n \in TotalElements(TransactionBatches)
      PROVE  \E m \in logs : HasIndex(m, "transaction", i)
    <2>1. PICK m \in TransactionBatches : n = m.prev + Len(m.shape)
        BY <1>3, <1>end DEF TotalElements
    <2>2. PICK j \in Nat : j = m.prev + Len(m.shape) - 1
        BY <1>log
    <2>3. j \in m.prev .. m.prev + Len(m.shape) - 1 /\ i <= j
        BY <1>log, <2>1, <2>2
    <2>4. HasIndex(m, "transaction", j)
        BY <1>log, <2>3, IndicesOf
    <2> QED
        BY <1>log, <1>top, <2>3, <2>4 DEF Tables
<1>4. ASSUME n \in NextBatchIndex(StateBatches)
      PROVE  \E m \in logs : HasIndex(m, "batch:stateroot", i)
    <2>1. PICK m \in StateBatches : n = m.batchIndex + 1
        BY <1>4, <1>end DEF NextBatchIndex
    <2>2. HasIndex(m, "batch:stateroot", m.batchIndex)
        BY <1>log, IndicesOf
    <2> QED
        BY <1>log, <1>top, <2>1, <2>2 DEF Tables
<1>5. ASSUME n \in TotalStates
      PROVE  \E m \in logs : HasIndex(m, "stateroot", i)
    <2>1. PICK m \in StateBatches : n = m.prev + m.size
        BY <1>5, <1>end DEF TotalStates
    <2>2. PICK j \in Nat : j = m.prev + m.size - 1
        BY <1>log
    <2>3. j \in m.prev .. m.prev + m.size - 1 /\ i <= j
        BY <1>log, <2>1, <2>2
    <2>4. HasIndex(m, "stateroot", j)
        BY <1>log, <2>3, IndicesOf
    <2> QED
        BY <1>log, <1>top, <2>3, <2>4 DEF Tables
<1> QED
    BY <1>1, <1>2, <1>3, <1>4, <1>5

\* A log that continues the numbering keeps the chain dense.
LEMMA ChainDenseEmit ==
    ASSUME ChainTypeOK, ChainUnique, ChainOrder, ChainDense,
           NEW l \in Log, Emit(l), l.pos \in NextPos,
           l.kind \in Kinds \cup {"AddressSet"},
           l.kind = "StateBatchAppended" => l.size > 0,
           \A t \in Tables : \A e \in EntriesOf(l, t) : \A i \in 0 .. e.index :
               HasIndex(l, t, i) \/ \E m \in logs : HasIndex(m, t, i),
           \A tx \in EntriesOf(l, "transaction") :
               tx.queueOrigin = "l1" =>
                   \E m \in logs : HasIndex(m, "enqueue", tx.queueIndex),
           \A r \in EntriesOf(l, "stateroot") :
               \E m \in logs : HasIndex(m, "transaction", r.index)
    PROVE  ChainDense'
<1>1. \A m \in logs : m.pos < l.pos
    BY NewPosition
<1>2. logs' = logs \cup {l}
    BY DEF Emit
<1>3. \A m, t, i : HasIndex(m, t, i)' <=> HasIndex(m, t, i)
    BY EntriesOfRigid DEF HasIndex
<1>4. \A m, t, i : IndexBefore(m, t, i) => IndexBefore(m, t, i)'
    BY <1>2, <1>3 DEF IndexBefore
<1>5. \A t, i : (\E m \in logs : HasIndex(m, t, i)) => IndexBefore(l, t, i)'
    BY <1>1, <1>2, <1>3 DEF IndexBefore
<1>6. \A m \in logs' : m.kind \in Kinds \cup {"AddressSet"}
    BY <1>2 DEF ChainDense
<1>7. \A m \in StateBatches' : m.size > 0
    BY <1>2 DEF ChainDense, StateBatches, OfKind
<1>8. ASSUME NEW m \in logs', NEW t \in Tables, NEW e \in EntriesOf(m, t),
             NEW i \in 0 .. e.index
      PROVE  HasIndex(m, t, i)' \/ IndexBefore(m, t, i)'
    <2>1. CASE m \in logs
        BY <1>3, <1>4, <1>8, <2>1 DEF ChainDense
    <2>2. CASE m = l
        BY <1>3, <1>5, <1>8, <2>2
    <2> QED
        BY <1>2, <2>1, <2>2
<1>9. ASSUME NEW m \in logs', NEW tx \in EntriesOf(m, "transaction"),
             tx.queueOrigin = "l1"
      PROVE  IndexBefore(m, "enqueue", tx.queueIndex)'
    <2>1. CASE m \in logs
        BY <1>4, <1>9, <2>1 DEF ChainDense
    <2>2. CASE m = l
        BY <1>5, <1>9, <2>2
    <2> QED
        BY <1>2, <2>1, <2>2
<1>10. ASSUME NEW m \in logs', NEW r \in EntriesOf(m, "stateroot")
       PROVE  IndexBefore(m, "transaction", r.index)'
    <2>1. CASE m \in logs
        BY <1>4, <1>10, <2>1 DEF ChainDense
    <2>2. CASE m = l
        BY <1>5, <1>10, <2>2
    <2> QED
        BY <1>2, <2>1, <2>2
<1> QED
    BY <1>6, <1>7, <1>8, <1>9, <1>10, EntriesOfRigid DEF ChainDense, Tables

\* A reorganisation leaves what comes before a log that it leaves.
LEMMA ChainDenseReorg ==
    ASSUME ChainTypeOK, ChainOrder, ChainDense, Reorg
    PROVE  ChainDense'
<1>1. PICK h \in final .. tip - 1 : logs' = {l \in logs : l.block <= h}
    BY DEF Reorg
<1>2. h \in Int /\ \A l \in logs : l.pos \in Nat /\ l.block \in Nat
    BY LogOfKind DEF ChainTypeOK
<1>3. \A m, t, i : HasIndex(m, t, i)' <=> HasIndex(m, t, i)
    BY EntriesOfRigid DEF HasIndex
<1>4. \A l \in logs', m \in logs : m.pos < l.pos => m \in logs'
    BY <1>1, <1>2 DEF ChainOrder, Ordered
<1>5. \A t, i : \A l \in logs' : IndexBefore(l, t, i) => IndexBefore(l, t, i)'
    BY <1>3, <1>4 DEF IndexBefore
<1>6. logs' \subseteq logs
    BY <1>1
<1>7. StateBatches' \subseteq StateBatches
    BY <1>6 DEF StateBatches, OfKind
<1> QED
    BY <1>3, <1>5, <1>6, <1>7, EntriesOfRigid DEF ChainDense, Tables

\* The records of a log that is not of their kind.
LEMMA NoEntries ==
    ASSUME NEW l
    PROVE  /\ l.kind \notin TransactionBatchKinds =>
                  EntriesOf(l, "transaction") = {}
           /\ l.kind # "StateBatchAppended" => EntriesOf(l, "stateroot") = {}
           /\ l.kind = "AddressSet" => \A t : EntriesOf(l, t) = {}
    BY DEF EntriesOf, TransactionBatchKinds

LEMMA ChainDenseBatch ==
    ASSUME ChainTypeOK, ChainUnique, ChainOrder, ChainDense,
           NEW kind \in TransactionBatchKinds, NEW shape \in Shapes,
           AppendTransactionBatch(kind, shape)
    PROVE  ChainDense'
<1>0. PICK a \in Registered(CTC), pos \in NextPos,
           b \in NextBatchIndex(TransactionBatches),
           prev \in TotalElements(TransactionBatches),
           queueStart \in NextToDequeue, queueEnd \in NextQueueIndex :
          /\ queueStart + NumQueued(shape) <= queueEnd
          /\ Emit([pos |-> pos, block |-> tip + 1, kind |-> kind,
                   address |-> a, batchIndex |-> b, prev |-> prev,
                   shape |-> shape, queueStart |-> queueStart])
    BY DEF AppendTransactionBatch
<1> DEFINE l == [pos |-> pos, block |-> tip + 1, kind |-> kind,
                 address |-> a, batchIndex |-> b, prev |-> prev,
                 shape |-> shape, queueStart |-> queueStart]
<1>1. /\ a \in Addresses /\ pos \in Nat /\ b \in Nat /\ prev \in Nat
      /\ queueStart \in Nat /\ queueEnd \in Nat /\ tip + 1 \in Nat
      /\ kind \in Kinds
    BY NextTypes DEF AppendTransactionBatch, CanEmit, ChainTypeOK
<1>2. l \in TransactionBatchLog
    BY <1>1 DEF TransactionBatchLog
<1>3. /\ Emit(l) /\ l.pos = pos /\ l.kind = kind /\ l.batchIndex = b
      /\ l.prev = prev /\ l.shape = shape /\ l.queueStart = queueStart
      /\ l \in Log
    BY <1>0, <1>2 DEF Log
<1> HIDE DEF l
<1>4. ASSUME NEW t \in Tables, NEW e \in EntriesOf(l, t),
             NEW i \in 0 .. e.index
      PROVE  HasIndex(l, t, i) \/ \E m \in logs : HasIndex(m, t, i)
    <2>1. e.index \in Nat /\ HasIndex(l, t, e.index)
        BY <1>3, EntriesOfType DEF HasIndex
    <2>2. /\ kind # "TransactionEnqueued" /\ kind # "StateBatchAppended"
          /\ Len(shape) \in Nat
        BY <1>2, <1>3, ShapeType DEF TransactionBatchKinds
    <2>3. CASE t = "batch:transaction"
        <3>1. e.index = b
            BY <1>3, <2>1, <2>3, IndicesOf
        <3>2. CASE i = b
            BY <2>1, <3>1, <3>2
        <3>3. CASE i < b
            BY <1>1, <2>1, <2>3, <3>3, NextTaken
        <3> QED
            BY <1>1, <2>1, <3>1, <3>2, <3>3
    <2>4. CASE t = "transaction"
        <3>1. e.index \in prev .. prev + Len(shape) - 1
            BY <1>3, <2>1, <2>4, IndicesOf
        <3>2. CASE prev <= i
            <4>1. i \in prev .. prev + Len(shape) - 1
                BY <1>1, <2>1, <2>2, <3>1, <3>2
            <4> QED
                BY <1>3, <2>4, <4>1, IndicesOf
        <3>3. CASE i < prev
            BY <1>1, <2>1, <2>4, <3>3, NextTaken
        <3> QED
            BY <1>1, <2>1, <3>2, <3>3
    <2> QED
        BY <1>3, <2>1, <2>2, <2>3, <2>4, IndicesOf DEF Tables
<1>5. ASSUME NEW tx \in EntriesOf(l, "transaction"), tx.queueOrigin = "l1"
      PROVE  \E m \in logs : HasIndex(m, "enqueue", tx.queueIndex)
    <2>1. PICK k \in 1 .. Len(shape) :
              /\ tx = [index |-> TransactionIndex(l, k),
                       batchIndex |-> l.batchIndex,
                       queueOrigin |-> l.shape[k],
                       queueIndex |-> QueueIndex(l, k)]
        BY <1>3 DEF EntriesOf, TransactionEntries
    <2>2. shape[k] = "l1" /\ tx.queueIndex = QueueIndex(l, k)
        BY <1>3, <1>5, <2>1
    <2>3. tx.queueIndex = queueStart + NumQueued(SubSeq(shape, 1, k - 1))
        BY <1>3, <2>2 DEF QueueIndex
    <2>4. /\ NumQueued(SubSeq(shape, 1, k - 1)) \in Nat
          /\ NumQueued(shape) \in Nat
          /\ NumQueued(SubSeq(shape, 1, k - 1)) < NumQueued(shape)
        <3>1. shape \in Seq(QueueOrigins)
            BY L1ChainAssumption
        <3> QED
            BY <2>2, <3>1, NumQueuedBefore
    <2>5. tx.queueIndex \in Nat /\ tx.queueIndex < queueEnd
        BY <1>0, <1>1, <2>3, <2>4
    <2> QED
        BY <2>5, NextTaken
<1>6. EntriesOf(l, "stateroot") = {}
    BY <1>3, NoEntries DEF TransactionBatchKinds
<1> QED
    BY <1>1, <1>3, <1>4, <1>5, <1>6, ChainDenseEmit DEF TransactionBatchKinds

LEMMA ChainDenseStep ==
    ASSUME ChainTypeOK, ChainUnique, ChainOrder, ChainDense, ChainStep \/ Reorg
    PROVE  ChainDense'
<1>1. CASE SetAddress
    <2>0. PICK name \in Upgradable, pos \in NextPos :
              \E a \in Addresses \ Registered(name) :
                  Emit([pos |-> pos, block |-> tip + 1,
                        kind |-> "AddressSet", name |-> name,
                        newAddress |-> a])
        BY <1>1 DEF SetAddress
    <2>1. PICK a \in Addresses \ Registered(name) :
              Emit([pos |-> pos, block |-> tip + 1, kind |-> "AddressSet",
                    name |-> name, newAddress |-> a])
        BY <2>0
    <2> DEFINE l == [pos |-> pos, block |-> tip + 1, kind |-> "AddressSet",
                     name |-> name, newAddress |-> a]
    <2>2. pos \in Nat /\ name \in ContractNames /\ tip + 1 \in Nat
        BY NextTypes, L1ChainAssumption DEF ChainTypeOK
    <2>3. l \in Log
        BY <2>2 DEF AddressSetLog, Log
    <2>4. Emit(l) /\ l.pos = pos /\ l.kind = "AddressSet"
        BY <2>1
    <2> HIDE DEF l
    <2>5. \A t : EntriesOf(l, t) = {}
        BY <2>4, NoEntries
    <2> QED
        BY <2>3, <2>4, <2>5, ChainDenseEmit
<1>2. CASE Enqueue
    <2>1. PICK a \in Registered(CTC), pos \in NextPos, q \in NextQueueIndex :
              Emit([pos |-> pos, block |-> tip + 1,
                    kind |-> "TransactionEnqueued", address |-> a,
                    queueIndex |-> q])
        BY <1>2 DEF Enqueue
    <2> DEFINE l == [pos |-> pos, block |-> tip + 1,
                     kind |-> "TransactionEnqueued", address |-> a,
                     queueIndex |-> q]
    <2>2. /\ pos \in Nat /\ q \in Nat /\ a \in Addresses /\ tip + 1 \in Nat
          /\ "TransactionEnqueued" \in Kinds
        BY <1>2, NextTypes DEF ChainTypeOK, Enqueue, CanEmit
    <2>3. l \in Log
        BY <2>2 DEF EnqueuedLog, Log
    <2>4. /\ Emit(l) /\ l.pos = pos /\ l.kind = "TransactionEnqueued"
          /\ l.queueIndex = q
        BY <2>1
    <2> HIDE DEF l
    <2>5. /\ EntriesOf(l, "transaction") = {} /\ EntriesOf(l, "stateroot") = {}
        BY <2>4, NoEntries DEF TransactionBatchKinds
    <2>6. ASSUME NEW t \in Tables, NEW e \in EntriesOf(l, t),
                 NEW i \in 0 .. e.index
          PROVE  HasIndex(l, t, i) \/ \E m \in logs : HasIndex(m, t, i)
        <3>1. e.index \in Nat /\ HasIndex(l, t, e.index)
            BY <2>3, EntriesOfType DEF HasIndex
        <3>2. t = "enqueue" /\ e.index = q
            BY <2>3, <2>4, <3>1, IndicesOf DEF Tables, TransactionBatchKinds
        <3>3. CASE i = q
            BY <3>1, <3>2, <3>3
        <3>4. CASE i < q
            BY <2>2, <3>1, <3>2, <3>4, NextTaken
        <3> QED
            BY <2>2, <3>1, <3>2, <3>3, <3>4
    <2> QED
        BY <2>2, <2>3, <2>4, <2>5, <2>6, ChainDenseEmit
<1>3. CASE AppendSequencerBatch \/ AppendQueueBatch
    <2>1. \E shape \in Shapes, kind \in TransactionBatchKinds :
              AppendTransactionBatch(kind, shape)
        BY <1>3
        DEF AppendSequencerBatch, AppendQueueBatch, TransactionBatchKinds
    <2> QED
        BY <2>1, ChainDenseBatch
<1>4. CASE AppendStateBatch
    <2>0. PICK a \in Registered(SCC), pos \in NextPos,
               b \in NextBatchIndex(StateBatches), prev \in TotalStates,
               total \in TotalElements(TransactionBatches) :
              \E size \in 1 .. total - prev :
                 Emit([pos |-> pos, block |-> tip + 1,
                       kind |-> "StateBatchAppended", address |-> a,
                       batchIndex |-> b, prev |-> prev, size |-> size])
        BY <1>4 DEF AppendStateBatch
    <2>1. PICK size \in 1 .. total - prev :
             Emit([pos |-> pos, block |-> tip + 1,
                   kind |-> "StateBatchAppended", address |-> a,
                   batchIndex |-> b, prev |-> prev, size |-> size])
        BY <2>0
    <2> DEFINE l == [pos |-> pos, block |-> tip + 1,
                     kind |-> "StateBatchAppended", address |-> a,
                     batchIndex |-> b, prev |-> prev, size |-> size]
    <2>2. /\ pos \in Nat /\ b \in Nat /\ prev \in Nat /\ total \in Nat
          /\ a \in Addresses /\ tip + 1 \in Nat
          /\ "StateBatchAppended" \in Kinds
        BY <1>4, NextTypes DEF ChainTypeOK, AppendStateBatch, CanEmit
    <2>3. size \in Nat /\ size > 0 /\ prev + size <= total
        BY <2>2
    <2>4. l \in Log
        BY <2>2, <2>3 DEF StateBatchLog, Log
    <2>5. /\ Emit(l) /\ l.pos = pos /\ l.kind = "StateBatchAppended"
          /\ l.batchIndex = b /\ l.prev = prev /\ l.size = size
        BY <2>1
    <2> HIDE DEF l
    <2>6. EntriesOf(l, "transaction") = {}
        BY <2>5, NoEntries DEF TransactionBatchKinds
    <2>7. ASSUME NEW t \in Tables, NEW e \in EntriesOf(l, t),
                 NEW i \in 0 .. e.index
          PROVE  HasIndex(l, t, i) \/ \E m \in logs : HasIndex(m, t, i)
        <3>1. e.index \in Nat /\ HasIndex(l, t, e.index)
            BY <2>4, EntriesOfType DEF HasIndex
        <3>2. CASE t = "batch:stateroot"
            <4>1. e.index = b
                BY <2>4, <2>5, <3>1, <3>2, IndicesOf
            <4>2. CASE i = b
                BY <3>1, <4>1, <4>2
            <4>3. CASE i < b
                BY <2>2, <3>1, <3>2, <4>3, NextTaken
            <4> QED
                BY <2>2, <3>1, <4>1, <4>2, <4>3
        <3>3. CASE t = "stateroot"
            <4>1. e.index \in prev .. prev + size - 1
                BY <2>4, <2>5, <3>1, <3>3, IndicesOf
            <4>2. CASE prev <= i
                <5>1. i \in prev .. prev + size - 1
                    BY <2>2, <2>3, <3>1, <4>1, <4>2
                <5> QED
                    BY <2>4, <2>5, <3>3, <5>1, IndicesOf
            <4>3. CASE i < prev
                BY <2>2, <3>1, <3>3, <4>3, NextTaken
            <4> QED
                BY <2>2, <3>1, <4>2, <4>3
        <3> QED
            BY <2>4, <2>5, <3>1, <3>2, <3>3, IndicesOf
            DEF Tables, TransactionBatchKinds
    <2>8. ASSUME NEW r \in EntriesOf(l, "stateroot")
          PROVE  \E m \in logs : HasIndex(m, "transaction", r.index)
        <3>1. r.index \in Nat /\ HasIndex(l, "stateroot", r.index)
            BY <2>4, EntriesOfType DEF HasIndex, Tables
        <3>2. r.index \in prev .. prev + size - 1
            BY <2>4, <2>5, <3>1, IndicesOf
        <3>3. r.index < total
            BY <2>2, <2>3, <3>1, <3>2
        <3> QED
            BY <3>1, <3>3, NextTaken
    <2> QED
        BY <2>2, <2>3, <2>4, <2>5, <2>6, <2>7, <2>8, ChainDenseEmit
<1>5. CASE Mine
    <2>1. logs' = logs
        BY <1>5 DEF Mine
    <2>2. \A m, t, i : /\ HasIndex(m, t, i)' <=> HasIndex(m, t, i)
                       /\ IndexBefore(m, t, i)' <=> IndexBefore(m, t, i)
        BY <2>1, EntriesOfRigid DEF HasIndex, IndexBefore
    <2> QED
        BY <2>1, <2>2, EntriesOfRigid
        DEF ChainDense, StateBatches, OfKind, Tables
<1>6. CASE Reorg
    BY <1>6, ChainDenseReorg
<1> QED
    BY <1>1, <1>2, <1>3, <1>4, <1>5, <1>6 DEF ChainStep

-----------------------------------------------------------------------------
(* The events of a call are stored in their order.                         *)

\* A range that ends before an address change, or with the window, holds
\* nothing that comes after an event that is still ahead.
LEMMA PushInOrder ==
    ASSUME IndexInv, QueueTakenOnce, ChainOrder, WindowInv, L1Step,
           PushAddressRange \/ PushLastRange,
           NEW m \in Promised, NEW l \in logs, l.kind # "AddressSet",
           ContractOf(l) = ContractOf(m),
           m.kind = Syncs[sync].event, m.pos < l.pos,
           Covered(m, to), ~Recorded(m), ~Recorded(m)',
           InRange(l, ranges'[Len(ranges')])
    PROVE  \E j \in 1 .. Len(ranges') : InRange(m, ranges'[j])
<1>type. /\ TypeOK /\ ChainTypeOK /\ ChainUnique /\ sync \in 1 .. 3
         /\ pc = "ranges" /\ startBlock = DeployBlock /\ 0 <= from
         /\ from \in Int /\ to \in Int /\ rangeStart \in Int
         /\ m \in logs /\ m.block \in Nat /\ m.pos \in Nat
         /\ l.block \in Nat /\ l.pos \in Nat
    BY LogOfKind, PromisedSync
    DEF IndexInv, ImmutableInv, FinalInv, TypeInv, TypeOK, ControlOK,
        ChainTypeOK, PushAddressRange, PushLastRange, WindowInv, StartKnown,
        InWindow
<1>1. UNCHANGED <<logs, sync, from, to>> /\ pc' \in {"ranges", "query"}
    BY DEF PushAddressRange, PushLastRange, chainVars, pollVars
<1>2. Waiting(m)'
    <2>1. Waiting(m) /\ ~Covered(m, from)
        BY <1>type DEF WindowInv, NothingLost, InWindow
    <2> QED
        BY <1>type, <1>1, <2>1, WaitingKept DEF InWindow
<1>3. \/ \E j \in 1 .. Len(ranges') : InRange(m, ranges'[j])
      \/ pc' = "ranges" /\ Ahead(m)'
    <2>1. ~\E j \in sync + 1 .. 3 : m.kind = Syncs[j].event
        BY <1>type, SyncOf
    <2> QED
        BY <1>1, <1>2, <2>1 DEF Waiting, InRange
<1>4. ASSUME pc' = "ranges", Ahead(m)'
      PROVE  FALSE
    <2>0. PushAddressRange
        BY <1>4 DEF PushLastRange
    <2>1. PICK s \in addressSets :
              /\ IsFirst(s, addressSets)
              /\ PushEventRange(s.block)
              /\ rangeStart' = s.block
              /\ addressSets' = addressSets \ {s}
        BY <2>0 DEF PushAddressRange, RangeStartAfter
    <2> DEFINE S == AddressSets(ContractOf(m))
    <2>2. S = AddressSets(Syncs[sync].contract)
        BY <1>type, SyncOf
    <2>3. /\ s \in S /\ s \in logs /\ s.block \in Nat /\ s.pos \in Nat
          /\ rangeStart <= s.block /\ s.block <= to /\ from <= rangeStart
        BY <1>type, <2>1, <2>2, AddressSetsAre DEF WindowInv, RangesOK
    <2>4. PICK n, T : n = s.block /\ T = S
        OBVIOUS
    <2>5. /\ ranges'[Len(ranges')].toBlock = n
          /\ RightAddress(ranges'[Len(ranges')].address, T, n)
        <3>1. n \in Int /\ n <= to /\ PushEventRange(n) /\ 0 <= rangeStart
            BY <1>type, <2>1, <2>3, <2>4
        <3>2. T = AddressSets(Syncs[sync].contract)
            BY <2>2, <2>4
        <3> QED
            BY <1>type, <3>1, <3>2, RangeAppended DEF WindowInv
    <2>6. l.address = ranges'[Len(ranges')].address /\ l.block <= n
        BY <2>5 DEF InRange
    <2>7. s.block <= m.block
        BY <1>4, <2>1 DEF Ahead
    <2>8. m.block <= l.block
        BY <1>type DEF ChainOrder, Ordered
    <2>9. l.block = n
        BY <1>type, <2>3, <2>4, <2>6, <2>7, <2>8
    <2>10. l.pos < s.pos
        <3>1. RightAddress(l.address, AddressSets(ContractOf(l)), n)
            BY <2>4, <2>5, <2>6
        <3>2. s \in AddressSets(ContractOf(l)) /\ s.block = n /\ n \in Int
            BY <2>3, <2>4
        <3> QED
            BY <1>type, <2>9, <3>1, <3>2, EventBeforeMove
    <2>11. s \in AddressSets(ContractOf(m))'
        BY <1>1, <2>3 DEF AddressSets, OfKind, ContractOf
    <2>12. from <= s.block /\ m.pos < s.pos
        BY <1>type, <2>3, <2>10
    <2>13. s \in addressSets'
        BY <1>1, <1>4, <2>3, <2>11, <2>12 DEF Ahead
    <2> QED
        BY <2>1, <2>13
<1> QED
    BY <1>3, <1>4

\* What the window holds of the running call was on the chain before.
LEMMA HeldBefore ==
    ASSUME IndexInv, ChainOrder, WindowInv, L1Step, UNCHANGED to,
           NEW l \in Promised',
           l \in events' \/ \E i \in 1 .. Len(ranges') : InRange(l, ranges'[i])
    PROVE  l \in Promised
<1>type. /\ TypeInv /\ ChainTypeOK /\ to \in Int /\ to <= final /\ final \in Int
    BY DEF IndexInv, ImmutableInv, FinalInv, TypeInv, TypeOK, ChainTypeOK,
           WindowFinal
<1>1. l \in logs' /\ l.block \in Nat
    <2>1. TypeInv'
        BY <1>type, TypeInvStep
    <2>2. \A m \in logs' : m.block \in Nat
        BY <2>1, LogOfKind DEF TypeInv, TypeOK, ChainTypeOK
    <2> QED
        BY <2>2 DEF Promised, OfKind
<1>2. l \in logs
    <2>1. CASE \E i \in 1 .. Len(ranges') : InRange(l, ranges'[i])
        <3>1. PICK i \in 1 .. Len(ranges') : InRange(l, ranges'[i])
            BY <2>1
        <3>2. RangesOK'
            BY RangesOKStep
            DEF IndexInv, ImmutableInv, FinalInv, WindowInv
        <3>3. ranges'[i].toBlock <= to'
            BY <3>2 DEF RangesOK
        <3>4. ranges'[i].toBlock \in Int
            <4>1. ranges' \in Seq(EventRange)
                BY <1>type, TypeInvStep DEF TypeInv, TypeOK
            <4>2. ranges'[i] \in EventRange
                BY <4>1
            <4> QED
                BY <4>2 DEF EventRange
        <3>5. PICK k : k = ranges'[i].toBlock
            OBVIOUS
        <3>6. l.block <= k /\ k <= to /\ k \in Int
            BY <3>1, <3>3, <3>4, <3>5 DEF InRange
        <3>7. l.block <= to
            BY <1>1, <1>type, <3>6
        <3> QED
            BY <1>1, <1>type, <3>7, BelowFinal
    <2>2. CASE l \in events'
        <3>1. CASE QueryEvents
            <4>1. logs' = logs
                BY <3>1 DEF QueryEvents, chainVars
            <4> QED
                BY <1>1, <4>1
        <3>2. CASE ~QueryEvents
            <4>1. events' \subseteq events
                <5>1. CASE StoreLatestEntry \/ EndStoreBatch
                    BY <5>1 DEF StoreLatestEntry, EndStoreBatch
                <5>2. CASE FinishIteration \/ Interrupted
                    BY <5>2 DEF FinishIteration, Interrupted, EndIteration
                <5> QED
                    BY <3>2, <5>1, <5>2, LoopFrame
            <4> QED
                BY <2>2, <4>1
                DEF IndexInv, ImmutableInv, FinalInv, WindowFinal
        <3> QED
            BY <3>1, <3>2
    <2> QED
        BY <2>1, <2>2
<1> QED
    BY <1>2 DEF Promised, OfKind

LEMMA InOrderStep ==
    ASSUME IndexInv, QueueTakenOnce, ChainOrder, WindowInv, InOrder, L1Step
    PROVE  InOrder'
<1>type. /\ TypeInv /\ TypeOK /\ ChainTypeOK /\ to \in Int /\ to <= final
         /\ ranges \in Seq(EventRange) /\ Len(ranges) \in Nat
         /\ events \subseteq logs
    BY DEF IndexInv, ImmutableInv, FinalInv, TypeInv, TypeOK, WindowFinal
<1> DEFINE Busy == {"event", "store", "latest", "index"}
<1>away. ASSUME pc' \notin Busy, ranges' = <<>>
         PROVE  InOrder'
    BY <1>away DEF InOrder
<1>1. CASE pc' \notin InWindow
    BY <1>1 DEF InOrder
<1>2. CASE Poll
    <2>1. pc = "poll" /\ pc' \in {"sleep", "resolve"} /\ ranges' = ranges
        BY <1>2 DEF Poll
    <2>2. ranges = <<>>
        BY <2>1 DEF WindowInv, RangesOK, InWindow
    <2> QED
        BY <1>away, <2>1, <2>2
<1>3. CASE QueryAddressSets \/ EndSyncEvents
    <2>1. pc' \notin Busy /\ ranges' = <<>>
        BY <1>3
        DEF QueryAddressSets, EndSyncEvents, WindowInv, RangesOK
    <2> QED
        BY <1>away, <2>1
<1>4. CASE ~Poll /\ ~QueryAddressSets /\ ~EndSyncEvents /\ pc' \in InWindow
    <2>1. pc \in InWindow
        BY <1>4, Control
    <2>2. UNCHANGED <<to, sync>>
        <3>1. ~FinishIteration /\ ~Interrupted
            BY <1>4, <2>1 DEF FinishIteration, Interrupted, InWindow
        <3> QED
            BY <1>4, <3>1, LoopFrame
    <2> SUFFICES ASSUME NEW m \in Promised', NEW l \in Promised',
                        m.kind = Syncs[sync].event, l.kind = m.kind,
                        m.pos < l.pos, Covered(m, to)', Missing(m)'
                 PROVE  /\ pc' \in Busy => l \notin events'
                        /\ \A i \in 1 .. Len(ranges') :
                              InRange(l, ranges'[i]) =>
                                  \E j \in 1 .. i : InRange(m, ranges'[j])
        BY <2>2 DEF InOrder, InRange
    <2>3. /\ m \in Promised /\ Covered(m, to) /\ ~Recorded(m)
          /\ ~Recorded(m)' /\ ~(pc' \in Busy /\ m \in events')
          /\ m \in logs
        <3>1. PICK n : n = to
            OBVIOUS
        <3>2. Covered(m, n)'
            BY <2>2, <3>1 DEF Covered
        <3>3. /\ m \in Promised /\ Covered(m, n) /\ m \in logs
              /\ Recorded(m) => Recorded(m)'
            BY <1>type, <3>1, <3>2, CoveredBefore
        <3> QED
            BY <3>1, <3>3 DEF Missing
    <2>4. l \in events' \/ (\E i \in 1 .. Len(ranges') : InRange(l, ranges'[i]))
              => l \in Promised
        BY <2>2, HeldBefore
    <2>5. ASSUME l \in Promised, ~(pc \in Busy /\ m \in events)
          PROVE  /\ pc \in Busy => l \notin events
                 /\ \A i \in 1 .. Len(ranges) :
                       InRange(l, ranges[i]) =>
                           \E j \in 1 .. i : InRange(m, ranges[j])
        BY <2>1, <2>3, <2>5 DEF InOrder, Missing
    <2>6. CASE PushAddressRange \/ PushLastRange
        <3>1. pc = "ranges" /\ pc' \notin Busy
            BY <2>6 DEF PushAddressRange, PushLastRange
        <3>2. PICK range : ranges' = Append(ranges, range)
            BY <2>6 DEF PushAddressRange, PushLastRange, PushEventRange
        <3>3. /\ Len(ranges') = Len(ranges) + 1
              /\ \A i \in 1 .. Len(ranges) : ranges'[i] = ranges[i]
            BY <1>type, <3>2
        <3> SUFFICES ASSUME NEW i \in 1 .. Len(ranges'), InRange(l, ranges'[i])
                     PROVE  \E j \in 1 .. i : InRange(m, ranges'[j])
            BY <3>1
        <3>4. CASE i \in 1 .. Len(ranges)
            <4>1. PICK j \in 1 .. i : InRange(m, ranges[j])
                BY <2>4, <2>5, <3>1, <3>3, <3>4
            <4>2. j \in 1 .. Len(ranges)
                BY <1>type, <3>4
            <4> QED
                BY <3>3, <4>1, <4>2
        <3>5. CASE i = Len(ranges) + 1
            <4>1. sync \in 1 .. 3
                BY <1>type, <2>1 DEF TypeInv, ControlOK, InWindow
            <4>2. l.kind # "AddressSet" /\ ContractOf(l) = ContractOf(m)
                BY <4>1, SyncOf
            <4>3. l \in logs
                BY <2>4, PromisedSync
            <4>4. \E j \in 1 .. Len(ranges') : InRange(m, ranges'[j])
                BY <2>3, <2>6, <3>3, <3>5, <4>2, <4>3, PushInOrder
            <4> QED
                BY <3>3, <3>5, <4>4
        <3> QED
            BY <1>type, <3>3, <3>4, <3>5
    <2>7. CASE QueryEvents
        <3>1. /\ events' = {k \in logs : k.kind = Syncs[sync].event
                                            /\ InRange(k, Head(ranges))}
              /\ ranges # <<>> /\ Head(ranges) = ranges[1]
            BY <1>type, <2>7, QueriedEvents
            DEF WindowInv, IndexInv, ImmutableInv, FinalInv
        <3>2. pc = "query" /\ pc' = "event" /\ ranges' = Tail(ranges)
            BY <2>7 DEF QueryEvents
        <3>3. /\ Len(ranges') = Len(ranges) - 1 /\ 1 \in 1 .. Len(ranges)
              /\ \A i \in 1 .. Len(ranges') :
                    i + 1 \in 1 .. Len(ranges) /\ ranges'[i] = ranges[i + 1]
            BY <1>type, <3>1, <3>2
        <3>4. ~InRange(m, ranges[1])
            BY <2>3, <3>1, <3>2
        <3>5. l \notin events'
            <4>1. ASSUME l \in events'
                  PROVE  \E j \in 1 .. 1 : InRange(m, ranges[j])
                BY <2>4, <2>5, <3>1, <3>2, <3>3, <4>1
            <4> QED
                BY <3>4, <4>1
        <3>6. ASSUME NEW i \in 1 .. Len(ranges'), InRange(l, ranges'[i])
              PROVE  \E j \in 1 .. i : InRange(m, ranges'[j])
            <4>1. PICK j \in 1 .. i + 1 : InRange(m, ranges[j])
                BY <2>4, <2>5, <3>2, <3>3, <3>6
            <4>2. j # 1
                BY <3>4, <4>1
            <4>3. /\ j - 1 \in 1 .. i /\ j - 1 \in 1 .. Len(ranges')
                  /\ (j - 1) + 1 = j
                BY <1>type, <3>3, <4>2
            <4>4. ranges'[j - 1] = ranges[j]
                BY <3>3, <4>3
            <4> QED
                BY <4>1, <4>3, <4>4
        <3> QED
            BY <3>5, <3>6
    <2>8. CASE EndRange
        <3>1. events = {} /\ pc' = "query" /\ ranges' = ranges
            BY <2>8 DEF EndRange, localVars, rangeVars
        <3> QED
            BY <2>4, <2>5, <3>1
    <2>9. CASE ParseEvent \/ StoreEntries \/ StoreCtcIndex
        <3>1. pc \in Busy /\ pc' \in Busy /\ UNCHANGED <<ranges, events>>
            BY <2>9
            DEF ParseEvent, StoreEntries, StoreCtcIndex, localVars,
                rangeVars, eventVars
        <3> QED
            BY <2>3, <2>4, <2>5, <3>1
    <2>10. CASE StoreLatestEntry \/ EndStoreBatch
        <3>1. /\ pc \in Busy /\ pc' \in Busy /\ ranges' = ranges
              /\ events' \subseteq events
              /\ \A k \in events : k \in events' \/ Recorded(k)'
            BY <2>10, DroppedIsRecorded DEF WindowInv
        <3>2. m \notin events
            BY <2>3, <3>1
        <3> QED
            BY <2>4, <2>5, <3>1, <3>2
    <2>11. CASE ChainNext \/ Elsewhere
        <3>1. UNCHANGED <<pc, ranges, events>>
            BY <2>11
            DEF ChainNext, Elsewhere, localVars, rangeVars, eventVars
        <3> QED
            BY <2>3, <2>4, <2>5, <3>1
    <2>12. CASE \/ LoadContracts \/ FindStartingL1Block
                \/ SearchStartingL1Block \/ StoreTotalElements \/ Wake
                \/ FinishIteration \/ Restart \/ Returned \/ Interrupted
        <3>1. pc \notin InWindow \/ pc' \notin InWindow
            BY <2>12
            DEF LoadContracts, FindStartingL1Block, SearchStartingL1Block,
                StoreTotalElements, Wake, FinishIteration, Restart,
                Returned, Interrupted, InWindow
        <3> QED
            BY <1>4, <2>1, <3>1
    <2> QED
        BY <1>4, <2>6, <2>7, <2>8, <2>9, <2>10, <2>11, <2>12
        DEF L1Step, Service
<1> QED
    BY <1>1, <1>2, <1>3, <1>4

-----------------------------------------------------------------------------
(* What has been stored before.                                            *)

\* What comes before an event of the window and of the same contract is of
\* the window too; if no contract moves, of the other contract as well.
LEMMA CoveredEarlier ==
    ASSUME ChainTypeOK, ChainOrder, NEW l \in Promised, NEW m \in Promised,
           m.pos < l.pos, NEW n \in Int, Covered(l, n),
           ContractOf(m) = ContractOf(l) \/ "AddressSet" \notin Kinds
    PROVE  Covered(m, n)
<1>1. /\ l \in logs /\ m \in logs
      /\ l.pos \in Nat /\ m.pos \in Nat /\ l.block \in Nat /\ m.block \in Nat
    BY LogOfKind DEF Promised, OfKind, ChainTypeOK
<1>2. m.block <= l.block
    BY <1>1 DEF ChainOrder, Ordered
<1>3. CASE m.block < n
    BY <1>3 DEF Covered
<1>4. CASE m.block >= n
    <2>1. /\ m.block = n /\ l.block = n
          /\ \A s \in AddressSets(ContractOf(l)) : s.block = n => l.pos < s.pos
        BY <1>1, <1>2, <1>4 DEF Covered
    <2> SUFFICES ASSUME NEW s \in AddressSets(ContractOf(m)), s.block = n
                 PROVE  m.pos < s.pos
        BY <2>1 DEF Covered
    <2>2. CASE ContractOf(m) = ContractOf(l)
        <3>1. l.pos < s.pos /\ s.pos \in Nat
            BY <2>1, <2>2, AddressSetsAre
        <3> QED
            BY <1>1, <3>1
    <2>3. CASE "AddressSet" \notin Kinds
        <3>1. s.block = DeployBlock
            BY <2>3, ContractOfType DEF ChainOrder, AddressesMove
        <3> QED
            BY <3>1, NothingBeforeStart
    <2> QED
        BY <2>2, <2>3
<1> QED
    BY <1>1, <1>3, <1>4

\* The state in which the records of an event are put.
LEMMA StoredEntries ==
    ASSUME IndexInv, EventsOK, StoreEntries
    PROVE  \E l \in events :
               /\ IsFirst(l, events)
               /\ l \in Promised /\ l \in Log
               /\ l.kind = Syncs[sync].event /\ sync \in 1 .. 3
               /\ Covered(l, to)
               /\ table \in Tables
               /\ entries'[table] = entries[table] \cup EntriesOf(l, table)
               /\ \A t \in Tables : t # table => entries'[t] = entries[t]
<1>1. /\ TypeOK /\ ChainTypeOK /\ pc = "store" /\ table \in Tables
      /\ sync \in 1 .. 3 /\ entries \in [Tables -> SUBSET Entry]
    BY DEF IndexInv, ImmutableInv, FinalInv, TypeInv, TypeOK, ControlOK,
           StoreEntries, DBTypeOK
<1>2. PICK l \in events :
          IsFirst(l, events) /\ PutEntries(table, EntriesOf(l, table))
    BY DEF StoreEntries, NextEvent
<1>3. l.kind = Syncs[sync].event /\ Covered(l, to)
    BY <1>1 DEF EventsOK
<1>4. l \in logs /\ l \in Log
    BY <1>1 DEF IndexInv, ImmutableInv, FinalInv, WindowFinal, ChainTypeOK
<1>5. l \in Promised
    BY <1>1, <1>3, <1>4 DEF Promised, OfKind, Syncs
<1>6. entries'[table] = Put(entries[table], EntriesOf(l, table))
    BY <1>1, <1>2 DEF PutEntries
<1>7. \A t \in Tables : t # table => entries'[t] = entries[t]
    BY <1>1, <1>2 DEF PutEntries
<1>8. entries[table] \subseteq entries'[table]
    BY <1>1, EntriesKept DEF IndexInv, L1Step, Service
<1>9. entries'[table] = entries[table] \cup EntriesOf(l, table)
    BY <1>6, <1>8 DEF Put
<1> QED
    BY <1>1, <1>2, <1>3, <1>4, <1>5, <1>7, <1>9

\* When an event is stored, those of its kind that come before it are
\* recorded,
LEMMA RecordedEarlierSame ==
    ASSUME IndexInv, ChainOrder, WindowInv, InOrder, pc = "store",
           NEW l \in Promised, l \in events, IsFirst(l, events),
           l.kind = Syncs[sync].event, Covered(l, to),
           NEW m \in Promised, m.kind = l.kind, m.pos < l.pos
    PROVE  Recorded(m)
<1>1. /\ ChainTypeOK /\ to \in Int /\ l.pos \in Nat /\ m.pos \in Nat
    <2>1. TypeOK /\ ChainTypeOK
        BY DEF IndexInv, ImmutableInv, FinalInv, TypeInv, TypeOK
    <2> QED
        BY <2>1, LogOfKind DEF TypeOK, ChainTypeOK, Promised, OfKind
<1>2. ContractOf(m) = ContractOf(l)
    BY DEF ContractOf
<1>3. Covered(m, to)
    BY <1>1, <1>2, CoveredEarlier
<1>4. m \notin events
    BY <1>1 DEF IsFirst
<1>5. ~Missing(m)
    BY <1>3 DEF InOrder, InWindow
<1> QED
    BY <1>4, <1>5 DEF Missing

\* and those of an earlier call that are of the window.
LEMMA RecordedEarlierCall ==
    ASSUME IndexInv, WindowInv, pc = "store", NEW m \in Promised,
           Covered(m, to), NEW n \in 1 .. 3, m.kind = Syncs[n].event, n < sync
    PROVE  Recorded(m)
<1>1. sync \in 1 .. 3
    BY DEF IndexInv, ImmutableInv, FinalInv, TypeInv, ControlOK
<1>2. Recorded(m) \/ Waiting(m)
    BY DEF WindowInv, NothingLost, InWindow
<1>3. \A j \in 1 .. 3 : m.kind = Syncs[j].event => j = n
    BY SyncOf
<1>4. ~Waiting(m)
    BY <1>1, <1>3 DEF Waiting
<1> QED
    BY <1>2, <1>4

-----------------------------------------------------------------------------
(* References lead to records.                                             *)

OrderInv == SyncInv /\ ChainDense /\ InOrder

\* At the deployment there is nothing to number.
LEMMA OrderInvInit ==
    ASSUME MatureL1
    PROVE  Init => OrderInv
<1> SUFFICES ASSUME Init
             PROVE  ChainDense /\ InOrder
    BY SyncInvInit DEF OrderInv
<1>1. \A l \in logs : l.kind = "AddressSet"
    BY DEF Init, ChainInit
<1>2. \A l \in logs : /\ EntriesOf(l, "transaction") = {}
                      /\ EntriesOf(l, "stateroot") = {}
                      /\ \A t \in Tables : EntriesOf(l, t) = {}
    BY <1>1, NoEntries
<1>3. ChainDense
    BY <1>1, <1>2 DEF ChainDense, StateBatches, OfKind
<1>4. InOrder
    BY DEF InOrder, Init, InWindow
<1> QED
    BY <1>3, <1>4

\* Only the chain changes what is numbered.
LEMMA OrderInvStep ==
    ASSUME MatureL1, DeploymentKnown
    PROVE  OrderInv /\ L1Step => OrderInv'
<1> SUFFICES ASSUME OrderInv, L1Step
             PROVE  OrderInv'
    OBVIOUS
<1>1. SyncInv'
    BY SyncInvStep DEF OrderInv
<1>2. InOrder'
    BY InOrderStep DEF OrderInv, SyncInv
<1>3. ChainTypeOK /\ ChainUnique /\ ChainOrder /\ ChainDense
    BY DEF OrderInv, SyncInv, IndexInv, ImmutableInv, FinalInv, TypeInv,
           TypeOK
<1>4. ASSUME ChainNext
      PROVE  ChainDense'
    BY <1>3, <1>4, ChainDenseStep DEF ChainNext
<1>5. ASSUME ~ChainNext
      PROVE  ChainDense'
    <2>1. logs' = logs
        BY <1>5, Frame
    <2>2. \A m, t, i : /\ HasIndex(m, t, i)' <=> HasIndex(m, t, i)
                       /\ IndexBefore(m, t, i)' <=> IndexBefore(m, t, i)
        BY <2>1, EntriesOfRigid DEF HasIndex, IndexBefore
    <2> QED
        BY <1>3, <2>1, <2>2, EntriesOfRigid
        DEF ChainDense, StateBatches, OfKind, Tables
<1> QED
    BY <1>1, <1>2, <1>4, <1>5 DEF OrderInv

\* An index of a recorded log is in its table.
LEMMA HasIndexStored ==
    ASSUME NEW m, NEW t \in Tables, NEW i, HasIndex(m, t, i), Recorded(m)
    PROVE  \E e \in entries[t] : e \in EntriesOf(m, t) /\ e.index = i
    BY DEF HasIndex, Recorded, RecordedIn

\* A transaction comes after its batch and after the queue element it takes.
LEMMA TransactionsResolveStep ==
    ASSUME OrderInv, TransactionsResolve, L1Step
    PROVE  TransactionsResolve'
<1>inv. /\ IndexInv /\ ImmutableInv /\ ChainTypeOK /\ ChainOrder /\ ChainDense
        /\ WindowInv /\ EventsOK /\ StoredSoFar /\ to \in Int
    BY DEF OrderInv, SyncInv, IndexInv, ImmutableInv, FinalInv, TypeInv,
           TypeOK, WindowInv
<1>kept. \A t \in Tables : entries[t] \subseteq entries'[t]
    BY <1>inv, EntriesKept
<1> SUFFICES ASSUME NEW tx \in entries'["transaction"]
             PROVE  /\ \E b \in entries'["batch:transaction"] :
                          /\ b.index = tx.batchIndex
                          /\ tx.index \in b.prevTotalElements
                                    .. b.prevTotalElements + b.size - 1
                    /\ tx.queueOrigin = "l1" =>
                          \E q \in entries'["enqueue"] :
                              q.index = tx.queueIndex
    BY DEF TransactionsResolve, At
<1>1. CASE tx \in entries["transaction"]
    BY <1>1, <1>kept DEF TransactionsResolve, At, Tables
<1>2. CASE tx \notin entries["transaction"]
    <2>1. StoreEntries
        BY <1>2, Frame
    <2>2. PICK l \in events :
              /\ IsFirst(l, events)
              /\ l \in Promised /\ l \in Log
              /\ l.kind = Syncs[sync].event /\ sync \in 1 .. 3
              /\ Covered(l, to)
              /\ table \in Tables
              /\ entries'[table] = entries[table] \cup EntriesOf(l, table)
              /\ \A t \in Tables : t # table => entries'[t] = entries[t]
        BY <1>inv, <2>1, StoredEntries
    <2>3. table = "transaction" /\ tx \in EntriesOf(l, "transaction")
        BY <1>2, <2>2 DEF Tables
    <2>4. /\ l.kind = "SequencerBatchAppended" /\ sync = 2 /\ pc = "store"
          /\ l.kind \in TransactionBatchKinds /\ l \in logs
          /\ l.pos \in Nat
        <3>1. sync = 2
            BY <2>2, <2>3, SyncOf
        <3> QED
            BY <2>1, <2>2, <3>1, LogOfKind
            DEF StoreEntries, Syncs, TransactionBatchKinds, Promised, OfKind
    <2>5. tx.index \in Nat /\ tx \in TransactionEntry
        BY <2>2, <2>3, EntriesOfType DEF Tables
    <2>6. tx.batchIndex = l.batchIndex
        <3>1. EntriesOf(l, "transaction") = TransactionEntries(l)
            BY <2>4 DEF EntriesOf
        <3> QED
            BY <2>3, <3>1 DEF TransactionEntries
    <2>7. tx.index \in l.prev .. l.prev + Len(l.shape) - 1
        BY <2>2, <2>3, <2>5, IndicesOf DEF HasIndex
    <2>8. \E b \in entries'["batch:transaction"] :
              /\ b.index = tx.batchIndex
              /\ tx.index \in b.prevTotalElements
                        .. b.prevTotalElements + b.size - 1
        <3>1. RecordedIn(l, "batch:transaction")
            BY <1>inv, <2>2, <2>3, <2>4 DEF StoredSoFar, NextTable, Tables
        <3>2. TransactionBatchEntry(l) \in entries["batch:transaction"]
            BY <2>4, <3>1 DEF RecordedIn, EntriesOf
        <3> QED
            BY <1>kept, <2>6, <2>7, <3>2 DEF TransactionBatchEntry, Tables
    <2>9. ASSUME tx.queueOrigin = "l1"
          PROVE  \E q \in entries'["enqueue"] : q.index = tx.queueIndex
        <3>1. PICK m \in logs :
                  m.pos < l.pos /\ HasIndex(m, "enqueue", tx.queueIndex)
            BY <1>inv, <2>3, <2>4, <2>9 DEF ChainDense, IndexBefore
        <3>2. tx.queueIndex \in Nat /\ m \in Log
            BY <1>inv, <2>5, <2>9
            DEF TransactionEntry, SequencedEntry, QueuedEntry, ChainTypeOK
        <3>3. m.kind = "TransactionEnqueued"
            BY <3>1, <3>2, IndicesOf
        <3>4. m \in Promised /\ m.kind = Syncs[1].event
            BY <3>1, <3>3 DEF Promised, OfKind, Syncs
        <3>5. ContractOf(m) = ContractOf(l)
            BY <2>4, <3>3 DEF ContractOf
        <3>6. Covered(m, to)
            BY <1>inv, <2>2, <3>1, <3>4, <3>5, CoveredEarlier
        <3>7. Recorded(m)
            BY <1>inv, <2>4, <3>4, <3>6, RecordedEarlierCall
        <3> QED
            BY <1>kept, <3>1, <3>7, HasIndexStored DEF Tables
    <2> QED
        BY <2>8, <2>9
<1> QED
    BY <1>1, <1>2

\* On a mature chain whose deployment is found, whoever finds a transaction
\* finds its batch and the queue element it was made of.
THEOREM TransactionsResolved ==
    ASSUME MatureL1, DeploymentKnown
    PROVE  Spec => []TransactionsResolve
<1> DEFINE Inv == OrderInv /\ TransactionsResolve
<1>1. Init => Inv
    <2>1. Init => TransactionsResolve
        BY DEF Init, DBInit, TransactionsResolve, Tables
    <2> QED
        BY <2>1, OrderInvInit
<1>2. Inv /\ L1Step => Inv'
    BY OrderInvStep, TransactionsResolveStep
<1>3. Inv => TransactionsResolve
    OBVIOUS
<1> HIDE DEF Inv
<1> QED
    BY <1>1, <1>2, <1>3, StepOfL1, PTL DEF Spec

\* What is final stays so.
LEMMA FinalLogsKept ==
    ASSUME ImmutableInv, L1Step
    PROVE  \A l \in logs : l.block <= final => l \in logs' /\ l.block <= final'
<1>inv. ChainTypeOK
    BY DEF ImmutableInv, FinalInv, TypeInv, TypeOK
<1>1. CASE ChainNext
    <2>1. /\ final \in Nat /\ final' \in Nat
          /\ \A l \in logs : l.block \in Nat
        BY <1>inv, <1>1, ChainStepType, LogOfKind DEF ChainNext, ChainTypeOK
    <2>2. /\ final <= final'
          /\ \A l \in logs : l.block <= final => l \in logs'
        BY <1>inv, <1>1, FinalKept DEF ChainNext
    <2>3. PICK n \in Nat : n = final'
        BY <2>1
    <2>4. \A l \in logs : l.block <= final => l.block <= n
        BY <2>1, <2>2, <2>3
    <2> QED
        BY <2>2, <2>3, <2>4
<1>2. CASE ~ChainNext
    BY <1>2, Frame
<1> QED
    BY <1>1, <1>2

\* A state root comes after its batch.
LEMMA StateRootsResolveStep ==
    ASSUME OrderInv, StateRootsResolve, L1Step
    PROVE  StateRootsResolve'
<1>inv. IndexInv /\ ImmutableInv /\ EventsOK /\ StoredSoFar
    BY DEF OrderInv, SyncInv, IndexInv, WindowInv
<1>kept. \A t \in Tables : entries[t] \subseteq entries'[t]
    BY <1>inv, EntriesKept
<1> SUFFICES ASSUME NEW r \in entries'["stateroot"]
             PROVE  \E b \in entries'["batch:stateroot"] :
                        /\ b.index = r.batchIndex
                        /\ r.index \in b.prevTotalElements
                                  .. b.prevTotalElements + b.size - 1
    BY DEF StateRootsResolve, At
<1>1. CASE r \in entries["stateroot"]
    BY <1>1, <1>kept DEF StateRootsResolve, At, Tables
<1>2. CASE r \notin entries["stateroot"]
    <2>1. StoreEntries
        BY <1>2, Frame
    <2>2. PICK l \in events :
              /\ IsFirst(l, events)
              /\ l \in Promised /\ l \in Log
              /\ l.kind = Syncs[sync].event /\ sync \in 1 .. 3
              /\ Covered(l, to)
              /\ table \in Tables
              /\ entries'[table] = entries[table] \cup EntriesOf(l, table)
              /\ \A t \in Tables : t # table => entries'[t] = entries[t]
        BY <1>inv, <2>1, StoredEntries
    <2>3. table = "stateroot" /\ r \in EntriesOf(l, "stateroot")
        BY <1>2, <2>2 DEF Tables
    <2>4. l.kind = "StateBatchAppended" /\ pc = "store"
        BY <2>1, <2>3 DEF EntriesOf, StoreEntries
    <2>5. r.index \in Nat
        BY <2>2, <2>3, EntriesOfType DEF Tables
    <2>6. r.batchIndex = l.batchIndex
        <3>1. EntriesOf(l, "stateroot") = StateRootEntries(l)
            BY <2>4 DEF EntriesOf, TransactionBatchKinds
        <3> QED
            BY <2>3, <3>1 DEF StateRootEntries
    <2>7. r.index \in l.prev .. l.prev + l.size - 1
        BY <2>2, <2>3, <2>5, IndicesOf DEF HasIndex
    <2>8. RecordedIn(l, "batch:stateroot")
        BY <1>inv, <2>2, <2>3, <2>4 DEF StoredSoFar, NextTable, Tables
    <2>9. StateRootBatchEntry(l) \in entries["batch:stateroot"]
        BY <2>4, <2>8 DEF RecordedIn, EntriesOf
    <2> QED
        BY <1>kept, <2>6, <2>7, <2>9 DEF StateRootBatchEntry, Tables
<1> QED
    BY <1>1, <1>2

\* Whoever finds a state root finds its batch.
THEOREM RootBatchesResolved ==
    ASSUME MatureL1, DeploymentKnown
    PROVE  Spec => []StateRootsResolve
<1> DEFINE Inv == OrderInv /\ StateRootsResolve
<1>1. Init => Inv
    <2>1. Init => StateRootsResolve
        BY DEF Init, DBInit, StateRootsResolve, Tables
    <2> QED
        BY <2>1, OrderInvInit
<1>2. Inv /\ L1Step => Inv'
    BY OrderInvStep, StateRootsResolveStep
<1>3. Inv => StateRootsResolve
    OBVIOUS
<1> HIDE DEF Inv
<1> QED
    BY <1>1, <1>2, <1>3, StepOfL1, PTL DEF Spec

\* The pointer is put when its record is there, which stays.
LEMMA LatestResolvesStep ==
    ASSUME IndexInv, LatestResolves, L1Step
    PROVE  LatestResolves'
<1>inv. /\ ImmutableInv /\ StoringOrder /\ ControlOK
        /\ latest \in [Tables -> Nat \cup {Null}]
    BY DEF IndexInv, ImmutableInv, FinalInv, TypeInv, TypeOK, DBTypeOK
<1>kept. \A t \in Tables : entries[t] \subseteq entries'[t]
    BY <1>inv, EntriesKept
<1> SUFFICES ASSUME NEW t \in Tables, latest'[t] # Null
             PROVE  \E e \in entries'[t] : e.index = latest'[t]
    BY DEF LatestResolves, At
<1>1. CASE latest'[t] = latest[t]
    BY <1>1, <1>kept DEF LatestResolves, At
<1>2. CASE latest'[t] # latest[t]
    <2>1. StoreLatestEntry
        BY <1>2, Frame
    <2>2. pc = "latest" /\ table \in Tables
        BY <1>inv, <2>1 DEF StoreLatestEntry, ControlOK
    <2>3. PICK l \in events : \E e \in EntriesOf(l, table) :
              /\ IsFirst(l, events)
              /\ \E got : PutLatestEntry(table, e.index, got)
        BY <2>1 DEF StoreLatestEntry, NextEvent
    <2>4. PICK e \in EntriesOf(l, table) :
              /\ IsFirst(l, events)
              /\ \E got : PutLatestEntry(table, e.index, got)
        BY <2>3
    <2>5. e \in entries[table]
        BY <1>inv, <2>2, <2>4 DEF StoringOrder
    <2>6. latest'[t] = e.index /\ t = table
        BY <1>inv, <1>2, <2>2, <2>4 DEF PutLatestEntry, Latest
    <2> QED
        BY <1>kept, <2>2, <2>5, <2>6
<1> QED
    BY <1>1, <1>2

\* A latest pointer always leads to a record.
THEOREM PointersResolve == ASSUME MatureL1
                           PROVE  Spec => []LatestResolves
<1> DEFINE Inv == IndexInv /\ LatestResolves
<1>1. Init => Inv
    <2>1. Init => LatestResolves
        BY DEF Init, DBInit, LatestResolves
    <2> QED
        BY <2>1, IndexInvInit
<1>2. Inv /\ L1Step => Inv'
    BY ImmutableInvStep, StoringOrderStep, CtcIndexStep, LatestResolvesStep
    DEF IndexInv
<1>3. Inv => LatestResolves
    OBVIOUS
<1> HIDE DEF Inv
<1> QED
    BY <1>1, <1>2, <1>3, StepOfL1, PTL DEF Spec

\* One put stores all records that a log has in a table.
LEMMA RecordsWholeStep ==
    ASSUME ImmutableInv, RecordsWhole, L1Step
    PROVE  RecordsWhole'
<1>kept. \A t \in Tables : entries[t] \subseteq entries'[t]
    BY EntriesKept
<1>final. \A l \in logs : l.block <= final => l \in logs' /\ l.block <= final'
    BY FinalLogsKept
<1>type. TypeInv /\ WindowFinal /\ entries \in [Tables -> SUBSET Entry]
    BY DEF ImmutableInv, FinalInv, TypeInv, TypeOK, DBTypeOK
<1> SUFFICES ASSUME NEW t \in Tables, NEW e \in entries'[t]
             PROVE  \E l \in logs' : /\ l.block <= final'
                                     /\ e \in EntriesOf(l, t)
                                     /\ EntriesOf(l, t) \subseteq entries'[t]
    BY EntriesOfRigid DEF RecordsWhole
<1>1. CASE e \in entries[t]
    BY <1>1, <1>kept, <1>final DEF RecordsWhole
<1>2. CASE e \notin entries[t]
    <2>1. StoreEntries
        BY <1>2, Frame
    <2>2. PICK l \in events : PutEntries(table, EntriesOf(l, table))
        BY <2>1 DEF StoreEntries
    <2>3. l \in logs /\ l.block <= final /\ table \in Tables
        BY <1>type, <2>1 DEF WindowFinal, TypeInv, ControlOK, StoreEntries
    <2>4. /\ t = table /\ e \in EntriesOf(l, table)
          /\ EntriesOf(l, table) \subseteq entries'[table]
        BY <1>2, <1>type, <2>2, <2>3 DEF PutEntries, Put
    <2> QED
        BY <1>final, <2>3, <2>4
<1> QED
    BY <1>1, <1>2

\* A state root comes after its transaction: the batch of the transaction is
\* of the same window or an earlier one, and is stored by an earlier call.
LEMMA StateRootsStep ==
    ASSUME NoUpgrades, OnlySequencerBatches,
           OrderInv, StateRootsHaveTransactions, L1Step
    PROVE  StateRootsHaveTransactions'
<1>inv. /\ IndexInv /\ ImmutableInv /\ ChainTypeOK /\ ChainOrder /\ ChainDense
        /\ WindowInv /\ EventsOK /\ StoredSoFar /\ to \in Int
    BY DEF OrderInv, SyncInv, IndexInv, ImmutableInv, FinalInv, TypeInv,
           TypeOK, WindowInv
<1>kept. \A t \in Tables : entries[t] \subseteq entries'[t]
    BY <1>inv, EntriesKept
<1> SUFFICES ASSUME NEW r \in entries'["stateroot"]
             PROVE  \E tx \in entries'["transaction"] : tx.index = r.index
    BY DEF StateRootsHaveTransactions, At
<1>1. CASE r \in entries["stateroot"]
    BY <1>1, <1>kept DEF StateRootsHaveTransactions, At, Tables
<1>2. CASE r \notin entries["stateroot"]
    <2>1. StoreEntries
        BY <1>2, Frame
    <2>2. PICK l \in events :
              /\ l \in Promised /\ l \in Log
              /\ l.kind = Syncs[sync].event /\ sync \in 1 .. 3
              /\ Covered(l, to)
              /\ table \in Tables
              /\ entries'[table] = entries[table] \cup EntriesOf(l, table)
              /\ \A t \in Tables : t # table => entries'[t] = entries[t]
        BY <1>inv, <2>1, StoredEntries
    <2>3. r \in EntriesOf(l, "stateroot")
        BY <1>2, <2>2 DEF Tables
    <2>4. sync = 3 /\ pc = "store" /\ l \in logs
        <3>1. l.kind = "StateBatchAppended"
            BY <2>3, NoEntries
        <3> QED
            BY <2>1, <2>2, <3>1 DEF StoreEntries, Syncs, Promised, OfKind
    <2>5. r.index \in Nat
        BY <2>2, <2>3, EntriesOfType DEF Tables
    <2>6. PICK m \in logs :
              m.pos < l.pos /\ HasIndex(m, "transaction", r.index)
        BY <1>inv, <2>3, <2>4 DEF ChainDense, IndexBefore
    <2>7. m.kind = "SequencerBatchAppended"
        <3>1. m \in Log /\ m.kind \in Kinds \cup {"AddressSet"}
            BY <1>inv DEF ChainTypeOK, ChainDense
        <3>2. m.kind \in TransactionBatchKinds
            BY <2>5, <2>6, <3>1, IndicesOf
        <3> QED
            BY <3>1, <3>2 DEF TransactionBatchKinds, OnlySequencerBatches
    <2>8. m \in Promised /\ m.kind = Syncs[2].event
        BY <2>7 DEF Promised, OfKind, Syncs
    <2>9. Covered(m, to)
        BY <1>inv, <2>2, <2>6, <2>8, CoveredEarlier DEF NoUpgrades
    <2>10. Recorded(m)
        BY <1>inv, <2>4, <2>8, <2>9, RecordedEarlierCall
    <2> QED
        BY <1>kept, <2>6, <2>10, HasIndexStored DEF Tables
<1> QED
    BY <1>1, <1>2

\* While no contract moves and every batch of transactions is a sequencer's,
\* whoever finds a state root finds its transaction.
THEOREM StateRootsResolved ==
    ASSUME MatureL1, NoUpgrades, OnlySequencerBatches
    PROVE  Spec => []StateRootsHaveTransactions
<1> DEFINE Inv == OrderInv /\ StateRootsHaveTransactions
<1>0. DeploymentKnown
    BY DEF DeploymentKnown, NoUpgrades
<1>1. Init => Inv
    <2>1. Init => StateRootsHaveTransactions
        BY DEF Init, DBInit, StateRootsHaveTransactions, Tables
    <2> QED
        BY <2>1, OrderInvInit
<1>2. Inv /\ L1Step => Inv'
    BY <1>0, OrderInvStep, StateRootsStep
<1>3. Inv => StateRootsHaveTransactions
    OBVIOUS
<1> HIDE DEF Inv
<1> QED
    BY <1>1, <1>2, <1>3, StepOfL1, PTL DEF Spec

-----------------------------------------------------------------------------
(* The tables have no holes.                                               *)

\* The indices of a log in a table are consecutive.
LEMMA IndicesConsecutive ==
    ASSUME NEW l \in Log, NEW t \in Tables
    PROVE  \E a \in Nat, b \in Int :
               \A i \in Int : HasIndex(l, t, i) <=> i \in a .. b
<1>1. l.kind \in AllKinds
    BY LogOfKind
<1>2. \/ \E j \in Nat : \A i \in Int : HasIndex(l, t, i) <=> i = j
      \/ \E a \in Nat, b \in Int :
             \A i \in Int : HasIndex(l, t, i) <=> i \in a .. b
      \/ \A i \in Int : ~HasIndex(l, t, i)
    <2>1. CASE t = "enqueue"
        <3>1. l.kind = "TransactionEnqueued" => l.queueIndex \in Nat
            BY LogOfKind DEF EnqueuedLog
        <3> QED
            BY <2>1, <3>1, IndicesOf
    <2>2. CASE t = "batch:transaction"
        <3>1. l.kind \in TransactionBatchKinds => l.batchIndex \in Nat
            BY LogOfKind DEF TransactionBatchLog
        <3> QED
            BY <2>2, <3>1, IndicesOf
    <2>3. CASE t = "transaction"
        <3>1. l.kind \in TransactionBatchKinds =>
                  l.prev \in Nat /\ l.prev + Len(l.shape) - 1 \in Int
            BY LogOfKind, ShapeType DEF TransactionBatchLog
        <3> QED
            BY <2>3, <3>1, IndicesOf
    <2>4. CASE t = "batch:stateroot"
        <3>1. l.kind = "StateBatchAppended" => l.batchIndex \in Nat
            BY LogOfKind DEF StateBatchLog
        <3> QED
            BY <2>4, <3>1, IndicesOf
    <2>5. CASE t = "stateroot"
        <3>1. l.kind = "StateBatchAppended" =>
                  l.prev \in Nat /\ l.prev + l.size - 1 \in Int
            BY LogOfKind DEF StateBatchLog
        <3> QED
            BY <2>5, <3>1, IndicesOf
    <2> QED
        BY <2>1, <2>2, <2>3, <2>4, <2>5 DEF Tables
<1>3. CASE \E j \in Nat : \A i \in Int : HasIndex(l, t, i) <=> i = j
    <2>1. PICK j \in Nat : \A i \in Int : HasIndex(l, t, i) <=> i = j
        BY <1>3
    <2>2. j \in Int /\ \A i \in Int : i = j <=> i \in j .. j
        OBVIOUS
    <2> QED
        BY <2>1, <2>2
<1>4. CASE \A i \in Int : ~HasIndex(l, t, i)
    <2>1. 0 \in Nat /\ -1 \in Int /\ \A i \in Int : i \notin 0 .. -1
        OBVIOUS
    <2> QED
        BY <1>4, <2>1
<1> QED
    BY <1>2, <1>3, <1>4

\* The logs that have records in the same table are of the same kind.
LEMMA SameKind ==
    ASSUME OnlySequencerBatches, ChainTypeOK, ChainDense,
           NEW l \in logs, NEW m \in logs, NEW t \in Tables,
           NEW i \in Int, HasIndex(l, t, i), NEW j \in Int, HasIndex(m, t, j)
    PROVE  m.kind = l.kind
<1>1. /\ l \in Log /\ m \in Log
      /\ l.kind # "QueueBatchAppended" /\ m.kind # "QueueBatchAppended"
    BY DEF ChainTypeOK, ChainDense, OnlySequencerBatches
<1>2. /\ t = "enqueue" =>
             l.kind = "TransactionEnqueued" /\ m.kind = "TransactionEnqueued"
      /\ t \in {"batch:transaction", "transaction"} =>
             l.kind \in TransactionBatchKinds /\ m.kind \in TransactionBatchKinds
      /\ t \in {"batch:stateroot", "stateroot"} =>
             l.kind = "StateBatchAppended" /\ m.kind = "StateBatchAppended"
    BY <1>1, IndicesOf
<1> QED
    BY <1>1, <1>2 DEF Tables, TransactionBatchKinds

\* The records that are put next continue the numbering or repeat it.
LEMMA NumberedStep ==
    ASSUME OnlySequencerBatches, OrderInv, L1Step, NEW t \in Tables,
           Numbered(t)
    PROVE  Numbered(t)'
<1>inv. /\ IndexInv /\ ImmutableInv /\ ChainTypeOK /\ ChainOrder /\ ChainDense
        /\ WindowInv /\ EventsOK /\ InOrder
    BY DEF OrderInv, SyncInv, IndexInv, ImmutableInv, FinalInv, TypeInv,
           TypeOK, WindowInv
<1>1. CASE entries'[t] = entries[t]
    BY <1>1 DEF Numbered
<1>2. CASE entries'[t] # entries[t]
    <2>1. StoreEntries /\ pc = "store"
        BY <1>2, Frame DEF StoreEntries
    <2>2. PICK l \in events :
              /\ IsFirst(l, events)
              /\ l \in Promised /\ l \in Log
              /\ l.kind = Syncs[sync].event /\ sync \in 1 .. 3
              /\ Covered(l, to)
              /\ table \in Tables
              /\ entries'[table] = entries[table] \cup EntriesOf(l, table)
              /\ \A u \in Tables : u # table => entries'[u] = entries[u]
        BY <1>inv, <2>1, StoredEntries
    <2>3. entries'[t] = entries[t] \cup EntriesOf(l, t) /\ l \in logs
        BY <1>2, <2>2 DEF Promised, OfKind
    <2>4. PICK n \in Nat : {e.index : e \in entries[t]} = 0 .. n - 1
        BY DEF Numbered
    <2>5. PICK a \in Nat, b \in Int :
              \A i \in Int : HasIndex(l, t, i) <=> i \in a .. b
        BY <2>2, IndicesConsecutive
    <2>6. \A i \in Int : (\E e \in entries'[t] : e.index = i) <=>
                             i \in 0 .. n - 1 \/ i \in a .. b
        <3>1. \A i : (\E e \in entries[t] : e.index = i) <=> i \in 0 .. n - 1
            BY <2>4
        <3> QED
            BY <2>3, <2>5, <3>1 DEF HasIndex
    <2>7. ASSUME NEW i \in 0 .. b, a <= b
          PROVE  i \in 0 .. n - 1 \/ i \in a .. b
        <3>1. b \in a .. b /\ b \in Int /\ i \in Int
            BY <2>7
        <3>2. PICK e \in EntriesOf(l, t) : e.index = b
            BY <2>5, <3>1 DEF HasIndex
        <3>3. HasIndex(l, t, i) \/ IndexBefore(l, t, i)
            BY <1>inv, <2>3, <3>2 DEF ChainDense
        <3>4. ASSUME IndexBefore(l, t, i)
              PROVE  i \in 0 .. n - 1
            <4>1. PICK m \in logs : m.pos < l.pos /\ HasIndex(m, t, i)
                BY <3>4 DEF IndexBefore
            <4>2. HasIndex(l, t, b)
                BY <2>5, <3>1
            <4>3. m.kind = l.kind
                BY <1>inv, <2>3, <3>1, <4>1, <4>2, SameKind
            <4>4. m \in Promised
                BY <2>2, <4>3 DEF Promised, OfKind
            <4>5. Recorded(m)
                BY <1>inv, <2>1, <2>2, <4>1, <4>3, <4>4, RecordedEarlierSame
            <4>6. \E e2 \in entries[t] : e2.index = i
                BY <4>1, <4>5, HasIndexStored
            <4> QED
                BY <2>4, <4>6
        <3> QED
            BY <2>5, <3>1, <3>3, <3>4
    <2>8. \A e \in entries'[t] : e.index \in Int
        <3>1. \A e \in EntriesOf(l, t) : e.index \in Nat
            BY <2>2, EntriesOfType
        <3>2. \A e \in entries[t] : e.index \in 0 .. n - 1
            BY <2>4
        <3> QED
            BY <2>3, <3>1, <3>2
    <2> DEFINE k == IF a <= b /\ n <= b THEN b + 1 ELSE n
    <2>9. k \in Nat
        OBVIOUS
    <2>10. \A i \in Int : i \in 0 .. n - 1 \/ i \in a .. b <=> i \in 0 .. k - 1
        BY <2>7
    <2>11. {e.index : e \in entries'[t]} = 0 .. k - 1
        <3> HIDE DEF k
        <3>1. \A i \in Int : (\E e \in entries'[t] : e.index = i) <=>
                                 i \in 0 .. k - 1
            BY <2>6, <2>10
        <3> QED
            BY <2>8, <2>9, <3>1
    <2> QED
        BY <2>9, <2>11 DEF Numbered
<1> QED
    BY <1>1, <1>2

\* A table numbered from 0 has as many records as numbers.
LEMMA NumberedHasNoHoles ==
    ASSUME ImmutableInv, NEW t \in Tables, Numbered(t)
    PROVE  {e.index : e \in entries[t]} = 0 .. Cardinality(entries[t]) - 1
<1>1. PICK n \in Nat : {e.index : e \in entries[t]} = 0 .. n - 1
    BY DEF Numbered
<1>2. \A e, f \in entries[t] : e.index = f.index => e = f
    <2> SUFFICES ASSUME NEW e \in entries[t], NEW f \in entries[t],
                        e.index = f.index
                 PROVE  e = f
        OBVIOUS
    <2>1. PICK l \in logs : e \in EntriesOf(l, t)
        BY DEF ImmutableInv, FinalInv, StoredIsFinal
    <2>2. PICK m \in logs : f \in EntriesOf(m, t)
        BY DEF ImmutableInv, FinalInv, StoredIsFinal
    <2> QED
        BY <2>1, <2>2, EntriesDetermined
        DEF ImmutableInv, FinalInv, TypeInv, TypeOK
<1> DEFINE g == [e \in entries[t] |-> e.index]
<1>3. g \in [entries[t] -> 0 .. n - 1]
    BY <1>1
<1>4. \A e, f \in entries[t] : g[e] = g[f] => e = f
    BY <1>2
<1>5. \A i \in 0 .. n - 1 : \E e \in entries[t] : g[e] = i
    BY <1>1
<1> HIDE DEF g
<1>6. g \in Bijection(entries[t], 0 .. n - 1)
    BY <1>3, <1>4, <1>5, Fun_IsBij
<1>7. ExistsBijection(0 .. n - 1, entries[t])
    BY <1>6, Fun_ExistsBijSymmetric DEF ExistsBijection
<1>8. IsFiniteSet(0 .. n - 1) /\ Cardinality(0 .. n - 1) = n
    BY FS_Interval
<1>9. Cardinality(entries[t]) = n
    BY <1>7, <1>8, FS_Bijection
<1> QED
    BY <1>1, <1>9

\* On a mature chain whose batches are all the sequencer's, every index up
\* to the last of a table is there, in the middle of a window too.
THEOREM TablesHaveNoHoles ==
    ASSUME MatureL1, DeploymentKnown, OnlySequencerBatches
    PROVE  Spec => []NoHoles
<1> DEFINE Inv == OrderInv /\ \A t \in Tables : Numbered(t)
<1>1. Init => Inv
    <2> SUFFICES ASSUME Init, NEW t \in Tables
                 PROVE  Numbered(t)
        BY OrderInvInit
    <2>1. {e.index : e \in entries[t]} = {}
        BY DEF Init, DBInit
    <2>2. 0 \in Nat /\ 0 .. 0 - 1 = {}
        OBVIOUS
    <2> QED
        BY <2>1, <2>2 DEF Numbered
<1>2. Inv /\ L1Step => Inv'
    BY OrderInvStep, NumberedStep DEF Tables
<1>3. Inv => NoHoles
    BY NumberedHasNoHoles DEF NoHoles, OrderInv, SyncInv, IndexInv
<1> HIDE DEF Inv
<1> QED
    BY <1>1, <1>2, <1>3, StepOfL1, PTL DEF Spec

-----------------------------------------------------------------------------
(* With its windows, awaits, address changes, crashes, replays and failing *)
(* reads, L1 ingestion does nothing that IndexedChain does not: each of    *)
(* its steps is one of the four of IndexedChain, or none.                  *)

\* The logs that no reorganisation removes, and those that are done with.
ConfirmedLogs == {l \in logs : l.block <= final}
DoneLogs == {l \in Promised : Covered(l, synced)}

\* When nothing is on the chain but the deployment, nothing is done.
LEMMA RefinesInit == Init => ConfirmedIndex!IndexInit
<1> SUFFICES ASSUME Init
             PROVE  ConfirmedIndex!IndexInit
    OBVIOUS
<1>1. Promised = {}
    BY DEF Init, ChainInit, Promised, OfKind
<1> QED
    BY <1>1 DEF Init, DBInit, ConfirmedIndex!IndexInit

\* What is done stays done while no block is marked as synced, a
\* reorganisation included.
LEMMA DoneKept ==
    ASSUME SyncInv, L1Step, UNCHANGED synced
    PROVE  UNCHANGED DoneLogs
<1>1. /\ ChainTypeOK /\ IndexInv /\ QueueTakenOnce
      /\ synced \in Int /\ final \in Int /\ synced <= final
    BY L1ChainAssumption
    DEF SyncInv, IndexInv, ImmutableInv, FinalInv, TypeInv, TypeOK, DBTypeOK,
        ChainTypeOK, WindowInv, WindowSeen
<1>2. PICK n \in Int : n = synced
    BY <1>1
<1>3. n <= final
    BY <1>1, <1>2
<1>4. ASSUME NEW l \in Promised, Covered(l, n)
      PROVE  l \in Promised' /\ Covered(l, n)'
    <2>1. l \in logs /\ l.block \in Int /\ l.block <= n
        BY <1>1, <1>4, LogOfKind DEF Promised, OfKind, ChainTypeOK, Covered
    <2>2. l \in logs' /\ Covered(l, n)'
        BY <1>1, <1>3, <1>4, <2>1, BelowFinal
    <2> QED
        BY <2>2 DEF Promised, OfKind
<1>5. ASSUME NEW l \in Promised', Covered(l, n)'
      PROVE  l \in Promised /\ Covered(l, n)
    BY <1>1, <1>3, <1>5, CoveredBefore
<1>6. DoneLogs = {l \in Promised : Covered(l, n)}
    BY <1>2 DEF DoneLogs
<1>7. DoneLogs' = {l \in Promised' : Covered(l, n)'}
    BY <1>2 DEF DoneLogs, Covered
<1> QED
    BY <1>4, <1>5, <1>6, <1>7

\* The chain only ever confirms more.
LEMMA RefinesConfirm ==
    ASSUME SyncInv, ChainNext
    PROVE  ConfirmedIndex!Confirm
<1>1. /\ ChainTypeOK /\ final \in Int
      /\ UNCHANGED <<entries, latest, synced>> /\ L1Step
    BY DEF SyncInv, IndexInv, ImmutableInv, FinalInv, TypeInv, TypeOK,
           ChainTypeOK, ChainNext, dbVars, L1Step
<1>2. UNCHANGED DoneLogs
    BY <1>1, DoneKept
<1>3. ConfirmedLogs \subseteq ConfirmedLogs'
    <2> SUFFICES ASSUME NEW l \in logs, l.block <= final
                 PROVE  l \in logs' /\ l.block <= final'
        BY DEF ConfirmedLogs
    <2>1. final <= final' /\ l \in logs'
        BY <1>1, FinalKept DEF ChainNext
    <2>2. PICK n : n = final'
        OBVIOUS
    <2>3. n \in Int /\ l.block \in Int
        <3>1. ChainTypeOK'
            BY <1>1, ChainStepType DEF ChainNext
        <3> QED
            BY <1>1, <2>2, <3>1, LogOfKind DEF ChainTypeOK
    <2>4. l.block <= n
        BY <1>1, <2>1, <2>2, <2>3
    <2> QED
        BY <2>1, <2>2, <2>4
<1> QED
    BY <1>1, <1>2, <1>3
    DEF ConfirmedIndex!Confirm, ConfirmedLogs, DoneLogs

\* A batch put adds the records of one confirmed log to one table.
LEMMA RefinesStore ==
    ASSUME SyncInv, StoreEntries
    PROVE  ConfirmedIndex!Store
<1>1. /\ UNCHANGED <<logs, final, latest, synced>> /\ L1Step
      /\ entries \in [Tables -> SUBSET Entry] /\ table \in Tables
    BY DEF StoreEntries, chainVars, L1Step, Service, SyncInv, IndexInv,
           ImmutableInv, FinalInv, TypeInv, TypeOK, DBTypeOK, ControlOK
<1>2. PICK l \in events : PutEntries(table, EntriesOf(l, table))
    BY DEF StoreEntries
<1>3. l \in ConfirmedLogs
    BY DEF SyncInv, IndexInv, ImmutableInv, FinalInv, WindowFinal,
           ConfirmedLogs
<1>4. entries[table] \subseteq entries'[table]
    BY <1>1, EntriesKept DEF SyncInv, IndexInv
<1>5. entries'[table] = Put(entries[table], EntriesOf(l, table))
    BY <1>1, <1>2 DEF PutEntries
<1>6. Put(entries[table], EntriesOf(l, table))
          = entries[table] \cup EntriesOf(l, table)
    BY <1>4, <1>5 DEF Put
<1>7. entries' = [entries EXCEPT ![table] = @ \cup EntriesOf(l, table)]
    BY <1>1, <1>2, <1>6 DEF PutEntries
<1>8. UNCHANGED <<ConfirmedLogs, DoneLogs>>
    BY <1>1, DoneKept DEF ConfirmedLogs
<1> QED
    BY <1>1, <1>3, <1>7, <1>8
    DEF ConfirmedIndex!Store, ConfirmedLogs, DoneLogs

\* The pointer is put when its record is there, or stays.
LEMMA RefinesPoint ==
    ASSUME SyncInv, StoreLatestEntry
    PROVE  ConfirmedIndex!Point \/ UNCHANGED ConfirmedIndex!indexVars
<1>1. /\ UNCHANGED <<logs, final, entries, synced>> /\ L1Step
      /\ latest \in [Tables -> Nat \cup {Null}] /\ table \in Tables
      /\ pc = "latest"
    BY DEF StoreLatestEntry, chainVars, L1Step, Service, SyncInv, IndexInv,
           ImmutableInv, FinalInv, TypeInv, TypeOK, DBTypeOK, ControlOK
<1>2. PICK l \in events :
          \E e \in EntriesOf(l, table) :
              /\ NextEvent(l)
              /\ \E got : PutLatestEntry(table, e.index, got)
    BY DEF StoreLatestEntry
<1>3. PICK e \in EntriesOf(l, table) :
          NextEvent(l) /\ \E got : PutLatestEntry(table, e.index, got)
    BY <1>2
<1>got. PICK got : PutLatestEntry(table, e.index, got)
    BY <1>3
<1>4. e \in entries[table]
    BY <1>1, <1>3 DEF NextEvent, SyncInv, IndexInv, StoringOrder
<1>5. UNCHANGED <<ConfirmedLogs, DoneLogs>>
    BY <1>1, DoneKept DEF ConfirmedLogs
<1>6. CASE e.index >= ToNumber(got)
    <2>1. latest' = [latest EXCEPT ![table] = e.index]
        BY <1>got, <1>6 DEF PutLatestEntry, Latest
    <2>2. ConfirmedIndex!Point
        BY <1>1, <1>4, <1>5, <2>1
        DEF ConfirmedIndex!Point, ConfirmedLogs, DoneLogs
    <2> QED
        BY <2>2
<1>7. CASE ~(e.index >= ToNumber(got))
    <2>1. latest' = latest
        BY <1>1, <1>got, <1>7 DEF PutLatestEntry, Latest
    <2> QED
        BY <1>1, <1>5, <2>1
        DEF ConfirmedIndex!indexVars, ConfirmedLogs, DoneLogs
<1> QED
    BY <1>6, <1>7

\* The logs that the end of a window marks as done are confirmed and have
\* all their records.
LEMMA RefinesCommit ==
    ASSUME SyncInv, SyncInv', FinishIteration
    PROVE  ConfirmedIndex!Commit
<1>1. /\ UNCHANGED <<logs, final, entries, latest>> /\ ChainTypeOK
      /\ synced' \in Int /\ synced' <= final' /\ SyncedMeansRecorded'
    BY L1ChainAssumption
    DEF FinishIteration, chainVars, SyncInv, IndexInv, ImmutableInv, FinalInv,
        TypeInv, TypeOK, DBTypeOK, ChainTypeOK, WindowInv, WindowSeen
<1>2. PICK n : n = synced'
    OBVIOUS
<1>3. n \in Int /\ n <= final
    BY <1>1, <1>2
<1>4. ASSUME NEW l \in DoneLogs'
      PROVE  l \in ConfirmedLogs /\ ConfirmedIndex!Complete(l)
    <2>1. /\ l \in Promised' /\ Covered(l, synced)' /\ Recorded(l)'
        BY <1>1, <1>4 DEF DoneLogs, SyncedMeansRecorded
    <2>2. l \in logs /\ l.block \in Int
        BY <1>1, <2>1, LogOfKind DEF Promised, OfKind, ChainTypeOK
    <2>3. l.block <= n
        BY <1>2, <1>3, <2>1, <2>2 DEF Covered
    <2>4. l.block <= final
        BY <1>1, <1>3, <2>2, <2>3 DEF ChainTypeOK
    <2>5. \A t \in Tables : EntriesOf(l, t)' \subseteq entries'[t]
        BY <2>1 DEF Recorded, RecordedIn, Tables
    <2>6. \A t \in Tables : EntriesOf(l, t) \subseteq entries[t]
        BY <1>1, <2>5, EntriesOfRigid
    <2> QED
        BY <2>2, <2>4, <2>6 DEF ConfirmedLogs, ConfirmedIndex!Complete
<1>5. UNCHANGED ConfirmedLogs
    BY <1>1 DEF ConfirmedLogs
<1> QED
    BY <1>1, <1>4, <1>5 DEF ConfirmedIndex!Commit, ConfirmedLogs, DoneLogs

\* Every step is one of the abstract ones, or leaves alone what they see.
LEMMA RefinesStep ==
    ASSUME SyncInv, SyncInv', L1Step
    PROVE  ConfirmedIndex!IndexNext \/ UNCHANGED ConfirmedIndex!indexVars
<1>1. CASE ChainNext
    BY <1>1, RefinesConfirm DEF ConfirmedIndex!IndexNext
<1>2. CASE StoreEntries
    BY <1>2, RefinesStore DEF ConfirmedIndex!IndexNext
<1>3. CASE StoreLatestEntry
    BY <1>3, RefinesPoint DEF ConfirmedIndex!IndexNext
<1>4. CASE FinishIteration
    BY <1>4, RefinesCommit DEF ConfirmedIndex!IndexNext
<1>5. CASE /\ ~ChainNext /\ ~StoreEntries
           /\ ~StoreLatestEntry /\ ~FinishIteration
    <2>1. UNCHANGED <<logs, final, entries, latest, synced>>
        BY <1>5, Frame
    <2>2. UNCHANGED <<ConfirmedLogs, DoneLogs>>
        BY <2>1, DoneKept DEF ConfirmedLogs
    <2> QED
        BY <2>1, <2>2 DEF ConfirmedIndex!indexVars, ConfirmedLogs, DoneLogs
<1> QED
    BY <1>1, <1>2, <1>3, <1>4, <1>5

\* On a mature chain whose deployment is found, L1 ingestion implements
\* IndexedChain, whatever fails.
THEOREM Refinement == ASSUME MatureL1, DeploymentKnown
                      PROVE  Spec => ImplementsIndexedChain
<1>1. Init => SyncInv /\ ConfirmedIndex!IndexInit
    BY SyncInvInit, RefinesInit
<1>2. SyncInv /\ L1Step => SyncInv'
    BY SyncInvStep
<1>3. SyncInv /\ SyncInv' /\ L1Step =>
          ConfirmedIndex!IndexNext \/ UNCHANGED ConfirmedIndex!indexVars
    BY RefinesStep
<1> QED
    BY <1>1, <1>2, <1>3, StepOfL1, PTL
    DEF Spec, ImplementsIndexedChain, ConfirmedIndex!IndexSpec
=============================================================================
