------------------------- MODULE L1FinalityProofs -------------------------
(***************************************************************************)
(* On a mature chain the service stores only what is final, and never      *)
(* replaces what it has stored.                                            *)
(***************************************************************************)
EXTENDS L1IngestionProofs

-----------------------------------------------------------------------------
(* The chain.                                                              *)

\* A final log stays, and finality does not go back.
LEMMA FinalKept ==
    ASSUME ChainTypeOK, ChainStep \/ Reorg
    PROVE  /\ final <= final'
           /\ \A l \in logs : l.block <= final => l \in logs'
<1> USE DEF ChainTypeOK
<1>1. ASSUME NEW l, Emit(l)
      PROVE  final <= final' /\ logs \subseteq logs'
    BY <1>1 DEF Emit
<1>2. CASE SetAddress
    BY <1>1, <1>2 DEF SetAddress
<1>3. CASE Enqueue
    BY <1>1, <1>3 DEF Enqueue
<1>4. CASE AppendSequencerBatch
    BY <1>1, <1>4 DEF AppendSequencerBatch, AppendTransactionBatch
<1>5. CASE AppendQueueBatch
    BY <1>1, <1>5 DEF AppendQueueBatch, AppendTransactionBatch
<1>6. CASE AppendStateBatch
    BY <1>1, <1>6 DEF AppendStateBatch
<1>7. CASE Mine
    BY <1>7, L1ChainAssumption DEF Mine
<1>8. CASE Reorg
    <2>1. PICK h \in final .. tip - 1 :
              logs' = {l \in logs : l.block <= h} /\ UNCHANGED final
        BY <1>8 DEF Reorg
    <2>2. \A l \in logs : l.block \in Nat
        BY LogOfKind
    <2> QED
        BY <2>1, <2>2
<1> QED
    BY <1>2, <1>3, <1>4, <1>5, <1>6, <1>7, <1>8 DEF ChainStep

\* What a node answers about the head, less the confirmations, is final.
LEMMA ConfirmedIsFinal ==
    ASSUME MatureL1, ChainTypeOK, NEW view \in Views
    PROVE  /\ Confirmed(view) \in Nat
           /\ Confirmed(view) <= final
    BY L1ChainAssumption, L1IngestionAssumption
    DEF MatureL1, ChainTypeOK, Views, Confirmed

-----------------------------------------------------------------------------
(* Finality of what is stored.                                             *)

LEMMA EndIterationFinal ==
    ASSUME ChainTypeOK, UNCHANGED <<chainVars>>, 0 <= synced', EndIteration
    PROVE  WindowFinal'
<1>1. Len(ranges') = 0
    BY DEF EndIteration
<1>2. 0 <= final' /\ final' \in Nat
    BY DEF ChainTypeOK, chainVars
<1> QED
    BY <1>1, <1>2 DEF EndIteration, WindowFinal

LEMMA FinalInvInit == Init => FinalInv
<1> SUFFICES ASSUME Init
             PROVE  FinalInv
    OBVIOUS
<1>1. TypeInv
    BY TypeInvInit
<1>2. StoredIsFinal
    BY DEF Init, DBInit, StoredIsFinal
<1>3. Len(ranges) = 0
    BY DEF Init
<1>4. WindowFinal
    BY <1>3, L1ChainAssumption DEF Init, DBInit, ChainInit, WindowFinal
<1> QED
    BY <1>1, <1>2, <1>4 DEF FinalInv

\* Only StoreEntries changes the tables; every other step keeps the logs
\* they come from.
LEMMA StoredFinalStep ==
    ASSUME FinalInv, L1Step
    PROVE  StoredIsFinal'
<1> USE DEF FinalInv, TypeInv, TypeOK
<1>1. CASE StoreEntries
    <2>1. PICK l \in events : PutEntries(table, EntriesOf(l, table))
        BY <1>1 DEF StoreEntries
    <2>2. l \in logs /\ l.block <= final
        BY DEF WindowFinal
    <2>3. logs' = logs /\ final' = final
        BY <1>1 DEF StoreEntries, chainVars
    <2>4. table \in Tables
        BY <1>1 DEF StoreEntries, ControlOK
    <2> SUFFICES ASSUME NEW t \in Tables, NEW e \in entries'[t]
                 PROVE  \E m \in logs :
                            m.block <= final /\ e \in EntriesOf(m, t)
        BY <2>3 DEF StoredIsFinal, EntriesOf, TransactionBatchEntry,
                    TransactionEntries, StateRootEntries,
                    StateRootBatchEntry, TransactionIndex, QueueIndex
    <2>5. CASE e \in entries[t]
        BY <2>5 DEF StoredIsFinal
    <2>6. CASE e \notin entries[t]
        <3>1. t = table /\ e \in EntriesOf(l, table)
            BY <2>1, <2>4, <2>6 DEF PutEntries, Put, DBTypeOK
        <3> QED
            BY <2>2, <3>1
    <2> QED
        BY <2>5, <2>6
<1>2. CASE ChainNext
    <2>1. /\ final \in Nat /\ final' \in Nat
          /\ \A l \in logs : l.block \in Nat
        BY <1>2, ChainStepType, LogOfKind DEF ChainNext, ChainTypeOK
    <2>2. /\ final <= final'
          /\ \A l \in logs : l.block <= final => l \in logs'
        BY <1>2, FinalKept DEF ChainNext
    <2>3. entries' = entries
        BY <1>2 DEF ChainNext, dbVars
    <2>4. ASSUME NEW t \in Tables, NEW e \in entries[t]
          PROVE  \E l \in logs' : l.block <= final' /\ e \in EntriesOf(l, t)
        <3>1. PICK l \in logs : l.block <= final /\ e \in EntriesOf(l, t)
            BY DEF StoredIsFinal
        <3>2. l \in logs' /\ l.block <= final'
            BY <2>1, <2>2, <3>1
        <3> QED
            BY <3>1, <3>2
    <2> QED
        BY <2>3, <2>4 DEF StoredIsFinal
<1>3. CASE UNCHANGED <<entries, logs, final>>
    BY <1>3 DEF StoredIsFinal
<1>4. CASE ~StoreEntries /\ ~ChainNext
    <2>1. UNCHANGED <<entries, logs, final>>
        BY <1>4, Frame
    <2> QED
        BY <2>1, <1>3
<1> QED
    BY <1>1, <1>2, <1>4

\* A range that is appended is as final as the block it ends with.
LEMMA PushFinal ==
    ASSUME TypeOK, WindowFinal, NEW lastBlock \in 0 .. final,
           PushEventRange(lastBlock), UNCHANGED final
    PROVE  \A i \in 1 .. Len(ranges') :
               0 <= ranges'[i].toBlock /\ ranges'[i].toBlock <= final'
<1>1. PICK a \in Addresses \cup {AddressZero} :
          ranges' = Append(ranges, [address |-> a, fromBlock |-> rangeStart,
                                    toBlock |-> lastBlock])
    BY DEF PushEventRange
<1>2. ranges \in Seq(EventRange) /\ final \in Nat
    BY DEF TypeOK, ChainTypeOK
<1>3. \A i \in 1 .. Len(ranges) :
          0 <= ranges[i].toBlock /\ ranges[i].toBlock <= final
    BY DEF WindowFinal
<1>4. /\ Len(ranges') = Len(ranges) + 1
      /\ \A i \in 1 .. Len(ranges) : ranges'[i] = ranges[i]
      /\ ranges'[Len(ranges) + 1].toBlock = lastBlock
      /\ Len(ranges) \in Nat
    BY <1>1, <1>2
<1>5. \A i \in 1 .. Len(ranges') : i \in 1 .. Len(ranges)
                                       \/ i = Len(ranges) + 1
    BY <1>4
<1> QED
    BY <1>2, <1>3, <1>4, <1>5

\* What is read is below the blocks asked for, which are final, and what is
\* final stays.
LEMMA WindowFinalStep ==
    ASSUME MatureL1, FinalInv, L1Step
    PROVE  WindowFinal'
<1> USE DEF FinalInv, TypeInv, TypeOK
<1>nat. /\ final \in Nat
        /\ \A l \in logs : l.block \in Nat
        /\ \A s \in addressSets : s.block \in Nat
    BY LogOfKind DEF ChainTypeOK, AddressSetLog
<1>ranges. \A i \in 1 .. Len(ranges) : ranges[i].toBlock \in Int
    <2> SUFFICES ASSUME NEW i \in 1 .. Len(ranges)
                 PROVE  ranges[i].toBlock \in Int
        OBVIOUS
    <2>1. ranges[i] \in EventRange
        <3>1. ranges \in Seq(EventRange)
            OBVIOUS
        <3> QED
            BY <3>1
    <2> QED
        BY <2>1 DEF EventRange
<1>1. CASE Poll
    <2>1. PICK got \in {synced, Null}, view \in Views :
              LET highest == IF ToNumber(got) = 0 THEN startBlock ELSE got
                  head == Confirmed(view)
                  target == IF highest + LogsPerPoll <= head
                            THEN highest + LogsPerPoll ELSE head
              IN  \/ UNCHANGED pollVars
                  \/ to' = target
        BY <1>1 DEF Poll
    <2> DEFINE highest == IF ToNumber(got) = 0 THEN startBlock ELSE got
               head == Confirmed(view)
               target == IF highest + LogsPerPoll <= head
                         THEN highest + LogsPerPoll ELSE head
    <2>2. highest \in Nat
        BY DEF ToNumber, DBTypeOK, WindowFinal
    <2>3. head \in Nat /\ head <= final
        BY ConfirmedIsFinal
    <2> HIDE DEF highest, head
    <2>4. target \in Nat /\ target <= final
        BY <1>nat, <2>2, <2>3, L1IngestionAssumption
    <2> HIDE DEF target
    <2>5. to' = to \/ to' = target
        BY <2>1 DEF highest, head, target, pollVars
    <2>6. UNCHANGED <<logs, final, synced, addressSets, ranges, events>>
        BY <1>1 DEF Poll, chainVars, dbVars, eventVars
    <2> QED
        BY <2>4, <2>5, <2>6 DEF WindowFinal
<1>2. CASE QueryAddressSets
    <2>1. PICK view \in Views :
              addressSets' =
                  LogsBetween(AddressSets(Syncs[sync].contract), from, to,
                              view)
        BY <1>2 DEF QueryAddressSets
    <2>2. BlockTag(to, view) = to
        BY DEF BlockTag, WindowFinal
    <2>3. \A s \in addressSets' : s \in logs /\ s.block <= to
        BY <2>1, <2>2 DEF LogsBetween, AddressSets, OfKind
    <2>4. UNCHANGED <<logs, final, synced, to, ranges, events>>
        BY <1>2 DEF QueryAddressSets, chainVars, dbVars, pollVars, eventVars
    <2>5. to <= final
        BY DEF WindowFinal
    <2>6. \A s \in addressSets' : s.block <= final'
        BY <1>nat, <2>3, <2>4, <2>5
    <2> QED
        BY <2>4, <2>6 DEF WindowFinal
<1>3. CASE PushAddressRange
    <2>1. PICK s \in addressSets :
              PushEventRange(s.block) /\ addressSets' = addressSets \ {s}
        BY <1>3 DEF PushAddressRange
    <2>2. UNCHANGED <<logs, final, synced, to, events>>
        BY <1>3 DEF PushAddressRange, chainVars, dbVars, pollVars, eventVars
    <2>3. s.block \in 0 .. final
        BY <1>nat DEF WindowFinal
    <2>4. \A i \in 1 .. Len(ranges') :
              0 <= ranges'[i].toBlock /\ ranges'[i].toBlock <= final'
        BY <2>1, <2>2, <2>3, PushFinal
    <2> QED
        BY <2>1, <2>2, <2>4 DEF WindowFinal
<1>4. CASE PushLastRange
    <2>1. UNCHANGED <<logs, final, synced, to, events, addressSets>>
        BY <1>4 DEF PushLastRange, chainVars, dbVars, pollVars, eventVars
    <2>2. to \in 0 .. final
        BY <1>nat DEF WindowFinal
    <2>3. \A i \in 1 .. Len(ranges') :
              0 <= ranges'[i].toBlock /\ ranges'[i].toBlock <= final'
        BY <1>4, <2>1, <2>2, PushFinal DEF PushLastRange
    <2> QED
        BY <2>1, <2>3 DEF WindowFinal
<1>5. CASE QueryEvents
    <2> DEFINE range == Head(ranges)
    <2>1. ranges # <<>> /\ ranges \in Seq(EventRange)
        BY <1>5 DEF QueryEvents
    <2>2. 0 <= range.toBlock /\ range.toBlock <= final
        BY <2>1 DEF WindowFinal
    <2>3. range.toBlock \in Int
        BY <2>1, <1>ranges
    <2>4. PICK view \in Views :
              events' =
                  LogsBetween({l \in OfKind({Syncs[sync].event}) :
                                   l.address = range.address},
                              range.fromBlock, range.toBlock, view)
        BY <1>5 DEF QueryEvents
    <2>5. BlockTag(range.toBlock, view) = range.toBlock
        BY <2>2, <2>3 DEF BlockTag
    <2>6. \A l \in events' : l \in logs /\ l.block <= range.toBlock
        BY <2>4, <2>5 DEF LogsBetween, OfKind
    <2>7. UNCHANGED <<logs, final, synced, to, addressSets>>
              /\ ranges' = Tail(ranges)
        BY <1>5 DEF QueryEvents, chainVars, dbVars, pollVars
    <2>8. /\ Len(ranges') = Len(ranges) - 1
          /\ \A i \in 1 .. Len(ranges') : ranges'[i] = ranges[i + 1]
        BY <2>1, <2>7
    <2>9. \A i \in 1 .. Len(ranges') :
              0 <= ranges'[i].toBlock /\ ranges'[i].toBlock <= final'
        BY <2>1, <2>7, <2>8 DEF WindowFinal
    <2>10. \A l \in events' : l \in logs' /\ l.block <= final'
        BY <1>nat, <2>2, <2>3, <2>6, <2>7
    <2> QED
        BY <2>7, <2>9, <2>10 DEF WindowFinal
<1>6. CASE StoreLatestEntry \/ EndStoreBatch
    <2>1. events' \subseteq events
        BY <1>6 DEF StoreLatestEntry, EndStoreBatch
    <2>2. UNCHANGED <<logs, final, synced, to, addressSets, ranges>>
        BY <1>6
        DEF StoreLatestEntry, EndStoreBatch, chainVars, dbVars, pollVars,
            rangeVars
    <2> QED
        BY <2>1, <2>2 DEF WindowFinal
<1>7. CASE FinishIteration
    BY <1>7, EndIterationFinal
    DEF FinishIteration, SetHighestSyncedL1Block, WindowFinal
<1>8. CASE Interrupted
    <2>1. EndIteration /\ UNCHANGED <<chainVars, synced>>
        BY <1>8 DEF Interrupted, dbVars
    <2> QED
        BY <2>1, EndIterationFinal DEF WindowFinal
<1>9. CASE ChainNext
    <2>1. final' \in Nat
        BY <1>9, ChainStepType DEF ChainNext, ChainTypeOK
    <2>2. /\ final <= final'
          /\ \A l \in logs : l.block <= final => l \in logs'
        BY <1>9, FinalKept DEF ChainNext
    <2>3. UNCHANGED <<synced, to, addressSets, ranges, events>>
        BY <1>9
        DEF ChainNext, dbVars, localVars, pollVars, rangeVars, eventVars
    <2> QED
        BY <1>nat, <1>ranges, <2>1, <2>2, <2>3 DEF WindowFinal
<1>10. CASE UNCHANGED <<logs, final, synced, to, addressSets, ranges, events>>
    BY <1>10 DEF WindowFinal
<1>11. CASE \/ LoadContracts \/ FindStartingL1Block
            \/ SearchStartingL1Block \/ StoreTotalElements \/ Wake
            \/ EndSyncEvents \/ EndRange \/ ParseEvent \/ StoreEntries
            \/ StoreCtcIndex \/ Restart \/ Returned \/ Elsewhere
    <2>1. UNCHANGED <<logs, final, synced, to, addressSets, ranges, events>>
        BY <1>11
        DEF LoadContracts, FindStartingL1Block, SearchStartingL1Block,
            StoreTotalElements, Wake, EndSyncEvents,
            EndRange, ParseEvent, StoreEntries, StoreCtcIndex, Restart,
            Returned, Elsewhere,
            chainVars, dbVars, localVars, pollVars, rangeVars, eventVars
    <2> QED
        BY <1>10, <2>1
<1> QED
    BY <1>1, <1>2, <1>3, <1>4, <1>5, <1>6, <1>7, <1>8, <1>9, <1>11
    DEF L1Step, Service

\* On a mature chain nothing is stored that a reorganisation can remove,
\* although events are read from a moving chain and lagging nodes.
THEOREM StoredFinal == ASSUME MatureL1
                       PROVE  Spec => []StoredIsFinal
<1>1. Init => FinalInv
    BY FinalInvInit
<1>2. FinalInv /\ [Next]_vars => FinalInv'
    BY StepOfL1, TypeInvStep, WindowFinalStep, StoredFinalStep DEF FinalInv
<1>3. FinalInv => StoredIsFinal
    BY DEF FinalInv
<1> QED
    BY <1>1, <1>2, <1>3, PTL DEF Spec

-----------------------------------------------------------------------------
(* Stored records are not replaced: an index belongs to one log.           *)

\* A place taken from End(S) is not below any member of S.
LEMMA EndIsLast ==
    ASSUME NEW S, NEW n \in End(S)
    PROVE  \A m \in S : m <= n
    BY DEF End

\* A new log gets new indices.
LEMMA ChainUniqueStep ==
    ASSUME ChainTypeOK, ChainUnique, ChainStep \/ Reorg
    PROVE  ChainUnique'
<1> USE DEF Enqueued, TransactionBatches, StateBatches, OfKind
<1>sets. /\ \A l \in Enqueued : l.queueIndex \in Nat
         /\ \A l \in TransactionBatches :
               l.batchIndex \in Nat /\ l.prev \in Nat /\ Len(l.shape) \in Nat
         /\ \A l \in StateBatches :
               l.batchIndex \in Nat /\ l.prev \in Nat /\ l.size \in Nat
    <2>1. \A l \in Enqueued : l.queueIndex \in Nat
        BY LogSets DEF EnqueuedLog
    <2>2. \A l \in TransactionBatches : l.batchIndex \in Nat /\ l.prev \in Nat
        BY LogSets DEF TransactionBatchLog
    <2>3. \A l \in TransactionBatches : Len(l.shape) \in Nat
        BY LogSets, ShapeType
    <2>4. \A l \in StateBatches :
              l.batchIndex \in Nat /\ l.prev \in Nat /\ l.size \in Nat
        BY LogSets DEF StateBatchLog
    <2> QED
        BY <2>1, <2>2, <2>3, <2>4
<1>pos. \A pos \in NextPos : \A m \in logs : m.pos # pos
    <2> SUFFICES ASSUME NEW pos \in NextPos, NEW m \in logs
                 PROVE  m.pos # pos
        OBVIOUS
    <2>1. m.pos \in Nat /\ pos \in Nat
        BY LogOfKind, NextTypes DEF ChainTypeOK
    <2>2. m.pos + 1 <= pos
        BY EndIsLast DEF NextPos
    <2> QED
        BY <2>1, <2>2
<1>1. CASE Mine \/ Reorg
    <2>1. logs' \subseteq logs
        BY <1>1 DEF Mine, Reorg
    <2> QED
        BY <2>1 DEF ChainUnique, Disjoint
<1>2. CASE SetAddress
    <2>0. PICK name \in Upgradable, pos \in NextPos :
              \E a \in Addresses :
                  Emit([pos |-> pos, block |-> tip + 1,
                        kind |-> "AddressSet", name |-> name,
                        newAddress |-> a])
        BY <1>2 DEF SetAddress
    <2>a. PICK a \in Addresses :
              Emit([pos |-> pos, block |-> tip + 1, kind |-> "AddressSet",
                    name |-> name, newAddress |-> a])
        BY <2>0
    <2> DEFINE l == [pos |-> pos, block |-> tip + 1, kind |-> "AddressSet",
                     name |-> name, newAddress |-> a]
    <2>1. /\ l.kind = "AddressSet"
          /\ l.pos = pos
          /\ logs' = logs \cup {l}
        BY <2>a DEF Emit
    <2> HIDE DEF l
    <2>2. /\ Enqueued' = Enqueued
          /\ TransactionBatches' = TransactionBatches
          /\ StateBatches' = StateBatches
        BY <2>1 DEF TransactionBatchKinds
    <2> QED
        BY <1>pos, <2>1, <2>2 DEF ChainUnique, Disjoint
<1>3. CASE Enqueue
    <2>0. PICK a \in Registered(CTC), pos \in NextPos, q \in NextQueueIndex :
              Emit([pos |-> pos, block |-> tip + 1,
                    kind |-> "TransactionEnqueued", address |-> a,
                    queueIndex |-> q])
        BY <1>3 DEF Enqueue
    <2> DEFINE l == [pos |-> pos, block |-> tip + 1,
                     kind |-> "TransactionEnqueued", address |-> a,
                     queueIndex |-> q]
    <2>1. /\ l.kind = "TransactionEnqueued"
          /\ l.pos = pos
          /\ l.queueIndex = q
          /\ logs' = logs \cup {l}
        BY <2>0 DEF Emit
    <2> HIDE DEF l
    <2>2. /\ Enqueued' = Enqueued \cup {l}
          /\ TransactionBatches' = TransactionBatches
          /\ StateBatches' = StateBatches
        BY <2>1 DEF TransactionBatchKinds
    <2>3. \A m \in Enqueued : m.queueIndex + 1 <= q
        BY EndIsLast DEF NextQueueIndex
    <2>4. q \in Nat
        BY NextTypes
    <2>5. \A m \in Enqueued : m.queueIndex # l.queueIndex
        BY <1>sets, <2>1, <2>3, <2>4
    <2> QED
        BY <1>pos, <2>1, <2>2, <2>5 DEF ChainUnique, Disjoint
<1>4. ASSUME NEW kind \in TransactionBatchKinds, NEW shape \in Shapes,
             AppendTransactionBatch(kind, shape)
      PROVE  ChainUnique'
    <2>0. PICK a \in Registered(CTC), pos \in NextPos,
               b \in NextBatchIndex(TransactionBatches),
               prev \in TotalElements(TransactionBatches),
               queueStart \in NextToDequeue :
              Emit([pos |-> pos, block |-> tip + 1, kind |-> kind,
                    address |-> a, batchIndex |-> b, prev |-> prev,
                    shape |-> shape, queueStart |-> queueStart])
        BY <1>4 DEF AppendTransactionBatch
    <2> DEFINE l == [pos |-> pos, block |-> tip + 1, kind |-> kind,
                     address |-> a, batchIndex |-> b, prev |-> prev,
                     shape |-> shape, queueStart |-> queueStart]
    <2>1. /\ l.kind = kind
          /\ l.pos = pos
          /\ l.batchIndex = b
          /\ l.prev = prev
          /\ logs' = logs \cup {l}
        BY <2>0 DEF Emit
    <2> HIDE DEF l
    <2>2. /\ Enqueued' = Enqueued
          /\ TransactionBatches' = TransactionBatches \cup {l}
          /\ StateBatches' = StateBatches
        BY <1>4, <2>1 DEF TransactionBatchKinds
    <2>3. \A m \in TransactionBatches : m.batchIndex + 1 <= b
        BY EndIsLast DEF NextBatchIndex
    <2>4. \A m \in TransactionBatches : m.prev + Len(m.shape) <= prev
        BY EndIsLast DEF TotalElements
    <2>5. b \in Nat
        BY NextTypes
    <2>6. \A m \in TransactionBatches :
              /\ l.batchIndex # m.batchIndex
              /\ Disjoint(l, Len(l.shape), m, Len(m.shape))
              /\ Disjoint(m, Len(m.shape), l, Len(l.shape))
        BY <1>sets, <2>1, <2>3, <2>4, <2>5 DEF Disjoint
    <2> QED
        BY <1>pos, <2>1, <2>2, <2>6 DEF ChainUnique, Disjoint
<1>5. CASE AppendStateBatch
    <2>0. PICK a \in Registered(SCC), pos \in NextPos,
               b \in NextBatchIndex(StateBatches), prev \in TotalStates,
               total \in TotalElements(TransactionBatches) :
              \E size \in 1 .. total - prev :
                  Emit([pos |-> pos, block |-> tip + 1,
                        kind |-> "StateBatchAppended", address |-> a,
                        batchIndex |-> b, prev |-> prev, size |-> size])
        BY <1>5 DEF AppendStateBatch
    <2>s. PICK size \in 1 .. total - prev :
              Emit([pos |-> pos, block |-> tip + 1,
                    kind |-> "StateBatchAppended", address |-> a,
                    batchIndex |-> b, prev |-> prev, size |-> size])
        BY <2>0
    <2> DEFINE l == [pos |-> pos, block |-> tip + 1,
                     kind |-> "StateBatchAppended", address |-> a,
                     batchIndex |-> b, prev |-> prev, size |-> size]
    <2>1. /\ l.kind = "StateBatchAppended"
          /\ l.pos = pos
          /\ l.batchIndex = b
          /\ l.prev = prev
          /\ logs' = logs \cup {l}
        BY <2>s DEF Emit
    <2> HIDE DEF l
    <2>2. /\ Enqueued' = Enqueued
          /\ TransactionBatches' = TransactionBatches
          /\ StateBatches' = StateBatches \cup {l}
        BY <2>1 DEF TransactionBatchKinds
    <2>3. \A m \in StateBatches : m.batchIndex + 1 <= b
        BY EndIsLast DEF NextBatchIndex
    <2>4. \A m \in StateBatches : m.prev + m.size <= prev
        BY EndIsLast DEF TotalStates
    <2>5. b \in Nat
        BY NextTypes
    <2>6. \A m \in StateBatches :
              /\ l.batchIndex # m.batchIndex
              /\ Disjoint(l, l.size, m, m.size)
              /\ Disjoint(m, m.size, l, l.size)
        BY <1>sets, <2>1, <2>3, <2>4, <2>5 DEF Disjoint
    <2> QED
        BY <1>pos, <2>1, <2>2, <2>6 DEF ChainUnique, Disjoint
<1>6. CASE AppendSequencerBatch
    BY <1>4, <1>6 DEF AppendSequencerBatch, TransactionBatchKinds
<1>7. CASE AppendQueueBatch
    BY <1>4, <1>7 DEF AppendQueueBatch, TransactionBatchKinds
<1> QED
    BY <1>1, <1>2, <1>3, <1>5, <1>6, <1>7 DEF ChainStep

\* The logs of one chain give a table at most one record per index.
LEMMA EntriesDetermined ==
    ASSUME ChainTypeOK, ChainUnique, NEW t \in Tables,
           NEW l \in logs, NEW m \in logs,
           NEW e \in EntriesOf(l, t), NEW f \in EntriesOf(m, t),
           e.index = f.index
    PROVE  e = f
<1> USE DEF Enqueued, TransactionBatches, StateBatches, OfKind
<1>1. CASE l.kind = "TransactionEnqueued" /\ m.kind = "TransactionEnqueued"
    BY <1>1 DEF EntriesOf, ChainUnique, TransactionBatchKinds
<1>2. CASE /\ l.kind \in TransactionBatchKinds
           /\ m.kind \in TransactionBatchKinds
    <2>1. l \in TransactionBatches /\ m \in TransactionBatches
        BY <1>2
    <2>2. /\ l.prev \in Nat /\ Len(l.shape) \in Nat
          /\ m.prev \in Nat /\ Len(m.shape) \in Nat
        BY <2>1, LogSets, ShapeType DEF TransactionBatchLog
    <2>3. CASE t = "batch:transaction"
        BY <1>2, <2>1, <2>3
        DEF EntriesOf, ChainUnique, TransactionBatchEntry,
            TransactionBatchKinds
    <2>4. CASE t = "transaction"
        <3>1. PICK j \in 1 .. Len(l.shape) :
                  e = [index |-> TransactionIndex(l, j),
                       batchIndex |-> l.batchIndex,
                       queueOrigin |-> l.shape[j],
                       queueIndex |-> QueueIndex(l, j)]
            BY <1>2, <2>4 DEF EntriesOf, TransactionEntries
        <3>2. PICK k \in 1 .. Len(m.shape) :
                  f = [index |-> TransactionIndex(m, k),
                       batchIndex |-> m.batchIndex,
                       queueOrigin |-> m.shape[k],
                       queueIndex |-> QueueIndex(m, k)]
            BY <1>2, <2>4 DEF EntriesOf, TransactionEntries
        <3>3. l.prev + j - 1 = m.prev + k - 1
            BY <3>1, <3>2 DEF TransactionIndex
        <3>4. ~Disjoint(l, Len(l.shape), m, Len(m.shape))
            BY <2>2, <3>3 DEF Disjoint
        <3>5. l = m
            BY <2>1, <3>4 DEF ChainUnique
        <3>6. j = k
            BY <2>2, <3>3, <3>5
        <3> QED
            BY <3>1, <3>2, <3>5, <3>6
    <2> QED
        BY <1>2, <2>3, <2>4 DEF EntriesOf, TransactionBatchKinds
<1>3. CASE l.kind = "StateBatchAppended" /\ m.kind = "StateBatchAppended"
    <2>1. l \in StateBatches /\ m \in StateBatches
        BY <1>3
    <2>2. /\ l.prev \in Nat /\ l.size \in Nat
          /\ m.prev \in Nat /\ m.size \in Nat
        BY <2>1, LogSets DEF StateBatchLog
    <2>3. CASE t = "batch:stateroot"
        BY <1>3, <2>1, <2>3
        DEF EntriesOf, ChainUnique, StateRootBatchEntry, TransactionBatchKinds
    <2>4. CASE t = "stateroot"
        <3>1. PICK i \in 0 .. l.size - 1 :
                  e = [index |-> l.prev + i, batchIndex |-> l.batchIndex]
            BY <1>3, <2>4
            DEF EntriesOf, StateRootEntries, TransactionBatchKinds
        <3>2. PICK k \in 0 .. m.size - 1 :
                  f = [index |-> m.prev + k, batchIndex |-> m.batchIndex]
            BY <1>3, <2>4
            DEF EntriesOf, StateRootEntries, TransactionBatchKinds
        <3>3. ~Disjoint(l, l.size, m, m.size)
            BY <2>2, <3>1, <3>2 DEF Disjoint
        <3>4. l = m
            BY <2>1, <3>3 DEF ChainUnique
        <3> QED
            BY <3>1, <3>2, <3>4
    <2> QED
        BY <1>3, <2>3, <2>4 DEF EntriesOf, TransactionBatchKinds
<1>4. \/ l.kind = "TransactionEnqueued" /\ m.kind = "TransactionEnqueued"
      \/ /\ l.kind \in TransactionBatchKinds
         /\ m.kind \in TransactionBatchKinds
      \/ l.kind = "StateBatchAppended" /\ m.kind = "StateBatchAppended"
    BY DEF EntriesOf
<1> QED
    BY <1>1, <1>2, <1>3, <1>4

ImmutableInv == FinalInv /\ ChainUnique

\* A batch write keeps what is stored: a record it replaces is the same.
LEMMA EntriesKept ==
    ASSUME ImmutableInv, L1Step, NEW t \in Tables
    PROVE  entries[t] \subseteq entries'[t]
<1> USE DEF ImmutableInv, FinalInv, TypeInv, TypeOK
<1>1. CASE StoreEntries
    <2>1. PICK l \in events : PutEntries(table, EntriesOf(l, table))
        BY <1>1 DEF StoreEntries
    <2>2. l \in logs
        BY DEF WindowFinal
    <2>3. table \in Tables /\ entries \in [Tables -> SUBSET Entry]
        BY <1>1 DEF StoreEntries, ControlOK, DBTypeOK
    <2>4. CASE t # table
        BY <2>1, <2>3, <2>4 DEF PutEntries, Put
    <2>5. CASE t = table
        <3> SUFFICES ASSUME NEW e \in entries[table]
                     PROVE  e \in entries'[table]
            BY <2>5
        <3>1. PICK m \in logs : e \in EntriesOf(m, table)
            BY <2>3 DEF StoredIsFinal
        <3>2. \A r \in EntriesOf(l, table) : r.index = e.index => r = e
            BY <2>2, <2>3, <3>1, EntriesDetermined
        <3> QED
            BY <2>1, <2>3, <3>2 DEF PutEntries, Put
    <2> QED
        BY <2>4, <2>5
<1>2. CASE ~StoreEntries
    <2>1. entries' = entries
        BY <1>2, Frame
    <2> QED
        BY <2>1
<1> QED
    BY <1>1, <1>2

LEMMA ImmutableInvInit == Init => ImmutableInv
<1> SUFFICES ASSUME Init
             PROVE  ChainUnique
    BY FinalInvInit DEF ImmutableInv
<1>1. \A l \in logs : l.kind = "AddressSet"
    BY DEF Init, ChainInit
<1>2. \A l, m \in logs : l.pos = m.pos => l = m
    BY DEF Init, ChainInit
<1> QED
    BY <1>1, <1>2
    DEF ChainUnique, Enqueued, TransactionBatches, StateBatches, OfKind,
        TransactionBatchKinds

LEMMA ImmutableInvStep ==
    ASSUME MatureL1
    PROVE  ImmutableInv /\ L1Step => ImmutableInv'
<1> USE DEF ImmutableInv
<1> SUFFICES ASSUME ImmutableInv, L1Step
             PROVE  ImmutableInv'
    OBVIOUS
<1>1. FinalInv'
    BY TypeInvStep, WindowFinalStep, StoredFinalStep DEF FinalInv
<1>2. CASE ChainNext
    BY <1>1, <1>2, ChainUniqueStep
    DEF ChainNext, FinalInv, TypeInv, TypeOK
<1>3. CASE UNCHANGED logs
    BY <1>1, <1>3
    DEF ChainUnique, Disjoint, Enqueued, TransactionBatches,
        StateBatches, OfKind
<1>4. CASE ~ChainNext
    <2>1. UNCHANGED logs
        BY <1>4, Frame
    <2> QED
        BY <1>3, <2>1
<1> QED
    BY <1>2, <1>4

\* On a mature chain a stored record is never replaced by another one or
\* dropped, however often the same events are read again.
THEOREM NothingReplaced == ASSUME MatureL1
                           PROVE  Spec => EntriesImmutable
<1>1. Init => ImmutableInv
    BY ImmutableInvInit
<1>2. ImmutableInv /\ [Next]_vars => ImmutableInv'
    BY ImmutableInvStep, StepOfL1
<1>3. ImmutableInv /\ [Next]_vars =>
          [\A t \in Tables : entries[t] \subseteq entries'[t]]_entries
    BY EntriesKept, StepOfL1 DEF ImmutableInv
<1> QED
    BY <1>1, <1>2, <1>3, PTL DEF Spec, EntriesImmutable
-----------------------------------------------------------------------------
(* The index from queue elements to transactions, "ctc:enqueue", is always *)
(* right on a mature chain, although it is written entry by entry after    *)
(* the transactions and survives crashes in between.                       *)

IndexInv == ImmutableInv /\ StoringOrder /\ CtcIndexPointsBack

LEMMA IndexInvInit == Init => IndexInv
<1> SUFFICES ASSUME Init
             PROVE  StoringOrder /\ CtcIndexPointsBack
    BY ImmutableInvInit DEF IndexInv
<1> QED
    BY DEF Init, DBInit, StoringOrder, CtcIndexPointsBack

\* What is put after the records was in them.
LEMMA StoringOrderStep ==
    ASSUME ImmutableInv, StoringOrder, L1Step
    PROVE  StoringOrder'
<1>type. TypeInv /\ TypeOK /\ ControlOK /\ WindowFinal
    BY DEF ImmutableInv, FinalInv, TypeInv
<1>kept. /\ "transaction" \in Tables
         /\ \A t \in Tables : entries[t] \subseteq entries'[t]
    BY EntriesKept DEF ImmutableInv, Tables
<1>first. \A l, m \in events : IsFirst(l, events) /\ IsFirst(m, events) => l = m
    <2> SUFFICES ASSUME NEW l \in events, NEW m \in events,
                        IsFirst(l, events), IsFirst(m, events)
                 PROVE  l = m
        OBVIOUS
    <2>1. l \in logs /\ m \in logs
        BY <1>type DEF WindowFinal
    <2>2. l.pos \in Nat /\ m.pos \in Nat
        BY <1>type, <2>1, LogOfKind DEF TypeOK, ChainTypeOK
    <2>3. l.pos = m.pos
        BY <2>2 DEF IsFirst
    <2> QED
        BY <2>1, <2>3 DEF ImmutableInv, ChainUnique
<1>1. CASE StoreEntries
    <2>1. PICK l \in events :
              NextEvent(l) /\ PutEntries(table, EntriesOf(l, table))
        BY <1>1 DEF StoreEntries
    <2>2. table \in Tables /\ entries \in [Tables -> SUBSET Entry]
        BY <1>1, <1>type DEF StoreEntries, ControlOK, TypeOK, DBTypeOK
    <2>3. EntriesOf(l, table) \subseteq entries'[table]
        BY <2>1, <2>2 DEF PutEntries, Put
    <2>4. UNCHANGED <<events, table, pending>>
        BY <1>1 DEF StoreEntries, localVars, eventVars
    <2>5. \A m \in events : IsFirst(m, events) => m = l
        BY <1>first, <2>1 DEF NextEvent
    <2>6. \A m \in events' :
              IsFirst(m, events)' => EntriesOf(m, table)' \subseteq entries'[table]
        BY <2>3, <2>4, <2>5
        DEF IsFirst, EntriesOf, TransactionBatchEntry, TransactionEntries,
            StateRootEntries, StateRootBatchEntry, TransactionIndex,
            QueueIndex
    <2> QED
        BY <1>kept, <2>4, <2>6 DEF StoringOrder
<1>2. CASE StoreLatestEntry
    <2>1. PICK l \in events :
              /\ NextEvent(l)
              /\ pc' # "latest"
              /\ \/ pending' = pending
                 \/ /\ table = "transaction"
                    /\ pending' = {tx \in EntriesOf(l, table) :
                                      tx.queueOrigin = "l1"}
        BY <1>2 DEF StoreLatestEntry
    <2>2. EntriesOf(l, table) \subseteq entries[table]
        BY <1>2, <2>1 DEF StoreLatestEntry, StoringOrder, NextEvent
    <2>3. pending' \subseteq entries["transaction"]
        BY <2>1, <2>2 DEF StoringOrder
    <2> QED
        BY <1>kept, <2>1, <2>3 DEF StoringOrder
<1>3. CASE StoreCtcIndex
    <2>1. pending' \subseteq pending /\ pc' # "latest"
        BY <1>3 DEF StoreCtcIndex
    <2> QED
        BY <1>kept, <2>1 DEF StoringOrder
<1>4. CASE FinishIteration \/ Interrupted
    BY <1>4 DEF FinishIteration, Interrupted, EndIteration, StoringOrder
<1>5. CASE ChainNext \/ Elsewhere
    <2>1. UNCHANGED <<entries, events, table, pending, pc>>
        BY <1>5 DEF ChainNext, Elsewhere, dbVars, localVars, eventVars
    <2> QED
        BY <2>1
        DEF StoringOrder, IsFirst, EntriesOf, TransactionBatchEntry,
            TransactionEntries, StateRootEntries, StateRootBatchEntry,
            TransactionIndex, QueueIndex
<1>6. CASE \/ LoadContracts \/ FindStartingL1Block
           \/ SearchStartingL1Block \/ StoreTotalElements \/ Poll \/ Wake
           \/ QueryAddressSets \/ PushAddressRange \/ PushLastRange
           \/ QueryEvents \/ EndSyncEvents \/ EndRange \/ ParseEvent
           \/ EndStoreBatch \/ Restart \/ Returned
    <2>1. pending' = pending /\ pc' # "latest"
        BY <1>6
        DEF LoadContracts, FindStartingL1Block, SearchStartingL1Block,
            StoreTotalElements, Poll, Wake,
            QueryAddressSets, PushAddressRange, PushLastRange, QueryEvents,
            EndSyncEvents, EndRange, ParseEvent, EndStoreBatch, Restart,
            Returned, localVars, eventVars
    <2> QED
        BY <1>kept, <2>1 DEF StoringOrder
<1> QED
    BY <1>1, <1>2, <1>3, <1>4, <1>5, <1>6 DEF L1Step, Service

\* Only StoreCtcIndex writes the index, from a transaction that is stored
\* and is never replaced.
LEMMA CtcIndexStep ==
    ASSUME IndexInv, L1Step
    PROVE  CtcIndexPointsBack'
<1>kept. entries["transaction"] \subseteq entries'["transaction"]
    BY EntriesKept DEF IndexInv, ImmutableInv, Tables
<1> SUFFICES ASSUME NEW c \in ctcIndex'
             PROVE  \E tx \in entries'["transaction"] :
                        /\ tx.index = c.index
                        /\ tx.queueOrigin = "l1"
                        /\ tx.queueIndex = c.queueIndex
    BY DEF CtcIndexPointsBack, At
<1>1. CASE c \in ctcIndex
    BY <1>1, <1>kept DEF IndexInv, CtcIndexPointsBack, At
<1>2. CASE StoreCtcIndex /\ c \notin ctcIndex
    <2>1. PICK tx \in pending :
              PutTransactionIndexByQueueIndex(tx.queueIndex, tx.index)
        BY <1>2 DEF StoreCtcIndex
    <2>2. c = [queueIndex |-> tx.queueIndex, index |-> tx.index]
        BY <1>2, <2>1 DEF PutTransactionIndexByQueueIndex
    <2>3. tx \in QueuedEntry
        BY DEF IndexInv, ImmutableInv, FinalInv, TypeInv, TypeOK
    <2>4. tx \in entries["transaction"]
        BY DEF IndexInv, StoringOrder
    <2> QED
        BY <1>kept, <2>2, <2>3, <2>4 DEF QueuedEntry
<1>3. CASE ~StoreCtcIndex
    <2>1. ctcIndex' = ctcIndex
        BY <1>3, Frame
    <2> QED
        BY <1>1, <2>1
<1> QED
    BY <1>1, <1>2, <1>3

\* On a mature chain the index of a queue element always leads to a stored
\* transaction that is this element.
THEOREM CtcIndexCorrect == ASSUME MatureL1
                           PROVE  Spec => []CtcIndexPointsBack
<1>1. Init => IndexInv
    BY IndexInvInit
<1>2. IndexInv /\ L1Step => IndexInv'
    BY ImmutableInvStep, StoringOrderStep, CtcIndexStep DEF IndexInv
<1>3. IndexInv => CtcIndexPointsBack
    BY DEF IndexInv
<1> QED
    BY <1>1, <1>2, <1>3, StepOfL1, PTL DEF Spec
=============================================================================
