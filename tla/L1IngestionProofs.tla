------------------------- MODULE L1IngestionProofs -------------------------
(***************************************************************************)
(* Proofs about L1 ingestion, for every value of the constants that meets  *)
(* their assumptions: any number of logs, blocks, faults and addresses.    *)
(***************************************************************************)
EXTENDS L1IngestionProperties, FiniteSetTheorems, SequenceTheorems, TLAPS

-----------------------------------------------------------------------------
(* The operators of the chain and of the parser.                           *)

\* The number of queue elements in a batch is a natural number.
LEMMA NumQueuedType ==
    ASSUME NEW s \in Seq(QueueOrigins)
    PROVE  NumQueued(s) \in Nat
<1>1. DOMAIN s = 1 .. Len(s) /\ Len(s) \in Nat
    OBVIOUS
<1>2. IsFiniteSet(1 .. Len(s))
    BY <1>1, FS_Interval
<1>3. IsFiniteSet({k \in DOMAIN s : s[k] = "l1"})
    BY <1>1, <1>2, FS_Subset
<1> QED
    BY <1>3, FS_CardinalityType DEF NumQueued

\* The kind of a log tells its record type.
LEMMA LogOfKind ==
    ASSUME NEW l \in Log
    PROVE  /\ l.pos \in Nat
           /\ l.block \in Nat
           /\ l.kind \in AllKinds
           /\ l.kind = "AddressSet" <=> l \in AddressSetLog
           /\ l.kind = "TransactionEnqueued" <=> l \in EnqueuedLog
           /\ l.kind \in TransactionBatchKinds <=> l \in TransactionBatchLog
           /\ l.kind = "StateBatchAppended" <=> l \in StateBatchLog
    BY DEF Log, AddressSetLog, EnqueuedLog, TransactionBatchLog,
           StateBatchLog, TransactionBatchKinds, AllKinds

\* Shapes are sequences, and the queue elements of a batch can be counted.
LEMMA ShapeType ==
    ASSUME NEW l \in TransactionBatchLog
    PROVE  /\ l.shape \in Seq(QueueOrigins)
           /\ Len(l.shape) \in Nat
           /\ NumQueued(l.shape) \in Nat
           /\ \A k \in 1 .. Len(l.shape) :
                 /\ l.shape[k] \in QueueOrigins
                 /\ NumQueued(SubSeq(l.shape, 1, k - 1)) \in Nat
<1>1. l.shape \in Seq(QueueOrigins)
    BY L1ChainAssumption DEF TransactionBatchLog
<1>2. ASSUME NEW k \in 1 .. Len(l.shape)
      PROVE  SubSeq(l.shape, 1, k - 1) \in Seq(QueueOrigins)
    BY <1>1, <1>2
<1>3. Len(l.shape) \in Nat /\ NumQueued(l.shape) \in Nat
    BY <1>1, NumQueuedType
<1>4. \A k \in 1 .. Len(l.shape) : l.shape[k] \in QueueOrigins
    BY <1>1
<1>5. \A k \in 1 .. Len(l.shape) :
          NumQueued(SubSeq(l.shape, 1, k - 1)) \in Nat
    BY <1>2, NumQueuedType
<1> QED
    BY <1>1, <1>3, <1>4, <1>5

\* A transaction batch parses into transaction entries ...
LEMMA TransactionEntriesType ==
    ASSUME NEW l \in TransactionBatchLog
    PROVE  TransactionEntries(l) \subseteq TransactionEntry
<1> SUFFICES ASSUME NEW k \in 1 .. Len(l.shape)
             PROVE  [index |-> TransactionIndex(l, k),
                     batchIndex |-> l.batchIndex,
                     queueOrigin |-> l.shape[k],
                     queueIndex |-> QueueIndex(l, k)] \in TransactionEntry
    BY DEF TransactionEntries
<1>1. l.prev \in Nat /\ l.batchIndex \in Nat /\ l.queueStart \in Nat
    BY DEF TransactionBatchLog
<1>2. TransactionIndex(l, k) \in Nat
    BY <1>1, ShapeType DEF TransactionIndex
<1>3. CASE l.shape[k] = "l1"
    <2>1. QueueIndex(l, k) \in Nat
        BY <1>1, <1>3, ShapeType DEF QueueIndex
    <2> QED
        BY <1>1, <1>2, <1>3, <2>1 DEF TransactionEntry, QueuedEntry
<1>4. CASE l.shape[k] = "sequencer"
    <2>1. QueueIndex(l, k) = Null
        BY <1>4 DEF QueueIndex
    <2> QED
        BY <1>1, <1>2, <1>4, <2>1 DEF TransactionEntry, SequencedEntry
<1> QED
    BY <1>3, <1>4, ShapeType DEF QueueOrigins

\* ... and every log into records of the table they go to.
LEMMA EntriesOfType ==
    ASSUME NEW l \in Log, NEW t \in Tables
    PROVE  /\ EntriesOf(l, t) \subseteq Entry
           /\ t = "transaction" => EntriesOf(l, t) \subseteq TransactionEntry
           /\ \A e \in EntriesOf(l, t) : e.index \in Nat
<1> DEFINE Typed ==
               /\ EntriesOf(l, t) \subseteq Entry
               /\ t = "transaction" =>
                     EntriesOf(l, t) \subseteq TransactionEntry
               /\ \A e \in EntriesOf(l, t) : e.index \in Nat
<1> SUFFICES Typed
    OBVIOUS
<1>1. CASE t = "enqueue" /\ l.kind = "TransactionEnqueued"
    BY <1>1, LogOfKind DEF EntriesOf, EnqueuedLog, Entry, EnqueueEntry
<1>2. CASE t = "batch:transaction" /\ l.kind \in TransactionBatchKinds
    BY <1>2, LogOfKind, ShapeType
    DEF EntriesOf, TransactionBatchLog, Entry, BatchEntry,
        TransactionBatchEntry
<1>3. CASE t = "transaction" /\ l.kind \in TransactionBatchKinds
    <2>1. EntriesOf(l, t) = TransactionEntries(l)
        BY <1>3 DEF EntriesOf
    <2>2. TransactionEntries(l) \subseteq TransactionEntry
        BY <1>3, LogOfKind, TransactionEntriesType
    <2> QED
        BY <2>1, <2>2
        DEF Entry, TransactionEntry, SequencedEntry, QueuedEntry
<1>4. CASE t = "batch:stateroot" /\ l.kind = "StateBatchAppended"
    BY <1>4, LogOfKind
    DEF EntriesOf, StateBatchLog, Entry, BatchEntry, StateRootBatchEntry
<1>5. CASE t = "stateroot" /\ l.kind = "StateBatchAppended"
    <2>1. EntriesOf(l, t) = StateRootEntries(l)
        BY <1>5 DEF EntriesOf
    <2>2. StateRootEntries(l) \subseteq StateRootEntry
        BY <1>5, LogOfKind DEF StateRootEntries, StateBatchLog, StateRootEntry
    <2> QED
        BY <1>5, <2>1, <2>2 DEF Entry, StateRootEntry
<1>6. CASE /\ ~(t = "enqueue" /\ l.kind = "TransactionEnqueued")
           /\ ~(t = "batch:transaction" /\ l.kind \in TransactionBatchKinds)
           /\ ~(t = "transaction" /\ l.kind \in TransactionBatchKinds)
           /\ ~(t = "batch:stateroot" /\ l.kind = "StateBatchAppended")
           /\ ~(t = "stateroot" /\ l.kind = "StateBatchAppended")
    BY <1>6 DEF EntriesOf
<1> HIDE DEF Typed
<1> QED
    BY <1>1, <1>2, <1>3, <1>4, <1>5, <1>6

\* The next free number of a set of naturals is a natural number.
LEMMA EndType ==
    ASSUME NEW S \in SUBSET Nat
    PROVE  End(S) \subseteq Nat
<1> SUFFICES ASSUME NEW n \in End(S)
             PROVE  n \in Nat
    OBVIOUS
<1>1. n \in S \cup {0}
    BY DEF End
<1> QED
    BY <1>1

-----------------------------------------------------------------------------
(* Type correctness.                                                       *)

\* The logs of a kind have that kind's record type.
LEMMA LogSets ==
    ASSUME ChainTypeOK
    PROVE  /\ Enqueued \subseteq EnqueuedLog
           /\ TransactionBatches \subseteq TransactionBatchLog
           /\ StateBatches \subseteq StateBatchLog
           /\ \A name : AddressSets(name) \subseteq AddressSetLog
    BY LogOfKind
    DEF ChainTypeOK, Enqueued, TransactionBatches, StateBatches, AddressSets,
        OfKind

\* Where the chain goes on, and which addresses are registered.
LEMMA NextTypes ==
    ASSUME ChainTypeOK
    PROVE  /\ NextPos \subseteq Nat
           /\ NextQueueIndex \subseteq Nat
           /\ NextBatchIndex(TransactionBatches) \subseteq Nat
           /\ NextBatchIndex(StateBatches) \subseteq Nat
           /\ \A S \in SUBSET TransactionBatches :
                 TotalElements(S) \subseteq Nat
           /\ NextToDequeue \subseteq Nat
           /\ TotalStates \subseteq Nat
           /\ \A name : Registered(name) \subseteq Addresses
<1>1. NextPos \subseteq Nat
    <2>1. {l.pos + 1 : l \in logs} \in SUBSET Nat
        BY LogOfKind DEF ChainTypeOK
    <2> QED
        BY <2>1, EndType DEF NextPos
<1>2. NextQueueIndex \subseteq Nat
    <2>1. {l.queueIndex + 1 : l \in Enqueued} \in SUBSET Nat
        BY LogSets DEF EnqueuedLog
    <2> QED
        BY <2>1, EndType DEF NextQueueIndex
<1>3. NextBatchIndex(TransactionBatches) \subseteq Nat
    <2>1. {l.batchIndex + 1 : l \in TransactionBatches} \in SUBSET Nat
        BY LogSets DEF TransactionBatchLog
    <2> QED
        BY <2>1, EndType DEF NextBatchIndex
<1>4. NextBatchIndex(StateBatches) \subseteq Nat
    <2>1. {l.batchIndex + 1 : l \in StateBatches} \in SUBSET Nat
        BY LogSets DEF StateBatchLog
    <2> QED
        BY <2>1, EndType DEF NextBatchIndex
<1>5. ASSUME NEW S \in SUBSET TransactionBatches
      PROVE  TotalElements(S) \subseteq Nat
    <2>1. \A l \in S : l.prev \in Nat /\ Len(l.shape) \in Nat
        BY LogSets, ShapeType DEF TransactionBatchLog
    <2>2. {l.prev + Len(l.shape) : l \in S} \in SUBSET Nat
        BY <2>1
    <2> QED
        BY <2>2, EndType DEF TotalElements
<1>6. NextToDequeue \subseteq Nat
    <2>1. \A l \in TransactionBatches :
              l.queueStart \in Nat /\ NumQueued(l.shape) \in Nat
        BY LogSets, ShapeType DEF TransactionBatchLog
    <2>2. {l.queueStart + NumQueued(l.shape) : l \in TransactionBatches}
              \in SUBSET Nat
        BY <2>1
    <2> QED
        BY <2>2, EndType DEF NextToDequeue
<1>7. TotalStates \subseteq Nat
    <2>1. {l.prev + l.size : l \in StateBatches} \in SUBSET Nat
        BY LogSets DEF StateBatchLog
    <2> QED
        BY <2>1, EndType DEF TotalStates
<1>8. \A name : Registered(name) \subseteq Addresses
    BY LogSets DEF Registered, AddressSetLog
<1> QED
    BY <1>1, <1>2, <1>3, <1>4, <1>5, <1>6, <1>7, <1>8

LEMMA ChainInitType == ChainInit => ChainTypeOK
<1> SUFFICES ASSUME ChainInit
             PROVE  ChainTypeOK
    OBVIOUS
<1>1. [pos |-> 0, block |-> DeployBlock, kind |-> "AddressSet",
       name |-> CTC, newAddress |-> Deployed[CTC]] \in AddressSetLog
    BY L1ChainAssumption DEF AddressSetLog, ContractNames
<1>2. [pos |-> 1, block |-> DeployBlock, kind |-> "AddressSet",
       name |-> SCC, newAddress |-> Deployed[SCC]] \in AddressSetLog
    BY L1ChainAssumption DEF AddressSetLog, ContractNames
<1> QED
    BY <1>1, <1>2, L1ChainAssumption DEF ChainInit, ChainTypeOK, Log

\* Every step of the chain, a reorganisation included, keeps its types.
LEMMA ChainStepType ==
    ASSUME ChainTypeOK, ChainStep \/ Reorg
    PROVE  ChainTypeOK'
<1> USE DEF ChainTypeOK
<1>1. ASSUME NEW l \in Log, Emit(l)
      PROVE  ChainTypeOK'
    BY <1>1 DEF Emit
<1>2. CASE SetAddress
    <2>1. PICK name \in Upgradable, pos \in NextPos :
              \E a \in Addresses \ Registered(name) :
                  Emit([pos |-> pos, block |-> tip + 1,
                        kind |-> "AddressSet", name |-> name,
                        newAddress |-> a])
        BY <1>2 DEF SetAddress
    <2>2. PICK a \in Addresses :
              Emit([pos |-> pos, block |-> tip + 1, kind |-> "AddressSet",
                    name |-> name, newAddress |-> a])
        BY <2>1
    <2>3. name \in ContractNames /\ pos \in Nat
        BY NextTypes, L1ChainAssumption
    <2>4. [pos |-> pos, block |-> tip + 1, kind |-> "AddressSet",
           name |-> name, newAddress |-> a] \in Log
        BY <2>3 DEF Log, AddressSetLog
    <2> QED
        BY <1>1, <2>2, <2>4
<1>3. CASE Enqueue
    <2>1. PICK a \in Registered(CTC), pos \in NextPos,
               q \in NextQueueIndex :
              Emit([pos |-> pos, block |-> tip + 1,
                    kind |-> "TransactionEnqueued", address |-> a,
                    queueIndex |-> q])
        BY <1>3 DEF Enqueue
    <2>2. a \in Addresses /\ pos \in Nat /\ q \in Nat
        BY NextTypes
    <2>3. [pos |-> pos, block |-> tip + 1, kind |-> "TransactionEnqueued",
           address |-> a, queueIndex |-> q] \in Log
        BY <2>2 DEF Log, EnqueuedLog
    <2> QED
        BY <1>1, <2>1, <2>3
<1>4. ASSUME NEW kind \in TransactionBatchKinds, NEW shape \in Shapes,
             AppendTransactionBatch(kind, shape)
      PROVE  ChainTypeOK'
    <2>1. PICK a \in Registered(CTC), pos \in NextPos,
               b \in NextBatchIndex(TransactionBatches),
               prev \in TotalElements(TransactionBatches),
               queueStart \in NextToDequeue :
              Emit([pos |-> pos, block |-> tip + 1, kind |-> kind,
                    address |-> a, batchIndex |-> b, prev |-> prev,
                    shape |-> shape, queueStart |-> queueStart])
        BY <1>4 DEF AppendTransactionBatch
    <2>2. /\ a \in Addresses /\ pos \in Nat /\ b \in Nat
          /\ prev \in Nat /\ queueStart \in Nat
        BY NextTypes
    <2>3. [pos |-> pos, block |-> tip + 1, kind |-> kind, address |-> a,
           batchIndex |-> b, prev |-> prev, shape |-> shape,
           queueStart |-> queueStart] \in Log
        BY <1>4, <2>2 DEF Log, TransactionBatchLog
    <2> QED
        BY <1>1, <2>1, <2>3
<1>5. CASE AppendSequencerBatch
    BY <1>4, <1>5 DEF AppendSequencerBatch, TransactionBatchKinds
<1>6. CASE AppendQueueBatch
    BY <1>4, <1>6 DEF AppendQueueBatch, TransactionBatchKinds
<1>7. CASE AppendStateBatch
    <2>1. PICK a \in Registered(SCC), pos \in NextPos,
               b \in NextBatchIndex(StateBatches), prev \in TotalStates,
               total \in TotalElements(TransactionBatches) :
              \E size \in 1 .. total - prev :
                  Emit([pos |-> pos, block |-> tip + 1,
                        kind |-> "StateBatchAppended", address |-> a,
                        batchIndex |-> b, prev |-> prev, size |-> size])
        BY <1>7 DEF AppendStateBatch
    <2>2. PICK size \in 1 .. total - prev :
              Emit([pos |-> pos, block |-> tip + 1,
                    kind |-> "StateBatchAppended", address |-> a,
                    batchIndex |-> b, prev |-> prev, size |-> size])
        BY <2>1
    <2>3. /\ a \in Addresses /\ pos \in Nat /\ b \in Nat
          /\ prev \in Nat /\ total \in Nat
        BY NextTypes
    <2>4. size \in Nat
        BY <2>3
    <2>5. [pos |-> pos, block |-> tip + 1, kind |-> "StateBatchAppended",
           address |-> a, batchIndex |-> b, prev |-> prev,
           size |-> size] \in Log
        BY <2>3, <2>4 DEF Log, StateBatchLog
    <2> QED
        BY <1>1, <2>2, <2>5
<1>8. CASE Mine
    BY <1>8, L1ChainAssumption DEF Mine
<1>9. CASE Reorg
    BY <1>9, L1ChainAssumption DEF Reorg
<1> QED
    BY <1>2, <1>3, <1>5, <1>6, <1>7, <1>8, <1>9 DEF ChainStep

-----------------------------------------------------------------------------
LEMMA SyncsType ==
    ASSUME NEW n \in 1 .. 3
    PROVE  /\ Syncs[n].contract \in ContractNames
           /\ Syncs[n].event \in AllKinds \ {"AddressSet"}
           /\ Syncs[n].table \in Tables
<1>1. CASE n = 1
    BY <1>1 DEF Syncs, ContractNames, AllKinds, Tables
<1>2. CASE n = 2
    BY <1>2 DEF Syncs, ContractNames, AllKinds, Tables
<1>3. CASE n = 3
    BY <1>3 DEF Syncs, ContractNames, AllKinds, Tables
<1> QED
    BY <1>1, <1>2, <1>3

\* A read answers the stored value or null.
LEMMA GetType ==
    ASSUME NEW value, NEW got, Get(value, got), faults \in Nat
    PROVE  faults' \in Nat
    BY DEF Get, CanFault

LEMMA EndIterationType ==
    ASSUME EndIteration
    PROVE  /\ from' \in Int /\ to' \in Int /\ current' \in Int
           /\ sync' \in 0 .. 3
           /\ addressSets' \in SUBSET AddressSetLog
           /\ rangeStart' \in Int
           /\ ranges' \in Seq(EventRange)
           /\ events' \in SUBSET (Log \ AddressSetLog)
           /\ table' \in Tables \cup {"none"}
           /\ pending' \in SUBSET QueuedEntry
    BY DEF EndIteration

LEMMA TypeInvInit == Init => TypeInv
<1> SUFFICES ASSUME Init
             PROVE  TypeInv
    OBVIOUS
<1>1. ChainTypeOK
    BY ChainInitType DEF Init
<1>2. DBTypeOK
    BY DEF Init, DBInit, DBTypeOK
<1>3. ranges \in Seq(EventRange)
    BY DEF Init
<1> QED
    BY <1>1, <1>2, <1>3 DEF Init, TypeInv, TypeOK, ControlOK, PCs, InitPCs

\* A fault interrupts the iteration, and nothing else happens by itself.
LEMMA StepOfL1 == [Next]_vars => L1Step
    BY DEF Next, L1Step, Fail, Crash, Interrupted, Elsewhere, vars

LEMMA TypeInvStep == TypeInv /\ L1Step => TypeInv'
<1> SUFFICES ASSUME TypeInv, L1Step
             PROVE  TypeInv'
    OBVIOUS
<1> USE DEF TypeInv, TypeOK, ControlOK, PCs, InitPCs
<1>chain. UNCHANGED chainVars => ChainTypeOK'
    BY DEF chainVars, ChainTypeOK
<1>db. UNCHANGED dbVars => DBTypeOK'
    BY DEF dbVars, DBTypeOK
<1>logs. logs \subseteq Log
    BY DEF ChainTypeOK
<1>0. CASE LoadContracts
    BY <1>0, <1>chain, <1>db
    DEF LoadContracts, localVars, pollVars, rangeVars, eventVars
<1>1. CASE FindStartingL1Block
    <2>1. PICK got \in {starting, Null} :
              /\ Get(starting, got)
              /\ \/ /\ ToNumber(got) # 0
                    /\ startBlock' = got
                    /\ pc' = "total"
                    /\ UNCHANGED current
                 \/ /\ ToNumber(got) = 0
                    /\ current' \in Views
                    /\ pc' = "search"
                    /\ UNCHANGED startBlock
        BY <1>1 DEF FindStartingL1Block
    <2>2. faults' \in Nat
        BY <2>1, GetType
    <2>3. Views \subseteq Int
        BY L1ChainAssumption DEF Views, ChainTypeOK
    <2>4. startBlock' \in Nat /\ current' \in Int
        BY <2>1, <2>3 DEF ToNumber, DBTypeOK
    <2> QED
        BY <1>1, <1>chain, <1>db, <2>1, <2>2, <2>4
        DEF FindStartingL1Block, rangeVars, eventVars
<1>1a. CASE SearchStartingL1Block
    <2>1. ChainTypeOK'
        BY <1>1a DEF SearchStartingL1Block, chainVars, ChainTypeOK
    <2>2. \A view : \A s \in AddressSetsFound(view) : s.block \in Nat
        BY LogOfKind DEF AddressSetsFound, LogsBetween, OfKind, ChainTypeOK
    <2>3. startBlock' \in Nat /\ starting' \in Nat
        BY <1>1a, <2>2 DEF SearchStartingL1Block, SetStartingL1Block, DBTypeOK
    <2>4. from' \in Int /\ current' \in Int
        BY <1>1a, L1IngestionAssumption DEF SearchStartingL1Block
    <2>5. DBTypeOK'
        BY <1>1a, <2>3 DEF SearchStartingL1Block, DBTypeOK
    <2> QED
        BY <1>1a, <2>1, <2>3, <2>4, <2>5
        DEF SearchStartingL1Block, rangeVars, eventVars
<1>2. CASE StoreTotalElements
    <2>1. ChainTypeOK'
        BY <1>2 DEF StoreTotalElements, chainVars, ChainTypeOK
    <2>2. PICK view, total :
              /\ view \in Views
              /\ total \in GetTotalElements(view)
              /\ \/ /\ total > 0
                    /\ \E got \in {highestL2, Null} :
                          /\ Get(highestL2, got)
                          /\ PutHighestL2BlockNumber(total - 1, got)
                 \/ total = 0 /\ UNCHANGED <<highestL2, faults>>
        BY <1>2 DEF StoreTotalElements
    <2>3. total \in Nat
        <3>1. {l \in TransactionBatches : l.block <= view}
                  \in SUBSET TransactionBatches
            OBVIOUS
        <3> QED
            BY <2>2, <3>1, NextTypes DEF GetTotalElements
    <2>4. highestL2' \in Nat \cup {Null} /\ faults' \in Nat
        <3>1. CASE total = 0 /\ UNCHANGED <<highestL2, faults>>
            BY <3>1 DEF DBTypeOK
        <3>2. CASE /\ total > 0
                   /\ \E got \in {highestL2, Null} :
                         /\ Get(highestL2, got)
                         /\ PutHighestL2BlockNumber(total - 1, got)
            BY <3>2, <2>3, GetType DEF PutHighestL2BlockNumber, DBTypeOK
        <3> QED
            BY <2>2, <3>1, <3>2
    <2>5. DBTypeOK'
        BY <1>2, <2>4 DEF StoreTotalElements, DBTypeOK
    <2> QED
        BY <1>2, <2>1, <2>4, <2>5
        DEF StoreTotalElements, localVars, pollVars, rangeVars, eventVars
<1>3. CASE Poll
    <2>1. ChainTypeOK' /\ DBTypeOK'
        BY <1>3 DEF Poll, chainVars, dbVars, ChainTypeOK, DBTypeOK
    <2>2. PICK got \in {synced, Null}, view \in Views :
              LET highest == IF ToNumber(got) = 0 THEN startBlock ELSE got
                  head == Confirmed(view)
                  target == IF highest + LogsPerPoll <= head
                            THEN highest + LogsPerPoll ELSE head
              IN  /\ Get(synced, got)
                  /\ \/ /\ pc' = "sleep"
                        /\ UNCHANGED <<pollVars, sync>>
                     \/ /\ pc' = "resolve"
                        /\ from' = highest
                        /\ to' = target
                        /\ current' = view
                        /\ sync' = 1
        BY <1>3 DEF Poll
    <2> DEFINE highest == IF ToNumber(got) = 0 THEN startBlock ELSE got
               head == Confirmed(view)
               target == IF highest + LogsPerPoll <= head
                         THEN highest + LogsPerPoll ELSE head
    <2>3. highest \in Int
        BY DEF ToNumber, DBTypeOK
    <2>4. view \in Int
        BY L1ChainAssumption DEF Views, ChainTypeOK
    <2>5. target \in Int
        BY <2>3, <2>4, L1IngestionAssumption DEF Confirmed
    <2>6. faults' \in Nat
        BY <2>2, GetType
    <2> HIDE DEF highest, head, target
    <2>7. \/ pc' = "sleep" /\ UNCHANGED <<pollVars, sync>>
          \/ /\ pc' = "resolve" /\ from' = highest /\ to' = target
             /\ current' = view /\ sync' = 1
        BY <2>2 DEF highest, head, target
    <2> QED
        BY <1>3, <2>1, <2>3, <2>4, <2>5, <2>6, <2>7
        DEF Poll, pollVars, eventVars
<1>4. CASE Wake
    BY <1>4, <1>chain, <1>db
    DEF Wake, localVars, pollVars, rangeVars, eventVars
<1>5. CASE QueryAddressSets
    <2>1. addressSets' \subseteq AddressSetLog
        BY <1>5, LogSets DEF QueryAddressSets, LogsBetween
    <2> QED
        BY <1>5, <2>1, <1>chain, <1>db
        DEF QueryAddressSets, pollVars, eventVars
<1>6. ASSUME NEW lastBlock \in Int, PushEventRange(lastBlock)
      PROVE  ranges' \in Seq(EventRange)
    <2>1. PICK a \in Addresses \cup {AddressZero} :
              ranges' = Append(ranges, [address |-> a,
                                        fromBlock |-> rangeStart,
                                        toBlock |-> lastBlock])
        BY <1>6 DEF PushEventRange
    <2>2. [address |-> a, fromBlock |-> rangeStart, toBlock |-> lastBlock]
              \in EventRange
        BY <1>6 DEF EventRange
    <2> QED
        BY <2>1, <2>2
<1>7. CASE PushAddressRange
    <2>1. PICK s \in addressSets :
              /\ PushEventRange(s.block)
              /\ rangeStart' = RangeStartAfter(s)
              /\ addressSets' = addressSets \ {s}
        BY <1>7 DEF PushAddressRange
    <2>2. s.block \in Int
        BY DEF AddressSetLog
    <2>3. ranges' \in Seq(EventRange)
        BY <2>1, <2>2, <1>6
    <2> QED
        BY <1>7, <2>1, <2>2, <2>3, <1>chain, <1>db
        DEF PushAddressRange, RangeStartAfter, pollVars, eventVars
<1>8. CASE PushLastRange
    <2>1. ranges' \in Seq(EventRange)
        BY <1>8, <1>6 DEF PushLastRange
    <2> QED
        BY <1>8, <2>1, <1>chain, <1>db
        DEF PushLastRange, pollVars, eventVars
<1>9. CASE QueryEvents
    <2>1. sync \in 1 .. 3 /\ Syncs[sync].event # "AddressSet"
        BY <1>9, SyncsType DEF QueryEvents
    <2>2. events' \subseteq {l \in logs : l.kind = Syncs[sync].event}
        BY <1>9 DEF QueryEvents, LogsBetween, OfKind
    <2>3. events' \subseteq Log \ AddressSetLog
        BY <2>1, <2>2, <1>logs, LogOfKind
    <2>4. ranges' \in Seq(EventRange)
        BY <1>9 DEF QueryEvents
    <2> QED
        BY <1>9, <2>3, <2>4, <1>chain, <1>db
        DEF QueryEvents, pollVars, eventVars
<1>10. CASE EndSyncEvents
    BY <1>10, <1>chain, <1>db DEF EndSyncEvents, pollVars, eventVars
<1>11. CASE ParseEvent
    <2>1. table' \in Tables /\ sync \in 1 .. 3
        BY <1>11, SyncsType DEF ParseEvent
    <2> QED
        BY <1>11, <2>1, <1>chain, <1>db
        DEF ParseEvent, pollVars, rangeVars
<1>12. CASE EndRange
    BY <1>12, <1>chain, <1>db
    DEF EndRange, localVars, pollVars, rangeVars, eventVars
<1>13. CASE StoreEntries
    <2>1. PICK l \in events : PutEntries(table, EntriesOf(l, table))
        BY <1>13 DEF StoreEntries
    <2>2. table \in Tables /\ EntriesOf(l, table) \subseteq Entry
        BY <1>13, EntriesOfType DEF StoreEntries
    <2>3. entries' \in [Tables -> SUBSET Entry]
        BY <2>1, <2>2 DEF PutEntries, Put, DBTypeOK
    <2>4. DBTypeOK'
        BY <1>13, <2>3 DEF StoreEntries, DBTypeOK
    <2> QED
        BY <1>13, <2>4, <1>chain
        DEF StoreEntries, localVars, pollVars, rangeVars, eventVars
<1>14. CASE StoreLatestEntry
    <2>1. table \in Tables
        BY <1>14 DEF StoreLatestEntry
    <2>2. PICK l, e, got :
              /\ l \in events
              /\ e \in EntriesOf(l, table)
              /\ got \in {latest[table], Null}
              /\ Get(latest[table], got)
              /\ PutLatestEntry(table, e.index, got)
              /\ \/ /\ NextTable(table) # "none"
                    /\ table' = NextTable(table)
                    /\ pc' = "store"
                    /\ UNCHANGED <<events, pending>>
                 \/ /\ table = "transaction"
                    /\ table' = "none"
                    /\ pending' = {tx \in EntriesOf(l, table) :
                                      tx.queueOrigin = "l1"}
                    /\ pc' = "index"
                    /\ UNCHANGED events
                 \/ /\ table \in {"enqueue", "stateroot"}
                    /\ table' = "none"
                    /\ events' = events \ {l}
                    /\ pc' = "event"
                    /\ UNCHANGED pending
        BY <1>14 DEF StoreLatestEntry
    <2>3. e.index \in Nat
        BY <2>1, <2>2, EntriesOfType
    <2>4. latest' \in [Tables -> Nat \cup {Null}]
        BY <2>1, <2>2, <2>3 DEF PutLatestEntry, Latest, DBTypeOK
    <2>5. DBTypeOK'
        BY <1>14, <2>4 DEF StoreLatestEntry, DBTypeOK
    <2>6. faults' \in Nat
        BY <2>2, GetType
    <2>7. events' \in SUBSET (Log \ AddressSetLog)
        BY <2>2
    <2>8. pending' \in SUBSET QueuedEntry
        <3>1. table = "transaction" =>
                  EntriesOf(l, table) \subseteq TransactionEntry
            BY <2>1, <2>2, EntriesOfType
        <3>2. \A tx \in TransactionEntry :
                  tx.queueOrigin = "l1" => tx \in QueuedEntry
            BY DEF TransactionEntry, SequencedEntry
        <3> QED
            BY <2>2, <3>1, <3>2
    <2>9. /\ table' \in Tables \cup {"none"}
          /\ pc' = "store" => table' \in Tables
          /\ pc' \in {"store", "index", "event"}
        BY <2>2 DEF NextTable, Tables
    <2> QED
        BY <1>14, <2>5, <2>6, <2>7, <2>8, <2>9, <1>chain
        DEF StoreLatestEntry, pollVars, rangeVars
<1>15. CASE StoreCtcIndex
    <2>1. PICK tx \in pending :
              /\ PutTransactionIndexByQueueIndex(tx.queueIndex, tx.index)
              /\ pending' = pending \ {tx}
        BY <1>15 DEF StoreCtcIndex
    <2>2. tx.queueIndex \in Nat /\ tx.index \in Nat
        BY DEF QueuedEntry
    <2>3. ctcIndex' \in SUBSET [queueIndex: Nat, index: Nat]
        BY <2>1, <2>2 DEF PutTransactionIndexByQueueIndex, DBTypeOK
    <2>4. DBTypeOK'
        BY <1>15, <2>3 DEF StoreCtcIndex, DBTypeOK
    <2> QED
        BY <1>15, <2>1, <2>4, <1>chain
        DEF StoreCtcIndex, pollVars, rangeVars
<1>16. CASE EndStoreBatch
    BY <1>16, <1>chain, <1>db DEF EndStoreBatch, pollVars, rangeVars
<1>17. CASE FinishIteration
    <2>1. DBTypeOK'
        BY <1>17 DEF FinishIteration, SetHighestSyncedL1Block, DBTypeOK
    <2> QED
        BY <1>17, <2>1, <1>chain, EndIterationType DEF FinishIteration
<1>18. CASE Interrupted
    BY <1>18, <1>chain, <1>db, EndIterationType DEF Interrupted
<1>19. CASE Returned
    BY <1>19, <1>chain, <1>db
    DEF Returned, localVars, pollVars, rangeVars, eventVars
<1>20. CASE Restart
    BY <1>20, <1>chain, <1>db
    DEF Restart, localVars, pollVars, rangeVars, eventVars
<1>21. CASE ChainNext
    <2>1. ChainTypeOK'
        BY <1>21, ChainStepType DEF ChainNext
    <2> QED
        BY <1>21, <2>1, <1>db
        DEF ChainNext, localVars, pollVars, rangeVars, eventVars
<1>22. CASE Elsewhere
    BY <1>22, <1>chain, <1>db
    DEF Elsewhere, localVars, pollVars, rangeVars, eventVars
<1> QED
    BY <1>0, <1>1, <1>1a, <1>2, <1>3, <1>4, <1>5, <1>7, <1>8, <1>9, <1>10,
       <1>11, <1>12, <1>13, <1>14, <1>15, <1>16, <1>17, <1>18, <1>19, <1>20, <1>21, <1>22
    DEF L1Step, Service

\* Which action writes what: every other step leaves it alone.
LEMMA Frame ==
    ASSUME L1Step
    PROVE  /\ ~ChainNext => UNCHANGED <<logs, tip, final>>
           /\ ~StoreEntries => UNCHANGED entries
           /\ ~StoreLatestEntry => UNCHANGED latest
           /\ ~StoreCtcIndex => UNCHANGED ctcIndex
           /\ ~FinishIteration => UNCHANGED synced
           /\ ~SearchStartingL1Block => UNCHANGED starting
<1> USE DEF chainVars, dbVars
<1>1. CASE ChainNext \/ Restart \/ Interrupted \/ Returned \/ Elsewhere
    BY <1>1 DEF ChainNext, Restart, Interrupted, Returned, Elsewhere
<1>2. CASE \/ LoadContracts \/ FindStartingL1Block
           \/ SearchStartingL1Block \/ StoreTotalElements \/ Poll \/ Wake
    BY <1>2
    DEF LoadContracts, FindStartingL1Block, SearchStartingL1Block,
        StoreTotalElements, Poll, Wake
<1>3. CASE \/ QueryAddressSets \/ PushAddressRange \/ PushLastRange
           \/ QueryEvents \/ EndSyncEvents \/ EndRange \/ ParseEvent
    BY <1>3
    DEF QueryAddressSets, PushAddressRange, PushLastRange, QueryEvents,
        EndSyncEvents, EndRange, ParseEvent
<1>4. CASE \/ StoreEntries \/ StoreLatestEntry \/ StoreCtcIndex
           \/ EndStoreBatch \/ FinishIteration
    BY <1>4
    DEF StoreEntries, StoreLatestEntry, StoreCtcIndex, EndStoreBatch,
        FinishIteration
<1> QED
    BY <1>1, <1>2, <1>3, <1>4 DEF L1Step, Service

\* Every variable keeps its type in every behaviour.
THEOREM TypeCorrect == Spec => []TypeOK
<1>1. Init => TypeInv
    BY TypeInvInit
<1>2. TypeInv /\ [Next]_vars => TypeInv'
    BY TypeInvStep, StepOfL1
<1>3. TypeInv => TypeOK
    BY DEF TypeInv
<1> QED
    BY <1>1, <1>2, <1>3, PTL DEF Spec
=============================================================================
