---------------------------- MODULE ServerProofs ----------------------------
(***************************************************************************)
(* What the server answers, while both loops write between its reads, the  *)
(* chain is reorganised, reads fail and the process stops or dies: what a  *)
(* handler knows between two of its reads of what it has read so far, and  *)
(* why it is right in the end.                                             *)
(***************************************************************************)
EXTENDS TransportProofs

ElementRoutes == {"transaction", "stateroot"}
BatchRoutes == {"batch:transaction", "batch:stateroot"}

\* Which routes make each read.
Stage ==
    /\ spc = "idle" <=> route = Null
    /\ spc = "highest" => route = "syncing"
    /\ spc \in {"pointer", "entry"} => route \in Tables \cup {"syncing"}
    /\ spc = "queue" => route = "transaction"
    /\ spc \in {"unconfirmedPointer", "unconfirmedEntry"} =>
          HasUnconfirmed(route)
    /\ spc = "batch" => route \in ElementRoutes
    /\ spc = "ctcIndex" => route = "enqueue"
    /\ spc = "range" => route \in BatchRoutes
    /\ spc = "element" => route = "batch:transaction"
    /\ spc \in {"tip", "block"} => route = "context"
    /\ spc = "block" => key \in Nat
    /\ route = "syncing" => wanted = Null
    /\ route = "context" => asOf = Null
    /\ spc \in {"idle", "highest"} => again = FALSE

-----------------------------------------------------------------------------
(* The record of the answer.                                               *)

\* e is in no batch, or its batch is stored and contains it.
InBatch(r, e) ==
    \/ e.batchIndex = Null
    \/ \E b \in At(BatchTable(r), e.batchIndex) :
          e.index \in b.prevTotalElements
                          .. b.prevTotalElements + b.size - 1

\* An "l1" transaction has the fields of its queue element.
IsFull(tx) ==
    "queueOrigin" \in DOMAIN tx /\ IsQueued(tx) =>
        \E q \in At("enqueue", tx.queueIndex) :
            tx.data = q.index /\ tx.blockNumber = q.blockNumber

QueuedStored == {tx \in entries["transaction"] : IsQueued(tx)}

\* What is known of the record of an answer to route r.
Known(r, e) ==
    /\ e.index \in Nat
    /\ r \in ElementRoutes => InBatch(r, e)
    /\ r = "transaction" => IsFull(e)
    /\ r \in BatchRoutes => e \in entries[r]

\* An "l1" transaction is not yet complete while its element is read.
GotOK ==
    /\ spc \in {"idle", "highest", "pointer", "entry", "tip", "block"} =>
          got = Null
    /\ spc = "queue" => got \in QueuedStored
    /\ spc # "queue" /\ got # Null => Known(route, got)

-----------------------------------------------------------------------------
(* What is joined to it.                                                   *)

\* The transaction with index i is queue element q.
LeadsTo(i, q) ==
    \E tx \in At("transaction", i) : IsQueued(tx) /\ tx.queueIndex = q

JoinedOK ==
    /\ route # "syncing" /\ spc \notin {"answered", "element"} =>
          joined = Null
    /\ BatchBelongs
    /\ route = "enqueue" /\ joined # Null => LeadsTo(joined, got.index)
    /\ spc = "element" => /\ \A tx \in joined : IsFull(tx)
                          /\ todo \subseteq QueuedStored
    /\ route = "batch:transaction" /\ joined # Null =>
          \A tx \in joined : IsFull(tx)

RequestInv == ServerTypeOK /\ Stage /\ GotOK /\ JoinedOK

\* JavaScript's null is no list of records.
NullIsNoList == Null \notin SUBSET (Entry \cup FullEntry)

\* While the queue elements of a list are read, the list is whole.
ListWhole ==
    /\ spc = "element" =>
          /\ joined \subseteq Entry \cup FullEntry
          /\ {e.index : e \in joined \cup todo} = ElementsOf(got)
    /\ AllOrNothing

-----------------------------------------------------------------------------
(* Its age.                                                                *)

\* Only the loops read without fail; the server itself may miss a read.
PointersNeverBack == NoFailingReads /\ "read" \notin L2FaultKinds

\* The unconfirmed record with this index is stored.
UnconfirmedAt(r, i) ==
    /\ HasUnconfirmed(r)
    /\ \E u \in unconfirmed[UnconfirmedTable(r)] : u.index = i

\* A pointer that leads to a record at least as new as asOf.
Reaches(pointer) == pointer # Null /\ pointer >= asOf
ConfirmedReaches == Reaches(latest[TableFor(route)])
UnconfirmedReaches ==
    HasUnconfirmed(route) /\ Reaches(unconfirmedLatest[UnconfirmedTable(route)])
GotReaches == got # Null /\ Reaches(got.index)

\* What is left to read of an answer that must not be older than asOf.
FreshLatest ==
    /\ spc \in {"pointer", "entry", "queue"} => again = FALSE
    /\ spc \in {"highest", "pointer"} => ConfirmedReaches \/ UnconfirmedReaches
    /\ spc = "entry" =>
          \/ (Reaches(key) /\ At(TableFor(route), key) # {})
          \/ UnconfirmedReaches
    /\ spc \in {"queue", "unconfirmedPointer"} =>
          GotReaches \/ UnconfirmedReaches
    /\ spc = "unconfirmedEntry" =>
          GotReaches \/ (Reaches(key) /\ UnconfirmedAt(route, key))

FreshIndex ==
    /\ spc \in {"unconfirmedEntry", "entry"} => key = wanted /\ asOf = wanted
    /\ spc = "unconfirmedEntry" =>
          \/ At(TableFor(route), wanted) # {}
          \/ UnconfirmedAt(route, wanted)
    /\ spc = "entry" => At(TableFor(route), wanted) # {}
    /\ spc = "queue" => GotReaches
    /\ spc \notin {"highest", "pointer", "unconfirmedPointer"}

Remaining ==
    /\ wanted = Null => FreshLatest
    /\ wanted # Null => FreshIndex
    /\ spc \in {"batch", "ctcIndex", "range", "element", "answered"} =>
          GotReaches

Fresh == asOf # Null /\ ~missed => Remaining

\* An unconfirmed pointer leads to a record.
UnconfirmedResolves ==
    \A t \in UnconfirmedTables :
        unconfirmedLatest[t] # Null =>
            \E u \in unconfirmed[t] : u.index = unconfirmedLatest[t]

-----------------------------------------------------------------------------
(* Being done.                                                             *)

\* Until the transaction is read, the highest known index is at hand.
HighestKnown ==
    /\ route = "syncing" /\ spc \in {"pointer", "entry"} =>
          joined = highestL2 \/ missed
    /\ DoneMeansAllStored

-----------------------------------------------------------------------------
(* The records.                                                            *)

\* What is stored in a table has the form of its records, and a queue
\* element is on the chain.
LEMMA StoredForm ==
    ASSUME ImmutableInv
    PROVE  /\ entries["transaction"] \subseteq TransactionEntry
           /\ entries["stateroot"] \subseteq StateRootEntry
           /\ entries["batch:transaction"] \subseteq BatchEntry
           /\ entries["batch:stateroot"] \subseteq BatchEntry
           /\ entries["enqueue"] \subseteq EnqueueEntry
           /\ \A q \in entries["enqueue"] :
                 q.blockNumber \in EnqueuedIn(q.index)
<1>inv. ChainTypeOK /\ StoredIsFinal
    BY DEF ImmutableInv, FinalInv, TypeInv, TypeOK
<1>log. \A t \in Tables : \A e \in entries[t] :
            \E l \in logs : l \in Log /\ e \in EntriesOf(l, t)
    BY <1>inv DEF StoredIsFinal, ChainTypeOK
<1>1. entries["transaction"] \subseteq TransactionEntry
    BY <1>log, EntriesOfType DEF Tables
<1>2. ASSUME NEW e \in entries["stateroot"]
      PROVE  e \in StateRootEntry
    <2>1. PICK l \in logs : l \in Log /\ e \in EntriesOf(l, "stateroot")
        BY <1>log DEF Tables
    <2>2. l \in StateBatchLog /\ e \in StateRootEntries(l)
        BY <2>1, LogOfKind DEF EntriesOf
    <2> QED
        BY <2>2 DEF StateBatchLog, StateRootEntries, StateRootEntry
<1>3. ASSUME NEW e \in entries["batch:transaction"]
      PROVE  e \in BatchEntry
    <2>1. PICK l \in logs : l \in Log /\ e \in EntriesOf(l, "batch:transaction")
        BY <1>log DEF Tables
    <2>2. l \in TransactionBatchLog /\ e = TransactionBatchEntry(l)
        BY <2>1, LogOfKind DEF EntriesOf
    <2>3. Len(l.shape) \in Nat
        BY <2>2, ShapeType
    <2> QED
        BY <2>2, <2>3
        DEF TransactionBatchLog, TransactionBatchEntry, BatchEntry
<1>4. ASSUME NEW e \in entries["batch:stateroot"]
      PROVE  e \in BatchEntry
    <2>1. PICK l \in logs : l \in Log /\ e \in EntriesOf(l, "batch:stateroot")
        BY <1>log DEF Tables
    <2>2. l \in StateBatchLog /\ e = StateRootBatchEntry(l)
        BY <2>1, LogOfKind DEF EntriesOf
    <2> QED
        BY <2>2 DEF StateBatchLog, StateRootBatchEntry, BatchEntry
<1>5. ASSUME NEW q \in entries["enqueue"]
      PROVE  q \in EnqueueEntry /\ q.blockNumber \in EnqueuedIn(q.index)
    <2>1. PICK l \in logs : l \in Log /\ q \in EntriesOf(l, "enqueue")
        BY <1>log DEF Tables
    <2>2. /\ l \in EnqueuedLog /\ l.kind = "TransactionEnqueued"
          /\ q = [index |-> l.queueIndex, blockNumber |-> l.block]
        BY <2>1, LogOfKind DEF EntriesOf
    <2>3. l \in Enqueued
        BY <2>1, <2>2 DEF Enqueued, OfKind
    <2> QED
        BY <2>2, <2>3 DEF EnqueuedLog, EnqueueEntry, EnqueuedIn
<1> QED
    BY <1>1, <1>2, <1>3, <1>4, <1>5

\* A table has one record at an index.
LEMMA OneRecord ==
    ASSUME ImmutableInv, NEW t \in Tables, NEW e \in entries[t],
           NEW f \in entries[t], e.index = f.index
    PROVE  e = f
<1>1. PICK l \in logs : e \in EntriesOf(l, t)
    BY DEF ImmutableInv, FinalInv, StoredIsFinal
<1>2. PICK m \in logs : f \in EntriesOf(m, t)
    BY DEF ImmutableInv, FinalInv, StoredIsFinal
<1> QED
    BY <1>1, <1>2, EntriesDetermined
    DEF ImmutableInv, FinalInv, TypeInv, TypeOK

-----------------------------------------------------------------------------
(* The context routes: tip and block are asked of two nodes, between which *)
(* the chain may be reorganised, the loops may run and the process may     *)
(* stop.                                                                   *)

\* Where a context request can be, and how high the block is that it asks
\* for: so low that every node has it, now and later.
ContextRequest ==
    route = "context" =>
        /\ spc \in {"tip", "block", "answered", "rejected"}
        /\ wanted \in Nat \cup {Null}
        /\ spc \in {"tip", "block"} => got = Null
        /\ spc = "block" => key \in Nat /\ key <= final - MaxLag
        /\ spc = "answered" /\ got # Null =>
              got.index \in Nat /\ got.index <= final

ContextInv == ChainTypeOK /\ ContextRequest

\* Confirmations cover the deepest reorganisation and the slowest node.
LEMMA ContextBlockFinal ==
    ASSUME MatureL1, ChainTypeOK, NEW view \in Views
    PROVE  ContextBlock(view) \in Nat /\ ContextBlock(view) <= final - MaxLag
BY L1ChainAssumption, L1IngestionAssumption
DEF MatureL1, ChainTypeOK, Views, ContextBlock

\* A node has every block that is MaxLag below the final one.
LEMMA BlockIsThere ==
    ASSUME ChainTypeOK, NEW view \in Views, NEW n \in Nat,
           n <= final - MaxLag
    PROVE  n <= view
BY L1ChainAssumption DEF ChainTypeOK, Views

LEMMA ContextInvInit == DataInit => ContextInv
<1> SUFFICES ASSUME DataInit
             PROVE  ContextInv
    OBVIOUS
<1>1. ChainTypeOK
    BY ChainInitType DEF DataInit, Init
<1>2. route # "context"
    BY TransportServerAssumption DEF DataInit, ServerInit, AllRoutes
<1> QED
    BY <1>1, <1>2 DEF ContextInv, ContextRequest

\* The chain moves while a request waits: what is final stays final.
LEMMA ContextChainStep ==
    ASSUME ContextInv, ChainNext, UNCHANGED handlerVars
    PROVE  ContextInv'
<1>1. ChainTypeOK'
    BY ChainStepType DEF ContextInv, ChainNext
<1>2. final \in Nat /\ final' \in Nat /\ final <= final'
    BY <1>1, FinalKept DEF ContextInv, ChainNext, ChainTypeOK
<1>3. UNCHANGED <<route, spc, wanted, got, key>>
    BY DEF handlerVars, requestVars
<1>4. MaxLag \in Nat
    BY L1ChainAssumption
<1>5. ContextRequest'
    BY <1>2, <1>3, <1>4 DEF ContextInv, ContextRequest
<1> QED
    BY <1>1, <1>5 DEF ContextInv

\* Only the context routes read the chain; every other read belongs to
\* another route.
LEMMA ContextServerStep ==
    ASSUME MatureL1, ContextInv, Request \/ ServerRead \/ Respond,
           UNCHANGED chainVars
    PROVE  ContextInv'
<1> USE DEF ContextInv
<1>1. ChainTypeOK' /\ final' = final /\ final \in Nat
    BY DEF chainVars, ChainTypeOK
<1>2. MaxLag \in Nat
    BY L1ChainAssumption
<1> SUFFICES ASSUME route' = "context"
             PROVE  ContextRequest'
    BY <1>1 DEF ContextRequest
<1>3. CASE Request
    <2>1. PICK r \in Routes, n \in Indices \cup {Null} :
              route' = r /\ wanted' = n /\ spc' = FirstRead(r, n)
        BY <1>3 DEF Request
    <2>2. spc' = "tip" /\ got' = Null
        BY <1>3, <2>1 DEF FirstRead, Request, Tables
    <2> QED
        BY <2>1, <2>2, TransportServerAssumption DEF ContextRequest
<1>4. CASE ReadTip
    <2>1. PICK view \in Views :
              /\ key' = IF wanted = Null THEN ContextBlock(view) ELSE wanted
              /\ spc' = IF key' > ContextBlock(view) THEN "answered"
                                                     ELSE "block"
        BY <1>4 DEF ReadTip
    <2>2. route = "context" /\ wanted' = wanted /\ got' = got
        BY <1>4 DEF ReadTip, requestVars
    <2>3. got = Null /\ wanted \in Nat \cup {Null}
        BY <1>4, <2>2 DEF ReadTip, ContextRequest
    <2>4. /\ ContextBlock(view) \in Nat
          /\ ContextBlock(view) <= final - MaxLag
        BY ContextBlockFinal
    <2>5. key' \in Nat /\ (spc' = "block" => key' <= final - MaxLag)
        BY <1>1, <1>2, <2>1, <2>3, <2>4
    <2> QED
        BY <1>1, <2>1, <2>2, <2>3, <2>5 DEF ContextRequest
<1>5. CASE ReadBlock
    <2>1. route = "context" /\ spc = "block" /\ wanted' = wanted
        BY <1>5 DEF ReadBlock, requestVars
    <2>2. key \in Nat /\ key <= final - MaxLag /\ wanted \in Nat \cup {Null}
        BY <2>1 DEF ContextRequest
    <2>3. \A view \in Views : key <= view
        BY <2>2, BlockIsThere
    <2>4. \A view \in Views : view \in Int
        BY <1>2 DEF Views, ChainTypeOK
    <2>5. got' = [index |-> key] /\ spc' = "answered"
        BY <1>5, <2>2, <2>3, <2>4 DEF ReadBlock
    <2>6. key <= final
        BY <1>1, <1>2, <2>2
    <2> QED
        BY <1>1, <2>1, <2>2, <2>5, <2>6 DEF ContextRequest
<1>6. CASE ReadRejected
    BY <1>6, <1>1 DEF ReadRejected, requestVars, ContextRequest
<1>7. CASE \/ ReadHighest \/ ReadPointer \/ ReadEntry \/ ReadQueueElement
           \/ ReadUnconfirmedPointer \/ ReadUnconfirmedEntry \/ ReadBatch
           \/ ReadCtcIndex \/ ReadRange \/ ReadElement
    <2>1. /\ route' = route
          /\ spc \notin {"tip", "block", "answered", "rejected"}
        BY <1>7
        DEF ReadHighest, ReadPointer, ReadEntry, ReadQueueElement,
            ReadUnconfirmedPointer, ReadUnconfirmedEntry, ReadBatch,
            ReadCtcIndex, ReadRange, ReadElement, requestVars
    <2> QED
        BY <2>1 DEF ContextRequest
<1>8. CASE Respond
    BY <1>8, TransportServerAssumption DEF Respond, ServerIdle, AllRoutes
<1> QED
    BY <1>3, <1>4, <1>5, <1>6, <1>7, <1>8 DEF ServerRead

LEMMA ContextInvStep ==
    ASSUME MatureL1
    PROVE  ContextInv /\ [DataNext]_dataVars => ContextInv'
<1> SUFFICES ASSUME ContextInv, [DataNext]_dataVars
             PROVE  ContextInv'
    OBVIOUS
<1>1. CASE UNCHANGED <<chainVars, handlerVars>>
    BY <1>1
    DEF ContextInv, ContextRequest, ChainTypeOK, chainVars, handlerVars,
        requestVars
<1>2. CASE ServerStep
    BY <1>2, ContextServerStep DEF ServerStep
<1>3. CASE L1Environment
    BY <1>3, ContextChainStep DEF L1Environment, serverVars
<1>4. CASE EndProcess
    <2>1. UNCHANGED chainVars /\ route' # "context"
        BY <1>4, TransportServerAssumption
        DEF EndProcess, ServerIdle, AllRoutes
    <2> QED
        BY <2>1 DEF ContextInv, ContextRequest, ChainTypeOK, chainVars
<1>5. CASE Exit \/ ProcessCrash \/ InitFail \/ UnhandledRejection
    BY <1>4, <1>5 DEF Exit, ProcessCrash, InitFail, UnhandledRejection
<1>6. CASE InitStep \/ L1Loop
    <2>1. Service /\ UNCHANGED handlerVars
        BY <1>6 DEF InitStep, L1Loop, serverVars
    <2>2. UNCHANGED chainVars
        BY <2>1
        DEF Service, LoadContracts, FindStartingL1Block,
            SearchStartingL1Block, StoreTotalElements, Poll, Wake,
            QueryAddressSets, PushAddressRange, PushLastRange, QueryEvents,
            EndSyncEvents, EndRange, ParseEvent, StoreEntries,
            StoreLatestEntry, StoreCtcIndex, EndStoreBatch, FinishIteration
    <2> QED
        BY <1>1, <2>1, <2>2
<1>7. CASE \/ L1Return \/ L1PutRejected \/ L2Loop \/ L2Return
           \/ L2PutRejected \/ StartServices \/ ProcessRestart \/ Stop
           \/ Stopped \/ L1LoopFail \/ L2LoopFail \/ L2Environment
           \/ UNCHANGED dataVars
    <2>1. UNCHANGED <<chainVars, handlerVars>>
        BY <1>7
        DEF L1Return, L1PutRejected, L2Loop, L2Return, L2PutRejected,
            StartServices, ProcessRestart, Stop, Stopped, L1LoopFail, Fail,
            L2LoopFail, L2Environment, dataVars, vars, serverVars
    <2> QED
        BY <1>1, <2>1
<1> QED
    BY <1>2, <1>3, <1>5, <1>6, <1>7 DEF DataNext, Loops, Lifecycle

\* On a mature chain an L1 block that the server gives as context can never
\* be reorganised away, and every node that is asked for it has it.
THEOREM ContextFinal == ASSUME MatureL1
                        PROVE  DataSpec => []ContextIsFinal
<1>1. DataInit => ContextInv
    BY ContextInvInit
<1>2. ContextInv /\ [DataNext]_dataVars => ContextInv'
    BY ContextInvStep
<1>3. ContextInv => ContextIsFinal
    BY DEF ContextInv, ContextRequest, ContextIsFinal
<1> QED
    BY <1>1, <1>2, <1>3, PTL DEF DataSpec

-----------------------------------------------------------------------------
(* The steps of a request.                                                 *)

\* For the handler a step is one of its own, one of the loops or the chain,
\* or the end of the process; a request never sees _init at work.
LEMMA StepOfServer ==
    ASSUME ProcessInv, [DataNext]_dataVars
    PROVE  /\ \/ /\ Request \/ ServerRead \/ Respond
                 /\ UNCHANGED <<chainVars, dbVars, l2Vars, dbOpen>>
              \/ UNCHANGED handlerVars
              \/ ServerIdle
           /\ spc # "idle" => highestL2' = highestL2
<1>1. CASE ServerStep
    BY <1>1 DEF ServerStep, l1Vars, dbVars
<1>2. CASE Exit \/ ProcessCrash \/ InitFail \/ UnhandledRejection
    <2>1. EndProcess
        BY <1>2 DEF Exit, ProcessCrash, InitFail, UnhandledRejection
    <2>2. ServerIdle /\ UNCHANGED dbVars
        BY <2>1 DEF EndProcess
    <2> QED
        BY <2>2 DEF dbVars
<1>3. CASE InitStep
    BY <1>3 DEF InitStep, ProcessInv, ProcessOK
<1>4. CASE L1Loop
    <2>1. pc \notin InitPCs /\ Service /\ UNCHANGED handlerVars
        BY <1>4 DEF L1Loop, serverVars
    <2>2. highestL2' = highestL2
        BY <2>1
        DEF Service, LoadContracts, FindStartingL1Block,
            SearchStartingL1Block, StoreTotalElements, Poll, Wake,
            QueryAddressSets, PushAddressRange, PushLastRange, QueryEvents,
            EndSyncEvents, EndRange, ParseEvent, StoreEntries,
            StoreLatestEntry, StoreCtcIndex, EndStoreBatch, FinishIteration,
            InitPCs, dbVars
    <2> QED
        BY <2>1, <2>2
<1>5. CASE \/ StartServices \/ L1Return \/ L1PutRejected \/ L2Loop
           \/ L2Return \/ L2PutRejected \/ ProcessRestart \/ Stop \/ Stopped
           \/ L1LoopFail \/ L2LoopFail \/ L2Environment \/ L1Environment
           \/ UNCHANGED dataVars
    <2>1. UNCHANGED handlerVars
        BY <1>5
        DEF StartServices, L1Return, L1PutRejected, L2Loop, L2Return,
            L2PutRejected, ProcessRestart, Stop, Stopped, L1LoopFail,
            L2LoopFail, L2Environment, L1Environment, dataVars, serverVars
    <2>2. UNCHANGED dbVars
        BY <1>5
        DEF StartServices, L1Return, L1PutRejected, L2Loop, L2Return,
            L2PutRejected, ProcessRestart, Stop, Stopped, L1LoopFail, Fail,
            L2LoopFail, L2Environment, L1Environment, ChainNext, dataVars,
            vars
    <2> QED
        BY <2>1, <2>2 DEF dbVars
<1> QED
    BY <1>1, <1>2, <1>3, <1>4, <1>5 DEF DataNext, Loops, Lifecycle

\* What a read gives: the record, or null, which is only the truth when
\* nothing has been missed.
LEMMA ReadGives ==
    ASSUME NEW records, NEW e, Read(records, e), missed \in BOOLEAN
    PROVE  /\ e \in records \/ e = Null
           /\ missed' \in BOOLEAN
           /\ missed => missed'
           /\ ~missed' => e \in records \/ (records = {} /\ e = Null)
<1>1. missed' = missed \/ missed' = TRUE
    BY DEF Read
<1>2. e \in records \/ e = Null
    BY DEF Read
<1>3. missed' # TRUE => e \in records \/ (records = {} /\ e = Null)
    BY DEF Read
<1>4. missed' \in BOOLEAN /\ (missed => missed')
    BY <1>1
<1>5. ~missed' => missed' # TRUE
    OBVIOUS
<1> QED
    BY <1>2, <1>3, <1>4, <1>5

\* Where a request starts.
LEMMA FirstReadGoes ==
    ASSUME NEW r \in Routes, NEW n
    PROVE  \/ r = "syncing" /\ FirstRead(r, n) = "highest"
           \/ r = "context" /\ FirstRead(r, n) = "tip"
           \/ /\ r \in Tables /\ n = Null /\ FirstRead(r, n) = "pointer"
           \/ /\ r \in Tables /\ n # Null /\ HasUnconfirmed(r)
              /\ FirstRead(r, n) = "unconfirmedEntry"
           \/ /\ r \in Tables /\ n # Null /\ ~HasUnconfirmed(r)
              /\ FirstRead(r, n) = "entry"
    BY TransportServerAssumption DEF FirstRead, AllRoutes, Tables

\* What follows a transaction or a state root.
LEMMA AfterConfirmedGoes ==
    ASSUME NEW e, AfterConfirmed(e), again \in BOOLEAN
    PROVE  /\ again' \in BOOLEAN
           /\ \/ /\ spc' = "unconfirmedPointer"
                 /\ wanted = Null /\ HasUnconfirmed(route)
              \/ /\ spc' = "pointer"
                 /\ e = Null /\ wanted = Null /\ ~HasUnconfirmed(route)
              \/ spc' = "batch" /\ e # Null
              \/ spc' = "answered" /\ e = Null
    BY DEF AfterConfirmed

\* The same for every route.
LEMMA AfterEntryGoes ==
    ASSUME NEW e, AfterEntry(e), again \in BOOLEAN,
           route \in Tables \cup {"syncing"}
    PROVE  /\ again' \in BOOLEAN
           /\ \/ spc' = "answered" /\ (e = Null \/ route = "syncing")
              \/ /\ spc' = "ctcIndex" /\ route = "enqueue" /\ e # Null
              \/ /\ spc' = "range" /\ route \in BatchRoutes /\ e # Null
              \/ /\ spc' = "queue" /\ route = "transaction"
                 /\ e # Null /\ IsQueued(e)
              \/ /\ route \in ElementRoutes /\ AfterConfirmed(e)
                 /\ route = "transaction" => e = Null \/ ~IsQueued(e)
<1> USE DEF BatchRoutes, ElementRoutes
<1>1. CASE route \in {"syncing", "enqueue"}
    BY <1>1 DEF AfterEntry
<1>2. CASE route \in BatchRoutes
    BY <1>2 DEF AfterEntry
<1>3. CASE route = "stateroot"
    <2>1. AfterConfirmed(e)
        BY <1>3 DEF AfterEntry
    <2>2. again' \in BOOLEAN
        BY <2>1, AfterConfirmedGoes
    <2> QED
        BY <1>3, <2>1, <2>2
<1>4. CASE route = "transaction" /\ e # Null /\ IsQueued(e)
    BY <1>4 DEF AfterEntry
<1>5. CASE route = "transaction" /\ ~(e # Null /\ IsQueued(e))
    <2>1. AfterConfirmed(e)
        BY <1>5 DEF AfterEntry
    <2>2. again' \in BOOLEAN
        BY <2>1, AfterConfirmedGoes
    <2> QED
        BY <1>5, <2>1, <2>2
<1> QED
    BY <1>1, <1>2, <1>3, <1>4, <1>5 DEF Tables

-----------------------------------------------------------------------------
(* Types.                                                                  *)

LEMMA AvailableType ==
    ASSUME TypeOK, L2TypeOK, NEW r \in Routes, NEW n \in Indices \cup {Null}
    PROVE  Available(r, n) \subseteq Nat \cup {Null}
<1>1. r \in AllRoutes /\ Indices \subseteq Nat
    BY TransportServerAssumption
<1>2. CASE r = "context"
    BY <1>2 DEF Available
<1>3. CASE r # "context" /\ n = Null
    <2>1. latest[TableFor(r)] \in Nat \cup {Null}
        BY <1>1, <1>3 DEF AllRoutes, TableFor, TypeOK, DBTypeOK, Tables
    <2>2. HasUnconfirmed(r) =>
              unconfirmedLatest[UnconfirmedTable(r)] \in Nat \cup {Null}
        BY DEF HasUnconfirmed, UnconfirmedTable, UnconfirmedTables, L2TypeOK,
               UnconfirmedTypeOK
    <2>3. AvailableLatest(r) \subseteq Nat \cup {Null}
        BY <2>1, <2>2 DEF AvailableLatest, End
    <2> QED
        BY <1>3, <2>3 DEF Available
<1>4. CASE r # "context" /\ n # Null
    BY <1>1, <1>4 DEF Available, AvailableAt
<1> QED
    BY <1>2, <1>3, <1>4

RequestType == ServerTypeOK /\ Stage

\* A read keeps the types, and each goes to where its route may be.
LEMMA RequestTypeRead ==
    ASSUME TypeOK, L2TypeOK, RequestType, Request \/ ServerRead \/ Respond,
           UNCHANGED dbOpen
    PROVE  RequestType'
<1> USE DEF RequestType, ServerTypeOK, Stage, requestVars, SPCs,
            HasUnconfirmed, BatchRoutes, ElementRoutes, AllRoutes, Tables
<1>a. /\ Routes \subseteq AllRoutes /\ Null \notin AllRoutes
      /\ Indices \subseteq Nat
    BY TransportServerAssumption
<1>gives. \A records, e : Read(records, e) =>
              /\ e \in records \/ e = Null
              /\ missed' \in BOOLEAN
    BY ReadGives
<1>table. \A r \in Tables \cup {"syncing"} : TableFor(r) \in Tables
    BY DEF TableFor
<1>latest. \A t \in Tables : latest[t] \in Nat \cup {Null}
    BY DEF TypeOK, DBTypeOK
<1>1. CASE Request
    <2>1. PICK r \in Routes, n \in Indices \cup {Null} :
              /\ r = "syncing" => n = Null
              /\ route' = r /\ wanted' = n /\ key' = n
              /\ asOf' \in Available(r, n)
              /\ spc' = FirstRead(r, n)
        BY <1>1 DEF Request
    <2>2. /\ got' = Null /\ spc = "idle"
          /\ UNCHANGED <<joined, todo, again, missed>>
        BY <1>1 DEF Request
    <2>3. asOf' \in Nat \cup {Null}
        BY <2>1, AvailableType
    <2>4. \/ r = "syncing" /\ spc' = "highest"
          \/ r = "context" /\ spc' = "tip"
          \/ /\ r \in Tables
             /\ \/ spc' \in {"pointer", "entry"}
                \/ spc' = "unconfirmedEntry" /\ HasUnconfirmed(r)
        BY <2>1, FirstReadGoes
    <2>5. todo' = {} /\ route' # Null /\ key' \in Nat \cup {Null}
        BY <1>a, <2>1, <2>2
    <2>6. r = "context" => asOf' = Null
        BY <2>1 DEF Available
    <2> QED
        BY <1>a, <2>1, <2>2, <2>3, <2>4, <2>5, <2>6
<1>2. CASE ReadHighest
    <2>1. missed' \in BOOLEAN
        BY <1>2, <1>gives DEF ReadHighest
    <2> QED
        BY <1>2, <2>1 DEF ReadHighest
<1>3. CASE ReadPointer
    <2>1. missed' \in BOOLEAN /\ key' \in Nat \cup {Null}
        BY <1>3, <1>gives, <1>table, <1>latest DEF ReadPointer, PointerTable
    <2> QED
        BY <1>3, <2>1 DEF ReadPointer
<1>4. CASE ReadEntry
    <2>1. /\ missed' \in BOOLEAN /\ AfterEntry(got') /\ spc = "entry"
          /\ UNCHANGED <<requestVars, key, todo>>
        BY <1>4, <1>gives DEF ReadEntry
    <2>2. /\ again' \in BOOLEAN
          /\ \/ spc' = "answered"
             \/ spc' = "ctcIndex" /\ route = "enqueue" /\ got' # Null
             \/ spc' = "range" /\ route \in BatchRoutes /\ got' # Null
             \/ spc' = "queue" /\ route = "transaction" /\ got' # Null
             \/ route \in ElementRoutes /\ AfterConfirmed(got')
        BY <2>1, AfterEntryGoes
    <2>3. CASE route \in ElementRoutes /\ AfterConfirmed(got')
        <3>1. \/ spc' = "unconfirmedPointer" /\ HasUnconfirmed(route)
              \/ spc' = "pointer"
              \/ spc' = "batch" /\ got' # Null
              \/ spc' = "answered"
            BY <2>3, AfterConfirmedGoes
        <3> QED
            BY <2>1, <2>2, <2>3, <3>1
    <2> QED
        BY <2>1, <2>2, <2>3
<1>5. CASE ReadQueueElement
    <2>1. /\ missed' \in BOOLEAN /\ AfterConfirmed(got') /\ spc = "queue"
          /\ UNCHANGED <<requestVars, key, joined, todo>>
        BY <1>5, <1>gives DEF ReadQueueElement
    <2>2. /\ again' \in BOOLEAN
          /\ \/ spc' = "unconfirmedPointer" /\ HasUnconfirmed(route)
             \/ spc' = "pointer"
             \/ spc' = "batch" /\ got' # Null
             \/ spc' = "answered"
        BY <2>1, AfterConfirmedGoes
    <2> QED
        BY <2>1, <2>2
<1>6. CASE ReadUnconfirmedPointer
    <2>1. unconfirmedLatest[UnconfirmedTable(route)] \in Nat \cup {Null}
        BY DEF UnconfirmedTable, UnconfirmedTables, L2TypeOK,
               UnconfirmedTypeOK
    <2>2. missed' \in BOOLEAN /\ key' \in Nat \cup {Null}
        BY <1>6, <2>1, <1>gives DEF ReadUnconfirmedPointer
    <2> QED
        BY <1>6, <2>2 DEF ReadUnconfirmedPointer
<1>7. CASE ReadUnconfirmedEntry
    <2>1. /\ missed' \in BOOLEAN /\ spc = "unconfirmedEntry"
          /\ UNCHANGED <<requestVars, key, joined, todo>>
          /\ \/ spc' = "error" /\ UNCHANGED again
             \/ spc' = "batch" /\ got' # Null /\ UNCHANGED again
             \/ /\ spc' \in {"pointer", "entry"}
                /\ again' = (wanted = Null)
        BY <1>7, <1>gives DEF ReadUnconfirmedEntry
    <2>2. again' \in BOOLEAN
        BY <2>1
    <2> QED
        BY <2>1, <2>2
<1>8. CASE ReadBatch \/ ReadCtcIndex
    <2>1. missed' \in BOOLEAN
        BY <1>8, <1>gives DEF ReadBatch, ReadCtcIndex
    <2> QED
        BY <1>8, <2>1 DEF ReadBatch, ReadCtcIndex
<1>9. CASE ReadRange
    <2>1. /\ missed' \in BOOLEAN /\ spc = "range"
          /\ UNCHANGED <<requestVars, key, got, again>>
          /\ \/ spc' = "answered" /\ UNCHANGED todo
             \/ /\ spc' = "element" /\ todo' # {}
                /\ route = "batch:transaction"
        BY <1>9, <1>gives DEF ReadRange
    <2> QED
        BY <2>1
<1>10. CASE ReadElement
    <2>1. /\ missed' \in BOOLEAN /\ spc = "element"
          /\ UNCHANGED <<requestVars, key, got, again>>
          /\ spc' = IF todo' = {} THEN "answered" ELSE "element"
        BY <1>10, <1>gives DEF ReadElement
    <2> QED
        BY <2>1
<1>11. CASE ReadTip
    <2>1. PICK view \in Views :
              /\ key' = IF wanted = Null THEN ContextBlock(view) ELSE wanted
              /\ spc' = IF key' > ContextBlock(view) THEN "answered"
                                                     ELSE "block"
        BY <1>11 DEF ReadTip
    <2>2. ContextBlock(view) \in Nat
        BY L1ChainAssumption, L1IngestionAssumption
        DEF Views, ContextBlock, TypeOK, ChainTypeOK
    <2> QED
        BY <1>11, <1>a, <2>1, <2>2 DEF ReadTip
<1>12. CASE ReadBlock \/ ReadRejected
    BY <1>12 DEF ReadBlock, ReadRejected
<1>13. CASE Respond
    <2>1. /\ spc' = "idle" /\ route' = Null /\ wanted' = Null /\ key' = Null
          /\ todo' = {} /\ again' = FALSE /\ asOf' = Null /\ missed' = FALSE
        BY <1>13 DEF Respond, ServerIdle
    <2> QED
        BY <1>a, <2>1
<1> QED
    BY <1>1, <1>2, <1>3, <1>4, <1>5, <1>6, <1>7, <1>8, <1>9, <1>10, <1>11,
       <1>12, <1>13 DEF ServerRead

LEMMA RequestTypeStep ==
    ASSUME ProcessInv, RequestType, [DataNext]_dataVars
    PROVE  RequestType'
<1>1. dbOpen' \in BOOLEAN
    BY ProcessInvStep DEF ProcessInv, ProcessOK
<1>2. CASE /\ Request \/ ServerRead \/ Respond
           /\ UNCHANGED <<chainVars, dbVars, l2Vars, dbOpen>>
    BY <1>2, RequestTypeRead DEF ProcessInv, TypeInv, L2Inv
<1>3. CASE UNCHANGED handlerVars
    BY <1>1, <1>3
    DEF RequestType, ServerTypeOK, Stage, handlerVars, requestVars,
        HasUnconfirmed
<1>4. CASE ServerIdle
    <2>1. /\ spc' = "idle" /\ route' = Null /\ wanted' = Null /\ key' = Null
          /\ todo' = {} /\ again' = FALSE /\ asOf' = Null /\ missed' = FALSE
        BY <1>4 DEF ServerIdle
    <2>2. Null \notin Tables \cup {"syncing", "context"}
        BY TransportServerAssumption DEF AllRoutes
    <2> QED
        BY <1>1, <2>1, <2>2
        DEF RequestType, ServerTypeOK, Stage, SPCs, HasUnconfirmed,
            ElementRoutes, BatchRoutes
<1> QED
    BY <1>2, <1>3, <1>4, StepOfServer

LEMMA RequestTypeInit == DataInit => RequestType
<1> SUFFICES ASSUME DataInit
             PROVE  RequestType
    OBVIOUS
<1>1. /\ spc = "idle" /\ route = Null /\ wanted = Null /\ key = Null
      /\ todo = {} /\ again = FALSE /\ asOf = Null /\ missed = FALSE
      /\ dbOpen = TRUE
    BY DEF DataInit, ServerInit
<1>2. Null \notin Tables \cup {"syncing", "context"}
    BY TransportServerAssumption DEF AllRoutes
<1> QED
    BY <1>1, <1>2
    DEF RequestType, ServerTypeOK, Stage, SPCs, HasUnconfirmed,
        ElementRoutes, BatchRoutes

\* Every variable of the process keeps its type, a handler always has the
\* record that its next read depends on, and outside of the life of the
\* process no request is open.
THEOREM ProcessTypeCorrect == DataSpec => []DataTypeOK
<1> DEFINE Inv == ProcessInv /\ RequestType
<1>1. DataInit => Inv
    BY ProcessInvInit, RequestTypeInit
<1>2. Inv /\ [DataNext]_dataVars => Inv'
    BY ProcessInvStep, RequestTypeStep
<1>3. Inv => DataTypeOK
    BY DEF ProcessInv, ProcessOK, TypeInv, L2Inv, RequestType, DataTypeOK
<1> HIDE DEF Inv
<1> QED
    BY <1>1, <1>2, <1>3, PTL DEF DataSpec

-----------------------------------------------------------------------------
(* The record of an answer.                                                *)

\* What the database holds when a request is answered.
DataFacts ==
    /\ ImmutableInv
    /\ CtcIndexPointsBack
    /\ ChainDense
    /\ RecordsResolve
    /\ UnconfirmedTypeOK

LEMMA DataFactsHold == DataInv => DataFacts
    BY DEF DataInv, DataFacts, OrderInv, SyncInv, IndexInv, ProcessInv, L2Inv,
           L2TypeOK

\* A stored transaction or state root is in its batch; an unconfirmed one is
\* in none.
LEMMA StoredInBatch ==
    ASSUME DataFacts, NEW r \in ElementRoutes, NEW e \in entries[r]
    PROVE  InBatch(r, e)
<1>1. CASE r = "transaction"
    BY <1>1 DEF DataFacts, RecordsResolve, TransactionsResolve, InBatch,
                BatchTable
<1>2. CASE r = "stateroot"
    BY <1>2 DEF DataFacts, RecordsResolve, StateRootsResolve, InBatch,
                BatchTable
<1> QED
    BY <1>1, <1>2 DEF ElementRoutes

LEMMA UnconfirmedForm ==
    ASSUME UnconfirmedTypeOK, NEW r \in ElementRoutes,
           NEW u \in unconfirmed[UnconfirmedTable(r)]
    PROVE  /\ u \in UnconfirmedEntry /\ u # Null
           /\ u.index \in Nat
           /\ InBatch(r, u) /\ IsFull(u)
<1>1. u \in UnconfirmedEntry
    BY DEF UnconfirmedTypeOK, UnconfirmedTable, UnconfirmedTables
<1>2. u # Null
    BY <1>1, TransportServerAssumption
<1> QED
    BY <1>1, <1>2 DEF UnconfirmedEntry, InBatch, IsFull

\* What is known of a stored record when it has been read.
LEMMA StoredRecord ==
    ASSUME DataFacts, NEW t \in Tables, NEW e \in entries[t]
    PROVE  /\ e # Null /\ e.index \in Nat
           /\ t = "transaction" =>
                 /\ e \in TransactionEntry
                 /\ IsQueued(e) => e \in QueuedEntry
                 /\ ~IsQueued(e) => IsFull(e)
<1>1. e \in Entry
    BY DEF DataFacts, ImmutableInv, FinalInv, TypeInv, TypeOK, DBTypeOK
<1>2. e # Null /\ e.index \in Nat
    BY <1>1, TransportServerAssumption
    DEF Entry, EnqueueEntry, TransactionEntry, SequencedEntry, QueuedEntry,
        BatchEntry, StateRootEntry
<1>3. t = "transaction" => e \in TransactionEntry
    BY StoredForm DEF DataFacts
<1> QED
    BY <1>2, <1>3
    DEF TransactionEntry, SequencedEntry, QueuedEntry, IsQueued, IsFull

\* The queue element of a stored transaction is stored, and with it the
\* transaction is complete.
LEMMA ElementOfStored ==
    ASSUME DataFacts, NEW tx \in QueuedStored
    PROVE  /\ At("enqueue", ElementIndex(tx)) # {}
           /\ \A q \in At("enqueue", ElementIndex(tx)) :
                 LET full == FullTransaction(tx, q)
                 IN  /\ q # Null
                     /\ full \in FullEntry
                     /\ full.index = tx.index
                     /\ full.batchIndex = tx.batchIndex
                     /\ IsFull(full)
<1>1. /\ tx \in QueuedEntry /\ tx \in entries["transaction"]
      /\ tx.queueOrigin = "l1"
    BY StoredRecord DEF QueuedStored, IsQueued, Tables
<1>2. At("enqueue", tx.queueIndex) # {}
    BY <1>1 DEF DataFacts, RecordsResolve, TransactionsResolve
<1>3. ASSUME NEW q \in At("enqueue", tx.queueIndex)
      PROVE  /\ q # Null /\ q \in EnqueueEntry /\ q.index = tx.queueIndex
             /\ FullTransaction(tx, q) \in FullEntry
             /\ IsFull(FullTransaction(tx, q))
    <2>1. q \in entries["enqueue"] /\ q.index = tx.queueIndex
        BY DEF At
    <2>2. q # Null /\ q \in EnqueueEntry
        BY <2>1, StoredForm, StoredRecord DEF DataFacts, Tables
    <2>3. FullTransaction(tx, q) \in FullEntry
        BY <1>1, <2>1, <2>2
        DEF FullTransaction, FullEntry, QueuedEntry, EnqueueEntry
    <2>4. /\ FullTransaction(tx, q).queueIndex = tx.queueIndex
          /\ FullTransaction(tx, q).data = q.index
          /\ FullTransaction(tx, q).blockNumber = q.blockNumber
        BY DEF FullTransaction
    <2>5. IsFull(FullTransaction(tx, q))
        BY <2>4 DEF IsFull
    <2> QED
        BY <2>1, <2>2, <2>3, <2>5
<1> QED
    BY <1>2, <1>3 DEF ElementIndex, FullTransaction

\* What is known of a record stays true while records are added.
LEMMA KnownKept ==
    ASSUME \A t \in Tables : entries[t] \subseteq entries'[t]
    PROVE  /\ \A t \in Tables : \A i : At(t, i) \subseteq At(t, i)'
           /\ QueuedStored \subseteq QueuedStored'
           /\ \A e : IsFull(e) => IsFull(e)'
           /\ \A r, e : Known(r, e) => Known(r, e)'
           /\ \A i, q : LeadsTo(i, q) => LeadsTo(i, q)'
<1>1. \A t \in Tables : \A i : At(t, i) \subseteq At(t, i)'
    BY DEF At
<1>2. QueuedStored \subseteq QueuedStored'
    BY DEF QueuedStored, Tables
<1>3. \A e : IsFull(e) => IsFull(e)'
    BY <1>1 DEF IsFull, Tables
<1>4. ASSUME NEW r \in ElementRoutes, NEW e, InBatch(r, e)
      PROVE  InBatch(r, e)'
    <2>1. BatchTable(r) \in Tables
        BY DEF BatchTable, Tables
    <2> QED
        BY <1>1, <1>4, <2>1 DEF InBatch
<1>5. \A r, e : Known(r, e) => Known(r, e)'
    BY <1>3, <1>4 DEF Known, BatchRoutes, Tables
<1>6. \A i, q : LeadsTo(i, q) => LeadsTo(i, q)'
    BY <1>1 DEF LeadsTo, Tables
<1> QED
    BY <1>1, <1>2, <1>3, <1>5, <1>6

\* A record that has been read is known; an "l1" transaction once it is
\* complete.
LEMMA StoredKnown ==
    ASSUME DataFacts, NEW r \in Tables \cup {"syncing"},
           NEW e \in entries[TableFor(r)]
    PROVE  /\ e # Null /\ e.index \in Nat
           /\ ~(r = "transaction" /\ IsQueued(e)) => Known(r, e)
<1>1. TableFor(r) \in Tables /\ (r \in Tables => TableFor(r) = r)
    BY DEF TableFor, Tables
<1>2. r \in ElementRoutes => InBatch(r, e)
    BY <1>1, StoredInBatch DEF ElementRoutes, Tables
<1> QED
    BY <1>1, <1>2, StoredRecord DEF Known, BatchRoutes, Tables

LEMMA FullKnown ==
    ASSUME DataFacts, NEW tx \in QueuedStored,
           NEW q \in At("enqueue", ElementIndex(tx))
    PROVE  /\ FullTransaction(tx, q) # Null
           /\ FullTransaction(tx, q).index = tx.index
           /\ Known("transaction", FullTransaction(tx, q))
<1>1. /\ tx \in entries["transaction"] /\ tx.index \in Nat
      /\ InBatch("transaction", tx)
    BY StoredInBatch, StoredRecord DEF QueuedStored, ElementRoutes, Tables
<1>2. /\ FullTransaction(tx, q) \in FullEntry
      /\ FullTransaction(tx, q).index = tx.index
      /\ FullTransaction(tx, q).batchIndex = tx.batchIndex
      /\ IsFull(FullTransaction(tx, q))
    BY ElementOfStored
<1>3. InBatch("transaction", FullTransaction(tx, q))
    BY <1>1, <1>2 DEF InBatch
<1> QED
    BY <1>1, <1>2, <1>3, TransportServerAssumption DEF Known, BatchRoutes

\* What a read leaves in got.
LEMMA GotRead ==
    ASSUME DataFacts, RequestType, GotOK, Request \/ ServerRead \/ Respond,
           UNCHANGED entries
    PROVE  GotOK'
<1> USE DEF RequestType, ServerTypeOK, Stage, requestVars
<1>gives. \A records, e : Read(records, e) => e \in records \/ e = Null
    BY ReadGives
<1>kept. /\ QueuedStored \subseteq QueuedStored'
         /\ \A r, e : Known(r, e) => Known(r, e)'
    BY KnownKept
<1>1. CASE Request
    <2>1. got' = Null /\ spc' # "queue"
        BY <1>1, FirstReadGoes DEF Request
    <2> QED
        BY <2>1 DEF GotOK
<1>2. CASE ReadHighest \/ ReadPointer
    BY <1>2 DEF ReadHighest, ReadPointer, GotOK
<1>3. CASE ReadEntry
    <2>1. /\ spc = "entry" /\ AfterEntry(got') /\ UNCHANGED route
          /\ got' \in At(TableFor(route), key) \/ got' = Null
        BY <1>3, <1>gives DEF ReadEntry
    <2>2. CASE got' = Null
        <3>1. spc' # "queue"
            BY <2>1, <2>2, AfterEntryGoes, AfterConfirmedGoes
        <3> QED
            BY <2>2, <3>1 DEF GotOK
    <2>3. CASE got' \in At(TableFor(route), key) /\ got' # Null
        <3>1. ~(route = "transaction" /\ IsQueued(got')) => Known(route, got')
            BY <2>1, <2>3, StoredKnown DEF At
        <3>2. /\ spc' \notin {"idle", "highest", "pointer", "entry", "tip",
                              "block"}
              /\ spc' = "queue" => route = "transaction" /\ IsQueued(got')
              /\ spc' # "queue" => ~(route = "transaction" /\ IsQueued(got'))
            BY <2>1, <2>3, AfterEntryGoes, AfterConfirmedGoes
            DEF ElementRoutes, BatchRoutes
        <3>3. spc' = "queue" => got' \in QueuedStored
            BY <2>3, <3>2 DEF At, QueuedStored, TableFor
        <3> QED
            BY <1>kept, <2>1, <3>1, <3>2, <3>3 DEF GotOK
    <2> QED
        BY <2>1, <2>2, <2>3
<1>4. CASE ReadQueueElement
    <2>1. PICK element \in At("enqueue", ElementIndex(got)) \cup {Null} :
              got' = IF element = Null THEN Null
                                       ELSE FullTransaction(got, element)
        BY <1>4 DEF ReadQueueElement
    <2>2. /\ route = "transaction" /\ UNCHANGED route /\ got \in QueuedStored
          /\ AfterConfirmed(got')
        BY <1>4 DEF ReadQueueElement, GotOK
    <2>3. got' # Null => Known(route, got')
        BY <2>1, <2>2, FullKnown
    <2>4. /\ spc' \notin {"idle", "highest", "entry", "tip", "block", "queue"}
          /\ spc' = "pointer" => got' = Null
        BY <2>2, AfterConfirmedGoes
    <2> QED
        BY <1>kept, <2>2, <2>3, <2>4 DEF GotOK
<1>5. CASE ReadUnconfirmedPointer
    <2>1. spc = "unconfirmedPointer" /\ spc' = "unconfirmedEntry"
          /\ UNCHANGED <<got, route>>
        BY <1>5 DEF ReadUnconfirmedPointer
    <2> QED
        BY <1>kept, <2>1 DEF GotOK
<1>6. CASE ReadUnconfirmedEntry
    <2>1. /\ spc = "unconfirmedEntry" /\ UNCHANGED route
          /\ route \in ElementRoutes
        BY <1>6 DEF ReadUnconfirmedEntry, HasUnconfirmed, ElementRoutes
    <2>2. PICK u \in {v \in unconfirmed[UnconfirmedTable(route)] :
                          v.index = key} \cup {Null} :
              \/ got # Null /\ u = Null /\ spc' = "error" /\ UNCHANGED got
              \/ /\ got # Null /\ u # Null /\ spc' = "batch"
                 /\ got' = IF Newer(u, got) THEN u ELSE got
              \/ got = Null /\ u # Null /\ spc' = "batch" /\ got' = u
              \/ /\ got = Null /\ u = Null /\ UNCHANGED got
                 /\ spc' \in {"pointer", "entry"}
        BY <1>6 DEF ReadUnconfirmedEntry
    <2>3. u # Null => Known(route, u)
        BY <2>1, <2>2, UnconfirmedForm
        DEF Known, DataFacts, ElementRoutes, BatchRoutes
    <2>4. got # Null => Known(route, got)
        BY <2>1 DEF GotOK
    <2>5. got' # Null => Known(route, got')
        BY <2>2, <2>3, <2>4
    <2> QED
        BY <1>kept, <2>1, <2>2, <2>5 DEF GotOK
<1>7. CASE ReadBatch \/ ReadCtcIndex \/ ReadRange \/ ReadElement
    <2>1. /\ spc \in {"batch", "ctcIndex", "range", "element"}
          /\ spc' \in {"answered", "element"} /\ UNCHANGED <<got, route>>
        BY <1>7 DEF ReadBatch, ReadCtcIndex, ReadRange, ReadElement
    <2> QED
        BY <1>kept, <2>1 DEF GotOK
<1>8. CASE ReadTip
    BY <1>8 DEF ReadTip, GotOK
<1>9. CASE ReadBlock
    <2>1. /\ route = "context" /\ UNCHANGED route /\ got = Null
          /\ key \in Nat /\ spc' \in {"answered", "error"}
          /\ got' = [index |-> key] \/ got' = Null
        BY <1>9 DEF ReadBlock, GotOK
    <2>2. Known("context", [index |-> key])
        BY <2>1 DEF Known, ElementRoutes, BatchRoutes
    <2> QED
        BY <1>kept, <2>1, <2>2 DEF GotOK
<1>10. CASE ReadRejected
    <2>1. /\ spc \in {"tip", "block", "range"} /\ spc' = "rejected"
          /\ UNCHANGED <<got, route>>
        BY <1>10 DEF ReadRejected
    <2> QED
        BY <1>kept, <2>1 DEF GotOK
<1>11. CASE Respond
    BY <1>11 DEF Respond, ServerIdle, GotOK
<1> QED
    BY <1>1, <1>2, <1>3, <1>4, <1>5, <1>6, <1>7, <1>8, <1>9, <1>10, <1>11
    DEF ServerRead

-----------------------------------------------------------------------------
(* What is joined to it.                                                   *)

\* The batch that is read later is the one the record is in.
LEMMA BatchRead ==
    ASSUME DataFacts, RequestType, GotOK, ReadBatch, UNCHANGED entries
    PROVE  BatchBelongs'
<1> USE DEF RequestType, ServerTypeOK, Stage, requestVars
<1>1. /\ spc = "batch" /\ route \in ElementRoutes /\ UNCHANGED <<route, got>>
      /\ Read(At(BatchTable(route), got.batchIndex), joined')
      /\ got # Null /\ missed \in BOOLEAN
    BY DEF ReadBatch
<1>2. Known(route, got) /\ InBatch(route, got)
    BY <1>1 DEF GotOK, Known
<1>3. BatchTable(route) \in Tables
    BY DEF BatchTable, Tables
<1>4. /\ joined' \in At(BatchTable(route), got.batchIndex) \/ joined' = Null
      /\ ~missed' => \/ joined' \in At(BatchTable(route), got.batchIndex)
                     \/ At(BatchTable(route), got.batchIndex) = {}
    BY <1>1, ReadGives
<1>5. ASSUME joined' # Null
      PROVE  /\ joined'.index = got.batchIndex
             /\ got.index \in joined'.prevTotalElements
                    .. joined'.prevTotalElements + joined'.size - 1
    <2>1. joined' \in entries[BatchTable(route)]
          /\ joined'.index = got.batchIndex
        BY <1>4, <1>5 DEF At
    <2>2. got.batchIndex # Null
        BY <1>3, <2>1, StoredRecord, NullAssumption
    <2>3. PICK b \in At(BatchTable(route), got.batchIndex) :
              got.index \in b.prevTotalElements
                                .. b.prevTotalElements + b.size - 1
        BY <1>2, <2>2 DEF InBatch
    <2>4. b = joined'
        BY <1>3, <2>1, <2>3, OneRecord DEF At, DataFacts
    <2> QED
        BY <2>1, <2>3, <2>4
<1>6. ASSUME joined' = Null, got.batchIndex # Null, ~missed'
      PROVE  FALSE
    <2>1. At(BatchTable(route), got.batchIndex) # {}
        BY <1>2, <1>6 DEF InBatch
    <2>2. joined' \in entries[BatchTable(route)]
        BY <1>4, <1>6, <2>1 DEF At
    <2> QED
        BY <1>3, <1>6, <2>2, StoredRecord
<1> QED
    BY <1>1, <1>5, <1>6 DEF BatchBelongs

\* What a read leaves in joined.
LEMMA JoinedRead ==
    ASSUME DataFacts, RequestType, GotOK, JoinedOK,
           Request \/ ServerRead \/ Respond, UNCHANGED <<entries, ctcIndex>>
    PROVE  JoinedOK'
<1> USE DEF RequestType, ServerTypeOK, Stage, requestVars
<1>gives. \A records, e : Read(records, e) => e \in records \/ e = Null
    BY ReadGives
<1>kept. /\ QueuedStored \subseteq QueuedStored'
         /\ \A e : IsFull(e) => IsFull(e)'
         /\ \A i, q : LeadsTo(i, q) => LeadsTo(i, q)'
    BY KnownKept
<1>1. CASE /\ joined' = Null
           /\ spc' # "element"
           /\ ~(spc' = "answered" /\ route' \in ElementRoutes /\ got' # Null)
    BY <1>1 DEF JoinedOK, BatchBelongs, Answered, ElementRoutes
<1>2. CASE Request
    <2>1. joined = Null /\ UNCHANGED joined /\ spc' \notin {"answered", "element"}
        BY <1>2, FirstReadGoes, TransportServerAssumption
        DEF Request, JoinedOK, AllRoutes
    <2> QED
        BY <1>1, <2>1
<1>3. CASE ReadHighest
    BY <1>3
    DEF ReadHighest, JoinedOK, BatchBelongs, Answered, ElementRoutes
<1>4. CASE ReadEntry
    <2>1. /\ spc = "entry" /\ AfterEntry(got') /\ UNCHANGED route
          /\ route = "syncing" \/ joined' = joined
        BY <1>4 DEF ReadEntry
    <2>2. /\ spc' # "element"
          /\ spc' = "answered" => got' = Null \/ route = "syncing"
        BY <2>1, AfterEntryGoes, AfterConfirmedGoes
    <2>3. CASE route # "syncing"
        BY <1>1, <2>1, <2>2, <2>3 DEF JoinedOK
    <2>4. CASE route = "syncing"
        BY <2>1, <2>2, <2>4 DEF JoinedOK, BatchBelongs, Answered
    <2> QED
        BY <2>3, <2>4
<1>5. CASE ReadPointer
    BY <1>5 DEF ReadPointer, JoinedOK, BatchBelongs, Answered
<1>6. CASE ReadQueueElement
    <2>1. spc = "queue" /\ joined = Null /\ UNCHANGED <<joined, route>>
        BY <1>6 DEF ReadQueueElement, JoinedOK
    <2>2. AfterConfirmed(got')
        BY <1>6 DEF ReadQueueElement
    <2>3. spc' # "element" /\ (spc' = "answered" => got' = Null)
        BY <2>2, AfterConfirmedGoes
    <2> QED
        BY <1>1, <2>1, <2>3
<1>7. CASE ReadUnconfirmedPointer \/ ReadUnconfirmedEntry
    <2>1. /\ spc \in {"unconfirmedPointer", "unconfirmedEntry"}
          /\ spc' \notin {"answered", "element"} /\ UNCHANGED joined
          /\ route # "syncing"
        BY <1>7
        DEF ReadUnconfirmedPointer, ReadUnconfirmedEntry, HasUnconfirmed
    <2> QED
        BY <1>1, <2>1 DEF JoinedOK
<1>8. CASE ReadBatch
    <2>1. /\ route \in ElementRoutes /\ UNCHANGED route /\ spc' = "answered"
        BY <1>8 DEF ReadBatch
    <2> QED
        BY <1>8, <2>1, BatchRead DEF JoinedOK, ElementRoutes
<1>9. CASE ReadCtcIndex
    <2>1. /\ spc = "ctcIndex" /\ route = "enqueue" /\ UNCHANGED <<route, got>>
          /\ spc' = "answered"
          /\ \/ joined' = Null
             \/ \E c \in ctcIndex :
                   joined' = c.index /\ c.queueIndex = got.index
        BY <1>9, <1>gives DEF ReadCtcIndex
    <2>2. joined' # Null => LeadsTo(joined', got.index)
        BY <2>1 DEF DataFacts, CtcIndexPointsBack, LeadsTo, IsQueued
    <2> QED
        BY <1>kept, <2>1, <2>2
        DEF JoinedOK, BatchBelongs, Answered
<1>10. CASE ReadRange
    <2> DEFINE elements == {e \in entries[ElementTable(route)] :
                               e.index \in ElementsOf(got)}
               queued == {e \in elements :
                             route = "batch:transaction" /\ IsQueued(e)}
    <2>1. /\ spc = "range" /\ route \in BatchRoutes /\ UNCHANGED route
          /\ joined = Null
        BY <1>10 DEF ReadRange, JoinedOK, BatchRoutes
    <2>2. \/ spc' = "answered" /\ joined' = Null
          \/ spc' = "answered" /\ joined' = elements /\ queued = {}
          \/ /\ spc' = "element" /\ joined' = elements \ queued
             /\ todo' = queued /\ route = "batch:transaction"
        BY <1>10, <1>gives DEF ReadRange
    <2>3. ASSUME route = "batch:transaction"
          PROVE  /\ queued \subseteq QueuedStored
                 /\ \A tx \in elements \ queued : IsFull(tx)
        BY <2>3, StoredRecord DEF ElementTable, QueuedStored, Tables
    <2> HIDE DEF elements, queued
    <2>4. CASE route # "batch:transaction"
        BY <2>1, <2>2, <2>4
        DEF JoinedOK, BatchBelongs, Answered, BatchRoutes
    <2>5. CASE route = "batch:transaction"
        <3>1. \A tx \in joined' : joined' = Null \/ IsFull(tx)
            BY <2>2, <2>3, <2>5
        <3>2. spc' = "element" =>
                  /\ \A tx \in joined' : IsFull(tx)
                  /\ todo' \subseteq QueuedStored
            BY <2>2, <2>3, <2>5
        <3>3. spc' \in {"answered", "element"}
            BY <2>2
        <3> QED
            BY <1>kept, <2>1, <2>5, <3>1, <3>2, <3>3
            DEF JoinedOK, BatchBelongs, Answered
    <2> QED
        BY <2>4, <2>5
<1>11. CASE ReadElement
    <2>1. /\ spc = "element" /\ route = "batch:transaction" /\ UNCHANGED route
          /\ spc' \in {"answered", "element"}
        BY <1>11 DEF ReadElement
    <2>2. PICK tx \in todo :
              \E q \in At("enqueue", ElementIndex(tx)) \cup {Null} :
                  \/ q = Null /\ joined' = Null /\ spc' = "answered"
                  \/ /\ q # Null
                     /\ joined' = joined \cup {FullTransaction(tx, q)}
                     /\ todo' = todo \ {tx}
        BY <1>11 DEF ReadElement
    <2>3. PICK q \in At("enqueue", ElementIndex(tx)) \cup {Null} :
              \/ q = Null /\ joined' = Null /\ spc' = "answered"
              \/ /\ q # Null
                 /\ joined' = joined \cup {FullTransaction(tx, q)}
                 /\ todo' = todo \ {tx}
        BY <2>2
    <2>4. tx \in QueuedStored /\ todo \subseteq QueuedStored
          /\ \A f \in joined : IsFull(f)
        BY <2>1 DEF JoinedOK
    <2>5. CASE joined' = Null /\ spc' = "answered"
        BY <1>1, <2>1, <2>5 DEF ElementRoutes
    <2>6. CASE /\ q # Null
               /\ joined' = joined \cup {FullTransaction(tx, q)}
               /\ todo' = todo \ {tx}
        <3>1. IsFull(FullTransaction(tx, q))
            BY <2>4, <2>6, FullKnown DEF Known
        <3>2. \A f \in joined' : IsFull(f)
            BY <2>4, <2>6, <3>1
        <3>3. todo' \subseteq QueuedStored
            BY <2>4, <2>6
        <3> QED
            BY <1>kept, <2>1, <3>2, <3>3
            DEF JoinedOK, BatchBelongs, Answered
    <2> QED
        BY <2>3, <2>5, <2>6
<1>12. CASE ReadTip \/ ReadBlock
    <2>1. /\ route = "context" /\ UNCHANGED <<route, joined>> /\ joined = Null
          /\ spc' # "element"
        BY <1>12 DEF ReadTip, ReadBlock, JoinedOK
    <2> QED
        BY <1>1, <2>1 DEF ElementRoutes
<1>13. CASE ReadRejected
    <2>1. /\ spc \in {"tip", "block", "range"} /\ UNCHANGED joined
          /\ spc' = "rejected"
        BY <1>13 DEF ReadRejected
    <2> QED
        BY <1>1, <2>1 DEF JoinedOK, BatchRoutes
<1>14. CASE Respond
    <2>1. joined' = Null /\ spc' = "idle"
        BY <1>14 DEF Respond, ServerIdle
    <2> QED
        BY <1>1, <2>1
<1> QED
    BY <1>2, <1>3, <1>4, <1>5, <1>6, <1>7, <1>8, <1>9, <1>10, <1>11, <1>12,
       <1>13, <1>14 DEF ServerRead

\* What a handler knows survives whatever the rest of the process does.
LEMMA RequestInvStep ==
    ASSUME MatureL1, DeploymentKnown
    PROVE  DataInv /\ RequestInv /\ [DataNext]_dataVars =>
               DataInv' /\ RequestInv'
<1> SUFFICES ASSUME DataInv, RequestInv, [DataNext]_dataVars
             PROVE  DataInv' /\ RequestInv'
    OBVIOUS
<1>1. DataInv' /\ L1Step
    BY DataInvStep
<1>2. ProcessInv /\ RequestType /\ DataFacts /\ ImmutableInv
    BY DataFactsHold DEF DataInv, RequestInv, RequestType, DataFacts
<1>3. RequestType'
    BY <1>2, RequestTypeStep
<1>4. CASE /\ Request \/ ServerRead \/ Respond
           /\ UNCHANGED <<chainVars, dbVars, l2Vars, dbOpen>>
    <2>1. UNCHANGED <<entries, ctcIndex>>
        BY <1>4 DEF dbVars
    <2>2. GotOK' /\ JoinedOK'
        BY <1>2, <1>4, <2>1, GotRead, JoinedRead DEF RequestInv
    <2> QED
        BY <1>1, <1>3, <2>2 DEF RequestInv, RequestType
<1>5. CASE UNCHANGED handlerVars
    <2>1. /\ QueuedStored \subseteq QueuedStored'
          /\ \A e : IsFull(e) => IsFull(e)'
          /\ \A r, e : Known(r, e) => Known(r, e)'
          /\ \A i, q : LeadsTo(i, q) => LeadsTo(i, q)'
        BY <1>1, <1>2, EntriesKept, KnownKept
    <2>2. UNCHANGED <<spc, route, got, joined, todo, missed>>
        BY <1>5 DEF handlerVars, requestVars
    <2>3. GotOK'
        BY <2>1, <2>2 DEF RequestInv, GotOK
    <2>4. BatchBelongs'
        BY <2>2 DEF RequestInv, JoinedOK, BatchBelongs, Answered
    <2>5. JoinedOK'
        BY <2>1, <2>2, <2>4 DEF RequestInv, JoinedOK
    <2> QED
        BY <1>1, <1>3, <2>3, <2>5 DEF RequestInv, RequestType
<1>6. CASE ServerIdle
    <2>1. spc' = "idle" /\ got' = Null /\ joined' = Null
        BY <1>6 DEF ServerIdle
    <2> QED
        BY <1>1, <1>3, <2>1
        DEF RequestInv, RequestType, GotOK, JoinedOK, BatchBelongs, Answered
<1> QED
    BY <1>2, <1>4, <1>5, <1>6, StepOfServer

LEMMA RequestInvInit == ASSUME MatureL1
                        PROVE  DataInit => DataInv /\ RequestInv
<1> SUFFICES ASSUME DataInit
             PROVE  RequestInv
    BY DataInvInit
<1>1. spc = "idle" /\ got = Null /\ joined = Null
    BY DEF DataInit, ServerInit
<1> QED
    BY <1>1, RequestTypeInit
    DEF RequestInv, RequestType, GotOK, JoinedOK, BatchBelongs, Answered

\* A transaction or state root is answered with the batch it is in, although
\* the two are read at different moments; a missing batch means that the
\* record is unconfirmed or that a read failed.
THEOREM BatchMatches == ASSUME MatureL1, DeploymentKnown
                        PROVE  DataSpec => []BatchBelongs
<1> DEFINE Inv == DataInv /\ RequestInv
<1>1. DataInit => Inv
    BY RequestInvInit
<1>2. Inv /\ [DataNext]_dataVars => Inv'
    BY RequestInvStep
<1>3. Inv => BatchBelongs
    BY DEF RequestInv, JoinedOK
<1> HIDE DEF Inv
<1> QED
    BY <1>1, <1>2, <1>3, PTL DEF DataSpec

\* A complete "l1" transaction has the fields of the element that the chain
\* dequeued for it.
LEMMA FullBelongs ==
    ASSUME DataFacts, NEW tx, IsFull(tx),
           "queueOrigin" \in DOMAIN tx, IsQueued(tx)
    PROVE  tx.data = tx.queueIndex /\ tx.blockNumber \in EnqueuedIn(tx.queueIndex)
<1>1. PICK q \in At("enqueue", tx.queueIndex) :
          tx.data = q.index /\ tx.blockNumber = q.blockNumber
    BY DEF IsFull
<1>2. q \in entries["enqueue"] /\ q.index = tx.queueIndex
    BY DEF At
<1>3. q.blockNumber \in EnqueuedIn(q.index)
    BY <1>2, StoredForm DEF DataFacts
<1> QED
    BY <1>1, <1>2, <1>3

\* Whatever the server says about a queue element, alone, in a list or the
\* other way round, is about the element that the chain took.
THEOREM ElementMatches == ASSUME MatureL1, DeploymentKnown
                          PROVE  DataSpec => []ElementBelongs
<1> DEFINE Inv == DataInv /\ RequestInv
<1>1. DataInit => Inv
    BY RequestInvInit
<1>2. Inv /\ [DataNext]_dataVars => Inv'
    BY RequestInvStep
<1>3. Inv => ElementBelongs
    <2> SUFFICES ASSUME DataInv, RequestInv
                 PROVE  ElementBelongs
        OBVIOUS
    <2>1. DataFacts
        BY DataFactsHold
    <2>2. Answered({"transaction"}) => \A tx \in {got} \ {Null} : IsFull(tx)
        BY DEF RequestInv, GotOK, Known, Answered
    <2>3. Answered({"batch:transaction"}) /\ joined # Null =>
              \A tx \in joined : IsFull(tx)
        BY DEF RequestInv, JoinedOK, Answered
    <2>4. Answered({"enqueue"}) /\ joined # Null => LeadsTo(joined, got.index)
        BY DEF RequestInv, JoinedOK, Answered
    <2> QED
        BY <2>1, <2>2, <2>3, <2>4, FullBelongs
        DEF ElementBelongs, LeadsTo
<1> HIDE DEF Inv
<1> QED
    BY <1>1, <1>2, <1>3, PTL DEF DataSpec

-----------------------------------------------------------------------------
(* Lists.                                                                  *)

\* The elements of a batch are stored all at once, and no other batch has
\* any of them: where there is one, there are all.
LEMMA ListStored ==
    ASSUME DataFacts, NEW r \in BatchRoutes, NEW b \in entries[r],
           NEW e \in entries[ElementTable(r)], e.index \in ElementsOf(b)
    PROVE  \A i \in ElementsOf(b) :
               \E f \in entries[ElementTable(r)] : f.index = i
<1>table. /\ r \in Tables /\ ElementTable(r) \in Tables
          /\ r = "batch:transaction" => ElementTable(r) = "transaction"
          /\ r = "batch:stateroot" => ElementTable(r) = "stateroot"
    BY DEF BatchRoutes, ElementTable, Tables
<1>1. PICK l \in logs : b \in EntriesOf(l, r)
    BY <1>table DEF DataFacts, RecordsResolve, RecordsWhole
<1>2. PICK m \in logs : /\ e \in EntriesOf(m, ElementTable(r))
                        /\ EntriesOf(m, ElementTable(r))
                               \subseteq entries[ElementTable(r)]
    BY <1>table DEF DataFacts, RecordsResolve, RecordsWhole
<1>3. l \in Log /\ m \in Log /\ e.index \in Nat
    BY <1>table, StoredRecord
    DEF DataFacts, ImmutableInv, FinalInv, TypeInv, TypeOK, ChainTypeOK
<1>4. HasIndex(m, ElementTable(r), e.index)
    BY <1>2 DEF HasIndex
<1>5. l = m /\ \A i \in ElementsOf(b) : HasIndex(m, ElementTable(r), i)
    <2>1. CASE r = "batch:transaction"
        <3>1. /\ l.kind \in TransactionBatchKinds
              /\ b = TransactionBatchEntry(l)
            BY <1>1, <2>1 DEF EntriesOf
        <3>2. /\ l \in TransactionBatchLog /\ l.prev \in Nat
              /\ Len(l.shape) \in Nat
            BY <1>3, <3>1, LogOfKind, ShapeType DEF TransactionBatchLog
        <3>3. ElementsOf(b) = l.prev .. l.prev + Len(l.shape) - 1
            BY <3>1 DEF ElementsOf, TransactionBatchEntry
        <3>4. /\ m.kind \in TransactionBatchKinds
              /\ e.index \in m.prev .. m.prev + Len(m.shape) - 1
            BY <1>table, <1>3, <1>4, <2>1, IndicesOf
        <3>5. /\ m \in TransactionBatchLog /\ m.prev \in Nat
              /\ Len(m.shape) \in Nat
            BY <1>3, <3>4, LogOfKind, ShapeType DEF TransactionBatchLog
        <3>6. l \in TransactionBatches /\ m \in TransactionBatches
            BY <3>1, <3>4 DEF TransactionBatches, OfKind
        <3>7. ~Disjoint(l, Len(l.shape), m, Len(m.shape))
            BY <1>3, <3>2, <3>3, <3>4, <3>5 DEF Disjoint
        <3>8. l = m
            BY <3>6, <3>7 DEF DataFacts, ImmutableInv, ChainUnique
        <3> QED
            BY <1>table, <1>3, <2>1, <3>1, <3>2, <3>3, <3>8, IndicesOf
    <2>2. CASE r = "batch:stateroot"
        <3>1. /\ l.kind = "StateBatchAppended"
              /\ b = StateRootBatchEntry(l)
            BY <1>1, <2>2 DEF EntriesOf
        <3>2. l.prev \in Nat /\ l.size \in Nat
            BY <1>3, <3>1, LogOfKind DEF StateBatchLog
        <3>3. ElementsOf(b) = l.prev .. l.prev + l.size - 1
            BY <3>1 DEF ElementsOf, StateRootBatchEntry
        <3>4. /\ m.kind = "StateBatchAppended"
              /\ e.index \in m.prev .. m.prev + m.size - 1
            BY <1>table, <1>3, <1>4, <2>2, IndicesOf
        <3>5. m.prev \in Nat /\ m.size \in Nat
            BY <1>3, <3>4, LogOfKind DEF StateBatchLog
        <3>6. l \in StateBatches /\ m \in StateBatches
            BY <3>1, <3>4 DEF StateBatches, OfKind
        <3>7. ~Disjoint(l, l.size, m, m.size)
            BY <1>3, <3>2, <3>3, <3>4, <3>5 DEF Disjoint
        <3>8. l = m
            BY <3>6, <3>7 DEF DataFacts, ImmutableInv, ChainUnique
        <3> QED
            BY <1>table, <1>3, <2>2, <3>1, <3>2, <3>3, <3>8, IndicesOf
    <2> QED
        BY <2>1, <2>2 DEF BatchRoutes
<1> QED
    BY <1>2, <1>5 DEF HasIndex

\* What a read leaves of a list.
LEMMA ListRead ==
    ASSUME NullIsNoList, DataFacts, RequestInv, ListWhole,
           Request \/ ServerRead \/ Respond, UNCHANGED entries
    PROVE  ListWhole'
<1> USE DEF RequestInv, ServerTypeOK, Stage, requestVars
<1>gives. \A records, e : Read(records, e) =>
              /\ e \in records \/ e = Null
              /\ ~missed' => e \in records \/ (records = {} /\ e = Null)
    BY ReadGives
<1>1. CASE /\ spc' # "element"
           /\ ~(spc' = "answered" /\ route' \in BatchRoutes /\ got' # Null)
    BY <1>1 DEF ListWhole, AllOrNothing, Answered, BatchRoutes
<1>2. CASE Request
    <2>1. spc' \notin {"element", "answered"}
        BY <1>2, FirstReadGoes DEF Request
    <2> QED
        BY <1>1, <2>1
<1>3. CASE ReadHighest \/ ReadPointer \/ ReadUnconfirmedPointer
           \/ ReadUnconfirmedEntry \/ ReadRejected \/ Respond
    <2>1. spc' \notin {"element", "answered"}
        BY <1>3
        DEF ReadHighest, ReadPointer, ReadUnconfirmedPointer,
            ReadUnconfirmedEntry, ReadRejected, Respond, ServerIdle
    <2> QED
        BY <1>1, <2>1
<1>4. CASE ReadEntry
    <2>1. /\ spc = "entry" /\ AfterEntry(got') /\ UNCHANGED route
        BY <1>4 DEF ReadEntry
    <2>2. /\ spc' # "element"
          /\ spc' = "answered" => got' = Null \/ route = "syncing"
        BY <2>1, AfterEntryGoes, AfterConfirmedGoes
    <2> QED
        BY <1>1, <2>1, <2>2 DEF BatchRoutes
<1>5. CASE ReadQueueElement \/ ReadBatch \/ ReadCtcIndex \/ ReadTip
           \/ ReadBlock
    <2>1. /\ UNCHANGED route
          /\ route \in {"transaction", "stateroot", "enqueue", "context"}
        BY <1>5
        DEF ReadQueueElement, ReadBatch, ReadCtcIndex, ReadTip, ReadBlock,
            ElementRoutes
    <2>2. spc' # "element"
        BY <1>5, AfterConfirmedGoes
        DEF ReadQueueElement, ReadBatch, ReadCtcIndex, ReadTip, ReadBlock
    <2> QED
        BY <1>1, <2>1, <2>2 DEF BatchRoutes
<1>6. CASE ReadRange
    <2> DEFINE elements == {e \in entries[ElementTable(route)] :
                               e.index \in ElementsOf(got)}
               queued == {e \in elements :
                             route = "batch:transaction" /\ IsQueued(e)}
    <2>1. /\ spc = "range" /\ route \in BatchRoutes
          /\ UNCHANGED <<route, got>> /\ got # Null /\ got \in entries[route]
        BY <1>6 DEF ReadRange, GotOK, Known
    <2>2. PICK list \in {elements, Null} :
              /\ Read({elements}, list)
              /\ \/ /\ list = Null \/ queued = {}
                    /\ joined' = list
                    /\ spc' = "answered"
                 \/ /\ list # Null /\ queued # {}
                    /\ joined' = elements \ queued
                    /\ todo' = queued
                    /\ spc' = "element"
        BY <1>6 DEF ReadRange
    <2>3. /\ list = elements \/ list = Null
          /\ ~missed' => list = elements
        <3> HIDE DEF elements, queued
        <3>1. {elements} # {}
            OBVIOUS
        <3> QED
            BY <1>gives, <2>2, <3>1
    <2>4. elements \subseteq Entry /\ elements # Null
        <3>1. ElementTable(route) \in Tables
            BY DEF ElementTable, Tables
        <3> QED
            BY <3>1 DEF DataFacts, ImmutableInv, FinalInv, TypeInv, TypeOK,
                        DBTypeOK, NullIsNoList
    <2>5. elements # {} => {e.index : e \in elements} = ElementsOf(got)
        BY <2>1, ListStored
    <2> HIDE DEF elements
    <2>6. CASE spc' = "answered" /\ joined' = Null /\ missed'
        BY <2>1, <2>6 DEF ListWhole, AllOrNothing
    <2>7. CASE spc' = "answered" /\ joined' = elements
        BY <2>1, <2>4, <2>5, <2>7
        DEF ListWhole, AllOrNothing, ElementsOf
    <2>8. CASE /\ spc' = "element" /\ queued # {}
               /\ joined' = elements \ queued /\ todo' = queued
        <3>1. joined' \cup todo' = elements /\ elements # {}
            BY <2>8
        <3>2. joined' \subseteq Entry \cup FullEntry
            BY <2>4, <2>8
        <3> QED
            BY <2>1, <2>5, <2>8, <3>1, <3>2
            DEF ListWhole, AllOrNothing, Answered, ElementsOf
    <2> QED
        BY <2>2, <2>3, <2>6, <2>7, <2>8
<1>7. CASE ReadElement
    <2>1. /\ spc = "element" /\ UNCHANGED <<route, got>> /\ got # Null
          /\ spc' = IF todo' = {} THEN "answered" ELSE "element"
          /\ joined \subseteq Entry \cup FullEntry
          /\ {e.index : e \in joined \cup todo} = ElementsOf(got)
          /\ todo \subseteq QueuedStored
        BY <1>7 DEF ReadElement, ListWhole, JoinedOK
    <2>2. PICK tx \in todo :
              \E q \in At("enqueue", ElementIndex(tx)) \cup {Null} :
                  /\ Read(At("enqueue", ElementIndex(tx)), q)
                  /\ \/ q = Null /\ joined' = Null /\ todo' = {}
                     \/ /\ q # Null
                        /\ joined' = joined \cup {FullTransaction(tx, q)}
                        /\ todo' = todo \ {tx}
        BY <1>7 DEF ReadElement
    <2>3. PICK q \in At("enqueue", ElementIndex(tx)) \cup {Null} :
              /\ Read(At("enqueue", ElementIndex(tx)), q)
              /\ \/ q = Null /\ joined' = Null /\ todo' = {}
                 \/ /\ q # Null
                    /\ joined' = joined \cup {FullTransaction(tx, q)}
                    /\ todo' = todo \ {tx}
        BY <2>2
    <2>4. /\ tx \in QueuedStored
          /\ At("enqueue", ElementIndex(tx)) # {}
          /\ \A p \in At("enqueue", ElementIndex(tx)) :
                /\ p # Null
                /\ FullTransaction(tx, p) \in FullEntry
                /\ FullTransaction(tx, p).index = tx.index
        BY <2>1, ElementOfStored
    <2>5. CASE q = Null /\ joined' = Null /\ todo' = {}
        <3>1. missed'
            BY <1>gives, <2>3, <2>4, <2>5
        <3> QED
            BY <2>1, <2>5, <3>1 DEF ListWhole, AllOrNothing
    <2>6. CASE /\ q # Null
               /\ joined' = joined \cup {FullTransaction(tx, q)}
               /\ todo' = todo \ {tx}
        <3>1. joined' \subseteq Entry \cup FullEntry /\ joined' # Null
            BY <2>1, <2>3, <2>4, <2>6 DEF NullIsNoList
        <3>2. {e.index : e \in joined' \cup todo'} = ElementsOf(got)
            <4>1. FullTransaction(tx, q).index = tx.index
                BY <2>3, <2>4, <2>6
            <4>2. {e.index : e \in joined' \cup todo'} =
                      {e.index : e \in joined \cup todo}
                BY <2>2, <2>6, <4>1
            <4> QED
                BY <2>1, <4>2
        <3>3. CASE todo' = {}
            <4>1. {e.index : e \in joined'} = ElementsOf(got)
                BY <3>2, <3>3
            <4> QED
                BY <2>1, <3>1, <3>3, <4>1
                DEF ListWhole, AllOrNothing, ElementsOf
        <3>4. CASE todo' # {}
            BY <2>1, <3>1, <3>2, <3>4
            DEF ListWhole, AllOrNothing, Answered, ElementsOf
        <3> QED
            BY <3>3, <3>4
    <2> QED
        BY <2>3, <2>5, <2>6
<1> QED
    BY <1>2, <1>3, <1>4, <1>5, <1>6, <1>7 DEF ServerRead

\* The list of a batch is never a part of it, although it is put together
\* from many reads between which records are stored, replayed and fail to be
\* read.
THEOREM ListsComplete == ASSUME MatureL1, DeploymentKnown, NullIsNoList
                         PROVE  DataSpec => []AllOrNothing
<1> DEFINE Inv == DataInv /\ RequestInv /\ ListWhole
<1>1. DataInit => Inv
    <2>1. DataInit => ListWhole
        BY DEF DataInit, ServerInit, ListWhole, AllOrNothing, Answered
    <2> QED
        BY <2>1, RequestInvInit
<1>2. Inv /\ [DataNext]_dataVars => Inv'
    <2> SUFFICES ASSUME DataInv, RequestInv, ListWhole, [DataNext]_dataVars
                 PROVE  ListWhole'
        BY RequestInvStep
    <2>1. CASE /\ Request \/ ServerRead \/ Respond
               /\ UNCHANGED <<chainVars, dbVars, l2Vars, dbOpen>>
        BY <2>1, DataFactsHold, ListRead DEF dbVars
    <2>2. CASE UNCHANGED handlerVars
        BY <2>2
        DEF handlerVars, requestVars, ListWhole, AllOrNothing, Answered,
            ElementsOf
    <2>3. CASE ServerIdle
        BY <2>3 DEF ServerIdle, ListWhole, AllOrNothing, Answered
    <2> QED
        BY <2>1, <2>2, <2>3, StepOfServer DEF DataInv
<1>3. Inv => AllOrNothing
    BY DEF ListWhole
<1> HIDE DEF Inv
<1> QED
    BY <1>1, <1>2, <1>3, PTL DEF DataSpec

-----------------------------------------------------------------------------
(* Being done.                                                             *)

\* The transactions up to a stored one are stored.
LEMMA AllBelow ==
    ASSUME Numbered("transaction"), NEW e \in entries["transaction"],
           NEW n \in Nat, n <= e.index
    PROVE  \A i \in 0 .. n : At("transaction", i) # {}
<1>1. PICK k \in Nat : {f.index : f \in entries["transaction"]} = 0 .. k - 1
    BY DEF Numbered
<1>2. e.index \in 0 .. k - 1
    BY <1>1
<1>3. \A i \in 0 .. n : i \in 0 .. k - 1
    BY <1>2
<1>4. \A i \in 0 .. n : \E f \in entries["transaction"] : f.index = i
    BY <1>1, <1>3
<1> QED
    BY <1>4 DEF At

\* The highest known index is read before the transaction it is compared
\* with, and only _init moves it.
LEMMA HighestRead ==
    ASSUME DataFacts, Numbered("transaction"), highestL2 \in Nat \cup {Null},
           RequestType, HighestKnown,
           Request \/ ServerRead \/ Respond, UNCHANGED <<entries, highestL2>>
    PROVE  HighestKnown'
<1> USE DEF RequestType, ServerTypeOK, Stage, requestVars
<1>gives. \A records, e : Read(records, e) =>
              /\ e \in records \/ e = Null
              /\ missed' \in BOOLEAN
              /\ missed => missed'
              /\ ~missed' => e \in records \/ (records = {} /\ e = Null)
    BY ReadGives
<1>1. CASE ~(route' = "syncing" /\ spc' \in {"pointer", "entry", "answered"})
    BY <1>1 DEF HighestKnown, DoneMeansAllStored, Answered
<1>2. CASE ReadHighest
    <2>1. /\ spc' = "pointer" /\ missed' \in BOOLEAN
          /\ ~missed' => joined' = highestL2
        BY <1>2, <1>gives DEF ReadHighest
    <2> QED
        BY <2>1 DEF HighestKnown, DoneMeansAllStored, Answered
<1>3. CASE ReadPointer
    <2>1. /\ spc = "pointer" /\ spc' = "entry" /\ UNCHANGED <<joined, route>>
          /\ missed' \in BOOLEAN /\ (missed => missed')
        BY <1>3, <1>gives DEF ReadPointer
    <2> QED
        BY <2>1 DEF HighestKnown, DoneMeansAllStored, Answered
<1>4. CASE ReadEntry /\ route = "syncing"
    <2>1. /\ spc = "entry" /\ spc' = "answered"
          /\ joined' = IF ~Syncing(joined, got') THEN Null ELSE joined
          /\ missed' \in BOOLEAN /\ (missed => missed')
          /\ got' # Null => got' \in entries["transaction"]
        BY <1>4, <1>gives DEF ReadEntry, AfterEntry, At, TableFor
    <2>2. ASSUME joined' = Null, ~missed', highestL2 # Null,
                 NEW i \in 0 .. highestL2
          PROVE  At("transaction", i) # {}
        <3>1. joined = highestL2
            BY <1>4, <2>1, <2>2 DEF HighestKnown
        <3>2. ~Syncing(joined, got')
            BY <2>1, <2>2, <3>1
        <3>3. got' # Null /\ got' \in entries["transaction"]
            BY <2>1, <2>2, <3>1, <3>2 DEF Syncing
        <3>4. ~(highestL2 > got'.index)
            BY <2>2, <3>1, <3>2, <3>3 DEF Syncing, ToNumber
        <3>5. got'.index \in Nat
            BY <3>3, StoredRecord DEF Tables
        <3>6. highestL2 \in Nat /\ highestL2 <= got'.index
            BY <2>2, <3>4, <3>5
        <3> QED
            BY <2>2, <3>3, <3>6, AllBelow
    <2>3. DoneMeansAllStored'
        BY <2>2 DEF DoneMeansAllStored, At
    <2> QED
        BY <2>1, <2>3 DEF HighestKnown
<1>5. CASE \/ (ReadEntry /\ route # "syncing") \/ ReadQueueElement
           \/ ReadUnconfirmedPointer \/ ReadUnconfirmedEntry \/ ReadBatch
           \/ ReadCtcIndex \/ ReadRange \/ ReadElement \/ ReadTip
           \/ ReadBlock \/ ReadRejected
    <2>1. UNCHANGED route /\ route # "syncing"
        BY <1>5
        DEF ReadEntry, ReadQueueElement, ReadUnconfirmedPointer,
            ReadUnconfirmedEntry, ReadBatch, ReadCtcIndex, ReadRange,
            ReadElement, ReadTip, ReadBlock, ReadRejected, HasUnconfirmed,
            ElementRoutes, BatchRoutes
    <2> QED
        BY <1>1, <2>1
<1>6. CASE Request
    <2>1. route' = "syncing" => spc' = "highest"
        BY <1>6, FirstReadGoes DEF Request, Tables
    <2> QED
        BY <1>1, <2>1
<1>7. CASE Respond
    BY <1>1, <1>7 DEF Respond, ServerIdle
<1> QED
    BY <1>2, <1>3, <1>4, <1>5, <1>6, <1>7 DEF ServerRead

\* A server that says that it is done has every transaction that the chain
\* had when the process was started, provided that all of them come in
\* batches of the sequencer, as those of the queue are never indexed.
THEOREM DoneIsDone ==
    ASSUME MatureL1, DeploymentKnown, OnlySequencerBatches
    PROVE  DataSpec => []DoneMeansAllStored
<1> DEFINE Inv == DataInv /\ RequestType /\ HighestKnown
                      /\ Numbered("transaction")
<1>1. DataInit => Inv
    <2>1. DataInit => HighestKnown
        BY DEF DataInit, ServerInit, HighestKnown, DoneMeansAllStored, Answered
    <2>2. DataInit => Numbered("transaction")
        <3> SUFFICES ASSUME DataInit
                     PROVE  Numbered("transaction")
            OBVIOUS
        <3>1. {e.index : e \in entries["transaction"]} = 0 .. 0 - 1
            BY DEF DataInit, Init, DBInit, Tables
        <3> QED
            BY <3>1 DEF Numbered
    <2> QED
        BY <2>1, <2>2, DataInvInit, RequestTypeInit
<1>2. Inv /\ [DataNext]_dataVars => Inv'
    <2> SUFFICES ASSUME DataInv, RequestType, HighestKnown,
                        Numbered("transaction"), [DataNext]_dataVars
                 PROVE  Inv'
        OBVIOUS
    <2>1. DataInv' /\ RequestType' /\ L1Step
        BY DataInvStep, RequestTypeStep DEF DataInv
    <2>2. Numbered("transaction")'
        BY <2>1, NumberedStep DEF DataInv, Tables
    <2>3. DataFacts /\ highestL2 \in Nat \cup {Null}
        BY DataFactsHold DEF DataInv, ProcessInv, TypeInv, TypeOK, DBTypeOK
    <2>4. CASE /\ Request \/ ServerRead \/ Respond
               /\ UNCHANGED <<chainVars, dbVars, l2Vars, dbOpen>>
        BY <2>1, <2>2, <2>3, <2>4, HighestRead DEF dbVars
    <2>5. CASE UNCHANGED handlerVars
        <3>1. UNCHANGED <<spc, route, joined, missed>>
            BY <2>5 DEF handlerVars, requestVars
        <3>2. spc # "idle" => highestL2' = highestL2
            BY StepOfServer DEF DataInv
        <3>3. \A i : At("transaction", i) \subseteq At("transaction", i)'
            BY <2>1, <2>3, EntriesKept, KnownKept DEF DataFacts, Tables
        <3>4. DoneMeansAllStored'
            BY <3>1, <3>2, <3>3
            DEF HighestKnown, DoneMeansAllStored, Answered
        <3> QED
            BY <2>1, <2>2, <3>1, <3>2, <3>4 DEF HighestKnown
    <2>6. CASE ServerIdle
        <3>1. HighestKnown'
            BY <2>6
            DEF ServerIdle, HighestKnown, DoneMeansAllStored, Answered
        <3> QED
            BY <2>1, <2>2, <3>1
    <2> QED
        BY <2>4, <2>5, <2>6, StepOfServer DEF DataInv
<1>3. Inv => DoneMeansAllStored
    BY DEF HighestKnown
<1> HIDE DEF Inv
<1> QED
    BY <1>1, <1>2, <1>3, PTL DEF DataSpec

-----------------------------------------------------------------------------
(* The pointers of the unconfirmed tables.                                 *)

\* The one put that moves a pointer: it comes to the record of the block
\* that has just been stored.
LEMMA UnconfirmedPointerPut ==
    ASSUME L2TypeOK, L2WindowOK, L2Order, StoreBlock,
           NEW t \in UnconfirmedTables, unconfirmedLatest'[t] # unconfirmedLatest[t]
    PROVE  \E n \in fetched, seen \in {unconfirmedLatest[t], Null} :
               /\ n \in 1 .. StopAt
               /\ Record(n) \in unconfirmed[t]
               /\ UNCHANGED unconfirmed
               /\ "read" \notin L2FaultKinds => seen = unconfirmedLatest[t]
               /\ unconfirmedLatest'[t] =
                      Latest(unconfirmedLatest[t], UnconfirmedIndex(n), seen)
<1>1. PICK n \in fetched :
          /\ NextBlock(n)
          /\ \/ l2pc \in {"tx", "root"} /\ PutUnconfirmed(TableOf[l2pc], n)
             \/ /\ l2pc \in {"txLatest", "rootLatest"}
                /\ PutUnconfirmedLatest(TableOf[l2pc], n)
    BY DEF StoreBlock
<1>2. /\ l2pc \in {"txLatest", "rootLatest"}
      /\ PutUnconfirmedLatest(TableOf[l2pc], n)
    BY <1>1 DEF PutUnconfirmed
<1>3. PICK kinds \in SUBSET {"read"} :
          /\ L2Faulted(kinds)
          /\ unconfirmedLatest' =
                 [unconfirmedLatest EXCEPT ![TableOf[l2pc]] =
                      Latest(@, UnconfirmedIndex(n), L2Get(@, kinds))]
    BY <1>2 DEF PutUnconfirmedLatest
<1>4. unconfirmedLatest \in [UnconfirmedTables -> Nat \cup {Null}]
    BY DEF L2TypeOK, UnconfirmedTypeOK
<1>5. t = TableOf[l2pc]
    BY <1>3, <1>4
<1>6. Record(n) \in unconfirmed[t]
    BY <1>1, <1>2, <1>5 DEF L2Order, TableOf
<1>7. n \in 1 .. StopAt
    BY L2IngestionAssumption DEF L2WindowOK, L2TypeOK
<1>8. "read" \notin L2FaultKinds => "read" \notin kinds
    BY <1>3 DEF L2Faulted
<1>9. unconfirmedLatest'[t] =
          Latest(unconfirmedLatest[t], UnconfirmedIndex(n),
                 L2Get(unconfirmedLatest[t], kinds))
    BY <1>3, <1>4, <1>5
<1> QED
    BY <1>2, <1>6, <1>7, <1>8, <1>9 DEF L2Get, PutUnconfirmedLatest

\* So it always leads to a record, and does not go back while reads do not
\* fail.
LEMMA UnconfirmedPointers ==
    ASSUME L2Inv, UnconfirmedResolves, L2Step
    PROVE  /\ UnconfirmedResolves'
           /\ "read" \notin L2FaultKinds =>
                 \A t \in UnconfirmedTables :
                     unconfirmedLatest[t] # Null =>
                         /\ unconfirmedLatest'[t] # Null
                         /\ unconfirmedLatest[t] <= unconfirmedLatest'[t]
<1>kept. \A t \in UnconfirmedTables : unconfirmed[t] \subseteq unconfirmed'[t]
    BY UnconfirmedKept DEF L2Inv
<1>type. \A t \in UnconfirmedTables : unconfirmedLatest[t] \in Nat \cup {Null}
    BY DEF L2Inv, L2TypeOK, UnconfirmedTypeOK
<1>1. CASE UNCHANGED unconfirmedLatest
    BY <1>kept, <1>type, <1>1 DEF UnconfirmedResolves
<1>2. CASE StoreBlock
    <2> SUFFICES ASSUME NEW t \in UnconfirmedTables,
                        unconfirmedLatest'[t] # unconfirmedLatest[t]
                 PROVE  /\ \E u \in unconfirmed'[t] :
                              u.index = unconfirmedLatest'[t]
                        /\ /\ "read" \notin L2FaultKinds
                           /\ unconfirmedLatest[t] # Null
                           => /\ unconfirmedLatest'[t] # Null
                              /\ unconfirmedLatest[t] <= unconfirmedLatest'[t]
        BY <1>kept, <1>type DEF UnconfirmedResolves
    <2>1. PICK n \in fetched, seen \in {unconfirmedLatest[t], Null} :
              /\ n \in 1 .. StopAt
              /\ Record(n) \in unconfirmed[t]
              /\ UNCHANGED unconfirmed
              /\ "read" \notin L2FaultKinds => seen = unconfirmedLatest[t]
              /\ unconfirmedLatest'[t] =
                     Latest(unconfirmedLatest[t], UnconfirmedIndex(n), seen)
        BY <1>2, UnconfirmedPointerPut DEF L2Inv
    <2>2. unconfirmedLatest'[t] = n - 1 /\ Record(n).index = n - 1
        BY <2>1 DEF Latest, UnconfirmedIndex, Record
    <2>3. n - 1 \in Nat
        BY <2>1, L2IngestionAssumption
    <2>4. /\ "read" \notin L2FaultKinds /\ unconfirmedLatest[t] # Null
          => unconfirmedLatest[t] <= n - 1
        BY <1>type, <2>1, <2>2, <2>3 DEF Latest, UnconfirmedIndex, ToNumber
    <2> QED
        BY <2>1, <2>2, <2>3, <2>4, NullAssumption
<1>3. UNCHANGED unconfirmedLatest \/ StoreBlock
    BY DEF L2Step, L2Service, L2Stop, L2Poll, FetchRange, FetchBlock,
           BlockMissing, L2Throw, ParseBlock, L2FinishIteration, L2Wake,
           L2Restart, L2Interrupted, L2Returned, Produce, Rewind, l2Vars,
           unconfirmedVars
<1> QED
    BY <1>1, <1>2, <1>3

-----------------------------------------------------------------------------
(* Age.                                                                    *)

\* What could be answered when the request came is there to be read.
LEMMA AvailableReaches ==
    ASSUME TypeOK, L2TypeOK, NEW r \in Tables \cup {"syncing"}, NEW a,
           a # Null
    PROVE  /\ a \in Available(r, Null) =>
                 \/ latest[TableFor(r)] # Null /\ a <= latest[TableFor(r)]
                 \/ /\ HasUnconfirmed(r)
                    /\ unconfirmedLatest[UnconfirmedTable(r)] # Null
                    /\ a <= unconfirmedLatest[UnconfirmedTable(r)]
           /\ \A n \in Nat :
                 a \in Available(r, n) =>
                     /\ a = n
                     /\ At(TableFor(r), n) # {} \/ UnconfirmedAt(r, n)
<1>1. r # "context" /\ Null \notin Nat
    BY NullAssumption DEF Tables
<1>2. latest[TableFor(r)] \in Nat \cup {Null}
    BY DEF TableFor, TypeOK, DBTypeOK, Tables
<1>3. HasUnconfirmed(r) =>
          unconfirmedLatest[UnconfirmedTable(r)] \in Nat \cup {Null}
    BY DEF HasUnconfirmed, UnconfirmedTable, UnconfirmedTables, L2TypeOK,
           UnconfirmedTypeOK
<1>4. ASSUME a \in Available(r, Null)
      PROVE  \/ latest[TableFor(r)] # Null /\ a <= latest[TableFor(r)]
             \/ /\ HasUnconfirmed(r)
                /\ unconfirmedLatest[UnconfirmedTable(r)] # Null
                /\ a <= unconfirmedLatest[UnconfirmedTable(r)]
    <2> DEFINE pointers == {latest[TableFor(r)]} \cup
                   IF HasUnconfirmed(r)
                   THEN {unconfirmedLatest[UnconfirmedTable(r)]} ELSE {}
    <2>1. a \in IF pointers = {Null} THEN {Null} ELSE End(pointers \ {Null})
        BY <1>1, <1>4 DEF Available, AvailableLatest
    <2>2. pointers # {Null} /\ a \in End(pointers \ {Null})
        BY <2>1
    <2>3. pointers \ {Null} # {} /\ pointers \ {Null} \subseteq Nat
        BY <1>2, <1>3, <2>2
    <2>4. PICK p \in pointers \ {Null} : a <= p
        <3> HIDE DEF pointers
        <3> QED
            BY <2>2, <2>3 DEF End
    <2> QED
        BY <2>4
<1>5. ASSUME NEW n \in Nat, a \in Available(r, n)
      PROVE  a = n /\ (At(TableFor(r), n) # {} \/ UnconfirmedAt(r, n))
    <2>1. n # Null
        BY <1>1
    <2>2. a \in AvailableAt(r, n)
        BY <1>1, <1>5, <2>1 DEF Available
    <2> QED
        BY <2>2 DEF AvailableAt, UnconfirmedAt
<1> QED
    BY <1>4, <1>5

\* What a request starts with.
LEMMA FreshRequest ==
    ASSUME TypeOK, L2TypeOK, Stage, Request,
           UNCHANGED <<dbVars, unconfirmedVars>>, asOf' # Null
    PROVE  Remaining'
<1>same. UNCHANGED <<entries, latest, unconfirmed, unconfirmedLatest>>
    BY DEF dbVars, unconfirmedVars
<1>1. PICK r \in Routes, n \in Indices \cup {Null} :
          /\ route' = r /\ wanted' = n /\ key' = n
          /\ asOf' \in Available(r, n)
          /\ spc' = FirstRead(r, n)
          /\ r = "syncing" => n = Null
    BY DEF Request
<1>2. again' = FALSE
    BY DEF Request, Stage
<1>3. r \in Tables \cup {"syncing"}
    <2>1. r # "context"
        BY <1>1 DEF Available
    <2> QED
        BY <2>1, TransportServerAssumption DEF AllRoutes
<1>4. CASE n = Null
    <2>1. spc' \in {"highest", "pointer"}
        BY <1>1, <1>3, <1>4, FirstReadGoes DEF Tables
    <2>2. \/ latest[TableFor(r)] # Null /\ asOf' <= latest[TableFor(r)]
          \/ /\ HasUnconfirmed(r)
             /\ unconfirmedLatest[UnconfirmedTable(r)] # Null
             /\ asOf' <= unconfirmedLatest[UnconfirmedTable(r)]
        BY <1>1, <1>3, <1>4, AvailableReaches
    <2>3. /\ \A t \in Tables : latest[t] \in Nat \cup {Null}
          /\ \A t \in UnconfirmedTables :
                unconfirmedLatest[t] \in Nat \cup {Null}
        BY DEF TypeOK, DBTypeOK, L2TypeOK, UnconfirmedTypeOK
    <2>4. asOf' \in Nat
        BY <1>1, AvailableType
    <2>5. /\ TableFor(r) \in Tables
          /\ UnconfirmedTable(r) \in UnconfirmedTables
        BY <1>3 DEF TableFor, Tables, UnconfirmedTable, UnconfirmedTables
    <2>6. ConfirmedReaches' \/ UnconfirmedReaches'
        BY <1>same, <1>1, <2>2, <2>3, <2>4, <2>5
        DEF ConfirmedReaches, UnconfirmedReaches, Reaches, HasUnconfirmed
    <2> QED
        BY <1>1, <1>2, <1>4, <2>1, <2>6 DEF Remaining, FreshLatest
<1>5. CASE n # Null
    <2>1. n \in Nat
        BY <1>1, <1>5, TransportServerAssumption
    <2>2. asOf' = n /\ (At(TableFor(r), n) # {} \/ UnconfirmedAt(r, n))
        BY <1>1, <1>3, <2>1, AvailableReaches
    <2>3. \/ spc' = "unconfirmedEntry"
          \/ spc' = "entry" /\ ~HasUnconfirmed(r)
        BY <1>1, <1>3, <1>5, FirstReadGoes DEF Tables
    <2>4. /\ spc' = "entry" => At(TableFor(r), n) # {}
          /\ spc' \in {"entry", "unconfirmedEntry"}
        BY <2>2, <2>3 DEF UnconfirmedAt
    <2>5. FreshIndex'
        BY <1>same, <1>1, <2>2, <2>4
        DEF FreshIndex, At, UnconfirmedAt, HasUnconfirmed
    <2> QED
        BY <1>1, <1>5, <2>4, <2>5 DEF Remaining
<1> QED
    BY <1>4, <1>5

\* The reads of one request.
LEMMA ReadKeeps ==
    ASSUME ServerRead, missed \in BOOLEAN
    PROVE  /\ UNCHANGED <<route, wanted, asOf>>
           /\ missed' \in BOOLEAN
           /\ missed => missed'
<1> USE DEF requestVars
<1>gives. \A records, e : Read(records, e) =>
              missed' \in BOOLEAN /\ (missed => missed')
    BY ReadGives
<1>1. UNCHANGED <<route, wanted, asOf>>
    BY DEF ServerRead, ReadHighest, ReadPointer, ReadEntry, ReadQueueElement,
           ReadUnconfirmedPointer, ReadUnconfirmedEntry, ReadBatch,
           ReadCtcIndex, ReadRange, ReadElement, ReadTip, ReadBlock,
           ReadRejected
<1>2. CASE ReadTip \/ ReadBlock \/ ReadRejected
    <2>1. missed' = missed
        BY <1>2 DEF ReadTip, ReadBlock, ReadRejected
    <2> QED
        BY <1>1, <2>1
<1>3. CASE \/ ReadHighest \/ ReadPointer \/ ReadEntry \/ ReadQueueElement
           \/ ReadUnconfirmedPointer \/ ReadUnconfirmedEntry \/ ReadBatch
           \/ ReadCtcIndex \/ ReadRange \/ ReadElement
    <2>1. \E records, e : Read(records, e)
        BY <1>3
        DEF ReadHighest, ReadPointer, ReadEntry, ReadQueueElement,
            ReadUnconfirmedPointer, ReadUnconfirmedEntry, ReadBatch,
            ReadCtcIndex, ReadRange, ReadElement
    <2> QED
        BY <1>1, <1>gives, <2>1
<1> QED
    BY <1>2, <1>3 DEF ServerRead

\* After the confirmed transaction or state root.
LEMMA FreshConfirmed ==
    ASSUME AfterConfirmed(got'), UNCHANGED <<route, wanted>>,
           wanted = Null =>
               again = FALSE /\ (GotReaches' \/ UnconfirmedReaches'),
           wanted # Null => GotReaches'
    PROVE  Remaining'
<1>1. /\ got' = Null => ~GotReaches'
      /\ ~HasUnconfirmed(route) => ~UnconfirmedReaches'
    BY DEF GotReaches, UnconfirmedReaches, HasUnconfirmed
<1>2. CASE wanted = Null /\ HasUnconfirmed(route)
    <2>1. spc' = "unconfirmedPointer"
        BY <1>2 DEF AfterConfirmed
    <2> QED
        BY <1>2, <2>1 DEF Remaining, FreshLatest
<1>3. CASE wanted = Null /\ ~HasUnconfirmed(route)
    <2>1. GotReaches' /\ got' # Null
        BY <1>1, <1>3
    <2>2. spc' = "batch"
        BY <1>3, <2>1 DEF AfterConfirmed
    <2> QED
        BY <1>3, <2>1, <2>2 DEF Remaining, FreshLatest
<1>4. CASE wanted # Null
    <2>1. GotReaches' /\ got' # Null
        BY <1>1, <1>4
    <2>2. spc' = "batch"
        BY <1>4, <2>1 DEF AfterConfirmed
    <2> QED
        BY <1>4, <2>1, <2>2 DEF Remaining, FreshIndex
<1> QED
    BY <1>2, <1>3, <1>4

\* The reads of the answer itself.
LEMMA FreshRead ==
    ASSUME DataFacts, TypeOK, L2TypeOK, UnconfirmedResolves, RequestType,
           GotOK, ServerRead, UNCHANGED <<dbVars, unconfirmedVars>>,
           asOf # Null, Remaining, ~missed'
    PROVE  Remaining'
<1> USE DEF RequestType, ServerTypeOK, Stage, requestVars
<1>gives. \A records, e : Read(records, e) =>
              e \in records \/ (records = {} /\ e = Null)
    BY ReadGives
<1>same. UNCHANGED <<entries, latest, unconfirmed, unconfirmedLatest>>
    BY DEF dbVars, unconfirmedVars
<1>keeps. UNCHANGED <<route, wanted, asOf>>
    BY ReadKeeps
<1>there. /\ ConfirmedReaches' <=> ConfirmedReaches
          /\ UnconfirmedReaches' <=> UnconfirmedReaches
          /\ \A t, i : At(t, i)' = At(t, i)
          /\ \A i : UnconfirmedAt(route, i)' <=> UnconfirmedAt(route, i)
    BY <1>same, <1>keeps
    DEF ConfirmedReaches, UnconfirmedReaches, Reaches, HasUnconfirmed, At,
        UnconfirmedAt
<1>1. CASE ReadHighest
    <2>1. /\ spc = "highest" /\ spc' = "pointer" /\ again' = FALSE
          /\ wanted = Null
        BY <1>1 DEF ReadHighest
    <2>2. ConfirmedReaches \/ UnconfirmedReaches
        BY <2>1 DEF Remaining, FreshLatest
    <2> QED
        BY <1>keeps, <1>there, <2>1, <2>2 DEF Remaining, FreshLatest
<1>2. CASE ReadPointer
    <2>1. /\ spc = "pointer" /\ spc' = "entry" /\ UNCHANGED again
          /\ key' = latest[TableFor(route)]
        BY <1>2, <1>gives DEF ReadPointer, PointerTable
    <2>2. /\ wanted = Null /\ again = FALSE
          /\ ConfirmedReaches \/ UnconfirmedReaches
        BY <2>1 DEF Remaining, FreshLatest, FreshIndex
    <2>3. TableFor(route) \in Tables
        BY <2>1 DEF TableFor, Tables
    <2>4. ConfirmedReaches =>
              Reaches(key)' /\ At(TableFor(route), key') # {}
        BY <1>keeps, <2>1, <2>3
        DEF ConfirmedReaches, Reaches, DataFacts, RecordsResolve,
            LatestResolves
    <2>5. At(TableFor(route), key)' = At(TableFor(route), key')
        BY <1>same, <1>keeps DEF At, TableFor
    <2> QED
        BY <1>keeps, <1>there, <2>1, <2>2, <2>4, <2>5
        DEF Remaining, FreshLatest
<1>3. CASE ReadEntry
    <2>1. /\ spc = "entry" /\ AfterEntry(got')
          /\ \/ got' \in At(TableFor(route), key)
             \/ At(TableFor(route), key) = {} /\ got' = Null
        BY <1>3, <1>gives DEF ReadEntry
    <2>2. route \in Tables \cup {"syncing"}
        BY <2>1
    <2>3. got' \in At(TableFor(route), key) =>
              got' # Null /\ got'.index = key
        BY <2>2, StoredKnown DEF At
    <2>4. Reaches(key) /\ At(TableFor(route), key) # {} => GotReaches'
        BY <1>keeps, <2>1, <2>3 DEF GotReaches, Reaches
    <2>5. /\ wanted = Null =>
                 again = FALSE /\ (GotReaches' \/ UnconfirmedReaches')
          /\ wanted # Null => GotReaches'
        <3>1. CASE wanted = Null
            BY <1>there, <2>1, <2>4, <3>1 DEF Remaining, FreshLatest
        <3>2. CASE wanted # Null
            <4>1. /\ key = wanted /\ asOf = wanted
                  /\ At(TableFor(route), key) # {}
                BY <2>1, <3>2 DEF Remaining, FreshIndex
            <4>2. Reaches(key)
                BY <3>2, <4>1, TransportServerAssumption DEF Reaches
            <4> QED
                BY <2>4, <3>2, <4>1, <4>2
        <3> QED
            BY <3>1, <3>2
    <2>6. CASE AfterConfirmed(got')
        BY <1>keeps, <2>5, <2>6, FreshConfirmed
    <2>7. CASE ~HasUnconfirmed(route) /\ ~AfterConfirmed(got')
        <3>1. GotReaches' /\ got' # Null
            BY <1>keeps, <2>5, <2>7
            DEF UnconfirmedReaches, HasUnconfirmed, GotReaches
        <3>2. spc' \in {"answered", "ctcIndex", "range", "queue"}
            BY <2>1, <2>2, <2>7, AfterEntryGoes
        <3>3. spc' = "queue" => again' = FALSE \/ wanted # Null
            BY <1>3, <2>1, <2>2, <2>5, <2>7, <3>1, <3>2
            DEF AfterEntry, Tables
        <3> QED
            BY <1>keeps, <3>1, <3>2, <3>3
            DEF Remaining, FreshLatest, FreshIndex
    <2>8. CASE HasUnconfirmed(route) /\ ~AfterConfirmed(got')
        <3>1. route = "transaction" /\ spc' = "queue" /\ UNCHANGED again
            BY <2>1, <2>8 DEF AfterEntry, HasUnconfirmed
        <3> QED
            BY <1>keeps, <2>5, <3>1 DEF Remaining, FreshLatest, FreshIndex
    <2> QED
        BY <2>6, <2>7, <2>8
<1>4. CASE ReadQueueElement
    <2>1. PICK element \in At("enqueue", ElementIndex(got)) \cup {Null} :
              /\ Read(At("enqueue", ElementIndex(got)), element)
              /\ got' = IF element = Null THEN Null
                                          ELSE FullTransaction(got, element)
        BY <1>4 DEF ReadQueueElement
    <2>2. /\ route = "transaction" /\ got \in QueuedStored /\ spc = "queue"
          /\ AfterConfirmed(got')
        BY <1>4 DEF ReadQueueElement, GotOK
    <2>3. element \in At("enqueue", ElementIndex(got)) /\ element # Null
        BY <1>gives, <2>1, <2>2, ElementOfStored
    <2>4. got' # Null /\ got'.index = got.index
        BY <2>1, <2>2, <2>3, FullKnown
    <2>5. GotReaches => GotReaches'
        BY <1>keeps, <2>4 DEF GotReaches, Reaches
    <2>6. /\ wanted = Null =>
                 again = FALSE /\ (GotReaches' \/ UnconfirmedReaches')
          /\ wanted # Null => GotReaches'
        BY <1>there, <2>2, <2>5 DEF Remaining, FreshLatest, FreshIndex
    <2> QED
        BY <1>keeps, <2>2, <2>6, FreshConfirmed
<1>5. CASE ReadUnconfirmedPointer
    <2>1. /\ spc = "unconfirmedPointer" /\ spc' = "unconfirmedEntry"
          /\ UNCHANGED got
          /\ key' = unconfirmedLatest[UnconfirmedTable(route)]
        BY <1>5, <1>gives DEF ReadUnconfirmedPointer
    <2>2. wanted = Null /\ (GotReaches \/ UnconfirmedReaches)
        BY <2>1 DEF Remaining, FreshLatest, FreshIndex
    <2>3. GotReaches => GotReaches'
        BY <1>keeps, <2>1 DEF GotReaches, Reaches
    <2>4. UnconfirmedTable(route) \in UnconfirmedTables
        BY DEF UnconfirmedTable, UnconfirmedTables
    <2>5. UnconfirmedReaches =>
              Reaches(key)' /\ UnconfirmedAt(route, key')
        BY <1>keeps, <2>1, <2>4
        DEF UnconfirmedReaches, Reaches, UnconfirmedResolves, UnconfirmedAt
    <2>6. UnconfirmedAt(route, key)' <=> UnconfirmedAt(route, key')
        BY <1>same, <1>keeps DEF UnconfirmedAt, HasUnconfirmed
    <2> QED
        BY <1>keeps, <2>1, <2>2, <2>3, <2>5, <2>6 DEF Remaining, FreshLatest
<1>6. CASE ReadUnconfirmedEntry
    <2> DEFINE records == {v \in unconfirmed[UnconfirmedTable(route)] :
                               v.index = key}
    <2>1. PICK u \in records \cup {Null} :
              /\ Read(records, u)
              /\ \/ got # Null /\ u = Null /\ spc' = "error" /\ UNCHANGED got
                 \/ /\ got # Null /\ u # Null /\ spc' = "batch"
                    /\ got' = IF Newer(u, got) THEN u ELSE got
                 \/ got = Null /\ u # Null /\ spc' = "batch" /\ got' = u
                 \/ /\ got = Null /\ u = Null
                    /\ spc' = IF wanted = Null THEN "pointer" ELSE "entry"
        BY <1>6 DEF ReadUnconfirmedEntry
    <2>2. /\ spc = "unconfirmedEntry" /\ UNCHANGED key
          /\ route \in ElementRoutes
        BY <1>6 DEF ReadUnconfirmedEntry, HasUnconfirmed, ElementRoutes
    <2>3. \/ u \in records
          \/ records = {} /\ u = Null
        BY <1>gives, <2>1
    <2>4. u \in records => u # Null /\ u.index = key /\ key \in Nat
        BY <2>2, UnconfirmedForm DEF DataFacts
    <2>5. UnconfirmedAt(route, key) => u \in records
        BY <2>3 DEF UnconfirmedAt
    <2>6. wanted = Null =>
              GotReaches \/ (Reaches(key) /\ UnconfirmedAt(route, key))
        BY <2>2 DEF Remaining, FreshLatest
    <2>7. wanted # Null =>
              /\ key = wanted /\ asOf = wanted
              /\ \/ At(TableFor(route), wanted) # {}
                 \/ UnconfirmedAt(route, wanted)
        BY <2>2 DEF Remaining, FreshIndex
    <2>8. CASE got # Null /\ u = Null
        BY <2>1, <2>8 DEF Remaining, FreshLatest, FreshIndex
    <2>9. CASE u # Null
        <3>1. spc' = "batch"
            BY <2>1, <2>9
        <3>2. GotReaches \/ (Reaches(key) /\ u.index = key)
            BY <2>3, <2>4, <2>6, <2>7, <2>9, TransportServerAssumption
            DEF Reaches
        <3>3. got # Null => got.index \in Nat
            BY <2>2 DEF GotOK, Known
        <3>4. asOf \in Nat /\ u.index \in Nat
            BY <2>3, <2>4, <2>9
        <3>5. /\ got' # Null
              /\ got'.index >= asOf
            BY <2>1, <2>9, <3>2, <3>3, <3>4 DEF GotReaches, Reaches, Newer
        <3>6. GotReaches'
            BY <1>keeps, <3>5, <3>3, <3>4, NullAssumption, <2>1, <2>9
            DEF GotReaches, Reaches
        <3> QED
            BY <3>1, <3>6 DEF Remaining, FreshLatest, FreshIndex
    <2>10. CASE got = Null /\ u = Null
        <3>1. wanted # Null /\ spc' = "entry"
            BY <2>1, <2>4, <2>5, <2>6, <2>10 DEF GotReaches
        <3>2. At(TableFor(route), wanted) # {}
            BY <2>4, <2>5, <2>7, <2>10, <3>1
        <3>3. At(TableFor(route), wanted)' = At(TableFor(route), wanted)
            BY <1>same, <1>keeps DEF At, TableFor
        <3> QED
            BY <1>keeps, <2>2, <2>7, <3>1, <3>2, <3>3
            DEF Remaining, FreshIndex
    <2> QED
        BY <2>8, <2>9, <2>10
<1>7. CASE ReadBatch \/ ReadCtcIndex \/ ReadRange \/ ReadElement
    <2>1. /\ spc \in {"batch", "ctcIndex", "range", "element"}
          /\ spc' \in {"answered", "element"} /\ UNCHANGED got
        BY <1>7 DEF ReadBatch, ReadCtcIndex, ReadRange, ReadElement
    <2>2. GotReaches'
        BY <1>keeps, <2>1 DEF Remaining, GotReaches, Reaches
    <2> QED
        BY <2>1, <2>2 DEF Remaining, FreshLatest, FreshIndex
<1>8. CASE ReadTip \/ ReadBlock
    BY <1>8 DEF ReadTip, ReadBlock
<1>9. CASE ReadRejected
    <2>1. spc' = "rejected"
        BY <1>9 DEF ReadRejected
    <2> QED
        BY <2>1 DEF Remaining, FreshLatest, FreshIndex
<1> QED
    BY <1>1, <1>2, <1>3, <1>4, <1>5, <1>6, <1>7, <1>8, <1>9 DEF ServerRead

\* What the loops write meanwhile only adds to what can be read.
LEMMA FreshKept ==
    ASSUME \A t \in Tables : entries[t] \subseteq entries'[t],
           \A t \in UnconfirmedTables : unconfirmed[t] \subseteq unconfirmed'[t],
           \A t \in Tables : latest[t] # Null =>
               latest'[t] # Null /\ latest[t] <= latest'[t],
           \A t \in UnconfirmedTables : unconfirmedLatest[t] # Null =>
               /\ unconfirmedLatest'[t] # Null
               /\ unconfirmedLatest[t] <= unconfirmedLatest'[t],
           TypeOK, TypeOK', L2TypeOK, L2TypeOK', RequestType,
           UNCHANGED handlerVars, asOf # Null, Remaining
    PROVE  Remaining'
<1>1. UNCHANGED <<spc, route, wanted, asOf, key, got, again>>
    BY DEF handlerVars, requestVars
<1>2. CASE spc \in {"idle", "error", "rejected", "tip", "block"}
    BY <1>1, <1>2 DEF Remaining, FreshLatest, FreshIndex
<1>3. CASE spc \notin {"idle", "error", "rejected", "tip", "block"}
    <2>1. /\ route \in Tables \cup {"syncing"}
          /\ asOf \in Nat
          /\ TableFor(route) \in Tables
          /\ UnconfirmedTable(route) \in UnconfirmedTables
        <3>1. route # Null /\ route # "context" /\ route \in Routes
            BY <1>3 DEF RequestType, ServerTypeOK, Stage
        <3>2. route \in Tables \cup {"syncing"}
            BY <3>1, TransportServerAssumption DEF AllRoutes
        <3> QED
            BY <3>2
            DEF TableFor, Tables, UnconfirmedTable, UnconfirmedTables,
                RequestType, ServerTypeOK
    <2>2. /\ \A t \in Tables : /\ latest[t] \in Nat \cup {Null}
                               /\ latest'[t] \in Nat \cup {Null}
          /\ \A t \in UnconfirmedTables :
                /\ unconfirmedLatest[t] \in Nat \cup {Null}
                /\ unconfirmedLatest'[t] \in Nat \cup {Null}
        BY DEF TypeOK, DBTypeOK, L2TypeOK, UnconfirmedTypeOK
    <2>3. ConfirmedReaches => ConfirmedReaches'
        <3>1. TableFor(route)' = TableFor(route)
            BY <1>1 DEF TableFor
        <3> QED
            BY <1>1, <2>1, <2>2, <3>1 DEF ConfirmedReaches, Reaches
    <2>4. UnconfirmedReaches => UnconfirmedReaches'
        <3>1. /\ UnconfirmedTable(route)' = UnconfirmedTable(route)
              /\ HasUnconfirmed(route)' <=> HasUnconfirmed(route)
            BY <1>1 DEF UnconfirmedTable, HasUnconfirmed
        <3> QED
            BY <1>1, <2>1, <2>2, <3>1 DEF UnconfirmedReaches, Reaches
    <2>5. \A i : At(TableFor(route), i) # {} => At(TableFor(route), i)' # {}
        BY <1>1, <2>1 DEF At, TableFor
    <2>6. \A i : UnconfirmedAt(route, i) => UnconfirmedAt(route, i)'
        BY <1>1, <2>1 DEF UnconfirmedAt, HasUnconfirmed, UnconfirmedTable
    <2>7. GotReaches => GotReaches'
        BY <1>1 DEF GotReaches, Reaches
    <2>8. Reaches(key) => Reaches(key)'
        BY <1>1 DEF Reaches
    <2>9. wanted = Null => FreshLatest'
        <3> SUFFICES ASSUME FreshLatest
                     PROVE  FreshLatest'
            BY DEF Remaining
        <3> QED
            BY <1>1, <2>3, <2>4, <2>5, <2>6, <2>7, <2>8 DEF FreshLatest
    <2>10. wanted # Null => FreshIndex'
        <3> SUFFICES ASSUME FreshIndex
                     PROVE  FreshIndex'
            BY DEF Remaining
        <3> QED
            BY <1>1, <2>5, <2>6, <2>7 DEF FreshIndex
    <2> QED
        BY <1>1, <2>7, <2>9, <2>10 DEF Remaining
<1> QED
    BY <1>2, <1>3

LEMMA FreshStep ==
    ASSUME MatureL1, DeploymentKnown, PointersNeverBack, DataInv, RequestInv,
           UnconfirmedResolves, Fresh, [DataNext]_dataVars
    PROVE  UnconfirmedResolves' /\ Fresh'
<1>1. DataInv' /\ L1Step /\ L2Step
    BY DataInvStep
<1>2. /\ DataFacts /\ TypeInv /\ TypeOK /\ TypeOK' /\ L2Inv
      /\ L2TypeOK /\ L2TypeOK' /\ L2WindowOK
    BY <1>1, DataFactsHold DEF DataInv, ProcessInv, TypeInv, L2Inv
<1>3. RequestType /\ GotOK /\ missed \in BOOLEAN /\ dbOpen \in BOOLEAN
    BY DEF RequestInv, RequestType, ServerTypeOK
<1>4. UnconfirmedResolves'
    BY <1>1, <1>2, UnconfirmedPointers
<1>5. CASE /\ Request \/ ServerRead \/ Respond
           /\ UNCHANGED <<chainVars, dbVars, l2Vars, dbOpen>>
    <2>1. UNCHANGED <<dbVars, unconfirmedVars>>
        BY <1>5 DEF l2Vars
    <2> SUFFICES ASSUME asOf' # Null, ~missed'
                 PROVE  Remaining'
        BY <1>4 DEF Fresh
    <2>2. CASE Request
        BY <1>2, <1>3, <2>1, <2>2, FreshRequest DEF RequestType
    <2>3. CASE ServerRead
        <3>1. asOf # Null /\ ~missed
            BY <1>3, <2>3, ReadKeeps
        <3>2. Remaining
            BY <3>1 DEF Fresh
        <3> QED
            BY <1>2, <1>3, <2>1, <2>3, <3>1, <3>2, FreshRead
    <2>4. CASE Respond
        BY <2>4 DEF Respond, ServerIdle
    <2> QED
        BY <1>5, <2>2, <2>3, <2>4
<1>6. CASE UNCHANGED handlerVars
    <2>1. UNCHANGED <<asOf, missed>>
        BY <1>6 DEF handlerVars, requestVars
    <2> SUFFICES ASSUME asOf # Null, Remaining
                 PROVE  Remaining'
        BY <1>4, <2>1 DEF Fresh
    <2>2. \A t \in Tables : entries[t] \subseteq entries'[t]
        BY <1>1, <1>2, EntriesKept DEF DataFacts
    <2>3. \A t \in UnconfirmedTables : unconfirmed[t] \subseteq unconfirmed'[t]
        BY <1>1, <1>2, UnconfirmedKept
    <2>4. \A t \in Tables : latest[t] # Null =>
              latest'[t] # Null /\ latest[t] <= latest'[t]
        BY <1>1, <1>2, LatestKept DEF PointersNeverBack
    <2>5. \A t \in UnconfirmedTables : unconfirmedLatest[t] # Null =>
              /\ unconfirmedLatest'[t] # Null
              /\ unconfirmedLatest[t] <= unconfirmedLatest'[t]
        BY <1>1, <1>2, UnconfirmedPointers DEF PointersNeverBack
    <2> QED
        BY <1>2, <1>3, <1>6, <2>2, <2>3, <2>4, <2>5, FreshKept
<1>7. CASE ServerIdle
    <2>1. asOf' = Null
        BY <1>7 DEF ServerIdle
    <2> QED
        BY <1>4, <2>1 DEF Fresh
<1> QED
    BY <1>5, <1>6, <1>7, StepOfServer DEF DataInv

\* What was there when a request came is in its answer, and "latest" is no
\* older than it was then, although the loops go on writing between the
\* reads: of those only the server's own may fail, which the answer's missed
\* accounts for, as a loop that fails to read a pointer may set it back.
THEOREM AnswersFresh ==
    ASSUME MatureL1, DeploymentKnown, PointersNeverBack
    PROVE  DataSpec => []FreshAnswer
<1> DEFINE Inv == DataInv /\ RequestInv /\ UnconfirmedResolves /\ Fresh
<1>1. DataInit => Inv
    <2>1. DataInit => UnconfirmedResolves /\ Fresh
        BY DEF DataInit, L2InitAt, UnconfirmedInit, UnconfirmedResolves,
               ServerInit, Fresh
    <2> QED
        BY <2>1, DataInvInit, RequestInvInit
<1>2. Inv /\ [DataNext]_dataVars => Inv'
    BY DataInvStep, RequestInvStep, FreshStep
<1>3. Inv => FreshAnswer
    BY DEF Fresh, Remaining, FreshAnswer, GotReaches, Reaches
<1> HIDE DEF Inv
<1> QED
    BY <1>1, <1>2, <1>3, PTL DEF DataSpec
=============================================================================
