---------------------------- MODULE L1Ingestion ----------------------------
(***************************************************************************)
(* services/l1-ingestion/service.ts and its three event handlers: the      *)
(* service reads contract events from Layer 1 in windows of blocks, parses *)
(* them and stores the records.  Each action is the code from one await to *)
(* the next, so the chain, a crash or a reader may act in between.         *)
(*                                                                         *)
(*   init -> start (-> search) -> total                                    *)
(*   -> poll -> resolve -> ranges -> query -> event -> store -> latest     *)
(*   (-> index) -> event ... query ... resolve ... -> done -> sleep | poll *)
(***************************************************************************)
EXTENDS L1Chain, TransportDB

CONSTANTS
    Confirmations,   \* options.confirmations
    LogsPerPoll,     \* options.logsPerPollingInterval
    SearchRange,     \* blocks of one query of _findStartingL1BlockNumber
    CatchAllErrors,  \* options.dangerouslyCatchAllErrors
    FaultKinds,      \* the faults that may happen in this instance
    MaxFaults        \* bound: how many of them

\* "serve": a read of the server fails, which only concerns its answer.
AllFaultKinds == {"crash", "rpc", "read", "reorg", "serve"}

\* The operator chooses Confirmations deeper than what can be reorganised
\* or missed by a lagging RPC node.
ASSUME L1IngestionAssumption ==
    /\ Confirmations \in Nat
    /\ Confirmations >= MaxReorg + MaxLag
    /\ LogsPerPoll \in Nat \ {0}
    /\ SearchRange \in Nat \ {0}
    /\ CatchAllErrors \in BOOLEAN
    /\ FaultKinds \subseteq AllFaultKinds
    /\ MaxFaults \in Nat

\* The service starts on a chain that is already Confirmations deep.
MatureL1 == InitTip - MaxLag >= Confirmations

VARIABLES
    pc,           \* where the service is
    startBlock,   \* this.state.startingL1BlockNumber, 0 before it is known
    from,         \* highestSyncedL1Block of this iteration, i of the search
    to,           \* targetL1Block of this iteration
    current,      \* currentL1Block of this iteration or of the search
    sync,         \* which of the three _syncEvents calls is running
    addressSets,  \* addressSetEvents still to be turned into a range
    rangeStart,   \* l1BlockRangeStart
    ranges,       \* eventRanges still to be queried
    events,       \* events of the current range still to be stored
    table,        \* the table storeEvent is writing
    pending,      \* "l1" transactions whose ctc index is still to be put
    faults        \* how many faults have happened

pollVars == <<from, to, current>>
rangeVars == <<sync, addressSets, rangeStart, ranges>>
eventVars == <<events, table, pending>>
localVars == <<startBlock, pollVars, rangeVars, eventVars>>
vars == <<chainVars, dbVars, localVars, pc, faults>>

\* Inside _init.
InitPCs == {"init", "start", "search", "total"}

PCs == InitPCs \cup {"poll", "sleep", "resolve", "ranges", "query", "event",
                    "store", "latest", "index", "done", "down"}

\* Mutants of Syncs: the calls of _syncEvents in another order, and state
\* roots stored without the put of their batch.
BatchesFirst ==
    <<[contract |-> CTC, event |-> "SequencerBatchAppended",
       table |-> "batch:transaction"],
      [contract |-> CTC, event |-> "TransactionEnqueued",
       table |-> "enqueue"],
      [contract |-> SCC, event |-> "StateBatchAppended",
       table |-> "batch:stateroot"]>>
StatesFirst ==
    <<[contract |-> CTC, event |-> "TransactionEnqueued",
       table |-> "enqueue"],
      [contract |-> SCC, event |-> "StateBatchAppended",
       table |-> "batch:stateroot"],
      [contract |-> CTC, event |-> "SequencerBatchAppended",
       table |-> "batch:transaction"]>>
RootsWithoutBatch ==
    <<StatesFirst[1], StatesFirst[3],
      [StatesFirst[2] EXCEPT !.table = "stateroot"]>>

\* The three calls of _syncEvents in _start, in their order, each with the
\* table its handler writes first.
Syncs == <<[contract |-> CTC, event |-> "TransactionEnqueued",
            table |-> "enqueue"],
           [contract |-> CTC, event |-> "SequencerBatchAppended",
            table |-> "batch:transaction"],
           [contract |-> SCC, event |-> "StateBatchAppended",
            table |-> "batch:stateroot"]>>

EventRange == [address: Addresses \cup {AddressZero}, fromBlock: Int,
               toBlock: Int]

TypeOK ==
    /\ ChainTypeOK
    /\ DBTypeOK
    /\ pc \in PCs
    /\ startBlock \in Nat
    /\ from \in Int /\ to \in Int /\ current \in Int
    /\ sync \in 0 .. 3
    /\ addressSets \in SUBSET AddressSetLog
    /\ rangeStart \in Int
    /\ ranges \in Seq(EventRange)
    /\ events \in SUBSET (Log \ AddressSetLog)
    /\ table \in Tables \cup {"none"}
    /\ pending \in SUBSET QueuedEntry
    /\ faults \in Nat

-----------------------------------------------------------------------------
(* The handlers' parseEvent: the records of an event, by table.            *)

\* Queue elements are numbered on from _startingQueueIndex (enqueuedCount).
QueueIndex(l, k) ==
    IF l.shape[k] = "l1" THEN l.queueStart + NumQueued(SubSeq(l.shape, 1, k - 1))
                         ELSE Null

\* prevTotalElements plus the place in the batch.  Mutant: counted from 0
\* where k counts from 1.
OffByOneIndex(l, k) == l.prev + k - 2
TransactionIndex(l, k) == l.prev + k - 1

TransactionEntries(l) ==
    {[index |-> TransactionIndex(l, k), batchIndex |-> l.batchIndex,
      queueOrigin |-> l.shape[k], queueIndex |-> QueueIndex(l, k)] :
         k \in 1 .. Len(l.shape)}

TransactionBatchEntry(l) ==
    [index |-> l.batchIndex, blockNumber |-> l.block,
     prevTotalElements |-> l.prev, size |-> Len(l.shape)]

StateRootEntries(l) ==
    {[index |-> l.prev + i, batchIndex |-> l.batchIndex] :
         i \in 0 .. l.size - 1}

StateRootBatchEntry(l) ==
    [index |-> l.batchIndex, blockNumber |-> l.block,
     prevTotalElements |-> l.prev, size |-> l.size]

EntriesOf(l, t) ==
    CASE t = "enqueue" /\ l.kind = "TransactionEnqueued" ->
           {[index |-> l.queueIndex, blockNumber |-> l.block]}
      [] t = "batch:transaction" /\ l.kind \in TransactionBatchKinds ->
           {TransactionBatchEntry(l)}
      [] t = "transaction" /\ l.kind \in TransactionBatchKinds ->
           TransactionEntries(l)
      [] t = "batch:stateroot" /\ l.kind = "StateBatchAppended" ->
           {StateRootBatchEntry(l)}
      [] t = "stateroot" /\ l.kind = "StateBatchAppended" ->
           StateRootEntries(l)
      [] OTHER -> {}

\* The table storeEvent writes after t.
NextTable(t) ==
    CASE t = "batch:transaction" -> "transaction"
      [] t = "batch:stateroot" -> "stateroot"
      [] OTHER -> "none"

-----------------------------------------------------------------------------
Init ==
    /\ ChainInit
    /\ DBInit
    /\ pc = "init"
    /\ startBlock = 0
    /\ from = 0 /\ to = 0 /\ current = 0
    /\ sync = 0
    /\ addressSets = {}
    /\ rangeStart = 0
    /\ ranges = <<>>
    /\ events = {}
    /\ table = "none"
    /\ pending = {}
    /\ faults = 0

CanFault(kind) == kind \in FaultKinds /\ faults < MaxFaults

\* SimpleDB.get: the stored value, or null when the read fails.
Get(value, got) ==
    \/ got = value /\ UNCHANGED faults
    \/ CanFault("read") /\ got = Null /\ faults' = faults + 1

\* The locals of the loop body go out of scope.
EndIteration ==
    /\ from' = 0 /\ to' = 0 /\ current' = 0
    /\ sync' = 0
    /\ addressSets' = {}
    /\ rangeStart' = 0
    /\ ranges' = <<>>
    /\ events' = {}
    /\ table' = "none"
    /\ pending' = {}

\* loadOptimismContracts, in _init: a contract that the address manager of
\* the node does not know is an error, which ends the service.
LoadContracts ==
    /\ pc = "init"
    /\ \E view \in Views :
          LET Known(name) ==
                  \E s \in AddressSets(name) : s.block <= view
          IN  \/ /\ \A name \in ContractNames : Known(name)
                 /\ pc' = "start"
              \/ /\ \E name \in ContractNames : ~Known(name)
                 /\ pc' = "down"
    /\ UNCHANGED <<chainVars, dbVars, localVars, faults>>

\* The starting block as it is stored, or else the height up to which
\* _findStartingL1BlockNumber will look for it.
FindStartingL1Block ==
    /\ pc = "start"
    /\ \E got \in {starting, Null} :
          /\ Get(starting, got)
          /\ \/ /\ ToNumber(got) # 0
                /\ startBlock' = got
                /\ pc' = "total"
                /\ UNCHANGED current
             \/ /\ ToNumber(got) = 0
                /\ current' \in Views
                /\ pc' = "search"
                /\ UNCHANGED startBlock
    /\ UNCHANGED <<chainVars, dbVars, from, to, rangeVars, eventVars>>

\* The AddressSet events that one query of the search finds.
AddressSetsFound(view) ==
    LogsBetween(OfKind({"AddressSet"}), from,
                IF from + SearchRange < current
                THEN from + SearchRange ELSE current, view)

\* The search ends with the block of the first event, goes on with the next
\* blocks, or finds none at all and throws.
SearchStartingL1Block ==
    /\ pc = "search"
    /\ \/ \E view \in Views : \E s \in AddressSetsFound(view) :
             /\ from < current
             /\ IsFirst(s, AddressSetsFound(view))
             /\ startBlock' = s.block
             /\ SetStartingL1Block(s.block)
             /\ from' = 0 /\ current' = 0
             /\ pc' = "total"
       \/ /\ from < current
          /\ \E view \in Views : AddressSetsFound(view) = {}
          /\ from' = from + SearchRange
          /\ UNCHANGED <<current, startBlock, starting, pc>>
       \/ /\ from >= current
          /\ from' = 0 /\ current' = 0
          /\ pc' = "down"
          /\ UNCHANGED <<startBlock, starting>>
    /\ UNCHANGED <<chainVars, entries, latest, ctcIndex, highestL2, synced, to,
                   rangeVars, eventVars, faults>>

\* The end of _init: the number of transactions in the canonical chain.
StoreTotalElements ==
    /\ pc = "total"
    /\ \E view \in Views :
          \E total \in GetTotalElements(view) :
             \/ /\ total > 0
                /\ \E got \in {highestL2, Null} :
                      /\ Get(highestL2, got)
                      /\ PutHighestL2BlockNumber(total - 1, got)
             \/ total = 0 /\ UNCHANGED <<highestL2, faults>>
    /\ pc' = "poll"
    /\ UNCHANGED <<chainVars, entries, latest, ctcIndex, synced, starting,
                   localVars>>

\* currentL1Block - confirmations.  Mutants: no or too few confirmations.
Unconfirmed(view) == view
OneTooFew(view) == view - Confirmations + 1
Confirmed(view) == view - Confirmations

\* "We're already at the head."  Mutant: satisfied one block too early.
AlmostAtHead(highest, target) == highest + 1 >= target
AtHead(highest, target) == highest = target

\* _start: choose the window of this iteration, or sleep at the head.
Poll ==
    /\ pc = "poll"
    /\ \E got \in {synced, Null}, view \in Views :
          LET highest == IF ToNumber(got) = 0 THEN startBlock ELSE got
              head == Confirmed(view)
              target == IF highest + LogsPerPoll <= head
                        THEN highest + LogsPerPoll ELSE head
          IN  /\ Get(synced, got)
              /\ \/ /\ AtHead(highest, target)
                    /\ pc' = "sleep"
                    /\ UNCHANGED <<pollVars, sync>>
                 \/ /\ ~AtHead(highest, target)
                    /\ pc' = "resolve"
                    /\ from' = highest
                    /\ to' = target
                    /\ current' = view
                    /\ sync' = 1
    /\ UNCHANGED <<chainVars, dbVars, startBlock, addressSets, rangeStart,
                   ranges, eventVars>>

\* _syncEvents: the address changes of the contract inside the window.
QueryAddressSets ==
    /\ pc = "resolve"
    /\ \E view \in Views :
          addressSets' =
              LogsBetween(AddressSets(Syncs[sync].contract), from, to, view)
    /\ rangeStart' = from
    /\ pc' = "ranges"
    /\ UNCHANGED <<chainVars, dbVars, startBlock, pollVars, sync, ranges,
                   eventVars, faults>>

\* _getContractAddressAtBlock: the last address set strictly before n.
\* Mutant: or in n itself.
IsAddressAfterBlock(a, name, n, view) ==
    LET S == {s \in AddressSets(name) :
                 startBlock <= s.block /\ s.block <= view /\ s.block <= n}
    IN  \/ S = {} /\ a = AddressZero
        \/ \E s \in S : IsLast(s, S) /\ a = s.newAddress
IsAddressAtBlock(a, name, n, view) ==
    LET S == {s \in AddressSets(name) :
                 startBlock <= s.block /\ s.block <= view /\ s.block < n}
    IN  \/ S = {} /\ a = AddressZero
        \/ \E s \in S : IsLast(s, S) /\ a = s.newAddress

PushEventRange(lastBlock) ==
    \E view \in Views, a \in Addresses \cup {AddressZero} :
        /\ IsAddressAtBlock(a, Syncs[sync].contract, lastBlock, view)
        /\ ranges' = Append(ranges, [address |-> a, fromBlock |-> rangeStart,
                                     toBlock |-> lastBlock])

\* The range after an address change starts with the block of the change.
\* Mutant: with the block after it.
AfterChange(s) == s.block + 1
RangeStartAfter(s) == s.block

\* A range that ends with an address change ...
PushAddressRange ==
    /\ pc = "ranges"
    /\ \E s \in addressSets :
          /\ IsFirst(s, addressSets)
          /\ PushEventRange(s.block)
          /\ rangeStart' = RangeStartAfter(s)
          /\ addressSets' = addressSets \ {s}
    /\ UNCHANGED <<chainVars, dbVars, startBlock, pollVars, sync, eventVars,
                   pc, faults>>

\* ... and the one that reaches the end of the window.
PushLastRange ==
    /\ pc = "ranges"
    /\ addressSets = {}
    /\ PushEventRange(to)
    /\ rangeStart' = 0
    /\ pc' = "query"
    /\ UNCHANGED <<chainVars, dbVars, startBlock, pollVars, sync,
                   addressSets, eventVars, faults>>

\* The events of the next range, as the chain is at this moment.
QueryEvents ==
    /\ pc = "query"
    /\ ranges # <<>>
    /\ \E view \in Views :
          LET range == Head(ranges)
              emitted == {l \in OfKind({Syncs[sync].event}) :
                             l.address = range.address}
          IN  events' = LogsBetween(emitted, range.fromBlock, range.toBlock,
                                    view)
    /\ ranges' = Tail(ranges)
    /\ pc' = "event"
    /\ UNCHANGED <<chainVars, dbVars, startBlock, pollVars, sync,
                   addressSets, rangeStart, table, pending, faults>>

\* _syncEvents returns and _start calls the next one.
EndSyncEvents ==
    /\ pc = "query"
    /\ ranges = <<>>
    /\ \/ sync < 3 /\ sync' = sync + 1 /\ pc' = "resolve"
       \/ sync = 3 /\ sync' = 0 /\ pc' = "done"
    /\ UNCHANGED <<chainVars, dbVars, startBlock, pollVars, addressSets,
                   rangeStart, ranges, eventVars, faults>>

\* getExtraData and parseEvent of the first remaining event.
ParseEvent ==
    /\ pc = "event"
    /\ events # {}
    /\ table' = Syncs[sync].table
    /\ pc' = "store"
    /\ UNCHANGED <<chainVars, dbVars, startBlock, pollVars, rangeVars,
                   events, pending, faults>>

EndRange ==
    /\ pc = "event"
    /\ events = {}
    /\ pc' = "query"
    /\ UNCHANGED <<chainVars, dbVars, localVars, faults>>

\* Events are handled one after the other.  Mutant: in any order.
AnyEvent(l) == l \in events
NextEvent(l) == IsFirst(l, events)

\* storeEvent: the batch write of _putEntries for one table ...
StoreEntries ==
    /\ pc = "store"
    /\ \E l \in events :
          NextEvent(l) /\ PutEntries(table, EntriesOf(l, table))
    /\ pc' = "latest"
    /\ UNCHANGED <<chainVars, latest, ctcIndex, highestL2, synced, starting,
                   localVars, faults>>

\* ... then _putLatestEntry with the last of the entries.
StoreLatestEntry ==
    /\ pc = "latest"
    /\ \E l \in events : \E e \in EntriesOf(l, table) :
          /\ NextEvent(l)
          /\ \A other \in EntriesOf(l, table) : other.index <= e.index
          /\ \E got \in {latest[table], Null} :
                /\ Get(latest[table], got)
                /\ PutLatestEntry(table, e.index, got)
          /\ \/ /\ NextTable(table) # "none"
                /\ table' = NextTable(table)
                /\ pc' = "store"
                /\ UNCHANGED <<events, pending>>
             \/ /\ table = "transaction"
                /\ table' = "none"
                /\ pending' = {tx \in EntriesOf(l, table) :
                                  tx.queueOrigin = "l1"}
                /\ pc' = "index"
                /\ UNCHANGED events
             \/ /\ table \in {"enqueue", "stateroot"}
                /\ table' = "none"
                /\ events' = events \ {l}
                /\ pc' = "event"
                /\ UNCHANGED pending
    /\ UNCHANGED <<chainVars, entries, ctcIndex, highestL2, synced, starting,
                   startBlock, pollVars, rangeVars>>

\* storeEvent of a transaction batch ends by telling each enqueued
\* transaction its place in the canonical chain, one put at a time.
StoreCtcIndex ==
    /\ pc = "index"
    /\ \E tx \in pending :
          /\ \A other \in pending : tx.index <= other.index
          /\ PutTransactionIndexByQueueIndex(tx.queueIndex, tx.index)
          /\ pending' = pending \ {tx}
    /\ UNCHANGED <<chainVars, entries, latest, highestL2, synced, starting,
                   startBlock, pollVars, rangeVars, events, table, pc,
                   faults>>

EndStoreBatch ==
    /\ pc = "index"
    /\ pending = {}
    /\ \E l \in events : NextEvent(l) /\ events' = events \ {l}
    /\ pc' = "event"
    /\ UNCHANGED <<chainVars, dbVars, startBlock, pollVars, rangeVars,
                   table, pending, faults>>

\* The window is done; sleep unless there is a full window to catch up.
FinishIteration ==
    /\ pc = "done"
    /\ SetHighestSyncedL1Block(to)
    /\ \/ current - from < LogsPerPoll /\ pc' = "sleep"
       \/ current - from >= LogsPerPoll /\ pc' = "poll"
    /\ EndIteration
    /\ UNCHANGED <<chainVars, entries, latest, ctcIndex, highestL2, starting,
                   startBlock, faults>>

Wake ==
    /\ pc = "sleep"
    /\ pc' = "poll"
    /\ UNCHANGED <<chainVars, dbVars, localVars, faults>>

-----------------------------------------------------------------------------
\* Something the code awaits rejects.  Inside the loop the catch block
\* sleeps or rethrows; an exception of _init or a rethrown one ends the
\* service.
Fail ==
    /\ pc \notin {"sleep", "down"}
    /\ CanFault("rpc")
    /\ faults' = faults + 1
    /\ EndIteration
    /\ \/ /\ pc \notin InitPCs /\ CatchAllErrors
          /\ pc' = "sleep"
          /\ UNCHANGED startBlock
       \/ /\ pc \in InitPCs \/ ~CatchAllErrors
          /\ pc' = "down"
          /\ startBlock' = 0
    /\ UNCHANGED <<chainVars, dbVars>>

\* The process dies; only the database survives.
Crash ==
    /\ pc # "down"
    /\ CanFault("crash")
    /\ faults' = faults + 1
    /\ EndIteration
    /\ pc' = "down"
    /\ startBlock' = 0
    /\ UNCHANGED <<chainVars, dbVars>>

Restart ==
    /\ pc = "down"
    /\ pc' = "init"
    /\ UNCHANGED <<chainVars, dbVars, localVars, faults>>

ChainNext ==
    /\ \/ ChainStep /\ UNCHANGED faults
       \/ CanFault("reorg") /\ Reorg /\ faults' = faults + 1
    /\ UNCHANGED <<dbVars, localVars, pc>>

Service ==
    \/ LoadContracts \/ FindStartingL1Block \/ SearchStartingL1Block
    \/ StoreTotalElements \/ Poll \/ Wake
    \/ QueryAddressSets \/ PushAddressRange \/ PushLastRange
    \/ QueryEvents \/ EndSyncEvents \/ EndRange
    \/ ParseEvent \/ StoreEntries \/ StoreLatestEntry
    \/ StoreCtcIndex \/ EndStoreBatch \/ FinishIteration

Next == Service \/ Fail \/ Crash \/ Restart \/ ChainNext

Spec == Init /\ [][Next]_vars

\* The event loop runs while the process lives, and a supervisor restarts
\* it.  The chain promises nothing.
FairSpec == Spec /\ WF_vars(Service) /\ WF_vars(Restart)
=============================================================================
