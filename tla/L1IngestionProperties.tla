----------------------- MODULE L1IngestionProperties -----------------------
(***************************************************************************)
(* What the records that services/l1-ingestion leaves in the database      *)
(* promise to the server that reads them, at every moment: between two     *)
(* awaits of the service, after a crash, during a replay.                  *)
(***************************************************************************)
EXTENDS L1Ingestion

\* The contract whose event l is.
ContractOf(l) == IF l.kind = "StateBatchAppended" THEN SCC ELSE CTC

\* The logs the three calls of _syncEvents are there to index.
Promised == OfKind({"TransactionEnqueued", "SequencerBatchAppended",
                    "StateBatchAppended"})

\* All records of l are in the database, and each of its "l1" elements can
\* be found from the queue.
Indexed(l) ==
    /\ \A t \in Tables : EntriesOf(l, t) \subseteq entries[t]
    /\ \A tx \in EntriesOf(l, "transaction") :
          tx.queueOrigin = "l1" =>
              [queueIndex |-> tx.queueIndex, index |-> tx.index] \in ctcIndex

\* l is part of what a service that has synced up to block n has read: it
\* stands in an earlier block, or in block n itself unless the contract
\* moved earlier in that block, which the next window will see.
Covered(l, n) ==
    \/ l.block < n
    \/ /\ l.block = n
       /\ \A s \in AddressSets(ContractOf(l)) :
             s.block = n => l.pos < s.pos

-----------------------------------------------------------------------------
\* Safety: whatever is stored comes from a log that no reorganisation can
\* remove any more, although events are read from a chain that is still
\* moving and from nodes that lag (options.confirmations, _start).
StoredIsFinal ==
    \A t \in Tables : \A e \in entries[t] :
        \E l \in logs : l.block <= final /\ e \in EntriesOf(l, t)

\* Safety: the service never marks a block as synced while one of its
\* events is missing from any of the tables; what is below "synced:highest"
\* is never read again (setHighestSyncedL1Block after the three syncs).
SyncedMeansIndexed ==
    \A l \in Promised : Covered(l, synced) => Indexed(l)

\* Safety: a table has no holes, so the server may count on every index up
\* to the latest one, also in the middle of a window or of a replay.
NoHoles ==
    \A t \in Tables :
        {e.index : e \in entries[t]} = 0 .. Cardinality(entries[t]) - 1

\* Safety: the batch of a stored transaction is stored and contains it, and
\* the queue element of an "l1" transaction is stored, which
\* getFullTransactionByIndex and GET /transaction/index rely on.
TransactionsResolve ==
    \A tx \in entries["transaction"] :
        /\ \E b \in At("batch:transaction", tx.batchIndex) :
              tx.index \in b.prevTotalElements
                               .. b.prevTotalElements + b.size - 1
        /\ tx.queueOrigin = "l1" => At("enqueue", tx.queueIndex) # {}

\* Safety: the batch of a stored state root is stored and contains it, which
\* GET /stateroot/index relies on.
StateRootsResolve ==
    \A r \in entries["stateroot"] :
        \E b \in At("batch:stateroot", r.batchIndex) :
            r.index \in b.prevTotalElements
                            .. b.prevTotalElements + b.size - 1

\* Safety: while no contract moves, a state root is stored only when the
\* transaction whose result it is has been stored: the order of the three
\* _syncEvents calls.
StateRootsHaveTransactions ==
    \A r \in entries["stateroot"] : At("transaction", r.index) # {}

\* Safety: the ctcIndex that GET /enqueue/index adds to a queue element is
\* the index of a stored transaction that is this very element.
CtcIndexPointsBack ==
    \A c \in ctcIndex :
        \E tx \in At("transaction", c.index) :
            tx.queueOrigin = "l1" /\ tx.queueIndex = c.queueIndex

\* Safety: a latest pointer leads to a record, also when the service dies
\* between the two puts of the record and its pointer, or a failing read
\* lets the pointer go back (_putEntries, _getLatestEntry).
LatestResolves ==
    \A t \in Tables : latest[t] # Null => At(t, latest[t]) # {}

\* Safety, without failing reads: the latest pointers reach every record of
\* the synced blocks, so that the "latest" routes do not hide any.
LatestReachesSynced ==
    \A l \in Promised, t \in Tables :
        Covered(l, synced) =>
            \A e \in EntriesOf(l, t) :
                latest[t] # Null /\ e.index <= latest[t]

\* Safety, the README's "Transaction indexing": transactions included in
\* the canonical chain by appendQueueBatch are indexed like those of
\* appendSequencerBatch.
QueueBatchesIndexed ==
    \A l \in TransactionBatches : Covered(l, synced) => Indexed(l)

-----------------------------------------------------------------------------
\* Action property: once stored, a record is never replaced by another or
\* dropped, whatever is read again after a crash or a failed read.
EntriesImmutable ==
    [][\A t \in Tables : entries[t] \subseteq entries'[t]]_entries

\* Action property, without failing reads: the latest pointer of a table
\* never goes back, although a restarted service stores old events again
\* (the comparison in _putLatestEntry).
LatestNeverGoesBack ==
    [][\A t \in Tables : ToNumber(latest[t]) <= ToNumber(latest'[t])]_latest

\* Action property, the comment in _init: once it has stored the number of
\* submitted transactions, the server can tell whether syncing is done.
TotalIsStored ==
    [][StoreTotalElements =>
          \A total \in GetTotalElements(tip - MaxLag) :
              total > 0 => highestL2' # Null /\ total - 1 <= highestL2']_vars

-----------------------------------------------------------------------------
\* Liveness: faults being finite in number, the service ends up with every
\* event indexed that even a node that lags as far as it can has confirmed,
\* and stays there.
EventuallyIndexed ==
    <>[](\A l \in Promised :
            Covered(l, tip - MaxLag - Confirmations) => Indexed(l))

-----------------------------------------------------------------------------
\* Refinement: on a mature chain the service, with its windows, address
\* changes, crashes, replays, reorganisations and failing reads, does nothing
\* that IndexedChain does not.
ConfirmedIndex ==
    INSTANCE IndexedChain WITH
        TableNames <- Tables, RecordsOf <- EntriesOf, None <- Null,
        confirmed <- {l \in logs : l.block <= final},
        records <- entries,
        pointer <- latest,
        done <- {l \in Promised : Covered(l, synced)}

ImplementsIndexedChain == ConfirmedIndex!IndexSpec

-----------------------------------------------------------------------------
(* What the proofs need to know of the states in between.                  *)

\* While a window is synced, one of the three calls of _syncEvents runs, and
\* while a record is stored, its table is known.
ControlOK ==
    /\ pc \in {"resolve", "ranges", "query", "event", "store", "latest",
               "index"} => sync \in 1 .. 3
    /\ pc \in {"store", "latest"} => table \in Tables

TypeInv == TypeOK /\ ControlOK

\* The iteration is given up: by a fault, because a put is rejected or with
\* the whole process.
Interrupted ==
    /\ EndIteration
    /\ \/ /\ pc \notin InitPCs \cup {"down"}
          /\ pc' = "sleep"
          /\ UNCHANGED startBlock
       \/ pc' = "down" /\ startBlock' = 0
    /\ faults' \in {faults, faults + 1}
    /\ UNCHANGED <<chainVars, dbVars>>

\* The loop comes round after _stop and returns.
Returned ==
    /\ pc = "poll"
    /\ pc' = "down"
    /\ UNCHANGED <<chainVars, dbVars, localVars, faults>>

\* A step of another part of the process, which may use up a fault.
Elsewhere ==
    /\ faults' \in {faults, faults + 1}
    /\ UNCHANGED <<chainVars, dbVars, localVars, pc>>

\* Whatever happens to L1 ingestion when it runs inside the whole process:
\* the lemmas are about these steps, so that they serve both.
L1Step == Service \/ Restart \/ ChainNext \/ Interrupted \/ Returned \/ Elsewhere

\* On a mature chain the window, its ranges and its events are final, so
\* that they are still on the chain when the service comes to use them.
WindowFinal ==
    /\ 0 <= synced
    /\ 0 <= to /\ to <= final
    /\ \A s \in addressSets : s.block <= final
    /\ \A i \in 1 .. Len(ranges) :
          0 <= ranges[i].toBlock /\ ranges[i].toBlock <= final
    /\ \A l \in events : l \in logs /\ l.block <= final

FinalInv == TypeInv /\ WindowFinal /\ StoredIsFinal

\* No two logs of the chain claim the same place or index: queue elements, batches
\* and the elements of the two chains are numbered once.
Disjoint(l, lSize, m, mSize) ==
    l.prev + lSize <= m.prev \/ m.prev + mSize <= l.prev

ChainUnique ==
    /\ \A l, m \in logs : l.pos = m.pos => l = m
    /\ \A l, m \in Enqueued : l.queueIndex = m.queueIndex => l = m
    /\ \A l, m \in TransactionBatches :
          l # m => /\ l.batchIndex # m.batchIndex
                   /\ Disjoint(l, Len(l.shape), m, Len(m.shape))
    /\ \A l, m \in StateBatches :
          l # m => /\ l.batchIndex # m.batchIndex
                   /\ Disjoint(l, l.size, m, m.size)

\* The latest pointer of a table is put after its records, and the queue
\* indices of a batch after its transactions.
StoringOrder ==
    /\ pc = "latest" =>
          \A l \in events :
              IsFirst(l, events) => EntriesOf(l, table) \subseteq entries[table]
    /\ pending \subseteq entries["transaction"]

=============================================================================
