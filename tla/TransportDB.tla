---------------------------- MODULE TransportDB ----------------------------
(***************************************************************************)
(* The LevelDB store of the transport layer, db/transport-db.ts: the       *)
(* tables and pointers that L1 ingestion writes, and the single values,    *)
(* which are variables of their own.                                       *)
(***************************************************************************)
EXTENDS SimpleDB

\* TRANSPORT_DB_KEYS of the records that L1 ingestion writes.
Tables == {"enqueue", "batch:transaction", "transaction",
           "batch:stateroot", "stateroot"}

VARIABLES
    entries,    \* table -> the records stored in it
    latest,     \* table -> index of its latest record, or Null
    ctcIndex,   \* "ctc:enqueue": [queueIndex, index] pairs
    highestL2,  \* "l2:highest", or Null
    synced,     \* "synced:highest", 0 while absent
    starting    \* "l1:starting", 0 while absent

dbVars == <<entries, latest, ctcIndex, highestL2, synced, starting>>

EnqueueEntry == [index: Nat, blockNumber: Nat]
SequencedEntry ==
    [index: Nat, batchIndex: Nat, queueOrigin: {"sequencer"},
     queueIndex: {Null}]
QueuedEntry ==
    [index: Nat, batchIndex: Nat, queueOrigin: {"l1"}, queueIndex: Nat]
TransactionEntry == SequencedEntry \cup QueuedEntry
BatchEntry == [index: Nat, blockNumber: Nat, prevTotalElements: Nat,
               size: Nat]
StateRootEntry == [index: Nat, batchIndex: Nat]
Entry == EnqueueEntry \cup TransactionEntry \cup BatchEntry
             \cup StateRootEntry

DBTypeOK ==
    /\ entries \in [Tables -> SUBSET Entry]
    /\ latest \in [Tables -> Nat \cup {Null}]
    /\ ctcIndex \in SUBSET [queueIndex: Nat, index: Nat]
    /\ highestL2 \in Nat \cup {Null}
    /\ synced \in Int
    /\ starting \in Nat

DBInit ==
    /\ entries = [t \in Tables |-> {}]
    /\ latest = [t \in Tables |-> Null]
    /\ ctcIndex = {}
    /\ highestL2 = Null
    /\ synced = 0
    /\ starting = 0

\* The record of a table at an index, as a set of at most one element.
At(table, index) == {e \in entries[table] : e.index = index}

\* The batch write of _putEntries, and the pointer put after it.  Mutant:
\* the pointer to the next index to come.
PutEntries(table, records) ==
    entries' = [entries EXCEPT ![table] = Put(@, records)]
PutNextEntry(table, index, got) ==
    latest' = [latest EXCEPT ![table] = Latest(@, index + 1, got)]
PutLatestEntry(table, index, got) ==
    latest' = [latest EXCEPT ![table] = Latest(@, index, got)]

\* Mutant: key and value exchanged.
PutSwapped(queueIndex, index) ==
    ctcIndex' = {c \in ctcIndex : c.queueIndex # index}
                    \cup {[queueIndex |-> index, index |-> queueIndex]}
PutTransactionIndexByQueueIndex(queueIndex, index) ==
    ctcIndex' = {c \in ctcIndex : c.queueIndex # queueIndex}
                    \cup {[queueIndex |-> queueIndex, index |-> index]}

\* putHighestL2BlockNumber with the stored number as it was read.
PutHighestL2BlockNumber(block, got) ==
    highestL2' = IF block <= ToNumber(got) THEN highestL2 ELSE block

\* Mutant: a block too far.
SetTooHigh(block) == synced' = block + 1
SetHighestSyncedL1Block(block) == synced' = block

SetStartingL1Block(block) == starting' = block
=============================================================================
