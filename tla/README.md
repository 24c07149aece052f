# Verification of the data transport layer

TLA+ specifications of the Optimistic Ethereum data transport layer
(`src/src`), the TLC configurations that check them and TLAPS proofs about
them.

* `tlc -workers 2 -config l1_crash.cfg MCL1` checks one configuration; the
  `module` and `cfg` of every run are in `PROJECT.json`.
* `tlapm L1IngestionProofs.tla` checks a proof module.
* `PROJECT.json` lists components, runs, the source lines of every definition
  ("map"), a mutation per property that the property must catch, the findings,
  the hazards and the theorems.

## 1. Inventory

The service is a long-running process. An *L1 ingestion* loop and an *L2
ingestion* loop write a LevelDB database, an HTTP *server* reads it. They share
nothing but the database; there are no locks and no transactions beyond one
LevelDB batch. All concurrency is that of one JavaScript event loop: a piece of
code runs undisturbed from one `await` to the next, and anything may happen at
an `await`.

| Component | Source | State | Operations | Modelled |
| --- | --- | --- | --- | --- |
| Layer 1 chain, RPC endpoint | external, used by `l1-ingestion` | event logs, head, finality | emit, mine, reorganise; `getLogs`, `getBlockNumber`, `getTotalElements` | `L1Chain` |
| Transport database | `db/transport-db.ts`, `db/simple-db.ts` | tables by index, a latest pointer per table, single values | put (batch), get, latest, range | `SimpleDB`, `TransportDB`, `UnconfirmedDB`; the reads in `TransportServer` |
| L1 ingestion service | `services/l1-ingestion/service.ts` | start block; the window, ranges and events of an iteration | `_init`, `_findStartingL1BlockNumber`, `_start`, `_syncEvents`, `_getContractAddressAtBlock`; `utils/contracts.ts` | `L1Ingestion` |
| L1 event handlers | `services/l1-ingestion/handlers/*` | none | `getExtraData`, `parseEvent`, `storeEvent` for three events | `L1Ingestion`; the decoding of the calldata in `SequencerBatch` |
| L2 ingestion service | `services/l2-ingestion/*` | the window and the blocks of an iteration | `_start`, `_syncSequencerBlocks`, `parseBlock`, `storeBlock` | `L2Ingestion` |
| Transport server | `services/server/service.ts` | none (reads the database, and L1 for contexts) | one handler per route, each a sequence of reads | `TransportServer` |
| Main service and process | `services/main/service.ts`, `services/run.ts` | which services run | init, start, stop, exit on error | `DataTransport` |
| HTTP client | `client/client.ts` | none | one GET per method | no: pure I/O |
| Utilities and types | `utils/*`, `types/*` | none | validation, hex helpers, declarations | no: no state |

What is hard in each of them, and what makes it correct (`PROJECT.json`
"hazards" gives every item its line):

* **L1 ingestion.** It reads a moving chain through nodes that may lag, in
  windows that share their edge blocks, split again where a contract's address
  changes; stores each event with several puts; and may die, or fail and retry,
  between any two of them. Correct: nothing that can still be reorganised is
  stored; nothing below the synced block is missing; replays replace nothing
  and lower no pointer; references between tables resolve at every moment;
  every confirmed event is indexed in the end.
* **Database.** A record and its latest pointer are two puts, and a read that
  fails answers `null` like a missing key. Correct: pointers never go back and
  reach every synced record.
* **L2 ingestion.** The same loop shape over sequencer blocks; the head may go
  back. Correct: no block up to the synced one is missing, a state root is not
  stored before its transaction, the stop block is kept, all blocks arrive.
* **Server.** Every answer is assembled from several reads between which both
  loops write. Correct: an answer that joins records joins records that belong
  together, and does not regress from what was answered before.
* **Main.** Services start in an order and stop in one; the database is closed
  while loops may be between two puts.

## 2. Modules

| Module | Models | Extends |
| --- | --- | --- |
| `L1Chain` | Layer 1: logs, blocks, reorganisations, lagging nodes (all external) | |
| `SimpleDB` | put, get and latest pointer of one table | |
| `TransportDB` | the tables and values L1 ingestion writes | `SimpleDB` |
| `L1Ingestion` | the L1 loop and its three handlers | `L1Chain`, `TransportDB` |
| `L1IngestionProperties` | its properties, and the invariants the proofs need | `L1Ingestion` |
| `IndexedChain` | what L1 ingestion promises, as an abstract specification | |
| `SequencerBatch` | how a batch is decoded from its calldata | |
| `UnconfirmedDB` | the tables L2 ingestion writes | `SimpleDB` |
| `L2Ingestion` | the L2 loop, its handler and the sequencer, with properties | `UnconfirmedDB` |
| `TransportServer` | the routes, read by read, with properties | `L1Ingestion`, `UnconfirmedDB` |
| `DataTransport` | the process: both loops, the server and the lifecycle | `L1IngestionProperties`, `L2Ingestion`, `TransportServer` |
| `MCL1`, `MCL2`, `MCBatch`, `MCTransport` | values of the constants for TLC | `L1IngestionProperties`, `L2Ingestion`, `SequencerBatch`, `DataTransport` |
| `L1IngestionProofs` | type correctness, and what `Poll`, `Syncs` and the records of a log are | `L1IngestionProperties` |
| `L1FinalityProofs` | finality and immutability of what is stored, the queue-to-transaction index | `L1IngestionProofs` |
| `L1WindowProofs` | the invariants of windows, order and numbering; completeness below the synced block, the latest pointers | `L1FinalityProofs` |
| `L1ContentProofs` | references between tables, tables without holes; L1 ingestion implements `IndexedChain` | `L1WindowProofs` |
| `SequencerBatchProofs` | what the handler makes of calldata: the layout of a batch, the decoder's invariant | `SequencerBatch` |
| `L2Proofs` | types, completeness, order and stop block of L2 ingestion | `L2Ingestion` |
| `TransportProofs` | completeness and refinement in the whole process | `DataTransport`, `L1ContentProofs`, `L2Proofs` |
| `ServerProofs` | the invariants of a request; every safety property of the answers, in the whole process | `TransportProofs` |

### L1 ingestion against the code

`pc` is where the service stands between two awaits:

    init -> start (-> search) -> total
    -> poll -> resolve -> ranges -> query -> event -> store
    -> latest (-> index) -> event ... query ... resolve ... -> done
    -> sleep | poll

| Action | Code |
| --- | --- |
| `LoadContracts` | `loadOptimismContracts`: throws when a node does not know a contract yet |
| `FindStartingL1Block`, `SearchStartingL1Block` | the stored starting block, or the search for the first `AddressSet` in ranges of `SearchRange` blocks (1000000 in the code) |
| `StoreTotalElements` | the end of `_init` |
| `Poll` | the head of the loop: synced block, `getBlockNumber`, target, "already at the head" |
| `QueryAddressSets`, `PushAddressRange`, `PushLastRange` | `_syncEvents` up to `eventRanges`, with `_getContractAddressAtBlock` |
| `QueryEvents`, `ParseEvent`, `EndRange`, `EndSyncEvents` | the loops over ranges and events, the three calls of `_syncEvents` |
| `StoreEntries`, `StoreLatestEntry`, `StoreCtcIndex`, `EndStoreBatch` | `storeEvent`: each put is a step |
| `FinishIteration`, `Wake` | `setHighestSyncedL1Block`, `sleep` |
| `Fail`, `Crash`, `Restart` | a rejected promise and the catch block; the end of the process, which is no code of the repository; a supervisor |
| `ChainNext` | Layer 1 acts at any moment |

Data is kept as far as the properties tell it apart. A log is its kind, block,
position, contract address and indices; a transaction batch carries its *shape*,
the sequence of the queue origins of its elements, from which the handler's
arithmetic (`prevTotalElements`, `_startingQueueIndex`, `enqueuedCount`)
computes the indices that are stored. Addresses, hashes, calldata, timestamps
and gas are left out. A table is a set of records with one record per index.
A failing `SimpleDB.get` yields `Null`, and `Null` compares as 0, as in
JavaScript; so the number 0 is not stored on an empty database, and a negative
synced block is "truthy".

A few definitions are labelled "Mutant" in a comment. They are wrong versions of
the definition beside them, used only to see that a property fails with them.

### L2 ingestion against the code

    poll -> fetch -> parse -> tx -> txLatest -> root -> rootLatest
         -> parse ... -> done -> sleep | poll          (poll -> stopped)

`L2Stop` and `L2Poll` are the head of the loop, `FetchRange` reads with
`eth_getBlockRange` and `FetchBlock` with one `eth_getBlockByNumber` per block
(legacy mode, chosen from `LegacyModes`), `StoreBlock` is one of the four puts of
`storeBlock`. A record is its index. The sequencer adds blocks (`Produce`) and
may be set back (`Rewind`); a window whose block has disappeared throws
(`BlockMissing`), because `null` is not a block.

### The decoding of a batch

`SequencerBatch` is `parseEvent` as a loop with the code's own pointers: the
header with the number of contexts, the contexts of 16 bytes each, and behind all
of them the transactions with their 3-byte lengths. Bytes are bytes, because the
properties are about them: `Buffer.slice` gives what there is, and
`BigNumber.from` throws on an empty buffer but takes a short one for a smaller
number. `L1Ingestion` uses the result: the `shape` of a log is the sequence of
origins that this module finds, its `TransactionIndex` and `QueueIndex` are the
indices that `DecodesTheBatch` shows the loop to compute. The encoder is
external (the batch submitter and the contract). Its numbers have the width of
their field and lose what does not fit, which no run reaches and the proofs
exclude by `FieldsFit`.

### The server against the code

A route is named after the table it answers from; `latest` is a request whose
`wanted` index is `Null`. `spc` is what the handler reads next:

    idle -> pointer -> entry (-> queue) (-> unconfirmedPointer ->
    unconfirmedEntry) (-> batch | ctcIndex | range -> element ...) -> answered
    idle -> highest -> pointer -> entry -> answered           (/eth/syncing)
    idle -> tip -> block -> answered | error                  (/eth/context)

| Action | Code |
| --- | --- |
| `Request`, `Respond` | `_registerRoute`: a handler starts, and its answer or error is sent |
| `ReadPointer`, `ReadEntry` | `getLatest*` and `get*ByIndex` |
| `ReadQueueElement` | `getFullTransactionByIndex` for an `l1` transaction |
| `ReadUnconfirmedPointer`, `ReadUnconfirmedEntry` | the unconfirmed record, compared with the confirmed one or preferred to it |
| `ReadBatch`, `ReadCtcIndex` | what is added to a record |
| `ReadRange`, `ReadElement` | the elements of a batch, one queue element at a time |
| `ReadHighest`, `ReadTip`, `ReadBlock` | `/eth/syncing`, `/eth/context/*` |

Handlers only read and do not touch each other, so one request at a time stands
for any number of them. `asOf` (what could be answered when the request came)
and `missed` (a read of this request failed) are history variables: no action's
guard looks at them. The queue element's number stands for the fields that a
full transaction takes from it, so that a wrong element would show.

### The process

`DataTransport` puts both loops and the server over one database.
`phase` is where the process stands:

    init -> up -> stopping -> stopped        down -> init, after any failure

`InitStep` runs the services' `_init` in their order and `StartServices` starts
everything at once. `Stop` tells the services to stop and closes the database in
one step: only microtasks lie between the two in `_stop`, so no I/O of a loop
completes there. From then on every put rejects (`L1PutRejected`,
`L2PutRejected`; the catch block only logs while the service is not running) and
every read answers null, until the loops come round and return. An error that a
loop rethrows rejects `start()`, and `run.ts` throws it again out of its async
function: what follows depends on what the runtime does with an unhandled
rejection, so `UnhandledRejection` may end the process or not, and the server may
go on over a database that no longer advances. A stopped process is final; an operator who
starts it again is the restart after a crash. `BaseService` is a library and
modelled by its init, start and stop.

### Assumptions about the environment

* `Confirmations >= MaxReorg + MaxLag`: the operator waits for more
  confirmations than a reorganisation or a lagging node can take back.
  `OneTooFew`, one confirmation less, breaks `SyncedMeansIndexed`.
* The proofs, and the runs that pass, start on a chain that is `Confirmations`
  deep (`MatureL1`). `young_chain` shows what happens on a younger one.
* A contract changes its address at most once per block, and a batch is not
  empty: both are what the contracts and their owner do.
* The contracts number queue elements, batches and elements consecutively and
  dequeue only what was enqueued, as `OVM_CanonicalTransactionChain` and
  `OVM_StateCommitmentChain` do.
* A `getLogs` of a reversed range is empty. Some nodes answer with an error,
  which is the `Fail` step instead.

## 3. Runs

Bounds are constants of the instance and named in the modules (`MaxBlock`,
`MaxLogs`, `MaxFaults`, `MaxL2Block`, `MaxL2Faults`, `Indices`, `MaxContexts`,
`MaxSequenced`, `MaxQueued`; `Transactions`, `Timestamps` and `BlockNumbers` of a
batch are sets).

| Run | What may happen | Shows |
| --- | --- | --- |
| `l1_crash` | one crash or failure at any await, errors caught; mixed batches with two elements; 4 blocks, 7 logs | type invariant; tables complete below the synced block, without holes, consistent with one another; pointers right |
| `l1_upgrade` | the canonical transaction chain moves, also inside a window, at its edge or between events of one block; one crash | no event is missed or stored under another address' range |
| `l1_reorg` | two faults out of a reorganisation of one block, crash, failing call and failing read; a node one block behind; contracts deployed where a lagging node does not see them yet; 7 blocks; `QueueBatchAppended` logs as noise | only final logs are stored, nothing is replaced, nothing is skipped; every step is one of `IndexedChain`; every confirmed event is indexed in the end |
| `sequencer_batch` | every batch of one or two contexts with up to two sequenced and two queued elements each, complete and cut at every byte | the elements of the batch with their indices, data and context; a cut is noticed or shortens the last transaction only |
| `l2_sync` | two faults out of crash, failing call, failing read, lagging node, sequencer set back; both fetch modes; stop block 4 of 5 | type invariant, completeness, order of the puts, stop block, liveness with the latest pointers |
| `server` | the whole process with L1 sync, all routes, by index 1 and latest; one fault out of reorganisation, crash, failing call and failing read of the server; a batch of a sequencer and a queue element, 3 blocks, 6 logs | joined answers belong together; a batch's list is all or nothing; an answer is not older than what was there when asked; syncing and context |
| `data_transport` | both loops and the server with unconfirmed transactions, by index 1 and latest; a batch of one or two transactions and two L2 blocks, in any order; a failing call of the L2 loop, stop at any moment | what is marked as synced is stored although puts are cut off; the newer of the confirmed and the unconfirmed transaction is shown, whichever that is; the process ends |
| `latest_null`, `l2_first`, `total_one`, `queue_batch`, `young_chain` | no faults, or one failing call in `latest_null` | the findings of section 5 |

The bounds are enough for the cases that matter: windows (`LogsPerPoll` 1 to 3)
are shorter than the chain, so there are several and they share edges, and in
`l1_reorg` the search for the starting block takes two ranges; 7 logs
are the two deployments and five events, enough for an enqueue, two batches, a
state batch and one more, or for an address change between events; one fault at
any of about fifteen places with a full replay afterwards, two where a second
failure during the replay of the first could matter. One request at a time and
one batch of two elements with its queue element are what the joins of the server
are made of. In `data_transport`, a batch of one or of two transactions and two L2
blocks let each of the two sources get ahead of the other, so that
`/transaction/latest` compares a confirmed transaction with an older, an equally
new and a newer unconfirmed one; a server that always prefers the unconfirmed one
fails `FreshAnswer` there. In `server`, `MaxLogs = 6` leaves room for a second
enqueue or a state batch. A reorganisation and a lag of one block with two
confirmations is the smallest instance in which they add up. The mutations confirm
it: each property fails in its own run once the code is changed in the way named.

No symmetry is used. Deadlock is checked in every run but `sequencer_batch`,
whose handler returns: the loops never end, a service that has returned at its
stop block is the explicit step `L2Stopped`, a stopped process `Stopped`.

### Fairness

`FairSpec` asks weak fairness of `Service`, the steps of the loop, and of
`Restart`. The first is what the event loop gives a process that lives: every
promise is settled in the end (a rejected one is a `Fail`, and faults are finite
in number), `sleep` is a timer. The second is an assumption about the operation
of the service: `run.ts` exits with an error and whatever runs it starts it
again. Nothing is assumed of Layer 1, which may stop at any moment;
`EventuallyIndexed` speaks of the blocks that are confirmed as the slowest node
sees them, because the same lagging node may answer for ever. `L2FairSpec` is the
same for L2 ingestion. `DataFairSpec` asks less: that
some step of the process is taken as long as there is one, be it of a loop, of a
request that was taken, of the start or of the end. No part is favoured, nobody has
to ask or to stop anything, and requests may keep the server busy for ever; once the
service is told to stop each part has only finitely much left to do, and that is
why the stop completes (`StopCompletes`).

### The abstract specification

`IndexedChain` says in four actions what L1 ingestion does to its tables for a
reader: more of the chain is confirmed (`Confirm`); the records of a confirmed log
appear in a table, all at once and replacing nothing (`Store`); a latest
pointer moves to a record that is there (`Point`); and other logs count as done,
each of them complete (`Commit`). Its `confirmed` is the logs up to `final`, its
`done` the promised logs covered by the synced block. `ImplementsIndexedChain`,
checked in `l1_reorg`, is that the whole service, with windows, address changes,
crashes, replays, reorganisations and failing reads, only takes such steps. It
implies `EntriesImmutable`, and for the steps that mark blocks as synced what
`SyncedMeansIndexed` says of the states. `Refinement` proves it for every
instance, and `ProcessRefinement` for the whole process.

### The state properties that need a word

* `SyncedMeansIndexed` speaks of *covered* logs: those in blocks below the synced
  one, and those in the synced block itself unless their contract moved earlier
  in that block. `_getContractAddressAtBlock` looks strictly below the block, so
  the events after the move are found by the next window, which starts with
  that block again.
* `StateRootsHaveTransactions` is checked without upgrades. For a window that
  ends in the very block in which the transaction chain moves, the batch appended
  after the move is read with the next window while a state batch for it in the
  same block is read with this one, so that for a moment a root is stored
  before its transaction. The order of the three calls is what protects it
  otherwise.
* `EventuallyIndexed` and the pointers: after a failing read the synced block may
  go back to the starting block; the windows are then read again.
* `FreshAnswer`, `DoneMeansAllStored` and part of `BatchBelongs` exclude requests
  one of whose own reads failed (`missed`): the code cannot tell a failing read
  from a missing record, so such an answer may lack anything. What it may not do
  even then is join parts of different records (`ElementBelongs`, `BatchBelongs`).
* `FreshAnswer` is about indices. That the content of an unconfirmed record is
  still what the sequencer or the chain has is promised nowhere in the code, and no
  property is about it.
* `DoneMeansAllStored` speaks of the total read when the service started; the
  total is not read again, so a server can be "done" while the chain has more.
* `CutIsNoticed` leaves out calldata of 13 or 14 bytes, of which the number of
  contexts is read without its last bytes (as 0, when there are fewer than
  256): the length check asks for 12 bytes where 15 are used.
  No call that the contract accepts is that short.
* `LatestReachesSynced` and `LatestNeverGoesBack` are checked without failing
  reads: a read of the pointer that fails lets it go back until the window is
  replayed (`simple-db.ts:12`).
* `LatestResolves` holds with failing reads, too: the pointer may go back, but only
  to the record that has just been put.

## 4. Proofs

All theorems hold for every value of the constants that satisfies the
assumptions named in the modules (`L1ChainAssumption`, `NullAssumption`,
`L1IngestionAssumption`, `L2IngestionAssumption`, `TransportServerAssumption`,
`DataTransportAssumption`, `SequencerBatchAssumption`): any number of logs, blocks, addresses, routes,
indices and faults, any batch shapes, any windows, any depth of reorganisation up
to the confirmations. The caps (`MaxLogs`, `MaxBlock`, `MaxFaults`, ...) are
arbitrary numbers there. What a theorem needs beyond these is a named
hypothesis:

| Hypothesis | Says | Why | Without it |
| --- | --- | --- | --- |
| `MatureL1` | Layer 1 is `Confirmations` deep when the service first starts | true of every chain in use | the target is negative: `young_chain` |
| `DeploymentKnown` | every node knows the deployment at the first start; or it is not in the last `Confirmations` blocks of a query of the search for the starting block; or no contract ever moves | contracts are deployed long before a service is started on them, and a query covers 1000000 blocks | section 5, on the starting block |
| `NoFailingReads` | no read of the loops fails | only for the pointers; every other theorem allows failing reads | `latest_null`'s cause, `simple-db.ts:12`: a pointer that reads as `null` goes back |
| `PointersNeverBack` | `NoFailingReads` for both loops; the server's own reads may fail | the same, for `FreshAnswer` | the same |
| `NoUpgrades` | contracts do not move after their deployment | only for `StateRootsHaveTransactions` | the window's edge described in section 3 |
| `OnlySequencerBatches` | nobody appends by `appendQueueBatch` | only for `NoHoles`, `StateRootsHaveTransactions` and `DoneMeansAllStored` | the finding `queue_batch` |
| `FieldsFit` | the numbers of a batch fit into the 3 or 5 bytes of their fields | a number that does not fit cannot be written | the encoder loses its first bytes, and another batch is decoded |
| `NullIsNoList` | `null` is no set of records | only for `AllOrNothing` | a value of the model could be both |

Each is satisfied by the instances of the passing runs that check the same
property.

### L1 ingestion

The action theorems are first proved of `L1Step`: a step of the service, of the
chain, a restart, an interruption (crash, failure, exit) or a step elsewhere in
the process. `Next` is one, and so is every step of `DataTransport`
(`TransportProofs`), so that nothing has to be proved twice.

* **`TypeCorrect`: `Spec => []TypeOK`.** `TypeOK` is not inductive: the table that
  is being written and the number of the `_syncEvents` call are known only
  where they are used. `TypeInv` adds this (`ControlOK`). What `Syncs[sync]`
  and `NextTable` give, and that the records of a log have the type of their
  table, are lemmas (`SyncsType`, `EntriesOfType`, `TransactionEntriesType`).
* **`StoredFinal`: `Spec => []StoredIsFinal`.** The window is
  computed in one step and its events are stored much later, while the chain
  moves on. The invariant that carries finality over is `WindowFinal`: the
  target, the address changes, the ranges and the events of the iteration are
  all final. It starts with `ConfirmedIsFinal`, the arithmetic that what any
  node answers less the confirmations is final, and survives the chain by
  `FinalKept`, that no final log is ever removed.
* **`NothingReplaced`: `Spec => EntriesImmutable`.** A put
  replaces the record with the same index. `ChainUnique` says that no two logs of
  one chain claim the same index, which for elements of batches is that their
  intervals are disjoint; `EntriesDetermined` turns it into "same table and
  index, same record". As what is stored and what is being stored both come
  from the present chain (`StoredIsFinal`, `WindowFinal`), a replaced record
  is replaced by itself.
* **`CtcIndexCorrect`: `Spec => []CtcIndexPointsBack`.** The
  index is put entry by entry after the transactions. `StoringOrder` says that
  the entries still to be put belong to stored transactions, and
  `EntriesKept` that these stay.
* **`NothingMissed`: `Spec => []SyncedMeansIndexed`.** That a block is complete is
  decided at `FinishIteration`, about twenty steps and any number of
  chain steps after the window was chosen. `WindowInv` says at every await where
  each event of the window is: recorded, or *waiting* in a call of `_syncEvents`
  that has not run, ahead of the range being made (`Ahead`), in a range still to
  be read, or among the events being stored (`NothingLost`). Three things have
  to be right for a step to keep it: the node that is asked has the whole
  window (`WindowSeen`), a range's address is the contract's for all blocks
  in it (`RangesOK`, from `AddressesMove` and `EmittedByRegistered`), and of the
  event that is being stored the earlier tables are written (`StoredSoFar`).
  `StartKnown` says that the search for the starting block ends at the
  deployment, so that nothing lies before the first window; this is what needs
  `DeploymentKnown`. A query that a lagging node answers with nothing although
  the deployment is in it is the last one (`SearchFinds`): the search ends at the
  head it has read at first, which is less than `Confirmations` blocks past the
  deployment.
* **`LatestReaches`, `LatestMonotone`** (`LatestReachesSynced`,
  `LatestNeverGoesBack`): the pointer part of `Recorded`, and the comparison in
  `_putLatestEntryIndex`, which keeps the larger index when the read is right.
* **`TransactionsResolved`, `StateRootsResolved`, `RootBatchesResolved`,
  `PointersResolve`.** References hold in the middle of a window, too. The first
  two need the order of the calls: when the batches are read, all queue
  elements of the window are recorded, because their call has run
  (`NothingLost`), and `ChainDense` says that the chain queues an element before
  a batch takes it and has a transaction before its state root. The batch of a
  record is there because batches are put before their elements; `RecordsWhole`
  says that a stored record has come with all records that its log has in the
  table.
* **`TablesHaveNoHoles`: `Spec => []NoHoles`.** Not even within a window: the
  events of a call are recorded in the order of the chain (`InOrder`: as long as
  one is missing, no later one is being stored, nor in an earlier range), so by
  `ChainDense` each put continues the numbering (`Numbered`).
* **`Refinement`: `Spec => ImplementsIndexedChain`.** One lemma for each kind of
  step: chain steps confirm, `StoreEntries` stores whole logs
  (`EntriesImmutable`), `StoreLatestEntry` points to a record that is there,
  `FinishIteration` commits complete logs (`NothingMissed`), and everything
  else changes nothing of the index.

### The decoding of a batch

`BatchesDecoded` and `CutsNoticed` prove both properties of `parseEvent` for any
number of contexts, sequenced transactions and queue elements, and for any bytes
in the transactions. The library's induction theorems cannot be used, but
induction itself can, as a statement about sets: a set of numbers that is not
empty has a least element (`Least`, from `WFMin`), so a set with 0 and the
successors of its elements up to `n` has all of `0 .. n` (`Induction`). From it
follows that a recursion over `0 .. n` has a solution (`Recursion`), which is
what a recursive function needs before anything can be said of it.

* *Sequences.* `FlattenLayout`: element `m` of part `k` of a flattened sequence
  is at `Offsets(parts)[k - 1] + m`, and the last offset is its length.
* *Numbers.* `RoundTrip`: what `Encode` writes on `width` bytes, `ToNumber` reads,
  if it fits (`ThreeBytes`, `FiveBytes`). Bytes are peeled off one by one
  (`EncodeStep`, `DivideByte`, `ToNumberStep`).
* *Layout.* `ContextAt` and `TransactionAt` say which bytes of the calldata are
  which field; `StartsMeet` that the transactions of one context end where those
  of the next begin, which is why one pointer can run through all of them;
  `ElementAt` where the elements of a context are among those of the batch.
* *The loop.* `DecoderInv` says at each iteration what has been found. For
  complete calldata it would be enough that `nextTxPointer` is at the next
  transaction. What makes it inductive for cut calldata is what may be wrong
  after a cut, and what cannot happen any more then: the pointer is right *or
  behind the end of the calldata* (`PointerOK`), so that the next length field is
  empty and throws; a block number may be cut, but only of the last context
  of calldata that end before the transactions (`ContextOK`); the data of an
  entry may be cut, but then only queue elements follow (`DataOK`). `QueueCount`
  ties `enqueuedCount`, which counts entries, to the queue elements of the batch
  that come before. TLC checked `DecoderInv` on a small instance first.

### L2 ingestion

`L2TypeCorrect`, `L2NothingMissed`, `L2RootsResolved` and `L2StopsThere` prove all
four safety properties, from `L2Inv`: the window's blocks lie under the stop
block and between the synced block and the target (`L2WindowOK`), and those
that are no longer in `fetched`, and the puts that the present one has passed,
are stored (`L2Order`). There are no hypotheses: the head may go back, every read
may fail, any call may be interrupted.

### The process and the server

* **`ProcessSyncsL1`, `ProcessSyncsL2`, `ProcessRefinement`.** The process adds to
  both loops that puts reject once the database is closed, that `stop`, an
  unhandled rejection or a crash may end them anywhere, and that all of it may
  start again. Every such step is an `L1Step` and an `L2Step`, so completeness
  and the refinement carry over with the invariants.
* **`ContextFinal`: `DataSpec => []ContextIsFinal`**, with lagging nodes,
  which are left out of the run `server` for its size. `ContextRequest` follows a
  request: the block it will ask for is at most `final - MaxLag`
  (`ContextBlockFinal`), which is where every node has it, now and later
  (`BlockIsThere`), and `final` only grows.
* **`ProcessTypeCorrect`: `DataSpec => []DataTypeOK`**, no hypotheses. `Stage`, which
  read is made for which route, is what makes it inductive.
* **`BatchMatches`, `ElementMatches`** (`BatchBelongs`, `ElementBelongs`).
  `RequestInv` says what a handler knows of what it has read so far. `Known(r, e)`
  is about the *present* database and not the one the record was read from; it
  survives the loops because records are never dropped (`KnownKept`, from
  `EntriesKept`). The record that a later read finds is then the right one,
  because the references between tables hold at every moment.
* **`ListsComplete`: `DataSpec => []AllOrNothing`.** A stored batch
  has all of its elements or none (`ListStored`, from `RecordsWhole` and
  `ChainUnique`), and while queue elements are read one by one what is joined
  and what is still to be done make up the batch (`ListWhole`).
* **`AnswersFresh`: `DataSpec => []FreshAnswer`.** `Remaining` says for each
  read what is left that can still give an answer as new as `asOf`: the
  confirmed pointer, the unconfirmed one, the record in hand. The loops only
  move both pointers forward, both lead to records
  (`LatestResolves`, `UnconfirmedResolves`), and the comparison of the two
  records keeps the newer.
* **`DoneIsDone`: `DataSpec => []DoneMeansAllStored`.** The index that is compared
  with the latest transaction is the one read when the process was started
  (`HighestKnown`), and a table without holes has everything below
  (`Numbered`, `AllBelow`).

### Only model-checked

* `EventuallyIndexed`, `EventuallyStored`, `StopCompletes`: liveness under
  fairness, which the prover does not do.
* The properties of section 5's violation runs, which do not hold.

## 5. Findings

* `l2_first`: nothing stored counts as "block 1 is synced", so block 1 is not read
  while it is the head (`l2-ingestion/service.ts:80`), and never if it is the
  stop block.
* `total_one`: the total of exactly one transaction is never stored, because
  index 0 is not greater than the `null` of an empty database
  (`transport-db.ts:187`).
* `queue_batch`: README line 10 promises transactions included by
  `appendQueueBatch`; there is no handler for `QueueBatchAppended`.
* `young_chain`: on a chain shorter than the confirmations the target is negative
  and is stored; blocks are then counted as synced that were never read
  (`l1-ingestion/service.ts:154`).
* `latest_null`: with unconfirmed transactions shown and none stored yet,
  `/transaction/latest` and `/stateroot/latest` fail as soon as a confirmed record
  exists, because the index of `null` is read (`server/service.ts:316`).

Met while modelling, without a run of their own:

* `openapi.yml` describes `/eth/context/latest` as the most recently ingested
  block; the route answers with the head of Layer 1 less the confirmations.
* `_findStartingL1BlockNumber` takes no confirmations off what a node answers. On
  a node that does not know the deployment yet but, a chunk of `SearchRange`
  blocks later, an upgrade that follows it, the block of the upgrade is stored
  as the starting block for good, and what came before it is never read
  (`SyncedMeansIndexed` fails in such an instance, with `SearchRange = 1`,
  a lag of three blocks and an upgrade right after the deployment). With chunks
  of 1000000 blocks the deployment has to lie at the end of one and the service
  to be started within minutes of it, so this is the hypothesis `DeploymentKnown`
  of the proofs rather than a run.
* `/transaction/index` prefers the unconfirmed record to the confirmed one, which
  agrees with the changelog ("Prioritize L2 synced API requests") and not with the
  comment in `l2-ingestion/service.ts` that sync from L1 takes precedence.

## 6. What is left

The modules, the runs and the proofs of every safety and action property that a
passing run checks are there. Liveness is checked only. `MatureL1` and
`OnlySequencerBatches` stay hypotheses because the code needs them (`young_chain`,
`queue_batch`); the runs of section 5 are what to turn into passing ones when the
code changes.

## 7. Not modelled

* `client/client.ts`: one HTTP GET per method, no state.
* `utils/common.ts`, `utils/constants.ts`, `utils/validation.ts`, `types/*`: option
  validation, hex helpers, constants and declarations.
* `/eth/gasprice`, which passes on one RPC answer; Express, JSON, logging,
  metrics.
* The content of transactions (targets, signatures, timestamps) and of blocks.
  After the sequencer is set back, records of blocks that are no longer its own
  stay until they are overwritten: nothing in the code compares them, and the
  model, whose L2 records are only indices, does not tell them apart.
* The checks of the address manager in `_init` that only throw, which are `Fail`;
  the third contract that `loadOptimismContracts` asks for, whose absence is that
  of any other.
* A range read whose stream is closed half way: the database is closed only after
  a stop, and the model then lets the read reject.
* Time, apart from the order of events.
