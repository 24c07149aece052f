---------------------------- MODULE L2Ingestion ----------------------------
(***************************************************************************)
(* services/l2-ingestion: the service reads the sequencer's blocks, one    *)
(* transaction each, and keeps them as unconfirmed until they come back    *)
(* from Layer 1.  Each action is the code from one await to the next.      *)
(*                                                                         *)
(*   poll -> fetch -> parse -> tx -> txLatest -> root -> rootLatest        *)
(*        -> parse ... -> done -> sleep | poll                             *)
(*                                                                         *)
(* The sequencer is external: it adds blocks and may be set back to an     *)
(* earlier one.                                                            *)
(***************************************************************************)
EXTENDS UnconfirmedDB, FiniteSets

CONSTANTS
    TransactionsPerPoll,  \* options.transactionsPerPollingInterval
    StopAt,               \* options.stopL2SyncAtBlock
    LegacyModes,          \* values of options.legacySequencerCompatibility
    L2CatchAllErrors,     \* options.dangerouslyCatchAllErrors
    L2FaultKinds,         \* the faults that may happen in this instance
    MaxL2Faults,          \* bound: how many of them
    MaxL2Block            \* bound: height of the last block

AllL2FaultKinds == {"crash", "rpc", "read", "lag", "rewind"}

ASSUME L2IngestionAssumption ==
    /\ TransactionsPerPoll \in Nat \ {0}
    /\ StopAt \in Nat
    /\ LegacyModes \subseteq BOOLEAN
    /\ L2CatchAllErrors \in BOOLEAN
    /\ L2FaultKinds \subseteq AllL2FaultKinds
    /\ MaxL2Faults \in Nat
    /\ MaxL2Block \in Nat

VARIABLES
    l2Head,        \* height of the sequencer's chain
    legacy,        \* options.legacySequencerCompatibility
    l2pc,          \* where the service is
    l2From,        \* highestSyncedL2BlockNumber of this iteration
    l2To,          \* targetL2Block of this iteration
    l2Current,     \* currentL2Block of this iteration
    fetched,       \* numbers of the blocks read and not yet stored
    l2Faults       \* how many faults have happened

l2PollVars == <<l2From, l2To, l2Current>>
l2Vars == <<l2Head, unconfirmedVars, legacy, l2pc, l2PollVars,
            fetched, l2Faults>>

L2PCs == {"poll", "fetch", "parse", "tx", "txLatest", "root", "rootLatest",
          "done", "sleep", "stopped", "down"}

L2TypeOK ==
    /\ l2Head \in Nat
    /\ UnconfirmedTypeOK
    /\ legacy \in BOOLEAN
    /\ l2pc \in L2PCs
    /\ l2From \in Nat /\ l2To \in Nat /\ l2Current \in Nat
    /\ fetched \in SUBSET Nat
    /\ l2Faults \in Nat

L2InitAt(start) ==
    /\ l2Head = 0
    /\ UnconfirmedInit
    /\ legacy \in LegacyModes
    /\ l2pc = start
    /\ l2From = 0 /\ l2To = 0 /\ l2Current = 0
    /\ fetched = {}
    /\ l2Faults = 0

L2Init == L2InitAt("poll")

-----------------------------------------------------------------------------
(* The sequencer.                                                          *)

\* These faults happen now, at the awaits of one step.
L2Faulted(kinds) ==
    /\ kinds \subseteq L2FaultKinds
    /\ l2Faults + Cardinality(kinds) <= MaxL2Faults
    /\ l2Faults' = l2Faults + Cardinality(kinds)

Produce ==
    /\ l2Head < MaxL2Block
    /\ l2Head' = l2Head + 1
    /\ UNCHANGED <<unconfirmedVars, legacy, l2pc, l2PollVars, fetched,
                   l2Faults>>

\* Block 1 stays.
Rewind ==
    /\ L2Faulted({"rewind"})
    /\ l2Head' \in 1 .. l2Head - 1
    /\ UNCHANGED <<unconfirmedVars, legacy, l2pc, l2PollVars, fetched>>

-----------------------------------------------------------------------------
(* The loop of _start.                                                     *)

\* SimpleDB.get: the stored value, or null when the read fails.
L2Get(value, kinds) == IF "read" \in kinds THEN Null ELSE value

\* getBlockNumber: the head, or an earlier one when the node is behind.
HeadAnswers(kinds) ==
    IF "lag" \in kinds THEN 0 .. l2Head - 1 ELSE {l2Head}

\* getHighestSyncedUnconfirmedBlock() || 1.  Mutants: without the default,
\* and as if block 1 were synced to begin with.
FromGenesis(got) == ToNumber(got)
SecondBlock(got) == IF ToNumber(got) = 0 THEN 2 ELSE got
Highest(got) == IF ToNumber(got) = 0 THEN 1 ELSE got

\* The service has reached its target block.  Mutant: a block early.
AlmostReached(highest) == highest + 1 >= StopAt
ReachedStop(highest) == highest >= StopAt

\* min(currentL2Block, stopL2SyncAtBlock).  Mutant: without the stop.
Unbounded(current) == current
UpToStop(current) == IF current <= StopAt THEN current ELSE StopAt

L2Stop ==
    /\ l2pc = "poll"
    /\ \E kinds \in SUBSET {"read"} :
          /\ L2Faulted(kinds)
          /\ ReachedStop(Highest(L2Get(unconfirmedHighest, kinds)))
    /\ l2pc' = "stopped"
    /\ UNCHANGED <<l2Head, unconfirmedVars, legacy, l2PollVars,
                   fetched>>

\* Choose the window of this iteration, or sleep at the head.  A window
\* whose start is above its end is not read but counts as synced.
L2Poll ==
    /\ l2pc = "poll"
    /\ \E kinds \in SUBSET {"read", "lag"} : \E head \in HeadAnswers(kinds) :
          LET highest == Highest(L2Get(unconfirmedHighest, kinds))
              current == UpToStop(head)
              target == IF highest + TransactionsPerPoll <= current
                        THEN highest + TransactionsPerPoll ELSE current
          IN  /\ L2Faulted(kinds)
              /\ ~ReachedStop(highest)
              /\ \/ /\ highest = target
                    /\ l2pc' = "sleep"
                    /\ UNCHANGED l2PollVars
                 \/ /\ highest # target
                    /\ l2pc' = IF highest > target THEN "done" ELSE "fetch"
                    /\ l2From' = highest
                    /\ l2To' = target
                    /\ l2Current' = current
    /\ UNCHANGED <<l2Head, unconfirmedVars, legacy, fetched>>

\* eth_getBlockRange: the window at one moment.
FetchRange ==
    /\ l2pc = "fetch" /\ ~legacy
    /\ l2To <= l2Head
    /\ fetched' = l2From .. l2To
    /\ l2pc' = "parse"
    /\ UNCHANGED <<l2Head, unconfirmedVars, legacy, l2PollVars, l2Faults>>

\* eth_getBlockByNumber for every block of the window at once: they are
\* answered in any order and sorted when the last one is there.
FetchBlock ==
    /\ l2pc = "fetch" /\ legacy
    /\ \E n \in (l2From .. l2To) \ fetched :
          n <= l2Head /\ fetched' = fetched \cup {n}
    /\ l2pc' = IF Cardinality(fetched') = l2To - l2From + 1
               THEN "parse" ELSE "fetch"
    /\ UNCHANGED <<l2Head, unconfirmedVars, legacy, l2PollVars, l2Faults>>

\* Blocks are stored in increasing order.
NextBlock(n) == n \in fetched /\ \A m \in fetched : n <= m

\* parseBlock and the first put of storeBlock.
ParseBlock ==
    /\ l2pc = "parse"
    /\ l2pc' = IF fetched = {} THEN "done" ELSE "tx"
    /\ UNCHANGED <<l2Head, unconfirmedVars, legacy, l2PollVars,
                   fetched, l2Faults>>

\* The index of a block's transaction and state root.  Mutant: the number of
\* the block itself.
BlockNumberIndex(n) == n
UnconfirmedIndex(n) == n - 1

\* _putEntries for one unconfirmed table: the record ...
PutUnconfirmed(table, n) ==
    /\ unconfirmed' = [unconfirmed EXCEPT ![table] =
                           Put(@, {[index |-> UnconfirmedIndex(n),
                                    batchIndex |-> Null]})]
    /\ UNCHANGED <<unconfirmedLatest, l2Faults>>

\* ... then the latest pointer.
PutUnconfirmedLatest(table, n) ==
    /\ \E kinds \in SUBSET {"read"} :
          /\ L2Faulted(kinds)
          /\ unconfirmedLatest' =
                 [unconfirmedLatest EXCEPT ![table] =
                      Latest(@, UnconfirmedIndex(n), L2Get(@, kinds))]
    /\ UNCHANGED unconfirmed

\* storeBlock: the transaction, then the state root.  Mutant: the state root
\* first.
RootFirst ==
    [tx |-> "unconfirmed:stateroot", txLatest |-> "unconfirmed:stateroot",
     root |-> "unconfirmed:transaction",
     rootLatest |-> "unconfirmed:transaction"]
TableOf ==
    [tx |-> "unconfirmed:transaction", txLatest |-> "unconfirmed:transaction",
     root |-> "unconfirmed:stateroot", rootLatest |-> "unconfirmed:stateroot"]

AfterPut ==
    [tx |-> "txLatest", txLatest |-> "root", root |-> "rootLatest",
     rootLatest |-> "parse"]

StoreBlock ==
    /\ l2pc \in {"tx", "txLatest", "root", "rootLatest"}
    /\ \E n \in fetched :
          /\ NextBlock(n)
          /\ \/ l2pc \in {"tx", "root"} /\ PutUnconfirmed(TableOf[l2pc], n)
             \/ /\ l2pc \in {"txLatest", "rootLatest"}
                /\ PutUnconfirmedLatest(TableOf[l2pc], n)
          /\ fetched' = IF l2pc = "rootLatest" THEN fetched \ {n} ELSE fetched
    /\ l2pc' = AfterPut[l2pc]
    /\ UNCHANGED <<l2Head, unconfirmedHighest, legacy, l2PollVars>>

\* The locals of the loop body go out of scope.
L2EndIteration ==
    /\ l2From' = 0 /\ l2To' = 0 /\ l2Current' = 0
    /\ fetched' = {}

\* The window is done; sleep unless there is a full window to catch up.
L2FinishIteration ==
    /\ l2pc = "done"
    /\ unconfirmedHighest' = l2To
    /\ l2pc' = IF l2Current - l2From < TransactionsPerPoll
               THEN "sleep" ELSE "poll"
    /\ L2EndIteration
    /\ UNCHANGED <<l2Head, unconfirmed, unconfirmedLatest, legacy, l2Faults>>

L2Wake ==
    /\ l2pc = "sleep"
    /\ l2pc' = "poll"
    /\ UNCHANGED <<l2Head, unconfirmedVars, legacy, l2PollVars, fetched,
                   l2Faults>>

-----------------------------------------------------------------------------
\* The catch block sleeps or rethrows, and the service ends.
L2Throw ==
    /\ L2EndIteration
    /\ l2pc' = IF L2CatchAllErrors THEN "sleep" ELSE "down"
    /\ UNCHANGED <<l2Head, unconfirmedVars, legacy>>

\* Something the code awaits rejects.
L2Fail ==
    /\ l2pc \notin {"sleep", "stopped", "down"}
    /\ L2Faulted({"rpc"})
    /\ L2Throw

\* The sequencer was set back: a block of the window is not there any more,
\* and null is not a block.
BlockMissing ==
    /\ l2pc = "fetch"
    /\ l2To > l2Head
    /\ L2Throw
    /\ UNCHANGED l2Faults

\* The process dies and is started again.
L2Crash ==
    /\ l2pc # "down"
    /\ L2Faulted({"crash"})
    /\ L2EndIteration
    /\ l2pc' = "down"
    /\ UNCHANGED <<l2Head, unconfirmedVars, legacy>>

L2Restart ==
    /\ l2pc = "down"
    /\ l2pc' = "poll"
    /\ UNCHANGED <<l2Head, unconfirmedVars, legacy, l2PollVars, fetched,
                   l2Faults>>

\* A service that has reached its stop block has returned.
L2Stopped == l2pc = "stopped" /\ UNCHANGED l2Vars

L2Service ==
    \/ L2Stop \/ L2Poll \/ FetchRange \/ FetchBlock \/ BlockMissing
    \/ ParseBlock \/ StoreBlock \/ L2FinishIteration \/ L2Wake

L2Next ==
    \/ L2Service \/ L2Fail \/ L2Crash \/ L2Restart
    \/ Produce \/ Rewind \/ L2Stopped

L2Spec == L2Init /\ [][L2Next]_l2Vars

\* The event loop runs while the process lives, and a supervisor restarts
\* it.  The sequencer promises nothing.
L2FairSpec == L2Spec /\ WF_l2Vars(L2Service) /\ WF_l2Vars(L2Restart)

-----------------------------------------------------------------------------
(* What the unconfirmed records promise to the server.                     *)

\* Both records of block n are stored.
Stored(n) ==
    \A t \in UnconfirmedTables :
        \E e \in unconfirmed[t] : e.index = n - 1

\* Safety: up to "unconfirmed:highest" no block is missing from either
\* table, although the pointer follows the head down when the sequencer is
\* set back, a node lags or a read fails, and jumps over reversed windows.
SyncedBlocksStored == \A n \in 1 .. unconfirmedHighest : Stored(n)

\* Safety: a state root is never stored before the transaction whose result
\* it is, at any await and across crashes (the two puts of storeBlock).
RootsHaveTransactions ==
    unconfirmed["unconfirmed:stateroot"]
        \subseteq unconfirmed["unconfirmed:transaction"]

\* Safety: the service goes as far as the stop block and no further ("Make
\* sure we can't exceed the stop block"), and when it has returned it has
\* all blocks up to there.
StopsAtStopBlock ==
    /\ \A t \in UnconfirmedTables : \A e \in unconfirmed[t] : e.index < StopAt
    /\ l2pc = "stopped" /\ StopAt > 1 => \A n \in 1 .. StopAt : Stored(n)

\* Action property, the comment in _start: when the service finds itself at
\* the head, there is nothing left to sync.
AtTheHeadIsSynced ==
    [][l2pc = "poll" /\ l2pc' = "sleep" =>
          \A n \in 1 .. UpToStop(l2Head) : Stored(n)]_l2Vars

\* Liveness: faults being finite in number, every block up to the stop block
\* is stored in the end, provided that there is more than one, and the
\* latest pointers reach it.
EventuallyStored ==
    <>[](l2Head > 1 /\ StopAt > 1 =>
            /\ \A n \in 1 .. UpToStop(l2Head) : Stored(n)
            /\ \A t \in UnconfirmedTables :
                  /\ unconfirmedLatest[t] # Null
                  /\ UpToStop(l2Head) - 1 <= unconfirmedLatest[t])
=============================================================================
