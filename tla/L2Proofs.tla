------------------------------ MODULE L2Proofs ------------------------------
(***************************************************************************)
(* Proofs about L2 ingestion, for every value of the constants: however    *)
(* often it fails, is restarted, reads a node that is behind or finds the  *)
(* sequencer set back, what counts as synced is stored.                    *)
(***************************************************************************)
EXTENDS L2Ingestion, FiniteSetTheorems, TLAPS

-----------------------------------------------------------------------------
(* What is true at every await.                                            *)

\* The record that block n leaves in either table.
Record(n) == [index |-> UnconfirmedIndex(n), batchIndex |-> Null]

Storing == {"parse", "tx", "txLatest", "root", "rootLatest"}

\* The window does not pass the stop block, what precedes it is stored, and
\* of its blocks those that have been read and are not waiting are stored.
L2WindowOK ==
    /\ l2To <= StopAt
    /\ fetched \subseteq 1 .. l2To
    /\ l2pc \notin Storing \cup {"fetch"} => fetched = {}
    /\ l2pc = "fetch" =>
          /\ 1 <= l2From /\ l2From <= l2To
          /\ fetched \subseteq l2From .. l2To
          /\ \A n \in 1 .. l2From - 1 : Stored(n)
    /\ l2pc \in Storing => \A n \in 1 .. l2To : n \in fetched \/ Stored(n)
    /\ l2pc = "done" => \A n \in 1 .. l2To : Stored(n)

\* The records of the block being stored are put one after the other.
L2Order ==
    \A n \in fetched :
        NextBlock(n) =>
            /\ l2pc \in {"txLatest", "root", "rootLatest"} =>
                  Record(n) \in unconfirmed["unconfirmed:transaction"]
            /\ l2pc = "rootLatest" =>
                  Record(n) \in unconfirmed["unconfirmed:stateroot"]

L2Inv ==
    /\ L2TypeOK
    /\ L2WindowOK
    /\ L2Order
    /\ SyncedBlocksStored
    /\ RootsHaveTransactions
    /\ StopsAtStopBlock

-----------------------------------------------------------------------------
(* The steps.                                                              *)

\* The iteration is given up: by a fault, because a block is missing or a
\* put is rejected, or with the whole process.
L2Interrupted ==
    /\ L2EndIteration
    /\ l2pc' \in {"sleep", "down"}
    /\ l2Faults' \in {l2Faults, l2Faults + 1}
    /\ UNCHANGED <<l2Head, unconfirmedVars, legacy>>

\* The loop comes round after _stop and returns.
L2Returned ==
    /\ l2pc = "poll"
    /\ l2pc' = "down"
    /\ UNCHANGED <<l2Head, unconfirmedVars, legacy, l2PollVars, fetched,
                   l2Faults>>

\* Whatever happens to L2 ingestion, also when it runs inside the process.
L2Step ==
    \/ L2Service \/ L2Restart \/ L2Interrupted \/ L2Returned
    \/ Produce \/ Rewind \/ UNCHANGED l2Vars

\* The number of faults stays a number.
LEMMA L2FaultedType ==
    ASSUME l2Faults \in Nat
    PROVE  /\ \A kinds \in SUBSET {"read", "lag"} :
                  L2Faulted(kinds) => l2Faults' \in Nat
           /\ \A kind : L2Faulted({kind}) => l2Faults' = l2Faults + 1
<1>1. IsFiniteSet({"read"} \cup {"lag"})
    BY FS_Singleton, FS_Union
<1>2. {"read", "lag"} = {"read"} \cup {"lag"}
    OBVIOUS
<1>3. \A kinds \in SUBSET {"read", "lag"} : Cardinality(kinds) \in Nat
    BY <1>1, <1>2, FS_Subset, FS_CardinalityType
<1>4. \A kind : Cardinality({kind}) = 1
    BY FS_Singleton
<1>5. ASSUME NEW kinds \in SUBSET {"read", "lag"}, L2Faulted(kinds)
      PROVE  l2Faults' \in Nat
    <2>1. Cardinality(kinds) \in Nat
        BY <1>3
    <2>2. l2Faults' = l2Faults + Cardinality(kinds)
        BY <1>5 DEF L2Faulted
    <2>3. l2Faults + Cardinality(kinds) \in Nat
        BY <2>1
    <2> QED
        BY <2>2, <2>3
<1>6. ASSUME NEW kind, L2Faulted({kind})
      PROVE  l2Faults' = l2Faults + 1
    BY <1>4, <1>6 DEF L2Faulted
<1> QED
    BY <1>5, <1>6

\* The steps of the service alone are among them.
LEMMA StepOfL2 == ASSUME L2TypeOK
                  PROVE  [L2Next]_l2Vars => L2Step
<1>1. \A kind : L2Faulted({kind}) => l2Faults' = l2Faults + 1
    BY L2FaultedType DEF L2TypeOK
<1>2. L2Fail \/ L2Crash => L2Interrupted
    BY <1>1 DEF L2Fail, L2Crash, L2Throw, L2Interrupted
<1> QED
    BY <1>2 DEF L2Next, L2Step, L2Stopped

\* The head, the start and the end of a window.
LEMMA L2PollWindow ==
    ASSUME L2TypeOK, L2Poll
    PROVE  /\ l2pc = "poll" /\ l2pc' \in {"sleep", "fetch", "done"}
           /\ UNCHANGED <<l2Head, unconfirmedVars, legacy, fetched>>
           /\ l2Faults' \in Nat
           /\ l2pc' = "sleep" => UNCHANGED l2PollVars
           /\ l2pc' # "sleep" =>
                 /\ l2From' \in Nat /\ l2To' \in Nat /\ l2Current' \in Nat
                 /\ 1 <= l2From' /\ l2To' <= StopAt
                 /\ l2From' = 1 \/ l2From' <= unconfirmedHighest
           /\ l2pc' = "fetch" => l2From' <= l2To'
           /\ l2pc' = "done" => l2To' < l2From'
<1>1. PICK kinds \in SUBSET {"read", "lag"} :
          \E h \in HeadAnswers(kinds) :
              LET highest == Highest(L2Get(unconfirmedHighest, kinds))
                  current == UpToStop(h)
                  target == IF highest + TransactionsPerPoll <= current
                            THEN highest + TransactionsPerPoll ELSE current
              IN  /\ L2Faulted(kinds)
                  /\ \/ highest = target /\ l2pc' = "sleep"
                                         /\ UNCHANGED l2PollVars
                     \/ /\ highest # target
                        /\ l2pc' = IF highest > target THEN "done" ELSE "fetch"
                        /\ l2From' = highest
                        /\ l2To' = target
                        /\ l2Current' = current
    BY DEF L2Poll
<1>2. PICK h \in HeadAnswers(kinds) :
              LET highest == Highest(L2Get(unconfirmedHighest, kinds))
                  current == UpToStop(h)
                  target == IF highest + TransactionsPerPoll <= current
                            THEN highest + TransactionsPerPoll ELSE current
              IN  /\ L2Faulted(kinds)
                  /\ \/ highest = target /\ l2pc' = "sleep"
                                         /\ UNCHANGED l2PollVars
                     \/ /\ highest # target
                        /\ l2pc' = IF highest > target THEN "done" ELSE "fetch"
                        /\ l2From' = highest
                        /\ l2To' = target
                        /\ l2Current' = current
    BY <1>1
<1> DEFINE highest == Highest(L2Get(unconfirmedHighest, kinds))
           current == UpToStop(h)
           target == IF highest + TransactionsPerPoll <= current
                     THEN highest + TransactionsPerPoll ELSE current
<1>3. /\ highest \in Nat /\ 1 <= highest
      /\ highest = 1 \/ highest <= unconfirmedHighest
    <2>1. unconfirmedHighest \in Nat /\ Null \notin Int
        BY NullAssumption DEF L2TypeOK, UnconfirmedTypeOK
    <2> QED
        BY <2>1 DEF Highest, L2Get, ToNumber
<1>4. /\ current \in Nat /\ current <= StopAt
      /\ target \in Nat /\ target <= StopAt
    <2>1. h \in Nat
        BY DEF HeadAnswers, L2TypeOK
    <2>2. current \in Nat /\ current <= StopAt
        BY <2>1, L2IngestionAssumption DEF UpToStop
    <2> HIDE DEF current, highest
    <2> QED
        BY <1>3, <2>2, L2IngestionAssumption
<1>5. /\ L2Faulted(kinds)
      /\ \/ highest = target /\ l2pc' = "sleep" /\ UNCHANGED l2PollVars
         \/ /\ highest # target
            /\ l2pc' = IF highest > target THEN "done" ELSE "fetch"
            /\ l2From' = highest
            /\ l2To' = target
            /\ l2Current' = current
    BY <1>2
<1>6. l2Faults' \in Nat
    BY <1>5, L2FaultedType DEF L2TypeOK
<1> HIDE DEF highest, current, target
<1> QED
    BY <1>3, <1>4, <1>5, <1>6 DEF L2Poll

\* One record, added to one table.
LEMMA StoreBlockPuts ==
    ASSUME L2TypeOK, L2WindowOK, StoreBlock
    PROVE  \E n \in fetched :
               /\ NextBlock(n)
               /\ n \in 1 .. StopAt
               /\ Record(n) \in UnconfirmedEntry
               /\ l2pc = "tx" =>
                     /\ unconfirmed'["unconfirmed:transaction"] =
                            unconfirmed["unconfirmed:transaction"]
                                \cup {Record(n)}
                     /\ unconfirmed'["unconfirmed:stateroot"] =
                            unconfirmed["unconfirmed:stateroot"]
               /\ l2pc = "root" =>
                     /\ unconfirmed'["unconfirmed:stateroot"] =
                            unconfirmed["unconfirmed:stateroot"]
                                \cup {Record(n)}
                     /\ unconfirmed'["unconfirmed:transaction"] =
                            unconfirmed["unconfirmed:transaction"]
               /\ l2pc \in {"txLatest", "rootLatest"} => UNCHANGED unconfirmed
               /\ unconfirmed' \in
                      [UnconfirmedTables -> SUBSET UnconfirmedEntry]
               /\ unconfirmedLatest' \in
                      [UnconfirmedTables -> Nat \cup {Null}]
               /\ l2Faults' \in Nat
               /\ fetched' = IF l2pc = "rootLatest" THEN fetched \ {n}
                                                    ELSE fetched
<1>1. PICK n \in fetched :
          /\ NextBlock(n)
          /\ \/ l2pc \in {"tx", "root"} /\ PutUnconfirmed(TableOf[l2pc], n)
             \/ /\ l2pc \in {"txLatest", "rootLatest"}
                /\ PutUnconfirmedLatest(TableOf[l2pc], n)
          /\ fetched' = IF l2pc = "rootLatest" THEN fetched \ {n} ELSE fetched
    BY DEF StoreBlock
<1>type. /\ unconfirmed \in [UnconfirmedTables -> SUBSET UnconfirmedEntry]
         /\ unconfirmedLatest \in [UnconfirmedTables -> Nat \cup {Null}]
         /\ l2Faults \in Nat /\ l2To \in Nat
    BY DEF L2TypeOK, UnconfirmedTypeOK
<1>2. n \in 1 .. StopAt /\ UnconfirmedIndex(n) \in Nat
    BY <1>1, <1>type, L2IngestionAssumption
    DEF L2WindowOK, UnconfirmedIndex
<1>3. Record(n) \in UnconfirmedEntry /\ Record(n).index = UnconfirmedIndex(n)
    BY <1>2 DEF Record, UnconfirmedEntry
<1>4. ASSUME NEW t \in UnconfirmedTables
      PROVE  Put(unconfirmed[t], {Record(n)}) = unconfirmed[t] \cup {Record(n)}
    <2>1. \A e \in unconfirmed[t] : e.index = Record(n).index => e = Record(n)
        BY <1>3, <1>type DEF UnconfirmedEntry
    <2> QED
        BY <2>1 DEF Put
<1>5. CASE l2pc \in {"tx", "root"}
    <2>1. PICK t \in UnconfirmedTables : t = TableOf[l2pc]
        BY <1>5 DEF TableOf, UnconfirmedTables
    <2>2. PutUnconfirmed(t, n)
        BY <1>1, <1>5, <2>1
    <2>3. /\ unconfirmed' = [unconfirmed EXCEPT ![t] =
                                 unconfirmed[t] \cup {Record(n)}]
          /\ UNCHANGED <<unconfirmedLatest, l2Faults>>
        BY <1>4, <1>type, <2>2 DEF PutUnconfirmed, Record
    <2>4. /\ l2pc = "tx" => t = "unconfirmed:transaction"
          /\ l2pc = "root" => t = "unconfirmed:stateroot"
        BY <2>1 DEF TableOf
    <2>5. unconfirmed' \in [UnconfirmedTables -> SUBSET UnconfirmedEntry]
        BY <1>3, <1>type, <2>3
    <2> QED
        BY <1>1, <1>2, <1>3, <1>5, <1>type, <2>3, <2>4, <2>5
        DEF UnconfirmedTables
<1>6. CASE l2pc \in {"txLatest", "rootLatest"}
    <2>1. PICK t \in UnconfirmedTables : t = TableOf[l2pc]
        BY <1>6 DEF TableOf, UnconfirmedTables
    <2>2. PICK kinds \in SUBSET {"read"} :
              /\ L2Faulted(kinds)
              /\ unconfirmedLatest' =
                     [unconfirmedLatest EXCEPT ![t] =
                          Latest(@, UnconfirmedIndex(n), L2Get(@, kinds))]
        BY <1>1, <1>6, <2>1 DEF PutUnconfirmedLatest
    <2>3. unconfirmed' = unconfirmed
        BY <1>1, <1>6 DEF PutUnconfirmedLatest
    <2>4. l2Faults' \in Nat
        BY <1>type, <2>2, L2FaultedType
    <2>5. Latest(unconfirmedLatest[t], UnconfirmedIndex(n),
                 L2Get(unconfirmedLatest[t], kinds)) \in Nat \cup {Null}
        BY <1>2, <1>type DEF Latest
    <2>6. unconfirmedLatest' \in [UnconfirmedTables -> Nat \cup {Null}]
        BY <1>type, <2>2, <2>5
    <2> QED
        BY <1>1, <1>2, <1>3, <1>6, <1>type, <2>3, <2>4, <2>6
<1> QED
    BY <1>1, <1>5, <1>6

\* Every step keeps the types.
LEMMA L2TypeStep ==
    ASSUME L2TypeOK, L2WindowOK, L2Step
    PROVE  L2TypeOK'
<1> USE DEF L2TypeOK, L2PCs
<1>1. CASE L2Poll
    BY <1>1, L2PollWindow DEF UnconfirmedTypeOK, unconfirmedVars, l2PollVars
<1>2. CASE StoreBlock
    <2>1. /\ unconfirmed' \in [UnconfirmedTables -> SUBSET UnconfirmedEntry]
          /\ unconfirmedLatest' \in [UnconfirmedTables -> Nat \cup {Null}]
          /\ l2Faults' \in Nat
          /\ fetched' \subseteq fetched
        BY <1>2, StoreBlockPuts
    <2>2. l2pc' \in {"txLatest", "root", "rootLatest", "parse"}
        BY <1>2 DEF StoreBlock, AfterPut
    <2> QED
        BY <1>2, <2>1, <2>2 DEF StoreBlock, UnconfirmedTypeOK, l2PollVars
<1>3. CASE FetchRange
    <2>1. fetched' = l2From .. l2To /\ l2pc' = "parse"
        BY <1>3 DEF FetchRange
    <2> QED
        BY <1>3, <2>1
        DEF FetchRange, UnconfirmedTypeOK, unconfirmedVars, l2PollVars
<1>4. CASE FetchBlock
    BY <1>4 DEF FetchBlock, UnconfirmedTypeOK, unconfirmedVars, l2PollVars
<1>5. CASE L2FinishIteration
    BY <1>5 DEF L2FinishIteration, L2EndIteration, UnconfirmedTypeOK
<1>6. CASE BlockMissing \/ L2Interrupted
    <2>1. /\ L2EndIteration
          /\ l2pc' \in {"sleep", "down"}
          /\ l2Faults' \in {l2Faults, l2Faults + 1}
          /\ UNCHANGED <<l2Head, unconfirmedVars, legacy>>
        BY <1>6 DEF BlockMissing, L2Throw, L2Interrupted
    <2>2. l2Faults' \in Nat
        BY <2>1
    <2> QED
        BY <2>1, <2>2 DEF L2EndIteration, UnconfirmedTypeOK, unconfirmedVars
<1>7. CASE L2Stop
    <2>1. l2Faults' \in Nat
        BY <1>7, L2FaultedType DEF L2Stop
    <2> QED
        BY <1>7, <2>1
        DEF L2Stop, UnconfirmedTypeOK, unconfirmedVars, l2PollVars
<1>8. CASE ParseBlock \/ L2Wake \/ L2Restart \/ L2Returned
    BY <1>8
    DEF ParseBlock, L2Wake, L2Restart, L2Returned, UnconfirmedTypeOK,
        unconfirmedVars, l2PollVars
<1>9. CASE Produce
    BY <1>9 DEF Produce, UnconfirmedTypeOK, unconfirmedVars, l2PollVars
<1>10. CASE Rewind
    <2>1. l2Head' \in Nat
        BY <1>10 DEF Rewind
    <2>2. l2Faults' \in Nat
        <3>1. l2Faults' = l2Faults + 1
            BY <1>10, L2FaultedType DEF Rewind
        <3> QED
            BY <3>1
    <2> QED
        BY <1>10, <2>1, <2>2
        DEF Rewind, UnconfirmedTypeOK, unconfirmedVars, l2PollVars
<1>11. CASE UNCHANGED l2Vars
    BY <1>11 DEF l2Vars, UnconfirmedTypeOK, unconfirmedVars, l2PollVars
<1> QED
    BY <1>1, <1>2, <1>3, <1>4, <1>5, <1>6, <1>7, <1>8, <1>9, <1>10, <1>11
    DEF L2Step, L2Service

-----------------------------------------------------------------------------
(* What is stored stays, and what counts as synced is stored.              *)

\* Which steps write what.
LEMMA L2Frame ==
    ASSUME L2Step
    PROVE  /\ ~StoreBlock => UNCHANGED unconfirmed
           /\ ~L2FinishIteration => UNCHANGED unconfirmedHighest
    BY DEF L2Step, L2Service, L2Stop, L2Poll, FetchRange, FetchBlock,
           BlockMissing, L2Throw, ParseBlock, StoreBlock, L2FinishIteration,
           L2Wake, L2Restart, L2Interrupted, L2Returned, Produce, Rewind,
           l2Vars, unconfirmedVars

\* No record is ever lost.
LEMMA UnconfirmedKept ==
    ASSUME L2TypeOK, L2WindowOK, L2Step
    PROVE  /\ \A t \in UnconfirmedTables : unconfirmed[t] \subseteq unconfirmed'[t]
           /\ \A n : Stored(n) => Stored(n)'
<1>1. ASSUME NEW t \in UnconfirmedTables
      PROVE  unconfirmed[t] \subseteq unconfirmed'[t]
    <2>1. CASE StoreBlock
        <3>1. l2pc \in {"tx", "root", "txLatest", "rootLatest"}
            BY <2>1 DEF StoreBlock
        <3> QED
            BY <2>1, <3>1, StoreBlockPuts DEF UnconfirmedTables
    <2> QED
        BY <2>1, L2Frame
<1> QED
    BY <1>1 DEF Stored, UnconfirmedTables

\* A block whose two records are there is stored.
LEMMA BothRecords ==
    ASSUME NEW n,
           Record(n) \in unconfirmed["unconfirmed:transaction"],
           Record(n) \in unconfirmed["unconfirmed:stateroot"]
    PROVE  Stored(n)
<1>1. Record(n).index = n - 1
    BY DEF Record, UnconfirmedIndex
<1> QED
    BY <1>1 DEF Stored, UnconfirmedTables

\* In the legacy mode a window is complete when it has as many blocks as
\* numbers.
LEMMA AllFetched ==
    ASSUME NEW m \in Nat, NEW n \in Nat, m <= n, NEW S \in SUBSET (m .. n),
           Cardinality(S) = n - m + 1
    PROVE  S = m .. n
<1>1. IsFiniteSet(m .. n) /\ Cardinality(m .. n) = n - m + 1
    BY FS_Interval
<1> QED
    BY <1>1, FS_Subset

\* A window starts right after what is stored.
LEMMA L2WindowStart ==
    ASSUME L2TypeOK, L2WindowOK, SyncedBlocksStored, L2Poll
    PROVE  L2WindowOK'
<1>1. fetched' = {}
    BY L2PollWindow DEF L2WindowOK, Storing
<1>2. \A n : Stored(n)' <=> Stored(n)
    BY L2PollWindow DEF unconfirmedVars, Stored
<1>3. unconfirmedHighest \in Nat
    BY DEF L2TypeOK, UnconfirmedTypeOK
<1>4. CASE l2pc' = "sleep"
    <2>1. l2To' = l2To /\ l2To <= StopAt
        BY <1>4, L2PollWindow DEF l2PollVars, L2WindowOK
    <2> QED
        BY <1>1, <1>4, <2>1 DEF L2WindowOK, Storing
<1>5. CASE l2pc' # "sleep"
    <2>1. PICK m \in Nat, k \in Nat : m = l2From' /\ k = l2To'
        BY <1>5, L2PollWindow
    <2>2. /\ 1 <= m /\ k <= StopAt
          /\ m = 1 \/ m <= unconfirmedHighest
          /\ l2pc' = "fetch" => m <= k
          /\ l2pc' = "done" => k < m
          /\ l2pc' \in {"fetch", "done"}
        BY <1>5, <2>1, L2PollWindow
    <2>3. ASSUME NEW n \in 1 .. m - 1
          PROVE  Stored(n)
        <3>1. n \in 1 .. unconfirmedHighest
            BY <1>3, <2>2
        <3> QED
            BY <3>1 DEF SyncedBlocksStored
    <2>4. ASSUME l2pc' = "done", NEW n \in 1 .. k
          PROVE  Stored(n)
        <3>1. n \in 1 .. m - 1
            BY <2>2, <2>4
        <3> QED
            BY <2>3, <3>1
    <2>5. /\ \A n \in 1 .. m - 1 : Stored(n)'
          /\ l2pc' = "done" => \A n \in 1 .. k : Stored(n)'
        BY <1>2, <2>3, <2>4
    <2> QED
        BY <1>1, <2>1, <2>2, <2>5 DEF L2WindowOK, Storing
<1> QED
    BY <1>4, <1>5

\* In a window every block is waiting or stored.
LEMMA L2WindowStep ==
    ASSUME L2Inv, L2Step
    PROVE  L2WindowOK'
<1> USE DEF L2Inv
<1>kept. \A n : Stored(n) => Stored(n)'
    BY UnconfirmedKept
<1>type. /\ l2From \in Nat /\ l2To \in Nat /\ fetched \in SUBSET Nat
         /\ StopAt \in Nat
    BY L2IngestionAssumption DEF L2TypeOK
<1>1. CASE L2Poll
    BY <1>1, L2WindowStart
<1>2. CASE FetchRange
    <2>1. /\ fetched' = l2From .. l2To /\ l2pc = "fetch" /\ l2pc' = "parse"
          /\ UNCHANGED <<l2From, l2To>>
        BY <1>2 DEF FetchRange, l2PollVars
    <2>2. \A n \in 1 .. l2To : n \in l2From .. l2To \/ Stored(n)'
        BY <1>kept, <1>type, <2>1 DEF L2WindowOK
    <2>3. l2From .. l2To \subseteq 1 .. l2To
        BY <1>type, <2>1 DEF L2WindowOK
    <2> QED
        BY <2>1, <2>2, <2>3 DEF L2WindowOK, Storing
<1>3. CASE FetchBlock
    <2>1. /\ fetched' \subseteq l2From .. l2To
          /\ l2pc = "fetch" /\ l2pc' \in {"fetch", "parse"}
          /\ l2pc' = "parse" => Cardinality(fetched') = l2To - l2From + 1
          /\ UNCHANGED <<l2From, l2To>>
          /\ 1 <= l2From /\ l2From <= l2To
        BY <1>3 DEF FetchBlock, l2PollVars, L2WindowOK
    <2>2. l2pc' = "parse" => fetched' = l2From .. l2To
        BY <1>type, <2>1, AllFetched
    <2>3. \A n \in 1 .. l2To : n \in l2From .. l2To \/ Stored(n)'
        BY <1>kept, <1>type, <2>1 DEF L2WindowOK
    <2>4. l2From .. l2To \subseteq 1 .. l2To
        BY <1>type, <2>1
    <2>5. \A n \in 1 .. l2From - 1 : Stored(n)'
        BY <1>kept, <2>1 DEF L2WindowOK
    <2> QED
        BY <2>1, <2>2, <2>3, <2>4, <2>5 DEF L2WindowOK, Storing
<1>4. CASE ParseBlock
    BY <1>4, <1>kept DEF ParseBlock, l2PollVars, L2WindowOK, Storing
<1>5. CASE StoreBlock
    <2>1. PICK n \in fetched :
              /\ NextBlock(n)
              /\ fetched' = IF l2pc = "rootLatest" THEN fetched \ {n}
                                                   ELSE fetched
        BY <1>5, StoreBlockPuts
    <2>2. /\ l2pc \in {"tx", "txLatest", "root", "rootLatest"}
          /\ l2pc' \in Storing
          /\ UNCHANGED <<l2From, l2To>>
        BY <1>5 DEF StoreBlock, AfterPut, Storing, l2PollVars
    <2>3. l2pc = "rootLatest" => Stored(n)
        BY <2>1, BothRecords DEF L2Order
    <2>4. \A k \in 1 .. l2To : k \in fetched' \/ Stored(k)'
        BY <1>kept, <2>1, <2>2, <2>3 DEF L2WindowOK, Storing
    <2> QED
        BY <2>1, <2>2, <2>4 DEF L2WindowOK, Storing
<1>6. CASE L2FinishIteration \/ BlockMissing \/ L2Interrupted
    <2>1. /\ L2EndIteration
          /\ l2pc' \in {"sleep", "poll", "down"}
        BY <1>6 DEF L2FinishIteration, BlockMissing, L2Throw, L2Interrupted
    <2> QED
        BY <1>type, <2>1 DEF L2EndIteration, L2WindowOK, Storing
<1>7. CASE L2Stop \/ L2Wake \/ L2Restart \/ L2Returned
    BY <1>7
    DEF L2Stop, L2Wake, L2Restart, L2Returned, l2PollVars, L2WindowOK,
        Storing
<1>8. CASE Produce \/ Rewind \/ UNCHANGED l2Vars
    <2>1. UNCHANGED <<l2From, l2To, fetched, l2pc>>
        BY <1>8 DEF Produce, Rewind, l2Vars, l2PollVars
    <2> QED
        BY <1>kept, <2>1 DEF L2WindowOK, Storing
<1> QED
    BY <1>1, <1>2, <1>3, <1>4, <1>5, <1>6, <1>7, <1>8 DEF L2Step, L2Service

\* The first record of a block is put before the second.
LEMMA L2OrderStep ==
    ASSUME L2Inv, L2Step
    PROVE  L2Order'
<1> USE DEF L2Inv
<1>kept. \A t \in UnconfirmedTables : unconfirmed[t] \subseteq unconfirmed'[t]
    BY UnconfirmedKept
<1>rigid. \A n : Record(n)' = Record(n)
    BY DEF Record, UnconfirmedIndex
<1>1. CASE StoreBlock
    <2>1. PICK n \in fetched :
              /\ NextBlock(n)
              /\ l2pc = "tx" =>
                     Record(n) \in unconfirmed'["unconfirmed:transaction"]
              /\ l2pc = "root" =>
                     Record(n) \in unconfirmed'["unconfirmed:stateroot"]
              /\ fetched' = IF l2pc = "rootLatest" THEN fetched \ {n}
                                                   ELSE fetched
        BY <1>1, StoreBlockPuts
    <2>2. /\ l2pc \in {"tx", "txLatest", "root", "rootLatest"}
          /\ l2pc' = AfterPut[l2pc]
        BY <1>1 DEF StoreBlock
    <2>3. \A k \in fetched : NextBlock(k) => k = n
        BY <2>1 DEF NextBlock, L2TypeOK
    <2>4. CASE l2pc = "rootLatest"
        BY <2>2, <2>4 DEF L2Order, AfterPut
    <2>5. CASE l2pc # "rootLatest"
        <3>1. fetched' = fetched /\ (\A k : NextBlock(k)' <=> NextBlock(k))
            BY <2>1, <2>5 DEF NextBlock
        <3> SUFFICES ASSUME NEW k \in fetched, NextBlock(k)
                     PROVE  /\ l2pc' \in {"txLatest", "root", "rootLatest"} =>
                                  Record(k) \in
                                      unconfirmed'["unconfirmed:transaction"]
                            /\ l2pc' = "rootLatest" =>
                                  Record(k) \in
                                      unconfirmed'["unconfirmed:stateroot"]
            BY <1>rigid, <3>1 DEF L2Order
        <3>2. k = n
            BY <2>3
        <3> QED
            BY <1>kept, <2>1, <2>2, <2>5, <3>2
            DEF L2Order, AfterPut, UnconfirmedTables
    <2> QED
        BY <2>4, <2>5
<1>2. CASE Produce \/ Rewind \/ UNCHANGED l2Vars
    <2>1. UNCHANGED <<fetched, l2pc, unconfirmed>>
        BY <1>2 DEF Produce, Rewind, l2Vars, unconfirmedVars
    <2> QED
        BY <1>rigid, <2>1 DEF L2Order, NextBlock
<1>3. CASE ~StoreBlock /\ ~Produce /\ ~Rewind /\ ~UNCHANGED l2Vars
    <2>1. l2pc' \notin {"txLatest", "root", "rootLatest"}
        BY <1>3
        DEF L2Step, L2Service, L2Stop, L2Poll, FetchRange, FetchBlock,
            BlockMissing, L2Throw, ParseBlock, L2FinishIteration, L2Wake,
            L2Restart, L2Interrupted, L2Returned
    <2> QED
        BY <2>1 DEF L2Order
<1> QED
    BY <1>1, <1>2, <1>3

\* The end of a window marks what is stored, and nothing is lost.
LEMMA SyncedBlocksStep ==
    ASSUME L2Inv, L2Step
    PROVE  SyncedBlocksStored'
<1>kept. \A n : Stored(n) => Stored(n)'
    BY UnconfirmedKept DEF L2Inv
<1>1. CASE L2FinishIteration
    <2>1. unconfirmedHighest' = l2To /\ l2pc = "done"
        BY <1>1 DEF L2FinishIteration
    <2> QED
        BY <1>kept, <2>1 DEF L2Inv, L2WindowOK, SyncedBlocksStored
<1>2. CASE ~L2FinishIteration
    <2>1. unconfirmedHighest' = unconfirmedHighest
        BY <1>2, L2Frame
    <2> QED
        BY <1>kept, <2>1 DEF L2Inv, SyncedBlocksStored
<1> QED
    BY <1>1, <1>2

\* A state root is put when its transaction is there.
LEMMA RootsStep ==
    ASSUME L2Inv, L2Step
    PROVE  RootsHaveTransactions'
<1>kept. unconfirmed["unconfirmed:transaction"]
             \subseteq unconfirmed'["unconfirmed:transaction"]
    BY UnconfirmedKept DEF L2Inv, UnconfirmedTables
<1>1. CASE StoreBlock
    <2>1. PICK n \in fetched :
              /\ NextBlock(n)
              /\ l2pc = "root" =>
                    unconfirmed'["unconfirmed:stateroot"] =
                        unconfirmed["unconfirmed:stateroot"] \cup {Record(n)}
              /\ l2pc = "tx" =>
                    unconfirmed'["unconfirmed:stateroot"] =
                        unconfirmed["unconfirmed:stateroot"]
              /\ l2pc \in {"txLatest", "rootLatest"} => UNCHANGED unconfirmed
        BY <1>1, StoreBlockPuts DEF L2Inv
    <2>2. l2pc \in {"tx", "txLatest", "root", "rootLatest"}
        BY <1>1 DEF StoreBlock
    <2>3. l2pc = "root" =>
              Record(n) \in unconfirmed["unconfirmed:transaction"]
        BY <2>1 DEF L2Inv, L2Order
    <2> QED
        BY <1>kept, <2>1, <2>2, <2>3 DEF L2Inv, RootsHaveTransactions
<1>2. CASE ~StoreBlock
    <2>1. unconfirmed' = unconfirmed
        BY <1>2, L2Frame
    <2> QED
        BY <2>1 DEF L2Inv, RootsHaveTransactions
<1> QED
    BY <1>1, <1>2

\* No window passes the stop block, and the service returns when it has
\* synced up to there.
LEMMA StopStep ==
    ASSUME L2Inv, L2Step
    PROVE  StopsAtStopBlock'
<1>kept. \A n : Stored(n) => Stored(n)'
    BY UnconfirmedKept DEF L2Inv
<1>1. ASSUME NEW t \in UnconfirmedTables, NEW e \in unconfirmed'[t]
      PROVE  e.index < StopAt
    <2>1. CASE e \in unconfirmed[t]
        BY <2>1 DEF L2Inv, StopsAtStopBlock
    <2>2. CASE e \notin unconfirmed[t]
        <3>1. StoreBlock
            BY <1>1, <2>2, L2Frame
        <3>2. l2pc \in {"tx", "txLatest", "root", "rootLatest"}
            BY <3>1 DEF StoreBlock
        <3>3. PICK n \in 1 .. StopAt : e = Record(n)
            BY <1>1, <2>2, <3>1, <3>2, StoreBlockPuts
            DEF L2Inv, UnconfirmedTables
        <3>4. e.index = n - 1
            BY <3>3 DEF Record, UnconfirmedIndex
        <3> QED
            BY <3>3, <3>4, L2IngestionAssumption
    <2> QED
        BY <2>1, <2>2
<1>2. ASSUME l2pc' = "stopped", StopAt > 1, NEW n \in 1 .. StopAt
      PROVE  Stored(n)'
    <2>1. CASE L2Stop
        <3>1. PICK kinds \in SUBSET {"read"} :
                  ReachedStop(Highest(L2Get(unconfirmedHighest, kinds)))
            BY <2>1 DEF L2Stop
        <3>2. unconfirmedHighest \in Nat /\ Null \notin Int
            BY NullAssumption DEF L2Inv, L2TypeOK, UnconfirmedTypeOK
        <3>3. unconfirmedHighest >= StopAt
            BY <1>2, <3>1, <3>2, L2IngestionAssumption
            DEF ReachedStop, Highest, L2Get, ToNumber
        <3>4. n \in 1 .. unconfirmedHighest
            BY <3>2, <3>3, L2IngestionAssumption
        <3> QED
            BY <1>kept, <3>4 DEF L2Inv, SyncedBlocksStored
    <2>2. CASE ~L2Stop
        <3>1. l2pc = "stopped"
            BY <1>2, <2>2
            DEF L2Step, L2Service, L2Poll, FetchRange, FetchBlock,
                BlockMissing, L2Throw, ParseBlock, StoreBlock, AfterPut,
                L2FinishIteration, L2Wake, L2Restart, L2Interrupted,
                L2Returned, Produce, Rewind, l2Vars
        <3> QED
            BY <1>2, <1>kept, <3>1 DEF L2Inv, StopsAtStopBlock
    <2> QED
        BY <2>1, <2>2
<1> QED
    BY <1>1, <1>2 DEF StopsAtStopBlock, UnconfirmedTables

-----------------------------------------------------------------------------
\* Nothing is stored yet, and nothing counts as synced.
LEMMA L2InvInit ==
    ASSUME NEW start \in L2PCs \ (Storing \cup {"fetch", "stopped"}),
           L2InitAt(start)
    PROVE  L2Inv
<1>1. L2TypeOK
    BY L2IngestionAssumption
    DEF L2InitAt, L2TypeOK, UnconfirmedInit, UnconfirmedTypeOK
<1>2. /\ unconfirmed = [t \in UnconfirmedTables |-> {}] /\ fetched = {}
      /\ l2To = 0 /\ unconfirmedHighest = 0 /\ l2pc = start
    BY DEF L2InitAt, UnconfirmedInit
<1>3. L2WindowOK /\ L2Order
    BY <1>2, L2IngestionAssumption DEF L2WindowOK, L2Order, Storing
<1>4. SyncedBlocksStored /\ RootsHaveTransactions /\ StopsAtStopBlock
    BY <1>2
    DEF SyncedBlocksStored, RootsHaveTransactions, StopsAtStopBlock,
        UnconfirmedTables
<1> QED
    BY <1>1, <1>3, <1>4 DEF L2Inv

\* The invariant is inductive.
LEMMA L2InvStep == L2Inv /\ L2Step => L2Inv'
BY L2TypeStep, L2WindowStep, L2OrderStep, SyncedBlocksStep, RootsStep,
   StopStep
DEF L2Inv

LEMMA L2Invariant == L2Spec => []L2Inv
<1>1. L2Init => L2Inv
    BY L2InvInit DEF L2Init, L2PCs, Storing
<1>2. L2Inv /\ [L2Next]_l2Vars => L2Inv'
    BY L2InvStep, StepOfL2 DEF L2Inv
<1> QED
    BY <1>1, <1>2, PTL DEF L2Spec

\* The variables of L2 ingestion keep their types.
THEOREM L2TypeCorrect == L2Spec => []L2TypeOK
BY L2Invariant, PTL DEF L2Inv

\* No block that counts as synced is missing from a table, for whatever
\* window, mode, fault or stop block.
THEOREM L2NothingMissed == L2Spec => []SyncedBlocksStored
BY L2Invariant, PTL DEF L2Inv

\* Whoever finds an unconfirmed state root finds its transaction.
THEOREM L2RootsResolved == L2Spec => []RootsHaveTransactions
BY L2Invariant, PTL DEF L2Inv

\* No block after the stop block is stored, and none before it is missing
\* when the service has returned.
THEOREM L2StopsThere == L2Spec => []StopsAtStopBlock
BY L2Invariant, PTL DEF L2Inv
=============================================================================
