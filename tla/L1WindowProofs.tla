--------------------------- MODULE L1WindowProofs ---------------------------
(***************************************************************************)
(* Why no event of a window is lost: on a mature chain whose deployment    *)
(* the service finds, all events of the blocks that are marked as synced   *)
(* are in the database.  First the invariant, which says what is true of   *)
(* the chain, of the starting block, and at every await of a window, where *)
(* each of its events is that has not been recorded yet; then its proof.   *)
(***************************************************************************)
EXTENDS L1FinalityProofs

\* The search for the starting block cannot pass by the deployment: every node
\* knows it when the service is started for the first time; or it does not
\* lie in the last blocks of a query of the search, so that a node that does
\* not know it leaves nothing to be found behind that query; or no contract
\* ever moves, so that there is nothing else to find.
DeploymentKnown ==
    \/ DeployBlock <= InitTip - MaxLag
    \/ (DeployBlock % SearchRange) + Confirmations <= SearchRange
    \/ "AddressSet" \notin Kinds

-----------------------------------------------------------------------------
(* The chain.                                                              *)

\* s is the last element of S before log l.
LastBefore(s, l, S) ==
    /\ s \in S
    /\ s.pos < l.pos
    /\ \A r \in S : r.pos < l.pos => r.pos <= s.pos

\* Positions follow the blocks.
Ordered ==
    /\ \A l \in logs : DeployBlock <= l.block /\ l.block <= tip + 1
    /\ \A l, m \in logs : l.pos < m.pos => l.block <= m.block

\* A contract moves at most once per block and each time to another address;
\* without upgrades it does not move at all.
AddressesMove ==
    \A name \in ContractNames :
        /\ \E s \in AddressSets(name) : s.block = DeployBlock /\ s.pos <= 1
        /\ \A r, s \in AddressSets(name) : r.block = s.block => r = s
        /\ \A r, s \in AddressSets(name) :
              LastBefore(r, s, AddressSets(name)) =>
                  r.newAddress # s.newAddress
        /\ "AddressSet" \notin Kinds =>
              \A s \in AddressSets(name) : s.block = DeployBlock

\* An event comes from the address that is registered when it is emitted.
EmittedByRegistered ==
    \A l \in logs :
        l.kind # "AddressSet" =>
            /\ l.pos > 1
            /\ \E s \in AddressSets(ContractOf(l)) :
                  /\ LastBefore(s, l, AddressSets(ContractOf(l)))
                  /\ l.address = s.newAddress

ChainOrder == Ordered /\ AddressesMove /\ EmittedByRegistered

\* Batches take different elements of the queue.
QueueTakenOnce ==
    \A l, m \in TransactionBatches :
        l # m =>
            \/ l.queueStart + NumQueued(l.shape) <= m.queueStart
            \/ m.queueStart + NumQueued(m.shape) <= l.queueStart

-----------------------------------------------------------------------------
(* The database.                                                           *)

NoFailingReads == "read" \notin FaultKinds

\* The records of l in table t are stored and the pointer has reached them.
RecordedIn(l, t) ==
    /\ EntriesOf(l, t) \subseteq entries[t]
    /\ NoFailingReads =>
          \A e \in EntriesOf(l, t) :
              latest[t] # Null /\ e.index <= latest[t]

\* The queue index of tx leads to it.
Linked(tx) == [queueIndex |-> tx.queueIndex, index |-> tx.index] \in ctcIndex

Recorded(l) ==
    /\ \A t \in Tables : RecordedIn(l, t)
    /\ \A tx \in EntriesOf(l, "transaction") :
          tx.queueOrigin = "l1" => Linked(tx)

-----------------------------------------------------------------------------
(* The loop.                                                               *)

InWindow == {"resolve", "ranges", "query", "event", "store", "latest", "index"}

\* The search has not passed by the deployment, or it is over.
SearchOK ==
    /\ from % SearchRange = 0
    /\ current <= final + MaxReorg
    /\ "AddressSet" \in Kinds => from <= DeployBlock \/ current <= from

\* The search cannot miss the deployment, and what it finds is stored.
StartKnown ==
    /\ startBlock \in {0, DeployBlock}
    /\ starting \in {0, DeployBlock}
    /\ pc \notin {"init", "start", "search", "down"} =>
          startBlock = DeployBlock
    /\ pc = "search" => SearchOK
    /\ 0 <= from
    /\ pc \notin InWindow \cup {"search", "done"} => from = 0

\* Every node has the blocks of the window, now and later, and the window
\* starts with a block that stays.
WindowSeen ==
    /\ 0 <= synced /\ synced <= final - MaxLag
    /\ 0 <= to /\ to <= final - MaxLag
    /\ pc \in InWindow => from <= final

\* The address of a contract strictly before block n.
RightAddress(a, S, n) ==
    \/ a = AddressZero /\ \A s \in S : n <= s.block
    \/ \E s \in S :
          /\ s.block < n
          /\ s.newAddress = a
          /\ \A r \in S : r.block < n => r.pos <= s.pos

\* The ranges of a call of _syncEvents have the contract's addresses, and
\* the address changes still to come are those of the window.
RangesOK ==
    LET S == AddressSets(Syncs[sync].contract)
    IN  /\ ranges # <<>> => pc \in InWindow \ {"resolve"}
        /\ \A i \in 1 .. Len(ranges) :
              /\ 0 <= ranges[i].fromBlock
              /\ ranges[i].toBlock <= to
              /\ RightAddress(ranges[i].address, S, ranges[i].toBlock)
        /\ pc = "ranges" =>
              /\ from <= rangeStart
              /\ addressSets \subseteq S
              /\ \A s \in addressSets : rangeStart <= s.block /\ s.block <= to

\* The events being stored are of the running call and come before any
\* move of their contract in the last block.
EventsOK ==
    /\ pc \in {"event", "store", "latest", "index"} =>
          \A l \in events : l.kind = Syncs[sync].event /\ Covered(l, to)
    /\ pc \in {"store", "latest"} =>
          table \in {Syncs[sync].table, NextTable(Syncs[sync].table)} \ {"none"}
    /\ pc = "index" => sync = 2

\* Of the event being stored the tables before the present one are written,
\* and once all are, the links that are not still pending.
StoredSoFar ==
    \A l \in events :
        IsFirst(l, events) =>
            /\ pc \in {"store", "latest"} =>
                  \A t \in Tables : NextTable(t) = table => RecordedIn(l, t)
            /\ pc = "index" =>
                  /\ \A t \in Tables : RecordedIn(l, t)
                  /\ \A tx \in EntriesOf(l, "transaction") :
                        tx.queueOrigin = "l1" => tx \in pending \/ Linked(tx)

\* l lies in what is left of the window once ranges have been made of it.
Ahead(l) ==
    /\ rangeStart <= l.block
    /\ \A s \in AddressSets(ContractOf(l)) :
          from <= s.block /\ s.block <= to /\ l.pos < s.pos =>
              s \in addressSets

InRange(l, range) ==
    /\ l.address = range.address
    /\ range.fromBlock <= l.block
    /\ l.block <= range.toBlock

\* Where an event is that the window has still to record.
Waiting(l) ==
    \/ \E j \in sync + 1 .. 3 : l.kind = Syncs[j].event
    \/ /\ l.kind = Syncs[sync].event
       /\ \/ pc = "resolve"
          \/ pc = "ranges" /\ Ahead(l)
          \/ \E i \in 1 .. Len(ranges) : InRange(l, ranges[i])
          \/ pc \in {"event", "store", "latest", "index"} /\ l \in events

\* Nothing of the window is lost.
NothingLost ==
    /\ pc \in InWindow =>
          \A l \in Promised :
              /\ Covered(l, from) => Recorded(l)
              /\ Covered(l, to) => Recorded(l) \/ Waiting(l)
    /\ pc = "done" => \A l \in Promised : Covered(l, to) => Recorded(l)

SyncedMeansRecorded == \A l \in Promised : Covered(l, synced) => Recorded(l)

WindowInv ==
    /\ StartKnown
    /\ WindowSeen
    /\ RangesOK
    /\ EventsOK
    /\ StoredSoFar
    /\ NothingLost
    /\ SyncedMeansRecorded

-----------------------------------------------------------------------------
(* The order in which the records come.                                    *)

\* l has the record with index i in table t; an earlier log has it.
HasIndex(l, t, i) == \E f \in EntriesOf(l, t) : f.index = i
IndexBefore(l, t, i) == \E m \in logs : m.pos < l.pos /\ HasIndex(m, t, i)

\* The chain numbers its records without holes, queues an element before a
\* batch takes it and has a transaction before its state root.
ChainDense ==
    /\ \A l \in logs : l.kind \in Kinds \cup {"AddressSet"}
    /\ \A l \in StateBatches : l.size > 0
    /\ \A l \in logs, t \in Tables :
          \A e \in EntriesOf(l, t) : \A i \in 0 .. e.index :
              HasIndex(l, t, i) \/ IndexBefore(l, t, i)
    /\ \A l \in logs : \A tx \in EntriesOf(l, "transaction") :
          tx.queueOrigin = "l1" => IndexBefore(l, "enqueue", tx.queueIndex)
    /\ \A l \in logs : \A r \in EntriesOf(l, "stateroot") :
          IndexBefore(l, "transaction", r.index)

\* m is neither recorded nor among the events that are being stored.
Missing(m) ==
    /\ ~Recorded(m)
    /\ ~(pc \in {"event", "store", "latest", "index"} /\ m \in events)

\* The events of the running call come in their order: when one is missing,
\* a later one is not being stored, nor is it in a range before its own.
InOrder ==
    pc \in InWindow =>
        \A m, l \in Promised :
            /\ m.kind = Syncs[sync].event /\ l.kind = m.kind
            /\ m.pos < l.pos
            /\ Covered(m, to) /\ Missing(m)
            => /\ pc \in {"event", "store", "latest", "index"} =>
                      l \notin events
               /\ \A i \in 1 .. Len(ranges) :
                     InRange(l, ranges[i]) =>
                         \E j \in 1 .. i : InRange(m, ranges[j])

\* The records of a log come all at once: where one is, all are.
RecordsWhole ==
    \A t \in Tables : \A e \in entries[t] :
        \E l \in logs : /\ l.block <= final
                        /\ e \in EntriesOf(l, t)
                        /\ EntriesOf(l, t) \subseteq entries[t]

\* No contract moves after the deployment.
NoUpgrades == "AddressSet" \notin Kinds

\* Every batch of transactions is one that the service indexes.
OnlySequencerBatches == "QueueBatchAppended" \notin Kinds

\* The records of a table are numbered from 0.
Numbered(t) == \E n \in Nat : {e.index : e \in entries[t]} = 0 .. n - 1

-----------------------------------------------------------------------------
(* The order of the chain.                                                 *)

\* The address changes of a contract are logs.
LEMMA AddressSetsAre ==
    ASSUME ChainTypeOK, NEW name
    PROVE  \A s \in AddressSets(name) :
               /\ s \in logs /\ s \in AddressSetLog
               /\ s.kind = "AddressSet" /\ s.name = name
               /\ s.pos \in Nat /\ s.block \in Nat /\ s.newAddress \in Addresses
    BY LogSets DEF AddressSets, OfKind, AddressSetLog

\* A log is an address change of one contract or an event of one.
LEMMA ContractOfType ==
    ASSUME NEW l
    PROVE  ContractOf(l) \in ContractNames
    BY DEF ContractOf, ContractNames

LEMMA ChainOrderInit == ChainInit => ChainOrder
<1> SUFFICES ASSUME ChainInit
             PROVE  ChainOrder
    OBVIOUS
<1> DEFINE ctcSet == [pos |-> 0, block |-> DeployBlock, kind |-> "AddressSet",
                      name |-> CTC, newAddress |-> Deployed[CTC]]
           sccSet == [pos |-> 1, block |-> DeployBlock, kind |-> "AddressSet",
                      name |-> SCC, newAddress |-> Deployed[SCC]]
<1>1. logs = {ctcSet, sccSet} /\ tip = InitTip
    BY DEF ChainInit
<1>2. AddressSets(CTC) = {ctcSet} /\ AddressSets(SCC) = {sccSet}
    BY <1>1 DEF AddressSets, OfKind, CTC, SCC
<1>3. ASSUME NEW s, s.block = DeployBlock, s.pos \in Nat, s.pos <= 1,
             NEW name, AddressSets(name) = {s}
      PROVE  LET S == AddressSets(name)
             IN  /\ \E r \in S : r.block = DeployBlock /\ r.pos <= 1
                 /\ \A q, r \in S : q.block = r.block => q = r
                 /\ \A q, r \in S :
                       LastBefore(q, r, S) => q.newAddress # r.newAddress
                 /\ \A r \in S : r.block = DeployBlock
    BY <1>3 DEF LastBefore
<1>4. Ordered
    BY <1>1, L1ChainAssumption DEF Ordered
<1>5. AddressesMove
    <2>1. /\ ctcSet.block = DeployBlock /\ ctcSet.pos = 0
          /\ sccSet.block = DeployBlock /\ sccSet.pos = 1
        OBVIOUS
    <2> HIDE DEF ctcSet, sccSet
    <2> SUFFICES ASSUME NEW name \in ContractNames
                 PROVE  LET S == AddressSets(name)
                        IN  /\ \E r \in S : r.block = DeployBlock /\ r.pos <= 1
                            /\ \A q, r \in S : q.block = r.block => q = r
                            /\ \A q, r \in S :
                                  LastBefore(q, r, S) =>
                                      q.newAddress # r.newAddress
                            /\ \A r \in S : r.block = DeployBlock
        BY DEF AddressesMove
    <2>2. CASE name = CTC
        BY <1>2, <1>3, <2>1, <2>2
    <2>3. CASE name = SCC
        BY <1>2, <1>3, <2>1, <2>3
    <2> QED
        BY <2>2, <2>3 DEF ContractNames
<1>6. EmittedByRegistered
    BY <1>1 DEF EmittedByRegistered
<1> QED
    BY <1>4, <1>5, <1>6 DEF ChainOrder

\* A new log comes last, and after the two logs of the deployment.
LEMMA NewPosition ==
    ASSUME ChainTypeOK, ChainUnique, ChainOrder, NEW pos \in NextPos
    PROVE  /\ pos > 1
           /\ \A l \in logs : l.pos < pos
<1>1. \A l \in logs : l.pos + 1 <= pos /\ l.pos \in Nat
    BY EndIsLast, LogOfKind DEF NextPos, ChainTypeOK
<1>2. pos \in Nat
    BY NextTypes
<1>3. PICK r \in AddressSets(CTC) : r.pos <= 1
    BY DEF ChainOrder, AddressesMove, ContractNames
<1>4. PICK s \in AddressSets(SCC) : s.pos <= 1
    BY DEF ChainOrder, AddressesMove, ContractNames
<1>5. /\ r \in logs /\ s \in logs /\ r # s
      /\ r.pos \in Nat /\ s.pos \in Nat
    BY AddressSetsAre DEF CTC, SCC
<1>6. r.pos # s.pos
    BY <1>5 DEF ChainUnique
<1> QED
    BY <1>1, <1>2, <1>3, <1>4, <1>5, <1>6

\* The registered address is that of the last change.
LEMMA RegisteredLast ==
    ASSUME ChainTypeOK, NEW name, NEW a \in Registered(name), NEW l,
           \A m \in logs : m.pos < l.pos
    PROVE  \E s \in AddressSets(name) :
               LastBefore(s, l, AddressSets(name)) /\ a = s.newAddress
<1>1. PICK s \in AddressSets(name) :
          IsLast(s, AddressSets(name)) /\ a = s.newAddress
    BY DEF Registered
<1>2. s.pos < l.pos
    BY <1>1, AddressSetsAre
<1> QED
    BY <1>1, <1>2 DEF LastBefore, IsLast

\* A later log does not change what stands before an earlier one.
LEMMA OrderOfEmit ==
    ASSUME ChainTypeOK, ChainOrder, NEW l \in Log, Emit(l),
           l.block = tip + 1, \A m \in logs : m.pos < l.pos
    PROVE  /\ Ordered'
           /\ \A name, s, m :
                 /\ m \in logs
                 /\ LastBefore(s, m, AddressSets(name))
                 => LastBefore(s, m, AddressSets(name)')
<1>1. logs' = logs \cup {l} /\ tip' = tip
    BY DEF Emit
<1>2. /\ l.block \in Nat /\ l.pos \in Nat
      /\ \A m \in logs : m.block \in Nat /\ m.pos \in Nat
      /\ tip \in Nat /\ DeployBlock \in Nat /\ DeployBlock <= tip
    BY LogOfKind, L1ChainAssumption DEF ChainTypeOK
<1>3. Ordered'
    BY <1>1, <1>2 DEF ChainOrder, Ordered
<1>4. ASSUME NEW name, NEW s, NEW m \in logs,
             LastBefore(s, m, AddressSets(name))
      PROVE  LastBefore(s, m, AddressSets(name)')
    <2>1. AddressSets(name)' \subseteq AddressSets(name) \cup {l}
        BY <1>1 DEF AddressSets, OfKind
    <2>2. AddressSets(name) \subseteq AddressSets(name)'
        BY <1>1 DEF AddressSets, OfKind
    <2>3. ~(l.pos < m.pos)
        BY <1>2
    <2> QED
        BY <1>4, <2>1, <2>2, <2>3 DEF LastBefore
<1> QED
    BY <1>3, <1>4

LEMMA ChainOrderEvent ==
    ASSUME ChainTypeOK, ChainUnique, ChainOrder, NEW l \in Log, Emit(l),
           l.block = tip + 1, l.pos \in NextPos, l.kind # "AddressSet",
           l.address \in Registered(ContractOf(l))
    PROVE  ChainOrder'
<1>1. l.pos > 1 /\ \A m \in logs : m.pos < l.pos
    BY NewPosition
<1>2. logs' = logs \cup {l}
    BY DEF Emit
<1>3. \A name : AddressSets(name)' = AddressSets(name)
    BY <1>2 DEF AddressSets, OfKind
<1>4. Ordered'
    BY <1>1, OrderOfEmit
<1>5. AddressesMove'
    BY <1>3 DEF ChainOrder, AddressesMove, LastBefore
<1>6. \E s \in AddressSets(ContractOf(l)) :
          /\ LastBefore(s, l, AddressSets(ContractOf(l)))
          /\ l.address = s.newAddress
    BY <1>1, RegisteredLast
<1>7. EmittedByRegistered'
    BY <1>1, <1>2, <1>3, <1>6
    DEF ChainOrder, EmittedByRegistered, LastBefore, ContractOf
<1> QED
    BY <1>4, <1>5, <1>7 DEF ChainOrder

LEMMA ChainOrderAddress ==
    ASSUME ChainTypeOK, ChainUnique, ChainOrder, NEW l \in AddressSetLog,
           Emit(l), l.block = tip + 1, l.pos \in NextPos,
           l.newAddress \notin Registered(l.name), "AddressSet" \in Kinds,
           \A s \in AddressSets(l.name) : s.block <= tip
    PROVE  ChainOrder'
<1>1. \A m \in logs : m.pos < l.pos
    BY NewPosition
<1>2. logs' = logs \cup {l} /\ l \in Log /\ l.kind = "AddressSet"
      /\ l.pos \in Nat /\ tip \in Nat
    BY LogOfKind DEF Emit, Log, AddressSetLog, ChainTypeOK
<1>3. /\ Ordered'
      /\ \A name, s, m :
            m \in logs /\ LastBefore(s, m, AddressSets(name))
                => LastBefore(s, m, AddressSets(name)')
    BY <1>1, <1>2, OrderOfEmit
<1>4. ASSUME NEW name \in ContractNames
      PROVE  AddressSets(name)' = IF l.name = name
                                  THEN AddressSets(name) \cup {l}
                                  ELSE AddressSets(name)
    BY <1>2 DEF AddressSets, OfKind
<1>5. AddressesMove'
    <2> SUFFICES ASSUME NEW name \in ContractNames
                 PROVE  LET S == AddressSets(name)'
                        IN  /\ \E s \in S :
                                  s.block = DeployBlock /\ s.pos <= 1
                            /\ \A r, s \in S : r.block = s.block => r = s
                            /\ \A r, s \in S :
                                  LastBefore(r, s, S) =>
                                      r.newAddress # s.newAddress
        BY DEF AddressesMove, LastBefore
    <2> DEFINE S == AddressSets(name)
    <2>0. /\ \E s \in S : s.block = DeployBlock /\ s.pos <= 1
          /\ \A r, s \in S : r.block = s.block => r = s
          /\ \A r, s \in S :
                LastBefore(r, s, S) => r.newAddress # s.newAddress
        BY DEF ChainOrder, AddressesMove
    <2>1. CASE l.name # name
        BY <1>4, <2>0, <2>1
    <2>2. CASE l.name = name
        <3>1. S' = S \cup {l}
            BY <1>4, <2>2
        <3>2. \A s \in S : /\ s \in logs /\ s.block <= tip /\ s.block # l.block
                           /\ s.pos \in Nat /\ s.pos < l.pos
            BY <1>1, <1>2, <2>2, AddressSetsAre
        <3>3. ASSUME NEW r \in S', NEW s \in S', LastBefore(r, s, S')
              PROVE  r.newAddress # s.newAddress
            <4>1. r \in S
                BY <1>2, <3>1, <3>2, <3>3 DEF LastBefore
            <4>2. CASE s = l
                <5>1. IsLast(r, S)
                    BY <3>1, <3>2, <3>3, <4>1, <4>2 DEF LastBefore, IsLast
                <5>2. r.newAddress \in Registered(name)
                    BY <4>1, <5>1 DEF Registered
                <5> QED
                    BY <2>2, <4>2, <5>2
            <4>3. CASE s \in S
                <5>1. LastBefore(r, s, S)
                    BY <3>1, <3>3, <4>1 DEF LastBefore
                <5> QED
                    BY <2>0, <4>1, <4>3, <5>1
            <4> QED
                BY <3>1, <4>2, <4>3
        <3> QED
            BY <2>0, <3>1, <3>2, <3>3
    <2> QED
        BY <2>1, <2>2
<1>6. EmittedByRegistered'
    <2> SUFFICES ASSUME NEW m \in logs, m.kind # "AddressSet"
                 PROVE  \E s \in AddressSets(ContractOf(m))' :
                            /\ LastBefore(s, m, AddressSets(ContractOf(m))')
                            /\ m.address = s.newAddress
        BY <1>2 DEF EmittedByRegistered, ChainOrder, ContractOf, LastBefore
    <2>1. PICK s \in AddressSets(ContractOf(m)) :
              /\ LastBefore(s, m, AddressSets(ContractOf(m)))
              /\ m.address = s.newAddress
        BY DEF ChainOrder, EmittedByRegistered
    <2>2. AddressSets(ContractOf(m)) \subseteq AddressSets(ContractOf(m))'
        BY <1>4, ContractOfType
    <2> QED
        BY <1>3, <2>1, <2>2
<1> QED
    BY <1>3, <1>5, <1>6 DEF ChainOrder

\* A reorganisation cuts the chain behind every deployment.
LEMMA ChainOrderReorg ==
    ASSUME ChainTypeOK, ChainOrder, Reorg
    PROVE  ChainOrder'
<1>1. PICK h \in final .. tip - 1 :
          tip' = h /\ logs' = {l \in logs : l.block <= h}
    BY DEF Reorg
<1>2. /\ \A l \in logs : l.pos \in Nat /\ l.block \in Nat
      /\ h \in Nat /\ DeployBlock \in Nat /\ DeployBlock <= h
    BY LogOfKind, L1ChainAssumption DEF ChainTypeOK
<1>3. \A name : AddressSets(name)' = {s \in AddressSets(name) : s.block <= h}
    BY <1>1 DEF AddressSets, OfKind
<1>4. ASSUME NEW name, NEW l \in logs', NEW s
      PROVE  LastBefore(s, l, AddressSets(name)')
                 <=> LastBefore(s, l, AddressSets(name))
    <2>1. \A r \in AddressSets(name) :
              r.pos < l.pos => r \in AddressSets(name)'
        BY <1>1, <1>2, <1>3, AddressSetsAre DEF ChainOrder, Ordered
    <2> QED
        BY <1>3, <2>1 DEF LastBefore
<1>5. Ordered'
    BY <1>1, <1>2 DEF ChainOrder, Ordered
<1>6. AddressesMove'
    <2> SUFFICES ASSUME NEW name \in ContractNames
                 PROVE  LET S == AddressSets(name)'
                        IN  /\ \E s \in S :
                                  s.block = DeployBlock /\ s.pos <= 1
                            /\ \A r, s \in S : r.block = s.block => r = s
                            /\ \A r, s \in S :
                                  LastBefore(r, s, S) =>
                                      r.newAddress # s.newAddress
                            /\ "AddressSet" \notin Kinds =>
                                  \A s \in S : s.block = DeployBlock
        BY DEF AddressesMove, LastBefore
    <2>1. \A s \in AddressSets(name)' : s \in AddressSets(name) /\ s \in logs'
        BY <1>1, <1>3, AddressSetsAre
    <2>2. \E s \in AddressSets(name)' : s.block = DeployBlock /\ s.pos <= 1
        BY <1>2, <1>3 DEF ChainOrder, AddressesMove
    <2>3. \A r, s \in AddressSets(name)' :
              LastBefore(r, s, AddressSets(name)') =>
                  r.newAddress # s.newAddress
        BY <1>4, <2>1 DEF ChainOrder, AddressesMove
    <2> QED
        BY <2>1, <2>2, <2>3 DEF ChainOrder, AddressesMove
<1>7. EmittedByRegistered'
    <2> SUFFICES ASSUME NEW l \in logs', l.kind # "AddressSet"
                 PROVE  /\ l.pos > 1
                        /\ \E s \in AddressSets(ContractOf(l))' :
                              /\ LastBefore(s, l, AddressSets(ContractOf(l))')
                              /\ l.address = s.newAddress
        BY DEF EmittedByRegistered, ContractOf, LastBefore
    <2>1. PICK s \in AddressSets(ContractOf(l)) :
              /\ LastBefore(s, l, AddressSets(ContractOf(l)))
              /\ l.address = s.newAddress
        BY <1>1 DEF ChainOrder, EmittedByRegistered
    <2>2. LastBefore(s, l, AddressSets(ContractOf(l))')
        BY <1>4, <2>1
    <2>3. l.pos > 1
        BY <1>1 DEF ChainOrder, EmittedByRegistered
    <2> QED
        BY <2>1, <2>2, <2>3 DEF LastBefore
<1> QED
    BY <1>5, <1>6, <1>7 DEF ChainOrder

LEMMA ChainOrderStep ==
    ASSUME ChainTypeOK, ChainUnique, ChainOrder, ChainStep \/ Reorg
    PROVE  ChainOrder'
<1>1. CASE SetAddress
    <2>0. PICK name \in Upgradable, pos \in NextPos :
              \E a \in Addresses \ Registered(name) :
                  /\ \A s \in AddressSets(name) : s.block <= tip
                  /\ Emit([pos |-> pos, block |-> tip + 1,
                           kind |-> "AddressSet", name |-> name,
                           newAddress |-> a])
        BY <1>1 DEF SetAddress
    <2>1. PICK a \in Addresses \ Registered(name) :
              /\ \A s \in AddressSets(name) : s.block <= tip
              /\ Emit([pos |-> pos, block |-> tip + 1, kind |-> "AddressSet",
                       name |-> name, newAddress |-> a])
        BY <2>0
    <2>2. /\ pos \in Nat /\ name \in ContractNames /\ tip + 1 \in Nat
          /\ "AddressSet" \in Kinds
        BY <1>1, NextTypes, L1ChainAssumption
        DEF SetAddress, CanEmit, ChainTypeOK
    <2> DEFINE l == [pos |-> pos, block |-> tip + 1, kind |-> "AddressSet",
                     name |-> name, newAddress |-> a]
    <2>3. l \in AddressSetLog
        BY <2>2 DEF AddressSetLog
    <2>4. /\ Emit(l) /\ l.block = tip + 1 /\ l.pos = pos
          /\ l.name = name /\ l.newAddress = a
        BY <2>1
    <2> HIDE DEF l
    <2> QED
        BY <2>1, <2>2, <2>3, <2>4, ChainOrderAddress
<1>2. CASE Enqueue
    <2>1. PICK a \in Registered(CTC), pos \in NextPos,
               q \in NextQueueIndex :
              Emit([pos |-> pos, block |-> tip + 1,
                    kind |-> "TransactionEnqueued", address |-> a,
                    queueIndex |-> q])
        BY <1>2 DEF Enqueue
    <2>2. a \in Addresses /\ pos \in Nat /\ q \in Nat /\ tip + 1 \in Nat
        BY NextTypes DEF ChainTypeOK
    <2> DEFINE l == [pos |-> pos, block |-> tip + 1,
                     kind |-> "TransactionEnqueued", address |-> a,
                     queueIndex |-> q]
    <2>3. /\ l \in Log /\ Emit(l) /\ l.block = tip + 1 /\ l.pos = pos
          /\ l.kind # "AddressSet" /\ l.address = a /\ ContractOf(l) = CTC
        BY <2>1, <2>2 DEF ContractOf, Log, EnqueuedLog
    <2> HIDE DEF l
    <2> QED
        BY <2>1, <2>3, ChainOrderEvent
<1>3. ASSUME NEW kind \in TransactionBatchKinds, NEW shape \in Shapes,
             AppendTransactionBatch(kind, shape)
      PROVE  ChainOrder'
    <2>1. PICK a \in Registered(CTC), pos \in NextPos,
               b \in NextBatchIndex(TransactionBatches),
               prev \in TotalElements(TransactionBatches),
               queueStart \in NextToDequeue :
              Emit([pos |-> pos, block |-> tip + 1, kind |-> kind,
                    address |-> a, batchIndex |-> b, prev |-> prev,
                    shape |-> shape, queueStart |-> queueStart])
        BY <1>3 DEF AppendTransactionBatch
    <2>2. /\ a \in Addresses /\ pos \in Nat /\ b \in Nat
          /\ prev \in Nat /\ queueStart \in Nat /\ tip + 1 \in Nat
        BY NextTypes DEF ChainTypeOK
    <2> DEFINE l == [pos |-> pos, block |-> tip + 1, kind |-> kind,
                     address |-> a, batchIndex |-> b, prev |-> prev,
                     shape |-> shape, queueStart |-> queueStart]
    <2>3. /\ l \in TransactionBatchLog /\ Emit(l) /\ l.block = tip + 1
          /\ l.pos = pos /\ l.kind = kind /\ l.address = a
        BY <2>1, <2>2 DEF TransactionBatchLog
    <2> HIDE DEF l
    <2>4. /\ l \in Log /\ l.kind # "AddressSet" /\ ContractOf(l) = CTC
        BY <2>3 DEF ContractOf, Log, TransactionBatchKinds
    <2> QED
        BY <2>1, <2>3, <2>4, ChainOrderEvent
<1>4. CASE AppendStateBatch
    <2>1. PICK a \in Registered(SCC), pos \in NextPos,
               b \in NextBatchIndex(StateBatches), prev \in TotalStates,
               total \in TotalElements(TransactionBatches) :
              \E size \in 1 .. total - prev :
                  Emit([pos |-> pos, block |-> tip + 1,
                        kind |-> "StateBatchAppended", address |-> a,
                        batchIndex |-> b, prev |-> prev, size |-> size])
        BY <1>4 DEF AppendStateBatch
    <2>2. PICK size \in 1 .. total - prev :
              Emit([pos |-> pos, block |-> tip + 1,
                    kind |-> "StateBatchAppended", address |-> a,
                    batchIndex |-> b, prev |-> prev, size |-> size])
        BY <2>1
    <2>3. /\ a \in Addresses /\ pos \in Nat /\ b \in Nat /\ prev \in Nat
          /\ total \in Nat /\ size \in Nat /\ tip + 1 \in Nat
        BY NextTypes DEF ChainTypeOK
    <2> DEFINE l == [pos |-> pos, block |-> tip + 1,
                     kind |-> "StateBatchAppended", address |-> a,
                     batchIndex |-> b, prev |-> prev, size |-> size]
    <2>4. /\ l \in Log /\ Emit(l) /\ l.block = tip + 1 /\ l.pos = pos
          /\ l.kind # "AddressSet" /\ l.address = a /\ ContractOf(l) = SCC
        BY <2>2, <2>3 DEF ContractOf, Log, StateBatchLog
    <2> HIDE DEF l
    <2> QED
        BY <2>1, <2>4, ChainOrderEvent
<1>5. CASE AppendSequencerBatch
    BY <1>3, <1>5 DEF AppendSequencerBatch, TransactionBatchKinds
<1>6. CASE AppendQueueBatch
    BY <1>3, <1>6 DEF AppendQueueBatch, TransactionBatchKinds
<1>7. CASE Mine
    <2>1. logs' = logs /\ tip' = tip + 1 /\ tip \in Nat
        BY <1>7 DEF Mine, ChainTypeOK
    <2>2. \A name : AddressSets(name)' = AddressSets(name)
        BY <2>1 DEF AddressSets, OfKind
    <2>3. Ordered'
        BY <2>1, LogOfKind DEF ChainOrder, Ordered, ChainTypeOK
    <2>4. AddressesMove' /\ EmittedByRegistered'
        BY <2>1, <2>2
        DEF ChainOrder, AddressesMove, EmittedByRegistered, LastBefore,
            ContractOf
    <2> QED
        BY <2>3, <2>4 DEF ChainOrder
<1>8. CASE Reorg
    BY <1>8, ChainOrderReorg
<1> QED
    BY <1>1, <1>2, <1>4, <1>5, <1>6, <1>7, <1>8 DEF ChainStep

\* A batch takes its queue elements after those of every other batch.
LEMMA QueueTakenOnceStep ==
    ASSUME ChainTypeOK, QueueTakenOnce, ChainStep \/ Reorg
    PROVE  QueueTakenOnce'
<1>sets. TransactionBatches \subseteq TransactionBatchLog
    BY LogSets
<1>1. ASSUME NEW kind \in TransactionBatchKinds, NEW shape \in Shapes,
             AppendTransactionBatch(kind, shape)
      PROVE  QueueTakenOnce'
    <2>1. PICK a \in Registered(CTC), pos \in NextPos,
               b \in NextBatchIndex(TransactionBatches),
               prev \in TotalElements(TransactionBatches),
               queueStart \in NextToDequeue :
              Emit([pos |-> pos, block |-> tip + 1, kind |-> kind,
                    address |-> a, batchIndex |-> b, prev |-> prev,
                    shape |-> shape, queueStart |-> queueStart])
        BY <1>1 DEF AppendTransactionBatch
    <2> DEFINE l == [pos |-> pos, block |-> tip + 1, kind |-> kind,
                     address |-> a, batchIndex |-> b, prev |-> prev,
                     shape |-> shape, queueStart |-> queueStart]
    <2>2. logs' = logs \cup {l} /\ l.queueStart = queueStart
        BY <2>1 DEF Emit
    <2> HIDE DEF l
    <2>3. TransactionBatches' \subseteq TransactionBatches \cup {l}
        BY <2>2 DEF TransactionBatches, OfKind
    <2>4. \A m \in TransactionBatches :
              m.queueStart + NumQueued(m.shape) <= l.queueStart
        BY <2>2, EndIsLast DEF NextToDequeue
    <2> QED
        BY <2>3, <2>4 DEF QueueTakenOnce
<1>2. ASSUME TransactionBatches' \subseteq TransactionBatches
      PROVE  QueueTakenOnce'
    BY <1>2 DEF QueueTakenOnce
<1>2a. ASSUME NEW l, Emit(l), l.kind \notin TransactionBatchKinds
       PROVE  QueueTakenOnce'
    BY <1>2, <1>2a DEF Emit, TransactionBatches, OfKind
<1>3. CASE SetAddress \/ Enqueue \/ AppendStateBatch
    BY <1>2a, <1>3
    DEF SetAddress, Enqueue, AppendStateBatch, TransactionBatchKinds
<1>4. CASE Mine \/ Reorg
    BY <1>2, <1>4 DEF Mine, Reorg, TransactionBatches, OfKind
<1> QED
    BY <1>1, <1>3, <1>4
    DEF ChainStep, AppendSequencerBatch, AppendQueueBatch,
        TransactionBatchKinds

-----------------------------------------------------------------------------
(* What the window reads.                                                  *)

\* Below the final block nothing of the chain changes any more.
LEMMA BelowFinal ==
    ASSUME ChainTypeOK, L1Step, NEW n \in Int, n <= final
    PROVE  /\ \A l : l.block <= n => (l \in logs' <=> l \in logs)
           /\ \A l, name :
                 l.block <= n =>
                     (l \in AddressSets(name)' <=> l \in AddressSets(name))
           /\ \A l : Covered(l, n)' <=> Covered(l, n)
<1>1. \A l : l.block <= n => (l \in logs' <=> l \in logs)
    <2>1. CASE ~ChainNext
        BY <2>1, Frame
    <2>2. CASE ChainNext
        <3>1. ChainStep \/ Reorg
            BY <2>2 DEF ChainNext
        <3>2. \A l \in logs : l.block \in Nat
            BY LogOfKind DEF ChainTypeOK
        <3>3. final \in Nat /\ tip \in Nat /\ final <= tip
            BY DEF ChainTypeOK
        <3>4. \A l \in logs : l.block <= n => l \in logs'
            BY <3>1, <3>2, <3>3, FinalKept
        <3>5. ASSUME NEW l, Emit(l), l.block = tip + 1
              PROVE  \A m \in logs' : m.block <= n => m \in logs
            BY <3>3, <3>5 DEF Emit
        <3>6. \A m \in logs' : m.block <= n => m \in logs
            <4>1. CASE SetAddress \/ Enqueue \/ AppendStateBatch
                BY <3>5, <4>1 DEF SetAddress, Enqueue, AppendStateBatch
            <4>2. CASE AppendSequencerBatch \/ AppendQueueBatch
                BY <3>5, <4>2
                DEF AppendSequencerBatch, AppendQueueBatch,
                    AppendTransactionBatch
            <4>3. CASE Mine \/ Reorg
                BY <4>3 DEF Mine, Reorg
            <4> QED
                BY <3>1, <4>1, <4>2, <4>3 DEF ChainStep
        <3> QED
            BY <3>4, <3>6
    <2> QED
        BY <2>1, <2>2
<1>2. \A l, name :
          l.block <= n => (l \in AddressSets(name)' <=> l \in AddressSets(name))
    BY <1>1 DEF AddressSets, OfKind
<1>3. ASSUME NEW l
      PROVE  Covered(l, n)' <=> Covered(l, n)
    <2>1. \A s : s.block = n =>
              (s \in AddressSets(ContractOf(l))'
                   <=> s \in AddressSets(ContractOf(l)))
        BY <1>2
    <2> QED
        BY <2>1 DEF Covered, ContractOf
<1> QED
    BY <1>1, <1>2, <1>3

\* While an event is emitted from an address, no change of its contract
\* comes between the address and the event: if none comes between the event
\* and block n either, its address is the one found for block n.
LEMMA EventAddress ==
    ASSUME ChainTypeOK, ChainUnique, ChainOrder,
           NEW l \in logs, l.kind # "AddressSet", NEW n \in Int, NEW a,
           RightAddress(a, AddressSets(ContractOf(l)), n),
           l.block <= n,
           \A s \in AddressSets(ContractOf(l)) : s.block = n => l.pos < s.pos,
           \A s \in AddressSets(ContractOf(l)) : l.pos < s.pos => n <= s.block
    PROVE  l.address = a
<1> DEFINE S == AddressSets(ContractOf(l))
<1>1. /\ l.pos \in Nat /\ l.block \in Nat
      /\ \A s \in S : /\ s.pos \in Nat /\ s.block \in Nat
                      /\ s \in logs /\ s.pos # l.pos
    BY LogOfKind, AddressSetsAre DEF ChainTypeOK, ChainUnique
<1>2. PICK r \in S : LastBefore(r, l, S) /\ l.address = r.newAddress
    BY DEF ChainOrder, EmittedByRegistered
<1>3. r.block <= l.block
    BY <1>2, <1>1 DEF ChainOrder, Ordered, LastBefore
<1>4. r.block < n
    BY <1>1, <1>2, <1>3 DEF LastBefore
<1>5. PICK s \in S : /\ s.block < n /\ s.newAddress = a
                     /\ \A q \in S : q.block < n => q.pos <= s.pos
    BY <1>1, <1>4 DEF RightAddress
<1>6. s.pos < l.pos
    BY <1>1, <1>5
<1>7. s.pos = r.pos
    BY <1>1, <1>2, <1>4, <1>5, <1>6 DEF LastBefore
<1>8. s = r
    BY <1>1, <1>7 DEF ChainUnique
<1> QED
    BY <1>2, <1>5, <1>8

\* The other way round: an event whose address is the one found for block n
\* comes before any change of its contract in block n.
LEMMA EventBeforeMove ==
    ASSUME ChainTypeOK, ChainUnique, ChainOrder,
           NEW l \in logs, l.kind # "AddressSet", NEW n \in Int,
           RightAddress(l.address, AddressSets(ContractOf(l)), n),
           l.block = n,
           NEW s \in AddressSets(ContractOf(l)), s.block = n
    PROVE  l.pos < s.pos
<1> DEFINE S == AddressSets(ContractOf(l))
<1>1. /\ l.pos \in Nat /\ l.block \in Nat
      /\ \A r \in S : /\ r.pos \in Nat /\ r.block \in Nat
                      /\ r \in logs /\ r.pos # l.pos
                      /\ r.newAddress \in Addresses
    BY LogOfKind, AddressSetsAre DEF ChainTypeOK, ChainUnique
<1> SUFFICES ASSUME s.pos < l.pos
             PROVE  FALSE
    BY <1>1
<1>2. PICK r \in S : LastBefore(r, l, S) /\ l.address = r.newAddress
    BY DEF ChainOrder, EmittedByRegistered
<1>3. s.pos <= r.pos /\ r.pos < l.pos
    BY <1>2 DEF LastBefore
<1>4. r.block = n
    <2>1. CASE s.pos = r.pos
        BY <1>1, <2>1 DEF ChainUnique
    <2>2. CASE s.pos < r.pos
        BY <1>1, <1>3, <2>2 DEF ChainOrder, Ordered
    <2> QED
        BY <1>1, <1>3, <2>1, <2>2
<1>5. r = s
    BY <1>4, ContractOfType DEF ChainOrder, AddressesMove
<1>6. l.address # AddressZero
    BY <1>1, <1>2, L1ChainAssumption
<1>7. PICK q \in S : /\ q.block < n /\ q.newAddress = l.address
                     /\ \A x \in S : x.block < n => x.pos <= q.pos
    BY <1>6 DEF RightAddress
<1>8. q.pos < s.pos
    <2>1. q.pos # s.pos
        BY <1>1, <1>7 DEF ChainUnique
    <2>2. ~(s.pos < q.pos)
        BY <1>1, <1>7 DEF ChainOrder, Ordered
    <2> QED
        BY <1>1, <2>1, <2>2
<1>9. ASSUME NEW x \in S, x.pos < s.pos
      PROVE  x.pos <= q.pos
    <2>1. x.block <= n
        BY <1>1, <1>9 DEF ChainOrder, Ordered
    <2>2. x.block # n
        BY <1>1, <1>9, ContractOfType DEF ChainOrder, AddressesMove
    <2> QED
        BY <1>1, <1>7, <2>1, <2>2
<1>10. LastBefore(q, s, S)
    BY <1>8, <1>9 DEF LastBefore
<1> QED
    BY <1>2, <1>5, <1>7, <1>10, ContractOfType DEF ChainOrder, AddressesMove

-----------------------------------------------------------------------------
(* What is recorded stays recorded.                                        *)

\* Later queue elements of a batch have higher indices, and none reaches
\* the end of the batch's part of the queue.
LEMMA NumQueuedBefore ==
    ASSUME NEW s \in Seq(QueueOrigins), NEW j \in 1 .. Len(s), s[j] = "l1"
    PROVE  /\ NumQueued(SubSeq(s, 1, j - 1)) \in Nat
           /\ NumQueued(s) \in Nat
           /\ NumQueued(SubSeq(s, 1, j - 1)) < NumQueued(s)
           /\ \A k \in 1 .. Len(s) :
                 j < k => NumQueued(SubSeq(s, 1, j - 1))
                              < NumQueued(SubSeq(s, 1, k - 1))
<1> DEFINE Q(k) == {i \in 1 .. k - 1 : s[i] = "l1"}
<1>1. ASSUME NEW k \in 1 .. Len(s) + 1
      PROVE  /\ IsFiniteSet(Q(k))
             /\ Cardinality(Q(k)) \in Nat
             /\ NumQueued(SubSeq(s, 1, k - 1)) = Cardinality(Q(k))
    <2>1. IsFiniteSet(1 .. k - 1)
        BY FS_Interval
    <2>2. IsFiniteSet(Q(k))
        BY <2>1, FS_Subset
    <2>3. /\ DOMAIN SubSeq(s, 1, k - 1) = 1 .. k - 1
          /\ \A i \in 1 .. k - 1 : SubSeq(s, 1, k - 1)[i] = s[i]
        OBVIOUS
    <2>4. {i \in DOMAIN SubSeq(s, 1, k - 1) :
               SubSeq(s, 1, k - 1)[i] = "l1"} = Q(k)
        BY <2>3
    <2> QED
        BY <2>2, <2>4, FS_CardinalityType DEF NumQueued
<1>2. ASSUME NEW k \in 1 .. Len(s) + 1, j < k
      PROVE  Cardinality(Q(j)) < Cardinality(Q(k))
    <2>1. Q(j) \subseteq Q(k) /\ j \in Q(k) /\ j \notin Q(j)
        BY <1>2
    <2>2. Q(j) # Q(k)
        BY <2>1
    <2> HIDE DEF Q
    <2> QED
        BY <1>1, <2>1, <2>2, FS_Subset
<1>3. NumQueued(s) = Cardinality(Q(Len(s) + 1))
    <2>1. DOMAIN s = 1 .. (Len(s) + 1) - 1
        OBVIOUS
    <2> QED
        BY <2>1 DEF NumQueued
<1> HIDE DEF Q
<1>4. Len(s) + 1 \in 1 .. Len(s) + 1 /\ j < Len(s) + 1
      /\ j \in 1 .. Len(s) + 1 /\ Len(s) \in Nat
    OBVIOUS
<1>5. \A k \in 1 .. Len(s) : k \in 1 .. Len(s) + 1
    BY <1>4
<1> QED
    BY <1>1, <1>2, <1>3, <1>4, <1>5

\* An element of the queue is in at most one place of the canonical chain.
LEMMA QueuedOnce ==
    ASSUME ChainTypeOK, QueueTakenOnce,
           NEW l \in logs, NEW m \in logs,
           NEW tx \in EntriesOf(l, "transaction"),
           NEW ty \in EntriesOf(m, "transaction"),
           tx.queueOrigin = "l1", ty.queueOrigin = "l1",
           tx.queueIndex = ty.queueIndex
    PROVE  tx.index = ty.index
<1>1. /\ l.kind \in TransactionBatchKinds /\ m.kind \in TransactionBatchKinds
      /\ tx \in TransactionEntries(l) /\ ty \in TransactionEntries(m)
    BY DEF EntriesOf
<1>2. l \in TransactionBatches /\ m \in TransactionBatches
    BY <1>1 DEF TransactionBatches, OfKind
<1>3. /\ l \in TransactionBatchLog /\ m \in TransactionBatchLog
      /\ l.queueStart \in Nat /\ m.queueStart \in Nat
      /\ l.shape \in Seq(QueueOrigins) /\ m.shape \in Seq(QueueOrigins)
    BY <1>2, LogSets, ShapeType DEF TransactionBatchLog
<1>4. PICK j \in 1 .. Len(l.shape) :
          /\ tx.index = TransactionIndex(l, j)
          /\ l.shape[j] = "l1"
          /\ tx.queueIndex = l.queueStart + NumQueued(SubSeq(l.shape, 1, j - 1))
    BY <1>1 DEF TransactionEntries, QueueIndex
<1>5. PICK k \in 1 .. Len(m.shape) :
          /\ ty.index = TransactionIndex(m, k)
          /\ m.shape[k] = "l1"
          /\ ty.queueIndex = m.queueStart + NumQueued(SubSeq(m.shape, 1, k - 1))
    BY <1>1 DEF TransactionEntries, QueueIndex
<1>6. /\ NumQueued(SubSeq(l.shape, 1, j - 1)) \in Nat
      /\ NumQueued(l.shape) \in Nat
      /\ NumQueued(SubSeq(l.shape, 1, j - 1)) < NumQueued(l.shape)
    BY <1>3, <1>4, NumQueuedBefore
<1>7. /\ NumQueued(SubSeq(m.shape, 1, k - 1)) \in Nat
      /\ NumQueued(m.shape) \in Nat
      /\ NumQueued(SubSeq(m.shape, 1, k - 1)) < NumQueued(m.shape)
    BY <1>3, <1>5, NumQueuedBefore
<1> DEFINE before(n, shape) == NumQueued(SubSeq(shape, 1, n - 1))
<1>same. l.queueStart + before(j, l.shape) = m.queueStart + before(k, m.shape)
    BY <1>4, <1>5
<1> HIDE DEF before
<1>8. l = m
    <2>1. CASE l.queueStart + NumQueued(l.shape) <= m.queueStart
        BY <1>3, <1>6, <1>7, <1>same, <2>1 DEF before
    <2>2. CASE m.queueStart + NumQueued(m.shape) <= l.queueStart
        BY <1>3, <1>6, <1>7, <1>same, <2>2 DEF before
    <2> QED
        BY <1>2, <2>1, <2>2 DEF QueueTakenOnce
<1>prefix. before(j, l.shape) = before(k, l.shape) /\ before(j, l.shape) \in Nat
    BY <1>3, <1>6, <1>7, <1>8, <1>same DEF before
<1>9. ~(j < k)
    <2>1. \A i \in 1 .. Len(l.shape) :
              j < i => before(j, l.shape) < before(i, l.shape)
        BY <1>3, <1>4, NumQueuedBefore DEF before
    <2> QED
        BY <1>8, <1>prefix, <2>1
<1>10. ~(k < j)
    <2>1. \A i \in 1 .. Len(l.shape) :
              k < i => before(k, l.shape) < before(i, l.shape)
        BY <1>3, <1>5, <1>8, NumQueuedBefore DEF before
    <2> QED
        BY <1>8, <1>prefix, <2>1
<1>11. j = k
    BY <1>3, <1>8, <1>9, <1>10
<1> QED
    BY <1>4, <1>5, <1>8, <1>11

\* The pointer of a table does not go back while reads do not fail.
LEMMA LatestKept ==
    ASSUME TypeInv, L1Step, NoFailingReads, NEW t \in Tables, latest[t] # Null
    PROVE  latest'[t] # Null /\ latest[t] <= latest'[t]
<1>1. latest \in [Tables -> Nat \cup {Null}] /\ latest[t] \in Nat
    BY DEF TypeInv, TypeOK, DBTypeOK
<1>2. CASE StoreLatestEntry
    <2>1. PICK l \in events : \E e \in EntriesOf(l, table) :
              \E got \in {latest[table], Null} :
                  Get(latest[table], got) /\ PutLatestEntry(table, e.index, got)
        BY <1>2 DEF StoreLatestEntry
    <2>2. PICK e \in EntriesOf(l, table), got \in {latest[table], Null} :
              Get(latest[table], got) /\ PutLatestEntry(table, e.index, got)
        BY <2>1
    <2>3. got = latest[table]
        BY <2>2 DEF Get, CanFault, NoFailingReads
    <2>4. table \in Tables /\ l \in Log
        BY <1>2 DEF StoreLatestEntry, TypeInv, ControlOK, TypeOK
    <2>5. e.index \in Nat
        BY <2>4, EntriesOfType
    <2>6. Null \notin Nat
        BY NullAssumption
    <2>7. latest' = [latest EXCEPT ![table] = Latest(@, e.index, got)]
        BY <2>2 DEF PutLatestEntry
    <2>8. CASE t = table
        BY <1>1, <2>3, <2>5, <2>6, <2>7, <2>8 DEF Latest, ToNumber
    <2>9. CASE t # table
        BY <1>1, <2>7, <2>9
    <2> QED
        BY <2>8, <2>9
<1>3. CASE ~StoreLatestEntry
    BY <1>1, <1>3, Frame
<1> QED
    BY <1>2, <1>3

\* The records of a log do not depend on the state.
LEMMA EntriesOfRigid ==
    ASSUME NEW l
    PROVE  /\ \A t : EntriesOf(l, t)' = EntriesOf(l, t)
           /\ ContractOf(l)' = ContractOf(l)
    BY DEF EntriesOf, TransactionBatchEntry, TransactionEntries,
           StateRootEntries, StateRootBatchEntry, TransactionIndex, QueueIndex,
           ContractOf

\* Replays and crashes do not undo what has been recorded of an event.
LEMMA RecordedKept ==
    ASSUME IndexInv, QueueTakenOnce, L1Step, NEW l \in logs
    PROVE  /\ \A t \in Tables : RecordedIn(l, t) => RecordedIn(l, t)'
           /\ \A tx \in EntriesOf(l, "transaction") :
                 tx.queueOrigin = "l1" /\ Linked(tx) => Linked(tx)'
           /\ Recorded(l) => Recorded(l)'
<1>inv. /\ ImmutableInv /\ StoringOrder /\ TypeInv /\ TypeOK /\ ChainTypeOK
        /\ StoredIsFinal
    BY DEF IndexInv, ImmutableInv, FinalInv, TypeInv, TypeOK
<1>1. ASSUME NEW t \in Tables, RecordedIn(l, t)
      PROVE  RecordedIn(l, t)'
    <2>1. EntriesOf(l, t) \subseteq entries'[t]
        BY <1>1, <1>inv, EntriesKept DEF RecordedIn
    <2>2. ASSUME NoFailingReads, NEW e \in EntriesOf(l, t)
          PROVE  latest'[t] # Null /\ e.index <= latest'[t]
        <3>1. latest[t] # Null /\ e.index <= latest[t]
            BY <1>1, <2>2 DEF RecordedIn
        <3>2. latest'[t] # Null /\ latest[t] <= latest'[t]
            BY <1>inv, <2>2, <3>1, LatestKept
        <3>3. TypeInv'
            BY <1>inv, TypeInvStep
        <3>4. latest[t] \in Nat /\ latest'[t] \in Nat
            BY <1>inv, <3>1, <3>2, <3>3 DEF TypeInv, TypeOK, DBTypeOK
        <3>5. e.index \in Nat
            BY <1>inv, EntriesOfType DEF ChainTypeOK
        <3> QED
            BY <3>1, <3>2, <3>4, <3>5
    <2> QED
        BY <2>1, <2>2, EntriesOfRigid DEF RecordedIn, NoFailingReads
<1>2. ASSUME NEW tx \in EntriesOf(l, "transaction"), tx.queueOrigin = "l1",
             Linked(tx)
      PROVE  Linked(tx)'
    <2>1. CASE StoreCtcIndex
        <3>1. PICK ty \in pending :
                  PutTransactionIndexByQueueIndex(ty.queueIndex, ty.index)
            BY <2>1 DEF StoreCtcIndex
        <3>2. ty \in entries["transaction"] /\ ty.queueOrigin = "l1"
            BY <1>inv DEF StoringOrder, TypeOK, QueuedEntry
        <3>3. PICK m \in logs : ty \in EntriesOf(m, "transaction")
            BY <1>inv, <3>2 DEF StoredIsFinal, Tables
        <3>4. tx.queueIndex = ty.queueIndex => tx.index = ty.index
            BY <1>2, <1>inv, <3>2, <3>3, QueuedOnce
        <3> QED
            BY <1>2, <3>1, <3>4 DEF Linked, PutTransactionIndexByQueueIndex
    <2>2. CASE ~StoreCtcIndex
        BY <1>2, <2>2, Frame DEF Linked
    <2> QED
        BY <2>1, <2>2
<1>3. ASSUME Recorded(l)
      PROVE  Recorded(l)'
    <2>1. \A t \in Tables : RecordedIn(l, t)'
        BY <1>1, <1>3 DEF Recorded
    <2>2. \A tx \in EntriesOf(l, "transaction") :
              tx.queueOrigin = "l1" => Linked(tx)'
        BY <1>2, <1>3 DEF Recorded
    <2>3. \A tx \in EntriesOf(l, "transaction")' :
              tx.queueOrigin = "l1" => Linked(tx)'
        BY <2>2, EntriesOfRigid
    <2> QED
        BY <2>1, <2>3 DEF Recorded, Tables, RecordedIn
<1> QED
    BY <1>1, <1>2, <1>3

-----------------------------------------------------------------------------
(* The starting block and the blocks of the window.                        *)

\* A number has one quotient and one remainder.
LEMMA OneRemainder ==
    ASSUME NEW r \in Nat \ {0}, NEW p \in Int, NEW q \in Int,
           NEW c \in 0 .. r - 1, NEW d \in 0 .. r - 1,
           r * p + c = r * q + d
    PROVE  c = d
OBVIOUS

\* The next multiple of r, and the remainder of what lies between.
LEMMA NextMultiple ==
    ASSUME NEW r \in Nat \ {0}, NEW a \in Nat, a % r = 0
    PROVE  /\ (a + r) % r = 0
           /\ \A d \in a .. a + r - 1 : d % r = d - a
<1>1. \A n \in Nat : n = r * (n \div r) + (n % r) /\ n % r \in 0 .. r - 1
                         /\ n \div r \in Nat
    OBVIOUS
<1> DEFINE q == a \div r
<1>2. a = r * q /\ q \in Nat
    BY <1>1
<1> HIDE DEF q
<1>3. (a + r) % r = 0
    <2> DEFINE n == a + r
               p == n \div r
               c == n % r
    <2>1. n = r * (q + 1) + 0 /\ q + 1 \in Nat /\ 0 \in 0 .. r - 1
        BY <1>2
    <2>2. n \in Nat
        OBVIOUS
    <2>3. n = r * p + c /\ c \in 0 .. r - 1 /\ p \in Nat
        BY <1>1, <2>2
    <2> HIDE DEF n, p, c
    <2>4. r * p + c = r * (q + 1) + 0
        BY <2>1, <2>3
    <2>5. c = 0
        <3>1. p \in Int /\ q + 1 \in Int
            BY <2>1, <2>3
        <3> QED
            BY <2>1, <2>3, <2>4, <3>1, OneRemainder
    <2> QED
        BY <2>5 DEF n, c
<1>4. ASSUME NEW d \in a .. a + r - 1
      PROVE  d % r = d - a
    <2>1. d = r * q + (d - a) /\ d - a \in 0 .. r - 1 /\ d \in Nat
        BY <1>2
    <2> DEFINE p == d \div r
               c == d % r
    <2>2. d = r * p + c /\ c \in 0 .. r - 1 /\ p \in Nat
        BY <1>1, <2>1
    <2> HIDE DEF p, c
    <2>3. r * p + c = r * q + (d - a)
        BY <2>1, <2>2
    <2>4. c = d - a
        <3>1. p \in Int /\ q \in Int
            BY <1>2, <2>2
        <3> QED
            BY <2>1, <2>2, <2>3, <3>1, OneRemainder
    <2> QED
        BY <2>4 DEF c
<1> QED
    BY <1>3, <1>4

\* The search stops at the deployment, or its next query still begins before
\* it, or there is no next query.
LEMMA SearchFinds ==
    ASSUME DeploymentKnown, ChainTypeOK, ChainUnique, ChainOrder, from \in Int,
           current \in Int, pc = "search", StartKnown, from < current,
           NEW view \in Views
    PROVE  /\ \A s \in AddressSetsFound(view) :
                 IsFirst(s, AddressSetsFound(view)) => s.block = DeployBlock
           /\ (from + SearchRange) % SearchRange = 0
           /\ "AddressSet" \in Kinds /\ AddressSetsFound(view) = {} =>
                 \/ from + SearchRange <= DeployBlock
                 \/ current <= from + SearchRange
<1> DEFINE end == IF from + SearchRange < current
                  THEN from + SearchRange ELSE current
<1>1. /\ DeployBlock \in Nat /\ InitTip \in Nat /\ MaxLag \in Nat
      /\ MaxReorg \in Nat /\ Confirmations \in Nat
      /\ Confirmations >= MaxReorg + MaxLag
      /\ SearchRange \in Nat \ {0} /\ view \in Int /\ final \in Nat
      /\ InitTip - MaxLag <= view /\ final - MaxLag <= view
      /\ from \in Nat
    BY L1ChainAssumption, L1IngestionAssumption
    DEF ChainTypeOK, Views, StartKnown
<1>2. PICK d \in AddressSets(CTC) : d.block = DeployBlock
    BY DEF ChainOrder, AddressesMove, ContractNames
<1>3. d \in OfKind({"AddressSet"})
    BY DEF AddressSets
<1>4. ASSUME NEW s \in AddressSetsFound(view)
      PROVE  /\ s \in logs /\ s.kind = "AddressSet"
             /\ s.pos \in Nat /\ s.block \in Nat
             /\ s.name \in ContractNames
             /\ DeployBlock <= s.block
             /\ s.block <= BlockTag(end, view) /\ s.block <= view
    BY LogOfKind
    DEF AddressSetsFound, LogsBetween, OfKind, ChainTypeOK, ChainOrder,
        Ordered, AddressSetLog
<1>5. /\ from % SearchRange = 0
      /\ current <= final + MaxReorg
      /\ "AddressSet" \in Kinds => from <= DeployBlock
    BY <1>1 DEF StartKnown, SearchOK
<1>6. /\ (from + SearchRange) % SearchRange = 0
      /\ \A n \in from .. from + SearchRange - 1 : n % SearchRange = n - from
    BY <1>1, <1>5, NextMultiple
<1>7. CASE "AddressSet" \in Kinds
    <2>1. from <= DeployBlock
        BY <1>5, <1>7
    <2>2. /\ end \in Nat
          /\ BlockTag(end, view) = end /\ BlockTag(from, view) = from
        BY <1>1 DEF BlockTag
    <2>3. DeployBlock <= end /\ DeployBlock <= view =>
              d \in AddressSetsFound(view)
        BY <1>1, <1>2, <1>3, <2>1, <2>2 DEF AddressSetsFound, LogsBetween
    <2>4. ASSUME NEW s \in AddressSetsFound(view),
                 IsFirst(s, AddressSetsFound(view))
          PROVE  s.block = DeployBlock
        <3>1. DeployBlock <= end /\ DeployBlock <= view
            BY <1>1, <1>4, <2>2
        <3>2. s.pos <= d.pos /\ d \in logs /\ d.pos \in Nat
            BY <2>3, <2>4, <3>1, <1>4 DEF IsFirst
        <3>3. CASE s.pos < d.pos
            BY <1>1, <1>2, <1>4, <3>2, <3>3 DEF ChainOrder, Ordered
        <3>4. CASE s.pos = d.pos
            BY <1>2, <1>4, <3>2, <3>4 DEF ChainUnique
        <3> QED
            BY <1>4, <3>2, <3>3, <3>4
    <2>5. ASSUME AddressSetsFound(view) = {},
                 DeployBlock < from + SearchRange,
                 from + SearchRange < current
          PROVE  FALSE
        <3>1. DeployBlock <= end /\ ~(DeployBlock <= view)
            BY <1>1, <2>3, <2>5
        <3>2. (DeployBlock % SearchRange) + Confirmations <= SearchRange
            BY <1>1, <1>7, <3>1 DEF DeploymentKnown
        <3>3. DeployBlock % SearchRange = DeployBlock - from
            <4>1. DeployBlock \in from .. from + SearchRange - 1
                BY <1>1, <2>1, <2>5
            <4> QED
                BY <1>6, <4>1
        <3>4. DeployBlock + Confirmations <= from + SearchRange
            BY <1>1, <3>2, <3>3
        <3>5. current <= view + Confirmations
            BY <1>1, <1>5
        <3> QED
            BY <1>1, <2>5, <3>1, <3>4, <3>5
    <2> QED
        BY <1>1, <1>6, <2>4, <2>5
<1>8. CASE "AddressSet" \notin Kinds
    <2>1. \A s \in AddressSetsFound(view) : s \in AddressSets(s.name)
        BY <1>4 DEF AddressSets, OfKind
    <2>2. \A s \in AddressSetsFound(view) : s.block = DeployBlock
        BY <1>4, <1>8, <2>1 DEF ChainOrder, AddressesMove
    <2> QED
        BY <1>6, <1>8, <2>2
<1> QED
    BY <1>7, <1>8

LEMMA StartKnownStep ==
    ASSUME DeploymentKnown, TypeInv, ChainUnique, ChainOrder, 0 <= synced,
           StartKnown, L1Step
    PROVE  StartKnown'
<1>type. /\ ChainTypeOK /\ DBTypeOK
         /\ from \in Int /\ current \in Int /\ startBlock \in Nat
         /\ DeployBlock \in Nat \ {0} /\ InitTip \in Nat /\ MaxLag \in Nat
         /\ SearchRange \in Nat
    BY L1ChainAssumption, L1IngestionAssumption DEF TypeInv, TypeOK
<1> USE DEF StartKnown
<1>1. CASE FindStartingL1Block
    <2>1. PICK got \in {starting, Null} :
              \/ /\ ToNumber(got) # 0
                 /\ startBlock' = got
                 /\ pc' = "total"
                 /\ UNCHANGED current
              \/ /\ ToNumber(got) = 0
                 /\ current' \in Views
                 /\ pc' = "search"
                 /\ UNCHANGED startBlock
        BY <1>1 DEF FindStartingL1Block
    <2>2. pc = "start" /\ UNCHANGED <<starting, from>>
        BY <1>1 DEF FindStartingL1Block, dbVars
    <2>3. pc' = "search" => SearchOK'
        <3>1. from' = 0 /\ final' = final
            BY <1>1, <2>2 DEF FindStartingL1Block, chainVars, InWindow
        <3>2. 0 % SearchRange = 0 /\ 0 <= DeployBlock
            BY <1>type, L1IngestionAssumption
        <3>3. \A n \in Views : n <= final + MaxReorg
            BY <1>type, L1ChainAssumption DEF Views, ChainTypeOK
        <3> QED
            BY <2>1, <3>1, <3>2, <3>3 DEF SearchOK
    <2>5. pc' = "total" => startBlock' = DeployBlock
        BY <2>1 DEF ToNumber
    <2> QED
        BY <1>type, <2>1, <2>2, <2>3, <2>5 DEF InWindow
<1>2. CASE SearchStartingL1Block
    <2>1. pc = "search" /\ UNCHANGED final
        BY <1>2 DEF SearchStartingL1Block, chainVars
    <2>2. CASE \E view \in Views : \E s \in AddressSetsFound(view) :
                   /\ from < current
                   /\ IsFirst(s, AddressSetsFound(view))
                   /\ startBlock' = s.block
                   /\ starting' = s.block
                   /\ from' = 0 /\ pc' = "total"
        <3>1. startBlock' = DeployBlock /\ starting' = DeployBlock
              /\ from' = 0 /\ pc' = "total"
            BY <1>type, <2>1, <2>2, SearchFinds
        <3> QED
            BY <3>1 DEF InWindow
    <2>3. CASE /\ from < current
               /\ \E view \in Views : AddressSetsFound(view) = {}
               /\ from' = from + SearchRange
               /\ UNCHANGED <<current, startBlock, starting, pc>>
        <3>1. /\ (from + SearchRange) % SearchRange = 0
              /\ "AddressSet" \in Kinds =>
                    \/ from + SearchRange <= DeployBlock
                    \/ current <= from + SearchRange
            BY <1>type, <2>1, <2>3, SearchFinds
        <3>2. SearchOK'
            BY <2>1, <2>3, <3>1 DEF SearchOK
        <3> HIDE DEF SearchOK
        <3> QED
            BY <1>type, <2>1, <2>3, <3>2 DEF InWindow
    <2>4. CASE from' = 0 /\ pc' = "down" /\ UNCHANGED <<startBlock, starting>>
        BY <2>4 DEF InWindow
    <2> QED
        BY <1>2, <2>2, <2>3, <2>4
        DEF SearchStartingL1Block, SetStartingL1Block
<1>3. CASE Poll
    <2>1. /\ pc = "poll" /\ UNCHANGED <<startBlock, starting>>
          /\ \/ pc' = "sleep" /\ UNCHANGED from
             \/ pc' = "resolve" /\ from' \in {startBlock, synced}
        BY <1>3 DEF Poll, dbVars, pollVars, ToNumber
    <2> QED
        BY <1>type, <2>1 DEF InWindow
<1>4. CASE FinishIteration
    <2>1. pc = "done" /\ pc' \in {"sleep", "poll"} /\ from' = 0
          /\ UNCHANGED <<startBlock, starting>>
        BY <1>4 DEF FinishIteration, EndIteration
    <2> QED
        BY <2>1 DEF InWindow
<1>5. CASE Interrupted
    <2>1. /\ from' = 0 /\ UNCHANGED starting
          /\ \/ /\ pc \notin InitPCs \cup {"down"} /\ pc' = "sleep"
                /\ UNCHANGED startBlock
             \/ pc' = "down" /\ startBlock' = 0
        BY <1>5 DEF Interrupted, EndIteration, dbVars
    <2> QED
        BY <2>1 DEF InitPCs, InWindow
<1>6. CASE LoadContracts \/ StoreTotalElements \/ Wake \/ Restart \/ Returned
    <2>1. /\ UNCHANGED <<from, startBlock, starting>>
          /\ <<pc, pc'>> \in {<<"init", "start">>, <<"init", "down">>,
                             <<"total", "poll">>, <<"sleep", "poll">>,
                             <<"down", "init">>, <<"poll", "down">>}
        BY <1>6
        DEF LoadContracts, StoreTotalElements, Wake, Restart, Returned,
            dbVars, localVars, pollVars
    <2> QED
        BY <2>1 DEF InWindow
<1>7. CASE ChainNext \/ Elsewhere
    <2>1. UNCHANGED <<pc, from, current, startBlock, starting>>
        BY <1>7 DEF ChainNext, Elsewhere, dbVars, localVars, pollVars
    <2>2. final' \in Nat /\ final <= final'
        BY <1>type, <1>7, L1ChainAssumption, FinalKept, TypeInvStep
        DEF ChainNext, Elsewhere, chainVars, ChainTypeOK, TypeInv, TypeOK
    <2>3. pc = "search" => SearchOK'
        <3>1. from' = from /\ current' = current
            BY <2>1
        <3>2. /\ current \in Int /\ MaxReorg \in Nat
              /\ final \in Nat /\ final' \in Nat
            BY <1>type, <2>2, L1ChainAssumption DEF ChainTypeOK
        <3>3. current <= final + MaxReorg => current <= final' + MaxReorg
            <4> DEFINE later == final'
            <4>1. later \in Nat /\ final <= later
                BY <2>2
            <4> HIDE DEF later
            <4>2. current <= final + MaxReorg => current <= later + MaxReorg
                BY <3>2, <4>1
            <4> QED
                BY <4>2 DEF later
        <3> QED
            BY <3>1, <3>3 DEF SearchOK
    <2> QED
        BY <2>1, <2>3
<1>8. CASE \/ QueryAddressSets \/ PushAddressRange \/ PushLastRange
           \/ QueryEvents \/ EndSyncEvents \/ EndRange \/ ParseEvent
           \/ StoreEntries \/ StoreLatestEntry \/ StoreCtcIndex
           \/ EndStoreBatch
    <2>1. /\ UNCHANGED <<from, startBlock, starting>>
          /\ pc \in InWindow /\ pc' \in InWindow \cup {"done"}
        BY <1>8
        DEF QueryAddressSets, PushAddressRange, PushLastRange, QueryEvents,
            EndSyncEvents, EndRange, ParseEvent, StoreEntries,
            StoreLatestEntry, StoreCtcIndex, EndStoreBatch,
            dbVars, localVars, pollVars, InWindow
    <2> QED
        BY <1>type, <2>1 DEF InWindow
<1> QED
    BY <1>1, <1>2, <1>3, <1>4, <1>5, <1>6, <1>7, <1>8 DEF L1Step, Service

\* Which action changes which local variable of the loop.
LEMMA LoopFrame ==
    ASSUME L1Step, ~FinishIteration, ~Interrupted
    PROVE  /\ ~Poll => UNCHANGED to
           /\ ~Poll /\ ~SearchStartingL1Block => UNCHANGED from
           /\ ~Poll /\ ~EndSyncEvents => UNCHANGED sync
           /\ ~QueryAddressSets /\ ~PushAddressRange /\ ~PushLastRange =>
                 UNCHANGED <<addressSets, rangeStart>>
           /\ ~PushAddressRange /\ ~PushLastRange /\ ~QueryEvents =>
                 UNCHANGED ranges
           /\ ~QueryEvents /\ ~StoreLatestEntry /\ ~EndStoreBatch =>
                 UNCHANGED events
           /\ ~ParseEvent /\ ~StoreLatestEntry => UNCHANGED table
           /\ ~StoreLatestEntry /\ ~StoreCtcIndex => UNCHANGED pending
<1> USE DEF localVars, pollVars, rangeVars, eventVars
<1>1. CASE ChainNext \/ Restart \/ Returned \/ Elsewhere
    BY <1>1 DEF ChainNext, Restart, Returned, Elsewhere
<1>2. CASE \/ LoadContracts \/ FindStartingL1Block
           \/ SearchStartingL1Block \/ StoreTotalElements \/ Poll \/ Wake
    BY <1>2
    DEF LoadContracts, FindStartingL1Block, SearchStartingL1Block,
        StoreTotalElements, Poll, Wake
<1>3. CASE \/ QueryAddressSets \/ PushAddressRange \/ PushLastRange
           \/ QueryEvents \/ EndSyncEvents \/ EndRange \/ ParseEvent
    BY <1>3
    DEF QueryAddressSets, PushAddressRange, PushLastRange, QueryEvents,
        EndSyncEvents, EndRange, ParseEvent
<1>4. CASE \/ StoreEntries \/ StoreLatestEntry \/ StoreCtcIndex
           \/ EndStoreBatch
    BY <1>4
    DEF StoreEntries, StoreLatestEntry, StoreCtcIndex, EndStoreBatch
<1> QED
    BY <1>1, <1>2, <1>3, <1>4 DEF L1Step, Service

\* How the loop goes round.
LEMMA Control ==
    ASSUME L1Step
    PROVE  /\ pc' = "ranges" =>
                 pc = "ranges" \/ QueryAddressSets
           /\ pc' = "query" => pc = "query" \/ PushLastRange \/ EndRange
           /\ pc' \in {"event", "store", "latest", "index"} =>
                 pc \in {"event", "store", "latest", "index"} \/ QueryEvents
           /\ pc' = "store" =>
                 pc = "store" \/ ParseEvent \/ StoreLatestEntry
           /\ pc' = "latest" => pc = "latest" \/ StoreEntries
           /\ pc' = "index" => pc = "index" \/ StoreLatestEntry
           /\ pc' = "resolve" => pc = "resolve" \/ Poll \/ EndSyncEvents
           /\ pc' = "done" => pc = "done" \/ EndSyncEvents
           /\ pc' \in InWindow => pc \in InWindow \/ Poll
           /\ pc \in InWindow =>
                 pc' \in InWindow \/ EndSyncEvents \/ Interrupted
<1> USE DEF InWindow
<1>1. CASE ChainNext \/ Restart \/ Interrupted \/ Returned \/ Elsewhere
    BY <1>1 DEF ChainNext, Restart, Interrupted, Returned, Elsewhere
<1>2. CASE \/ LoadContracts \/ FindStartingL1Block
           \/ SearchStartingL1Block \/ StoreTotalElements \/ Poll \/ Wake
    BY <1>2
    DEF LoadContracts, FindStartingL1Block, SearchStartingL1Block,
        StoreTotalElements, Poll, Wake
<1>3. CASE \/ QueryAddressSets \/ PushAddressRange \/ PushLastRange
           \/ QueryEvents \/ EndSyncEvents \/ EndRange \/ ParseEvent
    BY <1>3
    DEF QueryAddressSets, PushAddressRange, PushLastRange, QueryEvents,
        EndSyncEvents, EndRange, ParseEvent
<1>4. CASE \/ StoreEntries \/ StoreLatestEntry \/ StoreCtcIndex
           \/ EndStoreBatch \/ FinishIteration
    BY <1>4
    DEF StoreEntries, StoreLatestEntry, StoreCtcIndex, EndStoreBatch,
        FinishIteration
<1> QED
    BY <1>1, <1>2, <1>3, <1>4 DEF L1Step, Service

\* The window ends where the most lagging node has confirmed the blocks.
LEMMA WindowSeenStep ==
    ASSUME MatureL1, TypeInv, StartKnown, WindowSeen, L1Step
    PROVE  WindowSeen'
<1>type. /\ ChainTypeOK /\ final \in Nat /\ synced \in Int /\ to \in Int
         /\ startBlock \in Nat /\ MaxLag \in Nat /\ from \in Int
         /\ DeployBlock <= final /\ DeployBlock \in Nat
    BY L1ChainAssumption DEF TypeInv, TypeOK, ChainTypeOK, DBTypeOK
<1>1. CASE Poll
    <2>1. PICK got \in {synced, Null}, view \in Views :
              LET highest == IF ToNumber(got) = 0 THEN startBlock ELSE got
                  head == Confirmed(view)
                  target == IF highest + LogsPerPoll <= head
                            THEN highest + LogsPerPoll ELSE head
              IN  \/ UNCHANGED pollVars /\ pc' = "sleep"
                  \/ to' = target /\ from' = highest
        BY <1>1 DEF Poll
    <2> DEFINE highest == IF ToNumber(got) = 0 THEN startBlock ELSE got
               head == Confirmed(view)
               target == IF highest + LogsPerPoll <= head
                         THEN highest + LogsPerPoll ELSE head
    <2>2. highest \in Nat
        BY <1>type DEF ToNumber, WindowSeen
    <2>3. head \in Nat
        BY <1>type, ConfirmedIsFinal
    <2>4. head <= final - MaxLag
        BY <1>type, L1ChainAssumption, L1IngestionAssumption
        DEF Confirmed, Views, ChainTypeOK
    <2> HIDE DEF highest, head
    <2>5. target \in Nat /\ target <= final - MaxLag
        BY <1>type, <2>2, <2>3, <2>4, L1IngestionAssumption
    <2> HIDE DEF target
    <2>6. /\ to' = to \/ to' = target
          /\ pc' \in InWindow => from' \in {synced, startBlock}
        BY <2>1 DEF highest, head, target, pollVars, ToNumber, InWindow
    <2>7. UNCHANGED <<final, synced>> /\ startBlock = DeployBlock
        BY <1>1 DEF Poll, chainVars, dbVars, StartKnown
    <2>8. synced <= final
        BY <1>type DEF WindowSeen
    <2> QED
        BY <1>type, <2>5, <2>6, <2>7, <2>8 DEF WindowSeen
<1>2. CASE FinishIteration
    <2>1. /\ synced' = to /\ to' = 0 /\ UNCHANGED final
          /\ pc' \notin InWindow
        BY <1>2
        DEF FinishIteration, SetHighestSyncedL1Block, EndIteration, chainVars,
            InWindow
    <2> QED
        BY <1>type, <2>1 DEF WindowSeen
<1>3. CASE Interrupted
    <2>1. to' = 0 /\ UNCHANGED <<synced, final>> /\ pc' \notin InWindow
        BY <1>3 DEF Interrupted, EndIteration, chainVars, dbVars, InWindow
    <2> QED
        BY <1>type, <2>1 DEF WindowSeen
<1>4. CASE ~Poll /\ ~FinishIteration /\ ~Interrupted
    <2>1. UNCHANGED <<synced, to>>
        BY <1>4, Frame, LoopFrame
    <2>1a. pc' \in InWindow => pc \in InWindow /\ from' = from
        <3>1. pc' \in InWindow => pc \in InWindow
            BY <1>4, Control
        <3>2. pc \in InWindow => ~SearchStartingL1Block
            BY DEF SearchStartingL1Block, InWindow
        <3> QED
            BY <1>4, <3>1, <3>2, LoopFrame
    <2>2. final' \in Nat /\ final <= final'
        <3>1. CASE ChainNext
            BY <1>type, <3>1, ChainStepType, FinalKept
            DEF ChainNext, ChainTypeOK
        <3>2. CASE ~ChainNext
            BY <1>type, <3>2, Frame
        <3> QED
            BY <3>1, <3>2
    <2>3. PICK f \in Nat : f = final' /\ final <= f
        BY <2>2
    <2>3a. final <= f
        BY <2>3
    <2>4. /\ 0 <= synced /\ synced <= f - MaxLag
          /\ 0 <= to /\ to <= f - MaxLag
          /\ pc \in InWindow => from <= f
        BY <1>type, <2>3a DEF WindowSeen
    <2>5. synced' = synced /\ to' = to /\ final' = f
        BY <2>1, <2>3
    <2> QED
        BY <2>1a, <2>4, <2>5 DEF WindowSeen
<1> QED
    BY <1>1, <1>2, <1>3, <1>4

-----------------------------------------------------------------------------
(* The ranges of a window.                                                 *)

\* However far the node lags that answers, it answers with all logs of the
\* window.
LEMMA ReadComplete ==
    ASSUME ChainTypeOK, WindowSeen, NEW view \in Views,
           NEW S \in SUBSET logs, NEW m \in Nat, NEW n \in Nat, n <= to,
           to \in Int
    PROVE  LogsBetween(S, m, n, view)
               = {l \in S : m <= l.block /\ l.block <= n}
<1>1. /\ tip \in Nat /\ final \in Nat /\ final <= tip /\ MaxLag \in Nat
      /\ view \in Int /\ tip - MaxLag <= view
    BY L1ChainAssumption DEF ChainTypeOK, Views
<1>2. n <= view
    BY <1>1 DEF WindowSeen
<1>3. BlockTag(m, view) = m /\ BlockTag(n, view) = n
    BY DEF BlockTag
<1>4. \A l \in S : l.block \in Nat
    BY LogOfKind DEF ChainTypeOK
<1> QED
    BY <1>1, <1>2, <1>3, <1>4 DEF LogsBetween

\* The address that _getContractAddressAtBlock answers is the right one.
LEMMA AddressFound ==
    ASSUME ChainTypeOK, ChainOrder, WindowSeen, to \in Int,
           startBlock = DeployBlock, NEW view \in Views,
           NEW n \in Int, n <= to, NEW name, NEW a,
           IsAddressAtBlock(a, name, n, view)
    PROVE  RightAddress(a, AddressSets(name), n)
<1>1. /\ tip \in Nat /\ final \in Nat /\ final <= tip /\ MaxLag \in Nat
      /\ view \in Int /\ tip - MaxLag <= view
      /\ DeployBlock \in Nat
    BY L1ChainAssumption DEF ChainTypeOK, Views
<1>2. n <= view
    BY <1>1 DEF WindowSeen
<1>3. \A s \in AddressSets(name) : s.block \in Nat /\ DeployBlock <= s.block
    BY AddressSetsAre DEF ChainOrder, Ordered
<1> DEFINE S == {s \in AddressSets(name) :
                    startBlock <= s.block /\ s.block <= view /\ s.block < n}
<1>4. S = {s \in AddressSets(name) : s.block < n}
    BY <1>1, <1>2, <1>3
<1>5. \/ S = {} /\ a = AddressZero
      \/ \E s \in S : IsLast(s, S) /\ a = s.newAddress
    BY DEF IsAddressAtBlock
<1> HIDE DEF S
<1> QED
    BY <1>3, <1>4, <1>5 DEF RightAddress, IsLast

\* What was right stays right.
LEMMA RightAddressKept ==
    ASSUME ChainTypeOK, L1Step, NEW n \in Int, n <= final, NEW a, NEW name,
           RightAddress(a, AddressSets(name), n)
    PROVE  RightAddress(a, AddressSets(name)', n)
<1>1. ChainTypeOK'
    <2>1. CASE ChainNext
        BY <2>1, ChainStepType DEF ChainNext
    <2>2. CASE ~ChainNext
        BY <2>2, Frame DEF ChainTypeOK
    <2> QED
        BY <2>1, <2>2
<1>2. \A s \in AddressSets(name)' : s.block \in Nat
    BY <1>1, LogOfKind DEF ChainTypeOK, AddressSets, OfKind
<1>3. \A s \in AddressSets(name) : s.block \in Nat
    BY AddressSetsAre
<1>4. \A s : s.block <= n =>
          (s \in AddressSets(name)' <=> s \in AddressSets(name))
    BY BelowFinal
<1>5. CASE a = AddressZero /\ \A s \in AddressSets(name) : n <= s.block
    <2>1. \A s \in AddressSets(name)' : n <= s.block
        BY <1>2, <1>4, <1>5
    <2> QED
        BY <1>5, <2>1 DEF RightAddress
<1>6. CASE \E s \in AddressSets(name) :
               /\ s.block < n /\ s.newAddress = a
               /\ \A r \in AddressSets(name) : r.block < n => r.pos <= s.pos
    <2>1. PICK s \in AddressSets(name) :
              /\ s.block < n /\ s.newAddress = a
              /\ \A r \in AddressSets(name) : r.block < n => r.pos <= s.pos
        BY <1>6
    <2>2. s \in AddressSets(name)'
        BY <1>3, <1>4, <2>1
    <2>3. \A r \in AddressSets(name)' : r.block < n => r.pos <= s.pos
        BY <1>2, <1>4, <2>1
    <2> QED
        BY <2>1, <2>2, <2>3 DEF RightAddress
<1> QED
    BY <1>5, <1>6 DEF RightAddress

\* Appending a range keeps the ranges before it.
LEMMA RangeAppended ==
    ASSUME TypeOK, ChainOrder, WindowSeen, startBlock = DeployBlock,
           sync \in 1 .. 3, NEW n \in Int, n <= to, PushEventRange(n),
           NEW S, S = AddressSets(Syncs[sync].contract),
           0 <= rangeStart, RangesOK
    PROVE  /\ Len(ranges') = Len(ranges) + 1 /\ Len(ranges) \in Nat
           /\ \A i \in 1 .. Len(ranges) : ranges'[i] = ranges[i]
           /\ ranges'[Len(ranges) + 1].fromBlock = rangeStart
           /\ ranges'[Len(ranges) + 1].toBlock = n
           /\ RightAddress(ranges'[Len(ranges) + 1].address, S, n)
           /\ \A i \in 1 .. Len(ranges') :
                 /\ 0 <= ranges'[i].fromBlock
                 /\ ranges'[i].toBlock <= to
                 /\ RightAddress(ranges'[i].address, S, ranges'[i].toBlock)
<1>1. PICK view \in Views, a \in Addresses \cup {AddressZero} :
          /\ IsAddressAtBlock(a, Syncs[sync].contract, n, view)
          /\ ranges' = Append(ranges, [address |-> a, fromBlock |-> rangeStart,
                                       toBlock |-> n])
    BY DEF PushEventRange
<1>2. RightAddress(a, S, n)
    BY <1>1, AddressFound DEF TypeOK
<1>3. ranges \in Seq(EventRange)
    BY DEF TypeOK
<1>4. /\ Len(ranges') = Len(ranges) + 1 /\ Len(ranges) \in Nat
      /\ \A i \in 1 .. Len(ranges) : ranges'[i] = ranges[i]
      /\ ranges'[Len(ranges) + 1] = [address |-> a, fromBlock |-> rangeStart,
                                     toBlock |-> n]
    BY <1>1, <1>3
<1>5. \A i \in 1 .. Len(ranges) :
          /\ 0 <= ranges[i].fromBlock
          /\ ranges[i].toBlock <= to
          /\ RightAddress(ranges[i].address, S, ranges[i].toBlock)
    BY DEF RangesOK
<1>6. \A i \in 1 .. Len(ranges') :
          i \in 1 .. Len(ranges) \/ i = Len(ranges) + 1
    BY <1>4
<1> QED
    BY <1>2, <1>4, <1>5, <1>6

\* Every range has the address its contract has in it.
LEMMA RangesOKStep ==
    ASSUME TypeInv, ChainUnique, ChainOrder, StartKnown, WindowSeen, RangesOK,
           L1Step
    PROVE  RangesOK'
<1>type. /\ TypeOK /\ ChainTypeOK
         /\ from \in Int /\ to \in Int /\ rangeStart \in Int
         /\ ranges \in Seq(EventRange) /\ Len(ranges) \in Nat
         /\ \A i \in 1 .. Len(ranges) : ranges[i].toBlock \in Int
    <2>1. TypeOK /\ ranges \in Seq(EventRange)
        BY DEF TypeInv, TypeOK
    <2>2. \A i \in 1 .. Len(ranges) : ranges[i] \in EventRange
        BY <2>1
    <2> QED
        BY <2>1, <2>2 DEF TypeOK, EventRange
<1>final. to <= final /\ 0 <= to /\ 0 <= from
    BY <1>type, L1ChainAssumption DEF WindowSeen, ChainTypeOK, StartKnown
<1>sync. pc \in InWindow => sync \in 1 .. 3
    BY DEF TypeInv, ControlOK, InWindow
<1> DEFINE name == Syncs[sync].contract
           S == AddressSets(name)
<1>none. ASSUME ranges' = <<>>, pc' # "ranges"
         PROVE  RangesOK'
    BY <1>none DEF RangesOK
<1>kept. ASSUME UNCHANGED <<sync, to, from, addressSets, rangeStart, ranges>>,
                pc' = "ranges" => pc = "ranges",
                ranges # <<>> => pc' \in InWindow \ {"resolve"}
         PROVE  RangesOK'
    <2>1. \A i \in 1 .. Len(ranges) :
              RightAddress(ranges[i].address, S', ranges[i].toBlock)
        <3> SUFFICES ASSUME NEW i \in 1 .. Len(ranges)
                     PROVE  RightAddress(ranges[i].address, S',
                                         ranges[i].toBlock)
            OBVIOUS
        <3>1. PICK n : n = Syncs[sync].contract
            OBVIOUS
        <3>2. RightAddress(ranges[i].address, AddressSets(n),
                           ranges[i].toBlock)
            BY <3>1 DEF RangesOK
        <3>3. ranges[i].toBlock \in Int /\ ranges[i].toBlock <= final
            <4>1. ranges[i].toBlock <= to
                BY DEF RangesOK
            <4>2. final \in Int
                BY <1>type DEF ChainTypeOK
            <4> QED
                BY <1>type, <1>final, <4>1, <4>2
        <3>4. PICK a, m : a = ranges[i].address /\ m = ranges[i].toBlock
            OBVIOUS
        <3>5. RightAddress(a, AddressSets(n)', m)
            BY <1>type, <3>2, <3>3, <3>4, RightAddressKept
        <3>6. S' = AddressSets(n)'
            BY <1>kept, <3>1
        <3> QED
            BY <3>4, <3>5, <3>6
    <2>2. pc = "ranges" => addressSets \subseteq S'
        <3>1. PICK n : n = Syncs[sync].contract
            OBVIOUS
        <3>2. \A s : s.block <= to =>
                  (s \in AddressSets(n)' <=> s \in AddressSets(n))
            BY <1>type, <1>final, BelowFinal
        <3>3. S' = AddressSets(n)'
            BY <1>kept, <3>1
        <3> QED
            BY <3>1, <3>2, <3>3 DEF RangesOK
    <2> QED
        BY <1>kept, <2>1, <2>2 DEF RangesOK
<1>1. CASE Poll
    <2>1. pc = "poll" /\ pc' \in {"sleep", "resolve"} /\ ranges' = ranges
        BY <1>1 DEF Poll
    <2>2. ranges = <<>>
        BY <2>1 DEF RangesOK, InWindow
    <2> QED
        BY <1>none, <2>1, <2>2
<1>2. CASE QueryAddressSets
    <2>1. PICK view \in Views :
              addressSets' = LogsBetween(S, from, to, view)
        BY <1>2 DEF QueryAddressSets
    <2>2. /\ pc = "resolve" /\ pc' = "ranges" /\ rangeStart' = from
          /\ UNCHANGED <<logs, sync, to, from, ranges>>
        BY <1>2 DEF QueryAddressSets, chainVars, pollVars
    <2>3. ranges' = <<>>
        BY <2>2 DEF RangesOK
    <2>4. addressSets' = {l \in S : from <= l.block /\ l.block <= to}
        <3>1. S \in SUBSET logs
            BY DEF AddressSets, OfKind
        <3> QED
            BY <1>type, <1>final, <2>1, <3>1, ReadComplete
    <2>5. S' = S
        BY <2>2 DEF AddressSets, OfKind
    <2>7. pc' = "ranges" => /\ from' <= rangeStart'
                            /\ addressSets' \subseteq S'
                            /\ \A s \in addressSets' :
                                  rangeStart' <= s.block /\ s.block <= to'
        BY <1>type, <2>2, <2>4, <2>5
    <2> QED
        BY <2>2, <2>3, <2>5, <2>7 DEF RangesOK, InWindow
<1>3. CASE PushAddressRange
    <2>1. PICK s \in addressSets :
              /\ IsFirst(s, addressSets)
              /\ PushEventRange(s.block)
              /\ rangeStart' = s.block
              /\ addressSets' = addressSets \ {s}
        BY <1>3 DEF PushAddressRange, RangeStartAfter
    <2>2. /\ pc = "ranges" /\ pc' = "ranges"
          /\ UNCHANGED <<logs, sync, to, from>>
        BY <1>3 DEF PushAddressRange, chainVars, pollVars
    <2>3. /\ from <= rangeStart
          /\ addressSets \subseteq S
          /\ \A r \in addressSets : rangeStart <= r.block /\ r.block <= to
        BY <2>2 DEF RangesOK
    <2>4. \A r \in addressSets :
              r \in logs /\ r.block \in Nat /\ r.pos \in Nat
        BY <1>type, <2>3, AddressSetsAre
    <2>5. /\ ranges' # <<>>
          /\ \A i \in 1 .. Len(ranges') :
                /\ 0 <= ranges'[i].fromBlock
                /\ ranges'[i].toBlock <= to
                /\ RightAddress(ranges'[i].address, S, ranges'[i].toBlock)
        <3>1. startBlock = DeployBlock /\ sync \in 1 .. 3
            BY <1>sync, <2>2 DEF StartKnown, InWindow
        <3>2. s.block \in Int /\ s.block <= to /\ 0 <= rangeStart
            BY <1>type, <1>final, <2>3, <2>4
        <3>3. /\ Len(ranges') = Len(ranges) + 1
              /\ \A i \in 1 .. Len(ranges') :
                    /\ 0 <= ranges'[i].fromBlock
                    /\ ranges'[i].toBlock <= to
                    /\ RightAddress(ranges'[i].address, S, ranges'[i].toBlock)
            BY <1>type, <2>1, <3>1, <3>2, RangeAppended
        <3> QED
            BY <1>type, <3>3
    <2>6. \A r \in addressSets' : s.block <= r.block
        <3> SUFFICES ASSUME NEW r \in addressSets, r # s
                     PROVE  s.block <= r.block
            BY <2>1
        <3>1. s.pos < r.pos
            BY <2>1, <2>4 DEF IsFirst, ChainUnique
        <3> QED
            BY <2>4, <3>1 DEF ChainOrder, Ordered
    <2>7. S' = S
        BY <2>2 DEF AddressSets, OfKind
    <2>9. from <= s.block
        BY <1>type, <2>3, <2>4
    <2>10. /\ from' <= rangeStart'
           /\ addressSets' \subseteq S'
           /\ \A r \in addressSets' :
                 rangeStart' <= r.block /\ r.block <= to'
        BY <2>1, <2>2, <2>3, <2>6, <2>7, <2>9
    <2> QED
        BY <2>2, <2>5, <2>7, <2>10 DEF RangesOK, InWindow
<1>4. CASE PushLastRange
    <2>1. /\ pc = "ranges" /\ pc' = "query" /\ PushEventRange(to)
          /\ UNCHANGED <<logs, sync, to>>
        BY <1>4 DEF PushLastRange, chainVars, pollVars
    <2>2. \A i \in 1 .. Len(ranges') :
              /\ 0 <= ranges'[i].fromBlock
              /\ ranges'[i].toBlock <= to
              /\ RightAddress(ranges'[i].address, S, ranges'[i].toBlock)
        <3>1. startBlock = DeployBlock /\ sync \in 1 .. 3
            BY <1>sync, <2>1 DEF StartKnown, InWindow
        <3>2. 0 <= rangeStart
            BY <1>type, <1>final, <2>1 DEF RangesOK
        <3> QED
            BY <1>type, <2>1, <3>1, <3>2, RangeAppended
    <2>3. S' = S
        BY <2>1 DEF AddressSets, OfKind
    <2> QED
        BY <2>1, <2>2, <2>3 DEF RangesOK, InWindow
<1>5. CASE QueryEvents
    <2>1. /\ ranges # <<>> /\ ranges' = Tail(ranges) /\ pc' = "event"
          /\ UNCHANGED <<logs, sync, to>>
        BY <1>5 DEF QueryEvents, chainVars, pollVars
    <2>2. /\ Len(ranges') = Len(ranges) - 1
          /\ \A i \in 1 .. Len(ranges') :
                i + 1 \in 1 .. Len(ranges) /\ ranges'[i] = ranges[i + 1]
        BY <1>type, <2>1
    <2>3. S' = S
        BY <2>1 DEF AddressSets, OfKind
    <2>4. \A i \in 1 .. Len(ranges') :
              /\ 0 <= ranges'[i].fromBlock
              /\ ranges'[i].toBlock <= to
              /\ RightAddress(ranges'[i].address, S, ranges'[i].toBlock)
        BY <2>2 DEF RangesOK
    <2> QED
        BY <2>1, <2>3, <2>4 DEF RangesOK, InWindow
<1>6. CASE EndSyncEvents
    <2>1. ranges' = <<>> /\ pc' \in {"resolve", "done"}
        BY <1>6 DEF EndSyncEvents
    <2> QED
        BY <1>none, <2>1
<1>7. CASE FinishIteration \/ Interrupted
    <2>1. ranges' = <<>> /\ pc' # "ranges"
        BY <1>7 DEF FinishIteration, Interrupted, EndIteration
    <2> QED
        BY <1>none, <2>1
<1>8. CASE \/ LoadContracts \/ FindStartingL1Block
           \/ SearchStartingL1Block \/ StoreTotalElements \/ Wake
           \/ Restart \/ Returned
    <2>1. pc \notin InWindow /\ pc' # "ranges" /\ ranges' = ranges
        BY <1>8
        DEF LoadContracts, FindStartingL1Block, SearchStartingL1Block,
            StoreTotalElements, Wake, Restart, Returned, localVars,
            rangeVars, InWindow
    <2>2. ranges' = <<>>
        BY <2>1 DEF RangesOK
    <2> QED
        BY <1>none, <2>1, <2>2
<1>9. CASE \/ EndRange \/ ParseEvent \/ StoreEntries \/ StoreLatestEntry
           \/ StoreCtcIndex \/ EndStoreBatch
    <2>1. /\ UNCHANGED <<sync, to, from, addressSets, rangeStart, ranges>>
          /\ pc' \in InWindow \ {"resolve", "ranges"}
        BY <1>9
        DEF EndRange, ParseEvent, StoreEntries, StoreLatestEntry,
            StoreCtcIndex, EndStoreBatch, localVars, pollVars, rangeVars,
            InWindow
    <2> QED
        BY <1>kept, <2>1
<1>10. CASE ChainNext \/ Elsewhere
    <2>1. UNCHANGED <<pc, sync, to, from, addressSets, rangeStart, ranges>>
        BY <1>10 DEF ChainNext, Elsewhere, localVars, pollVars, rangeVars
    <2>2. ranges # <<>> => pc \in InWindow \ {"resolve"}
        BY DEF RangesOK
    <2> QED
        BY <1>kept, <2>1, <2>2
<1> QED
    BY <1>1, <1>2, <1>3, <1>4, <1>5, <1>6, <1>7, <1>8, <1>9, <1>10
    DEF L1Step, Service

-----------------------------------------------------------------------------
(* The events of a range, stored one by one.                               *)

\* The three calls read different events of their contracts, and store them
\* in different tables.
LEMMA SyncOf ==
    ASSUME NEW n \in 1 .. 3, NEW l, l.kind = Syncs[n].event
    PROVE  /\ l.kind # "AddressSet"
           /\ ContractOf(l) = Syncs[n].contract
           /\ \A m \in 1 .. 3 : l.kind = Syncs[m].event => m = n
           /\ \A t : EntriesOf(l, t) # {} =>
                 t \in {Syncs[n].table, NextTable(Syncs[n].table)}
           /\ n # 2 => EntriesOf(l, "transaction") = {}
<1> USE DEF Syncs, ContractOf, EntriesOf, NextTable, TransactionBatchKinds
<1>1. CASE n = 1
    BY <1>1
<1>2. CASE n = 2
    BY <1>2
<1>3. CASE n = 3
    BY <1>3
<1> QED
    BY <1>1, <1>2, <1>3

\* The promised events are those of the three calls.
LEMMA PromisedSync ==
    ASSUME NEW l \in Promised
    PROVE  l \in logs /\ \E n \in 1 .. 3 : l.kind = Syncs[n].event
<1>1. l \in logs /\ \/ l.kind = "TransactionEnqueued"
                    \/ l.kind = "SequencerBatchAppended"
                    \/ l.kind = "StateBatchAppended"
    BY DEF Promised, OfKind
<1>2. /\ Syncs[1].event = "TransactionEnqueued"
      /\ Syncs[2].event = "SequencerBatchAppended"
      /\ Syncs[3].event = "StateBatchAppended"
    BY DEF Syncs
<1> QED
    BY <1>1, <1>2

\* The tables of a call, and how they follow each other.
LEMMA TablesOf ==
    ASSUME NEW n \in 1 .. 3, NEW t \in Tables
    PROVE  /\ Syncs[n].table # "none"
           /\ \A u \in Tables : NextTable(u) # Syncs[n].table
           /\ \A u \in Tables :
                 NextTable(u) = NextTable(t) /\ NextTable(t) # "none" => u = t
           /\ t = NextTable(Syncs[n].table) => NextTable(t) = "none"
           /\ t \in {Syncs[n].table, NextTable(Syncs[n].table)} =>
                 /\ t = "transaction" => n = 2
                 /\ NextTable(t) = "none" /\ t # Syncs[n].table =>
                       NextTable(Syncs[n].table) = t
                 /\ NextTable(t) = "none" /\ t # "transaction" =>
                       /\ n # 2
                       /\ n = 1 => NextTable(Syncs[n].table) = "none"
                       /\ n = 3 => NextTable(Syncs[n].table) = t
<1> USE DEF Syncs, NextTable, Tables
<1>1. CASE n = 1
    BY <1>1
<1>2. CASE n = 2
    BY <1>2
<1>3. CASE n = 3
    BY <1>3
<1> QED
    BY <1>1, <1>2, <1>3

\* What a query answers stands before any move of the contract in the last
\* block of the window.
LEMMA QueriedEvents ==
    ASSUME TypeInv, ChainUnique, ChainOrder, StartKnown, WindowSeen, WindowFinal,
           RangesOK, QueryEvents
    PROVE  /\ events' = {l \in logs : l.kind = Syncs[sync].event
                                      /\ InRange(l, Head(ranges))}
           /\ \A l \in events' : Covered(l, to)
           /\ ranges # <<>> /\ Head(ranges) = ranges[1]
<1>type. /\ TypeOK /\ ChainTypeOK /\ sync \in 1 .. 3
         /\ to \in Int /\ ranges # <<>> /\ ranges \in Seq(EventRange)
    BY DEF TypeInv, TypeOK, ControlOK, QueryEvents
<1> DEFINE range == ranges[1]
<1>1. 1 \in 1 .. Len(ranges) /\ Head(ranges) = range /\ range \in EventRange
    BY <1>type
<1>2. /\ range.fromBlock \in Nat /\ range.toBlock \in Nat
      /\ range.toBlock <= to
      /\ RightAddress(range.address, AddressSets(Syncs[sync].contract),
                      range.toBlock)
    BY <1>1 DEF RangesOK, WindowFinal, EventRange
<1>3. PICK view \in Views :
          events' = LogsBetween({l \in OfKind({Syncs[sync].event}) :
                                     l.address = range.address},
                                range.fromBlock, range.toBlock, view)
    BY <1>1 DEF QueryEvents
<1> HIDE DEF range
<1> DEFINE S == {l \in OfKind({Syncs[sync].event}) :
                    l.address = range.address}
<1>4. events' = {l \in S : range.fromBlock <= l.block
                           /\ l.block <= range.toBlock}
    <2>1. S \in SUBSET logs
        BY DEF OfKind
    <2>2. PICK v \in Views :
              events' = LogsBetween(S, range.fromBlock, range.toBlock, v)
        BY <1>3
    <2> HIDE DEF S
    <2>3. LogsBetween(S, range.fromBlock, range.toBlock, v)
              = {l \in S : range.fromBlock <= l.block
                           /\ l.block <= range.toBlock}
        BY <1>type, <1>2, <2>1, ReadComplete
    <2> QED
        BY <2>2, <2>3
<1>5. events' = {l \in logs : l.kind = Syncs[sync].event /\ InRange(l, range)}
    BY <1>4 DEF OfKind, InRange
<1>6. ASSUME NEW l \in events'
      PROVE  Covered(l, to)
    <2>1. /\ l \in logs /\ l.kind = Syncs[sync].event
          /\ l.address = range.address /\ l.block <= range.toBlock
        BY <1>5 DEF InRange
    <2>2. l.block \in Nat
        BY <1>type, <2>1, LogOfKind DEF ChainTypeOK
    <2>3. CASE l.block < to
        BY <2>3 DEF Covered
    <2>4. CASE l.block = to
        <3>1. l.block = range.toBlock
            BY <1>type, <1>2, <2>1, <2>2, <2>4
        <3>2. l.kind # "AddressSet" /\ ContractOf(l) = Syncs[sync].contract
            BY <1>type, <2>1, SyncOf
        <3>3. \A s \in AddressSets(ContractOf(l)) :
                  s.block = to => l.pos < s.pos
            BY <1>type, <1>2, <2>1, <2>4, <3>1, <3>2, EventBeforeMove
        <3> QED
            BY <2>4, <3>3 DEF Covered
    <2>5. l.block < to \/ l.block = to
        BY <1>type, <1>2, <2>1, <2>2
    <2> QED
        BY <2>3, <2>4, <2>5
<1> QED
    BY <1>type, <1>1, <1>5, <1>6

LEMMA EventsOKStep ==
    ASSUME TypeInv, ChainUnique, ChainOrder, StartKnown, WindowSeen, WindowFinal,
           RangesOK, EventsOK, L1Step
    PROVE  EventsOK'
<1>type. /\ TypeOK /\ ChainTypeOK /\ to \in Int /\ to <= final
         /\ pc \in InWindow => sync \in 1 .. 3
         /\ pc \in {"store", "latest"} => table \in Tables
    BY DEF TypeInv, TypeOK, ControlOK, InWindow, WindowFinal
<1>away. ASSUME pc' \notin {"event", "store", "latest", "index"}
         PROVE  EventsOK'
    BY <1>away DEF EventsOK
<1>kept. ASSUME pc \in {"event", "store", "latest", "index"},
                UNCHANGED <<sync, to>>, events' \subseteq events
         PROVE  \A l \in events' : l.kind = Syncs[sync'].event /\ Covered(l, to)'
    <2>1. \A l : Covered(l, to)' <=> Covered(l, to)
        <3>1. PICK n : n = to
            OBVIOUS
        <3>2. \A l : Covered(l, n)' <=> Covered(l, n)
            BY <1>type, <3>1, BelowFinal
        <3>3. to' = n
            BY <1>kept, <3>1
        <3> QED
            BY <3>1, <3>2, <3>3 DEF Covered
    <2> QED
        BY <1>kept, <2>1 DEF EventsOK
<1>1. CASE QueryEvents
    <2>1. /\ pc' = "event" /\ UNCHANGED <<logs, sync, to>>
        BY <1>1 DEF QueryEvents, chainVars, pollVars
    <2>2. \A l \in events' : l.kind = Syncs[sync].event /\ Covered(l, to)
        BY <1>1, QueriedEvents
    <2> QED
        BY <2>1, <2>2
        DEF EventsOK, Covered, AddressSets, OfKind, ContractOf
<1>2. CASE ParseEvent
    <2>1. /\ pc = "event" /\ pc' = "store" /\ table' = Syncs[sync].table
          /\ UNCHANGED <<sync, to, events>>
        BY <1>2 DEF ParseEvent, pollVars, rangeVars
    <2>2. Syncs[sync].table # "none"
        BY <1>type, <2>1, TablesOf DEF InWindow, Tables
    <2> QED
        BY <1>kept, <2>1, <2>2 DEF EventsOK
<1>3. CASE StoreEntries
    <2>1. /\ pc = "store" /\ pc' = "latest"
          /\ UNCHANGED <<sync, to, events, table>>
        BY <1>3
        DEF StoreEntries, localVars, pollVars, rangeVars, eventVars
    <2> QED
        BY <1>kept, <2>1 DEF EventsOK
<1>4. CASE StoreLatestEntry
    <2>1. /\ pc = "latest" /\ UNCHANGED <<sync, to>>
          /\ events' \subseteq events
          /\ \/ /\ NextTable(table) # "none" /\ table' = NextTable(table)
                /\ pc' = "store"
             \/ table = "transaction" /\ pc' = "index"
             \/ pc' = "event"
        BY <1>4 DEF StoreLatestEntry, pollVars, rangeVars
    <2>2. /\ sync \in 1 .. 3 /\ table \in Tables
          /\ table \in {Syncs[sync].table, NextTable(Syncs[sync].table)}
        BY <1>type, <2>1 DEF EventsOK, InWindow
    <2>3. /\ NextTable(table) # "none" => table = Syncs[sync].table
          /\ table = "transaction" => sync = 2
        BY <2>2, TablesOf
    <2> QED
        BY <1>kept, <2>1, <2>3 DEF EventsOK
<1>5. CASE StoreCtcIndex
    <2>1. pc = "index" /\ pc' = "index" /\ UNCHANGED <<sync, to, events>>
        BY <1>5 DEF StoreCtcIndex, pollVars, rangeVars
    <2> QED
        BY <1>kept, <2>1 DEF EventsOK
<1>6. CASE EndStoreBatch
    <2>1. /\ pc = "index" /\ pc' = "event" /\ UNCHANGED <<sync, to>>
          /\ events' \subseteq events
        BY <1>6 DEF EndStoreBatch, pollVars, rangeVars
    <2> QED
        BY <1>kept, <2>1 DEF EventsOK
<1>7. CASE ChainNext \/ Elsewhere
    <2>1. UNCHANGED <<pc, sync, to, events, table>>
        BY <1>7
        DEF ChainNext, Elsewhere, localVars, pollVars, rangeVars, eventVars
    <2> QED
        BY <1>kept, <2>1 DEF EventsOK
<1>8. CASE \/ LoadContracts \/ FindStartingL1Block
           \/ SearchStartingL1Block \/ StoreTotalElements \/ Wake \/ Poll
           \/ QueryAddressSets \/ PushAddressRange \/ PushLastRange
           \/ EndSyncEvents \/ EndRange \/ FinishIteration
           \/ Restart \/ Returned \/ Interrupted
    <2>1. pc' \notin {"event", "store", "latest", "index"}
        BY <1>8
        DEF LoadContracts, FindStartingL1Block, SearchStartingL1Block,
            StoreTotalElements, Wake, Poll, QueryAddressSets,
            PushAddressRange, PushLastRange, EndSyncEvents, EndRange,
            FinishIteration, Restart, Returned, Interrupted
    <2> QED
        BY <1>away, <2>1
<1> QED
    BY <1>1, <1>2, <1>3, <1>4, <1>5, <1>6, <1>7, <1>8 DEF L1Step, Service

\* The event that is being stored is the first one.
LEMMA FirstEvent ==
    ASSUME IndexInv, NEW l \in events, NEW m \in events,
           IsFirst(l, events), IsFirst(m, events)
    PROVE  l = m
<1>1. l \in logs /\ m \in logs /\ l.pos \in Nat /\ m.pos \in Nat
    BY LogOfKind
    DEF IndexInv, ImmutableInv, FinalInv, WindowFinal, TypeInv, TypeOK,
        ChainTypeOK
<1>2. l.pos = m.pos
    BY <1>1 DEF IsFirst
<1> QED
    BY <1>1, <1>2 DEF IndexInv, ImmutableInv, ChainUnique

\* Once the pointer is put, a table holds all there is to hold of the event.
LEMMA TableRecorded ==
    ASSUME IndexInv, StoreLatestEntry, NEW l \in events, IsFirst(l, events),
           NEW t, t = table
    PROVE  RecordedIn(l, t)'
<1>type. /\ TypeInv /\ StoringOrder /\ t \in Tables
         /\ latest \in [Tables -> Nat \cup {Null}] /\ Null \notin Nat
         /\ l \in Log
    BY NullAssumption
    DEF IndexInv, ImmutableInv, FinalInv, TypeInv, TypeOK, ControlOK,
        DBTypeOK, StoreLatestEntry
<1>1. PICK m \in events : \E e \in EntriesOf(m, table) :
          /\ IsFirst(m, events)
          /\ \A other \in EntriesOf(m, table) : other.index <= e.index
          /\ \E got \in {latest[table], Null} :
                Get(latest[table], got) /\ PutLatestEntry(table, e.index, got)
    BY DEF StoreLatestEntry, NextEvent
<1>2. m = l
    BY <1>1, FirstEvent
<1>3. PICK e \in EntriesOf(l, t) :
          /\ \A other \in EntriesOf(l, t) : other.index <= e.index
          /\ \E got \in {latest[t], Null} :
                Get(latest[t], got) /\ PutLatestEntry(t, e.index, got)
    BY <1>1, <1>2
<1>4. EntriesOf(l, t) \subseteq entries'[t]
    BY <1>type DEF StoreLatestEntry, StoringOrder
<1>5. ASSUME NoFailingReads
      PROVE  \A other \in EntriesOf(l, t) :
                 latest'[t] # Null /\ other.index <= latest'[t]
    <2>1. PutLatestEntry(t, e.index, latest[t])
        BY <1>3, <1>5 DEF Get, CanFault, NoFailingReads
    <2>2. latest'[t] = Latest(latest[t], e.index, latest[t])
        BY <1>type, <2>1 DEF PutLatestEntry
    <2>3. \A other \in EntriesOf(l, t) : other.index \in Nat
        BY <1>type, EntriesOfType
    <2>4. e.index \in Nat
        BY <2>3
    <2>5. latest'[t] \in Nat /\ e.index <= latest'[t]
        <3>1. latest[t] \in Nat \cup {Null}
            BY <1>type
        <3> QED
            BY <1>type, <2>2, <2>4, <3>1 DEF Latest, ToNumber
    <2> QED
        BY <1>3, <1>type, <2>3, <2>4, <2>5
<1> QED
    BY <1>4, <1>5, EntriesOfRigid DEF RecordedIn, NoFailingReads

\* Of the event being stored, the tables before the present one are done.
LEMMA StoredSoFarStep ==
    ASSUME IndexInv, QueueTakenOnce, EventsOK, StoredSoFar, L1Step
    PROVE  StoredSoFar'
<1>type. /\ TypeInv /\ TypeOK
         /\ pc \in {"event", "store", "latest", "index"} => sync \in 1 .. 3
         /\ pc \in {"store", "latest"} => table \in Tables
         /\ events \subseteq logs
    BY DEF IndexInv, ImmutableInv, FinalInv, TypeInv, ControlOK, WindowFinal
<1>away. ASSUME pc' \notin {"store", "latest", "index"}
         PROVE  StoredSoFar'
    BY <1>away DEF StoredSoFar
<1>rec. \A l \in events : \A t \in Tables : RecordedIn(l, t) => RecordedIn(l, t)'
    BY <1>type, RecordedKept
<1>link. \A l \in events : \A tx \in EntriesOf(l, "transaction") :
             tx.queueOrigin = "l1" /\ Linked(tx) => Linked(tx)'
    BY <1>type, RecordedKept
<1>first. ASSUME events' = events
          PROVE  \A l : IsFirst(l, events)' <=> IsFirst(l, events)
    BY <1>first DEF IsFirst
<1>storing. ASSUME UNCHANGED <<events, table>>, pc' \in {"store", "latest"},
                   pc \in {"store", "latest"}
            PROVE  StoredSoFar'
    <2>1. ASSUME NEW l \in events, IsFirst(l, events), NEW t \in Tables,
                 NextTable(t) = table
          PROVE  RecordedIn(l, t)'
        BY <1>rec, <1>storing, <2>1 DEF StoredSoFar
    <2> QED
        BY <1>storing, <1>first, <2>1 DEF StoredSoFar
<1>1. CASE ParseEvent
    <2>1. pc' = "store" /\ table' = Syncs[sync].table /\ sync \in 1 .. 3
        BY <1>1, <1>type DEF ParseEvent
    <2>2. \A t \in Tables : NextTable(t) # table'
        BY <2>1, TablesOf
    <2> QED
        BY <2>1, <2>2 DEF StoredSoFar
<1>2. CASE StoreEntries
    <2>1. pc = "store" /\ pc' = "latest" /\ UNCHANGED <<events, table>>
        BY <1>2 DEF StoreEntries, localVars, eventVars
    <2> QED
        BY <1>storing, <2>1
<1>3. CASE StoreLatestEntry
    <2>1. PICK m \in events :
              /\ pc = "latest" /\ IsFirst(m, events)
              /\ \/ /\ NextTable(table) # "none" /\ table' = NextTable(table)
                    /\ pc' = "store" /\ events' = events
                 \/ /\ table = "transaction" /\ pc' = "index"
                    /\ pending' = {tx \in EntriesOf(m, table) :
                                      tx.queueOrigin = "l1"}
                    /\ events' = events
                 \/ pc' = "event"
        BY <1>3 DEF StoreLatestEntry, NextEvent
    <2>2. /\ table \in {Syncs[sync].table, NextTable(Syncs[sync].table)}
          /\ table \in Tables /\ sync \in 1 .. 3
          /\ m.kind = Syncs[sync].event
        BY <1>type, <2>1 DEF EventsOK
    <2>3. \A l \in events : IsFirst(l, events) => l = m
        BY <2>1, FirstEvent
    <2>4. PICK t : t = table
        OBVIOUS
    <2>5. RecordedIn(m, t)'
        BY <1>3, <2>1, <2>4, TableRecorded
    <2>6. CASE NextTable(t) # "none" /\ table' = NextTable(t)
                   /\ pc' = "store" /\ events' = events
        <3>1. \A u \in Tables : NextTable(u) = NextTable(t) => u = t
            BY <2>2, <2>4, <2>6, TablesOf
        <3> QED
            BY <1>first, <2>3, <2>5, <2>6, <3>1 DEF StoredSoFar
    <2>7. CASE /\ t = "transaction" /\ pc' = "index" /\ events' = events
               /\ pending' = {tx \in EntriesOf(m, t) : tx.queueOrigin = "l1"}
        <3>1. sync = 2
            BY <2>2, <2>4, <2>7, TablesOf
        <3>2. /\ \A u : EntriesOf(m, u) # {} =>
                      u \in {"batch:transaction", "transaction"}
              /\ NextTable("batch:transaction") = "transaction"
              /\ "batch:transaction" \in Tables
            BY <2>2, <3>1, SyncOf DEF Syncs, NextTable, Tables
        <3>3. RecordedIn(m, "batch:transaction")'
            BY <1>rec, <2>1, <2>4, <2>7, <3>2 DEF StoredSoFar
        <3>4. ASSUME NEW u \in Tables
              PROVE  RecordedIn(m, u)'
            <4>1. CASE EntriesOf(m, u) = {}
                <5>1. EntriesOf(m, u)' = {}
                    BY <4>1, EntriesOfRigid
                <5> QED
                    BY <5>1 DEF RecordedIn
            <4> QED
                BY <2>5, <2>7, <3>2, <3>3, <4>1
        <3>5. \A tx \in EntriesOf(m, "transaction")' :
                  tx.queueOrigin = "l1" => tx \in pending'
            BY <2>7, EntriesOfRigid
        <3> QED
            BY <1>first, <2>3, <2>7, <3>4, <3>5 DEF StoredSoFar, Tables
    <2> QED
        BY <1>away, <2>1, <2>4, <2>6, <2>7
<1>4. CASE StoreCtcIndex
    <2>1. PICK ty \in pending :
              /\ PutTransactionIndexByQueueIndex(ty.queueIndex, ty.index)
              /\ pending' = pending \ {ty}
        BY <1>4 DEF StoreCtcIndex
    <2>2. pc = "index" /\ pc' = "index" /\ events' = events
        BY <1>4 DEF StoreCtcIndex
    <2>3. Linked(ty)'
        BY <2>1 DEF Linked, PutTransactionIndexByQueueIndex
    <2>4. ASSUME NEW l \in events, IsFirst(l, events)
          PROVE  /\ \A t \in Tables : RecordedIn(l, t)'
                 /\ \A tx \in EntriesOf(l, "transaction")' :
                       tx.queueOrigin = "l1" => tx \in pending' \/ Linked(tx)'
        <3>1. /\ \A t \in Tables : RecordedIn(l, t)
              /\ \A tx \in EntriesOf(l, "transaction") :
                    tx.queueOrigin = "l1" => tx \in pending \/ Linked(tx)
            BY <2>2, <2>4 DEF StoredSoFar
        <3>2. \A tx \in EntriesOf(l, "transaction") :
                  tx.queueOrigin = "l1" => tx \in pending' \/ Linked(tx)'
            BY <1>link, <2>1, <2>3, <3>1
        <3> QED
            BY <1>rec, <3>1, <3>2, EntriesOfRigid
    <2> QED
        BY <1>first, <2>2, <2>4 DEF StoredSoFar, Tables
<1>5. CASE ChainNext \/ Elsewhere
    <2>1. UNCHANGED <<pc, events, table, pending>>
        BY <1>5 DEF ChainNext, Elsewhere, localVars, eventVars
    <2>2. CASE pc \in {"store", "latest"}
        BY <1>storing, <2>1, <2>2
    <2>3. CASE pc = "index"
        <3>1. ASSUME NEW l \in events, IsFirst(l, events)
              PROVE  /\ \A t \in Tables : RecordedIn(l, t)'
                     /\ \A tx \in EntriesOf(l, "transaction")' :
                           tx.queueOrigin = "l1" =>
                               tx \in pending' \/ Linked(tx)'
            <4>1. /\ \A t \in Tables : RecordedIn(l, t)
                  /\ \A tx \in EntriesOf(l, "transaction") :
                        tx.queueOrigin = "l1" => tx \in pending \/ Linked(tx)
                BY <2>3, <3>1 DEF StoredSoFar
            <4>2. \A tx \in EntriesOf(l, "transaction") :
                      tx.queueOrigin = "l1" => tx \in pending' \/ Linked(tx)'
                BY <1>link, <2>1, <4>1
            <4> QED
                BY <1>rec, <4>1, <4>2, EntriesOfRigid
        <3> QED
            BY <1>first, <2>1, <2>3, <3>1 DEF StoredSoFar, Tables
    <2> QED
        BY <1>away, <2>1, <2>2, <2>3
<1>6. CASE \/ LoadContracts \/ FindStartingL1Block
           \/ SearchStartingL1Block \/ StoreTotalElements \/ Wake \/ Poll
           \/ QueryAddressSets \/ PushAddressRange \/ PushLastRange
           \/ QueryEvents \/ EndSyncEvents \/ EndRange \/ EndStoreBatch
           \/ FinishIteration \/ Restart \/ Returned \/ Interrupted
    <2>1. pc' \notin {"store", "latest", "index"}
        BY <1>6
        DEF LoadContracts, FindStartingL1Block, SearchStartingL1Block,
            StoreTotalElements, Wake, Poll, QueryAddressSets,
            PushAddressRange, PushLastRange, QueryEvents, EndSyncEvents,
            EndRange, EndStoreBatch, FinishIteration, Restart, Returned,
            Interrupted
    <2> QED
        BY <1>away, <2>1
<1> QED
    BY <1>1, <1>2, <1>3, <1>4, <1>5, <1>6 DEF L1Step, Service

-----------------------------------------------------------------------------
(* No event of the window is lost.                                         *)

\* What the window covers was on the chain before the step, and what is
\* recorded of it stays recorded.
LEMMA CoveredBefore ==
    ASSUME IndexInv, QueueTakenOnce, L1Step, NEW n \in Int, n <= final,
           NEW l \in Promised', Covered(l, n)'
    PROVE  /\ l \in Promised /\ Covered(l, n)
           /\ l \in logs /\ l.block \in Nat /\ l.pos \in Nat /\ l.block <= n
           /\ Recorded(l) => Recorded(l)'
<1>1. TypeInv /\ ChainTypeOK
    BY DEF IndexInv, ImmutableInv, FinalInv, TypeInv, TypeOK
<1>2. TypeInv'
    BY <1>1, TypeInvStep
<1>3. \A m \in logs' : m.block \in Nat /\ m.pos \in Nat
    BY <1>2, LogOfKind DEF TypeInv, TypeOK, ChainTypeOK
<1>4. l \in logs'
    BY DEF Promised, OfKind
<1>5. l.block \in Nat /\ l.pos \in Nat
    BY <1>3, <1>4
<1>6. l.block <= n
    BY <1>5 DEF Covered
<1>7. l \in logs /\ Covered(l, n)
    BY <1>1, <1>4, <1>6, BelowFinal
<1>8. l \in Promised
    BY <1>7 DEF Promised, OfKind
<1> QED
    BY <1>5, <1>6, <1>7, <1>8, RecordedKept

\* When the last table of an event has been written, it is recorded.
LEMMA EventRecorded ==
    ASSUME IndexInv, QueueTakenOnce, EventsOK, StoredSoFar, L1Step,
           StoreLatestEntry, table \in {"enqueue", "stateroot"},
           NEW l \in events, IsFirst(l, events)
    PROVE  Recorded(l)'
<1>1. /\ pc = "latest" /\ sync \in 1 .. 3 /\ l \in logs
      /\ table \in {Syncs[sync].table, NextTable(Syncs[sync].table)}
      /\ l.kind = Syncs[sync].event
    BY DEF StoreLatestEntry, IndexInv, ImmutableInv, FinalInv, TypeInv,
           ControlOK, WindowFinal, EventsOK
<1>2. PICK t \in Tables : t = table
    BY DEF Tables
<1>3. RecordedIn(l, t)'
    BY <1>2, TableRecorded
<1>4. /\ NextTable(t) = "none" /\ t # "transaction"
    BY <1>2 DEF NextTable
<1>5. sync # 2
    BY <1>1, <1>2, <1>4, TablesOf
<1>6. ASSUME NEW u \in Tables
      PROVE  RecordedIn(l, u)'
    <2>1. CASE EntriesOf(l, u) = {}
        <3>1. EntriesOf(l, u)' = {}
            BY <2>1, EntriesOfRigid
        <3> QED
            BY <3>1 DEF RecordedIn
    <2>2. CASE EntriesOf(l, u) # {} /\ u # t
        <3>1. u \in {Syncs[sync].table, NextTable(Syncs[sync].table)}
            BY <1>1, <2>2, SyncOf
        <3>2. NextTable(u) = t
            <4>1. CASE t = Syncs[sync].table
                <5>1. u = NextTable(Syncs[sync].table)
                    BY <2>2, <3>1, <4>1
                <5> QED
                    BY <1>4, <4>1, <5>1 DEF Tables
            <4>2. CASE t # Syncs[sync].table
                <5>1. u = Syncs[sync].table
                    BY <1>1, <1>2, <2>2, <3>1, <4>2
                <5> QED
                    BY <1>1, <1>2, <4>2, <5>1
            <4> QED
                BY <4>1, <4>2
        <3>3. RecordedIn(l, u)
            BY <1>1, <1>2, <3>2 DEF StoredSoFar
        <3> QED
            BY <1>1, <3>3, RecordedKept
    <2> QED
        BY <1>3, <2>1, <2>2
<1>7. EntriesOf(l, "transaction")' = {}
    BY <1>1, <1>5, SyncOf, EntriesOfRigid
<1> QED
    BY <1>6, <1>7 DEF Recorded, Tables

\* An event ahead of the ranges comes into the range that ends with the next
\* address change, or stays ahead.
LEMMA PushAddressKeeps ==
    ASSUME IndexInv, ChainOrder, StartKnown, WindowSeen, RangesOK,
           PushAddressRange, NEW l \in logs, l.kind = Syncs[sync].event,
           ~Covered(l, from), Ahead(l)
    PROVE  \/ Ahead(l)'
           \/ \E i \in 1 .. Len(ranges') : InRange(l, ranges'[i])
<1>type. /\ TypeOK /\ ChainTypeOK /\ ChainUnique
         /\ from \in Int /\ to \in Int /\ rangeStart \in Int
         /\ pc = "ranges" /\ sync \in 1 .. 3 /\ startBlock = DeployBlock
         /\ l.block \in Nat /\ l.pos \in Nat /\ 0 <= from
    BY LogOfKind
    DEF IndexInv, ImmutableInv, FinalInv, TypeInv, TypeOK, ControlOK,
        ChainTypeOK, PushAddressRange, StartKnown, InWindow
<1> DEFINE S == AddressSets(ContractOf(l))
<1>name. /\ l.kind # "AddressSet"
         /\ S = AddressSets(Syncs[sync].contract)
    BY <1>type, SyncOf
<1>sets. \A r \in S : /\ r \in logs /\ r.block \in Nat /\ r.pos \in Nat
                      /\ r.pos # l.pos
    BY <1>type, <1>name, AddressSetsAre DEF ChainUnique
<1>1. PICK s \in addressSets :
          /\ IsFirst(s, addressSets)
          /\ PushEventRange(s.block)
          /\ rangeStart' = s.block
          /\ addressSets' = addressSets \ {s}
    BY DEF PushAddressRange, RangeStartAfter
<1>2. UNCHANGED <<logs, from, to>>
    BY DEF PushAddressRange, chainVars, pollVars
<1>3. /\ from <= rangeStart /\ addressSets \subseteq S
      /\ \A r \in addressSets : rangeStart <= r.block /\ r.block <= to
    BY <1>type, <1>name DEF RangesOK
<1>4. /\ s \in S /\ s \in logs /\ s.block \in Nat /\ s.pos \in Nat
      /\ s.pos # l.pos /\ s.block <= to
    BY <1>1, <1>3, <1>sets
<1>5. from <= l.block
    BY <1>type DEF Covered
<1>6. CASE s.pos < l.pos
    <2>1. s.block <= l.block
        BY <1>4, <1>6 DEF ChainOrder, Ordered
    <2>2. \A r \in S : from <= r.block /\ r.block <= to /\ l.pos < r.pos =>
                           r \in addressSets /\ r # s
        BY <1>4, <1>6, <1>type, <1>sets DEF Ahead
    <2>3. S' = S
        BY <1>2 DEF AddressSets, OfKind, ContractOf
    <2>4. S' = AddressSets(ContractOf(l))'
        OBVIOUS
    <2> HIDE DEF S
    <2> QED
        BY <1>1, <1>2, <2>1, <2>2, <2>3, <2>4 DEF Ahead
<1>7. CASE l.pos < s.pos
    <2>1. l.block <= s.block
        BY <1>4, <1>7 DEF ChainOrder, Ordered
    <2>2. \A r \in S : r.block = s.block => l.pos < r.pos
        BY <1>4, <1>7, ContractOfType DEF ChainOrder, AddressesMove
    <2>3. ASSUME NEW r \in S, l.pos < r.pos
          PROVE  s.block <= r.block
        <3>1. l.block <= r.block
            BY <1>sets, <2>3 DEF ChainOrder, Ordered
        <3>2. CASE r.block <= to
            <4>1. r \in addressSets
                BY <1>5, <1>sets, <1>type, <2>3, <3>1, <3>2 DEF Ahead
            <4>2. s.pos <= r.pos
                BY <1>1, <4>1 DEF IsFirst
            <4>3. CASE s.pos < r.pos
                BY <1>4, <1>sets, <2>3, <4>3 DEF ChainOrder, Ordered
            <4>4. CASE s.pos = r.pos
                <5>1. s = r
                    BY <1>4, <1>sets, <1>type, <4>4 DEF ChainUnique
                <5> QED
                    BY <1>4, <5>1
            <4> QED
                BY <1>4, <1>sets, <4>2, <4>3, <4>4
        <3>3. CASE to < r.block
            BY <1>4, <1>type, <1>sets, <3>3
        <3> QED
            BY <1>type, <1>sets, <3>2, <3>3
    <2>4. PICK n : n = s.block
        OBVIOUS
    <2>5. PICK T : T = S
        OBVIOUS
    <2>6. /\ ranges'[Len(ranges) + 1].fromBlock = rangeStart
          /\ ranges'[Len(ranges) + 1].toBlock = n
          /\ RightAddress(ranges'[Len(ranges) + 1].address, T, n)
          /\ Len(ranges') = Len(ranges) + 1 /\ Len(ranges) \in Nat
        <3>1. n \in Int /\ n <= to /\ PushEventRange(n) /\ 0 <= rangeStart
            BY <1>1, <1>3, <1>4, <1>type, <2>4
        <3>2. T = AddressSets(Syncs[sync].contract)
            BY <1>name, <2>5
        <3> QED
            BY <1>type, <3>1, <3>2, RangeAppended
    <2>7. PICK a : a = ranges'[Len(ranges) + 1].address
        OBVIOUS
    <2>8. l.address = a
        <3>1. RightAddress(a, AddressSets(ContractOf(l)), n)
            BY <2>5, <2>6, <2>7
        <3>2. n \in Int /\ l.block <= n
            BY <1>4, <2>1, <2>4
        <3> QED
            BY <1>type, <1>name, <2>2, <2>3, <2>4, <3>1, <3>2, EventAddress
    <2>9. InRange(l, ranges'[Len(ranges) + 1])
        BY <2>1, <2>4, <2>6, <2>7, <2>8 DEF InRange, Ahead
    <2> QED
        BY <2>6, <2>9
<1> QED
    BY <1>4, <1>6, <1>7, <1>type

\* What is still ahead then comes into the last range.
LEMMA PushLastKeeps ==
    ASSUME IndexInv, ChainOrder, StartKnown, WindowSeen, RangesOK,
           PushLastRange, NEW l \in logs, l.kind = Syncs[sync].event,
           ~Covered(l, from), Covered(l, to), Ahead(l)
    PROVE  \E i \in 1 .. Len(ranges') : InRange(l, ranges'[i])
<1>type. /\ TypeOK /\ ChainTypeOK /\ ChainUnique
         /\ from \in Int /\ to \in Int /\ rangeStart \in Int
         /\ pc = "ranges" /\ sync \in 1 .. 3 /\ startBlock = DeployBlock
         /\ l.block \in Nat /\ l.pos \in Nat /\ 0 <= from
         /\ addressSets = {} /\ PushEventRange(to) /\ from <= rangeStart
    BY LogOfKind
    DEF IndexInv, ImmutableInv, FinalInv, TypeInv, TypeOK, ControlOK,
        ChainTypeOK, PushLastRange, StartKnown, InWindow, RangesOK
<1> DEFINE S == AddressSets(ContractOf(l))
<1>name. /\ l.kind # "AddressSet"
         /\ S = AddressSets(Syncs[sync].contract)
    BY <1>type, SyncOf
<1>sets. \A r \in S : /\ r \in logs /\ r.block \in Nat /\ r.pos \in Nat
                      /\ r.pos # l.pos
    BY <1>type, <1>name, AddressSetsAre DEF ChainUnique
<1>1. from <= l.block /\ l.block <= to
    BY <1>type DEF Covered
<1>2. ASSUME NEW r \in S, r.block = to
      PROVE  l.pos < r.pos
    <2>1. CASE l.block = to
        BY <1>2, <1>sets, <2>1 DEF Covered
    <2>2. CASE l.block < to
        <3>1. ~(r.pos < l.pos)
            BY <1>2, <1>sets, <1>type, <2>2 DEF ChainOrder, Ordered
        <3> QED
            BY <1>sets, <1>type, <3>1
    <2> QED
        BY <1>1, <1>type, <2>1, <2>2
<1>3. ASSUME NEW r \in S, l.pos < r.pos
      PROVE  to <= r.block
    <2>1. l.block <= r.block
        BY <1>sets, <1>3 DEF ChainOrder, Ordered
    <2>2. ~(r.block <= to)
        BY <1>1, <1>3, <1>sets, <1>type, <2>1 DEF Ahead
    <2> QED
        BY <1>sets, <1>type, <2>2
<1>4. PICK n : n = to
    OBVIOUS
<1>5. PICK T : T = S
    OBVIOUS
<1>6. /\ ranges'[Len(ranges) + 1].fromBlock = rangeStart
      /\ ranges'[Len(ranges) + 1].toBlock = n
      /\ RightAddress(ranges'[Len(ranges) + 1].address, T, n)
      /\ Len(ranges') = Len(ranges) + 1 /\ Len(ranges) \in Nat
    <2>1. n \in Int /\ n <= to /\ PushEventRange(n) /\ 0 <= rangeStart
        BY <1>type, <1>4
    <2>2. T = AddressSets(Syncs[sync].contract)
        BY <1>name, <1>5
    <2> QED
        BY <1>type, <2>1, <2>2, RangeAppended
<1>7. PICK a : a = ranges'[Len(ranges) + 1].address
    OBVIOUS
<1>8. l.address = a
    <2>1. RightAddress(a, AddressSets(ContractOf(l)), n)
        BY <1>5, <1>6, <1>7
    <2>2. n \in Int /\ l.block <= n
        BY <1>1, <1>4, <1>type
    <2> QED
        BY <1>type, <1>name, <1>2, <1>3, <1>4, <2>1, <2>2, EventAddress
<1>9. InRange(l, ranges'[Len(ranges) + 1])
    BY <1>1, <1>4, <1>6, <1>7, <1>8 DEF InRange, Ahead
<1> QED
    BY <1>6, <1>9

\* An event is dropped from those that are being stored when it is recorded.
LEMMA DroppedIsRecorded ==
    ASSUME IndexInv, QueueTakenOnce, EventsOK, StoredSoFar, L1Step,
           StoreLatestEntry \/ EndStoreBatch
    PROVE  /\ pc \in {"event", "store", "latest", "index"}
           /\ pc' \in {"event", "store", "latest", "index"}
           /\ UNCHANGED <<sync, ranges>>
           /\ events' \subseteq events
           /\ \A l \in events : l \in events' \/ Recorded(l)'
<1>1. CASE StoreLatestEntry
    <2>1. PICK m \in events :
              /\ pc = "latest" /\ IsFirst(m, events)
              /\ \/ pc' \in {"store", "index"} /\ events' = events
                 \/ /\ table \in {"enqueue", "stateroot"}
                    /\ pc' = "event" /\ events' = events \ {m}
        BY <1>1 DEF StoreLatestEntry, NextEvent
    <2>2. UNCHANGED <<sync, ranges>>
        BY <1>1 DEF StoreLatestEntry, rangeVars
    <2>3. CASE events' = events
        BY <2>1, <2>2, <2>3
    <2>4. CASE events' # events
        <3>1. Recorded(m)'
            BY <1>1, <2>1, <2>4, EventRecorded
        <3> QED
            BY <2>1, <2>2, <2>4, <3>1
    <2> QED
        BY <2>3, <2>4
<1>2. CASE EndStoreBatch
    <2>1. PICK m \in events :
              /\ pc = "index" /\ pc' = "event" /\ pending = {}
              /\ IsFirst(m, events) /\ events' = events \ {m}
        BY <1>2 DEF EndStoreBatch, NextEvent
    <2>2. UNCHANGED <<sync, ranges>>
        BY <1>2 DEF EndStoreBatch, rangeVars
    <2>3. Recorded(m) /\ m \in logs
        BY <2>1
        DEF StoredSoFar, Recorded, IndexInv, ImmutableInv, FinalInv,
            WindowFinal
    <2>4. Recorded(m)'
        BY <2>3, RecordedKept
    <2> QED
        BY <2>1, <2>2, <2>4
<1> QED
    BY <1>1, <1>2

\* In every step of a window an event is passed on until it is recorded.
LEMMA WaitingKept ==
    ASSUME IndexInv, QueueTakenOnce, ChainOrder, WindowInv, L1Step,
           pc \in InWindow, pc' \in InWindow,
           NEW l \in logs, l \in logs', ~Covered(l, from), Covered(l, to),
           Waiting(l)
    PROVE  Waiting(l)' \/ Recorded(l)'
<1>type. /\ TypeInv /\ TypeOK /\ ChainTypeOK /\ sync \in 1 .. 3
         /\ ranges \in Seq(EventRange) /\ Len(ranges) \in Nat
         /\ from \in Int /\ to \in Int /\ 0 <= from /\ to <= final
    BY DEF IndexInv, ImmutableInv, FinalInv, TypeInv, TypeOK, ControlOK,
           ChainTypeOK, WindowFinal, WindowInv, StartKnown, InWindow
<1> USE DEF WindowInv
<1>sync. ASSUME sync' = sync
         PROVE  /\ Syncs[sync'] = Syncs[sync]
                /\ (\E j \in sync + 1 .. 3 : l.kind = Syncs[j].event)
                       => Waiting(l)'
    BY <1>sync DEF Waiting
<1> DEFINE OfTheCall == l.kind = Syncs[sync].event
<1>1. CASE QueryAddressSets
    <2>1. PICK view \in Views :
              addressSets' = LogsBetween(AddressSets(Syncs[sync].contract),
                                         from, to, view)
        BY <1>1 DEF QueryAddressSets
    <2>2. /\ pc = "resolve" /\ pc' = "ranges" /\ rangeStart' = from
          /\ UNCHANGED <<logs, sync, to, from, ranges>>
        BY <1>1 DEF QueryAddressSets, chainVars, pollVars
    <2>3. CASE OfTheCall
        <3>1. ContractOf(l) = Syncs[sync].contract
            BY <1>type, <2>3, SyncOf
        <3>2. AddressSets(ContractOf(l)) \in SUBSET logs
            BY DEF AddressSets, OfKind
        <3>3. to \in Nat
            BY <1>type DEF WindowSeen
        <3>4. addressSets' = {r \in AddressSets(ContractOf(l)) :
                                 from <= r.block /\ r.block <= to}
            BY <1>type, <2>1, <3>1, <3>2, <3>3, ReadComplete
        <3>5. AddressSets(ContractOf(l))' = AddressSets(ContractOf(l))
            BY <2>2 DEF AddressSets, OfKind, ContractOf
        <3>6. l.block \in Nat
            BY <1>type, LogOfKind DEF ChainTypeOK
        <3>7. from <= l.block
            BY <1>type, <3>6 DEF Covered
        <3>8. Ahead(l)'
            BY <2>2, <3>4, <3>5, <3>7 DEF Ahead
        <3> QED
            BY <1>sync, <2>2, <2>3, <3>8 DEF Waiting
    <2> QED
        BY <1>sync, <2>2, <2>3 DEF Waiting
<1>2. CASE PushAddressRange
    <2>1. pc = "ranges" /\ pc' = "ranges" /\ sync' = sync
        BY <1>2 DEF PushAddressRange
    <2>2. CASE OfTheCall /\ Ahead(l)
        <3>1. \/ Ahead(l)'
              \/ \E i \in 1 .. Len(ranges') : InRange(l, ranges'[i])
            BY <1>2, <2>2, PushAddressKeeps
        <3> QED
            BY <1>sync, <2>1, <2>2, <3>1 DEF Waiting, InRange
    <2>3. CASE OfTheCall /\ \E i \in 1 .. Len(ranges) : InRange(l, ranges[i])
        <3>1. PICK range : ranges' = Append(ranges, range)
            BY <1>2 DEF PushAddressRange, PushEventRange
        <3>2. \E i \in 1 .. Len(ranges') : InRange(l, ranges'[i])
            BY <1>type, <2>3, <3>1
        <3> QED
            BY <1>sync, <2>1, <2>3, <3>2 DEF Waiting, InRange
    <2> QED
        BY <1>sync, <2>1, <2>2, <2>3 DEF Waiting
<1>3. CASE PushLastRange
    <2>1. pc = "ranges" /\ pc' = "query" /\ sync' = sync
        BY <1>3 DEF PushLastRange
    <2>2. CASE OfTheCall /\ Ahead(l)
        <3>1. \E i \in 1 .. Len(ranges') : InRange(l, ranges'[i])
            BY <1>3, <2>2, PushLastKeeps
        <3> QED
            BY <1>sync, <2>1, <2>2, <3>1 DEF Waiting, InRange
    <2>3. CASE OfTheCall /\ \E i \in 1 .. Len(ranges) : InRange(l, ranges[i])
        <3>1. PICK range : ranges' = Append(ranges, range)
            BY <1>3 DEF PushLastRange, PushEventRange
        <3>2. \E i \in 1 .. Len(ranges') : InRange(l, ranges'[i])
            BY <1>type, <2>3, <3>1
        <3> QED
            BY <1>sync, <2>1, <2>3, <3>2 DEF Waiting, InRange
    <2> QED
        BY <1>sync, <2>1, <2>2, <2>3 DEF Waiting
<1>4. CASE QueryEvents
    <2>1. /\ pc = "query" /\ pc' = "event" /\ sync' = sync
          /\ ranges' = Tail(ranges)
        BY <1>4 DEF QueryEvents
    <2>2. /\ events' = {m \in logs : m.kind = Syncs[sync].event
                                        /\ InRange(m, Head(ranges))}
          /\ ranges # <<>> /\ Head(ranges) = ranges[1]
        BY <1>4, <1>type, QueriedEvents
        DEF IndexInv, ImmutableInv, FinalInv
    <2>3. ASSUME OfTheCall, NEW i \in 1 .. Len(ranges), InRange(l, ranges[i])
          PROVE  \/ l \in events'
                 \/ \E j \in 1 .. Len(ranges') : InRange(l, ranges'[j])
        <3>1. CASE i = 1
            BY <2>2, <2>3, <3>1
        <3>2. CASE i # 1
            <4>1. i - 1 \in 1 .. Len(ranges') /\ ranges'[i - 1] = ranges[i]
                BY <1>type, <2>1, <2>2, <2>3, <3>2
            <4> QED
                BY <2>3, <4>1
        <3> QED
            BY <3>1, <3>2
    <2> QED
        BY <1>sync, <2>1, <2>3 DEF Waiting, InRange
<1>5. CASE EndSyncEvents
    <2>1. /\ pc = "query" /\ ranges = <<>>
          /\ sync' = sync + 1 /\ pc' = "resolve"
        BY <1>5 DEF EndSyncEvents, InWindow
    <2>2. PICK j \in sync + 1 .. 3 : l.kind = Syncs[j].event
        BY <2>1 DEF Waiting
    <2>3. CASE j = sync + 1
        BY <2>1, <2>2, <2>3 DEF Waiting
    <2>4. CASE j # sync + 1
        <3>1. j \in sync' + 1 .. 3
            BY <1>type, <2>1, <2>2, <2>4
        <3> QED
            BY <2>2, <3>1 DEF Waiting
    <2> QED
        BY <2>3, <2>4
<1>6. CASE EndRange
    <2>1. /\ pc = "event" /\ pc' = "query" /\ events = {}
          /\ UNCHANGED <<sync, ranges>>
        BY <1>6 DEF EndRange, localVars, rangeVars
    <2> QED
        BY <1>sync, <2>1 DEF Waiting, InRange
<1>7. CASE ParseEvent \/ StoreEntries \/ StoreCtcIndex
    <2>1. /\ pc \in {"event", "store", "latest", "index"}
          /\ pc' \in {"event", "store", "latest", "index"}
          /\ UNCHANGED <<sync, ranges, events>>
        BY <1>7
        DEF ParseEvent, StoreEntries, StoreCtcIndex, localVars, rangeVars,
            eventVars
    <2> QED
        BY <1>sync, <2>1 DEF Waiting, InRange
<1>8. CASE StoreLatestEntry \/ EndStoreBatch
    <2>1. /\ pc' \in {"event", "store", "latest", "index"}
          /\ pc \in {"event", "store", "latest", "index"}
          /\ UNCHANGED <<sync, ranges>>
          /\ \A m \in events : m \in events' \/ Recorded(m)'
        BY <1>8, DroppedIsRecorded
    <2> QED
        BY <1>sync, <2>1 DEF Waiting, InRange
<1>9. CASE ChainNext \/ Elsewhere
    <2>1. UNCHANGED <<pc, sync, from, to, addressSets, rangeStart, ranges,
                      events>>
        BY <1>9
        DEF ChainNext, Elsewhere, localVars, pollVars, rangeVars, eventVars
    <2>2. ASSUME Ahead(l)
          PROVE  Ahead(l)'
        <3>1. PICK n : n = ContractOf(l)
            OBVIOUS
        <3>2. \A r : r.block <= to =>
                  (r \in AddressSets(n)' <=> r \in AddressSets(n))
            BY <1>type, BelowFinal
        <3>3. AddressSets(ContractOf(l))' = AddressSets(n)'
            BY <3>1, EntriesOfRigid
        <3>4. \A r \in AddressSets(n)' :
                  from <= r.block /\ r.block <= to /\ l.pos < r.pos =>
                      r \in addressSets
            BY <2>2, <3>1, <3>2 DEF Ahead
        <3> QED
            BY <2>1, <2>2, <3>3, <3>4 DEF Ahead
    <2> QED
        BY <1>sync, <2>1, <2>2 DEF Waiting, InRange
<1>10. CASE \/ LoadContracts \/ FindStartingL1Block
            \/ SearchStartingL1Block \/ StoreTotalElements \/ Wake \/ Poll
            \/ FinishIteration \/ Restart \/ Returned \/ Interrupted
    <2>1. pc \notin InWindow \/ pc' \notin InWindow
        BY <1>10
        DEF LoadContracts, FindStartingL1Block, SearchStartingL1Block,
            StoreTotalElements, Wake, Poll, FinishIteration, Restart,
            Returned, Interrupted, InWindow
    <2> QED
        BY <2>1
<1> QED
    BY <1>1, <1>2, <1>3, <1>4, <1>5, <1>6, <1>7, <1>8, <1>9, <1>10
    DEF L1Step, Service

\* The deployment itself is not followed by events of its own block.
LEMMA NothingBeforeStart ==
    ASSUME ChainOrder, ChainTypeOK, NEW l \in Promised
    PROVE  ~Covered(l, DeployBlock)
<1>1. l \in logs /\ l.kind # "AddressSet" /\ l.pos \in Nat /\ l.block \in Nat
    BY LogOfKind DEF Promised, OfKind, ChainTypeOK
<1>2. DeployBlock <= l.block /\ l.pos > 1
    BY <1>1 DEF ChainOrder, Ordered, EmittedByRegistered
<1>3. PICK s \in AddressSets(ContractOf(l)) :
          s.block = DeployBlock /\ s.pos <= 1
    BY ContractOfType DEF ChainOrder, AddressesMove
<1>4. s.pos \in Nat
    BY AddressSetsAre
<1>5. DeployBlock \in Nat
    BY L1ChainAssumption
<1> QED
    BY <1>1, <1>2, <1>3, <1>4, <1>5 DEF Covered

\* A new window starts where everything before is recorded.
LEMMA WindowStart ==
    ASSUME IndexInv, QueueTakenOnce, ChainOrder, WindowInv, Poll,
           pc' = "resolve"
    PROVE  /\ sync' = 1
           /\ \A l \in Promised : Covered(l, from') => Recorded(l)'
<1>type. /\ TypeInv /\ ChainTypeOK /\ L1Step /\ synced \in Int
    BY DEF IndexInv, ImmutableInv, FinalInv, TypeInv, TypeOK, DBTypeOK,
           L1Step, Service
<1>1. PICK got \in {synced, Null} :
          /\ from' = (IF ToNumber(got) = 0 THEN startBlock ELSE got)
          /\ sync' = 1
    BY DEF Poll
<1>2. startBlock = DeployBlock
    BY DEF Poll, WindowInv, StartKnown
<1>3. from' = DeployBlock \/ from' = synced
    BY <1>1, <1>2 DEF ToNumber
<1>4. ASSUME NEW l \in Promised, Covered(l, from')
      PROVE  Recorded(l)'
    <2>1. Covered(l, synced)
        BY <1>3, <1>4, <1>type, NothingBeforeStart
    <2>2. Recorded(l) /\ l \in logs
        BY <2>1, PromisedSync DEF WindowInv, SyncedMeansRecorded
    <2> QED
        BY <1>type, <2>2, RecordedKept
<1> QED
    BY <1>1, <1>4

LEMMA NothingLostStep ==
    ASSUME IndexInv, QueueTakenOnce, ChainOrder, WindowInv, L1Step
    PROVE  NothingLost'
<1>type. /\ TypeInv /\ ChainTypeOK /\ from \in Int /\ to \in Int
         /\ to <= final /\ final \in Nat
    BY DEF IndexInv, ImmutableInv, FinalInv, TypeInv, TypeOK, ChainTypeOK,
           WindowFinal
<1> USE DEF WindowInv
<1>1. CASE Poll
    <2>1. UNCHANGED <<chainVars, dbVars>> /\ pc' \in {"sleep", "resolve"}
        BY <1>1 DEF Poll
    <2>2. CASE pc' = "sleep"
        BY <2>2 DEF NothingLost, InWindow
    <2>3. CASE pc' = "resolve"
        <3>1. Promised' = Promised /\ logs' = logs
            BY <2>1 DEF chainVars, Promised, OfKind
        <3>2. \A l, n : Covered(l, n)' <=> Covered(l, n)
            BY <3>1 DEF Covered, AddressSets, OfKind, ContractOf
        <3>3. /\ sync' = 1
              /\ \A l \in Promised : Covered(l, from') => Recorded(l)'
            BY <1>1, <2>3, WindowStart
        <3>4. ASSUME NEW l \in Promised
              PROVE  Waiting(l)'
            <4>1. PICK n \in 1 .. 3 : l.kind = Syncs[n].event
                BY PromisedSync
            <4>2. n = 1 \/ n \in 1 + 1 .. 3
                OBVIOUS
            <4> QED
                BY <2>3, <3>3, <4>1, <4>2 DEF Waiting
        <3>5. \A l \in Promised : Covered(l, from)' => Recorded(l)'
            BY <3>2, <3>3 DEF Covered
        <3> QED
            BY <2>3, <3>1, <3>4, <3>5 DEF NothingLost
    <2> QED
        BY <2>1, <2>2, <2>3
<1>2. CASE ~Poll /\ pc' \in InWindow
    <2>1. pc \in InWindow
        BY <1>2, Control
    <2>2. UNCHANGED <<from, to>>
        <3>1. ~FinishIteration /\ ~Interrupted /\ ~SearchStartingL1Block
            BY <1>2, <2>1
            DEF FinishIteration, Interrupted, SearchStartingL1Block, InWindow
        <3> QED
            BY <1>2, <3>1, LoopFrame
    <2>3. PICK n, m : n = to /\ m = from
        OBVIOUS
    <2>4. ASSUME NEW l \in Promised', Covered(l, m)'
          PROVE  Recorded(l)'
        <3>1. /\ l \in Promised /\ Covered(l, m)
              /\ Recorded(l) => Recorded(l)'
            BY <1>type, <2>1, <2>3, <2>4, CoveredBefore DEF WindowSeen
        <3> QED
            BY <2>1, <2>3, <3>1 DEF NothingLost
    <2>5. ASSUME NEW l \in Promised', Covered(l, n)'
          PROVE  Recorded(l)' \/ Waiting(l)'
        <3>1. /\ l \in Promised /\ Covered(l, n) /\ l \in logs
              /\ Recorded(l) => Recorded(l)'
            BY <1>type, <2>3, <2>5, CoveredBefore
        <3>2. l \in logs'
            BY <2>5 DEF Promised, OfKind
        <3>3. Recorded(l) \/ (Waiting(l) /\ ~Covered(l, from))
            BY <2>1, <2>3, <3>1 DEF NothingLost
        <3> QED
            BY <1>2, <2>1, <2>3, <3>1, <3>2, <3>3, WaitingKept
    <2>6. \A l : /\ Covered(l, to)' <=> Covered(l, n)'
                 /\ Covered(l, from)' <=> Covered(l, m)'
        BY <2>2, <2>3 DEF Covered
    <2> QED
        BY <1>2, <2>4, <2>5, <2>6 DEF NothingLost, InWindow
<1>3. CASE pc' = "done"
    <2>1. UNCHANGED to
        BY <1>3, LoopFrame DEF FinishIteration, Interrupted, Poll
    <2>2. PICK n : n = to
        OBVIOUS
    <2>3. ASSUME NEW l \in Promised', Covered(l, n)'
          PROVE  Recorded(l)'
        <3>1. /\ l \in Promised /\ Covered(l, n)
              /\ Recorded(l) => Recorded(l)'
            BY <1>type, <2>2, <2>3, CoveredBefore
        <3>2. Recorded(l)
            <4>1. CASE pc = "done"
                BY <2>2, <3>1, <4>1 DEF NothingLost
            <4>2. CASE EndSyncEvents
                <5>1. /\ pc = "query" /\ ranges = <<>> /\ sync = 3
                    BY <1>3, <4>2 DEF EndSyncEvents
                <5>2. ~Waiting(l)
                    BY <5>1 DEF Waiting
                <5> QED
                    BY <2>2, <3>1, <5>1, <5>2 DEF NothingLost, InWindow
            <4> QED
                BY <1>3, <4>1, <4>2, Control
        <3> QED
            BY <3>1, <3>2
    <2>4. \A l : Covered(l, to)' <=> Covered(l, n)'
        BY <2>1, <2>2 DEF Covered
    <2> QED
        BY <1>3, <2>3, <2>4 DEF NothingLost, InWindow
<1>4. CASE pc' \notin InWindow \cup {"done"}
    BY <1>4 DEF NothingLost
<1> QED
    BY <1>1, <1>2, <1>3, <1>4

\* What has been synced stays recorded, and so is what a window adds to it.
LEMMA SyncedMeansRecordedStep ==
    ASSUME IndexInv, QueueTakenOnce, WindowInv, L1Step
    PROVE  SyncedMeansRecorded'
<1>type. /\ TypeInv /\ ChainTypeOK /\ synced \in Int /\ to \in Int
         /\ to <= final /\ synced <= final
    BY L1ChainAssumption
    DEF IndexInv, ImmutableInv, FinalInv, TypeInv, TypeOK, ChainTypeOK,
        DBTypeOK, WindowFinal, WindowInv, WindowSeen
<1> USE DEF WindowInv
<1>1. ASSUME NEW n \in {synced, to}, synced' = n,
             \A l \in Promised : Covered(l, n) => Recorded(l)
      PROVE  SyncedMeansRecorded'
    <2>1. ASSUME NEW l \in Promised', Covered(l, n)'
          PROVE  Recorded(l)'
        BY <1>type, <1>1, <2>1, CoveredBefore
    <2>2. \A l : Covered(l, synced)' <=> Covered(l, n)'
        BY <1>1 DEF Covered
    <2> QED
        BY <2>1, <2>2 DEF SyncedMeansRecorded
<1>2. CASE FinishIteration
    <2>1. pc = "done" /\ synced' = to
        BY <1>2 DEF FinishIteration, SetHighestSyncedL1Block
    <2> QED
        BY <1>1, <2>1 DEF NothingLost
<1>3. CASE ~FinishIteration
    BY <1>1, <1>3, Frame DEF SyncedMeansRecorded
<1> QED
    BY <1>2, <1>3

-----------------------------------------------------------------------------
(* The invariant as a whole.                                               *)

SyncInv == IndexInv /\ ChainOrder /\ QueueTakenOnce /\ WindowInv

LEMMA SyncInvInit ==
    ASSUME MatureL1
    PROVE  Init => SyncInv
<1> SUFFICES ASSUME Init
             PROVE  SyncInv
    OBVIOUS
<1>1. /\ pc = "init" /\ synced = 0 /\ from = 0 /\ to = 0 /\ starting = 0
      /\ startBlock = 0 /\ ranges = <<>> /\ events = {}
      /\ final = InitTip /\ ChainInit
    BY DEF Init, DBInit, ChainInit
<1>2. IndexInv /\ ChainOrder
    BY <1>1, IndexInvInit, ChainOrderInit
<1>3. \A l \in logs : l.kind = "AddressSet"
    BY <1>1 DEF ChainInit
<1>4. QueueTakenOnce
    BY <1>3 DEF QueueTakenOnce, TransactionBatches, OfKind,
                TransactionBatchKinds
<1>5. Promised = {}
    BY <1>3 DEF Promised, OfKind
<1>6. StartKnown /\ RangesOK /\ EventsOK /\ StoredSoFar
    BY <1>1 DEF StartKnown, RangesOK, EventsOK, StoredSoFar, InWindow
<1>7. NothingLost /\ SyncedMeansRecorded
    BY <1>5 DEF NothingLost, SyncedMeansRecorded
<1>8. WindowSeen
    BY <1>1, L1ChainAssumption, L1IngestionAssumption
    DEF WindowSeen, MatureL1, InWindow
<1> QED
    BY <1>2, <1>4, <1>6, <1>7, <1>8 DEF SyncInv, WindowInv

LEMMA SyncInvStep ==
    ASSUME MatureL1, DeploymentKnown
    PROVE  SyncInv /\ L1Step => SyncInv'
<1> SUFFICES ASSUME SyncInv, L1Step
             PROVE  SyncInv'
    OBVIOUS
<1> USE DEF SyncInv
<1>1. IndexInv'
    BY ImmutableInvStep, StoringOrderStep, CtcIndexStep DEF IndexInv
<1>2. ChainOrder' /\ QueueTakenOnce'
    <2>1. CASE ChainNext
        <3>1. ChainTypeOK /\ ChainUnique /\ (ChainStep \/ Reorg)
            BY <2>1
            DEF ChainNext, IndexInv, ImmutableInv, FinalInv, TypeInv, TypeOK
        <3> QED
            BY <3>1, ChainOrderStep, QueueTakenOnceStep
    <2>2. CASE ~ChainNext
        <3>1. UNCHANGED <<logs, tip>>
            BY <2>2, Frame
        <3>2. ChainOrder'
            BY <3>1
            DEF ChainOrder, Ordered, AddressesMove, EmittedByRegistered,
                LastBefore, AddressSets, OfKind, ContractOf
        <3>3. QueueTakenOnce'
            BY <3>1
            DEF QueueTakenOnce, TransactionBatches, OfKind, NumQueued
        <3> QED
            BY <3>2, <3>3
    <2> QED
        BY <2>1, <2>2
<1>3. WindowInv'
    <2>1. /\ TypeInv /\ ChainUnique /\ WindowFinal /\ 0 <= synced
        BY DEF IndexInv, ImmutableInv, FinalInv, WindowFinal
    <2>2. StartKnown' /\ WindowSeen'
        BY <2>1, StartKnownStep, WindowSeenStep DEF WindowInv
    <2>3. RangesOK' /\ EventsOK' /\ StoredSoFar'
        BY <2>1, RangesOKStep, EventsOKStep, StoredSoFarStep DEF WindowInv
    <2>4. NothingLost' /\ SyncedMeansRecorded'
        BY NothingLostStep, SyncedMeansRecordedStep
    <2> QED
        BY <2>2, <2>3, <2>4 DEF WindowInv
<1> QED
    BY <1>1, <1>2, <1>3

\* What is marked as synced is in the database: on a mature chain whose
\* deployment the search finds no event of a synced block is missing from any
\* table, whatever windows, address changes, lagging nodes, reorganisations,
\* crashes and failing reads there were.
THEOREM NothingMissed == ASSUME MatureL1, DeploymentKnown
                         PROVE  Spec => []SyncedMeansIndexed
<1>1. Init => SyncInv
    BY SyncInvInit
<1>2. SyncInv /\ [Next]_vars => SyncInv'
    BY SyncInvStep, StepOfL1
<1>3. SyncInv => SyncedMeansIndexed
    BY DEF SyncInv, WindowInv, SyncedMeansRecorded, SyncedMeansIndexed,
           Recorded, RecordedIn, Indexed, Linked
<1> QED
    BY <1>1, <1>2, <1>3, PTL DEF Spec

\* When reads do not fail, the latest pointers reach all records of the
\* synced blocks.
THEOREM LatestReaches == ASSUME MatureL1, DeploymentKnown, NoFailingReads
                         PROVE  Spec => []LatestReachesSynced
<1>1. Init => SyncInv
    BY SyncInvInit
<1>2. SyncInv /\ [Next]_vars => SyncInv'
    BY SyncInvStep, StepOfL1
<1>3. SyncInv => LatestReachesSynced
    BY DEF SyncInv, WindowInv, SyncedMeansRecorded, LatestReachesSynced,
           Recorded, RecordedIn
<1> QED
    BY <1>1, <1>2, <1>3, PTL DEF Spec

\* And then no latest pointer ever goes back, though a restarted service
\* stores old events again.
THEOREM LatestMonotone == ASSUME NoFailingReads
                          PROVE  Spec => LatestNeverGoesBack
<1>1. Init => TypeInv
    BY TypeInvInit
<1>2. TypeInv /\ [Next]_vars => TypeInv'
    BY TypeInvStep, StepOfL1
<1>3. TypeInv /\ [Next]_vars =>
          [\A t \in Tables : ToNumber(latest[t]) <= ToNumber(latest'[t])]_latest
    <2> SUFFICES ASSUME TypeInv, L1Step, NEW t \in Tables
                 PROVE  ToNumber(latest[t]) <= ToNumber(latest'[t])
        BY StepOfL1
    <2>1. /\ latest \in [Tables -> Nat \cup {Null}] /\ Null \notin Nat
          /\ latest'[t] \in Nat \cup {Null}
        BY TypeInvStep, NullAssumption DEF TypeInv, TypeOK, DBTypeOK
    <2>2. CASE latest[t] = Null
        <3>1. ToNumber(latest'[t]) \in Nat
            BY <2>1 DEF ToNumber
        <3> QED
            BY <2>2, <3>1 DEF ToNumber
    <2>3. CASE latest[t] # Null
        <3>1. latest'[t] # Null /\ latest[t] <= latest'[t]
            BY <2>3, LatestKept
        <3> QED
            BY <2>1, <2>3, <3>1 DEF ToNumber
    <2> QED
        BY <2>2, <2>3
<1> QED
    BY <1>1, <1>2, <1>3, PTL DEF Spec, LatestNeverGoesBack
=============================================================================
