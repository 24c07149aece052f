------------------------------ MODULE L1Chain ------------------------------
(***************************************************************************)
(* The Layer 1 chain as the transport layer sees it: an ordered set of    *)
(* event logs in blocks, read through an RPC endpoint.  Nothing of this   *)
(* is code of the repository; it is modelled from what                    *)
(* services/l1-ingestion and its handlers ask of it.                      *)
(*                                                                         *)
(* Logs are added to the block being built, tip + 1, and become readable   *)
(* when that block is mined.  A reorganisation drops the blocks above some *)
(* height not lower than "final".                                          *)
(***************************************************************************)
EXTENDS Integers, Sequences, FiniteSets

CONSTANTS
    Kinds,        \* the kinds of log this instance emits
    Addresses,    \* contract addresses
    AddressZero,  \* constants.AddressZero, where nothing is deployed
    Deployed,     \* contract name -> its first address
    DeployBlock,  \* the block in which they are set for the first time
    Upgradable,   \* the contracts whose address may change
    Shapes,       \* transaction batches, as sequences of queue origins
    InitTip,      \* height at which the transport layer may start
    MaxReorg,     \* deepest reorganisation
    MaxLag,       \* how many blocks an RPC node may be behind
    MaxBlock,     \* bound: height of the last block
    MaxLogs       \* bound: number of logs

CTC == "OVM_CanonicalTransactionChain"
SCC == "OVM_StateCommitmentChain"
ContractNames == {CTC, SCC}

AllKinds == {"AddressSet", "TransactionEnqueued", "SequencerBatchAppended",
             "QueueBatchAppended", "StateBatchAppended"}
TransactionBatchKinds == {"SequencerBatchAppended", "QueueBatchAppended"}
QueueOrigins == {"sequencer", "l1"}

\* The contracts reject an empty batch.
ASSUME L1ChainAssumption ==
    /\ Kinds \subseteq AllKinds
    /\ AddressZero \notin Addresses
    /\ Deployed \in [ContractNames -> Addresses]
    /\ Upgradable \subseteq ContractNames
    /\ Shapes \subseteq Seq(QueueOrigins) \ {<<>>}
    /\ DeployBlock \in Nat \ {0}
    /\ InitTip \in Nat
    /\ DeployBlock <= InitTip
    /\ MaxReorg \in Nat
    /\ MaxLag \in Nat
    /\ MaxBlock \in Nat
    /\ MaxLogs \in Nat

VARIABLES
    logs,   \* the logs of the canonical chain, pos is their order
    tip,    \* height of the last mined block
    final   \* no reorganisation reaches this height any more

chainVars == <<logs, tip, final>>

AddressSetLog ==
    [pos: Nat, block: Nat, kind: {"AddressSet"},
     name: ContractNames, newAddress: Addresses]
EnqueuedLog ==
    [pos: Nat, block: Nat, kind: {"TransactionEnqueued"},
     address: Addresses, queueIndex: Nat]
TransactionBatchLog ==
    [pos: Nat, block: Nat, kind: TransactionBatchKinds,
     address: Addresses, batchIndex: Nat, prev: Nat, shape: Shapes,
     queueStart: Nat]
StateBatchLog ==
    [pos: Nat, block: Nat, kind: {"StateBatchAppended"},
     address: Addresses, batchIndex: Nat, prev: Nat, size: Nat]
Log == AddressSetLog \cup EnqueuedLog \cup TransactionBatchLog
           \cup StateBatchLog

ChainTypeOK ==
    /\ logs \in SUBSET Log
    /\ tip \in Nat
    /\ final \in Nat
    /\ InitTip <= final
    /\ final <= tip
    /\ tip <= final + MaxReorg

ChainInit ==
    /\ logs = {[pos |-> 0, block |-> DeployBlock, kind |-> "AddressSet",
                name |-> CTC, newAddress |-> Deployed[CTC]],
               [pos |-> 1, block |-> DeployBlock, kind |-> "AddressSet",
                name |-> SCC, newAddress |-> Deployed[SCC]]}
    /\ tip = InitTip
    /\ final = InitTip

-----------------------------------------------------------------------------
OfKind(kinds) == {l \in logs : l.kind \in kinds}
AddressSets(name) == {l \in OfKind({"AddressSet"}) : l.name = name}

IsFirst(l, S) == l \in S /\ \A m \in S : l.pos <= m.pos
IsLast(l, S) == l \in S /\ \A m \in S : m.pos <= l.pos

\* The largest number of S as a singleton set; {0} when S is empty.
End(S) == {n \in S \cup {0} : \A m \in S : m <= n}

NumQueued(shape) == Cardinality({k \in DOMAIN shape : shape[k] = "l1"})

Enqueued == OfKind({"TransactionEnqueued"})
TransactionBatches == OfKind(TransactionBatchKinds)
StateBatches == OfKind({"StateBatchAppended"})

\* Where the next log, queue element, batch or element of a chain goes.
NextPos == End({l.pos + 1 : l \in logs})
NextQueueIndex == End({l.queueIndex + 1 : l \in Enqueued})
NextBatchIndex(S) == End({l.batchIndex + 1 : l \in S})
TotalElements(S) == End({l.prev + Len(l.shape) : l \in S})
NextToDequeue ==
    End({l.queueStart + NumQueued(l.shape) : l \in TransactionBatches})
TotalStates == End({l.prev + l.size : l \in StateBatches})

\* Lib_AddressManager.getAddress(name) in the block being built, as a
\* singleton set.
Registered(name) ==
    {s.newAddress : s \in {r \in AddressSets(name) :
                               IsLast(r, AddressSets(name))}}

Emit(l) == logs' = logs \cup {l} /\ UNCHANGED <<tip, final>>

\* A kind of the instance's alphabet, with room for one more log.
CanEmit(kind) ==
    kind \in Kinds /\ Cardinality(logs) < MaxLogs /\ tip < MaxBlock

\* An upgrade registers another address, once per name and block.
SetAddress ==
    /\ CanEmit("AddressSet")
    /\ \E name \in Upgradable, pos \in NextPos :
          \E a \in Addresses \ Registered(name) :
             /\ \A s \in AddressSets(name) : s.block <= tip
             /\ Emit([pos |-> pos, block |-> tip + 1, kind |-> "AddressSet",
                      name |-> name, newAddress |-> a])

Enqueue ==
    /\ CanEmit("TransactionEnqueued")
    /\ \E a \in Registered(CTC), pos \in NextPos, q \in NextQueueIndex :
          Emit([pos |-> pos, block |-> tip + 1,
                kind |-> "TransactionEnqueued", address |-> a,
                queueIndex |-> q])

\* A batch appends after the last one, and an "l1" element takes the next
\* element of the queue, which must already be there.
AppendTransactionBatch(kind, shape) ==
    /\ CanEmit(kind)
    /\ \E a \in Registered(CTC), pos \in NextPos,
          b \in NextBatchIndex(TransactionBatches),
          prev \in TotalElements(TransactionBatches),
          queueStart \in NextToDequeue, queueEnd \in NextQueueIndex :
          /\ queueStart + NumQueued(shape) <= queueEnd
          /\ Emit([pos |-> pos, block |-> tip + 1, kind |-> kind,
                   address |-> a, batchIndex |-> b, prev |-> prev,
                   shape |-> shape, queueStart |-> queueStart])

AppendSequencerBatch ==
    \E shape \in Shapes :
        AppendTransactionBatch("SequencerBatchAppended", shape)

AppendQueueBatch ==
    \E shape \in Shapes :
        /\ NumQueued(shape) = Len(shape)
        /\ AppendTransactionBatch("QueueBatchAppended", shape)

\* State roots are appended for transactions that are already in the chain.
AppendStateBatch ==
    /\ CanEmit("StateBatchAppended")
    /\ \E a \in Registered(SCC), pos \in NextPos,
          b \in NextBatchIndex(StateBatches), prev \in TotalStates,
          total \in TotalElements(TransactionBatches) :
          \E size \in 1 .. total - prev :
             Emit([pos |-> pos, block |-> tip + 1,
                   kind |-> "StateBatchAppended", address |-> a,
                   batchIndex |-> b, prev |-> prev, size |-> size])

Mine ==
    /\ tip < MaxBlock
    /\ tip' = tip + 1
    /\ final' = IF final < tip + 1 - MaxReorg
                THEN tip + 1 - MaxReorg ELSE final
    /\ UNCHANGED logs

Reorg ==
    /\ \E h \in final .. tip - 1 :
          /\ tip' = h
          /\ logs' = {l \in logs : l.block <= h}
    /\ UNCHANGED final

\* Every step of the chain but a reorganisation.
ChainStep ==
    \/ SetAddress
    \/ Enqueue
    \/ AppendSequencerBatch
    \/ AppendQueueBatch
    \/ AppendStateBatch
    \/ Mine

-----------------------------------------------------------------------------
(* What the RPC endpoint answers.  Each call is served by a node that may  *)
(* be up to MaxLag blocks behind; "view" is the height that node knows.    *)

Views == tip - MaxLag .. tip

\* ethers resolves a negative block tag relative to the head.
BlockTag(n, view) ==
    IF n >= 0 THEN n ELSE IF view + n >= 0 THEN view + n ELSE 0

\* eth_getLogs; a reversed range is an empty one.
LogsBetween(S, fromBlock, toBlock, view) ==
    {l \in S : /\ BlockTag(fromBlock, view) <= l.block
               /\ l.block <= BlockTag(toBlock, view)
               /\ l.block <= view}

\* OVM_CanonicalTransactionChain.getTotalElements() at height view.
GetTotalElements(view) ==
    TotalElements({l \in TransactionBatches : l.block <= view})
=============================================================================
