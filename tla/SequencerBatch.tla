--------------------------- MODULE SequencerBatch ---------------------------
(***************************************************************************)
(* parseEvent of handlers/sequencer-batch-appended.ts: how the elements of *)
(* a batch are found in the calldata of appendSequencerBatch.  The fields  *)
(* are where they are in the code, and bytes are bytes; what stands in a   *)
(* transaction is only its type and the v of its signature.                *)
(*                                                                         *)
(* The calldata may be cut short anywhere, which the handler only looks    *)
(* for in its first bytes.                                                 *)
(***************************************************************************)
EXTENDS Integers, Sequences, FiniteSets, SequencesExt

CONSTANTS
    Null,
    Transactions,        \* what the sequencer may append, as bytes
    Timestamps,          \* of contexts
    BlockNumbers,
    MaxContexts,         \* bound: contexts of a batch
    MaxSequenced,        \* bound: sequenced transactions of a context
    MaxQueued,           \* bound: queue elements of a context
    PrevTotalElements,   \* extraData.prevTotalElements
    StartingQueueIndex   \* event.args._startingQueueIndex

ASSUME SequencerBatchAssumption ==
    /\ Transactions \subseteq Seq(0 .. 255)
    /\ Timestamps \subseteq Nat /\ BlockNumbers \subseteq Nat
    /\ MaxContexts \in Nat /\ MaxSequenced \in Nat /\ MaxQueued \in Nat
    /\ PrevTotalElements \in Nat /\ StartingQueueIndex \in Nat

VARIABLES
    batch,           \* what the sequencer meant
    calldata,        \* what the handler is given of it
    pc,              \* "context", "element", "returned" or "thrown"
    numContexts,
    contextNumber,   \* i
    context,         \* what is left of the context being read
    nextTxPointer,
    entries          \* transactionEntries

vars == <<batch, calldata, pc, numContexts, contextNumber, context,
          nextTxPointer, entries>>

-----------------------------------------------------------------------------
(* The encoder, which is not part of this repository.                      *)

\* A number on width bytes.
Encode(n, width) ==
    LET rest[k \in 1 .. width] ==
            IF k = width THEN n ELSE rest[k + 1] \div 256
    IN  [k \in 1 .. width |-> rest[k] % 256]

EncodeContext(c) ==
    Encode(Len(c.sequenced), 3) \o Encode(c.queued, 3)
        \o Encode(c.timestamp, 5) \o Encode(c.blockNumber, 5)

EncodeTransactions(c) ==
    FlattenSeq([k \in DOMAIN c.sequenced |->
                   Encode(Len(c.sequenced[k]), 3) \o c.sequenced[k]])

\* Selector, shouldStartAtElement and totalElementsToAppend are 12 bytes.
EncodeBatch(b) ==
    Encode(0, 12) \o Encode(Len(b), 3)
        \o FlattenSeq([i \in DOMAIN b |-> EncodeContext(b[i])])
        \o FlattenSeq([i \in DOMAIN b |-> EncodeTransactions(b[i])])

Batches ==
    UNION {[1 .. n -> [sequenced: SeqOf(Transactions, MaxSequenced),
                       queued: 0 .. MaxQueued,
                       timestamp: Timestamps, blockNumber: BlockNumbers]] :
              n \in 1 .. MaxContexts}

-----------------------------------------------------------------------------
(* Buffers and numbers.                                                    *)

\* Buffer.slice(from, to) of the calldata: what there is of it.
Slice(from, to) == SubSeq(calldata, from + 1, Min({to, Len(calldata)}))

\* BigNumber.from(bytes).toNumber(), which throws on no bytes at all.
\* Mutant: no bytes count as 0.
AnyBytes(bytes) == TRUE
IsNumber(bytes) == bytes # <<>>
ToNumber(bytes) ==
    LET number[k \in 0 .. Len(bytes)] ==
            IF k = 0 THEN 0 ELSE 256 * number[k - 1] + bytes[k]
    IN  number[Len(bytes)]

\* maybeDecodeSequencerBatchTransaction with validateBatchTransaction: the
\* type stays when the signature makes the transaction invalid.
TypeOf(tx) ==
    CASE tx # <<>> /\ Head(tx) = 0 -> "EIP155"
      [] tx # <<>> /\ Head(tx) = 1 -> "ETH_SIGN"
      [] OTHER -> Null
IsDecoded(tx) == TypeOf(tx) # Null /\ Len(tx) > 1 /\ tx[2] \in {0, 1}

-----------------------------------------------------------------------------
NoContext ==
    [sequenced |-> 0, queued |-> 0, timestamp |-> 0, blockNumber |-> 0]

NumContextsField == Slice(12, 15)

\* The handler begins: the length check and the number of contexts.
Init ==
    /\ batch \in Batches
    /\ \E length \in 0 .. Len(EncodeBatch(batch)) :
          calldata = SubSeq(EncodeBatch(batch), 1, length)
    /\ \/ /\ Len(calldata) < 12 \/ ~IsNumber(NumContextsField)
          /\ pc = "thrown"
          /\ numContexts = 0
       \/ /\ Len(calldata) >= 12 /\ IsNumber(NumContextsField)
          /\ pc = "context"
          /\ numContexts = ToNumber(NumContextsField)
    /\ contextNumber = 0
    /\ context = NoContext
    /\ nextTxPointer = 15 + 16 * numContexts
    /\ entries = <<>>

Throw ==
    /\ pc' = "thrown"
    /\ UNCHANGED <<batch, calldata, numContexts, contextNumber, context,
                   nextTxPointer, entries>>

\* parseSequencerBatchContext.
ContextFields ==
    LET offset == 15 + 16 * contextNumber
    IN  [sequenced |-> Slice(offset, offset + 3),
         queued |-> Slice(offset + 3, offset + 6),
         timestamp |-> Slice(offset + 6, offset + 11),
         blockNumber |-> Slice(offset + 11, offset + 16)]

ReadContext ==
    /\ pc = "context"
    /\ contextNumber < numContexts
    /\ \/ /\ \E f \in DOMAIN ContextFields : ~IsNumber(ContextFields[f])
          /\ Throw
       \/ /\ \A f \in DOMAIN ContextFields : IsNumber(ContextFields[f])
          /\ context' = [f \in DOMAIN ContextFields |->
                            ToNumber(ContextFields[f])]
          /\ contextNumber' = contextNumber + 1
          /\ pc' = "element"
          /\ UNCHANGED <<batch, calldata, numContexts, nextTxPointer,
                         entries>>

\* enqueuedCount goes on from context to context.  Mutant: each context
\* starts again.
EnqueuedHere == batch[contextNumber].queued - context.queued
EnqueuedCount ==
    Cardinality({k \in DOMAIN entries : entries[k].queueOrigin = "l1"})

\* parseSequencerBatchTransaction, which takes what there is of the
\* announced length, and the entry made of it.
ReadTransaction ==
    /\ pc = "element"
    /\ context.sequenced > 0
    /\ LET lengthField == Slice(nextTxPointer, nextTxPointer + 3)
           tx == Slice(nextTxPointer + 3,
                       nextTxPointer + 3 + ToNumber(lengthField))
       IN  \/ /\ ~IsNumber(lengthField)
              /\ Throw
           \/ /\ IsNumber(lengthField)
              /\ entries' = Append(entries,
                    [index |-> PrevTotalElements + Len(entries),
                     queueOrigin |-> "sequencer", queueIndex |-> Null,
                     timestamp |-> context.timestamp,
                     blockNumber |-> context.blockNumber,
                     data |-> tx, type |-> TypeOf(tx),
                     decoded |-> IsDecoded(tx)])
              /\ nextTxPointer' = nextTxPointer + 3 + Len(tx)
              /\ context' = [context EXCEPT !.sequenced = @ - 1]
              /\ UNCHANGED <<batch, calldata, pc, numContexts,
                             contextNumber>>

\* A queue element, of which only the place is known here.
AddQueueElement ==
    /\ pc = "element"
    /\ context.sequenced = 0
    /\ context.queued > 0
    /\ entries' = Append(entries,
          [index |-> PrevTotalElements + Len(entries),
           queueOrigin |-> "l1",
           queueIndex |-> StartingQueueIndex + EnqueuedCount,
           timestamp |-> 0, blockNumber |-> 0, data |-> <<>>,
           type |-> "EIP155", decoded |-> FALSE])
    /\ context' = [context EXCEPT !.queued = @ - 1]
    /\ UNCHANGED <<batch, calldata, pc, numContexts, contextNumber,
                   nextTxPointer>>

EndContext ==
    /\ pc = "element"
    /\ context.sequenced = 0 /\ context.queued = 0
    /\ pc' = "context"
    /\ UNCHANGED <<batch, calldata, numContexts, contextNumber, context,
                   nextTxPointer, entries>>

Return ==
    /\ pc = "context"
    /\ contextNumber = numContexts
    /\ pc' = "returned"
    /\ UNCHANGED <<batch, calldata, numContexts, contextNumber, context,
                   nextTxPointer, entries>>

Next == ReadContext \/ ReadTransaction \/ AddQueueElement \/ EndContext
            \/ Return

Spec == Init /\ [][Next]_vars

-----------------------------------------------------------------------------
(* What the chain means by the batch.                                      *)

ElementsOf(c) ==
    [k \in DOMAIN c.sequenced |->
        [queueOrigin |-> "sequencer", timestamp |-> c.timestamp,
         blockNumber |-> c.blockNumber, data |-> c.sequenced[k]]]
    \o [k \in 1 .. c.queued |->
           [queueOrigin |-> "l1", timestamp |-> 0, blockNumber |-> 0,
            data |-> <<>>]]

Elements == FlattenSeq([i \in DOMAIN batch |-> ElementsOf(batch[i])])

QueuedBefore(k) ==
    Cardinality({m \in 1 .. k - 1 : Elements[m].queueOrigin = "l1"})

\* Entry k says where element k is and what it is, but for its data.
Places(k) ==
    /\ entries[k].index = PrevTotalElements + k - 1
    /\ entries[k].queueOrigin = Elements[k].queueOrigin
    /\ entries[k].queueIndex =
          IF Elements[k].queueOrigin = "l1"
          THEN StartingQueueIndex + QueuedBefore(k) ELSE Null
    /\ entries[k].timestamp = Elements[k].timestamp
    /\ entries[k].blockNumber = Elements[k].blockNumber

Complete == calldata = EncodeBatch(batch)

\* Safety: from complete calldata the handler makes exactly the elements of
\* the batch, in their order, with the data, context and queue index of
\* each (the pointers of parseEvent), and it does not throw.
DecodesTheBatch ==
    Complete =>
        /\ pc # "thrown"
        /\ pc = "returned" =>
              /\ DOMAIN entries = DOMAIN Elements
              /\ \A k \in DOMAIN entries :
                    Places(k) /\ entries[k].data = Elements[k].data

\* Safety: if the calldata ends too early but not inside the number of
\* contexts, the handler throws or still finds every element in its place;
\* only the data of the last transaction may be cut, and never the number
\* of elements that follow the batch (the slices and the length check).
CutIsNoticed ==
    pc = "returned" /\ Len(calldata) \notin {13, 14} =>
        /\ DOMAIN entries = DOMAIN Elements
        /\ \A k \in DOMAIN entries :
              /\ Places(k)
              /\ IsPrefix(entries[k].data, Elements[k].data)
              /\ \/ entries[k].data = Elements[k].data
                 \/ \A m \in DOMAIN entries :
                       m > k => entries[m].queueOrigin = "l1"
=============================================================================
