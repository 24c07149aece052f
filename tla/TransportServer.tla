-------------------------- MODULE TransportServer --------------------------
(***************************************************************************)
(* services/server/service.ts: each route puts its answer together from    *)
(* several reads of the database, and both ingestion services write        *)
(* between them.  Each action is one read.  The handlers only read, so one *)
(* request at a time stands for any number of them.                        *)
(*                                                                         *)
(* A route is named after the table it answers from; "syncing" and         *)
(* "context" are the two others that depend on the database or the chain.  *)
(***************************************************************************)
EXTENDS L1Ingestion, UnconfirmedDB

CONSTANTS
    ShowUnconfirmed,   \* options.showUnconfirmedTransactions
    Routes,            \* the routes this instance requests
    Indices            \* bound: the indices it asks for

AllRoutes == Tables \cup {"syncing", "context"}

\* An "l1" transaction with what it takes from its queue element.
FullEntry ==
    [index: Nat, batchIndex: Nat, queueOrigin: {"l1"}, queueIndex: Nat,
     blockNumber: Nat, data: Nat]

ASSUME TransportServerAssumption ==
    /\ ShowUnconfirmed \in BOOLEAN
    /\ Routes \subseteq AllRoutes
    /\ Null \notin AllRoutes
    /\ Indices \subseteq Nat
    /\ Null \notin Entry \cup UnconfirmedEntry \cup FullEntry

VARIABLES
    spc,      \* what the handler reads next
    route,    \* the route being answered
    wanted,   \* the index in the URL, Null for "latest"
    key,      \* the index to be read next
    got,      \* the record of the answer: transaction, root, batch, block ...
    joined,   \* what is added to it: its batch, elements, ctcIndex ...
    todo,     \* "l1" transactions of joined that lack their queue element
    again,    \* the record is read a second time
    dbOpen,   \* the database is open
    asOf,     \* history: index of what could be answered when asked
    missed    \* history: a read of this request failed

requestVars == <<route, wanted, asOf>>
handlerVars == <<spc, requestVars, key, got, joined, todo, again,
                 missed>>
serverVars == <<handlerVars, dbOpen>>

SPCs == {"idle", "highest", "pointer", "entry", "queue", "unconfirmedPointer",
         "unconfirmedEntry", "batch", "ctcIndex", "range", "element", "tip",
         "block", "answered", "error", "rejected"}

-----------------------------------------------------------------------------
(* The pieces of an answer.                                                *)

\* The table a route answers from.
TableFor(r) == IF r = "syncing" THEN "transaction" ELSE r
UnconfirmedTable(r) ==
    IF r = "transaction" THEN "unconfirmed:transaction"
                         ELSE "unconfirmed:stateroot"

\* The table whose pointer is read for "latest".  Mutant: that of the
\* transactions' batches.
BatchPointer(t) == IF t = "transaction" THEN "batch:transaction" ELSE t
PointerTable(t) == t

\* The table of the batches of a route's records.  Mutant: the same one for
\* both.
TransactionBatchTable(r) == "batch:transaction"
BatchTable(r) ==
    IF r = "transaction" THEN "batch:transaction" ELSE "batch:stateroot"

\* The table of the elements of a route's batches.
ElementTable(r) ==
    IF r = "batch:transaction" THEN "transaction" ELSE "stateroot"

\* The elements of a batch.  Mutant: with both edges.
WithBothEdges(b) == b.prevTotalElements .. b.prevTotalElements + b.size
ElementsOf(b) == b.prevTotalElements .. b.prevTotalElements + b.size - 1

\* Where the queue element of an "l1" transaction is.  Mutant: at the
\* transaction's own index.
OwnIndex(tx) == tx.index
ElementIndex(tx) == tx.queueIndex

\* getFullTransactionByIndex: the "l1" transaction with the fields of its
\* queue element.  The element's number stands for its gasLimit, target,
\* origin and data.
FullTransaction(tx, element) ==
    [index |-> tx.index, batchIndex |-> tx.batchIndex,
     queueOrigin |-> tx.queueOrigin, queueIndex |-> tx.queueIndex,
     blockNumber |-> element.blockNumber, data |-> element.index]

IsQueued(tx) == tx.queueOrigin = "l1"

\* e is what reading the key of these records gives: the record, or null
\* when there is none, when the read fails or when the database is closed.
Read(records, e) ==
    \/ records = {} /\ e = Null /\ UNCHANGED <<faults, missed>>
    \/ dbOpen /\ e \in records /\ UNCHANGED <<faults, missed>>
    \/ /\ records # {}
       /\ e = Null
       /\ missed' = TRUE
       /\ \/ ~dbOpen /\ UNCHANGED faults
          \/ dbOpen /\ CanFault("serve") /\ faults' = faults + 1

\* An unconfirmed record is preferred when it is at least as new.  Mutant:
\* whenever there is one.
Always(u, e) == TRUE
Newer(u, e) == u.index >= e.index

\* /eth/syncing: something is known to be missing; only then the highest
\* known index is part of the answer.  Mutant: done as long as there is no
\* transaction at all.
DoneWhenEmpty(highest, e) == e # Null /\ ToNumber(highest) > e.index
Syncing(highest, e) ==
    IF e = Null THEN highest # Null ELSE ToNumber(highest) > e.index

\* Math.max(0, tip - confirmations).  Mutant: a block too far.
OneBlockTooFar(view) ==
    IF view >= Confirmations THEN view - Confirmations + 1 ELSE 0
ContextBlock(view) ==
    IF view >= Confirmations THEN view - Confirmations ELSE 0

-----------------------------------------------------------------------------
(* What a client could get at this moment: the index of the record.        *)

HasUnconfirmed(r) == ShowUnconfirmed /\ r \in {"transaction", "stateroot"}

AvailableLatest(r) ==
    LET pointers == {latest[TableFor(r)]} \cup
            IF HasUnconfirmed(r) THEN {unconfirmedLatest[UnconfirmedTable(r)]}
                                 ELSE {}
    IN  IF pointers = {Null} THEN {Null} ELSE End(pointers \ {Null})

AvailableAt(r, n) ==
    LET records == At(TableFor(r), n) \cup
            IF HasUnconfirmed(r)
            THEN {u \in unconfirmed[UnconfirmedTable(r)] : u.index = n}
            ELSE {}
    IN  IF records = {} THEN {Null} ELSE {n}

Available(r, n) ==
    CASE r = "context" -> {Null}
      [] r # "context" /\ n = Null -> AvailableLatest(r)
      [] r # "context" /\ n # Null -> AvailableAt(r, n)

-----------------------------------------------------------------------------
ServerInit ==
    /\ spc = "idle"
    /\ route = Null /\ wanted = Null /\ key = Null
    /\ got = Null /\ joined = Null
    /\ todo = {}
    /\ again = FALSE
    /\ asOf = Null
    /\ missed = FALSE
    /\ dbOpen = TRUE

\* The first read of a route.
FirstRead(r, n) ==
    CASE r = "syncing" -> "highest"
      [] r = "context" -> "tip"
      [] r \in Tables /\ n = Null -> "pointer"
      [] r \in Tables /\ n # Null ->
             IF HasUnconfirmed(r) THEN "unconfirmedEntry" ELSE "entry"

Request ==
    /\ spc = "idle"
    /\ \E r \in Routes, n \in Indices \cup {Null} :
          /\ r = "syncing" => n = Null
          /\ route' = r
          /\ wanted' = n
          /\ key' = n
          /\ asOf' \in Available(r, n)
          /\ spc' = FirstRead(r, n)
    /\ got' = Null
    /\ UNCHANGED <<joined, todo, again, missed, faults>>

\* What follows once the confirmed transaction or state root is there: the
\* unconfirmed one, a second attempt, its batch.
AfterConfirmed(e) ==
    /\ spc' = CASE wanted = Null /\ ~again /\ HasUnconfirmed(route) ->
                       "unconfirmedPointer"
                [] wanted = Null /\ ~again /\ ~HasUnconfirmed(route) ->
                       IF e = Null THEN "pointer" ELSE "batch"
                [] wanted # Null \/ again ->
                       IF e = Null THEN "answered" ELSE "batch"
    /\ again' = (again \/ spc' = "pointer")

AfterEntry(e) ==
    CASE route = "syncing" -> spc' = "answered" /\ UNCHANGED again
      [] route = "enqueue" ->
             /\ spc' = IF e = Null THEN "answered" ELSE "ctcIndex"
             /\ UNCHANGED again
      [] route \in {"batch:transaction", "batch:stateroot"} ->
             /\ spc' = IF e = Null THEN "answered" ELSE "range"
             /\ UNCHANGED again
      [] route = "stateroot" -> AfterConfirmed(e)
      [] route = "transaction" ->
             IF e # Null /\ IsQueued(e) THEN spc' = "queue" /\ UNCHANGED again
                                        ELSE AfterConfirmed(e)

\* getHighestL2BlockNumber.
ReadHighest ==
    /\ spc = "highest"
    /\ Read({highestL2}, joined')
    /\ spc' = "pointer"
    /\ UNCHANGED <<requestVars, key, got, todo, again>>

\* _getLatestEntryIndex.
ReadPointer ==
    /\ spc = "pointer"
    /\ Read({latest[PointerTable(TableFor(route))]}, key')
    /\ spc' = "entry"
    /\ UNCHANGED <<requestVars, got, joined, todo, again>>

ReadEntry ==
    /\ spc = "entry"
    /\ Read(At(TableFor(route), key), got')
    /\ AfterEntry(got')
    /\ joined' = IF route = "syncing" /\ ~Syncing(joined, got')
                 THEN Null ELSE joined
    /\ UNCHANGED <<requestVars, key, todo>>

\* The rest of getFullTransactionByIndex for an "l1" transaction.
ReadQueueElement ==
    /\ spc = "queue"
    /\ \E element \in At("enqueue", ElementIndex(got)) \cup {Null} :
          /\ Read(At("enqueue", ElementIndex(got)), element)
          /\ got' = IF element = Null THEN Null
                                      ELSE FullTransaction(got, element)
          /\ AfterConfirmed(got')
    /\ UNCHANGED <<requestVars, key, joined, todo>>

ReadUnconfirmedPointer ==
    /\ spc = "unconfirmedPointer"
    /\ Read({unconfirmedLatest[UnconfirmedTable(route)]}, key')
    /\ spc' = "unconfirmedEntry"
    /\ UNCHANGED <<requestVars, got, joined, todo, again>>

\* By index the unconfirmed record comes first, for "latest" it is compared
\* with the confirmed one, which fails when there is no unconfirmed one.
ReadUnconfirmedEntry ==
    /\ spc = "unconfirmedEntry"
    /\ LET records == {u \in unconfirmed[UnconfirmedTable(route)] :
                          u.index = key}
       IN  \E u \in records \cup {Null} :
              /\ Read(records, u)
              /\ \/ /\ got # Null /\ u = Null
                    /\ spc' = "error"
                    /\ UNCHANGED <<got, again>>
                 \/ /\ got # Null /\ u # Null
                    /\ got' = IF Newer(u, got) THEN u ELSE got
                    /\ spc' = "batch"
                    /\ UNCHANGED again
                 \/ /\ got = Null /\ u # Null
                    /\ got' = u
                    /\ spc' = "batch"
                    /\ UNCHANGED again
                 \/ /\ got = Null /\ u = Null
                    /\ spc' = IF wanted = Null THEN "pointer" ELSE "entry"
                    /\ again' = (wanted = Null)
                    /\ UNCHANGED got
    /\ UNCHANGED <<requestVars, key, joined, todo>>

ReadBatch ==
    /\ spc = "batch"
    /\ Read(At(BatchTable(route), got.batchIndex), joined')
    /\ spc' = "answered"
    /\ UNCHANGED <<requestVars, key, got, todo, again>>

\* getTransactionIndexByQueueIndex.
ReadCtcIndex ==
    /\ spc = "ctcIndex"
    /\ Read({c.index : c \in {d \in ctcIndex : d.queueIndex = got.index}},
            joined')
    /\ spc' = "answered"
    /\ UNCHANGED <<requestVars, key, got, todo, again>>

\* SimpleDB.range sees the table at one moment.  "l1" transactions still
\* need their queue elements.
ReadRange ==
    /\ spc = "range"
    /\ dbOpen
    /\ LET elements == {e \in entries[ElementTable(route)] :
                           e.index \in ElementsOf(got)}
           queued == {e \in elements :
                         route = "batch:transaction" /\ IsQueued(e)}
       IN  \E list \in {elements, Null} :
              /\ Read({elements}, list)
              /\ \/ /\ list = Null \/ queued = {}
                    /\ joined' = list
                    /\ spc' = "answered"
                    /\ UNCHANGED todo
                 \/ /\ list # Null /\ queued # {}
                    /\ joined' = elements \ queued
                    /\ todo' = queued
                    /\ spc' = "element"
    /\ UNCHANGED <<requestVars, key, got, again>>

\* The loop of getFullTransactionsByIndexRange; one missing element makes
\* the whole list null.
ReadElement ==
    /\ spc = "element"
    /\ \E tx \in todo :
          /\ \A other \in todo : tx.index <= other.index
          /\ \E element \in At("enqueue", ElementIndex(tx)) \cup {Null} :
                /\ Read(At("enqueue", ElementIndex(tx)), element)
                /\ \/ /\ element = Null
                      /\ joined' = Null
                      /\ todo' = {}
                      /\ spc' = "answered"
                   \/ /\ element # Null
                      /\ joined' = joined \cup {FullTransaction(tx, element)}
                      /\ todo' = todo \ {tx}
                      /\ spc' = IF todo' = {} THEN "answered" ELSE "element"
    /\ UNCHANGED <<requestVars, key, got, again>>

\* /eth/context: the tip of one node, then the block of another.
ReadTip ==
    /\ spc = "tip"
    /\ \E view \in Views :
          LET highest == ContextBlock(view)
          IN  /\ key' = IF wanted = Null THEN highest ELSE wanted
              /\ spc' = IF key' > highest THEN "answered" ELSE "block"
    /\ UNCHANGED <<requestVars, got, joined, todo, again, missed, faults>>

ReadBlock ==
    /\ spc = "block"
    /\ \E view \in Views :
          \/ /\ key <= view
             /\ got' = [index |-> key]
             /\ spc' = "answered"
          \/ /\ key > view
             /\ spc' = "error"
             /\ UNCHANGED got
    /\ UNCHANGED <<requestVars, key, joined, todo, again, missed, faults>>

\* The RPC call of a context route or a stream on the closed database
\* rejects: status 400.
ReadRejected ==
    /\ \/ /\ spc \in {"tip", "block"}
          /\ CanFault("rpc")
          /\ faults' = faults + 1
       \/ spc = "range" /\ ~dbOpen /\ UNCHANGED faults
    /\ spc' = "rejected"
    /\ UNCHANGED <<requestVars, key, got, joined, todo, again, missed>>

\* The answer is on its way; the handler's locals are gone.
ServerIdle ==
    /\ spc' = "idle"
    /\ route' = Null /\ wanted' = Null /\ key' = Null
    /\ got' = Null /\ joined' = Null
    /\ todo' = {}
    /\ again' = FALSE
    /\ asOf' = Null
    /\ missed' = FALSE

Respond ==
    /\ spc \in {"answered", "error", "rejected"}
    /\ ServerIdle
    /\ UNCHANGED faults

ServerRead ==
    \/ ReadHighest \/ ReadPointer \/ ReadEntry \/ ReadQueueElement
    \/ ReadUnconfirmedPointer \/ ReadUnconfirmedEntry \/ ReadBatch
    \/ ReadCtcIndex \/ ReadRange \/ ReadElement \/ ReadTip \/ ReadBlock
    \/ ReadRejected

-----------------------------------------------------------------------------
(* What an answer promises.                                                *)

Answered(routes) == spc = "answered" /\ route \in routes

ServerTypeOK ==
    /\ spc \in SPCs
    /\ route \in Routes \cup {Null}
    /\ wanted \in Indices \cup {Null}
    /\ key \in Nat \cup {Null}
    /\ again \in BOOLEAN
    /\ asOf \in Nat \cup {Null}
    /\ missed \in BOOLEAN
    /\ dbOpen \in BOOLEAN
    /\ spc \in {"queue", "batch", "ctcIndex", "range", "element"} => got # Null
    /\ todo # {} <=> spc = "element"

\* Safety: a transaction or state root is answered with the batch it is in,
\* although the two are read at different moments; only an unconfirmed one
\* has none, and a failing read may hide it.
BatchBelongs ==
    Answered({"transaction", "stateroot"}) /\ got # Null =>
        IF joined = Null
        THEN got.batchIndex = Null \/ missed
        ELSE /\ joined.index = got.batchIndex
             /\ got.index \in joined.prevTotalElements
                                 .. joined.prevTotalElements + joined.size - 1

\* The L1 block of the queue element with this number on the chain.
EnqueuedIn(q) == {l.block : l \in {m \in Enqueued : m.queueIndex = q}}

\* Safety: the fields an "l1" transaction takes from its queue element are
\* those of the element that the chain has dequeued for it, alone or in a
\* list, and a queue element's ctcIndex leads to such a transaction.
ElementBelongs ==
    LET full == CASE Answered({"transaction"}) -> {got} \ {Null}
                  [] Answered({"batch:transaction"}) /\ joined # Null -> joined
                  [] OTHER -> {}
    IN  /\ \A tx \in full :
              "queueOrigin" \in DOMAIN tx /\ IsQueued(tx) =>
                  /\ tx.data = tx.queueIndex
                  /\ tx.blockNumber \in EnqueuedIn(tx.queueIndex)
        /\ Answered({"enqueue"}) /\ joined # Null =>
              \E tx \in At("transaction", joined) :
                  IsQueued(tx) /\ tx.queueIndex = got.index

\* Safety: the list of a batch is never a part of it: all its elements, or
\* none because they are not stored yet, or null because a read failed.
AllOrNothing ==
    Answered({"batch:transaction", "batch:stateroot"}) /\ got # Null =>
        IF joined = Null THEN missed
        ELSE \/ joined = {}
             \/ {e.index : e \in joined} =
                    got.prevTotalElements
                        .. got.prevTotalElements + got.size - 1

\* Safety, unless a read fails: a record that was there when the request
\* came is answered, and "latest" is at least as new as it was then.
FreshAnswer ==
    spc = "answered" /\ asOf # Null /\ ~missed =>
        got # Null /\ got.index >= asOf

\* Safety, unless a read fails: a server that reports to be done has all
\* transactions of the chain that were known when syncing began.
DoneMeansAllStored ==
    Answered({"syncing"}) /\ joined = Null /\ ~missed
        /\ highestL2 # Null =>
        \A i \in 0 .. highestL2 : At("transaction", i) # {}

\* Safety: an L1 block given to clients as context can never be reorganised
\* away, and the node that is asked for it has it, although tip and block
\* come from nodes that may lag and the chain may shrink in between.
ContextIsFinal ==
    route = "context" =>
        /\ spc = "answered" /\ got # Null => got.index <= final
        /\ spc # "error"

\* Safety, the comment in storeBlock: "Unconfirmed transactions are purely
\* extra information", so that showing them hides no confirmed ones.
LatestIsAnswered ==
    wanted = Null /\ route \in {"transaction", "stateroot"} =>
        spc # "error"
=============================================================================
