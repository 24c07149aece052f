---------------------------- MODULE IndexedChain ----------------------------
(***************************************************************************)
(* What L1 ingestion promises to whoever reads its tables, without windows,*)
(* awaits, address changes, faults or replays: the tables are filled with  *)
(* the records of confirmed logs, all records of a log in a table at once, *)
(* nothing is replaced or taken back, a latest pointer is never without    *)
(* its record, and only logs of which nothing is missing count as done.    *)
(***************************************************************************)
EXTENDS Integers

CONSTANTS
    TableNames,        \* the tables
    RecordsOf(_, _),   \* the records of a log in a table
    None               \* the pointer of a table that has none

VARIABLES
    confirmed,   \* logs that no reorganisation can remove
    records,     \* table -> its records
    pointer,     \* table -> index of its latest record, or None
    done         \* logs that will not be read again

indexVars == <<confirmed, records, pointer, done>>

Complete(l) == \A t \in TableNames : RecordsOf(l, t) \subseteq records[t]

IndexInit ==
    /\ records = [t \in TableNames |-> {}]
    /\ pointer = [t \in TableNames |-> None]
    /\ \A l \in done : Complete(l)

\* More of the chain is confirmed.
Confirm ==
    /\ confirmed \subseteq confirmed'
    /\ UNCHANGED <<records, pointer, done>>

\* One put: the records of a confirmed log in one table.
Store ==
    /\ \E l \in confirmed, t \in TableNames :
          records' = [records EXCEPT ![t] = @ \cup RecordsOf(l, t)]
    /\ UNCHANGED <<confirmed, pointer, done>>

\* A latest pointer is moved to a record that is there.
Point ==
    /\ \E t \in TableNames : \E e \in records[t] :
          pointer' = [pointer EXCEPT ![t] = e.index]
    /\ UNCHANGED <<confirmed, records, done>>

\* Other logs count as done.  A failing read may make it fewer.
Commit ==
    /\ \A l \in done' : l \in confirmed /\ Complete(l)
    /\ UNCHANGED <<confirmed, records, pointer>>

IndexNext == Confirm \/ Store \/ Point \/ Commit

IndexSpec == IndexInit /\ [][IndexNext]_indexVars
=============================================================================
