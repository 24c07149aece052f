------------------------------ MODULE SimpleDB ------------------------------
(***************************************************************************)
(* What db/simple-db.ts and the private methods of db/transport-db.ts do   *)
(* to one table.  A table is the set of the records stored under           *)
(* "<key>:index:<n>", with at most one record per index; its pointer is    *)
(* "<key>:latest".                                                         *)
(*                                                                         *)
(* A put is one atomic LevelDB batch.  A get that fails, for whatever      *)
(* reason, answers null exactly as a missing key does.                     *)
(***************************************************************************)
EXTENDS Integers

CONSTANT Null    \* JavaScript's null

ASSUME NullAssumption == Null \notin Int

\* null counts as 0 in a comparison and in "|| 0".
ToNumber(value) == IF value = Null THEN 0 ELSE value

\* The batch write of _putEntries: a new record replaces the old one.
Put(stored, records) ==
    {e \in stored : \A r \in records : r.index # e.index} \cup records

\* _putLatestEntry, with the pointer as it is and as it was read.  Mutants:
\* without the comparison, and with a strict one.
LatestAlways(pointer, index, got) == index
LatestIfGreater(pointer, index, got) ==
    IF index > ToNumber(got) THEN index ELSE pointer
Latest(pointer, index, got) ==
    IF index >= ToNumber(got) THEN index ELSE pointer
=============================================================================
