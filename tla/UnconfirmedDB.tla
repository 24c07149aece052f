--------------------------- MODULE UnconfirmedDB ---------------------------
(***************************************************************************)
(* The part of the LevelDB store that L2 ingestion writes: what the        *)
(* sequencer says before it is on Layer 1.  It has keys of its own, so     *)
(* that an unconfirmed record never overwrites a confirmed one.            *)
(***************************************************************************)
EXTENDS SimpleDB

UnconfirmedTables == {"unconfirmed:transaction", "unconfirmed:stateroot"}

VARIABLES
    unconfirmed,         \* unconfirmed table -> the records stored in it
    unconfirmedLatest,   \* unconfirmed table -> its latest pointer, or Null
    unconfirmedHighest   \* "unconfirmed:highest", 0 while absent

unconfirmedVars == <<unconfirmed, unconfirmedLatest, unconfirmedHighest>>

\* A record that is in no batch yet.
UnconfirmedEntry == [index: Nat, batchIndex: {Null}]

UnconfirmedTypeOK ==
    /\ unconfirmed \in [UnconfirmedTables -> SUBSET UnconfirmedEntry]
    /\ unconfirmedLatest \in [UnconfirmedTables -> Nat \cup {Null}]
    /\ unconfirmedHighest \in Nat

UnconfirmedInit ==
    /\ unconfirmed = [t \in UnconfirmedTables |-> {}]
    /\ unconfirmedLatest = [t \in UnconfirmedTables |-> Null]
    /\ unconfirmedHighest = 0
=============================================================================
