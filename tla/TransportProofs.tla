-------------------------- MODULE TransportProofs --------------------------
(***************************************************************************)
(* The whole process: what is proved of either ingestion loop holds while  *)
(* both run next to the server over one database, are stopped, have it     *)
(* closed under them, or die together, because nothing that the rest of    *)
(* the process does to a loop is new to it.                                *)
(***************************************************************************)
EXTENDS DataTransport, L1ContentProofs, L2Proofs

\* Where the loops, the server and the database are in each phase.
ProcessOK ==
    /\ phase \in Phases
    /\ phase \in {"init", "stopped", "down"} => spc = "idle" /\ l2pc = "down"
    /\ phase \in {"stopped", "down"} => pc = "down"
    /\ phase = "init" => pc \in InitPCs \cup {"poll"}
    /\ phase \in {"up", "stopping"} /\ SyncFromL1 => pc \notin InitPCs
    /\ dbOpen = IF phase \in {"init", "up"} THEN TRUE ELSE FALSE

\* A handler only reads the database; what it may change is the number of
\* faults.
LEMMA ServerFaults ==
    ASSUME Request \/ ServerRead \/ Respond
    PROVE  faults' \in {faults, faults + 1}
<1>1. CASE Request \/ Respond \/ ReadTip \/ ReadBlock
    BY <1>1 DEF Request, Respond, ReadTip, ReadBlock
<1>2. ASSUME NEW records, NEW e, Read(records, e)
      PROVE  faults' \in {faults, faults + 1}
    BY <1>2 DEF Read
<1>3. CASE ReadHighest \/ ReadPointer \/ ReadEntry \/ ReadUnconfirmedPointer
    BY <1>2, <1>3 DEF ReadHighest, ReadPointer, ReadEntry, ReadUnconfirmedPointer
<1>4. CASE ReadBatch \/ ReadCtcIndex \/ ReadRange
    BY <1>2, <1>4 DEF ReadBatch, ReadCtcIndex, ReadRange
<1>5. CASE ReadQueueElement
    BY <1>2, <1>5 DEF ReadQueueElement
<1>6. CASE ReadUnconfirmedEntry
    BY <1>2, <1>6 DEF ReadUnconfirmedEntry
<1>7. CASE ReadElement
    BY <1>2, <1>7 DEF ReadElement
<1>8. CASE ReadRejected
    BY <1>8 DEF ReadRejected
<1> QED
    BY <1>1, <1>3, <1>4, <1>5, <1>6, <1>7, <1>8 DEF ServerRead

\* For L1 ingestion a step of the process is one of its own, an
\* interruption, or a step elsewhere.
LEMMA L1StepOfProcess ==
    ASSUME ProcessOK, [DataNext]_dataVars
    PROVE  L1Step
<1>1. CASE InitStep \/ L1Loop
    BY <1>1 DEF InitStep, L1Loop, L1Step
<1>2. CASE UNCHANGED vars
    BY <1>2 DEF vars, L1Step, Elsewhere
<1>3. CASE \/ StartServices \/ L2Loop \/ L2Return \/ L2PutRejected \/ Stop
           \/ Stopped \/ L2LoopFail \/ L2Environment \/ UNCHANGED dataVars
    BY <1>2, <1>3
    DEF StartServices, L2Loop, L2Return, L2PutRejected, Stop, Stopped,
        L2LoopFail, L2Environment, dataVars
<1>4. CASE L1Return
    BY <1>4 DEF L1Return, L1Step, Returned
<1>5. CASE L1PutRejected
    BY <1>5 DEF L1PutRejected, L1Step, Interrupted, InitPCs
<1>6. CASE ServerStep
    BY <1>6, ServerFaults DEF ServerStep, l1Vars, L1Step, Elsewhere
<1>7. CASE Exit \/ ProcessCrash \/ InitFail \/ UnhandledRejection
    <2>1. EndProcess /\ faults' \in {faults, faults + 1}
        BY <1>7 DEF Exit, ProcessCrash, InitFail, UnhandledRejection
    <2> QED
        BY <2>1 DEF EndProcess, L1Step, Interrupted
<1>8. CASE L1LoopFail
    BY <1>8 DEF L1LoopFail, Fail, L1Step, Interrupted
<1>9. CASE ProcessRestart
    BY <1>9 DEF ProcessRestart, ProcessOK, L1Step, Restart
<1>10. CASE L1Environment
    BY <1>10 DEF L1Environment, L1Step
<1> QED
    BY <1>1, <1>3, <1>4, <1>5, <1>6, <1>7, <1>8, <1>9, <1>10
    DEF DataNext, Loops, Lifecycle

\* The same for L2 ingestion, which the process starts and ends.
LEMMA L2StepOfProcess ==
    ASSUME ProcessOK, L2TypeOK, [DataNext]_dataVars
    PROVE  L2Step
<1>1. CASE L2Loop
    BY <1>1 DEF L2Loop, L2Step
<1>2. CASE \/ InitStep \/ L1Loop \/ L1Return \/ L1PutRejected \/ ServerStep
           \/ Stop \/ Stopped \/ ProcessRestart \/ L1LoopFail
           \/ L1Environment \/ UNCHANGED dataVars
    BY <1>2
    DEF InitStep, L1Loop, L1Return, L1PutRejected, ServerStep, Stop, Stopped,
        ProcessRestart, L1LoopFail, L1Environment, dataVars, L2Step
<1>3. CASE StartServices
    <2>1. l2pc = "down"
        BY <1>3 DEF StartServices, ProcessOK
    <2> QED
        BY <1>3, <2>1 DEF StartServices, L2Step, L2Restart, l2Vars
<1>4. CASE L2Return
    BY <1>4 DEF L2Return, L2Step, L2Returned
<1>5. CASE L2PutRejected
    BY <1>5 DEF L2PutRejected, L2Step, L2Interrupted
<1>6. CASE Exit \/ ProcessCrash \/ InitFail \/ UnhandledRejection
    <2>1. EndProcess /\ l2Faults' = l2Faults
        BY <1>6 DEF Exit, ProcessCrash, InitFail, UnhandledRejection
    <2> QED
        BY <2>1 DEF EndProcess, L2Step, L2Interrupted
<1>7. CASE L2LoopFail
    <2>1. l2Faults' = l2Faults + 1
        BY <1>7, L2FaultedType DEF L2LoopFail, L2Fail, L2TypeOK
    <2> QED
        BY <1>7, <2>1 DEF L2LoopFail, L2Fail, L2Throw, L2Step, L2Interrupted
<1>8. CASE L2Environment
    BY <1>8 DEF L2Environment, L2Step
<1> QED
    BY <1>1, <1>2, <1>3, <1>4, <1>5, <1>6, <1>7, <1>8
    DEF DataNext, Loops, Lifecycle

LEMMA ProcessInit == DataInit => ProcessOK
BY DEF DataInit, ProcessOK, Init, L2InitAt, ServerInit, Phases, InitPCs

\* The loop goes on from _init and never comes back to it.
LEMMA ServiceStays ==
    ASSUME Service
    PROVE  /\ pc \in InitPCs => pc' \in InitPCs \cup {"poll", "down"}
           /\ pc \notin InitPCs => pc' \notin InitPCs
<1> USE DEF InitPCs
<1>1. CASE LoadContracts \/ FindStartingL1Block \/ SearchStartingL1Block
    BY <1>1 DEF LoadContracts, FindStartingL1Block, SearchStartingL1Block
<1>2. CASE StoreTotalElements \/ Poll \/ Wake \/ EndRange
    BY <1>2 DEF StoreTotalElements, Poll, Wake, EndRange
<1>3. CASE QueryAddressSets \/ PushAddressRange \/ PushLastRange \/ QueryEvents
    BY <1>3
    DEF QueryAddressSets, PushAddressRange, PushLastRange, QueryEvents
<1>4. CASE EndSyncEvents \/ ParseEvent \/ StoreEntries \/ StoreLatestEntry
    BY <1>4 DEF EndSyncEvents, ParseEvent, StoreEntries, StoreLatestEntry
<1>5. CASE StoreCtcIndex \/ EndStoreBatch \/ FinishIteration
    BY <1>5 DEF StoreCtcIndex, EndStoreBatch, FinishIteration
<1> QED
    BY <1>1, <1>2, <1>3, <1>4, <1>5 DEF Service

LEMMA ProcessStep ==
    ASSUME ProcessOK, [DataNext]_dataVars
    PROVE  ProcessOK'
<1> USE DEF Phases
<1>1. CASE InitStep
    <2>1. /\ pc' \in InitPCs \cup {"poll", "down"} /\ UNCHANGED <<spc, l2pc>>
          /\ phase' = IF pc' = "down" THEN "down" ELSE "init"
          /\ dbOpen' = (pc' # "down")
          /\ phase = "init"
        BY <1>1, ServiceStays DEF InitStep, handlerVars, l2Vars
    <2> QED
        BY <2>1 DEF ProcessOK, InitPCs
<1>2. CASE StartServices
    <2>1. /\ phase = "init" /\ phase' = "up"
          /\ SyncFromL1 => pc = "poll"
          /\ UNCHANGED <<pc, dbOpen>>
        BY <1>2 DEF StartServices, vars, serverVars
    <2> QED
        BY <2>1 DEF ProcessOK, InitPCs
<1>3. CASE L1Loop
    <2>1. /\ phase \in {"up", "stopping"} /\ pc' \notin InitPCs
          /\ UNCHANGED <<phase, spc, l2pc, dbOpen>>
        BY <1>3, ServiceStays DEF L1Loop, serverVars, handlerVars, l2Vars
    <2> QED
        BY <2>1 DEF ProcessOK
<1>4. CASE L1Return \/ L1PutRejected \/ L1LoopFail
    <2>1. /\ phase \in {"up", "stopping"} /\ pc' \in {"down", "sleep"}
        BY <1>4
        DEF L1Return, L1PutRejected, L1LoopFail, Fail, ProcessOK, InitPCs
    <2>2. UNCHANGED <<phase, spc, l2pc, dbOpen>>
        BY <1>4
        DEF L1Return, L1PutRejected, L1LoopFail, serverVars, handlerVars,
            l2Vars
    <2> QED
        BY <2>1, <2>2 DEF ProcessOK, InitPCs
<1>5. CASE L2Loop \/ L2Return \/ L2PutRejected \/ L2LoopFail
    <2>1. phase \in {"up", "stopping"}
        BY <1>5
        DEF L2Loop, L2Return, L2PutRejected, L2LoopFail, ProcessOK
    <2>2. UNCHANGED <<phase, spc, pc, dbOpen>>
        BY <1>5
        DEF L2Loop, L2Return, L2PutRejected, L2LoopFail, serverVars,
            handlerVars, vars
    <2> QED
        BY <2>1, <2>2 DEF ProcessOK
<1>6. CASE ServerStep
    <2>1. /\ phase \in {"up", "stopping"}
          /\ UNCHANGED <<phase, pc, l2pc, dbOpen>>
        BY <1>6 DEF ServerStep, l1Vars, l2Vars
    <2> QED
        BY <2>1 DEF ProcessOK
<1>7. CASE Stop
    <2>1. /\ phase = "up" /\ phase' = "stopping" /\ dbOpen' = FALSE
          /\ UNCHANGED <<pc, spc, l2pc>>
        BY <1>7 DEF Stop, vars, handlerVars, l2Vars
    <2> QED
        BY <2>1 DEF ProcessOK
<1>8. CASE Exit \/ ProcessCrash \/ InitFail \/ UnhandledRejection
    <2>1. EndProcess /\ phase' \in {"stopped", "down"}
        BY <1>8 DEF Exit, ProcessCrash, InitFail, UnhandledRejection
    <2>2. pc' = "down" /\ l2pc' = "down" /\ spc' = "idle" /\ dbOpen' = FALSE
        BY <2>1 DEF EndProcess, ServerIdle
    <2> QED
        BY <2>1, <2>2 DEF ProcessOK
<1>9. CASE ProcessRestart
    <2>1. /\ phase = "down" /\ phase' = "init" /\ pc' = "init"
          /\ dbOpen' = TRUE /\ UNCHANGED <<spc, l2pc>>
        BY <1>9 DEF ProcessRestart, handlerVars, l2Vars
    <2> QED
        BY <2>1 DEF ProcessOK, InitPCs
<1>10. CASE \/ L1Environment \/ L2Environment \/ Stopped
            \/ UNCHANGED dataVars
    <2>1. UNCHANGED <<phase, pc, spc, l2pc, dbOpen>>
        BY <1>10
        DEF L1Environment, ChainNext, L2Environment, Produce, Rewind, Stopped,
            dataVars, vars, serverVars, handlerVars, l2Vars
    <2> QED
        BY <2>1 DEF ProcessOK
<1> QED
    BY <1>1, <1>2, <1>3, <1>4, <1>5, <1>6, <1>7, <1>8, <1>9, <1>10
    DEF DataNext, Loops, Lifecycle

-----------------------------------------------------------------------------
(* What therefore holds of the process.                                    *)

ProcessInv == ProcessOK /\ TypeInv /\ L2Inv

LEMMA ProcessInvInit == DataInit => ProcessInv
<1>1. L2InitAt("down") => L2Inv
    BY L2InvInit DEF L2PCs, Storing
<1> QED
    BY <1>1, ProcessInit, TypeInvInit DEF DataInit, ProcessInv

LEMMA ProcessInvStep ==
    ASSUME ProcessInv, [DataNext]_dataVars
    PROVE  ProcessInv' /\ L1Step /\ L2Step
<1>1. L1Step /\ L2Step
    BY L1StepOfProcess, L2StepOfProcess DEF ProcessInv, L2Inv
<1> QED
    BY <1>1, ProcessStep, TypeInvStep, L2InvStep DEF ProcessInv

\* In the whole process, too, no block that counts as synced from the
\* sequencer is missing, although puts are cut off when the database is
\* closed and the loops are given up anywhere.
THEOREM ProcessSyncsL2 == DataSpec => []SyncedBlocksStored
<1>1. ProcessInv /\ [DataNext]_dataVars => ProcessInv'
    BY ProcessInvStep
<1>2. ProcessInv => SyncedBlocksStored
    BY DEF ProcessInv, L2Inv
<1> QED
    BY <1>1, <1>2, ProcessInvInit, PTL DEF DataSpec

\* What the database holds for the server, in the whole process.
RecordsResolve ==
    /\ TransactionsResolve
    /\ StateRootsResolve
    /\ LatestResolves
    /\ RecordsWhole

DataInv == ProcessInv /\ OrderInv /\ RecordsResolve

LEMMA DataInvInit == ASSUME MatureL1
                     PROVE  DataInit => DataInv
<1>1. Init => RecordsResolve
    BY DEF Init, DBInit, RecordsResolve, TransactionsResolve,
           StateRootsResolve, LatestResolves, RecordsWhole, Tables
<1> QED
    BY <1>1, ProcessInvInit, OrderInvInit DEF DataInit, DataInv

LEMMA DataInvStep ==
    ASSUME MatureL1, DeploymentKnown
    PROVE  DataInv /\ [DataNext]_dataVars => DataInv' /\ L1Step /\ L2Step
<1> SUFFICES ASSUME DataInv, [DataNext]_dataVars
             PROVE  DataInv' /\ L1Step /\ L2Step
    OBVIOUS
<1>1. ProcessInv' /\ L1Step /\ L2Step
    BY ProcessInvStep DEF DataInv
<1>2. IndexInv /\ ImmutableInv
    BY DEF DataInv, OrderInv, SyncInv, IndexInv
<1>3. TransactionsResolve' /\ StateRootsResolve'
    BY <1>1, TransactionsResolveStep, StateRootsResolveStep
    DEF DataInv, RecordsResolve
<1>4. LatestResolves' /\ RecordsWhole'
    BY <1>1, <1>2, LatestResolvesStep, RecordsWholeStep
    DEF DataInv, RecordsResolve
<1> QED
    BY <1>1, <1>3, <1>4, OrderInvStep DEF DataInv, RecordsResolve

\* And no event of a block that counts as synced from Layer 1.
THEOREM ProcessSyncsL1 == ASSUME MatureL1, DeploymentKnown
                          PROVE  DataSpec => []SyncedMeansIndexed
<1>1. DataInv /\ [DataNext]_dataVars => DataInv'
    BY DataInvStep
<1>2. DataInv => SyncedMeansIndexed
    BY DEF DataInv, OrderInv, SyncInv, WindowInv, SyncedMeansRecorded,
           SyncedMeansIndexed, Recorded, RecordedIn, Indexed, Linked
<1> QED
    BY <1>1, <1>2, DataInvInit, PTL DEF DataSpec

\* The whole process implements IndexedChain: neither the server nor the
\* other loop nor a stop does anything to the tables of L1 ingestion.
THEOREM ProcessRefinement == ASSUME MatureL1, DeploymentKnown
                             PROVE  DataSpec => ImplementsIndexedChain
<1>1. DataInit => DataInv /\ ConfirmedIndex!IndexInit
    BY DataInvInit, RefinesInit DEF DataInit
<1>2. DataInv /\ [DataNext]_dataVars => DataInv'
    BY DataInvStep
<1>3. DataInv /\ DataInv' /\ [DataNext]_dataVars =>
          ConfirmedIndex!IndexNext \/ UNCHANGED ConfirmedIndex!indexVars
    <2>1. DataInv => SyncInv
        BY DEF DataInv, OrderInv
    <2>2. DataInv' => SyncInv'
        BY DEF DataInv, OrderInv
    <2> QED
        BY <2>1, <2>2, DataInvStep, RefinesStep
<1> QED
    BY <1>1, <1>2, <1>3, PTL
    DEF DataSpec, ImplementsIndexedChain, ConfirmedIndex!IndexSpec
=============================================================================
