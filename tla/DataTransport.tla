--------------------------- MODULE DataTransport ---------------------------
(***************************************************************************)
(* services/main/service.ts and run.ts: one process that initialises the   *)
(* services one after the other, runs the server and both ingestion loops  *)
(* over one database, stops them and closes the database.                  *)
(*                                                                         *)
(*   init -> up -> stopping -> stopped     down -> init, after any failure  *)
(***************************************************************************)
EXTENDS L1IngestionProperties, L2Ingestion, TransportServer

CONSTANTS SyncFromL1, SyncFromL2, MayStop

\* run.ts shows unconfirmed transactions exactly when it syncs from L2.
ASSUME DataTransportAssumption ==
    /\ SyncFromL1 \in BOOLEAN
    /\ SyncFromL2 \in BOOLEAN
    /\ MayStop \in BOOLEAN
    /\ ShowUnconfirmed = SyncFromL2

VARIABLE phase

l1Vars == <<dbVars, localVars, pc>>
dataVars == <<vars, l2Vars, serverVars, phase>>

Phases == {"init", "up", "stopping", "stopped", "down"}

DataTypeOK ==
    /\ TypeOK
    /\ L2TypeOK
    /\ ServerTypeOK
    /\ phase \in Phases
    /\ phase \in {"init", "stopped", "down"} => spc = "idle" /\ l2pc = "down"

DataInit ==
    /\ Init
    /\ L2InitAt("down")
    /\ ServerInit
    /\ phase = "init"

\* The services' "while (this.running)".  Mutant: stop is not passed on.
NeverStopped == phase \in {"up", "stopping"}
Running == phase = "up"

\* _init: the services' own _init, of which only that of L1 ingestion does
\* anything; what it throws ends the process.
InitStep ==
    /\ phase = "init"
    /\ SyncFromL1
    /\ pc \in InitPCs
    /\ Service
    /\ phase' = IF pc' = "down" THEN "down" ELSE "init"
    /\ dbOpen' = (pc' # "down")
    /\ UNCHANGED <<l2Vars, handlerVars>>

\* _start: everything at once.
StartServices ==
    /\ phase = "init"
    /\ SyncFromL1 => pc = "poll"
    /\ phase' = "up"
    /\ l2pc' = IF SyncFromL2 THEN "poll" ELSE "down"
    /\ UNCHANGED <<vars, serverVars, l2Head, unconfirmedVars, legacy,
                   l2PollVars, fetched, l2Faults>>

\* A step of the L1 loop; the loop goes round while it runs, and a put needs
\* an open database.
L1Loop ==
    /\ phase \in {"up", "stopping"}
    /\ SyncFromL1
    /\ pc \notin InitPCs
    /\ pc = "poll" => Running
    /\ Service
    /\ ~dbOpen => dbVars' = dbVars
    /\ UNCHANGED <<l2Vars, serverVars, phase>>

L2Loop ==
    /\ phase \in {"up", "stopping"}
    /\ l2pc = "poll" => Running
    /\ L2Service
    /\ ~dbOpen => unconfirmedVars' = unconfirmedVars
    /\ UNCHANGED <<vars, serverVars, phase>>

\* After _stop the loops return when they come round ...
L1Return ==
    /\ phase = "stopping"
    /\ pc = "poll" /\ ~Running
    /\ pc' = "down"
    /\ UNCHANGED <<chainVars, dbVars, localVars, faults, l2Vars, serverVars,
                   phase>>

L2Return ==
    /\ phase = "stopping"
    /\ l2pc = "poll" /\ ~Running
    /\ l2pc' = "down"
    /\ UNCHANGED <<vars, l2Head, unconfirmedVars, legacy, l2PollVars,
                   fetched, l2Faults, serverVars, phase>>

\* ... and a put into the closed database rejects, which they catch.
L1PutRejected ==
    /\ ~dbOpen
    /\ \/ pc \in {"store", "latest", "done"}
       \/ pc = "index" /\ pending # {}
    /\ EndIteration
    /\ pc' = "sleep"
    /\ UNCHANGED <<chainVars, dbVars, startBlock, faults, l2Vars, serverVars,
                   phase>>

L2PutRejected ==
    /\ ~dbOpen
    /\ l2pc \in {"tx", "txLatest", "root", "rootLatest", "done"}
    /\ L2EndIteration
    /\ l2pc' = "sleep"
    /\ UNCHANGED <<vars, l2Head, unconfirmedVars, legacy, l2Faults,
                   serverVars, phase>>

\* While it is up the server takes requests; those it has taken are answered
\* also after _stop.
ServerStep ==
    /\ \/ phase = "up" /\ Request
       \/ phase \in {"up", "stopping"} /\ (ServerRead \/ Respond)
    /\ UNCHANGED <<chainVars, l1Vars, l2Vars, dbOpen, phase>>

\* _stop: the services are told to stop, and before anything else comes in
\* the database is closed.
Stop ==
    /\ MayStop
    /\ phase = "up"
    /\ phase' = "stopping"
    /\ dbOpen' = FALSE
    /\ UNCHANGED <<vars, l2Vars, handlerVars>>

\* The process is gone.
EndProcess ==
    /\ EndIteration
    /\ pc' = "down"
    /\ startBlock' = 0
    /\ L2EndIteration
    /\ l2pc' = "down"
    /\ ServerIdle
    /\ dbOpen' = FALSE
    /\ UNCHANGED <<chainVars, dbVars, l2Head, unconfirmedVars, legacy>>

\* Nothing is left to do after _stop.
Exit ==
    /\ phase = "stopping"
    /\ SyncFromL1 => pc = "down"
    /\ l2pc \in {"stopped", "down"}
    /\ spc = "idle"
    /\ EndProcess
    /\ phase' = "stopped"
    /\ UNCHANGED <<faults, l2Faults>>

Stopped == phase = "stopped" /\ UNCHANGED dataVars

ProcessCrash ==
    /\ phase \in {"init", "up", "stopping"}
    /\ CanFault("crash")
    /\ faults' = faults + 1
    /\ EndProcess
    /\ phase' = "down"
    /\ UNCHANGED l2Faults

\* The error that a loop rethrows rejects start(): the process ends, or it
\* goes on with the loops and the server that are left, depending on what
\* the runtime does with an unhandled rejection.  After _stop the error is
\* only logged, and the loop returns all the same.
L1LoopFail ==
    /\ phase \in {"up", "stopping"}
    /\ SyncFromL1
    /\ pc = "poll" => Running
    /\ Fail
    /\ UNCHANGED <<l2Vars, serverVars, phase>>

L2LoopFail ==
    /\ phase \in {"up", "stopping"}
    /\ l2pc = "poll" => Running
    /\ L2Fail
    /\ UNCHANGED <<vars, serverVars, phase>>

UnhandledRejection ==
    /\ \/ phase = "up" /\ SyncFromL1 /\ pc = "down"
       \/ phase = "up" /\ SyncFromL2 /\ l2pc = "down"
    /\ EndProcess
    /\ phase' = "down"
    /\ UNCHANGED <<faults, l2Faults>>

\* An error of _init, when nothing listens yet, ends the process.
InitFail ==
    /\ phase = "init"
    /\ CanFault("rpc")
    /\ faults' = faults + 1
    /\ EndProcess
    /\ phase' = "down"
    /\ UNCHANGED l2Faults

ProcessRestart ==
    /\ phase = "down"
    /\ phase' = "init"
    /\ pc' = "init"
    /\ dbOpen' = TRUE
    /\ UNCHANGED <<chainVars, dbVars, localVars, faults, l2Vars,
                   handlerVars>>

L1Environment == ChainNext /\ UNCHANGED <<l2Vars, serverVars, phase>>

L2Environment ==
    (Produce \/ Rewind) /\ UNCHANGED <<vars, serverVars, phase>>

Loops ==
    L1Loop \/ L1Return \/ L1PutRejected
        \/ L2Loop \/ L2Return \/ L2PutRejected
Lifecycle ==
    InitStep \/ StartServices \/ Exit \/ ProcessRestart

DataNext ==
    \/ Loops \/ Lifecycle \/ ServerStep \/ Stop \/ Stopped
    \/ ProcessCrash \/ InitFail \/ L1LoopFail \/ L2LoopFail
    \/ UnhandledRejection \/ L1Environment \/ L2Environment

DataSpec == DataInit /\ [][DataNext]_dataVars

\* The event loop takes up what there is to do, in any order, and a
\* supervisor restarts the process.  Nobody has to ask or to stop anything.
Proceed == Loops \/ Lifecycle \/ (ServerStep /\ spc # "idle")

DataFairSpec == DataSpec /\ WF_dataVars(Proceed)

-----------------------------------------------------------------------------
\* Liveness: a service that is told to stop does, although its loops only
\* look when they come round and the database is closed under them: it is
\* never "stopping" for ever, which only "stopped" and "down" can end.
StopCompletes == []<>(phase # "stopping")
=============================================================================
