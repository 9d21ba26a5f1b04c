------------------------------ MODULE WorkerIds ------------------------------
(***************************************************************************)
(* utils.SnowflakeUtil: the processes of a service take their worker ids   *)
(* from a counter in Redis, modulo 1024.  An id that Generate makes is the *)
(* worker id, the time and a sequence number: two processes with different *)
(* worker ids never make the same one.                                     *)
(***************************************************************************)
EXTENDS Integers

CONSTANTS
    Processes,      \* those that may run at a time
    Workers,        \* 1024
    MaxStarts       \* bound: starts of processes

ASSUME WorkersAssumption == Workers \in Nat \ {0} /\ MaxStarts \in Nat

VARIABLES
    counter,        \* in Redis: "snowflake:<service>"
    workerID,       \* of a running process; -1 if it does not run
    startedAs       \* the number of its start: 1, 2, ...

workerVars == <<counter, workerID, startedAs>>

WorkersInit ==
    /\ counter = 0
    /\ workerID = [p \in Processes |-> -1]
    /\ startedAs = [p \in Processes |-> 0]

\* Ids are 0..1023.  (Mutant: modulo the greatest id.)
ModuloGreatest(n) == (n - 1) % (Workers - 1)
WorkerOf(n) == (n - 1) % Workers

StartProcess(p) ==
    /\ workerID[p] = -1
    /\ counter < MaxStarts
    /\ counter' = counter + 1
    /\ startedAs' = [startedAs EXCEPT ![p] = counter + 1]
    /\ workerID' = [workerID EXCEPT ![p] = WorkerOf(counter + 1)]

EndProcess(p) ==
    /\ workerID[p] # -1
    /\ workerID' = [workerID EXCEPT ![p] = -1]
    /\ UNCHANGED <<counter, startedAs>>

WorkersNext == \E p \in Processes : StartProcess(p) \/ EndProcess(p)

WorkersSpec == WorkersInit /\ [][WorkersNext]_workerVars

-----------------------------------------------------------------------------
(* Properties.                                                              *)

WorkersTypeOK ==
    /\ counter \in 0..MaxStarts
    /\ workerID \in [Processes -> -1..Workers - 1]
    /\ startedAs \in [Processes -> 0..MaxStarts]

\* The service has started so often while p has been running.
StartsSince(p) == counter - startedAs[p]

\* A process has its worker id to itself until it has seen Workers later starts.
WorkerIdUnique ==
    \A p, q \in Processes :
        workerID[p] # -1 /\ workerID[p] = workerID[q] /\ p # q =>
            StartsSince(p) >= Workers \/ StartsSince(q) >= Workers
=============================================================================
