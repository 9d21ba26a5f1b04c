----------------------------- MODULE CacheManager -----------------------------
(***************************************************************************)
(* The life of cache.Manager: stores are registered, Start loads them all  *)
(* and then starts the subscribe loop and a refresh loop per store, Stop   *)
(* cancels the loops and waits for them.  What the loops do to a store is  *)
(* the subject of CacheStore.                                              *)
(*                                                                         *)
(* Each Start that gets past its guard is a run, with a context of its     *)
(* own.  A step is a critical section of Manager.mu or a call on a context *)
(* or on the wait group.  The wait group counts the loops.                 *)
(***************************************************************************)
EXTENDS FiniteSets, Naturals

CONSTANTS
    MgrCallers,     \* goroutines that call the manager
    Stores,         \* what Register can register
    Runs,           \* the contexts Start can create: a bound on the Starts
    SerialCalls,    \* the calls do not overlap
    NoRun           \* no context

ASSUME ManagerAssumption ==
    /\ SerialCalls \in BOOLEAN
    /\ NoRun \notin Runs
    /\ "subscribe" \notin Stores

VARIABLES
    stores,     \* Manager.stores
    started, warmedUp,
    cancel,     \* Manager.cancel: the run it cancels, or NoRun
    ctx,        \* the context of each run: "unused", "live" or "cancelled"
    loops,      \* the loops of each run that have not returned
    mgrPc,
    run,        \* runCtx in Start, the local cancel in Stop
    todo        \* in WarmUp: the stores to load; then in Start: the loops to start

managerVars == <<stores, started, warmedUp, cancel, ctx, loops, mgrPc, run, todo>>

flags == <<started, warmedUp>>

Loops == {"subscribe"} \cup Stores

MgrGo(t, from, to) == mgrPc[t] = from /\ mgrPc' = [mgrPc EXCEPT ![t] = to]

ManagerInit ==
    /\ stores = {}
    /\ started = FALSE /\ warmedUp = FALSE
    /\ cancel = NoRun
    /\ ctx = [r \in Runs |-> "unused"]
    /\ loops = [r \in Runs |-> {}]
    /\ mgrPc = [t \in MgrCallers |-> "idle"]
    /\ run = [t \in MgrCallers |-> NoRun]
    /\ todo = [t \in MgrCallers |-> {}]

\* The manager's user makes one call at a time, or does not care.
MayCall == SerialCalls => \A t \in MgrCallers : mgrPc[t] = "idle"

-----------------------------------------------------------------------------
Register(t) ==
    \E s \in Stores :
        /\ MayCall /\ mgrPc[t] = "idle"
        /\ stores' = stores \cup {s}
        /\ UNCHANGED <<flags, cancel, ctx, loops, mgrPc, run, todo>>

\* The answer when a run is on: "manager already started".  (Mutant: the flag
\* is not looked at.)
NeverRefused == TRUE
NotStarted == ~started

\* The loops are those of the stores registered now; WarmUp copies the stores
\* for itself.
Start(t) ==
    \E r \in Runs :
        /\ MayCall
        /\ NotStarted
        /\ ctx[r] = "unused"
        /\ MgrGo(t, "idle", "warm")
        /\ started' = TRUE
        /\ ctx' = [ctx EXCEPT ![r] = "live"]
        /\ cancel' = r
        /\ run' = [run EXCEPT ![t] = r]
        /\ todo' = [todo EXCEPT ![t] = {"subscribe"} \cup stores]
        /\ UNCHANGED <<stores, warmedUp, loops>>

\* WarmUp on its own.
CallWarmUp(t) ==
    /\ MayCall
    /\ MgrGo(t, "idle", "warm")
    /\ UNCHANGED <<stores, flags, cancel, ctx, loops, run, todo>>

\* The goroutines load every store of the copy, and WarmUp waits for them all.
\* A cancelled context makes a load fail unless it has come too late.
WarmUpLoads(t) ==
    /\ MgrGo(t, "warm", "warmed")
    /\ UNCHANGED <<stores, flags, cancel, ctx, loops, run, todo>>

\* WarmUp returns the error; Start cleans up.
AfterFailure(t) == IF run[t] = NoRun THEN "idle" ELSE "failed"

\* At least one store is not loaded.
WarmUpFails(t) ==
    /\ stores # {}
    /\ MgrGo(t, "warm", AfterFailure(t))
    /\ UNCHANGED <<stores, flags, cancel, ctx, loops, run, todo>>

\* Start goes on to the loops.  (Mutant: WarmUp itself does.)
AlwaysSpawn(t) == "spawn"
AfterWarmUp(t) == IF run[t] = NoRun THEN "idle" ELSE "spawn"

SetWarmedUp(t) ==
    /\ MgrGo(t, "warmed", AfterWarmUp(t))
    /\ warmedUp' = TRUE
    /\ UNCHANGED <<stores, started, cancel, ctx, loops, run, todo>>

\* The CancelFunc of a run, or none.  (Mutant: it is not called.)
Uncancelled(r) == ctx
Cancelled(r) == IF r = NoRun THEN ctx ELSE [ctx EXCEPT ![r] = "cancelled"]

CancelFailed(t) ==
    /\ MgrGo(t, "failed", "reset")
    /\ ctx' = Cancelled(run[t])
    /\ UNCHANGED <<stores, flags, cancel, loops, run, todo>>

\* The failed Start clears the flags, whoever has set them by now.
ResetFailed(t) ==
    /\ MgrGo(t, "reset", "idle")
    /\ started' = FALSE /\ warmedUp' = FALSE
    /\ cancel' = NoRun
    /\ run' = [run EXCEPT ![t] = NoRun]
    /\ todo' = [todo EXCEPT ![t] = {}]
    /\ UNCHANGED <<stores, ctx, loops>>

\* wg.Add(1) and a go statement, for the subscribe loop and for each store.
\* The context may have been cancelled by now.
StartLoop(t) ==
    \E l \in todo[t] :
        /\ MgrGo(t, "spawn", "spawn")
        /\ l = "subscribe" \/ "subscribe" \notin todo[t]
        /\ loops' = [loops EXCEPT ![run[t]] = @ \cup {l}]
        /\ todo' = [todo EXCEPT ![t] = @ \ {l}]
        /\ UNCHANGED <<stores, flags, cancel, ctx, run>>

StartReturns(t) ==
    /\ todo[t] = {}
    /\ MgrGo(t, "spawn", "idle")
    /\ run' = [run EXCEPT ![t] = NoRun]
    /\ UNCHANGED <<stores, flags, cancel, ctx, loops, todo>>

\* A loop returns when it finds its context cancelled.
LoopReturns(r) ==
    \E l \in loops[r] :
        /\ ctx[r] = "cancelled"
        /\ loops' = [loops EXCEPT ![r] = @ \ {l}]
        /\ UNCHANGED <<stores, flags, cancel, ctx, mgrPc, run, todo>>

\* Redis closes the subscription's channel.
SubscriptionLost(r) ==
    /\ "subscribe" \in loops[r]
    /\ loops' = [loops EXCEPT ![r] = @ \ {"subscribe"}]
    /\ UNCHANGED <<stores, flags, cancel, ctx, mgrPc, run, todo>>

\* The context given to Start is cancelled by its owner.
ParentCancelled(r) ==
    /\ ctx[r] = "live"
    /\ ctx' = [ctx EXCEPT ![r] = "cancelled"]
    /\ UNCHANGED <<stores, flags, cancel, loops, mgrPc, run, todo>>

-----------------------------------------------------------------------------
\* Stop takes the run's cancel function out of the manager ...
Stop(t) ==
    /\ MayCall
    /\ MgrGo(t, "idle", "cancel")
    /\ run' = [run EXCEPT ![t] = cancel]
    /\ started' = FALSE
    /\ cancel' = NoRun
    /\ UNCHANGED <<stores, warmedUp, ctx, loops, todo>>

\* ... calls it, if there is one ...
StopCancels(t) ==
    /\ MgrGo(t, "cancel", "wait")
    /\ ctx' = Cancelled(run[t])
    /\ run' = [run EXCEPT ![t] = NoRun]
    /\ UNCHANGED <<stores, flags, cancel, loops, todo>>

\* ... and waits until no loop runs.  (Mutant: for the subscribe loop only.)
SubscribeDone == \A r \in Runs : "subscribe" \notin loops[r]
AllDone == \A r \in Runs : loops[r] = {}

StopWaits(t) ==
    /\ AllDone
    /\ MgrGo(t, "wait", "stopped")
    /\ UNCHANGED <<stores, flags, cancel, ctx, loops, run, todo>>

StopReturns(t) ==
    /\ MgrGo(t, "stopped", "idle")
    /\ UNCHANGED <<stores, flags, cancel, ctx, loops, run, todo>>

-----------------------------------------------------------------------------
\* What a call does once it is made, and what the loops do.
MgrProceed(t) ==
    \/ WarmUpLoads(t) \/ WarmUpFails(t) \/ SetWarmedUp(t)
    \/ CancelFailed(t) \/ ResetFailed(t) \/ StartLoop(t) \/ StartReturns(t)
    \/ StopCancels(t) \/ StopWaits(t) \/ StopReturns(t)

ManagerNext ==
    \/ \E t \in MgrCallers : Register(t) \/ Start(t) \/ CallWarmUp(t) \/ Stop(t) \/ MgrProceed(t)
    \/ \E r \in Runs : LoopReturns(r) \/ SubscriptionLost(r) \/ ParentCancelled(r)

ManagerSpec == ManagerInit /\ [][ManagerNext]_managerVars

\* Goroutines run, database queries come back.  Nobody has to call anything.
ManagerFairness ==
    /\ \A t \in MgrCallers : WF_managerVars(MgrProceed(t))
    /\ \A r \in Runs : WF_managerVars(LoopReturns(r))

-----------------------------------------------------------------------------
(* Properties.                                                              *)

ManagerTypeOK ==
    /\ stores \subseteq Stores
    /\ started \in BOOLEAN /\ warmedUp \in BOOLEAN
    /\ cancel \in Runs \cup {NoRun}
    /\ ctx \in [Runs -> {"unused", "live", "cancelled"}]
    /\ loops \in [Runs -> SUBSET Loops]
    /\ mgrPc \in [MgrCallers -> {"idle", "warm", "warmed", "failed", "reset", "spawn",
                           "cancel", "wait", "stopped"}]
    /\ run \in [MgrCallers -> Runs \cup {NoRun}]
    /\ todo \in [MgrCallers -> SUBSET Loops]
    /\ \A t \in MgrCallers : mgrPc[t] \in {"failed", "reset", "spawn"} => run[t] # NoRun

\* The manager keeps hold of what it has started: loops that are not told to
\* end can be ended by a Stop, or one is about to end them.
LoopsCanBeStopped ==
    \A r \in Runs : loops[r] # {} /\ ctx[r] = "live" =>
        cancel = r \/ \E t \in MgrCallers : mgrPc[t] \in {"cancel", "failed"} /\ run[t] = r

\* When Stop returns, the goroutines it told to end have ended, those that
\* Start was about to start included.
StopEndsLoops ==
    \A t \in MgrCallers : mgrPc[t] = "stopped" =>
        /\ \A r \in Runs : ctx[r] = "cancelled" => loops[r] = {}
        /\ \A u \in MgrCallers : mgrPc[u] = "spawn" => ctx[run[u]] = "live"

\* Stop always comes to an end.
StopsEnd == \A t \in MgrCallers : mgrPc[t] = "wait" ~> mgrPc[t] = "idle"
=============================================================================
