------------------------------ MODULE CacheStore ------------------------------
(***************************************************************************)
(* One store of package cache: a map in memory that follows a table of the *)
(* database.  Rows come in groups: the games or brands of an app           *)
(* (AppGameStore, AppGameBrandStore), the games of a brand (GameInfoStore),*)
(* a single row (AppInfoStore.byAppID, whose second index is the subject   *)
(* of AppInfoIndex).  Four kinds of goroutine work on it: Start's warm-up, *)
(* the subscribe loop that reloads the group a notice names, the refresh   *)
(* loop that reloads everything, and callers of Refresh and Get.           *)
(*                                                                         *)
(* A step is a database query or a critical section.  A row is a version   *)
(* number, 0 if it does not exist; all that matters of it is its age.      *)
(***************************************************************************)
EXTENDS Naturals

CONSTANTS
    Groups,         \* what LoadOne reloads: an app id or a brand
    Items,          \* the rest of a row's key
    Callers,        \* goroutines that call Refresh and Get
    ReadThrough,    \* callers use Get, which fills the cache on a miss
    MaxVersion,     \* bound on the changes made to the table
    All,            \* the empty key of a notice or of Refresh: the whole type
    Nil             \* mutex not held, nothing asked

Threads == {"start", "subscribe", "refresh"} \cup Callers

ASSUME ConstantsAssumption ==
    /\ {"start", "subscribe", "refresh"} \cap Callers = {}
    /\ ReadThrough \in BOOLEAN
    /\ MaxVersion \in Nat \ {0}
    /\ All \notin Groups /\ Nil \notin Groups /\ Nil # All
    /\ Nil \notin Threads /\ Nil \notin Groups \X Items

VARIABLES
    db,         \* the table
    version,    \* the changes made to it
    notices,    \* published on the Redis channel, not received yet; of two
                \* equal ones the second adds nothing
    owed,       \* groups with a change whose notice was lost or whose reload failed
    running,    \* the warm-up is done, the loops are started
    cache,      \* the store's map
    loadMu,     \* the goroutine that holds the store's load mutex
    pc,
    want,       \* the key a load works on
    todo,       \* the groups a load still has to query
    asked,      \* the row a Get asks the database for
    got         \* the rows read

vars == <<db, version, notices, owed, running, cache, loadMu, pc, want, todo, asked, got>>

table == <<db, version>>

Rows    == 0..MaxVersion
Nothing == [i \in Items |-> 0]
Empty   == [g \in Groups |-> Nothing]

\* The groups a key stands for.
Scope(w) == IF w = All THEN Groups ELSE {w}

Go(t, from, to) == pc[t] = from /\ pc' = [pc EXCEPT ![t] = to]

\* The table has some rows when the server starts.  Nobody has read them.
Init ==
    /\ db \in [Groups -> [Items -> {0, 1}]]
    /\ version = 1
    /\ notices = {}
    /\ owed = Groups
    /\ running = FALSE
    /\ cache = Empty
    /\ loadMu = Nil
    /\ pc = [t \in Threads |-> "idle"]
    /\ want = [t \in Threads |-> Nil]
    /\ todo = [t \in Threads |-> {}]
    /\ asked = [t \in Threads |-> Nil]
    /\ got = [t \in Threads |-> Empty]

-----------------------------------------------------------------------------
(* The database and the Redis channel.                                      *)

\* A row is written or deleted and a notice for its group, or for the whole
\* type, is published.  Pub/Sub keeps no messages: without a subscriber, or
\* when the connection breaks, the notice is gone.
ChangeRow ==
    \E g \in Groups, i \in Items, v \in {0, version + 1} :
        /\ version < MaxVersion
        /\ v # db[g][i]
        /\ db' = [db EXCEPT ![g][i] = v]
        /\ version' = version + 1
        /\ \/ /\ running
              /\ \E n \in {g, All} : notices' = notices \cup {n}
              /\ UNCHANGED owed
           \/ /\ owed' = owed \cup {g}
              /\ UNCHANGED notices
        /\ UNCHANGED <<running, cache, loadMu, pc, want, todo, asked, got>>

-----------------------------------------------------------------------------
(* Loading: safeLoadAll and safeLoadOne around the store's LoadAll and      *)
(* LoadOne.                                                                 *)

Call(t, w) ==
    /\ Go(t, "idle", "lock")
    /\ want' = [want EXCEPT ![t] = w]
    /\ UNCHANGED <<table, owed, running, cache, loadMu, todo, asked, got>>

\* Start warms the store up before it starts the loops.
WarmUp == ~running /\ Call("start", All) /\ UNCHANGED notices

Receive ==
    \E n \in notices :
        /\ running
        /\ Call("subscribe", n)
        /\ notices' = notices \ {n}

Tick == running /\ Call("refresh", All) /\ UNCHANGED notices

Refresh(t) == \E w \in Groups \cup {All} : Call(t, w) /\ UNCHANGED notices

\* lk.Lock.  (Mutant: one mutex per call instead of one per store.)
OwnLock(t) == UNCHANGED loadMu
Lock(t) == loadMu = Nil /\ loadMu' = t

\* LoadAll of AppInfo and GameInfo is one query; AppGame and AppGameBrand ask
\* for the groups first.
LockStore(t) ==
    /\ Lock(t)
    /\ \/ Go(t, "lock", "query")
       \/ want[t] = All /\ Go(t, "lock", "list")
    /\ todo' = [todo EXCEPT ![t] = Scope(want[t])]
    /\ UNCHANGED <<table, notices, owed, running, cache, want, asked, got>>

\* The groups that have rows ...
ListGroups(t) ==
    LET present == {g \in Groups : db[g] # Nothing}
    IN  /\ Go(t, "list", "groups")
        /\ todo' = [todo EXCEPT ![t] = present]
        /\ owed' = owed \cap present
        /\ UNCHANGED <<table, notices, running, cache, loadMu, want, asked, got>>

Read(t, S) ==
    /\ got' = [got EXCEPT ![t] = [g \in Groups |-> IF g \in S THEN db[g] ELSE @[g]]]
    /\ todo' = [todo EXCEPT ![t] = @ \ S]
    /\ owed' = owed \ S
    /\ UNCHANGED <<table, notices, running, cache, loadMu, want, asked>>

\* ... are queried each in a goroutine of its own, in any order.
QueryGroup(t) == \E g \in todo[t] : Go(t, "groups", "groups") /\ Read(t, {g})

\* LoadOne, and LoadAll in one query.
Query(t) ==
    /\ todo[t] # {}
    /\ Go(t, "query", "query")
    /\ Read(t, todo[t])

\* The deferred Unlock.
Unlock == loadMu' = Nil

Forget(t) ==
    /\ want' = [want EXCEPT ![t] = Nil]
    /\ todo' = [todo EXCEPT ![t] = {}]
    /\ got' = [got EXCEPT ![t] = Empty]

\* A query fails: the load returns the error, the cache stays as it is and the
\* notice, if one asked for the load, is not tried again.
QueryFails(t) ==
    /\ todo[t] # {}
    /\ \E at \in {"list", "groups", "query"} : Go(t, at, "idle")
    /\ owed' = owed \cup Scope(want[t])
    /\ Unlock
    /\ Forget(t)
    /\ UNCHANGED <<table, notices, running, cache, asked>>

\* What the cache holds after a load of w has read rows: w's groups are
\* replaced, rows that are gone from the table go.  (Mutant: rows are only
\* overwritten.)
Overwritten(w, rows) ==
    [g \in Groups |-> [i \in Items |->
        IF g \in Scope(w) /\ rows[g][i] # 0 THEN rows[g][i] ELSE cache[g][i]]]
Replaced(w, rows) ==
    [g \in Groups |-> IF g \in Scope(w) THEN rows[g] ELSE cache[g]]

Install(t) ==
    /\ todo[t] = {}
    /\ \E at \in {"groups", "query"} : Go(t, at, "idle")
    /\ cache' = Replaced(want[t], got[t])
    /\ running' = (running \/ t = "start")
    /\ Unlock
    /\ Forget(t)
    /\ UNCHANGED <<table, notices, owed, asked>>

-----------------------------------------------------------------------------
(* Get: cache-aside, outside the load mutex.                                *)

Miss(t) ==
    \E g \in Groups, i \in Items :
        /\ ReadThrough
        /\ cache[g][i] = 0
        /\ Go(t, "idle", "ask")
        /\ asked' = [asked EXCEPT ![t] = <<g, i>>]
        /\ UNCHANGED <<table, notices, owed, running, cache, loadMu, want, todo, got>>

AskRow(t) ==
    LET g == asked[t][1]
        i == asked[t][2]
    IN  /\ Go(t, "ask", "put")
        /\ db[g][i] # 0
        /\ got' = [got EXCEPT ![t][g][i] = db[g][i]]
        /\ UNCHANGED <<table, notices, owed, running, cache, loadMu, want, todo, asked>>

\* There is no such row, or the query fails.
AskNothing(t) ==
    /\ Go(t, "ask", "idle")
    /\ asked' = [asked EXCEPT ![t] = Nil]
    /\ UNCHANGED <<table, notices, owed, running, cache, loadMu, want, todo, got>>

PutRow(t) ==
    LET g == asked[t][1]
        i == asked[t][2]
    IN  /\ Go(t, "put", "idle")
        /\ cache' = [cache EXCEPT ![g][i] = got[t][g][i]]
        /\ asked' = [asked EXCEPT ![t] = Nil]
        /\ got' = [got EXCEPT ![t] = Empty]
        /\ UNCHANGED <<table, notices, owed, running, loadMu, want, todo>>

-----------------------------------------------------------------------------
Load(t) == LockStore(t) \/ ListGroups(t) \/ QueryGroup(t) \/ Query(t) \/ Install(t)

Get(t) == AskRow(t) \/ AskNothing(t) \/ PutRow(t)

Next ==
    \/ ChangeRow \/ WarmUp \/ Receive \/ Tick
    \/ \E t \in Callers : Refresh(t) \/ Miss(t)
    \/ \E t \in Threads : Load(t) \/ QueryFails(t) \/ Get(t)

Spec == Init /\ [][Next]_vars

\* Goroutines run, timers tick and Go's mutexes do not starve a waiter.  The
\* database recovers: from some time on no query fails.
Fairness ==
    /\ WF_vars(WarmUp) /\ WF_vars(Tick)
    /\ \A t \in Threads : /\ WF_vars(Load(t)) /\ WF_vars(Get(t)) /\ SF_vars(LockStore(t))
                          /\ <>[][~QueryFails(t)]_vars

FairSpec == Spec /\ Fairness

-----------------------------------------------------------------------------
(* Properties.                                                              *)

TypeOK ==
    /\ db \in [Groups -> [Items -> Rows]]
    /\ version \in Nat
    /\ notices \subseteq Groups \cup {All}
    /\ owed \subseteq Groups
    /\ running \in BOOLEAN
    /\ cache \in [Groups -> [Items -> Rows]]
    /\ loadMu \in Threads \cup {Nil}
    /\ pc \in [Threads -> {"idle", "lock", "list", "groups", "query", "ask", "put"}]
    /\ want \in [Threads -> Groups \cup {All, Nil}]
    /\ todo \in [Threads -> SUBSET Groups]
    /\ asked \in [Threads -> (Groups \X Items) \cup {Nil}]
    /\ got \in [Threads -> [Groups -> [Items -> Rows]]]

\* Goroutine t is bringing group g up to date: it is loading it and has not
\* read it yet, or has read what the table still holds.
Underway(t, g) ==
    /\ want[t] # Nil /\ g \in Scope(want[t])
    /\ \/ pc[t] \in {"lock", "list"}
       \/ pc[t] \in {"groups", "query"} /\ (g \in todo[t] \/ got[t][g] = db[g])

Pending(g) ==
    \/ \E n \in notices : g \in Scope(n)
    \/ \E t \in Threads : Underway(t, g)

\* The cache is going to learn of the changes to g, or the change is one that
\* nobody was told of.
Due(g) == g \in owed \/ Pending(g)

\* As long as no Get fills the cache, a group differs from the table only
\* while a reload of it is pending, or owed because a notice was lost or a
\* reload failed: no interleaving of the loads loses a change.
StaleIsPending ==
    \A g \in Groups : cache[g] # db[g] => Due(g)

\* The per-store load mutex keeps the loads from treading on each other: a row
\* is never replaced by an older one.
CacheMovesForward ==
    [][\A g \in Groups, i \in Items : cache'[g][i] # 0 => cache'[g][i] >= cache[g][i]]_vars

\* Whatever is lost, fails or is filled in by Get, the refresh loop brings the
\* cache back to the table once the table no longer changes.
Converges == <>[](cache = db)
=============================================================================
