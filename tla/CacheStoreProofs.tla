-------------------------- MODULE CacheStoreProofs --------------------------
(***************************************************************************)
(* The loads of a store, for any groups, rows and callers, as long as no   *)
(* Get fills the cache behind their back (ReadThrough is FALSE).           *)
(*                                                                         *)
(* The argument.  What a load has read of a group is the table's, or the   *)
(* table has changed since and the change is due (StaleReadIsPending).     *)
(* Only a load makes a change not due any more, and the load mutex lets    *)
(* one work at a time (Locking).  So what a load installs is the table's   *)
(* or due to be replaced, and it is not older than what it replaces,       *)
(* because nobody has replaced that since (ReadForward).                   *)
(***************************************************************************)
EXTENDS CacheStore, TLAPS

Reading == {"groups", "query"}
Holding == {"list"} \cup Reading

TypeInv ==
    /\ TypeOK
    /\ \A t \in Threads : pc[t] \in {"ask", "put"} => asked[t] \in Groups \X Items
    /\ \A t \in Threads : pc[t] \in {"lock"} \cup Holding => want[t] # Nil

NoGets == \A t \in Threads : pc[t] \notin {"ask", "put"}

Locking == \A t \in Threads : pc[t] \in Holding => loadMu = t

\* A load knows what to load, and has nothing before it reads.
Loading ==
    \A t \in Threads :
        /\ pc[t] = "list" => want[t] = All
        /\ pc[t] \in Holding => todo[t] \subseteq Scope(want[t])
        /\ pc[t] \in {"idle", "lock", "list"} => got[t] = Empty

\* Goroutine t has read group g.
HasRead(t, g) == pc[t] \in Reading /\ g \in Scope(want[t]) \ todo[t]

StaleReadIsPending ==
    \A t \in Threads : \A g \in Groups : HasRead(t, g) /\ got[t][g] # db[g] => Due(g)

\* Rows get newer, and nobody has a row that the table has not had.
Ages ==
    \A g \in Groups, i \in Items :
        /\ db[g][i] <= version /\ cache[g][i] <= version
        /\ db[g][i] # 0 => cache[g][i] <= db[g][i]
        /\ \A t \in Threads : /\ got[t][g][i] <= version
                              /\ db[g][i] # 0 => got[t][g][i] <= db[g][i]

ReadForward ==
    \A t \in Threads : \A g \in Groups, i \in Items :
        HasRead(t, g) /\ got[t][g][i] # 0 => cache[g][i] <= got[t][g][i]

LoadInv ==
    /\ TypeInv /\ NoGets /\ Locking /\ Loading
    /\ StaleIsPending /\ StaleReadIsPending
    /\ Ages /\ ReadForward

USE DEF table

LEMMA ScopeGroups ==
    ASSUME NEW w \in Groups \cup {All}
    PROVE  Scope(w) \subseteq Groups /\ (w = All => Scope(w) = Groups) /\ (w # All => Scope(w) = {w})
  BY ConstantsAssumption DEF Scope

LEMMA InitLoadInv == Init => LoadInv
<1> SUFFICES ASSUME Init PROVE LoadInv
  OBVIOUS
<1> USE ConstantsAssumption DEF Init
<1>1. TypeInv
  <2>1. db \in [Groups -> [Items -> Rows]]
    BY DEF Rows
  <2>2. Empty \in [Groups -> [Items -> Rows]]
    BY DEF Rows, Empty, Nothing
  <2> QED BY <2>1, <2>2 DEF TypeInv, TypeOK, Holding, Reading
<1>2. NoGets /\ Locking /\ Loading
  BY DEF NoGets, Locking, Loading, Holding, Reading
<1>3. StaleIsPending /\ StaleReadIsPending /\ ReadForward
  BY DEF StaleIsPending, StaleReadIsPending, ReadForward, Due, HasRead, Reading
<1>4. Ages
  <2> SUFFICES ASSUME NEW g \in Groups, NEW i \in Items
               PROVE  /\ db[g][i] <= version /\ cache[g][i] <= version
                      /\ db[g][i] # 0 => cache[g][i] <= db[g][i]
                      /\ \A t \in Threads : /\ got[t][g][i] <= version
                                            /\ db[g][i] # 0 => got[t][g][i] <= db[g][i]
    BY DEF Ages
  <2>1. db[g][i] \in {0, 1} /\ cache[g][i] = 0
    BY DEF Empty, Nothing
  <2>2. \A t \in Threads : got[t][g][i] = 0
    BY DEF Empty, Nothing
  <2> QED BY <2>1, <2>2
<1> QED BY <1>1, <1>2, <1>3, <1>4 DEF LoadInv

-----------------------------------------------------------------------------
(* Types.                                                                   *)

LEMMA TypeStep == TypeInv /\ [Next]_vars => TypeInv'
<1> SUFFICES ASSUME TypeInv, [Next]_vars PROVE TypeInv'
  OBVIOUS
<1> USE ConstantsAssumption DEF TypeOK, TypeInv, Go, Rows, Holding, Reading
<1>1. CASE UNCHANGED vars
  BY <1>1 DEF vars
<1>2. CASE ChangeRow
  <2>1. PICK g \in Groups, i \in Items, v \in {0, version + 1} :
           /\ version < MaxVersion
           /\ db' = [db EXCEPT ![g][i] = v]
           /\ version' = version + 1
           /\ \/ (\E n \in {g, All} : notices' = notices \cup {n}) /\ UNCHANGED owed
              \/ owed' = owed \cup {g} /\ UNCHANGED notices
           /\ UNCHANGED <<running, cache, loadMu, pc, want, todo, asked, got>>
    BY <1>2 DEF ChangeRow
  <2>2. v \in 0..MaxVersion /\ version' \in Nat
    BY <2>1
  <2>3. db' \in [Groups -> [Items -> 0..MaxVersion]]
    BY <2>1, <2>2
  <2>4. notices' \subseteq Groups \cup {All} /\ owed' \subseteq Groups
    BY <2>1
  <2> QED BY <2>1, <2>2, <2>3, <2>4
<1>3. ASSUME NEW t \in Threads, NEW w \in Groups \cup {All}, Call(t, w), notices' \subseteq notices
      PROVE  TypeInv'
  BY <1>3 DEF Call
<1>4. ASSUME NEW t \in Threads, LockStore(t) PROVE TypeInv'
  <2>1. todo' \in [Threads -> SUBSET Groups]
    <3>1. want[t] \in Groups \cup {All}
      BY <1>4 DEF LockStore
    <3> QED BY <1>4, <3>1, ScopeGroups DEF LockStore
  <2> QED BY <1>4, <2>1 DEF LockStore, Lock
<1>5. ASSUME NEW t \in Threads, ListGroups(t) PROVE TypeInv'
  BY <1>5 DEF ListGroups
<1>6. ASSUME NEW t \in Threads, NEW S \in SUBSET Groups, Read(t, S), NEW at \in Reading, Go(t, at, at)
      PROVE  TypeInv'
  <2>1. got' \in [Threads -> [Groups -> [Items -> 0..MaxVersion]]]
    BY <1>6 DEF Read
  <2> QED BY <1>6, <2>1 DEF Read, Reading
<1>7. ASSUME NEW t \in Threads, Forget(t), pc' = [pc EXCEPT ![t] = "idle"], loadMu' = Nil,
             UNCHANGED <<db, version, notices, asked>>, running' \in BOOLEAN, owed' \subseteq Groups,
             cache' \in [Groups -> [Items -> 0..MaxVersion]]
      PROVE  TypeInv'
  <2>1. /\ want' \in [Threads -> Groups \cup {All, Nil}]
        /\ todo' \in [Threads -> SUBSET Groups]
    BY <1>7 DEF Forget
  <2>2. got' \in [Threads -> [Groups -> [Items -> 0..MaxVersion]]]
    BY <1>7 DEF Forget, Empty, Nothing
  <2>3. pc' \in [Threads -> {"idle", "lock", "list", "groups", "query", "ask", "put"}]
    BY <1>7
  <2>4. TypeOK'
    BY <1>7, <2>1, <2>2, <2>3
  <2>5. \A u \in Threads : pc'[u] # "idle" => pc'[u] = pc[u] /\ want'[u] = want[u]
    BY <1>7 DEF Forget
  <2>6. \A u \in Threads : pc'[u] \in {"ask", "put"} => asked'[u] \in Groups \X Items
    BY <1>7, <2>5
  <2>7. \A u \in Threads : pc'[u] \in {"lock"} \cup Holding => want'[u] # Nil
    BY <2>5
  <2> QED BY <2>4, <2>6, <2>7
<1>8. ASSUME NEW t \in Threads, Install(t) PROVE TypeInv'
  <2>1. cache' \in [Groups -> [Items -> 0..MaxVersion]]
    BY <1>8 DEF Install, Replaced
  <2>2. running' \in BOOLEAN
    BY <1>8 DEF Install
  <2>3. pc' = [pc EXCEPT ![t] = "idle"]
    BY <1>8 DEF Install
  <2> QED BY <1>7, <1>8, <2>1, <2>2, <2>3 DEF Install, Unlock
<1>9. ASSUME NEW t \in Threads, QueryFails(t) PROVE TypeInv'
  <2>1. owed' \subseteq Groups
    <3>1. want[t] \in Groups \cup {All}
      BY <1>9 DEF QueryFails
    <3> QED BY <1>9, <3>1, ScopeGroups DEF QueryFails
  <2>2. pc' = [pc EXCEPT ![t] = "idle"]
    BY <1>9 DEF QueryFails
  <2> QED BY <1>7, <1>9, <2>1, <2>2 DEF QueryFails, Unlock
<1>10. ASSUME NEW t \in Threads, Miss(t) PROVE TypeInv'
  BY <1>10 DEF Miss
<1>11. ASSUME NEW t \in Threads, AskRow(t) PROVE TypeInv'
  <2>1. asked[t] \in Groups \X Items
    BY <1>11 DEF AskRow
  <2>2. got' \in [Threads -> [Groups -> [Items -> 0..MaxVersion]]]
    BY <1>11, <2>1 DEF AskRow
  <2> QED BY <1>11, <2>2 DEF AskRow
<1>12. ASSUME NEW t \in Threads, AskNothing(t) PROVE TypeInv'
  BY <1>12 DEF AskNothing
<1>13. ASSUME NEW t \in Threads, PutRow(t) PROVE TypeInv'
  <2>1. asked[t] \in Groups \X Items
    BY <1>13 DEF PutRow
  <2>2. cache' \in [Groups -> [Items -> 0..MaxVersion]]
    BY <1>13, <2>1 DEF PutRow
  <2>3. got' \in [Threads -> [Groups -> [Items -> 0..MaxVersion]]]
    BY <1>13 DEF PutRow, Empty, Nothing
  <2> QED BY <1>13, <2>2, <2>3 DEF PutRow
<1>14. ASSUME WarmUp \/ Receive \/ Tick \/ \E t \in Callers : Refresh(t) PROVE TypeInv'
  BY <1>3, <1>14 DEF WarmUp, Receive, Tick, Refresh, Threads
<1>15. ASSUME NEW t \in Threads, Query(t) \/ QueryGroup(t) PROVE TypeInv'
  <2>1. ASSUME NEW g \in todo[t] PROVE {g} \in SUBSET Groups
    OBVIOUS
  <2> QED BY <1>6, <1>15, <2>1 DEF Query, QueryGroup, Reading
<1> QED BY <1>1, <1>2, <1>4, <1>5, <1>8, <1>9, <1>10, <1>11, <1>12, <1>13, <1>14, <1>15
        DEF Next, Load, Get, Threads

\* Whatever the interleaving, the store's state is well formed: a load always
\* knows its key and a Get its row.
THEOREM TypeCorrect == Spec => []TypeOK
<1>1. Init => TypeInv
  BY InitLoadInv DEF LoadInv
<1>2. TypeInv => TypeOK
  BY DEF TypeInv
<1> QED BY <1>1, <1>2, TypeStep, PTL DEF Spec

-----------------------------------------------------------------------------
(* The steps a load takes, when no Get does.                                *)

\* A load begins: of everything, of a caller's key or of a notice's.
Begins(t) ==
    \E w \in Groups \cup {All} :
        /\ Call(t, w)
        /\ notices' = notices \/ notices' = notices \ {w}

Reads(t) == pc[t] \in Reading /\ pc' = pc /\ \E S \in SUBSET todo[t] : Read(t, S)

LoadStep(t) ==
    Begins(t) \/ LockStore(t) \/ ListGroups(t) \/ Reads(t) \/ QueryFails(t) \/ Install(t)

LEMMA Steps ==
    ASSUME ~ReadThrough, TypeInv, NoGets, [Next]_vars
    PROVE  UNCHANGED vars \/ ChangeRow \/ \E t \in Threads : LoadStep(t)
<1>1. ASSUME WarmUp \/ Receive \/ Tick \/ \E t \in Callers : Refresh(t)
      PROVE  \E t \in Threads : Begins(t)
  <2>1. ASSUME NEW t \in Threads, NEW w \in Groups \cup {All}, Call(t, w), notices' = notices
        PROVE  \E u \in Threads : Begins(u)
    BY <2>1 DEF Begins
  <2>2. CASE Receive
    <3>1. PICK n \in notices : Call("subscribe", n) /\ notices' = notices \ {n}
      BY <2>2 DEF Receive
    <3>2. n \in Groups \cup {All}
      BY DEF TypeInv, TypeOK
    <3>3. Begins("subscribe")
      BY <3>1, <3>2 DEF Begins
    <3> QED BY <3>3 DEF Threads
  <2> QED BY <1>1, <2>1, <2>2 DEF WarmUp, Tick, Refresh, Threads
<1>2. ASSUME NEW t \in Threads, Query(t) \/ QueryGroup(t)
      PROVE  Reads(t)
  <2>1. PICK at \in Reading : Go(t, at, at)
    BY <1>2 DEF Query, QueryGroup, Reading
  <2>2. pc \in [Threads -> {"idle", "lock", "list", "groups", "query", "ask", "put"}]
    BY DEF TypeInv, TypeOK
  <2>3. pc' = pc
    BY <2>1, <2>2 DEF Go
  <2> QED BY <1>2, <2>1, <2>3 DEF Query, QueryGroup, Reads, Go
<1>3. ASSUME NEW t \in Threads PROVE ~Miss(t) /\ ~Get(t)
  BY DEF Miss, Get, AskRow, AskNothing, PutRow, Go, NoGets
<1> QED BY <1>1, <1>2, <1>3 DEF Next, Load, LoadStep, Threads

\* Only the goroutine that steps changes what goroutines are at.
Others(t) ==
    \A u \in Threads \ {t} :
        pc'[u] = pc[u] /\ want'[u] = want[u] /\ todo'[u] = todo[u] /\ got'[u] = got[u]

LEMMA StepOthers ==
    ASSUME TypeInv, NEW t \in Threads, LoadStep(t)
    PROVE  Others(t) /\ db' = db /\ version' = version
<1> USE DEF TypeInv, TypeOK, Others, Go
<1>1. CASE Begins(t)
  BY <1>1 DEF Begins, Call
<1>2. CASE LockStore(t)
  BY <1>2 DEF LockStore
<1>3. CASE ListGroups(t)
  BY <1>3 DEF ListGroups
<1>4. CASE Reads(t)
  BY <1>4 DEF Reads, Read
<1>5. CASE QueryFails(t)
  BY <1>5 DEF QueryFails, Forget
<1>6. CASE Install(t)
  BY <1>6 DEF Install, Forget
<1> QED BY <1>1, <1>2, <1>3, <1>4, <1>5, <1>6 DEF LoadStep

\* Where each step takes its goroutine.
LEMMA StepFromTo ==
    ASSUME TypeInv, NEW t \in Threads
    PROVE  /\ Begins(t) => pc[t] = "idle" /\ pc'[t] = "lock" /\ UNCHANGED <<loadMu, cache>>
           /\ LockStore(t) => /\ pc[t] = "lock" /\ pc'[t] \in {"list", "query"}
                              /\ loadMu = Nil /\ loadMu' = t /\ cache' = cache
           /\ ListGroups(t) => pc[t] = "list" /\ pc'[t] = "groups" /\ UNCHANGED <<loadMu, cache>>
           /\ Reads(t) => pc[t] \in Reading /\ pc'[t] = pc[t] /\ UNCHANGED <<loadMu, cache>>
           /\ QueryFails(t) => pc[t] \in Holding /\ pc'[t] = "idle" /\ loadMu' = Nil /\ cache' = cache
           /\ Install(t) => pc[t] \in Reading /\ pc'[t] = "idle" /\ loadMu' = Nil
<1> USE DEF TypeInv, TypeOK, Go, Holding, Reading
<1>1. Begins(t) => pc[t] = "idle" /\ pc'[t] = "lock" /\ UNCHANGED <<loadMu, cache>>
  BY DEF Begins, Call
<1>2. LockStore(t) => /\ pc[t] = "lock" /\ pc'[t] \in {"list", "query"}
                      /\ loadMu = Nil /\ loadMu' = t /\ cache' = cache
  BY DEF LockStore, Lock
<1>3. ListGroups(t) => pc[t] = "list" /\ pc'[t] = "groups" /\ UNCHANGED <<loadMu, cache>>
  BY DEF ListGroups
<1>4. Reads(t) => pc[t] \in Reading /\ pc'[t] = pc[t] /\ UNCHANGED <<loadMu, cache>>
  BY DEF Reads, Read
<1>5. QueryFails(t) => pc[t] \in Holding /\ pc'[t] = "idle" /\ loadMu' = Nil /\ cache' = cache
  BY DEF QueryFails, Unlock
<1>6. Install(t) => pc[t] \in Reading /\ pc'[t] = "idle" /\ loadMu' = Nil
  BY DEF Install, Unlock
<1> QED BY <1>1, <1>2, <1>3, <1>4, <1>5, <1>6

-----------------------------------------------------------------------------
(* Who loads, and what.                                                     *)

Control == NoGets /\ Locking /\ Loading

LEMMA ControlStep ==
    ASSUME ~ReadThrough, TypeInv, Control, [Next]_vars
    PROVE  Control'
<1> USE DEF Control
<1>1. CASE UNCHANGED vars \/ ChangeRow
  BY <1>1 DEF vars, ChangeRow, NoGets, Locking, Loading, Scope
<1>2. ASSUME NEW t \in Threads, LoadStep(t) PROVE Control'
  <2>1. Others(t)
    BY <1>2, StepOthers
  <2>2. NoGets'
    BY <1>2, <2>1, StepFromTo DEF NoGets, Others, LoadStep, Holding, Reading
  <2>3. Locking'
    <3> SUFFICES ASSUME NEW u \in Threads, pc'[u] \in Holding PROVE loadMu' = u
      BY DEF Locking
    <3>1. CASE u = t
      BY <1>2, <3>1, StepFromTo DEF LoadStep, Locking, Holding, Reading
    <3>2. CASE u # t
      <4>1. loadMu = u /\ u # Nil
        BY <2>1, <3>2, ConstantsAssumption DEF Others, Locking
      <4>2. pc[t] \notin Holding /\ ~LockStore(t)
        BY <3>2, <4>1, StepFromTo DEF Locking
      <4>3. Begins(t)
        BY <1>2, <4>2, StepFromTo DEF LoadStep, Holding
      <4> QED BY <4>1, <4>3, StepFromTo
    <3> QED BY <3>1, <3>2
  <2>4. Loading'
    <3> SUFFICES ASSUME NEW u \in Threads
                 PROVE  /\ pc'[u] = "list" => want'[u] = All
                        /\ pc'[u] \in Holding => todo'[u] \subseteq Scope(want'[u])
                        /\ pc'[u] \in {"idle", "lock", "list"} => got'[u] = Empty
      BY DEF Loading, Scope
    <3>1. CASE u # t
      BY <2>1, <3>1 DEF Others, Loading
    <3>2. CASE u = t
      <4> USE <3>2 DEF TypeInv, TypeOK, Go, Loading, Holding, Reading
      <4>1. CASE Begins(t)
        BY <4>1 DEF Begins, Call
      <4>2. CASE LockStore(t)
        BY <4>2 DEF LockStore
      <4>3. CASE ListGroups(t)
        BY <4>3 DEF ListGroups, Scope
      <4>4. CASE Reads(t)
        BY <4>4 DEF Reads, Read
      <4>5. CASE QueryFails(t) \/ Install(t)
        <5>1. pc'[t] = "idle" /\ got'[t] = Empty
          BY <4>5 DEF QueryFails, Install, Forget
        <5> QED BY <5>1
      <4> QED BY <1>2, <4>1, <4>2, <4>3, <4>4, <4>5 DEF LoadStep
    <3> QED BY <3>1, <3>2
  <2> QED BY <2>2, <2>3, <2>4
<1> QED BY <1>1, <1>2, Steps

\* A goroutine that has read alone has the mutex.
LEMMA AloneReading ==
    ASSUME Control, NEW t \in Threads, pc[t] \in Holding
    PROVE  \A u \in Threads \ {t} : pc[u] \notin Holding
  BY DEF Control, Locking

-----------------------------------------------------------------------------
(* No step but an install makes a change not due any more.                  *)

LEMMA OthersUnderway ==
    ASSUME NEW t \in Threads, Others(t), db' = db, NEW u \in Threads \ {t}, NEW g \in Groups
    PROVE  Underway(u, g)' <=> Underway(u, g)
  BY DEF Others, Underway, Scope

\* What is due is so still if neither a notice, a debt nor goroutine t made it.
LEMMA DueByOthers ==
    ASSUME NEW t \in Threads, Others(t), db' = db, NEW g \in Groups,
           Due(g), ~Underway(t, g), notices \subseteq notices', g \in owed => g \in owed'
    PROVE  Due(g)'
<1>1. ASSUME NEW u \in Threads, Underway(u, g) PROVE Due(g)'
  <2>1. Underway(u, g)'
    BY <1>1, OthersUnderway
  <2> QED BY <2>1 DEF Due, Pending
<1>2. CASE g \in owed \/ \E n \in notices : g \in Scope(n)
  BY <1>2 DEF Due, Pending, Scope
<1> QED BY <1>1, <1>2 DEF Due, Pending

LEMMA DueKept ==
    ASSUME TypeInv, Control, NEW t \in Threads, LoadStep(t), ~Install(t),
           NEW g \in Groups, Due(g)
    PROVE  Due(g)'
<1> USE DEF TypeInv, TypeOK, Go, Control, Loading, Holding, Reading
<1>1. Others(t) /\ db' = db
  BY StepOthers
<1>2. CASE Underway(t, g)'
  BY <1>2 DEF Due, Pending
<1>3. CASE Begins(t)
  <2>1. ~Underway(t, g) /\ owed' = owed
    BY <1>3 DEF Begins, Call, Underway
  <2>2. CASE notices' = notices
    BY <1>1, <2>1, <2>2, DueByOthers
  <2>3. CASE notices' # notices
    <3>1. PICK n \in Groups \cup {All} : Call(t, n) /\ notices' = notices \ {n}
      BY <1>3, <2>3 DEF Begins
    <3>2. want'[t] = n /\ pc'[t] = "lock" /\ n # Nil
      BY <3>1, ConstantsAssumption DEF Call
    <3>3. CASE g \in Scope(n)
      BY <1>2, <3>2, <3>3 DEF Underway, Scope
    <3>4. CASE g \notin Scope(n)
      <4>1. CASE \E m \in notices : g \in Scope(m)
        <5>1. PICK m \in notices : g \in Scope(m)
          BY <4>1
        <5>2. m \in notices'
          BY <3>1, <3>4, <5>1
        <5> QED BY <5>1, <5>2 DEF Due, Pending, Scope
      <4>2. CASE g \in owed
        BY <2>1, <4>2 DEF Due
      <4>3. ASSUME NEW u \in Threads \ {t}, Underway(u, g) PROVE Due(g)'
        BY <1>1, <4>3, OthersUnderway DEF Due, Pending
      <4> QED BY <2>1, <4>1, <4>2, <4>3 DEF Due, Pending
    <3> QED BY <3>3, <3>4
  <2> QED BY <2>2, <2>3
<1>4. CASE LockStore(t)
  <2>1. owed' = owed /\ notices' = notices /\ want' = want
    BY <1>4 DEF LockStore
  <2>2. CASE Underway(t, g)
    <3>1. g \in Scope(want[t]) /\ want[t] # Nil
      BY <2>2 DEF Underway
    <3>2. pc'[t] \in {"list", "query"} /\ g \in todo'[t]
      BY <1>4, <3>1 DEF LockStore
    <3> QED BY <1>2, <2>1, <3>1, <3>2 DEF Underway, Scope
  <2>3. CASE ~Underway(t, g)
    BY <1>1, <2>1, <2>3, DueByOthers
  <2> QED BY <2>2, <2>3
<1>5. CASE ListGroups(t)
  <2>1. want' = want /\ got' = got /\ want[t] = All /\ got[t] = Empty /\ pc'[t] = "groups"
    BY <1>5 DEF ListGroups
  <2>2. g \in todo'[t] \/ db[g] = Nothing
    BY <1>5 DEF ListGroups
  <2>3. got'[t][g] = Nothing
    BY <2>1 DEF Empty
  <2>4. g \in Scope(want'[t]) /\ want'[t] # Nil
    BY <2>1, ConstantsAssumption DEF Scope
  <2> QED BY <1>1, <1>2, <2>1, <2>2, <2>3, <2>4 DEF Underway, Scope
<1>6. CASE Reads(t)
  <2>1. PICK S \in SUBSET todo[t] : Read(t, S)
    BY <1>6 DEF Reads
  <2>2. pc' = pc /\ pc[t] \in Reading /\ want' = want /\ want[t] # Nil
    BY <1>6, <2>1 DEF Reads, Read
  <2>3. notices' = notices /\ owed' = owed \ S
    BY <2>1 DEF Read
  <2>4. got'[t][g] = (IF g \in S THEN db[g] ELSE got[t][g]) /\ todo'[t] = todo[t] \ S
    BY <2>1 DEF Read
  <2>5. CASE g \in S
    <3>1. g \in Scope(want[t])
      BY <2>2, <2>5
    <3> QED BY <1>1, <1>2, <2>2, <2>4, <2>5, <3>1 DEF Underway, Scope
  <2>6. CASE g \notin S
    <3>1. CASE Underway(t, g)
      BY <1>1, <1>2, <2>2, <2>4, <2>6, <3>1 DEF Underway, Scope
    <3>2. CASE ~Underway(t, g)
      BY <1>1, <2>3, <2>6, <3>2, DueByOthers
    <3> QED BY <3>1, <3>2
  <2> QED BY <2>5, <2>6
<1>7. CASE QueryFails(t)
  <2>1. notices' = notices /\ owed' = owed \cup Scope(want[t])
    BY <1>7 DEF QueryFails
  <2>2. CASE Underway(t, g)
    BY <2>1, <2>2 DEF Due, Underway
  <2>3. CASE ~Underway(t, g)
    BY <1>1, <2>1, <2>3, DueByOthers
  <2> QED BY <2>2, <2>3
<1> QED BY <1>3, <1>4, <1>5, <1>6, <1>7 DEF LoadStep

\* An install leaves due what was due of the groups it did not load, and of
\* those it loaded before the table changed again.
LEMMA DueAfterInstall ==
    ASSUME TypeInv, Control, NEW t \in Threads, Install(t), NEW g \in Groups, Due(g),
           g \in Scope(want[t]) => got[t][g] # db[g]
    PROVE  Due(g)'
<1>1. Others(t) /\ db' = db
  BY StepOthers DEF LoadStep
<1>2. todo[t] = {} /\ pc[t] \in Reading /\ notices' = notices /\ owed' = owed
  BY DEF Install, Go, Reading
<1>3. ~Underway(t, g)
  BY <1>2 DEF Underway, Reading
<1> QED BY <1>1, <1>2, <1>3, DueByOthers

LEMMA DueAfterChange ==
    ASSUME TypeInv, ChangeRow, NEW g \in Groups, Due(g) \/ db'[g] # db[g]
    PROVE  Due(g)'
<1>1. PICK h \in Groups, i \in Items, v \in {0, version + 1} :
         /\ db' = [db EXCEPT ![h][i] = v]
         /\ \/ (\E n \in {h, All} : notices' = notices \cup {n}) /\ UNCHANGED owed
            \/ owed' = owed \cup {h} /\ UNCHANGED notices
         /\ UNCHANGED <<running, cache, loadMu, pc, want, todo, asked, got>>
  BY DEF ChangeRow
<1>2. CASE g = h
  BY <1>1, <1>2 DEF Due, Pending, Scope
<1>3. CASE g # h
  <2>1. db'[g] = db[g]
    BY <1>1, <1>3 DEF TypeInv, TypeOK
  <2>2. \A u \in Threads : Underway(u, g) => Underway(u, g)'
    BY <1>1, <2>1 DEF Underway, Scope
  <2>3. notices \subseteq notices' /\ owed \subseteq owed'
    BY <1>1
  <2> QED BY <2>1, <2>2, <2>3 DEF Due, Pending, Scope
<1> QED BY <1>2, <1>3

-----------------------------------------------------------------------------
(* No change is lost.                                                       *)

NothingLost == StaleIsPending /\ StaleReadIsPending

LEMMA NothingLostStep ==
    ASSUME ~ReadThrough, TypeInv, Control, NothingLost, [Next]_vars
    PROVE  NothingLost'
<1> USE DEF NothingLost
<1> SUFFICES ASSUME NEW g \in Groups
             PROVE  /\ cache'[g] # db'[g] => Due(g)'
                    /\ \A u \in Threads : HasRead(u, g)' /\ got'[u][g] # db'[g] => Due(g)'
  BY DEF StaleIsPending, StaleReadIsPending
<1>1. CASE UNCHANGED vars
  BY <1>1 DEF vars, StaleIsPending, StaleReadIsPending, HasRead, Due, Pending, Underway, Scope
<1>2. CASE ChangeRow
  <2>1. UNCHANGED <<cache, pc, want, todo, got>>
    BY <1>2 DEF ChangeRow
  <2>2. \A u \in Threads : HasRead(u, g)' => HasRead(u, g)
    BY <2>1 DEF HasRead, Scope
  <2> QED BY <1>2, <2>1, <2>2, DueAfterChange DEF StaleIsPending, StaleReadIsPending
<1>3. ASSUME NEW t \in Threads, LoadStep(t), ~Install(t)
      PROVE  /\ cache'[g] # db'[g] => Due(g)'
             /\ \A u \in Threads : HasRead(u, g)' /\ got'[u][g] # db'[g] => Due(g)'
  <2>1. Others(t) /\ db' = db /\ cache' = cache
    BY <1>3, StepOthers, StepFromTo DEF LoadStep
  <2>2. cache'[g] # db'[g] => Due(g)'
    BY <1>3, <2>1, DueKept DEF StaleIsPending
  <2>3. ASSUME NEW u \in Threads, HasRead(u, g)', got'[u][g] # db'[g] PROVE Due(g)'
    <3>1. CASE u # t
      <4>1. HasRead(u, g) /\ got[u][g] # db[g]
        BY <2>1, <2>3, <3>1 DEF HasRead, Others, Scope
      <4> QED BY <1>3, <4>1, DueKept DEF StaleReadIsPending
    <3>2. CASE u = t
      <4>1. CASE ListGroups(t)
        <5>1. g \in todo'[t] \/ db[g] = Nothing
          BY <4>1 DEF ListGroups, TypeInv, TypeOK
        <5>2. got'[t] = Empty
          BY <4>1 DEF ListGroups, Go, Control, Loading
        <5> QED BY <2>1, <2>3, <3>2, <5>1, <5>2 DEF HasRead, Empty
      <4>2. CASE LockStore(t)
        <5>1. todo'[t] = Scope(want'[t])
          BY <4>2 DEF LockStore, TypeInv, TypeOK
        <5> QED BY <2>3, <3>2, <5>1 DEF HasRead, Scope
      <4>3. CASE Reads(t)
        <5>1. PICK S \in SUBSET todo[t] : Read(t, S)
          BY <4>3 DEF Reads
        <5>2. got'[t][g] = (IF g \in S THEN db[g] ELSE got[t][g]) /\ todo'[t] = todo[t] \ S
          BY <5>1 DEF Read, TypeInv, TypeOK
        <5>3. pc' = pc /\ want' = want
          BY <4>3, <5>1 DEF Reads, Read
        <5>4. HasRead(t, g) /\ got[t][g] # db[g]
          BY <2>1, <2>3, <3>2, <5>2, <5>3 DEF HasRead, Scope
        <5> QED BY <1>3, <5>4, DueKept DEF StaleReadIsPending
      <4>4. CASE Begins(t) \/ QueryFails(t)
        BY <2>3, <3>2, <4>4, StepFromTo DEF HasRead, Reading
      <4> QED BY <1>3, <4>1, <4>2, <4>3, <4>4 DEF LoadStep
    <3> QED BY <3>1, <3>2
  <2> QED BY <2>2, <2>3
<1>4. ASSUME NEW t \in Threads, Install(t)
      PROVE  /\ cache'[g] # db'[g] => Due(g)'
             /\ \A u \in Threads : HasRead(u, g)' /\ got'[u][g] # db'[g] => Due(g)'
  <2>1. Others(t) /\ db' = db
    BY <1>4, StepOthers DEF LoadStep
  <2>2. pc[t] \in Reading /\ pc'[t] = "idle" /\ todo[t] = {}
    BY <1>4, StepFromTo DEF Install
  <2>3. cache'[g] = IF g \in Scope(want[t]) THEN got[t][g] ELSE cache[g]
    BY <1>4 DEF Install, Replaced
  <2>4. ASSUME cache'[g] # db'[g] PROVE Due(g)'
    <3>1. CASE g \in Scope(want[t])
      <4>1. HasRead(t, g) /\ got[t][g] # db[g]
        BY <2>1, <2>2, <2>3, <2>4, <3>1 DEF HasRead
      <4>2. Due(g)
        BY <4>1 DEF StaleReadIsPending
      <4> QED BY <1>4, <4>1, <4>2, DueAfterInstall
    <3>2. CASE g \notin Scope(want[t])
      <4>1. Due(g)
        BY <2>1, <2>3, <2>4, <3>2 DEF StaleIsPending
      <4> QED BY <1>4, <3>2, <4>1, DueAfterInstall
    <3> QED BY <3>1, <3>2
  <2>5. \A u \in Threads : ~HasRead(u, g)'
    BY <2>1, <2>2, AloneReading DEF HasRead, Others, Holding, Reading
  <2> QED BY <2>4, <2>5
<1> QED BY <1>1, <1>2, <1>3, <1>4, Steps DEF Control

-----------------------------------------------------------------------------
(* Rows only get newer.                                                     *)

Forward == Ages /\ ReadForward

LEMMA AgesStep ==
    ASSUME ~ReadThrough, TypeInv, Control, Ages, [Next]_vars
    PROVE  Ages'
<1> USE DEF TypeInv, TypeOK, Rows
<1> SUFFICES ASSUME NEW g \in Groups, NEW i \in Items
             PROVE  /\ db'[g][i] <= version' /\ cache'[g][i] <= version'
                    /\ db'[g][i] # 0 => cache'[g][i] <= db'[g][i]
                    /\ \A u \in Threads : /\ got'[u][g][i] <= version'
                                          /\ db'[g][i] # 0 => got'[u][g][i] <= db'[g][i]
  BY DEF Ages
<1>0. /\ db[g][i] \in Nat /\ cache[g][i] \in Nat
      /\ \A u \in Threads : got[u][g][i] \in Nat
  BY ConstantsAssumption
<1>1. CASE UNCHANGED vars
  BY <1>1 DEF vars, Ages
<1>2. CASE ChangeRow
  <2>1. /\ db'[g][i] \in {db[g][i], 0, version + 1}
        /\ version' = version + 1
        /\ UNCHANGED <<cache, got>>
    BY <1>2 DEF ChangeRow
  <2> QED BY <1>0, <2>1 DEF Ages
<1>3. ASSUME NEW t \in Threads, LoadStep(t)
      PROVE  /\ cache'[g][i] \in {cache[g][i], got[t][g][i]}
             /\ \A u \in Threads : got'[u][g][i] \in {got[u][g][i], db[g][i], 0}
  <2>1. cache'[g][i] \in {cache[g][i], got[t][g][i]}
    <3>1. CASE Install(t)
      BY <3>1 DEF Install, Replaced
    <3>2. CASE ~Install(t)
      BY <1>3, <3>2, StepFromTo DEF LoadStep
    <3> QED BY <3>1, <3>2
  <2>2. got'[t][g][i] \in {got[t][g][i], db[g][i], 0}
    <3>1. CASE Begins(t) \/ LockStore(t) \/ ListGroups(t)
      BY <3>1 DEF Begins, Call, LockStore, ListGroups
    <3>2. CASE Reads(t)
      BY <3>2 DEF Reads, Read
    <3>3. CASE QueryFails(t) \/ Install(t)
      <4>1. got'[t] = Empty
        BY <3>3 DEF QueryFails, Install, Forget
      <4> QED BY <4>1 DEF Empty, Nothing
    <3> QED BY <1>3, <3>1, <3>2, <3>3 DEF LoadStep
  <2>3. \A u \in Threads \ {t} : got'[u] = got[u]
    BY <1>3, StepOthers DEF Others
  <2> QED BY <2>1, <2>2, <2>3
<1>4. CASE \E t \in Threads : LoadStep(t)
  <2>1. PICK t \in Threads : LoadStep(t)
    BY <1>4
  <2>2. db' = db /\ version' = version
    BY <2>1, StepOthers
  <2>3. /\ cache'[g][i] \in {cache[g][i], got[t][g][i]}
        /\ \A u \in Threads : got'[u][g][i] \in {got[u][g][i], db[g][i], 0}
    BY <2>1, <1>3
  <2>4. /\ db[g][i] <= version /\ cache[g][i] <= version
        /\ db[g][i] # 0 => cache[g][i] <= db[g][i]
    BY DEF Ages
  <2>5. \A u \in Threads : got[u][g][i] <= version /\ (db[g][i] # 0 => got[u][g][i] <= db[g][i])
    BY DEF Ages
  <2> HIDE DEF TypeInv, TypeOK
  <2>6. cache'[g][i] <= version' /\ (db'[g][i] # 0 => cache'[g][i] <= db'[g][i])
    BY <2>2, <2>3, <2>4, <2>5
  <2>7. ASSUME NEW u \in Threads
        PROVE  got'[u][g][i] <= version' /\ (db'[g][i] # 0 => got'[u][g][i] <= db'[g][i])
    <3>1. version \in Nat /\ db[g][i] \in Nat
      BY <1>0 DEF TypeInv, TypeOK
    <3> QED BY <2>2, <2>3, <2>4, <2>5, <3>1
  <2> QED BY <2>2, <2>4, <2>6, <2>7
<1> QED BY <1>1, <1>2, <1>4, Steps DEF Control

LEMMA ReadForwardStep ==
    ASSUME ~ReadThrough, TypeInv, Control, Forward, [Next]_vars
    PROVE  ReadForward'
<1> USE DEF Forward
<1> SUFFICES ASSUME NEW u \in Threads, NEW g \in Groups, NEW i \in Items,
                    HasRead(u, g)', got'[u][g][i] # 0
             PROVE  cache'[g][i] <= got'[u][g][i]
  BY DEF ReadForward
<1>1. CASE UNCHANGED vars \/ ChangeRow
  <2>1. UNCHANGED <<cache, pc, want, todo, got>>
    BY <1>1 DEF vars, ChangeRow
  <2>2. HasRead(u, g)
    BY <2>1 DEF HasRead, Scope
  <2> QED BY <2>1, <2>2 DEF ReadForward
<1>2. ASSUME NEW t \in Threads, LoadStep(t) PROVE cache'[g][i] <= got'[u][g][i]
  <2>1. Others(t) /\ db' = db
    BY <1>2, StepOthers
  <2>2. CASE u # t
    <3>1. HasRead(u, g) /\ got'[u] = got[u]
      BY <2>1, <2>2 DEF HasRead, Others, Scope
    <3>2. pc[t] \notin Holding
      BY <2>2, <3>1, AloneReading DEF HasRead, Holding
    <3>3. cache' = cache
      BY <1>2, <3>2, StepFromTo DEF LoadStep, Holding, Reading
    <3> QED BY <3>1, <3>3 DEF ReadForward
  <2>3. CASE u = t
    <3>1. CASE ListGroups(t)
      <4>1. got'[t] = Empty
        BY <3>1 DEF ListGroups, Go, Control, Loading
      <4> QED BY <2>3, <4>1 DEF Empty, Nothing
    <3>2. CASE LockStore(t)
      <4>1. todo'[t] = Scope(want'[t])
        BY <3>2 DEF LockStore, TypeInv, TypeOK
      <4> QED BY <2>3, <4>1 DEF HasRead, Scope
    <3>3. CASE Reads(t)
      <4>1. PICK S \in SUBSET todo[t] : Read(t, S)
        BY <3>3 DEF Reads
      <4>2. got'[t][g] = (IF g \in S THEN db[g] ELSE got[t][g]) /\ todo'[t] = todo[t] \ S
        BY <4>1 DEF Read, TypeInv, TypeOK
      <4>3. pc' = pc /\ want' = want /\ cache' = cache
        BY <3>3, <4>1 DEF Reads, Read
      <4>4. CASE g \in S
        BY <2>3, <4>2, <4>3, <4>4 DEF Ages
      <4>5. CASE g \notin S
        <5>1. HasRead(t, g)
          BY <2>3, <4>2, <4>3, <4>5 DEF HasRead, Scope
        <5> QED BY <2>3, <4>2, <4>3, <4>5, <5>1 DEF ReadForward
      <4> QED BY <4>4, <4>5
    <3>4. CASE Begins(t) \/ QueryFails(t) \/ Install(t)
      BY <2>3, <3>4, StepFromTo DEF HasRead, Reading
    <3> QED BY <1>2, <3>1, <3>2, <3>3, <3>4 DEF LoadStep
  <2> QED BY <2>2, <2>3
<1> QED BY <1>1, <1>2, Steps DEF Control

-----------------------------------------------------------------------------
LEMMA LoadInvStep == ~ReadThrough /\ LoadInv /\ [Next]_vars => LoadInv'
  BY TypeStep, ControlStep, NothingLostStep, AgesStep, ReadForwardStep
  DEF LoadInv, Control, NothingLost, Forward

\* As long as no Get fills the cache, no interleaving of warm-up, notices,
\* refreshes and failing queries loses a change of the table.
THEOREM NoChangeLost == ASSUME ~ReadThrough PROVE Spec => []StaleIsPending
<1>1. LoadInv => StaleIsPending
  BY DEF LoadInv
<1>2. LoadInv /\ [Next]_vars => LoadInv'
  BY LoadInvStep
<1> QED BY <1>1, <1>2, InitLoadInv, PTL DEF Spec

\* And no load replaces a row by an older one.
THEOREM LoadsMoveForward == ASSUME ~ReadThrough PROVE Spec => CacheMovesForward
<1> DEFINE Newer == \A g \in Groups, i \in Items : cache'[g][i] # 0 => cache'[g][i] >= cache[g][i]
<1>1. LoadInv /\ [Next]_vars => [Newer]_vars
  <2> SUFFICES ASSUME LoadInv, [Next]_vars, NEW g \in Groups, NEW i \in Items,
                      cache'[g][i] # 0, cache' # cache
               PROVE  cache'[g][i] >= cache[g][i]
    BY DEF LoadInv, TypeInv, TypeOK, Rows
  <2>1. PICK t \in Threads : Install(t)
    <3>1. ~UNCHANGED vars /\ ~ChangeRow
      BY DEF vars, ChangeRow
    <3>2. PICK t \in Threads : LoadStep(t)
      BY <3>1, Steps DEF LoadInv
    <3> QED BY <3>2, StepFromTo DEF LoadStep, LoadInv
  <2>2. pc[t] \in Reading /\ todo[t] = {}
    BY <2>1 DEF Install, Go, Reading
  <2>3. cache'[g] = IF g \in Scope(want[t]) THEN got[t][g] ELSE cache[g]
    BY <2>1 DEF Install, Replaced
  <2>4. cache[g][i] \in Nat /\ got[t][g][i] \in Nat
    BY ConstantsAssumption DEF LoadInv, TypeInv, TypeOK, Rows
  <2>5. CASE g \in Scope(want[t])
    BY <2>2, <2>3, <2>4, <2>5 DEF HasRead, LoadInv, ReadForward
  <2>6. CASE g \notin Scope(want[t])
    BY <2>3, <2>4, <2>6
  <2> QED BY <2>5, <2>6
<1>2. LoadInv /\ [Next]_vars => LoadInv'
  BY LoadInvStep
<1> HIDE DEF Newer
<1>3. Spec => [][Newer]_vars
  BY <1>1, <1>2, InitLoadInv, PTL DEF Spec
<1> QED BY <1>3 DEF Newer, CacheMovesForward
=============================================================================
