----------------------------- MODULE AppInfoIndex -----------------------------
(***************************************************************************)
(* The two maps of cache.AppInfoStore: the rows of the merchants by app id *)
(* and by access key.  mu makes every operation below one step.  The rows  *)
(* were read before mu was taken: by a loader, which another loader does   *)
(* not overtake, or by a Get that missed, which anything overtakes.  So a  *)
(* row that is put may be any row the table has ever held.                 *)
(***************************************************************************)
EXTENDS Integers

CONSTANTS
    Apps,       \* app ids
    Keys,       \* access keys
    NoKey,      \* the empty access key: not indexed
    Rows,       \* every row the table ever holds: [app, key, ...]
    NoRow       \* no entry

ASSUME IndexAssumption ==
    /\ \A r \in Rows : r.app \in Apps /\ r.key \in Keys \cup {NoKey}
    /\ NoKey \notin Keys
    /\ NoRow \notin Rows

VARIABLES byAppID, byAccessKey

indexVars == <<byAppID, byAccessKey>>

IndexInit ==
    /\ byAppID = [a \in Apps |-> NoRow]
    /\ byAccessKey = [k \in Keys |-> NoRow]

\* The results of a full query: app_id is unique, access_key is not.  (Mutant:
\* the loop's variable is stored instead of a copy, so all entries are one row.)
OneRowForAll == {t \in [Apps -> Rows \cup {NoRow}] : \A a, b \in Apps : t[a] = t[b]}
Tables == {t \in [Apps -> Rows \cup {NoRow}] : \A a \in Apps : t[a] # NoRow => t[a].app = a}

\* Of several rows with one key the last in the list is indexed.
Indexes(t) ==
    {x \in [Keys -> {t[a] : a \in Apps} \cup {NoRow}] :
        \A k \in Keys :
            \/ x[k] # NoRow /\ x[k].key = k /\ t[x[k].app] = x[k]
            \/ x[k] = NoRow /\ \A a \in Apps : t[a] # NoRow => t[a].key # k}

LoadAll(t) ==
    /\ byAppID' = t
    /\ byAccessKey' \in Indexes(t)

\* The index without the key that app a is cached with.  (Mutant: it stays.)
KeepKey(a, x) == x
DropKey(a, x) ==
    IF byAppID[a] # NoRow /\ byAppID[a].key # NoKey
    THEN [x EXCEPT ![byAppID[a].key] = NoRow] ELSE x

\* put: the key the app no longer has is dropped first.  (Mutant: afterwards.)
IndexedThenDropped(r) ==
    LET x == IF r.key = NoKey THEN byAccessKey ELSE [byAccessKey EXCEPT ![r.key] = r]
    IN  DropKey(r.app, x)
Indexed(r) ==
    LET x == DropKey(r.app, byAccessKey)
    IN  IF r.key = NoKey THEN x ELSE [x EXCEPT ![r.key] = r]

Put(r) ==
    /\ byAppID' = [byAppID EXCEPT ![r.app] = r]
    /\ byAccessKey' = Indexed(r)

RemoveApp(a) ==
    /\ byAccessKey' = DropKey(a, byAccessKey)
    /\ byAppID' = [byAppID EXCEPT ![a] = NoRow]

IndexNext ==
    \/ \E t \in Tables : LoadAll(t)
    \/ \E r \in Rows : Put(r)
    \/ \E a \in Apps : RemoveApp(a)

IndexSpec == IndexInit /\ [][IndexNext]_indexVars

-----------------------------------------------------------------------------
(* Properties.                                                              *)

IndexTypeOK ==
    /\ byAppID \in [Apps -> Rows \cup {NoRow}]
    /\ byAccessKey \in [Keys -> Rows \cup {NoRow}]
    /\ \A a \in Apps : byAppID[a] # NoRow => byAppID[a].app = a

\* An access key leads to the row the app id leads to: once an app is cached
\* with a new key or is removed, none of its old keys finds it any more.
KeyLeadsToCachedRow ==
    \A k \in Keys : byAccessKey[k] # NoRow =>
        /\ byAccessKey[k].key = k
        /\ byAppID[byAccessKey[k].app] = byAccessKey[k]

\* No two apps ever have key k, not even one after the other.
Owned(k) == \A r1, r2 \in Rows : r1.key = k /\ r2.key = k => r1.app = r2.app

\* Unless its key passes from one app to another, a cached app is found by its
\* key too: no put or remove of one app drops the key of another.
CachedRowHasKey ==
    \A a \in Apps :
        byAppID[a] # NoRow /\ byAppID[a].key # NoKey /\ Owned(byAppID[a].key) =>
            byAccessKey[byAppID[a].key] = byAppID[a]
=============================================================================
