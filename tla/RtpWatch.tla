------------------------------ MODULE RtpWatch ------------------------------
(***************************************************************************)
(* The watch of slot.Rtp on the RTP configuration in Consul: a first load, *)
(* then blocking queries whose answers, read some time before they are     *)
(* applied, bring rtpConfig up to date.                                    *)
(*                                                                         *)
(* A configuration is the index of the write that made it, 0 if there is   *)
(* none.  Consul's index is taken to grow, which it does unless somebody   *)
(* restores a snapshot.                                                    *)
(***************************************************************************)
EXTENDS Naturals

CONSTANTS
    ConfKeys,       \* the keys under "aigc/<brand>/", one per table
    MaxIndex        \* bound: writes to them

ASSUME WatchAssumption == MaxIndex \in Nat

VARIABLES
    kv,             \* in Consul: the index of each key's last write
    badJSON,        \* in Consul: writes that are not a configuration
    consulIndex,    \* in Consul: the index of the last change
    watchPc,        \* where the watch is: "start", "list", "apply"
    answer,         \* kvPairs and meta of the last List
    lastIndex,
    modifyIndex,    \* state.modifyIndex
    rtpConfig       \* Rtp.rtpConfig

consulVars == <<kv, badJSON, consulIndex>>
watchVars == <<consulVars, watchPc, answer, lastIndex, modifyIndex, rtpConfig>>

NoKeys == [k \in ConfKeys |-> 0]

WatchInit ==
    /\ kv = NoKeys
    /\ badJSON = {}
    /\ consulIndex = 0
    /\ watchPc = "start"
    /\ answer = [pairs |-> NoKeys, index |-> 0]
    /\ lastIndex = 0
    /\ modifyIndex = NoKeys
    /\ rtpConfig = NoKeys

WriteKey(k) ==
    /\ consulIndex < MaxIndex
    /\ consulIndex' = consulIndex + 1
    /\ kv' = [kv EXCEPT ![k] = consulIndex + 1]
    /\ badJSON' \in {badJSON, badJSON \cup {consulIndex + 1}}
    /\ UNCHANGED <<watchPc, answer, lastIndex, modifyIndex, rtpConfig>>

DeleteKey(k) ==
    /\ consulIndex < MaxIndex
    /\ kv[k] # 0
    /\ consulIndex' = consulIndex + 1
    /\ kv' = [kv EXCEPT ![k] = 0]
    /\ UNCHANGED <<badJSON, watchPc, answer, lastIndex, modifyIndex, rtpConfig>>

\* Whether the answer has a write of k that processKV must see: another index
\* than at the last answer, or none then.  (Mutant: new keys are overlooked.)
ChangedKnown(k) == modifyIndex[k] # 0 /\ modifyIndex[k] # answer.pairs[k]
Changed(k) == modifyIndex[k] # answer.pairs[k]

\* processKV: what is not a configuration is skipped and the old one stays, as
\* does that of a key that was deleted.
Process(k, pairs) ==
    IF pairs[k] = 0 \/ pairs[k] \in badJSON THEN rtpConfig[k] ELSE pairs[k]

\* watchKeys; if it fails NewRtp panics.
FirstLoad ==
    /\ watchPc = "start"
    /\ rtpConfig' = [k \in ConfKeys |-> Process(k, kv)]
    /\ modifyIndex' = kv
    /\ lastIndex' = consulIndex
    /\ watchPc' = "list"
    /\ UNCHANGED <<consulVars, answer>>

\* Consul answers: after a change, or after five minutes.
List ==
    /\ watchPc = "list"
    /\ answer' = [pairs |-> kv, index |-> consulIndex]
    /\ watchPc' = "apply"
    /\ UNCHANGED <<consulVars, lastIndex, modifyIndex, rtpConfig>>

IgnoreAnswer ==
    /\ watchPc = "apply"
    /\ answer.index <= lastIndex
    /\ watchPc' = "list"
    /\ UNCHANGED <<consulVars, answer, lastIndex, modifyIndex, rtpConfig>>

\* Where the next List goes on.  (Mutant: at the index Consul has by now.)
IndexByNow == consulIndex
AnswerIndex == answer.index

ApplyAnswer ==
    /\ watchPc = "apply"
    /\ answer.index > lastIndex
    /\ lastIndex' = AnswerIndex
    /\ rtpConfig' = [k \in ConfKeys |->
           IF Changed(k) THEN Process(k, answer.pairs) ELSE rtpConfig[k]]
    /\ modifyIndex' = answer.pairs
    /\ watchPc' = "list"
    /\ UNCHANGED <<consulVars, answer>>

Watch == List \/ IgnoreAnswer \/ ApplyAnswer

WatchNext ==
    \/ \E k \in ConfKeys : WriteKey(k) \/ DeleteKey(k)
    \/ FirstLoad \/ Watch

WatchSpec == WatchInit /\ [][WatchNext]_watchVars

\* A List that fails is tried again: one succeeds in the end.
WatchFairness == WF_watchVars(Watch)

-----------------------------------------------------------------------------
(* Properties.                                                              *)

WatchTypeOK ==
    /\ kv \in [ConfKeys -> 0..MaxIndex]
    /\ badJSON \subseteq 1..MaxIndex
    /\ consulIndex \in 0..MaxIndex
    /\ watchPc \in {"start", "list", "apply"}
    /\ answer \in [pairs : [ConfKeys -> 0..MaxIndex], index : 0..MaxIndex]
    /\ lastIndex \in 0..MaxIndex
    /\ modifyIndex \in [ConfKeys -> 0..MaxIndex]
    /\ rtpConfig \in [ConfKeys -> 0..MaxIndex]

\* A write to Consul takes effect in the end, unless another one or a deletion
\* makes it moot: none is lost that came while an answer was on its way or being
\* applied, and the watch does not fall behind for ever.  (A bad write and a
\* deleted key leave the last good configuration.)
WriteTakesEffect == \A k \in ConfKeys :
    LET Good == kv[k] \notin badJSON \cup {0} IN
    watchPc # "start" /\ Good ~> rtpConfig[k] = kv[k] \/ ~Good
=============================================================================
