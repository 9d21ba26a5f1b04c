----------------------------- MODULE RtpSamples -----------------------------
(***************************************************************************)
(* The samples slot.Rtp keeps of one table and mode, in a sync.Map: a list *)
(* of ids per rate, and the list of all rates.  A load replaces them key   *)
(* by key while spins draw a rate, and then a sample of that rate.         *)
(*                                                                         *)
(* A list is the number of the load that stored it, 0 if there is none.    *)
(***************************************************************************)
EXTENDS Naturals

CONSTANTS
    Rates,
    Spins,          \* goroutines that draw
    MaxLoads,       \* bound: calls of CacheSimpleByRate
    NoRate          \* nothing drawn

ASSUME SamplesAssumption ==
    /\ MaxLoads \in Nat
    /\ NoRate \notin [rate : Rates, load : 0..MaxLoads]

VARIABLES
    rateIds,        \* "<table>_<mode>:rate:<rate>"
    allRates,       \* "<table>_<mode>:all_rates": the rates, and their load
    loads,          \* the calls of CacheSimpleByRate so far
    loading,        \* rateSetMap of the call in progress
    toStore,        \* its keys that are not stored yet
    drawn           \* the rate a spin has got from GetRoundRate, and its load

cacheVars == <<rateIds, allRates, loads, loading, toStore>>
samplesVars == <<cacheVars, drawn>>

SamplesInit ==
    /\ rateIds = [r \in Rates |-> 0]
    /\ allRates = [rates |-> {}, load |-> 0]
    /\ loads = 0
    /\ loading = {}
    /\ toStore = {}
    /\ drawn = [s \in Spins |-> NoRate]

\* CacheSimpleByRate, called with records of these rates, by one goroutine.
GroupRecords(rates) ==
    /\ loading = {} /\ rates # {}
    /\ loads < MaxLoads
    /\ loads' = loads + 1
    /\ loading' = rates
    /\ toStore' = rates
    /\ UNCHANGED <<rateIds, allRates, drawn>>

\* The lists in the order of a Go map: any.
StoreRate(r) ==
    /\ r \in toStore
    /\ rateIds' = [rateIds EXCEPT ![r] = loads]
    /\ toStore' = toStore \ {r}
    /\ UNCHANGED <<allRates, loads, loading, drawn>>

\* The second loop comes after the first.  (Mutant: it does not wait for it.)
AnyTime == loading # {}
ListsStored == loading # {} /\ toStore = {}

StoreAllRates ==
    /\ ListsStored
    /\ allRates' = [rates |-> loading, load |-> loads]
    /\ loading' = {}
    /\ UNCHANGED <<rateIds, loads, toStore, drawn>>

GetRoundRate(s) ==
    /\ drawn[s] = NoRate
    /\ \E r \in allRates.rates :
           drawn' = [drawn EXCEPT ![s] = [rate |-> r, load |-> allRates.load]]
    /\ UNCHANGED cacheVars

GetOneSimpleByRate(s) ==
    /\ drawn[s] # NoRate
    /\ drawn' = [drawn EXCEPT ![s] = NoRate]
    /\ UNCHANGED cacheVars

SamplesNext ==
    \/ \E rates \in SUBSET Rates : GroupRecords(rates)
    \/ \E r \in Rates : StoreRate(r)
    \/ StoreAllRates
    \/ \E s \in Spins : GetRoundRate(s) \/ GetOneSimpleByRate(s)

SamplesSpec == SamplesInit /\ [][SamplesNext]_samplesVars

-----------------------------------------------------------------------------
(* Properties.                                                              *)

SamplesTypeOK ==
    /\ rateIds \in [Rates -> 0..MaxLoads]
    /\ allRates \in [rates : SUBSET Rates, load : 0..MaxLoads]
    /\ loads \in 0..MaxLoads
    /\ loading \subseteq Rates
    /\ toStore \subseteq loading
    /\ drawn \in [Spins -> {NoRate} \cup [rate : Rates, load : 0..MaxLoads]]

\* A rate that was drawn has samples when they are asked for, of the load whose
\* list of rates it came from or a later one, however the loads go on meanwhile.
DrawnRateHasSamples ==
    \A s \in Spins : drawn[s] # NoRate =>
        rateIds[drawn[s].rate] >= drawn[s].load /\ drawn[s].load > 0
=============================================================================
