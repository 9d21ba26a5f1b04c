--------------------------- MODULE KafkaBusProofs ---------------------------
(***************************************************************************)
(* The event bus for any topics, partitions, groups, publishers and        *)
(* consumers, with the process dying at any time.                          *)
(*                                                                         *)
(* A publisher that is about to write has a writer (PublisherHasWriter),   *)
(* so that nobody replaces it; a group's events of a partition are         *)
(* numbered up to its offset there (HandledBelowOffset), so that the next  *)
(* one is later than all;                                                  *)
(* and a running consumer has a subscription (RunnerSubscribed), whose key *)
(* only it can give back.                                                  *)
(***************************************************************************)
EXTENDS KafkaBus, TLAPS

PublisherHasWriter == \A p \in Publishers : pubPc[p] = "write" => pubWriter[p] # NoBus

HandledBelowOffset ==
    \A s \in Subs, n \in Partitions : \A i \in DOMAIN handled[s][n] :
        handled[s][n][i] <= committed[s][n]

Running(r) == conPc[r] \notin {"unused", "done"}

RunnerSubscribed == \A r \in BusReaders : Running(r) => conSub[r] \in Subs

PublishInv == OneWriterPerTopic /\ PublisherHasWriter
ConsumeInv ==
    /\ EventsOnceInOrder /\ HandledBelowOffset
    /\ RunningConsumerRegistered /\ RunnerSubscribed

BusInv == BusTypeOK /\ PublishInv /\ ConsumeInv

LEMMA AppendTyped ==
    ASSUME NEW S, NEW q \in Seq(S), NEW e \in S
    PROVE  Append(q, e) \in Seq(S)
  OBVIOUS

LEMMA KeyOfSub == \A s \in Subs : KeyOf[s] \in BusKeys
  BY DEF BusKeys

LEMMA BusInitInv == BusInit => BusInv
<1> SUFFICES ASSUME BusInit PROVE BusInv
  OBVIOUS
<1> USE BusAssumption DEF BusInit
<1>1. BusTypeOK
  BY DEF BusTypeOK
<1>2. PublishInv
  BY DEF PublishInv, OneWriterPerTopic, PublisherHasWriter
<1>3. ConsumeInv
  BY DEF ConsumeInv, EventsOnceInOrder, HandledBelowOffset, RunningConsumerRegistered,
         RunnerSubscribed, Running
<1> QED BY <1>1, <1>2, <1>3 DEF BusInv

-----------------------------------------------------------------------------
\* What Publish leaves alone and what consumers leave alone.
LEMMA ConsumersKept ==
    ASSUME ConsumeInv, UNCHANGED conVars
    PROVE  ConsumeInv'
  BY DEF conVars, ConsumeInv, EventsOnceInOrder, HandledBelowOffset, RunningConsumerRegistered,
         RunnerSubscribed, Running

LEMMA PublishersKept ==
    ASSUME PublishInv, UNCHANGED pubVars
    PROVE  PublishInv'
  BY DEF pubVars, PublishInv, OneWriterPerTopic, PublisherHasWriter

LEMMA PublishStep ==
    ASSUME BusInv, NEW p \in Publishers, Publish(p)
    PROVE  BusInv'
<1> USE BusAssumption DEF PubGo
<1>1. ConsumeInv'
  BY ConsumersKept DEF BusInv, Publish, FindWriter, LockWriters, MakeWriter, WriteEvent
<1>2. pubTopic[p] \in Topics /\ writers[pubTopic[p]] \in Publishers \cup {NoBus}
  BY DEF BusInv, BusTypeOK
<1>3. WriterFor(p) \in Publishers /\ WriterFor(p) # NoBus
  BY <1>2 DEF WriterFor
<1>4. CASE FindWriter(p)
  <2>1. BusTypeOK'
    BY <1>2, <1>4 DEF FindWriter, conVars, BusInv, BusTypeOK
  <2>2. PublishInv'
    BY <1>2, <1>4
    DEF FindWriter, BusInv, BusTypeOK, PublishInv, OneWriterPerTopic, PublisherHasWriter
  <2> QED BY <2>1, <2>2, <1>1 DEF BusInv
<1>5. CASE LockWriters(p)
  <2>1. BusTypeOK'
    BY <1>5 DEF LockWriters, conVars, BusInv, BusTypeOK
  <2>2. PublishInv'
    BY <1>5 DEF LockWriters, BusInv, BusTypeOK, PublishInv, OneWriterPerTopic, PublisherHasWriter
  <2> QED BY <2>1, <2>2, <1>1 DEF BusInv
<1>6. CASE MakeWriter(p)
  <2>1. BusTypeOK'
    BY <1>2, <1>3, <1>6 DEF MakeWriter, conVars, BusInv, BusTypeOK
  <2>2. \A t \in Topics : writers[t] # NoBus => writers'[t] = writers[t]
    BY <1>2, <1>6 DEF MakeWriter, WriterFor, BusInv, BusTypeOK
  <2>3. \A q \in Publishers : pubPc'[q] = "write" =>
            pubWriter'[q] # NoBus /\ writers'[pubTopic[q]] = pubWriter'[q]
    BY <1>2, <1>3, <1>6, <2>2
    DEF MakeWriter, BusInv, BusTypeOK, PublishInv, OneWriterPerTopic, PublisherHasWriter
  <2>4. PublishInv'
    BY <2>3, <1>6 DEF MakeWriter, PublishInv, OneWriterPerTopic, PublisherHasWriter
  <2> QED BY <2>1, <2>4, <1>1 DEF BusInv
<1>7. CASE WriteEvent(p)
  <2>1. /\ eventLog' \in [Topics -> [Partitions -> Nat]]
        /\ \A t \in Topics, n \in Partitions : eventLog'[t][n] <= MaxEvents[n]
    <3>1. /\ eventLog \in [Topics -> [Partitions -> Nat]]
          /\ \A t \in Topics, n \in Partitions : eventLog[t][n] <= MaxEvents[n]
          /\ pubTopic[p] \in Topics
      BY <1>2 DEF BusInv, BusTypeOK
    <3>2. CASE eventLog' = eventLog
      BY <3>1, <3>2
    <3>3. ASSUME NEW n \in Partitions, eventLog[pubTopic[p]][n] < MaxEvents[n],
                 eventLog' = [eventLog EXCEPT ![pubTopic[p]][n] = @ + 1]
          PROVE  /\ eventLog' \in [Topics -> [Partitions -> Nat]]
                 /\ \A t \in Topics, m \in Partitions : eventLog'[t][m] <= MaxEvents[m]
      <4>1. eventLog[pubTopic[p]][n] \in Nat /\ MaxEvents[n] \in Nat
        BY <3>1
      <4>2. \A t \in Topics, m \in Partitions :
                eventLog'[t][m] = IF t = pubTopic[p] /\ m = n THEN eventLog[t][m] + 1
                                  ELSE eventLog[t][m]
        BY <3>1, <3>3
      <4> QED BY <3>1, <3>3, <4>1, <4>2
    <3> QED BY <1>7, <3>2, <3>3 DEF WriteEvent
  <2>2. BusTypeOK'
    BY <2>1, <1>7 DEF WriteEvent, conVars, BusInv, BusTypeOK
  <2>3. PublishInv'
    BY <1>7 DEF WriteEvent, BusInv, BusTypeOK, PublishInv, OneWriterPerTopic, PublisherHasWriter
  <2> QED BY <2>2, <2>3, <1>1 DEF BusInv
<1> QED BY <1>4, <1>5, <1>6, <1>7 DEF Publish

-----------------------------------------------------------------------------
LEMMA SubscribeStep ==
    ASSUME BusInv, NEW r \in BusReaders, NEW s \in Subs, Subscribe(r, s)
    PROVE  BusInv'
<1> USE BusAssumption, KeyOfSub DEF Subscribe, ConGo, BusInv, BusTypeOK
<1>1. BusTypeOK'
  BY DEF pubVars
<1>2. PublishInv'
  BY PublishersKept
<1>3. EventsOnceInOrder' /\ HandledBelowOffset'
  BY DEF ConsumeInv, EventsOnceInOrder, HandledBelowOffset
<1>4. RunnerSubscribed'
  BY DEF ConsumeInv, RunnerSubscribed, Running
<1>5. RunningConsumerRegistered'
  <2> SUFFICES ASSUME NEW q \in BusReaders, conPc'[q] \notin {"unused", "done"}
               PROVE  readers'[KeyOf[conSub'[q]]] = q
    BY DEF RunningConsumerRegistered
  <2>1. CASE q = r
    BY <2>1
  <2>2. CASE q # r
    <3>1. conSub[q] \in Subs /\ readers[KeyOf[conSub[q]]] = q
      BY <2>2 DEF ConsumeInv, RunnerSubscribed, RunningConsumerRegistered, Running
    <3>2. KeyOf[conSub[q]] # KeyOf[s]
      BY <3>1 DEF KeyFree
    <3> QED BY <3>1, <3>2, <2>2
  <2> QED BY <2>1, <2>2
<1> QED BY <1>1, <1>2, <1>3, <1>4, <1>5 DEF ConsumeInv

\* The next event of a partition has the number after the offset there, which all
\* numbers so far are at most.
LEMMA ReadMessageStep ==
    ASSUME BusInv, NEW r \in BusReaders, NEW n \in Partitions, ReadMessage(r, n)
    PROVE  BusInv'
<1> USE BusAssumption DEF ReadMessage, ConGo
<1> DEFINE s == conSub[r]
           e == committed[s][n] + 1
<1>1. s \in Subs /\ TopicOf[s] \in Topics
  BY DEF BusInv, ConsumeInv, RunnerSubscribed, Running
<1>2. /\ committed[s][n] \in Nat /\ eventLog[TopicOf[s]][n] \in Nat /\ MaxEvents[n] \in Nat
      /\ eventLog[TopicOf[s]][n] <= MaxEvents[n]
  BY <1>1 DEF BusInv, BusTypeOK
<1>3. e \in Nat /\ e <= MaxEvents[n] /\ committed' = [committed EXCEPT ![s][n] = e]
  BY <1>1, <1>2 DEF Commit
<1>4. /\ handled[s][n] \in Seq(Nat)
      /\ handled' = [handled EXCEPT ![s][n] = Append(handled[s][n], e)]
  BY <1>1 DEF BusInv, BusTypeOK
<1> HIDE DEF s, e
<1>5. Append(handled[s][n], e) \in Seq(Nat)
  BY <1>3, <1>4, AppendTyped
<1>6. \A t \in Subs, m \in Partitions :
          /\ committed'[t][m] = IF t = s /\ m = n THEN e ELSE committed[t][m]
          /\ handled'[t][m] = IF t = s /\ m = n THEN Append(handled[s][n], e) ELSE handled[t][m]
  <2>1. /\ committed \in [Subs -> [Partitions -> Nat]]
        /\ handled \in [Subs -> [Partitions -> Seq(Nat)]]
    BY DEF BusInv, BusTypeOK
  <2> SUFFICES ASSUME NEW t \in Subs, NEW m \in Partitions
               PROVE  /\ committed'[t][m] = IF t = s /\ m = n THEN e ELSE committed[t][m]
                      /\ handled'[t][m] = IF t = s /\ m = n THEN Append(handled[s][n], e)
                                           ELSE handled[t][m]
    OBVIOUS
  <2>2. committed'[t][m] = IF t = s /\ m = n THEN e ELSE committed[t][m]
    BY <1>1, <1>3, <2>1
  <2>3. handled'[t][m] = IF t = s /\ m = n THEN Append(handled[s][n], e) ELSE handled[t][m]
    BY <1>1, <1>4, <2>1
  <2> QED BY <2>2, <2>3
<1>7. BusTypeOK'
  <2>1. /\ committed \in [Subs -> [Partitions -> Nat]]
        /\ handled \in [Subs -> [Partitions -> Seq(Nat)]]
        /\ \A t \in Subs, m \in Partitions : committed[t][m] <= MaxEvents[m]
    BY DEF BusInv, BusTypeOK
  <2>2. committed' \in [Subs -> [Partitions -> Nat]]
    BY <1>3, <2>1
  <2>3. [handled[s] EXCEPT ![n] = Append(handled[s][n], e)] \in [Partitions -> Seq(Nat)]
    BY <1>1, <1>5, <2>1
  <2>4. handled' \in [Subs -> [Partitions -> Seq(Nat)]]
    BY <1>4, <2>1, <2>3
  <2>5. \A t \in Subs, m \in Partitions : committed'[t][m] <= MaxEvents[m]
    BY <1>3, <1>6, <2>1
  <2> QED BY <2>2, <2>4, <2>5 DEF pubVars, BusInv, BusTypeOK
<1>8. PublishInv'
  BY PublishersKept DEF BusInv
<1>9. \A i \in DOMAIN handled[s][n] : handled[s][n][i] \in Nat /\ handled[s][n][i] < e
  BY <1>1, <1>2, <1>4 DEF e, BusInv, ConsumeInv, HandledBelowOffset
<1>10. handled'[s][n] = Append(handled[s][n], e) /\ committed'[s][n] = e
  BY <1>1, <1>6
<1>11. \A i \in DOMAIN handled'[s][n] :
          \/ i \in DOMAIN handled[s][n] /\ handled'[s][n][i] = handled[s][n][i]
          \/ i = Len(handled[s][n]) + 1 /\ handled'[s][n][i] = e
  BY <1>4, <1>10
<1>12. DOMAIN handled[s][n] = 1..Len(handled[s][n]) /\ Len(handled[s][n]) \in Nat
  BY <1>4
<1>13. HandledBelowOffset'
  BY <1>3, <1>6, <1>9, <1>10, <1>11 DEF BusInv, ConsumeInv, HandledBelowOffset
<1>14. EventsOnceInOrder'
  <2> SUFFICES ASSUME NEW t \in Subs, NEW m \in Partitions, NEW i \in DOMAIN handled'[t][m],
                      NEW j \in DOMAIN handled'[t][m], i < j
               PROVE  handled'[t][m][i] < handled'[t][m][j]
    BY DEF EventsOnceInOrder
  <2>1. CASE ~(t = s /\ m = n)
    <3>1. handled'[t][m] = handled[t][m]
      BY <2>1, <1>6
    <3>2. \A k, l \in DOMAIN handled[t][m] : k < l => handled[t][m][k] < handled[t][m][l]
      BY DEF BusInv, ConsumeInv, EventsOnceInOrder
    <3> HIDE DEF ReadMessage
    <3> QED BY <3>1, <3>2
  <2>2. CASE t = s /\ m = n
    <3>1. i \in DOMAIN handled[s][n] /\ handled'[s][n][i] = handled[s][n][i]
      BY <2>2, <1>11, <1>12
    <3>2. CASE j \in DOMAIN handled[s][n] /\ handled'[s][n][j] = handled[s][n][j]
      BY <2>2, <3>1, <3>2, <1>1 DEF BusInv, ConsumeInv, EventsOnceInOrder
    <3>3. CASE handled'[s][n][j] = e
      BY <2>2, <3>1, <3>3, <1>9
    <3> QED BY <2>2, <3>2, <3>3, <1>11
  <2> QED BY <2>1, <2>2
<1>15. RunningConsumerRegistered' /\ RunnerSubscribed'
  BY DEF BusInv, BusTypeOK, ConsumeInv, RunningConsumerRegistered, RunnerSubscribed, Running
<1> QED BY <1>7, <1>8, <1>13, <1>14, <1>15 DEF BusInv, ConsumeInv

\* The steps of a consumer that only move it on.
LEMMA ConsumerMoves ==
    ASSUME BusInv, NEW r \in BusReaders,
           HandlerReturns(r) \/ ReadFails(r) \/ WakeUp(r) \/ SeesEnd(r) \/ CancelContext(r)
    PROVE  BusInv'
<1> USE DEF HandlerReturns, ReadFails, Retry, WakeUp, SeesEnd, CancelContext, ConGo
<1>1. BusTypeOK'
  BY DEF pubVars, BusInv, BusTypeOK
<1>2. PublishInv'
  BY PublishersKept DEF BusInv
<1>3. UNCHANGED <<committed, handled, readers, conSub>>
  OBVIOUS
<1>4. \A q \in BusReaders : conPc'[q] \notin {"unused", "done"} => conPc[q] \notin {"unused", "done"}
  BY DEF BusInv, BusTypeOK
<1>5. ConsumeInv'
  BY <1>3, <1>4 DEF BusInv, ConsumeInv, EventsOnceInOrder, HandledBelowOffset,
                    RunningConsumerRegistered, RunnerSubscribed, Running
<1> QED BY <1>1, <1>2, <1>5 DEF BusInv

\* The key a consumer frees is its own: a running consumer with the same key
\* would be the one that is registered.
LEMMA ConsumerReturnsStep ==
    ASSUME BusInv, NEW r \in BusReaders, ConsumerReturns(r)
    PROVE  BusInv'
<1> USE BusAssumption, KeyOfSub DEF ConsumerReturns, Deregister, ConGo, BusInv, BusTypeOK
<1>1. BusTypeOK'
  BY DEF pubVars
<1>2. PublishInv'
  BY PublishersKept
<1>3. EventsOnceInOrder' /\ HandledBelowOffset' /\ RunnerSubscribed'
  BY DEF ConsumeInv, EventsOnceInOrder, HandledBelowOffset, RunnerSubscribed, Running
<1>4. RunningConsumerRegistered'
  <2> SUFFICES ASSUME NEW q \in BusReaders, conPc'[q] \notin {"unused", "done"}
               PROVE  readers'[KeyOf[conSub'[q]]] = q
    BY DEF RunningConsumerRegistered
  <2>1. q # r /\ conSub[q] \in Subs /\ readers[KeyOf[conSub[q]]] = q
    BY DEF ConsumeInv, RunnerSubscribed, RunningConsumerRegistered, Running
  <2>2. readers[KeyOf[conSub[r]]] = r
    BY DEF ConsumeInv, RunningConsumerRegistered
  <2>3. KeyOf[conSub[q]] # KeyOf[conSub[r]]
    BY <2>1, <2>2
  <2> QED BY <2>1, <2>3
<1> QED BY <1>1, <1>2, <1>3, <1>4 DEF ConsumeInv

LEMMA CloseBusStep ==
    ASSUME BusInv, CloseBus
    PROVE  BusInv'
<1>1. BusTypeOK'
  BY DEF CloseBus, pubVars, BusInv, BusTypeOK
<1>2. PublishInv'
  BY PublishersKept DEF BusInv, CloseBus
<1>3. ConsumeInv'
  BY DEF CloseBus, BusInv, ConsumeInv, EventsOnceInOrder, HandledBelowOffset,
         RunningConsumerRegistered, RunnerSubscribed, Running
<1> QED BY <1>1, <1>2, <1>3 DEF BusInv

\* Nobody publishes and nobody runs in a new process; the offsets are Kafka's.
LEMMA BusCrashStep ==
    ASSUME BusInv, BusCrash
    PROVE  BusInv'
<1> USE DEF BusCrash
<1>1. conPc' \in [BusReaders -> {"unused", "done"}]
  OBVIOUS
<1>2. BusTypeOK'
  BY <1>1 DEF BusInv, BusTypeOK
<1>3. PublishInv'
  BY DEF PublishInv, OneWriterPerTopic, PublisherHasWriter
<1>4. ConsumeInv'
  BY <1>1 DEF BusInv, ConsumeInv, EventsOnceInOrder, HandledBelowOffset,
              RunningConsumerRegistered, RunnerSubscribed, Running
<1> QED BY <1>2, <1>3, <1>4 DEF BusInv

LEMMA BusStep == BusInv /\ [BusNext]_busVars => BusInv'
<1> SUFFICES ASSUME BusInv, [BusNext]_busVars PROVE BusInv'
  OBVIOUS
<1>1. CASE UNCHANGED busVars
  <2>1. UNCHANGED pubVars /\ UNCHANGED conVars /\ UNCHANGED eventLog
    BY <1>1 DEF busVars
  <2>2. BusTypeOK'
    BY <2>1 DEF pubVars, conVars, BusInv, BusTypeOK
  <2> QED BY <2>1, <2>2, PublishersKept, ConsumersKept DEF BusInv
<1>2. CASE \E p \in Publishers : Publish(p)
  BY <1>2, PublishStep
<1>3. CASE \E r \in BusReaders, s \in Subs : Subscribe(r, s)
  BY <1>3, SubscribeStep
<1>4. CASE \E r \in BusReaders : Consume(r) \/ CancelContext(r)
  BY <1>4, ReadMessageStep, ConsumerMoves, ConsumerReturnsStep DEF Consume
<1>5. CASE CloseBus \/ BusCrash
  BY <1>5, CloseBusStep, BusCrashStep
<1> QED BY <1>1, <1>2, <1>3, <1>4, <1>5 DEF BusNext

LEMMA BusInvariant == BusSpec => []BusInv
  BY BusInitInv, BusStep, PTL DEF BusSpec

\* No interleaving of publishers makes a second writer for a topic: all write
\* through the one in the map.
THEOREM TopicsHaveOneWriter == BusSpec => []OneWriterPerTopic
<1>1. BusInv => OneWriterPerTopic
  BY DEF BusInv, PublishInv
<1> QED BY <1>1, BusInvariant, PTL

\* No handler of a group is given an event again, or after a later one of the same
\* partition, whatever fails, ends, is closed or crashes.
THEOREM EventsHandledOnce == BusSpec => []EventsOnceInOrder
<1>1. BusInv => EventsOnceInOrder
  BY DEF BusInv, ConsumeInv
<1> QED BY <1>1, BusInvariant, PTL

\* A consumer that runs is registered: a key has at most one, and Close finds it.
THEOREM RunningConsumersRegistered == BusSpec => []RunningConsumerRegistered
<1>1. BusInv => RunningConsumerRegistered
  BY DEF BusInv, ConsumeInv
<1> QED BY <1>1, BusInvariant, PTL
=============================================================================
