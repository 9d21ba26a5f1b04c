------------------------------ MODULE KafkaBus ------------------------------
(***************************************************************************)
(* eventbus.KafkaBus in one process: publishers that share one writer per  *)
(* topic, and consumer goroutines, one per topic and group.                *)
(*                                                                         *)
(* Of Kafka, and of the kafka-go client, the model has what the bus relies *)
(* on: a topic is a set of partitions, each a log, and the writer's        *)
(* balancer (LeastBytes) may put an event in any of them; a group has an   *)
(* offset in each, which ReadMessage moves before it returns; an open      *)
(* reader is a member of its group, and which member gets the next event   *)
(* of a partition is the broker's choice.  Between partitions there is no  *)
(* order.                                                                  *)
(*                                                                         *)
(* Publish reads the writers map, and Close both maps, without a lock.     *)
(* Against a concurrent write Go's maps give the old value or the new one, *)
(* or end the process: that is BusCrash, which may happen at any time.     *)
(***************************************************************************)
EXTENDS Naturals, Sequences

CONSTANTS
    Topics,
    Partitions,     \* of each topic
    Publishers,     \* goroutines that call Publish; a writer is named by its creator
    Subs,           \* subscriptions: pairs of a topic and a group
    TopicOf,        \* the topic of a subscription
    KeyOf,          \* its key "<topic>-<group>", which two subscriptions may share
    BusReaders,     \* bound: the readers (and consumers) ever made
    MaxEvents,      \* bound: the events of each partition
    NoBus           \* nil: no writer, no reader, mutex not held

ASSUME BusAssumption ==
    /\ TopicOf \in [Subs -> Topics]
    /\ DOMAIN KeyOf = Subs
    /\ MaxEvents \in [Partitions -> Nat]
    /\ NoBus \notin Publishers \cup BusReaders \cup Subs

BusKeys == {KeyOf[s] : s \in Subs}

VARIABLES
    writers,        \* KafkaBus.writers
    writerMu,       \* the publisher that holds kafkaWriteLock
    pubPc,          \* where a publisher is
    pubTopic,       \* its arguments
    pubWriter,      \* its local variable `writer`
    eventLog,       \* in Kafka: the number of events in a partition of a topic
    committed,      \* in Kafka: the offset of a group in a partition
    handled,        \* of a partition, the offsets given to handlers, in that order
    readers,        \* KafkaBus.readers
    conPc,          \* where the consumer goroutine of a reader is
    conSub,         \* what it consumes
    open,           \* readers nobody has closed
    ended           \* readers whose context is cancelled

pubVars == <<writers, writerMu, pubPc, pubTopic, pubWriter>>
conVars == <<committed, handled, readers, conPc, conSub, open, ended>>
busVars == <<pubVars, eventLog, conVars>>

BusInit ==
    /\ writers = [t \in Topics |-> NoBus]
    /\ writerMu = NoBus
    /\ pubPc = [p \in Publishers |-> "idle"]
    /\ pubTopic \in [Publishers -> Topics]
    /\ pubWriter = [p \in Publishers |-> NoBus]
    /\ eventLog = [t \in Topics |-> [n \in Partitions |-> 0]]
    /\ committed = [s \in Subs |-> [n \in Partitions |-> 0]]
    /\ handled = [s \in Subs |-> [n \in Partitions |-> <<>>]]
    /\ readers = [k \in BusKeys |-> NoBus]
    /\ conPc = [r \in BusReaders |-> "unused"]
    /\ conSub = [r \in BusReaders |-> NoBus]
    /\ open = {}
    /\ ended = {}

-----------------------------------------------------------------------------
(* Publish.                                                                 *)

PubGo(p, from, to) == pubPc[p] = from /\ pubPc' = [pubPc EXCEPT ![p] = to]

\* The writer, if there is one, is used without the lock.
FindWriter(p) ==
    LET w == writers[pubTopic[p]] IN
    /\ PubGo(p, "idle", IF w = NoBus THEN "lock" ELSE "write")
    /\ pubWriter' = [pubWriter EXCEPT ![p] = w]
    /\ UNCHANGED <<writers, writerMu, pubTopic, eventLog, conVars>>

LockWriters(p) ==
    /\ writerMu = NoBus
    /\ PubGo(p, "lock", "locked")
    /\ writerMu' = p
    /\ UNCHANGED <<writers, pubTopic, pubWriter, eventLog, conVars>>

\* Under the lock: the writer another publisher has made since, or a new one.
\* (Mutant: the map is not read again.)
NewWriter(p) == p
WriterFor(p) == IF writers[pubTopic[p]] = NoBus THEN p ELSE writers[pubTopic[p]]

MakeWriter(p) ==
    /\ PubGo(p, "locked", "write")
    /\ pubWriter' = [pubWriter EXCEPT ![p] = WriterFor(p)]
    /\ writers' = [writers EXCEPT ![pubTopic[p]] = WriterFor(p)]
    /\ writerMu' = NoBus
    /\ UNCHANGED <<pubTopic, eventLog, conVars>>

\* An asynchronous write to a partition of the balancer's choice: it may fail
\* later, or the writer may be closed.
WriteEvent(p) ==
    /\ PubGo(p, "write", "idle")
    /\ \/ \E n \in Partitions :
             /\ eventLog[pubTopic[p]][n] < MaxEvents[n]
             /\ eventLog' = [eventLog EXCEPT ![pubTopic[p]][n] = @ + 1]
       \/ UNCHANGED eventLog
    /\ pubWriter' = [pubWriter EXCEPT ![p] = NoBus]
    /\ UNCHANGED <<writers, writerMu, pubTopic, conVars>>

-----------------------------------------------------------------------------
(* Subscribe and its consumer.                                              *)

ConGo(r, from, to) == conPc[r] = from /\ conPc' = [conPc EXCEPT ![r] = to]

\* (Mutant: nobody looks whether the key is taken.)
AnyKey(s) == TRUE
KeyFree(s) == readers[KeyOf[s]] = NoBus

\* Which of the names not yet used a new reader gets makes no difference.
NextReader == CHOOSE r \in BusReaders : conPc[r] = "unused"

\* kafkaReadLock is held over all of it.  With the key taken it is an error.
Subscribe(r, s) ==
    /\ KeyFree(s)
    /\ ConGo(r, "unused", "loop")
    /\ r = NextReader
    /\ readers' = [readers EXCEPT ![KeyOf[s]] = r]
    /\ conSub' = [conSub EXCEPT ![r] = s]
    /\ open' = open \cup {r}
    /\ UNCHANGED <<pubVars, eventLog, committed, handled, ended>>

\* (Mutant: the offset is left for after the handler.)
CommitLater(s, n) == UNCHANGED committed
Commit(s, n) == committed' = [committed EXCEPT ![s][n] = @ + 1]

\* The next event of one of the partitions.
ReadMessage(r, n) ==
    LET s == conSub[r] IN
    /\ ConGo(r, "loop", "handle")
    /\ r \in open
    /\ committed[s][n] < eventLog[TopicOf[s]][n]
    /\ Commit(s, n)
    /\ handled' = [handled EXCEPT ![s][n] = Append(@, committed[s][n] + 1)]
    /\ UNCHANGED <<pubVars, eventLog, readers, conSub, open, ended>>

\* The handler returns, with or without an error, or the event was not decoded.
HandlerReturns(r) ==
    /\ ConGo(r, "handle", "loop")
    /\ UNCHANGED <<pubVars, eventLog, committed, handled, readers, conSub, open, ended>>

\* ReadMessage fails: always when the reader is closed, at times when not.
\* (Mutant: the consumer gives up.)
GiveUp(r) == ConGo(r, "loop", "return")
Retry(r) == ConGo(r, "loop", "sleep")

ReadFails(r) ==
    /\ r \notin ended
    /\ Retry(r)
    /\ UNCHANGED <<pubVars, eventLog, committed, handled, readers, conSub, open, ended>>

WakeUp(r) ==
    /\ ConGo(r, "sleep", "loop")
    /\ UNCHANGED <<pubVars, eventLog, committed, handled, readers, conSub, open, ended>>

CancelContext(r) ==
    /\ conPc[r] \in {"loop", "handle", "sleep"}
    /\ r \notin ended
    /\ ended' = ended \cup {r}
    /\ UNCHANGED <<pubVars, eventLog, committed, handled, readers, conPc, conSub, open>>

\* select sees the context's end, or ReadMessage returns because of it.
SeesEnd(r) ==
    /\ r \in ended
    /\ ConGo(r, "loop", "return")
    /\ UNCHANGED <<pubVars, eventLog, committed, handled, readers, conSub, open, ended>>

\* The deferred delete.  (Mutant: it is missing.)
Stays(r) == UNCHANGED readers
Deregister(r) == readers' = [readers EXCEPT ![KeyOf[conSub[r]]] = NoBus]

\* Nobody closes the reader: it stays a member of the group.
ConsumerReturns(r) ==
    /\ ConGo(r, "return", "done")
    /\ Deregister(r)
    /\ UNCHANGED <<pubVars, eventLog, committed, handled, conSub, open, ended>>

\* Close: the readers in the map, and not those of consumers that ended.
CloseBus ==
    /\ open' = open \ {readers[k] : k \in BusKeys}
    /\ UNCHANGED <<pubVars, eventLog, committed, handled, readers, conPc, conSub, ended>>

\* The process dies and a new one starts with an empty bus.
BusCrash ==
    /\ writers' = [t \in Topics |-> NoBus]
    /\ writerMu' = NoBus
    /\ pubPc' = [p \in Publishers |-> "idle"]
    /\ pubWriter' = [p \in Publishers |-> NoBus]
    /\ readers' = [k \in BusKeys |-> NoBus]
    /\ conPc' = [r \in BusReaders |-> IF conPc[r] = "unused" THEN "unused" ELSE "done"]
    /\ open' = {}
    /\ UNCHANGED <<pubTopic, eventLog, committed, handled, conSub, ended>>

Publish(p) == FindWriter(p) \/ LockWriters(p) \/ MakeWriter(p) \/ WriteEvent(p)
Consume(r) ==
    \/ \E n \in Partitions : ReadMessage(r, n)
    \/ HandlerReturns(r) \/ ReadFails(r) \/ WakeUp(r)
    \/ SeesEnd(r) \/ ConsumerReturns(r)

BusNext ==
    \/ \E p \in Publishers : Publish(p)
    \/ \E r \in BusReaders, s \in Subs : Subscribe(r, s)
    \/ \E r \in BusReaders : Consume(r) \/ CancelContext(r)
    \/ CloseBus \/ BusCrash

BusSpec == BusInit /\ [][BusNext]_busVars

\* The open readers of a subscription: the members of its group.
Members(s) == {r \in open : conSub[r] = s}

\* Goroutines run; and a group whose members ask again and again is given what
\* is in a partition, over errors: none of its partitions is passed over for ever.
GroupReads(s, n) == \E r \in BusReaders : conSub[r] = s /\ ReadMessage(r, n)

BusFairness ==
    /\ \A r \in BusReaders :
           WF_busVars(HandlerReturns(r) \/ WakeUp(r) \/ SeesEnd(r) \/ ConsumerReturns(r))
    /\ \A s \in Subs, n \in Partitions : SF_busVars(GroupReads(s, n))

-----------------------------------------------------------------------------
(* Properties.                                                              *)

BusTypeOK ==
    /\ writers \in [Topics -> Publishers \cup {NoBus}]
    /\ writerMu \in Publishers \cup {NoBus}
    /\ pubPc \in [Publishers -> {"idle", "lock", "locked", "write"}]
    /\ pubTopic \in [Publishers -> Topics]
    /\ pubWriter \in [Publishers -> Publishers \cup {NoBus}]
    /\ eventLog \in [Topics -> [Partitions -> Nat]]
    /\ \A t \in Topics, n \in Partitions : eventLog[t][n] <= MaxEvents[n]
    /\ committed \in [Subs -> [Partitions -> Nat]]
    /\ \A s \in Subs, n \in Partitions : committed[s][n] <= MaxEvents[n]
    /\ handled \in [Subs -> [Partitions -> Seq(Nat)]]
    /\ readers \in [BusKeys -> BusReaders \cup {NoBus}]
    /\ conPc \in [BusReaders -> {"unused", "loop", "handle", "sleep", "return", "done"}]
    /\ conSub \in [BusReaders -> Subs \cup {NoBus}]
    /\ open \subseteq BusReaders
    /\ ended \subseteq BusReaders

\* All the publishers of a topic write through the writer in the map, which is
\* the one that Close closes: no second writer is made, whoever comes first.
OneWriterPerTopic ==
    \A p \in Publishers : pubPc[p] = "write" => writers[pubTopic[p]] = pubWriter[p]

\* A group is given the events of a partition in order and none twice, whichever
\* of its members reads them, over read errors, new subscriptions and crashes
\* (not all of them: an event whose handler fails or dies with the process is not
\* read again).  Nothing is said of the order of two events of a topic: they may
\* be in two partitions.
EventsOnceInOrder ==
    \A s \in Subs, n \in Partitions : \A i, j \in DOMAIN handled[s][n] :
        i < j => handled[s][n][i] < handled[s][n][j]

\* A consumer that runs is the one registered under its key, so that one process
\* has one consumer per key, and Close finds its reader.
RunningConsumerRegistered ==
    \A r \in BusReaders :
        conPc[r] \notin {"unused", "done"} => readers[KeyOf[conSub[r]]] = r

\* The end of its context ends a consumer, also when every read fails after
\* Close, and frees its key for the next Subscribe.
CancelFreesKey ==
    \A r \in BusReaders :
        r \in ended ~> conPc[r] = "done" /\ \A k \in BusKeys : readers[k] # r

\* r consumes s, nobody else is in the group, and nobody has told r to end.
Serves(r, s) == Members(s) = {r} /\ r \notin ended

\* As long as a group has one member, and it is to run, it gets every event of
\* every partition: errors delay the consumer and do not end it.
GroupCatchesUp ==
    \A s \in Subs, n \in Partitions : \A e \in 1..MaxEvents[n] :
        eventLog[TopicOf[s]][n] >= e
            ~> committed[s][n] >= e \/ ~\E r \in BusReaders : Serves(r, s)
=============================================================================
