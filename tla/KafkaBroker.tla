------------------------------ MODULE KafkaBroker ------------------------------
(***************************************************************************)
(* A Kafka simulator with one broker, a publisher and several subscribers: *)
(* every subscriber has a listener thread that polls its topic, commits    *)
(* the offset and hands record after record to SimMessageListener, while   *)
(* the simulator is started and stopped and the process may crash.         *)
(*                                                                         *)
(* Topics and group offsets live in the Kafka server (external) and        *)
(* survive a crash. A close, a library's, may throw and end a stop half    *)
(* way: what the stop has not come to stays open and at work. A response   *)
(* of a rule goes through the simulator registry                           *)
(* (AbstractSimRequest.fillResponse), whose monitor a start or a stop      *)
(* holds from begin to end; forwarding to the proxy channel does not.      *)
(***************************************************************************)
EXTENDS Naturals, FiniteSets

CONSTANTS
  Sub,        \* subscribers
  NoSub,
  Publisher,
  Proxied,    \* those with simulator.kafka.endpoint.proxy
  MaxRecord,  \* bound: records per topic
  MaxCrash    \* bound: crashes

ASSUME KafkaAssumption ==
  /\ Proxied \subseteq Sub
  /\ NoSub \notin Sub /\ Publisher \notin Sub \cup {NoSub}
  /\ MaxRecord \in Nat
  /\ MaxCrash \in Nat

VARIABLES
  autoCommit,  \* enable.auto.commit
  committed,   \* external: the group's offset, records 1 .. committed are done
  producer,    \* KafkaPublisher.producer is not null
  consumer,    \* subscribers whose consumer is not null
  position,    \* the consumer's position: records up to it were polled
  running,     \* KafkaSubscriber.running
  thread,      \* what a listener thread is at
  next,        \* the record it handles; next .. position is the rest of the batch
  life,        \* what the management thread is at
  todo,        \* subscribers that its loop has not come to yet
  current,     \* the subscriber whose thread stop waits for
  again,       \* the stop is that of a failed start: doStop is called once more
  cutAt,       \* history: the endpoint whose close() ended the stop, or NoSub
  uncommitted, \* history: subscribers whose close() did not commit as it should
  fate,        \* history: what became of each record
  died,        \* history: subscribers whose thread an exception ended
  crashes

server == <<autoCommit, committed, uncommitted>>
listener == <<position, thread, next>>
pass == <<again, cutAt>>
manager == <<life, todo, current, pass>>
history == <<fate, died>>
vars == <<server, producer, consumer, running, listener, manager, history, crashes>>

Record == 1 .. MaxRecord
Thread == {"none", "loop", "commit", "handle", "match", "answer", "proxy",
           "ended", "dead"}
Life == {"down", "startPub", "startSub", "up", "stopPub", "stopSub", "waiting"}
\* Handled: answered, forwarded, reported as failed or logged as unreadable.
Fate == {"unread", "handled", "killed", "lost"}

TypeOK ==
  /\ autoCommit \in BOOLEAN
  /\ committed \in [Sub -> 0 .. MaxRecord]
  /\ producer \in BOOLEAN
  /\ consumer \subseteq Sub
  /\ position \in [Sub -> 0 .. MaxRecord]
  /\ running \subseteq Sub
  /\ thread \in [Sub -> Thread]
  /\ next \in [Sub -> 1 .. MaxRecord + 1]
  /\ life \in Life
  /\ todo \subseteq Sub
  /\ current \in Sub \cup {NoSub}
  /\ again \in BOOLEAN
  /\ cutAt \in Sub \cup {Publisher, NoSub}
  /\ uncommitted \subseteq Sub
  /\ fate \in [Sub -> [Record -> Fate]]
  /\ died \subseteq Sub
  /\ crashes \in 0 .. MaxCrash

Init ==
  /\ autoCommit \in BOOLEAN
  /\ committed = [s \in Sub |-> 0]
  /\ producer = FALSE /\ consumer = {} /\ running = {}
  /\ position = [s \in Sub |-> 0]
  /\ thread = [s \in Sub |-> "none"]
  /\ next = [s \in Sub |-> 1]
  /\ life = "down" /\ todo = {} /\ current = NoSub
  /\ again = FALSE /\ cutAt = NoSub /\ uncommitted = {}
  /\ fate = [s \in Sub |-> [r \in Record |-> "unread"]]
  /\ died = {}
  /\ crashes = 0

-----------------------------------------------------------------------------
(* The listener thread.                                                    *)

Goto(s, step) == thread' = [thread EXCEPT ![s] = step]
Alive(s) == thread[s] \notin {"none", "ended", "dead"}
BecomesOf(s, f) == fate' = [fate EXCEPT ![s][next[s]] = f]

\* The loop's condition and poll: none or some of the records that clients
\* have published so far, or will have by then.  Kafka's own commit, when enabled, covers
\* what earlier polls returned.
Poll(s) ==
  /\ thread[s] = "loop" /\ s \in running
  /\ \E n \in position[s] .. MaxRecord : position' = [position EXCEPT ![s] = n]
  /\ \/ UNCHANGED committed
     \/ autoCommit /\ committed' = [committed EXCEPT ![s] = position[s]]
  /\ Goto(s, IF autoCommit THEN "handle" ELSE "commit")
  /\ UNCHANGED <<autoCommit, uncommitted, producer, consumer, running, next, manager,
                 history, crashes>>

EndLoop(s) ==
  /\ thread[s] = "loop" /\ s \notin running
  /\ Goto(s, "ended")
  /\ UNCHANGED <<server, producer, consumer, running, position, next, manager,
                 history, crashes>>

\* Mutant of CommitSync: the offset is not committed.
CommitNothing(s) ==
  /\ thread[s] = "commit"
  /\ Goto(s, "handle")
  /\ UNCHANGED <<server, producer, consumer, running, position, next, manager,
                 history, crashes>>

\* commitSync, before the records are handled.
CommitSync(s) ==
  /\ thread[s] = "commit"
  /\ committed' = [committed EXCEPT ![s] = position[s]]
  /\ Goto(s, "handle")
  /\ UNCHANGED <<autoCommit, uncommitted, producer, consumer, running, position, next,
                 manager, history, crashes>>

Dies(s) == Goto(s, "dead") /\ died' = died \cup {s}

\* poll and commitSync may throw, which ends the thread; the offset may have
\* been committed all the same.
PollFails(s) ==
  /\ thread[s] = "commit" \/ (thread[s] = "loop" /\ s \in running)
  /\ \/ UNCHANGED committed
     \/ thread[s] = "commit" /\ committed' = [committed EXCEPT ![s] = position[s]]
  /\ Dies(s)
  /\ UNCHANGED <<autoCommit, uncommitted, producer, consumer, running, position, next,
                 manager, fate, crashes>>

\* The next record of the batch: onMessage makes a request of it, or logs
\* that it cannot.
OnMessage(s) ==
  /\ thread[s] = "handle" /\ next[s] <= position[s]
  /\ \/ Goto(s, "match") /\ UNCHANGED <<next, fate>>
     \/ BecomesOf(s, "handled") /\ next' = [next EXCEPT ![s] = @ + 1] /\ UNCHANGED thread
  /\ UNCHANGED <<server, producer, consumer, running, position, manager, died,
                 crashes>>

BatchDone(s) ==
  /\ thread[s] = "handle" /\ next[s] > position[s]
  /\ Goto(s, "loop")
  /\ UNCHANGED <<server, producer, consumer, running, position, next, manager,
                 history, crashes>>

\* The record is done and reported, the loop goes on with the next one.
Handled(s) ==
  /\ BecomesOf(s, "handled")
  /\ next' = [next EXCEPT ![s] = @ + 1]
  /\ Goto(s, "handle")

\* What genResponse's exception leads to.
NoResponse(s) ==
  IF s \in Proxied THEN Goto(s, "proxy") /\ UNCHANGED <<next, fate>>
  ELSE Handled(s)

Matches(s) ==
  /\ thread[s] = "match"
  /\ \/ Goto(s, "answer") /\ UNCHANGED <<next, fate>>
     \/ NoResponse(s)
  /\ UNCHANGED <<server, producer, consumer, running, position, manager, died,
                 crashes>>

\* The response goes through the registry, which has to be free and lets it
\* pass to a running simulator only, and the publisher, whose send may fail;
\* genResponse's caller catches every exception.
RegistryFree == life \in {"down", "up"}
SendResponse(s) ==
  /\ thread[s] = "answer" /\ RegistryFree
  /\ \/ life = "up" /\ producer /\ Handled(s)
     \/ NoResponse(s)
  /\ UNCHANGED <<server, producer, consumer, running, position, manager, died,
                 crashes>>

\* Forwarded, or not for an IOException, which is caught; a RuntimeException,
\* thrown by the producer or because it is null, leaves onMessage and ends
\* the thread.
Forward(s) ==
  /\ thread[s] = "proxy"
  /\ \/ Handled(s) /\ UNCHANGED died
     \/ BecomesOf(s, "killed") /\ Dies(s) /\ UNCHANGED next
  /\ UNCHANGED <<server, producer, consumer, running, position, manager, crashes>>

Listener(s) ==
  \/ Poll(s) \/ EndLoop(s) \/ CommitSync(s)
  \/ OnMessage(s) \/ BatchDone(s)
  \/ Matches(s) \/ SendResponse(s) \/ Forward(s)

-----------------------------------------------------------------------------
(* The management thread, inside startSimulator or stopSimulator.          *)

\* doStart: prepare makes a new broker with new publishers and subscribers.
\* Bound: not while a stop has left old ones behind.
Start ==
  /\ life = "down" /\ cutAt = NoSub
  /\ life' = "startPub" /\ todo' = Sub
  /\ UNCHANGED <<server, producer, consumer, running, listener, current, pass, history,
                 crashes>>

\* Mutant of StopBegins: only subscribers that run are stopped.
StopBeginsRunning == life' = "stopPub" /\ todo' = running

\* KafkaBroker.stop, of a running simulator or after a failed start.  That start
\* then calls doStop once more, for what the first one has not come to.
StopBegins == life' = "stopPub" /\ todo' = Sub
Stop ==
  /\ life = "up"
  /\ StopBegins
  /\ UNCHANGED <<server, producer, consumer, running, listener, current, pass, history,
                 crashes>>

StartPublisher ==
  /\ life = "startPub"
  /\ \/ producer' = TRUE /\ life' = "startSub" /\ UNCHANGED <<todo, again>>
     \/ StopBegins /\ again' = TRUE /\ UNCHANGED producer
  /\ UNCHANGED <<server, consumer, running, listener, current, cutAt, history, crashes>>

\* Mutant of StartSubscriber: running is set too late.
StartSubscriberLate(s) ==
  /\ life = "startSub" /\ s \in todo
  /\ consumer' = consumer \cup {s}
  /\ Goto(s, "loop")
  /\ position' = [position EXCEPT ![s] = committed[s]]
  /\ next' = [next EXCEPT ![s] = committed[s] + 1]
  /\ todo' = todo \ {s}
  /\ UNCHANGED <<server, producer, running, life, current, pass, history, crashes>>

\* A new consumer takes up at the group's offset; running is set before the
\* thread starts.
StartSubscriber(s) ==
  /\ life = "startSub" /\ s \in todo
  /\ consumer' = consumer \cup {s}
  /\ running' = running \cup {s}
  /\ Goto(s, "loop")
  /\ position' = [position EXCEPT ![s] = committed[s]]
  /\ next' = [next EXCEPT ![s] = committed[s] + 1]
  /\ todo' = todo \ {s}
  /\ UNCHANGED <<server, producer, life, current, pass, history, crashes>>

\* The consumer cannot be made, or cannot subscribe.
SubscriberFails(s) ==
  /\ life = "startSub" /\ s \in todo
  /\ consumer' \in {consumer, consumer \cup {s}}
  /\ position' = [position EXCEPT ![s] = committed[s]]
  /\ next' = [next EXCEPT ![s] = committed[s] + 1]
  /\ StopBegins /\ again' = TRUE
  /\ UNCHANGED <<server, producer, running, thread, current, cutAt, history, crashes>>

Started ==
  /\ life = "startSub" /\ todo = {}
  /\ life' = "up"
  /\ UNCHANGED <<server, producer, consumer, running, listener, todo, current, pass,
                 history, crashes>>

\* First all publishers, then one subscriber after the other.
StopPublisher ==
  /\ life = "stopPub"
  /\ producer' = FALSE
  /\ life' = "stopSub"
  /\ UNCHANGED <<server, consumer, running, listener, todo, current, pass, history,
                 crashes>>

\* What an endpoint's close throws leaves the loop and broker.stop: a failed start
\* calls it a second time, for any other stop this is the end.
CutShort(endpoint) ==
  /\ current' = NoSub
  /\ \/ again /\ StopBegins /\ again' = FALSE /\ UNCHANGED cutAt
     \/ ~again /\ life' = "down" /\ cutAt' = endpoint /\ UNCHANGED <<todo, again>>

StopPublisherFails ==
  /\ life = "stopPub" /\ producer
  /\ CutShort(Publisher)
  /\ UNCHANGED <<server, producer, consumer, running, listener, history, crashes>>

\* Mutant of StopSubscriber: running stays set.
StopSubscriberOn(s) ==
  /\ life = "stopSub" /\ s \in todo
  /\ life' = "waiting" /\ current' = s /\ todo' = todo \ {s}
  /\ UNCHANGED <<server, producer, consumer, running, listener, pass, history, crashes>>

StopSubscriber(s) ==
  /\ life = "stopSub" /\ s \in todo
  /\ running' = running \ {s}
  /\ life' = "waiting" /\ current' = s /\ todo' = todo \ {s}
  /\ UNCHANGED <<server, producer, consumer, listener, pass, history, crashes>>

\* Records the group's offset has passed and nobody handled are lost.
Lose(S) == fate' = [s \in Sub |-> [r \in Record |->
             IF s \in S /\ fate[s][r] = "unread" /\ r <= committed'[s]
               THEN "lost" ELSE fate[s][r]]]

Commits(s) == autoCommit /\ s \in consumer /\ thread[s] # "none"

\* Mutant of CloseConsumer: it does not wait for the thread.
CloseConsumerAtOnce ==
  /\ life = "waiting"
  /\ consumer' = consumer \ {current}
  /\ committed' = [committed EXCEPT ![current] =
                     IF Commits(current) THEN position[current] ELSE @]
  /\ thread' = [thread EXCEPT ![current] = "none"]
  /\ Lose({current})
  /\ life' = "stopSub" /\ current' = NoSub
  /\ UNCHANGED <<autoCommit, uncommitted, producer, running, position, next, todo, pass,
                 died, crashes>>

\* The thread has ended: close the consumer, which commits with Kafka's own
\* commit enabled what it has polled, unless it was closed before.
CloseConsumer ==
  /\ life = "waiting" /\ ~Alive(current)
  /\ consumer' = consumer \ {current}
  /\ committed' = [committed EXCEPT ![current] =
                     IF Commits(current) THEN position[current] ELSE @]
  /\ thread' = [thread EXCEPT ![current] = "none"]
  /\ Lose({current})
  /\ life' = "stopSub" /\ current' = NoSub
  /\ UNCHANGED <<autoCommit, uncommitted, producer, running, position, next, todo, pass,
                 died, crashes>>

\* close throws, after it has committed or not; the consumer stays.
CloseConsumerFails ==
  /\ life = "waiting" /\ ~Alive(current) /\ current \in consumer
  /\ \/ /\ committed' = [committed EXCEPT ![current] =
                           IF Commits(current) THEN position[current] ELSE @]
        /\ UNCHANGED uncommitted
     \/ /\ Commits(current) /\ uncommitted' = uncommitted \cup {current}
        /\ UNCHANGED committed
  /\ thread' = [thread EXCEPT ![current] = "none"]
  /\ Lose({current})
  /\ CutShort(current)
  /\ UNCHANGED <<autoCommit, producer, consumer, running, position, next, died, crashes>>

\* Everything is closed; a second doStop would find nothing to do.
Stopped ==
  /\ life = "stopSub" /\ todo = {}
  /\ life' = "down" /\ again' = FALSE
  /\ UNCHANGED <<server, producer, consumer, running, listener, todo, current, cutAt,
                 history, crashes>>

ManagerStep ==
  \/ StartPublisher \/ Started \/ StopPublisher \/ CloseConsumer \/ Stopped
  \/ \E s \in Sub : StartSubscriber(s) \/ SubscriberFails(s) \/ StopSubscriber(s)

\* The process ends and is there again, with nothing started.
Crash ==
  /\ crashes < MaxCrash
  /\ crashes' = crashes + 1
  /\ producer' = FALSE /\ consumer' = {} /\ running' = {}
  /\ thread' = [s \in Sub |-> "none"]
  /\ life' = "down" /\ todo' = {} /\ current' = NoSub
  /\ again' = FALSE /\ cutAt' = NoSub
  /\ UNCHANGED committed
  /\ Lose(Sub)
  /\ UNCHANGED <<autoCommit, uncommitted, position, next, died>>

Next ==
  \/ \E s \in Sub : Listener(s) \/ PollFails(s)
  \/ Start \/ Stop \/ ManagerStep \/ StopPublisherFails \/ CloseConsumerFails
  \/ Crash

Spec == Init /\ [][Next]_vars

\* Threads go on; nobody has to publish, start, stop, fail or crash.
FairSpec ==
  /\ Spec
  /\ WF_vars(ManagerStep)
  /\ \A s \in Sub : WF_vars(Listener(s))

-----------------------------------------------------------------------------
(* Properties.                                                             *)

\* What became of a record does not change any more: it is not handled
\* again, over stops, failed starts, dead threads and, when the code commits
\* before it handles, crashes and a close that throws; with Kafka's own commit,
\* one that throws before it has committed brings handled records back
\* (KafkaSubscriber.run, start, stop).
HandledOnce ==
  [][\A s \in Sub, r \in Record :
       /\ fate[s][r] # "unread"
       /\ ~autoCommit \/ (crashes = 0 /\ s \notin uncommitted)
       => fate'[s][r] = fate[s][r]]_vars

\* A polled record gets lost only with its thread, or in a crash between the
\* commit and its turn: a stop and a failed start lose none (commitSync
\* before onMessage, KafkaSubscriber.stop's wait).
LostHasCause ==
  \A s \in Sub, r \in Record : fate[s][r] = "lost" =>
    s \in died \/ (~autoCommit /\ crashes > 0)

\* A running simulator listens to all its topics, but for threads that an
\* exception ended (KafkaSubscriber.start sets running before the thread
\* looks at it).
ListensWhileUp ==
  life = "up" => \A s \in Sub : thread[s] \notin {"none", "ended"}

\* A simulator that is not running has no thread, consumer or producer left, also
\* after a start that failed half way and one whose undoing failed the first
\* time, but for one cause: an endpoint whose close threw as the simulator was
\* stopped, or as a failed start was undone the second time.  That endpoint
\* and the subscribers the loop had not come to are all that stays
\* (KafkaBroker.start, stop; SimSimulator.start).
NothingLeftWhenDown ==
  life = "down" =>
    /\ producer => cutAt = Publisher
    /\ consumer \subseteq todo \cup {cutAt}
    /\ \A s \in Sub : Alive(s) => s \in todo
    /\ cutAt = NoSub => todo = {}

\* A stop ends, unless it waits for a handler that waits for the registry
\* the stop itself keeps locked (KafkaSubscriber.stop, getSimulator).
StopEndsOrWaits ==
  (life \in {"stopPub", "stopSub", "waiting"})
    ~> (life = "down" \/ \E s \in Sub : thread[s] = "answer")
==============================================================================
