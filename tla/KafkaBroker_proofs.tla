-------------------------- MODULE KafkaBroker_proofs --------------------------
(* The safety properties of KafkaBroker, for any set of subscribers, any    *)
(* number of records and any number of crashes.                             *)
EXTENDS KafkaBroker, TLAPS

----------------------------------------------------------------------------
(* The inductive invariant.                                                *)

\* Where a thread is in its batch; the offset never runs ahead of the poll.
Threads ==
  \A s \in Sub :
    /\ thread[s] # "none" => s \in consumer
    /\ committed[s] <= position[s]
    /\ thread[s] \in {"match", "answer", "proxy"} => next[s] <= position[s]
    /\ thread[s] \in {"commit", "handle"} => next[s] <= position[s] + 1
    /\ thread[s] \in {"loop", "ended"} => next[s] = position[s] + 1
    /\ thread[s] = "commit" => ~autoCommit
    /\ thread[s] = "dead" => s \in died
    /\ thread[s] = "ended" => s \notin running

\* What is open at each step of the management thread.
Opened ==
  /\ life = "down" =>
       /\ producer => cutAt = Publisher
       /\ consumer \subseteq todo \cup {cutAt}
       /\ \A s \in Sub : thread[s] # "none" => s \in todo
       /\ cutAt = NoSub => todo = {}
  /\ life = "startPub" => consumer = {} /\ ~producer
  /\ life \in {"stopSub", "waiting"} => ~producer
  /\ life = "startSub" => consumer \cap todo = {}
  /\ life \in {"startSub", "up"} =>
       \A s \in Sub \ todo : s \in running /\ thread[s] # "none"
  /\ life = "up" => todo = {}
  /\ life \in {"startPub", "stopPub"} => todo = Sub
  /\ life = "stopSub" => consumer \subseteq todo
  /\ life = "waiting" => current \in Sub /\ consumer \subseteq todo \cup {current}

\* Up to where records are done: whoever starts there repeats none.
Once(s) == ~autoCommit \/ (crashes = 0 /\ s \notin uncommitted)
Base(s) == IF autoCommit THEN position[s] ELSE committed[s]
RepeatsAt(s) ==
  /\ \A r \in Record : fate[s][r] # "unread" => r <= Base(s)
  /\ Alive(s) => \A r \in Record : r >= next[s] => fate[s][r] = "unread"
  /\ ~autoCommit /\ thread[s] \in {"handle", "match", "answer", "proxy"} =>
       position[s] = committed[s]
  /\ autoCommit /\ thread[s] = "none" => committed[s] = position[s]
Repeats == \A s \in Sub : Once(s) => RepeatsAt(s)

\* Up to where records are not unread: whoever starts there misses none.
MissesAt(s) ==
  /\ thread[s] = "none" => \A r \in Record : r <= committed[s] => fate[s][r] # "unread"
  /\ Alive(s) \/ thread[s] = "ended" =>
       \A r \in Record : r < next[s] => fate[s][r] # "unread"
  /\ autoCommit /\ Alive(s) => committed[s] < next[s]
Misses == \A s \in Sub : MissesAt(s)

IInv == TypeOK /\ Threads /\ Opened /\ Repeats /\ Misses /\ LostHasCause

----------------------------------------------------------------------------
(* What the handling of a record comes to, whichever action it is.         *)

HandlesRecord(s) == OnMessage(s) \/ Matches(s) \/ SendResponse(s) \/ Forward(s)

\* All that a step of the handling leaves alone.
Elsewhere(s) ==
  /\ thread[s] \in {"handle", "match", "answer", "proxy"}
  /\ next[s] \in Record /\ next[s] <= position[s]
  /\ autoCommit' = autoCommit /\ committed' = committed /\ uncommitted' = uncommitted
  /\ producer' = producer /\ consumer' = consumer /\ running' = running
  /\ position' = position /\ crashes' = crashes
  /\ life' = life /\ todo' = todo /\ current' = current
  /\ again' = again /\ cutAt' = cutAt
  /\ thread' \in [Sub -> Thread]
  /\ \A q \in Sub : q # s => thread'[q] = thread[q] /\ next'[q] = next[q] /\ fate'[q] = fate[q]

\* It goes on with the same record, ...
GoesOn(s) ==
  /\ thread'[s] \in {"match", "answer", "proxy"}
  /\ next' = next /\ fate' = fate /\ died' = died

\* ... is done with it, ...
IsDone(s) ==
  /\ thread'[s] = "handle"
  /\ next' = [next EXCEPT ![s] = next[s] + 1] /\ next'[s] = next[s] + 1
  /\ fate' \in [Sub -> [Record -> Fate]]
  /\ \A r \in Record : fate'[s][r] = IF r = next[s] THEN "handled" ELSE fate[s][r]
  /\ died' = died

\* ... or the thread dies of it.
IsKilled(s) ==
  /\ thread'[s] = "dead"
  /\ next' = next
  /\ fate' \in [Sub -> [Record -> Fate]]
  /\ \A r \in Record : fate'[s][r] = IF r = next[s] THEN "killed" ELSE fate[s][r]
  /\ died' = died \cup {s}

\* A record that becomes something else leaves all others as they are.
LEMMA Becomes ==
  ASSUME TypeOK, NEW s \in Sub, next[s] \in Record, NEW f \in Fate, BecomesOf(s, f)
  PROVE  /\ fate' \in [Sub -> [Record -> Fate]]
         /\ \A q \in Sub : q # s => fate'[q] = fate[q]
         /\ \A r \in Record : fate'[s][r] = IF r = next[s] THEN f ELSE fate[s][r]
<1>1. fate' = [fate EXCEPT ![s] = [fate[s] EXCEPT ![next[s]] = f]]
  BY DEF BecomesOf
<1>2. fate \in [Sub -> [Record -> Fate]] /\ fate[s] \in [Record -> Fate]
  BY DEF TypeOK
<1>3. [fate[s] EXCEPT ![next[s]] = f] \in [Record -> Fate]
  BY <1>2
<1>4. fate'[s] = [fate[s] EXCEPT ![next[s]] = f] /\ \A q \in Sub : q # s => fate'[q] = fate[q]
  BY <1>1, <1>2
<1>5. fate' \in [Sub -> [Record -> Fate]]
  BY <1>1, <1>2, <1>3
<1>6. \A r \in Record : fate'[s][r] = IF r = next[s] THEN f ELSE fate[s][r]
  BY <1>2, <1>4
<1>7. QED
  BY <1>4, <1>5, <1>6

\* A thread that moves leaves all others where they are.
LEMMA Moves ==
  ASSUME TypeOK, NEW s \in Sub, NEW step \in Thread, Goto(s, step)
  PROVE  /\ thread'[s] = step
         /\ thread' \in [Sub -> Thread]
         /\ \A q \in Sub : q # s => thread'[q] = thread[q]
BY DEF TypeOK, Goto

\* The three outcomes are all there are.
LEMMA RecordStep ==
  ASSUME IInv, NEW s \in Sub, HandlesRecord(s)
  PROVE  Elsewhere(s) /\ (GoesOn(s) \/ IsDone(s) \/ IsKilled(s))
<1> USE KafkaAssumption
<1>1. TypeOK /\ next[s] \in Nat /\ position[s] \in 0 .. MaxRecord
  BY DEF IInv, TypeOK
<1>2. thread[s] \in {"handle", "match", "answer", "proxy"} /\ next[s] <= position[s]
  BY DEF IInv, Threads, HandlesRecord, OnMessage, Matches, SendResponse, Forward
<1>3. next[s] \in Record
  BY <1>1, <1>2 DEF IInv, TypeOK, Record
<1>4. /\ autoCommit' = autoCommit /\ committed' = committed /\ uncommitted' = uncommitted
      /\ producer' = producer /\ consumer' = consumer /\ running' = running
      /\ position' = position /\ crashes' = crashes
      /\ life' = life /\ todo' = todo /\ current' = current
      /\ again' = again /\ cutAt' = cutAt
  BY DEF HandlesRecord, OnMessage, Matches, SendResponse, Forward, server, manager, pass
<1>5. ASSUME NEW step \in {"match", "answer", "proxy"},
             Goto(s, step), UNCHANGED <<next, fate>>, UNCHANGED died
      PROVE  Elsewhere(s) /\ GoesOn(s)
  <2>1. /\ thread'[s] = step
        /\ thread' \in [Sub -> Thread]
        /\ \A q \in Sub : q # s => thread'[q] = thread[q]
    BY <1>1, <1>5, Moves DEF Thread
  <2>2. QED
    BY <1>2, <1>3, <1>4, <1>5, <2>1 DEF Elsewhere, GoesOn
<1>6. ASSUME BecomesOf(s, "handled"), next' = [next EXCEPT ![s] = @ + 1], UNCHANGED died,
             Goto(s, "handle")
      PROVE  Elsewhere(s) /\ IsDone(s)
  <2>1. /\ thread'[s] = "handle"
        /\ thread' \in [Sub -> Thread]
        /\ \A q \in Sub : q # s => thread'[q] = thread[q]
    BY <1>1, <1>6, Moves DEF Thread
  <2>2. "handled" \in Fate
    BY DEF Fate
  <2>3. /\ fate' \in [Sub -> [Record -> Fate]]
        /\ \A q \in Sub : q # s => fate'[q] = fate[q]
        /\ \A r \in Record : fate'[s][r] = IF r = next[s] THEN "handled" ELSE fate[s][r]
    BY <1>1, <1>3, <1>6, <2>2, Becomes
  <2>4. /\ next' = [next EXCEPT ![s] = next[s] + 1] /\ next'[s] = next[s] + 1
        /\ \A q \in Sub : q # s => next'[q] = next[q]
    BY <1>1, <1>6 DEF TypeOK
  <2>5. QED
    BY <1>2, <1>3, <1>4, <1>6, <2>1, <2>3, <2>4 DEF Elsewhere, IsDone
<1>7. ASSUME BecomesOf(s, "killed"), Dies(s), UNCHANGED next
      PROVE  Elsewhere(s) /\ IsKilled(s)
  <2>1. /\ thread'[s] = "dead"
        /\ thread' \in [Sub -> Thread]
        /\ \A q \in Sub : q # s => thread'[q] = thread[q]
    BY <1>1, <1>7, Moves DEF Dies, Thread
  <2>2. "killed" \in Fate
    BY DEF Fate
  <2>3. /\ fate' \in [Sub -> [Record -> Fate]]
        /\ \A q \in Sub : q # s => fate'[q] = fate[q]
        /\ \A r \in Record : fate'[s][r] = IF r = next[s] THEN "killed" ELSE fate[s][r]
    BY <1>1, <1>3, <1>7, <2>2, Becomes
  <2>4. QED
    BY <1>2, <1>3, <1>4, <1>7, <2>1, <2>3 DEF Elsewhere, IsKilled, Dies
<1>8. CASE OnMessage(s)
  <2>1. thread[s] = "handle" /\ UNCHANGED died
    BY <1>8 DEF OnMessage
  <2>2. CASE Goto(s, "match") /\ UNCHANGED <<next, fate>>
    BY <1>5, <2>1, <2>2
  <2>3. CASE BecomesOf(s, "handled") /\ next' = [next EXCEPT ![s] = @ + 1] /\ UNCHANGED thread
    <3>1. Goto(s, "handle")
      BY <1>1, <2>1, <2>3 DEF Goto, TypeOK
    <3>2. QED
      BY <1>6, <2>1, <2>3, <3>1
  <2>4. QED
    BY <1>8, <2>2, <2>3 DEF OnMessage
<1>9. CASE Matches(s)
  BY <1>5, <1>6, <1>9 DEF Matches, NoResponse, Handled
<1>10. CASE SendResponse(s)
  BY <1>5, <1>6, <1>10 DEF SendResponse, NoResponse, Handled
<1>11. CASE Forward(s)
  BY <1>6, <1>7, <1>11 DEF Forward, Handled
<1>12. QED
  BY <1>8, <1>9, <1>10, <1>11 DEF HandlesRecord

----------------------------------------------------------------------------
(* One lemma per part: no step breaks it.                                  *)

\* Types: a thread handles no record that it has not polled.
LEMMA TypeStep == IInv /\ [Next]_vars => TypeOK'
<1> SUFFICES ASSUME IInv, [Next]_vars PROVE TypeOK'
  OBVIOUS
<1> USE KafkaAssumption DEF IInv, TypeOK, Threads, Record, Thread, Life, Fate, server, listener, manager, pass, history
<1>1. ASSUME NEW s \in Sub, Poll(s) PROVE TypeOK'
  BY <1>1 DEF Poll, Goto
<1>2. ASSUME NEW s \in Sub, EndLoop(s) PROVE TypeOK'
  BY <1>2 DEF EndLoop, Goto
<1>3. ASSUME NEW s \in Sub, CommitSync(s) PROVE TypeOK'
  BY <1>3 DEF CommitSync, Goto
<1>4. ASSUME NEW s \in Sub, HandlesRecord(s) PROVE TypeOK'
  <2>1. Elsewhere(s) /\ (GoesOn(s) \/ IsDone(s) \/ IsKilled(s))
    BY <1>4, RecordStep
  <2>2. CASE GoesOn(s)
    BY <2>1, <2>2 DEF Elsewhere, GoesOn
  <2>3. CASE IsDone(s)
    BY <2>1, <2>3 DEF Elsewhere, IsDone
  <2>4. CASE IsKilled(s)
    <3>1. died' \subseteq Sub
      BY <2>1, <2>4 DEF Elsewhere, IsKilled
    <3>2. next' = next /\ fate' \in [Sub -> [Record -> Fate]]
      BY <2>4 DEF IsKilled
    <3>3. QED
      BY <2>1, <3>1, <3>2 DEF Elsewhere
  <2>5. QED
    BY <2>1, <2>2, <2>3, <2>4
<1>5. ASSUME NEW s \in Sub, BatchDone(s) PROVE TypeOK'
  BY <1>5 DEF BatchDone, Goto
<1>6. ASSUME NEW s \in Sub, PollFails(s) PROVE TypeOK'
  BY <1>6 DEF PollFails, Dies, Goto
<1>7. ASSUME NEW s \in Sub, StartSubscriber(s) PROVE TypeOK'
  BY <1>7 DEF StartSubscriber, Goto
<1>8. ASSUME NEW s \in Sub, SubscriberFails(s) PROVE TypeOK'
  BY <1>8 DEF SubscriberFails, StopBegins
<1>9. ASSUME NEW s \in Sub, StopSubscriber(s) PROVE TypeOK'
  BY <1>9 DEF StopSubscriber
<1>10. CASE Start
  BY <1>10 DEF Start
<1>11. CASE Stop
  BY <1>11 DEF Stop, StopBegins
<1>12. CASE StartPublisher
  BY <1>12 DEF StartPublisher, StopBegins
<1>13. CASE Started
  BY <1>13 DEF Started
<1>14. CASE StopPublisher
  BY <1>14 DEF StopPublisher
<1>15. CASE CloseConsumer
  BY <1>15 DEF CloseConsumer, Commits, Lose
<1>16. CASE Stopped
  BY <1>16 DEF Stopped
<1>17. CASE Crash
  <2>1. committed' = committed /\ thread' \in [Sub -> Thread]
    BY <1>17 DEF Crash
  <2>2. \A q \in Sub, r \in Record :
           (IF q \in Sub /\ fate[q][r] = "unread" /\ r <= committed'[q]
              THEN "lost" ELSE fate[q][r]) \in Fate
    OBVIOUS
  <2>3. fate' \in [Sub -> [Record -> Fate]]
    BY <1>17, <2>2 DEF Crash, Lose
  <2>4. life' \in Life /\ todo' \subseteq Sub
        /\ current' \in Sub \cup {NoSub} /\ producer' \in BOOLEAN
        /\ consumer' \subseteq Sub /\ running' \subseteq Sub
        /\ again' \in BOOLEAN /\ cutAt' \in Sub \cup {Publisher, NoSub}
        /\ uncommitted' \subseteq Sub
    BY <1>17 DEF Crash
  <2>5. autoCommit' = autoCommit /\ position' = position /\ next' = next /\ died' = died
    BY <1>17 DEF Crash
  <2>6. crashes' \in 0 .. MaxCrash
    BY <1>17 DEF Crash
  <2>7. QED
    BY <2>1, <2>3, <2>4, <2>5, <2>6
<1>20. CASE StopPublisherFails
  BY <1>20 DEF StopPublisherFails, CutShort, StopBegins
<1>21. CASE CloseConsumerFails
  BY <1>21 DEF CloseConsumerFails, Commits, CutShort, StopBegins, Lose
<1>18. CASE UNCHANGED vars
  BY <1>18 DEF vars
<1>19. QED
  BY <1>1, <1>2, <1>3, <1>4, <1>5, <1>6, <1>7, <1>8, <1>9, <1>10, <1>11, <1>12, <1>13, <1>14, <1>15, <1>16, <1>17, <1>18, <1>20, <1>21 DEF Next, Listener, ManagerStep, HandlesRecord

\* Threads.
LEMMA ThreadsStep == IInv /\ [Next]_vars => Threads'
<1> SUFFICES ASSUME IInv, [Next]_vars PROVE Threads'
  OBVIOUS
<1> USE KafkaAssumption DEF IInv, TypeOK, Threads, Opened, server, listener, manager, pass, history
<1>1. ASSUME NEW s \in Sub, Poll(s) PROVE Threads'
  BY <1>1 DEF Poll, Goto
<1>2. ASSUME NEW s \in Sub, EndLoop(s) PROVE Threads'
  BY <1>2 DEF EndLoop, Goto
<1>3. ASSUME NEW s \in Sub, CommitSync(s) PROVE Threads'
  BY <1>3 DEF CommitSync, Goto
<1>4. ASSUME NEW s \in Sub, HandlesRecord(s) PROVE Threads'
  <2>1. Elsewhere(s) /\ (GoesOn(s) \/ IsDone(s) \/ IsKilled(s))
    BY <1>4, RecordStep
  <2>2. CASE GoesOn(s)
    BY <2>1, <2>2 DEF Elsewhere, GoesOn
  <2>3. CASE IsDone(s)
    BY <2>1, <2>3 DEF Elsewhere, IsDone
  <2>4. CASE IsKilled(s)
    BY <2>1, <2>4 DEF Elsewhere, IsKilled
  <2>5. QED
    BY <2>1, <2>2, <2>3, <2>4
<1>5. ASSUME NEW s \in Sub, BatchDone(s) PROVE Threads'
  <2>1. next[s] = position[s] + 1
    <3>1. next[s] \in Nat /\ position[s] \in Nat
      BY <1>5
    <3>2. next[s] > position[s] /\ next[s] <= position[s] + 1
      BY <1>5 DEF BatchDone
    <3>3. QED
      BY <3>1, <3>2
  <2>2. QED
    BY <1>5, <2>1 DEF BatchDone, Goto
<1>6. ASSUME NEW s \in Sub, PollFails(s) PROVE Threads'
  BY <1>6 DEF PollFails, Dies, Goto
<1>7. ASSUME NEW s \in Sub, StartSubscriber(s) PROVE Threads'
  BY <1>7 DEF StartSubscriber, Goto
<1>8. ASSUME NEW s \in Sub, SubscriberFails(s) PROVE Threads'
  BY <1>8 DEF SubscriberFails, StopBegins
<1>9. ASSUME NEW s \in Sub, StopSubscriber(s) PROVE Threads'
  BY <1>9 DEF StopSubscriber
<1>10. CASE Start
  BY <1>10 DEF Start
<1>11. CASE Stop
  BY <1>11 DEF Stop, StopBegins
<1>12. CASE StartPublisher
  BY <1>12 DEF StartPublisher, StopBegins
<1>13. CASE Started
  BY <1>13 DEF Started
<1>14. CASE StopPublisher
  BY <1>14 DEF StopPublisher
<1>15. CASE CloseConsumer
  BY <1>15 DEF CloseConsumer, Commits, Lose
<1>16. CASE Stopped
  BY <1>16 DEF Stopped
<1>17. CASE Crash
  BY <1>17 DEF Crash, Lose
<1>20. CASE StopPublisherFails
  BY <1>20 DEF StopPublisherFails, CutShort, StopBegins
<1>21. CASE CloseConsumerFails
  BY <1>21 DEF CloseConsumerFails, Commits, CutShort, StopBegins, Lose
<1>18. CASE UNCHANGED vars
  BY <1>18 DEF vars
<1>19. QED
  BY <1>1, <1>2, <1>3, <1>4, <1>5, <1>6, <1>7, <1>8, <1>9, <1>10, <1>11, <1>12, <1>13, <1>14, <1>15, <1>16, <1>17, <1>18, <1>20, <1>21 DEF Next, Listener, ManagerStep, HandlesRecord

\* What is open.
LEMMA OpenedStep == IInv /\ [Next]_vars => Opened'
<1> SUFFICES ASSUME IInv, [Next]_vars PROVE Opened'
  OBVIOUS
<1> USE KafkaAssumption DEF IInv, TypeOK, Threads, Opened, server, listener, manager, pass, history
<1>1. ASSUME NEW s \in Sub, Poll(s) PROVE Opened'
  BY <1>1 DEF Poll, Goto
<1>2. ASSUME NEW s \in Sub, EndLoop(s) PROVE Opened'
  BY <1>2 DEF EndLoop, Goto
<1>3. ASSUME NEW s \in Sub, CommitSync(s) PROVE Opened'
  BY <1>3 DEF CommitSync, Goto
<1>4. ASSUME NEW s \in Sub, HandlesRecord(s) PROVE Opened'
  <2>1. Elsewhere(s) /\ (GoesOn(s) \/ IsDone(s) \/ IsKilled(s))
    BY <1>4, RecordStep
  <2>2. CASE GoesOn(s)
    BY <2>1, <2>2 DEF Elsewhere, GoesOn
  <2>3. CASE IsDone(s)
    <3>1. /\ UNCHANGED <<life, todo, current, cutAt, consumer, producer, running>>
          /\ \A q \in Sub : thread'[q] = "none" <=> thread[q] = "none"
      BY <2>1, <2>3 DEF Elsewhere, IsDone
    <3>2. QED
      BY <3>1
  <2>4. CASE IsKilled(s)
    BY <2>1, <2>4 DEF Elsewhere, IsKilled
  <2>5. QED
    BY <2>1, <2>2, <2>3, <2>4
<1>5. ASSUME NEW s \in Sub, BatchDone(s) PROVE Opened'
  BY <1>5 DEF BatchDone, Goto
<1>6. ASSUME NEW s \in Sub, PollFails(s) PROVE Opened'
  BY <1>6 DEF PollFails, Dies, Goto
<1>7. ASSUME NEW s \in Sub, StartSubscriber(s) PROVE Opened'
  BY <1>7 DEF StartSubscriber, Goto
<1>8. ASSUME NEW s \in Sub, SubscriberFails(s) PROVE Opened'
  BY <1>8 DEF SubscriberFails, StopBegins
<1>9. ASSUME NEW s \in Sub, StopSubscriber(s) PROVE Opened'
  BY <1>9 DEF StopSubscriber
<1>10. CASE Start
  <2>0. life = "down" /\ cutAt = NoSub
    BY <1>10 DEF Start
  <2>1. todo = {} /\ consumer \subseteq todo \cup {cutAt} /\ (producer => cutAt = Publisher)
    BY <2>0
  <2>2. consumer = {} /\ (producer => FALSE)
    BY <2>0, <2>1
  <2>3. life' = "startPub" /\ todo' = Sub /\ UNCHANGED <<consumer, producer>>
    BY <1>10 DEF Start
  <2>4. QED
    BY <2>2, <2>3
<1>11. CASE Stop
  BY <1>11 DEF Stop, StopBegins
<1>12. CASE StartPublisher
  <2>1. consumer = {} /\ life = "startPub" /\ UNCHANGED <<consumer, running, thread>>
    BY <1>12 DEF StartPublisher
  <2>2. todo = Sub
    BY <2>1
  <2>3. CASE life' = "startSub" /\ UNCHANGED todo
    BY <1>12, <2>1, <2>2, <2>3 DEF StartPublisher
  <2>4. CASE life' = "stopPub" /\ todo' = Sub
    BY <1>12, <2>1, <2>4 DEF StartPublisher
  <2>5. QED
    BY <1>12, <2>3, <2>4 DEF StartPublisher, StopBegins
<1>13. CASE Started
  BY <1>13 DEF Started
<1>14. CASE StopPublisher
  BY <1>14 DEF StopPublisher
<1>15. CASE CloseConsumer
  BY <1>15 DEF CloseConsumer, Commits, Lose
<1>16. CASE Stopped
  BY <1>16 DEF Stopped
<1>17. CASE Crash
  BY <1>17 DEF Crash, Lose
<1>20. CASE StopPublisherFails
  BY <1>20 DEF StopPublisherFails, CutShort, StopBegins
<1>21. CASE CloseConsumerFails
  BY <1>21 DEF CloseConsumerFails, Commits, CutShort, StopBegins, Lose
<1>18. CASE UNCHANGED vars
  BY <1>18 DEF vars
<1>19. QED
  BY <1>1, <1>2, <1>3, <1>4, <1>5, <1>6, <1>7, <1>8, <1>9, <1>10, <1>11, <1>12, <1>13, <1>14, <1>15, <1>16, <1>17, <1>18, <1>20, <1>21 DEF Next, Listener, ManagerStep, HandlesRecord

\* No record is met again.
LEMMA RepeatsStep == IInv /\ [Next]_vars => Repeats'
<1> SUFFICES ASSUME IInv, [Next]_vars PROVE Repeats'
  OBVIOUS
<1> USE KafkaAssumption DEF IInv, TypeOK, Threads, Opened, Repeats, RepeatsAt, Once, Base, Alive, Record, server, listener, manager, pass, history
<1>1. ASSUME NEW s \in Sub, Poll(s) PROVE Repeats'
  BY <1>1 DEF Poll, Goto
<1>2. ASSUME NEW s \in Sub, EndLoop(s) PROVE Repeats'
  BY <1>2 DEF EndLoop, Goto
<1>3. ASSUME NEW s \in Sub, CommitSync(s) PROVE Repeats'
  BY <1>3 DEF CommitSync, Goto
<1>4. ASSUME NEW s \in Sub, HandlesRecord(s) PROVE Repeats'
  <2>1. Elsewhere(s) /\ (GoesOn(s) \/ IsDone(s) \/ IsKilled(s))
    BY <1>4, RecordStep
  <2>2. CASE GoesOn(s)
    BY <2>1, <2>2 DEF Elsewhere, GoesOn
  <2>3. CASE IsDone(s)
    <3>1. SUFFICES ASSUME NEW q \in Sub, Once(q)' PROVE RepeatsAt(q)'
      OBVIOUS
    <3>2. RepeatsAt(q) /\ (q = s => RepeatsAt(s))
      BY <2>1, <3>1 DEF Elsewhere
    <3>3. CASE q # s
      BY <2>1, <2>3, <3>2, <3>3 DEF Elsewhere, IsDone
    <3>4. CASE q = s
      <4>1. \A r \in Record : fate'[s][r] # "unread" => r <= Base(s)'
        <5>1. Base(s)' = Base(s) /\ next[s] <= Base(s)
          BY <2>1, <3>2, <3>4 DEF Elsewhere
        <5>2. \A r \in Record : fate[s][r] # "unread" => r <= Base(s)
          BY <3>2, <3>4
        <5>3. \A r \in Record : r # next[s] => fate'[s][r] = fate[s][r]
          BY <2>3 DEF IsDone
        <5>4. ASSUME NEW r \in Record, fate'[s][r] # "unread" PROVE r <= Base(s)
          <6>1. CASE r = next[s]
            BY <5>1, <6>1
          <6>2. CASE r # next[s]
            BY <5>2, <5>3, <5>4, <6>2
          <6>3. QED
            BY <6>1, <6>2
        <5>5. QED
          BY <5>1, <5>4
      <4>2. Alive(s)' => \A r \in Record : r >= next'[s] => fate'[s][r] = "unread"
        <5>1. \A r \in Record : r >= next[s] => fate[s][r] = "unread"
          BY <2>1, <3>2, <3>4 DEF Elsewhere
        <5>2. next'[s] = next[s] + 1 /\ next[s] \in Nat
          BY <2>3 DEF IsDone
        <5>3. \A r \in Record : r # next[s] => fate'[s][r] = fate[s][r]
          BY <2>3 DEF IsDone
        <5>4. ASSUME NEW r \in Record, r >= next'[s] PROVE fate'[s][r] = "unread"
          <6>1. r >= next[s] /\ r # next[s]
            BY <5>2, <5>4
          <6>2. QED
            BY <5>1, <5>3, <6>1
        <5>5. QED
          BY <5>4
      <4>3. /\ ~autoCommit' /\ thread'[s] \in {"handle", "match", "answer", "proxy"} =>
                 position'[s] = committed'[s]
            /\ autoCommit' /\ thread'[s] = "none" => committed'[s] = position'[s]
        BY <2>1, <2>3, <3>2, <3>4 DEF Elsewhere, IsDone
      <4>4. QED
        BY <3>4, <4>1, <4>2, <4>3
    <3>5. QED
      BY <3>3, <3>4
  <2>4. CASE IsKilled(s)
    <3>1. SUFFICES ASSUME NEW q \in Sub, Once(q)' PROVE RepeatsAt(q)'
      OBVIOUS
    <3>2. RepeatsAt(q) /\ (q = s => RepeatsAt(s))
      BY <2>1, <3>1 DEF Elsewhere
    <3>3. CASE q # s
      BY <2>1, <2>4, <3>2, <3>3 DEF Elsewhere, IsKilled
    <3>4. CASE q = s
      <4>1. \A r \in Record : fate'[s][r] # "unread" => r <= Base(s)'
        <5>1. Base(s)' = Base(s) /\ next[s] <= Base(s)
          BY <2>1, <3>2, <3>4 DEF Elsewhere
        <5>2. \A r \in Record : fate[s][r] # "unread" => r <= Base(s)
          BY <3>2, <3>4
        <5>3. \A r \in Record : r # next[s] => fate'[s][r] = fate[s][r]
          BY <2>4 DEF IsKilled
        <5>4. ASSUME NEW r \in Record, fate'[s][r] # "unread" PROVE r <= Base(s)
          <6>1. CASE r = next[s]
            BY <5>1, <6>1
          <6>2. CASE r # next[s]
            BY <5>2, <5>3, <5>4, <6>2
          <6>3. QED
            BY <6>1, <6>2
        <5>5. QED
          BY <5>1, <5>4
      <4>2. Alive(s)' => \A r \in Record : r >= next'[s] => fate'[s][r] = "unread"
        <5>1. \A r \in Record : r >= next[s] => fate[s][r] = "unread"
          BY <2>1, <3>2, <3>4 DEF Elsewhere
        <5>2. QED
          BY <2>1, <2>4, <5>1 DEF Elsewhere, IsKilled
      <4>3. /\ ~autoCommit' /\ thread'[s] \in {"handle", "match", "answer", "proxy"} =>
                 position'[s] = committed'[s]
            /\ autoCommit' /\ thread'[s] = "none" => committed'[s] = position'[s]
        BY <2>1, <2>4, <3>2, <3>4 DEF Elsewhere, IsKilled
      <4>4. QED
        BY <3>4, <4>1, <4>2, <4>3
    <3>5. QED
      BY <3>3, <3>4
  <2>5. QED
    BY <2>1, <2>2, <2>3, <2>4
<1>5. ASSUME NEW s \in Sub, BatchDone(s) PROVE Repeats'
  BY <1>5 DEF BatchDone, Goto
<1>6. ASSUME NEW s \in Sub, PollFails(s) PROVE Repeats'
  BY <1>6 DEF PollFails, Dies, Goto
<1>7. ASSUME NEW s \in Sub, StartSubscriber(s) PROVE Repeats'
  BY <1>7 DEF StartSubscriber, Goto
<1>8. ASSUME NEW s \in Sub, SubscriberFails(s) PROVE Repeats'
  BY <1>8 DEF SubscriberFails, StopBegins
<1>9. ASSUME NEW s \in Sub, StopSubscriber(s) PROVE Repeats'
  BY <1>9 DEF StopSubscriber
<1>10. CASE Start
  BY <1>10 DEF Start
<1>11. CASE Stop
  BY <1>11 DEF Stop, StopBegins
<1>12. CASE StartPublisher
  BY <1>12 DEF StartPublisher, StopBegins
<1>13. CASE Started
  BY <1>13 DEF Started
<1>14. CASE StopPublisher
  BY <1>14 DEF StopPublisher
<1>15. CASE CloseConsumer
  BY <1>15 DEF CloseConsumer, Commits, Lose
<1>16. CASE Stopped
  BY <1>16 DEF Stopped
<1>17. CASE Crash
  BY <1>17 DEF Crash, Lose
<1>20. CASE StopPublisherFails
  BY <1>20 DEF StopPublisherFails, CutShort, StopBegins
<1>21. CASE CloseConsumerFails
  BY <1>21 DEF CloseConsumerFails, Commits, CutShort, StopBegins, Lose
<1>18. CASE UNCHANGED vars
  BY <1>18 DEF vars
<1>19. QED
  BY <1>1, <1>2, <1>3, <1>4, <1>5, <1>6, <1>7, <1>8, <1>9, <1>10, <1>11, <1>12, <1>13, <1>14, <1>15, <1>16, <1>17, <1>18, <1>20, <1>21 DEF Next, Listener, ManagerStep, HandlesRecord

\* No record is passed over.
LEMMA MissesStep == IInv /\ [Next]_vars => Misses'
<1> SUFFICES ASSUME IInv, [Next]_vars PROVE Misses'
  OBVIOUS
<1> USE KafkaAssumption DEF IInv, TypeOK, Threads, Opened, Misses, MissesAt, Alive, Record, server, listener, manager, pass, history
<1>1. ASSUME NEW s \in Sub, Poll(s) PROVE Misses'
  BY <1>1 DEF Poll, Goto
<1>2. ASSUME NEW s \in Sub, EndLoop(s) PROVE Misses'
  BY <1>2 DEF EndLoop, Goto
<1>3. ASSUME NEW s \in Sub, CommitSync(s) PROVE Misses'
  BY <1>3 DEF CommitSync, Goto
<1>4. ASSUME NEW s \in Sub, HandlesRecord(s) PROVE Misses'
  <2>1. Elsewhere(s) /\ (GoesOn(s) \/ IsDone(s) \/ IsKilled(s))
    BY <1>4, RecordStep
  <2>2. CASE GoesOn(s)
    <3>1. SUFFICES ASSUME NEW q \in Sub PROVE MissesAt(q)'
      OBVIOUS
    <3>2. MissesAt(q) /\ MissesAt(s)
      OBVIOUS
    <3>3. CASE q # s
      BY <2>1, <2>2, <3>2, <3>3 DEF Elsewhere, GoesOn
    <3>4. CASE q = s
      BY <2>1, <2>2, <3>2, <3>4 DEF Elsewhere, GoesOn
    <3>5. QED
      BY <3>3, <3>4
  <2>3. CASE IsDone(s)
    <3>1. SUFFICES ASSUME NEW q \in Sub PROVE MissesAt(q)'
      OBVIOUS
    <3>2. MissesAt(q) /\ MissesAt(s)
      OBVIOUS
    <3>3. CASE q # s
      BY <2>1, <2>3, <3>2, <3>3 DEF Elsewhere, IsDone
    <3>4. CASE q = s
      <4>1. /\ next[s] \in Nat /\ next'[s] = next[s] + 1 /\ thread'[s] = "handle"
            /\ committed'[s] = committed[s] /\ autoCommit' = autoCommit
            /\ \A r \in Record : fate'[s][r] = IF r = next[s] THEN "handled" ELSE fate[s][r]
        BY <2>1, <2>3 DEF Elsewhere, IsDone
      <4>2. \A r \in Record : r < next[s] => fate[s][r] # "unread"
        BY <2>1, <3>2 DEF Elsewhere
      <4>3. ASSUME NEW r \in Record, r < next'[s] PROVE fate'[s][r] # "unread"
        <5>1. CASE r = next[s]
          BY <4>1, <5>1
        <5>2. CASE r # next[s]
          <6>1. r < next[s]
            BY <4>1, <4>3, <5>2
          <6>2. QED
            BY <4>1, <4>2, <5>2, <6>1
        <5>3. QED
          BY <5>1, <5>2
      <4>4. autoCommit => committed[s] < next[s]
        BY <2>1, <3>2 DEF Elsewhere
      <4>5. QED
        BY <3>4, <4>1, <4>3, <4>4
    <3>5. QED
      BY <3>3, <3>4
  <2>4. CASE IsKilled(s)
    <3>1. SUFFICES ASSUME NEW q \in Sub PROVE MissesAt(q)'
      OBVIOUS
    <3>2. MissesAt(q) /\ MissesAt(s)
      OBVIOUS
    <3>3. CASE q # s
      BY <2>1, <2>4, <3>2, <3>3 DEF Elsewhere, IsKilled
    <3>4. CASE q = s
      BY <2>1, <2>4, <3>2, <3>4 DEF Elsewhere, IsKilled
    <3>5. QED
      BY <3>3, <3>4
  <2>5. QED
    BY <2>1, <2>2, <2>3, <2>4
<1>5. ASSUME NEW s \in Sub, BatchDone(s) PROVE Misses'
  BY <1>5 DEF BatchDone, Goto
<1>6. ASSUME NEW s \in Sub, PollFails(s) PROVE Misses'
  BY <1>6 DEF PollFails, Dies, Goto
<1>7. ASSUME NEW s \in Sub, StartSubscriber(s) PROVE Misses'
  BY <1>7 DEF StartSubscriber, Goto
<1>8. ASSUME NEW s \in Sub, SubscriberFails(s) PROVE Misses'
  BY <1>8 DEF SubscriberFails, StopBegins
<1>9. ASSUME NEW s \in Sub, StopSubscriber(s) PROVE Misses'
  BY <1>9 DEF StopSubscriber
<1>10. CASE Start
  BY <1>10 DEF Start
<1>11. CASE Stop
  BY <1>11 DEF Stop, StopBegins
<1>12. CASE StartPublisher
  BY <1>12 DEF StartPublisher, StopBegins
<1>13. CASE Started
  BY <1>13 DEF Started
<1>14. CASE StopPublisher
  BY <1>14 DEF StopPublisher
<1>15. CASE CloseConsumer
  BY <1>15 DEF CloseConsumer, Commits, Lose
<1>16. CASE Stopped
  BY <1>16 DEF Stopped
<1>17. CASE Crash
  BY <1>17 DEF Crash, Lose
<1>20. CASE StopPublisherFails
  BY <1>20 DEF StopPublisherFails, CutShort, StopBegins
<1>21. CASE CloseConsumerFails
  BY <1>21 DEF CloseConsumerFails, Commits, CutShort, StopBegins, Lose
<1>18. CASE UNCHANGED vars
  BY <1>18 DEF vars
<1>19. QED
  BY <1>1, <1>2, <1>3, <1>4, <1>5, <1>6, <1>7, <1>8, <1>9, <1>10, <1>11, <1>12, <1>13, <1>14, <1>15, <1>16, <1>17, <1>18, <1>20, <1>21 DEF Next, Listener, ManagerStep, HandlesRecord

\* Nothing is lost without a cause.
LEMMA LostStep == IInv /\ [Next]_vars => LostHasCause'
<1> SUFFICES ASSUME IInv, [Next]_vars PROVE LostHasCause'
  OBVIOUS
<1> USE KafkaAssumption DEF IInv, TypeOK, Threads, Opened, Misses, MissesAt, LostHasCause, Alive, Record, server, listener, manager, pass, history
<1>1. ASSUME NEW s \in Sub, Poll(s) PROVE LostHasCause'
  BY <1>1 DEF Poll, Goto
<1>2. ASSUME NEW s \in Sub, EndLoop(s) PROVE LostHasCause'
  BY <1>2 DEF EndLoop, Goto
<1>3. ASSUME NEW s \in Sub, CommitSync(s) PROVE LostHasCause'
  BY <1>3 DEF CommitSync, Goto
<1>4. ASSUME NEW s \in Sub, HandlesRecord(s) PROVE LostHasCause'
  <2>1. Elsewhere(s) /\ (GoesOn(s) \/ IsDone(s) \/ IsKilled(s))
    BY <1>4, RecordStep
  <2>2. CASE GoesOn(s)
    BY <2>1, <2>2 DEF Elsewhere, GoesOn
  <2>3. CASE IsDone(s)
    <3>1. SUFFICES ASSUME NEW q \in Sub, NEW r \in Record, fate'[q][r] = "lost"
                   PROVE  q \in died' \/ (~autoCommit' /\ crashes' > 0)
      OBVIOUS
    <3>2. fate[q][r] = "lost"
      <4>1. CASE q # s
        BY <2>1, <3>1, <4>1 DEF Elsewhere
      <4>2. CASE q = s
        <5>1. fate'[s][r] = IF r = next[s] THEN "handled" ELSE fate[s][r]
          BY <2>3 DEF IsDone
        <5>2. QED
          BY <3>1, <4>2, <5>1
      <4>3. QED
        BY <4>1, <4>2
    <3>3. QED
      BY <2>1, <2>3, <3>2 DEF Elsewhere, IsDone
  <2>4. CASE IsKilled(s)
    BY <2>1, <2>4 DEF Elsewhere, IsKilled
  <2>5. QED
    BY <2>1, <2>2, <2>3, <2>4
<1>5. ASSUME NEW s \in Sub, BatchDone(s) PROVE LostHasCause'
  BY <1>5 DEF BatchDone, Goto
<1>6. ASSUME NEW s \in Sub, PollFails(s) PROVE LostHasCause'
  BY <1>6 DEF PollFails, Dies, Goto
<1>7. ASSUME NEW s \in Sub, StartSubscriber(s) PROVE LostHasCause'
  BY <1>7 DEF StartSubscriber, Goto
<1>8. ASSUME NEW s \in Sub, SubscriberFails(s) PROVE LostHasCause'
  BY <1>8 DEF SubscriberFails, StopBegins
<1>9. ASSUME NEW s \in Sub, StopSubscriber(s) PROVE LostHasCause'
  BY <1>9 DEF StopSubscriber
<1>10. CASE Start
  BY <1>10 DEF Start
<1>11. CASE Stop
  BY <1>11 DEF Stop, StopBegins
<1>12. CASE StartPublisher
  BY <1>12 DEF StartPublisher, StopBegins
<1>13. CASE Started
  BY <1>13 DEF Started
<1>14. CASE StopPublisher
  BY <1>14 DEF StopPublisher
<1>15. CASE CloseConsumer
  <2>1. SUFFICES ASSUME NEW q \in Sub, NEW r \in Record, fate'[q][r] = "lost",
                        fate[q][r] # "lost"
                 PROVE  q \in died'
    BY <1>15 DEF CloseConsumer
  <2>2. q = current /\ fate[q][r] = "unread" /\ r <= committed'[q]
    BY <1>15, <2>1 DEF CloseConsumer, Commits, Lose
  <2>3. committed'[q] = IF Commits(q) THEN position[q] ELSE committed[q]
    BY <1>15, <2>2 DEF CloseConsumer
  <2>4. thread[q] \in {"none", "ended", "dead"} /\ died' = died
    BY <1>15, <2>2 DEF CloseConsumer
  <2>5. CASE thread[q] = "none"
    BY <2>2, <2>3, <2>5 DEF Commits
  <2>6. CASE thread[q] = "ended"
    BY <2>2, <2>3, <2>6 DEF Commits
  <2>7. QED
    BY <2>4, <2>5, <2>6
<1>16. CASE Stopped
  BY <1>16 DEF Stopped
<1>17. CASE Crash
  <2>1. SUFFICES ASSUME NEW q \in Sub, NEW r \in Record, fate'[q][r] = "lost"
                 PROVE  q \in died' \/ (~autoCommit' /\ crashes' > 0)
    OBVIOUS
  <2>2. fate[q][r] = "lost" \/ (fate[q][r] = "unread" /\ r <= committed[q])
    BY <1>17, <2>1 DEF Crash, Lose
  <2>3. died' = died /\ autoCommit' = autoCommit /\ crashes' > 0
    BY <1>17 DEF Crash
  <2>4. CASE autoCommit /\ fate[q][r] # "lost"
    <3>1. thread[q] \in Thread /\ MissesAt(q)
      OBVIOUS
    <3>2. ~Alive(q)
      BY <2>2, <2>4, <3>1
    <3>3. thread[q] # "none"
      BY <2>2, <2>4, <3>1
    <3>4. ASSUME thread[q] = "ended" PROVE FALSE
      <4>1. next[q] = position[q] + 1 /\ committed[q] <= position[q]
        BY <3>4
      <4>2. r < next[q]
        BY <2>2, <2>4, <4>1
      <4>3. QED
        BY <2>2, <2>4, <3>1, <3>4, <4>2
    <3>5. QED
      BY <2>3, <3>1, <3>2, <3>3, <3>4
  <2>5. CASE fate[q][r] = "lost"
    BY <2>3, <2>5
  <2>6. QED
    BY <2>3, <2>4, <2>5
<1>20. CASE StopPublisherFails
  BY <1>20 DEF StopPublisherFails, CutShort, StopBegins
<1>21. CASE CloseConsumerFails
  BY <1>21 DEF CloseConsumerFails, Commits, CutShort, StopBegins, Lose
<1>18. CASE UNCHANGED vars
  BY <1>18 DEF vars
<1>19. QED
  BY <1>1, <1>2, <1>3, <1>4, <1>5, <1>6, <1>7, <1>8, <1>9, <1>10, <1>11, <1>12, <1>13, <1>14, <1>15, <1>16, <1>17, <1>18, <1>20, <1>21 DEF Next, Listener, ManagerStep, HandlesRecord

----------------------------------------------------------------------------
(* The theorems.                                                           *)

LEMMA Initially == Init => IInv
<1> SUFFICES ASSUME Init PROVE IInv
  OBVIOUS
<1> USE KafkaAssumption DEF Init
<1>1. TypeOK
  <2>1. /\ fate \in [Sub -> [Record -> Fate]] /\ thread \in [Sub -> Thread]
        /\ committed \in [Sub -> 0 .. MaxRecord] /\ position \in [Sub -> 0 .. MaxRecord]
        /\ next \in [Sub -> 1 .. MaxRecord + 1]
    BY DEF Fate, Thread
  <2>2. life \in Life /\ current \in Sub \cup {NoSub} /\ crashes \in 0 .. MaxCrash
    BY DEF Life
  <2>3. /\ autoCommit \in BOOLEAN /\ producer \in BOOLEAN
        /\ consumer \subseteq Sub /\ running \subseteq Sub
        /\ todo \subseteq Sub /\ died \subseteq Sub
    OBVIOUS
  <2>4. QED
    BY <2>1, <2>2, <2>3 DEF TypeOK
<1>2. Threads /\ Opened
  BY DEF Threads, Opened
<1>3. Repeats
  BY DEF Repeats, RepeatsAt, Alive, Record
<1>4. Misses
  BY DEF Misses, MissesAt, Alive, Record
<1>5. LostHasCause
  BY DEF LostHasCause
<1>6. QED
  BY <1>1, <1>2, <1>3, <1>4, <1>5 DEF IInv

LEMMA Invariance == Spec => []IInv
<1>1. IInv /\ [Next]_vars => IInv'
  BY TypeStep, ThreadsStep, OpenedStep, RepeatsStep, MissesStep, LostStep DEF IInv
<1>2. QED
  BY Initially, <1>1, PTL DEF Spec

\* Positions, offsets and batches stay within the records of a topic: no
\* thread handles a record that was not polled (KafkaSubscriber.run).
THEOREM TypeCorrect == Spec => []TypeOK
BY Invariance, PTL DEF IInv

\* A record that got lost had its thread killed by an exception, or the
\* process crashed between the commit and its turn; stops and failed starts
\* lose none (KafkaSubscriber.run, stop).
THEOREM LossesHaveCauses == Spec => []LostHasCause
BY Invariance, PTL DEF IInv

\* A running simulator has a listener thread on every topic, or had one that
\* died of an exception (KafkaSubscriber.start).
THEOREM EveryTopicIsListenedTo == Spec => []ListensWhileUp
<1>1. IInv => ListensWhileUp
  BY DEF IInv, Threads, Opened, ListensWhileUp
<1>2. QED
  BY <1>1, Invariance, PTL

\* A stop and a failed start leave no thread, consumer or producer behind, unless
\* a close throws, which leaves that endpoint and those the loop had not come
\* to (KafkaBroker.stop, KafkaPublisher.stop, KafkaSubscriber.stop).
THEOREM NothingStaysOpen == Spec => []NothingLeftWhenDown
<1>1. IInv => NothingLeftWhenDown
  <2> SUFFICES ASSUME IInv, life = "down"
               PROVE  /\ producer => cutAt = Publisher
                      /\ consumer \subseteq todo \cup {cutAt}
                      /\ \A s \in Sub : Alive(s) => s \in todo
                      /\ cutAt = NoSub => todo = {}
    BY DEF NothingLeftWhenDown
  <2>1. /\ producer => cutAt = Publisher
        /\ consumer \subseteq todo \cup {cutAt}
        /\ \A s \in Sub : thread[s] # "none" => s \in todo
        /\ cutAt = NoSub => todo = {}
    BY DEF IInv, Opened
  <2>2. \A s \in Sub : Alive(s) => thread[s] # "none"
    BY DEF Alive
  <2>3. QED
    BY <2>1, <2>2
<1>2. QED
  BY <1>1, Invariance, PTL

\* No record is handled twice or changes its outcome, however often the
\* simulator is stopped, started or its start fails, as long as the code
\* commits itself, or the process does not crash and no close throws before
\* it has committed (KafkaSubscriber.run, stop).
THEOREM RecordsHandledOnce == Spec => HandledOnce
<1> DEFINE Keeps ==
      \A s \in Sub, r \in Record :
        /\ fate[s][r] # "unread"
        /\ ~autoCommit \/ (crashes = 0 /\ s \notin uncommitted)
        => fate'[s][r] = fate[s][r]
<1>1. ASSUME IInv, [Next]_vars PROVE Keeps
  <2>1. SUFFICES ASSUME NEW q \in Sub, NEW r \in Record, fate[q][r] # "unread", Once(q)
                 PROVE  fate'[q][r] = fate[q][r]
    BY DEF Once
  <2>2. ASSUME NEW s \in Sub, HandlesRecord(s) PROVE fate'[q][r] = fate[q][r]
    <3>1. Elsewhere(s) /\ (GoesOn(s) \/ IsDone(s) \/ IsKilled(s))
      BY <1>1, <2>2, RecordStep
    <3>2. CASE q # s \/ GoesOn(s)
      BY <3>1, <3>2 DEF Elsewhere, GoesOn
    <3>3. CASE q = s /\ (IsDone(s) \/ IsKilled(s))
      <4>1. RepeatsAt(s) /\ thread[s] \in Thread
        BY <1>1, <2>1, <3>3 DEF IInv, Repeats, TypeOK
      <4>2. Alive(s)
        BY <3>1 DEF Elsewhere, Alive
      <4>3. r # next[s]
        BY <1>1, <2>1, <3>1, <3>3, <4>1, <4>2 DEF Elsewhere, RepeatsAt, Record, IInv, TypeOK
      <4>4. QED
        BY <3>3, <4>3 DEF IsDone, IsKilled
    <3>4. QED
      BY <3>1, <3>2, <3>3
  <2>3. CASE CloseConsumer \/ CloseConsumerFails \/ Crash
    BY <2>1, <2>3 DEF CloseConsumer, CloseConsumerFails, Crash, Lose
  <2>4. ASSUME NEW s \in Sub,
               Poll(s) \/ EndLoop(s) \/ CommitSync(s) \/ BatchDone(s) \/ PollFails(s)
                 \/ StartSubscriber(s) \/ SubscriberFails(s) \/ StopSubscriber(s)
        PROVE  fate'[q][r] = fate[q][r]
    BY <2>4 DEF Poll, EndLoop, CommitSync, BatchDone, PollFails, StartSubscriber,
                SubscriberFails, StopSubscriber, history
  <2>5. CASE \/ Start \/ Stop \/ StartPublisher \/ Started
             \/ StopPublisher \/ StopPublisherFails \/ Stopped
    BY <2>5 DEF Start, Stop, StartPublisher, Started, StopPublisher, StopPublisherFails, Stopped,
                history
  <2>6. CASE UNCHANGED vars
    BY <2>6 DEF vars, history
  <2>7. QED
    BY <1>1, <2>2, <2>3, <2>4, <2>5, <2>6 DEF Next, Listener, ManagerStep, HandlesRecord
<1>2. IInv /\ [Next]_vars => [Keeps]_vars
  BY <1>1
<1>3. Spec => [][Keeps]_vars
  BY <1>2, Invariance, PTL DEF Spec
<1>4. QED
  BY <1>3 DEF HandledOnce
=============================================================================
