# SmartSimulator in TLA+

A verification project for SmartSimulator (`src/`): TLA+ models of its parts,
TLC runs on small instances, and theorems checked by TLAPS.  Paths below are
relative to `src/src/main/java/io/github/lujian213/simulator/` (the "simulator
package") unless they start with `README.md`, the program's own manual.

To repeat everything:

    tlc -config Registry.cfg MCSimulatorRepository.tla          # one run
    tlapm RequestDispatch_proofs.tla                            # one module's proofs

`PROJECT.json` lists the runs, the mutants that show each property can fail, the
map from definitions to source lines, the hazards and the theorems.

## 1. The system

SmartSimulator answers requests in place of servers that are not there.  A tree
of script folders describes the simulators; each leaf folder becomes one
simulator object, which listens with its own transport and answers each message
with the responses of the first rule that matches.

| component | state it keeps | operations | what makes it correct |
|---|---|---|---|
| Registry (`SimulatorRepository`, `SimSimulator`, `SimClassLoader`, `SimulatorService`, `manager/SimulatorManager`) | `simulatorMap` under its own monitor; `running` of each object; open class loaders | start, stop, refresh, restart, lookup | one running object per name, the registered one; a restart is fresh and gets an open class loader of its own; a refresh loses nothing good |
| Beans and answers (`BeanRepository`, `ResponseHandler`, `AbstractSimRequest`) | one bean per simulator and class | create, invoke, remove at stop; answer through another simulator | every bean is closed, but for those an onClose that throws costs it; a stop leaves none behind; no deadlock with the registry |
| Request dispatch (`SimScript.genResponse`, the handlers of each transport) | none across messages | match, respond, skip, proxy, 500, report | every client gets an answer; success is reported honestly; rules do not mix |
| WebSocket channels (`webbit/`) | lists of connections by channel id; a proxy client per connection | open, message, close, id change, send to an id or `_ALL_`, stop | an id finds exactly its connections; nobody gets another's messages |
| Socket simulator (`socket/`) | handlers by id, one shared proxy client, the port | the same over raw sockets | the same; nothing goes to a connection that has left; a stop disconnects, a start listens |
| Kafka (`kafka/`) | producers, consumers and a listener thread per subscriber; offsets in the server | start, stop, poll, commit, handle, send | no record handled twice, none lost without a cause; nothing left open but what a close that throws cuts off |
| JMS (`jms/`) | connections and a session each, producers by destination, temporary queues by reply destination | start, stop, receive, send, forward, relay a reply | no declared channel keeps a closed producer; replies reach their client; nothing left open |
| gRPC, Thrift (`grpc/`, `thrift/`) | call trace per thread; what was read of a call | intercept, process | a call is answered or fails, and a connection stays in step |
| File, memory, dummy (`file/`, `mem/`, `dummy/`) | a watcher; nothing; nothing | receive | see request dispatch |
| Templates (`SimTemplate`, `SimRequestTemplate`, `SimRegexTemplate`, `util/RequestHandler`) | immutable | parse, match | a match agrees with the pattern's meaning |
| Sim files and tree (`SimScript` constructors, `manager/SimulatorFolder`, `util/ZipFileVisitor`) | rules, properties and loaders, inherited from the parent folder | load, visit an archive, give out and evaluate a structure | no rule is dropped; an archive is a folder; a structure is its simulator |
| Monitoring (`monitor/`, `util/ListenerHub`) | counters, trace file, listeners | onStart, onHandleMessage, onStop | running simulators are counted, and their messages in their run |
| Utilities (`util/SimUtils`, `util/SimLogger`) | an id counter, a logger per thread | | ids do not repeat |

How they interact: management requests and the autostart thread call the registry,
which calls `start` and `stop` of a simulator inside the monitor of
`simulatorMap`; each transport runs handlers on threads of its own, which call
`genResponse`, the bean repository and, to answer through another simulator, the
registry again; handlers and life cycle both call the listeners.

What is hard: two management requests at once; a stop while handlers run, or wait
for the monitor the stop holds; a start that fails half way; events of many
connections interleaved with sends from other simulators; a rule that fails after
its first response was sent; a close or onClose that throws out of the middle of a
stop; servers that answer late or never.  `PROJECT.json`,
"hazards", has each at its line.

## 2. The modules

| module | models | state and code |
|---|---|---|
| `SimulatorRepository` | registry and life cycle | `simulatorMap`, `running`, `counters` (keys of `MessageCounter.counterMap`), `closed` (class loaders), `lock` (the monitor), and per thread the request it serves |
| `SimulatorRepository_proofs` | theorems on it | |
| `MessageFlow` | handlers, beans, target simulators and message counters against start and stop | `open` (transport accepts), `running`, `bean`/`created`/`onClosed` (`beanMap` and the calls of onCreate and onClose), `removing` (the beans a stop has taken out and not closed), `batches`/`threw` (history: what was taken out together, whose onClose threw), `cut` (history: whose doStop threw), the counters by run, `lock`, a step per manager and handler, `hclass` (the class whose method a handler runs) |
| `MessageFlow_proofs` | theorems on it | |
| `RequestDispatch` | one message through the rules and the fallback | `rule`, `reply` (where genResponse is), `client`, `forwarded`, `respList`, `told` (onHandleMessage), `thrown` (the gRPC trace's exception, or one that leaves a Thrift call), `reads` (of a Thrift call's arguments), `failedAfterRead` (a rule's response failed after it had read them) |
| `RequestDispatch_proofs` | theorems on it | |
| `ChannelDirectory` | what a WebSocket promises of `_Channel_ID` (abstract) | `holds`, `left`, `address`, `pending` |
| `WebSocketHandler` | `WebbitWSHandler`, `ConnectionBundle`, `WebbitWSClient` | `connectionMap`, `id`, `delegator` (the client, from its dialing on), the executor's event and what came of it (`outcome`), each sender's list, `closing`, `late`/`interrupted` (history: clients registered after the stop, starts the stop interrupted) |
| `WebSocketHandler_proofs` | theorems on it, and that it implements `ChannelDirectory` | |
| `SimTemplate` | templates and the search for a split of a line (`SimTemplate.parse`), with the definition it is checked against | pure operators |
| `SimScript` | a sim file read block by block (`SimScript.load`), then a message matched with its rules (`genResponse`'s loop) | `file`, the block being read, the rules, the message, the rule's turn |
| `SimScript_proofs` | theorems on both, and on `ScriptTree` | |
| `KafkaBroker` | `KafkaBroker`, its publishers and subscribers, and `SimMessageListener` | `producer`, `consumer`, `running` (not null, `KafkaSubscriber.running`), `thread`/`position`/`next` (where a listener thread is in its batch), `committed` (the server's), `life`/`todo`/`current`/`again` (the management thread), `fate` (history of each record), `cutAt`/`uncommitted` (history: the close that ended a stop, consumers whose close did not commit) |
| `KafkaBroker_proofs` | theorems on it | |
| `JMSBroker` | `JMSBroker`, `ProducerFactory`, `SimMessageListener`, `TempMessageListener` | `open` (connections), `listening`, `producerMap`, `temps` (`consumerMap`), `life`/`todo`/`closing` (the management thread), `step`/`msg`/`channel` (the thread of each session), `fate` and `reply` (history of each message), `replaced` (history: producers a handler replaced in this start) |
| `JMSBroker_proofs` | theorems on it | |
| `ScriptTree` | the walk over an archive (`ZipFileVisitor`, the handler in `SimScript`), beside what a folder (`loadFolder`) and a structure (`SimulatorFolder`) come to | `entryList`, `roots`/`dirList` (the levels to do), and per script `subScripts`, `templatePairs`, `prop` (`config`), `ignored`, `libURLs` |
| `SocketSimulator` | `SocketSimulator`, its handlers, `SocketClient` | `wire`, `startOf` and `step` of each connection, `id`, `handlerMap`, `sClient` (the field) and `client` (each connection's SocketClient), `binding`/`bound` (the port), `decoderUsed`, `answered`/`threw` (history: what the CLOSE came to) |
| `SocketSimulator_proofs` | theorems on it | |
| `MC*` | instances for TLC | |

`SimulatorRepository` and `MessageFlow` look at start and stop from two sides.
The first has script folders, loads and objects but takes the transports'
doStart and doStop to return.  The second fixes one object per name and opens up
what doStop waits for.

### Atomicity and abstraction

- *Registry.* `loadScripts` reads the folder as one step (outside the monitor, as in
  the code). Names are unique per load. A simulator object is the pair of its name
  and its load, since each load builds new `SimScript` objects and each of these
  serves at most one simulator. doStart with `running = true`, onStart, onStop, and
  close with `running = false` are steps of their own. The stop may also throw at a
  bean (StopThrows): the object then stays registered and running. A script's
  content is good, bad (its constructor throws) or gone; LoadFails stands for an
  unreadable folder, which ends the request before the monitor.
- *Message flow.*  A bean repository call is atomic: it holds its own monitor.
  removeSimulatorBeans takes the beans of a simulator out of the map (RemoveBeans)
  and then calls onClose of one after the other, in any order and outside the
  monitor (CloseBean).  onClose is user code and called without a try: if it
  throws, the beans after it, onStop, script.close and `running = false` are left
  undone (OnCloseThrows).  A class's constructor or onCreate that throws comes
  before its bean is in the map (NoResponse).  `Uses` are the classes a
  simulator's rules name.  `Drains` are the simulators whose doStop waits for
  running handlers, and `Throws` those of them whose doStop may throw, before or
  after it has closed what handlers come from.  For Kafka that is
  `KafkaSubscriber.stop`, and the closes there may throw.  For JMS it is the
  rule of its API that closing a connection waits for its listeners (external), and
  a JMSException of a close is logged and swallowed.
  An answer of a Kafka or JMS simulator always goes through the registry, as
  doFillResponse names the simulator itself (`kafka/KafkaSimRequest.java` 78-89).
- *Dispatch.*  What a rule does with a message is nondeterministic: it matches or
  not, its bean fails or skips, its response is sent over the exchange or
  elsewhere, or fails.  A JDK `HttpExchange` refuses a second response (external);
  the HTTP side of `WebbitSimulator` uses the same handleRequest but its exchange
  is not modelled.  The stop of a simulator appears as HangUp: `server.stop(0)`
  closes the exchanges of handlers still at work.
  gRPC and Thrift invoke the simulated service when a response is filled: it may
  answer, fail or, with gRPC, answer later.  The trace a gRPC call finds is its
  own, one that another call left on the thread, or none.  What one call does to
  the trace of a later one is open in Create, as one message is modelled.  A Thrift
  call's arguments are read from the connection by each function that handles it;
  `reads` counts them up to `Often`, two.  A response of a rule may fail before it
  has read them or after (a validate of generated code that throws on a live
  connection), which `failedAfterRead` remembers; what handles the call next reads
  again (`DefaultThriftReqRespConvertor` 25-29, `ThriftSimulator` 189, 195).
- *Counters.*  MessageFlow numbers the runs of each simulator; a message is
  counted by the counter in the map when it is done, if there is one.
- *WebSocket.*  The web server hands all events of a handler to one executor
  thread (external), so each event is a sequence of steps of that thread, between
  which senders and the stop may run.  Lists are sets; the code cannot enter a
  connection twice into one list.  `original` says whether the map still holds
  `unknownConnectionList`.  The steps of setId are one: it holds the monitor, and
  the one field it changes outside, the id, is read by the executor alone.
  onOpen starts a client (Dial), which blocks the executor outside the monitor, and
  registers the connection afterwards (RegisterClient, `webbit/WebbitWSHandler` 199,
  200): a stop may come in between.  start() returns, throws, or is interrupted by
  the stop of the web server while the client goes on to dial.  A server that was
  dialed opens the WebSocket, refuses it or hangs up before (Connected, Refused), or
  does nothing: getConnection returns only after the first.  Assumed of the library:
  start() ends, as a connect has a timeout, and close and stop of a connected client
  do not throw.

- *Sim files and templates.*  A line of a file is a separator, the response mark,
  blank, or a text; a template line is a sequence of texts and variables with
  bounds on their lengths, scalar or array.  A request template has a top line, a
  header and a body, as `SimRequestTemplate` has with the default body handler.
  What characters there are is a constant, `Character`.  The search of `parseLine`
  is a recursive function with the code's order of lengths and its bounds
  (`MatchToken` is one token's turn).  The reference beside it never searches: a
  cut gives the offset at which each token ends, *Splits* are the cuts that fit
  the line, *Least* is the one that is *Before* all others.  Where a reference
  numbers the elements of a set (the ends of blocks, the places of an array),
  *Nth* names the element that has j - 1 below it.
- *Kafka.*  A topic and its group offset belong to the server (external) and
  survive a crash; every subscriber has one topic, and one process is in the
  group.  Poll returns any records there are or will be.  `running` is not
  volatile in the code (the modifier is `transient`); poll synchronizes in every
  round, so the thread is taken to see it.  A close of a producer or consumer may
  throw (StopPublisherFails, CloseConsumerFails): the loop of `KafkaBroker.stop` ends
  there.  After a stop the exception leaves SimSimulator.stop once its finally is done
  and `running` is false; after a start that failed doStop is called a second time,
  and stops what the first has not come to (`again`).  A consumer whose close threw
  may have committed or not (`uncommitted`).  A simulator of which a close was cut
  short is not started again, but the process may crash and begin anew.
  What a rule does with a record is open: its response goes through the registry,
  whose monitor a start or stop holds throughout, and any of it may fail.

- *JMS.*  The server is external (see the head of the module): it keeps messages,
  runs the listeners of a session one after the other, and lets only the
  connection that made a temporary queue read from it.  A broker has a topic and
  a queue connection of one session each, so a connection stands for its session.
  Any lookup, send or creation may fail, which `excused` remembers where a
  property asks for a cause.  A handler looks for the producer of its channel,
  creates one when there is none and puts it into the map in three steps, between
  which a start may put the declared one (`jms/JMSSimRequest` 139-143,
  `jms/JMSSimulator` 80-84): AddOwnProducer then replaces it (`replaced`).  A close
  that throws a JMSException, which the code swallows, is taken as closed.
- *Archives.*  A file has a directory and a kind (init.properties, two sim files,
  a malformed one, .ignore, a jar); the next entry of the level is any, so that
  all orders of an archive are walked.  `order` remembers it, and stands for the
  order of the folder's listing.  A lib has no directory in it (assumed).
- *Sockets.*  Each connection has an event loop of its own; connections that
  share one interleave less.  netty is external: what its event loops do after
  bind and shutdownGracefully have returned are actions (Bind, CloseServer,
  CloseChannel), and its refusal to add one decoder to two pipelines is `ownDecoder`
  (FALSE for the default `FrameEncoderDecoder`).  Reads and writes of `sClient`
  and `handlerMap` are neither synchronized nor volatile; they are taken to see
  the last write, which a thread that wrote itself does unless another wrote
  since.  One simulator object is started and stopped; a restart of the registry
  makes another object, which meets the first at the port just the same.

## 3. The runs

| run | module | result | what it shows |
|---|---|---|---|
| `Registry` | MCSimulatorRepository | pass | RunningIsRegistered, CounterWhileRunning, RestartIsFresh, OnlyBrokenLoadsLose, RestartIsolates |
| `StaleRestart` | MCSimulatorRepository | violation | SettingsNeverGoBack |
| `Messages` | MCMessageFlow | pass | EveryBeanIsClosed, OwnAnswersPass, DrainedStopIsClean, CountedInItsRun, StopEndsOrEmbraces |
| `FlowDeadlock` | MCMessageFlow | violation | StopReturns |
| `Dispatch` | MCRequestDispatch | pass | NobodyLeftWaiting, SuccessMeansAnswered, RulesDoNotMix, ProxyIsLastResort, StaysInStep, ToldOnce |
| `Scripts` | MCSimScript | pass | LoadIsGrammar, FirstFittingRule, LeastSplitBinds, ErrorIsExplained |
| `Tree` | MCScriptTree | pass | ZipIsAFolder, StructureKeepsScript |
| `Kafka` | MCKafkaBroker | pass | LostHasCause, ListensWhileUp, NothingLeftWhenDown, HandledOnce, StopEndsOrWaits |
| `JMS` | MCJMSBroker | pass | FailedHasCause, RepliesFindTheirWay, NothingOpenWhenDown, StopEndsOrWaits |
| `Sockets` | MCSocketSimulator | pass | NobodyGoneIsRegistered, NeverAnOlderServer, LeftOpenHasCause, StopDisconnects |
| `Channels` | MCWebSocketHandler | pass | IdListsAreExact, DelegatorWithinReach, SendStaysInChannel, ImplementsDirectory, EventsEndOrWait |
| `Broadcast` | MCWebSocketHandler | violation | AllMeansEachOnce |

### Bounds

- `MaxVersion`, `MaxLoad`, `Edited`: versions of a folder, reads of the script
  tree, and the names whose folder changes.  `Registry` has two names without a lib
  folder, which use the class loader of the folder above them, of which
  the edited one has two versions, and three reads: the first one and those of
  two overlapping requests.  `StaleRestart` has one name, with a lib folder, and
  three versions, an edit before and between their reads.
- Two management threads: the monitor lets one in, so what can go wrong is one
  that has read, or waits, while another works.
- `MaxBean` 2 and two classes for the simulator that drains: two beans that are in
  the map together, of which either's onClose may throw, or a bean, its removal by a
  stop, and one created afterwards.
- In `Messages` a handler, a manager, and two simulators, one of which drains and may
  throw, with `MaxRun` 2 starts of each: a message meets the stop of its run and the
  next run.  Handlers share nothing with each other but the bean map, and a call of
  that is atomic.  `FlowDeadlock` has two handlers, one of which waits for the
  manager that waits for it.  The monitor lets one manager in, so a second would
  only wait.
- `MaxRule` 3, `MaxReply` 2: a mismatch, a skip and a match in any order, with a
  failure before, between and after the responses.
- `MaxStart` 2 and two messages of the JMS simulator, with a broker, a queue and a
  topic listened to, and a proxy channel: what the first start leaves behind
  meets the second, and what the first message left in the maps meets the other,
  which may ask for its reply at another place, or at the proxy channel itself.
- `MaxFile` 4 files in an archive with a folder, a folder in that, and a lib in
  either: a property set above and below, an .ignore before, between and after
  two sim files, with any of the directories' own entries missing.
- Two connections, two ids, one sender: the lists under UNKNOWN and under an id
  hold none, one or two; with no third connection nothing new can happen to a
  list, as the operations look at one connection and at emptiness.

- Files of `MaxLines` 5 lines: two blocks with a request and a response, a
  response without lines, an empty block between two, or a truncated one.
  Templates of `MaxTokens` 3 tokens and lines of `MaxChars` 4 characters: a text
  between two variables, of which each may be empty, repeat the name of the
  other, or exceed its bound; with four characters over two letters a text may
  occur at two places, so that the search has to go back.
- `MaxRecord` 2, `MaxCrash` 1, two subscribers, one with a proxy channel: a batch
  of two, its second record behind one that kills the thread, or two batches of
  one, with a stop, a failed start or a crash at every step between; the second
  subscriber is what a start fails at, or a stop waits for, while the first is
  at any step.

- Two connections and two starts of a socket simulator: one connection takes the
  field over while the other dials, sends or leaves, and a start meets the port of
  the one before.  Proxy mode and the decoder are chosen in Init.

The theorems (section 4) carry the safety properties they name beyond these bounds.

TLC's deadlock check is off where the system really may stop: `Messages` and
`FlowDeadlock` (the embrace below), `Dispatch` (the message was handled),
`Channels` (each connection opens once, and all have gone), `Scripts` (the message
was matched), `Tree` (the archive was read), `Sockets` (as for `Channels`), `JMS`
and `Kafka` (the embrace, too: a listener that waits for the registry).

### Fairness

- `MessageFlow!FairSpec`: weak fairness of each handler and manager; nothing has to
  throw.  A Java
  monitor is not fair, so no strong fairness of the lookup is assumed.
- `RequestDispatch!FairSpec`: the handling thread runs; it waits for nothing but
  what a Thrift client sends, when it reads arguments that were read before
  (`ReadsOn`).
- `KafkaBroker!FairSpec`: each listener thread goes on, and the management thread
  finishes the start or stop it is in. No record, start, stop, failure or crash has
  to come, nor has a close to throw. poll returns (it has a timeout), as do the
  client's calls.
- `JMSBroker!FairSpec`: the same, with the thread of each session.  A listener that
  answers waits for the registry's monitor and is not enabled until it is free.
- `SocketSimulator!FairSpec`: event loops finish the handlers they have begun and
  do what bind and shutdownGracefully have left to them.  A handler waits at most
  for a connect, which ends by the operating system's timeout.
- `WebSocketHandler!FairSpec`: the executor and the stopping thread run.  No dialed
  server has to answer, and `WebbitWSClient.getConnection` waits without a timeout:
  EventsEndOrWait says that what hangs, hangs for one and the same server.

### Findings

1. *StaleRestart.*  `refresh` and `restartSimulator` load the scripts before they
   take the monitor (`SimulatorRepository.java` 117, 149).  Of two overlapping
   requests the older read may be installed last: "Restart simulator with updated
   settings" (README.md:641) goes back to older ones.
2. *FlowDeadlock.*  A stop holds the monitor of `simulatorMap` and waits for the
   Kafka listener thread (or JMS listeners), which waits for the same monitor in
   getSimulator to send its answer.  The stop (README.md:639) never returns and
   no other request of the registry does.  StopEndsOrEmbraces shows that this is
   the only way for a stop to hang.
3. *Broadcast.*  When the last connection without id leaves, the map drops the
   list under UNKNOWN, but setId goes on with the dropped list.  The next
   connection that gets an id stays in two lists: `_ALL_` ("all channels",
   README.md:345) reaches it twice, and after it has left.

Met on the way, without a run of their own; the models have them, and the
properties except them by name:

- *Registry.*  A simulator without lib folder uses its parent's class loader, and
  its stop closes it for all others, though each is to have "its own classloader"
  (README.md:54, `Closes`): no property says that a loader in use stays open, as any
  two such simulators refute it.  A stopped and started simulator runs with its
  closed class loader.  RestartIsolates says what does help: a restart.
- *Stops that throw.*  An onClose that throws costs the other beans their onClose, and
  leaves a simulator that counts as running with its transport closed
  (OnCloseThrows, Abandoned).  A Kafka close that throws leaves the subscribers after
  it at work while `running` is false (NothingLeftWhenDown, `cutAt`).
- *Dispatch.*  A request that cannot be parsed is never answered (CreateFails).  A
  RuntimeException of the proxy is not reported (ForwardEscapes), and ends a Kafka
  listener thread with the rest of its batch, whose offset is committed already
  (LostHasCause, the first of its two causes).  A client may have been answered
  and the message be counted as failed, when a later response of the rule fails.
- *gRPC and Thrift.*  Calls that fail are reported as handled: InvokeRemote and
  SendErrorMessage fill the list whatever happens.  A rule of a Thrift simulator
  with two responses, or one that fails after its response, or whose response fails
  after it has read the call, makes the server read the next call as arguments of
  this one (ReadsOn, `failedAfterRead`).  The exceptions a Thrift service declares reach
  the client as internal errors, as the InvocationHandler does not unwrap them
  (`thrift/ThriftSimulator.java` 263).
- *JMS.* The producer made for a reply destination outlives its session: after a
  stop and a start replies to a client with the same queue are lost
  (RepliesFindTheirWay, Stale). Forwarding a message that wants a reply to a channel
  on another connection fails (CanAskReply), unless an earlier message wanted it at
  the same place. A listener that answers while a start goes on may replace a
  declared producer by one of its own session (`replaced`), and messages that ask
  for replies there then fail (FailedHasCause). A reply that is no text message ends
  in a ClassCastException nobody catches (Relay).
- *Sockets.*  With the default frame decoder a socket simulator serves one
  connection, ever; a proxied socket's messages go to the server connection made
  last, whosever that is (NeverAnOlderServer says how far astray they may go);
  every connection gets the empty id, as `SocketSimRequest.getHeaderLine` has an
  empty value for every header (HandleIDChange); and a simulator started soon
  after a stop may run without listening, as doStart does not look at its bind
  and doStop does not wait for the port (Bind).
  A RuntimeException on CLOSE leaves the server's connection open (`threw`).
- *WebSocket.*  A proxied server that refuses the handshake, or hangs up before,
  stops the one executor thread for ever at the next message of that connection, and
  the stop of the simulator with it (EventsEndOrWait).  A client that is still being
  started when the simulator stops is never stopped by it (StopReaches).
- *Archives.*  "It will treat zip file as a folder" (README.md:628) holds with three
  provisos, which ZipIsAFolder names: the files of a directory that has no entry of
  its own are left out without a word; sim files, properties and .ignore files in a
  lib count for the script above it, and an .ignore there ignores that script while
  it stays in its parent; and a malformed sim file below an ignored directory
  fails the archive.

## 4. The proofs

All are about the specifications without fairness, for every value of the
constants that meets the modules' assumptions (named in the modules: finite
bounds, distinct tokens, for WebSocketHandler a finite set of ids, and for
ScriptTree a finite tree of directories).

- `SimulatorRepository_proofs`: TypeCorrect, OnlyRegisteredRuns, RunningIsCounted,
  RestartsAreFresh, RestartsAreIsolated, OnlyBrokenLoadsDrop. None of the properties
  is inductive alone. The invariant adds *Exclusion* (a thread is inside exactly if
  it owns the monitor), *Relies* (what each step inside may rely on of the map and
  of `running`: a starting object does not run, a stopping one does), *HasScript*
  (who has loaded), *Counted* (the counter, with the two steps during which it is
  missing), *Fresh* (a load taken after the request is as new as what was asked
  for), *Known* (what is in the map or closed stems from a load), *Apart* (no two
  threads hold the same load) and *Solo* (the load of a restart is in nobody's entry
  of the map, and nothing of it is closed, until the restart installs it). The three
  action properties follow from the invariant step by step; the lemma
  OnlyRefreshDrops leaves the refresh as the one step that can lose a name.
- `RequestDispatch_proofs`: TypeCorrect, ClientsAreAnswered, SuccessIsHonest,
  OneRuleAnswers, ProxyComesLast, ConnectionStaysInStep.  The invariant says how
  far rules (*Order*) and responses (*Replying*) have got, that no rule is
  complete before the handler leaves genResponse (*Unfinished*), where a list came
  from (*Outcome*), who still waits (*Waiting*) and how often a Thrift call was read
  at each step, with a failure after the read and without (*Reading*).
- `WebSocketHandler_proofs`: TypeCorrect, IdListsStayExact, SendsStayInChannel,
  DelegatorsStayInReach and HandlerImplementsDirectory. The invariant is
  IdListsAreExact with *Handling* (where the executor's connection is) and
  *FreeSenders* (a free sender has nothing left to send). DelegatorsStayInReach
  rests on the lemmas NobodyFallsOut (a step takes a connection out of the map's
  lists only if it closes) and ClientStep (who gets a client, and where the executor
  is then); ReachStep and StopStep follow each client from the dial to its
  registration, with a stop before, between and after. For the refinement each
  action is mapped: HandleIDChange to Assign or a stutter, Remove to Depart,
  SendResponse of an id to Send, FillRawResponse to Deliver, all others to a
  stutter. A broadcast is hidden from the directory.

- `KafkaBroker_proofs`: TypeCorrect, LossesHaveCauses, EveryTopicIsListenedTo,
  NothingStaysOpen and RecordsHandledOnce.  LostHasCause needs to know that every
  record a stopped or crashed thread leaves unread lies beyond the offset
  (*Misses*), and HandledOnce that all others lie below it (*Repeats*); both rest
  on where a thread is in its batch (*Threads*) and on what the management thread
  has opened and closed so far, and has not come to when a close throws (*Opened*).
  *Once* leaves out what HandledOnce does: with Kafka's own commit, what a crash or a
  close that did not commit brings back.  The lemma RecordStep reduces the four
  actions that handle a record to three outcomes: it goes on, is done, or kills
  the thread.
- `MessageFlow_proofs`: TypeCorrect, BeansAreClosed, OwnAnswersArrive, StopsAreClean
  and MessagesAreCounted.  The invariant adds what each step of a start or stop may
  rely on (*Relies*: among it, that a stop which drains meets no handler at work
  once it is past the draining), that a transport accepts only while its simulator
  runs or starts (*Opened*), where every bean created is (*Beans*: in the map,
  closed, still to be closed by the stop that took it out, or of a batch in which an
  onClose threw), that the handlers of a draining simulator work on
  messages of its current run (*Flights*), and that this run has its counter but at
  its two ends (*Counted*).  The draining is that of `Waited`: no doStop of the
  simulator has thrown.
- `JMSBroker_proofs`: TypeCorrect, FailureIsExplained, RepliesReachTheirClient and
  DownIsClosed. FailedHasCause needs to know that every declared channel has got a
  producer of this start once the simulator is up, on the right connection unless a
  handler replaced it (*Producers*, *Phases*), that a handler about to create or add
  a producer finds none of an earlier start at its place (*Creators*), and
  RepliesFindTheirWay that each temporary queue in the maps is one of this start and
  of an open connection (*Readers*), and that a message asks for its reply at the
  one made for its own reply destination (*Mails*).
- `SocketSimulator_proofs`: TypeCorrect, NobodyGoneIsAddressed,
  MessagesGoToNoOlderServer and LeftOpenForACause.  What the two history
  properties need is that the field holds the client made last (*Orders*), that a
  client not started is being dialed or has been replaced (*Clients*), and that a
  handler at work has its connection still (*Steps*).
- `SimScript_proofs`: TypeCorrect, ParseLineIsLeastSplit, FirstRuleAnswers,
  LeastSplitIsBound, ErrorsAreExplained and LoadIsTheGrammar, for all files,
  templates and messages of any length.  The assumptions are that files are
  sequences of lines, that messages are requests, and that there are the
  characters the module's own texts are made of.  The argument goes in five steps.
  - *Induction.*  The recursions are over data, and the library's induction rules
    take an operator.  SetInduction says the same of a set of numbers; it follows
    from the well-foundedness of < on them (LeastNatural), and each induction below
    gives the set it is about.
  - *A line.*  The table of `parseLine` is filled from the last token backwards.
    SearchIsSound shows that each entry of a row is what the rest of the line
    comes to: the least chain of offsets and its bindings, no chain at all, or an
    error with its cause.  TextStep, VarStep and LastStep are the cases of one
    entry; BindStep shows that binding from the right gives the rightmost scalar
    and the array in its order.  The first entry is ParseLineIsLeastSplit.
  - *A template.*  The loop of `parse` merges the lines' bindings as *Expected* does
    (MergeStep, ParseIsLeastSplits), and `match` puts top line, header and body
    together (MatchPartIs).
  - *A message.*  The invariant IInv is *Shapes* (types, and that the first rule is
    next until a message comes) and *Tried*: every rule before the one to try does
    not fit this message, and what the last one came to is explained.
  - *A file.*  *SoFar* adds what is known while a file is read: the rules are the
    first blocks of the grammar, and `parts` and `lines` are the cut of what was
    read of the next one (CutInto).  CutText, CutResponse and CutEnd are its three
    steps, BlockEnds says that a block which ends is the next of the grammar, and
    RuleCountIs that the first empty one ends the rules.

- `SimScript_proofs`, its second part, on the walk of `ScriptTree`: TreeZipIsAFolder
  and TreeStructureKeepsScript, for every tree of directories, any number of files,
  and every order of the entries. The assumption is TreeAssumption: that the
  directories are finitely many, that a path leads to the archive itself (IsTree)
  and is that of one directory, and that there is no directory below a lib.
  - *Sequences.*  OfKindOfAppend says what one file more adds to a selection,
    OfKindTwice that the kinds of a structure lose nothing the rules need, and
    ReadStays and ReadAll how far loadFolder reads when an .ignore comes.
  - *Directories.*  DownInduction goes from the root to the directories below, by
    the lengths of the paths.  InheritedExists gives the functions that recur to
    the parent their values (UpIs, FolderPropIs, EvaluatedPropIs, ReachedIs).
  - *The walk.*  *Walked* is what holds of any archive: each directory waiting was
    handled and has the script it belongs to as target, a directory is handled after
    its parent and after the files beside it, and one in which something is left will
    be gone into.  It says that a walk which ends has left nothing (WalkEnds), and
    that a script's property no longer changes once a sub-script has copied it.
  - *The scripts.*  *Scripted* holds of archives with but jars in a lib, and neither
    property is inductive without it.  It relates each script to the files of its
    directory seen so far: nothing before it is made (*Fresh*), ignored when an
    .ignore was among them (*IgnoredSeen*), else the rules of them all (*RulesKept*)
    and the property they set or the parent's (*PropKept*); it is listed in its
    parent from when it is made until it is ignored (*ListedMade*); the jars are
    those handled (*JarsAdded*); and the walk fails exactly for a malformed file of a
    script that was not ignored yet (*BadFails*, *FailsForBad*).

Each invariant that a passing run checks is stated by a theorem.  Only model-checked are
the liveness properties (StopEndsOrEmbraces, ToldOnce, EventsEndOrWait, both
StopEndsOrWaits, StopDisconnects), as liveness under fairness is out of the prover's
reach.

## 5. What is not modelled, and the plan

Done, in this order: registry; message flow; WebSocket channels; request dispatch;
sim files and templates; Kafka; sockets; JMS; message counters; gRPC and Thrift
calls; archives.  What is left could be added in this order:

1. The life cycle of gRPC and Thrift servers: what a stop does to calls at work.
   Both are libraries' servers, of which the code here only calls start and stop.
2. The skip of a rule, whose bindings later rules see, in SimScript.
3. The proxy client of a WebSocket after its connection is gone.

Not in the modelled components: templates with regular expressions, several header
lines (their order is a HashMap's), body handlers other than the default, and the
response's template engine; several Kafka brokers in one simulator, and consumer
groups that another process shares; directories below a lib, the structure of a
folder that is no script yet, and the encodings files are read with; the trace
file of `MessageTracer`.

Left out for good: management queries that only read (getAllSimulators),
the file watcher (a library's, which reports created files; README.md 4.6 speaks of
changed ones, too), the id generator, loggers, conversions of bodies and URLs, the message convertors,
TLS set-up, the patched netty class in `org/webbitserver`, and the web client.
