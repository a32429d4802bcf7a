----------------------------- MODULE MessageFlow -----------------------------
(***************************************************************************)
(* Message handlers of running simulators against the management threads   *)
(* that start and stop them: the function beans a handler creates          *)
(* (ResponseHandler.FunctionResponseHandler, BeanRepository), the response *)
(* it sends through another simulator (AbstractSimRequest.fillResponse)    *)
(* and the monitor of SimulatorRepository.simulatorMap both need; and the  *)
(* counter of messages that a start puts and a stop removes                *)
(* (MessageCounter, told through ListenerHub).  A bean's onClose is user   *)
(* code and a transport's close a library's: either may throw out of the   *)
(* middle of a stop.                                                       *)
(*                                                                         *)
(* The map holds one object per name here and no script changes:           *)
(* SimulatorRepository.tla models those.                                   *)
(***************************************************************************)
EXTENDS Integers, FiniteSets

CONSTANTS
  Sim,        \* simulators, all in the map
  Handler,    \* transport threads that handle messages
  Manager,    \* threads inside startSimulator or stopSimulator
  Drains,     \* simulators whose doStop waits for their handlers: Kafka, JMS
  Throws,     \* those of them whose doStop may throw: Kafka
  Class,      \* classes of function beans
  Uses,       \* the classes that the rules of a simulator name
  Targets,    \* what _Response.targetSimulator may name; may include NoSim
  NoSim,
  NoClass,
  NoThread,
  MaxBean,    \* bound: beans created per simulator
  MaxRun      \* bound: starts per simulator

ASSUME FlowAssumption ==
  /\ Throws \subseteq Drains /\ Drains \subseteq Sim
  /\ NoSim \notin Sim /\ NoClass \notin Class
  /\ Uses \in [Sim -> SUBSET Class]
  /\ Targets \subseteq Sim \cup {NoSim}
  /\ Targets # {}
  /\ NoThread \notin Manager
  /\ MaxBean \in Nat \ {0}
  /\ MaxRun \in Nat \ {0}

VARIABLES
  open,      \* simulators whose transport accepts messages
  running,   \* SimSimulator.running
  cut,       \* history: simulators whose doStop has thrown
  bean,      \* BeanRepository.beanMap: the bean of a simulator and class, 0 for none
  created,   \* number of beans created per simulator (onCreate calls)
  onClosed,  \* beans whose onClose was called
  removing,  \* beans a stop has taken out of the map and not closed yet
  batches,   \* history: the sets of beans taken out together
  threw,     \* history: beans whose onClose threw
  run,       \* number of starts per simulator
  counter,   \* MessageCounter.counterMap: the run that put it, or Absent
  lock,      \* owner of the monitor of simulatorMap
  mpc, msim, \* management thread: step and simulator
  hpc, hsim, \* handler: step and the simulator whose message it handles
  htarget,   \* handler: the simulator that sends the response
  hclass,    \* handler: the class whose method it invokes, or NoClass
  hrun       \* history: the run the message was received in

life == <<open, running, cut>>
removal == <<onClosed, removing, batches, threw>>
beans == <<bean, created, removal>>
counting == <<run, counter>>
managers == <<lock, mpc, msim>>
handlers == <<hpc, hsim, htarget, hclass, hrun>>
vars == <<life, beans, counting, managers, handlers>>

MStep == {"idle", "starting", "opened", "running", "undoing", "stopping", "draining",
          "stopped", "removing", "uncounting", "closing"}
HStep == {"idle", "matching", "invoked", "responding", "lookup", "check", "fill",
          "reporting"}
Absent == MaxRun + 1
Bean == 1 .. MaxBean

TypeOK ==
  /\ open \subseteq Sim
  /\ running \subseteq Sim
  /\ cut \subseteq Throws
  /\ bean \in [Sim -> [Class -> 0 .. MaxBean]]
  /\ created \in [Sim -> 0 .. MaxBean]
  /\ onClosed \in [Sim -> SUBSET Bean]
  /\ removing \subseteq Bean
  /\ batches \in [Sim -> SUBSET SUBSET Bean]
  /\ threw \in [Sim -> SUBSET Bean]
  /\ lock \in Manager \cup {NoThread}
  /\ mpc \in [Manager -> MStep]
  /\ msim \in [Manager -> Sim \cup {NoSim}]
  /\ hpc \in [Handler -> HStep]
  /\ hsim \in [Handler -> Sim \cup {NoSim}]
  /\ htarget \in [Handler -> Sim \cup {NoSim}]
  /\ hclass \in [Handler -> Class \cup {NoClass}]
  /\ run \in [Sim -> 0 .. MaxRun]
  /\ counter \in [Sim -> 0 .. Absent]
  /\ hrun \in [Handler -> 0 .. MaxRun]

\* createSimulator has put a first counter for each.
Init ==
  /\ open = {}
  /\ running = {}
  /\ cut = {}
  /\ bean = [s \in Sim |-> [c \in Class |-> 0]]
  /\ created = [s \in Sim |-> 0]
  /\ onClosed = [s \in Sim |-> {}] /\ removing = {}
  /\ batches = [s \in Sim |-> {}] /\ threw = [s \in Sim |-> {}]
  /\ lock = NoThread
  /\ mpc = [m \in Manager |-> "idle"]
  /\ msim = [m \in Manager |-> NoSim]
  /\ hpc = [h \in Handler |-> "idle"]
  /\ hsim = [h \in Handler |-> NoSim]
  /\ htarget = [h \in Handler |-> NoSim]
  /\ hclass = [h \in Handler |-> NoClass]
  /\ run = [s \in Sim |-> 0]
  /\ counter = [s \in Sim |-> 0]
  /\ hrun = [h \in Handler |-> 0]

----------------------------------------------------------------------------
(* A message handler.                                                      *)

\* Mutant of InFlight: the handlers of every simulator.
InFlightAnywhere(s) == {h \in Handler : hpc[h] # "idle"}
InFlight(s) == {h \in Handler : hsim[h] = s}

HGoto(h, step) == hpc' = [hpc EXCEPT ![h] = step]

\* Mutant of AddBean: the map is not looked at.
AddBeanAlways(s, c) ==
  /\ created[s] < MaxBean
  /\ created' = [created EXCEPT ![s] = @ + 1]
  /\ bean' = [bean EXCEPT ![s][c] = created[s] + 1]
  /\ UNCHANGED removal

\* BeanRepository.addBean: the bean in the map, or a new one, under its monitor.
AddBean(s, c) ==
  IF bean[s][c] # 0 THEN UNCHANGED beans
  ELSE /\ created[s] < MaxBean
       /\ created' = [created EXCEPT ![s] = @ + 1]
       /\ bean' = [bean EXCEPT ![s][c] = created[s] + 1]
       /\ UNCHANGED removal

Receive(h, s) ==
  /\ hpc[h] = "idle"
  /\ s \in open
  /\ HGoto(h, "matching")
  /\ hsim' = [hsim EXCEPT ![h] = s]
  /\ hrun' = [hrun EXCEPT ![h] = run[s]]
  /\ UNCHANGED <<life, beans, counting, managers, htarget, hclass>>

\* A rule without _Class.Name needs no bean.
Match(h) ==
  /\ hpc[h] = "matching"
  /\ HGoto(h, "responding")
  /\ UNCHANGED <<life, beans, counting, managers, hsim, htarget, hclass, hrun>>

\* BeanRepository.invoke: addBean, then the method runs outside the monitor.
Invoke(h) ==
  /\ hpc[h] = "matching"
  /\ \E c \in Class : /\ c \in Uses[hsim[h]] /\ AddBean(hsim[h], c)
                     /\ hclass' = [hclass EXCEPT ![h] = c]
  /\ HGoto(h, "invoked")
  /\ UNCHANGED <<life, counting, managers, hsim, htarget, hrun>>

Forget(h) == hclass' = [hclass EXCEPT ![h] = NoClass]

\* The method returned an object: addBean of the class again, for its ObjectMapper.
Convert(h) ==
  /\ hpc[h] = "invoked"
  /\ \E c \in Class : c = hclass[h] /\ AddBean(hsim[h], c)
  /\ Forget(h)
  /\ HGoto(h, "responding")
  /\ UNCHANGED <<life, counting, managers, hsim, htarget, hrun>>

\* It returned a string, or nothing.
ReturnText(h) ==
  /\ hpc[h] = "invoked"
  /\ Forget(h)
  /\ HGoto(h, "responding")
  /\ UNCHANGED <<life, beans, counting, managers, hsim, htarget, hrun>>

\* The simulators a response may go through: the one the rule names; without one
\* (NoSim), doFillResponse of Kafka and JMS names the simulator's own.
Through(own) ==
  (Targets \ {NoSim}) \cup (IF NoSim \in Targets /\ own \in Drains THEN {own} ELSE {})

\* AbstractSimRequest.fillResponse, when there is such a simulator.
Respond(h) ==
  /\ hpc[h] = "responding"
  /\ \E s \in Through(hsim[h]) : htarget' = [htarget EXCEPT ![h] = s]
  /\ HGoto(h, "lookup")
  /\ UNCHANGED <<life, beans, counting, managers, hsim, hclass, hrun>>

RespondDirectly(h) ==
  /\ hpc[h] = "responding"
  /\ NoSim \in Targets
  /\ hsim[h] \notin Drains
  /\ HGoto(h, "reporting")
  /\ UNCHANGED <<life, beans, counting, managers, hsim, htarget, hclass, hrun>>

\* No rule matches, or the method throws, or a new bean's constructor or onCreate,
\* which come before it is put into the map.
NoResponse(h) ==
  /\ hpc[h] \in {"matching", "invoked"}
  /\ Forget(h)
  /\ HGoto(h, "reporting")
  /\ UNCHANGED <<life, beans, counting, managers, hsim, htarget, hrun>>

\* Mutant of GetSimulator: the map is read without its monitor.
GetSimulatorUnlocked(h) ==
  /\ hpc[h] = "lookup"
  /\ HGoto(h, "check")
  /\ UNCHANGED <<life, beans, counting, managers, hsim, htarget, hclass, hrun>>

\* SimulatorRepository.getSimulator enters and leaves the monitor.
GetSimulator(h) ==
  /\ hpc[h] = "lookup"
  /\ lock = NoThread
  /\ HGoto(h, "check")
  /\ UNCHANGED <<life, beans, counting, managers, hsim, htarget, hclass, hrun>>

\* isRunning is read after the monitor was left; if not, an IOException.
Check(h) ==
  /\ hpc[h] = "check"
  /\ HGoto(h, IF htarget[h] \in running THEN "fill" ELSE "reporting")
  /\ UNCHANGED <<life, beans, counting, managers, hsim, htarget, hclass, hrun>>

\* fillResponse of the target, which sends, or throws when its transport closed.
Fill(h) ==
  /\ hpc[h] = "fill"
  /\ HGoto(h, "reporting")
  /\ UNCHANGED <<life, beans, counting, managers, hsim, htarget, hclass, hrun>>

\* onHandleMessage: the counter in the map, if there is one, counts it.
OnHandleMessage(h) ==
  /\ hpc[h] = "reporting"
  /\ HGoto(h, "idle")
  /\ hsim' = [hsim EXCEPT ![h] = NoSim]
  /\ htarget' = [htarget EXCEPT ![h] = NoSim]
  /\ hrun' = [hrun EXCEPT ![h] = 0]
  /\ UNCHANGED <<life, beans, counting, managers, hclass>>

----------------------------------------------------------------------------
(* startSimulator and stopSimulator.                                       *)

MGoto(m, step) ==
  /\ mpc' = [mpc EXCEPT ![m] = step]
  /\ UNCHANGED <<lock, msim>>

Enter(m, s, step) ==
  /\ mpc[m] = "idle"
  /\ lock = NoThread
  /\ lock' = m
  /\ mpc' = [mpc EXCEPT ![m] = step]
  /\ msim' = [msim EXCEPT ![m] = s]
  /\ UNCHANGED <<life, beans, counting, handlers>>

StartSimulator(m, s) ==
  s \notin running /\ run[s] < MaxRun /\ Enter(m, s, "starting")
StopSimulator(m, s) == s \in running /\ Enter(m, s, "stopping")

Leave(m) ==
  /\ lock' = NoThread
  /\ mpc' = [mpc EXCEPT ![m] = "idle"]
  /\ msim' = [msim EXCEPT ![m] = NoSim]

\* doStart opens the transport: handlers run from here on.
DoStart(m) ==
  /\ mpc[m] = "starting"
  /\ open' = open \cup {msim[m]}
  /\ run' = [run EXCEPT ![msim[m]] = @ + 1]
  /\ MGoto(m, "opened")
  /\ UNCHANGED <<running, cut, beans, counter, handlers>>

PostStart(m) ==
  /\ mpc[m] = "opened"
  /\ running' = running \cup {msim[m]}
  /\ MGoto(m, "running")
  /\ UNCHANGED <<open, cut, beans, counting, handlers>>

\* onStart: MessageCounter puts a new counter.
OnStart(m) ==
  /\ mpc[m] = "running"
  /\ counter' = [counter EXCEPT ![msim[m]] = run[msim[m]]]
  /\ Leave(m)
  /\ UNCHANGED <<life, beans, run, handlers>>

\* An endpoint opened later throws (a second broker is down): start calls
\* doStop, and neither onStop nor removeSimulatorBeans.
StartFails(m) ==
  /\ mpc[m] = "opened"
  /\ open' = open \ {msim[m]}
  /\ MGoto(m, "undoing")
  /\ UNCHANGED <<running, cut, beans, counting, handlers>>

StartUndone(m) ==
  /\ mpc[m] = "undoing"
  /\ msim[m] \in Drains => InFlight(msim[m]) = {}
  /\ Leave(m)
  /\ UNCHANGED <<life, beans, counting, handlers>>

\* doStop throws as it undoes the start, which is caught: what it has not come to
\* stays open and at work.
StartUndoThrows(m) ==
  /\ mpc[m] = "opened" /\ msim[m] \in Throws
  /\ open' \in {open, open \ {msim[m]}}
  /\ cut' = cut \cup {msim[m]}
  /\ Leave(m)
  /\ UNCHANGED <<running, beans, counting, handlers>>

\* Mutant of DoStop: it waits for nobody.
DoStopAtOnce(m) ==
  /\ mpc[m] = "stopping"
  /\ open' = open \ {msim[m]}
  /\ MGoto(m, "stopped")
  /\ UNCHANGED <<running, cut, beans, counting, handlers>>

\* Mutant of DoStop: onStop is called first.
DoStopUncounted(m) ==
  /\ mpc[m] = "stopping"
  /\ open' = open \ {msim[m]}
  /\ counter' = [counter EXCEPT ![msim[m]] = Absent]
  /\ MGoto(m, IF msim[m] \in Drains THEN "draining" ELSE "stopped")
  /\ UNCHANGED <<running, cut, beans, run, handlers>>

\* doStop closes the transport; KafkaSubscriber.stop waits for its listener
\* thread, and closing a JMS connection waits for its message listeners.
DoStop(m) ==
  /\ mpc[m] = "stopping"
  /\ open' = open \ {msim[m]}
  /\ MGoto(m, IF msim[m] \in Drains THEN "draining" ELSE "stopped")
  /\ UNCHANGED <<running, cut, beans, counting, handlers>>

Drained(m) ==
  /\ mpc[m] = "draining"
  /\ InFlight(msim[m]) = {}
  /\ MGoto(m, "stopped")
  /\ UNCHANGED <<life, beans, counting, handlers>>

\* KafkaBroker.stop throws at a close: what it has not come to stays open and at
\* work, and the rest of SimSimulator.stop, its finally, is done.
DoStopThrows(m) ==
  /\ mpc[m] = "stopping" /\ msim[m] \in Throws
  /\ open' \in {open, open \ {msim[m]}}
  /\ cut' = cut \cup {msim[m]}
  /\ MGoto(m, "stopped")
  /\ UNCHANGED <<running, beans, counting, handlers>>

\* removeSimulatorBeans takes all beans of the simulator out of the map ...
Mapped(s) == {bean[s][c] : c \in Class} \ {0}
RemoveBeans(m) ==
  LET s == msim[m]
  IN /\ mpc[m] = "stopped"
     /\ bean' = [bean EXCEPT ![s] = [c \in Class |-> 0]]
     /\ removing' = Mapped(s)
     /\ batches' = [batches EXCEPT ![s] = @ \cup ({Mapped(s)} \ {{}})]
     /\ MGoto(m, "removing")
     /\ UNCHANGED <<life, created, onClosed, threw, counting, handlers>>

\* ... and calls onClose of one after the other, outside the map's monitor.
CloseBean(m, b) ==
  /\ mpc[m] = "removing" /\ b \in removing
  /\ onClosed' = [onClosed EXCEPT ![msim[m]] = @ \cup {b}]
  /\ removing' = removing \ {b}
  /\ UNCHANGED <<life, bean, created, batches, threw, counting, managers, handlers>>

BeansClosed(m) ==
  /\ mpc[m] = "removing" /\ removing = {}
  /\ MGoto(m, "uncounting")
  /\ UNCHANGED <<life, beans, counting, handlers>>

\* onClose throws: the exception leaves the loop, the finally and stopSimulator.
\* onStop is not called and running stays set: the simulator can be stopped again.
OnCloseThrows(m, b) ==
  /\ mpc[m] = "removing" /\ b \in removing
  /\ onClosed' = [onClosed EXCEPT ![msim[m]] = @ \cup {b}]
  /\ threw' = [threw EXCEPT ![msim[m]] = @ \cup {b}]
  /\ removing' = {}
  /\ Leave(m)
  /\ UNCHANGED <<life, bean, created, batches, counting, handlers>>

\* onStop: MessageCounter removes the counter.
OnStop(m) ==
  /\ mpc[m] = "uncounting"
  /\ counter' = [counter EXCEPT ![msim[m]] = Absent]
  /\ MGoto(m, "closing")
  /\ UNCHANGED <<life, beans, run, handlers>>

\* script.close, running = false.
SetStopped(m) ==
  /\ mpc[m] = "closing"
  /\ running' = running \ {msim[m]}
  /\ Leave(m)
  /\ UNCHANGED <<open, cut, beans, counting, handlers>>

----------------------------------------------------------------------------
HandlerStep(h) ==
  \/ Match(h) \/ Invoke(h) \/ Convert(h) \/ ReturnText(h) \/ NoResponse(h)
  \/ Respond(h) \/ RespondDirectly(h) \/ GetSimulator(h) \/ Check(h) \/ Fill(h)
  \/ OnHandleMessage(h)

ManagerStep(m) ==
  \/ DoStart(m) \/ PostStart(m) \/ OnStart(m) \/ StartFails(m) \/ StartUndone(m)
  \/ DoStop(m) \/ Drained(m) \/ RemoveBeans(m) \/ (\E b \in Bean : CloseBean(m, b))
  \/ BeansClosed(m) \/ OnStop(m) \/ SetStopped(m)

Throw(m) == StartUndoThrows(m) \/ DoStopThrows(m) \/ (\E b \in Bean : OnCloseThrows(m, b))

Next ==
  \/ \E h \in Handler : (\E s \in Sim : Receive(h, s)) \/ HandlerStep(h)
  \/ \E m \in Manager : \/ \E s \in Sim : StartSimulator(m, s) \/ StopSimulator(m, s)
                        \/ ManagerStep(m)
                        \/ Throw(m)

Spec == Init /\ [][Next]_vars

\* Every thread that can move keeps moving; nothing has to throw.  GetSimulator
\* needs the monitor, which is not fair: it is given to a waiting handler only if
\* it is left idle.
FairSpec ==
  /\ Spec
  /\ \A h \in Handler : WF_vars(HandlerStep(h))
  /\ \A m \in Manager : WF_vars(ManagerStep(m))

----------------------------------------------------------------------------
(* What the parts promise each other.                                      *)

\* A bean in the map has not been closed, and one that is out of it was closed, or
\* a stop is about to, unless an onClose threw: that costs the beans taken out
\* of the map with it, and no other ones, their onClose (BeanRepository: one bean
\* per simulator and class; removeSimulatorBeans).
Abandoned(s, b) == \E B \in batches[s] : b \in B /\ B \cap threw[s] # {}
EveryBeanIsClosed ==
  \A s \in Sim :
    /\ Mapped(s) \cap onClosed[s] = {}
    /\ \A b \in 1 .. created[s] :
         \/ b \in Mapped(s) \cup onClosed[s]
         \/ b \in removing /\ \E m \in Manager : mpc[m] = "removing" /\ msim[m] = s
         \/ Abandoned(s, b)

\* The simulators whose handlers every stop has waited for.
Waited == Drains \ cut

\* The stop of a simulator whose transport drains is clean: no handler is at work
\* when its beans are closed nor when it returns, normally or because an onClose
\* threw, and it leaves no bean behind, if only no doStop of that simulator has
\* thrown (KafkaBroker.stop comes before removeSimulatorBeans in SimSimulator.stop).
DrainedStopIsClean ==
  [][\A m \in Manager :
       /\ mpc[m] \in {"stopped", "removing", "uncounting", "closing"}
       /\ mpc'[m] # mpc[m] /\ msim[m] \in Waited
       => /\ \A c \in Class : bean'[msim[m]][c] = 0
          /\ \A h \in Handler : hsim'[h] # msim[m]]_vars

\* A Kafka or JMS handler that answers through its own simulator never finds it
\* "not running", not even for a message that came before postStart set running
\* or while a stop is under way or has thrown at a bean: the answer is not lost,
\* until a doStop throws.
OwnAnswersPass ==
  \A h \in Handler :
    hpc[h] = "check" /\ hsim[h] \in Waited /\ htarget[h] = hsim[h]
    => hsim[h] \in running

\* A message of a simulator that drains is counted, and by the counter of the
\* run it was received in, unless it is done before its start has come to
\* onStart: neither a stop, one that throws at a bean included, nor a restart
\* takes it from the count or moves it to the next one, until a doStop throws
\* (SimSimulator.start, stop; MessageCounter.onHandleMessage).
Starts(s) == \E m \in Manager : msim[m] = s /\ mpc[m] \in {"opened", "running", "undoing"}
CountedInItsRun ==
  [][\A h \in Handler :
       hpc[h] = "reporting" /\ hpc'[h] = "idle" /\ hsim[h] \in Waited
       => counter[hsim[h]] = hrun[h] \/ Starts(hsim[h])]_vars

\* A stop ends, unless it waits for a handler that itself waits for the monitor
\* the stop holds: nothing else can keep it from returning, neither the beans
\* nor a handler that just takes long.
Embrace(m) == \E h \in Handler : hsim[h] = msim[m] /\ hpc[h] = "lookup" /\ lock = m
StopEndsOrEmbraces ==
  \A m \in Manager : mpc[m] = "stopping" ~> mpc[m] = "idle" \/ Embrace(m)

\* A stop returns (README 6.1: "{$simulatorName}/stop: Stop a simulator").
StopReturns == \A m \in Manager : mpc[m] = "stopping" ~> mpc[m] = "idle"

=============================================================================
