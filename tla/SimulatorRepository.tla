------------------------ MODULE SimulatorRepository ------------------------
(***************************************************************************)
(* The registry of simulators (SimulatorRepository.java) and the life      *)
(* cycle of one simulator object (SimSimulator.java), as driven by the     *)
(* management threads: the main thread that autostarts, the dispatcher of  *)
(* the servicemanagement simulator, the worker of a command line one.      *)
(*                                                                         *)
(* refresh and restart read the script folder BEFORE they take the monitor *)
(* of simulatorMap; every other step of a request runs inside it.          *)
(*                                                                         *)
(* A load of the folder builds one SimScript per valid folder, and each    *)
(* SimScript serves at most one simulator object: the object is therefore  *)
(* named by the pair <<name, load>>.                                       *)
(***************************************************************************)
EXTENDS Integers, FiniteSets

CONSTANTS
  Name,        \* simulator.name of the script folders
  Thread,      \* threads that run management requests
  OwnLib,      \* names whose folder has a lib sub-folder of its own
  RootLib,     \* whether the root script folder has a lib sub-folder
  Root,        \* the owner of the root class loader
  NoThread,    \* nobody owns the monitor
  Edited,      \* bound: the names whose folder changes
  MaxVersion,  \* bound: versions of a folder on disk
  MaxLoad      \* bound: loads of the script folder

ASSUME NamesAssumption ==
  /\ Name # {}
  /\ OwnLib \subseteq Name
  /\ Edited \subseteq Name
  /\ Root \notin Name
  /\ NoThread \notin Thread
ASSUME BoundsAssumption ==
  /\ RootLib \in BOOLEAN
  /\ MaxVersion \in Nat \ {0}
  /\ MaxLoad \in Nat \ {0}

Load == 1 .. MaxLoad
None == 0                             \* a name without simulator in the map

\* "bad": its constructor throws (a mandatory property is missing);
\* "gone": no folder, or an ignored or invalid one.
Content == {"good", "bad", "gone"}
Copy == [ver : 0 .. MaxVersion, content : Content]
NoCopy == [ver |-> 0, content |-> "gone"]

Kind == {"start", "stop", "refresh", "restart"}
\* The step a request is at; Held is the part inside the monitor.
Held == {"held", "starting", "started", "stopping", "closing", "creating"}
Step == {"idle", "loading", "entering"} \cup Held

VARIABLES
  disk,          \* the script folders: the newest version of each
  loads,         \* what each load of the script folder read
  taken,         \* how many loads there were
  simulatorMap,  \* SimulatorRepository.simulatorMap: name -> load of its object
  running,       \* SimSimulator.running: the objects of a name that run
  counters,      \* keys of MessageCounter.counterMap
  closed,        \* SimClassLoaders that were closed
  lock,          \* owner of the monitor of simulatorMap
  pc, kind, target, script,   \* the request of each thread
  asked          \* history: version of the target on disk at the request

registry == <<simulatorMap, running, counters, closed>>
request == <<kind, target, script, asked>>
vars == <<disk, loads, taken, registry, lock, pc, request>>

TypeOK ==
  /\ disk \in [Name -> Copy]
  /\ loads \in [Load -> [Name -> Copy]]
  /\ taken \in 0 .. MaxLoad
  /\ simulatorMap \in [Name -> 0 .. MaxLoad]
  /\ running \in [Name -> SUBSET Load]
  /\ counters \subseteq Name
  /\ closed \subseteq (Name \cup {Root}) \X Load
  /\ lock \in Thread \cup {NoThread}
  /\ pc \in [Thread -> Step]
  /\ kind \in [Thread -> Kind]
  /\ target \in [Thread -> Name]
  /\ script \in [Thread -> 0 .. MaxLoad]
  /\ asked \in [Thread -> 0 .. MaxVersion]

----------------------------------------------------------------------------
\* SimScript.init: the loader of an object is its own, or the parent's.
Loader(n, l) == IF n \in OwnLib THEN <<n, l>> ELSE <<Root, l>>

\* SimScript.close: closes simClassLoader whoever it belongs to; the system
\* class loader is not a SimClassLoader and stays open.
Closes(n, l) == IF n \in OwnLib \/ RootLib THEN {Loader(n, l)} ELSE {}

AnyName == CHOOSE n \in Name : TRUE    \* of a thread without request

\* The constructor's refresh ran before any request.
Init ==
  /\ disk \in [Name -> {[ver |-> 1, content |-> c] : c \in {"good", "gone"}}]
  /\ loads = [l \in Load |-> IF l = 1 THEN disk ELSE [n \in Name |-> NoCopy]]
  /\ taken = 1
  /\ simulatorMap = [n \in Name |-> IF disk[n].content = "good" THEN 1 ELSE None]
  /\ running = [n \in Name |-> {}]
  /\ counters = {n \in Name : disk[n].content = "good"}
  /\ closed = {}
  /\ lock = NoThread
  /\ pc = [t \in Thread |-> "idle"]
  /\ kind = [t \in Thread |-> "start"]
  /\ target = [t \in Thread |-> AnyName]
  /\ script = [t \in Thread |-> None]
  /\ asked = [t \in Thread |-> 0]

----------------------------------------------------------------------------
(* The environment edits, breaks, deletes or restores a script folder.     *)
Edit(n) ==
  /\ n \in Edited
  /\ disk[n].ver < MaxVersion
  /\ \E c \in Content : disk' = [disk EXCEPT ![n] = [ver |-> @.ver + 1, content |-> c]]
  /\ UNCHANGED <<loads, taken, registry, lock, pc, request>>

Request(t, k, n) ==
  /\ pc[t] = "idle"
  /\ pc' = [pc EXCEPT ![t] = IF k \in {"refresh", "restart"} THEN "loading" ELSE "entering"]
  /\ kind' = [kind EXCEPT ![t] = k]
  /\ target' = [target EXCEPT ![t] = n]
  /\ asked' = [asked EXCEPT ![t] = disk[n].ver]
  /\ UNCHANGED <<disk, loads, taken, registry, lock, script>>

\* The request returns, or ends with an exception: its locals are gone.
Forget(t) ==
  /\ pc' = [pc EXCEPT ![t] = "idle"]
  /\ kind' = [kind EXCEPT ![t] = "start"]
  /\ target' = [target EXCEPT ![t] = AnyName]
  /\ script' = [script EXCEPT ![t] = None]
  /\ asked' = [asked EXCEPT ![t] = 0]

\* Mutant of LoadScripts: the scripts of the last load are used again.
LoadScriptsCached(t) ==
  /\ pc[t] = "loading"
  /\ script' = [script EXCEPT ![t] = taken]
  /\ pc' = [pc EXCEPT ![t] = "entering"]
  /\ UNCHANGED <<disk, loads, taken, registry, lock, kind, target, asked>>

\* loadScripts outside the monitor.
LoadScripts(t) ==
  /\ pc[t] = "loading"
  /\ taken < MaxLoad
  /\ taken' = taken + 1
  /\ loads' = [loads EXCEPT ![taken + 1] = disk]
  /\ script' = [script EXCEPT ![t] = taken + 1]
  /\ pc' = [pc EXCEPT ![t] = "entering"]
  /\ UNCHANGED <<disk, registry, lock, kind, target, asked>>

\* A malformed script of any folder fails the whole load with an IOException.
LoadFails(t) ==
  /\ pc[t] = "loading"
  /\ Forget(t)
  /\ UNCHANGED <<disk, loads, taken, registry, lock>>

Enter(t) ==
  /\ pc[t] = "entering"
  /\ lock = NoThread
  /\ lock' = t
  /\ pc' = [pc EXCEPT ![t] = "held"]
  /\ UNCHANGED <<disk, loads, taken, registry, request>>

Leave(t) ==
  /\ lock' = NoThread
  /\ Forget(t)

Goto(t, step) ==
  /\ pc' = [pc EXCEPT ![t] = step]
  /\ UNCHANGED <<lock, request>>

\* The object the monitor's owner works on: isRunning() of the mapped one.
IsRunning(n) == simulatorMap[n] \in running[n]

----------------------------------------------------------------------------
(* Inside the monitor.                                                     *)

\* startSimulator, stopSimulator: no such simulator, or nothing to do.
Nothing(t) ==
  /\ pc[t] = "held"
  /\ \/ kind[t] = "start" /\ (simulatorMap[target[t]] = None \/ IsRunning(target[t]))
     \/ kind[t] = "stop" /\ ~IsRunning(target[t])
  /\ Leave(t)
  /\ UNCHANGED <<disk, loads, taken, registry>>

StartSimulator(t) ==
  /\ pc[t] = "held"
  /\ kind[t] = "start"
  /\ simulatorMap[target[t]] # None
  /\ ~IsRunning(target[t])
  /\ Goto(t, "starting")
  /\ UNCHANGED <<disk, loads, taken, registry>>

\* stopSimulator of a running one, and the first half of restartSimulator.
StopSimulator(t) ==
  /\ pc[t] = "held"
  /\ kind[t] \in {"stop", "restart"}
  /\ IsRunning(target[t])
  /\ Goto(t, "stopping")
  /\ UNCHANGED <<disk, loads, taken, registry>>

RestartStopped(t) ==
  /\ pc[t] = "held"
  /\ kind[t] = "restart"
  /\ ~IsRunning(target[t])
  /\ Goto(t, "creating")
  /\ UNCHANGED <<disk, loads, taken, registry>>

\* Mutants of Kept and Lacking: the running ones are dropped as well; what to
\* create is decided before the others are dropped.
KeptNone == {}
LackingBefore(l) == {n \in Name : simulatorMap[n] = None /\ loads[l][n].content # "gone"}

\* refresh: drop what does not run, then create what the map lacks; the first
\* constructor that throws ends the loop, in the order the folder is listed.
Kept == {n \in Name : IsRunning(n)}
Lacking(l) == {n \in Name \ Kept : loads[l][n].content # "gone"}
Broken(l) == {n \in Lacking(l) : loads[l][n].content = "bad"}

Refresh(t) ==
  LET l == script[t]
  IN /\ pc[t] = "held"
     /\ kind[t] = "refresh"
     /\ \E created \in SUBSET (Lacking(l) \ Broken(l)) :
          /\ Broken(l) = {} => created = Lacking(l)
          /\ simulatorMap' = [n \in Name |-> IF n \in created THEN l
                                             ELSE IF n \in Kept THEN simulatorMap[n]
                                             ELSE None]
          /\ counters' = counters \cup created
     /\ Leave(t)
     /\ UNCHANGED <<disk, loads, taken, running, closed>>

\* restartSimulator after the stop: findFirst, createSimulator, put.
Create(t) ==
  LET n == target[t]
      l == script[t]
  IN /\ pc[t] = "creating"
     /\ loads[l][n].content = "good"
     /\ simulatorMap' = [simulatorMap EXCEPT ![n] = l]
     /\ counters' = counters \cup {n}
     /\ Goto(t, "starting")
     /\ UNCHANGED <<disk, loads, taken, running, closed>>

\* No such simulator any more, or its constructor throws: the old object,
\* already stopped, stays in the map.
CreateFails(t) ==
  /\ pc[t] = "creating"
  /\ loads[script[t]][target[t]].content # "good"
  /\ Leave(t)
  /\ UNCHANGED <<disk, loads, taken, registry>>

----------------------------------------------------------------------------
(* SimSimulator.start and stop of the mapped object.                       *)

\* doStart, then running = true in postStart.
DoStart(t) ==
  LET n == target[t]
  IN /\ pc[t] = "starting"
     /\ running' = [running EXCEPT ![n] = @ \cup {simulatorMap[n]}]
     /\ Goto(t, "started")
     /\ UNCHANGED <<disk, loads, taken, simulatorMap, counters, closed>>

\* A listener or doStart throws: doStop, and the exception leaves the monitor.
StartFails(t) ==
  /\ pc[t] = "starting"
  /\ Leave(t)
  /\ UNCHANGED <<disk, loads, taken, registry>>

\* Mutant of OnStart: a start does not call onStart.
OnStartSilent(t) ==
  /\ pc[t] = "started"
  /\ Leave(t)
  /\ UNCHANGED <<disk, loads, taken, registry>>

\* onStart reaches MessageCounter, which puts a new counter.
OnStart(t) ==
  /\ pc[t] = "started"
  /\ counters' = counters \cup {target[t]}
  /\ Leave(t)
  /\ UNCHANGED <<disk, loads, taken, simulatorMap, running, closed>>

\* removeSimulatorBeans throws at a bean's onClose: nothing after it is done, the
\* object stays registered and running, and a restart ends here.
StopThrows(t) ==
  /\ pc[t] = "stopping"
  /\ Leave(t)
  /\ UNCHANGED <<disk, loads, taken, registry>>

\* doStop, removeSimulatorBeans, onStop: MessageCounter removes the counter.
OnStop(t) ==
  /\ pc[t] = "stopping"
  /\ counters' = counters \ {target[t]}
  /\ Goto(t, "closing")
  /\ UNCHANGED <<disk, loads, taken, simulatorMap, running, closed>>

\* script.close, running = false.  If doStop had thrown, its exception goes on
\* after this finally block and a restart ends here as well.
Close(t) ==
  LET n == target[t]
      l == simulatorMap[n]
  IN /\ pc[t] = "closing"
     /\ closed' = closed \cup Closes(n, l)
     /\ running' = [running EXCEPT ![n] = @ \ {l}]
     /\ \/ Leave(t)
        \/ kind[t] = "restart" /\ Goto(t, "creating")
     /\ UNCHANGED <<disk, loads, taken, simulatorMap, counters>>

----------------------------------------------------------------------------
HeldStep(t) ==
  \/ Nothing(t) \/ StartSimulator(t) \/ StopSimulator(t) \/ RestartStopped(t)
  \/ Refresh(t) \/ Create(t) \/ CreateFails(t)
  \/ DoStart(t) \/ StartFails(t) \/ OnStart(t)
  \/ StopThrows(t) \/ OnStop(t) \/ Close(t)

Next ==
  \/ \E n \in Name : Edit(n)
  \/ \E t \in Thread :
       \/ \E k \in Kind, n \in Name : Request(t, k, n)
       \/ LoadScripts(t) \/ LoadFails(t) \/ Enter(t)
       \/ HeldStep(t)

Spec == Init /\ [][Next]_vars

----------------------------------------------------------------------------
(* What the registry promises.                                             *)

\* A simulator object that runs is the one registered under its name: at most
\* one runs per name, and every running one can still be stopped, whatever
\* refreshes and restarts interleave (SimulatorRepository.refresh, restart).
RunningIsRegistered == \A n \in Name : running[n] \subseteq {simulatorMap[n]}

\* Whenever no request is inside the monitor, each running simulator has a
\* counter in MessageCounter, so its messages are counted (createSimulator,
\* postStart and stop each touch the map of counters).
CounterWhileRunning ==
  lock = NoThread => \A n \in Name : IsRunning(n) => n \in counters

\* restartSimulator installs settings at least as new as those on disk when
\* the restart was requested, whatever the other threads do meanwhile.
RestartIsFresh ==
  [][\A t \in Thread : pc[t] = "creating" /\ pc'[t] = "starting" =>
       LET n == target[t] IN loads[simulatorMap'[n]][n].ver >= asked[t]]_vars

\* refresh and restart lose a registered simulator whose folder was loaded in
\* good order only when another folder of that load is broken.
OnlyBrokenLoadsLose ==
  [][\A t \in Thread, n \in Name :
       /\ lock = t
       /\ simulatorMap[n] # None
       /\ simulatorMap'[n] = None
       /\ loads[script[t]][n].content = "good"
       => \E m \in Name \ {n} : loads[script[t]][m].content = "bad"]_vars

\* What a restart puts into the map works with a class loader that is open and
\* that no other simulator in the map uses, one without a lib folder included:
\* it undoes a stop that closed its loader, its own or another one's
\* (restartSimulator; SimScript.init, close).
RestartIsolates ==
  [][\A t \in Thread : pc[t] = "creating" /\ pc'[t] = "starting" =>
       LET n == target[t]
           l == simulatorMap'[n]
       IN /\ Loader(n, l) \notin closed
          /\ \A m \in Name \ {n} :
               simulatorMap[m] # None => Loader(m, simulatorMap[m]) # Loader(n, l)]_vars

\* Settings never go backwards: a registered simulator is replaced by one from
\* the same or a newer version of its folder (README 6.1: "Restart simulator
\* with updated settings").
SettingsNeverGoBack ==
  [][\A n \in Name :
       simulatorMap[n] # None /\ simulatorMap'[n] # None
       => loads[simulatorMap'[n]][n].ver >= loads[simulatorMap[n]][n].ver]_vars

=============================================================================
