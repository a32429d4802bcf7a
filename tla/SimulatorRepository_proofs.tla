--------------------- MODULE SimulatorRepository_proofs ---------------------
(***************************************************************************)
(* Proofs about SimulatorRepository for every set of names and threads and *)
(* for every bound on versions and loads.                                  *)
(***************************************************************************)
EXTENDS SimulatorRepository, TLAPS

(* The strengthening of RunningIsRegistered and CounterWhileRunning: the   *)
(* invariants only hold together with the exclusion of the monitor and     *)
(* what each step inside it may rely on.                                   *)
Exclusion == \A t \in Thread : pc[t] \in Held <=> lock = t

Relies(t) ==
  /\ pc[t] = "starting" => simulatorMap[target[t]] # None /\ ~IsRunning(target[t])
  /\ pc[t] \in {"started", "stopping", "closing"} => IsRunning(target[t])
  /\ pc[t] = "creating" => ~IsRunning(target[t])

HasScript(t) ==
  /\ pc[t] = "loading" => kind[t] \in {"refresh", "restart"}
  /\ pc[t] = "creating" => kind[t] = "restart"
  /\ pc[t] \in {"entering"} \cup Held /\ kind[t] \in {"refresh", "restart"}
       => script[t] \in 1 .. taken

Counted ==
  \A n \in Name : IsRunning(n) =>
    n \in counters \/ \E t \in Thread : target[t] = n /\ pc[t] \in {"started", "closing"}

Fresh(t) ==
  kind[t] = "restart" =>
    /\ pc[t] = "loading" => asked[t] <= disk[target[t]].ver
    /\ pc[t] \in {"entering", "held", "stopping", "closing", "creating"}
         => asked[t] <= loads[script[t]][target[t]].ver

\* No two requests work with the same load, and what a restart has read is not
\* in use before it is installed.
Ahead == {"entering", "held", "stopping", "closing", "creating"}
Known ==
  /\ \A n \in Name : simulatorMap[n] <= taken
  /\ \A t \in Thread : script[t] <= taken
  /\ \A c \in closed : c[2] <= taken
Unused(l) == (\A n \in Name : simulatorMap[n] # l) /\ (\A c \in closed : c[2] # l)
Apart == \A t, u \in Thread : t # u /\ script[t] # None => script[t] # script[u]
Solo(t) == kind[t] = "restart" /\ pc[t] \in Ahead => Unused(script[t])

Inv ==
  /\ TypeOK
  /\ Exclusion
  /\ \A t \in Thread : Relies(t)
  /\ \A t \in Thread : HasScript(t)
  /\ RunningIsRegistered
  /\ Counted
  /\ \A t \in Thread : Fresh(t)
  /\ Known /\ Apart
  /\ \A t \in Thread : Solo(t)

----------------------------------------------------------------------------
(* There is a name to choose.                                              *)
LEMMA AnyNameIsName == AnyName \in Name
BY NamesAssumption DEF AnyName

(* What a refresh does to the names. *)
LEMMA RefreshEffect ==
  ASSUME NEW t \in Thread, Refresh(t), TypeOK
  PROVE  /\ \A n \in Name : IsRunning(n) => simulatorMap'[n] = simulatorMap[n]
         /\ \A n \in Name : simulatorMap'[n] \in {simulatorMap[n], script[t], None}
         /\ simulatorMap' \in [Name -> 0 .. MaxLoad]
         /\ running' = running
         /\ counters \subseteq counters'
         /\ counters' \subseteq Name
<1>1. PICK created \in SUBSET (Lacking(script[t]) \ Broken(script[t])) :
        /\ simulatorMap' = [n \in Name |-> IF n \in created THEN script[t]
                                           ELSE IF n \in Kept THEN simulatorMap[n]
                                           ELSE None]
        /\ counters' = counters \cup created
  BY DEF Refresh
<1>2. created \subseteq Name \ Kept
  BY DEF Lacking
<1>3. script[t] \in 0 .. MaxLoad /\ None \in 0 .. MaxLoad
  BY BoundsAssumption DEF TypeOK, None
<1>4. QED
  BY <1>1, <1>2, <1>3 DEF Refresh, Kept, TypeOK

(* Every step keeps the types.                                             *)
LEMMA TypeStep == Inv /\ [Next]_vars => TypeOK'
<1> SUFFICES ASSUME Inv, [Next]_vars PROVE TypeOK'
  OBVIOUS
<1> USE AnyNameIsName, BoundsAssumption DEF Inv
<1>1. ASSUME NEW n \in Name, Edit(n) PROVE TypeOK'
  <2>1. \A c \in Content : [ver |-> disk[n].ver + 1, content |-> c] \in Copy
    BY <1>1 DEF Edit, TypeOK, Copy
  <2>2. disk' \in [Name -> Copy]
    BY <1>1, <2>1 DEF Edit, TypeOK
  <2>3. QED
    BY <1>1, <2>2 DEF Edit, registry, request, TypeOK
<1>2. ASSUME NEW t \in Thread, NEW k \in Kind, NEW n \in Name, Request(t, k, n) PROVE TypeOK'
  <2>1. disk[n].ver \in 0 .. MaxVersion
    BY DEF TypeOK, Copy
  <2>2. QED
    BY <1>2, <2>1 DEF Request, registry, TypeOK, Kind, Held, Step
<1>3. ASSUME NEW t \in Thread, LoadScripts(t) PROVE TypeOK'
  <2>1. taken + 1 \in Load
    BY <1>3 DEF LoadScripts, TypeOK, Load
  <2>2. QED
    BY <1>3, <2>1 DEF LoadScripts, registry, TypeOK, Held, Step, Load
<1>4. ASSUME NEW t \in Thread, LoadFails(t) PROVE TypeOK'
  BY <1>4 DEF LoadFails, Forget, registry, request, TypeOK, Kind, Held, Step, Load, None
<1>5. ASSUME NEW t \in Thread, Enter(t) PROVE TypeOK'
  BY <1>5 DEF Enter, registry, request, TypeOK, Kind, Held, Step, Load, None
<1>6. ASSUME NEW t \in Thread, Nothing(t) PROVE TypeOK'
  BY <1>6 DEF Nothing, Leave, Forget, registry, request, TypeOK, Kind, Held, Step, Load, None
<1>7. ASSUME NEW t \in Thread, StartSimulator(t) PROVE TypeOK'
  BY <1>7 DEF StartSimulator, Goto, registry, request, TypeOK, Kind, Held, Step, Load, None
<1>8. ASSUME NEW t \in Thread, StopSimulator(t) PROVE TypeOK'
  BY <1>8 DEF StopSimulator, Goto, registry, request, TypeOK, Kind, Held, Step, Load, None
<1>9. ASSUME NEW t \in Thread, RestartStopped(t) PROVE TypeOK'
  BY <1>9 DEF RestartStopped, Goto, registry, request, TypeOK, Kind, Held, Step, Load, None
<1>10. ASSUME NEW t \in Thread, Refresh(t) PROVE TypeOK'
  <2>1. simulatorMap' \in [Name -> 0 .. MaxLoad] /\ counters' \subseteq Name
    BY <1>10, RefreshEffect
  <2>2. UNCHANGED <<disk, loads, taken, running, closed>> /\ Leave(t)
    BY <1>10 DEF Refresh
  <2>3. QED
    BY <2>1, <2>2 DEF Leave, Forget, TypeOK, Kind, Held, Step, None
<1>11. ASSUME NEW t \in Thread, Create(t) PROVE TypeOK'
  BY <1>11 DEF Create, Goto, registry, request, TypeOK, Kind, Held, Step, Load, None
<1>12. ASSUME NEW t \in Thread, CreateFails(t) PROVE TypeOK'
  BY <1>12 DEF CreateFails, Leave, Forget, registry, request, TypeOK, Kind, Held, Step, Load, None
<1>13. ASSUME NEW t \in Thread, DoStart(t) PROVE TypeOK'
  <2>1. simulatorMap[target[t]] \in Load
    BY <1>13 DEF DoStart, Relies, TypeOK, Load, None
  <2>2. QED
    BY <1>13, <2>1 DEF DoStart, Goto, request, TypeOK, Held, Step
<1>14. ASSUME NEW t \in Thread, StartFails(t) PROVE TypeOK'
  BY <1>14 DEF StartFails, Leave, Forget, registry, request, TypeOK, Kind, Held, Step, Load, None
<1>20. ASSUME NEW t \in Thread, StopThrows(t) PROVE TypeOK'
  BY <1>20 DEF StopThrows, Leave, Forget, registry, request, TypeOK, Kind, Held, Step, Load, None
<1>15. ASSUME NEW t \in Thread, OnStart(t) PROVE TypeOK'
  BY <1>15 DEF OnStart, Leave, Forget, registry, request, TypeOK, Kind, Held, Step, Load, None
<1>16. ASSUME NEW t \in Thread, OnStop(t) PROVE TypeOK'
  BY <1>16 DEF OnStop, Goto, registry, request, TypeOK, Kind, Held, Step, Load, None
<1>17. ASSUME NEW t \in Thread, Close(t) PROVE TypeOK'
  <2>1. simulatorMap[target[t]] \in Load
    BY <1>17 DEF Close, Relies, IsRunning, TypeOK
  <2>2. Closes(target[t], simulatorMap[target[t]]) \subseteq (Name \cup {Root}) \X Load
    BY <1>17, <2>1 DEF Closes, Loader, TypeOK
  <2>3. closed' \subseteq (Name \cup {Root}) \X Load /\ running' \in [Name -> SUBSET Load]
    BY <1>17, <2>2 DEF Close, TypeOK
  <2>4. CASE Leave(t)
    BY <1>17, <2>3, <2>4 DEF Close, Leave, Forget, TypeOK, Kind, Held, Step, None
  <2>5. CASE Goto(t, "creating")
    BY <1>17, <2>3, <2>5 DEF Close, Goto, request, TypeOK, Held, Step
  <2>6. QED
    BY <1>17, <2>4, <2>5 DEF Close
<1>18. CASE UNCHANGED vars
  BY <1>18 DEF vars, registry, request, TypeOK, Kind, Held, Step, Load, None
<1>19. QED
  BY <1>1, <1>2, <1>3, <1>4, <1>5, <1>6, <1>7, <1>8, <1>9,
     <1>10, <1>11, <1>12, <1>13, <1>14, <1>15, <1>16, <1>17, <1>18, <1>20 DEF Next, HeldStep

(* Every step keeps the monitor exclusive.                                 *)
LEMMA ExclusionStep == Inv /\ [Next]_vars => Exclusion'
<1> SUFFICES ASSUME Inv, [Next]_vars PROVE Exclusion'
  OBVIOUS
<1> USE AnyNameIsName, BoundsAssumption, NamesAssumption DEF Inv
<1>1. ASSUME NEW n \in Name, Edit(n) PROVE Exclusion'
  BY <1>1 DEF Edit, registry, request, Exclusion, TypeOK, Held, Step
<1>2. ASSUME NEW t \in Thread, NEW k \in Kind, NEW n \in Name, Request(t, k, n) PROVE Exclusion'
  BY <1>2 DEF Request, registry, request, Exclusion, TypeOK, Held, Step
<1>3. ASSUME NEW t \in Thread, LoadScripts(t) PROVE Exclusion'
  BY <1>3 DEF LoadScripts, registry, request, Exclusion, TypeOK, Held, Step
<1>4. ASSUME NEW t \in Thread, LoadFails(t) PROVE Exclusion'
  BY <1>4 DEF LoadFails, Forget, registry, request, Exclusion, TypeOK, Held, Step
<1>5. ASSUME NEW t \in Thread, Enter(t) PROVE Exclusion'
  BY <1>5 DEF Enter, registry, request, Exclusion, TypeOK, Held, Step
<1>6. ASSUME NEW t \in Thread, Nothing(t) PROVE Exclusion'
  BY <1>6 DEF Nothing, Leave, Forget, registry, request, Exclusion, TypeOK, Held, Step
<1>7. ASSUME NEW t \in Thread, StartSimulator(t) PROVE Exclusion'
  BY <1>7 DEF StartSimulator, Goto, registry, request, Exclusion, TypeOK, Held, Step
<1>8. ASSUME NEW t \in Thread, StopSimulator(t) PROVE Exclusion'
  BY <1>8 DEF StopSimulator, Goto, registry, request, Exclusion, TypeOK, Held, Step
<1>9. ASSUME NEW t \in Thread, RestartStopped(t) PROVE Exclusion'
  BY <1>9 DEF RestartStopped, Goto, registry, request, Exclusion, TypeOK, Held, Step
<1>10. ASSUME NEW t \in Thread, Refresh(t) PROVE Exclusion'
  BY <1>10 DEF Refresh, Leave, Forget, registry, request, Exclusion, TypeOK, Held, Step
<1>11. ASSUME NEW t \in Thread, Create(t) PROVE Exclusion'
  BY <1>11 DEF Create, Goto, registry, request, Exclusion, TypeOK, Held, Step
<1>12. ASSUME NEW t \in Thread, CreateFails(t) PROVE Exclusion'
  BY <1>12 DEF CreateFails, Leave, Forget, registry, request, Exclusion, TypeOK, Held, Step
<1>13. ASSUME NEW t \in Thread, DoStart(t) PROVE Exclusion'
  BY <1>13 DEF DoStart, Goto, registry, request, Exclusion, TypeOK, Held, Step
<1>14. ASSUME NEW t \in Thread, StartFails(t) PROVE Exclusion'
  BY <1>14 DEF StartFails, Leave, Forget, registry, request, Exclusion, TypeOK, Held, Step
<1>20. ASSUME NEW t \in Thread, StopThrows(t) PROVE Exclusion'
  BY <1>20 DEF StopThrows, Leave, Forget, registry, request, Exclusion, TypeOK, Held, Step
<1>15. ASSUME NEW t \in Thread, OnStart(t) PROVE Exclusion'
  BY <1>15 DEF OnStart, Leave, Forget, registry, request, Exclusion, TypeOK, Held, Step
<1>16. ASSUME NEW t \in Thread, OnStop(t) PROVE Exclusion'
  BY <1>16 DEF OnStop, Goto, registry, request, Exclusion, TypeOK, Held, Step
<1>17. ASSUME NEW t \in Thread, Close(t) PROVE Exclusion'
  BY <1>17 DEF Close, Leave, Forget, Goto, registry, request, Exclusion, TypeOK, Held, Step
<1>18. CASE UNCHANGED vars
  BY <1>18 DEF vars, registry, request, Exclusion, TypeOK, Held, Step
<1>19. QED
  BY <1>1, <1>2, <1>3, <1>4, <1>5, <1>6, <1>7, <1>8, <1>9,
     <1>10, <1>11, <1>12, <1>13, <1>14, <1>15, <1>16, <1>17, <1>18, <1>20 DEF Next, HeldStep

(* No step lets an object run that is not registered.                      *)
LEMMA RegisteredStep == Inv /\ [Next]_vars => RunningIsRegistered'
<1> SUFFICES ASSUME Inv, [Next]_vars PROVE RunningIsRegistered'
  OBVIOUS
<1> USE AnyNameIsName, BoundsAssumption DEF Inv
<1>1. ASSUME NEW n \in Name, Edit(n) PROVE RunningIsRegistered'
  BY <1>1 DEF Edit, registry, request, RunningIsRegistered, TypeOK, Relies, IsRunning
<1>2. ASSUME NEW t \in Thread, NEW k \in Kind, NEW n \in Name, Request(t, k, n) PROVE RunningIsRegistered'
  BY <1>2 DEF Request, registry, request, RunningIsRegistered, TypeOK, Relies, IsRunning
<1>3. ASSUME NEW t \in Thread, LoadScripts(t) PROVE RunningIsRegistered'
  BY <1>3 DEF LoadScripts, registry, request, RunningIsRegistered, TypeOK, Relies, IsRunning
<1>4. ASSUME NEW t \in Thread, LoadFails(t) PROVE RunningIsRegistered'
  BY <1>4 DEF LoadFails, Forget, registry, request, RunningIsRegistered, TypeOK, Relies, IsRunning
<1>5. ASSUME NEW t \in Thread, Enter(t) PROVE RunningIsRegistered'
  BY <1>5 DEF Enter, registry, request, RunningIsRegistered, TypeOK, Relies, IsRunning
<1>6. ASSUME NEW t \in Thread, Nothing(t) PROVE RunningIsRegistered'
  BY <1>6 DEF Nothing, Leave, Forget, registry, request, RunningIsRegistered, TypeOK, Relies, IsRunning
<1>7. ASSUME NEW t \in Thread, StartSimulator(t) PROVE RunningIsRegistered'
  BY <1>7 DEF StartSimulator, Goto, registry, request, RunningIsRegistered, TypeOK, Relies, IsRunning
<1>8. ASSUME NEW t \in Thread, StopSimulator(t) PROVE RunningIsRegistered'
  BY <1>8 DEF StopSimulator, Goto, registry, request, RunningIsRegistered, TypeOK, Relies, IsRunning
<1>9. ASSUME NEW t \in Thread, RestartStopped(t) PROVE RunningIsRegistered'
  BY <1>9 DEF RestartStopped, Goto, registry, request, RunningIsRegistered, TypeOK, Relies, IsRunning
<1>10. ASSUME NEW t \in Thread, Refresh(t) PROVE RunningIsRegistered'
  <2> SUFFICES ASSUME NEW n \in Name PROVE running'[n] \subseteq {simulatorMap'[n]}
    BY DEF RunningIsRegistered
  <2>1. CASE IsRunning(n)
    BY <1>10, <2>1, RefreshEffect DEF RunningIsRegistered
  <2>2. CASE ~IsRunning(n)
    BY <1>10, <2>2, RefreshEffect DEF RunningIsRegistered, IsRunning
  <2>3. QED
    BY <2>1, <2>2
<1>11. ASSUME NEW t \in Thread, Create(t) PROVE RunningIsRegistered'
  BY <1>11 DEF Create, Goto, registry, request, RunningIsRegistered, TypeOK, Relies, IsRunning
<1>12. ASSUME NEW t \in Thread, CreateFails(t) PROVE RunningIsRegistered'
  BY <1>12 DEF CreateFails, Leave, Forget, registry, request, RunningIsRegistered, TypeOK, Relies, IsRunning
<1>13. ASSUME NEW t \in Thread, DoStart(t) PROVE RunningIsRegistered'
  BY <1>13 DEF DoStart, Goto, registry, request, RunningIsRegistered, TypeOK, Relies, IsRunning
<1>14. ASSUME NEW t \in Thread, StartFails(t) PROVE RunningIsRegistered'
  BY <1>14 DEF StartFails, Leave, Forget, registry, request, RunningIsRegistered, TypeOK, Relies, IsRunning
<1>20. ASSUME NEW t \in Thread, StopThrows(t) PROVE RunningIsRegistered'
  BY <1>20 DEF StopThrows, Leave, Forget, registry, request, RunningIsRegistered, TypeOK, Relies, IsRunning
<1>15. ASSUME NEW t \in Thread, OnStart(t) PROVE RunningIsRegistered'
  BY <1>15 DEF OnStart, Leave, Forget, registry, request, RunningIsRegistered, TypeOK, Relies, IsRunning
<1>16. ASSUME NEW t \in Thread, OnStop(t) PROVE RunningIsRegistered'
  BY <1>16 DEF OnStop, Goto, registry, request, RunningIsRegistered, TypeOK, Relies, IsRunning
<1>17. ASSUME NEW t \in Thread, Close(t) PROVE RunningIsRegistered'
  BY <1>17 DEF Close, Leave, Forget, Goto, registry, request, RunningIsRegistered, TypeOK, Relies, IsRunning
<1>18. CASE UNCHANGED vars
  BY <1>18 DEF vars, registry, request, RunningIsRegistered, TypeOK, Relies, IsRunning
<1>19. QED
  BY <1>1, <1>2, <1>3, <1>4, <1>5, <1>6, <1>7, <1>8, <1>9,
     <1>10, <1>11, <1>12, <1>13, <1>14, <1>15, <1>16, <1>17, <1>18, <1>20 DEF Next, HeldStep

(* Every step leaves each request what its next step relies on.            *)
LEMMA ReliesStep == Inv /\ [Next]_vars => (\A u \in Thread : Relies(u))'
<1> SUFFICES ASSUME Inv, [Next]_vars PROVE (\A u \in Thread : Relies(u))'
  OBVIOUS
<1> USE AnyNameIsName, BoundsAssumption DEF Inv
<1>1. ASSUME NEW n \in Name, Edit(n) PROVE (\A u \in Thread : Relies(u))'
  BY <1>1 DEF Edit, registry, request, Relies, TypeOK, Exclusion, Held, Step, None, IsRunning
<1>2. ASSUME NEW t \in Thread, NEW k \in Kind, NEW n \in Name, Request(t, k, n) PROVE (\A u \in Thread : Relies(u))'
  BY <1>2 DEF Request, registry, request, Relies, TypeOK, Exclusion, Held, Step, None, IsRunning
<1>3. ASSUME NEW t \in Thread, LoadScripts(t) PROVE (\A u \in Thread : Relies(u))'
  BY <1>3 DEF LoadScripts, registry, request, Relies, TypeOK, Exclusion, Held, Step, None, IsRunning
<1>4. ASSUME NEW t \in Thread, LoadFails(t) PROVE (\A u \in Thread : Relies(u))'
  BY <1>4 DEF LoadFails, Forget, registry, request, Relies, TypeOK, Exclusion, Held, Step, None, IsRunning
<1>5. ASSUME NEW t \in Thread, Enter(t) PROVE (\A u \in Thread : Relies(u))'
  BY <1>5 DEF Enter, registry, request, Relies, TypeOK, Exclusion, Held, Step, None, IsRunning
<1>6. ASSUME NEW t \in Thread, Nothing(t) PROVE (\A u \in Thread : Relies(u))'
  BY <1>6 DEF Nothing, Leave, Forget, registry, request, Relies, TypeOK, Exclusion, Held, Step, None, IsRunning
<1>7. ASSUME NEW t \in Thread, StartSimulator(t) PROVE (\A u \in Thread : Relies(u))'
  BY <1>7 DEF StartSimulator, Goto, registry, request, Relies, TypeOK, Exclusion, Held, Step, None, IsRunning
<1>8. ASSUME NEW t \in Thread, StopSimulator(t) PROVE (\A u \in Thread : Relies(u))'
  BY <1>8 DEF StopSimulator, Goto, registry, request, Relies, TypeOK, Exclusion, Held, Step, None, IsRunning
<1>9. ASSUME NEW t \in Thread, RestartStopped(t) PROVE (\A u \in Thread : Relies(u))'
  BY <1>9 DEF RestartStopped, Goto, registry, request, Relies, TypeOK, Exclusion, Held, Step, None, IsRunning
<1>10. ASSUME NEW t \in Thread, Refresh(t) PROVE (\A u \in Thread : Relies(u))'
  <2> SUFFICES ASSUME NEW u \in Thread PROVE Relies(u)'
    OBVIOUS
  <2>1. pc'[u] \notin Held
    BY <1>10 DEF Refresh, Leave, Forget, TypeOK, Exclusion, Held
  <2>2. QED
    BY <2>1 DEF Relies, Held
<1>11. ASSUME NEW t \in Thread, Create(t) PROVE (\A u \in Thread : Relies(u))'
  <2> SUFFICES ASSUME NEW u \in Thread PROVE Relies(u)'
    OBVIOUS
  <2>1. CASE u = t
    <3>1. running[target[t]] = {}
      BY <1>11 DEF Create, Relies, IsRunning, RunningIsRegistered, TypeOK
    <3>2. script[t] # None
      BY <1>11 DEF Create, HasScript, Held, None
    <3>3. QED
      BY <1>11, <2>1, <3>1, <3>2 DEF Create, Goto, request, Relies, TypeOK, IsRunning
  <2>2. CASE u # t
    BY <1>11, <2>2 DEF Create, Goto, request, Relies, TypeOK, Exclusion, Held
  <2>3. QED
    BY <2>1, <2>2
<1>12. ASSUME NEW t \in Thread, CreateFails(t) PROVE (\A u \in Thread : Relies(u))'
  BY <1>12 DEF CreateFails, Leave, Forget, registry, request, Relies, TypeOK, Exclusion, Held, Step, None, IsRunning
<1>13. ASSUME NEW t \in Thread, DoStart(t) PROVE (\A u \in Thread : Relies(u))'
  BY <1>13 DEF DoStart, Goto, registry, request, Relies, TypeOK, Exclusion, Held, Step, None, IsRunning
<1>14. ASSUME NEW t \in Thread, StartFails(t) PROVE (\A u \in Thread : Relies(u))'
  BY <1>14 DEF StartFails, Leave, Forget, registry, request, Relies, TypeOK, Exclusion, Held, Step, None, IsRunning
<1>20. ASSUME NEW t \in Thread, StopThrows(t) PROVE (\A u \in Thread : Relies(u))'
  BY <1>20 DEF StopThrows, Leave, Forget, registry, request, Relies, TypeOK, Exclusion, Held, Step, None, IsRunning
<1>15. ASSUME NEW t \in Thread, OnStart(t) PROVE (\A u \in Thread : Relies(u))'
  BY <1>15 DEF OnStart, Leave, Forget, registry, request, Relies, TypeOK, Exclusion, Held, Step, None, IsRunning
<1>16. ASSUME NEW t \in Thread, OnStop(t) PROVE (\A u \in Thread : Relies(u))'
  BY <1>16 DEF OnStop, Goto, registry, request, Relies, TypeOK, Exclusion, Held, Step, None, IsRunning
<1>17. ASSUME NEW t \in Thread, Close(t) PROVE (\A u \in Thread : Relies(u))'
  BY <1>17 DEF Close, Leave, Forget, Goto, registry, request, Relies, TypeOK, Exclusion, Held, Step, None, IsRunning
<1>18. CASE UNCHANGED vars
  BY <1>18 DEF vars, registry, request, Relies, TypeOK, Exclusion, Held, Step, None, IsRunning
<1>19. QED
  BY <1>1, <1>2, <1>3, <1>4, <1>5, <1>6, <1>7, <1>8, <1>9,
     <1>10, <1>11, <1>12, <1>13, <1>14, <1>15, <1>16, <1>17, <1>18, <1>20 DEF Next, HeldStep

(* A refresh or restart past its load has a load of its own.               *)
LEMMA HasScriptStep == Inv /\ [Next]_vars => (\A u \in Thread : HasScript(u))'
<1> SUFFICES ASSUME Inv, [Next]_vars PROVE (\A u \in Thread : HasScript(u))'
  OBVIOUS
<1> USE AnyNameIsName, BoundsAssumption DEF Inv
<1>1. ASSUME NEW n \in Name, Edit(n) PROVE (\A u \in Thread : HasScript(u))'
  BY <1>1 DEF Edit, registry, request, HasScript, TypeOK, Held, Step, Kind
<1>2. ASSUME NEW t \in Thread, NEW k \in Kind, NEW n \in Name, Request(t, k, n) PROVE (\A u \in Thread : HasScript(u))'
  BY <1>2 DEF Request, registry, request, HasScript, TypeOK, Held, Step, Kind
<1>3. ASSUME NEW t \in Thread, LoadScripts(t) PROVE (\A u \in Thread : HasScript(u))'
  BY <1>3 DEF LoadScripts, registry, request, HasScript, TypeOK, Held, Step, Kind
<1>4. ASSUME NEW t \in Thread, LoadFails(t) PROVE (\A u \in Thread : HasScript(u))'
  BY <1>4 DEF LoadFails, Forget, registry, request, HasScript, TypeOK, Held, Step, Kind
<1>5. ASSUME NEW t \in Thread, Enter(t) PROVE (\A u \in Thread : HasScript(u))'
  BY <1>5 DEF Enter, registry, request, HasScript, TypeOK, Held, Step, Kind
<1>6. ASSUME NEW t \in Thread, Nothing(t) PROVE (\A u \in Thread : HasScript(u))'
  BY <1>6 DEF Nothing, Leave, Forget, registry, request, HasScript, TypeOK, Held, Step, Kind
<1>7. ASSUME NEW t \in Thread, StartSimulator(t) PROVE (\A u \in Thread : HasScript(u))'
  BY <1>7 DEF StartSimulator, Goto, registry, request, HasScript, TypeOK, Held, Step, Kind
<1>8. ASSUME NEW t \in Thread, StopSimulator(t) PROVE (\A u \in Thread : HasScript(u))'
  BY <1>8 DEF StopSimulator, Goto, registry, request, HasScript, TypeOK, Held, Step, Kind
<1>9. ASSUME NEW t \in Thread, RestartStopped(t) PROVE (\A u \in Thread : HasScript(u))'
  BY <1>9 DEF RestartStopped, Goto, registry, request, HasScript, TypeOK, Held, Step, Kind
<1>10. ASSUME NEW t \in Thread, Refresh(t) PROVE (\A u \in Thread : HasScript(u))'
  BY <1>10 DEF Refresh, Leave, Forget, registry, request, HasScript, TypeOK, Held, Step, Kind
<1>11. ASSUME NEW t \in Thread, Create(t) PROVE (\A u \in Thread : HasScript(u))'
  BY <1>11 DEF Create, Goto, registry, request, HasScript, TypeOK, Held, Step, Kind
<1>12. ASSUME NEW t \in Thread, CreateFails(t) PROVE (\A u \in Thread : HasScript(u))'
  BY <1>12 DEF CreateFails, Leave, Forget, registry, request, HasScript, TypeOK, Held, Step, Kind
<1>13. ASSUME NEW t \in Thread, DoStart(t) PROVE (\A u \in Thread : HasScript(u))'
  BY <1>13 DEF DoStart, Goto, registry, request, HasScript, TypeOK, Held, Step, Kind
<1>14. ASSUME NEW t \in Thread, StartFails(t) PROVE (\A u \in Thread : HasScript(u))'
  BY <1>14 DEF StartFails, Leave, Forget, registry, request, HasScript, TypeOK, Held, Step, Kind
<1>20. ASSUME NEW t \in Thread, StopThrows(t) PROVE (\A u \in Thread : HasScript(u))'
  BY <1>20 DEF StopThrows, Leave, Forget, registry, request, HasScript, TypeOK, Held, Step, Kind
<1>15. ASSUME NEW t \in Thread, OnStart(t) PROVE (\A u \in Thread : HasScript(u))'
  BY <1>15 DEF OnStart, Leave, Forget, registry, request, HasScript, TypeOK, Held, Step, Kind
<1>16. ASSUME NEW t \in Thread, OnStop(t) PROVE (\A u \in Thread : HasScript(u))'
  BY <1>16 DEF OnStop, Goto, registry, request, HasScript, TypeOK, Held, Step, Kind
<1>17. ASSUME NEW t \in Thread, Close(t) PROVE (\A u \in Thread : HasScript(u))'
  BY <1>17 DEF Close, Leave, Forget, Goto, registry, request, HasScript, TypeOK, Held, Step, Kind
<1>18. CASE UNCHANGED vars
  BY <1>18 DEF vars, registry, request, HasScript, TypeOK, Held, Step, Kind
<1>19. QED
  BY <1>1, <1>2, <1>3, <1>4, <1>5, <1>6, <1>7, <1>8, <1>9,
     <1>10, <1>11, <1>12, <1>13, <1>14, <1>15, <1>16, <1>17, <1>18, <1>20 DEF Next, HeldStep

(* No step takes the counter of a running simulator for good.              *)
LEMMA CountedStep == Inv /\ [Next]_vars => Counted'
<1> SUFFICES ASSUME Inv, [Next]_vars PROVE Counted'
  OBVIOUS
<1> USE AnyNameIsName, BoundsAssumption DEF Inv
<1>1. ASSUME NEW n \in Name, Edit(n) PROVE Counted'
  BY <1>1 DEF Edit, registry, request, Counted, TypeOK, Exclusion, Relies, Held, Step, IsRunning
<1>2. ASSUME NEW t \in Thread, NEW k \in Kind, NEW n \in Name, Request(t, k, n) PROVE Counted'
  BY <1>2 DEF Request, registry, request, Counted, TypeOK, Exclusion, Relies, Held, Step, IsRunning
<1>3. ASSUME NEW t \in Thread, LoadScripts(t) PROVE Counted'
  BY <1>3 DEF LoadScripts, registry, request, Counted, TypeOK, Exclusion, Relies, Held, Step, IsRunning
<1>4. ASSUME NEW t \in Thread, LoadFails(t) PROVE Counted'
  BY <1>4 DEF LoadFails, Forget, registry, request, Counted, TypeOK, Exclusion, Relies, Held, Step, IsRunning
<1>5. ASSUME NEW t \in Thread, Enter(t) PROVE Counted'
  BY <1>5 DEF Enter, registry, request, Counted, TypeOK, Exclusion, Relies, Held, Step, IsRunning
<1>6. ASSUME NEW t \in Thread, Nothing(t) PROVE Counted'
  BY <1>6 DEF Nothing, Leave, Forget, registry, request, Counted, TypeOK, Exclusion, Relies, Held, Step, IsRunning
<1>7. ASSUME NEW t \in Thread, StartSimulator(t) PROVE Counted'
  BY <1>7 DEF StartSimulator, Goto, registry, request, Counted, TypeOK, Exclusion, Relies, Held, Step, IsRunning
<1>8. ASSUME NEW t \in Thread, StopSimulator(t) PROVE Counted'
  BY <1>8 DEF StopSimulator, Goto, registry, request, Counted, TypeOK, Exclusion, Relies, Held, Step, IsRunning
<1>9. ASSUME NEW t \in Thread, RestartStopped(t) PROVE Counted'
  BY <1>9 DEF RestartStopped, Goto, registry, request, Counted, TypeOK, Exclusion, Relies, Held, Step, IsRunning
<1>10. ASSUME NEW t \in Thread, Refresh(t) PROVE Counted'
  <2>1. \A n \in Name : IsRunning(n)' => IsRunning(n)
    <3> SUFFICES ASSUME NEW n \in Name, IsRunning(n)', ~IsRunning(n) PROVE FALSE
      OBVIOUS
    <3>1. running[n] = {}
      BY DEF RunningIsRegistered, IsRunning, TypeOK
    <3>2. QED
      BY <1>10, <3>1, RefreshEffect DEF IsRunning
  <2>2. \A u \in Thread : pc[u] \notin {"started", "closing"}
    BY <1>10 DEF Refresh, Exclusion, Held
  <2>3. QED
    BY <1>10, <2>1, <2>2, RefreshEffect DEF Counted
<1>11. ASSUME NEW t \in Thread, Create(t) PROVE Counted'
  <2> SUFFICES ASSUME NEW n \in Name, IsRunning(n)' PROVE n \in counters'
    BY DEF Counted
  <2>1. CASE n = target[t]
    BY <1>11, <2>1 DEF Create
  <2>2. CASE n # target[t]
    BY <1>11, <2>2 DEF Create, Counted, TypeOK, IsRunning, Exclusion, Held
  <2>3. QED
    BY <2>1, <2>2
<1>12. ASSUME NEW t \in Thread, CreateFails(t) PROVE Counted'
  BY <1>12 DEF CreateFails, Leave, Forget, registry, request, Counted, TypeOK, Exclusion, Relies, Held, Step, IsRunning
<1>13. ASSUME NEW t \in Thread, DoStart(t) PROVE Counted'
  BY <1>13 DEF DoStart, Goto, registry, request, Counted, TypeOK, Exclusion, Relies, Held, Step, IsRunning
<1>14. ASSUME NEW t \in Thread, StartFails(t) PROVE Counted'
  BY <1>14 DEF StartFails, Leave, Forget, registry, request, Counted, TypeOK, Exclusion, Relies, Held, Step, IsRunning
<1>20. ASSUME NEW t \in Thread, StopThrows(t) PROVE Counted'
  BY <1>20 DEF StopThrows, Leave, Forget, registry, request, Counted, TypeOK, Exclusion, Relies, Held, Step, IsRunning
<1>15. ASSUME NEW t \in Thread, OnStart(t) PROVE Counted'
  BY <1>15 DEF OnStart, Leave, Forget, registry, request, Counted, TypeOK, Exclusion, Relies, Held, Step, IsRunning
<1>16. ASSUME NEW t \in Thread, OnStop(t) PROVE Counted'
  BY <1>16 DEF OnStop, Goto, registry, request, Counted, TypeOK, Exclusion, Relies, Held, Step, IsRunning
<1>17. ASSUME NEW t \in Thread, Close(t) PROVE Counted'
  <2> SUFFICES ASSUME NEW n \in Name, IsRunning(n)' PROVE n \in counters
    BY <1>17 DEF Counted, Close
  <2>1. n # target[t]
    BY <1>17 DEF Close, IsRunning, TypeOK
  <2>2. IsRunning(n)
    BY <1>17, <2>1 DEF Close, IsRunning, TypeOK
  <2>3. \A u \in Thread : target[u] = n => pc[u] \notin {"started", "closing"}
    BY <1>17, <2>1 DEF Close, Exclusion, Held
  <2>4. QED
    BY <2>2, <2>3 DEF Counted
<1>18. CASE UNCHANGED vars
  BY <1>18 DEF vars, registry, request, Counted, TypeOK, Exclusion, Relies, Held, Step, IsRunning
<1>19. QED
  BY <1>1, <1>2, <1>3, <1>4, <1>5, <1>6, <1>7, <1>8, <1>9,
     <1>10, <1>11, <1>12, <1>13, <1>14, <1>15, <1>16, <1>17, <1>18, <1>20 DEF Next, HeldStep

(* A restart works with a load at least as new as its request.             *)
LEMMA FreshStep == Inv /\ [Next]_vars => (\A u \in Thread : Fresh(u))'
<1> SUFFICES ASSUME Inv, [Next]_vars PROVE (\A u \in Thread : Fresh(u))'
  OBVIOUS
<1> USE AnyNameIsName, BoundsAssumption DEF Inv
<1>1. ASSUME NEW n \in Name, Edit(n) PROVE (\A u \in Thread : Fresh(u))'
  <2> SUFFICES ASSUME NEW u \in Thread PROVE Fresh(u)'
    OBVIOUS
  <2>1. disk[target[u]].ver \in Int /\ asked[u] \in Int /\ target[u] \in Name
    BY DEF TypeOK, Copy
  <2>2. disk'[target[u]].ver >= disk[target[u]].ver
    BY <1>1, <2>1 DEF Edit, TypeOK, Copy
  <2>3. disk'[target[u]].ver \in Int
    BY <1>1, TypeStep, <2>1 DEF Edit, TypeOK, Copy
  <2>4. QED
    BY <1>1, <2>1, <2>2, <2>3 DEF Edit, request, Fresh
<1>2. ASSUME NEW t \in Thread, NEW k \in Kind, NEW n \in Name, Request(t, k, n) PROVE (\A u \in Thread : Fresh(u))'
  <2> SUFFICES ASSUME NEW u \in Thread PROVE Fresh(u)'
    OBVIOUS
  <2>1. disk[n].ver \in Int
    BY DEF TypeOK, Copy
  <2>2. CASE u = t
    BY <1>2, <2>1, <2>2 DEF Request, Fresh, TypeOK
  <2>3. CASE u # t
    BY <1>2, <2>3 DEF Request, Fresh, TypeOK
  <2>4. QED
    BY <2>2, <2>3
<1>3. ASSUME NEW t \in Thread, LoadScripts(t) PROVE (\A u \in Thread : Fresh(u))'
  <2> SUFFICES ASSUME NEW u \in Thread PROVE Fresh(u)'
    OBVIOUS
  <2>1. taken + 1 \in Load /\ loads'[taken + 1] = disk
    BY <1>3 DEF LoadScripts, TypeOK, Load
  <2>2. CASE u = t
    BY <1>3, <2>1, <2>2 DEF LoadScripts, Fresh, TypeOK
  <2>3. CASE u # t
    <3>1. CASE kind[u] = "restart" /\ pc[u] \in {"entering", "held", "stopping", "closing", "creating"}
      <4>1. script[u] \in 1 .. taken
        BY <3>1 DEF HasScript, Held
      <4>2. loads'[script[u]] = loads[script[u]]
        BY <1>3, <4>1 DEF LoadScripts, TypeOK, Load
      <4>3. QED
        BY <1>3, <2>3, <3>1, <4>2 DEF LoadScripts, Fresh, TypeOK
    <3>2. CASE ~(kind[u] = "restart" /\ pc[u] \in {"entering", "held", "stopping", "closing", "creating"})
      BY <1>3, <2>3, <3>2 DEF LoadScripts, Fresh, TypeOK
    <3>3. QED
      BY <3>1, <3>2
  <2>4. QED
    BY <2>2, <2>3
<1>4. ASSUME NEW t \in Thread, LoadFails(t) PROVE (\A u \in Thread : Fresh(u))'
  BY <1>4 DEF LoadFails, Forget, registry, request, Fresh, HasScript, TypeOK, Held
<1>5. ASSUME NEW t \in Thread, Enter(t) PROVE (\A u \in Thread : Fresh(u))'
  BY <1>5 DEF Enter, registry, request, Fresh, HasScript, TypeOK, Held
<1>6. ASSUME NEW t \in Thread, Nothing(t) PROVE (\A u \in Thread : Fresh(u))'
  BY <1>6 DEF Nothing, Leave, Forget, registry, request, Fresh, HasScript, TypeOK, Held
<1>7. ASSUME NEW t \in Thread, StartSimulator(t) PROVE (\A u \in Thread : Fresh(u))'
  BY <1>7 DEF StartSimulator, Goto, registry, request, Fresh, HasScript, TypeOK, Held
<1>8. ASSUME NEW t \in Thread, StopSimulator(t) PROVE (\A u \in Thread : Fresh(u))'
  BY <1>8 DEF StopSimulator, Goto, registry, request, Fresh, HasScript, TypeOK, Held
<1>9. ASSUME NEW t \in Thread, RestartStopped(t) PROVE (\A u \in Thread : Fresh(u))'
  BY <1>9 DEF RestartStopped, Goto, registry, request, Fresh, HasScript, TypeOK, Held
<1>10. ASSUME NEW t \in Thread, Refresh(t) PROVE (\A u \in Thread : Fresh(u))'
  BY <1>10 DEF Refresh, Leave, Forget, registry, request, Fresh, HasScript, TypeOK, Held
<1>11. ASSUME NEW t \in Thread, Create(t) PROVE (\A u \in Thread : Fresh(u))'
  BY <1>11 DEF Create, Goto, registry, request, Fresh, HasScript, TypeOK, Held
<1>12. ASSUME NEW t \in Thread, CreateFails(t) PROVE (\A u \in Thread : Fresh(u))'
  BY <1>12 DEF CreateFails, Leave, Forget, registry, request, Fresh, HasScript, TypeOK, Held
<1>13. ASSUME NEW t \in Thread, DoStart(t) PROVE (\A u \in Thread : Fresh(u))'
  BY <1>13 DEF DoStart, Goto, registry, request, Fresh, HasScript, TypeOK, Held
<1>14. ASSUME NEW t \in Thread, StartFails(t) PROVE (\A u \in Thread : Fresh(u))'
  BY <1>14 DEF StartFails, Leave, Forget, registry, request, Fresh, HasScript, TypeOK, Held
<1>20. ASSUME NEW t \in Thread, StopThrows(t) PROVE (\A u \in Thread : Fresh(u))'
  BY <1>20 DEF StopThrows, Leave, Forget, registry, request, Fresh, HasScript, TypeOK, Held
<1>15. ASSUME NEW t \in Thread, OnStart(t) PROVE (\A u \in Thread : Fresh(u))'
  BY <1>15 DEF OnStart, Leave, Forget, registry, request, Fresh, HasScript, TypeOK, Held
<1>16. ASSUME NEW t \in Thread, OnStop(t) PROVE (\A u \in Thread : Fresh(u))'
  BY <1>16 DEF OnStop, Goto, registry, request, Fresh, HasScript, TypeOK, Held
<1>17. ASSUME NEW t \in Thread, Close(t) PROVE (\A u \in Thread : Fresh(u))'
  BY <1>17 DEF Close, Leave, Forget, Goto, registry, request, Fresh, HasScript, TypeOK, Held
<1>18. CASE UNCHANGED vars
  BY <1>18 DEF vars, registry, request, Fresh, HasScript, TypeOK, Held
<1>19. QED
  BY <1>1, <1>2, <1>3, <1>4, <1>5, <1>6, <1>7, <1>8, <1>9,
     <1>10, <1>11, <1>12, <1>13, <1>14, <1>15, <1>16, <1>17, <1>18, <1>20 DEF Next, HeldStep

(* Every load is used by one request, and by one that restarts alone.      *)
LEMMA SoloStep == Inv /\ [Next]_vars => (Known /\ Apart /\ \A u \in Thread : Solo(u))'
<1> DEFINE Goal == Known /\ Apart /\ \A u \in Thread : Solo(u)
<1> SUFFICES ASSUME Inv, [Next]_vars PROVE Goal'
  OBVIOUS
<1>0. /\ TypeOK /\ Exclusion /\ Known /\ Apart
      /\ \A u \in Thread : Solo(u) /\ HasScript(u) /\ Relies(u)
      /\ taken \in Nat /\ None = 0
      /\ \A n \in Name : simulatorMap[n] \in Nat
      /\ \A u \in Thread : script[u] \in Nat
      /\ \A c \in closed : c[2] \in Nat
  BY BoundsAssumption DEF Inv, TypeOK, None, Load
<1>a. ASSUME UNCHANGED <<simulatorMap, taken, closed>>,
             \A u \in Thread :
               \/ script'[u] = None /\ kind'[u] # "restart"
               \/ /\ script'[u] = script[u]
                  /\ kind'[u] = "restart" /\ pc'[u] \in Ahead
                       => kind[u] = "restart" /\ pc[u] \in Ahead
      PROVE  Goal'
  <2>1. Known'
    BY <1>0, <1>a DEF Known
  <2>2. Apart'
    BY <1>0, <1>a DEF Apart
  <2>3. ASSUME NEW u \in Thread PROVE Solo(u)'
    BY <1>0, <1>a DEF Solo, Unused
  <2>4. QED
    BY <2>1, <2>2, <2>3
<1>1. ASSUME NEW n \in Name, Edit(n) PROVE Goal'
  BY <1>a, <1>1 DEF Edit, registry, request
<1>2. ASSUME NEW t \in Thread, NEW k \in Kind, NEW n \in Name, Request(t, k, n) PROVE Goal'
  <2>1. \A u \in Thread \ {t} : UNCHANGED <<kind[u], pc[u], script[u]>>
    BY <1>0, <1>2 DEF Request, TypeOK
  <2>2. script'[t] = script[t] /\ (kind'[t] = "restart" => pc'[t] \notin Ahead)
    BY <1>0, <1>2 DEF Request, TypeOK, Ahead
  <2>3. QED
    BY <1>a, <1>2, <2>1, <2>2 DEF Request, registry
<1>3. ASSUME NEW t \in Thread, LoadScripts(t) PROVE Goal'
  <2>1. /\ taken' = taken + 1 /\ UNCHANGED <<simulatorMap, closed, kind>>
        /\ script'[t] = taken + 1
        /\ \A u \in Thread \ {t} : UNCHANGED <<pc[u], script[u]>>
    BY <1>0, <1>3 DEF LoadScripts, TypeOK, registry
  <2>2. Known'
    BY <1>0, <2>1 DEF Known
  <2>3. Apart'
    BY <1>0, <2>1 DEF Apart, Known
  <2>4. ASSUME NEW u \in Thread PROVE Solo(u)'
    <3>1. CASE u = t
      BY <1>0, <2>1, <3>1 DEF Solo, Unused, Known
    <3>2. CASE u # t
      BY <1>0, <2>1, <3>2 DEF Solo, Unused
    <3>3. QED
      BY <3>1, <3>2
  <2>5. QED
    BY <2>2, <2>3, <2>4
<1>4. ASSUME NEW t \in Thread, LoadFails(t) PROVE Goal'
  BY <1>0, <1>a, <1>4 DEF LoadFails, Forget, registry, TypeOK
<1>5. ASSUME NEW t \in Thread, Enter(t) PROVE Goal'
  BY <1>0, <1>a, <1>5 DEF Enter, registry, request, TypeOK, Ahead
<1>6. ASSUME NEW t \in Thread, Nothing(t) PROVE Goal'
  BY <1>0, <1>a, <1>6 DEF Nothing, Leave, Forget, registry, request, TypeOK, Ahead
<1>7. ASSUME NEW t \in Thread, StartSimulator(t) PROVE Goal'
  BY <1>0, <1>a, <1>7 DEF StartSimulator, Goto, registry, request, TypeOK, Ahead
<1>8. ASSUME NEW t \in Thread, StopSimulator(t) PROVE Goal'
  BY <1>0, <1>a, <1>8 DEF StopSimulator, Goto, registry, request, TypeOK, Ahead
<1>9. ASSUME NEW t \in Thread, RestartStopped(t) PROVE Goal'
  BY <1>0, <1>a, <1>9 DEF RestartStopped, Goto, registry, request, TypeOK, Ahead
<1>10. ASSUME NEW t \in Thread, CreateFails(t) PROVE Goal'
  BY <1>0, <1>a, <1>10 DEF CreateFails, Leave, Forget, registry, request, TypeOK, Ahead
<1>11. ASSUME NEW t \in Thread, DoStart(t) PROVE Goal'
  BY <1>0, <1>a, <1>11 DEF DoStart, Goto, registry, request, TypeOK, Ahead
<1>12. ASSUME NEW t \in Thread, StartFails(t) PROVE Goal'
  BY <1>0, <1>a, <1>12 DEF StartFails, Leave, Forget, registry, request, TypeOK, Ahead
<1>13. ASSUME NEW t \in Thread, StopThrows(t) PROVE Goal'
  BY <1>0, <1>a, <1>13 DEF StopThrows, Leave, Forget, registry, request, TypeOK, Ahead
<1>14. ASSUME NEW t \in Thread, OnStart(t) PROVE Goal'
  BY <1>0, <1>a, <1>14 DEF OnStart, Leave, Forget, registry, request, TypeOK, Ahead
<1>15. ASSUME NEW t \in Thread, OnStop(t) PROVE Goal'
  BY <1>0, <1>a, <1>15 DEF OnStop, Goto, registry, request, TypeOK, Ahead
<1>16. ASSUME NEW t \in Thread, Refresh(t) PROVE Goal'
  <2>1. /\ \A n \in Name : simulatorMap'[n] \in {simulatorMap[n], script[t], None}
        /\ UNCHANGED <<taken, closed>> /\ script'[t] = None /\ kind'[t] = "start"
        /\ kind[t] = "refresh" /\ pc[t] = "held"
        /\ \A u \in Thread \ {t} : UNCHANGED <<kind[u], pc[u], script[u]>>
    BY <1>0, <1>16, RefreshEffect DEF Refresh, Leave, Forget, TypeOK
  <2>2. script[t] # None /\ script[t] <= taken
    BY <1>0, <2>1 DEF HasScript, Held, Known
  <2>3. Known'
    BY <1>0, <2>1, <2>2 DEF Known
  <2>4. Apart'
    BY <1>0, <2>1 DEF Apart
  <2>5. ASSUME NEW u \in Thread PROVE Solo(u)'
    <3>1. CASE u = t
      BY <2>1, <3>1 DEF Solo
    <3>2. CASE u # t /\ kind[u] = "restart" /\ pc[u] \in Ahead
      <4>1. script[u] # script[t] /\ script[u] # None
        BY <1>0, <2>2, <3>2 DEF Apart, HasScript, Ahead, Held
      <4>2. QED
        BY <1>0, <2>1, <3>2, <4>1 DEF Solo, Unused
    <3>3. CASE u # t /\ ~(kind[u] = "restart" /\ pc[u] \in Ahead)
      BY <2>1, <3>3 DEF Solo
    <3>4. QED
      BY <3>1, <3>2, <3>3
  <2>6. QED
    BY <2>3, <2>4, <2>5
<1>17. ASSUME NEW t \in Thread, Create(t) PROVE Goal'
  <2>1. /\ \A n \in Name : simulatorMap'[n] \in {simulatorMap[n], script[t]}
        /\ UNCHANGED <<taken, closed, script, kind>>
        /\ pc[t] = "creating" /\ kind[t] = "restart" /\ pc'[t] = "starting"
        /\ \A u \in Thread \ {t} : pc'[u] = pc[u]
    BY <1>0, <1>17 DEF Create, Goto, request, TypeOK, HasScript
  <2>2. script[t] # None /\ script[t] <= taken
    BY <1>0, <2>1 DEF HasScript, Held, Known
  <2>3. Known' /\ Apart'
    BY <1>0, <2>1, <2>2 DEF Known, Apart
  <2>4. ASSUME NEW u \in Thread PROVE Solo(u)'
    <3>1. CASE u = t
      BY <2>1, <3>1 DEF Solo, Ahead
    <3>2. CASE u # t
      BY <1>0, <2>1, <2>2, <3>2 DEF Solo, Unused, Apart
    <3>3. QED
      BY <3>1, <3>2
  <2>5. QED
    BY <2>3, <2>4
<1>18. ASSUME NEW t \in Thread, Close(t) PROVE Goal'
  <2>1. /\ \A c \in closed' : c \in closed \/ c[2] = simulatorMap[target[t]]
        /\ UNCHANGED <<simulatorMap, taken>> /\ target[t] \in Name
    BY <1>0, <1>18 DEF Close, Closes, Loader, TypeOK
  <2>2. \A u \in Thread :
          \/ script'[u] = None /\ kind'[u] # "restart"
          \/ /\ script'[u] = script[u]
             /\ kind'[u] = "restart" /\ pc'[u] \in Ahead
                  => kind[u] = "restart" /\ pc[u] \in Ahead
    BY <1>0, <1>18 DEF Close, Leave, Forget, Goto, request, TypeOK, Ahead
  <2>3. Known'
    BY <1>0, <2>1, <2>2 DEF Known
  <2>4. Apart'
    BY <1>0, <2>2 DEF Apart
  <2>5. ASSUME NEW u \in Thread PROVE Solo(u)'
    BY <1>0, <2>1, <2>2 DEF Solo, Unused
  <2>6. QED
    BY <2>3, <2>4, <2>5
<1>19. CASE UNCHANGED vars
  BY <1>a, <1>19 DEF vars, registry, request
<1>20. QED
  BY <1>1, <1>2, <1>3, <1>4, <1>5, <1>6, <1>7, <1>8, <1>9, <1>10, <1>11, <1>12, <1>13,
     <1>14, <1>15, <1>16, <1>17, <1>18, <1>19 DEF Next, HeldStep

(* The initial states satisfy the invariant.                               *)
LEMMA InitInv == Init => Inv
<1> SUFFICES ASSUME Init PROVE Inv
  OBVIOUS
<1> USE NamesAssumption, BoundsAssumption, AnyNameIsName DEF Init
<1>1. disk \in [Name -> Copy]
  BY DEF Copy, Content
<1>2. NoCopy \in Copy
  BY DEF NoCopy, Copy, Content
<1>3. TypeOK
  BY <1>1, <1>2 DEF TypeOK, Load, Kind, Step, None
<1>4. Exclusion
  BY DEF Exclusion, Held
<1>5. \A t \in Thread : Relies(t) /\ HasScript(t) /\ Fresh(t)
  BY DEF Relies, HasScript, Fresh, Held
<1>6. RunningIsRegistered /\ Counted
  BY DEF RunningIsRegistered, Counted, IsRunning
<1>7. Known /\ Apart /\ \A t \in Thread : Solo(t)
  BY DEF Known, Apart, Solo, Ahead, None
<1>8. QED
  BY <1>3, <1>4, <1>5, <1>6, <1>7 DEF Inv

(* The invariant holds in every state.                                     *)
LEMMA Invariance == Spec => []Inv
<1>1. Inv /\ [Next]_vars => Inv'
  BY TypeStep, ExclusionStep, RegisteredStep, ReliesStep, HasScriptStep, CountedStep, FreshStep,
     SoloStep DEF Inv
<1>2. QED
  BY InitInv, <1>1, PTL DEF Spec

(* The state of the registry is always well typed, for any set of names and *)
(* threads and any bounds.                                                  *)
THEOREM TypeCorrect == Spec => []TypeOK
BY Invariance, PTL DEF Inv

(* Every running simulator is the one registered under its name, so there   *)
(* is at most one per name and it can be stopped (RunningIsRegistered).     *)
THEOREM OnlyRegisteredRuns == Spec => []RunningIsRegistered
BY Invariance, PTL DEF Inv

(* Outside the monitor every running simulator has its message counter.     *)
THEOREM RunningIsCounted == Spec => []CounterWhileRunning
<1>1. Inv => CounterWhileRunning
  BY NamesAssumption DEF Inv, Counted, Exclusion, Held, CounterWhileRunning
<1>2. QED
  BY Invariance, <1>1, PTL

(* A restart that goes on to start its object has just created it.          *)
LEMMA RestartCreates ==
  ASSUME Inv, Next, NEW t \in Thread, pc[t] = "creating", pc'[t] = "starting"
  PROVE  Create(t)
<1> USE DEF Inv
<1>1. lock = t
  BY DEF Exclusion, Held
<1>2. QED
  <2>1. ASSUME NEW u \in Thread, u # t, HeldStep(u) PROVE FALSE
    BY <1>1, <2>1 DEF Exclusion, Held, HeldStep, Nothing, StartSimulator, StopSimulator, RestartStopped,
       Refresh, Create, CreateFails, DoStart, StartFails, StopThrows, OnStart, OnStop, Close
  <2>2. HeldStep(t) => Create(t)
    BY DEF HeldStep, Nothing, StartSimulator, StopSimulator, RestartStopped, Refresh, CreateFails,
       DoStart, StartFails, StopThrows, OnStart, OnStop, Close, Leave, Forget, TypeOK
  <2>3. ASSUME NEW u \in Thread, LoadScripts(u) \/ LoadFails(u) \/ Enter(u) \/ \E k \in Kind, n \in Name : Request(u, k, n)
        PROVE FALSE
    BY <2>3 DEF LoadScripts, LoadFails, Forget, Enter, Request, TypeOK
  <2>4. ASSUME NEW n \in Name, Edit(n) PROVE FALSE
    BY <2>4 DEF Edit
  <2>5. QED
    BY <2>1, <2>2, <2>3, <2>4 DEF Next

(* A restart never installs settings older than those on disk when it was   *)
(* requested, however many threads manage the registry.                     *)
THEOREM RestartsAreFresh == Spec => RestartIsFresh
<1> DEFINE A == \A t \in Thread : pc[t] = "creating" /\ pc'[t] = "starting" =>
                  LET n == target[t] IN loads[simulatorMap'[n]][n].ver >= asked[t]
<1>1. Inv /\ [Next]_vars => [A]_vars
  <2> SUFFICES ASSUME Inv, Next, NEW t \in Thread, pc[t] = "creating", pc'[t] = "starting"
               PROVE  loads[simulatorMap'[target[t]]][target[t]].ver >= asked[t]
    OBVIOUS
  <2> USE DEF Inv
  <2>2. Create(t)
    BY RestartCreates
  <2>3. simulatorMap'[target[t]] = script[t]
    BY <2>2 DEF Create, TypeOK
  <2>4. asked[t] <= loads[script[t]][target[t]].ver
    BY DEF Fresh, HasScript
  <2>5. QED
    BY <2>3, <2>4
<1>2. QED
  BY Invariance, <1>1, PTL DEF Spec, RestartIsFresh

(* A restarted simulator has an open class loader which no other registered *)
(* simulator uses, whether it has a lib folder of its own or not.           *)
THEOREM RestartsAreIsolated == Spec => RestartIsolates
<1> DEFINE A == \A t \in Thread : pc[t] = "creating" /\ pc'[t] = "starting" =>
                  LET n == target[t]
                      l == simulatorMap'[n]
                  IN /\ Loader(n, l) \notin closed
                     /\ \A m \in Name \ {n} :
                          simulatorMap[m] # None => Loader(m, simulatorMap[m]) # Loader(n, l)
<1>1. Inv /\ [Next]_vars => [A]_vars
  <2> SUFFICES ASSUME Inv, Next, NEW t \in Thread, pc[t] = "creating", pc'[t] = "starting"
               PROVE  LET n == target[t]
                          l == simulatorMap'[n]
                      IN /\ Loader(n, l) \notin closed
                         /\ \A m \in Name \ {n} :
                              simulatorMap[m] # None => Loader(m, simulatorMap[m]) # Loader(n, l)
    OBVIOUS
  <2>1. Create(t)
    BY RestartCreates
  <2>2. simulatorMap'[target[t]] = script[t]
    BY <2>1 DEF Create, Inv, TypeOK
  <2>3. Unused(script[t])
    BY <2>1 DEF Create, Inv, HasScript, Solo, Ahead
  <2>4. \A n \in Name, l \in Nat : Loader(n, l)[2] = l
    BY DEF Loader
  <2>5. target[t] \in Name /\ script[t] \in Nat /\ \A m \in Name : simulatorMap[m] \in Nat
    BY DEF Inv, TypeOK
  <2>6. QED
    BY <2>2, <2>3, <2>4, <2>5 DEF Unused
<1>2. QED
  BY Invariance, <1>1, PTL DEF Spec, RestartIsolates

(* Only a refresh takes a simulator out of the map: a restart puts a load  *)
(* in its place.                                                           *)
LEMMA OnlyRefreshDrops ==
  ASSUME Inv, Next, NEW n \in Name, simulatorMap[n] # None, simulatorMap'[n] = None
  PROVE  \E t \in Thread : Refresh(t)
<1> USE DEF Inv
<1>1. ASSUME NEW t \in Thread, Create(t) PROVE FALSE
  <2>1. script[t] \in 1 .. taken
    BY <1>1 DEF Create, HasScript, Held
  <2>2. simulatorMap'[n] \in {simulatorMap[n], script[t]}
    BY <1>1 DEF Create, TypeOK
  <2>3. QED
    BY <2>1, <2>2 DEF None, TypeOK
<1>2. simulatorMap' = simulatorMap \/ \E t \in Thread : Refresh(t) \/ Create(t)
  BY DEF Next, HeldStep, registry, Edit, Request, LoadScripts, LoadFails, Enter, Nothing, StartSimulator,
     StopSimulator, RestartStopped, CreateFails, DoStart, StartFails, StopThrows, OnStart, OnStop, Close
<1>3. QED
  BY <1>1, <1>2

(* A refresh drops a simulator whose folder it has read in good order only *)
(* when another folder it has read is broken.                              *)
THEOREM OnlyBrokenLoadsDrop == Spec => OnlyBrokenLoadsLose
<1> DEFINE A == \A t \in Thread, n \in Name :
                  /\ lock = t
                  /\ simulatorMap[n] # None
                  /\ simulatorMap'[n] = None
                  /\ loads[script[t]][n].content = "good"
                  => \E m \in Name \ {n} : loads[script[t]][m].content = "bad"
<1>1. Inv /\ [Next]_vars => [A]_vars
  <2> SUFFICES ASSUME Inv, Next, NEW t \in Thread, NEW n \in Name, lock = t,
                      simulatorMap[n] # None, simulatorMap'[n] = None,
                      loads[script[t]][n].content = "good"
               PROVE  \E m \in Name \ {n} : loads[script[t]][m].content = "bad"
    OBVIOUS
  <2> USE DEF Inv
  <2>1. Refresh(t)
    BY OnlyRefreshDrops DEF Refresh, Exclusion, Held
  <2>2. script[t] \in 1 .. taken
    BY <2>1 DEF Refresh, HasScript, Held
  <2>3. PICK created \in SUBSET (Lacking(script[t]) \ Broken(script[t])) :
          /\ Broken(script[t]) = {} => created = Lacking(script[t])
          /\ simulatorMap' = [k \in Name |-> IF k \in created THEN script[t]
                                             ELSE IF k \in Kept THEN simulatorMap[k]
                                             ELSE None]
    BY <2>1 DEF Refresh
  <2>4. n \notin Kept /\ n \notin created
    BY <2>2, <2>3 DEF None, TypeOK
  <2>5. n \in Lacking(script[t])
    BY <2>4 DEF Lacking
  <2>6. PICK m \in Broken(script[t]) : TRUE
    BY <2>3, <2>4, <2>5
  <2>7. m \in Name /\ loads[script[t]][m].content = "bad"
    BY <2>6 DEF Broken, Lacking
  <2>8. QED
    BY <2>7
<1>2. QED
  BY Invariance, <1>1, PTL DEF Spec, OnlyBrokenLoadsLose

=============================================================================
