-------------------------- MODULE MessageFlow_proofs --------------------------
(* The safety properties of MessageFlow, for any simulators, handlers and   *)
(* management threads.                                                      *)
EXTENDS MessageFlow, TLAPS

----------------------------------------------------------------------------
(* The inductive invariant.                                                *)

\* A management thread works on a simulator exactly while it owns the monitor.
Exclusion ==
  \A m \in Manager :
    /\ mpc[m] # "idle" <=> lock = m
    /\ mpc[m] # "idle" <=> msim[m] # NoSim

\* A handler has the simulator of its message.
Handling == \A h \in Handler : hpc[h] # "idle" <=> hsim[h] # NoSim

\* What a start or stop may rely on, step by step.
Relies(m) ==
  /\ mpc[m] = "starting" => run[msim[m]] < MaxRun
  /\ mpc[m] \in {"starting", "opened", "undoing"} => msim[m] \notin running
  /\ mpc[m] \in {"running", "stopping", "draining", "stopped", "removing", "uncounting", "closing"} =>
       msim[m] \in running
  /\ mpc[m] \in {"starting", "undoing", "draining", "stopped", "removing", "uncounting", "closing"} =>
       msim[m] \notin open \ cut
  /\ mpc[m] \in {"starting", "stopped", "removing", "uncounting", "closing"} /\ msim[m] \in Waited =>
       InFlight(msim[m]) = {}
  /\ mpc[m] \in {"removing", "uncounting", "closing"} /\ msim[m] \in Waited =>
       \A c \in Class : bean[msim[m]][c] = 0
AllRely == \A m \in Manager : Relies(m)

\* Where the beans of a simulator are: those in the map were created and not
\* closed, those a stop still has to close are out of the map with their batch.
BeansOf(s) ==
  /\ \A c \in Class : bean[s][c] <= created[s] /\ bean[s][c] \notin onClosed[s]
  /\ \A b \in onClosed[s] : b <= created[s]
Pending(m) ==
  mpc[m] = "removing" =>
    /\ \A b \in removing :
         b <= created[msim[m]] /\ \A c \in Class : bean[msim[m]][c] # b
    /\ removing # {} => \E B \in batches[msim[m]] : removing \subseteq B
Whereabouts(s, b) ==
  \/ \E c \in Class : bean[s][c] = b
  \/ b \in onClosed[s]
  \/ b \in removing /\ \E m \in Manager : mpc[m] = "removing" /\ msim[m] = s
  \/ Abandoned(s, b)
Located == \A s \in Sim : \A b \in 1 .. created[s] : Whereabouts(s, b)
Beans == (\A s \in Sim : BeansOf(s)) /\ (\A m \in Manager : Pending(m)) /\ Located

\* The transport of a simulator accepts messages only while it runs or starts,
\* unless a doStop has thrown.
Opened ==
  \A s \in open \ cut : s \in running \/ \E m \in Manager : mpc[m] = "opened" /\ msim[m] = s

\* Handlers of a draining simulator work on messages of its current run.
FlightOf(h) ==
  hsim[h] \in Waited =>
    /\ hrun[h] = run[hsim[h]]
    /\ hsim[h] \in running \/ Starts(hsim[h])
Flights == \A h \in Handler : FlightOf(h)

\* A running simulator has the counter of its run, but for the two ends of it.
Counted ==
  \A s \in running :
    counter[s] = run[s] \/ \E m \in Manager : mpc[m] \in {"running", "closing"} /\ msim[m] = s

IInv == /\ TypeOK /\ Exclusion /\ Handling /\ AllRely /\ Beans /\ Opened /\ Flights
        /\ Counted /\ OwnAnswersPass

----------------------------------------------------------------------------
(* The actions keep the invariant.                                         *)

\* No simulator is NoSim, and the bounds are numbers.
LEMMA Basics ==
  /\ NoSim \notin Sim /\ NoThread \notin Manager
  /\ Throws \subseteq Drains /\ Drains \subseteq Sim /\ Targets \subseteq Sim \cup {NoSim}
  /\ MaxBean \in Nat /\ MaxBean > 0 /\ MaxRun \in Nat /\ MaxRun > 0
  /\ Absent \in Nat /\ Absent > MaxRun
BY FlowAssumption DEF Absent

\* The system begins in the invariant.
LEMMA InitInv == Init => IInv
<1> SUFFICES ASSUME Init PROVE IInv
  OBVIOUS
<1> USE Basics DEF Init
<1>1. TypeOK
  BY DEF TypeOK, MStep, HStep
<1>2. Exclusion /\ Handling /\ AllRely /\ Opened /\ Flights /\ Counted /\ OwnAnswersPass
  BY DEF Waited, Exclusion, Handling, AllRely, Relies, Opened, Flights, FlightOf, Counted, OwnAnswersPass
<1>3. Beans
  <2>1. \A s \in Sim : BeansOf(s)
    BY DEF BeansOf
  <2>2. \A m \in Manager : Pending(m)
    BY DEF Pending
  <2>3. Located
    BY DEF Located
  <2>4. QED
    BY <2>1, <2>2, <2>3 DEF Beans
<1>4. QED
  BY <1>1, <1>2, <1>3 DEF IInv

\* What adding a bean does: nothing, or one more bean under a key that had none.
LEMMA AddBeanEffect ==
  ASSUME TypeOK, NEW s \in Sim, NEW c \in Class, AddBean(s, c)
  PROVE  /\ bean' \in [Sim -> [Class -> 0 .. MaxBean]]
         /\ created' \in [Sim -> 0 .. MaxBean]
         /\ UNCHANGED <<onClosed, removing, batches, threw>>
         /\ \A r \in Sim, d \in Class : r # s \/ d # c => bean'[r][d] = bean[r][d]
         /\ \A r \in Sim \ {s} : created'[r] = created[r]
         /\ \/ bean' = bean /\ created' = created
            \/ /\ bean[s][c] = 0 /\ bean'[s][c] = created[s] + 1
               /\ created'[s] = created[s] + 1
<1>1. CASE bean[s][c] # 0
  BY <1>1 DEF AddBean, beans, removal, TypeOK
<1>2. CASE bean[s][c] = 0
  <2>1. created[s] < MaxBean /\ created[s] + 1 \in 0 .. MaxBean
    BY <1>2, Basics DEF AddBean, TypeOK
  <2>2. /\ created' = [created EXCEPT ![s] = created[s] + 1]
        /\ bean' = [bean EXCEPT ![s][c] = created[s] + 1]
        /\ UNCHANGED <<onClosed, removing, batches, threw>>
    BY <1>2 DEF AddBean, removal
  <2>3. QED
    BY <1>2, <2>1, <2>2 DEF TypeOK
<1>3. QED
  BY <1>1, <1>2

\* A handler adds a bean to its own simulator's, or none.
LEMMA HandlerBeans ==
  ASSUME IInv, NEW h \in Handler, Invoke(h) \/ Convert(h)
  PROVE  hsim[h] \in Sim /\ \E c \in Class : AddBean(hsim[h], c)
BY DEF IInv, TypeOK, Handling, Invoke, Convert

\* The functions of a removal keep their types.
LEMMA RemoveBeansTypes ==
  ASSUME TypeOK, NEW m \in Manager, msim[m] \in Sim, RemoveBeans(m)
  PROVE  /\ bean' \in [Sim -> [Class -> 0 .. MaxBean]]
         /\ removing' \subseteq Bean
         /\ batches' \in [Sim -> SUBSET SUBSET Bean]
<1> DEFINE s == msim[m]
<1>1. /\ bean' = [bean EXCEPT ![s] = [c \in Class |-> 0]]
      /\ removing' = Mapped(s)
      /\ batches' = [batches EXCEPT ![s] = @ \cup ({Mapped(s)} \ {{}})]
      /\ s \in Sim
  BY DEF RemoveBeans
<1>2. /\ bean \in [Sim -> [Class -> 0 .. MaxBean]]
      /\ batches \in [Sim -> SUBSET SUBSET Bean]
  BY DEF TypeOK
<1> HIDE DEF s
<1>3. [c \in Class |-> 0] \in [Class -> 0 .. MaxBean]
  BY Basics
<1>4. Mapped(s) \subseteq Bean
  BY <1>1, <1>2, Basics DEF Mapped, Bean
<1>5. batches[s] \cup ({Mapped(s)} \ {{}}) \in SUBSET SUBSET Bean
  BY <1>1, <1>2, <1>4
<1>6. bean' \in [Sim -> [Class -> 0 .. MaxBean]]
  BY <1>1, <1>2, <1>3
<1>7. batches' \in [Sim -> SUBSET SUBSET Bean]
  BY <1>1, <1>2, <1>5
<1>8. QED
  BY <1>1, <1>4, <1>6, <1>7

LEMMA OnCloseThrowsTypes ==
  ASSUME TypeOK, NEW m \in Manager, msim[m] \in Sim, NEW b \in Bean, OnCloseThrows(m, b)
  PROVE  onClosed' \in [Sim -> SUBSET Bean] /\ threw' \in [Sim -> SUBSET Bean]
BY DEF TypeOK, OnCloseThrows

LEMMA CloseBeanTypes ==
  ASSUME TypeOK, NEW m \in Manager, NEW b \in Bean, CloseBean(m, b)
  PROVE  onClosed' \in [Sim -> SUBSET Bean]
<1>1. onClosed' = [onClosed EXCEPT ![msim[m]] = @ \cup {b}]
  BY DEF CloseBean
<1>2. onClosed \in [Sim -> SUBSET Bean]
  BY DEF TypeOK
<1>3. msim[m] \in Sim => onClosed[msim[m]] \cup {b} \in SUBSET Bean
  BY <1>2
<1>4. QED
  BY <1>1, <1>2, <1>3

\* Every variable has its type.
LEMMA TypeStep == IInv /\ [Next]_vars => TypeOK'
<1> SUFFICES ASSUME IInv, [Next]_vars PROVE TypeOK'
  OBVIOUS
<1> USE Basics DEF IInv, TypeOK, MStep, HStep, life, beans, removal, Bean, counting, managers, handlers
<1>1. ASSUME NEW h \in Handler, NEW s \in Sim, Receive(h, s) PROVE TypeOK'
  BY <1>1 DEF Receive, HGoto
<1>2. ASSUME NEW h \in Handler, Match(h) PROVE TypeOK'
  BY <1>2 DEF Match, HGoto
<1>3. ASSUME NEW h \in Handler, Invoke(h) PROVE TypeOK'
  <2>1. PICK c \in Class : AddBean(hsim[h], c)
    BY <1>3 DEF Invoke
  <2>2. hsim[h] \in Sim
    BY <1>3 DEF Invoke, Handling
  <2>3. /\ bean' \in [Sim -> [Class -> 0 .. MaxBean]]
        /\ created' \in [Sim -> 0 .. MaxBean]
        /\ UNCHANGED <<onClosed, removing, batches, threw>>
    BY <2>1, <2>2, AddBeanEffect
  <2>4. QED
    BY <1>3, <2>3 DEF Invoke, HGoto
<1>4. ASSUME NEW h \in Handler, Convert(h) PROVE TypeOK'
  <2>1. PICK c \in Class : AddBean(hsim[h], c)
    BY <1>4 DEF Convert
  <2>2. hsim[h] \in Sim
    BY <1>4 DEF Convert, Handling
  <2>3. /\ bean' \in [Sim -> [Class -> 0 .. MaxBean]]
        /\ created' \in [Sim -> 0 .. MaxBean]
        /\ UNCHANGED <<onClosed, removing, batches, threw>>
    BY <2>1, <2>2, AddBeanEffect
  <2>4. QED
    BY <1>4, <2>3 DEF Convert, HGoto, Forget
<1>5. ASSUME NEW h \in Handler, ReturnText(h) PROVE TypeOK'
  BY <1>5 DEF ReturnText, HGoto, Forget
<1>6. ASSUME NEW h \in Handler, NoResponse(h) PROVE TypeOK'
  BY <1>6 DEF NoResponse, HGoto, Forget
<1>7. ASSUME NEW h \in Handler, Respond(h) PROVE TypeOK'
  BY <1>7 DEF Respond, HGoto, Through
<1>8. ASSUME NEW h \in Handler, RespondDirectly(h) PROVE TypeOK'
  BY <1>8 DEF RespondDirectly, HGoto
<1>9. ASSUME NEW h \in Handler, GetSimulator(h) PROVE TypeOK'
  BY <1>9 DEF GetSimulator, HGoto
<1>10. ASSUME NEW h \in Handler, Check(h) PROVE TypeOK'
  BY <1>10 DEF Check, HGoto
<1>11. ASSUME NEW h \in Handler, Fill(h) PROVE TypeOK'
  BY <1>11 DEF Fill, HGoto
<1>12. ASSUME NEW h \in Handler, OnHandleMessage(h) PROVE TypeOK'
  BY <1>12 DEF OnHandleMessage, HGoto
<1>13. ASSUME NEW m \in Manager, NEW s \in Sim, StartSimulator(m, s) PROVE TypeOK'
  BY <1>13 DEF StartSimulator, Enter
<1>14. ASSUME NEW m \in Manager, NEW s \in Sim, StopSimulator(m, s) PROVE TypeOK'
  BY <1>14 DEF StopSimulator, Enter
<1>15. ASSUME NEW m \in Manager, DoStart(m) PROVE TypeOK'
  <2>1. msim[m] \in Sim /\ run[msim[m]] < MaxRun
    BY <1>15 DEF DoStart, Exclusion, AllRely, Relies
  <2>2. run' \in [Sim -> 0 .. MaxRun]
    BY <1>15, <2>1 DEF DoStart
  <2>3. QED
    BY <1>15, <2>1, <2>2 DEF DoStart, MGoto
<1>16. ASSUME NEW m \in Manager, PostStart(m) PROVE TypeOK'
  <2>1. msim[m] \in Sim
    BY <1>16 DEF PostStart, Exclusion
  <2>2. QED
    BY <1>16, <2>1 DEF PostStart, MGoto
<1>17. ASSUME NEW m \in Manager, OnStart(m) PROVE TypeOK'
  <2>1. msim[m] \in Sim
    BY <1>17 DEF OnStart, Exclusion
  <2>2. QED
    BY <1>17, <2>1 DEF OnStart, Leave
<1>18. ASSUME NEW m \in Manager, StartFails(m) PROVE TypeOK'
  BY <1>18 DEF StartFails, MGoto
<1>19. ASSUME NEW m \in Manager, StartUndone(m) PROVE TypeOK'
  BY <1>19 DEF StartUndone, Leave
<1>20. ASSUME NEW m \in Manager, DoStop(m) PROVE TypeOK'
  BY <1>20 DEF DoStop, MGoto
<1>21. ASSUME NEW m \in Manager, Drained(m) PROVE TypeOK'
  BY <1>21 DEF Drained, MGoto
<1>22. ASSUME NEW m \in Manager, RemoveBeans(m) PROVE TypeOK'
  <2>1. msim[m] \in Sim
    BY <1>22 DEF RemoveBeans, Exclusion
  <2>3. /\ bean' \in [Sim -> [Class -> 0 .. MaxBean]]
        /\ removing' \subseteq Bean
        /\ batches' \in [Sim -> SUBSET SUBSET Bean]
    BY <1>22, <2>1, RemoveBeansTypes
  <2>5. mpc' \in [Manager -> MStep] /\ UNCHANGED <<lock, msim>>
    BY <1>22 DEF RemoveBeans, MGoto
  <2>6. QED
    BY <1>22, <2>3, <2>5 DEF RemoveBeans
<1>23. ASSUME NEW m \in Manager, OnStop(m) PROVE TypeOK'
  <2>1. msim[m] \in Sim
    BY <1>23 DEF OnStop, Exclusion
  <2>2. QED
    BY <1>23, <2>1 DEF OnStop, MGoto
<1>24. ASSUME NEW m \in Manager, SetStopped(m) PROVE TypeOK'
  BY <1>24 DEF SetStopped, Leave
<1>t1. ASSUME NEW m \in Manager, StartUndoThrows(m) PROVE TypeOK'
  BY <1>t1 DEF StartUndoThrows, Leave
<1>t2. ASSUME NEW m \in Manager, DoStopThrows(m) PROVE TypeOK'
  BY <1>t2 DEF DoStopThrows, MGoto
<1>t3. ASSUME NEW m \in Manager, NEW b \in Bean, CloseBean(m, b) PROVE TypeOK'
  <2>1. onClosed' \in [Sim -> SUBSET Bean]
    BY <1>t3, CloseBeanTypes
  <2>2. removing' \subseteq Bean
    BY <1>t3 DEF CloseBean
  <2>3. QED
    BY <1>t3, <2>1, <2>2 DEF CloseBean
<1>t4. ASSUME NEW m \in Manager, BeansClosed(m) PROVE TypeOK'
  BY <1>t4 DEF BeansClosed, MGoto
<1>t5. ASSUME NEW m \in Manager, NEW b \in Bean, OnCloseThrows(m, b) PROVE TypeOK'
  <2>1. onClosed' \in [Sim -> SUBSET Bean] /\ threw' \in [Sim -> SUBSET Bean]
    <3>1. msim[m] \in Sim
      BY <1>t5 DEF OnCloseThrows, Exclusion
    <3>2. QED
      BY <1>t5, <3>1, OnCloseThrowsTypes
  <2>2. /\ lock' \in Manager \cup {NoThread} /\ mpc' \in [Manager -> MStep]
        /\ msim' \in [Manager -> Sim \cup {NoSim}]
    BY <1>t5 DEF OnCloseThrows, Leave
  <2>3. QED
    BY <1>t5, <2>1, <2>2 DEF OnCloseThrows
<1>25. CASE UNCHANGED vars
  BY <1>25 DEF vars
<1>26. QED
  BY <1>1, <1>2, <1>3, <1>4, <1>5, <1>6, <1>7, <1>8, <1>9, <1>10, <1>11, <1>12, <1>13, <1>14, <1>15, <1>16, <1>17, <1>18, <1>19, <1>20, <1>21, <1>22, <1>23, <1>24, <1>t1, <1>t2, <1>t3, <1>t4,
     <1>t5, <1>25 DEF Next, HandlerStep, ManagerStep, Throw

\* One thread is inside.
LEMMA ExclusionStep == IInv /\ [Next]_vars => Exclusion'
<1> SUFFICES ASSUME IInv, [Next]_vars PROVE Exclusion'
  OBVIOUS
<1> USE Basics DEF IInv, TypeOK, MStep, HStep, Waited, Exclusion, life, counting, managers, handlers
<1>1. ASSUME NEW h \in Handler, NEW s \in Sim, Receive(h, s) PROVE Exclusion'
  BY <1>1 DEF Receive, HGoto
<1>2. ASSUME NEW h \in Handler, Match(h) PROVE Exclusion'
  BY <1>2 DEF Match, HGoto
<1>3. ASSUME NEW h \in Handler, Invoke(h) PROVE Exclusion'
  BY <1>3 DEF Invoke, HGoto
<1>4. ASSUME NEW h \in Handler, Convert(h) PROVE Exclusion'
  BY <1>4 DEF Convert, HGoto
<1>5. ASSUME NEW h \in Handler, ReturnText(h) PROVE Exclusion'
  BY <1>5 DEF ReturnText, HGoto
<1>6. ASSUME NEW h \in Handler, NoResponse(h) PROVE Exclusion'
  BY <1>6 DEF NoResponse, HGoto
<1>7. ASSUME NEW h \in Handler, Respond(h) PROVE Exclusion'
  BY <1>7 DEF Respond, HGoto, Through
<1>8. ASSUME NEW h \in Handler, RespondDirectly(h) PROVE Exclusion'
  BY <1>8 DEF RespondDirectly, HGoto
<1>9. ASSUME NEW h \in Handler, GetSimulator(h) PROVE Exclusion'
  BY <1>9 DEF GetSimulator, HGoto
<1>10. ASSUME NEW h \in Handler, Check(h) PROVE Exclusion'
  BY <1>10 DEF Check, HGoto
<1>11. ASSUME NEW h \in Handler, Fill(h) PROVE Exclusion'
  BY <1>11 DEF Fill, HGoto
<1>12. ASSUME NEW h \in Handler, OnHandleMessage(h) PROVE Exclusion'
  BY <1>12 DEF OnHandleMessage, HGoto
<1>13. ASSUME NEW m \in Manager, NEW s \in Sim, StartSimulator(m, s) PROVE Exclusion'
  BY <1>13 DEF StartSimulator, Enter
<1>14. ASSUME NEW m \in Manager, NEW s \in Sim, StopSimulator(m, s) PROVE Exclusion'
  BY <1>14 DEF StopSimulator, Enter
<1>15. ASSUME NEW m \in Manager, DoStart(m) PROVE Exclusion'
  BY <1>15 DEF DoStart, MGoto
<1>16. ASSUME NEW m \in Manager, PostStart(m) PROVE Exclusion'
  BY <1>16 DEF PostStart, MGoto
<1>17. ASSUME NEW m \in Manager, OnStart(m) PROVE Exclusion'
  BY <1>17 DEF OnStart, Leave
<1>18. ASSUME NEW m \in Manager, StartFails(m) PROVE Exclusion'
  BY <1>18 DEF StartFails, MGoto
<1>19. ASSUME NEW m \in Manager, StartUndone(m) PROVE Exclusion'
  BY <1>19 DEF StartUndone, Leave
<1>20. ASSUME NEW m \in Manager, DoStop(m) PROVE Exclusion'
  BY <1>20 DEF DoStop, MGoto
<1>21. ASSUME NEW m \in Manager, Drained(m) PROVE Exclusion'
  BY <1>21 DEF Drained, MGoto
<1>22. ASSUME NEW m \in Manager, RemoveBeans(m) PROVE Exclusion'
  BY <1>22 DEF RemoveBeans, MGoto
<1>23. ASSUME NEW m \in Manager, OnStop(m) PROVE Exclusion'
  BY <1>23 DEF OnStop, MGoto
<1>24. ASSUME NEW m \in Manager, SetStopped(m) PROVE Exclusion'
  BY <1>24 DEF SetStopped, Leave
<1>t1. ASSUME NEW m \in Manager, StartUndoThrows(m) PROVE Exclusion'
  BY <1>t1 DEF StartUndoThrows, Leave
<1>t2. ASSUME NEW m \in Manager, DoStopThrows(m) PROVE Exclusion'
  BY <1>t2 DEF DoStopThrows, MGoto
<1>t3. ASSUME NEW m \in Manager, NEW b \in Bean, CloseBean(m, b) PROVE Exclusion'
  BY <1>t3 DEF CloseBean
<1>t4. ASSUME NEW m \in Manager, BeansClosed(m) PROVE Exclusion'
  BY <1>t4 DEF BeansClosed, MGoto
<1>t5. ASSUME NEW m \in Manager, NEW b \in Bean, OnCloseThrows(m, b) PROVE Exclusion'
  BY <1>t5 DEF OnCloseThrows, Leave
<1>25. CASE UNCHANGED vars
  BY <1>25 DEF vars
<1>26. QED
  BY <1>1, <1>2, <1>3, <1>4, <1>5, <1>6, <1>7, <1>8, <1>9, <1>10, <1>11, <1>12, <1>13, <1>14, <1>15, <1>16, <1>17, <1>18, <1>19, <1>20, <1>21, <1>22, <1>23, <1>24, <1>t1, <1>t2, <1>t3, <1>t4,
     <1>t5, <1>25 DEF Next, HandlerStep, ManagerStep, Throw

\* A handler keeps its simulator.
LEMMA HandlingStep == IInv /\ [Next]_vars => Handling'
<1> SUFFICES ASSUME IInv, [Next]_vars PROVE Handling'
  OBVIOUS
<1> USE Basics DEF IInv, TypeOK, MStep, HStep, Waited, Handling, life, counting, managers, handlers
<1>1. ASSUME NEW h \in Handler, NEW s \in Sim, Receive(h, s) PROVE Handling'
  BY <1>1 DEF Receive, HGoto
<1>2. ASSUME NEW h \in Handler, Match(h) PROVE Handling'
  BY <1>2 DEF Match, HGoto
<1>3. ASSUME NEW h \in Handler, Invoke(h) PROVE Handling'
  BY <1>3 DEF Invoke, HGoto
<1>4. ASSUME NEW h \in Handler, Convert(h) PROVE Handling'
  BY <1>4 DEF Convert, HGoto
<1>5. ASSUME NEW h \in Handler, ReturnText(h) PROVE Handling'
  BY <1>5 DEF ReturnText, HGoto
<1>6. ASSUME NEW h \in Handler, NoResponse(h) PROVE Handling'
  BY <1>6 DEF NoResponse, HGoto
<1>7. ASSUME NEW h \in Handler, Respond(h) PROVE Handling'
  BY <1>7 DEF Respond, HGoto, Through
<1>8. ASSUME NEW h \in Handler, RespondDirectly(h) PROVE Handling'
  BY <1>8 DEF RespondDirectly, HGoto
<1>9. ASSUME NEW h \in Handler, GetSimulator(h) PROVE Handling'
  BY <1>9 DEF GetSimulator, HGoto
<1>10. ASSUME NEW h \in Handler, Check(h) PROVE Handling'
  BY <1>10 DEF Check, HGoto
<1>11. ASSUME NEW h \in Handler, Fill(h) PROVE Handling'
  BY <1>11 DEF Fill, HGoto
<1>12. ASSUME NEW h \in Handler, OnHandleMessage(h) PROVE Handling'
  BY <1>12 DEF OnHandleMessage, HGoto
<1>13. ASSUME NEW m \in Manager, NEW s \in Sim, StartSimulator(m, s) PROVE Handling'
  BY <1>13 DEF StartSimulator, Enter
<1>14. ASSUME NEW m \in Manager, NEW s \in Sim, StopSimulator(m, s) PROVE Handling'
  BY <1>14 DEF StopSimulator, Enter
<1>15. ASSUME NEW m \in Manager, DoStart(m) PROVE Handling'
  BY <1>15 DEF DoStart, MGoto
<1>16. ASSUME NEW m \in Manager, PostStart(m) PROVE Handling'
  BY <1>16 DEF PostStart, MGoto
<1>17. ASSUME NEW m \in Manager, OnStart(m) PROVE Handling'
  BY <1>17 DEF OnStart, Leave
<1>18. ASSUME NEW m \in Manager, StartFails(m) PROVE Handling'
  BY <1>18 DEF StartFails, MGoto
<1>19. ASSUME NEW m \in Manager, StartUndone(m) PROVE Handling'
  BY <1>19 DEF StartUndone, Leave
<1>20. ASSUME NEW m \in Manager, DoStop(m) PROVE Handling'
  BY <1>20 DEF DoStop, MGoto
<1>21. ASSUME NEW m \in Manager, Drained(m) PROVE Handling'
  BY <1>21 DEF Drained, MGoto
<1>22. ASSUME NEW m \in Manager, RemoveBeans(m) PROVE Handling'
  BY <1>22 DEF RemoveBeans, MGoto
<1>23. ASSUME NEW m \in Manager, OnStop(m) PROVE Handling'
  BY <1>23 DEF OnStop, MGoto
<1>24. ASSUME NEW m \in Manager, SetStopped(m) PROVE Handling'
  BY <1>24 DEF SetStopped, Leave
<1>t1. ASSUME NEW m \in Manager, StartUndoThrows(m) PROVE Handling'
  BY <1>t1 DEF StartUndoThrows, Leave
<1>t2. ASSUME NEW m \in Manager, DoStopThrows(m) PROVE Handling'
  BY <1>t2 DEF DoStopThrows, MGoto
<1>t3. ASSUME NEW m \in Manager, NEW b \in Bean, CloseBean(m, b) PROVE Handling'
  BY <1>t3 DEF CloseBean
<1>t4. ASSUME NEW m \in Manager, BeansClosed(m) PROVE Handling'
  BY <1>t4 DEF BeansClosed, MGoto
<1>t5. ASSUME NEW m \in Manager, NEW b \in Bean, OnCloseThrows(m, b) PROVE Handling'
  BY <1>t5 DEF OnCloseThrows, Leave
<1>25. CASE UNCHANGED vars
  BY <1>25 DEF vars
<1>26. QED
  BY <1>1, <1>2, <1>3, <1>4, <1>5, <1>6, <1>7, <1>8, <1>9, <1>10, <1>11, <1>12, <1>13, <1>14, <1>15, <1>16, <1>17, <1>18, <1>19, <1>20, <1>21, <1>22, <1>23, <1>24, <1>t1, <1>t2, <1>t3, <1>t4,
     <1>t5, <1>25 DEF Next, HandlerStep, ManagerStep, Throw

\* What a start or stop relies on stays.
LEMMA RelyStep == IInv /\ [Next]_vars => AllRely'
<1> SUFFICES ASSUME IInv, [Next]_vars PROVE AllRely'
  OBVIOUS
<1> USE Basics DEF IInv, TypeOK, MStep, HStep, Waited, AllRely, Relies, Exclusion, Handling, InFlight, life, beans, removal, counting, managers, handlers
<1>1. ASSUME NEW h \in Handler, NEW s \in Sim, Receive(h, s) PROVE AllRely'
  BY <1>1 DEF Receive, HGoto
<1>2. ASSUME NEW h \in Handler, Match(h) PROVE AllRely'
  BY <1>2 DEF Match, HGoto
<1>3. ASSUME NEW h \in Handler, Invoke(h) PROVE AllRely'
  <2>1. PICK c \in Class : AddBean(hsim[h], c)
    BY <1>3 DEF Invoke
  <2>2. hsim[h] \in Sim
    BY <1>3 DEF Invoke
  <2>3. \A r \in Sim \ {hsim[h]}, d \in Class : bean'[r][d] = bean[r][d]
    BY <2>1, <2>2, AddBeanEffect
  <2>4. QED
    BY <1>3, <2>2, <2>3 DEF Invoke, HGoto
<1>4. ASSUME NEW h \in Handler, Convert(h) PROVE AllRely'
  <2>1. PICK c \in Class : AddBean(hsim[h], c)
    BY <1>4 DEF Convert
  <2>2. hsim[h] \in Sim
    BY <1>4 DEF Convert
  <2>3. \A r \in Sim \ {hsim[h]}, d \in Class : bean'[r][d] = bean[r][d]
    BY <2>1, <2>2, AddBeanEffect
  <2>4. QED
    BY <1>4, <2>2, <2>3 DEF Convert, HGoto
<1>5. ASSUME NEW h \in Handler, ReturnText(h) PROVE AllRely'
  BY <1>5 DEF ReturnText, HGoto
<1>6. ASSUME NEW h \in Handler, NoResponse(h) PROVE AllRely'
  BY <1>6 DEF NoResponse, HGoto
<1>7. ASSUME NEW h \in Handler, Respond(h) PROVE AllRely'
  BY <1>7 DEF Respond, HGoto, Through
<1>8. ASSUME NEW h \in Handler, RespondDirectly(h) PROVE AllRely'
  BY <1>8 DEF RespondDirectly, HGoto
<1>9. ASSUME NEW h \in Handler, GetSimulator(h) PROVE AllRely'
  BY <1>9 DEF GetSimulator, HGoto
<1>10. ASSUME NEW h \in Handler, Check(h) PROVE AllRely'
  BY <1>10 DEF Check, HGoto
<1>11. ASSUME NEW h \in Handler, Fill(h) PROVE AllRely'
  BY <1>11 DEF Fill, HGoto
<1>12. ASSUME NEW h \in Handler, OnHandleMessage(h) PROVE AllRely'
  BY <1>12 DEF OnHandleMessage, HGoto
<1>13. ASSUME NEW m \in Manager, NEW s \in Sim, StartSimulator(m, s) PROVE AllRely'
  <2>1. lock = NoThread /\ s \notin running /\ \A n \in Manager : mpc[n] = "idle"
    BY <1>13 DEF StartSimulator, Enter
  <2>2. s \notin open \ cut
    BY <2>1 DEF Opened
  <2>3. s \in Waited => InFlight(s) = {}
    BY <2>1 DEF Flights, FlightOf, Starts
  <2>4. \A n \in Manager \ {m} : mpc'[n] = "idle"
    BY <1>13, <2>1 DEF StartSimulator, Enter
  <2>5. mpc'[m] = "starting" /\ msim'[m] = s /\ InFlight(s)' = InFlight(s) /\ run'[s] < MaxRun
    BY <1>13 DEF StartSimulator, Enter
  <2>6. Relies(m)'
    BY <1>13, <2>1, <2>2, <2>3, <2>5 DEF StartSimulator, Enter
  <2>7. QED
    BY <2>4, <2>6
<1>14. ASSUME NEW m \in Manager, NEW s \in Sim, StopSimulator(m, s) PROVE AllRely'
  BY <1>14 DEF StopSimulator, Enter
<1>15. ASSUME NEW m \in Manager, DoStart(m) PROVE AllRely'
  BY <1>15 DEF DoStart, MGoto
<1>16. ASSUME NEW m \in Manager, PostStart(m) PROVE AllRely'
  BY <1>16 DEF PostStart, MGoto
<1>17. ASSUME NEW m \in Manager, OnStart(m) PROVE AllRely'
  BY <1>17 DEF OnStart, Leave
<1>18. ASSUME NEW m \in Manager, StartFails(m) PROVE AllRely'
  BY <1>18 DEF StartFails, MGoto
<1>19. ASSUME NEW m \in Manager, StartUndone(m) PROVE AllRely'
  BY <1>19 DEF StartUndone, Leave
<1>20. ASSUME NEW m \in Manager, DoStop(m) PROVE AllRely'
  BY <1>20 DEF DoStop, MGoto
<1>21. ASSUME NEW m \in Manager, Drained(m) PROVE AllRely'
  BY <1>21 DEF Drained, MGoto
<1>22. ASSUME NEW m \in Manager, RemoveBeans(m) PROVE AllRely'
  BY <1>22 DEF RemoveBeans, MGoto
<1>23. ASSUME NEW m \in Manager, OnStop(m) PROVE AllRely'
  BY <1>23 DEF OnStop, MGoto
<1>24. ASSUME NEW m \in Manager, SetStopped(m) PROVE AllRely'
  <2>1. mpc'[m] = "idle" /\ \A n \in Manager \ {m} : mpc'[n] = mpc[n] /\ msim'[n] = msim[n]
    BY <1>24 DEF SetStopped, Leave
  <2>2. \A n \in Manager \ {m} : Relies(n)'
    BY <1>24, <2>1 DEF SetStopped
  <2>3. QED
    BY <2>1, <2>2
<1>t1. ASSUME NEW m \in Manager, StartUndoThrows(m) PROVE AllRely'
  BY <1>t1 DEF StartUndoThrows, Leave
<1>t2. ASSUME NEW m \in Manager, DoStopThrows(m) PROVE AllRely'
  BY <1>t2 DEF DoStopThrows, MGoto
<1>t3. ASSUME NEW m \in Manager, NEW b \in Bean, CloseBean(m, b) PROVE AllRely'
  BY <1>t3 DEF CloseBean
<1>t4. ASSUME NEW m \in Manager, BeansClosed(m) PROVE AllRely'
  BY <1>t4 DEF BeansClosed, MGoto
<1>t5. ASSUME NEW m \in Manager, NEW b \in Bean, OnCloseThrows(m, b) PROVE AllRely'
  BY <1>t5 DEF OnCloseThrows, Leave
<1>25. CASE UNCHANGED vars
  BY <1>25 DEF vars
<1>26. QED
  BY <1>1, <1>2, <1>3, <1>4, <1>5, <1>6, <1>7, <1>8, <1>9, <1>10, <1>11, <1>12, <1>13, <1>14, <1>15, <1>16, <1>17, <1>18, <1>19, <1>20, <1>21, <1>22, <1>23, <1>24, <1>t1, <1>t2, <1>t3, <1>t4,
     <1>t5, <1>25 DEF Next, HandlerStep, ManagerStep, Throw

\* Beans stay where they are in a step that neither begins nor ends a removal.
LEMMA BeansFrame ==
  ASSUME Beans, UNCHANGED <<bean, created, onClosed, removing, batches, threw>>,
         \A m \in Manager : mpc'[m] = "removing" => mpc[m] = "removing" /\ msim'[m] = msim[m],
         \A m \in Manager : mpc[m] = "removing" /\ removing # {} =>
                              mpc'[m] = "removing" /\ msim'[m] = msim[m]
  PROVE  Beans'
<1>1. \A s \in Sim : BeansOf(s)'
  BY DEF Beans, BeansOf
<1>2. \A m \in Manager : Pending(m)'
  BY DEF Beans, Pending
<1>3. Located'
  BY DEF Beans, Located, Whereabouts, Abandoned
<1>4. QED
  BY <1>1, <1>2, <1>3 DEF Beans

\* Adding a bean leaves the others where they are.
LEMMA AddBeanKeeps ==
  ASSUME TypeOK, Beans, NEW s \in Sim, NEW c \in Class, AddBean(s, c),
         UNCHANGED <<mpc, msim>>,
         \A m \in Manager : mpc[m] = "removing" => msim[m] \in Sim
  PROVE  Beans'
<1>1. CASE bean' = bean /\ created' = created
  <2>1. UNCHANGED <<onClosed, removing, batches, threw>>
    BY AddBeanEffect
  <2>2. QED
    BY <1>1, <2>1, BeansFrame
<1>2. CASE /\ bean[s][c] = 0 /\ bean'[s][c] = created[s] + 1
           /\ created'[s] = created[s] + 1
  <2>1. /\ UNCHANGED <<onClosed, removing, batches, threw>>
        /\ \A r \in Sim, d \in Class : r # s \/ d # c => bean'[r][d] = bean[r][d]
        /\ \A r \in Sim \ {s} : created'[r] = created[r]
    BY AddBeanEffect
  <2>2. /\ \A r \in Sim : created[r] \in Nat
        /\ \A r \in Sim, d \in Class : bean[r][d] \in Nat
        /\ \A r \in Sim : onClosed[r] \subseteq Nat
        /\ removing \subseteq Nat
    BY Basics DEF TypeOK, Bean
  <2>3. ASSUME NEW r \in Sim PROVE BeansOf(r)'
    <3>1. CASE r # s
      BY <2>1, <2>3, <3>1 DEF Beans, BeansOf
    <3>2. CASE r = s
      <4>1. \A d \in Class \ {c} :
              bean'[s][d] <= created'[s] /\ bean'[s][d] \notin onClosed'[s]
        BY <1>2, <2>1, <2>2 DEF Beans, BeansOf
      <4>2. bean'[s][c] <= created'[s] /\ bean'[s][c] \notin onClosed'[s]
        BY <1>2, <2>1, <2>2 DEF Beans, BeansOf
      <4>3. \A b \in onClosed'[s] : b <= created'[s]
        BY <1>2, <2>1, <2>2 DEF Beans, BeansOf
      <4>4. QED
        BY <3>2, <4>1, <4>2, <4>3 DEF BeansOf
    <3>3. QED
      BY <3>1, <3>2
  <2>4. ASSUME NEW m \in Manager PROVE Pending(m)'
    <3> SUFFICES ASSUME mpc[m] = "removing" PROVE Pending(m)'
      BY DEF Pending
    <3>0. msim[m] \in Sim /\ Pending(m)
      BY DEF Beans
    <3>1. ASSUME NEW b \in removing
          PROVE  b <= created'[msim[m]] /\ \A d \in Class : bean'[msim[m]][d] # b
      <4>1. b <= created[msim[m]] /\ \A d \in Class : bean[msim[m]][d] # b
        BY <3>0, <3>1 DEF Pending
      <4>2. b \in Nat
        BY <2>2, <3>1
      <4>3. CASE msim[m] = s
        BY <1>2, <2>1, <2>2, <4>1, <4>2, <4>3
      <4>4. CASE msim[m] # s
        BY <2>1, <3>0, <4>1, <4>4
      <4>5. QED
        BY <4>3, <4>4
    <3>2. QED
      BY <2>1, <3>0, <3>1 DEF Pending
  <2>5. ASSUME NEW r \in Sim, NEW b \in 1 .. created'[r] PROVE Whereabouts(r, b)'
    <3>1. CASE r = s /\ b = created[s] + 1
      BY <1>2, <3>1 DEF Whereabouts
    <3>2. CASE ~(r = s /\ b = created[s] + 1)
      <4>1. b \in 1 .. created[r]
        BY <1>2, <2>1, <2>2, <2>5, <3>2
      <4>2. Whereabouts(r, b)
        BY <4>1 DEF Beans, Located
      <4>3. ASSUME NEW d \in Class, bean[r][d] = b PROVE bean'[r][d] = b
        BY <1>2, <2>1, <4>1, <4>3
      <4>4. QED
        BY <2>1, <4>2, <4>3 DEF Whereabouts, Abandoned
    <3>3. QED
      BY <3>1, <3>2
  <2>6. QED
    BY <2>3, <2>4, <2>5 DEF Beans, Located
<1>3. QED
  BY <1>1, <1>2, AddBeanEffect

\* Taking the beans out of the map.
LEMMA RemoveBeansKeeps ==
  ASSUME IInv, NEW m \in Manager, RemoveBeans(m)
  PROVE  Beans'
<1> DEFINE s == msim[m]
<1>1. s \in Sim /\ mpc[m] = "stopped" /\ \A n \in Manager : n # m => mpc[n] = "idle"
  BY DEF IInv, TypeOK, Exclusion, RemoveBeans
<1>2. /\ bean' = [bean EXCEPT ![s] = [c \in Class |-> 0]]
      /\ removing' = Mapped(s)
      /\ batches' = [batches EXCEPT ![s] = @ \cup ({Mapped(s)} \ {{}})]
      /\ UNCHANGED <<created, onClosed, threw, msim>>
      /\ mpc' = [mpc EXCEPT ![m] = "removing"]
  BY DEF RemoveBeans, MGoto
<1>3. /\ bean \in [Sim -> [Class -> 0 .. MaxBean]]
      /\ batches \in [Sim -> SUBSET SUBSET Bean]
      /\ mpc \in [Manager -> MStep]
      /\ onClosed \in [Sim -> SUBSET Bean]
      /\ \A r \in Sim : created[r] \in Nat
      /\ Beans
  BY Basics DEF IInv, TypeOK
<1> HIDE DEF s
<1>4. /\ \A r \in Sim \ {s} : bean'[r] = bean[r] /\ batches'[r] = batches[r]
      /\ \A c \in Class : bean'[s][c] = 0
      /\ batches'[s] = batches[s] \cup ({Mapped(s)} \ {{}})
      /\ mpc'[m] = "removing" /\ \A n \in Manager : n # m => mpc'[n] = "idle"
  BY <1>1, <1>2, <1>3
<1>5. ASSUME NEW b \in Mapped(s)
      PROVE  b # 0 /\ b <= created[s] /\ b \in Bean
  BY <1>1, <1>3, <1>5, Basics DEF Mapped, Beans, BeansOf, Bean
<1>6. ASSUME NEW r \in Sim PROVE BeansOf(r)'
  <2>1. 0 \notin onClosed[s]
    BY <1>1, <1>3, Basics DEF Bean
  <2>2. QED
    BY <1>1, <1>2, <1>3, <1>4, <1>6, <2>1 DEF Beans, BeansOf
<1>7. ASSUME NEW n \in Manager PROVE Pending(n)'
  <2>1. CASE n # m
    BY <1>4, <1>7, <2>1 DEF Pending
  <2>2. CASE n = m
    <3>1. msim'[n] = s
      BY <1>2, <2>2 DEF s
    <3>2. \A b \in removing' : b <= created'[s] /\ \A c \in Class : bean'[s][c] # b
      BY <1>2, <1>4, <1>5
    <3>3. removing' # {} => \E B \in batches'[s] : removing' \subseteq B
      BY <1>2, <1>4
    <3>4. QED
      BY <3>1, <3>2, <3>3 DEF Pending
  <2>3. QED
    BY <2>1, <2>2
<1>8. ASSUME NEW r \in Sim, NEW b \in 1 .. created'[r] PROVE Whereabouts(r, b)'
  <2>0. b \in 1 .. created[r] /\ Whereabouts(r, b) /\ b # 0
    BY <1>2, <1>3, <1>8 DEF Beans, Located
  <2>1. \A n \in Manager : mpc[n] # "removing"
    BY <1>1
  <2>2. CASE \E c \in Class : bean[r][c] = b
    <3>1. CASE r = s
      <4>1. b \in removing'
        BY <1>2, <2>0, <2>2, <3>1 DEF Mapped
      <4>2. mpc'[m] = "removing" /\ msim'[m] = s
        BY <1>2, <1>4 DEF s
      <4>3. QED
        BY <3>1, <4>1, <4>2 DEF Whereabouts
    <3>2. CASE r # s
      BY <1>4, <2>2, <3>2 DEF Whereabouts
    <3>3. QED
      BY <3>1, <3>2
  <2>3. CASE b \in onClosed[r]
    BY <1>2, <2>3 DEF Whereabouts
  <2>4. CASE Abandoned(r, b)
    <3>1. batches[r] \subseteq batches'[r]
      BY <1>4
    <3>2. QED
      BY <1>2, <2>4, <3>1 DEF Whereabouts, Abandoned
  <2>5. QED
    BY <2>0, <2>1, <2>2, <2>3, <2>4 DEF Whereabouts
<1>9. QED
  BY <1>6, <1>7, <1>8 DEF Beans, Located

\* Closing one of them, whether its onClose returns or throws.
LEMMA CloseKeeps ==
  ASSUME IInv, NEW m \in Manager, NEW b \in Bean, CloseBean(m, b) \/ OnCloseThrows(m, b)
  PROVE  Beans'
<1> DEFINE s == msim[m]
<1>1. /\ s \in Sim /\ mpc[m] = "removing" /\ b \in removing
      /\ \A n \in Manager : n # m => mpc[n] = "idle"
  BY DEF IInv, TypeOK, Exclusion, CloseBean, OnCloseThrows
<1>2. /\ UNCHANGED <<bean, created, batches>>
      /\ onClosed' = [onClosed EXCEPT ![s] = @ \cup {b}]
      /\ removing' \subseteq removing
      /\ \/ UNCHANGED <<mpc, msim, threw>> /\ removing' = removing \ {b}
         \/ /\ threw' = [threw EXCEPT ![s] = @ \cup {b}] /\ removing' = {}
            /\ mpc' = [mpc EXCEPT ![m] = "idle"]
  BY DEF CloseBean, OnCloseThrows, Leave, managers
<1>3. /\ onClosed \in [Sim -> SUBSET Bean] /\ threw \in [Sim -> SUBSET Bean]
      /\ mpc \in [Manager -> MStep]
      /\ Beans
  BY DEF IInv, TypeOK
<1> HIDE DEF s
<1>4. /\ \A r \in Sim \ {s} : onClosed'[r] = onClosed[r]
      /\ onClosed'[s] = onClosed[s] \cup {b}
      /\ \A r \in Sim : threw[r] \subseteq threw'[r]
  BY <1>1, <1>2, <1>3
<1>5. /\ b <= created[s] /\ \A c \in Class : bean[s][c] # b
      /\ \E B \in batches[s] : removing \subseteq B
  BY <1>1, <1>3 DEF Beans, Pending, s
<1>6. ASSUME NEW r \in Sim PROVE BeansOf(r)'
  BY <1>1, <1>2, <1>3, <1>4, <1>5, <1>6 DEF Beans, BeansOf
<1>7. ASSUME NEW n \in Manager PROVE Pending(n)'
  <2>1. CASE UNCHANGED <<mpc, msim, threw>> /\ removing' = removing \ {b}
    BY <1>2, <1>3, <1>5, <1>7, <2>1 DEF Beans, Pending
  <2>2. CASE mpc' = [mpc EXCEPT ![m] = "idle"]
    BY <1>1, <1>3, <1>7, <2>2 DEF Pending
  <2>3. QED
    BY <1>2, <2>1, <2>2
<1>8. ASSUME NEW r \in Sim, NEW a \in 1 .. created'[r] PROVE Whereabouts(r, a)'
  <2>0. Whereabouts(r, a)
    BY <1>2, <1>3, <1>8 DEF Beans, Located
  <2>1. CASE \/ \E c \in Class : bean[r][c] = a
             \/ a \in onClosed[r]
    BY <1>1, <1>2, <1>4, <2>1 DEF Whereabouts
  <2>2. CASE Abandoned(r, a)
    BY <1>2, <1>4, <2>2 DEF Whereabouts, Abandoned
  <2>3. CASE a \in removing /\ \E n \in Manager : mpc[n] = "removing" /\ msim[n] = r
    <3>1. r = s
      BY <1>1, <2>3 DEF s
    <3>2. CASE UNCHANGED <<mpc, msim, threw>> /\ removing' = removing \ {b}
      BY <1>1, <1>4, <2>3, <3>1, <3>2 DEF Whereabouts
    <3>3. CASE threw' = [threw EXCEPT ![s] = @ \cup {b}]
      <4>1. b \in threw'[s]
        BY <1>1, <1>3, <3>3
      <4>2. PICK B \in batches[s] : removing \subseteq B
        BY <1>5
      <4>3. a \in B /\ b \in B /\ B \in batches'[s]
        BY <1>1, <1>2, <2>3, <4>2
      <4>4. \E D \in batches'[r] : a \in D /\ D \cap threw'[r] # {}
        BY <3>1, <4>1, <4>3
      <4>5. QED
        BY <4>4 DEF Whereabouts, Abandoned
    <3>4. QED
      BY <1>2, <3>2, <3>3
  <2>4. QED
    BY <2>0, <2>1, <2>2, <2>3 DEF Whereabouts
<1>9. QED
  BY <1>6, <1>7, <1>8 DEF Beans, Located

\* Every bean stays where it is known to be, or goes on to be closed.
LEMMA BeanStep == IInv /\ [Next]_vars => Beans'
<1> SUFFICES ASSUME IInv, [Next]_vars PROVE Beans'
  OBVIOUS
<1>0. TypeOK /\ Beans /\ Exclusion
  BY DEF IInv
<1>1. ASSUME NEW h \in Handler, (\E s \in Sim : Receive(h, s)) \/ HandlerStep(h)
      PROVE  Beans'
  <2>1. CASE Invoke(h) \/ Convert(h)
    <3>1. hsim[h] \in Sim /\ \E c \in Class : AddBean(hsim[h], c)
      BY <2>1, HandlerBeans
    <3>2. UNCHANGED <<mpc, msim>>
      BY <2>1 DEF Invoke, Convert, managers
    <3>3. \A m \in Manager : mpc[m] = "removing" => msim[m] \in Sim
      BY <1>0 DEF Exclusion, TypeOK
    <3>4. QED
      BY <1>0, <3>1, <3>2, <3>3, AddBeanKeeps
  <2>2. CASE UNCHANGED <<beans, managers>>
    BY <1>0, <2>2, BeansFrame DEF beans, removal, managers
  <2>3. QED
    BY <1>1, <2>1, <2>2 DEF HandlerStep, Receive, Match, ReturnText, NoResponse, Respond,
         RespondDirectly, GetSimulator, Check, Fill, OnHandleMessage
<1>2. ASSUME NEW m \in Manager,
             \/ \E s \in Sim : StartSimulator(m, s) \/ StopSimulator(m, s)
             \/ DoStart(m) \/ PostStart(m) \/ OnStart(m) \/ StartFails(m) \/ StartUndone(m)
             \/ DoStop(m) \/ Drained(m) \/ BeansClosed(m) \/ OnStop(m) \/ SetStopped(m)
             \/ StartUndoThrows(m) \/ DoStopThrows(m)
      PROVE  Beans'
  <2>1. UNCHANGED <<bean, created, onClosed, removing, batches, threw>>
    BY <1>2 DEF StartSimulator, StopSimulator, Enter, DoStart, PostStart, OnStart, StartFails,
         StartUndone, DoStop, Drained, BeansClosed, OnStop, SetStopped, StartUndoThrows,
         DoStopThrows, beans, removal
  <2>2. /\ mpc' \in [Manager -> MStep] /\ mpc'[m] # "removing"
        /\ \A n \in Manager : n # m => mpc'[n] = mpc[n] /\ msim'[n] = msim[n]
    BY <1>0, <1>2 DEF StartSimulator, StopSimulator, Enter, DoStart, PostStart, OnStart,
         StartFails, StartUndone, DoStop, Drained, BeansClosed, OnStop, SetStopped,
         StartUndoThrows, DoStopThrows, MGoto, Leave, TypeOK, MStep
  <2>3. mpc[m] # "removing" \/ removing = {}
    BY <1>2 DEF StartSimulator, StopSimulator, Enter, DoStart, PostStart, OnStart,
         StartFails, StartUndone, DoStop, Drained, BeansClosed, OnStop, SetStopped,
         StartUndoThrows, DoStopThrows
  <2>4. /\ \A n \in Manager : mpc'[n] = "removing" => mpc[n] = "removing" /\ msim'[n] = msim[n]
        /\ \A n \in Manager : mpc[n] = "removing" /\ removing # {} =>
                                mpc'[n] = "removing" /\ msim'[n] = msim[n]
    BY <2>2, <2>3
  <2>5. QED
    BY <1>0, <2>1, <2>4, BeansFrame
<1>3. ASSUME NEW m \in Manager, RemoveBeans(m) PROVE Beans'
  BY <1>3, RemoveBeansKeeps
<1>4. ASSUME NEW m \in Manager, NEW b \in Bean, CloseBean(m, b) \/ OnCloseThrows(m, b)
      PROVE  Beans'
  BY <1>4, CloseKeeps
<1>5. CASE UNCHANGED vars
  BY <1>0, <1>5, BeansFrame DEF vars, beans, removal, managers
<1>6. QED
  BY <1>1, <1>2, <1>3, <1>4, <1>5 DEF Next, ManagerStep, Throw

\* Messages come while a simulator runs or starts.
LEMMA OpenedStep == IInv /\ [Next]_vars => Opened'
<1> SUFFICES ASSUME IInv, [Next]_vars PROVE Opened'
  OBVIOUS
<1> USE Basics DEF IInv, TypeOK, MStep, HStep, Waited, Opened, AllRely, Relies, Exclusion, life, counting, managers, handlers
<1>1. ASSUME NEW h \in Handler, NEW s \in Sim, Receive(h, s) PROVE Opened'
  BY <1>1 DEF Receive, HGoto
<1>2. ASSUME NEW h \in Handler, Match(h) PROVE Opened'
  BY <1>2 DEF Match, HGoto
<1>3. ASSUME NEW h \in Handler, Invoke(h) PROVE Opened'
  BY <1>3 DEF Invoke, HGoto
<1>4. ASSUME NEW h \in Handler, Convert(h) PROVE Opened'
  BY <1>4 DEF Convert, HGoto
<1>5. ASSUME NEW h \in Handler, ReturnText(h) PROVE Opened'
  BY <1>5 DEF ReturnText, HGoto
<1>6. ASSUME NEW h \in Handler, NoResponse(h) PROVE Opened'
  BY <1>6 DEF NoResponse, HGoto
<1>7. ASSUME NEW h \in Handler, Respond(h) PROVE Opened'
  BY <1>7 DEF Respond, HGoto, Through
<1>8. ASSUME NEW h \in Handler, RespondDirectly(h) PROVE Opened'
  BY <1>8 DEF RespondDirectly, HGoto
<1>9. ASSUME NEW h \in Handler, GetSimulator(h) PROVE Opened'
  BY <1>9 DEF GetSimulator, HGoto
<1>10. ASSUME NEW h \in Handler, Check(h) PROVE Opened'
  BY <1>10 DEF Check, HGoto
<1>11. ASSUME NEW h \in Handler, Fill(h) PROVE Opened'
  BY <1>11 DEF Fill, HGoto
<1>12. ASSUME NEW h \in Handler, OnHandleMessage(h) PROVE Opened'
  BY <1>12 DEF OnHandleMessage, HGoto
<1>13. ASSUME NEW m \in Manager, NEW s \in Sim, StartSimulator(m, s) PROVE Opened'
  BY <1>13 DEF StartSimulator, Enter
<1>14. ASSUME NEW m \in Manager, NEW s \in Sim, StopSimulator(m, s) PROVE Opened'
  BY <1>14 DEF StopSimulator, Enter
<1>15. ASSUME NEW m \in Manager, DoStart(m) PROVE Opened'
  BY <1>15 DEF DoStart, MGoto
<1>16. ASSUME NEW m \in Manager, PostStart(m) PROVE Opened'
  BY <1>16 DEF PostStart, MGoto
<1>17. ASSUME NEW m \in Manager, OnStart(m) PROVE Opened'
  BY <1>17 DEF OnStart, Leave
<1>18. ASSUME NEW m \in Manager, StartFails(m) PROVE Opened'
  BY <1>18 DEF StartFails, MGoto
<1>19. ASSUME NEW m \in Manager, StartUndone(m) PROVE Opened'
  BY <1>19 DEF StartUndone, Leave
<1>20. ASSUME NEW m \in Manager, DoStop(m) PROVE Opened'
  BY <1>20 DEF DoStop, MGoto
<1>21. ASSUME NEW m \in Manager, Drained(m) PROVE Opened'
  BY <1>21 DEF Drained, MGoto
<1>22. ASSUME NEW m \in Manager, RemoveBeans(m) PROVE Opened'
  BY <1>22 DEF RemoveBeans, MGoto
<1>23. ASSUME NEW m \in Manager, OnStop(m) PROVE Opened'
  BY <1>23 DEF OnStop, MGoto
<1>24. ASSUME NEW m \in Manager, SetStopped(m) PROVE Opened'
  BY <1>24 DEF SetStopped, Leave
<1>t1. ASSUME NEW m \in Manager, StartUndoThrows(m) PROVE Opened'
  BY <1>t1 DEF StartUndoThrows, Leave
<1>t2. ASSUME NEW m \in Manager, DoStopThrows(m) PROVE Opened'
  BY <1>t2 DEF DoStopThrows, MGoto
<1>t3. ASSUME NEW m \in Manager, NEW b \in Bean, CloseBean(m, b) PROVE Opened'
  BY <1>t3 DEF CloseBean
<1>t4. ASSUME NEW m \in Manager, BeansClosed(m) PROVE Opened'
  BY <1>t4 DEF BeansClosed, MGoto
<1>t5. ASSUME NEW m \in Manager, NEW b \in Bean, OnCloseThrows(m, b) PROVE Opened'
  BY <1>t5 DEF OnCloseThrows, Leave
<1>25. CASE UNCHANGED vars
  BY <1>25 DEF vars
<1>26. QED
  BY <1>1, <1>2, <1>3, <1>4, <1>5, <1>6, <1>7, <1>8, <1>9, <1>10, <1>11, <1>12, <1>13, <1>14, <1>15, <1>16, <1>17, <1>18, <1>19, <1>20, <1>21, <1>22, <1>23, <1>24, <1>t1, <1>t2, <1>t3, <1>t4,
     <1>t5, <1>25 DEF Next, HandlerStep, ManagerStep, Throw

\* Handlers of a draining simulator stay in its run.
LEMMA FlightStep == IInv /\ [Next]_vars => Flights'
<1> SUFFICES ASSUME IInv, [Next]_vars PROVE Flights'
  OBVIOUS
<1> USE Basics DEF IInv, TypeOK, MStep, HStep, Waited, Flights, FlightOf, Starts, AllRely, Relies, Exclusion, InFlight, Handling, Opened, life, counting, managers, handlers
<1>1. ASSUME NEW h \in Handler, NEW s \in Sim, Receive(h, s) PROVE Flights'
  BY <1>1 DEF Receive, HGoto
<1>2. ASSUME NEW h \in Handler, Match(h) PROVE Flights'
  BY <1>2 DEF Match, HGoto
<1>3. ASSUME NEW h \in Handler, Invoke(h) PROVE Flights'
  BY <1>3 DEF Invoke, HGoto
<1>4. ASSUME NEW h \in Handler, Convert(h) PROVE Flights'
  BY <1>4 DEF Convert, HGoto
<1>5. ASSUME NEW h \in Handler, ReturnText(h) PROVE Flights'
  BY <1>5 DEF ReturnText, HGoto
<1>6. ASSUME NEW h \in Handler, NoResponse(h) PROVE Flights'
  BY <1>6 DEF NoResponse, HGoto
<1>7. ASSUME NEW h \in Handler, Respond(h) PROVE Flights'
  BY <1>7 DEF Respond, HGoto, Through
<1>8. ASSUME NEW h \in Handler, RespondDirectly(h) PROVE Flights'
  BY <1>8 DEF RespondDirectly, HGoto
<1>9. ASSUME NEW h \in Handler, GetSimulator(h) PROVE Flights'
  BY <1>9 DEF GetSimulator, HGoto
<1>10. ASSUME NEW h \in Handler, Check(h) PROVE Flights'
  BY <1>10 DEF Check, HGoto
<1>11. ASSUME NEW h \in Handler, Fill(h) PROVE Flights'
  BY <1>11 DEF Fill, HGoto
<1>12. ASSUME NEW h \in Handler, OnHandleMessage(h) PROVE Flights'
  BY <1>12 DEF OnHandleMessage, HGoto
<1>13. ASSUME NEW m \in Manager, NEW s \in Sim, StartSimulator(m, s) PROVE Flights'
  BY <1>13 DEF StartSimulator, Enter
<1>14. ASSUME NEW m \in Manager, NEW s \in Sim, StopSimulator(m, s) PROVE Flights'
  BY <1>14 DEF StopSimulator, Enter
<1>15. ASSUME NEW m \in Manager, DoStart(m) PROVE Flights'
  BY <1>15 DEF DoStart, MGoto
<1>16. ASSUME NEW m \in Manager, PostStart(m) PROVE Flights'
  BY <1>16 DEF PostStart, MGoto
<1>17. ASSUME NEW m \in Manager, OnStart(m) PROVE Flights'
  BY <1>17 DEF OnStart, Leave
<1>18. ASSUME NEW m \in Manager, StartFails(m) PROVE Flights'
  BY <1>18 DEF StartFails, MGoto
<1>19. ASSUME NEW m \in Manager, StartUndone(m) PROVE Flights'
  BY <1>19 DEF StartUndone, Leave
<1>20. ASSUME NEW m \in Manager, DoStop(m) PROVE Flights'
  BY <1>20 DEF DoStop, MGoto
<1>21. ASSUME NEW m \in Manager, Drained(m) PROVE Flights'
  BY <1>21 DEF Drained, MGoto
<1>22. ASSUME NEW m \in Manager, RemoveBeans(m) PROVE Flights'
  BY <1>22 DEF RemoveBeans, MGoto
<1>23. ASSUME NEW m \in Manager, OnStop(m) PROVE Flights'
  BY <1>23 DEF OnStop, MGoto
<1>24. ASSUME NEW m \in Manager, SetStopped(m) PROVE Flights'
  BY <1>24 DEF SetStopped, Leave
<1>t1. ASSUME NEW m \in Manager, StartUndoThrows(m) PROVE Flights'
  BY <1>t1 DEF StartUndoThrows, Leave
<1>t2. ASSUME NEW m \in Manager, DoStopThrows(m) PROVE Flights'
  BY <1>t2 DEF DoStopThrows, MGoto
<1>t3. ASSUME NEW m \in Manager, NEW b \in Bean, CloseBean(m, b) PROVE Flights'
  BY <1>t3 DEF CloseBean
<1>t4. ASSUME NEW m \in Manager, BeansClosed(m) PROVE Flights'
  BY <1>t4 DEF BeansClosed, MGoto
<1>t5. ASSUME NEW m \in Manager, NEW b \in Bean, OnCloseThrows(m, b) PROVE Flights'
  BY <1>t5 DEF OnCloseThrows, Leave
<1>25. CASE UNCHANGED vars
  BY <1>25 DEF vars
<1>26. QED
  BY <1>1, <1>2, <1>3, <1>4, <1>5, <1>6, <1>7, <1>8, <1>9, <1>10, <1>11, <1>12, <1>13, <1>14, <1>15, <1>16, <1>17, <1>18, <1>19, <1>20, <1>21, <1>22, <1>23, <1>24, <1>t1, <1>t2, <1>t3, <1>t4,
     <1>t5, <1>25 DEF Next, HandlerStep, ManagerStep, Throw

\* The counter is that of the run.
LEMMA CountedStep == IInv /\ [Next]_vars => Counted'
<1> SUFFICES ASSUME IInv, [Next]_vars PROVE Counted'
  OBVIOUS
<1> USE Basics DEF IInv, TypeOK, MStep, HStep, Waited, Counted, AllRely, Relies, Exclusion, life, counting, managers, handlers
<1>1. ASSUME NEW h \in Handler, NEW s \in Sim, Receive(h, s) PROVE Counted'
  BY <1>1 DEF Receive, HGoto
<1>2. ASSUME NEW h \in Handler, Match(h) PROVE Counted'
  BY <1>2 DEF Match, HGoto
<1>3. ASSUME NEW h \in Handler, Invoke(h) PROVE Counted'
  BY <1>3 DEF Invoke, HGoto
<1>4. ASSUME NEW h \in Handler, Convert(h) PROVE Counted'
  BY <1>4 DEF Convert, HGoto
<1>5. ASSUME NEW h \in Handler, ReturnText(h) PROVE Counted'
  BY <1>5 DEF ReturnText, HGoto
<1>6. ASSUME NEW h \in Handler, NoResponse(h) PROVE Counted'
  BY <1>6 DEF NoResponse, HGoto
<1>7. ASSUME NEW h \in Handler, Respond(h) PROVE Counted'
  BY <1>7 DEF Respond, HGoto, Through
<1>8. ASSUME NEW h \in Handler, RespondDirectly(h) PROVE Counted'
  BY <1>8 DEF RespondDirectly, HGoto
<1>9. ASSUME NEW h \in Handler, GetSimulator(h) PROVE Counted'
  BY <1>9 DEF GetSimulator, HGoto
<1>10. ASSUME NEW h \in Handler, Check(h) PROVE Counted'
  BY <1>10 DEF Check, HGoto
<1>11. ASSUME NEW h \in Handler, Fill(h) PROVE Counted'
  BY <1>11 DEF Fill, HGoto
<1>12. ASSUME NEW h \in Handler, OnHandleMessage(h) PROVE Counted'
  BY <1>12 DEF OnHandleMessage, HGoto
<1>13. ASSUME NEW m \in Manager, NEW s \in Sim, StartSimulator(m, s) PROVE Counted'
  BY <1>13 DEF StartSimulator, Enter
<1>14. ASSUME NEW m \in Manager, NEW s \in Sim, StopSimulator(m, s) PROVE Counted'
  BY <1>14 DEF StopSimulator, Enter
<1>15. ASSUME NEW m \in Manager, DoStart(m) PROVE Counted'
  BY <1>15 DEF DoStart, MGoto
<1>16. ASSUME NEW m \in Manager, PostStart(m) PROVE Counted'
  BY <1>16 DEF PostStart, MGoto
<1>17. ASSUME NEW m \in Manager, OnStart(m) PROVE Counted'
  BY <1>17 DEF OnStart, Leave
<1>18. ASSUME NEW m \in Manager, StartFails(m) PROVE Counted'
  BY <1>18 DEF StartFails, MGoto
<1>19. ASSUME NEW m \in Manager, StartUndone(m) PROVE Counted'
  BY <1>19 DEF StartUndone, Leave
<1>20. ASSUME NEW m \in Manager, DoStop(m) PROVE Counted'
  BY <1>20 DEF DoStop, MGoto
<1>21. ASSUME NEW m \in Manager, Drained(m) PROVE Counted'
  BY <1>21 DEF Drained, MGoto
<1>22. ASSUME NEW m \in Manager, RemoveBeans(m) PROVE Counted'
  BY <1>22 DEF RemoveBeans, MGoto
<1>23. ASSUME NEW m \in Manager, OnStop(m) PROVE Counted'
  BY <1>23 DEF OnStop, MGoto
<1>24. ASSUME NEW m \in Manager, SetStopped(m) PROVE Counted'
  BY <1>24 DEF SetStopped, Leave
<1>t1. ASSUME NEW m \in Manager, StartUndoThrows(m) PROVE Counted'
  BY <1>t1 DEF StartUndoThrows, Leave
<1>t2. ASSUME NEW m \in Manager, DoStopThrows(m) PROVE Counted'
  BY <1>t2 DEF DoStopThrows, MGoto
<1>t3. ASSUME NEW m \in Manager, NEW b \in Bean, CloseBean(m, b) PROVE Counted'
  BY <1>t3 DEF CloseBean
<1>t4. ASSUME NEW m \in Manager, BeansClosed(m) PROVE Counted'
  BY <1>t4 DEF BeansClosed, MGoto
<1>t5. ASSUME NEW m \in Manager, NEW b \in Bean, OnCloseThrows(m, b) PROVE Counted'
  BY <1>t5 DEF OnCloseThrows, Leave
<1>25. CASE UNCHANGED vars
  BY <1>25 DEF vars
<1>26. QED
  BY <1>1, <1>2, <1>3, <1>4, <1>5, <1>6, <1>7, <1>8, <1>9, <1>10, <1>11, <1>12, <1>13, <1>14, <1>15, <1>16, <1>17, <1>18, <1>19, <1>20, <1>21, <1>22, <1>23, <1>24, <1>t1, <1>t2, <1>t3, <1>t4,
     <1>t5, <1>25 DEF Next, HandlerStep, ManagerStep, Throw

\* Own answers pass.
LEMMA AnswerStep == IInv /\ [Next]_vars => OwnAnswersPass'
<1> SUFFICES ASSUME IInv, [Next]_vars PROVE OwnAnswersPass'
  OBVIOUS
<1> USE Basics DEF IInv, TypeOK, MStep, HStep, Waited, OwnAnswersPass, Flights, FlightOf, Starts, AllRely, Relies, Exclusion, InFlight, Handling, life, counting, managers, handlers
<1>1. ASSUME NEW h \in Handler, NEW s \in Sim, Receive(h, s) PROVE OwnAnswersPass'
  BY <1>1 DEF Receive, HGoto
<1>2. ASSUME NEW h \in Handler, Match(h) PROVE OwnAnswersPass'
  BY <1>2 DEF Match, HGoto
<1>3. ASSUME NEW h \in Handler, Invoke(h) PROVE OwnAnswersPass'
  BY <1>3 DEF Invoke, HGoto
<1>4. ASSUME NEW h \in Handler, Convert(h) PROVE OwnAnswersPass'
  BY <1>4 DEF Convert, HGoto
<1>5. ASSUME NEW h \in Handler, ReturnText(h) PROVE OwnAnswersPass'
  BY <1>5 DEF ReturnText, HGoto
<1>6. ASSUME NEW h \in Handler, NoResponse(h) PROVE OwnAnswersPass'
  BY <1>6 DEF NoResponse, HGoto
<1>7. ASSUME NEW h \in Handler, Respond(h) PROVE OwnAnswersPass'
  BY <1>7 DEF Respond, HGoto, Through
<1>8. ASSUME NEW h \in Handler, RespondDirectly(h) PROVE OwnAnswersPass'
  BY <1>8 DEF RespondDirectly, HGoto
<1>9. ASSUME NEW h \in Handler, GetSimulator(h) PROVE OwnAnswersPass'
  BY <1>9 DEF GetSimulator, HGoto
<1>10. ASSUME NEW h \in Handler, Check(h) PROVE OwnAnswersPass'
  BY <1>10 DEF Check, HGoto
<1>11. ASSUME NEW h \in Handler, Fill(h) PROVE OwnAnswersPass'
  BY <1>11 DEF Fill, HGoto
<1>12. ASSUME NEW h \in Handler, OnHandleMessage(h) PROVE OwnAnswersPass'
  BY <1>12 DEF OnHandleMessage, HGoto
<1>13. ASSUME NEW m \in Manager, NEW s \in Sim, StartSimulator(m, s) PROVE OwnAnswersPass'
  BY <1>13 DEF StartSimulator, Enter
<1>14. ASSUME NEW m \in Manager, NEW s \in Sim, StopSimulator(m, s) PROVE OwnAnswersPass'
  BY <1>14 DEF StopSimulator, Enter
<1>15. ASSUME NEW m \in Manager, DoStart(m) PROVE OwnAnswersPass'
  BY <1>15 DEF DoStart, MGoto
<1>16. ASSUME NEW m \in Manager, PostStart(m) PROVE OwnAnswersPass'
  BY <1>16 DEF PostStart, MGoto
<1>17. ASSUME NEW m \in Manager, OnStart(m) PROVE OwnAnswersPass'
  BY <1>17 DEF OnStart, Leave
<1>18. ASSUME NEW m \in Manager, StartFails(m) PROVE OwnAnswersPass'
  BY <1>18 DEF StartFails, MGoto
<1>19. ASSUME NEW m \in Manager, StartUndone(m) PROVE OwnAnswersPass'
  BY <1>19 DEF StartUndone, Leave
<1>20. ASSUME NEW m \in Manager, DoStop(m) PROVE OwnAnswersPass'
  BY <1>20 DEF DoStop, MGoto
<1>21. ASSUME NEW m \in Manager, Drained(m) PROVE OwnAnswersPass'
  BY <1>21 DEF Drained, MGoto
<1>22. ASSUME NEW m \in Manager, RemoveBeans(m) PROVE OwnAnswersPass'
  BY <1>22 DEF RemoveBeans, MGoto
<1>23. ASSUME NEW m \in Manager, OnStop(m) PROVE OwnAnswersPass'
  BY <1>23 DEF OnStop, MGoto
<1>24. ASSUME NEW m \in Manager, SetStopped(m) PROVE OwnAnswersPass'
  BY <1>24 DEF SetStopped, Leave
<1>t1. ASSUME NEW m \in Manager, StartUndoThrows(m) PROVE OwnAnswersPass'
  BY <1>t1 DEF StartUndoThrows, Leave
<1>t2. ASSUME NEW m \in Manager, DoStopThrows(m) PROVE OwnAnswersPass'
  BY <1>t2 DEF DoStopThrows, MGoto
<1>t3. ASSUME NEW m \in Manager, NEW b \in Bean, CloseBean(m, b) PROVE OwnAnswersPass'
  BY <1>t3 DEF CloseBean
<1>t4. ASSUME NEW m \in Manager, BeansClosed(m) PROVE OwnAnswersPass'
  BY <1>t4 DEF BeansClosed, MGoto
<1>t5. ASSUME NEW m \in Manager, NEW b \in Bean, OnCloseThrows(m, b) PROVE OwnAnswersPass'
  BY <1>t5 DEF OnCloseThrows, Leave
<1>25. CASE UNCHANGED vars
  BY <1>25 DEF vars
<1>26. QED
  BY <1>1, <1>2, <1>3, <1>4, <1>5, <1>6, <1>7, <1>8, <1>9, <1>10, <1>11, <1>12, <1>13, <1>14, <1>15, <1>16, <1>17, <1>18, <1>19, <1>20, <1>21, <1>22, <1>23, <1>24, <1>t1, <1>t2, <1>t3, <1>t4,
     <1>t5, <1>25 DEF Next, HandlerStep, ManagerStep, Throw

----------------------------------------------------------------------------
(* The theorems.                                                           *)

\* The invariant holds in every state.
LEMMA Invariance == Spec => []IInv
<1>1. IInv /\ [Next]_vars => IInv'
  BY TypeStep, ExclusionStep, HandlingStep, RelyStep, BeanStep, OpenedStep, FlightStep,
     CountedStep, AnswerStep DEF IInv
<1>2. QED
  BY InitInv, <1>1, PTL DEF Spec

\* Simulators, handlers and management threads stay within their types
\* (BeanRepository, SimSimulator, MessageCounter).
THEOREM TypeCorrect == Spec => []TypeOK
<1>1. IInv => TypeOK
  BY DEF IInv
<1>2. QED
  BY Invariance, <1>1, PTL

\* A bean out of the map is closed, about to be closed, or left behind by an
\* onClose of its batch that threw (BeanRepository.addBean, removeSimulatorBeans).
THEOREM BeansAreClosed == Spec => []EveryBeanIsClosed
<1>1. IInv => EveryBeanIsClosed
  <2> SUFFICES ASSUME IInv, NEW s \in Sim
               PROVE  /\ Mapped(s) \cap onClosed[s] = {}
                      /\ \A b \in 1 .. created[s] :
                           \/ b \in Mapped(s) \cup onClosed[s]
                           \/ b \in removing /\ \E m \in Manager : mpc[m] = "removing" /\ msim[m] = s
                           \/ Abandoned(s, b)
    BY DEF EveryBeanIsClosed
  <2>1. Mapped(s) \cap onClosed[s] = {}
    BY DEF IInv, Beans, BeansOf, Mapped
  <2>2. ASSUME NEW b \in 1 .. created[s]
        PROVE  \/ b \in Mapped(s) \cup onClosed[s]
               \/ b \in removing /\ \E m \in Manager : mpc[m] = "removing" /\ msim[m] = s
               \/ Abandoned(s, b)
    <3>1. Whereabouts(s, b) /\ b # 0
      BY DEF IInv, Beans, Located, TypeOK
    <3>2. QED
      BY <3>1 DEF Whereabouts, Mapped
  <2>3. QED
    BY <2>1, <2>2
<1>2. QED
  BY Invariance, <1>1, PTL

\* A simulator that drains never refuses its own handlers' answers
\* (AbstractSimRequest.fillResponse, SimulatorRepository.getSimulator).
THEOREM OwnAnswersArrive == Spec => []OwnAnswersPass
<1>1. IInv => OwnAnswersPass
  BY DEF IInv
<1>2. QED
  BY Invariance, <1>1, PTL

\* The stop of a simulator that drains leaves neither handler nor bean
\* (SimSimulator.stop).
THEOREM StopsAreClean == Spec => DrainedStopIsClean
<1> DEFINE Clean(m) ==
             /\ mpc[m] \in {"stopped", "removing", "uncounting", "closing"}
             /\ mpc'[m] # mpc[m] /\ msim[m] \in Waited
             => /\ \A c \in Class : bean'[msim[m]][c] = 0
                /\ \A h \in Handler : hsim'[h] # msim[m]
<1>1. ASSUME IInv, [Next]_vars, NEW m \in Manager PROVE Clean(m)
  <2> SUFFICES ASSUME mpc[m] \in {"stopped", "removing", "uncounting", "closing"},
                      mpc'[m] # mpc[m], msim[m] \in Waited
               PROVE  /\ \A c \in Class : bean'[msim[m]][c] = 0
                      /\ \A h \in Handler : hsim'[h] # msim[m]
    OBVIOUS
  <2>a. \A h \in Handler : hsim[h] # msim[m]
    BY <1>1 DEF IInv, AllRely, Relies, InFlight
  <2>b. mpc[m] # "stopped" => \A c \in Class : bean[msim[m]][c] = 0
    BY <1>1 DEF IInv, AllRely, Relies
  <2>c. lock = m /\ lock # NoThread /\ msim[m] \in Sim
    BY <1>1, Basics DEF IInv, Exclusion, TypeOK
  <2>d. \A n \in Manager : n # m => mpc[n] = "idle"
    BY <1>1, <2>c DEF IInv, Exclusion
  <2>1. CASE RemoveBeans(m)
    BY <1>1, <2>1, <2>a, <2>c DEF RemoveBeans, MGoto, IInv, TypeOK, handlers
  <2>2. CASE OnStop(m) \/ SetStopped(m) \/ BeansClosed(m)
    BY <2>2, <2>a, <2>b DEF OnStop, SetStopped, BeansClosed, handlers, beans
  <2>3. ASSUME NEW b \in Bean, CloseBean(m, b) \/ OnCloseThrows(m, b)
        PROVE  UNCHANGED <<bean, hsim>> /\ mpc[m] = "removing"
    BY <2>3 DEF CloseBean, OnCloseThrows, handlers
  <2>4. ASSUME NEW h \in Handler, (\E s \in Sim : Receive(h, s)) \/ HandlerStep(h)
        PROVE  FALSE
    BY <2>4 DEF HandlerStep, Receive, Match, Invoke, Convert, ReturnText, NoResponse, Respond,
                RespondDirectly, GetSimulator, Check, Fill, OnHandleMessage, managers
  <2>5. ASSUME NEW n \in Manager,
               \/ \E s \in Sim : StartSimulator(n, s) \/ StopSimulator(n, s)
               \/ DoStart(n) \/ PostStart(n) \/ OnStart(n) \/ StartFails(n)
               \/ StartUndone(n) \/ StartUndoThrows(n) \/ DoStop(n) \/ DoStopThrows(n)
               \/ Drained(n)
        PROVE  FALSE
    BY <2>5, <2>c, <2>d DEF StartSimulator, StopSimulator, Enter, DoStart, PostStart, OnStart,
                StartFails, StartUndone, StartUndoThrows, DoStop, DoStopThrows, Drained
  <2>6. ASSUME NEW n \in Manager, n # m,
               \/ RemoveBeans(n) \/ BeansClosed(n) \/ OnStop(n) \/ SetStopped(n)
               \/ \E b \in Bean : CloseBean(n, b) \/ OnCloseThrows(n, b)
        PROVE  FALSE
    BY <2>6, <2>d DEF RemoveBeans, BeansClosed, OnStop, SetStopped, CloseBean, OnCloseThrows
  <2>7. CASE UNCHANGED vars
    BY <2>7 DEF vars, managers
  <2>8. QED
    BY <1>1, <2>1, <2>2, <2>3, <2>4, <2>5, <2>6, <2>7, <2>a, <2>b DEF Next, ManagerStep, Throw
<1>2. IInv /\ [Next]_vars => [\A m \in Manager : Clean(m)]_vars
  BY <1>1
<1>3. QED
  BY Invariance, <1>2, PTL DEF Spec, DrainedStopIsClean

\* Messages of a simulator that drains are counted in the run they belong to
\* (MessageCounter.onStart, onStop, onHandleMessage).
THEOREM MessagesAreCounted == Spec => CountedInItsRun
<1> DEFINE InRun(h) ==
      hpc[h] = "reporting" /\ hpc'[h] = "idle" /\ hsim[h] \in Waited
      => counter[hsim[h]] = hrun[h] \/ Starts(hsim[h])
<1>1. ASSUME IInv, NEW h \in Handler, hpc[h] = "reporting", hsim[h] \in Waited
      PROVE  counter[hsim[h]] = hrun[h] \/ Starts(hsim[h])
  <2>1. hrun[h] = run[hsim[h]] /\ (hsim[h] \in running \/ Starts(hsim[h]))
    BY <1>1 DEF IInv, Flights, FlightOf
  <2>2. ASSUME NEW m \in Manager, mpc[m] = "closing", msim[m] = hsim[h] PROVE FALSE
    BY <1>1, <2>2 DEF IInv, AllRely, Relies, InFlight
  <2>3. ASSUME NEW m \in Manager, mpc[m] = "running", msim[m] = hsim[h] PROVE Starts(hsim[h])
    BY <2>3 DEF Starts
  <2>4. QED
    <3>1. CASE hsim[h] \in running /\ ~Starts(hsim[h])
      BY <1>1, <2>1, <2>2, <2>3, <3>1 DEF IInv, Counted
    <3>2. QED
      BY <2>1, <3>1
<1>2. IInv /\ [Next]_vars => [\A h \in Handler : InRun(h)]_vars
  BY <1>1
<1>3. QED
  BY Invariance, <1>2, PTL DEF Spec, CountedInItsRun
=============================================================================
