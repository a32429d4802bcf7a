------------------------ MODULE RequestDispatch_proofs ------------------------
(* The safety properties of RequestDispatch, for any number of rules and   *)
(* responses.                                                              *)
EXTENDS RequestDispatch, TLAPS

----------------------------------------------------------------------------
(* The inductive invariant.                                                *)

\* How far the rules have been tried.
Order ==
  /\ step = "new" => rule = NoRule
  /\ rule = NoRule =>
       step \in {"new", "reporting", "returning", "done"} /\ ~respList /\ told # "ok" /\ sent = {}
  /\ \A r \in skipped : r < rule
  /\ \A p \in sent : p[1] <= rule /\ (step = "matching" => p[1] < rule)
  /\ RulesDoNotMix

\* The responses of the rule that is at work.
Replying ==
  step = "replying" =>
    /\ rule \in 1 .. rules
    /\ reply < replies[rule]
    /\ \A i \in 1 .. reply : <<rule, i>> \in sent
    /\ \A i \in 1 .. MaxReply : <<rule, i>> \in sent => i <= reply

\* Before the end no rule is through and no list was returned.
Unfinished ==
  step \in {"new", "matching", "replying", "caught", "proxied", "error", "escaped"} =>
    /\ \A r \in 1 .. rules : ~AllSent(r)
    /\ ~respList
    /\ told = "nothing"

\* Who still waits although there is a list.
Owed ==
  respList /\ client = "waiting" =>
    \/ Complete \/ failedAfterRead
    \/ transport \in Rpc /\ thrown /\ step # "done"

\* Where a list came from, and what was told of it.
Outcome ==
  /\ ProxyIsLastResort
  /\ respList => \/ forwarded \/ Complete
                 \/ transport = "thrift" \/ (transport = "grpc" /\ thrown)
  /\ Owed
  /\ told = "ok" => respList
  /\ step = "proxied" => forwarded
  /\ forwarded => step \notin {"new", "matching", "replying"}
  /\ step = "reporting" => told = "nothing"

\* Who still waits.
Waiting ==
  /\ client = "waiting" => transport \notin {"messaging", "file"}
  /\ step \in {"proxied", "error"} => transport = "http"
  /\ step = "escaped" => transport \in {"http", "messaging"}
  /\ step = "returning" =>
       /\ transport \in {"mem", "grpc", "thrift"}
       /\ (respList /\ told = "ok") \/ (~respList /\ told = "failed")
  /\ transport \in {"mem", "file"} => ~proxy
  /\ client = "refused" /\ transport \notin Rpc =>
       ~respList /\ step \in {"reporting", "returning", "done"}
  /\ client = "refused" /\ transport = "grpc" => thrown /\ step = "done"
  /\ step = "reporting" /\ client = "waiting" /\ transport = "http" => respList
  /\ step \in {"reporting", "returning"} /\ client = "waiting" /\ transport \in Rpc =>
       respList \/ thrown
  /\ step = "done" /\ client = "waiting" => rule = NoRule \/ told = "ok"

\* How often a Thrift call was read that nobody answered.
Reading ==
  transport = "thrift" /\ sent = {} =>
    /\ step \in {"new", "matching", "replying"} => reads = 0 /\ ~failedAfterRead
    /\ step = "caught" => reads = IF failedAfterRead THEN 1 ELSE 0
    /\ step \in {"reporting", "returning", "done"} /\ ~thrown =>
         reads = IF failedAfterRead THEN Often ELSE 1

IInv == TypeOK /\ Order /\ Replying /\ Unfinished /\ Outcome /\ Waiting /\ Reading

----------------------------------------------------------------------------
(* One lemma per part: no action of the dispatch breaks it.                *)

\* The dispatch begins in the invariant.
LEMMA Initially == Init => IInv
<1> SUFFICES ASSUME Init PROVE IInv
  OBVIOUS
<1> USE DispatchAssumption DEF Init
<1>1. TypeOK
  <2>1. proxy \in BOOLEAN
    BY DEF Transport
  <2>2. client \in {"none", "waiting"}
    OBVIOUS
  <2>3. rule = 0 /\ reply = 0 /\ 0 \in 0 .. MaxRule + 1 /\ 0 \in 0 .. MaxReply
    BY DEF NoRule
  <2>4. QED
    <3>1. 0 \in 0 .. Often
      BY DEF Often
    <3>2. QED
      BY <2>1, <2>2, <2>3, <3>1 DEF TypeOK, Step
<1>2. Order /\ Replying /\ Waiting /\ Reading
  BY DEF Order, Replying, Waiting, Reading, RulesDoNotMix, NoRule
<1>3. Unfinished /\ Outcome
  BY <1>1 DEF Unfinished, Outcome, Owed, ProxyIsLastResort, AllSent, TypeOK, Rule
<1>4. QED
  BY <1>1, <1>2, <1>3 DEF IInv

LEMMA ReadType ==
  ASSUME TypeOK, ReadInVain \/ UNCHANGED <<reads, failedAfterRead>>
  PROVE  reads' \in 0 .. Often /\ failedAfterRead' \in BOOLEAN
<1>1. reads \in 0 .. Often /\ failedAfterRead \in BOOLEAN
  BY DEF TypeOK
<1>2. CASE ReadInVain
  <2>1. reads' \in 0 .. Often
    BY <1>1, <1>2 DEF ReadInVain, Read, Often
  <2>2. failedAfterRead' = TRUE
    BY <1>2 DEF ReadInVain
  <2>3. QED
    BY <2>1, <2>2
<1>3. CASE UNCHANGED <<reads, failedAfterRead>>
  BY <1>1, <1>3
<1>4. QED
  BY <1>2, <1>3

\* Types: the rule at work never runs past the last but one.
LEMMA TypeStep == IInv /\ [Next]_vars => TypeOK'
<1> SUFFICES ASSUME IInv, [Next]_vars PROVE TypeOK'
  OBVIOUS
<1> USE DispatchAssumption DEF IInv, TypeOK, Replying, Rule, Step, Transport, Rpc, Often
<1>1. CASE Create
  <2>1. thrown' \in BOOLEAN
    BY <1>1 DEF Create
  <2>2. rule' \in 0 .. MaxRule + 1 /\ step' \in Step
    BY <1>1 DEF Create
  <2>3. QED
    BY <1>1, <2>1, <2>2 DEF Create, script
<1>2. CASE CreateFails
  BY <1>2 DEF CreateFails, script, dispatch, call
<1>3. CASE NoTrace
  BY <1>3 DEF NoTrace, script, dispatch, call
<1>4. CASE UnknownMethod
  BY <1>4 DEF UnknownMethod, Get, Read, script, dispatch, call
<1>5. CASE Mismatch
  BY <1>5 DEF Mismatch, script, dispatch, call
<1>6. CASE Match
  BY <1>6 DEF Match, script, dispatch, call
<1>7. CASE MatchFails
  BY <1>7 DEF MatchFails, script, dispatch, call
<1>8. CASE NoRuleMatches
  BY <1>8 DEF NoRuleMatches, script, dispatch, call
<1>9. CASE Answer
  <2>1. rule \in Rule /\ replies[rule] \in 1 .. MaxReply /\ reply \in Nat /\ reply < replies[rule]
    BY <1>9 DEF Answer
  <2>2. reply' \in 0 .. MaxReply /\ <<rule, reply + 1>> \in Rule \X (1 .. MaxReply)
    BY <1>9, <2>1 DEF Answer, Sent
  <2>3. client' \in {"none", "waiting", "answered", "refused", "gone"}
    BY <1>9 DEF Answer, Get
  <2>4. reads' \in 0 .. 2 /\ failedAfterRead' \in BOOLEAN /\ thrown' \in BOOLEAN
    BY <1>9 DEF Answer, Read, call
  <2>5. step' \in Step /\ respList' \in BOOLEAN
    BY <1>9 DEF Answer, Sent
  <2>6. sent' \subseteq Rule \X (1 .. MaxReply)
    BY <1>9, <2>2 DEF Answer, Sent
  <2>7. QED
    BY <1>9, <2>2, <2>3, <2>4, <2>5, <2>6 DEF Answer, Sent, script
<1>10. CASE InvokeService
  <2>1. rule \in Rule /\ replies[rule] \in 1 .. MaxReply /\ reply \in Nat /\ reply < replies[rule]
    BY <1>10 DEF InvokeService
  <2>2. reply' \in 0 .. MaxReply /\ <<rule, reply + 1>> \in Rule \X (1 .. MaxReply)
    BY <1>10, <2>1 DEF InvokeService, Sent
  <2>3. client' \in {"none", "waiting", "answered", "refused", "gone"}
    BY <1>10 DEF InvokeService, Get
  <2>4. reads' \in 0 .. 2 /\ failedAfterRead' \in BOOLEAN /\ thrown' \in BOOLEAN
    BY <1>10 DEF InvokeService, Read, call
  <2>5. step' \in Step /\ respList' \in BOOLEAN
    BY <1>10 DEF InvokeService, Sent
  <2>6. sent' \subseteq Rule \X (1 .. MaxReply)
    BY <1>10, <2>2 DEF InvokeService, Sent
  <2>7. QED
    BY <1>10, <2>2, <2>3, <2>4, <2>5, <2>6 DEF InvokeService, Sent, script
<1>11. CASE ProcessCall
  <2>1. rule \in Rule /\ replies[rule] \in 1 .. MaxReply /\ reply \in Nat /\ reply < replies[rule]
    BY <1>11 DEF ProcessCall
  <2>2. reply' \in 0 .. MaxReply /\ <<rule, reply + 1>> \in Rule \X (1 .. MaxReply)
    BY <1>11, <2>1 DEF ProcessCall, Sent
  <2>3. client' \in {"none", "waiting", "answered", "refused", "gone"}
    BY <1>11 DEF ProcessCall, Get
  <2>4. reads' \in 0 .. 2 /\ failedAfterRead' \in BOOLEAN /\ thrown' \in BOOLEAN
    BY <1>11 DEF ProcessCall, Read, call
  <2>5. step' \in Step /\ respList' \in BOOLEAN
    BY <1>11 DEF ProcessCall, Sent
  <2>6. sent' \subseteq Rule \X (1 .. MaxReply)
    BY <1>11, <2>2 DEF ProcessCall, Sent
  <2>7. QED
    BY <1>11, <2>2, <2>3, <2>4, <2>5, <2>6 DEF ProcessCall, Sent, script
<1>12. CASE SendElsewhere
  <2>1. rule \in Rule /\ replies[rule] \in 1 .. MaxReply /\ reply \in Nat /\ reply < replies[rule]
    BY <1>12 DEF SendElsewhere
  <2>2. reply' \in 0 .. MaxReply /\ <<rule, reply + 1>> \in Rule \X (1 .. MaxReply)
    BY <1>12, <2>1 DEF SendElsewhere, Sent
  <2>3. client' \in {"none", "waiting", "answered", "refused", "gone"}
    BY <1>12 DEF SendElsewhere, Get
  <2>4. reads' \in 0 .. 2 /\ failedAfterRead' \in BOOLEAN /\ thrown' \in BOOLEAN
    BY <1>12 DEF SendElsewhere, Read, call
  <2>5. step' \in Step /\ respList' \in BOOLEAN
    BY <1>12 DEF SendElsewhere, Sent
  <2>6. sent' \subseteq Rule \X (1 .. MaxReply)
    BY <1>12, <2>2 DEF SendElsewhere, Sent
  <2>7. QED
    BY <1>12, <2>2, <2>3, <2>4, <2>5, <2>6 DEF SendElsewhere, Sent, script
<1>13. CASE ReplyFails
  <2>1. reads' \in 0 .. Often /\ failedAfterRead' \in BOOLEAN
    BY <1>13, ReadType DEF ReplyFails
  <2>2. QED
    BY <1>13, <2>1 DEF ReplyFails, script, dispatch
<1>14. CASE Escape
  <2>1. reads' \in 0 .. Often /\ failedAfterRead' \in BOOLEAN
    BY <1>14, ReadType DEF Escape
  <2>2. QED
    BY <1>14, <2>1 DEF Escape, script, dispatch
<1>15. CASE Skip
  BY <1>15 DEF Skip, script, dispatch, call
<1>16. CASE NoProxy
  BY <1>16 DEF NoProxy, AfterFailure, script, dispatch, call
<1>17. CASE Forward
  BY <1>17 DEF Forward, script, dispatch, call
<1>18. CASE ForwardFails
  BY <1>18 DEF ForwardFails, AfterFailure, script, dispatch, call
<1>19. CASE ForwardEscapes
  BY <1>19 DEF ForwardEscapes, script, dispatch, call
<1>20. CASE FillProxied
  <2>1. client' \in {"none", "waiting", "answered", "refused", "gone"} /\ respList' \in BOOLEAN
    BY <1>20 DEF FillProxied
  <2>2. step' \in Step
    BY <1>20 DEF FillProxied
  <2>3. QED
    BY <1>20, <2>1, <2>2 DEF FillProxied, script, dispatch, call
<1>21. CASE Gen500Response
  BY <1>21 DEF Gen500Response, Get, script, dispatch, call
<1>22. CASE NoSuchMethod
  BY <1>22 DEF NoSuchMethod, script, dispatch, call
<1>23. CASE InvokeRemote
  BY <1>23 DEF InvokeRemote, Get, script, dispatch, call
<1>24. CASE SendErrorMessage
  BY <1>24 DEF SendErrorMessage, Get, Read, script, dispatch, call
<1>25. CASE ProcessRemote
  <2>1. client' \in {"none", "waiting", "answered", "refused", "gone"}
    BY <1>25 DEF ProcessRemote, Get
  <2>2. reads' \in 0 .. 2
    BY <1>25 DEF ProcessRemote, Read
  <2>3. forwarded' \in BOOLEAN /\ respList' \in BOOLEAN /\ thrown' \in BOOLEAN
    BY <1>25 DEF ProcessRemote
  <2>4. QED
    BY <1>25, <2>1, <2>2, <2>3 DEF ProcessRemote, script, dispatch
<1>26. CASE OnHandleMessage
  BY <1>26 DEF OnHandleMessage, script, dispatch, call
<1>27. CASE Return
  BY <1>27 DEF Return, script, dispatch, call
<1>28. CASE ReturnCall
  BY <1>28 DEF ReturnCall, Get, script, dispatch, call
<1>29. CASE HangUp
  BY <1>29 DEF HangUp, script, dispatch, call
<1>30. CASE UNCHANGED vars
  BY <1>30 DEF vars, script, dispatch, call
<1>31. QED
  BY <1>1, <1>2, <1>3, <1>4, <1>5, <1>6, <1>7, <1>8, <1>9, <1>10, <1>11, <1>12,
     <1>13, <1>14, <1>15, <1>16, <1>17, <1>18, <1>19, <1>20, <1>21, <1>22, <1>23,
     <1>24, <1>25, <1>26, <1>27, <1>28, <1>29, <1>30
     DEF Next, Handle, GenResponse, FallBack

\* The rules are tried in their order, and left only by a mismatch or a skip.
LEMMA OrderStep == IInv /\ [Next]_vars => Order'
<1> SUFFICES ASSUME IInv, [Next]_vars PROVE Order'
  OBVIOUS
<1> USE DispatchAssumption DEF IInv, TypeOK, Order, Replying, Unfinished, RulesDoNotMix, Rule, NoRule
<1>1. CASE Create
  BY <1>1 DEF Create, script, dispatch, call
<1>2. CASE CreateFails
  BY <1>2 DEF CreateFails, script, dispatch, call
<1>3. CASE NoTrace
  BY <1>3 DEF NoTrace, script, dispatch, call
<1>4. CASE UnknownMethod
  BY <1>4 DEF UnknownMethod, Get, Read, script, dispatch, call
<1>5. CASE Mismatch
  BY <1>5 DEF Mismatch, script, dispatch, call
<1>6. CASE Match
  BY <1>6 DEF Match, script, dispatch, call
<1>7. CASE MatchFails
  BY <1>7 DEF MatchFails, script, dispatch, call
<1>8. CASE NoRuleMatches
  BY <1>8 DEF NoRuleMatches, script, dispatch, call
<1>9. CASE Answer
  BY <1>9 DEF Answer, Sent, script, dispatch, call
<1>10. CASE InvokeService
  BY <1>10 DEF InvokeService, Sent, Get, script, dispatch, call
<1>11. CASE ProcessCall
  BY <1>11 DEF ProcessCall, Sent, Get, Read, script, dispatch, call
<1>12. CASE SendElsewhere
  BY <1>12 DEF SendElsewhere, Sent, script, dispatch, call
<1>13. CASE ReplyFails
  BY <1>13 DEF ReplyFails, ReadInVain, Read, script, dispatch, call
<1>14. CASE Escape
  BY <1>14 DEF Escape, ReadInVain, Read, script, dispatch, call
<1>15. CASE Skip
  BY <1>15 DEF Skip, script, dispatch, call
<1>16. CASE NoProxy
  BY <1>16 DEF NoProxy, AfterFailure, script, dispatch, call
<1>17. CASE Forward
  BY <1>17 DEF Forward, script, dispatch, call
<1>18. CASE ForwardFails
  BY <1>18 DEF ForwardFails, AfterFailure, script, dispatch, call
<1>19. CASE ForwardEscapes
  BY <1>19 DEF ForwardEscapes, script, dispatch, call
<1>20. CASE FillProxied
  BY <1>20 DEF FillProxied, script, dispatch, call
<1>21. CASE Gen500Response
  BY <1>21 DEF Gen500Response, Get, script, dispatch, call
<1>22. CASE NoSuchMethod
  BY <1>22 DEF NoSuchMethod, script, dispatch, call
<1>23. CASE InvokeRemote
  BY <1>23 DEF InvokeRemote, Get, script, dispatch, call
<1>24. CASE SendErrorMessage
  BY <1>24 DEF SendErrorMessage, Get, Read, script, dispatch, call
<1>25. CASE ProcessRemote
  BY <1>25 DEF ProcessRemote, Get, Read, script, dispatch, call
<1>26. CASE OnHandleMessage
  BY <1>26 DEF OnHandleMessage, script, dispatch, call
<1>27. CASE Return
  BY <1>27 DEF Return, script, dispatch, call
<1>28. CASE ReturnCall
  BY <1>28 DEF ReturnCall, Get, script, dispatch, call
<1>29. CASE HangUp
  BY <1>29 DEF HangUp, script, dispatch, call
<1>30. CASE UNCHANGED vars
  BY <1>30 DEF vars, script, dispatch, call
<1>31. QED
  BY <1>1, <1>2, <1>3, <1>4, <1>5, <1>6, <1>7, <1>8, <1>9, <1>10, <1>11, <1>12,
     <1>13, <1>14, <1>15, <1>16, <1>17, <1>18, <1>19, <1>20, <1>21, <1>22, <1>23,
     <1>24, <1>25, <1>26, <1>27, <1>28, <1>29, <1>30
     DEF Next, Handle, GenResponse, FallBack

\* The responses of a rule are sent in their order.
LEMMA ReplyingStep == IInv /\ [Next]_vars => Replying'
<1> SUFFICES ASSUME IInv, [Next]_vars PROVE Replying'
  OBVIOUS
<1> USE DispatchAssumption DEF IInv, TypeOK, Order, Replying, Rule, NoRule
<1>1. CASE Create
  BY <1>1 DEF Create, script, dispatch, call
<1>2. CASE CreateFails
  BY <1>2 DEF CreateFails, script, dispatch, call
<1>3. CASE NoTrace
  BY <1>3 DEF NoTrace, script, dispatch, call
<1>4. CASE UnknownMethod
  BY <1>4 DEF UnknownMethod, Get, Read, script, dispatch, call
<1>5. CASE Mismatch
  BY <1>5 DEF Mismatch, script, dispatch, call
<1>6. CASE Match
  BY <1>6 DEF Match, script, dispatch, call
<1>7. CASE MatchFails
  BY <1>7 DEF MatchFails, script, dispatch, call
<1>8. CASE NoRuleMatches
  BY <1>8 DEF NoRuleMatches, script, dispatch, call
<1>9. CASE Answer
  <2>1. rule \in Rule /\ replies[rule] \in 1 .. MaxReply /\ reply \in Nat /\ reply < replies[rule]
    BY <1>9 DEF Answer
  <2>2. reply' = reply + 1 /\ sent' = sent \cup {<<rule, reply + 1>>}
        /\ rule' = rule /\ rules' = rules /\ replies' = replies
    BY <1>9 DEF Answer, Sent, script
  <2>3. \A i \in 1 .. reply' : <<rule', i>> \in sent'
    BY <1>9, <2>1, <2>2 DEF Answer
  <2>4. \A i \in 1 .. MaxReply : <<rule', i>> \in sent' => i <= reply'
    BY <1>9, <2>1, <2>2 DEF Answer
  <2>5. step' = "replying" => reply' < replies'[rule']
    BY <1>9, <2>1, <2>2 DEF Answer, Sent
  <2>6. QED
    BY <1>9, <2>2, <2>3, <2>4, <2>5 DEF Answer
<1>10. CASE InvokeService
  <2>1. rule \in Rule /\ replies[rule] \in 1 .. MaxReply /\ reply \in Nat /\ reply < replies[rule]
    BY <1>10 DEF InvokeService, Get
  <2>2. reply' = reply + 1 /\ sent' = sent \cup {<<rule, reply + 1>>}
        /\ rule' = rule /\ rules' = rules /\ replies' = replies
    BY <1>10 DEF InvokeService, Sent, script, Get
  <2>3. \A i \in 1 .. reply' : <<rule', i>> \in sent'
    BY <1>10, <2>1, <2>2 DEF InvokeService, Get
  <2>4. \A i \in 1 .. MaxReply : <<rule', i>> \in sent' => i <= reply'
    BY <1>10, <2>1, <2>2 DEF InvokeService, Get
  <2>5. step' = "replying" => reply' < replies'[rule']
    BY <1>10, <2>1, <2>2 DEF InvokeService, Sent, Get
  <2>6. QED
    BY <1>10, <2>2, <2>3, <2>4, <2>5 DEF InvokeService, Get
<1>11. CASE ProcessCall
  <2>1. rule \in Rule /\ replies[rule] \in 1 .. MaxReply /\ reply \in Nat /\ reply < replies[rule]
    BY <1>11 DEF ProcessCall, Get, Read
  <2>2. reply' = reply + 1 /\ sent' = sent \cup {<<rule, reply + 1>>}
        /\ rule' = rule /\ rules' = rules /\ replies' = replies
    BY <1>11 DEF ProcessCall, Sent, script, Get, Read
  <2>3. \A i \in 1 .. reply' : <<rule', i>> \in sent'
    BY <1>11, <2>1, <2>2 DEF ProcessCall, Get, Read
  <2>4. \A i \in 1 .. MaxReply : <<rule', i>> \in sent' => i <= reply'
    BY <1>11, <2>1, <2>2 DEF ProcessCall, Get, Read
  <2>5. step' = "replying" => reply' < replies'[rule']
    BY <1>11, <2>1, <2>2 DEF ProcessCall, Sent, Get, Read
  <2>6. QED
    BY <1>11, <2>2, <2>3, <2>4, <2>5 DEF ProcessCall, Get, Read
<1>12. CASE SendElsewhere
  <2>1. rule \in Rule /\ replies[rule] \in 1 .. MaxReply /\ reply \in Nat /\ reply < replies[rule]
    BY <1>12 DEF SendElsewhere
  <2>2. reply' = reply + 1 /\ sent' = sent \cup {<<rule, reply + 1>>}
        /\ rule' = rule /\ rules' = rules /\ replies' = replies
    BY <1>12 DEF SendElsewhere, Sent, script
  <2>3. \A i \in 1 .. reply' : <<rule', i>> \in sent'
    BY <1>12, <2>1, <2>2 DEF SendElsewhere
  <2>4. \A i \in 1 .. MaxReply : <<rule', i>> \in sent' => i <= reply'
    BY <1>12, <2>1, <2>2 DEF SendElsewhere
  <2>5. step' = "replying" => reply' < replies'[rule']
    BY <1>12, <2>1, <2>2 DEF SendElsewhere, Sent
  <2>6. QED
    BY <1>12, <2>2, <2>3, <2>4, <2>5 DEF SendElsewhere
<1>13. CASE ReplyFails
  BY <1>13 DEF ReplyFails, ReadInVain, Read, script, dispatch, call
<1>14. CASE Escape
  BY <1>14 DEF Escape, ReadInVain, Read, script, dispatch, call
<1>15. CASE Skip
  BY <1>15 DEF Skip, script, dispatch, call
<1>16. CASE NoProxy
  BY <1>16 DEF NoProxy, AfterFailure, script, dispatch, call
<1>17. CASE Forward
  BY <1>17 DEF Forward, script, dispatch, call
<1>18. CASE ForwardFails
  BY <1>18 DEF ForwardFails, AfterFailure, script, dispatch, call
<1>19. CASE ForwardEscapes
  BY <1>19 DEF ForwardEscapes, script, dispatch, call
<1>20. CASE FillProxied
  BY <1>20 DEF FillProxied, script, dispatch, call
<1>21. CASE Gen500Response
  BY <1>21 DEF Gen500Response, Get, script, dispatch, call
<1>22. CASE NoSuchMethod
  BY <1>22 DEF NoSuchMethod, script, dispatch, call
<1>23. CASE InvokeRemote
  BY <1>23 DEF InvokeRemote, Get, script, dispatch, call
<1>24. CASE SendErrorMessage
  BY <1>24 DEF SendErrorMessage, Get, Read, script, dispatch, call
<1>25. CASE ProcessRemote
  BY <1>25 DEF ProcessRemote, Get, Read, script, dispatch, call
<1>26. CASE OnHandleMessage
  BY <1>26 DEF OnHandleMessage, script, dispatch, call
<1>27. CASE Return
  BY <1>27 DEF Return, script, dispatch, call
<1>28. CASE ReturnCall
  BY <1>28 DEF ReturnCall, Get, script, dispatch, call
<1>29. CASE HangUp
  BY <1>29 DEF HangUp, script, dispatch, call
<1>30. CASE UNCHANGED vars
  BY <1>30 DEF vars, script, dispatch, call
<1>31. QED
  BY <1>1, <1>2, <1>3, <1>4, <1>5, <1>6, <1>7, <1>8, <1>9, <1>10, <1>11, <1>12,
     <1>13, <1>14, <1>15, <1>16, <1>17, <1>18, <1>19, <1>20, <1>21, <1>22, <1>23,
     <1>24, <1>25, <1>26, <1>27, <1>28, <1>29, <1>30
     DEF Next, Handle, GenResponse, FallBack

\* Only its last response completes a rule.
LEMMA UnfinishedStep == IInv /\ [Next]_vars => Unfinished'
<1> SUFFICES ASSUME IInv, [Next]_vars PROVE Unfinished'
  OBVIOUS
<1> USE DispatchAssumption DEF IInv, TypeOK, Order, Replying, Unfinished, AllSent, Rule
<1>1. CASE Create
  BY <1>1 DEF Create, script, dispatch, call
<1>2. CASE CreateFails
  BY <1>2 DEF CreateFails, script, dispatch, call
<1>3. CASE NoTrace
  BY <1>3 DEF NoTrace, script, dispatch, call
<1>4. CASE UnknownMethod
  BY <1>4 DEF UnknownMethod, Get, Read, script, dispatch, call
<1>5. CASE Mismatch
  BY <1>5 DEF Mismatch, script, dispatch, call
<1>6. CASE Match
  BY <1>6 DEF Match, script, dispatch, call
<1>7. CASE MatchFails
  BY <1>7 DEF MatchFails, script, dispatch, call
<1>8. CASE NoRuleMatches
  BY <1>8 DEF NoRuleMatches, script, dispatch, call
<1>9. CASE Answer
  <2>1. rule \in Rule /\ replies[rule] \in 1 .. MaxReply /\ reply \in Nat /\ reply < replies[rule]
    BY <1>9 DEF Answer
  <2>2. reply' = reply + 1 /\ sent' = sent \cup {<<rule, reply + 1>>}
        /\ rule' = rule /\ rules' = rules /\ replies' = replies
    BY <1>9 DEF Answer, Sent, script
  <2>3. CASE reply + 1 = replies[rule]
    BY <1>9, <2>3 DEF Answer, Sent
  <2>4. CASE reply + 1 # replies[rule]
    <3>1. <<rule, replies[rule]>> \notin sent'
      BY <1>9, <2>1, <2>2, <2>4 DEF Answer
    <3>2. ~AllSent(rule)'
      BY <2>1, <2>2, <3>1
    <3>3. ASSUME NEW r \in 1 .. rules, r # rule PROVE ~AllSent(r)'
      BY <1>9, <2>2, <3>3 DEF Answer
    <3>4. QED
      BY <1>9, <2>2, <2>4, <3>2, <3>3 DEF Answer, Sent
  <2>5. QED
    BY <2>3, <2>4
<1>10. CASE InvokeService
  <2>1. rule \in Rule /\ replies[rule] \in 1 .. MaxReply /\ reply \in Nat /\ reply < replies[rule]
    BY <1>10 DEF InvokeService, Get
  <2>2. reply' = reply + 1 /\ sent' = sent \cup {<<rule, reply + 1>>}
        /\ rule' = rule /\ rules' = rules /\ replies' = replies
    BY <1>10 DEF InvokeService, Sent, script, Get
  <2>3. CASE reply + 1 = replies[rule]
    BY <1>10, <2>3 DEF InvokeService, Sent, Get
  <2>4. CASE reply + 1 # replies[rule]
    <3>1. <<rule, replies[rule]>> \notin sent'
      BY <1>10, <2>1, <2>2, <2>4 DEF InvokeService, Get
    <3>2. ~AllSent(rule)'
      BY <2>1, <2>2, <3>1
    <3>3. ASSUME NEW r \in 1 .. rules, r # rule PROVE ~AllSent(r)'
      BY <1>10, <2>2, <3>3 DEF InvokeService, Get
    <3>4. QED
      BY <1>10, <2>2, <2>4, <3>2, <3>3 DEF InvokeService, Sent, Get
  <2>5. QED
    BY <2>3, <2>4
<1>11. CASE ProcessCall
  <2>1. rule \in Rule /\ replies[rule] \in 1 .. MaxReply /\ reply \in Nat /\ reply < replies[rule]
    BY <1>11 DEF ProcessCall, Get, Read
  <2>2. reply' = reply + 1 /\ sent' = sent \cup {<<rule, reply + 1>>}
        /\ rule' = rule /\ rules' = rules /\ replies' = replies
    BY <1>11 DEF ProcessCall, Sent, script, Get, Read
  <2>3. CASE reply + 1 = replies[rule]
    BY <1>11, <2>3 DEF ProcessCall, Sent, Get, Read
  <2>4. CASE reply + 1 # replies[rule]
    <3>1. <<rule, replies[rule]>> \notin sent'
      BY <1>11, <2>1, <2>2, <2>4 DEF ProcessCall, Get, Read
    <3>2. ~AllSent(rule)'
      BY <2>1, <2>2, <3>1
    <3>3. ASSUME NEW r \in 1 .. rules, r # rule PROVE ~AllSent(r)'
      BY <1>11, <2>2, <3>3 DEF ProcessCall, Get, Read
    <3>4. QED
      BY <1>11, <2>2, <2>4, <3>2, <3>3 DEF ProcessCall, Sent, Get, Read
  <2>5. QED
    BY <2>3, <2>4
<1>12. CASE SendElsewhere
  <2>1. rule \in Rule /\ replies[rule] \in 1 .. MaxReply /\ reply \in Nat /\ reply < replies[rule]
    BY <1>12 DEF SendElsewhere
  <2>2. reply' = reply + 1 /\ sent' = sent \cup {<<rule, reply + 1>>}
        /\ rule' = rule /\ rules' = rules /\ replies' = replies
    BY <1>12 DEF SendElsewhere, Sent, script
  <2>3. CASE reply + 1 = replies[rule]
    BY <1>12, <2>3 DEF SendElsewhere, Sent
  <2>4. CASE reply + 1 # replies[rule]
    <3>1. <<rule, replies[rule]>> \notin sent'
      BY <1>12, <2>1, <2>2, <2>4 DEF SendElsewhere
    <3>2. ~AllSent(rule)'
      BY <2>1, <2>2, <3>1
    <3>3. ASSUME NEW r \in 1 .. rules, r # rule PROVE ~AllSent(r)'
      BY <1>12, <2>2, <3>3 DEF SendElsewhere
    <3>4. QED
      BY <1>12, <2>2, <2>4, <3>2, <3>3 DEF SendElsewhere, Sent
  <2>5. QED
    BY <2>3, <2>4
<1>13. CASE ReplyFails
  BY <1>13 DEF ReplyFails, ReadInVain, Read, script, dispatch, call
<1>14. CASE Escape
  BY <1>14 DEF Escape, ReadInVain, Read, script, dispatch, call
<1>15. CASE Skip
  BY <1>15 DEF Skip, script, dispatch, call
<1>16. CASE NoProxy
  BY <1>16 DEF NoProxy, AfterFailure, script, dispatch, call
<1>17. CASE Forward
  BY <1>17 DEF Forward, script, dispatch, call
<1>18. CASE ForwardFails
  BY <1>18 DEF ForwardFails, AfterFailure, script, dispatch, call
<1>19. CASE ForwardEscapes
  BY <1>19 DEF ForwardEscapes, script, dispatch, call
<1>20. CASE FillProxied
  BY <1>20 DEF FillProxied, script, dispatch, call
<1>21. CASE Gen500Response
  BY <1>21 DEF Gen500Response, Get, script, dispatch, call
<1>22. CASE NoSuchMethod
  BY <1>22 DEF NoSuchMethod, script, dispatch, call
<1>23. CASE InvokeRemote
  BY <1>23 DEF InvokeRemote, Get, script, dispatch, call
<1>24. CASE SendErrorMessage
  BY <1>24 DEF SendErrorMessage, Get, Read, script, dispatch, call
<1>25. CASE ProcessRemote
  BY <1>25 DEF ProcessRemote, Get, Read, script, dispatch, call
<1>26. CASE OnHandleMessage
  BY <1>26 DEF OnHandleMessage, script, dispatch, call
<1>27. CASE Return
  BY <1>27 DEF Return, script, dispatch, call
<1>28. CASE ReturnCall
  BY <1>28 DEF ReturnCall, Get, script, dispatch, call
<1>29. CASE HangUp
  BY <1>29 DEF HangUp, script, dispatch, call
<1>30. CASE UNCHANGED vars
  BY <1>30 DEF vars, script, dispatch, call
<1>31. QED
  BY <1>1, <1>2, <1>3, <1>4, <1>5, <1>6, <1>7, <1>8, <1>9, <1>10, <1>11, <1>12,
     <1>13, <1>14, <1>15, <1>16, <1>17, <1>18, <1>19, <1>20, <1>21, <1>22, <1>23,
     <1>24, <1>25, <1>26, <1>27, <1>28, <1>29, <1>30
     DEF Next, Handle, GenResponse, FallBack

\* A list comes from the completed rule or the proxied server.
LEMMA OutcomeStep == IInv /\ [Next]_vars => Outcome'
<1> SUFFICES ASSUME IInv, [Next]_vars PROVE Outcome'
  OBVIOUS
<1> USE DispatchAssumption DEF IInv, TypeOK, Order, Replying, Unfinished, Outcome, Owed, Waiting, ProxyIsLastResort, AllSent, Complete, Rule, Rpc, NoRule
<1>1. CASE Create
  BY <1>1 DEF Create, script, dispatch, call
<1>2. CASE CreateFails
  BY <1>2 DEF CreateFails, script, dispatch, call
<1>3. CASE NoTrace
  BY <1>3 DEF NoTrace, script, dispatch, call
<1>4. CASE UnknownMethod
  BY <1>4 DEF UnknownMethod, Get, Read, script, dispatch, call
<1>5. CASE Mismatch
  BY <1>5 DEF Mismatch, script, dispatch, call
<1>6. CASE Match
  BY <1>6 DEF Match, script, dispatch, call
<1>7. CASE MatchFails
  BY <1>7 DEF MatchFails, script, dispatch, call
<1>8. CASE NoRuleMatches
  BY <1>8 DEF NoRuleMatches, script, dispatch, call
<1>9. CASE Answer
  <2>1. rule \in Rule /\ replies[rule] \in 1 .. MaxReply /\ reply \in Nat /\ reply < replies[rule]
    BY <1>9 DEF Answer
  <2>2. reply' = reply + 1 /\ sent' = sent \cup {<<rule, reply + 1>>}
        /\ rule' = rule /\ rules' = rules /\ replies' = replies
    BY <1>9 DEF Answer, Sent, script
  <2>3. ~forwarded /\ forwarded' = forwarded /\ told' = told /\ told = "nothing" /\ skipped' = skipped
    BY <1>9 DEF Answer, Sent
  <2>4. CASE reply + 1 = replies[rule]
    <3>1. AllSent(rule)'
      BY <1>9, <2>1, <2>2, <2>4 DEF Answer
    <3>2. rule' \in 1 .. rules' /\ rule' \notin skipped'
      BY <1>9, <2>2, <2>3 DEF Answer, Order
    <3>3. QED
      BY <1>9, <2>2, <2>3, <2>4, <3>1, <3>2 DEF Answer, Sent
  <2>5. CASE reply + 1 # replies[rule]
    BY <1>9, <2>3, <2>5 DEF Answer, Sent
  <2>6. QED
    BY <2>4, <2>5
<1>10. CASE InvokeService
  <2>1. rule \in Rule /\ replies[rule] \in 1 .. MaxReply /\ reply \in Nat /\ reply < replies[rule]
    BY <1>10 DEF InvokeService, Get
  <2>2. reply' = reply + 1 /\ sent' = sent \cup {<<rule, reply + 1>>}
        /\ rule' = rule /\ rules' = rules /\ replies' = replies
    BY <1>10 DEF InvokeService, Sent, script, Get
  <2>3. ~forwarded /\ forwarded' = forwarded /\ told' = told /\ told = "nothing" /\ skipped' = skipped
    BY <1>10 DEF InvokeService, Sent, Get
  <2>4. CASE reply + 1 = replies[rule]
    <3>1. AllSent(rule)'
      BY <1>10, <2>1, <2>2, <2>4 DEF InvokeService, Get
    <3>2. rule' \in 1 .. rules' /\ rule' \notin skipped'
      BY <1>10, <2>2, <2>3 DEF InvokeService, Order, Get
    <3>3. QED
      BY <1>10, <2>2, <2>3, <2>4, <3>1, <3>2 DEF InvokeService, Sent, Get
  <2>5. CASE reply + 1 # replies[rule]
    BY <1>10, <2>3, <2>5 DEF InvokeService, Sent, Get
  <2>6. QED
    BY <2>4, <2>5
<1>11. CASE ProcessCall
  <2>1. rule \in Rule /\ replies[rule] \in 1 .. MaxReply /\ reply \in Nat /\ reply < replies[rule]
    BY <1>11 DEF ProcessCall, Get, Read
  <2>2. reply' = reply + 1 /\ sent' = sent \cup {<<rule, reply + 1>>}
        /\ rule' = rule /\ rules' = rules /\ replies' = replies
    BY <1>11 DEF ProcessCall, Sent, script, Get, Read
  <2>3. ~forwarded /\ forwarded' = forwarded /\ told' = told /\ told = "nothing" /\ skipped' = skipped
    BY <1>11 DEF ProcessCall, Sent, Get, Read
  <2>4. CASE reply + 1 = replies[rule]
    <3>1. AllSent(rule)'
      BY <1>11, <2>1, <2>2, <2>4 DEF ProcessCall, Get, Read
    <3>2. rule' \in 1 .. rules' /\ rule' \notin skipped'
      BY <1>11, <2>2, <2>3 DEF ProcessCall, Order, Get, Read
    <3>3. QED
      BY <1>11, <2>2, <2>3, <2>4, <3>1, <3>2 DEF ProcessCall, Sent, Get, Read
  <2>5. CASE reply + 1 # replies[rule]
    BY <1>11, <2>3, <2>5 DEF ProcessCall, Sent, Get, Read
  <2>6. QED
    BY <2>4, <2>5
<1>12. CASE SendElsewhere
  <2>1. rule \in Rule /\ replies[rule] \in 1 .. MaxReply /\ reply \in Nat /\ reply < replies[rule]
    BY <1>12 DEF SendElsewhere
  <2>2. reply' = reply + 1 /\ sent' = sent \cup {<<rule, reply + 1>>}
        /\ rule' = rule /\ rules' = rules /\ replies' = replies
    BY <1>12 DEF SendElsewhere, Sent, script
  <2>3. ~forwarded /\ forwarded' = forwarded /\ told' = told /\ told = "nothing" /\ skipped' = skipped
    BY <1>12 DEF SendElsewhere, Sent
  <2>4. CASE reply + 1 = replies[rule]
    <3>1. AllSent(rule)'
      BY <1>12, <2>1, <2>2, <2>4 DEF SendElsewhere
    <3>2. rule' \in 1 .. rules' /\ rule' \notin skipped'
      BY <1>12, <2>2, <2>3 DEF SendElsewhere, Order
    <3>3. QED
      BY <1>12, <2>2, <2>3, <2>4, <3>1, <3>2 DEF SendElsewhere, Sent
  <2>5. CASE reply + 1 # replies[rule]
    BY <1>12, <2>3, <2>5 DEF SendElsewhere, Sent
  <2>6. QED
    BY <2>4, <2>5
<1>13. CASE ReplyFails
  BY <1>13 DEF ReplyFails, ReadInVain, Read, script, dispatch, call
<1>14. CASE Escape
  BY <1>14 DEF Escape, ReadInVain, Read, script, dispatch, call
<1>15. CASE Skip
  BY <1>15 DEF Skip, script, dispatch, call
<1>16. CASE NoProxy
  BY <1>16 DEF NoProxy, AfterFailure, script, dispatch, call
<1>17. CASE Forward
  BY <1>17 DEF Forward, Transport, script, dispatch, call
<1>18. CASE ForwardFails
  BY <1>18 DEF ForwardFails, AfterFailure, script, dispatch, call
<1>19. CASE ForwardEscapes
  BY <1>19 DEF ForwardEscapes, script, dispatch, call
<1>20. CASE FillProxied
  BY <1>20 DEF FillProxied, script, dispatch, call
<1>21. CASE Gen500Response
  BY <1>21 DEF Gen500Response, Get, script, dispatch, call
<1>22. CASE NoSuchMethod
  BY <1>22 DEF NoSuchMethod, script, dispatch, call
<1>23. CASE InvokeRemote
  BY <1>23 DEF InvokeRemote, Get, script, dispatch, call
<1>24. CASE SendErrorMessage
  BY <1>24 DEF SendErrorMessage, Get, Read, script, dispatch, call
<1>25. CASE ProcessRemote
  BY <1>25 DEF ProcessRemote, Get, Read, script, dispatch, call
<1>26. CASE OnHandleMessage
  BY <1>26 DEF OnHandleMessage, script, dispatch, call
<1>27. CASE Return
  BY <1>27 DEF Return, script, dispatch, call
<1>28. CASE ReturnCall
  BY <1>28 DEF ReturnCall, Get, script, dispatch, call
<1>29. CASE HangUp
  BY <1>29 DEF HangUp, script, dispatch, call
<1>30. CASE UNCHANGED vars
  BY <1>30 DEF vars, script, dispatch, call
<1>31. QED
  BY <1>1, <1>2, <1>3, <1>4, <1>5, <1>6, <1>7, <1>8, <1>9, <1>10, <1>11, <1>12,
     <1>13, <1>14, <1>15, <1>16, <1>17, <1>18, <1>19, <1>20, <1>21, <1>22, <1>23,
     <1>24, <1>25, <1>26, <1>27, <1>28, <1>29, <1>30
     DEF Next, Handle, GenResponse, FallBack

\* No way of ending forgets the client.
LEMMA WaitingStep == IInv /\ [Next]_vars => Waiting'
<1> SUFFICES ASSUME IInv, [Next]_vars PROVE Waiting'
  OBVIOUS
<1> USE DispatchAssumption DEF IInv, TypeOK, Order, Replying, Unfinished, Outcome, Waiting, NoRule, Rpc, Transport
<1>1. CASE Create
  BY <1>1 DEF Create, script, dispatch, call
<1>2. CASE CreateFails
  BY <1>2 DEF CreateFails, script, dispatch, call
<1>3. CASE NoTrace
  BY <1>3 DEF NoTrace, script, dispatch, call
<1>4. CASE UnknownMethod
  BY <1>4 DEF UnknownMethod, Get, Read, script, dispatch, call
<1>5. CASE Mismatch
  BY <1>5 DEF Mismatch, script, dispatch, call
<1>6. CASE Match
  BY <1>6 DEF Match, script, dispatch, call
<1>7. CASE MatchFails
  BY <1>7 DEF MatchFails, script, dispatch, call
<1>8. CASE NoRuleMatches
  BY <1>8 DEF NoRuleMatches, script, dispatch, call
<1>9. CASE Answer
  BY <1>9 DEF Answer, Sent, script, dispatch, call
<1>10. CASE InvokeService
  BY <1>10 DEF InvokeService, Sent, Get, script, dispatch, call
<1>11. CASE ProcessCall
  BY <1>11 DEF ProcessCall, Sent, Get, Read, script, dispatch, call
<1>12. CASE SendElsewhere
  BY <1>12 DEF SendElsewhere, Sent, script, dispatch, call
<1>13. CASE ReplyFails
  BY <1>13 DEF ReplyFails, ReadInVain, Read, script, dispatch, call
<1>14. CASE Escape
  BY <1>14 DEF Escape, ReadInVain, Read, script, dispatch, call
<1>15. CASE Skip
  BY <1>15 DEF Skip, script, dispatch, call
<1>16. CASE NoProxy
  BY <1>16 DEF NoProxy, AfterFailure, script, dispatch, call
<1>17. CASE Forward
  BY <1>17 DEF Forward, script, dispatch, call
<1>18. CASE ForwardFails
  BY <1>18 DEF ForwardFails, AfterFailure, script, dispatch, call
<1>19. CASE ForwardEscapes
  BY <1>19 DEF ForwardEscapes, script, dispatch, call
<1>20. CASE FillProxied
  BY <1>20 DEF FillProxied, script, dispatch, call
<1>21. CASE Gen500Response
  BY <1>21 DEF Gen500Response, Get, script, dispatch, call
<1>22. CASE NoSuchMethod
  BY <1>22 DEF NoSuchMethod, script, dispatch, call
<1>23. CASE InvokeRemote
  BY <1>23 DEF InvokeRemote, Get, script, dispatch, call
<1>24. CASE SendErrorMessage
  BY <1>24 DEF SendErrorMessage, Get, Read, script, dispatch, call
<1>25. CASE ProcessRemote
  BY <1>25 DEF ProcessRemote, Get, Read, script, dispatch, call
<1>26. CASE OnHandleMessage
  <2>1. /\ step = "reporting"
        /\ transport' = transport /\ proxy' = proxy /\ client' = client /\ rule' = rule
        /\ respList' = respList /\ thrown' = thrown
    BY <1>26 DEF OnHandleMessage, script, dispatch, call
  <2>2. CASE respList
    BY <1>26, <2>1, <2>2 DEF OnHandleMessage
  <2>3. CASE ~respList
    BY <1>26, <2>1, <2>3 DEF OnHandleMessage
  <2>4. QED
    BY <2>2, <2>3
<1>27. CASE Return
  BY <1>27 DEF Return, script, dispatch, call
<1>28. CASE ReturnCall
  BY <1>28 DEF ReturnCall, Get, script, dispatch, call
<1>29. CASE HangUp
  BY <1>29 DEF HangUp, script, dispatch, call
<1>30. CASE UNCHANGED vars
  BY <1>30 DEF vars, script, dispatch, call
<1>31. QED
  BY <1>1, <1>2, <1>3, <1>4, <1>5, <1>6, <1>7, <1>8, <1>9, <1>10, <1>11, <1>12,
     <1>13, <1>14, <1>15, <1>16, <1>17, <1>18, <1>19, <1>20, <1>21, <1>22, <1>23,
     <1>24, <1>25, <1>26, <1>27, <1>28, <1>29, <1>30
     DEF Next, Handle, GenResponse, FallBack

\* Without an answer every way through the handler reads a Thrift call once.
LEMMA ReadStep == IInv /\ [Next]_vars => Reading'
<1> SUFFICES ASSUME IInv, [Next]_vars PROVE Reading'
  OBVIOUS
<1> USE DispatchAssumption DEF IInv, TypeOK, Waiting, Reading, Rpc, Often
<1>1. CASE Create
  BY <1>1 DEF Create, script, dispatch, call
<1>2. CASE CreateFails
  BY <1>2 DEF CreateFails, script, dispatch, call
<1>3. CASE NoTrace
  BY <1>3 DEF NoTrace, script, dispatch, call
<1>4. CASE UnknownMethod
  BY <1>4 DEF UnknownMethod, Get, Read, script, dispatch, call
<1>5. CASE Mismatch
  BY <1>5 DEF Mismatch, script, dispatch, call
<1>6. CASE Match
  BY <1>6 DEF Match, script, dispatch, call
<1>7. CASE MatchFails
  BY <1>7 DEF MatchFails, script, dispatch, call
<1>8. CASE NoRuleMatches
  BY <1>8 DEF NoRuleMatches, script, dispatch, call
<1>9. CASE Answer
  BY <1>9 DEF Answer, Sent, script, dispatch, call
<1>10. CASE InvokeService
  BY <1>10 DEF InvokeService, Sent, Get, script, dispatch, call
<1>11. CASE ProcessCall
  BY <1>11 DEF ProcessCall, Sent, Get, Read, script, dispatch, call
<1>12. CASE SendElsewhere
  BY <1>12 DEF SendElsewhere, Sent, script, dispatch, call
<1>13. CASE ReplyFails
  BY <1>13 DEF ReplyFails, ReadInVain, Read, script, dispatch, call
<1>14. CASE Escape
  BY <1>14 DEF Escape, ReadInVain, Read, script, dispatch, call
<1>15. CASE Skip
  BY <1>15 DEF Skip, script, dispatch, call
<1>16. CASE NoProxy
  BY <1>16 DEF NoProxy, AfterFailure, script, dispatch, call
<1>17. CASE Forward
  BY <1>17 DEF Forward, script, dispatch, call
<1>18. CASE ForwardFails
  BY <1>18 DEF ForwardFails, AfterFailure, script, dispatch, call
<1>19. CASE ForwardEscapes
  BY <1>19 DEF ForwardEscapes, script, dispatch, call
<1>20. CASE FillProxied
  BY <1>20 DEF FillProxied, script, dispatch, call
<1>21. CASE Gen500Response
  BY <1>21 DEF Gen500Response, Get, script, dispatch, call
<1>22. CASE NoSuchMethod
  BY <1>22 DEF NoSuchMethod, script, dispatch, call
<1>23. CASE InvokeRemote
  BY <1>23 DEF InvokeRemote, Get, script, dispatch, call
<1>24. CASE SendErrorMessage
  BY <1>24 DEF SendErrorMessage, Get, Read, script, dispatch, call
<1>25. CASE ProcessRemote
  BY <1>25 DEF ProcessRemote, Get, Read, script, dispatch, call
<1>26. CASE OnHandleMessage
  BY <1>26 DEF OnHandleMessage, script, dispatch, call
<1>27. CASE Return
  BY <1>27 DEF Return, script, dispatch, call
<1>28. CASE ReturnCall
  BY <1>28 DEF ReturnCall, Get, script, dispatch, call
<1>29. CASE HangUp
  BY <1>29 DEF HangUp, script, dispatch, call
<1>30. CASE UNCHANGED vars
  BY <1>30 DEF vars, script, dispatch, call
<1>31. QED
  BY <1>1, <1>2, <1>3, <1>4, <1>5, <1>6, <1>7, <1>8, <1>9, <1>10, <1>11, <1>12,
     <1>13, <1>14, <1>15, <1>16, <1>17, <1>18, <1>19, <1>20, <1>21, <1>22, <1>23,
     <1>24, <1>25, <1>26, <1>27, <1>28, <1>29, <1>30
     DEF Next, Handle, GenResponse, FallBack

----------------------------------------------------------------------------
(* The theorems.                                                           *)

\* The invariant holds in every state.
LEMMA Invariant == Spec => []IInv
<1>1. IInv /\ [Next]_vars => IInv'
  BY TypeStep, OrderStep, ReplyingStep, UnfinishedStep, OutcomeStep, WaitingStep,
     ReadStep DEF IInv
<1>2. QED
  BY Initially, <1>1, PTL DEF Spec

\* The dispatch stays well typed: it tries no rule and sends no response that
\* the script does not have (genResponse).
THEOREM TypeCorrect == Spec => []TypeOK
<1>1. IInv => TypeOK
  BY DEF IInv
<1>2. QED
  BY Invariant, <1>1, PTL

\* However the handling of a request ends, its client is not left waiting, but
\* for the named causes (HTTPSimulator.handleRequest, MemSimulator.handleRequest,
\* ThriftSimulator.process).
THEOREM ClientsAreAnswered == Spec => []NobodyLeftWaiting
<1>1. IInv => NobodyLeftWaiting
  BY DEF IInv, Waiting, Outcome, Owed, NobodyLeftWaiting
<1>2. QED
  BY Invariant, <1>1, PTL

\* Success is reported only of a message that was answered completely, by a rule
\* or by the proxied server, and never with an error sent (onHandleMessage).
THEOREM SuccessIsHonest == Spec => []SuccessMeansAnswered
<1>1. IInv => SuccessMeansAnswered
  <2>1. ASSUME IInv, told = "ok", transport # "thrift", ~(transport = "grpc" /\ thrown)
        PROVE  client # "refused" /\ (forwarded \/ Complete)
    <3>1. respList /\ (forwarded \/ Complete)
      BY <2>1 DEF IInv, Outcome
    <3>2. client # "refused"
      BY <2>1, <3>1 DEF IInv, TypeOK, Transport, Rpc, Waiting
    <3>3. QED
      BY <3>1, <3>2
  <2>2. QED
    BY <2>1 DEF SuccessMeansAnswered
<1>2. QED
  BY Invariant, <1>1, PTL

\* One rule answers, unless a bean has skipped another after it had answered in
\* part (genResponse).
THEOREM OneRuleAnswers == Spec => []RulesDoNotMix
<1>1. IInv => RulesDoNotMix
  BY DEF IInv, Order
<1>2. QED
  BY Invariant, <1>1, PTL

\* The proxied server never handles a message that a rule has answered
\* completely (HTTPSimulator.handleRequest, KafkaSimulator.onMessage).
THEOREM ProxyComesLast == Spec => []ProxyIsLastResort
<1>1. IInv => ProxyIsLastResort
  BY DEF IInv, Outcome
<1>2. QED
  BY Invariant, <1>1, PTL

\* The connection of a Thrift client stays in step, unless a response failed
\* after it had read the arguments (ThriftSimulator.process).
THEOREM ConnectionStaysInStep == Spec => []StaysInStep
<1>1. IInv => StaysInStep
  BY DEF IInv, Reading, StaysInStep
<1>2. QED
  BY Invariant, <1>1, PTL
=============================================================================
