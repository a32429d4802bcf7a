---------------------------- MODULE RequestDispatch ----------------------------
(***************************************************************************)
(* One message: SimScript.genResponse goes through the effective rules     *)
(* (the script's own, then its parent's, up to the root's), and the        *)
(* simulator that received the message falls back on its proxy or an error *)
(* response and reports to its listeners.                                  *)
(*                                                                         *)
(* Rules are numbered in the order of getEffectiveTemplatePairs.  What a   *)
(* rule does with the message (match, fail, skip) is left open; how the    *)
(* templates match is no part of this module.                              *)
(***************************************************************************)
EXTENDS Naturals, FiniteSets

CONSTANTS
  MaxRule,   \* bound: effective rules
  MaxReply   \* bound: responses of a rule

ASSUME DispatchAssumption == MaxRule \in Nat /\ MaxReply \in Nat \ {0}

\* SimpleSimulator; KafkaSimulator and JMSSimulator; FileSimulator;
\* MemSimulator, which a test calls directly; GRPCSimulator; ThriftSimulator.
Transport == {"http", "messaging", "file", "mem", "grpc", "thrift"}
Rpc == {"grpc", "thrift"}
Rule == 1 .. MaxRule
NoRule == 0

VARIABLES
  transport, proxy,   \* the simulator, and its simulator.proxy
  rules, replies,     \* number of effective rules; responses of each
  step,               \* where the handler of the message is
  rule, reply,        \* the rule tried; how many of its responses were sent
  client,             \* who asked: "waiting", "answered", "refused", "gone"
  sent,               \* <<rule, i>>: responses sent so far
  skipped,            \* rules a bean skipped (SimMatchSkipException)
  forwarded,          \* the proxied server has handled the message
  respList,           \* respList is not empty
  told,               \* what the listeners were told: "nothing", "ok", "failed"
  reads,              \* how often the arguments of a Thrift call were read: 0, 1, Often
  failedAfterRead,    \* history: a rule's response failed after it had read them
  thrown              \* CallTrace.throwable of gRPC; an exception leaves process of Thrift

script == <<transport, proxy, rules, replies>>
dispatch == <<rule, reply, sent, skipped>>
call == <<reads, failedAfterRead, thrown>>
vars == <<script, step, dispatch, client, forwarded, respList, told, call>>

Step == {"new", "matching", "replying", "caught", "proxied", "error", "escaped",
         "reporting", "returning", "done"}
Often == 2

TypeOK ==
  /\ transport \in Transport
  /\ proxy \in BOOLEAN
  /\ rules \in 0 .. MaxRule
  /\ replies \in [Rule -> 1 .. MaxReply]
  /\ step \in Step
  /\ rule \in 0 .. MaxRule + 1
  /\ reply \in 0 .. MaxReply
  /\ client \in {"none", "waiting", "answered", "refused", "gone"}
  /\ sent \subseteq Rule \X (1 .. MaxReply)
  /\ skipped \subseteq Rule
  /\ forwarded \in BOOLEAN
  /\ respList \in BOOLEAN
  /\ told \in {"nothing", "ok", "failed"}
  /\ reads \in 0 .. Often
  /\ failedAfterRead \in BOOLEAN
  /\ thrown \in BOOLEAN

\* Nobody waits for the answer to a message or a file.
Init ==
  /\ transport \in Transport
  /\ proxy \in (IF transport \in {"file", "mem"} THEN {FALSE} ELSE BOOLEAN)
  /\ rules \in 0 .. MaxRule
  /\ replies \in [Rule -> 1 .. MaxReply]
  /\ step = "new"
  /\ rule = NoRule
  /\ reply = 0
  /\ client = IF transport \in {"messaging", "file"} THEN "none" ELSE "waiting"
  /\ sent = {}
  /\ skipped = {}
  /\ forwarded = FALSE
  /\ respList = FALSE
  /\ told = "nothing"
  /\ reads = 0
  /\ failedAfterRead = FALSE
  /\ thrown = FALSE

----------------------------------------------------------------------------
(* The transport's handler until genResponse.                              *)

\* The client gets an answer or an error, unless it has one or has gone.
Get(result) == client' = IF client = "waiting" THEN result ELSE client

\* A gRPC call uses the trace its thread has (ThreadLocal): one that another call
\* left there may hold an exception.
Create ==
  /\ step = "new"
  /\ step' = "matching"
  /\ rule' = 1
  /\ thrown' \in (IF transport = "grpc" THEN BOOLEAN ELSE {FALSE})
  /\ UNCHANGED <<script, reply, sent, skipped, client, forwarded, respList, told, reads, failedAfterRead>>

\* The SimRequest cannot be built (a malformed Authorization header, a body that
\* cannot be read): nothing is reported, MemSimulator returns null, and the 500
\* response of SimpleSimulator fails as there is no request to fill.
CreateFails ==
  /\ step = "new"
  /\ transport \notin Rpc
  /\ step' = "done"
  /\ client' = IF transport = "mem" THEN "refused" ELSE client
  /\ UNCHANGED <<script, dispatch, forwarded, respList, told, call>>

\* A gRPC call that is invoked by another thread than the one that intercepted it
\* may find no trace: a NullPointerException, reported and thrown.
NoTrace ==
  /\ step = "new"
  /\ transport = "grpc"
  /\ thrown' = TRUE
  /\ step' = "reporting"
  /\ UNCHANGED <<script, dispatch, client, forwarded, respList, told, reads, failedAfterRead>>

\* The arguments of a Thrift call are read from its connection: by sendErrorMessage,
\* which skips them, or by the function of the call.
Read == reads' = IF reads = Often THEN Often ELSE reads + 1

\* Mutant of UnknownMethod: the arguments are not skipped.
UnknownMethodUnread ==
  /\ step = "new"
  /\ transport = "thrift"
  /\ Get("refused") \/ Get("gone")
  /\ step' = "done"
  /\ UNCHANGED <<script, dispatch, forwarded, respList, told, call>>

\* A Thrift call of a method the service does not have: an error, not reported,
\* or the end of the connection, if writing it fails.
UnknownMethod ==
  /\ step = "new"
  /\ transport = "thrift"
  /\ Get("refused") \/ Get("gone")
  /\ Read
  /\ step' = "done"
  /\ UNCHANGED <<script, dispatch, forwarded, respList, told, failedAfterRead, thrown>>

----------------------------------------------------------------------------
(* genResponse.                                                            *)

Mismatch ==
  /\ step = "matching"
  /\ rule <= rules
  /\ rule' = rule + 1
  /\ UNCHANGED <<script, step, reply, sent, skipped, client, forwarded, respList, told, call>>

Match ==
  /\ step = "matching"
  /\ rule <= rules
  /\ step' = "replying"
  /\ reply' = 0
  /\ UNCHANGED <<script, rule, sent, skipped, client, forwarded, respList, told, call>>

\* match throws, outside of the try: not even SimMatchSkipException goes on.
MatchFails ==
  /\ step = "matching"
  /\ rule <= rules
  /\ step' = "caught"
  /\ UNCHANGED <<script, dispatch, client, forwarded, respList, told, call>>

NoRuleMatches ==
  /\ step = "matching"
  /\ rule > rules
  /\ step' = "caught"
  /\ UNCHANGED <<script, dispatch, client, forwarded, respList, told, call>>

\* Mutants of Sent: one response too many; the caller's list is filled at once.
SentOneMore ==
  /\ reply' = reply + 1
  /\ sent' = sent \cup {<<rule, reply + 1>>}
  /\ IF reply = replies[rule]
     THEN step' = "reporting" /\ respList' = TRUE
     ELSE UNCHANGED <<step, respList>>
  /\ UNCHANGED <<script, rule, skipped, forwarded, told>>
SentAtOnce ==
  /\ reply' = reply + 1
  /\ sent' = sent \cup {<<rule, reply + 1>>}
  /\ respList' = TRUE
  /\ step' = IF reply + 1 = replies[rule] THEN "reporting" ELSE step
  /\ UNCHANGED <<script, rule, skipped, forwarded, told>>

\* new SimResponse, fillResponse, ret.add; after the last one genResponse returns.
Sent ==
  /\ reply' = reply + 1
  /\ sent' = sent \cup {<<rule, reply + 1>>}
  /\ IF reply + 1 = replies[rule]
     THEN step' = "reporting" /\ respList' = TRUE
     ELSE UNCHANGED <<step, respList>>
  /\ UNCHANGED <<script, rule, skipped, forwarded, told>>

\* The response of an HTTP exchange, which takes only one.
Answer ==
  /\ step = "replying"
  /\ client = "waiting"
  /\ transport = "http"
  /\ client' = "answered"
  /\ Sent
  /\ UNCHANGED call

\* The simulated gRPC service is invoked: it answers, or not yet, or throws, which
\* the trace keeps and nobody here hears of (DefaultGRPCReqRespConvertor).
InvokeService ==
  /\ step = "replying"
  /\ transport = "grpc"
  /\ Get("answered") \/ UNCHANGED client
  /\ thrown' \in {thrown, TRUE}
  /\ Sent
  /\ UNCHANGED <<reads, failedAfterRead>>

\* The function of the Thrift call reads, invokes the service and writes what it
\* returned, or an error if it threw.
ProcessCall ==
  /\ step = "replying"
  /\ transport = "thrift"
  /\ Get("answered") \/ Get("refused")
  /\ Read
  /\ Sent
  /\ UNCHANGED <<failedAfterRead, thrown>>

\* A channel, a file, another simulator, or the list MemSimulator returns.
SendElsewhere ==
  /\ step = "replying"
  /\ Sent
  /\ UNCHANGED <<client, call>>

\* Mutant of ReplyFails: any exception goes on with the next rule.
ReplyFailsOn ==
  /\ step = "replying"
  /\ step' = "matching"
  /\ rule' = rule + 1
  /\ UNCHANGED <<script, reply, sent, skipped, client, forwarded, respList, told, call>>

\* The function of the Thrift call may have read before it failed: an argument
\* or a result that does not validate, a service that loses its connection.
ReadInVain == transport = "thrift" /\ Read /\ failedAfterRead' = TRUE

\* The template or bean fails, or fillResponse: the target does not run, the
\* exchange was answered before or is closed, the function of the call throws.
ReplyFails ==
  /\ step = "replying"
  /\ step' = "caught"
  /\ ReadInVain \/ UNCHANGED <<reads, failedAfterRead>>
  /\ UNCHANGED <<script, dispatch, client, forwarded, respList, told, thrown>>

\* Of gRPC and Thrift only an IOException is caught: any other is reported as a
\* failure and leaves the handler.
Escape ==
  /\ step \in {"matching", "replying"}
  /\ rule <= rules
  /\ transport \in Rpc
  /\ thrown' = TRUE
  /\ step' = "reporting"
  /\ (step = "replying" /\ ReadInVain) \/ UNCHANGED <<reads, failedAfterRead>>
  /\ UNCHANGED <<script, dispatch, client, forwarded, respList, told>>

\* A bean throws SimMatchSkipException: the next rule, whatever was sent.
Skip ==
  /\ step = "replying"
  /\ step' = "matching"
  /\ rule' = rule + 1
  /\ skipped' = skipped \cup {rule}
  /\ UNCHANGED <<script, reply, sent, client, forwarded, respList, told, call>>

----------------------------------------------------------------------------
(* The handler after an exception of genResponse.                          *)

\* Mutant of AfterFailure, and the step that follows a failure.
AfterFailureSilent == "reporting"
AfterFailure == IF transport = "http" THEN "error" ELSE "reporting"

NoProxy ==
  /\ step = "caught"
  /\ ~proxy
  /\ transport \notin Rpc
  /\ step' = AfterFailure
  /\ UNCHANGED <<script, dispatch, client, forwarded, respList, told, call>>

\* doHttpProxy has the server's answer; a message was sent to the proxy channel.
Forward ==
  /\ step = "caught"
  /\ proxy
  /\ transport \notin Rpc
  /\ forwarded' = TRUE
  /\ IF transport = "http" THEN step' = "proxied" /\ UNCHANGED respList
     ELSE step' = "reporting" /\ respList' = TRUE
  /\ UNCHANGED <<script, dispatch, client, told, call>>

\* An IOException, maybe after the server has done its part (its answer has no
\* body to read: doHttpProxy takes the error stream for every code above 200).
ForwardFails ==
  /\ step = "caught"
  /\ proxy
  /\ transport \notin Rpc
  /\ forwarded' \in BOOLEAN
  /\ step' = AfterFailure
  /\ UNCHANGED <<script, dispatch, client, respList, told, call>>

\* A RuntimeException is not caught with the proxy's: a header the connection
\* does not accept, a Kafka publisher stopped before its subscribers.
ForwardEscapes ==
  /\ step = "caught"
  /\ proxy
  /\ transport \notin Rpc
  /\ step' = "escaped"
  /\ UNCHANGED <<script, dispatch, client, forwarded, respList, told, call>>

\* The server's answer goes to the client, with the same exchange as above.
FillProxied ==
  /\ step = "proxied"
  /\ \/ /\ client = "waiting"
        /\ client' = "answered"
        /\ respList' = TRUE
        /\ step' = "reporting"
     \/ /\ client # "waiting"
        /\ step' = "error"
        /\ UNCHANGED <<client, respList>>
  /\ UNCHANGED <<script, dispatch, forwarded, told, call>>

\* gen500Response; its own failure is swallowed.  Of an escaped exception
\* the listeners hear nothing.
Gen500Response ==
  /\ step \in {"error", "escaped"}
  /\ Get("refused")
  /\ step' = IF step = "error" THEN "reporting" ELSE "done"
  /\ UNCHANGED <<script, dispatch, forwarded, respList, told, call>>

\* gRPC without a proxy: "no such method", thrown after the report.
NoSuchMethod ==
  /\ step = "caught"
  /\ transport = "grpc"
  /\ ~proxy
  /\ thrown' = TRUE
  /\ step' = "reporting"
  /\ UNCHANGED <<script, dispatch, client, forwarded, respList, told, reads, failedAfterRead>>

\* gRPC: the answer of the proxied server goes to the client, or whatever fails on
\* the way is kept in the trace; either way the list is filled.
InvokeRemote ==
  /\ step = "caught"
  /\ transport = "grpc"
  /\ proxy
  /\ \/ Get("answered") /\ forwarded' = TRUE /\ UNCHANGED thrown
     \/ forwarded' \in BOOLEAN /\ thrown' = TRUE /\ UNCHANGED client
  /\ respList' = TRUE
  /\ step' = "reporting"
  /\ UNCHANGED <<script, dispatch, told, reads, failedAfterRead>>

\* Thrift without a proxy: an error message, which is put into the list even if
\* it was not sent, for a broken connection or for what the second read finds.
SendErrorMessage ==
  /\ step = "caught"
  /\ transport = "thrift"
  /\ ~proxy
  /\ Get("refused") \/ Get("gone") \/ (failedAfterRead /\ UNCHANGED client)
  /\ Read
  /\ respList' = TRUE
  /\ step' = "reporting"
  /\ UNCHANGED <<script, dispatch, forwarded, told, failedAfterRead, thrown>>

\* Thrift: the function of the call again, with the proxied server as its service;
\* its answer or an error goes to the client, or its connection's failure is thrown.
ProcessRemote ==
  /\ step = "caught"
  /\ transport = "thrift"
  /\ proxy
  /\ \/ Get("answered") /\ forwarded' = TRUE /\ respList' = TRUE /\ UNCHANGED thrown
     \/ Get("refused") /\ forwarded' \in BOOLEAN /\ respList' = TRUE /\ UNCHANGED thrown
     \/ forwarded' \in BOOLEAN /\ thrown' = TRUE /\ UNCHANGED <<client, respList>>
  /\ Read
  /\ step' = "reporting"
  /\ UNCHANGED <<script, dispatch, told, failedAfterRead>>

\* Mutant of OnHandleMessage: only successes are reported.
OnHandleMessageOk ==
  /\ step = "reporting"
  /\ told' = IF respList THEN "ok" ELSE told
  /\ step' = IF transport \in {"mem"} \cup Rpc THEN "returning" ELSE "done"
  /\ UNCHANGED <<script, dispatch, client, forwarded, respList, call>>

OnHandleMessage ==
  /\ step = "reporting"
  /\ told' = IF respList THEN "ok" ELSE "failed"
  /\ step' = IF transport \in {"mem"} \cup Rpc THEN "returning" ELSE "done"
  /\ UNCHANGED <<script, dispatch, client, forwarded, respList, call>>

\* MemSimulator.handleRequest: the first response, or IndexOutOfBoundsException.
Return ==
  /\ step = "returning"
  /\ transport = "mem"
  /\ client' = IF respList THEN "answered" ELSE "refused"
  /\ step' = "done"
  /\ UNCHANGED <<script, dispatch, forwarded, respList, told, call>>

\* The gRPC call ends with the exception of its trace; TSimpleServer closes the
\* connection of a Thrift call that threw.
ReturnCall ==
  /\ step = "returning"
  /\ transport \in Rpc
  /\ IF thrown THEN Get(IF transport = "grpc" THEN "refused" ELSE "gone")
     ELSE UNCHANGED client
  /\ step' = "done"
  /\ UNCHANGED <<script, dispatch, forwarded, respList, told, call>>

\* The client closes its connection, or the stop of the simulator does.
HangUp ==
  /\ transport \in {"http"} \cup Rpc
  /\ client = "waiting"
  /\ client' = "gone"
  /\ UNCHANGED <<script, step, dispatch, forwarded, respList, told, call>>

----------------------------------------------------------------------------
GenResponse ==
  \/ Mismatch \/ Match \/ MatchFails \/ NoRuleMatches
  \/ Answer \/ InvokeService \/ ProcessCall \/ SendElsewhere \/ ReplyFails \/ Skip
  \/ Escape
FallBack ==
  \/ NoProxy \/ Forward \/ ForwardFails \/ ForwardEscapes
  \/ FillProxied \/ Gen500Response
  \/ NoSuchMethod \/ InvokeRemote \/ SendErrorMessage \/ ProcessRemote
Handle ==
  \/ Create \/ CreateFails \/ NoTrace \/ UnknownMethod \/ GenResponse \/ FallBack
  \/ OnHandleMessage \/ Return \/ ReturnCall

Next == Handle \/ HangUp

Spec == Init /\ [][Next]_vars

\* A second read of a Thrift call's arguments waits for the client's next call.
ReadsOn == transport = "thrift" /\ reads > 0 /\ step \in {"replying", "caught"}

\* The thread that handles the message keeps running, if it does not wait so.
FairSpec == Spec /\ WF_vars(Handle /\ ~ReadsOn)

----------------------------------------------------------------------------
(* What the client, the proxied server and the listeners may rely on.      *)

AllSent(r) == \A i \in 1 .. replies[r] : <<r, i>> \in sent

Complete == rule \in 1 .. rules /\ rule \notin skipped /\ AllSent(rule)

\* When the handling of a request is over its client has an answer, an error or
\* no connection any more, unless the matching rule sent all its responses
\* somewhere else, there was no request to answer, or the error message of a
\* Thrift call met the second read below (HTTPSimulator.handleRequest,
\* gen500Response, MemSimulator.handleRequest, ThriftSimulator.process).
NobodyLeftWaiting ==
  step = "done" /\ client = "waiting" => rule = NoRule \/ Complete \/ failedAfterRead

\* onHandleMessage reports success only for a message that one rule, the first
\* not to mismatch or skip, has answered completely, or the proxied server; and
\* never when the client was sent an error.  gRPC does when the call's trace holds
\* an exception, and Thrift for every call that it answers with an error.
SuccessMeansAnswered ==
  told = "ok" /\ transport # "thrift" =>
    \/ client # "refused" /\ (forwarded \/ Complete)
    \/ transport = "grpc" /\ thrown

\* The connection of a Thrift client stays in step but for one case: a call that
\* no rule has answered, not even in part, has its arguments read exactly once,
\* whether its method is unknown, nothing matches or a rule fails before it
\* reads, and with or without a proxy; so what is read next is the next call.  If
\* the rule's response failed after the arguments were read, they are read again,
\* always, and take the next call with them (ThriftSimulator.process,
\* DefaultThriftReqRespConvertor.fillRawResponse).
StaysInStep ==
  transport = "thrift" /\ step = "done" /\ ~thrown /\ client # "gone" /\ sent = {}
  => reads = IF failedAfterRead THEN Often ELSE 1

\* A message is answered by one rule: what another has sent before it was left
\* by a skip, and an error in a rule never leads to the next one (genResponse).
RulesDoNotMix == \A p \in sent : p[1] = rule \/ p[1] \in skipped

\* The proxied server never sees a message that a rule has answered completely
\* (it may see one that a rule has answered in part).
ProxyIsLastResort ==
  forwarded => \A r \in 1 .. rules : ~AllSent(r)

\* The listeners are told of every message that became a request, unless an
\* exception escapes or a Thrift call is read on, and are told once.
ToldOnce ==
  /\ step = "matching" ~> told # "nothing" \/ step = "escaped" \/ ReadsOn
  /\ [][told # "nothing" => told' = told]_vars
=============================================================================
