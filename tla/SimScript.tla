------------------------------- MODULE SimScript -------------------------------
(***************************************************************************)
(* SimScript: a .sim file is read line by line into rules, and a message   *)
(* is tried against the rules.  A rule is a request template followed by   *)
(* response templates; lines are classified the way the code tells them    *)
(* apart, and the text in them is cut into tokens (module SimTemplate).    *)
(*                                                                         *)
(* SimRequestTemplate is modelled with one ordinary header, with the       *)
(* top line as a reverse template (not a /regular expression/) and with    *)
(* the default body handler.                                               *)
(***************************************************************************)
EXTENDS SimTemplate

CONSTANTS
  Files,      \* the .sim files: sequences of lines
  Messages(_) \* the requests sent to the script of a file: [top, header, body]

Line == [kind : {"separator", "response", "plain", "header"}, optional : BOOLEAN,
         tokens : Seq(Token)]
Message == [top : Characters, header : Characters, body : Seq(Characters)]

ASSUME CharacterAssumption == {"H", "h"} \subseteq Character
ASSUME FilesAssumption == \A f \in Files : f \in Seq(Line)
ASSUME MessagesAssumption == \A f \in Files : \A m \in Messages(f) : m \in Message

\* A line is the separator, a line that starts with "HTTP/", a line with the
\* header's name before a colon, or any other text; empty tokens are an
\* empty line.
Separator == [kind |-> "separator", optional |-> FALSE, tokens |-> <<>>]
Response == [kind |-> "response", optional |-> FALSE, tokens |-> <<Text(<<"H">>)>>]
Plain(tokens) == [kind |-> "plain", optional |-> FALSE, tokens |-> tokens]
Header(optional, tokens) == [kind |-> "header", optional |-> optional, tokens |-> tokens]
IsEmpty(line) == line.kind = "plain" /\ line.tokens = <<>>

\* A request.  Its header is the line getHeaderLine makes, name and value,
\* with nothing after the name for a header that is not there; transports
\* without headers have null instead, which like an empty line matches no
\* header template.
Request(top, header, body) == [top |-> top, header |-> header, body |-> body]

VARIABLES
  file,      \* the file read
  next,      \* its next line
  parts,     \* loadReqResp's ret: the finished parts of the block
  lines,     \* loadReqResp's lines: the part being read
  rules,     \* load's pairList
  step,      \* what the script is doing
  message,   \* the request being tried
  rule,      \* the rule to try
  bindings   \* its variables, once it matched

reading == <<file, next, parts, lines>>
matching == <<message, rule, bindings>>
vars == <<reading, rules, step, matching>>

Step == {"loading", "failed", "ready", "matching", "matched", "error", "unmatched"}
NoMessage == Request(<<>>, <<>>, <<>>)

Init ==
  /\ file \in Files
  /\ next = 1
  /\ parts = <<>> /\ lines = <<>> /\ rules = <<>>
  /\ step = "loading"
  /\ message = NoMessage /\ rule = 1 /\ bindings = NoVars

-----------------------------------------------------------------------------
(* Reading the file: load, loadReqResp, addLines.                          *)

\* addLines: without an empty first and an empty last line; a part of which
\* nothing is left is dropped.
Chop(part) ==
  LET tail == IF part # <<>> /\ IsEmpty(Head(part)) THEN Tail(part) ELSE part
  IN IF tail # <<>> /\ IsEmpty(Last(tail)) THEN Front(tail) ELSE tail

AddLines(block, part) == IF Chop(part) = <<>> THEN block ELSE Append(block, Chop(part))

\* Mutant of ReadResponse: lines is not a new list.
ReadResponseOn ==
  /\ step = "loading" /\ next <= Len(file) /\ file[next].kind = "response"
  /\ parts' = AddLines(parts, lines)
  /\ lines' = Append(lines, file[next])
  /\ next' = next + 1
  /\ UNCHANGED <<file, rules, step, matching>>

ReadResponse ==
  /\ step = "loading" /\ next <= Len(file) /\ file[next].kind = "response"
  /\ parts' = AddLines(parts, lines)
  /\ lines' = <<file[next]>>
  /\ next' = next + 1
  /\ UNCHANGED <<file, rules, step, matching>>

ReadText ==
  /\ step = "loading" /\ next <= Len(file)
  /\ file[next].kind \in {"plain", "header"}
  /\ lines' = Append(lines, file[next])
  /\ next' = next + 1
  /\ UNCHANGED <<file, parts, rules, step, matching>>

\* The block ends at a separator or at the end of the file: one part is an
\* IOException that ends the whole load, no part is what load takes for the
\* end of the rules.
EndBlock ==
  /\ step = "loading"
  /\ next <= Len(file) => file[next].kind = "separator"
  /\ next' = Min({next + 1, Len(file) + 1})
  /\ LET block == AddLines(parts, lines) IN
     CASE Len(block) = 0 -> step' = "ready" /\ rules' = rules
       [] Len(block) = 1 -> step' = "failed" /\ rules' = <<>>
       [] OTHER          -> step' = step /\ rules' = Append(rules, block)
  /\ parts' = <<>> /\ lines' = <<>>
  /\ UNCHANGED <<file, matching>>

-----------------------------------------------------------------------------
(* Matching: genResponse, SimRequestTemplate.match.                        *)

\* A string is read as the lines in it; the empty string has none.
Lines(text) == IF text = <<>> THEN <<>> ELSE <<text>>

\* The tokens of a line as text, with the header's name and colon.
TokensOf(line) ==
  IF line.kind = "header" THEN <<Text(<<"h">>)>> \o line.tokens ELSE line.tokens

\* SimRequestTemplate.init: the first line, then headers up to an empty
\* line, then the body.
HeaderEnd(part) == Min({i \in 2 .. Len(part) : IsEmpty(part[i])} \cup {Len(part) + 1})

\* Text without a colon is ignored, and a header given twice overwritten.
HeadersAt(part) == {i \in 2 .. HeaderEnd(part) - 1 : part[i].kind = "header"}
HasHeader(part) == HeadersAt(part) # {}
HeaderTemplate(part) == part[Max(HeadersAt(part))]
IsOptional(part) == HasHeader(part) /\ HeaderTemplate(part).optional

\* The body's empty first lines are lost (a newline is only added to a body
\* that is not empty), and so is an empty last one (readLine ends with it).
BodyTemplate(part) ==
  LET body == SubSeq(part, HeaderEnd(part) + 1, Len(part))
      first == Min({i \in DOMAIN body : ~IsEmpty(body[i])} \cup {Len(body) + 1})
      kept == SubSeq(body, first, Len(body))
      read == IF kept # <<>> /\ IsEmpty(Last(kept)) THEN Front(kept) ELSE kept
  IN [i \in DOMAIN read |-> TokensOf(read[i])]

\* Each part of the template with the lines it has to match.
TopLine(part, m) == [template |-> Lines(TokensOf(part[1])), lines |-> Lines(m.top)]
HeaderLine(part, m) ==
  [template |-> <<TokensOf(HeaderTemplate(part))>>, lines |-> Lines(m.header)]
Body(part, m) == [template |-> BodyTemplate(part), lines |-> m.body]

\* match: top line, header, body in this order; the first that is null or
\* fails decides, except an optional header that is null.
MatchPart(part, m) ==
  LET tries(p) == parse(p.template, p.lines)
      top == tries(TopLine(part, m))
      header == IF ~HasHeader(part) THEN Match(NoVars)
                ELSE LET h == tries(HeaderLine(part, m))
                     IN IF h.status = "none" /\ IsOptional(part) THEN Match(NoVars) ELSE h
      body == IF BodyTemplate(part) = <<>> THEN Match(NoVars) ELSE tries(Body(part, m))
  IN IF top.status # "match" THEN top
     ELSE IF header.status # "match" THEN header
     ELSE IF body.status # "match" THEN body
     ELSE Match(Put(Put(top.vars, header.vars), body.vars))

Receive(m) ==
  /\ step = "ready"
  /\ message' = m
  /\ step' = "matching"
  /\ UNCHANGED <<reading, rules, rule, bindings>>

\* One round of genResponse's loop; a RuntimeException leaves it.
TryRule ==
  /\ step = "matching" /\ rule <= Len(rules)
  /\ LET result == MatchPart(rules[rule][1], message) IN
     CASE result.status = "match" -> /\ step' = "matched"
                                     /\ bindings' = result.vars
                                     /\ rule' = rule
       [] result.status = "error" -> step' = "error" /\ UNCHANGED <<rule, bindings>>
       [] OTHER                   -> rule' = rule + 1 /\ UNCHANGED <<step, bindings>>
  /\ UNCHANGED <<reading, rules, message>>

NoRuleLeft ==
  /\ step = "matching" /\ rule > Len(rules)
  /\ step' = "unmatched"
  /\ UNCHANGED <<reading, rules, matching>>

Next ==
  \/ ReadResponse \/ ReadText \/ EndBlock
  \/ \E m \in Messages(file) : Receive(m)
  \/ TryRule \/ NoRuleLeft

Spec == Init /\ [][Next]_vars

-----------------------------------------------------------------------------
(* The grammar of a file, by the places of its separators.                 *)

\* A block ends at a separator and at the end of the file.
Ends == {i \in DOMAIN file : file[i].kind = "separator"} \cup {Len(file) + 1}
BlockStart(j) == IF j = 1 THEN 1 ELSE Nth(Ends, j - 1) + 1
Block(j) == SubSeq(file, BlockStart(j), Nth(Ends, j) - 1)

\* The lines of a part without an empty first and last one.
Inner(part) ==
  LET n == Len(part) IN
  IF n = 0 THEN part
  ELSE SubSeq(part, IF IsEmpty(part[1]) THEN 2 ELSE 1,
                    IF IsEmpty(part[n]) THEN n - 1 ELSE n)

\* A block is cut in front of its response lines.
Starts(block) == {1} \cup {i \in DOMAIN block : block[i].kind = "response"}
NextStart(block, i) ==
  Min({k \in Starts(block) : k > i} \cup {Len(block) + 1})
PartAt(block, i) == Inner(SubSeq(block, i, NextStart(block, i) - 1))
PartsOf(block) ==
  LET at == InOrder({i \in Starts(block) : PartAt(block, i) # <<>>})
  IN [j \in DOMAIN at |-> PartAt(block, at[j])]
Grammar == [j \in 1 .. Cardinality(Ends) |-> PartsOf(Block(j))]

\* The rules before the first block with nothing in it.
RuleCount == Min({j \in DOMAIN Grammar : Grammar[j] = <<>>} \cup {Len(Grammar) + 1}) - 1

\* What is loaded are the blocks of the file in their order, each cut in
\* front of its responses, up to the first empty block; the load fails iff
\* one of these has a request only (load, loadReqResp, addLines).
LoadIsGrammar ==
  LET broken == \E j \in 1 .. RuleCount : Len(Grammar[j]) = 1 IN
  /\ step = "failed" => broken
  /\ step \notin {"loading", "failed"} =>
       ~broken /\ rules = SubSeq(Grammar, 1, RuleCount)

-----------------------------------------------------------------------------
(* Matching against the set of all splits.                                 *)

\* The part can be split line by line.
Splittable(p) ==
  /\ Len(p.template) = Len(p.lines)
  /\ \A j \in DOMAIN p.lines : Splits(p.lines[j], p.template[j]) # {}

\* The parts of a rule with what they stand against.
TopOf(part) == TopLine(part, message)
HeaderOf(part) == HeaderLine(part, message)
HasBody(part) == BodyTemplate(part) # <<>>
BodyOf(part) == Body(part, message)
AllOf(part) ==
  {TopOf(part)} \cup (IF HasHeader(part) THEN {HeaderOf(part)} ELSE {})
                \cup (IF HasBody(part) THEN {BodyOf(part)} ELSE {})

\* The message has all that the rule asks for.
FitsRule(part) ==
  /\ Splittable(TopOf(part))
  /\ HasHeader(part) => Splittable(HeaderOf(part)) \/ IsOptional(part)
  /\ HasBody(part) => Splittable(BodyOf(part))

Names(p) == UNION {NamesOf(p.template[j]) : j \in DOMAIN p.template}

\* The array or the scalar that the least splits of all lines bind to n: the
\* last line that has n decides, and arrays are joined.
Expected(p, n) ==
  LET bound(j) == Bound(p.lines[j], p.template[j],
                        Least(Splits(p.lines[j], p.template[j])))
      with == {j \in DOMAIN p.lines : n \in NamesOf(p.template[j])}
      arrays == {j \in with : \A i \in with : i >= j => bound(i)[n].array}
      at == InOrder(arrays)
  IN IF arrays = {} THEN bound(Max(with))[n]
     ELSE Array(FlattenSeq([i \in DOMAIN at |-> bound(at[i])[n].values]))

\* The rule that answers is the first one that the message fits: every
\* required line of it can be split, and no rule before it could have taken
\* the message (genResponse, match, parse, parseLine: the search misses no
\* split and invents none).
FirstFittingRule ==
  /\ step = "matched" => FitsRule(rules[rule][1])
  /\ step \in {"matching", "matched", "unmatched"} =>
       \A r \in 1 .. rule - 1 : ~FitsRule(rules[r][1])

\* The variables of the answering rule have the values of the least split:
\* earlier variables are as short as the rest of the line allows, arrays are
\* in the order of the text and over the lines, and body overwrites header
\* overwrites top line (match, parse, merge, parseLine).
LeastSplitBinds ==
  step = "matched" =>
    LET part == rules[rule][1]
        values(p) == [n \in Names(p) |-> Expected(p, n)]
        took(asked, p) == IF asked /\ Splittable(p) THEN values(p) ELSE NoVars
    IN bindings = Put(Put(values(TopOf(part)), took(HasHeader(part), HeaderOf(part))),
                      took(HasBody(part), BodyOf(part)))

\* A request is lost to an exception only when some line of it meets a
\* variable whose maximum runs past the line's end, or a name used both as
\* an array and as a scalar (substring and the cast in parseLine).
ErrorIsExplained ==
  step = "error" =>
    \E p \in AllOf(rules[rule][1]) :
      \E j \in DOMAIN p.template \cap DOMAIN p.lines :
        \/ Overruns(p.lines[j], p.template[j])
        \/ MixesKinds(p.template[j])
==============================================================================
