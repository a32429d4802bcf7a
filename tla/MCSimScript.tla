----------------------------- MODULE MCSimScript -----------------------------
(* The instance of SimScript for TLC: all short files of every kind of      *)
(* line with a few messages, and small rules with all short messages.       *)
EXTENDS SimScript

Upto(S, n) == UNION {[1 .. k -> S] : k \in 0 .. n}
Char == {"a", "b"}
A == Text(<<"a">>)
Blank == Plain(<<>>)

\* Bounds of a file without long templates.
MaxLines == 5
ShortFiles == Upto({Separator, Response, Blank, Plain(<<A>>)}, MaxLines)

\* Bounds of a template line and of the lines it is matched with.
MaxTokens == 3
MaxChars == 4
Lengths == {<<Unbounded, Unbounded>>, <<Unbounded, 2>>, <<2, Unbounded>>}
Variables == {Var("x", array, l[1], l[2]) : array \in BOOLEAN, l \in Lengths}
               \cup {Var("y", FALSE, Unbounded, Unbounded)}
TextsApart(tokens) ==
  \A k \in 1 .. Len(tokens) - 1 : tokens[k].kind = "var" \/ tokens[k + 1].kind = "var"
TemplateLines ==
  {t \in Upto({A, Text(<<"a", "b">>)} \cup Variables, MaxTokens) : TextsApart(t)} \ {<<>>}
TopLineFiles == {<<Plain(t), Response>> : t \in TemplateLines}

\* Two rules: what the first does not match goes to the second.
X == Var("x", FALSE, Unbounded, Unbounded)
Xs == Var("x", TRUE, Unbounded, Unbounded)
X2 == Var("x", FALSE, 2, 2)
Y == Var("y", FALSE, 1, Unbounded)
FewLines == {<<A>>, <<X, A>>, <<X2>>, <<A, X, A>>}
TwoRuleFiles ==
  {<<Plain(t), Response, Separator, Plain(u), Response>> : t \in FewLines, u \in FewLines}

\* A header and a body of up to two lines.
HeaderLines == {<<>>} \cup {<<Header(o, t)>> : o \in BOOLEAN, t \in {<<A>>, <<Xs>>, <<>>}}
BodyLines == {<<>>, <<A>>, <<Xs>>, <<Xs, A, Xs>>, <<X, A>>, <<A, Y>>}
BodyFiles ==
  {<<Plain(<<Xs>>)>> \o h \o <<Blank, Plain(t), Plain(u), Response>> :
     h \in HeaderLines, t \in BodyLines, u \in BodyLines}

MCFiles == ShortFiles \cup TopLineFiles \cup TwoRuleFiles \cup BodyFiles
MCMessages(f) ==
  IF f \in BodyFiles
    THEN {Request(<<"a">>, h, b) : h \in {<<>>, <<"h">>, <<"h", "a">>},
                                   b \in Upto(Upto(Char, 3), 1) \cup Upto(Upto(Char, 2), 2)}
    ELSE {Request(t, <<>>, <<>>) :
            t \in Upto(Char, IF f \in ShortFiles THEN 1 ELSE MaxChars) \ {<<>>}}
=============================================================================
