------------------------------ MODULE SimTemplate ------------------------------
(***************************************************************************)
(* SimTemplate: a line-based "reverse template" that takes a message apart *)
(* and binds its variables.  A line of a message is a sequence of          *)
(* characters, a template line the sequence of tokens that                 *)
(* parseTemplateLine cuts it into.  parseLine backtracks over the lengths  *)
(* of the variables, shortest first, so what it finds is compared below    *)
(* with the set of all ways to split the line (Splits).                    *)
(***************************************************************************)
EXTENDS Integers, FiniteSets, Sequences, SequencesExt, FiniteSetsExt

CONSTANT Character  \* what texts are made of

Unbounded == -1   \* a length that the template leaves out

Text(s) == [kind |-> "text", text |-> s]
Var(n, array, min, max) ==
  [kind |-> "var", name |-> n, array |-> array, min |-> min, max |-> max]

Characters == Seq(Character)
Length == Nat \cup {Unbounded}
Token ==
  [kind : {"text"}, text : Characters] \cup
  [kind : {"var"}, name : STRING, array : BOOLEAN, min : Length, max : Length]

Scalar(s) == [array |-> FALSE, values |-> <<s>>]
Array(ss) == [array |-> TRUE, values |-> ss]

\* What a parse comes to: a map of variables, null, or an exception that is
\* no IOException (StringIndexOutOfBounds, ClassCast).
NoVars == [n \in {} |-> Scalar(<<>>)]
Match(vars) == [status |-> "match", vars |-> vars]
Mismatch == [status |-> "none", vars |-> NoVars]
Failure == [status |-> "error", vars |-> NoVars]

\* f over g: Map.putAll.
Put(g, f) == [n \in DOMAIN g \cup DOMAIN f |-> IF n \in DOMAIN f THEN f[n] ELSE g[n]]
PutOne(g, n, v) == Put(g, [x \in {n} |-> v])

-----------------------------------------------------------------------------
(* The code.                                                               *)

\* Mutant of Bind: what is bound already is not looked at.
BindOverwrites(token, piece, vars) ==
  Match(PutOne(vars, token.name, IF token.array THEN Array(<<piece>>) ELSE Scalar(piece)))

\* The variable takes piece, the rest of the line has given vars.  A scalar
\* met again further right keeps the value from there; an array grows to the
\* left, and the cast fails when the name is bound to a scalar.
Bind(token, piece, vars) ==
  LET bound == token.name \in DOMAIN vars IN
  CASE ~token.array /\ bound  -> Match(vars)
    [] ~token.array /\ ~bound -> Match(PutOne(vars, token.name, Scalar(piece)))
    [] token.array /\ ~bound  -> Match(PutOne(vars, token.name, Array(<<piece>>)))
    [] token.array /\ bound   ->
         IF vars[token.name].array
           THEN Match(PutOne(vars, token.name,
                             Array(<<piece>> \o vars[token.name].values)))
           ELSE Failure

MinLen(token) == IF token.min = Unbounded THEN 0 ELSE token.min
\* Mutants of MaxLen: the longest length is not tried; no limit without a
\* maximum.
MaxLenShort(token, rest) == IF token.max = Unbounded THEN rest - 1 ELSE token.max
MaxLenFree(token, rest) == IF token.max = Unbounded THEN rest + 1 ELSE token.max
MaxLen(token, rest) == IF token.max = Unbounded THEN rest ELSE token.max

\* What a token at offset i of the line comes to, when the tokens after it come
\* to after[j] at offset j.  Taking more characters than are left is
\* substring's exception, and the first length that does not give null decides.
MatchToken(line, token, after, i) ==
  CASE token.kind = "text" ->
         IF IsPrefix(token.text, SubSeq(line, i + 1, Len(line)))
           THEN after[i + Len(token.text)] ELSE Mismatch
    [] token.kind = "var" ->
         LET rest == Len(line) - i
             result(m) == IF m > rest THEN Failure ELSE after[i + m]
             hits == {m \in MinLen(token) .. MaxLen(token, rest) : result(m).status # "none"}
             first == Min(hits)
         IN IF hits = {} THEN Mismatch
            ELSE IF result(first).status = "error" THEN Failure
            ELSE Bind(token, SubSeq(line, i + 1, i + first), result(first).vars)

\* parseLine(contentLine, tokenList, tokenIndex): results[k][i] is what it
\* returns for the tokens from k on and the line from offset i on.
parseLine(line, tokens) ==
  LET n == Len(tokens)
      results[k \in 1 .. n + 1] ==
        [i \in 0 .. Len(line) |->
           IF k = n + 1 THEN IF i = Len(line) THEN Match(NoVars) ELSE Mismatch
           ELSE IF i = Len(line) THEN Mismatch
           ELSE MatchToken(line, tokens[k], results[k + 1], i)]
  IN results[1][0]

\* merge: arrays of the same name are concatenated, else the later line wins.
merge(source, dest) ==
  Put(source, [n \in DOMAIN dest |->
    IF n \in DOMAIN source /\ source[n].array /\ dest[n].array
      THEN Array(source[n].values \o dest[n].values) ELSE dest[n]])

\* parse(reader): line against line; the first line that does not match ends
\* it, and a message with fewer lines than the template does not match.
parse(template, lines) ==
  LET common == Min({Len(template), Len(lines)})
      result == [j \in 1 .. common |-> parseLine(lines[j], template[j])]
      bad == {j \in 1 .. common : result[j].status # "match"}
      ret[j \in 0 .. common] ==
        IF j = 0 THEN NoVars ELSE merge(ret[j - 1], result[j].vars)
  IN IF bad # {} THEN result[Min(bad)]
     ELSE IF Len(template) # Len(lines) THEN Mismatch
     ELSE Match(ret[common])

-----------------------------------------------------------------------------
(* The reference: all ways to split a line.                                *)

\* The elements of a finite set of numbers in their order.
Nth(S, j) == CHOOSE x \in S : Cardinality({y \in S : y < x}) = j - 1
InOrder(S) == [j \in 1 .. Cardinality(S) |-> Nth(S, j)]

\* A cut says at which offset each token ends.
CutsOf(line, n) == [1 .. n -> 0 .. Len(line)]
Start(cut, k) == IF k = 1 THEN 0 ELSE cut[k - 1]
Piece(line, cut, k) == SubSeq(line, Start(cut, k) + 1, cut[k])

\* The token can stand between two offsets.  It never starts at the end of the
\* line: a variable there does not match the empty text.
TokenFits(line, token, i, j) ==
  /\ i < Len(line) /\ i <= j /\ j <= Len(line)
  /\ IF token.kind = "text"
       THEN SubSeq(line, i + 1, j) = token.text
       ELSE /\ j - i >= MinLen(token)
            /\ token.max # Unbounded => j - i <= token.max

\* The first n tokens can be cut like this.
Fits(line, tokens, cut, n) ==
  \A k \in 1 .. n : TokenFits(line, tokens[k], Start(cut, k), cut[k])

Splits(line, tokens) ==
  {cut \in CutsOf(line, Len(tokens)) :
     /\ Fits(line, tokens, cut, Len(tokens))
     /\ Start(cut, Len(tokens) + 1) = Len(line)}

\* Earlier variables are as short as they can be.
Before(c, d) == \E k \in DOMAIN c : c[k] < d[k] /\ \A j \in 1 .. k - 1 : c[j] = d[j]
Least(cuts) == CHOOSE c \in cuts : \A d \in cuts \ {c} : Before(c, d)

\* The search can come to a variable whose maximum runs past the line's end.
Overruns(line, tokens) ==
  \E k \in DOMAIN tokens :
    /\ tokens[k].kind = "var"
    /\ MinLen(tokens[k]) <= tokens[k].max
    /\ \E cut \in CutsOf(line, k - 1) :
         /\ Fits(line, tokens, cut, k - 1)
         /\ Start(cut, k) < Len(line)
         /\ Start(cut, k) + tokens[k].max > Len(line)

Occurrences(tokens, n) == {k \in DOMAIN tokens : tokens[k].kind = "var" /\ tokens[k].name = n}
NamesOf(tokens) == {tokens[k].name : k \in {j \in DOMAIN tokens : tokens[j].kind = "var"}}

\* The variable that binds the name first: the right-most one.
Rightmost(tokens, n) == tokens[Max(Occurrences(tokens, n))]

\* An array variable and, right of all of its name, a scalar one.
MixesKinds(tokens) ==
  \E n \in NamesOf(tokens) :
    /\ ~Rightmost(tokens, n).array
    /\ \E k \in Occurrences(tokens, n) : tokens[k].array

\* The pieces of an array in the order they stand in.
Pieces(line, tokens, cut, n) ==
  LET at == InOrder({k \in Occurrences(tokens, n) : tokens[k].array})
  IN [j \in DOMAIN at |-> Piece(line, cut, at[j])]

\* What a split binds: all pieces of an array, the last piece of a scalar.
Bound(line, tokens, cut) ==
  [n \in NamesOf(tokens) |->
     IF Rightmost(tokens, n).array THEN Array(Pieces(line, tokens, cut, n))
     ELSE Scalar(Piece(line, cut, Max(Occurrences(tokens, n))))]
==============================================================================
