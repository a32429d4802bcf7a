---------------------------- MODULE SimScript_proofs ----------------------------
(***************************************************************************)
(* Proofs about SimScript and the templates of SimTemplate, and, from the  *)
(* walk over an archive on, about ScriptTree.  The search of parseLine,    *)
(* the loop of parse, the reading of a block and the selection of files    *)
(* are recursions over data; an induction over them is done here with      *)
(* sets, as "every set of numbers that has 0 and with n also n + 1 has all *)
(* numbers", which follows from the well-foundedness of < (LeastNatural).  *)
(***************************************************************************)
EXTENDS SimScript, ScriptTree, WellFoundedInduction, SequenceTheorems, FiniteSetTheorems, TLAPS

-----------------------------------------------------------------------------
(* Induction with sets of numbers.                                         *)

\* Every set of numbers has a least element.
LEMMA LeastNatural ==
  ASSUME NEW S \in SUBSET Nat, S # {}
  PROVE  \E x \in S : \A y \in S : x <= y
<1>1. PICK x \in S : \A y \in S : ~(<<y, x>> \in OpToRel(<, Nat))
  <2>1. S \subseteq Nat
    OBVIOUS
  <2>2. QED
    BY <2>1, NatLessThanWellFounded, WFMin
<1>2. \A y \in S : <<y, x>> \in Nat \X Nat /\ y \in Nat /\ x \in Nat
  OBVIOUS
<1>3. \A y \in S : ~(y < x)
  BY <1>1, <1>2 DEF OpToRel
<1>4. \A y \in S : x <= y
  BY <1>2, <1>3
<1>5. QED
  BY <1>4

\* Induction over the numbers, for a set.
LEMMA SetInduction ==
  ASSUME NEW T, 0 \in T, \A n \in Nat : n \in T => n + 1 \in T
  PROVE  \A n \in Nat : n \in T
<1> SUFFICES ASSUME NEW m \in Nat, m \notin T
             PROVE  FALSE
  OBVIOUS
<1> DEFINE S == {n \in Nat : n \notin T}
<1>1. S \in SUBSET Nat /\ S # {}
  OBVIOUS
<1> HIDE DEF S
<1>2. PICK x \in S : \A y \in S : x <= y
  BY <1>1, LeastNatural
<1>3. x \in Nat /\ x \notin T
  BY DEF S
<1>4. x # 0
  BY <1>3
<1>5. x - 1 \in Nat /\ x - 1 < x
  BY <1>3, <1>4
<1>6. x - 1 \notin S
  BY <1>2, <1>3, <1>5
<1>7. x - 1 \in T
  BY <1>5, <1>6 DEF S
<1>8. (x - 1) + 1 = x
  BY <1>3
<1>9. QED
  BY <1>3, <1>5, <1>7, <1>8

\* What Min chooses.
LEMMA MinIsLeast ==
  ASSUME NEW S \in SUBSET Nat, S # {}
  PROVE  Min(S) \in S /\ \A y \in S : Min(S) <= y
BY LeastNatural DEF Min

\* What Max chooses in a set with a bound.
LEMMA MaxIsGreatest ==
  ASSUME NEW b \in Nat, NEW S \in SUBSET (0 .. b), S # {}
  PROVE  Max(S) \in S /\ \A y \in S : Max(S) >= y
<1> DEFINE D == {b - y : y \in S}
<1>1. \A y \in S : y \in Nat /\ y <= b
  OBVIOUS
<1>2. \A y \in S : b - y \in Nat
  BY <1>1
<1>2a. D \in SUBSET Nat /\ D # {}
  BY <1>2
<1>3. PICK d \in D : \A e \in D : d <= e
  <2> HIDE DEF D
  <2>1. QED
    BY <1>2a, LeastNatural
<1>4. PICK x \in S : d = b - x
  OBVIOUS
<1>5. \A y \in S : x >= y
  <2> SUFFICES ASSUME NEW y \in S PROVE x >= y
    OBVIOUS
  <2>1. b - x <= b - y
    BY <1>3, <1>4
  <2>2. QED
    BY <1>1, <2>1
<1>6. QED
  BY <1>5 DEF Max

-----------------------------------------------------------------------------
(* parseLine as a table of rows, a row for the tokens from k on.           *)

Row(line, tokens, k, after) ==
  [i \in 0 .. Len(line) |->
     IF k = Len(tokens) + 1 THEN IF i = Len(line) THEN Match(NoVars) ELSE Mismatch
     ELSE IF i = Len(line) THEN Mismatch
     ELSE MatchToken(line, tokens[k], after, i)]

IsTable(line, tokens, r) ==
  r = [k \in 1 .. Len(tokens) + 1 |-> Row(line, tokens, k, r[k + 1])]

\* The table exists: its rows are built from the last one on.
LEMMA RowsExist ==
  ASSUME NEW line, NEW tokens, Len(tokens) \in Nat
  PROVE  \E r : IsTable(line, tokens, r)
<1> DEFINE n == Len(tokens)
           R(k, after) == Row(line, tokens, k, after)
           T == {d \in Nat : \E s : \A k \in Nat :
                   k <= n + 1 /\ k >= n + 1 - d => s[k] = R(k, s[k + 1])}
<1>1. \A a, b : R(n + 1, a) = R(n + 1, b)
  BY DEF Row
<1>2. n \in Nat
  OBVIOUS
<1> HIDE DEF n, R
<1>3. 0 \in T
  <2> DEFINE s == [k \in Nat |-> R(k, <<>>)]
  <2>1. \A k \in Nat : k <= n + 1 /\ k >= n + 1 - 0 => s[k] = R(k, s[k + 1])
    BY <1>1, <1>2
  <2>2. QED
    BY <2>1
<1>4. \A d \in Nat : d \in T => d + 1 \in T
  <2> SUFFICES ASSUME NEW d \in Nat, d \in T PROVE d + 1 \in T
    OBVIOUS
  <2>1. PICK s : \A k \in Nat : k <= n + 1 /\ k >= n + 1 - d => s[k] = R(k, s[k + 1])
    OBVIOUS
  <2> DEFINE t == [k \in Nat |-> IF k = n - d THEN R(k, s[k + 1]) ELSE s[k]]
  <2>2. \A k \in Nat : k <= n + 1 /\ k >= n + 1 - (d + 1) => t[k] = R(k, t[k + 1])
    <3> SUFFICES ASSUME NEW k \in Nat, k <= n + 1, k >= n + 1 - (d + 1)
                 PROVE  t[k] = R(k, t[k + 1])
      OBVIOUS
    <3>1. k + 1 \in Nat /\ k + 1 # n - d
      BY <1>2
    <3>2. t[k + 1] = s[k + 1]
      BY <3>1
    <3>3. CASE k = n - d
      BY <3>2, <3>3
    <3>4. CASE k # n - d
      <4>1. k >= n + 1 - d
        BY <1>2, <3>4
      <4>2. QED
        BY <2>1, <3>2, <3>4, <4>1
    <3>5. QED
      BY <3>3, <3>4
  <2> HIDE DEF t
  <2>3. \E u : \A k \in Nat : k <= n + 1 /\ k >= n + 1 - (d + 1) => u[k] = R(k, u[k + 1])
    BY <2>2
  <2>4. d + 1 \in Nat
    OBVIOUS
  <2>5. QED
    BY <2>3, <2>4
<1> HIDE DEF T
<1>5. n \in T
  BY <1>2, <1>3, <1>4, SetInduction
<1>6. PICK s : \A k \in Nat : k <= n + 1 /\ k >= n + 1 - n => s[k] = R(k, s[k + 1])
  BY <1>5 DEF T
<1> DEFINE r == [k \in 1 .. n + 1 |-> s[k]]
<1>7. \A k \in 1 .. n + 1 : r[k] = R(k, r[k + 1])
  <2> SUFFICES ASSUME NEW k \in 1 .. n + 1 PROVE r[k] = R(k, r[k + 1])
    OBVIOUS
  <2>1. s[k] = R(k, s[k + 1])
    BY <1>2, <1>6
  <2>2. CASE k = n + 1
    BY <1>1, <2>1, <2>2
  <2>3. CASE k # n + 1
    <3>1. k + 1 \in 1 .. n + 1
      BY <1>2, <2>3
    <3>2. QED
      BY <2>1, <3>1
  <2>4. QED
    BY <2>2, <2>3
<1>8. r = [k \in 1 .. n + 1 |-> R(k, r[k + 1])]
  BY <1>7
<1>9. IsTable(line, tokens, r)
  BY <1>8 DEF R, n, IsTable
<1> HIDE DEF r
<1>10. QED
  BY <1>9

\* parseLine is the corner of such a table.
LEMMA ParseLineIsSearch ==
  ASSUME NEW line, NEW tokens, Len(tokens) \in Nat
  PROVE  \E r : /\ \A k \in 1 .. Len(tokens) + 1 : r[k] = Row(line, tokens, k, r[k + 1])
                /\ parseLine(line, tokens) = r[1][0]
<1> DEFINE r == CHOOSE s : s = [k \in 1 .. Len(tokens) + 1 |-> Row(line, tokens, k, s[k + 1])]
<1>1. r = [k \in 1 .. Len(tokens) + 1 |-> Row(line, tokens, k, r[k + 1])]
  <2>1. PICK s : IsTable(line, tokens, s)
    BY RowsExist
  <2>2. s = [k \in 1 .. Len(tokens) + 1 |-> Row(line, tokens, k, s[k + 1])]
    BY <2>1 DEF IsTable
  <2>3. QED
    BY <2>2
<1>2. parseLine(line, tokens) = r[1][0]
  BY DEF parseLine, Row
<1> HIDE DEF r
<1>3. \A k \in 1 .. Len(tokens) + 1 : r[k] = Row(line, tokens, k, r[k + 1])
  BY <1>1
<1>4. QED
  BY <1>2, <1>3

-----------------------------------------------------------------------------
(* Chains: the ways to split the line from offset i on into the tokens     *)
(* from k on.  at[j] is where token j ends, at[k - 1] = i.                 *)

Offsets(line, tokens, k) == [k - 1 .. Len(tokens) -> 0 .. Len(line)]
Chain(line, tokens, k, i, at) ==
  /\ at \in Offsets(line, tokens, k)
  /\ at[k - 1] = i
  /\ at[Len(tokens)] = Len(line)
  /\ \A j \in k .. Len(tokens) : TokenFits(line, tokens[j], at[j - 1], at[j])
Sooner(a, b, k, n) == \E j \in k .. n : a[j] < b[j] /\ \A m \in k .. j - 1 : a[m] = b[m]
LeastChain(line, tokens, k, i, at) ==
  /\ Chain(line, tokens, k, i, at)
  /\ \A b : Chain(line, tokens, k, i, b) /\ b # at => Sooner(at, b, k, Len(tokens))

\* Token k in front of the chain at, and a chain without its first token.
InFront(tokens, k, i, at) == [j \in k - 1 .. Len(tokens) |-> IF j = k - 1 THEN i ELSE at[j]]
Behind(tokens, k, at) == [j \in k .. Len(tokens) |-> at[j]]

\* A chain grows to the left by a token that fits.
LEMMA ChainCons ==
  ASSUME NEW line, NEW tokens, Len(line) \in Nat, Len(tokens) \in Nat,
         NEW k \in 1 .. Len(tokens), NEW i \in 0 .. Len(line), NEW j \in 0 .. Len(line),
         NEW at, Chain(line, tokens, k + 1, j, at), TokenFits(line, tokens[k], i, j)
  PROVE  Chain(line, tokens, k, i, InFront(tokens, k, i, at))
<1> DEFINE n == Len(tokens)
           new == InFront(tokens, k, i, at)
<1>1. /\ at \in [k .. n -> 0 .. Len(line)] /\ at[k] = j /\ at[n] = Len(line)
      /\ \A m \in k + 1 .. n : TokenFits(line, tokens[m], at[m - 1], at[m])
  BY DEF Chain, Offsets
<1>2. \A m \in k .. n : m \in k - 1 .. n /\ m # k - 1 /\ m - 1 \in k - 1 .. n
  OBVIOUS
<1>3. new \in [k - 1 .. n -> 0 .. Len(line)]
  BY <1>1 DEF InFront
<1>4. new[k - 1] = i /\ \A m \in k .. n : new[m] = at[m]
  BY <1>2 DEF InFront
<1>5. new[n] = Len(line)
  BY <1>1, <1>4
<1>6. \A m \in k .. n : TokenFits(line, tokens[m], new[m - 1], new[m])
  <2> SUFFICES ASSUME NEW m \in k .. n
               PROVE  TokenFits(line, tokens[m], new[m - 1], new[m])
    OBVIOUS
  <2>1. CASE m = k
    BY <1>1, <1>4, <2>1
  <2>2. CASE m # k
    <3>1. m \in k + 1 .. n /\ m - 1 \in k .. n
      BY <2>2
    <3>2. QED
      BY <1>1, <1>4, <3>1
  <2>3. QED
    BY <2>1, <2>2
<1>7. QED
  BY <1>3, <1>4, <1>5, <1>6 DEF Chain, Offsets

\* A chain is its first token in front of the rest.
LEMMA ChainRest ==
  ASSUME NEW line, NEW tokens, Len(line) \in Nat, Len(tokens) \in Nat,
         NEW k \in 1 .. Len(tokens), NEW i \in 0 .. Len(line),
         NEW at, Chain(line, tokens, k, i, at)
  PROVE  /\ at[k] \in 0 .. Len(line)
         /\ Chain(line, tokens, k + 1, at[k], Behind(tokens, k, at))
         /\ TokenFits(line, tokens[k], i, at[k])
         /\ InFront(tokens, k, i, Behind(tokens, k, at)) = at
<1> DEFINE n == Len(tokens)
           rest == Behind(tokens, k, at)
<1>1. /\ at \in [k - 1 .. n -> 0 .. Len(line)] /\ at[k - 1] = i /\ at[n] = Len(line)
      /\ \A m \in k .. n : TokenFits(line, tokens[m], at[m - 1], at[m])
  BY DEF Chain, Offsets
<1>2. \A m \in k .. n : rest[m] = at[m] /\ at[m] \in 0 .. Len(line)
  <2>1. \A m \in k .. n : rest[m] = at[m]
    BY DEF Behind
  <2>2. \A m \in k .. n : m \in k - 1 .. n
    OBVIOUS
  <2>3. \A m \in k .. n : at[m] \in 0 .. Len(line)
    BY <1>1, <2>2
  <2>4. QED
    BY <2>1, <2>3
<1>3. rest \in [k .. n -> 0 .. Len(line)]
  BY <1>1 DEF Behind
<1>4. \A m \in k + 1 .. n : TokenFits(line, tokens[m], rest[m - 1], rest[m])
  <2> SUFFICES ASSUME NEW m \in k + 1 .. n
               PROVE  TokenFits(line, tokens[m], rest[m - 1], rest[m])
    OBVIOUS
  <2>1. m \in k .. n /\ m - 1 \in k .. n
    OBVIOUS
  <2>2. QED
    BY <1>1, <1>2, <2>1
<1>5. Chain(line, tokens, k + 1, at[k], rest)
  <2>1. (k + 1) - 1 = k /\ k \in k .. n /\ n \in k .. n
    OBVIOUS
  <2>2. QED
    BY <1>1, <1>2, <1>3, <1>4, <2>1 DEF Chain, Offsets
<1>6. TokenFits(line, tokens[k], i, at[k])
  BY <1>1
<1>7. InFront(tokens, k, i, rest) = at
  <2>1. \A m \in k - 1 .. n : m # k - 1 => m \in k .. n
    OBVIOUS
  <2>2. \A m \in k - 1 .. n : (IF m = k - 1 THEN i ELSE rest[m]) = at[m]
    BY <1>1, <1>2, <2>1
  <2>3. QED
    BY <1>1, <2>2 DEF InFront
<1>8. QED
  BY <1>2, <1>5, <1>6, <1>7

\* The least chain from the first offset at which the rest can be split at all.
LEMMA LeastCons ==
  ASSUME NEW line, NEW tokens, Len(line) \in Nat, Len(tokens) \in Nat,
         NEW k \in 1 .. Len(tokens), NEW i \in 0 .. Len(line), NEW j \in 0 .. Len(line),
         NEW at, LeastChain(line, tokens, k + 1, j, at), TokenFits(line, tokens[k], i, j),
         \A m \in 0 .. Len(line) : TokenFits(line, tokens[k], i, m) /\ m < j =>
            ~\E b : Chain(line, tokens, k + 1, m, b)
  PROVE  LeastChain(line, tokens, k, i, InFront(tokens, k, i, at))
<1> DEFINE n == Len(tokens)
           new == InFront(tokens, k, i, at)
<1>1. Chain(line, tokens, k, i, new)
  BY ChainCons DEF LeastChain
<1>2. \A m \in k .. n : new[m] = at[m]
  BY DEF InFront
<1>3. at[k] = j /\ at \in [k .. n -> 0 .. Len(line)]
  BY DEF LeastChain, Chain, Offsets
<1>4. ASSUME NEW b, Chain(line, tokens, k, i, b), b # new
      PROVE  Sooner(new, b, k, n)
  <2> DEFINE rest == Behind(tokens, k, b)
  <2>1. /\ b[k] \in 0 .. Len(line)
        /\ Chain(line, tokens, k + 1, b[k], rest)
        /\ TokenFits(line, tokens[k], i, b[k])
        /\ InFront(tokens, k, i, rest) = b
    BY <1>4, ChainRest
  <2>2. \A m \in k .. n : rest[m] = b[m]
    BY DEF Behind
  <2>3. k \in k .. n
    OBVIOUS
  <2>4. b[k] >= j
    BY <2>1
  <2> HIDE DEF new, rest, n
  <2>5. CASE b[k] > j
    <3>1. new[k] < b[k]
      BY <1>2, <1>3, <2>1, <2>3, <2>5
    <3>2. \A m \in k .. k - 1 : new[m] = b[m]
      OBVIOUS
    <3>3. QED
      BY <2>3, <3>1, <3>2 DEF Sooner
  <2>6. CASE b[k] = j
    <3>1. rest # at
      BY <1>4, <2>1 DEF new
    <3>2. Sooner(at, rest, k + 1, n)
      BY <2>1, <2>6, <3>1 DEF LeastChain, n
    <3>3. PICK m \in k + 1 .. n : at[m] < rest[m] /\ \A l \in k + 1 .. m - 1 : at[l] = rest[l]
      BY <3>2 DEF Sooner
    <3>4. m \in k .. n
      BY DEF n
    <3>5. \A l \in k .. m - 1 : l \in k .. n /\ (l = k \/ l \in k + 1 .. m - 1)
      BY DEF n
    <3>6. \A l \in k .. m - 1 : new[l] = b[l]
      BY <1>2, <1>3, <2>2, <2>6, <3>3, <3>5
    <3>7. new[m] < b[m]
      BY <1>2, <2>2, <3>3, <3>4
    <3>8. QED
      BY <3>4, <3>6, <3>7 DEF Sooner
  <2>7. QED
    BY <2>1, <2>4, <2>5, <2>6
<1>5. QED
  BY <1>1, <1>4 DEF LeastChain

-----------------------------------------------------------------------------
(* The numbering of a finite set of numbers (Nth).                         *)

Rank(S, x) == {y \in S : y < x}

\* Sets of numbers with a bound are finite, and so are the ranks in them.
LEMMA FiniteBelow ==
  ASSUME NEW b \in Nat, NEW S \in SUBSET (0 .. b)
  PROVE  /\ IsFiniteSet(S) /\ Cardinality(S) \in Nat
         /\ \A x : IsFiniteSet(Rank(S, x)) /\ Cardinality(Rank(S, x)) \in Nat
         /\ \A y \in S : y \in Nat
<1>1. IsFiniteSet(0 .. b)
  BY FS_Interval
<1>2. IsFiniteSet(S)
  BY <1>1, FS_Subset
<1>3. \A x : Rank(S, x) \in SUBSET S
  BY DEF Rank
<1>4. \A x : IsFiniteSet(Rank(S, x))
  BY <1>2, <1>3, FS_Subset
<1>5. QED
  BY <1>2, <1>4, FS_CardinalityType

\* A greater element has a greater rank.
LEMMA RankGrows ==
  ASSUME NEW b \in Nat, NEW S \in SUBSET (0 .. b), NEW x \in S, NEW y \in S, x < y
  PROVE  Cardinality(Rank(S, x)) < Cardinality(Rank(S, y))
<1>1. /\ IsFiniteSet(Rank(S, x)) /\ Cardinality(Rank(S, x)) \in Nat
      /\ IsFiniteSet(Rank(S, y)) /\ Cardinality(Rank(S, y)) \in Nat
  BY FiniteBelow
<1>2. x \notin Rank(S, x)
  BY DEF Rank
<1>3. Cardinality(Rank(S, x) \cup {x}) = Cardinality(Rank(S, x)) + 1
  BY <1>1, <1>2, FS_AddElement
<1>4. Rank(S, x) \cup {x} \in SUBSET Rank(S, y)
  <2>1. \A z \in S : z \in Nat
    BY FiniteBelow
  <2>2. \A z \in S : z < x => z < y
    BY <2>1
  <2>3. QED
    BY <2>2 DEF Rank
<1>5. Cardinality(Rank(S, x) \cup {x}) <= Cardinality(Rank(S, y))
  BY <1>1, <1>4, FS_Subset
<1>6. QED
  BY <1>1, <1>3, <1>5

\* The rank says which element it is.
LEMMA NthIs ==
  ASSUME NEW b \in Nat, NEW S \in SUBSET (0 .. b), NEW x \in S, NEW j \in Nat,
         Cardinality(Rank(S, x)) = j - 1
  PROVE  Nth(S, j) = x
<1>1. ASSUME NEW y \in S, Cardinality(Rank(S, y)) = j - 1
      PROVE  y = x
  <2>1. x \in Nat /\ y \in Nat
    OBVIOUS
  <2>1a. Cardinality(Rank(S, x)) \in Nat /\ Cardinality(Rank(S, y)) = Cardinality(Rank(S, x))
    BY <1>1, FiniteBelow
  <2>2. ASSUME x < y PROVE FALSE
    <3>1. Cardinality(Rank(S, x)) < Cardinality(Rank(S, y))
      BY <2>2, RankGrows
    <3>2. QED
      BY <2>1a, <3>1
  <2>3. ASSUME y < x PROVE FALSE
    <3>1. Cardinality(Rank(S, y)) < Cardinality(Rank(S, x))
      BY <2>3, RankGrows
    <3>2. QED
      BY <2>1a, <3>1
  <2>4. QED
    BY <2>1, <2>2, <2>3
<1>2. Nth(S, j) = CHOOSE y \in S : Cardinality(Rank(S, y)) = j - 1
  BY DEF Nth, Rank
<1> DEFINE z == CHOOSE y \in S : Cardinality(Rank(S, y)) = j - 1
<1>3. z \in S /\ Cardinality(Rank(S, z)) = j - 1
  OBVIOUS
<1> HIDE DEF z
<1>4. z = x
  BY <1>1, <1>3
<1>5. QED
  BY <1>2, <1>4 DEF z

\* Ranks in a set to which a greatest element is added.
LEMMA RankAppend ==
  ASSUME NEW b \in Nat, NEW S \in SUBSET (0 .. b), NEW m \in 0 .. b,
         \A y \in S : y < m
  PROVE  /\ \A x \in S : Rank(S \cup {m}, x) = Rank(S, x)
         /\ Rank(S \cup {m}, m) = S
<1>1. \A y \in S : y \in Nat
  OBVIOUS
<1>2. \A x \in S : ~(m < x)
  BY <1>1
<1>3. ~(m < m)
  OBVIOUS
<1>4. QED
  BY <1>2, <1>3 DEF Rank

\* Ranks in a set to which a least element is added.
LEMMA RankPrepend ==
  ASSUME NEW b \in Nat, NEW S \in SUBSET (0 .. b), NEW m \in 0 .. b,
         \A y \in S : m < y
  PROVE  /\ \A x \in S :
              Cardinality(Rank({m} \cup S, x)) = Cardinality(Rank(S, x)) + 1
         /\ Cardinality(Rank({m} \cup S, m)) = 0
<1>1. \A y \in S : y \in Nat
  OBVIOUS
<1>2. \A x \in S : ~(x < m)
  BY <1>1
<1>3. ~(m < m)
  OBVIOUS
<1>4. ASSUME NEW x \in S
      PROVE  Cardinality(Rank({m} \cup S, x)) = Cardinality(Rank(S, x)) + 1
  <2>1. Rank({m} \cup S, x) = Rank(S, x) \cup {m}
    BY DEF Rank
  <2>2. m \notin Rank(S, x)
    BY <1>3 DEF Rank
  <2>3. IsFiniteSet(Rank(S, x))
    BY FiniteBelow
  <2>4. QED
    BY <2>1, <2>2, <2>3, FS_AddElement
<1>5. Rank({m} \cup S, m) = {}
  BY <1>2, <1>3 DEF Rank
<1>6. QED
  BY <1>4, <1>5, FS_EmptySet

\* Every rank below the cardinality is taken.
LEMMA RanksExist ==
  ASSUME NEW b \in Nat, NEW S \in SUBSET (0 .. b), NEW j \in 1 .. Cardinality(S)
  PROVE  \E x \in S : Cardinality(Rank(S, x)) = j - 1
<1> DEFINE T == {c \in Nat : \A U \in SUBSET (0 .. c) : \A i \in 1 .. Cardinality(U) :
                   \E x \in U : Cardinality(Rank(U, x)) = i - 1}
<1>1. 0 \in T
  <2> SUFFICES ASSUME NEW U \in SUBSET (0 .. 0), NEW i \in 1 .. Cardinality(U)
               PROVE  \E x \in U : Cardinality(Rank(U, x)) = i - 1
    OBVIOUS
  <2>0. 0 .. 0 = {0}
    OBVIOUS
  <2>1. U = {} \/ U = {0}
    BY <2>0
  <2>2. Cardinality(U) = 0 \/ U = {0}
    BY <2>1, FS_EmptySet
  <2>3. U = {0} /\ i = 1
    <3>1. Cardinality({0}) = 1
      BY FS_Singleton
    <3>2. QED
      BY <2>2, <3>1
  <2>4. Rank(U, 0) = {}
    BY <2>3 DEF Rank
  <2>5. QED
    BY <2>3, <2>4, FS_EmptySet
<1>2. \A c \in Nat : c \in T => c + 1 \in T
  <2> SUFFICES ASSUME NEW c \in Nat, c \in T PROVE c + 1 \in T
    OBVIOUS
  <2> SUFFICES ASSUME NEW U \in SUBSET (0 .. c + 1), NEW i \in 1 .. Cardinality(U)
               PROVE  \E x \in U : Cardinality(Rank(U, x)) = i - 1
    <3>1. c + 1 \in Nat
      OBVIOUS
    <3>2. QED
      BY <3>1
  <2>1. \A V \in SUBSET (0 .. c) : \A l \in 1 .. Cardinality(V) :
          \E x \in V : Cardinality(Rank(V, x)) = l - 1
    OBVIOUS
  <2> DEFINE V == U \ {c + 1}
  <2>2. V \in SUBSET (0 .. c)
    OBVIOUS
  <2>3. CASE c + 1 \notin U
    <3>1. U = V
      BY <2>3
    <3>2. QED
      BY <2>1, <2>2, <3>1
  <2>4. CASE c + 1 \in U
    <3>0. c + 1 \in Nat /\ V \in SUBSET (0 .. c + 1) /\ c + 1 \in 0 .. c + 1
      OBVIOUS
    <3>1. \A y \in V : y < c + 1
      BY <2>2
    <3>2. U = V \cup {c + 1} /\ c + 1 \notin V
      BY <2>4
    <3> HIDE DEF V, T
    <3> DEFINE d == c + 1
    <3>3. d \in Nat /\ V \in SUBSET (0 .. d) /\ d \in 0 .. d /\ \A y \in V : y < d
      BY <3>0, <3>1
    <3>4. U = V \cup {d} /\ d \notin V
      BY <3>2
    <3> HIDE DEF d
    <3>5. IsFiniteSet(V) /\ Cardinality(V) \in Nat
      BY <3>3, FiniteBelow
    <3>6. Cardinality(U) = Cardinality(V) + 1
      BY <3>4, <3>5, FS_AddElement
    <3>7. /\ \A x \in V : Rank(U, x) = Rank(V, x)
          /\ Rank(U, d) = V
      BY <3>3, <3>4, RankAppend
    <3>8. CASE i = Cardinality(U)
      BY <3>4, <3>5, <3>6, <3>7, <3>8
    <3>9. CASE i # Cardinality(U)
      <4>1. i \in 1 .. Cardinality(V)
        BY <3>5, <3>6, <3>9
      <4>2. PICK x \in V : Cardinality(Rank(V, x)) = i - 1
        BY <2>1, <2>2, <4>1
      <4>3. QED
        BY <3>4, <3>7, <4>2
    <3>10. QED
      BY <3>8, <3>9
  <2>5. QED
    BY <2>3, <2>4
<1> HIDE DEF T
<1>3. b \in T
  BY <1>1, <1>2, SetInduction
<1>4. QED
  BY <1>3 DEF T

\* So the element that Nth chooses is there.
LEMMA NthHasRank ==
  ASSUME NEW b \in Nat, NEW S \in SUBSET (0 .. b), NEW j \in 1 .. Cardinality(S)
  PROVE  Nth(S, j) \in S /\ Cardinality(Rank(S, Nth(S, j))) = j - 1
<1>1. PICK x \in S : Cardinality(Rank(S, x)) = j - 1
  BY RanksExist
<1>2. j \in Nat
  BY FiniteBelow
<1>3. Nth(S, j) = x
  BY <1>1, <1>2, NthIs
<1>4. QED
  BY <1>1, <1>3

\* A greatest element is the last in the order.
LEMMA NthAppend ==
  ASSUME NEW b \in Nat, NEW S \in SUBSET (0 .. b), NEW m \in 0 .. b,
         \A y \in S : y < m
  PROVE  /\ Cardinality(S \cup {m}) = Cardinality(S) + 1
         /\ \A j \in 1 .. Cardinality(S) : Nth(S \cup {m}, j) = Nth(S, j)
         /\ Nth(S \cup {m}, Cardinality(S) + 1) = m
<1> DEFINE U == S \cup {m}
<1>1. U \in SUBSET (0 .. b) /\ m \in U /\ S \subseteq U
  OBVIOUS
<1>2. IsFiniteSet(S) /\ Cardinality(S) \in Nat
  BY FiniteBelow
<1>3. m \notin S
  OBVIOUS
<1>4. Cardinality(U) = Cardinality(S) + 1
  BY <1>2, <1>3, FS_AddElement
<1>5. /\ \A x \in S : Rank(U, x) = Rank(S, x)
      /\ Rank(U, m) = S
  BY RankAppend
<1> HIDE DEF U
<1>6. \A j \in 1 .. Cardinality(S) : Nth(U, j) = Nth(S, j)
  <2> SUFFICES ASSUME NEW j \in 1 .. Cardinality(S) PROVE Nth(U, j) = Nth(S, j)
    OBVIOUS
  <2>1. Nth(S, j) \in S /\ Cardinality(Rank(S, Nth(S, j))) = j - 1
    BY NthHasRank
  <2>2. Nth(S, j) \in U /\ Cardinality(Rank(U, Nth(S, j))) = j - 1
    BY <1>1, <1>5, <2>1
  <2>3. j \in Nat
    BY <1>2
  <2>4. QED
    BY <1>1, <2>2, <2>3, NthIs
<1>7. Nth(U, Cardinality(S) + 1) = m
  <2> DEFINE j == Cardinality(S) + 1
  <2>1. j \in Nat /\ Cardinality(Rank(U, m)) = j - 1
    BY <1>2, <1>5
  <2> HIDE DEF j
  <2>2. Nth(U, j) = m
    BY <1>1, <2>1, NthIs
  <2>3. QED
    BY <2>2 DEF j
<1>8. QED
  BY <1>4, <1>6, <1>7 DEF U

\* A least element is the first in the order.
LEMMA NthPrepend ==
  ASSUME NEW b \in Nat, NEW S \in SUBSET (0 .. b), NEW m \in 0 .. b,
         \A y \in S : m < y
  PROVE  /\ Cardinality({m} \cup S) = Cardinality(S) + 1
         /\ \A j \in 1 .. Cardinality(S) : Nth({m} \cup S, j + 1) = Nth(S, j)
         /\ Nth({m} \cup S, 1) = m
<1> DEFINE U == {m} \cup S
<1>1. U \in SUBSET (0 .. b) /\ m \in U /\ S \subseteq U
  OBVIOUS
<1>2. IsFiniteSet(S) /\ Cardinality(S) \in Nat
  BY FiniteBelow
<1>3. m \notin S
  OBVIOUS
<1>4. Cardinality(U) = Cardinality(S) + 1
  <2>1. U = S \cup {m}
    OBVIOUS
  <2>2. QED
    BY <1>2, <1>3, <2>1, FS_AddElement
<1>5. /\ \A x \in S : Cardinality(Rank(U, x)) = Cardinality(Rank(S, x)) + 1
      /\ Cardinality(Rank(U, m)) = 0
  BY RankPrepend
<1> HIDE DEF U
<1>6. \A j \in 1 .. Cardinality(S) : Nth(U, j + 1) = Nth(S, j)
  <2> SUFFICES ASSUME NEW j \in 1 .. Cardinality(S) PROVE Nth(U, j + 1) = Nth(S, j)
    OBVIOUS
  <2>1. Nth(S, j) \in S /\ Cardinality(Rank(S, Nth(S, j))) = j - 1
    BY NthHasRank
  <2> DEFINE k == j + 1
  <2>2. k \in Nat /\ Cardinality(Rank(U, Nth(S, j))) = k - 1
    <3>1. Cardinality(Rank(U, Nth(S, j))) = Cardinality(Rank(S, Nth(S, j))) + 1
      BY <1>5, <2>1
    <3>2. QED
      BY <1>2, <2>1, <3>1
  <2>3. Nth(S, j) \in U
    BY <1>1, <2>1
  <2> HIDE DEF k
  <2>4. Nth(U, k) = Nth(S, j)
    BY <1>1, <2>2, <2>3, NthIs
  <2>5. QED
    BY <2>4 DEF k
<1>7. Nth(U, 1) = m
  BY <1>1, <1>5, NthIs
<1>8. QED
  BY <1>4, <1>6, <1>7 DEF U

-----------------------------------------------------------------------------
(* Pieces of a line, and the texts of a template in it.                    *)

\* A piece of a line is a text as long as its offsets say.
LEMMA PieceOfLine ==
  ASSUME NEW line \in Characters, NEW i \in 0 .. Len(line), NEW j \in 0 .. Len(line), i <= j
  PROVE  /\ SubSeq(line, i + 1, j) \in Characters
         /\ Len(SubSeq(line, i + 1, j)) = j - i
         /\ \A m \in 1 .. j - i : SubSeq(line, i + 1, j)[m] = line[i + m]
<1>1. Len(line) \in Nat /\ \A m \in 1 .. Len(line) : line[m] \in Character
  BY DEF Characters
<1>2. i + 1 \in Int /\ j \in Int /\ \A m \in i + 1 .. j : line[m] \in Character
  BY <1>1
<1>3. /\ SubSeq(line, i + 1, j) \in Seq(Character)
      /\ Len(SubSeq(line, i + 1, j)) = IF i + 1 <= j THEN j - (i + 1) + 1 ELSE 0
      /\ \A m \in 1 .. j - (i + 1) + 1 : SubSeq(line, i + 1, j)[m] = line[i + 1 + m - 1]
  BY <1>2, SubSeqProperties
<1>4. Len(SubSeq(line, i + 1, j)) = j - i
  BY <1>1, <1>3
<1>5. j - (i + 1) + 1 = j - i /\ \A m \in 1 .. j - i : i + 1 + m - 1 = i + m
  BY <1>1
<1>6. QED
  BY <1>3, <1>4, <1>5 DEF Characters

\* Two equally long texts with the same characters are equal.
LEMMA SameText ==
  ASSUME NEW s \in Characters, NEW t \in Characters, Len(s) = Len(t),
         \A m \in 1 .. Len(s) : s[m] = t[m]
  PROVE  s = t
BY SeqEqual DEF Characters

\* The prefix of the rest of the line is the piece of that length.
LEMMA PrefixIs ==
  ASSUME NEW line \in Characters, NEW text \in Characters, NEW i \in 0 .. Len(line)
  PROVE  IsPrefix(text, SubSeq(line, i + 1, Len(line))) <=>
           i + Len(text) <= Len(line) /\ SubSeq(line, i + 1, i + Len(text)) = text
<1> DEFINE rest == SubSeq(line, i + 1, Len(line))
           j == i + Len(text)
<1>1. Len(line) \in Nat /\ Len(text) \in Nat /\ i \in Nat
  BY DEF Characters
<1>2. /\ rest \in Characters /\ Len(rest) = Len(line) - i
      /\ \A m \in 1 .. Len(line) - i : rest[m] = line[i + m]
  BY <1>1, PieceOfLine
<1>3. SubSeq(text, 1, Len(text)) = text
  BY SubSeqFull DEF Characters
<1>4. Len(text) <= Len(rest) <=> j <= Len(line)
  BY <1>1, <1>2
<1>5. ASSUME j <= Len(line)
      PROVE  SubSeq(rest, 1, Len(text)) = SubSeq(line, i + 1, j)
  <2>1. j \in 0 .. Len(line) /\ i <= j /\ j - i = Len(text)
    BY <1>1, <1>5
  <2>2. /\ SubSeq(line, i + 1, j) \in Characters /\ Len(SubSeq(line, i + 1, j)) = j - i
        /\ \A m \in 1 .. j - i : SubSeq(line, i + 1, j)[m] = line[i + m]
    BY <2>1, PieceOfLine
  <2> HIDE DEF j, rest
  <2>3. 0 \in 0 .. Len(rest) /\ Len(text) \in 0 .. Len(rest) /\ 0 <= Len(text)
    BY <1>1, <1>2, <1>4, <1>5
  <2>4. /\ SubSeq(rest, 0 + 1, Len(text)) \in Characters
        /\ Len(SubSeq(rest, 0 + 1, Len(text))) = Len(text) - 0
        /\ \A m \in 1 .. Len(text) - 0 : SubSeq(rest, 0 + 1, Len(text))[m] = rest[0 + m]
    BY <1>2, <2>3, PieceOfLine
  <2>5. 0 + 1 = 1 /\ Len(text) - 0 = Len(text) /\ \A m \in 1 .. Len(text) : 0 + m = m
    BY <1>1
  <2>6. \A m \in 1 .. Len(text) : m \in 1 .. Len(line) - i
    BY <1>1, <2>1
  <2>7. \A m \in 1 .. Len(text) : SubSeq(rest, 1, Len(text))[m] = SubSeq(line, i + 1, j)[m]
    BY <1>2, <2>1, <2>2, <2>4, <2>5, <2>6
  <2>8. Len(SubSeq(rest, 1, Len(text))) = Len(text) /\ SubSeq(rest, 1, Len(text)) \in Characters
    BY <2>4, <2>5
  <2>9. QED
    BY <2>1, <2>2, <2>7, <2>8, SameText
<1> HIDE DEF rest, j
<1>6. IsPrefix(text, rest) <=> Len(text) <= Len(rest) /\ text = SubSeq(rest, 1, Len(text))
  BY <1>3 DEF IsPrefix
<1>7. IsPrefix(text, rest) <=> j <= Len(line) /\ SubSeq(line, i + 1, j) = text
  BY <1>4, <1>5, <1>6
<1>8. QED
  BY <1>7 DEF rest, j

\* A text fits at most at the place where it is the prefix.
LEMMA TextFits ==
  ASSUME NEW line \in Characters, NEW token \in Token, token.kind = "text",
         NEW i \in 0 .. Len(line), i < Len(line)
  PROVE  LET j == i + Len(token.text)
             is == IsPrefix(token.text, SubSeq(line, i + 1, Len(line)))
         IN /\ is => j \in 0 .. Len(line) /\ TokenFits(line, token, i, j)
            /\ \A m \in 0 .. Len(line) : TokenFits(line, token, i, m) => is /\ m = j
<1> DEFINE j == i + Len(token.text)
           is == IsPrefix(token.text, SubSeq(line, i + 1, Len(line)))
<1>1. token.text \in Characters
  BY DEF Token
<1>2. Len(line) \in Nat /\ Len(token.text) \in Nat /\ i \in Nat
  BY <1>1 DEF Characters
<1>3. is <=> j <= Len(line) /\ SubSeq(line, i + 1, j) = token.text
  BY <1>1, PrefixIs
<1>4. ASSUME NEW m \in 0 .. Len(line), TokenFits(line, token, i, m)
      PROVE  is /\ m = j
  <2>1. i <= m /\ SubSeq(line, i + 1, m) = token.text
    BY <1>4 DEF TokenFits
  <2>2. Len(SubSeq(line, i + 1, m)) = m - i
    BY <2>1, PieceOfLine
  <2>3. m = j
    BY <1>2, <2>1, <2>2
  <2>4. QED
    BY <1>3, <2>1, <2>3
<1>5. ASSUME is PROVE j \in 0 .. Len(line) /\ TokenFits(line, token, i, j)
  <2>1. j \in 0 .. Len(line) /\ i <= j
    BY <1>2, <1>3, <1>5
  <2>2. QED
    BY <1>3, <1>5, <2>1 DEF TokenFits
<1> HIDE DEF is, j
<1>6. /\ is => j \in 0 .. Len(line) /\ TokenFits(line, token, i, j)
      /\ \A m \in 0 .. Len(line) : TokenFits(line, token, i, m) => is /\ m = j
  BY <1>4, <1>5
<1>7. QED
  BY <1>6 DEF is, j

-----------------------------------------------------------------------------
(* What the tokens from k on bind, when they are split by a chain.         *)

OccursFrom(tokens, k, n) ==
  {j \in k .. Len(tokens) : tokens[j].kind = "var" /\ tokens[j].name = n}
ArraysFrom(tokens, k, n) == {j \in OccursFrom(tokens, k, n) : tokens[j].array}
NamesFrom(tokens, k) ==
  {tokens[j].name : j \in {l \in k .. Len(tokens) : tokens[l].kind = "var"}}
Stretch(line, at, j) == SubSeq(line, at[j - 1] + 1, at[j])
Stretches(line, at, S) == [j \in 1 .. Cardinality(S) |-> Stretch(line, at, Nth(S, j))]
ValueFrom(line, tokens, k, at, n) ==
  LET last == Max(OccursFrom(tokens, k, n)) IN
  IF tokens[last].array
    THEN Array(Stretches(line, at, ArraysFrom(tokens, k, n)))
    ELSE Scalar(Stretch(line, at, last))
BoundFrom(line, tokens, k, at) ==
  [n \in NamesFrom(tokens, k) |-> ValueFrom(line, tokens, k, at, n)]

\* A name is bound iff it occurs.
LEMMA NamesOccur ==
  ASSUME NEW tokens, NEW k, NEW n
  PROVE  n \in NamesFrom(tokens, k) <=> OccursFrom(tokens, k, n) # {}
BY DEF NamesFrom, OccursFrom

\* Occurrences are places of the template.
LEMMA OccursWithin ==
  ASSUME NEW tokens, Len(tokens) \in Nat, NEW k \in 1 .. Len(tokens) + 1, NEW n
  PROVE  /\ OccursFrom(tokens, k, n) \in SUBSET (0 .. Len(tokens))
         /\ ArraysFrom(tokens, k, n) \in SUBSET (0 .. Len(tokens))
         /\ ArraysFrom(tokens, k, n) \subseteq OccursFrom(tokens, k, n)
         /\ \A j \in OccursFrom(tokens, k, n) : j \in k .. Len(tokens)
<1>1. \A j \in k .. Len(tokens) : j \in 0 .. Len(tokens)
  OBVIOUS
<1>2. QED
  BY <1>1 DEF OccursFrom, ArraysFrom

\* The token in front adds itself, or nothing.
IsVar(tokens, k, n) == tokens[k].kind = "var" /\ tokens[k].name = n

LEMMA OccursStep ==
  ASSUME NEW tokens, Len(tokens) \in Nat, NEW k \in 1 .. Len(tokens), NEW n
  PROVE  /\ IsVar(tokens, k, n) =>
              OccursFrom(tokens, k, n) = {k} \cup OccursFrom(tokens, k + 1, n)
         /\ ~IsVar(tokens, k, n) =>
              OccursFrom(tokens, k, n) = OccursFrom(tokens, k + 1, n)
<1>1. \A j : j \in k .. Len(tokens) <=> j = k \/ j \in k + 1 .. Len(tokens)
  OBVIOUS
<1>2. QED
  BY <1>1 DEF OccursFrom, IsVar

LEMMA ArraysStep ==
  ASSUME NEW tokens, Len(tokens) \in Nat, NEW k \in 1 .. Len(tokens), NEW n
  PROVE  /\ IsVar(tokens, k, n) /\ tokens[k].array =>
              ArraysFrom(tokens, k, n) = {k} \cup ArraysFrom(tokens, k + 1, n)
         /\ ~(IsVar(tokens, k, n) /\ tokens[k].array) =>
              ArraysFrom(tokens, k, n) = ArraysFrom(tokens, k + 1, n)
<1>1. \A j : j \in k .. Len(tokens) <=> j = k \/ j \in k + 1 .. Len(tokens)
  OBVIOUS
<1>2. QED
  BY <1>1 DEF OccursFrom, ArraysFrom, IsVar

\* Elements in front do not change the maximum.
LEMMA SameMax ==
  ASSUME NEW b \in Nat, NEW S \in SUBSET (0 .. b), NEW k \in 0 .. b,
         \A y \in S : k < y, S # {}
  PROVE  Max({k} \cup S) = Max(S)
<1>1. {k} \cup S \in SUBSET (0 .. b) /\ {k} \cup S # {}
  OBVIOUS
<1>2. Max({k} \cup S) \in {k} \cup S /\ \A y \in {k} \cup S : Max({k} \cup S) >= y
  BY <1>1, MaxIsGreatest
<1>3. Max(S) \in S /\ \A y \in S : Max(S) >= y
  BY MaxIsGreatest
<1> DEFINE p == Max({k} \cup S)
           q == Max(S)
<1> HIDE DEF p, q
<1>4. p \in {k} \cup S /\ (\A y \in {k} \cup S : p >= y) /\ q \in S /\ \A y \in S : q >= y
  BY <1>2, <1>3 DEF p, q
<1>5. p \in Nat /\ q \in Nat /\ k < q /\ p >= q
  BY <1>4
<1>6. p # k
  BY <1>5
<1>7. q >= p
  BY <1>4, <1>6
<1>8. p = q
  BY <1>5, <1>7
<1>9. QED
  BY <1>8 DEF p, q

\* The maximum of one element.
LEMMA MaxOfOne ==
  ASSUME NEW k \in Nat
  PROVE  Max({k}) = k
BY DEF Max

\* The stretches of the old tokens stay, the new token has its own.
LEMMA StretchStays ==
  ASSUME NEW line, NEW tokens, Len(tokens) \in Nat, NEW k \in 1 .. Len(tokens), NEW i, NEW at,
         NEW new, new = InFront(tokens, k, i, at)
  PROVE  \A j \in k + 1 .. Len(tokens) : Stretch(line, new, j) = Stretch(line, at, j)
<1>1. \A j \in k .. Len(tokens) : j \in k - 1 .. Len(tokens) /\ j # k - 1
  OBVIOUS
<1>2. new[k - 1] = i /\ \A j \in k .. Len(tokens) : new[j] = at[j]
  BY <1>1 DEF InFront
<1>3. \A j \in k + 1 .. Len(tokens) : j \in k .. Len(tokens) /\ j - 1 \in k .. Len(tokens)
  OBVIOUS
<1>4. QED
  BY <1>2, <1>3 DEF Stretch

\* What lies between i and the end of the new token, and is its stretch.
PieceOf(line, at, i, k) == SubSeq(line, i + 1, at[k])

LEMMA NewStretch ==
  ASSUME NEW line, NEW tokens, Len(tokens) \in Nat, NEW k \in 1 .. Len(tokens), NEW i, NEW at,
         NEW new, new = InFront(tokens, k, i, at)
  PROVE  Stretch(line, new, k) = PieceOf(line, at, i, k)
<1>1. /\ k - 1 \in k - 1 .. Len(tokens) /\ k \in k - 1 .. Len(tokens) /\ k # k - 1
  OBVIOUS
<1>2. new[k - 1] = i /\ new[k] = at[k]
  BY <1>1 DEF InFront
<1>3. QED
  BY <1>2 DEF Stretch, PieceOf

\* So a name that the new token does not add to keeps its value.
LEMMA ValueStays ==
  ASSUME NEW line, NEW tokens, Len(tokens) \in Nat, NEW k \in 1 .. Len(tokens),
         NEW i, NEW at, NEW n, OccursFrom(tokens, k + 1, n) # {},
         tokens[Max(OccursFrom(tokens, k + 1, n))].array =>
            ArraysFrom(tokens, k, n) = ArraysFrom(tokens, k + 1, n)
  PROVE  ValueFrom(line, tokens, k, InFront(tokens, k, i, at), n)
           = ValueFrom(line, tokens, k + 1, at, n)
<1> DEFINE new == InFront(tokens, k, i, at)
           O == OccursFrom(tokens, k + 1, n)
           A == ArraysFrom(tokens, k + 1, n)
           b == Len(tokens)
<1>1. /\ O \in SUBSET (0 .. b) /\ A \in SUBSET (0 .. b) /\ A \subseteq O
      /\ \A j \in O : j \in k + 1 .. b
  <2>1. k + 1 \in 1 .. Len(tokens) + 1
    OBVIOUS
  <2>2. QED
    BY <2>1, OccursWithin
<1>2. OccursFrom(tokens, k, n) = O \/ OccursFrom(tokens, k, n) = {k} \cup O
  <2>1. \/ OccursFrom(tokens, k, n) = OccursFrom(tokens, k + 1, n)
        \/ OccursFrom(tokens, k, n) = {k} \cup OccursFrom(tokens, k + 1, n)
    BY OccursStep
  <2>2. QED
    BY <2>1
<1>3. \A j \in k + 1 .. b : Stretch(line, new, j) = Stretch(line, at, j)
  <2>1. \A u : u = InFront(tokens, k, i, at) =>
          \A j \in k + 1 .. Len(tokens) : Stretch(line, u, j) = Stretch(line, at, j)
    BY StretchStays
  <2>2. QED
    BY <2>1
<1>4. b \in Nat /\ k \in 0 .. b /\ \A j \in k + 1 .. b : k < j
  OBVIOUS
<1> HIDE DEF O, A, b, new
<1>5. Max(OccursFrom(tokens, k, n)) = Max(O)
  <2>1. O # {} /\ \A y \in O : k < y
    BY <1>1, <1>4 DEF O
  <2>2. Max({k} \cup O) = Max(O)
    BY <1>1, <1>4, <2>1, SameMax
  <2>3. QED
    BY <1>2, <2>2
<1>6. Max(O) \in k + 1 .. b
  <2>1. O # {}
    BY DEF O
  <2>2. Max(O) \in O
    BY <1>1, <1>4, <2>1, MaxIsGreatest
  <2>3. QED
    BY <1>1, <2>2
<1>7. Stretch(line, new, Max(O)) = Stretch(line, at, Max(O))
  BY <1>3, <1>6
<1>8. Stretches(line, new, A) = Stretches(line, at, A)
  <2>1. \A l \in 1 .. Cardinality(A) : Nth(A, l) \in A
    BY <1>1, <1>4, NthHasRank
  <2>2. \A l \in 1 .. Cardinality(A) :
          Stretch(line, new, Nth(A, l)) = Stretch(line, at, Nth(A, l))
    BY <1>1, <1>3, <2>1
  <2>3. QED
    BY <2>2 DEF Stretches
<1>9. tokens[Max(O)].array => ArraysFrom(tokens, k, n) = A
  BY DEF O, A
<1>10. ValueFrom(line, tokens, k, new, n) = ValueFrom(line, tokens, k + 1, at, n)
  <2>1. ValueFrom(line, tokens, k, new, n) =
          IF tokens[Max(O)].array
            THEN Array(Stretches(line, new, ArraysFrom(tokens, k, n)))
            ELSE Scalar(Stretch(line, new, Max(O)))
    BY <1>5 DEF ValueFrom
  <2>2. ValueFrom(line, tokens, k + 1, at, n) =
          IF tokens[Max(O)].array THEN Array(Stretches(line, at, A))
                                  ELSE Scalar(Stretch(line, at, Max(O)))
    BY DEF ValueFrom, O, A
  <2>3. QED
    BY <1>7, <1>8, <1>9, <2>1, <2>2
<1>11. QED
  BY <1>10 DEF new

\* The stretches of a set with a new least element: one more, in front.
Grown(line, at, i, k, A) == <<SubSeq(line, i + 1, at[k])>> \o Stretches(line, at, A)

\* Nth numbers the new element first.
LEMMA StretchesGrow ==
  ASSUME NEW line, NEW tokens, Len(tokens) \in Nat, NEW k \in 1 .. Len(tokens), NEW i, NEW at
  PROVE  LET new == InFront(tokens, k, i, at) IN
         \A A \in SUBSET (k + 1 .. Len(tokens)) : \A U : U = {k} \cup A =>
           Stretches(line, new, U) = Grown(line, at, i, k, A)
<1> SUFFICES ASSUME NEW A \in SUBSET (k + 1 .. Len(tokens))
             PROVE  Stretches(line, InFront(tokens, k, i, at), {k} \cup A)
                      = <<SubSeq(line, i + 1, at[k])>> \o Stretches(line, at, A)
  BY DEF Grown
<1> DEFINE new == InFront(tokens, k, i, at)
           b == Len(tokens)
           piece == SubSeq(line, i + 1, at[k])
           T == {Stretch(line, new, j) : j \in k .. b}
           s == Stretches(line, at, A)
           c == Cardinality(A)
           all == Stretches(line, new, {k} \cup A)
<1>1. /\ b \in Nat /\ A \in SUBSET (0 .. b) /\ k \in 0 .. b /\ \A y \in A : k < y
      /\ A \subseteq k + 1 .. b /\ k + 1 .. b \subseteq k .. b /\ k \in k .. b
  OBVIOUS
<1>2. /\ \A j \in k + 1 .. b : Stretch(line, new, j) = Stretch(line, at, j)
      /\ Stretch(line, new, k) = piece
  <2>1. \A u : u = InFront(tokens, k, i, at) =>
          \A j \in k + 1 .. Len(tokens) : Stretch(line, u, j) = Stretch(line, at, j)
    BY StretchStays
  <2>2. \A u : u = InFront(tokens, k, i, at) =>
          Stretch(line, u, k) = PieceOf(line, at, i, k)
    BY NewStretch
  <2>3. QED
    BY <2>1, <2>2 DEF PieceOf
<1> HIDE DEF b, piece, new
<1>3. c \in Nat
  BY <1>1, FiniteBelow
<1>4. /\ Cardinality({k} \cup A) = c + 1
      /\ \A j \in 1 .. c : Nth({k} \cup A, j + 1) = Nth(A, j)
      /\ Nth({k} \cup A, 1) = k
  BY <1>1, NthPrepend
<1>5. \A l \in 1 .. c : Nth(A, l) \in A
  BY <1>1, NthHasRank
<1> HIDE DEF c
<1>6. \A l \in 1 .. c : /\ Nth(A, l) \in k .. b
                        /\ Stretch(line, new, Nth(A, l)) = Stretch(line, at, Nth(A, l))
  BY <1>1, <1>2, <1>5
<1>7. s = [l \in 1 .. c |-> Stretch(line, at, Nth(A, l))]
  BY DEF Stretches, c
<1>8. all = [l \in 1 .. c + 1 |-> Stretch(line, new, Nth({k} \cup A, l))]
  BY <1>4 DEF Stretches
<1> HIDE DEF s, all
<1>9. piece \in T
  BY <1>1, <1>2
<1>10. \A l \in 1 .. c : Stretch(line, at, Nth(A, l)) \in T
  BY <1>6
<1> HIDE DEF T
<1>11. s \in [1 .. c -> T]
  BY <1>7, <1>10
<1>12. s \in Seq(T) /\ Len(s) = c
  BY <1>3, <1>11
<1>13. <<piece>> \in Seq(T) /\ Len(<<piece>>) = 1 /\ <<piece>>[1] = piece
  BY <1>9
<1> DEFINE t == <<piece>> \o s
<1>14. /\ t \in Seq(T) /\ Len(t) = 1 + c
       /\ \A l \in 1 .. 1 + c : t[l] = IF l <= 1 THEN <<piece>>[l] ELSE s[l - 1]
  BY <1>12, <1>13, ConcatProperties
<1> HIDE DEF t
<1>15. \A l \in 1 .. c + 1 : all[l] = t[l]
  <2> SUFFICES ASSUME NEW l \in 1 .. c + 1 PROVE all[l] = t[l]
    OBVIOUS
  <2>1. CASE l = 1
    BY <1>2, <1>3, <1>4, <1>8, <1>13, <1>14, <2>1
  <2>2. CASE l # 1
    <3> DEFINE m == l - 1
    <3>1. m \in 1 .. c /\ l = m + 1 /\ l \in 1 .. 1 + c /\ ~(l <= 1)
      BY <1>3, <2>2
    <3>2. t[l] = s[m]
      BY <1>14, <3>1
    <3> HIDE DEF m
    <3>3. Nth({k} \cup A, l) = Nth(A, m)
      BY <1>4, <3>1
    <3>4. all[l] = Stretch(line, new, Nth(A, m))
      BY <1>8, <3>3
    <3>5. QED
      BY <1>6, <1>7, <3>1, <3>2, <3>4
  <2>3. QED
    BY <2>1, <2>2
<1>16. all \in [1 .. c + 1 -> T]
  <2>1. 1 .. c + 1 = 1 .. Len(t)
    BY <1>3, <1>14
  <2>2. \A l \in 1 .. c + 1 : t[l] \in T
    BY <1>14, <2>1, ElementOfSeq
  <2>3. QED
    BY <1>8, <1>15, <2>2
<1>17. all \in Seq(T) /\ Len(all) = c + 1
  BY <1>3, <1>16
<1>18. all = t
  BY <1>3, <1>14, <1>15, <1>17, SeqEqual
<1>19. QED
  BY <1>18 DEF all, t, s, piece, new

\* The right-most occurrence is the same from every place left of it.
LEMMA MaxFromIsMax ==
  ASSUME NEW tokens \in Seq(Token), NEW k \in 1 .. Len(tokens) + 1, NEW n,
         OccursFrom(tokens, k, n) # {}
  PROVE  Max(OccursFrom(tokens, k, n)) = Max(Occurrences(tokens, n))
<1> DEFINE b == Len(tokens)
           S == OccursFrom(tokens, k, n)
           U == Occurrences(tokens, n)
           p == Max(S)
           q == Max(U)
<1>1. b \in Nat /\ DOMAIN tokens = 1 .. b
  OBVIOUS
<1>2. \A j : j \in k .. b <=> j \in 1 .. b /\ j >= k
  BY <1>1
<1>3. /\ S \in SUBSET (0 .. b) /\ U \in SUBSET (0 .. b) /\ S \subseteq U /\ S # {}
      /\ \A j \in U : j >= k => j \in S
      /\ \A j \in S : j >= k
  BY <1>1, <1>2 DEF OccursFrom, Occurrences
<1>4. \A j \in U : j \in Nat
  BY <1>3
<1> HIDE DEF S, U, b
<1>5. p \in S /\ \A y \in S : p >= y
  BY <1>1, <1>3, MaxIsGreatest
<1>6. q \in U /\ \A y \in U : q >= y
  BY <1>1, <1>3, MaxIsGreatest
<1> HIDE DEF p, q
<1>7. p \in U /\ p >= k /\ p \in Nat /\ q \in Nat /\ k \in Nat
  <2>1. k \in Nat
    BY <1>1
  <2>2. QED
    BY <1>3, <1>4, <1>5, <1>6, <2>1
<1>8. q >= p
  BY <1>6, <1>7
<1>9. p >= q
  BY <1>3, <1>5, <1>6, <1>7, <1>8
<1>10. p = q
  BY <1>7, <1>8, <1>9
<1>11. QED
  BY <1>10 DEF p, q, S, U

\* What Bind makes of the bindings right of a variable are the bindings from
\* the variable on; it fails only on a name of both kinds.
LEMMA BindStep ==
  ASSUME NEW line, NEW tokens \in Seq(Token), NEW k \in 1 .. Len(tokens),
         tokens[k].kind = "var", NEW i, NEW at
  PROVE  LET result == Bind(tokens[k], SubSeq(line, i + 1, at[k]),
                            BoundFrom(line, tokens, k + 1, at))
         IN \/ result = Match(BoundFrom(line, tokens, k, InFront(tokens, k, i, at)))
            \/ result = Failure /\ MixesKinds(tokens)
<1> DEFINE new == InFront(tokens, k, i, at)
           token == tokens[k]
           x == token.name
           piece == SubSeq(line, i + 1, at[k])
           old == BoundFrom(line, tokens, k + 1, at)
           all == BoundFrom(line, tokens, k, new)
           O == OccursFrom(tokens, k + 1, x)
           A == ArraysFrom(tokens, k + 1, x)
           V(y) == ValueFrom(line, tokens, k, new, y)
           W(y) == ValueFrom(line, tokens, k + 1, at, y)
           N == NamesFrom(tokens, k + 1)
           last == Max(O)
<1>1. Len(tokens) \in Nat /\ k + 1 \in 1 .. Len(tokens) + 1 /\ k \in Nat
  OBVIOUS
<1>2. token \in Token
  BY ElementOfSeq
<1>3. token.array \in BOOLEAN
  BY <1>2 DEF Token
<1>4. \A y : y # x => /\ OccursFrom(tokens, k, y) = OccursFrom(tokens, k + 1, y)
                      /\ ArraysFrom(tokens, k, y) = ArraysFrom(tokens, k + 1, y)
  <2> SUFFICES ASSUME NEW y, y # x
               PROVE  /\ OccursFrom(tokens, k, y) = OccursFrom(tokens, k + 1, y)
                      /\ ArraysFrom(tokens, k, y) = ArraysFrom(tokens, k + 1, y)
    OBVIOUS
  <2>1. ~IsVar(tokens, k, y)
    BY DEF IsVar
  <2>2. QED
    BY <1>1, <2>1, OccursStep, ArraysStep
<1>5. /\ OccursFrom(tokens, k, x) = {k} \cup O
      /\ ArraysFrom(tokens, k, x) = (IF token.array THEN {k} ELSE {}) \cup A
  <2>1. IsVar(tokens, k, x)
    BY DEF IsVar
  <2>2. OccursFrom(tokens, k, x) = {k} \cup O
    BY <1>1, <2>1, OccursStep
  <2>3. /\ token.array => ArraysFrom(tokens, k, x) = {k} \cup A
        /\ ~token.array => ArraysFrom(tokens, k, x) = A
    BY <1>1, <2>1, ArraysStep
  <2>4. QED
    BY <2>2, <2>3
<1>6. \A y \in N : OccursFrom(tokens, k + 1, y) # {}
  BY NamesOccur
<1>7. \A y \in N : y # x => V(y) = W(y)
  BY <1>1, <1>4, <1>6, ValueStays
<1>8. NamesFrom(tokens, k) = N \cup {x}
  <2>1. \A j : j \in k .. Len(tokens) <=> j = k \/ j \in k + 1 .. Len(tokens)
    BY <1>1
  <2>2. QED
    BY <2>1 DEF NamesFrom
<1>9. x \in N <=> O # {}
  BY NamesOccur
<1>10. old = [y \in N |-> W(y)] /\ all = [y \in N \cup {x} |-> V(y)]
  BY <1>8 DEF BoundFrom
<1>11. /\ O \in SUBSET (0 .. Len(tokens)) /\ A \in SUBSET (0 .. Len(tokens)) /\ A \subseteq O
       /\ \A j \in O : j \in k + 1 .. Len(tokens)
  BY <1>1, OccursWithin
<1>12. Stretch(line, new, k) = piece
  <2>1. \A u : u = InFront(tokens, k, i, at) =>
          Stretch(line, u, k) = PieceOf(line, at, i, k)
    BY <1>1, NewStretch
  <2>2. QED
    BY <2>1 DEF PieceOf
<1>13. A \in SUBSET (k + 1 .. Len(tokens)) /\ k \in 0 .. Len(tokens)
  BY <1>1, <1>11
<1>14. Stretches(line, new, {k} \cup A) = <<piece>> \o Stretches(line, at, A)
  <2>1. Len(tokens) \in Nat
    OBVIOUS
  <2>2. \A B \in SUBSET (k + 1 .. Len(tokens)) : \A U : U = {k} \cup B =>
          Stretches(line, new, U) = Grown(line, at, i, k, B)
    BY <2>1, StretchesGrow
  <2> HIDE DEF A, new, piece
  <2>3. Stretches(line, new, {k} \cup A) = Grown(line, at, i, k, A)
    BY <1>13, <2>2
  <2>4. QED
    BY <2>3 DEF Grown, piece
<1>15. \A v : /\ Array(v).array /\ Array(v).values = v
              /\ ~Scalar(v).array
  BY DEF Array, Scalar
<1>16. \A v : V(x) = v => PutOne(old, x, v) = all
  <2> SUFFICES ASSUME NEW v, V(x) = v PROVE PutOne(old, x, v) = all
    OBVIOUS
  <2> HIDE DEF V, W, N, x, old, all
  <2>1. DOMAIN old = N
    BY <1>10
  <2>2. PutOne(old, x, v) = [y \in N \cup {x} |-> IF y = x THEN v ELSE old[y]]
    BY <2>1 DEF PutOne, Put
  <2>3. \A y \in N \cup {x} : (IF y = x THEN v ELSE old[y]) = V(y)
    BY <1>7, <1>10
  <2>4. QED
    BY <1>10, <2>2, <2>3
<1>17. V(x) = IF tokens[Max({k} \cup O)].array
                THEN Array(Stretches(line, new, (IF token.array THEN {k} ELSE {}) \cup A))
                ELSE Scalar(Stretch(line, new, Max({k} \cup O)))
  BY <1>5 DEF ValueFrom
<1>18. ASSUME O # {} PROVE Max({k} \cup O) = last /\ last \in O
  <2>1. \A y \in O : k < y
    BY <1>1, <1>11
  <2>2. k \in 0 .. Len(tokens)
    BY <1>1
  <2> HIDE DEF O
  <2>3. QED
    BY <1>1, <1>11, <1>18, <2>1, <2>2, SameMax, MaxIsGreatest
<1>19. W(x) = IF tokens[last].array THEN Array(Stretches(line, at, A))
                                    ELSE Scalar(Stretch(line, at, last))
  BY DEF ValueFrom
<1>20. ASSUME O = {} PROVE Max({k} \cup O) = k /\ A = {}
  BY <1>1, <1>11, <1>20, MaxOfOne
<1>21. x \in N => old[x] = W(x)
  BY <1>10
<1>22. DOMAIN old = N
  BY <1>10
<1>23. ASSUME O # {}, ~token.array PROVE V(x) = W(x)
  <2>1. ArraysFrom(tokens, k, x) = A
    BY <1>5, <1>23
  <2>2. QED
    BY <1>1, <1>23, <2>1, ValueStays
<1>24. ASSUME O # {}, ~token.array PROVE all = old
  <2>1. x \in N
    BY <1>9, <1>24
  <2>2. \A y \in N : V(y) = W(y)
    BY <1>7, <1>23, <1>24
  <2> HIDE DEF V, W, N, x, old, all
  <2>3. N \cup {x} = N
    BY <2>1
  <2>4. QED
    BY <1>10, <2>2, <2>3
<1> DEFINE result == Bind(token, piece, old)
<1> HIDE DEF V, W, N, old, all, O, A, last, new, piece
<1>25. CASE O # {} /\ ~token.array
  <2>1. x \in DOMAIN old
    BY <1>9, <1>22, <1>25
  <2>2. result = Match(old)
    BY <1>25, <2>1 DEF Bind
  <2>3. result = Match(all)
    BY <1>24, <1>25, <2>2
  <2>4. QED
    BY <2>3 DEF all, new, old, piece
<1>26. CASE O = {} /\ ~token.array
  <2>1. x \notin DOMAIN old
    BY <1>9, <1>22, <1>26
  <2>2. result = Match(PutOne(old, x, Scalar(piece)))
    BY <1>26, <2>1 DEF Bind
  <2>3. V(x) = Scalar(piece)
    BY <1>12, <1>17, <1>20, <1>26
  <2>4. result = Match(all)
    BY <1>16, <2>2, <2>3
  <2>5. QED
    BY <2>4 DEF all, new, old, piece
<1>27. CASE O = {} /\ token.array
  <2>1. x \notin DOMAIN old
    BY <1>9, <1>22, <1>27
  <2>2. result = Match(PutOne(old, x, Array(<<piece>>)))
    BY <1>27, <2>1 DEF Bind
  <2>3. Stretches(line, at, {}) = <<>>
    <3>1. Cardinality({}) = 0
      BY FS_EmptySet
    <3>2. 1 .. Cardinality({}) = {}
      BY <3>1
    <3>3. QED
      BY <3>2 DEF Stretches
  <2>4. Stretches(line, new, {k} \cup A) = <<piece>>
    <3>1. <<piece>> \o <<>> = <<piece>>
      OBVIOUS
    <3>2. QED
      BY <1>14, <1>20, <1>27, <2>3, <3>1
  <2>5. V(x) = Array(<<piece>>)
    BY <1>17, <1>20, <1>27, <2>4
  <2>6. result = Match(all)
    BY <1>16, <2>2, <2>5
  <2>7. QED
    BY <2>6 DEF all, new, old, piece
<1>28. CASE O # {} /\ token.array /\ tokens[last].array
  <2>1. x \in DOMAIN old
    BY <1>9, <1>22, <1>28
  <2>2. W(x) = Array(Stretches(line, at, A))
    BY <1>19, <1>28
  <2>3. old[x] = W(x)
    BY <1>21, <1>22, <2>1
  <2>4. old[x].array /\ old[x].values = Stretches(line, at, A)
    BY <1>15, <2>2, <2>3
  <2>5. result = Match(PutOne(old, x, Array(<<piece>> \o old[x].values)))
    BY <1>28, <2>1, <2>4 DEF Bind
  <2>6. V(x) = Array(Stretches(line, new, {k} \cup A))
    BY <1>17, <1>18, <1>28
  <2>7. V(x) = Array(<<piece>> \o old[x].values)
    BY <1>14, <2>4, <2>6
  <2>8. result = Match(all)
    BY <1>16, <2>5, <2>7
  <2>9. QED
    BY <2>8 DEF all, new, old, piece
<1>29. CASE O # {} /\ token.array /\ ~tokens[last].array
  <2>1. x \in DOMAIN old
    BY <1>9, <1>22, <1>29
  <2>2. ~W(x).array
    BY <1>15, <1>19, <1>29
  <2>3. ~old[x].array
    BY <1>21, <1>22, <2>1, <2>2
  <2>4. result = Failure
    BY <1>29, <2>1, <2>3 DEF Bind
  <2>5. last = Max(Occurrences(tokens, x))
    BY <1>1, <1>29, MaxFromIsMax DEF last, O
  <2>6. MixesKinds(tokens)
    <3>1. k \in DOMAIN tokens
      OBVIOUS
    <3>2. k \in Occurrences(tokens, x)
      BY <3>1 DEF Occurrences
    <3>3. x \in NamesOf(tokens)
      BY <3>1 DEF NamesOf
    <3>4. ~Rightmost(tokens, x).array
      BY <1>29, <2>5 DEF Rightmost
    <3>5. QED
      BY <1>29, <3>2, <3>3, <3>4 DEF MixesKinds
  <2>7. QED
    BY <2>4, <2>6 DEF old, piece
<1>30. QED
  BY <1>25, <1>26, <1>27, <1>28, <1>29

-----------------------------------------------------------------------------
(* The search: what a row has at an offset is the least split of the rest  *)
(* of the line, or tells that there is none, or an error with its cause.   *)

\* The tokens from k to before m can follow each other from offset i on.
Partial(line, tokens, k, i, m, at) ==
  /\ at \in [k - 1 .. m - 1 -> 0 .. Len(line)]
  /\ at[k - 1] = i
  /\ \A j \in k .. m - 1 : TokenFits(line, tokens[j], at[j - 1], at[j])
RunsOver(line, tokens, k, i) ==
  \E m \in k .. Len(tokens) : \E at :
    /\ tokens[m].kind = "var"
    /\ MinLen(tokens[m]) <= tokens[m].max
    /\ Partial(line, tokens, k, i, m, at)
    /\ at[m - 1] < Len(line)
    /\ at[m - 1] + tokens[m].max > Len(line)
Explained(line, tokens, k, i) == RunsOver(line, tokens, k, i) \/ MixesKinds(tokens)
Finds(line, tokens, k, i, res) ==
  \E at : /\ LeastChain(line, tokens, k, i, at)
          /\ res = Match(BoundFrom(line, tokens, k, at))
FindsNone(line, tokens, k, i, res) ==
  res = Mismatch /\ ~\E at : Chain(line, tokens, k, i, at)
Sound(line, tokens, k, i, res) ==
  \/ Finds(line, tokens, k, i, res)
  \/ FindsNone(line, tokens, k, i, res)
  \/ res = Failure /\ Explained(line, tokens, k, i)

\* The three outcomes differ.
LEMMA Statuses ==
  /\ \A v : Match(v).status = "match" /\ Match(v).vars = v
  /\ Mismatch.status = "none" /\ Failure.status = "error"
BY DEF Match, Mismatch, Failure

\* What a status tells of a sound result.
LEMMA SoundStatus ==
  ASSUME NEW line, NEW tokens, NEW k, NEW i, NEW res, Sound(line, tokens, k, i, res)
  PROVE  /\ res.status = "none" => res = Mismatch /\ ~\E at : Chain(line, tokens, k, i, at)
         /\ res.status = "error" => res = Failure /\ Explained(line, tokens, k, i)
         /\ res.status \notin {"none", "error"} =>
              \E at : /\ LeastChain(line, tokens, k, i, at)
                      /\ res = Match(BoundFrom(line, tokens, k, at))
BY Statuses DEF Sound, Finds, FindsNone

\* The cause of an error is still one from further left.
LEMMA ExplainedCons ==
  ASSUME NEW line, NEW tokens, Len(line) \in Nat, Len(tokens) \in Nat,
         NEW k \in 1 .. Len(tokens), NEW i \in 0 .. Len(line), NEW j \in 0 .. Len(line),
         TokenFits(line, tokens[k], i, j), Explained(line, tokens, k + 1, j)
  PROVE  Explained(line, tokens, k, i)
<1>1. CASE MixesKinds(tokens)
  BY <1>1 DEF Explained
<1>2. CASE RunsOver(line, tokens, k + 1, j)
  <2>1. PICK m \in k + 1 .. Len(tokens) : \E at :
               /\ tokens[m].kind = "var"
               /\ MinLen(tokens[m]) <= tokens[m].max
               /\ Partial(line, tokens, k + 1, j, m, at)
               /\ at[m - 1] < Len(line)
               /\ at[m - 1] + tokens[m].max > Len(line)
    BY <1>2 DEF RunsOver
  <2>2. PICK at : /\ tokens[m].kind = "var"
                  /\ MinLen(tokens[m]) <= tokens[m].max
                  /\ Partial(line, tokens, k + 1, j, m, at)
                  /\ at[m - 1] < Len(line)
                  /\ at[m - 1] + tokens[m].max > Len(line)
    BY <2>1
  <2> DEFINE new == [l \in k - 1 .. m - 1 |-> IF l = k - 1 THEN i ELSE at[l]]
  <2>3. /\ at \in [k .. m - 1 -> 0 .. Len(line)] /\ at[k] = j
        /\ \A l \in k + 1 .. m - 1 : TokenFits(line, tokens[l], at[l - 1], at[l])
    BY <2>2 DEF Partial
  <2>4. \A l \in k - 1 .. m - 1 : l # k - 1 => l \in k .. m - 1
    OBVIOUS
  <2>5. new \in [k - 1 .. m - 1 -> 0 .. Len(line)]
    BY <2>3, <2>4
  <2>6. \A l \in k .. m - 1 : l \in k - 1 .. m - 1 /\ l # k - 1
    OBVIOUS
  <2>7. new[k - 1] = i /\ \A l \in k .. m - 1 : new[l] = at[l]
    BY <2>6
  <2> HIDE DEF new
  <2>8. \A l \in k .. m - 1 : TokenFits(line, tokens[l], new[l - 1], new[l])
    <3> SUFFICES ASSUME NEW l \in k .. m - 1
                 PROVE  TokenFits(line, tokens[l], new[l - 1], new[l])
      OBVIOUS
    <3>1. CASE l = k
      BY <2>3, <2>7, <3>1
    <3>2. CASE l # k
      <4>1. l \in k + 1 .. m - 1 /\ l - 1 \in k .. m - 1
        BY <3>2
      <4>2. QED
        BY <2>3, <2>7, <4>1
    <3>3. QED
      BY <3>1, <3>2
  <2>9. m - 1 \in k .. m - 1 /\ m \in k .. Len(tokens)
    OBVIOUS
  <2>10. Partial(line, tokens, k, i, m, new)
    BY <2>5, <2>7, <2>8 DEF Partial
  <2>11. new[m - 1] = at[m - 1]
    BY <2>7, <2>9
  <2>12. RunsOver(line, tokens, k, i)
    BY <2>2, <2>9, <2>10, <2>11 DEF RunsOver
  <2>13. QED
    BY <2>12 DEF Explained
<1>3. QED
  BY <1>1, <1>2 DEF Explained

\* Behind the last token: only the empty rest can be split.
LEMMA EndStep ==
  ASSUME NEW line, NEW tokens, Len(line) \in Nat, Len(tokens) \in Nat, NEW i \in 0 .. Len(line)
  PROVE  Sound(line, tokens, Len(tokens) + 1, i,
               IF i = Len(line) THEN Match(NoVars) ELSE Mismatch)
<1> DEFINE n == Len(tokens)
           k == n + 1
<1>1. k - 1 = n /\ k - 1 .. n = {n} /\ k .. n = {}
  OBVIOUS
<1>2. CASE i = Len(line)
  <2> DEFINE at == [l \in {n} |-> i]
  <2>1. Chain(line, tokens, k, i, at)
    BY <1>1, <1>2 DEF Chain, Offsets
  <2>2. ASSUME NEW b, Chain(line, tokens, k, i, b) PROVE b = at
    BY <1>1, <2>2 DEF Chain, Offsets
  <2>3. LeastChain(line, tokens, k, i, at)
    BY <2>1, <2>2 DEF LeastChain
  <2>4. NamesFrom(tokens, k) = {}
    BY <1>1 DEF NamesFrom
  <2>5. BoundFrom(line, tokens, k, at) = NoVars
    BY <2>4 DEF BoundFrom, NoVars
  <2> HIDE DEF at, k
  <2>6. Finds(line, tokens, k, i, Match(NoVars))
    BY <2>3, <2>5 DEF Finds
  <2>7. QED
    BY <1>2, <2>6 DEF Sound, k
<1>3. CASE i # Len(line)
  <2>1. ASSUME NEW b, Chain(line, tokens, k, i, b) PROVE FALSE
    BY <1>1, <1>3, <2>1 DEF Chain
  <2> HIDE DEF k
  <2>2. FindsNone(line, tokens, k, i, Mismatch)
    BY <2>1 DEF FindsNone
  <2>3. QED
    BY <1>3, <2>2 DEF Sound, k
<1>4. QED
  BY <1>2, <1>3

\* At the end of the line no token can start.
LEMMA LastStep ==
  ASSUME NEW line, NEW tokens, Len(line) \in Nat, Len(tokens) \in Nat,
         NEW k \in 1 .. Len(tokens)
  PROVE  Sound(line, tokens, k, Len(line), Mismatch)
<1>1. ASSUME NEW b, Chain(line, tokens, k, Len(line), b) PROVE FALSE
  <2>1. TokenFits(line, tokens[k], b[k - 1], b[k]) /\ b[k - 1] = Len(line)
    BY <1>1 DEF Chain
  <2>2. QED
    BY <2>1 DEF TokenFits
<1>2. QED
  BY <1>1 DEF Sound, FindsNone

\* A text decides where the rest of the line starts.
LEMMA TextStep ==
  ASSUME NEW line \in Characters, NEW tokens \in Seq(Token), NEW k \in 1 .. Len(tokens),
         NEW i \in 0 .. Len(line), i < Len(line), tokens[k].kind = "text",
         NEW after, \A j \in 0 .. Len(line) : Sound(line, tokens, k + 1, j, after[j])
  PROVE  Sound(line, tokens, k, i, MatchToken(line, tokens[k], after, i))
<1> DEFINE token == tokens[k]
           j == i + Len(token.text)
           is == IsPrefix(token.text, SubSeq(line, i + 1, Len(line)))
           res == MatchToken(line, token, after, i)
           n == Len(tokens)
<1>1. Len(line) \in Nat /\ n \in Nat /\ k + 1 \in 1 .. n + 1
  BY DEF Characters
<1>2. token \in Token
  BY ElementOfSeq
<1>3. /\ is => j \in 0 .. Len(line) /\ TokenFits(line, token, i, j)
      /\ \A m \in 0 .. Len(line) : TokenFits(line, token, i, m) => is /\ m = j
  BY <1>2, TextFits
<1>4. res = IF is THEN after[j] ELSE Mismatch
  BY DEF MatchToken
<1>5. \A at : Chain(line, tokens, k, i, at) =>
         /\ TokenFits(line, token, i, at[k]) /\ at[k] \in 0 .. Len(line)
         /\ Chain(line, tokens, k + 1, at[k], Behind(tokens, k, at))
  BY <1>1, ChainRest
<1> HIDE DEF token, is, j, res
<1>6. CASE ~is
  <2>1. ASSUME NEW at, Chain(line, tokens, k, i, at) PROVE FALSE
    BY <1>3, <1>5, <1>6, <2>1
  <2>2. FindsNone(line, tokens, k, i, res)
    BY <1>4, <1>6, <2>1 DEF FindsNone
  <2>3. QED
    BY <2>2 DEF Sound, res, token
<1>7. CASE is
  <2>1. res = after[j] /\ j \in 0 .. Len(line) /\ TokenFits(line, token, i, j)
    BY <1>3, <1>4, <1>7
  <2>2. Sound(line, tokens, k + 1, j, res)
    BY <2>1
  <2>3. CASE Finds(line, tokens, k + 1, j, res)
    <3>1. PICK at : /\ LeastChain(line, tokens, k + 1, j, at)
                    /\ res = Match(BoundFrom(line, tokens, k + 1, at))
      BY <2>3 DEF Finds
    <3> DEFINE new == InFront(tokens, k, i, at)
    <3>2. \A m \in 0 .. Len(line) : TokenFits(line, token, i, m) => ~(m < j)
      BY <1>1, <1>3, <2>1
    <3>3. LeastChain(line, tokens, k, i, new)
      BY <1>1, <2>1, <3>1, <3>2, LeastCons DEF token
    <3>4. NamesFrom(tokens, k) = NamesFrom(tokens, k + 1)
      <4>1. \A l : l \in k .. n <=> l = k \/ l \in k + 1 .. n
        BY <1>1
      <4>2. tokens[k].kind # "var"
        OBVIOUS
      <4>3. QED
        BY <4>1, <4>2 DEF NamesFrom
    <3>5. \A x : ArraysFrom(tokens, k, x) = ArraysFrom(tokens, k + 1, x)
      <4> SUFFICES ASSUME NEW x
                   PROVE  ArraysFrom(tokens, k, x) = ArraysFrom(tokens, k + 1, x)
        OBVIOUS
      <4>1. ~IsVar(tokens, k, x)
        BY DEF IsVar
      <4>2. QED
        BY <1>1, <4>1, ArraysStep
    <3>6. \A x \in NamesFrom(tokens, k + 1) :
            ValueFrom(line, tokens, k, new, x) = ValueFrom(line, tokens, k + 1, at, x)
      <4>1. \A x \in NamesFrom(tokens, k + 1) : OccursFrom(tokens, k + 1, x) # {}
        BY NamesOccur
      <4>2. QED
        BY <1>1, <3>5, <4>1, ValueStays
    <3>7. BoundFrom(line, tokens, k, new) = BoundFrom(line, tokens, k + 1, at)
      BY <3>4, <3>6 DEF BoundFrom
    <3> HIDE DEF new
    <3>8. Finds(line, tokens, k, i, res)
      BY <3>1, <3>3, <3>7 DEF Finds
    <3>9. QED
      BY <3>8 DEF Sound, res, token
  <2>4. CASE FindsNone(line, tokens, k + 1, j, res)
    <3>1. res = Mismatch /\ ~\E at : Chain(line, tokens, k + 1, j, at)
      BY <2>4 DEF FindsNone
    <3>2. ASSUME NEW at, Chain(line, tokens, k, i, at) PROVE FALSE
      <4>1. at[k] = j
        BY <1>3, <1>5, <3>2
      <4>2. QED
        BY <1>5, <3>1, <3>2, <4>1
    <3>3. FindsNone(line, tokens, k, i, res)
      BY <3>1, <3>2 DEF FindsNone
    <3>4. QED
      BY <3>3 DEF Sound, res, token
  <2>5. CASE res = Failure /\ Explained(line, tokens, k + 1, j)
    <3>1. Explained(line, tokens, k, i)
      BY <1>1, <2>1, <2>5, ExplainedCons DEF token
    <3>2. QED
      BY <2>5, <3>1 DEF Sound, res, token
  <2>6. QED
    BY <2>2, <2>3, <2>4, <2>5 DEF Sound
<1>8. QED
  BY <1>6, <1>7

\* The lengths a variable may have.
LEMMA Lengths ==
  ASSUME NEW token \in Token, token.kind = "var"
  PROVE  /\ token.max \in Nat \/ token.max = Unbounded
         /\ token.min \in Nat \/ token.min = Unbounded
         /\ MinLen(token) \in Nat
         /\ Unbounded = -1
BY DEF Token, Length, Unbounded, MinLen

\* A variable takes the first length from which the rest can be split.
LEMMA VarStep ==
  ASSUME NEW line \in Characters, NEW tokens \in Seq(Token), NEW k \in 1 .. Len(tokens),
         NEW i \in 0 .. Len(line), i < Len(line), tokens[k].kind = "var",
         NEW after, \A j \in 0 .. Len(line) : Sound(line, tokens, k + 1, j, after[j])
  PROVE  Sound(line, tokens, k, i, MatchToken(line, tokens[k], after, i))
<1> DEFINE token == tokens[k]
           L == Len(line)
           rest == L - i
           result(m) == IF m > rest THEN Failure ELSE after[i + m]
           hits == {m \in MinLen(token) .. MaxLen(token, rest) : result(m).status # "none"}
           first == Min(hits)
           res == MatchToken(line, token, after, i)
<1>1. L \in Nat /\ Len(tokens) \in Nat /\ k + 1 \in 1 .. Len(tokens) + 1 /\ i \in Nat
  BY DEF Characters
<1>2. token \in Token
  BY ElementOfSeq
<1>3. /\ token.max \in Nat \/ token.max = Unbounded
      /\ MinLen(token) \in Nat
      /\ Unbounded = -1
  BY <1>2, Lengths
<1>4. res = IF hits = {} THEN Mismatch
            ELSE IF result(first).status = "error" THEN Failure
            ELSE Bind(token, SubSeq(line, i + 1, i + first), result(first).vars)
  BY DEF MatchToken
<1>5. \A j \in 0 .. L : TokenFits(line, token, i, j) <=>
         /\ i <= j /\ j - i >= MinLen(token)
         /\ token.max # Unbounded => j - i <= token.max
  BY <1>1 DEF TokenFits
<1> HIDE DEF token
<1>6. \A j \in 0 .. L : TokenFits(line, token, i, j) =>
         j - i \in MinLen(token) .. MaxLen(token, rest) /\ result(j - i) = after[j]
  <2> SUFFICES ASSUME NEW j \in 0 .. L, TokenFits(line, token, i, j)
               PROVE  j - i \in MinLen(token) .. MaxLen(token, rest) /\ result(j - i) = after[j]
    OBVIOUS
  <2>1. i <= j /\ j - i >= MinLen(token) /\ (token.max # Unbounded => j - i <= token.max)
    BY <1>5
  <2>2. j - i <= MaxLen(token, rest) /\ MaxLen(token, rest) \in Int
    BY <1>1, <1>3, <2>1 DEF MaxLen
  <2>3. ~(j - i > rest) /\ i + (j - i) = j
    BY <1>1, <2>1
  <2>4. QED
    BY <1>1, <1>3, <2>1, <2>2, <2>3
<1>7. \A m \in MinLen(token) .. MaxLen(token, rest) : m <= rest =>
         i + m \in 0 .. L /\ TokenFits(line, token, i, i + m) /\ result(m) = after[i + m]
  <2> SUFFICES ASSUME NEW m \in MinLen(token) .. MaxLen(token, rest), m <= rest
               PROVE  /\ i + m \in 0 .. L /\ TokenFits(line, token, i, i + m)
                      /\ result(m) = after[i + m]
    OBVIOUS
  <2>1. m \in Nat /\ m >= MinLen(token) /\ (token.max # Unbounded => m <= token.max)
    BY <1>1, <1>3 DEF MaxLen
  <2>2. i + m \in 0 .. L /\ i <= i + m /\ (i + m) - i = m
    BY <1>1, <2>1
  <2>3. TokenFits(line, token, i, i + m)
    BY <1>5, <2>1, <2>2
  <2>4. QED
    BY <1>1, <2>1, <2>2, <2>3
<1>8. \A at : Chain(line, tokens, k, i, at) =>
         /\ TokenFits(line, token, i, at[k]) /\ at[k] \in 0 .. L
         /\ Chain(line, tokens, k + 1, at[k], Behind(tokens, k, at))
  BY <1>1, ChainRest DEF token
<1>9. \A m : m > rest => result(m) = Failure
  OBVIOUS
<1>10. hits \in SUBSET Nat
  BY <1>1, <1>3
<1>11. \A m \in MinLen(token) .. MaxLen(token, rest) :
          m \notin hits => result(m).status = "none"
  OBVIOUS
<1>12. \A m \in hits : m \in MinLen(token) .. MaxLen(token, rest) /\ result(m).status # "none"
  OBVIOUS
<1> HIDE DEF hits, result, rest, first, res
<1>13. CASE hits = {}
  <2>1. res = Mismatch
    BY <1>4, <1>13
  <2>2. ASSUME NEW at, Chain(line, tokens, k, i, at) PROVE FALSE
    <3> DEFINE j == at[k]
    <3>1. j \in 0 .. L /\ TokenFits(line, token, i, j)
          /\ Chain(line, tokens, k + 1, j, Behind(tokens, k, at))
      BY <1>8, <2>2
    <3> HIDE DEF j
    <3>2. after[j].status = "none"
      BY <1>6, <1>11, <1>13, <3>1
    <3>3. QED
      BY <3>1, <3>2, SoundStatus
  <2>3. FindsNone(line, tokens, k, i, res)
    BY <2>1, <2>2 DEF FindsNone
  <2>4. QED
    BY <2>3 DEF Sound, res, token
<1>14. CASE hits # {}
  <2>1. first \in hits /\ \A m \in hits : first <= m
    BY <1>10, <1>14, MinIsLeast DEF first
  <2>2. /\ first \in MinLen(token) .. MaxLen(token, rest) /\ result(first).status # "none"
        /\ first \in Nat
    BY <1>10, <1>12, <2>1
  <2>3. rest \in Nat
    BY <1>1 DEF rest
  <2>4. CASE first > rest
    <3>1. result(first) = Failure
      BY <1>9, <2>4
    <3>2. res = Failure
      BY <1>4, <1>14, <3>1, Statuses
    <3>3. token.max # Unbounded /\ MinLen(token) <= token.max /\ first <= token.max
      BY <1>1, <1>3, <2>2, <2>3, <2>4 DEF MaxLen
    <3>4. i + token.max > L
      BY <1>1, <1>3, <2>2, <2>4, <3>3 DEF rest
    <3> DEFINE at == [l \in k - 1 .. k - 1 |-> i]
    <3>5. Partial(line, tokens, k, i, k, at) /\ at[k - 1] = i
      BY <1>1 DEF Partial
    <3> HIDE DEF at
    <3>6. k \in k .. Len(tokens)
      BY <1>1
    <3>7. RunsOver(line, tokens, k, i)
      BY <3>3, <3>4, <3>5, <3>6 DEF RunsOver, token
    <3>8. QED
      BY <3>2, <3>7 DEF Sound, Explained, res, token
  <2>5. CASE first <= rest
    <3> DEFINE j == i + first
    <3>1. j \in 0 .. L /\ TokenFits(line, token, i, j) /\ result(first) = after[j]
      BY <1>7, <2>2, <2>5
    <3>2. Sound(line, tokens, k + 1, j, after[j])
      BY <3>1
    <3>3. CASE after[j].status = "error"
      <4>1. res = Failure
        BY <1>4, <1>14, <3>1, <3>3
      <4> HIDE DEF j
      <4>2. Explained(line, tokens, k + 1, j)
        BY <3>2, <3>3, SoundStatus
      <4>3. Explained(line, tokens, k, i)
        BY <1>1, <3>1, <4>2, ExplainedCons DEF token
      <4>4. QED
        BY <4>1, <4>3 DEF Sound, res, token
    <3>4. CASE after[j].status # "error"
      <4>1. res = Bind(token, SubSeq(line, i + 1, j), after[j].vars)
        BY <1>4, <1>14, <3>1, <3>4
      <4>2. \A m \in 0 .. L : TokenFits(line, token, i, m) /\ m < j =>
               after[m].status = "none"
        <5> SUFFICES ASSUME NEW m \in 0 .. L, TokenFits(line, token, i, m), m < j
                     PROVE  after[m].status = "none"
          OBVIOUS
        <5>1. m - i \in MinLen(token) .. MaxLen(token, rest) /\ result(m - i) = after[m]
          BY <1>6
        <5>2. m - i < first /\ m - i \in Int
          BY <1>1, <2>2
        <5>3. m - i \notin hits
          BY <2>1, <2>2, <5>2
        <5>4. QED
          BY <1>11, <5>1, <5>3
      <4> HIDE DEF j
      <4>3. PICK at : /\ LeastChain(line, tokens, k + 1, j, at)
                      /\ after[j] = Match(BoundFrom(line, tokens, k + 1, at))
        BY <2>2, <3>1, <3>2, <3>4, SoundStatus
      <4>4. \A m \in 0 .. L : TokenFits(line, token, i, m) /\ m < j =>
               ~\E b : Chain(line, tokens, k + 1, m, b)
        BY <4>2, SoundStatus
      <4> DEFINE new == InFront(tokens, k, i, at)
      <4>5. LeastChain(line, tokens, k, i, new)
        BY <1>1, <3>1, <4>3, <4>4, LeastCons DEF token
      <4>6. at[k] = j
        <5>1. at[(k + 1) - 1] = j
          BY <4>3 DEF LeastChain, Chain
        <5>2. (k + 1) - 1 = k
          BY <1>1
        <5>3. QED
          BY <5>1, <5>2
      <4>7. after[j].vars = BoundFrom(line, tokens, k + 1, at)
        BY <4>3, Statuses
      <4>8. res = Bind(tokens[k], SubSeq(line, i + 1, at[k]), BoundFrom(line, tokens, k + 1, at))
        BY <4>1, <4>6, <4>7 DEF token
      <4>9. \/ res = Match(BoundFrom(line, tokens, k, new))
            \/ res = Failure /\ MixesKinds(tokens)
        BY <4>8, BindStep
      <4> HIDE DEF new
      <4>10. Finds(line, tokens, k, i, res) \/ (res = Failure /\ Explained(line, tokens, k, i))
        BY <4>5, <4>9 DEF Finds, Explained
      <4>11. QED
        BY <4>10 DEF Sound, res, token
    <3>5. QED
      BY <3>3, <3>4
  <2>6. QED
    BY <2>2, <2>3, <2>4, <2>5
<1>15. QED
  BY <1>13, <1>14

\* So every entry of the table is sound, from the last row up to the corner.
LEMMA SearchIsSound ==
  ASSUME NEW line \in Characters, NEW tokens \in Seq(Token)
  PROVE  Sound(line, tokens, 1, 0, parseLine(line, tokens))
<1> DEFINE n == Len(tokens)
           L == Len(line)
<1>1. n \in Nat /\ L \in Nat
  BY DEF Characters
<1>2. PICK r : /\ \A k \in 1 .. n + 1 : r[k] = Row(line, tokens, k, r[k + 1])
               /\ parseLine(line, tokens) = r[1][0]
  BY <1>1, ParseLineIsSearch
<1> DEFINE Good(k) == \A i \in 0 .. L : Sound(line, tokens, k, i, r[k][i])
           T == {d \in Nat : d <= n => Good(n + 1 - d)}
<1>3. Good(n + 1)
  <2> SUFFICES ASSUME NEW i \in 0 .. L PROVE Sound(line, tokens, n + 1, i, r[n + 1][i])
    OBVIOUS
  <2>1. n + 1 \in 1 .. n + 1
    BY <1>1
  <2>2. r[n + 1][i] = IF i = L THEN Match(NoVars) ELSE Mismatch
    BY <1>2, <2>1 DEF Row
  <2>3. QED
    BY <1>1, <2>2, EndStep
<1>4. \A k \in 1 .. n : Good(k + 1) => Good(k)
  <2> SUFFICES ASSUME NEW k \in 1 .. n, Good(k + 1), NEW i \in 0 .. L
               PROVE  Sound(line, tokens, k, i, r[k][i])
    OBVIOUS
  <2>1. k \in 1 .. n + 1 /\ k # n + 1
    BY <1>1
  <2>2. r[k][i] = IF i = L THEN Mismatch ELSE MatchToken(line, tokens[k], r[k + 1], i)
    <3>1. \A w : Row(line, tokens, k, w)[i] =
                   IF i = L THEN Mismatch ELSE MatchToken(line, tokens[k], w, i)
      BY <2>1 DEF Row
    <3>2. r[k] = Row(line, tokens, k, r[k + 1])
      BY <1>2, <2>1
    <3>3. QED
      BY <3>1, <3>2
  <2>3. tokens[k] \in Token
    BY ElementOfSeq
  <2>4. tokens[k].kind \in {"text", "var"}
    BY <2>3 DEF Token
  <2> DEFINE after == r[k + 1]
  <2>5. \A j \in 0 .. L : Sound(line, tokens, k + 1, j, after[j])
    OBVIOUS
  <2> HIDE DEF after, Good
  <2>6. CASE i = L
    BY <1>1, <2>2, <2>6, LastStep
  <2>7. CASE i # L
    <3>1. i < L
      BY <1>1, <2>7
    <3>2. Sound(line, tokens, k, i, MatchToken(line, tokens[k], after, i))
      BY <2>4, <2>5, <3>1, TextStep, VarStep
    <3>3. QED
      BY <2>2, <2>7, <3>2 DEF after
  <2>8. QED
    BY <2>6, <2>7
<1> HIDE DEF Good
<1>5. 0 \in T
  BY <1>1, <1>3
<1>6. \A d \in Nat : d \in T => d + 1 \in T
  <2> SUFFICES ASSUME NEW d \in Nat, d \in T, d + 1 <= n PROVE Good(n + 1 - (d + 1))
    OBVIOUS
  <2>1. n - d \in 1 .. n /\ (n - d) + 1 = n + 1 - d /\ n + 1 - (d + 1) = n - d
    BY <1>1
  <2>2. Good(n + 1 - d)
    BY <1>1
  <2>3. QED
    BY <1>4, <2>1, <2>2
<1>7. n \in T
  <2> HIDE DEF T
  <2>1. QED
    BY <1>1, <1>5, <1>6, SetInduction
<1>8. Good(1)
  <2>1. n + 1 - n = 1
    BY <1>1
  <2>2. QED
    BY <1>1, <1>7, <2>1
<1>9. 0 \in 0 .. L
  BY <1>1
<1>10. QED
  BY <1>2, <1>8, <1>9 DEF Good

-----------------------------------------------------------------------------
(* Against the set of all splits (Splits, Least, Bound of SimTemplate).    *)

\* The cut of a chain of all tokens, and the chain of a cut.
CutOf(tokens, at) == [k \in 1 .. Len(tokens) |-> at[k]]
StartsOf(tokens, cut) == [k \in 0 .. Len(tokens) |-> Start(cut, k + 1)]

\* A chain from the start of the line is a split.
LEMMA CutOfChain ==
  ASSUME NEW line, NEW tokens, Len(line) \in Nat, Len(tokens) \in Nat, NEW at,
         Chain(line, tokens, 1, 0, at)
  PROVE  /\ CutOf(tokens, at) \in Splits(line, tokens)
         /\ StartsOf(tokens, CutOf(tokens, at)) = at
<1> DEFINE n == Len(tokens)
           c == CutOf(tokens, at)
<1>1. /\ at \in [0 .. n -> 0 .. Len(line)] /\ at[0] = 0 /\ at[n] = Len(line)
      /\ \A j \in 1 .. n : TokenFits(line, tokens[j], at[j - 1], at[j])
  BY DEF Chain, Offsets
<1>2. c \in [1 .. n -> 0 .. Len(line)] /\ \A k \in 1 .. n : c[k] = at[k]
  BY <1>1 DEF CutOf
<1> HIDE DEF c
<1>3. \A k \in 0 .. n : Start(c, k + 1) = at[k]
  <2> SUFFICES ASSUME NEW k \in 0 .. n PROVE Start(c, k + 1) = at[k]
    OBVIOUS
  <2>1. CASE k = 0
    BY <1>1, <2>1 DEF Start
  <2>2. CASE k # 0
    <3>1. k \in 1 .. n /\ k + 1 # 1 /\ (k + 1) - 1 = k
      BY <2>2
    <3>2. QED
      BY <1>2, <3>1 DEF Start
  <2>3. QED
    BY <2>1, <2>2
<1>4. \A k \in 1 .. n : Start(c, k) = at[k - 1]
  <2> SUFFICES ASSUME NEW k \in 1 .. n PROVE Start(c, k) = at[k - 1]
    OBVIOUS
  <2>1. k - 1 \in 0 .. n /\ (k - 1) + 1 = k
    OBVIOUS
  <2>2. QED
    BY <1>3, <2>1
<1>5. c \in Splits(line, tokens)
  <2>1. n \in 0 .. n
    OBVIOUS
  <2>2. Start(c, n + 1) = Len(line)
    BY <1>1, <1>3, <2>1
  <2>3. Fits(line, tokens, c, n)
    BY <1>1, <1>2, <1>4 DEF Fits
  <2>4. QED
    BY <1>2, <2>2, <2>3 DEF Splits, CutsOf
<1>6. StartsOf(tokens, c) = at
  BY <1>1, <1>3 DEF StartsOf
<1>7. QED
  BY <1>5, <1>6 DEF c

\* And a split is such a chain.
LEMMA ChainOfCut ==
  ASSUME NEW line, NEW tokens, Len(line) \in Nat, Len(tokens) \in Nat,
         NEW cut \in Splits(line, tokens)
  PROVE  /\ Chain(line, tokens, 1, 0, StartsOf(tokens, cut))
         /\ CutOf(tokens, StartsOf(tokens, cut)) = cut
<1> DEFINE n == Len(tokens)
           at == StartsOf(tokens, cut)
<1>1. /\ cut \in [1 .. n -> 0 .. Len(line)]
      /\ \A k \in 1 .. n : TokenFits(line, tokens[k], Start(cut, k), cut[k])
      /\ Start(cut, n + 1) = Len(line)
  BY DEF Splits, CutsOf, Fits
<1>2. \A k \in 0 .. n : at[k] = Start(cut, k + 1)
  BY DEF StartsOf
<1>3. \A k \in 1 .. n : Start(cut, k + 1) = cut[k]
  <2>1. \A k \in 1 .. n : k + 1 # 1 /\ (k + 1) - 1 = k
    OBVIOUS
  <2>2. QED
    BY <2>1 DEF Start
<1>4. Start(cut, 0 + 1) = 0
  BY DEF Start
<1>5. at[0] = 0 /\ \A k \in 1 .. n : at[k] = cut[k]
  <2>1. 0 \in 0 .. n /\ \A k \in 1 .. n : k \in 0 .. n
    OBVIOUS
  <2>2. QED
    BY <1>2, <1>3, <1>4, <2>1
<1>6. at \in [0 .. n -> 0 .. Len(line)]
  <2>1. \A k \in 0 .. n : k = 0 \/ k \in 1 .. n
    OBVIOUS
  <2>2. \A k \in 0 .. n : Start(cut, k + 1) \in 0 .. Len(line)
    BY <1>1, <1>3, <1>4, <2>1
  <2>3. QED
    BY <2>2 DEF StartsOf
<1>7. \A k \in 1 .. n : Start(cut, k) = at[k - 1]
  <2> SUFFICES ASSUME NEW k \in 1 .. n PROVE Start(cut, k) = at[k - 1]
    OBVIOUS
  <2>1. k - 1 \in 0 .. n /\ (k - 1) + 1 = k
    OBVIOUS
  <2>2. QED
    BY <1>2, <2>1
<1>8. at[n] = Len(line)
  <2>1. n \in 0 .. n
    OBVIOUS
  <2>2. QED
    BY <1>1, <1>2, <2>1
<1> HIDE DEF at
<1>9. Chain(line, tokens, 1, 0, at)
  <2>1. 1 - 1 = 0
    OBVIOUS
  <2>2. QED
    BY <1>1, <1>5, <1>6, <1>7, <1>8, <2>1 DEF Chain, Offsets
<1>10. CutOf(tokens, at) = cut
  BY <1>1, <1>5 DEF CutOf
<1>11. QED
  BY <1>9, <1>10 DEF at

\* The least chain is the least split.
LEMMA LeastOfChain ==
  ASSUME NEW line, NEW tokens, Len(line) \in Nat, Len(tokens) \in Nat, NEW at,
         LeastChain(line, tokens, 1, 0, at)
  PROVE  Least(Splits(line, tokens)) = CutOf(tokens, at)
<1> DEFINE n == Len(tokens)
           S == Splits(line, tokens)
           c == CutOf(tokens, at)
<1>1. c \in S
  BY CutOfChain DEF LeastChain
<1>2. ASSUME NEW d \in S, d # c PROVE Before(c, d)
  <2> DEFINE b == StartsOf(tokens, d)
  <2>1. Chain(line, tokens, 1, 0, b) /\ CutOf(tokens, b) = d
    BY ChainOfCut
  <2>2. b # at
    BY <1>2, <2>1
  <2>3. Sooner(at, b, 1, n)
    BY <2>1, <2>2 DEF LeastChain
  <2> HIDE DEF b
  <2>4. \A k \in 1 .. n : c[k] = at[k] /\ d[k] = b[k]
    BY <2>1 DEF CutOf
  <2>5. DOMAIN c = 1 .. n
    BY DEF CutOf
  <2>6. PICK k \in 1 .. n : at[k] < b[k] /\ \A m \in 1 .. k - 1 : at[m] = b[m]
    BY <2>3 DEF Sooner
  <2>7. \A m \in 1 .. k - 1 : m \in 1 .. n
    OBVIOUS
  <2> HIDE DEF c
  <2>8. c[k] < d[k] /\ \A m \in 1 .. k - 1 : c[m] = d[m]
    BY <2>4, <2>6, <2>7
  <2>9. QED
    BY <2>5, <2>8 DEF Before
<1>3. ASSUME NEW d \in S, d # c PROVE ~Before(d, c)
  <2>1. d \in [1 .. n -> 0 .. Len(line)] /\ c \in [1 .. n -> 0 .. Len(line)]
    BY <1>1 DEF Splits, CutsOf
  <2> HIDE DEF c, S
  <2>2. Before(c, d)
    BY <1>2, <1>3
  <2>3. PICK k \in 1 .. n : c[k] < d[k] /\ \A m \in 1 .. k - 1 : c[m] = d[m]
    BY <2>1, <2>2 DEF Before
  <2>4. ASSUME Before(d, c) PROVE FALSE
    <3>1. PICK l \in 1 .. n : d[l] < c[l] /\ \A m \in 1 .. l - 1 : d[m] = c[m]
      BY <2>1, <2>4 DEF Before
    <3>2. c[k] \in Nat /\ d[k] \in Nat /\ c[l] \in Nat /\ d[l] \in Nat
      BY <2>1
    <3>3. ~(l < k)
      <4>1. l < k => l \in 1 .. k - 1
        OBVIOUS
      <4>2. QED
        BY <2>3, <3>1, <3>2, <4>1
    <3>4. ~(k < l)
      <4>1. k < l => k \in 1 .. l - 1
        OBVIOUS
      <4>2. QED
        BY <2>3, <3>1, <3>2, <4>1
    <3>5. k = l
      BY <3>3, <3>4
    <3>6. QED
      BY <2>3, <3>1, <3>2, <3>5
  <2>5. QED
    BY <2>4
<1> HIDE DEF c, S
<1> DEFINE e == CHOOSE x \in S : \A d \in S \ {x} : Before(x, d)
<1>4. e \in S /\ \A d \in S \ {e} : Before(e, d)
  <2>1. \A d \in S \ {c} : Before(c, d)
    BY <1>2
  <2>2. QED
    BY <1>1, <2>1
<1>5. Least(S) = e
  BY DEF Least
<1> HIDE DEF e
<1>6. e = c
  BY <1>1, <1>3, <1>4
<1>7. QED
  BY <1>5, <1>6 DEF c, S

\* What a chain of all tokens binds is what its cut binds.
LEMMA BoundOfChain ==
  ASSUME NEW line, NEW tokens \in Seq(Token), Len(line) \in Nat, NEW at,
         Chain(line, tokens, 1, 0, at)
  PROVE  BoundFrom(line, tokens, 1, at) = Bound(line, tokens, CutOf(tokens, at))
<1> DEFINE n == Len(tokens)
           c == CutOf(tokens, at)
<1>1. n \in Nat /\ DOMAIN tokens = 1 .. n
  OBVIOUS
<1>2. \A x : OccursFrom(tokens, 1, x) = Occurrences(tokens, x)
  BY <1>1 DEF OccursFrom, Occurrences
<1>3. NamesFrom(tokens, 1) = NamesOf(tokens)
  BY <1>1 DEF NamesFrom, NamesOf
<1>4. StartsOf(tokens, c) = at
  BY <1>1, CutOfChain
<1>5. \A k \in 1 .. n : Piece(line, c, k) = Stretch(line, at, k)
  <2> SUFFICES ASSUME NEW k \in 1 .. n PROVE Piece(line, c, k) = Stretch(line, at, k)
    OBVIOUS
  <2>1. k - 1 \in 0 .. n /\ (k - 1) + 1 = k
    BY <1>1
  <2>2. StartsOf(tokens, c)[k - 1] = Start(c, k)
    <3> HIDE DEF c
    <3>1. QED
      BY <2>1 DEF StartsOf
  <2>3. at[k - 1] = Start(c, k)
    BY <1>4, <2>2
  <2>4. c[k] = at[k]
    BY DEF CutOf
  <2> HIDE DEF c
  <2>5. QED
    BY <2>3, <2>4 DEF Piece, Stretch
<1> HIDE DEF c
<1>6. \A x \in NamesOf(tokens) :
        ValueFrom(line, tokens, 1, at, x) =
          IF Rightmost(tokens, x).array THEN Array(Pieces(line, tokens, c, x))
          ELSE Scalar(Piece(line, c, Max(Occurrences(tokens, x))))
  <2> SUFFICES ASSUME NEW x \in NamesOf(tokens)
               PROVE  ValueFrom(line, tokens, 1, at, x) =
                        IF Rightmost(tokens, x).array THEN Array(Pieces(line, tokens, c, x))
                        ELSE Scalar(Piece(line, c, Max(Occurrences(tokens, x))))
    OBVIOUS
  <2> DEFINE O == Occurrences(tokens, x)
             A == {k \in O : tokens[k].array}
             last == Max(O)
  <2>1. O # {} /\ O \in SUBSET (0 .. n) /\ A \in SUBSET (0 .. n) /\ \A k \in O : k \in 1 .. n
    BY <1>1 DEF Occurrences, NamesOf
  <2>2. OccursFrom(tokens, 1, x) = O /\ ArraysFrom(tokens, 1, x) = A
    BY <1>2 DEF ArraysFrom
  <2>3. \A k \in A : k \in O
    OBVIOUS
  <2> DEFINE sorted == InOrder(A)
  <2>4. Pieces(line, tokens, c, x) = [j \in DOMAIN sorted |-> Piece(line, c, sorted[j])]
    BY DEF Pieces
  <2>5. Rightmost(tokens, x) = tokens[last]
    BY DEF Rightmost
  <2> HIDE DEF O, A, last, sorted
  <2>6. last \in 1 .. n
    BY <1>1, <2>1, MaxIsGreatest DEF last
  <2>7. \A j \in 1 .. Cardinality(A) : Nth(A, j) \in 1 .. n
    BY <1>1, <2>1, <2>3, NthHasRank
  <2>8. sorted = [j \in 1 .. Cardinality(A) |-> Nth(A, j)]
    BY DEF InOrder, sorted
  <2>9. Pieces(line, tokens, c, x) = Stretches(line, at, A)
    BY <1>5, <2>4, <2>7, <2>8 DEF Stretches
  <2>10. ValueFrom(line, tokens, 1, at, x) =
           IF tokens[last].array THEN Array(Stretches(line, at, A))
                                 ELSE Scalar(Stretch(line, at, last))
    BY <2>2 DEF ValueFrom, last
  <2>11. Piece(line, c, last) = Stretch(line, at, last)
    BY <1>5, <2>6
  <2>12. QED
    BY <2>5, <2>9, <2>10, <2>11 DEF last, O
<1>7. BoundFrom(line, tokens, 1, at) = Bound(line, tokens, c)
  BY <1>3, <1>6 DEF BoundFrom, Bound
<1>8. QED
  BY <1>7 DEF c

\* parseLine against its definition: it finds the least split and binds what
\* that binds, or there is none, or it fails for one of two causes.
THEOREM ParseLineIsLeastSplit ==
  ASSUME NEW line \in Characters, NEW tokens \in Seq(Token)
  PROVE  \/ /\ Splits(line, tokens) # {}
            /\ parseLine(line, tokens)
                 = Match(Bound(line, tokens, Least(Splits(line, tokens))))
         \/ Splits(line, tokens) = {} /\ parseLine(line, tokens) = Mismatch
         \/ /\ parseLine(line, tokens) = Failure
            /\ Overruns(line, tokens) \/ MixesKinds(tokens)
<1> DEFINE res == parseLine(line, tokens)
           n == Len(tokens)
<1>1. Len(line) \in Nat /\ n \in Nat /\ DOMAIN tokens = 1 .. n
  BY DEF Characters
<1>2. Sound(line, tokens, 1, 0, res)
  BY SearchIsSound
<1> HIDE DEF res
<1>3. CASE Finds(line, tokens, 1, 0, res)
  <2>1. PICK at : /\ LeastChain(line, tokens, 1, 0, at)
                  /\ res = Match(BoundFrom(line, tokens, 1, at))
    BY <1>3 DEF Finds
  <2>2. Chain(line, tokens, 1, 0, at)
    BY <2>1 DEF LeastChain
  <2>3. Splits(line, tokens) # {}
    BY <1>1, <2>2, CutOfChain
  <2>4. Least(Splits(line, tokens)) = CutOf(tokens, at)
    BY <1>1, <2>1, LeastOfChain
  <2>5. BoundFrom(line, tokens, 1, at) = Bound(line, tokens, CutOf(tokens, at))
    BY <1>1, <2>2, BoundOfChain
  <2>6. QED
    BY <2>1, <2>3, <2>4, <2>5 DEF res
<1>4. CASE FindsNone(line, tokens, 1, 0, res)
  <2>1. res = Mismatch /\ ~\E at : Chain(line, tokens, 1, 0, at)
    BY <1>4 DEF FindsNone
  <2>2. \A cut \in Splits(line, tokens) : Chain(line, tokens, 1, 0, StartsOf(tokens, cut))
    BY <1>1, ChainOfCut
  <2>3. Splits(line, tokens) = {}
    BY <2>1, <2>2
  <2>4. QED
    BY <2>1, <2>3 DEF res
<1>5. CASE res = Failure /\ Explained(line, tokens, 1, 0)
  <2>1. ASSUME RunsOver(line, tokens, 1, 0) PROVE Overruns(line, tokens)
    <3>1. PICK m \in 1 .. n : \E at :
                 /\ tokens[m].kind = "var"
                 /\ MinLen(tokens[m]) <= tokens[m].max
                 /\ Partial(line, tokens, 1, 0, m, at)
                 /\ at[m - 1] < Len(line)
                 /\ at[m - 1] + tokens[m].max > Len(line)
      BY <2>1 DEF RunsOver
    <3>2. PICK at : /\ tokens[m].kind = "var"
                    /\ MinLen(tokens[m]) <= tokens[m].max
                    /\ Partial(line, tokens, 1, 0, m, at)
                    /\ at[m - 1] < Len(line)
                    /\ at[m - 1] + tokens[m].max > Len(line)
      BY <3>1
    <3> DEFINE cut == [j \in 1 .. m - 1 |-> at[j]]
    <3>3. /\ at \in [0 .. m - 1 -> 0 .. Len(line)] /\ at[0] = 0
          /\ \A j \in 1 .. m - 1 : TokenFits(line, tokens[j], at[j - 1], at[j])
      BY <3>2 DEF Partial
    <3>4. cut \in [1 .. m - 1 -> 0 .. Len(line)] /\ \A j \in 1 .. m - 1 : cut[j] = at[j]
      BY <3>3
    <3> HIDE DEF cut
    <3>5. \A j \in 1 .. m : Start(cut, j) = at[j - 1]
      <4> SUFFICES ASSUME NEW j \in 1 .. m PROVE Start(cut, j) = at[j - 1]
        OBVIOUS
      <4>1. CASE j = 1
        BY <3>3, <4>1 DEF Start
      <4>2. CASE j # 1
        <5>1. j - 1 \in 1 .. m - 1
          BY <4>2
        <5>2. QED
          BY <3>4, <4>2, <5>1 DEF Start
      <4>3. QED
        BY <4>1, <4>2
    <3>6. \A j \in 1 .. m - 1 : j \in 1 .. m
      OBVIOUS
    <3>7. Fits(line, tokens, cut, m - 1)
      BY <3>3, <3>4, <3>5, <3>6 DEF Fits
    <3>8. Start(cut, m) = at[m - 1]
      BY <3>5
    <3>9. m \in DOMAIN tokens
      BY <1>1
    <3>10. QED
      BY <3>2, <3>4, <3>7, <3>8, <3>9 DEF Overruns, CutsOf
  <2>2. QED
    BY <1>5, <2>1 DEF Explained, res
<1>6. QED
  BY <1>2, <1>3, <1>4, <1>5 DEF Sound

-----------------------------------------------------------------------------
(* parse as a loop over the lines, and FlattenSeq as one over its elements.*)

\* The bindings that the loop of parse merges, line by line.
LEMMA MergesExist ==
  ASSUME NEW c \in Nat, NEW found
  PROVE  \E r : r = [j \in 0 .. c |->
                       IF j = 0 THEN NoVars ELSE merge(r[j - 1], found[j].vars)]
<1> DEFINE F(j, s) == IF j = 0 THEN NoVars ELSE merge(s[j - 1], found[j].vars)
           T == {d \in Nat : \E s : \A j \in Nat : j <= d => s[j] = F(j, s)}
<1>1. 0 \in T
  <2> DEFINE s == [j \in Nat |-> NoVars]
  <2>1. \A j \in Nat : j <= 0 => s[j] = F(j, s)
    OBVIOUS
  <2> HIDE DEF s
  <2>2. \E u : \A j \in Nat : j <= 0 => u[j] = F(j, u)
    BY <2>1
  <2>3. QED
    BY <2>2
<1>2. \A d \in Nat : d \in T => d + 1 \in T
  <2> SUFFICES ASSUME NEW d \in Nat, d \in T PROVE d + 1 \in T
    OBVIOUS
  <2>1. PICK s : \A j \in Nat : j <= d => s[j] = F(j, s)
    OBVIOUS
  <2> DEFINE t == [j \in Nat |-> IF j = d + 1 THEN merge(s[d], found[d + 1].vars) ELSE s[j]]
  <2>2. \A j \in Nat : j <= d + 1 => t[j] = F(j, t)
    <3> SUFFICES ASSUME NEW j \in Nat, j <= d + 1 PROVE t[j] = F(j, t)
      OBVIOUS
    <3>1. CASE j = d + 1
      <4>1. j # 0 /\ j - 1 = d /\ d # d + 1
        BY <3>1
      <4>2. t[j - 1] = s[d]
        BY <4>1
      <4>3. t[j] = merge(s[d], found[d + 1].vars)
        BY <3>1
      <4> HIDE DEF t
      <4>4. QED
        BY <3>1, <4>1, <4>2, <4>3
    <3>2. CASE j # d + 1
      <4>1. j <= d /\ t[j] = s[j]
        BY <3>2
      <4>2. CASE j = 0
        <5>1. s[j] = NoVars
          BY <2>1, <4>1, <4>2
        <5> HIDE DEF t
        <5>2. QED
          BY <4>1, <4>2, <5>1
      <4>3. CASE j # 0
        <5>1. j - 1 \in Nat /\ j - 1 # d + 1
          BY <3>2, <4>3
        <5>2. t[j - 1] = s[j - 1]
          BY <5>1
        <5>3. s[j] = merge(s[j - 1], found[j].vars)
          BY <2>1, <4>1, <4>3
        <5> HIDE DEF t
        <5>4. QED
          BY <4>1, <4>3, <5>2, <5>3
      <4>4. QED
        BY <4>2, <4>3
    <3>3. QED
      BY <3>1, <3>2
  <2> HIDE DEF t, F
  <2>3. \E u : \A j \in Nat : j <= d + 1 => u[j] = F(j, u)
    BY <2>2
  <2>4. QED
    BY <2>3
<1> HIDE DEF T
<1>3. c \in T
  BY <1>1, <1>2, SetInduction
<1>4. PICK s : \A j \in Nat : j <= c => s[j] = F(j, s)
  BY <1>3 DEF T
<1> DEFINE r == [j \in 0 .. c |-> s[j]]
<1>5. \A j \in 0 .. c : r[j] = F(j, r)
  <2> SUFFICES ASSUME NEW j \in 0 .. c PROVE r[j] = F(j, r)
    OBVIOUS
  <2>1. s[j] = F(j, s) /\ r[j] = s[j]
    BY <1>4
  <2>2. CASE j = 0
    BY <2>1, <2>2
  <2>3. CASE j # 0
    <3>1. j - 1 \in 0 .. c
      BY <2>3
    <3>2. r[j - 1] = s[j - 1]
      BY <3>1
    <3> HIDE DEF r
    <3>3. QED
      BY <2>1, <2>3, <3>2
  <2>4. QED
    BY <2>2, <2>3
<1>6. r = [j \in 0 .. c |-> F(j, r)]
  BY <1>5
<1> HIDE DEF r
<1>7. QED
  BY <1>6

\* What parse comes to: the lines found in c rounds, merged in r.
ParsedIn(template, text, c, found, r) ==
  LET bad == {j \in 1 .. c : found[j].status # "match"} IN
  /\ c <= Len(template) /\ c <= Len(text) /\ (c = Len(template) \/ c = Len(text))
  /\ \A j \in 1 .. c : found[j] = parseLine(text[j], template[j])
  /\ r[0] = NoVars
  /\ \A j \in 1 .. c : r[j] = merge(r[j - 1], found[j].vars)
  /\ parse(template, text) =
       IF bad # {} THEN found[Min(bad)]
       ELSE IF Len(template) # Len(text) THEN Mismatch
       ELSE Match(r[c])

LEMMA ParseIs ==
  ASSUME NEW template, NEW text, Len(template) \in Nat, Len(text) \in Nat
  PROVE  \E c \in Nat : \E found, r : ParsedIn(template, text, c, found, r)
<1> DEFINE S == {Len(template), Len(text)}
           c == Min(S)
           found == [j \in 1 .. c |-> parseLine(text[j], template[j])]
           bad == {j \in 1 .. c : found[j].status # "match"}
           r == CHOOSE s : s = [j \in 0 .. c |->
                  IF j = 0 THEN NoVars ELSE merge(s[j - 1], found[j].vars)]
<1>1. S \in SUBSET Nat /\ S # {}
  OBVIOUS
<1>2. c \in S /\ \A y \in S : c <= y
  <2> HIDE DEF S
  <2>1. QED
    BY <1>1, MinIsLeast
<1>3. parse(template, text) =
        IF bad # {} THEN found[Min(bad)]
        ELSE IF Len(template) # Len(text) THEN Mismatch
        ELSE Match(r[c])
  BY DEF parse
<1>4. c \in Nat /\ c <= Len(template) /\ c <= Len(text) /\ (c = Len(template) \/ c = Len(text))
  BY <1>2
<1>5. \A j \in 1 .. c : found[j] = parseLine(text[j], template[j])
  OBVIOUS
<1> HIDE DEF c, found
<1>6. r = [j \in 0 .. c |-> IF j = 0 THEN NoVars ELSE merge(r[j - 1], found[j].vars)]
  <2>1. \E s : s = [j \in 0 .. c |-> IF j = 0 THEN NoVars ELSE merge(s[j - 1], found[j].vars)]
    BY <1>4, MergesExist
  <2>2. QED
    BY <2>1
<1> HIDE DEF r
<1>7. r[0] = NoVars /\ \A j \in 1 .. c : r[j] = merge(r[j - 1], found[j].vars)
  <2>1. 0 \in 0 .. c /\ \A j \in 1 .. c : j \in 0 .. c /\ j # 0
    BY <1>4
  <2>2. QED
    BY <1>6, <2>1
<1>8. ParsedIn(template, text, c, found, r)
  BY <1>3, <1>4, <1>5, <1>7 DEF ParsedIn
<1>9. QED
  BY <1>4, <1>8

\* What FlattenSeq comes to.
LEMMA FlattenIs ==
  ASSUME NEW seqs, NEW c \in Nat, c # 0, Len(seqs) = c
  PROVE  \E f : /\ f[1] = seqs[1]
                /\ \A j \in 2 .. c : f[j] = f[j - 1] \o seqs[j]
                /\ FlattenSeq(seqs) = f[c]
<1> DEFINE F(j, s) == IF j = 1 THEN seqs[1] ELSE s[j - 1] \o seqs[j]
           T == {d \in Nat : \E s : \A j \in Nat : j >= 1 /\ j <= d => s[j] = F(j, s)}
<1>1. 0 \in T
  <2>1. \E u : \A j \in Nat : j >= 1 /\ j <= 0 => u[j] = F(j, u)
    OBVIOUS
  <2>2. QED
    BY <2>1
<1>2. \A d \in Nat : d \in T => d + 1 \in T
  <2> SUFFICES ASSUME NEW d \in Nat, d \in T PROVE d + 1 \in T
    OBVIOUS
  <2>1. PICK s : \A j \in Nat : j >= 1 /\ j <= d => s[j] = F(j, s)
    OBVIOUS
  <2> DEFINE t == [j \in Nat |-> IF j = d + 1 THEN F(j, s) ELSE s[j]]
  <2>2. \A j \in Nat : j >= 1 /\ j <= d + 1 => t[j] = F(j, t)
    <3> SUFFICES ASSUME NEW j \in Nat, j >= 1, j <= d + 1 PROVE t[j] = F(j, t)
      OBVIOUS
    <3>1. t[j] = F(j, s)
      <4>1. CASE j = d + 1
        BY <4>1
      <4>2. CASE j # d + 1
        <5>1. j <= d /\ t[j] = s[j]
          BY <4>2
        <5> HIDE DEF t, F
        <5>2. QED
          BY <2>1, <5>1
      <4>3. QED
        BY <4>1, <4>2
    <3>2. t[j - 1] = s[j - 1]
      <4>1. j - 1 \in Nat /\ j - 1 # d + 1
        OBVIOUS
      <4>2. QED
        BY <4>1
    <3> HIDE DEF t
    <3>3. QED
      BY <3>1, <3>2
  <2> HIDE DEF t, F
  <2>3. \E u : \A j \in Nat : j >= 1 /\ j <= d + 1 => u[j] = F(j, u)
    BY <2>2
  <2>4. QED
    BY <2>3
<1> HIDE DEF T
<1>3. c \in T
  BY <1>1, <1>2, SetInduction
<1>4. PICK s : \A j \in Nat : j >= 1 /\ j <= c => s[j] = F(j, s)
  BY <1>3 DEF T
<1> DEFINE G(u) == [j \in 1 .. c |-> IF j = 1 THEN seqs[j] ELSE u[j - 1] \o seqs[j]]
           r == [j \in 1 .. c |-> s[j]]
           f == CHOOSE u : u = G(u)
<1>5. \A j \in 1 .. c : r[j] = IF j = 1 THEN seqs[j] ELSE r[j - 1] \o seqs[j]
  <2> SUFFICES ASSUME NEW j \in 1 .. c
               PROVE  r[j] = IF j = 1 THEN seqs[j] ELSE r[j - 1] \o seqs[j]
    OBVIOUS
  <2>1. s[j] = F(j, s) /\ r[j] = s[j]
    BY <1>4
  <2>2. CASE j = 1
    BY <2>1, <2>2
  <2>3. CASE j # 1
    <3>1. j - 1 \in 1 .. c
      BY <2>3
    <3>2. r[j - 1] = s[j - 1]
      BY <3>1
    <3> HIDE DEF r
    <3>3. QED
      BY <2>1, <2>3, <3>2
  <2>4. QED
    BY <2>2, <2>3
<1>6. r = G(r)
  BY <1>5
<1> HIDE DEF r
<1>7. \E u : u = G(u)
  BY <1>6
<1>8. f = G(f)
  BY <1>7
<1>9. FlattenSeq(seqs) = f[c]
  BY DEF FlattenSeq
<1> HIDE DEF f
<1>10. f[1] = seqs[1] /\ \A j \in 2 .. c : f[j] = f[j - 1] \o seqs[j]
  <2>1. 1 \in 1 .. c /\ \A j \in 2 .. c : j \in 1 .. c /\ j # 1
    OBVIOUS
  <2>2. QED
    BY <1>8, <2>1
<1>11. QED
  BY <1>9, <1>10

\* Flattening one sequence more appends it.
LEMMA FlattenAppend ==
  ASSUME NEW s, NEW t, NEW c \in Nat, Len(s) = c, Len(t) = c + 1,
         \A j \in 1 .. c : t[j] = s[j]
  PROVE  FlattenSeq(t) = IF c = 0 THEN t[1] ELSE FlattenSeq(s) \o t[c + 1]
<1> DEFINE d == c + 1
<1>1. d \in Nat /\ d # 0 /\ Len(t) = d
  OBVIOUS
<1> HIDE DEF d
<1>2. PICK g : /\ g[1] = t[1]
               /\ \A j \in 2 .. d : g[j] = g[j - 1] \o t[j]
               /\ FlattenSeq(t) = g[d]
  BY <1>1, FlattenIs
<1>3. CASE c = 0
  <2>1. d = 1
    BY <1>3 DEF d
  <2>2. QED
    BY <1>2, <1>3, <2>1
<1>4. CASE c # 0
  <2>1. PICK f : /\ f[1] = s[1]
                 /\ \A j \in 2 .. c : f[j] = f[j - 1] \o s[j]
                 /\ FlattenSeq(s) = f[c]
    BY <1>4, FlattenIs
  <2> DEFINE T == {m \in Nat : m + 1 <= c => f[m + 1] = g[m + 1]}
  <2>2. 0 \in T
    <3>1. 1 \in 1 .. c
      BY <1>4
    <3>2. QED
      BY <1>2, <2>1, <3>1
  <2>3. \A m \in Nat : m \in T => m + 1 \in T
    <3> SUFFICES ASSUME NEW m \in Nat, m \in T, (m + 1) + 1 <= c
                 PROVE  f[(m + 1) + 1] = g[(m + 1) + 1]
      OBVIOUS
    <3> DEFINE j == (m + 1) + 1
    <3>1. j \in 2 .. c /\ j \in 2 .. d /\ j \in 1 .. c /\ j - 1 = m + 1 /\ m + 1 <= c
      BY DEF d
    <3>2. f[m + 1] = g[m + 1]
      BY <3>1
    <3> HIDE DEF j
    <3>3. f[j] = f[j - 1] \o s[j]
      BY <2>1, <3>1
    <3>4. g[j] = g[j - 1] \o t[j]
      BY <1>2, <3>1
    <3>5. s[j] = t[j] /\ f[j - 1] = g[j - 1]
      BY <3>1, <3>2
    <3>6. f[j] = g[j]
      BY <3>3, <3>4, <3>5
    <3>7. QED
      BY <3>6 DEF j
  <2>4. c - 1 \in Nat /\ (c - 1) + 1 = c
    BY <1>4
  <2>5. c - 1 \in T
    <3> HIDE DEF T
    <3>1. QED
      BY <2>2, <2>3, <2>4, SetInduction
  <2>6. f[c] = g[c]
    BY <2>4, <2>5
  <2>7. d \in 2 .. d /\ d - 1 = c
    BY <1>4 DEF d
  <2>8. g[d] = g[c] \o t[d]
    BY <1>2, <2>7
  <2>9. QED
    BY <1>2, <1>4, <2>1, <2>6, <2>8 DEF d
<1>5. QED
  BY <1>3, <1>4

-----------------------------------------------------------------------------
(* The lines of a part up to line m, as Names and Expected have all lines. *)

LineBound(p, j) ==
  Bound(p.lines[j], p.template[j], Least(Splits(p.lines[j], p.template[j])))
NamesUpto(p, m) == UNION {NamesOf(p.template[j]) : j \in 1 .. m}
WithUpto(p, n, m) == {j \in 1 .. m : n \in NamesOf(p.template[j])}
TailUpto(p, n, m) ==
  {j \in WithUpto(p, n, m) :
     \A i \in WithUpto(p, n, m) : i >= j => LineBound(p, i)[n].array}
ArrayValues(p, n, S) == [i \in 1 .. Cardinality(S) |-> LineBound(p, Nth(S, i))[n].values]
ExpectedUpto(p, n, m) ==
  IF TailUpto(p, n, m) = {} THEN LineBound(p, Max(WithUpto(p, n, m)))[n]
  ELSE Array(FlattenSeq(ArrayValues(p, n, TailUpto(p, n, m))))
ValuesUpto(p, m) == [n \in NamesUpto(p, m) |-> ExpectedUpto(p, n, m)]

\* A line binds its names, each to an array or to a scalar.
LEMMA LineBoundHas ==
  ASSUME NEW p, NEW j
  PROVE  /\ DOMAIN LineBound(p, j) = NamesOf(p.template[j])
         /\ \A n \in NamesOf(p.template[j]) :
              /\ LineBound(p, j)[n].array \in BOOLEAN
              /\ LineBound(p, j)[n].array => LineBound(p, j)[n] = Array(LineBound(p, j)[n].values)
<1> DEFINE B == LineBound(p, j)
           N == NamesOf(p.template[j])
           A(n) == Pieces(p.lines[j], p.template[j], Least(Splits(p.lines[j], p.template[j])), n)
           S(n) == Piece(p.lines[j], Least(Splits(p.lines[j], p.template[j])),
                         Max(Occurrences(p.template[j], n)))
<1>1. B = [n \in N |-> IF Rightmost(p.template[j], n).array THEN Array(A(n)) ELSE Scalar(S(n))]
  BY DEF LineBound, Bound
<1> HIDE DEF B, N, A, S
<1>2. \A v : /\ Array(v).array = TRUE /\ Array(v).values = v
             /\ Scalar(v).array = FALSE
  BY DEF Array, Scalar
<1>3. \A n \in N : B[n] = Array(A(n)) \/ B[n] = Scalar(S(n))
  BY <1>1
<1>4. DOMAIN B = N
  BY <1>1
<1>5. \A n \in N : B[n].array \in BOOLEAN /\ (B[n].array => B[n] = Array(B[n].values))
  BY <1>2, <1>3
<1>6. QED
  BY <1>4, <1>5 DEF B, N

\* Sets of lines are sets of numbers.
LEMMA LinesUpto ==
  ASSUME NEW p, NEW n, NEW m \in Nat
  PROVE  /\ WithUpto(p, n, m) \in SUBSET (0 .. m)
         /\ TailUpto(p, n, m) \in SUBSET (0 .. m)
         /\ TailUpto(p, n, m) \subseteq WithUpto(p, n, m)
         /\ \A j \in WithUpto(p, n, m) : j <= m /\ j \in Nat /\ n \in NamesOf(p.template[j])
         /\ n \in NamesUpto(p, m) <=> WithUpto(p, n, m) # {}
BY DEF WithUpto, TailUpto, NamesUpto

\* What one more line does to them.
LEMMA TailGrows ==
  ASSUME NEW p, NEW n, NEW m \in Nat
  PROVE  LET k == m + 1
             it == n \in NamesOf(p.template[k])
             array == LineBound(p, k)[n].array
         IN /\ WithUpto(p, n, k) = WithUpto(p, n, m) \cup (IF it THEN {k} ELSE {})
            /\ ~it => TailUpto(p, n, k) = TailUpto(p, n, m)
            /\ it /\ ~array => TailUpto(p, n, k) = {}
            /\ it /\ array => TailUpto(p, n, k) = TailUpto(p, n, m) \cup {k}
<1> DEFINE k == m + 1
           it == n \in NamesOf(p.template[k])
           array == LineBound(p, k)[n].array
           W == WithUpto(p, n, m)
           U == WithUpto(p, n, k)
<1>1. \A j : j \in 1 .. k <=> j \in 1 .. m \/ j = k
  OBVIOUS
<1>2. k \notin 1 .. m /\ k >= k /\ \A j \in 1 .. m : k >= j /\ ~(j >= k)
  OBVIOUS
<1> HIDE DEF k
<1>3. U = W \cup (IF it THEN {k} ELSE {})
  BY <1>1 DEF WithUpto
<1>4. W \subseteq 1 .. m
  BY DEF WithUpto
<1> DEFINE A(j) == LineBound(p, j)[n].array
<1>5. /\ TailUpto(p, n, m) = {j \in W : \A i \in W : i >= j => A(i)}
      /\ TailUpto(p, n, k) = {j \in U : \A i \in U : i >= j => A(i)}
  BY DEF TailUpto
<1> HIDE DEF W, U, A
<1>6. ~it => TailUpto(p, n, k) = TailUpto(p, n, m)
  BY <1>3, <1>5
<1>7. it => U = W \cup {k}
  BY <1>3
<1>8. ASSUME it, ~A(k) PROVE TailUpto(p, n, k) = {}
  <2>1. \A j \in U : k \in U /\ k >= j
    BY <1>2, <1>4, <1>7, <1>8
  <2>2. QED
    BY <1>5, <1>8, <2>1
<1>9. ASSUME it, A(k) PROVE TailUpto(p, n, k) = TailUpto(p, n, m) \cup {k}
  <2>1. \A i \in U : i >= k => i = k
    BY <1>2, <1>4, <1>7, <1>9
  <2>2. k \in TailUpto(p, n, k)
    BY <1>5, <1>7, <1>9, <2>1
  <2>3. \A j \in W : (\A i \in U : i >= j => A(i)) <=> (\A i \in W : i >= j => A(i))
    BY <1>7, <1>9
  <2>4. QED
    BY <1>5, <1>7, <1>9, <2>2, <2>3
<1>10. QED
  BY <1>3, <1>6, <1>8, <1>9 DEF W, U, A, k

\* What is expected of some lines is an array iff their tail is not empty.
LEMMA TailIsArray ==
  ASSUME NEW p, NEW n, NEW m \in Nat, n \in NamesUpto(p, m)
  PROVE  /\ TailUpto(p, n, m) = {} => ~ExpectedUpto(p, n, m).array
         /\ TailUpto(p, n, m) # {} =>
              /\ ExpectedUpto(p, n, m).array
              /\ ExpectedUpto(p, n, m).values
                   = FlattenSeq(ArrayValues(p, n, TailUpto(p, n, m)))
<1> DEFINE W == WithUpto(p, n, m)
           T == TailUpto(p, n, m)
<1>1. W \in SUBSET (0 .. m) /\ W # {} /\ \A j \in W : j \in Nat
  BY LinesUpto
<1>2. T = {j \in W : \A i \in W : i >= j => LineBound(p, i)[n].array}
  BY DEF TailUpto
<1> HIDE DEF W, T
<1>3. Max(W) \in W /\ \A y \in W : Max(W) >= y
  BY <1>1, MaxIsGreatest
<1>4. ASSUME T = {} PROVE ~ExpectedUpto(p, n, m).array
  <2>1. PICK i \in W : i >= Max(W) /\ ~LineBound(p, i)[n].array
    BY <1>2, <1>3, <1>4
  <2>2. i = Max(W)
    <3>1. Max(W) >= i /\ i \in Nat /\ Max(W) \in Nat
      BY <1>1, <1>3
    <3>2. QED
      BY <2>1, <3>1
  <2>3. ExpectedUpto(p, n, m) = LineBound(p, Max(W))[n]
    BY <1>4 DEF ExpectedUpto, W, T
  <2>4. QED
    BY <2>1, <2>2, <2>3
<1>5. ASSUME T # {}
      PROVE  /\ ExpectedUpto(p, n, m).array
             /\ ExpectedUpto(p, n, m).values = FlattenSeq(ArrayValues(p, n, T))
  <2>1. ExpectedUpto(p, n, m) = Array(FlattenSeq(ArrayValues(p, n, T)))
    BY <1>5 DEF ExpectedUpto, T
  <2>2. \A v : Array(v).array /\ Array(v).values = v
    BY DEF Array
  <2>3. QED
    BY <2>1, <2>2
<1>6. QED
  BY <1>4, <1>5 DEF T

\* One step of the loop: merging a line's bindings adds it to what is expected.
LEMMA MergeStep ==
  ASSUME NEW p, NEW m \in Nat
  PROVE  merge(ValuesUpto(p, m), LineBound(p, m + 1)) = ValuesUpto(p, m + 1)
<1> DEFINE k == m + 1
           source == ValuesUpto(p, m)
           dest == LineBound(p, k)
           N == NamesOf(p.template[k])
           both(n) == n \in DOMAIN source /\ source[n].array /\ dest[n].array
           new(n) == IF both(n) THEN Array(source[n].values \o dest[n].values) ELSE dest[n]
<1>1. /\ DOMAIN dest = N
      /\ \A n \in N : /\ dest[n].array \in BOOLEAN
                      /\ dest[n].array => dest[n] = Array(dest[n].values)
  BY LineBoundHas
<1>2. DOMAIN source = NamesUpto(p, m)
      /\ \A n \in NamesUpto(p, m) : source[n] = ExpectedUpto(p, n, m)
  BY DEF ValuesUpto
<1>3. NamesUpto(p, k) = NamesUpto(p, m) \cup N
  <2>1. \A j : j \in 1 .. k <=> j \in 1 .. m \/ j = k
    OBVIOUS
  <2>2. QED
    BY <2>1 DEF NamesUpto
<1>4. merge(source, dest) =
        [n \in NamesUpto(p, m) \cup N |-> IF n \in N THEN new(n) ELSE source[n]]
  <2> DEFINE f == [n \in N |-> new(n)]
  <2>1. merge(source, dest) = Put(source, f)
    BY <1>1 DEF merge
  <2>2. DOMAIN f = N /\ \A n \in N : f[n] = new(n)
    OBVIOUS
  <2> HIDE DEF f, new, N, source, dest
  <2>3. QED
    BY <1>2, <2>1, <2>2 DEF Put
<1>5. k \in Nat /\ k > m
  OBVIOUS
<1>6. \A n : /\ WithUpto(p, n, k) = WithUpto(p, n, m) \cup (IF n \in N THEN {k} ELSE {})
             /\ n \notin N => TailUpto(p, n, k) = TailUpto(p, n, m)
             /\ n \in N /\ ~dest[n].array => TailUpto(p, n, k) = {}
             /\ n \in N /\ dest[n].array => TailUpto(p, n, k) = TailUpto(p, n, m) \cup {k}
  BY TailGrows
<1>7. \A n : /\ WithUpto(p, n, m) \in SUBSET (0 .. m)
             /\ TailUpto(p, n, m) \in SUBSET (0 .. m)
             /\ TailUpto(p, n, m) \subseteq WithUpto(p, n, m)
             /\ \A j \in WithUpto(p, n, m) : j <= m /\ j \in Nat
             /\ n \in NamesUpto(p, m) <=> WithUpto(p, n, m) # {}
  BY LinesUpto
<1> HIDE DEF k, N, source, dest
<1>8. \A n \in NamesUpto(p, m) : n \notin N => ExpectedUpto(p, n, k) = source[n]
  <2> SUFFICES ASSUME NEW n \in NamesUpto(p, m), n \notin N
               PROVE  ExpectedUpto(p, n, k) = ExpectedUpto(p, n, m)
    BY <1>2
  <2>1. WithUpto(p, n, k) = WithUpto(p, n, m) \cup {}
    BY <1>6
  <2>2. WithUpto(p, n, k) = WithUpto(p, n, m) /\ TailUpto(p, n, k) = TailUpto(p, n, m)
    BY <1>6, <2>1
  <2>3. QED
    BY <2>2 DEF ExpectedUpto
<1>9. ASSUME NEW n \in N, ~dest[n].array PROVE ExpectedUpto(p, n, k) = new(n)
  <2> DEFINE W == WithUpto(p, n, m)
  <2>1. WithUpto(p, n, k) = W \cup {k} /\ TailUpto(p, n, k) = {}
    BY <1>6, <1>9
  <2>2. W \cup {k} \in SUBSET (0 .. k) /\ W \cup {k} # {} /\ \A j \in W : j < k /\ j \in Nat
    BY <1>5, <1>7
  <2>3. Max(W \cup {k}) \in W \cup {k} /\ \A y \in W \cup {k} : Max(W \cup {k}) >= y
    <3> DEFINE V == W \cup {k}
    <3> HIDE DEF V
    <3>1. V \in SUBSET (0 .. k) /\ V # {}
      BY <2>2 DEF V
    <3>2. Max(V) \in V /\ \A y \in V : Max(V) >= y
      BY <1>5, <3>1, MaxIsGreatest
    <3>3. QED
      BY <3>2 DEF V
  <2>4. Max(W \cup {k}) = k
    BY <1>5, <2>2, <2>3
  <2>5. ExpectedUpto(p, n, k) = LineBound(p, k)[n]
    BY <2>1, <2>4 DEF ExpectedUpto
  <2>6. QED
    BY <1>9, <2>5 DEF dest
<1>10. ASSUME NEW n \in N, dest[n].array PROVE ExpectedUpto(p, n, k) = new(n)
  <2> DEFINE T == TailUpto(p, n, m)
             s == ArrayValues(p, n, T)
             U == T \cup {k}
             t == ArrayValues(p, n, U)
             c == Cardinality(T)
  <2>1. TailUpto(p, n, k) = U
    BY <1>6, <1>10
  <2>2. T \in SUBSET (0 .. k) /\ k \in 0 .. k /\ \A j \in T : j < k
    BY <1>5, <1>7
  <2>3. IsFiniteSet(T) /\ c \in Nat
    BY <1>5, <2>2, FiniteBelow
  <2> HIDE DEF T
  <2>4. /\ Cardinality(U) = c + 1
        /\ \A j \in 1 .. c : Nth(U, j) = Nth(T, j)
        /\ Nth(U, c + 1) = k
    BY <1>5, <2>2, NthAppend
  <2> HIDE DEF U
  <2>5. /\ s = [i \in 1 .. c |-> LineBound(p, Nth(T, i))[n].values]
        /\ t = [i \in 1 .. c + 1 |-> LineBound(p, Nth(U, i))[n].values]
    BY <2>4 DEF ArrayValues
  <2> HIDE DEF c, s, t
  <2>6. Len(s) = c /\ Len(t) = c + 1
    BY <2>3, <2>5
  <2>7. \A j \in 1 .. c : t[j] = s[j]
    BY <2>3, <2>4, <2>5
  <2>8. t[c + 1] = dest[n].values
    <3>1. c + 1 \in 1 .. c + 1
      BY <2>3
    <3>2. QED
      BY <2>4, <2>5, <3>1 DEF dest
  <2>9. FlattenSeq(t) = IF c = 0 THEN t[1] ELSE FlattenSeq(s) \o t[c + 1]
    BY <2>3, <2>6, <2>7, FlattenAppend
  <2>10. ExpectedUpto(p, n, k) = Array(FlattenSeq(t))
    <3>1. U # {}
      BY DEF U
    <3>2. QED
      BY <2>1, <3>1 DEF ExpectedUpto, t
  <2>11. CASE T = {}
    <3>1. c = 0
      BY <2>11, FS_EmptySet DEF c
    <3>2. ExpectedUpto(p, n, k) = Array(dest[n].values)
      <4>1. 0 + 1 = 1
        OBVIOUS
      <4>2. QED
        BY <2>8, <2>9, <2>10, <3>1, <4>1
    <3>3. ExpectedUpto(p, n, k) = dest[n]
      BY <1>1, <1>10, <3>2
    <3>4. ~both(n)
      <4>1. n \in NamesUpto(p, m) => ~ExpectedUpto(p, n, m).array
        BY <2>11, TailIsArray DEF T
      <4>2. QED
        BY <1>2, <4>1
    <3>5. QED
      BY <3>3, <3>4
  <2>12. CASE T # {}
    <3>1. n \in NamesUpto(p, m)
      BY <1>7, <2>12 DEF T
    <3>2. source[n].array /\ source[n].values = FlattenSeq(s)
      BY <1>2, <2>12, <3>1, TailIsArray DEF T, s
    <3>3. both(n)
      BY <1>2, <1>10, <3>1, <3>2
    <3>4. c # 0
      BY <2>3, <2>12, FS_EmptySet DEF c
    <3>5. QED
      BY <2>8, <2>9, <2>10, <3>2, <3>3, <3>4
  <2>13. QED
    BY <2>11, <2>12
<1>11. \A n \in N : ExpectedUpto(p, n, k) = new(n)
  BY <1>1, <1>9, <1>10
<1>12. ValuesUpto(p, k) = [n \in NamesUpto(p, m) \cup N |-> ExpectedUpto(p, n, k)]
  BY <1>3 DEF ValuesUpto
<1> HIDE DEF new
<1>13. merge(source, dest) = ValuesUpto(p, k)
  BY <1>4, <1>8, <1>11, <1>12
<1>14. QED
  BY <1>13 DEF k, source, dest

\* All lines: what Names and Expected say.
LEMMA ExpectedOfAll ==
  ASSUME NEW p, NEW c \in Nat, DOMAIN p.template = 1 .. c, DOMAIN p.lines = 1 .. c
  PROVE  ValuesUpto(p, c) = [n \in Names(p) |-> Expected(p, n)]
<1>1. Names(p) = NamesUpto(p, c)
  BY DEF Names, NamesUpto
<1>2. ASSUME NEW n PROVE Expected(p, n) = ExpectedUpto(p, n, c)
  <2> DEFINE bound(j) == Bound(p.lines[j], p.template[j],
                               Least(Splits(p.lines[j], p.template[j])))
             with == {j \in DOMAIN p.lines : n \in NamesOf(p.template[j])}
             arrays == {j \in with : \A i \in with : i >= j => bound(i)[n].array}
             at == InOrder(arrays)
             T == TailUpto(p, n, c)
  <2>1. \A j : bound(j) = LineBound(p, j)
    BY DEF LineBound
  <2>2. with = WithUpto(p, n, c)
    BY DEF WithUpto
  <2>3. Expected(p, n) =
          IF arrays = {} THEN bound(Max(with))[n]
          ELSE Array(FlattenSeq([i \in DOMAIN at |-> bound(at[i])[n].values]))
    BY DEF Expected
  <2> HIDE DEF with, bound
  <2>4. arrays = T
    BY <2>1, <2>2 DEF TailUpto
  <2>5. at = [i \in 1 .. Cardinality(T) |-> Nth(T, i)]
    BY <2>4 DEF InOrder
  <2> HIDE DEF arrays, at, T
  <2>6. [i \in DOMAIN at |-> bound(at[i])[n].values] = ArrayValues(p, n, T)
    BY <2>1, <2>5 DEF ArrayValues
  <2>7. QED
    BY <2>1, <2>2, <2>3, <2>4, <2>6 DEF ExpectedUpto, T
<1>3. QED
  BY <1>1, <1>2 DEF ValuesUpto

\* parse against its definition.
LEMMA ParseIsLeastSplits ==
  ASSUME NEW p, p.template \in Seq(Seq(Token)), p.lines \in Seq(Characters)
  PROVE  \/ /\ Splittable(p)
            /\ parse(p.template, p.lines) = Match([n \in Names(p) |-> Expected(p, n)])
         \/ ~Splittable(p) /\ parse(p.template, p.lines) = Mismatch
         \/ /\ parse(p.template, p.lines) = Failure
            /\ \E j \in DOMAIN p.template \cap DOMAIN p.lines :
                 \/ Overruns(p.lines[j], p.template[j])
                 \/ MixesKinds(p.template[j])
<1> DEFINE t == p.template
           l == p.lines
           res == parse(t, l)
           S(j) == Splits(l[j], t[j])
           cause(j) == Overruns(l[j], t[j]) \/ MixesKinds(t[j])
<1>1. /\ Len(t) \in Nat /\ Len(l) \in Nat
      /\ DOMAIN t = 1 .. Len(t) /\ DOMAIN l = 1 .. Len(l)
      /\ \A j \in 1 .. Len(t) : t[j] \in Seq(Token)
      /\ \A j \in 1 .. Len(l) : l[j] \in Characters
  OBVIOUS
<1>2. PICK c \in Nat : \E found, r : ParsedIn(t, l, c, found, r)
  BY <1>1, ParseIs
<1>2a. PICK found, r : ParsedIn(t, l, c, found, r)
  BY <1>2
<1>3. LET bad == {j \in 1 .. c : found[j].status # "match"} IN
      /\ c <= Len(t) /\ c <= Len(l) /\ (c = Len(t) \/ c = Len(l))
      /\ \A j \in 1 .. c : found[j] = parseLine(l[j], t[j])
      /\ r[0] = NoVars
      /\ \A j \in 1 .. c : r[j] = merge(r[j - 1], found[j].vars)
      /\ res = IF bad # {} THEN found[Min(bad)]
               ELSE IF Len(t) # Len(l) THEN Mismatch
               ELSE Match(r[c])
  BY <1>2a DEF ParsedIn
<1> DEFINE bad == {j \in 1 .. c : found[j].status # "match"}
<1>4. \A j \in 1 .. c : j \in 1 .. Len(t) /\ j \in 1 .. Len(l)
  BY <1>1, <1>3
<1>5. \A j \in 1 .. c :
        \/ S(j) # {} /\ found[j] = Match(LineBound(p, j))
        \/ S(j) = {} /\ found[j] = Mismatch
        \/ found[j] = Failure /\ cause(j)
  <2> SUFFICES ASSUME NEW j \in 1 .. c
               PROVE  \/ S(j) # {} /\ found[j] = Match(LineBound(p, j))
                      \/ S(j) = {} /\ found[j] = Mismatch
                      \/ found[j] = Failure /\ cause(j)
    OBVIOUS
  <2>1. found[j] = parseLine(l[j], t[j])
    BY <1>3
  <2>2. t[j] \in Seq(Token) /\ l[j] \in Characters
    BY <1>1, <1>4
  <2>3. QED
    BY <2>1, <2>2, ParseLineIsLeastSplit DEF LineBound
<1>6. res = IF bad # {} THEN found[Min(bad)]
            ELSE IF Len(t) # Len(l) THEN Mismatch
            ELSE Match(r[c])
  BY <1>3
<1>7. Splittable(p) <=> Len(t) = Len(l) /\ \A j \in 1 .. Len(l) : S(j) # {}
  BY <1>1 DEF Splittable
<1>8. bad \in SUBSET Nat /\ \A j \in 1 .. c : j \notin bad => found[j].status = "match"
  OBVIOUS
<1>9. \A j \in bad : j \in 1 .. c /\ found[j].status # "match"
  OBVIOUS
<1> HIDE DEF bad, S, cause, res
<1>10. CASE bad # {}
  <2> DEFINE j == Min(bad)
  <2>1. j \in bad
    BY <1>8, <1>10, MinIsLeast
  <2>2. j \in 1 .. c /\ found[j].status # "match" /\ res = found[j]
    BY <1>6, <1>9, <1>10, <2>1
  <2> HIDE DEF j
  <2>3. CASE S(j) = {} /\ found[j] = Mismatch
    BY <1>4, <1>7, <2>2, <2>3 DEF res
  <2>4. CASE found[j] = Failure /\ cause(j)
    <3>1. j \in DOMAIN t \cap DOMAIN l
      BY <1>1, <1>4, <2>2
    <3>2. QED
      BY <2>2, <2>4, <3>1 DEF res, cause
  <2>5. ~(found[j] = Match(LineBound(p, j)))
    BY <2>2, Statuses
  <2>6. QED
    BY <1>5, <2>2, <2>3, <2>4, <2>5
<1>11. CASE bad = {}
  <2>1. \A j \in 1 .. c : S(j) # {} /\ found[j] = Match(LineBound(p, j))
    <3>1. \A j \in 1 .. c : found[j].status = "match"
      BY <1>8, <1>11
    <3>2. \A j \in 1 .. c : found[j] # Mismatch /\ found[j] # Failure
      BY <3>1, Statuses
    <3>3. QED
      BY <1>5, <3>2
  <2>2. CASE Len(t) # Len(l)
    BY <1>6, <1>7, <1>11, <2>2 DEF res
  <2>3. CASE Len(t) = Len(l)
    <3>1. c = Len(t) /\ c = Len(l)
      BY <1>3, <2>3
    <3>2. Splittable(p)
      BY <1>7, <2>1, <2>3, <3>1
    <3>3. res = Match(r[c])
      BY <1>6, <1>11, <2>3
    <3>4. \A j \in 1 .. c : r[j] = merge(r[j - 1], LineBound(p, j))
      <4>1. \A j \in 1 .. c : found[j].vars = LineBound(p, j)
        BY <2>1, Statuses
      <4>2. QED
        BY <1>3, <4>1
    <3> DEFINE T == {m \in Nat : m <= c => r[m] = ValuesUpto(p, m)}
    <3>5. 0 \in T
      <4>1. NamesUpto(p, 0) = {}
        BY DEF NamesUpto
      <4>2. ValuesUpto(p, 0) = NoVars
        BY <4>1 DEF ValuesUpto, NoVars
      <4>3. QED
        BY <1>3, <4>2
    <3>6. \A m \in Nat : m \in T => m + 1 \in T
      <4> SUFFICES ASSUME NEW m \in Nat, m \in T, m + 1 <= c
                   PROVE  r[m + 1] = ValuesUpto(p, m + 1)
        OBVIOUS
      <4>1. r[m] = ValuesUpto(p, m)
        OBVIOUS
      <4>2. m + 1 \in 1 .. c /\ (m + 1) - 1 = m
        OBVIOUS
      <4>3. r[m + 1] = merge(r[m], LineBound(p, m + 1))
        BY <3>4, <4>2
      <4>4. QED
        BY <4>1, <4>3, MergeStep
    <3>7. c \in T
      <4> HIDE DEF T
      <4>1. QED
        BY <3>5, <3>6, SetInduction
    <3>8. r[c] = ValuesUpto(p, c)
      BY <3>7
    <3>9. ValuesUpto(p, c) = [n \in Names(p) |-> Expected(p, n)]
      BY <1>1, <3>1, ExpectedOfAll
    <3>10. QED
      BY <3>2, <3>3, <3>8, <3>9 DEF res
  <2>4. QED
    BY <2>2, <2>3
<1>12. QED
  BY <1>10, <1>11

-----------------------------------------------------------------------------
(* A request template and what it stands against are typed.                *)

Part == Seq(Line) \ {<<>>}

\* The tokens of a line.
LEMMA TokensTyped ==
  ASSUME NEW line \in Line
  PROVE  TokensOf(line) \in Seq(Token)
<1>1. line.tokens \in Seq(Token)
  BY DEF Line
<1>2. "h" \in Character
  BY CharacterAssumption
<1>3. <<"h">> \in Characters
  BY <1>2 DEF Characters
<1>4. Text(<<"h">>) \in Token
  BY <1>3 DEF Text, Token
<1>5. <<Text(<<"h">>)>> \in Seq(Token)
  BY <1>4
<1>6. <<Text(<<"h">>)>> \o line.tokens \in Seq(Token)
  BY <1>1, <1>5, ConcatProperties
<1>7. QED
  BY <1>1, <1>6 DEF TokensOf

\* The lines of a text.
LEMMA LinesTyped ==
  ASSUME NEW S, NEW text \in Seq(S)
  PROVE  Lines(text) \in Seq(Seq(S))
BY DEF Lines

\* A stretch of lines, line by line.
LEMMA SubIs ==
  ASSUME NEW part \in Seq(Line), NEW i \in Nat \ {0}, NEW j \in Int, j <= Len(part)
  PROVE  /\ SubSeq(part, i, j) \in Seq(Line)
         /\ Len(SubSeq(part, i, j)) = IF i <= j THEN j - i + 1 ELSE 0
         /\ \A m \in 1 .. j - i + 1 : SubSeq(part, i, j)[m] = part[i + m - 1]
<1>1. \A m \in i .. j : part[m] \in Line
  <2>1. \A m \in i .. j : m \in 1 .. Len(part)
    OBVIOUS
  <2>2. QED
    BY <2>1, ElementOfSeq
<1>2. QED
  BY <1>1, SubSeqProperties

\* Where the header ends.
LEMMA HeaderEndIs ==
  ASSUME NEW part \in Part
  PROVE  HeaderEnd(part) \in 2 .. Len(part) + 1
<1> DEFINE S == {i \in 2 .. Len(part) : IsEmpty(part[i])} \cup {Len(part) + 1}
<1>1. Len(part) \in Nat /\ Len(part) # 0
  BY DEF Part
<1>2. S \in SUBSET Nat /\ S # {} /\ \A i \in S : i \in 2 .. Len(part) + 1
  BY <1>1
<1>3. HeaderEnd(part) = Min(S)
  BY DEF HeaderEnd
<1> HIDE DEF S
<1>4. QED
  BY <1>2, <1>3, MinIsLeast

\* The header is a line of the template.
LEMMA HeaderTyped ==
  ASSUME NEW part \in Part, HasHeader(part)
  PROVE  HeaderTemplate(part) \in Line
<1> DEFINE S == HeadersAt(part)
           b == Len(part)
<1>1. b \in Nat /\ part \in Seq(Line)
  BY DEF Part
<1>2. HeaderEnd(part) \in 2 .. b + 1
  BY HeaderEndIs
<1>3. S \in SUBSET (0 .. b) /\ S # {} /\ \A i \in S : i \in 1 .. b
  BY <1>1, <1>2 DEF HeadersAt, HasHeader
<1> HIDE DEF S, b
<1>4. Max(S) \in 1 .. b
  BY <1>1, <1>3, MaxIsGreatest
<1>5. QED
  BY <1>1, <1>4, ElementOfSeq DEF HeaderTemplate, S, b

\* The body is a template of lines.
LEMMA BodyTyped ==
  ASSUME NEW part \in Part
  PROVE  BodyTemplate(part) \in Seq(Seq(Token))
<1> DEFINE body == SubSeq(part, HeaderEnd(part) + 1, Len(part))
           S == {i \in DOMAIN body : ~IsEmpty(body[i])} \cup {Len(body) + 1}
           first == Min(S)
           kept == SubSeq(body, first, Len(body))
           read == IF kept # <<>> /\ IsEmpty(Last(kept)) THEN Front(kept) ELSE kept
<1>1. BodyTemplate(part) = [i \in DOMAIN read |-> TokensOf(read[i])]
  BY DEF BodyTemplate
<1>2. part \in Seq(Line) /\ Len(part) \in Nat
  BY DEF Part
<1>3. HeaderEnd(part) + 1 \in Nat \ {0}
  BY <1>2, HeaderEndIs
<1>4. body \in Seq(Line)
  BY <1>2, <1>3, SubIs
<1> HIDE DEF body
<1>5. S \in SUBSET Nat /\ S # {} /\ \A i \in S : i \in Nat \ {0}
  BY <1>4
<1> HIDE DEF S
<1>6. first \in Nat \ {0}
  BY <1>5, MinIsLeast
<1> HIDE DEF first
<1>7. kept \in Seq(Line)
  <2>1. Len(body) \in Int /\ Len(body) <= Len(body)
    BY <1>4
  <2>2. QED
    BY <1>4, <1>6, <2>1, SubIs
<1> HIDE DEF kept
<1>8. Front(kept) \in Seq(Line)
  <2>1. Len(kept) - 1 \in Int /\ Len(kept) - 1 <= Len(kept) /\ 1 \in Nat \ {0}
    BY <1>7
  <2>2. SubSeq(kept, 1, Len(kept) - 1) \in Seq(Line)
    BY <1>7, <2>1, SubIs
  <2>3. QED
    BY <2>2 DEF Front
<1>9. read \in Seq(Line)
  BY <1>7, <1>8
<1> HIDE DEF read
<1>10. DOMAIN read = 1 .. Len(read) /\ Len(read) \in Nat /\ \A i \in 1 .. Len(read) : read[i] \in Line
  BY <1>9
<1>11. \A i \in 1 .. Len(read) : TokensOf(read[i]) \in Seq(Token)
  BY <1>10, TokensTyped
<1>12. BodyTemplate(part) \in [1 .. Len(read) -> Seq(Token)]
  BY <1>1, <1>10, <1>11
<1>13. QED
  BY <1>10, <1>12

-----------------------------------------------------------------------------
(* match against its definition.                                           *)

Values(p) == [n \in Names(p) |-> Expected(p, n)]
Took(asked, p) == IF asked /\ Splittable(p) THEN Values(p) ELSE NoVars
Spoiled(p) ==
  \E j \in DOMAIN p.template \cap DOMAIN p.lines :
    Overruns(p.lines[j], p.template[j]) \/ MixesKinds(p.template[j])
ValuesOfRule(part) ==
  Put(Put(Values(TopOf(part)), Took(HasHeader(part), HeaderOf(part))),
      Took(HasBody(part), BodyOf(part)))

\* What a part of the template comes to.
LEMMA TriesIs ==
  ASSUME NEW p, p.template \in Seq(Seq(Token)), p.lines \in Seq(Characters)
  PROVE  LET t == parse(p.template, p.lines) IN
         \/ Splittable(p) /\ t.status = "match" /\ t.vars = Values(p)
         \/ ~Splittable(p) /\ t.status = "none"
         \/ Spoiled(p) /\ t.status = "error"
<1> DEFINE t == parse(p.template, p.lines)
<1>1. \/ Splittable(p) /\ t = Match([n \in Names(p) |-> Expected(p, n)])
      \/ ~Splittable(p) /\ t = Mismatch
      \/ t = Failure /\ Spoiled(p)
  BY ParseIsLeastSplits DEF Spoiled
<1> HIDE DEF t
<1>2. \/ Splittable(p) /\ t.status = "match" /\ t.vars = Values(p)
      \/ ~Splittable(p) /\ t.status = "none"
      \/ Spoiled(p) /\ t.status = "error"
  BY <1>1, Statuses DEF Values
<1>3. QED
  BY <1>2 DEF t

\* match says whether the message has all that the rule asks for, binds the
\* values of the least splits, and fails only for a cause.
LEMMA MatchPartIs ==
  ASSUME NEW part \in Part, message \in Message
  PROVE  LET result == MatchPart(part, message) IN
         \/ FitsRule(part) /\ result.status = "match" /\ result.vars = ValuesOfRule(part)
         \/ ~FitsRule(part) /\ result.status = "none"
         \/ (\E p \in AllOf(part) : Spoiled(p)) /\ result.status = "error"
<1> DEFINE tries(p) == parse(p.template, p.lines)
           T == TopOf(part)
           H == HeaderOf(part)
           B == BodyOf(part)
           top == tries(T)
           h == tries(H)
           b == tries(B)
           has == HasHeader(part)
           asks == HasBody(part)
           optional == IsOptional(part)
           header == IF ~has THEN Match(NoVars)
                     ELSE IF h.status = "none" /\ optional THEN Match(NoVars) ELSE h
           body == IF ~asks THEN Match(NoVars) ELSE b
           result == MatchPart(part, message)
<1>1. result = IF top.status # "match" THEN top
               ELSE IF header.status # "match" THEN header
               ELSE IF body.status # "match" THEN body
               ELSE Match(Put(Put(top.vars, header.vars), body.vars))
  BY DEF MatchPart, TopOf, HeaderOf, BodyOf, HasBody
<1>2. /\ message.top \in Characters /\ message.header \in Characters
      /\ message.body \in Seq(Characters)
  BY DEF Message
<1>3. part \in Seq(Line) /\ part[1] \in Line
  <2>1. Len(part) \in Nat \ {0} /\ part \in Seq(Line)
    BY DEF Part
  <2>2. QED
    BY <2>1, ElementOfSeq
<1>4. T.template \in Seq(Seq(Token)) /\ T.lines \in Seq(Characters)
  <2>1. T.template = Lines(TokensOf(part[1])) /\ T.lines = Lines(message.top)
    BY DEF TopOf, TopLine
  <2>2. TokensOf(part[1]) \in Seq(Token)
    BY <1>3, TokensTyped
  <2>3. QED
    BY <1>2, <2>1, <2>2, LinesTyped DEF Characters
<1>5. has => H.template \in Seq(Seq(Token)) /\ H.lines \in Seq(Characters)
  <2>1. H.template = <<TokensOf(HeaderTemplate(part))>> /\ H.lines = Lines(message.header)
    BY DEF HeaderOf, HeaderLine
  <2>2. has => TokensOf(HeaderTemplate(part)) \in Seq(Token)
    BY HeaderTyped, TokensTyped
  <2>3. has => <<TokensOf(HeaderTemplate(part))>> \in Seq(Seq(Token))
    BY <2>2
  <2>4. Lines(message.header) \in Seq(Characters)
    BY <1>2, LinesTyped DEF Characters
  <2>5. QED
    BY <2>1, <2>3, <2>4
<1>6. B.template \in Seq(Seq(Token)) /\ B.lines \in Seq(Characters)
  <2>1. B.template = BodyTemplate(part) /\ B.lines = message.body
    BY DEF BodyOf, Body
  <2>2. QED
    BY <1>2, <2>1, BodyTyped
<1>7. \/ Splittable(T) /\ top.status = "match" /\ top.vars = Values(T)
      \/ ~Splittable(T) /\ top.status = "none"
      \/ Spoiled(T) /\ top.status = "error"
  BY <1>4, TriesIs
<1>8. has => \/ Splittable(H) /\ h.status = "match" /\ h.vars = Values(H)
             \/ ~Splittable(H) /\ h.status = "none"
             \/ Spoiled(H) /\ h.status = "error"
  BY <1>5, TriesIs
<1>9. \/ Splittable(B) /\ b.status = "match" /\ b.vars = Values(B)
      \/ ~Splittable(B) /\ b.status = "none"
      \/ Spoiled(B) /\ b.status = "error"
  BY <1>6, TriesIs
<1>10. FitsRule(part) <=> /\ Splittable(T)
                          /\ has => Splittable(H) \/ optional
                          /\ asks => Splittable(B)
  BY DEF FitsRule
<1>11. AllOf(part) = {T} \cup (IF has THEN {H} ELSE {}) \cup (IF asks THEN {B} ELSE {})
  BY DEF AllOf
<1>12. ValuesOfRule(part) = Put(Put(Values(T), Took(has, H)), Took(asks, B))
  BY DEF ValuesOfRule
<1>13. optional => has
  BY DEF IsOptional
<1> HIDE DEF T, H, B, top, h, b, has, asks, optional, result
<1>14. \/ (has => Splittable(H) \/ optional) /\ header.status = "match" /\ header.vars = Took(has, H)
       \/ has /\ ~Splittable(H) /\ ~optional /\ header.status = "none"
       \/ has /\ Spoiled(H) /\ header.status = "error"
  BY <1>8, Statuses DEF Took
<1>15. \/ (asks => Splittable(B)) /\ body.status = "match" /\ body.vars = Took(asks, B)
       \/ asks /\ ~Splittable(B) /\ body.status = "none"
       \/ asks /\ Spoiled(B) /\ body.status = "error"
  BY <1>9, Statuses DEF Took
<1> HIDE DEF header, body
<1>16. CASE top.status # "match"
  <2>1. result = top
    BY <1>1, <1>16
  <2>2. QED
    BY <1>7, <1>10, <1>11, <1>16, <2>1 DEF result
<1>17. CASE top.status = "match" /\ header.status # "match"
  <2>1. result = header
    BY <1>1, <1>17
  <2>2. QED
    BY <1>10, <1>11, <1>14, <1>17, <2>1 DEF result
<1>18. CASE top.status = "match" /\ header.status = "match" /\ body.status # "match"
  <2>1. result = body
    BY <1>1, <1>18
  <2>2. QED
    BY <1>10, <1>11, <1>15, <1>18, <2>1 DEF result
<1>19. CASE top.status = "match" /\ header.status = "match" /\ body.status = "match"
  <2>1. result = Match(Put(Put(top.vars, header.vars), body.vars))
    BY <1>1, <1>19
  <2>2. result.status = "match" /\ result.vars = Put(Put(top.vars, header.vars), body.vars)
    BY <2>1, Statuses
  <2>3. QED
    BY <1>7, <1>10, <1>12, <1>14, <1>15, <1>19, <2>2 DEF result
<1>20. QED
  BY <1>16, <1>17, <1>18, <1>19

-----------------------------------------------------------------------------
(* The script's state.                                                     *)

Rule == Seq(Part) \ {<<>>}

\* What is read and loaded is typed, and a message is tried from the first
\* rule on.
Shapes ==
  /\ file \in Files /\ file \in Seq(Line)
  /\ next \in 1 .. Len(file) + 1
  /\ parts \in Seq(Part) /\ lines \in Seq(Line)
  /\ rules \in Seq(Rule)
  /\ step \in Step
  /\ rule \in Nat \ {0}
  /\ step \in {"loading", "failed", "ready"} => rule = 1
  /\ step \in {"matching", "matched", "error", "unmatched"} => message \in Message
  /\ step \in {"matched", "error"} => rule <= Len(rules)

\* Every rule before the one to try was tried on this message and does not
\* fit it, and what the last one came to is explained.
Tried ==
  /\ \A r \in 1 .. rule - 1 : r <= Len(rules) /\ ~FitsRule(rules[r][1])
  /\ step = "matched" => /\ FitsRule(rules[rule][1])
                         /\ bindings = ValuesOfRule(rules[rule][1])
  /\ step = "error" => \E p \in AllOf(rules[rule][1]) : Spoiled(p)

IInv == Shapes /\ Tried

\* Cutting empty lines off leaves lines.
LEMMA ChopTyped ==
  ASSUME NEW part \in Seq(Line)
  PROVE  Chop(part) \in Seq(Line)
<1> DEFINE tail == IF part # <<>> /\ IsEmpty(Head(part)) THEN Tail(part) ELSE part
<1>1. tail \in Seq(Line)
  OBVIOUS
<1>2. Chop(part) = IF tail # <<>> /\ IsEmpty(Last(tail)) THEN Front(tail) ELSE tail
  BY DEF Chop
<1> HIDE DEF tail
<1>3. Front(tail) \in Seq(Line)
  <2>1. Len(tail) - 1 \in Int /\ Len(tail) - 1 <= Len(tail) /\ 1 \in Nat \ {0}
    BY <1>1
  <2>2. SubSeq(tail, 1, Len(tail) - 1) \in Seq(Line)
    BY <1>1, <2>1, SubIs
  <2>3. QED
    BY <2>2 DEF Front
<1>4. QED
  BY <1>1, <1>2, <1>3

\* A block is made of parts.
LEMMA AddLinesTyped ==
  ASSUME NEW block \in Seq(Part), NEW part \in Seq(Line)
  PROVE  AddLines(block, part) \in Seq(Part)
<1>1. Chop(part) \in Seq(Line)
  BY ChopTyped
<1>2. Chop(part) # <<>> => Chop(part) \in Part
  BY <1>1 DEF Part
<1>3. Chop(part) # <<>> => Append(block, Chop(part)) \in Seq(Part)
  BY <1>2
<1>4. QED
  BY <1>3 DEF AddLines

LEMMA ShapesInit == Init => Shapes
<1> SUFFICES ASSUME Init PROVE Shapes
  OBVIOUS
<1>1. file \in Seq(Line)
  BY FilesAssumption DEF Init
<1>2. Len(file) \in Nat
  BY <1>1
<1>3. 1 \in 1 .. Len(file) + 1
  BY <1>2
<1>4. QED
  BY <1>1, <1>3 DEF Init, Shapes, Step

LEMMA ShapesNext == Shapes /\ [Next]_vars => Shapes'
<1> SUFFICES ASSUME Shapes, [Next]_vars PROVE Shapes'
  OBVIOUS
<1> USE DEF Shapes, Step
<1>0. Len(file) \in Nat /\ next \in Nat
  OBVIOUS
<1>1. CASE ReadResponse
  <2>1. file[next] \in Line
    BY <1>1, <1>0, ElementOfSeq DEF ReadResponse
  <2>2. lines' \in Seq(Line)
    BY <1>1, <2>1 DEF ReadResponse
  <2>3. parts' \in Seq(Part)
    BY <1>1, AddLinesTyped DEF ReadResponse
  <2>4. next' \in 1 .. Len(file) + 1
    BY <1>1, <1>0 DEF ReadResponse
  <2>5. QED
    BY <1>1, <2>2, <2>3, <2>4 DEF ReadResponse, matching
<1>2. CASE ReadText
  <2>1. file[next] \in Line
    BY <1>2, <1>0, ElementOfSeq DEF ReadText
  <2>2. lines' \in Seq(Line)
    BY <1>2, <2>1 DEF ReadText
  <2>3. next' \in 1 .. Len(file) + 1
    BY <1>2, <1>0 DEF ReadText
  <2>4. QED
    BY <1>2, <2>2, <2>3 DEF ReadText, matching
<1>3. CASE EndBlock
  <2> DEFINE block == AddLines(parts, lines)
             E == {next + 1, Len(file) + 1}
  <2>1. block \in Seq(Part)
    BY AddLinesTyped
  <2>2. next' \in 1 .. Len(file) + 1
    <3>1. E \in SUBSET Nat /\ E # {}
      BY <1>0
    <3>2. next' = Min(E)
      BY <1>3 DEF EndBlock
    <3>3. Min(E) \in E /\ \A y \in E : Min(E) <= y
      <4> HIDE DEF E
      <4>1. QED
        BY <3>1, MinIsLeast
    <3>4. QED
      BY <1>0, <3>2, <3>3
  <2>3. \/ step' = "ready" /\ rules' = rules
        \/ step' = "failed" /\ rules' = <<>>
        \/ Len(block) # 0 /\ step' = step /\ rules' = Append(rules, block)
    BY <1>3 DEF EndBlock
  <2>4. /\ parts' = <<>> /\ lines' = <<>> /\ file' = file /\ rule' = rule
        /\ step = "loading"
    BY <1>3 DEF EndBlock, matching
  <2> HIDE DEF block
  <2>5. Len(block) # 0 => block \in Rule
    BY <2>1 DEF Rule
  <2>6. rules' \in Seq(Rule)
    <3>1. rules \in Seq(Rule) /\ <<>> \in Seq(Rule)
      OBVIOUS
    <3>2. block \in Rule => Append(rules, block) \in Seq(Rule)
      BY <3>1
    <3>3. QED
      BY <2>3, <2>5, <3>1, <3>2
  <2>7. QED
    BY <2>2, <2>3, <2>4, <2>6
<1>4. ASSUME NEW m \in Messages(file), Receive(m)
      PROVE  Shapes'
  <2>1. m \in Message
    BY MessagesAssumption
  <2>2. QED
    BY <1>4, <2>1 DEF Receive, reading
<1>5. CASE TryRule
  <2>1. \/ step' = "matched" /\ rule' = rule
        \/ step' = "error" /\ rule' = rule
        \/ step' = step /\ rule' = rule + 1
    BY <1>5 DEF TryRule
  <2>2. /\ step = "matching" /\ rule <= Len(rules)
        /\ message' = message /\ rules' = rules
        /\ file' = file /\ next' = next /\ parts' = parts /\ lines' = lines
    BY <1>5 DEF TryRule, reading
  <2>3. QED
    BY <2>1, <2>2
<1>6. CASE NoRuleLeft
  BY <1>6 DEF NoRuleLeft, reading, matching
<1>7. CASE UNCHANGED vars
  BY <1>7 DEF vars, reading, matching
<1>8. QED
  BY <1>1, <1>2, <1>3, <1>4, <1>5, <1>6, <1>7 DEF Next

\* The request part of a rule.
LEMMA RequestOfRule ==
  ASSUME Shapes, NEW r \in 1 .. Len(rules)
  PROVE  rules[r][1] \in Part
<1>1. rules[r] \in Rule
  BY ElementOfSeq DEF Shapes
<1>2. Len(rules[r]) \in Nat \ {0} /\ rules[r] \in Seq(Part)
  BY <1>1 DEF Rule
<1>3. QED
  BY <1>2, ElementOfSeq

\* What is tried depends on the request part and the message only.
LEMMA SameMessage ==
  ASSUME message' = message, NEW part
  PROVE  /\ FitsRule(part)' = FitsRule(part)
         /\ ValuesOfRule(part)' = ValuesOfRule(part)
         /\ AllOf(part)' = AllOf(part)
BY DEF FitsRule, ValuesOfRule, AllOf, TopOf, HeaderOf, BodyOf

LEMMA TriedInit == Init => Tried
BY DEF Init, Tried

LEMMA TriedNext == Shapes /\ Tried /\ [Next]_vars => Tried'
<1> SUFFICES ASSUME Shapes, Tried, [Next]_vars PROVE Tried'
  OBVIOUS
<1>0. rule \in Nat \ {0} /\ Len(rules) \in Nat
  BY DEF Shapes
<1>1. ASSUME rule' = 1, step' \notin {"matched", "error"}
      PROVE  Tried'
  BY <1>1 DEF Tried
<1>2. CASE ReadResponse
  BY <1>1, <1>2 DEF ReadResponse, matching, Shapes
<1>3. CASE ReadText
  BY <1>1, <1>3 DEF ReadText, matching, Shapes
<1>4. CASE EndBlock
  BY <1>1, <1>4 DEF EndBlock, matching, Shapes
<1>5. ASSUME NEW m \in Messages(file), Receive(m)
      PROVE  Tried'
  BY <1>1, <1>5 DEF Receive, Shapes
<1>6. CASE TryRule
  <2> DEFINE part == rules[rule][1]
             result == MatchPart(part, message)
  <2>1. step = "matching" /\ rule \in 1 .. Len(rules) /\ rules' = rules /\ message' = message
    BY <1>0, <1>6 DEF TryRule
  <2>2. \/ result.status = "match" /\ step' = "matched" /\ bindings' = result.vars /\ rule' = rule
        \/ result.status = "error" /\ step' = "error" /\ rule' = rule
        \/ result.status \notin {"match", "error"} /\ step' = "matching" /\ rule' = rule + 1
    BY <1>6 DEF TryRule
  <2>3. part \in Part /\ message \in Message
    BY <2>1, RequestOfRule DEF Shapes
  <2>4. \/ FitsRule(part) /\ result.status = "match" /\ result.vars = ValuesOfRule(part)
        \/ ~FitsRule(part) /\ result.status = "none"
        \/ (\E p \in AllOf(part) : Spoiled(p)) /\ result.status = "error"
    BY <2>3, MatchPartIs
  <2>5. \A p : FitsRule(p)' = FitsRule(p)
    BY <2>1, SameMessage
  <2>6. \A r \in 1 .. rule - 1 : r <= Len(rules) /\ ~FitsRule(rules[r][1])
    BY DEF Tried
  <2>7. \A r \in 1 .. rule - 1 : r <= Len(rules') /\ ~FitsRule(rules[r][1])'
    BY <2>1, <2>5, <2>6
  <2> HIDE DEF part, result
  <2>8. CASE step' = "matched"
    <3>1. rule' = rule /\ FitsRule(part) /\ bindings' = ValuesOfRule(part)
      BY <2>2, <2>4, <2>8
    <3>2. FitsRule(part)' /\ ValuesOfRule(part)' = ValuesOfRule(part) /\ part' = part
      BY <2>1, <3>1, SameMessage DEF part
    <3>3. QED
      BY <2>1, <2>7, <2>8, <3>1, <3>2 DEF Tried, part
  <2>9. CASE step' = "error"
    <3>1. rule' = rule /\ \E p \in AllOf(part) : Spoiled(p)
      BY <2>2, <2>4, <2>9
    <3>2. \A p : AllOf(p)' = AllOf(p)
      BY <2>1, SameMessage
    <3>3. rules[rule][1]' = part
      BY <2>1, <3>1 DEF part
    <3>4. \E p \in AllOf(rules[rule][1])' : Spoiled(p)
      BY <3>1, <3>2, <3>3
    <3>5. QED
      BY <2>1, <2>7, <2>9, <3>1, <3>4 DEF Tried
  <2>10. CASE step' = "matching"
    <3>1. rule' = rule + 1 /\ ~FitsRule(part)
      BY <2>2, <2>4, <2>10
    <3>2. \A r \in 1 .. rule' - 1 : r \in 1 .. rule - 1 \/ r = rule
      BY <1>0, <3>1
    <3>3. QED
      BY <2>1, <2>5, <2>7, <2>10, <3>1, <3>2 DEF Tried, part
  <2>11. QED
    BY <2>2, <2>8, <2>9, <2>10
<1>7. CASE NoRuleLeft
  <2>1. rules' = rules /\ rule' = rule /\ message' = message /\ step' = "unmatched"
    BY <1>7 DEF NoRuleLeft, matching
  <2>2. QED
    BY <2>1, SameMessage DEF Tried
<1>8. CASE UNCHANGED vars
  <2>1. /\ rules' = rules /\ rule' = rule /\ message' = message /\ step' = step
        /\ bindings' = bindings
    BY <1>8 DEF vars, matching
  <2>2. QED
    BY <2>1, SameMessage DEF Tried
<1>9. QED
  BY <1>2, <1>3, <1>4, <1>5, <1>6, <1>7, <1>8 DEF Next

\* Every state the script comes to has the inductive invariant.
LEMMA Invariance == Spec => []IInv
<1>1. Init => IInv
  BY ShapesInit, TriedInit DEF IInv
<1>2. IInv /\ [Next]_vars => IInv'
  BY ShapesNext, TriedNext DEF IInv
<1>3. QED
  BY <1>1, <1>2, PTL DEF Spec

\* The rules loaded have a request part and every message is tried against
\* rules that are there, whatever the files and the messages (load,
\* genResponse).
THEOREM TypeCorrect == Spec => []Shapes
BY Invariance, PTL DEF IInv

\* The rule that answers is the first one that the message fits, for every
\* file and every message: the search of parseLine misses no split and
\* invents none (genResponse, match, parse, parseLine).
THEOREM FirstRuleAnswers == Spec => []FirstFittingRule
<1>1. IInv => FirstFittingRule
  BY DEF IInv, Tried, FirstFittingRule
<1>2. QED
  BY <1>1, Invariance, PTL

\* The variables of the answering rule have the values of the least splits
\* of all lines, whatever the template and the message (match, parse, merge,
\* parseLine).
THEOREM LeastSplitIsBound == Spec => []LeastSplitBinds
<1>1. IInv => LeastSplitBinds
  BY DEF IInv, Tried, LeastSplitBinds, ValuesOfRule, Values, Took
<1>2. QED
  BY <1>1, Invariance, PTL

\* An exception in the search has one of the two causes, whatever the
\* template and the message (substring and the cast in parseLine).
THEOREM ErrorsAreExplained == Spec => []ErrorIsExplained
<1>1. IInv => ErrorIsExplained
  BY DEF IInv, Tried, ErrorIsExplained, Spoiled
<1>2. QED
  BY <1>1, Invariance, PTL

-----------------------------------------------------------------------------
(* A block is cut into the parts of the grammar.                           *)

\* A stretch of a stretch.
LEMMA SubOfSub ==
  ASSUME NEW part \in Seq(Line), NEW i \in Nat \ {0}, NEW j \in Int, j <= Len(part),
         i <= j + 1, NEW m \in Nat \ {0}, NEW n \in Int, n <= j - i + 1
  PROVE  SubSeq(SubSeq(part, i, j), m, n) = SubSeq(part, i + m - 1, i + n - 1)
<1> DEFINE s == SubSeq(part, i, j)
           t == SubSeq(part, i + m - 1, i + n - 1)
           u == SubSeq(s, m, n)
           k == i + m - 1
           l == i + n - 1
<1>1. s \in Seq(Line) /\ Len(s) = j - i + 1 /\ \A x \in 1 .. j - i + 1 : s[x] = part[i + x - 1]
  BY SubIs
<1>2. k \in Nat \ {0} /\ l \in Int /\ l <= Len(part)
  OBVIOUS
<1>3. t = SubSeq(part, k, l)
  OBVIOUS
<1>4. k = i + m - 1 /\ l = i + n - 1
  OBVIOUS
<1> HIDE DEF s, k, l, t
<1>5. /\ t \in Seq(Line) /\ Len(t) = (IF k <= l THEN l - k + 1 ELSE 0)
      /\ \A x \in 1 .. l - k + 1 : t[x] = part[k + x - 1]
  BY <1>2, <1>3, SubIs
<1>6. n <= Len(s)
  BY <1>1
<1>7. /\ u \in Seq(Line) /\ Len(u) = (IF m <= n THEN n - m + 1 ELSE 0)
      /\ \A x \in 1 .. n - m + 1 : u[x] = s[m + x - 1]
  BY <1>1, <1>6, SubIs
<1> HIDE DEF u
<1>8. Len(u) = Len(t)
  BY <1>2, <1>4, <1>5, <1>7
<1>9. \A x \in 1 .. Len(u) : u[x] = t[x]
  <2> SUFFICES ASSUME NEW x \in 1 .. Len(u) PROVE u[x] = t[x]
    OBVIOUS
  <2>1. m <= n /\ x \in 1 .. n - m + 1 /\ x \in 1 .. l - k + 1
    BY <1>4, <1>7
  <2>2. u[x] = s[m + x - 1] /\ t[x] = part[k + x - 1]
    BY <1>5, <1>7, <2>1
  <2>3. m + x - 1 \in 1 .. j - i + 1 /\ i + (m + x - 1) - 1 = k + x - 1
    BY <1>4, <2>1
  <2>4. QED
    BY <1>1, <2>2, <2>3
<1>10. u = t
  BY <1>5, <1>7, <1>8, <1>9, SeqEqual
<1>11. QED
  BY <1>10 DEF u, t, s

\* addLines takes what the grammar says off a part.
LEMMA ChopIsInner ==
  ASSUME NEW part \in Seq(Line)
  PROVE  Chop(part) = Inner(part)
<1> DEFINE n == Len(part)
           i == IF IsEmpty(part[1]) THEN 2 ELSE 1
           tail == IF part # <<>> /\ IsEmpty(Head(part)) THEN Tail(part) ELSE part
           res == IF tail # <<>> /\ IsEmpty(Last(tail)) THEN Front(tail) ELSE tail
<1>0. n \in Nat /\ Chop(part) = res
  BY DEF Chop
<1>1. CASE n = 0
  <2>1. part = <<>>
    BY <1>1
  <2>2. QED
    BY <1>0, <1>1, <2>1 DEF Inner
<1>2. CASE n # 0
  <2>1. part # <<>> /\ Head(part) = part[1]
    BY <1>2
  <2>2. tail = SubSeq(part, i, n)
    <3>1. CASE IsEmpty(part[1])
      BY <2>1, <3>1, TailIsSubSeq
    <3>2. CASE ~IsEmpty(part[1])
      BY <2>1, <3>2, SubSeqFull
    <3>3. QED
      BY <3>1, <3>2
  <2>3. Inner(part) = SubSeq(part, i, IF IsEmpty(part[n]) THEN n - 1 ELSE n)
    BY <1>2 DEF Inner
  <2>4. i \in 1 .. 2 /\ (i = 2 => IsEmpty(part[1]))
    OBVIOUS
  <2>5. /\ tail \in Seq(Line) /\ Len(tail) = (IF i <= n THEN n - i + 1 ELSE 0)
        /\ \A m \in 1 .. n - i + 1 : tail[m] = part[i + m - 1]
    <3>1. i \in Nat \ {0} /\ n \in Int /\ n <= Len(part)
      BY <1>0, <2>4
    <3> HIDE DEF i, tail
    <3>2. QED
      BY <2>2, <3>1, SubIs
  <2> HIDE DEF tail, i
  <2>6. CASE i = 2 /\ n = 1
    <3>1. tail = <<>>
      BY <2>5, <2>6
    <3>2. SubSeq(part, 2, 0) = <<>>
      BY SubSeqEmpty
    <3>3. IsEmpty(part[n])
      BY <2>4, <2>6
    <3>4. n - 1 = 0
      BY <2>6
    <3>5. Inner(part) = SubSeq(part, 2, 0)
      BY <2>3, <2>6, <3>3, <3>4
    <3>6. QED
      BY <1>0, <3>1, <3>2, <3>5
  <2>7. CASE i <= n
    <3>1. tail # <<>> /\ Len(tail) = n - i + 1
      BY <1>0, <2>4, <2>5, <2>7
    <3>2. Last(tail) = part[n]
      <4>1. Len(tail) \in 1 .. n - i + 1 /\ i + Len(tail) - 1 = n
        BY <1>0, <2>4, <2>7, <3>1
      <4>2. tail[Len(tail)] = part[i + Len(tail) - 1]
        BY <2>5, <4>1
      <4>3. QED
        BY <4>1, <4>2 DEF Last
    <3>3. Front(tail) = SubSeq(part, i, n - 1)
      <4>1. Front(tail) = SubSeq(SubSeq(part, i, n), 1, n - i)
        <5>1. Len(tail) - 1 = n - i
          BY <1>0, <2>4, <3>1
        <5>2. QED
          BY <2>2, <5>1 DEF Front
      <4>2. i \in Nat \ {0} /\ n \in Int /\ n <= Len(part) /\ i <= n + 1 /\ n - i \in Int /\ n - i <= n - i + 1
        BY <1>0, <2>4, <2>7
      <4>3. SubSeq(SubSeq(part, i, n), 1, n - i) = SubSeq(part, i + 1 - 1, i + (n - i) - 1)
        BY <4>2, SubOfSub
      <4>4. i + 1 - 1 = i /\ i + (n - i) - 1 = n - 1
        BY <1>0, <2>4
      <4>5. QED
        BY <4>1, <4>3, <4>4
    <3>4. CASE IsEmpty(part[n])
      <4>1. Inner(part) = SubSeq(part, i, n - 1)
        BY <2>3, <3>4
      <4>2. res = Front(tail)
        BY <3>1, <3>2, <3>4
      <4>3. QED
        BY <1>0, <3>3, <4>1, <4>2
    <3>5. CASE ~IsEmpty(part[n])
      <4>1. Inner(part) = SubSeq(part, i, n)
        BY <2>3, <3>5
      <4>2. res = tail
        BY <3>1, <3>2, <3>5
      <4>3. QED
        BY <1>0, <2>2, <4>1, <4>2
    <3>6. QED
      BY <3>4, <3>5
  <2>8. (i <= n) \/ (i = 2 /\ n = 1)
    <3>1. n \in Nat /\ n # 0 /\ i \in 1 .. 2
      BY <1>0, <1>2, <2>4
    <3> HIDE DEF n
    <3>2. QED
      BY <3>1
  <2>9. QED
    BY <2>6, <2>7, <2>8
<1>3. QED
  BY <1>1, <1>2

\* Which numbers are starts.
LEMMA StartsAre ==
  ASSUME NEW B \in Seq(Line)
  PROVE  /\ Starts(B) \in SUBSET (1 .. Len(B) + 1) /\ 1 \in Starts(B)
         /\ \A i \in Nat : i > 1 =>
              (i \in Starts(B) <=> i <= Len(B) /\ B[i].kind = "response")
<1>1. Len(B) \in Nat /\ DOMAIN B = 1 .. Len(B)
  OBVIOUS
<1>2. QED
  BY <1>1 DEF Starts

\* The least number of a set.
LEMMA MinIs ==
  ASSUME NEW S \in SUBSET Nat, NEW x \in S, \A y \in S : x <= y
  PROVE  Min(S) = x
<1>1. Min(S) \in S /\ \A y \in S : Min(S) <= y
  BY MinIsLeast
<1>2. Min(S) \in Nat /\ x \in Nat /\ Min(S) <= x /\ x <= Min(S)
  BY <1>1
<1> DEFINE z == Min(S)
<1> HIDE DEF z
<1>3. z \in Nat /\ x \in Nat /\ z <= x /\ x <= z
  BY <1>2 DEF z
<1>4. z = x
  BY <1>3
<1>5. QED
  BY <1>4 DEF z

\* The parts of a block, by the starts at which something is left.
Kept(B) == {i \in Starts(B) : PartAt(B, i) # <<>>}
PartsAt(B, S) == [j \in 1 .. Cardinality(S) |-> PartAt(B, Nth(S, j))]

LEMMA PartsOfIs ==
  ASSUME NEW B \in Seq(Line)
  PROVE  /\ PartsOf(B) = PartsAt(B, Kept(B))
         /\ Kept(B) \in SUBSET (0 .. Len(B) + 1)
<1> DEFINE S == Kept(B)
           at == InOrder(S)
<1>1. PartsOf(B) = [j \in DOMAIN at |-> PartAt(B, at[j])]
  BY DEF PartsOf, Kept
<1>2. at = [j \in 1 .. Cardinality(S) |-> Nth(S, j)]
  BY DEF InOrder
<1> HIDE DEF S, at
<1>3. DOMAIN at = 1 .. Cardinality(S) /\ \A j \in 1 .. Cardinality(S) : at[j] = Nth(S, j)
  BY <1>2
<1>4. PartsOf(B) = PartsAt(B, S)
  BY <1>1, <1>3 DEF PartsAt
<1>5. Len(B) \in Nat
  OBVIOUS
<1>6. S \in SUBSET (0 .. Len(B) + 1)
  <2>1. 1 .. Len(B) + 1 \in SUBSET (0 .. Len(B) + 1)
    BY <1>5
  <2>2. QED
    BY <2>1, StartsAre DEF Kept, S
<1>7. QED
  BY <1>4, <1>6 DEF S

\* The part at the last start is the rest of the block.
LEMMA LastPart ==
  ASSUME NEW B \in Seq(Line), NEW k \in Starts(B),
         \A i \in k + 1 .. Len(B) : B[i].kind # "response"
  PROVE  PartAt(B, k) = Chop(SubSeq(B, k, Len(B)))
<1> DEFINE n == Len(B)
           S == {m \in Starts(B) : m > k}
<1>1. n \in Nat /\ k \in Nat \ {0} /\ k <= n + 1
  BY StartsAre
<1>2. S = {}
  <2> SUFFICES ASSUME NEW m \in Starts(B), m > k PROVE FALSE
    OBVIOUS
  <2>1. m \in Nat /\ m > 1
    BY <1>1, StartsAre
  <2>2. m <= Len(B) /\ B[m].kind = "response"
    BY <2>1, StartsAre
  <2>3. QED
    BY <1>1, <2>1, <2>2
<1>3. NextStart(B, k) = Min({n + 1})
  <2>1. S \cup {n + 1} = {n + 1}
    BY <1>2
  <2>2. QED
    BY <2>1 DEF NextStart
<1>4. Min({n + 1}) = n + 1
  <2> DEFINE x == n + 1
  <2>1. x \in Nat
    BY <1>1
  <2> HIDE DEF x
  <2>2. Min({x}) = x
    BY <2>1, MinIs
  <2>3. QED
    BY <2>2 DEF x
<1>5. (n + 1) - 1 = n
  BY <1>1
<1>6. PartAt(B, k) = Inner(SubSeq(B, k, n))
  BY <1>3, <1>4, <1>5 DEF PartAt
<1>7. SubSeq(B, k, n) \in Seq(Line)
  <2>1. k \in Nat \ {0} /\ n \in Int /\ n <= Len(B)
    BY <1>1
  <2> HIDE DEF n
  <2>2. QED
    BY <2>1, SubIs
<1>8. QED
  BY <1>6, <1>7, ChopIsInner

\* The parts before the last start are those of the lines before it.
LEMMA EarlierParts ==
  ASSUME NEW B \in Seq(Line), NEW k \in Starts(B), k > 1,
         \A i \in k + 1 .. Len(B) : B[i].kind # "response",
         NEW C, C = SubSeq(B, 1, k - 1)
  PROVE  /\ C \in Seq(Line) /\ Len(C) = k - 1
         /\ Starts(B) = Starts(C) \cup {k}
         /\ \A i \in Starts(C) : i < k /\ PartAt(B, i) = PartAt(C, i)
<1> DEFINE n == Len(B)
<1>1. n \in Nat /\ k \in Nat /\ k <= n
  BY StartsAre
<1>2. /\ C \in Seq(Line) /\ Len(C) = k - 1
      /\ \A m \in 1 .. k - 1 : C[m] = B[m]
  <2>1. 1 \in Nat \ {0} /\ k - 1 \in Int /\ k - 1 <= Len(B) /\ 1 <= k - 1
    BY <1>1
  <2>2. /\ C \in Seq(Line) /\ Len(C) = (k - 1) - 1 + 1
        /\ \A m \in 1 .. (k - 1) - 1 + 1 : C[m] = B[1 + m - 1]
    BY <2>1, SubIs
  <2>3. (k - 1) - 1 + 1 = k - 1 /\ \A m \in 1 .. k - 1 : 1 + m - 1 = m
    BY <1>1
  <2>4. QED
    BY <2>2, <2>3
<1> HIDE DEF n
<1>3. Starts(C) \in SUBSET Nat /\ \A i \in Starts(C) : i < k /\ i >= 1
  <2> SUFFICES ASSUME NEW i \in Starts(C) PROVE i \in Nat /\ i < k /\ i >= 1
    OBVIOUS
  <2>1. i \in 1 .. Len(C) + 1
    BY <1>2, StartsAre
  <2>2. i > 1 => i <= Len(C)
    <3>1. i \in Nat
      BY <1>2, <2>1
    <3>2. QED
      BY <1>2, <3>1, StartsAre
  <2>3. QED
    BY <1>1, <1>2, <2>1, <2>2
<1>4. Starts(B) = Starts(C) \cup {k}
  <2>1. ASSUME NEW i \in Starts(B) PROVE i \in Starts(C) \cup {k}
    <3>1. i \in Nat /\ i >= 1
      BY <1>1, StartsAre DEF n
    <3>2. CASE i = 1
      BY <1>2, <3>2, StartsAre
    <3>3. CASE i > 1
      <4>1. i <= n /\ B[i].kind = "response"
        BY <3>1, <3>3, StartsAre DEF n
      <4>2. ~(i > k)
        BY <1>1, <3>1, <4>1 DEF n
      <4>3. i < k => i <= Len(C) /\ C[i].kind = "response"
        BY <1>1, <1>2, <3>1, <4>1
      <4>4. i < k => i \in Starts(C)
        BY <1>2, <3>1, <3>3, <4>3, StartsAre
      <4>5. QED
        BY <1>1, <3>1, <4>2, <4>4
    <3>4. QED
      BY <3>1, <3>2, <3>3
  <2>2. ASSUME NEW i \in Starts(C) PROVE i \in Starts(B)
    <3>1. i \in Nat /\ i >= 1
      BY <1>3
    <3>2. CASE i = 1
      BY <3>2, StartsAre
    <3>3. CASE i > 1
      <4>1. i <= Len(C) /\ C[i].kind = "response"
        BY <1>2, <3>1, <3>3, StartsAre
      <4>2. i <= Len(B) /\ B[i].kind = "response"
        BY <1>1, <1>2, <3>1, <4>1 DEF n
      <4>3. QED
        BY <3>1, <3>3, <4>2, StartsAre
    <3>4. QED
      BY <3>1, <3>2, <3>3
  <2>3. QED
    BY <2>1, <2>2
<1>5. ASSUME NEW i \in Starts(C)
      PROVE  PartAt(B, i) = PartAt(C, i)
  <2> DEFINE S == {m \in Starts(C) : m > i} \cup {k}
             U == {m \in Starts(B) : m > i} \cup {n + 1}
             x == Min(S)
  <2>1. i \in Nat /\ i < k /\ i >= 1
    BY <1>3
  <2>2. U = S \cup {n + 1}
    BY <1>1, <1>4, <2>1
  <2>3. S \in SUBSET Nat /\ S # {} /\ k \in S
    BY <1>1, <1>3
  <2>4. \A y \in S : y > i
    BY <2>1
  <2>5. k - 1 + 1 = k
    BY <1>1
  <2>6. NextStart(C, i) = x
    BY <1>2, <2>5 DEF NextStart
  <2>7. NextStart(B, i) = Min(U)
    BY DEF NextStart, n
  <2> HIDE DEF S, U
  <2>8. x \in S /\ \A y \in S : x <= y
    BY <2>3, MinIsLeast
  <2>9. x \in Nat /\ x > i /\ x <= k
    BY <2>3, <2>4, <2>8
  <2> HIDE DEF x
  <2>10. U \in SUBSET Nat /\ x \in U /\ \A y \in U : x <= y
    BY <1>1, <2>2, <2>3, <2>8, <2>9
  <2>11. Min(U) = x
    BY <2>10, MinIs
  <2>12. SubSeq(B, i, x - 1) = SubSeq(C, i, x - 1)
    <3>1. /\ 1 \in Nat \ {0} /\ k - 1 \in Int /\ k - 1 <= Len(B) /\ 1 <= (k - 1) + 1
          /\ i \in Nat \ {0} /\ x - 1 \in Int /\ x - 1 <= (k - 1) - 1 + 1
      BY <1>1, <2>1, <2>9 DEF n
    <3>2. SubSeq(C, i, x - 1) = SubSeq(B, 1 + i - 1, 1 + (x - 1) - 1)
      BY <3>1, SubOfSub
    <3>3. 1 + i - 1 = i /\ 1 + (x - 1) - 1 = x - 1
      BY <2>1, <2>9
    <3>4. QED
      BY <3>2, <3>3
  <2>13. QED
    BY <2>6, <2>7, <2>11, <2>12 DEF PartAt
<1>6. QED
  BY <1>2, <1>3, <1>4, <1>5

\* The lines read of a block: parts are the finished parts, ls the lines of
\* the one that is being read.
CutInto(B, ps, ls) ==
  \E k \in Starts(B) :
    /\ \A i \in k + 1 .. Len(B) : B[i].kind # "response"
    /\ ls = SubSeq(B, k, Len(B))
    /\ ps = IF k = 1 THEN <<>> ELSE PartsOf(SubSeq(B, 1, k - 1))

\* What is kept of a block: what is kept before the last start, and that.
LEMMA KeptIs ==
  ASSUME NEW B \in Seq(Line), NEW k \in Starts(B),
         \A i \in k + 1 .. Len(B) : B[i].kind # "response",
         NEW ps, ps = IF k = 1 THEN <<>> ELSE PartsOf(SubSeq(B, 1, k - 1))
  PROVE  \E S \in SUBSET (0 .. Len(B) + 1) :
           /\ ps = PartsAt(B, S)
           /\ S \subseteq Starts(B) /\ \A y \in S : y < k
           /\ Kept(B) = S \cup {y \in {k} : PartAt(B, k) # <<>>}
<1>1. Len(B) \in Nat /\ k \in Nat /\ k >= 1
  BY StartsAre
<1>2. CASE k = 1
  <2>1. Starts(B) = {1}
    <3>1. ASSUME NEW i \in Starts(B) PROVE i = 1
      <4>1. i \in Nat /\ i >= 1
        BY <1>1, StartsAre
      <4>2. ~(i > 1)
        BY <1>1, <1>2, <4>1, StartsAre
      <4>3. QED
        BY <4>1, <4>2
    <3>2. QED
      BY <3>1, StartsAre
  <2>2. Kept(B) = {} \cup {y \in {k} : PartAt(B, k) # <<>>}
    BY <1>2, <2>1 DEF Kept
  <2>3. PartsAt(B, {}) = <<>>
    <3>1. Cardinality({}) = 0
      BY FS_EmptySet
    <3>2. 1 .. 0 = {}
      OBVIOUS
    <3>3. PartsAt(B, {}) = [j \in 1 .. 0 |-> PartAt(B, Nth({}, j))]
      BY <3>1 DEF PartsAt
    <3>4. QED
      BY <3>2, <3>3
  <2>4. QED
    BY <1>2, <2>2, <2>3
<1>3. CASE k > 1
  <2> DEFINE C == SubSeq(B, 1, k - 1)
             S == Kept(C)
  <2>0. C = SubSeq(B, 1, k - 1)
    OBVIOUS
  <2>2. ps = PartsOf(C)
    BY <1>1, <1>3
  <2> HIDE DEF C
  <2>1. /\ C \in Seq(Line) /\ Len(C) = k - 1
        /\ Starts(B) = Starts(C) \cup {k}
        /\ \A i \in Starts(C) : i < k /\ PartAt(B, i) = PartAt(C, i)
    <3>1. \A D : D = SubSeq(B, 1, k - 1) =>
             /\ D \in Seq(Line) /\ Len(D) = k - 1
             /\ Starts(B) = Starts(D) \cup {k}
             /\ \A i \in Starts(D) : i < k /\ PartAt(B, i) = PartAt(D, i)
      BY <1>3, EarlierParts
    <3>2. QED
      BY <2>0, <3>1
  <2>3. PartsOf(C) = PartsAt(C, S) /\ S \in SUBSET (0 .. Len(C) + 1)
    BY <2>1, PartsOfIs
  <2>4. S \subseteq Starts(C)
    BY DEF Kept
  <2>5. Kept(B) = S \cup {y \in {k} : PartAt(B, k) # <<>>}
    BY <2>1 DEF Kept
  <2> HIDE DEF S
  <2>6. Len(C) + 1 \in Nat
    BY <1>1, <2>1
  <2>7. PartsAt(C, S) = PartsAt(B, S)
    <3> DEFINE b == Len(C) + 1
    <3>1. b \in Nat /\ S \in SUBSET (0 .. b)
      BY <2>3, <2>6
    <3> HIDE DEF b
    <3>2. \A j \in 1 .. Cardinality(S) : Nth(S, j) \in S
      BY <3>1, NthHasRank
    <3>3. \A j \in 1 .. Cardinality(S) : PartAt(C, Nth(S, j)) = PartAt(B, Nth(S, j))
      BY <2>1, <2>4, <3>2
    <3>4. QED
      BY <3>3 DEF PartsAt
  <2>8. S \in SUBSET (0 .. Len(B) + 1)
    <3>1. k <= Len(B) + 1
      BY <1>1, StartsAre
    <3>2. \A y \in S : y \in 0 .. Len(B) + 1
      BY <1>1, <2>1, <2>3, <3>1
    <3>3. QED
      BY <3>2
  <2>9. QED
    BY <2>1, <2>2, <2>3, <2>4, <2>5, <2>7, <2>8
<1>4. QED
  BY <1>1, <1>2, <1>3

\* What loadReqResp returns for a block are its parts.
LEMMA CutEnd ==
  ASSUME NEW B \in Seq(Line), NEW ps, NEW ls, CutInto(B, ps, ls)
  PROVE  AddLines(ps, ls) = PartsOf(B)
<1>1. PICK k \in Starts(B) :
        /\ \A i \in k + 1 .. Len(B) : B[i].kind # "response"
        /\ ls = SubSeq(B, k, Len(B))
        /\ ps = IF k = 1 THEN <<>> ELSE PartsOf(SubSeq(B, 1, k - 1))
  BY DEF CutInto
<1> DEFINE x == PartAt(B, k)
           b == Len(B) + 1
<1>2. x = Chop(ls)
  BY <1>1, LastPart
<1>3. PICK S \in SUBSET (0 .. b) :
        /\ ps = PartsAt(B, S)
        /\ S \subseteq Starts(B) /\ \A y \in S : y < k
        /\ Kept(B) = S \cup {y \in {k} : x # <<>>}
  BY <1>1, KeptIs
<1>4. PartsOf(B) = PartsAt(B, Kept(B))
  BY PartsOfIs
<1>5. AddLines(ps, ls) = IF x = <<>> THEN ps ELSE Append(ps, x)
  BY <1>2 DEF AddLines
<1>6. b \in Nat /\ k \in 0 .. b
  BY StartsAre
<1>7. CASE x = <<>>
  BY <1>3, <1>4, <1>5, <1>7
<1>8. CASE x # <<>>
  <2> DEFINE U == S \cup {k}
             T == {PartAt(B, y) : y \in Starts(B)}
             c == Cardinality(S)
             all == PartsAt(B, U)
             sum == Append(ps, x)
  <2>1. Kept(B) = U
    BY <1>3, <1>8
  <2>2. x \in T /\ \A y \in U : PartAt(B, y) \in T
    BY <1>3
  <2> HIDE DEF b, x, T
  <2>3. c \in Nat
    BY <1>6, FiniteBelow
  <2>4. /\ Cardinality(U) = c + 1
        /\ \A j \in 1 .. c : Nth(U, j) = Nth(S, j)
        /\ Nth(U, c + 1) = k
    BY <1>3, <1>6, NthAppend
  <2>5. \A j \in 1 .. c : Nth(S, j) \in S
    BY <1>6, NthHasRank
  <2> HIDE DEF U, c
  <2>6. ps = [j \in 1 .. c |-> PartAt(B, Nth(S, j))]
    BY <1>3 DEF PartsAt, c
  <2>7. all = [j \in 1 .. c + 1 |-> PartAt(B, Nth(U, j))]
    BY <2>4 DEF PartsAt
  <2> HIDE DEF all
  <2>8. \A j \in 1 .. c : PartAt(B, Nth(S, j)) \in T
    BY <2>2, <2>5 DEF U
  <2>9. ps \in Seq(T) /\ Len(ps) = c /\ \A j \in 1 .. c : ps[j] = PartAt(B, Nth(S, j))
    <3>1. ps \in [1 .. c -> T]
      BY <2>6, <2>8
    <3>2. ps \in Seq(T) /\ Len(ps) = c
      BY <2>3, <3>1
    <3>3. QED
      BY <2>6, <3>2
  <2>10. \A j \in 1 .. c + 1 : Nth(U, j) \in U
    <3>1. \A j \in 1 .. c + 1 : j \in 1 .. c \/ j = c + 1
      BY <2>3
    <3>2. QED
      BY <2>4, <2>5, <3>1 DEF U
  <2>11. all \in Seq(T) /\ Len(all) = c + 1 /\ \A j \in 1 .. c + 1 : all[j] = PartAt(B, Nth(U, j))
    <3>1. \A j \in 1 .. c + 1 : PartAt(B, Nth(U, j)) \in T
      BY <2>2, <2>10
    <3>2. all \in [1 .. c + 1 -> T]
      BY <2>7, <3>1
    <3>3. c + 1 \in Nat
      BY <2>3
    <3>4. all \in Seq(T) /\ Len(all) = c + 1
      BY <3>2, <3>3
    <3>5. QED
      BY <2>7, <3>4
  <2>12. /\ sum \in Seq(T) /\ Len(sum) = c + 1
         /\ \A j \in 1 .. c : sum[j] = ps[j]
         /\ sum[c + 1] = x
    BY <2>2, <2>9, AppendProperties
  <2> HIDE DEF sum
  <2>13. \A j \in 1 .. c + 1 : sum[j] = all[j]
    <3> SUFFICES ASSUME NEW j \in 1 .. c + 1 PROVE sum[j] = all[j]
      OBVIOUS
    <3>1. all[j] = PartAt(B, Nth(U, j))
      BY <2>11
    <3>2. CASE j \in 1 .. c
      BY <2>4, <2>9, <2>12, <3>1, <3>2
    <3>3. CASE j = c + 1
      BY <2>4, <2>12, <3>1, <3>3 DEF x
    <3>4. QED
      BY <2>3, <3>2, <3>3
  <2>14. sum = all
    BY <2>11, <2>12, <2>13, SeqEqual
  <2>15. AddLines(ps, ls) = sum
    BY <1>5, <1>8 DEF sum
  <2>16. QED
    BY <1>4, <2>1, <2>14, <2>15 DEF all
<1>9. QED
  BY <1>7, <1>8

\* A block begins with nothing read.
LEMMA CutEmpty == CutInto(<<>>, <<>>, <<>>)
<1>1. <<>> \in Seq(Line) /\ Len(<<>>) = 0
  BY EmptySeq
<1>2. 1 \in Starts(<<>>)
  BY <1>1, StartsAre
<1>3. SubSeq(<<>>, 1, 0) = <<>>
  BY SubSeqEmpty
<1>4. \A i \in 1 + 1 .. 0 : FALSE
  OBVIOUS
<1>5. QED
  BY <1>1, <1>2, <1>3, <1>4 DEF CutInto

\* A block with another line.
LEMMA MoreLines ==
  ASSUME NEW B \in Seq(Line), NEW line \in Line, NEW D, D = Append(B, line)
  PROVE  /\ D \in Seq(Line) /\ Len(D) = Len(B) + 1
         /\ \A i \in 1 .. Len(B) : D[i] = B[i]
         /\ D[Len(B) + 1] = line
         /\ \A k \in 1 .. Len(B) + 1 :
              /\ SubSeq(D, 1, k - 1) = SubSeq(B, 1, k - 1)
              /\ SubSeq(D, k, Len(D)) = Append(SubSeq(B, k, Len(B)), line)
<1> DEFINE n == Len(B)
<1>1. /\ n \in Nat /\ D \in Seq(Line) /\ Len(D) = n + 1
      /\ \A i \in 1 .. n : D[i] = B[i]
      /\ D[n + 1] = line
  BY AppendProperties
<1>2. ASSUME NEW k \in 1 .. n + 1
      PROVE  SubSeq(D, 1, k - 1) = SubSeq(B, 1, k - 1)
  <2> DEFINE l == k - 1
             s == SubSeq(D, 1, l)
             t == SubSeq(B, 1, l)
  <2>1. l \in Nat /\ l <= n /\ l <= n + 1 /\ 1 \in Nat \ {0}
    BY <1>1
  <2> HIDE DEF l
  <2>2. /\ s \in Seq(Line) /\ Len(s) = (IF 1 <= l THEN l - 1 + 1 ELSE 0)
        /\ \A m \in 1 .. l - 1 + 1 : s[m] = D[1 + m - 1]
    BY <1>1, <2>1, SubIs
  <2>3. /\ t \in Seq(Line) /\ Len(t) = (IF 1 <= l THEN l - 1 + 1 ELSE 0)
        /\ \A m \in 1 .. l - 1 + 1 : t[m] = B[1 + m - 1]
    BY <2>1, SubIs
  <2> HIDE DEF s, t
  <2>4. Len(s) = l /\ Len(t) = l
    BY <2>1, <2>2, <2>3
  <2>5. \A m \in 1 .. l : s[m] = t[m]
    <3> SUFFICES ASSUME NEW m \in 1 .. l PROVE s[m] = t[m]
      OBVIOUS
    <3>1. m \in 1 .. l - 1 + 1 /\ 1 + m - 1 = m /\ m \in 1 .. n
      BY <1>1, <2>1
    <3>2. QED
      BY <1>1, <2>2, <2>3, <3>1
  <2>6. s = t
    BY <2>2, <2>3, <2>4, <2>5, SeqEqual
  <2>7. QED
    BY <2>6 DEF s, t, l
<1>3. ASSUME NEW k \in 1 .. n + 1
      PROVE  SubSeq(D, k, n + 1) = Append(SubSeq(B, k, n), line)
  <2> DEFINE N == n + 1
             s == SubSeq(D, k, N)
             t == SubSeq(B, k, n)
             u == Append(t, line)
  <2>1. k \in Nat \ {0} /\ k <= n + 1 /\ N = n + 1 /\ N \in Int
    BY <1>1
  <2> HIDE DEF N
  <2>2. /\ s \in Seq(Line) /\ Len(s) = (IF k <= N THEN N - k + 1 ELSE 0)
        /\ \A m \in 1 .. N - k + 1 : s[m] = D[k + m - 1]
    <3>1. N <= Len(D)
      BY <1>1, <2>1
    <3>2. QED
      BY <1>1, <2>1, <3>1, SubIs
  <2>3. /\ t \in Seq(Line) /\ Len(t) = (IF k <= n THEN n - k + 1 ELSE 0)
        /\ \A m \in 1 .. n - k + 1 : t[m] = B[k + m - 1]
    <3>1. n \in Int /\ n <= Len(B)
      BY <1>1
    <3> HIDE DEF n
    <3>2. QED
      BY <2>1, <3>1, SubIs
  <2> HIDE DEF s, t
  <2>4. Len(t) = N - k /\ Len(s) = N - k + 1
    BY <1>1, <2>1, <2>2, <2>3
  <2>5. /\ u \in Seq(Line) /\ Len(u) = Len(t) + 1
        /\ \A m \in 1 .. Len(t) : u[m] = t[m]
        /\ u[Len(t) + 1] = line
    BY <2>3, AppendProperties
  <2> HIDE DEF u
  <2>6. \A m \in 1 .. Len(s) : s[m] = u[m]
    <3> SUFFICES ASSUME NEW m \in 1 .. Len(s) PROVE s[m] = u[m]
      OBVIOUS
    <3>1. m \in 1 .. N - k + 1
      BY <2>4
    <3>2. s[m] = D[k + m - 1]
      BY <2>2, <3>1
    <3>3. CASE m = N - k + 1
      <4>1. k + m - 1 = n + 1
        BY <1>1, <2>1, <3>1, <3>3
      <4>2. D[n + 1] = line
        BY <1>1
      <4>3. m = Len(t) + 1
        BY <2>4, <3>3
      <4>4. u[m] = line
        BY <2>5, <4>3
      <4>5. s[m] = D[n + 1]
        BY <3>2, <4>1
      <4>6. QED
        BY <4>2, <4>4, <4>5
    <3>4. CASE m # N - k + 1
      <4>1. m \in 1 .. Len(t) /\ m \in 1 .. n - k + 1 /\ k + m - 1 \in 1 .. n
        BY <1>1, <2>1, <2>4, <3>1, <3>4
      <4>2. QED
        BY <1>1, <2>3, <2>5, <3>2, <4>1
    <3>5. QED
      BY <3>3, <3>4
  <2>7. Len(s) = Len(u)
    BY <1>1, <2>1, <2>4, <2>5
  <2>8. s = u
    BY <2>2, <2>5, <2>6, <2>7, SeqEqual
  <2>9. QED
    BY <2>8 DEF s, u, t, N
<1>4. QED
  BY <1>1, <1>2, <1>3

\* A line that is no response goes to the part that is being read.
LEMMA CutText ==
  ASSUME NEW B \in Seq(Line), NEW line \in Line, line.kind # "response",
         NEW ps, NEW ls, CutInto(B, ps, ls)
  PROVE  CutInto(Append(B, line), ps, Append(ls, line))
<1> DEFINE D == Append(B, line)
           n == Len(B)
<1>1. PICK k \in Starts(B) :
        /\ \A i \in k + 1 .. Len(B) : B[i].kind # "response"
        /\ ls = SubSeq(B, k, Len(B))
        /\ ps = IF k = 1 THEN <<>> ELSE PartsOf(SubSeq(B, 1, k - 1))
  BY DEF CutInto
<1>2. n \in Nat /\ k \in 1 .. n + 1 /\ k \in Nat
  BY StartsAre
<1>3. /\ D \in Seq(Line) /\ Len(D) = n + 1
      /\ \A i \in 1 .. n : D[i] = B[i]
      /\ D[n + 1] = line
      /\ SubSeq(D, 1, k - 1) = SubSeq(B, 1, k - 1)
      /\ SubSeq(D, k, Len(D)) = Append(SubSeq(B, k, n), line)
  <2>1. D = Append(B, line)
    OBVIOUS
  <2> HIDE DEF D
  <2>2. QED
    BY <1>2, <2>1, MoreLines
<1>4. Append(ls, line) = SubSeq(D, k, Len(D))
  BY <1>1, <1>3
<1> HIDE DEF D
<1>5. k \in Starts(D)
  <2>1. CASE k = 1
    BY <1>3, <2>1, StartsAre
  <2>2. CASE k > 1
    <3>1. k <= n /\ B[k].kind = "response"
      BY <1>2, <2>2, StartsAre
    <3>2. k <= Len(D) /\ D[k].kind = "response"
      BY <1>2, <1>3, <3>1
    <3>3. QED
      BY <1>2, <1>3, <2>2, <3>2, StartsAre
  <2>3. QED
    BY <1>2, <2>1, <2>2
<1>6. \A i \in k + 1 .. Len(D) : D[i].kind # "response"
  <2> SUFFICES ASSUME NEW i \in k + 1 .. n + 1 PROVE D[i].kind # "response"
    BY <1>3
  <2>1. CASE i = n + 1
    BY <1>3, <2>1
  <2>2. CASE i # n + 1
    <3>1. i \in k + 1 .. n /\ i \in 1 .. n
      BY <1>2, <2>2
    <3>2. QED
      BY <1>1, <1>3, <3>1
  <2>3. QED
    BY <2>1, <2>2
<1>7. ps = IF k = 1 THEN <<>> ELSE PartsOf(SubSeq(D, 1, k - 1))
  BY <1>1, <1>3
<1>8. CutInto(D, ps, Append(ls, line))
  BY <1>4, <1>5, <1>6, <1>7 DEF CutInto
<1>9. QED
  BY <1>8 DEF D

\* A response line ends the part that is being read and begins a new one.
LEMMA CutResponse ==
  ASSUME NEW B \in Seq(Line), NEW line \in Line, line.kind = "response",
         NEW ps, NEW ls, CutInto(B, ps, ls)
  PROVE  CutInto(Append(B, line), AddLines(ps, ls), <<line>>)
<1> DEFINE D == Append(B, line)
           n == Len(B)
           k == n + 1
<1>1. n \in Nat /\ k \in 1 .. n + 1 /\ k \in Nat /\ k - 1 = n
  OBVIOUS
<1>2. /\ D \in Seq(Line) /\ Len(D) = n + 1
      /\ D[n + 1] = line
      /\ SubSeq(D, 1, n) = SubSeq(B, 1, n)
      /\ SubSeq(D, k, Len(D)) = Append(SubSeq(B, k, n), line)
  <2>1. D = Append(B, line)
    OBVIOUS
  <2> HIDE DEF D, k
  <2>2. /\ SubSeq(D, 1, k - 1) = SubSeq(B, 1, k - 1)
        /\ SubSeq(D, k, Len(D)) = Append(SubSeq(B, k, n), line)
        /\ D \in Seq(Line) /\ Len(D) = n + 1
        /\ D[n + 1] = line
    BY <1>1, <2>1, MoreLines
  <2>3. QED
    BY <1>1, <2>2
<1>3. SubSeq(B, 1, n) = B
  BY SubSeqFull
<1>4. SubSeq(B, k, n) = <<>>
  <2>1. k \in Int /\ n \in Int /\ n < k
    BY <1>1
  <2> HIDE DEF k, n
  <2>2. QED
    BY <2>1, SubSeqEmpty
<1>5. SubSeq(D, k, Len(D)) = <<line>>
  <2>1. Append(<<>>, line) = <<line>>
    OBVIOUS
  <2> HIDE DEF D, k, n
  <2>2. SubSeq(D, k, Len(D)) = Append(<<>>, line)
    BY <1>2, <1>4
  <2>3. QED
    BY <2>1, <2>2
<1>6. AddLines(ps, ls) = PartsOf(B)
  BY CutEnd
<1>7. k = 1 => AddLines(ps, ls) = <<>>
  <2> SUFFICES ASSUME k = 1 PROVE AddLines(ps, ls) = <<>>
    OBVIOUS
  <2>1. PICK j \in Starts(B) :
          /\ ls = SubSeq(B, j, Len(B))
          /\ ps = IF j = 1 THEN <<>> ELSE PartsOf(SubSeq(B, 1, j - 1))
    BY DEF CutInto
  <2>2. n = 0 /\ B = <<>>
    BY <1>1
  <2>3. j = 1
    <3>1. j \in 1 .. Len(B) + 1
      BY StartsAre
    <3>2. QED
      BY <2>2, <3>1
  <2>4. ps = <<>> /\ ls = <<>>
    BY <1>3, <2>1, <2>2, <2>3
  <2>5. Chop(<<>>) = <<>>
    BY DEF Chop
  <2>6. QED
    BY <2>4, <2>5 DEF AddLines
<1> HIDE DEF D, k
<1>8. k \in Starts(D)
  <2>1. k = n + 1
    BY DEF k
  <2>2. CASE k = 1
    BY <1>2, <2>2, StartsAre
  <2>3. CASE k > 1
    <3>1. k <= Len(D) /\ D[k].kind = "response"
      BY <1>1, <1>2, <2>1
    <3>2. QED
      BY <1>1, <1>2, <2>3, <3>1, StartsAre
  <2>4. QED
    BY <1>1, <2>2, <2>3
<1>9. \A i \in k + 1 .. Len(D) : D[i].kind # "response"
  <2>1. Len(D) = k /\ k \in Nat
    BY <1>1, <1>2
  <2>2. QED
    BY <2>1
<1>10. SubSeq(D, 1, k - 1) = B
  BY <1>1, <1>2, <1>3
<1>11. CutInto(D, AddLines(ps, ls), <<line>>)
  <2>1. AddLines(ps, ls) = IF k = 1 THEN <<>> ELSE PartsOf(SubSeq(D, 1, k - 1))
    BY <1>6, <1>7, <1>10
  <2>2. QED
    BY <1>5, <1>8, <1>9, <2>1 DEF CutInto
<1>12. QED
  BY <1>11 DEF D

-----------------------------------------------------------------------------
(* What is loaded is the grammar.                                          *)

\* The ends of the blocks in their order.
LEMMA EndsAre ==
  ASSUME file \in Seq(Line)
  PROVE  LET E == Ends  c == Cardinality(E)  b == Len(file) + 1 IN
         /\ E \in SUBSET (0 .. b) /\ b \in Nat /\ b \in E
         /\ \A x \in E : x \in Nat /\ x >= 1 /\ x <= b
         /\ \A x \in Nat : x >= 1 /\ x < b => (x \in E <=> file[x].kind = "separator")
         /\ c \in Nat /\ c >= 1
<1> DEFINE E == Ends
           c == Cardinality(E)
           b == Len(file) + 1
<1>1. b \in Nat /\ DOMAIN file = 1 .. b - 1
  <2>1. Len(file) \in Nat /\ DOMAIN file = 1 .. Len(file)
    OBVIOUS
  <2>2. Len(file) = b - 1
    BY <2>1
  <2> HIDE DEF b
  <2>3. QED
    BY <2>1, <2>2 DEF b
<1>2. E = {i \in DOMAIN file : file[i].kind = "separator"} \cup {b}
  BY DEF Ends
<1> HIDE DEF b, E
<1>3. \A x \in E : x \in Nat /\ x >= 1 /\ x <= b
  <2>1. b >= 1
    BY DEF b
  <2>2. QED
    BY <1>1, <1>2, <2>1
<1>4. E \in SUBSET (0 .. b) /\ b \in E
  BY <1>1, <1>2, <1>3
<1>5. \A x \in Nat : x >= 1 /\ x < b => (x \in E <=> file[x].kind = "separator")
  BY <1>1, <1>2
<1>6. c \in Nat
  BY <1>1, <1>4, FiniteBelow
<1>7. c >= 1
  <2>1. IsFiniteSet(E)
    BY <1>1, <1>4, FiniteBelow
  <2>2. c # 0
    BY <1>4, <2>1, FS_EmptySet
  <2> HIDE DEF c
  <2>3. QED
    BY <1>6, <2>2
<1>8. QED
  BY <1>1, <1>3, <1>4, <1>5, <1>6, <1>7 DEF E, b

\* The j-th element of a set of numbers is the only one from the one before
\* it on.
LEMMA NthNext ==
  ASSUME NEW b \in Nat, NEW E \in SUBSET (0 .. b), NEW j \in 1 .. Cardinality(E),
         NEW x \in E, x <= Nth(E, j), j > 1 => x > Nth(E, j - 1)
  PROVE  x = Nth(E, j)
<1> DEFINE y == Nth(E, j)
<1>1. /\ Cardinality(E) \in Nat /\ \A z \in E : z \in Nat
      /\ \A z : Cardinality(Rank(E, z)) \in Nat
  BY FiniteBelow
<1>2. y \in E /\ Cardinality(Rank(E, y)) = j - 1
  BY NthHasRank
<1> HIDE DEF y
<1>3. ASSUME x < y PROVE FALSE
  <2>1. Cardinality(Rank(E, x)) < Cardinality(Rank(E, y))
    BY <1>2, <1>3, RankGrows
  <2>2. CASE j = 1
    BY <1>1, <1>2, <2>1, <2>2
  <2>3. CASE j > 1
    <3> DEFINE i == j - 1
               w == Nth(E, i)
    <3>1. i \in 1 .. Cardinality(E)
      BY <1>1, <2>3
    <3>2. x > w
      BY <2>3
    <3> HIDE DEF i
    <3>3. w \in E /\ Cardinality(Rank(E, w)) = i - 1
      BY <3>1, NthHasRank
    <3> HIDE DEF w
    <3>4. w < x
      BY <1>1, <3>2, <3>3
    <3>5. Cardinality(Rank(E, w)) < Cardinality(Rank(E, x))
      BY <3>3, <3>4, RankGrows
    <3>6. i = j - 1 /\ j \in Nat
      BY <1>1 DEF i
    <3>7. QED
      BY <1>1, <1>2, <2>1, <3>3, <3>5, <3>6
  <2>4. QED
    BY <1>1, <2>2, <2>3
<1>4. x <= y
  BY DEF y
<1>5. x \in Nat /\ y \in Nat
  BY <1>1, <1>2
<1>6. x = y
  BY <1>3, <1>4, <1>5
<1>7. QED
  BY <1>6 DEF y

\* The elements are in their order, and the last one is the greatest.
LEMMA NthGrows ==
  ASSUME NEW b \in Nat, NEW E \in SUBSET (0 .. b), NEW j \in 1 .. Cardinality(E),
         NEW k \in 1 .. Cardinality(E), j < k
  PROVE  Nth(E, j) < Nth(E, k)
<1> DEFINE x == Nth(E, j)
           y == Nth(E, k)
<1>1. /\ Cardinality(E) \in Nat /\ \A z \in E : z \in Nat
  BY FiniteBelow
<1>2. x \in E /\ Cardinality(Rank(E, x)) = j - 1
  BY NthHasRank
<1>3. y \in E /\ Cardinality(Rank(E, y)) = k - 1
  BY NthHasRank
<1> HIDE DEF x, y
<1>4. ASSUME y < x PROVE FALSE
  <2>1. Cardinality(Rank(E, y)) < Cardinality(Rank(E, x))
    BY <1>2, <1>3, <1>4, RankGrows
  <2>2. QED
    BY <1>1, <1>2, <1>3, <2>1
<1>5. j \in Nat /\ k \in Nat
  BY <1>1
<1>6. x # y
  <2>1. j - 1 # k - 1
    BY <1>5
  <2>2. QED
    BY <1>2, <1>3, <2>1
<1>7. x \in Nat /\ y \in Nat
  BY <1>1, <1>2, <1>3
<1>8. x < y
  BY <1>4, <1>6, <1>7
<1>9. QED
  BY <1>8 DEF x, y

LEMMA NthIsLast ==
  ASSUME NEW b \in Nat, NEW E \in SUBSET (0 .. b), b \in E
  PROVE  Nth(E, Cardinality(E)) = b
<1> DEFINE S == E \ {b}
           c == Cardinality(S)
<1>1. S \in SUBSET (0 .. b) /\ b \in 0 .. b /\ E = S \cup {b} /\ \A y \in S : y < b
  OBVIOUS
<1> HIDE DEF S
<1>2. /\ Cardinality(E) = c + 1
      /\ Nth(E, c + 1) = b
  BY <1>1, NthAppend
<1>3. QED
  BY <1>2

\* While a file is read, the rules are the first blocks, and what is in parts
\* and lines are the lines read of the block after them; behind the last
\* block there is nothing more.
SoFar ==
  LET c == Len(rules) IN
  /\ c <= Cardinality(Ends)
  /\ \A r \in 1 .. c : rules[r] = Grammar[r] /\ Len(rules[r]) >= 2
  /\ c < Cardinality(Ends) =>
       /\ BlockStart(c + 1) <= next /\ next <= Nth(Ends, c + 1)
       /\ CutInto(SubSeq(file, BlockStart(c + 1), next - 1), parts, lines)
  /\ c = Cardinality(Ends) => next = Len(file) + 1 /\ parts = <<>> /\ lines = <<>>

Loaded == (step = "loading" => SoFar) /\ LoadIsGrammar

\* The grammar depends on the file only.
LEMMA SameFile ==
  ASSUME file' = file
  PROVE  /\ Ends' = Ends /\ Grammar' = Grammar /\ RuleCount' = RuleCount
         /\ \A j : BlockStart(j)' = BlockStart(j)
BY DEF Ends, Grammar, RuleCount, Block, BlockStart

\* The grammar of a file is a sequence of blocks.
LEMMA GrammarIs ==
  ASSUME file \in Seq(Line)
  PROVE  /\ Len(Grammar) = Cardinality(Ends) /\ DOMAIN Grammar = 1 .. Cardinality(Ends)
         /\ \A j \in 1 .. Cardinality(Ends) : Grammar[j] = PartsOf(Block(j))
<1> DEFINE n == Cardinality(Ends)
<1>1. n \in Nat
  BY EndsAre
<1> HIDE DEF n
<1>2. Grammar = [j \in 1 .. n |-> PartsOf(Block(j))]
  BY DEF Grammar, n
<1>3. Len(Grammar) = n
  BY <1>1, <1>2
<1>4. QED
  BY <1>2, <1>3 DEF n

\* How many blocks come before the first empty one.
LEMMA RuleCountIs ==
  ASSUME file \in Seq(Line), NEW c \in 0 .. Cardinality(Ends),
         \A r \in 1 .. c : Grammar[r] # <<>>
  PROVE  /\ RuleCount \in Nat /\ RuleCount >= c
         /\ c = Cardinality(Ends) \/ Grammar[c + 1] = <<>> => RuleCount = c
<1> DEFINE n == Cardinality(Ends)
           S == {j \in 1 .. n : Grammar[j] = <<>>} \cup {n + 1}
           x == Min(S)
<1>1. n \in Nat /\ c \in Nat /\ c <= n
  BY EndsAre
<1>2. RuleCount = x - 1
  BY GrammarIs DEF RuleCount
<1> HIDE DEF n
<1>3. S \in SUBSET Nat /\ S # {} /\ \A j \in S : j > c /\ j >= 1
  <2>1. \A j \in 1 .. n : Grammar[j] = <<>> => j > c
    BY <1>1 DEF n
  <2>2. QED
    BY <1>1, <2>1
<1>4. c = n \/ Grammar[c + 1] = <<>> => c + 1 \in S
  BY <1>1
<1> HIDE DEF S
<1>5. x \in S /\ \A y \in S : x <= y
  BY <1>3, MinIsLeast
<1> HIDE DEF x
<1>6. x \in Nat /\ x > c /\ x >= 1 /\ (c + 1 \in S => x <= c + 1)
  BY <1>3, <1>5
<1>7. QED
  BY <1>1, <1>2, <1>4, <1>6 DEF n

\* The rules as they are when loading ends.
LEMMA RulesAre ==
  ASSUME Shapes, \A r \in 1 .. Len(rules) : rules[r] = Grammar[r]
  PROVE  rules = SubSeq(Grammar, 1, Len(rules))
<1> DEFINE c == Len(rules)
           s == SubSeq(Grammar, 1, c)
<1>1. c \in Nat /\ rules \in Seq(Rule) /\ \A r \in 1 .. c : rules[r] \in Rule
  BY ElementOfSeq DEF Shapes
<1>2. \A r \in 1 .. c : Grammar[r] \in Rule
  BY <1>1
<1>3. 1 \in Int /\ c \in Int
  BY <1>1
<1> HIDE DEF c
<1>4. /\ s \in Seq(Rule) /\ Len(s) = (IF 1 <= c THEN c - 1 + 1 ELSE 0)
      /\ \A i \in 1 .. c - 1 + 1 : s[i] = Grammar[1 + i - 1]
  BY <1>2, <1>3, SubSeqProperties
<1>5. c - 1 + 1 = c /\ \A i \in 1 .. c : 1 + i - 1 = i
  BY <1>1
<1> HIDE DEF s
<1>6. Len(s) = c /\ \A i \in 1 .. c : s[i] = rules[i]
  BY <1>1, <1>4, <1>5 DEF c
<1>7. s = rules
  BY <1>1, <1>4, <1>6, SeqEqual DEF c
<1>8. QED
  BY <1>7 DEF s, c

\* Before a block nothing of it is read.
LEMMA BlockBegins ==
  ASSUME file \in Seq(Line), NEW i \in Nat
  PROVE  CutInto(SubSeq(file, i, i - 1), <<>>, <<>>)
<1>1. SubSeq(file, i, i - 1) = <<>>
  <2> DEFINE j == i - 1
  <2>1. i \in Int /\ j \in Int /\ j < i
    OBVIOUS
  <2> HIDE DEF j
  <2>2. SubSeq(file, i, j) = <<>>
    BY <2>1, SubSeqEmpty
  <2>3. QED
    BY <2>2 DEF j
<1>2. QED
  BY <1>1, CutEmpty

LEMMA LoadedInit == Init => Loaded
<1> SUFFICES ASSUME Init PROVE Loaded
  OBVIOUS
<1>1. Shapes
  BY ShapesInit
<1>2. file \in Seq(Line)
  BY <1>1 DEF Shapes
<1> DEFINE E == Ends
           n == Cardinality(E)
           b == Len(file) + 1
<1>3. /\ E \in SUBSET (0 .. b) /\ b \in Nat
      /\ \A x \in E : x \in Nat /\ x >= 1
      /\ n \in Nat /\ n >= 1
  BY <1>2, EndsAre
<1>4. Len(rules) = 0 /\ next = 1 /\ parts = <<>> /\ lines = <<>> /\ step = "loading"
  BY DEF Init
<1>5. BlockStart(0 + 1) = 1
  BY DEF BlockStart
<1>6. Nth(E, 0 + 1) \in E
  <2> HIDE DEF E, b
  <2>1. 1 \in 1 .. n
    BY <1>3
  <2>2. QED
    BY <1>3, <2>1, NthHasRank
<1>7. CutInto(SubSeq(file, 1, 1 - 1), <<>>, <<>>)
  BY <1>2, BlockBegins
<1> HIDE DEF b
<1>8. SoFar
  <2>0. Nth(E, 0 + 1) \in Nat /\ Nth(E, 0 + 1) >= 1
    BY <1>3, <1>6
  <2> DEFINE x == Nth(E, 0 + 1)
  <2> HIDE DEF E, n, x
  <2>1. 0 <= n /\ 0 < n /\ 0 # n /\ BlockStart(0 + 1) <= 1 /\ 1 <= x
    BY <1>3, <1>5, <2>0 DEF x
  <2> USE DEF E, n, x
  <2>2. \A r \in 1 .. 0 : FALSE
    OBVIOUS
  <2>3. QED
    BY <1>4, <1>5, <1>7, <2>1, <2>2 DEF SoFar
<1>9. LoadIsGrammar
  BY <1>4 DEF LoadIsGrammar
<1>10. QED
  BY <1>8, <1>9 DEF Loaded

\* Where a block begins.
LEMMA BlockStartIs ==
  ASSUME file \in Seq(Line), NEW c \in Nat, c < Cardinality(Ends)
  PROVE  /\ BlockStart(c + 1) \in Nat \ {0}
         /\ c > 0 => BlockStart(c + 1) = Nth(Ends, c) + 1
         /\ Nth(Ends, c + 1) \in Ends /\ Nth(Ends, c + 1) \in Nat
<1> DEFINE E == Ends
           n == Cardinality(E)
           b == Len(file) + 1
           j == c + 1
<1>1. /\ E \in SUBSET (0 .. b) /\ b \in Nat
      /\ \A x \in E : x \in Nat /\ x >= 1
      /\ n \in Nat
  BY EndsAre
<1>2. j \in 1 .. n /\ (c > 0 => c \in 1 .. n /\ j # 1 /\ j - 1 = c) /\ (c = 0 => j = 1)
  BY <1>1
<1>3. BlockStart(j) = IF j = 1 THEN 1 ELSE Nth(E, j - 1) + 1
  BY DEF BlockStart
<1> HIDE DEF E, b, j
<1>4. c > 0 => Nth(E, c) \in E
  BY <1>1, <1>2, NthHasRank
<1>5. Nth(E, j) \in E
  BY <1>1, <1>2, NthHasRank
<1>6. c > 0 => Nth(E, c) \in Nat
  BY <1>1, <1>4
<1>7. c > 0 => BlockStart(j) = Nth(E, c) + 1
  BY <1>2, <1>3
<1>8. BlockStart(j) \in Nat \ {0}
  BY <1>2, <1>3, <1>6, <1>7
<1>9. QED
  BY <1>1, <1>5, <1>7, <1>8 DEF E, j

\* A line that is no separator belongs to the block that is being read.
LEMMA NextLine ==
  ASSUME Shapes, SoFar, next <= Len(file), file[next].kind # "separator"
  PROVE  LET c == Len(rules)  from == BlockStart(Len(rules) + 1) IN
         /\ c # Cardinality(Ends) /\ from <= next + 1 /\ next + 1 <= Nth(Ends, c + 1)
         /\ file[next] \in Line
         /\ SubSeq(file, from, next - 1) \in Seq(Line)
         /\ SubSeq(file, from, (next + 1) - 1) =
              Append(SubSeq(file, from, next - 1), file[next])
         /\ CutInto(SubSeq(file, from, next - 1), parts, lines)
<1> DEFINE c == Len(rules)
           from == BlockStart(c + 1)
           E == Ends
           n == Cardinality(E)
           end == Nth(E, c + 1)
           B == SubSeq(file, from, next - 1)
<1>1. file \in Seq(Line) /\ next \in Nat \ {0} /\ Len(file) \in Nat /\ c \in Nat /\ n \in Nat
  <2>1. file \in Seq(Line) /\ rules \in Seq(Rule) /\ next \in 1 .. Len(file) + 1
    BY DEF Shapes
  <2>2. QED
    BY <2>1, EndsAre
<1>2. file[next] \in Line
  BY <1>1, ElementOfSeq
<1>3. c < n
  <2>1. c <= n /\ (c = n => next = Len(file) + 1)
    BY DEF SoFar
  <2> HIDE DEF c, n
  <2>2. QED
    BY <1>1, <2>1
<1>4. from <= next /\ next <= end /\ CutInto(B, parts, lines)
  BY <1>3 DEF SoFar
<1>5. from \in Nat \ {0} /\ end \in E /\ end \in Nat
  BY <1>1, <1>3, BlockStartIs
<1>6. next \notin E
  <2>1. next < Len(file) + 1
    BY <1>1
  <2>2. QED
    BY <1>1, <2>1, EndsAre
<1>7. end # next
  BY <1>5, <1>6
<1>8. B \in Seq(Line)
  <2> DEFINE l == next - 1
  <2>1. l \in Int /\ l <= Len(file)
    BY <1>1
  <2> HIDE DEF l, from
  <2>2. SubSeq(file, from, l) \in Seq(Line)
    BY <1>1, <1>5, <2>1, SubIs
  <2>3. QED
    BY <2>2 DEF l
<1>9. SubSeq(file, from, (next + 1) - 1) = Append(B, file[next])
  <2> HIDE DEF from
  <2>1. (next + 1) - 1 = next
    BY <1>1
  <2>2. from \in 1 .. Len(file) /\ next \in from .. Len(file)
    BY <1>1, <1>4, <1>5
  <2>3. SubSeq(file, from, next) = SubSeq(file, from, next - 1) \o <<file[next]>>
    BY <1>1, <2>2, SubSeqRecursiveSecond
  <2>4. Append(B, file[next]) = B \o <<file[next]>>
    BY <1>2, <1>8, AppendIsConcat
  <2>5. QED
    BY <2>1, <2>3, <2>4
<1>10. from <= next + 1 /\ next + 1 <= end /\ c # n
  <2> HIDE DEF from, end, c, n
  <2>1. QED
    BY <1>1, <1>3, <1>4, <1>5, <1>7
<1>11. QED
  BY <1>2, <1>4, <1>8, <1>9, <1>10

\* The block that ends is the next one of the grammar, if there is one.
LEMMA BlockEnds ==
  ASSUME Shapes, SoFar, next <= Len(file) => file[next].kind = "separator"
  PROVE  LET c == Len(rules) IN
         \/ c = Cardinality(Ends) /\ AddLines(parts, lines) = <<>>
         \/ /\ c < Cardinality(Ends) /\ next = Nth(Ends, c + 1)
            /\ AddLines(parts, lines) = Grammar[c + 1]
<1> DEFINE c == Len(rules)
           E == Ends
           n == Cardinality(E)
           b == Len(file) + 1
           j == c + 1
           end == Nth(E, j)
           from == BlockStart(j)
           B == SubSeq(file, from, next - 1)
<1>1. /\ file \in Seq(Line) /\ next \in Nat \ {0} /\ next <= b /\ c \in Nat
      /\ Len(file) \in Nat
  <2>1. file \in Seq(Line) /\ rules \in Seq(Rule) /\ next \in 1 .. Len(file) + 1
    BY DEF Shapes
  <2>2. QED
    BY <2>1
<1>2. /\ E \in SUBSET (0 .. b) /\ b \in Nat /\ b \in E /\ n \in Nat
      /\ \A x \in E : x \in Nat
      /\ \A x \in Nat : x >= 1 /\ x < b => (x \in E <=> file[x].kind = "separator")
  BY <1>1, EndsAre
<1>3. next \in E
  <2>1. CASE next <= Len(file)
    BY <1>1, <1>2, <2>1
  <2>2. CASE ~(next <= Len(file))
    <3>1. next = b
      BY <1>1, <2>2
    <3>2. QED
      BY <1>2, <3>1
  <2>3. QED
    BY <2>1, <2>2
<1>4. /\ c <= n
      /\ c < n => from <= next /\ next <= end /\ CutInto(B, parts, lines)
      /\ c = n => parts = <<>> /\ lines = <<>>
  BY DEF SoFar
<1>5. CASE c = n
  <2>1. parts = <<>> /\ lines = <<>>
    BY <1>4, <1>5
  <2>2. Chop(<<>>) = <<>>
    BY DEF Chop
  <2>3. AddLines(parts, lines) = <<>>
    BY <2>1, <2>2 DEF AddLines
  <2>4. QED
    BY <1>5, <2>3
<1>6. CASE c < n
  <2>1. /\ from \in Nat \ {0}
        /\ c > 0 => from = Nth(E, c) + 1
        /\ end \in E /\ end \in Nat
    BY <1>1, <1>6, BlockStartIs
  <2>2. from <= next /\ next <= end /\ CutInto(B, parts, lines)
    BY <1>4, <1>6
  <2>3. j \in 1 .. n /\ (j > 1 => c > 0 /\ j - 1 = c)
    <3> HIDE DEF c, n
    <3>1. QED
      BY <1>1, <1>2, <1>6
  <2>4. j > 1 => next > Nth(E, j - 1)
    <3> SUFFICES ASSUME j > 1 PROVE next > Nth(E, j - 1)
      OBVIOUS
    <3> DEFINE x == Nth(E, c)
    <3>1. from = x + 1 /\ j - 1 = c
      BY <2>1, <2>3
    <3>2. x \in Nat
      <4> HIDE DEF E, b, c
      <4>1. c \in 1 .. n
        <5> HIDE DEF n
        <5>1. c > 0 /\ c < n
          BY <1>6, <2>3
        <5>2. QED
          BY <1>1, <1>2, <5>1
      <4>2. x \in E
        BY <1>2, <4>1, NthHasRank
      <4> HIDE DEF x
      <4>3. QED
        BY <1>2, <4>2
    <3> HIDE DEF x, from
    <3>3. next > x
      BY <1>1, <2>2, <3>1, <3>2
    <3>4. QED
      BY <3>1, <3>3 DEF x
  <2>5. next = end
    <3> HIDE DEF E, b, j
    <3>1. QED
      BY <1>2, <1>3, <2>2, <2>3, <2>4, NthNext
  <2>6. B \in Seq(Line)
    <3> DEFINE l == next - 1
    <3>1. l \in Int /\ l <= Len(file)
      BY <1>1
    <3> HIDE DEF l, from
    <3>2. SubSeq(file, from, l) \in Seq(Line)
      BY <1>1, <2>1, <3>1, SubIs
    <3>3. QED
      BY <3>2 DEF l
  <2>7. AddLines(parts, lines) = PartsOf(B)
    <3> HIDE DEF B
    <3>1. QED
      BY <2>2, <2>6, CutEnd
  <2>8. B = Block(j)
    BY <2>5 DEF Block
  <2>9. Grammar[j] = PartsOf(Block(j))
    <3> HIDE DEF j
    <3>1. QED
      BY <1>1, <2>3, GrammarIs
  <2>10. AddLines(parts, lines) = Grammar[j]
    BY <2>7, <2>8, <2>9
  <2>11. QED
    BY <1>6, <2>5, <2>10
<1>7. QED
  <2> HIDE DEF c, n
  <2>1. c = n \/ c < n
    BY <1>1, <1>2, <1>4
  <2>2. QED
    BY <1>5, <1>6, <2>1 DEF c, n

\* The step that ends a block.
LEMMA EndLoads ==
  ASSUME Shapes, Loaded, EndBlock
  PROVE  Loaded'
<1> DEFINE c == Len(rules)
           E == Ends
           n == Cardinality(E)
           b == Len(file) + 1
           block == AddLines(parts, lines)
<1>1. /\ file \in Seq(Line) /\ next \in Nat \ {0} /\ next <= b /\ c \in Nat
      /\ Len(file) \in Nat /\ rules \in Seq(Rule)
  <2>1. file \in Seq(Line) /\ rules \in Seq(Rule) /\ next \in 1 .. Len(file) + 1
    BY DEF Shapes
  <2>2. QED
    BY <2>1
<1>2. /\ E \in SUBSET (0 .. b) /\ b \in Nat /\ b \in E /\ n \in Nat
      /\ \A x \in E : x \in Nat /\ x >= 1 /\ x <= b
  BY <1>1, EndsAre
<1>3. /\ step = "loading" /\ file' = file /\ parts' = <<>> /\ lines' = <<>>
      /\ next' = Min({next + 1, b})
      /\ next <= Len(file) => file[next].kind = "separator"
  BY DEF EndBlock
<1>4. \/ Len(block) = 0 /\ step' = "ready" /\ rules' = rules
      \/ Len(block) = 1 /\ step' = "failed"
      \/ Len(block) \notin {0, 1} /\ step' = "loading" /\ rules' = Append(rules, block)
  BY <1>3 DEF EndBlock
<1>5. SoFar
  BY <1>3 DEF Loaded
<1>6. c <= n /\ \A r \in 1 .. c : rules[r] = Grammar[r] /\ Len(rules[r]) >= 2
  BY <1>5 DEF SoFar
<1>7. \/ c = n /\ block = <<>>
      \/ c < n /\ next = Nth(E, c + 1) /\ block = Grammar[c + 1]
  BY <1>3, <1>5, BlockEnds
<1>8. block \in Seq(Part)
  BY AddLinesTyped DEF Shapes
<1>9. /\ Ends' = E /\ Grammar' = Grammar /\ RuleCount' = RuleCount
      /\ \A j : BlockStart(j)' = BlockStart(j)
  BY <1>3, SameFile
<1> HIDE DEF block, n, b
<1>10. \A r \in 1 .. c : Grammar[r] # <<>>
  <2>1. \A r \in 1 .. c : Len(Grammar[r]) >= 2
    BY <1>6
  <2>2. Len(<<>>) = 0
    OBVIOUS
  <2>3. QED
    BY <2>1, <2>2
<1>11. c \in 0 .. n
  BY <1>1, <1>2, <1>6
<1>12. CASE Len(block) = 0 /\ step' = "ready" /\ rules' = rules
  <2>1. block = <<>>
    BY <1>8, <1>12
  <2>2. c = n \/ Grammar[c + 1] = <<>>
    BY <1>7, <2>1
  <2>3. RuleCount = c
    BY <1>1, <1>10, <1>11, <2>2, RuleCountIs DEF n
  <2>4. rules = SubSeq(Grammar, 1, c)
    BY <1>6, RulesAre
  <2>5. ~\E j \in 1 .. c : Len(Grammar[j]) = 1
    <3>1. \A j \in 1 .. c : Len(Grammar[j]) >= 2
      BY <1>6
    <3>2. ~(1 >= 2)
      OBVIOUS
    <3>3. QED
      BY <3>1, <3>2
  <2>6. LoadIsGrammar'
    BY <1>9, <1>12, <2>3, <2>4, <2>5 DEF LoadIsGrammar
  <2>7. QED
    BY <1>12, <2>6 DEF Loaded
<1>13. CASE Len(block) = 1 /\ step' = "failed"
  <2>1. block # <<>>
    BY <1>13
  <2>2. c < n /\ block = Grammar[c + 1]
    BY <1>7, <2>1
  <2> DEFINE j == c + 1
  <2>3. j \in 0 .. n /\ \A r \in 1 .. j : r \in 1 .. c \/ r = j
    BY <1>1, <1>2, <2>2
  <2>4. j >= 1 /\ j \in Nat /\ Grammar[j] = block
    BY <1>1, <2>2
  <2> HIDE DEF j
  <2>5. \A r \in 1 .. j : Grammar[r] # <<>>
    BY <1>10, <2>1, <2>3, <2>4
  <2>6. RuleCount \in Nat /\ RuleCount >= j
    BY <1>1, <2>3, <2>5, RuleCountIs DEF n
  <2>7. j \in 1 .. RuleCount /\ Len(Grammar[j]) = 1
    BY <1>13, <2>4, <2>6
  <2>8. LoadIsGrammar'
    BY <1>9, <1>13, <2>7 DEF LoadIsGrammar
  <2>9. QED
    BY <1>13, <2>8 DEF Loaded
<1>14. CASE Len(block) \notin {0, 1} /\ step' = "loading" /\ rules' = Append(rules, block)
  <2> DEFINE j == c + 1
             more == Append(rules, block)
  <2>1. Len(block) \in Nat /\ Len(block) >= 2 /\ block # <<>>
    <3>1. Len(block) \in Nat /\ (block = <<>> => Len(block) = 0)
      BY <1>8
    <3> DEFINE l == Len(block)
    <3> HIDE DEF l
    <3>2. l \in Nat /\ l # 0 /\ l # 1
      BY <1>14, <3>1 DEF l
    <3>3. l >= 2
      BY <3>2
    <3>4. QED
      BY <3>1, <3>2, <3>3 DEF l
  <2>2. c < n /\ next = Nth(E, j) /\ block = Grammar[j]
    BY <1>7, <2>1
  <2>3. block \in Rule
    BY <1>8, <2>1 DEF Rule
  <2>4. /\ Len(more) = j
        /\ \A r \in 1 .. c : more[r] = rules[r]
        /\ more[j] = block
    BY <1>1, <2>3, AppendProperties
  <2>5. j \in Nat /\ j <= n /\ \A r \in 1 .. j : r \in 1 .. c \/ r = j
    BY <1>1, <1>2, <2>2
  <2> HIDE DEF j, more, c
  <2>6. \A r \in 1 .. j : more[r] = Grammar[r] /\ Len(more[r]) >= 2
    BY <1>6, <2>1, <2>2, <2>4, <2>5
  <2>7. next' = IF next = b THEN b ELSE next + 1
    <3> DEFINE M == {next + 1, b}
               x == IF next = b THEN b ELSE next + 1
    <3>1. M \in SUBSET Nat /\ x \in M /\ \A y \in M : x <= y
      BY <1>1, <1>2
    <3>2. next' = Min(M)
      BY <1>3
    <3> HIDE DEF M, x
    <3>3. next' = x
      BY <3>1, <3>2, MinIs
    <3>4. QED
      BY <3>3 DEF x
  <2>8. CASE j = n
    <3>1. next = b
      <4> HIDE DEF E
      <4>1. QED
        BY <1>2, <2>2, <2>8, NthIsLast DEF n
    <3>2. next' = Len(file) + 1
      BY <2>7, <3>1 DEF b
    <3>3. SoFar'
      BY <1>3, <1>9, <1>14, <2>4, <2>6, <2>8, <3>2 DEF SoFar, more, n
    <3>4. LoadIsGrammar'
      BY <1>14 DEF LoadIsGrammar
    <3>5. QED
      BY <3>3, <3>4 DEF Loaded
  <2>9. CASE j < n
    <3> DEFINE from == BlockStart(j + 1)
               end == Nth(E, j + 1)
    <3>1. /\ from \in Nat \ {0} /\ (j > 0 => from = Nth(E, j) + 1)
          /\ end \in E /\ end \in Nat
      BY <1>1, <2>5, <2>9, BlockStartIs DEF n
    <3>2. j > 0
      BY <1>1 DEF j, c
    <3>3. from = next + 1
      BY <2>2, <3>1, <3>2
    <3>4. Nth(E, j) < end
      <4> DEFINE k == j + 1
      <4>1. j \in 1 .. n /\ k \in 1 .. n /\ j < k
        BY <1>2, <2>5, <2>9, <3>2
      <4> HIDE DEF E, k
      <4>2. Nth(E, j) < Nth(E, k)
        BY <1>2, <4>1, NthGrows DEF n
      <4>3. QED
        BY <4>2 DEF k
    <3>5. end <= b
      BY <1>2, <3>1
    <3> HIDE DEF from, end
    <3>6. next < end /\ next # b
      BY <1>1, <1>2, <2>2, <3>1, <3>4, <3>5
    <3>7. next' = from /\ from <= end
      BY <1>1, <2>7, <3>1, <3>3, <3>6
    <3>8. CutInto(SubSeq(file, from, from - 1), <<>>, <<>>)
      BY <1>1, <3>1, BlockBegins
    <3>9. j # n
      BY <1>2, <2>5, <2>9
    <3>10. from <= from
      BY <3>1
    <3>11. SoFar'
      <4>1. Len(rules') = j
        BY <1>14, <2>4 DEF more
      <4>2. \A r \in 1 .. j : rules'[r] = Grammar[r] /\ Len(rules'[r]) >= 2
        BY <1>14, <2>6 DEF more
      <4>3. BlockStart(Len(rules) + 1)' = from
        BY <1>9, <4>1 DEF BlockStart, from
      <4>4. Nth(Ends', Len(rules') + 1) = end
        BY <1>9, <4>1 DEF end
      <4>5. CutInto(SubSeq(file', BlockStart(Len(rules) + 1)', next' - 1), parts', lines')
        BY <1>3, <3>7, <3>8, <4>3
      <4>6. /\ BlockStart(Len(rules) + 1)' <= next'
            /\ next' <= Nth(Ends', Len(rules') + 1)
        BY <3>7, <3>10, <4>3, <4>4
      <4>7. Len(rules') <= Cardinality(Ends') /\ Len(rules') # Cardinality(Ends')
        BY <1>9, <2>5, <3>9, <4>1 DEF n
      <4>8. \A r \in 1 .. Len(rules') : rules'[r] = Grammar'[r] /\ Len(rules'[r]) >= 2
        BY <1>9, <4>1, <4>2
      <4>9. QED
        BY <4>5, <4>6, <4>7, <4>8 DEF SoFar
    <3>12. LoadIsGrammar'
      BY <1>14 DEF LoadIsGrammar
    <3>13. QED
      BY <3>11, <3>12 DEF Loaded
  <2>10. j = n \/ j < n
    BY <1>2, <2>5
  <2>11. QED
    BY <2>8, <2>9, <2>10
<1>15. QED
  BY <1>4, <1>12, <1>13, <1>14

\* The steps that read a line of a block.
LEMMA LineLoads ==
  ASSUME Shapes, Loaded, step = "loading", next <= Len(file),
         file[next].kind # "separator",
         file' = file, next' = next + 1, rules' = rules, step' = step,
         \A B \in Seq(Line) : CutInto(B, parts, lines) =>
           CutInto(Append(B, file[next]), parts', lines')
  PROVE  Loaded'
<1> DEFINE c == Len(rules)
           from == BlockStart(c + 1)
           end == Nth(Ends, c + 1)
<1>1. SoFar
  BY DEF Loaded
<1>2. /\ c # Cardinality(Ends) /\ from <= next + 1 /\ next + 1 <= end
      /\ SubSeq(file, from, next - 1) \in Seq(Line)
      /\ SubSeq(file, from, (next + 1) - 1) =
           Append(SubSeq(file, from, next - 1), file[next])
      /\ CutInto(SubSeq(file, from, next - 1), parts, lines)
  BY <1>1, NextLine
<1>3. CutInto(SubSeq(file, from, (next + 1) - 1), parts', lines')
  BY <1>2
<1>4. Ends' = Ends /\ Grammar' = Grammar
  BY SameFile
<1>5. BlockStart(Len(rules) + 1)' = from
  BY <1>4 DEF BlockStart
<1>6. /\ c <= Cardinality(Ends)
      /\ \A r \in 1 .. c : rules[r] = Grammar[r] /\ Len(rules[r]) >= 2
  BY <1>1 DEF SoFar
<1> HIDE DEF from
<1>7. /\ BlockStart(Len(rules) + 1)' <= next'
      /\ next' <= Nth(Ends', Len(rules') + 1)
      /\ CutInto(SubSeq(file', BlockStart(Len(rules) + 1)', next' - 1), parts', lines')
  BY <1>2, <1>3, <1>4, <1>5
<1>8. /\ Len(rules') <= Cardinality(Ends') /\ Len(rules') # Cardinality(Ends')
      /\ \A r \in 1 .. Len(rules') : rules'[r] = Grammar'[r] /\ Len(rules'[r]) >= 2
  BY <1>2, <1>4, <1>6
<1>9. SoFar'
  BY <1>7, <1>8 DEF SoFar
<1>10. LoadIsGrammar'
  BY DEF LoadIsGrammar
<1>11. QED
  BY <1>9, <1>10 DEF Loaded

LEMMA LoadedNext == Shapes /\ Loaded /\ [Next]_vars => Loaded'
<1> SUFFICES ASSUME Shapes, Loaded, [Next]_vars PROVE Loaded'
  OBVIOUS
<1>0. Len(file) \in Nat /\ next \in Nat \ {0} /\ file \in Seq(Line)
  <2>1. file \in Seq(Line) /\ next \in 1 .. Len(file) + 1
    BY DEF Shapes
  <2>2. QED
    BY <2>1
<1>1. CASE ReadResponse
  <2>1. /\ step = "loading" /\ next <= Len(file) /\ file[next].kind = "response"
        /\ parts' = AddLines(parts, lines) /\ lines' = <<file[next]>>
        /\ next' = next + 1 /\ file' = file /\ rules' = rules /\ step' = step
    BY <1>1 DEF ReadResponse
  <2>2. file[next] \in Line
    BY <1>0, <2>1, ElementOfSeq
  <2>3. \A B \in Seq(Line) : CutInto(B, parts, lines) =>
          CutInto(Append(B, file[next]), parts', lines')
    BY <2>1, <2>2, CutResponse
  <2>4. QED
    BY <2>1, <2>3, LineLoads
<1>2. CASE ReadText
  <2>1. /\ step = "loading" /\ next <= Len(file)
        /\ file[next].kind \in {"plain", "header"}
        /\ parts' = parts /\ lines' = Append(lines, file[next])
        /\ next' = next + 1 /\ file' = file /\ rules' = rules /\ step' = step
    BY <1>2 DEF ReadText
  <2>2. file[next] \in Line
    BY <1>0, <2>1, ElementOfSeq
  <2>3. \A B \in Seq(Line) : CutInto(B, parts, lines) =>
          CutInto(Append(B, file[next]), parts', lines')
    BY <2>1, <2>2, CutText
  <2>4. QED
    BY <2>1, <2>3, LineLoads
<1>3. CASE EndBlock
  BY <1>3, EndLoads
<1>4. ASSUME file' = file, rules' = rules, step \notin {"loading", "failed"},
             step' \notin {"loading", "failed"}
      PROVE  Loaded'
  <2>1. Grammar' = Grammar /\ RuleCount' = RuleCount
    BY <1>4, SameFile
  <2>2. QED
    BY <1>4, <2>1 DEF Loaded, LoadIsGrammar
<1>5. ASSUME NEW m \in Messages(file), Receive(m)
      PROVE  Loaded'
  BY <1>4, <1>5 DEF Receive, reading
<1>6. CASE TryRule
  <2>1. /\ step = "matching" /\ step' \in {"matching", "matched", "error"}
        /\ file' = file /\ rules' = rules
    BY <1>6 DEF TryRule, reading
  <2>2. QED
    BY <1>4, <2>1
<1>7. CASE NoRuleLeft
  BY <1>4, <1>7 DEF NoRuleLeft, reading
<1>8. CASE UNCHANGED vars
  <2>1. /\ file' = file /\ next' = next /\ parts' = parts /\ lines' = lines
        /\ rules' = rules /\ step' = step
    BY <1>8 DEF vars, reading
  <2>2. /\ Ends' = Ends /\ Grammar' = Grammar /\ RuleCount' = RuleCount
    BY <2>1, SameFile
  <2>3. BlockStart(Len(rules) + 1)' = BlockStart(Len(rules) + 1)
    BY <2>1, <2>2 DEF BlockStart
  <2>4. SoFar' = SoFar /\ LoadIsGrammar' = LoadIsGrammar
    BY <2>1, <2>2, <2>3 DEF SoFar, LoadIsGrammar
  <2>5. QED
    BY <2>1, <2>4 DEF Loaded
<1>9. QED
  BY <1>1, <1>2, <1>3, <1>5, <1>6, <1>7, <1>8 DEF Next

\* What is loaded is the grammar of the file, for every file: its blocks in
\* their order, each cut in front of its responses, up to the first empty
\* block; and the load fails iff one of them is a request only (load,
\* loadReqResp, addLines).
THEOREM LoadIsTheGrammar == Spec => []LoadIsGrammar
<1>1. Init => Loaded
  BY LoadedInit
<1>2. IInv /\ Loaded /\ [Next]_vars => Loaded'
  BY LoadedNext DEF IInv
<1>3. Loaded => LoadIsGrammar
  BY DEF Loaded
<1>4. QED
  BY <1>1, <1>2, <1>3, Invariance, PTL DEF Spec

-----------------------------------------------------------------------------
(* The walk over an archive, ScriptTree: sequences of files.               *)

\* Induction over sequences that grow at their end, for a set.
LEMMA AppendInduction ==
  ASSUME NEW S, NEW T, <<>> \in T, \A s \in Seq(S), e \in S : s \in T => Append(s, e) \in T
  PROVE  \A s \in Seq(S) : s \in T
<1> DEFINE U == {n \in Nat : \A s \in Seq(S) : Len(s) = n => s \in T}
<1>1. 0 \in U
  OBVIOUS
<1>2. \A n \in Nat : n \in U => n + 1 \in U
  <2> SUFFICES ASSUME NEW n \in Nat, n \in U, NEW s \in Seq(S), Len(s) = n + 1 PROVE s \in T
    OBVIOUS
  <2>1. s # <<>>
    OBVIOUS
  <2>2. PICK t \in Seq(S), e \in S : s = Append(t, e)
    BY <2>1, SequenceEmptyOrAppend
  <2>3. Len(t) \in Nat /\ Len(s) = Len(t) + 1
    BY <2>2, LenProperties, AppendProperties
  <2>4. Len(t) = n
    BY <2>3
  <2>5. QED
    BY <2>2, <2>4
<1> HIDE DEF U
<1>3. \A n \in Nat : n \in U
  BY <1>1, <1>2, SetInduction
<1>4. \A s \in Seq(S) : Len(s) \in U
  BY <1>3, LenProperties
<1>5. QED
  BY <1>4 DEF U

\* What a sequence has.
LEMMA ToSetOfNone == ToSet(<<>>) = {}
  BY DEF ToSet

LEMMA ToSetOfAppend ==
  ASSUME NEW S, NEW s \in Seq(S), NEW e \in S
  PROVE  ToSet(Append(s, e)) = ToSet(s) \cup {e}
<1> DEFINE t == Append(s, e)
           n == Len(s)
<1>1. n \in Nat /\ DOMAIN s = 1 .. n
  BY LenProperties
<1>2. Len(t) = n + 1 /\ t \in Seq(S) /\ (\A i \in 1 .. n : t[i] = s[i]) /\ t[n + 1] = e
  BY AppendProperties
<1> HIDE DEF t, n
<1>3. DOMAIN t = 1 .. n + 1
  BY <1>2, LenProperties
<1>4. \A i : i \in 1 .. n + 1 <=> i \in 1 .. n \/ i = n + 1
  BY <1>1
<1>5. ToSet(t) = ToSet(s) \cup {e}
  BY <1>1, <1>2, <1>3, <1>4 DEF ToSet
<1>6. QED
  BY <1>5 DEF t

LEMMA ToSetOfConcat ==
  ASSUME NEW S, NEW s \in Seq(S), NEW t \in Seq(S)
  PROVE  ToSet(s \o t) = ToSet(s) \cup ToSet(t)
<1> DEFINE T == {u \in Seq(S) : s \o u \in Seq(S) /\ ToSet(s \o u) = ToSet(s) \cup ToSet(u)}
<1>1. <<>> \in T
  BY EmptySeq, ConcatEmptySeq, ToSetOfNone
<1>2. \A u \in Seq(S), e \in S : u \in T => Append(u, e) \in T
  <2> SUFFICES ASSUME NEW u \in Seq(S), NEW e \in S, u \in T PROVE Append(u, e) \in T
    OBVIOUS
  <2>1. Append(u, e) = u \o <<e>> /\ Append(s \o u, e) = (s \o u) \o <<e>>
    BY AppendIsConcat
  <2>2. <<e>> \in Seq(S)
    OBVIOUS
  <2>3. s \o Append(u, e) = Append(s \o u, e)
    BY <2>1, <2>2, ConcatAssociative
  <2>4. Append(u, e) \in Seq(S) /\ ToSet(Append(u, e)) = ToSet(u) \cup {e}
    BY AppendProperties, ToSetOfAppend
  <2>5. /\ Append(s \o u, e) \in Seq(S)
        /\ ToSet(Append(s \o u, e)) = ToSet(s \o u) \cup {e}
    <3>1. s \o u \in Seq(S)
      BY ConcatProperties
    <3> DEFINE v == s \o u
    <3> HIDE DEF v
    <3>2. v \in Seq(S)
      BY <3>1 DEF v
    <3>3. Append(v, e) \in Seq(S) /\ ToSet(Append(v, e)) = ToSet(v) \cup {e}
      BY <3>2, AppendProperties, ToSetOfAppend
    <3>4. QED
      BY <3>3 DEF v
  <2>6. QED
    BY <2>3, <2>4, <2>5
<1> HIDE DEF T
<1>3. \A u \in Seq(S) : u \in T
  BY <1>1, <1>2, AppendInduction
<1>4. QED
  BY <1>3 DEF T

LEMMA ToSetOfTail ==
  ASSUME NEW S, NEW s \in Seq(S), s # <<>>
  PROVE  ToSet(s) = {Head(s)} \cup ToSet(Tail(s))
<1> DEFINE n == Len(s)
           t == Tail(s)
<1>1. n \in Nat \ {0} /\ DOMAIN s = 1 .. n
  BY EmptySeq, LenProperties
<1>2. t \in Seq(S) /\ Len(t) = n - 1 /\ \A i \in 1 .. Len(t) : t[i] = s[i + 1]
  BY HeadTailProperties
<1>3. Head(s) = s[1]
  OBVIOUS
<1> HIDE DEF n, t
<1>4. DOMAIN t = 1 .. n - 1
  BY <1>2, LenProperties
<1>5. \A i \in 1 .. n : i = 1 \/ (i - 1 \in 1 .. n - 1 /\ (i - 1) + 1 = i)
  BY <1>1
<1>6. 1 \in 1 .. n /\ \A i \in 1 .. n - 1 : i + 1 \in 1 .. n
  BY <1>1
<1>7. \A x \in ToSet(s) : x = Head(s) \/ x \in ToSet(t)
  <2> SUFFICES ASSUME NEW i \in 1 .. n PROVE s[i] = Head(s) \/ s[i] \in ToSet(t)
    BY <1>1 DEF ToSet
  <2>1. CASE i = 1
    BY <1>3, <2>1
  <2>2. CASE i # 1
    <3>1. i - 1 \in 1 .. n - 1 /\ (i - 1) + 1 = i
      BY <1>5, <2>2
    <3>2. t[i - 1] = s[i]
      BY <1>2, <3>1
    <3>3. QED
      BY <1>4, <3>1, <3>2 DEF ToSet
  <2>3. QED
    BY <2>1, <2>2
<1>8. Head(s) \in ToSet(s)
  BY <1>1, <1>3, <1>6 DEF ToSet
<1>9. \A x \in ToSet(t) : x \in ToSet(s)
  BY <1>1, <1>2, <1>4, <1>6 DEF ToSet
<1>10. ToSet(s) = {Head(s)} \cup ToSet(t)
  BY <1>7, <1>8, <1>9
<1>11. QED
  BY <1>10 DEF t

\* OfKind by the length of the sequence.
IsSelection(s, kinds, n, f) ==
  f = [i \in 0 .. n |-> IF i = 0 THEN <<>>
                        ELSE IF s[i] \in kinds THEN Append(f[i - 1], s[i]) ELSE f[i - 1]]

LEMMA SelectionsExist ==
  ASSUME NEW s, NEW kinds
  PROVE  \A n \in Nat : \E f : IsSelection(s, kinds, n, f)
<1> DEFINE T == {n \in Nat : \E f : IsSelection(s, kinds, n, f)}
<1>1. 0 \in T
  <2> DEFINE f == [i \in 0 .. 0 |-> <<>>]
  <2>1. \A i \in 0 .. 0 : i = 0
    OBVIOUS
  <2>2. IsSelection(s, kinds, 0, f)
    BY <2>1 DEF IsSelection
  <2>3. QED
    BY <2>2
<1>2. \A n \in Nat : n \in T => n + 1 \in T
  <2> SUFFICES ASSUME NEW n \in Nat, NEW f, IsSelection(s, kinds, n, f)
               PROVE  \E g : IsSelection(s, kinds, n + 1, g)
    OBVIOUS
  <2> DEFINE last == IF s[n + 1] \in kinds THEN Append(f[n], s[n + 1]) ELSE f[n]
             g == [i \in 0 .. n + 1 |-> IF i = n + 1 THEN last ELSE f[i]]
             given(h, i) == IF i = 0 THEN <<>>
                           ELSE IF s[i] \in kinds THEN Append(h[i - 1], s[i]) ELSE h[i - 1]
  <2>1. \A i \in 0 .. n + 1 : g[i] = given(g, i)
    <3> SUFFICES ASSUME NEW i \in 0 .. n + 1 PROVE g[i] = given(g, i)
      OBVIOUS
    <3>1. CASE i = 0
      <4>1. 0 \in 0 .. n /\ 0 # n + 1
        OBVIOUS
      <4>2. f[0] = <<>>
        BY <4>1 DEF IsSelection
      <4>3. QED
        BY <3>1, <4>1, <4>2
    <3>2. CASE i = n + 1
      <4>1. n \in 0 .. n + 1 /\ n # n + 1 /\ i - 1 = n /\ i # 0
        BY <3>2
      <4>2. g[n] = f[n] /\ g[i] = last
        BY <3>2, <4>1
      <4> HIDE DEF g
      <4>3. QED
        BY <3>2, <4>1, <4>2
    <3>3. CASE i # 0 /\ i # n + 1
      <4>1. i \in 0 .. n /\ i - 1 \in 0 .. n + 1 /\ i - 1 # n + 1
        BY <3>3
      <4>2. f[i] = given(f, i)
        BY <4>1 DEF IsSelection
      <4>3. g[i] = f[i] /\ g[i - 1] = f[i - 1]
        BY <3>3, <4>1
      <4> HIDE DEF g
      <4>4. QED
        BY <3>3, <4>2, <4>3
    <3>4. QED
      BY <3>1, <3>2, <3>3
  <2>2. g = [i \in 0 .. n + 1 |-> g[i]]
    OBVIOUS
  <2> HIDE DEF g
  <2>3. g = [i \in 0 .. n + 1 |-> given(g, i)]
    BY <2>1, <2>2
  <2>4. QED
    BY <2>3 DEF IsSelection
<1> HIDE DEF T
<1>3. \A n \in Nat : n \in T
  BY <1>1, <1>2, SetInduction
<1>4. QED
  BY <1>3 DEF T

LEMMA OfKindIs ==
  ASSUME NEW s, NEW kinds, Len(s) \in Nat
  PROVE  \E f : IsSelection(s, kinds, Len(s), f) /\ OfKind(s, kinds) = f[Len(s)]
<1> DEFINE f == CHOOSE h : h = [i \in 0 .. Len(s) |-> IF i = 0 THEN <<>>
                    ELSE IF s[i] \in kinds THEN Append(h[i - 1], s[i]) ELSE h[i - 1]]
<1>1. f = [i \in 0 .. Len(s) |-> IF i = 0 THEN <<>>
             ELSE IF s[i] \in kinds THEN Append(f[i - 1], s[i]) ELSE f[i - 1]]
  <2>1. \E h : IsSelection(s, kinds, Len(s), h)
    BY SelectionsExist
  <2>2. QED
    BY <2>1 DEF IsSelection
<1>2. OfKind(s, kinds) = f[Len(s)]
  BY DEF OfKind
<1> HIDE DEF f
<1>3. IsSelection(s, kinds, Len(s), f)
  BY <1>1 DEF IsSelection
<1>4. QED
  BY <1>2, <1>3

LEMMA SelectionIs ==
  ASSUME NEW s, NEW kinds, NEW n \in Nat, NEW f, IsSelection(s, kinds, n, f)
  PROVE  /\ f[0] = <<>>
         /\ \A i \in 1 .. n : f[i] = IF s[i] \in kinds THEN Append(f[i - 1], s[i]) ELSE f[i - 1]
<1>1. 0 \in 0 .. n
  OBVIOUS
<1>2. \A i \in 1 .. n : i \in 0 .. n /\ i # 0
  OBVIOUS
<1>3. f[0] = <<>>
  BY <1>1 DEF IsSelection
<1>4. \A i \in 1 .. n : f[i] = IF s[i] \in kinds THEN Append(f[i - 1], s[i]) ELSE f[i - 1]
  BY <1>2 DEF IsSelection
<1>5. QED
  BY <1>3, <1>4

\* Selections of sequences with the same beginning agree on it.
LEMMA SelectionsAgree ==
  ASSUME NEW s, NEW t, NEW kinds, NEW m \in Nat, NEW n \in Nat, m <= n,
         \A i \in 1 .. m : s[i] = t[i],
         NEW f, IsSelection(s, kinds, m, f), NEW g, IsSelection(t, kinds, n, g)
  PROVE  f[m] = g[m]
<1>1. /\ f[0] = <<>> /\ g[0] = <<>>
      /\ \A i \in 1 .. m : f[i] = IF s[i] \in kinds THEN Append(f[i - 1], s[i]) ELSE f[i - 1]
      /\ \A i \in 1 .. n : g[i] = IF t[i] \in kinds THEN Append(g[i - 1], t[i]) ELSE g[i - 1]
  BY SelectionIs
<1> DEFINE T == {i \in Nat : i <= m => f[i] = g[i]}
<1>2. 0 \in T
  BY <1>1
<1>3. \A i \in Nat : i \in T => i + 1 \in T
  <2> SUFFICES ASSUME NEW i \in Nat, i \in T, i + 1 <= m PROVE f[i + 1] = g[i + 1]
    OBVIOUS
  <2>1. f[i] = g[i] /\ i + 1 \in 1 .. m /\ i + 1 \in 1 .. n /\ (i + 1) - 1 = i
    OBVIOUS
  <2>2. f[i + 1] = IF s[i + 1] \in kinds THEN Append(f[i], s[i + 1]) ELSE f[i]
    BY <1>1, <2>1
  <2>3. g[i + 1] = IF t[i + 1] \in kinds THEN Append(g[i], t[i + 1]) ELSE g[i]
    BY <1>1, <2>1
  <2>4. s[i + 1] = t[i + 1]
    BY <2>1
  <2>5. QED
    BY <2>1, <2>2, <2>3, <2>4
<1> HIDE DEF T
<1>4. m \in T
  BY <1>2, <1>3, SetInduction
<1>5. QED
  BY <1>4 DEF T

\* OfKind by the last element of the sequence.
LEMMA OfKindOfNone == \A kinds : OfKind(<<>>, kinds) = <<>>
<1> SUFFICES ASSUME NEW kinds PROVE OfKind(<<>>, kinds) = <<>>
  OBVIOUS
<1>1. Len(<<>>) = 0
  OBVIOUS
<1> DEFINE s == <<>>
<1> HIDE DEF s
<1>2. PICK f : IsSelection(s, kinds, 0, f) /\ OfKind(s, kinds) = f[0]
  BY <1>1, OfKindIs DEF s
<1>3. f[0] = <<>>
  <2>1. 0 \in 0 .. 0
    OBVIOUS
  <2>2. QED
    BY <1>2, <2>1 DEF IsSelection
<1>4. QED
  BY <1>2, <1>3 DEF s

LEMMA OfKindOfAppend ==
  ASSUME NEW S, NEW s \in Seq(S), NEW e \in S, NEW kinds
  PROVE  OfKind(Append(s, e), kinds) =
           IF e \in kinds THEN Append(OfKind(s, kinds), e) ELSE OfKind(s, kinds)
<1> DEFINE t == Append(s, e)
           n == Len(s)
<1>1. n \in Nat
  BY LenProperties
<1>2. Len(t) = n + 1 /\ (\A i \in 1 .. n : t[i] = s[i]) /\ t[n + 1] = e
  BY AppendProperties
<1>3. PICK f : IsSelection(s, kinds, n, f) /\ OfKind(s, kinds) = f[n]
  BY <1>1, OfKindIs
<1> HIDE DEF t, n
<1>4. PICK g : IsSelection(t, kinds, n + 1, g) /\ OfKind(t, kinds) = g[n + 1]
  <2>1. Len(t) \in Nat
    BY <1>1, <1>2
  <2>2. QED
    BY <1>2, <2>1, OfKindIs
<1>5. n + 1 \in Nat /\ n <= n + 1 /\ n + 1 \in 1 .. n + 1 /\ (n + 1) - 1 = n
  BY <1>1
<1>6. f[n] = g[n]
  BY <1>1, <1>2, <1>3, <1>4, <1>5, SelectionsAgree
<1>7. g[n + 1] = IF t[n + 1] \in kinds THEN Append(g[(n + 1) - 1], t[n + 1]) ELSE g[(n + 1) - 1]
  <2> DEFINE m == n + 1
  <2>1. m \in Nat /\ m \in 1 .. m /\ IsSelection(t, kinds, m, g)
    BY <1>4, <1>5
  <2> HIDE DEF m
  <2>2. g[m] = IF t[m] \in kinds THEN Append(g[m - 1], t[m]) ELSE g[m - 1]
    BY <2>1, SelectionIs
  <2>3. QED
    BY <2>2 DEF m
<1>8. OfKind(t, kinds) = IF e \in kinds THEN Append(OfKind(s, kinds), e) ELSE OfKind(s, kinds)
  BY <1>2, <1>3, <1>4, <1>5, <1>6, <1>7
<1>9. QED
  BY <1>8 DEF t

\* What OfKind has of a sequence.
LEMMA OfKindHas ==
  ASSUME NEW S, NEW kinds
  PROVE  \A s \in Seq(S) : /\ OfKind(s, kinds) \in Seq(S)
                           /\ ToSet(OfKind(s, kinds)) = ToSet(s) \cap kinds
<1> DEFINE T == {s \in Seq(S) : /\ OfKind(s, kinds) \in Seq(S)
                                /\ ToSet(OfKind(s, kinds)) = ToSet(s) \cap kinds}
<1>1. <<>> \in T
  <2>1. <<>> \in Seq(S)
    BY EmptySeq
  <2>2. OfKind(<<>>, kinds) = <<>> /\ ToSet(<<>>) = {}
    BY OfKindOfNone, ToSetOfNone
  <2>3. QED
    BY <2>1, <2>2
<1>2. \A s \in Seq(S), e \in S : s \in T => Append(s, e) \in T
  <2> SUFFICES ASSUME NEW s \in Seq(S), NEW e \in S, s \in T PROVE Append(s, e) \in T
    OBVIOUS
  <2>1. Append(s, e) \in Seq(S) /\ ToSet(Append(s, e)) = ToSet(s) \cup {e}
    BY AppendProperties, ToSetOfAppend
  <2> DEFINE u == OfKind(s, kinds)
             v == OfKind(Append(s, e), kinds)
  <2>2. u \in Seq(S) /\ ToSet(u) = ToSet(s) \cap kinds
    OBVIOUS
  <2>3. v = IF e \in kinds THEN Append(u, e) ELSE u
    BY OfKindOfAppend
  <2> HIDE DEF u, v
  <2>4. Append(u, e) \in Seq(S) /\ ToSet(Append(u, e)) = ToSet(u) \cup {e}
    BY <2>2, AppendProperties, ToSetOfAppend
  <2>5. v \in Seq(S) /\ ToSet(v) = ToSet(Append(s, e)) \cap kinds
    BY <2>1, <2>2, <2>3, <2>4
  <2>6. QED
    BY <2>1, <2>5 DEF v
<1> HIDE DEF T
<1>3. \A s \in Seq(S) : s \in T
  BY <1>1, <1>2, AppendInduction
<1>4. QED
  BY <1>3 DEF T

\* Selecting twice selects what is of both kinds.
LEMMA OfKindTwice ==
  ASSUME NEW S, NEW more, NEW kinds, kinds \subseteq more
  PROVE  \A s \in Seq(S) : OfKind(OfKind(s, more), kinds) = OfKind(s, kinds)
<1> DEFINE T == {s \in Seq(S) : OfKind(OfKind(s, more), kinds) = OfKind(s, kinds)}
<1>1. <<>> \in T
  BY EmptySeq, OfKindOfNone
<1>2. \A s \in Seq(S), e \in S : s \in T => Append(s, e) \in T
  <2> SUFFICES ASSUME NEW s \in Seq(S), NEW e \in S, s \in T PROVE Append(s, e) \in T
    OBVIOUS
  <2> DEFINE u == OfKind(s, more)
  <2>1. u \in Seq(S) /\ OfKind(u, kinds) = OfKind(s, kinds)
    BY OfKindHas
  <2>2. OfKind(Append(s, e), more) = IF e \in more THEN Append(u, e) ELSE u
    BY OfKindOfAppend
  <2>3. OfKind(Append(s, e), kinds) = IF e \in kinds THEN Append(OfKind(s, kinds), e) ELSE OfKind(s, kinds)
    BY OfKindOfAppend
  <2> HIDE DEF u
  <2>4. OfKind(Append(u, e), kinds) = IF e \in kinds THEN Append(OfKind(u, kinds), e) ELSE OfKind(u, kinds)
    BY <2>1, OfKindOfAppend
  <2>5. OfKind(OfKind(Append(s, e), more), kinds) = OfKind(Append(s, e), kinds)
    BY <2>1, <2>2, <2>3, <2>4
  <2>6. QED
    BY <2>5, AppendProperties
<1> HIDE DEF T
<1>3. \A s \in Seq(S) : s \in T
  BY <1>1, <1>2, AppendInduction
<1>4. QED
  BY <1>3 DEF T

\* Where the first .ignore is.
IsFirstIgnore(s, i) ==
  /\ i \in 1 .. Len(s) /\ s[i] = "ignore"
  /\ \A j \in 1 .. Len(s) : s[j] = "ignore" => i <= j

LEMMA FirstIgnore ==
  ASSUME NEW s \in Seq(Kind), NEW i, IsFirstIgnore(s, i)
  PROVE  BeforeIgnore(s) = SubSeq(s, 1, i - 1)
<1> DEFINE I == {j \in 1 .. Len(s) : s[j] = "ignore"}
           m == Min(I)
<1>1. i \in I /\ I \in SUBSET Nat /\ (\A j \in I : i <= j /\ j \in Nat)
  BY LenProperties DEF IsFirstIgnore
<1>2. m \in I /\ \A j \in I : m <= j
  BY <1>1, LeastNatural DEF Min
<1>3. SelectInSeq(s, LAMBDA k : k = "ignore") = m
  BY <1>1 DEF SelectInSeq
<1>4. "ignore" \in ToSet(s)
  BY LenProperties DEF ToSet, IsFirstIgnore
<1>5. BeforeIgnore(s) = SubSeq(s, 1, m - 1)
  BY <1>3, <1>4 DEF BeforeIgnore
<1> HIDE DEF I, m
<1>6. m = i
  <2>1. m \in Nat /\ i \in Nat /\ m <= i /\ i <= m
    BY <1>1, <1>2
  <2>2. QED
    BY <2>1
<1>7. QED
  BY <1>5, <1>6

LEMMA FirstIgnoreExists ==
  ASSUME NEW s \in Seq(Kind), "ignore" \in ToSet(s)
  PROVE  \E i : IsFirstIgnore(s, i)
<1> DEFINE I == {j \in 1 .. Len(s) : s[j] = "ignore"}
<1>1. DOMAIN s = 1 .. Len(s) /\ Len(s) \in Nat
  BY LenProperties
<1>2. I \in SUBSET Nat /\ I # {}
  BY <1>1 DEF ToSet
<1>3. PICK i \in I : \A j \in I : i <= j
  BY <1>2, LeastNatural
<1>4. IsFirstIgnore(s, i)
  BY <1>3 DEF IsFirstIgnore
<1>5. QED
  BY <1>4

\* A file after the first .ignore is not read.
LEMMA ReadStays ==
  ASSUME NEW s \in Seq(Kind), "ignore" \in ToSet(s), NEW k \in Kind
  PROVE  BeforeIgnore(Append(s, k)) = BeforeIgnore(s)
<1> DEFINE t == Append(s, k)
           n == Len(s)
<1>1. PICK i : IsFirstIgnore(s, i)
  BY FirstIgnoreExists
<1>2. n \in Nat
  BY LenProperties
<1>3. t \in Seq(Kind) /\ Len(t) = n + 1 /\ (\A j \in 1 .. n : t[j] = s[j])
  BY AppendProperties
<1> HIDE DEF t
<1>4. i \in 1 .. n /\ s[i] = "ignore" /\ \A j \in 1 .. n : s[j] = "ignore" => i <= j
  BY <1>1 DEF IsFirstIgnore
<1> HIDE DEF n
<1>5. \A j \in 1 .. n + 1 : j \in 1 .. n \/ j = n + 1
  BY <1>2
<1>6. i \in 1 .. n + 1 /\ i <= n + 1
  BY <1>2, <1>4
<1>7. IsFirstIgnore(t, i)
  BY <1>3, <1>4, <1>5, <1>6 DEF IsFirstIgnore
<1>8. BeforeIgnore(t) = SubSeq(t, 1, i - 1)
  BY <1>3, <1>7, FirstIgnore
<1>9. BeforeIgnore(s) = SubSeq(s, 1, i - 1)
  BY <1>1, FirstIgnore
<1>10. SubSeq(t, 1, i - 1) = SubSeq(s, 1, i - 1)
  <2> DEFINE j == i - 1
  <2>1. 1 \in Int /\ j \in Int /\ \A l \in 1 .. j : l \in 1 .. n /\ t[l] = s[l]
    BY <1>2, <1>3, <1>4
  <2>2. \A l \in 1 .. j : s[l] \in Kind /\ t[l] \in Kind
    BY <2>1, ElementOfSeq DEF n
  <2> HIDE DEF j
  <2>3. /\ SubSeq(t, 1, j) \in Seq(Kind) /\ SubSeq(s, 1, j) \in Seq(Kind)
        /\ Len(SubSeq(t, 1, j)) = Len(SubSeq(s, 1, j))
    BY <2>1, <2>2, SubSeqProperties
  <2>4. \A l \in 1 .. Len(SubSeq(t, 1, j)) : SubSeq(t, 1, j)[l] = SubSeq(s, 1, j)[l]
    BY <2>1, <2>2, SubSeqProperties
  <2>5. SubSeq(t, 1, j) = SubSeq(s, 1, j)
    BY <2>3, <2>4, SeqEqual
  <2>6. QED
    BY <2>5 DEF j
<1>11. QED
  BY <1>8, <1>9, <1>10 DEF t

\* All files before the first .ignore are.
LEMMA ReadAll ==
  ASSUME NEW s \in Seq(Kind), "ignore" \notin ToSet(s)
  PROVE  BeforeIgnore(Append(s, "ignore")) = s
<1> DEFINE t == Append(s, "ignore")
           n == Len(s)
<1>1. n \in Nat /\ DOMAIN s = 1 .. n /\ "ignore" \in Kind
  BY LenProperties DEF Kind
<1>2. t \in Seq(Kind) /\ Len(t) = n + 1 /\ (\A j \in 1 .. n : t[j] = s[j]) /\ t[n + 1] = "ignore"
  BY <1>1, AppendProperties
<1>3. \A j \in 1 .. n : s[j] # "ignore"
  BY <1>1 DEF ToSet
<1> HIDE DEF t, n
<1>4. \A j \in 1 .. n + 1 : j \in 1 .. n \/ j = n + 1
  BY <1>1
<1>5. n + 1 \in 1 .. n + 1 /\ n + 1 <= n + 1 /\ (n + 1) - 1 = n
  BY <1>1
<1>6. IsFirstIgnore(t, n + 1)
  BY <1>2, <1>3, <1>4, <1>5 DEF IsFirstIgnore
<1>7. BeforeIgnore(t) = SubSeq(t, 1, n)
  BY <1>2, <1>5, <1>6, FirstIgnore
<1>8. SubSeq(t, 1, n) = s
  <2>1. 1 \in Int /\ n \in Int /\ \A l \in 1 .. n : s[l] \in Kind /\ t[l] \in Kind
    BY <1>1, <1>2, ElementOfSeq DEF n
  <2>2. SubSeq(t, 1, n) \in Seq(Kind) /\ Len(SubSeq(t, 1, n)) = n
    BY <1>1, <2>1, SubSeqProperties
  <2>3. \A l \in 1 .. n : SubSeq(t, 1, n)[l] = s[l]
    <3>1. \A l \in 1 .. n : l \in 1 .. n - 1 + 1 /\ 1 + l - 1 = l
      BY <1>1
    <3>2. \A l \in 1 .. n - 1 + 1 : SubSeq(t, 1, n)[l] = t[1 + l - 1]
      BY <2>1, SubSeqProperties
    <3>3. QED
      BY <1>2, <3>1, <3>2
  <2>4. QED
    BY <2>2, <2>3, SeqEqual DEF n
<1>9. QED
  BY <1>7, <1>8 DEF t

-----------------------------------------------------------------------------
(* The tree of directories.                                                *)

\* What the assumption says of the directories.
LEMMA Directories ==
  /\ Root \in Dir /\ None \notin Dir /\ Root \notin SubDir
  /\ \A d \in Dir : d = Root \/ d \in SubDir
  /\ \A d \in SubDir : d \in Dir /\ d # Root /\ ParentOf[d] \in Dir /\ ParentOf[d] \notin Lib
  /\ \A d \in Lib : d \in SubDir
  /\ \A d \in SubDir : NameOf[d] \in DirNames
  /\ \A d \in Dir : d \notin File
  /\ \A d \in SubDir, e \in SubDir :
       ParentOf[d] = ParentOf[e] /\ NameOf[d] = NameOf[e] => d = e
BY TreeAssumption DEF SubDir, DirNames

\* The length of a path.
LEMMA PathLengths ==
  \E b \in Nat : \E length \in [Dir -> 0 .. b] :
    \A d \in SubDir : length[d] = length[ParentOf[d]] + 1
<1>1. Cardinality(Dir) \in Nat
  BY TreeAssumption, FS_CardinalityType
<1>2. QED
  BY <1>1, TreeAssumption DEF IsTree

\* Induction from the root down, for a set.
LEMMA DownInduction ==
  ASSUME NEW T, Root \in T, \A d \in SubDir : ParentOf[d] \in T => d \in T
  PROVE  \A d \in Dir : d \in T
<1>1. PICK b \in Nat : \E length \in [Dir -> 0 .. b] :
        \A d \in SubDir : length[d] = length[ParentOf[d]] + 1
  BY PathLengths
<1>2. PICK length \in [Dir -> 0 .. b] : \A d \in SubDir : length[d] = length[ParentOf[d]] + 1
  BY <1>1
<1>3. \A d \in Dir : length[d] \in Nat
  BY <1>1, <1>2
<1> DEFINE U == {n \in Nat : \A d \in Dir : length[d] = n => d \in T}
<1>4. 0 \in U
  <2> SUFFICES ASSUME NEW d \in Dir, length[d] = 0 PROVE d \in T
    OBVIOUS
  <2>1. CASE d = Root
    BY <2>1
  <2>2. CASE d # Root
    <3>1. d \in SubDir /\ ParentOf[d] \in Dir
      BY <2>2, Directories
    <3>2. length[d] = length[ParentOf[d]] + 1 /\ length[ParentOf[d]] \in Nat
      BY <1>2, <1>3, <3>1
    <3>3. QED
      BY <3>2
  <2>3. QED
    BY <2>1, <2>2
<1>5. \A n \in Nat : n \in U => n + 1 \in U
  <2> HIDE DEF U
  <2> SUFFICES ASSUME NEW n \in Nat, n \in U PROVE n + 1 \in U
    OBVIOUS
  <2> SUFFICES ASSUME NEW d \in Dir, length[d] = n + 1 PROVE d \in T
    BY DEF U
  <2>1. CASE d = Root
    BY <2>1
  <2>2. CASE d # Root
    <3>1. d \in SubDir /\ ParentOf[d] \in Dir
      BY <2>2, Directories
    <3>2. length[d] = length[ParentOf[d]] + 1 /\ length[ParentOf[d]] \in Nat
      BY <1>2, <1>3, <3>1
    <3>3. length[ParentOf[d]] = n
      BY <3>2
    <3>4. ParentOf[d] \in T
      BY <3>1, <3>3 DEF U
    <3>5. QED
      BY <3>1, <3>4
  <2>3. QED
    BY <2>1, <2>2
<1> HIDE DEF U
<1>6. \A n \in Nat : n \in U
  BY <1>4, <1>5, SetInduction
<1>7. \A d \in Dir : length[d] \in U
  BY <1>3, <1>6
<1>8. QED
  BY <1>7 DEF U

\* A function that is given at the root and from a directory to those in it.
IsInherited(f, top, below) ==
  f = [d \in Dir |-> IF d = Root THEN top ELSE below[d][f[ParentOf[d]]]]

\* There is one: it is given for the paths of up to any length.
LEMMA InheritedExists ==
  ASSUME NEW top, NEW below
  PROVE  \E f : IsInherited(f, top, below)
<1>1. PICK b \in Nat : \E length \in [Dir -> 0 .. b] :
        \A d \in SubDir : length[d] = length[ParentOf[d]] + 1
  BY PathLengths
<1>2. PICK length \in [Dir -> 0 .. b] : \A d \in SubDir : length[d] = length[ParentOf[d]] + 1
  BY <1>1
<1>3. \A d \in Dir : length[d] \in Nat /\ length[d] <= b
  BY <1>1, <1>2
<1> DEFINE given(f, d) == IF d = Root THEN top ELSE below[d][f[ParentOf[d]]]
           Upto(n, f) == \A d \in Dir : length[d] <= n => f[d] = given(f, d)
           U == {n \in Nat : \E f : Upto(n, f)}
<1>4. 0 \in U
  <2> DEFINE f == [d \in Dir |-> top]
  <2>1. Upto(0, f)
    <3> SUFFICES ASSUME NEW d \in Dir, length[d] <= 0 PROVE d = Root
      OBVIOUS
    <3>1. CASE d # Root
      <4>1. d \in SubDir /\ ParentOf[d] \in Dir
        BY <3>1, Directories
      <4>2. length[d] = length[ParentOf[d]] + 1 /\ length[ParentOf[d]] \in Nat
        BY <1>2, <1>3, <4>1
      <4>3. QED
        BY <4>2
    <3>2. QED
      BY <3>1
  <2>2. QED
    BY <2>1
<1>5. \A n \in Nat : n \in U => n + 1 \in U
  <2> SUFFICES ASSUME NEW n \in Nat, NEW f, Upto(n, f) PROVE \E g : Upto(n + 1, g)
    OBVIOUS
  <2> DEFINE g == [d \in Dir |-> IF length[d] <= n THEN f[d] ELSE given(f, d)]
  <2>1. Upto(n + 1, g)
    <3> SUFFICES ASSUME NEW d \in Dir, length[d] <= n + 1 PROVE g[d] = given(g, d)
      OBVIOUS
    <3>1. g[d] = given(f, d)
      OBVIOUS
    <3>2. CASE d = Root
      BY <3>1, <3>2
    <3>3. CASE d # Root
      <4>1. d \in SubDir /\ ParentOf[d] \in Dir
        BY <3>3, Directories
      <4>2. length[d] = length[ParentOf[d]] + 1 /\ length[ParentOf[d]] \in Nat
        BY <1>2, <1>3, <4>1
      <4>3. length[ParentOf[d]] <= n
        BY <4>2
      <4>4. g[ParentOf[d]] = f[ParentOf[d]]
        BY <4>1, <4>3
      <4> HIDE DEF g
      <4>5. QED
        BY <3>1, <4>4
    <3>4. QED
      BY <3>2, <3>3
  <2> HIDE DEF g, Upto
  <2>2. QED
    BY <2>1
<1>6. b \in U
  <2> HIDE DEF U
  <2>1. QED
    BY <1>1, <1>4, <1>5, SetInduction
<1>7. PICK f : Upto(b, f)
  BY <1>6
<1>8. \A d \in Dir : f[d] = given(f, d)
  BY <1>3, <1>7
<1> DEFINE g == [d \in Dir |-> f[d]]
<1>9. \A d \in Dir : g[d] = given(g, d)
  <2> SUFFICES ASSUME NEW d \in Dir PROVE g[d] = given(g, d)
    OBVIOUS
  <2>1. g[d] = given(f, d)
    BY <1>8
  <2>2. d # Root => ParentOf[d] \in Dir
    BY Directories
  <2>3. d # Root => g[ParentOf[d]] = f[ParentOf[d]]
    BY <2>2
  <2> HIDE DEF g
  <2>4. QED
    BY <2>1, <2>3
<1>10. g = [d \in Dir |-> g[d]]
  OBVIOUS
<1> HIDE DEF g
<1>11. g = [d \in Dir |-> given(g, d)]
  BY <1>9, <1>10
<1>12. IsInherited(g, top, below)
  BY <1>11 DEF IsInherited
<1>13. QED
  BY <1>12

\* Its values are where those at the root are and those below stay.
Steps(V) == [SubDir -> [V -> V]]
Inherits(V, top, below, f) ==
  /\ f \in [Dir -> V]
  /\ f[Root] = top
  /\ \A d \in SubDir : f[d] = below[d][f[ParentOf[d]]]

LEMMA InheritedTyped ==
  ASSUME NEW V, NEW top \in V, NEW below \in Steps(V)
  PROVE  \E f : Inherits(V, top, below, f)
<1>1. PICK f : IsInherited(f, top, below)
  BY InheritedExists
<1>2. f = [d \in Dir |-> IF d = Root THEN top ELSE below[d][f[ParentOf[d]]]]
  BY <1>1 DEF IsInherited
<1>3. f[Root] = top /\ \A d \in SubDir : f[d] = below[d][f[ParentOf[d]]]
  BY <1>2, Directories
<1> DEFINE T == {d \in Dir : f[d] \in V}
<1>4. Root \in T
  BY <1>3, Directories
<1>5. \A d \in SubDir : ParentOf[d] \in T => d \in T
  <2> SUFFICES ASSUME NEW d \in SubDir, ParentOf[d] \in T PROVE f[d] \in V
    BY Directories
  <2>1. below[d] \in [V -> V] /\ f[ParentOf[d]] \in V
    BY DEF Steps
  <2>2. QED
    BY <1>3, <2>1
<1> HIDE DEF T
<1>6. \A d \in Dir : d \in T
  BY <1>4, <1>5, DownInduction
<1>7. \A d \in Dir : f[d] \in V
  BY <1>6 DEF T
<1>8. f \in [Dir -> V]
  <2>1. f = [d \in Dir |-> f[d]]
    BY <1>2
  <2>2. QED
    BY <1>7, <2>1
<1>9. QED
  BY <1>3, <1>8 DEF Inherits

\* The directories a directory is in.
LEMMA UpIs ==
  /\ Up[Root] = {Root}
  /\ \A d \in SubDir : Up[d] = {d} \cup Up[ParentOf[d]]
<1> DEFINE V == SUBSET Dir
           below == [d \in SubDir |-> [u \in V |-> {d} \cup u]]
<1>1. {Root} \in V /\ below \in Steps(V)
  BY Directories DEF Steps
<1>2. PICK f : Inherits(V, {Root}, below, f)
  <2> HIDE DEF below, V
  <2>1. QED
    BY <1>1, InheritedTyped
<1>3. \A d \in SubDir : f[d] = {d} \cup f[ParentOf[d]]
  BY <1>2, Directories DEF Inherits
<1>4. f = [d \in Dir |-> IF d = Root THEN {Root} ELSE {d} \cup f[ParentOf[d]]]
  BY <1>2, <1>3, Directories DEF Inherits
<1>5. Up = [d \in Dir |-> IF d = Root THEN {Root} ELSE {d} \cup Up[ParentOf[d]]]
  BY <1>4 DEF Up
<1>6. QED
  BY <1>5, Directories

\* The values of the property, in the folder and in the structure.
LEMMA FolderPropIs ==
  /\ FolderProp[Root] = IF "init" \in ToSet(Reads(Root)) THEN Root ELSE None
  /\ \A d \in SubDir : FolderProp[d] =
       IF "init" \in ToSet(Reads(d)) THEN d ELSE FolderProp[ParentOf[d]]
<1> DEFINE V == Dir \cup {None}
           sets(d) == "init" \in ToSet(Reads(d))
           top == IF sets(Root) THEN Root ELSE None
           below == [d \in SubDir |-> [v \in V |-> IF sets(d) THEN d ELSE v]]
<1> HIDE DEF sets
<1>1. top \in V /\ below \in Steps(V)
  BY Directories DEF Steps
<1>2. PICK f : Inherits(V, top, below, f)
  <2> HIDE DEF below, V, top
  <2>1. QED
    BY <1>1, InheritedTyped
<1>3. \A d \in SubDir : f[d] = IF sets(d) THEN d ELSE f[ParentOf[d]]
  BY <1>2, Directories DEF Inherits
<1>4. f = [d \in Dir |-> IF sets(d) THEN d ELSE IF d = Root THEN None ELSE f[ParentOf[d]]]
  BY <1>2, <1>3, Directories DEF Inherits
<1>5. FolderProp = [d \in Dir |-> IF sets(d) THEN d
                                  ELSE IF d = Root THEN None ELSE FolderProp[ParentOf[d]]]
  BY <1>4 DEF FolderProp, sets
<1>6. /\ FolderProp[Root] = IF sets(Root) THEN Root ELSE None
      /\ \A d \in SubDir : FolderProp[d] = IF sets(d) THEN d ELSE FolderProp[ParentOf[d]]
  BY <1>5, Directories
<1>7. QED
  BY <1>6 DEF sets

LEMMA EvaluatedPropIs ==
  /\ EvaluatedProp[Root] = IF "init" \in ToSet(StructureFiles(Root)) THEN Root ELSE None
  /\ \A d \in SubDir : EvaluatedProp[d] =
       IF "init" \in ToSet(StructureFiles(d)) THEN d ELSE EvaluatedProp[ParentOf[d]]
<1> DEFINE V == Dir \cup {None}
           sets(d) == "init" \in ToSet(StructureFiles(d))
           top == IF sets(Root) THEN Root ELSE None
           below == [d \in SubDir |-> [v \in V |-> IF sets(d) THEN d ELSE v]]
<1> HIDE DEF sets
<1>1. top \in V /\ below \in Steps(V)
  BY Directories DEF Steps
<1>2. PICK f : Inherits(V, top, below, f)
  <2> HIDE DEF below, V, top
  <2>1. QED
    BY <1>1, InheritedTyped
<1>3. \A d \in SubDir : f[d] = IF sets(d) THEN d ELSE f[ParentOf[d]]
  BY <1>2, Directories DEF Inherits
<1>4. f = [d \in Dir |-> IF sets(d) THEN d ELSE IF d = Root THEN None ELSE f[ParentOf[d]]]
  BY <1>2, <1>3, Directories DEF Inherits
<1>5. EvaluatedProp = [d \in Dir |-> IF sets(d) THEN d
                                     ELSE IF d = Root THEN None ELSE EvaluatedProp[ParentOf[d]]]
  BY <1>4 DEF EvaluatedProp, sets
<1>6. /\ EvaluatedProp[Root] = IF sets(Root) THEN Root ELSE None
      /\ \A d \in SubDir : EvaluatedProp[d] = IF sets(d) THEN d ELSE EvaluatedProp[ParentOf[d]]
  BY <1>5, Directories
<1>7. QED
  BY <1>6 DEF sets

\* A script is found when its parent is and has it under its name.
Listed(d) == d \notin Lib /\ subScripts[ParentOf[d]][NameOf[d]] = d

LEMMA ReachedIs ==
  /\ Reached[Root]
  /\ \A d \in SubDir : Reached[d] <=> Listed(d) /\ Reached[ParentOf[d]]
<1> DEFINE V == BOOLEAN
           below == [d \in SubDir |-> [v \in V |-> Listed(d) /\ v]]
<1>1. TRUE \in V /\ below \in Steps(V)
  BY DEF Steps
<1>2. PICK f : Inherits(V, TRUE, below, f)
  <2> HIDE DEF below, V
  <2>1. QED
    BY <1>1, InheritedTyped
<1>3. \A d \in SubDir : f[d] = (Listed(d) /\ f[ParentOf[d]])
  BY <1>2, Directories DEF Inherits
<1>4. f = [d \in Dir |-> d = Root \/ (Listed(d) /\ f[ParentOf[d]])]
  BY <1>2, <1>3, Directories DEF Inherits
<1>5. Reached = [d \in Dir |-> d = Root \/ (Listed(d) /\ Reached[ParentOf[d]])]
  BY <1>4 DEF Reached, Listed
<1>6. QED
  BY <1>5, Directories

-----------------------------------------------------------------------------
(* Invariants of the walk.                                                 *)

Item == [entry : Dir, target : Dir]

\* Types of the archive and the walk, and of what the scripts have.
WalkTyped ==
  /\ dirs \in SUBSET SubDir /\ files \in SUBSET File
  /\ entryList \in SUBSET (dirs \cup files)
  /\ roots \in Seq(Item) /\ dirList \in Seq(Item)
ScriptsTyped ==
  /\ subScripts \in [Dir -> [DirNames -> Dir \cup {None}]]
  /\ templatePairs \in [Dir -> Seq(Dir \X Kind)]
  /\ prop \in [Dir -> Dir \cup {None}]
  /\ ignored \in SUBSET Dir
  /\ libURLs \in [Dir -> SUBSET (Dir \cup File)]
  /\ failed \in BOOLEAN
  /\ order \in [Dir -> Seq(Kind)]

\* The directories that were handled, the script that the files of a directory
\* are for, and what is left in a directory.
Made == {Root} \cup (dirs \ entryList)
Owner(d) == IF d \in Lib THEN ParentOf[d] ELSE d
Waiting == ToSet(roots) \cup ToSet(dirList)
Left(d) == {f \in entryList \cap files : f.dir = d} \cup {e \in entryList \cap dirs : ParentOf[e] = d}

\* Directories are handled from the root down, after the files beside them,
\* and one of which something is left will be gone into.
Walked ==
  /\ dirList # <<>> => roots # <<>>
  /\ \A w \in Waiting : w.entry \in Made /\ w.target = Owner(w.entry)
  /\ \A d \in dirs \ entryList : ParentOf[d] \in Made
  /\ \A d \in Made : Left(d) # {} => \E w \in Waiting : w.entry = d
  /\ \A d \in dirs \ entryList : \A f \in entryList \cap files : f.dir # ParentOf[d]

\* Where the walk is.
LEMMA WalkIsAt ==
  ASSUME WalkTyped, Walked, Walks
  PROVE  /\ Here \in Dir /\ Here \in Made /\ Target = Owner(Here)
         /\ Target \in Dir /\ Target \notin Lib /\ Target \in Made
         /\ Here \in Lib => Target = ParentOf[Here]
         /\ Here \notin Lib => Target = Here
<1>1. roots # <<>> /\ roots \in Seq(Item)
  BY DEF Walks, WalkTyped
<1>2. Head(roots) \in Waiting /\ Head(roots) \in Item
  BY <1>1, ToSetOfTail, HeadTailProperties DEF Waiting
<1>3. Here \in Made /\ Target = Owner(Here) /\ Here \in Dir /\ Target \in Dir
  BY <1>2 DEF Walked, Here, Target, Item
<1>4. Here \in Lib => Target = ParentOf[Here] /\ Here \in dirs \ entryList
  BY <1>3, Directories DEF Owner, Made
<1>5. Here \notin Lib => Target = Here
  BY <1>3 DEF Owner
<1>6. Target \notin Lib /\ Target \in Made
  BY <1>3, <1>4, <1>5, Directories DEF Walked
<1>7. QED
  BY <1>3, <1>4, <1>5, <1>6

\* What a step does to the walk: a file is visited, a directory is handled,
\* or the walk goes down.
LEMMA VisitWalks ==
  ASSUME WalkTyped, Walked, Walks, NEW f \in FilesHere, Visit(f)
  PROVE  /\ f \in files /\ f \in entryList /\ f \in File /\ f.dir = Here /\ f.kind \in Kind
         /\ f \notin dirs /\ f \notin Dir
         /\ dirs' = dirs /\ files' = files /\ roots' = roots /\ dirList' = dirList
         /\ entryList' = entryList \ {f}
         /\ Made' = Made
<1>1. f \in files /\ f \in entryList /\ f.dir = Here
  BY DEF FilesHere
<1>2. f \in File /\ f \notin Dir /\ f \notin dirs /\ f.kind \in Kind
  BY <1>1, TreeAssumption DEF WalkTyped, File, SubDir
<1>3. dirs' = dirs /\ files' = files /\ roots' = roots /\ dirList' = dirList /\ entryList' = entryList \ {f}
  BY DEF Visit, archive
<1>4. dirs \ (entryList \ {f}) = dirs \ entryList
  BY <1>2
<1>5. Made' = Made
  BY <1>3, <1>4 DEF Made
<1>6. QED
  BY <1>1, <1>2, <1>3, <1>5

LEMMA HandleDirWalks ==
  ASSUME WalkTyped, Walked, Walks, NEW d \in DirsHere, HandleDir(d)
  PROVE  /\ d \in dirs /\ d \in entryList /\ d \in SubDir /\ d \in Dir /\ d \notin Made
         /\ d \notin files /\ d \notin File
         /\ ParentOf[d] = Here /\ Here \notin Lib /\ Target = Here /\ Here # d
         /\ FilesHere = {}
         /\ dirs' = dirs /\ files' = files /\ roots' = roots
         /\ entryList' = entryList \ {d}
         /\ dirList' = Append(dirList, [entry |-> d, target |-> Owner(d)])
         /\ Made' = Made \cup {d}
<1>1. d \in dirs /\ d \in entryList /\ ParentOf[d] = Here
  BY DEF DirsHere
<1>2. d \in SubDir /\ d \in Dir /\ d # Root /\ d \notin File /\ d \notin files /\ d \notin Made
  BY <1>1, Directories DEF WalkTyped, Made
<1>3. Here \notin Lib /\ Target = Here /\ Here # d
  BY <1>1, <1>2, Directories, WalkIsAt
<1>4. FilesHere = {}
  BY DEF HandleDir
<1>5. dirs' = dirs /\ files' = files /\ roots' = roots /\ entryList' = entryList \ {d}
  BY DEF HandleDir, Enter, archive
<1>6. dirList' = Append(dirList, [entry |-> d, target |-> Owner(d)])
  <2>1. CASE d \in Lib
    BY <1>1, <1>3, <2>1 DEF HandleDir, Enter, Owner
  <2>2. CASE d \notin Lib
    BY <2>2 DEF HandleDir, Enter, Owner
  <2>3. QED
    BY <2>1, <2>2
<1>7. Made' = Made \cup {d}
  BY <1>1, <1>5 DEF Made
<1>8. QED
  BY <1>1, <1>2, <1>3, <1>4, <1>5, <1>6, <1>7

LEMMA GoDownWalks ==
  ASSUME WalkTyped, Walks, GoDown
  PROVE  /\ dirs' = dirs /\ files' = files /\ entryList' = entryList /\ Made' = Made
         /\ dirList' = <<>> /\ roots' = dirList \o Tail(roots)
         /\ Left(Here) = {}
<1>1. dirs' = dirs /\ files' = files /\ entryList' = entryList
  BY DEF GoDown, archive
<1>2. dirList' = <<>> /\ roots' = dirList \o Tail(roots)
  BY DEF GoDown
<1>3. Left(Here) = {}
  BY DEF GoDown, FilesHere, DirsHere, Left
<1>4. Made' = Made
  BY <1>1 DEF Made
<1>5. QED
  BY <1>1, <1>2, <1>3, <1>4

\* The kinds of a step.
FileHandled(f) ==
  SkipFile(f) \/ LoadInit(f) \/ LoadSim(f) \/ LoadFails(f) \/ Ignore(f) \/ AddJar(f)

LEMMA NextIs ==
  ASSUME TreeNext
  PROVE  /\ Walks
         /\ \/ \E f \in FilesHere : Visit(f) /\ FileHandled(f)
            \/ \E d \in DirsHere : HandleDir(d)
            \/ GoDown
BY DEF TreeNext, FileHandled, SkipFile, LoadInit, LoadSim, LoadFails, Ignore, AddJar

LEMMA WalkTypedInit == TreeInit => WalkTyped
<1> SUFFICES ASSUME TreeInit PROVE WalkTyped
  OBVIOUS
<1>1. dirs \in SUBSET SubDir /\ entryList = dirs \cup files
  BY DEF TreeInit
<1>2. files \in SUBSET File
  <2>1. PICK s \in BoundedSeq(File, MaxFile) : files = ToSet(s)
    BY DEF TreeInit
  <2>2. PICK n : s \in [1 .. n -> File]
    BY <2>1 DEF BoundedSeq, SeqOf
  <2>3. QED
    BY <2>1, <2>2 DEF ToSet
<1>3. roots = <<[entry |-> Root, target |-> Root]>> /\ dirList = <<>>
  BY DEF TreeInit
<1>4. [entry |-> Root, target |-> Root] \in Item
  BY Directories DEF Item
<1>5. roots \in Seq(Item) /\ dirList \in Seq(Item)
  BY <1>3, <1>4
<1>6. QED
  BY <1>1, <1>2, <1>5 DEF WalkTyped

LEMMA WalkTypedNext == WalkTyped /\ Walked /\ [TreeNext]_treeVars => WalkTyped'
<1> SUFFICES ASSUME WalkTyped, Walked, [TreeNext]_treeVars PROVE WalkTyped'
  OBVIOUS
<1>1. CASE UNCHANGED treeVars
  BY <1>1 DEF treeVars, archive, walk, WalkTyped
<1>2. CASE TreeNext
  <2>1. Walks
    BY <1>2, NextIs
  <2>2. ASSUME NEW f \in FilesHere, Visit(f) PROVE WalkTyped'
    <3>1. /\ dirs' = dirs /\ files' = files /\ roots' = roots /\ dirList' = dirList
          /\ entryList' = entryList \ {f}
      BY <2>1, <2>2, VisitWalks
    <3>2. QED
      BY <3>1 DEF WalkTyped
  <2>3. ASSUME NEW d \in DirsHere, HandleDir(d) PROVE WalkTyped'
    <3>1. /\ dirs' = dirs /\ files' = files /\ roots' = roots /\ entryList' = entryList \ {d}
          /\ dirList' = Append(dirList, [entry |-> d, target |-> Owner(d)])
          /\ d \in SubDir
      BY <2>1, <2>3, HandleDirWalks
    <3>2. [entry |-> d, target |-> Owner(d)] \in Item
      BY <3>1, Directories DEF Owner, Item
    <3>3. dirList' \in Seq(Item)
      BY <3>1, <3>2, AppendProperties DEF WalkTyped
    <3>4. QED
      BY <3>1, <3>3 DEF WalkTyped
  <2>4. CASE GoDown
    <3>1. /\ dirs' = dirs /\ files' = files /\ entryList' = entryList
          /\ dirList' = <<>> /\ roots' = dirList \o Tail(roots)
      BY <2>1, <2>4, GoDownWalks
    <3>2. roots # <<>> /\ roots \in Seq(Item) /\ dirList \in Seq(Item)
      BY <2>1 DEF Walks, WalkTyped
    <3>3. Tail(roots) \in Seq(Item)
      BY <3>2, HeadTailProperties
    <3>4. roots' \in Seq(Item) /\ dirList' \in Seq(Item)
      BY <3>1, <3>2, <3>3, ConcatProperties, EmptySeq
    <3>5. QED
      BY <3>1, <3>4 DEF WalkTyped
  <2>5. QED
    BY <1>2, <2>2, <2>3, <2>4, NextIs
<1>3. QED
  BY <1>1, <1>2

LEMMA WalkedInit == TreeInit => Walked
<1> SUFFICES ASSUME TreeInit PROVE Walked
  OBVIOUS
<1> DEFINE w == [entry |-> Root, target |-> Root]
<1>1. roots = <<w>> /\ dirList = <<>> /\ entryList = dirs \cup files
  BY DEF TreeInit
<1>2. Made = {Root}
  BY <1>1 DEF Made
<1>3. Waiting = {w}
  <2>1. ToSet(<<w>>) = {w}
    <3> HIDE DEF w
    <3>1. DOMAIN <<w>> = {1} /\ <<w>>[1] = w
      OBVIOUS
    <3>2. QED
      BY <3>1 DEF ToSet
  <2>2. QED
    BY <1>1, <2>1, ToSetOfNone DEF Waiting
<1>4. w.entry = Root /\ w.target = Root /\ Owner(Root) = Root
  BY Directories DEF Owner
<1>5. dirs \ entryList = {}
  BY <1>1
<1>6. \A x \in Waiting : x.entry \in Made /\ x.target = Owner(x.entry)
  BY <1>2, <1>3, <1>4
<1>7. \A d \in Made : \E x \in Waiting : x.entry = d
  BY <1>2, <1>3, <1>4
<1>8. QED
  BY <1>1, <1>5, <1>6, <1>7 DEF Walked

LEMMA WalkedNext == WalkTyped /\ Walked /\ [TreeNext]_treeVars => Walked'
<1> SUFFICES ASSUME WalkTyped, Walked, [TreeNext]_treeVars PROVE Walked'
  OBVIOUS
<1>1. CASE UNCHANGED treeVars
  BY <1>1 DEF treeVars, archive, walk, Walked, Waiting, Made, Left
<1>2. CASE TreeNext
  <2>1. Walks
    BY <1>2, NextIs
  <2>2. ASSUME NEW f \in FilesHere, Visit(f) PROVE Walked'
    <3>1. /\ dirs' = dirs /\ files' = files /\ roots' = roots /\ dirList' = dirList
          /\ entryList' = entryList \ {f} /\ Made' = Made /\ f \notin dirs
      BY <2>1, <2>2, VisitWalks
    <3>2. dirs \ entryList' = dirs \ entryList
      BY <3>1
    <3>3. Waiting' = Waiting
      BY <3>1 DEF Waiting
    <3>4. \A d : Left(d)' # {} => Left(d) # {}
      BY <3>1 DEF Left
    <3>5. (dirList # <<>> => roots # <<>>)'
      BY <3>1 DEF Walked
    <3>6. (\A w \in Waiting : w.entry \in Made /\ w.target = Owner(w.entry))'
      BY <3>1, <3>3 DEF Walked, Owner
    <3>7. (\A d \in dirs \ entryList : ParentOf[d] \in Made)'
      BY <3>1, <3>2 DEF Walked
    <3>8. (\A d \in Made : Left(d) # {} => \E w \in Waiting : w.entry = d)'
      BY <3>1, <3>3, <3>4 DEF Walked
    <3>9. (\A d \in dirs \ entryList : \A g \in entryList \cap files : g.dir # ParentOf[d])'
      BY <3>1, <3>2 DEF Walked
    <3>10. QED
      BY <3>5, <3>6, <3>7, <3>8, <3>9 DEF Walked
  <2>3. ASSUME NEW e \in DirsHere, HandleDir(e) PROVE Walked'
    <3>1. /\ e \in dirs /\ e \in entryList /\ e \in SubDir
          /\ ParentOf[e] = Here /\ FilesHere = {}
          /\ dirs' = dirs /\ files' = files /\ roots' = roots /\ entryList' = entryList \ {e}
          /\ dirList' = Append(dirList, [entry |-> e, target |-> Owner(e)])
          /\ Made' = Made \cup {e} /\ Here \in Made
      BY <2>1, <2>3, HandleDirWalks, WalkIsAt
    <3> DEFINE w == [entry |-> e, target |-> Owner(e)]
    <3>2. Waiting' = Waiting \cup {w}
      <4>1. w \in Item /\ dirList \in Seq(Item)
        BY <3>1, Directories DEF Owner, Item, WalkTyped
      <4>2. ToSet(dirList') = ToSet(dirList) \cup {w}
        BY <3>1, <4>1, ToSetOfAppend
      <4> HIDE DEF w
      <4>3. QED
        BY <3>1, <4>2 DEF Waiting
    <3>3. w.entry = e /\ w.target = Owner(e)
      OBVIOUS
    <3> HIDE DEF w
    <3>4. \A d : Left(d)' # {} => Left(d) # {}
      BY <3>1 DEF Left
    <3>5. dirs \ entryList' = (dirs \ entryList) \cup {e}
      BY <3>1
    <3>6. (dirList # <<>> => roots # <<>>)'
      BY <2>1, <3>1 DEF Walks
    <3>7. (\A x \in Waiting : x.entry \in Made /\ x.target = Owner(x.entry))'
      BY <3>1, <3>2, <3>3 DEF Walked, Owner
    <3>8. (\A d \in dirs \ entryList : ParentOf[d] \in Made)'
      BY <3>1, <3>5 DEF Walked
    <3>9. (\A d \in Made : Left(d) # {} => \E x \in Waiting : x.entry = d)'
      BY <3>1, <3>2, <3>3, <3>4 DEF Walked
    <3>10. \A g \in entryList \cap files : g.dir # Here
      BY <3>1 DEF FilesHere
    <3>11. (\A d \in dirs \ entryList : \A g \in entryList \cap files : g.dir # ParentOf[d])'
      BY <3>1, <3>5, <3>10 DEF Walked
    <3>12. QED
      BY <3>6, <3>7, <3>8, <3>9, <3>11 DEF Walked
  <2>4. CASE GoDown
    <3>1. /\ dirs' = dirs /\ files' = files /\ entryList' = entryList /\ Made' = Made
          /\ dirList' = <<>> /\ roots' = dirList \o Tail(roots) /\ Left(Here) = {}
      BY <2>1, <2>4, GoDownWalks
    <3>2. roots # <<>> /\ roots \in Seq(Item) /\ dirList \in Seq(Item)
      BY <2>1 DEF Walks, WalkTyped
    <3>3. Tail(roots) \in Seq(Item) /\ ToSet(roots) = {Head(roots)} \cup ToSet(Tail(roots))
      BY <3>2, HeadTailProperties, ToSetOfTail
    <3>4. ToSet(roots') = ToSet(dirList) \cup ToSet(Tail(roots)) /\ ToSet(dirList') = {}
      <4> DEFINE t == Tail(roots)
      <4>1. t \in Seq(Item)
        BY <3>3
      <4> HIDE DEF t
      <4>2. ToSet(dirList \o t) = ToSet(dirList) \cup ToSet(t)
        BY <3>2, <4>1, ToSetOfConcat
      <4>3. QED
        BY <3>1, <4>2, ToSetOfNone DEF t
    <3>5. Waiting' \subseteq Waiting /\ Waiting \subseteq Waiting' \cup {Head(roots)}
      BY <3>3, <3>4 DEF Waiting
    <3>6. \A d : Left(d)' = Left(d)
      BY <3>1 DEF Left
    <3>7. (dirList # <<>> => roots # <<>>)'
      BY <3>1
    <3>8. (\A w \in Waiting : w.entry \in Made /\ w.target = Owner(w.entry))'
      BY <3>1, <3>5 DEF Walked, Owner
    <3>9. (\A d \in dirs \ entryList : ParentOf[d] \in Made)'
      BY <3>1 DEF Walked
    <3>10. (\A d \in Made : Left(d) # {} => \E w \in Waiting : w.entry = d)'
      <4> SUFFICES ASSUME NEW d \in Made, Left(d) # {} PROVE \E w \in Waiting' : w.entry = d
        BY <3>1, <3>6
      <4>1. PICK w \in Waiting : w.entry = d
        BY DEF Walked
      <4>2. d # Here
        BY <3>1
      <4>3. w # Head(roots)
        BY <4>1, <4>2 DEF Here
      <4>4. QED
        BY <3>5, <4>1, <4>3
    <3>11. (\A d \in dirs \ entryList : \A g \in entryList \cap files : g.dir # ParentOf[d])'
      BY <3>1 DEF Walked
    <3>12. QED
      BY <3>7, <3>8, <3>9, <3>10, <3>11 DEF Walked
  <2>5. QED
    BY <1>2, <2>2, <2>3, <2>4, NextIs
<1>3. QED
  BY <1>1, <1>2

-----------------------------------------------------------------------------
(* Invariants of the scripts.                                              *)

\* The rules that files of a directory come to.
RulesOf(d, s) ==
  LET sims == OfKind(s, Sim) IN [i \in DOMAIN sims |-> <<d, sims[i]>>]

\* A script that was not made has nothing.
Fresh == \A d \in Dir : d \notin Made => order[d] = <<>> /\ templatePairs[d] = <<>>

\* A script is ignored when an .ignore was seen.
IgnoredSeen ==
  /\ \A d \in ignored : d \in Made /\ d \notin Lib
  /\ \A d \in Dir : d \notin Lib => (d \in ignored <=> FolderIgnores(d))

\* The rules of a script that is not ignored are those of its files.
RulesKept ==
  \A d \in Dir : d \notin Lib /\ d \notin ignored => templatePairs[d] = RulesOf(d, order[d])

\* A malformed file that is read before an .ignore makes the load fail.
BadFails == ~failed => \A d \in Dir : d \notin Lib => "bad" \notin ToSet(Reads(d))

\* And it fails for nothing else.
FailsForBad ==
  failed => \E f \in files : f.kind = "bad" /\ "bad" \in ToSet(order[f.dir]) /\ ~FolderIgnores(f.dir)

\* A script has the property that its files set, or its parent's.
PropKept ==
  \A d \in Made : d \notin Lib /\ d \notin ignored =>
    prop[d] = IF "init" \in ToSet(order[d]) THEN d
              ELSE IF d = Root THEN None ELSE prop[ParentOf[d]]

\* The scripts that are listed in their parent's.
ListedMade ==
  \A d \in SubDir : d \notin Lib =>
    (subScripts[ParentOf[d]][NameOf[d]] = d <=> d \in Made /\ d \notin ignored)

\* The archive's libraries.
JarsOf(D, F) ==
  {e \in D \cap Lib : ParentOf[e] = Root} \cup
  {f \in F : f.kind = "jar" /\ f.dir \in Lib /\ ParentOf[f.dir] = Root}
JarsAdded == Root \notin ignored => libURLs[Root] = JarsOf(dirs \ entryList, files \ entryList)

Scripted ==
  /\ Fresh /\ IgnoredSeen /\ RulesKept /\ BadFails
  /\ FailsForBad /\ PropKept /\ ListedMade /\ JarsAdded

\* One file more.
LEMMA RulesOfNone == \A d : RulesOf(d, <<>>) = <<>>
BY OfKindOfNone DEF RulesOf

LEMMA RulesOfAppend ==
  ASSUME NEW d \in Dir, NEW s \in Seq(Kind), NEW k \in Kind
  PROVE  RulesOf(d, Append(s, k)) = IF k \in Sim THEN Append(RulesOf(d, s), <<d, k>>) ELSE RulesOf(d, s)
<1> DEFINE u == OfKind(s, Sim)
           v == OfKind(Append(s, k), Sim)
           n == Len(u)
<1>1. u \in Seq(Kind) /\ n \in Nat /\ DOMAIN u = 1 .. n
  BY OfKindHas, LenProperties
<1>2. v = IF k \in Sim THEN Append(u, k) ELSE u
  BY OfKindOfAppend
<1>3. RulesOf(d, s) = [i \in DOMAIN u |-> <<d, u[i]>>] /\ RulesOf(d, Append(s, k)) = [i \in DOMAIN v |-> <<d, v[i]>>]
  BY DEF RulesOf
<1> HIDE DEF u, v
<1>4. CASE k \notin Sim
  BY <1>2, <1>3, <1>4
<1>5. CASE k \in Sim
  <2> DEFINE x == RulesOf(d, s)
             y == RulesOf(d, Append(s, k))
  <2>1. v = Append(u, k)
    BY <1>2, <1>5
  <2>2. v \in Seq(Kind) /\ Len(v) = n + 1 /\ (\A i \in 1 .. n : v[i] = u[i]) /\ v[n + 1] = k
    BY <1>1, <2>1, AppendProperties
  <2>3. DOMAIN v = 1 .. n + 1
    BY <2>2, LenProperties
  <2>4. x = [i \in 1 .. n |-> <<d, u[i]>>] /\ y = [i \in 1 .. n + 1 |-> <<d, v[i]>>]
    BY <1>1, <1>3, <2>3
  <2> HIDE DEF x, y, n
  <2>5. \A i \in 1 .. n : <<d, u[i]>> \in Dir \X Kind
    BY <1>1, ElementOfSeq DEF n
  <2>6. \A i \in 1 .. n + 1 : <<d, v[i]>> \in Dir \X Kind
    <3> SUFFICES ASSUME NEW i \in 1 .. n + 1 PROVE v[i] \in Kind
      OBVIOUS
    <3>1. i \in 1 .. Len(v)
      BY <2>2
    <3>2. QED
      BY <2>2, <3>1, ElementOfSeq
  <2>7. x \in Seq(Dir \X Kind) /\ Len(x) = n
    BY <1>1, <2>4, <2>5
  <2>8. n + 1 \in Nat
    BY <1>1
  <2>9. y \in Seq(Dir \X Kind) /\ Len(y) = n + 1
    BY <2>4, <2>6, <2>8
  <2>10. <<d, k>> \in Dir \X Kind
    OBVIOUS
  <2>11. /\ Append(x, <<d, k>>) \in Seq(Dir \X Kind)
         /\ Len(Append(x, <<d, k>>)) = n + 1
         /\ \A i \in 1 .. n : Append(x, <<d, k>>)[i] = x[i]
         /\ Append(x, <<d, k>>)[n + 1] = <<d, k>>
    BY <2>7, <2>10, AppendProperties
  <2>12. \A i \in 1 .. n + 1 : y[i] = Append(x, <<d, k>>)[i]
    <3> SUFFICES ASSUME NEW i \in 1 .. n + 1 PROVE y[i] = Append(x, <<d, k>>)[i]
      OBVIOUS
    <3>1. y[i] = <<d, v[i]>>
      BY <2>4
    <3>2. CASE i = n + 1
      BY <2>2, <2>11, <3>1, <3>2
    <3>3. CASE i # n + 1
      <4>1. i \in 1 .. n
        BY <1>1, <3>3
      <4>2. QED
        BY <2>2, <2>4, <2>11, <3>1, <4>1
    <3>4. QED
      BY <3>2, <3>3
  <2>13. y = Append(x, <<d, k>>)
    BY <2>9, <2>11, <2>12, SeqEqual
  <2>14. QED
    BY <1>5, <2>13 DEF x, y
<1>6. QED
  BY <1>4, <1>5

\* The files read of a directory.
LEMMA VisitReads ==
  ASSUME WalkTyped, ScriptsTyped, Walked, Walks, NEW f \in FilesHere, Visit(f)
  PROVE  /\ order' \in [Dir -> Seq(Kind)]
         /\ order'[Here] = Append(order[Here], f.kind)
         /\ ToSet(order'[Here]) = ToSet(order[Here]) \cup {f.kind}
         /\ \A d \in Dir : d # Here => order'[d] = order[d]
<1>1. Here \in Dir /\ f.kind \in Kind
  BY WalkIsAt, VisitWalks
<1>2. order \in [Dir -> Seq(Kind)] /\ order[Here] \in Seq(Kind)
  BY <1>1 DEF ScriptsTyped
<1>3. order' = [order EXCEPT ![Here] = Append(order[Here], f.kind)]
  BY DEF Visit
<1>4. /\ Append(order[Here], f.kind) \in Seq(Kind)
      /\ ToSet(Append(order[Here], f.kind)) = ToSet(order[Here]) \cup {f.kind}
  <2> DEFINE s == order[Here]
             k == f.kind
  <2>1. s \in Seq(Kind) /\ k \in Kind
    BY <1>1, <1>2
  <2> HIDE DEF s, k
  <2>2. Append(s, k) \in Seq(Kind) /\ ToSet(Append(s, k)) = ToSet(s) \cup {k}
    BY <2>1, AppendProperties, ToSetOfAppend
  <2>3. QED
    BY <2>2 DEF s, k
<1>5. order'[Here] = Append(order[Here], f.kind) /\ \A d \in Dir : d # Here => order'[d] = order[d]
  BY <1>1, <1>2, <1>3
<1>6. order' \in [Dir -> Seq(Kind)]
  BY <1>1, <1>2, <1>3, <1>4
<1>7. QED
  BY <1>4, <1>5, <1>6

LEMMA ScriptsTypedInit == TreeInit => ScriptsTyped
<1> SUFFICES ASSUME TreeInit PROVE ScriptsTyped
  OBVIOUS
<1>1. /\ subScripts \in [Dir -> [DirNames -> Dir \cup {None}]]
      /\ prop \in [Dir -> Dir \cup {None}] /\ libURLs \in [Dir -> SUBSET (Dir \cup File)]
  BY DEF TreeInit
<1>2. ignored \in SUBSET Dir /\ failed \in BOOLEAN
  BY DEF TreeInit
<1>3. templatePairs \in [Dir -> Seq(Dir \X Kind)] /\ order \in [Dir -> Seq(Kind)]
  BY DEF TreeInit
<1>4. QED
  BY <1>1, <1>2, <1>3 DEF ScriptsTyped

LEMMA ScriptsTypedNext ==
  WalkTyped /\ ScriptsTyped /\ Walked /\ [TreeNext]_treeVars => ScriptsTyped'
<1> SUFFICES ASSUME WalkTyped, ScriptsTyped, Walked, [TreeNext]_treeVars
             PROVE  ScriptsTyped'
  OBVIOUS
<1>1. CASE UNCHANGED treeVars
  BY <1>1 DEF treeVars, script, ScriptsTyped
<1>2. CASE TreeNext
  <2>1. Walks
    BY <1>2, NextIs
  <2>2. Here \in Dir /\ Target \in Dir
    BY <2>1, WalkIsAt
  <2>3. ASSUME NEW f \in FilesHere, Visit(f), FileHandled(f)
        PROVE  ScriptsTyped'
    <3>1. order' \in [Dir -> Seq(Kind)]
      BY <2>1, <2>3, VisitReads
    <3>2. f \in File /\ f.kind \in Kind
      BY <2>1, <2>3, VisitWalks
    <3>3. CASE SkipFile(f)
      BY <3>1, <3>3 DEF SkipFile, script, ScriptsTyped
    <3>4. CASE LoadInit(f)
      <4>1. prop' \in [Dir -> Dir \cup {None}]
        BY <2>2, <3>4 DEF LoadInit, ScriptsTyped
      <4>2. QED
        BY <3>1, <3>4, <4>1 DEF LoadInit, ScriptsTyped
    <3>5. CASE LoadSim(f)
      <4>1. templatePairs[Target] \in Seq(Dir \X Kind) /\ <<Here, f.kind>> \in Dir \X Kind
        BY <2>2, <3>2 DEF ScriptsTyped
      <4>2. Append(templatePairs[Target], <<Here, f.kind>>) \in Seq(Dir \X Kind)
        <5> DEFINE s == templatePairs[Target]
                   r == <<Here, f.kind>>
        <5>1. s \in Seq(Dir \X Kind) /\ r \in Dir \X Kind
          BY <4>1
        <5> HIDE DEF s, r
        <5>2. Append(s, r) \in Seq(Dir \X Kind)
          BY <5>1, AppendProperties
        <5>3. QED
          BY <5>2 DEF s, r
      <4>3. templatePairs' = [templatePairs EXCEPT ![Target] = Append(templatePairs[Target], <<Here, f.kind>>)]
        BY <3>5 DEF LoadSim
      <4>4. templatePairs' \in [Dir -> Seq(Dir \X Kind)]
        BY <2>2, <4>2, <4>3 DEF ScriptsTyped
      <4>5. QED
        BY <3>1, <3>5, <4>4 DEF LoadSim, ScriptsTyped
    <3>6. CASE LoadFails(f)
      BY <3>1, <3>6 DEF LoadFails, script, ScriptsTyped
    <3>7. CASE Ignore(f)
      <4>1. ignored' \in SUBSET Dir
        BY <2>2, <3>7 DEF Ignore, ScriptsTyped
      <4>2. subScripts' \in [Dir -> [DirNames -> Dir \cup {None}]]
        BY <3>7 DEF Ignore, ScriptsTyped
      <4>3. QED
        BY <3>1, <3>7, <4>1, <4>2 DEF Ignore, ScriptsTyped
    <3>8. CASE AddJar(f)
      <4>1. libURLs' \in [Dir -> SUBSET (Dir \cup File)]
        BY <2>2, <3>2, <3>8 DEF AddJar, ScriptsTyped
      <4>2. QED
        BY <3>1, <3>8, <4>1 DEF AddJar, ScriptsTyped
    <3>9. QED
      BY <2>3, <3>3, <3>4, <3>5, <3>6, <3>7, <3>8 DEF FileHandled
  <2>4. ASSUME NEW d \in DirsHere, HandleDir(d) PROVE ScriptsTyped'
    <3>1. d \in Dir
      BY <2>1, <2>4, HandleDirWalks
    <3>2. UNCHANGED <<templatePairs, ignored, failed, order>>
      BY <2>4 DEF HandleDir, Enter
    <3>3. prop' \in [Dir -> Dir \cup {None}]
      BY <2>2, <2>4, <3>1 DEF HandleDir, Enter, ScriptsTyped
    <3>4. subScripts' \in [Dir -> [DirNames -> Dir \cup {None}]]
      <4>1. CASE d \in Lib
        BY <2>4, <4>1 DEF HandleDir, Enter, ScriptsTyped
      <4>2. CASE d \notin Lib
        <5>1. subScripts' = [subScripts EXCEPT ![Target][NameOf[d]] = d]
          BY <2>4, <4>2 DEF HandleDir, Enter
        <5>2. subScripts \in [Dir -> [DirNames -> Dir \cup {None}]]
          BY DEF ScriptsTyped
        <5>3. QED
          BY <3>1, <5>1, <5>2
      <4>3. QED
        BY <4>1, <4>2
    <3>5. libURLs' \in [Dir -> SUBSET (Dir \cup File)]
      <4>1. CASE d \in Lib
        <5>1. libURLs' = [libURLs EXCEPT ![Target] = libURLs[Target] \cup {d}]
          BY <2>4, <4>1 DEF HandleDir, Enter
        <5>2. libURLs[Target] \cup {d} \in SUBSET (Dir \cup File)
          BY <2>2, <3>1 DEF ScriptsTyped
        <5>3. QED
          BY <2>2, <5>1, <5>2 DEF ScriptsTyped
      <4>2. CASE d \notin Lib
        BY <2>4, <4>2 DEF HandleDir, Enter, ScriptsTyped
      <4>3. QED
        BY <4>1, <4>2
    <3>6. QED
      BY <3>2, <3>3, <3>4, <3>5 DEF ScriptsTyped
  <2>5. CASE GoDown
    BY <2>5 DEF GoDown, script, ScriptsTyped
  <2>6. QED
    BY <1>2, <2>3, <2>4, <2>5, NextIs
<1>3. QED
  BY <1>1, <1>2

\* What a visited file does to the scripts: to the one it is for, when that is
\* not ignored.
LEMMA FileDone ==
  ASSUME WalkTyped, ScriptsTyped, Walked, Walks, NEW f \in FilesHere, Visit(f),
         FileHandled(f)
  PROVE  /\ ignored' = IF Target \notin ignored /\ f.kind = "ignore" THEN ignored \cup {Target} ELSE ignored
         /\ failed' <=> Target \notin ignored /\ f.kind = "bad"
         /\ \A d \in Dir : templatePairs'[d] =
              IF Target \notin ignored /\ d = Target /\ f.kind \in Sim
              THEN Append(templatePairs[d], <<Here, f.kind>>) ELSE templatePairs[d]
         /\ \A d \in Dir : prop'[d] =
              IF Target \notin ignored /\ d = Target /\ f.kind = "init" THEN Here ELSE prop[d]
         /\ \A d \in Dir : libURLs'[d] =
              IF Target \notin ignored /\ d = Target /\ f.kind = "jar" /\ Here \in Lib /\ ParentOf[Here] = Root
              THEN libURLs[d] \cup {f} ELSE libURLs[d]
         /\ \A d \in Dir : \A n \in DirNames : subScripts'[d][n] =
              IF Target \notin ignored /\ f.kind = "ignore" /\ Target # Root
                 /\ d = ParentOf[Target] /\ n = NameOf[Here]
              THEN None ELSE subScripts[d][n]
<1>1. ~failed /\ Target \in Dir
  BY WalkIsAt DEF Walks
<1>2. CASE SkipFile(f)
  BY <1>1, <1>2 DEF SkipFile, script
<1>3. CASE LoadInit(f)
  BY <1>1, <1>3 DEF LoadInit, Sim, ScriptsTyped
<1>4. CASE LoadSim(f)
  BY <1>1, <1>4 DEF LoadSim, Sim, ScriptsTyped
<1>5. CASE LoadFails(f)
  BY <1>1, <1>5 DEF LoadFails, Sim, script
<1>6. CASE Ignore(f)
  <2>1. f.kind \notin Sim
    BY <1>6 DEF Ignore, Sim
  <2>2. \A d \in Dir : \A n \in DirNames : subScripts'[d][n] =
          IF Target # Root /\ d = ParentOf[Target] /\ n = NameOf[Here]
          THEN None ELSE subScripts[d][n]
    BY <1>6 DEF Ignore, ScriptsTyped
  <2>3. QED
    BY <1>1, <1>6, <2>1, <2>2 DEF Ignore
<1>7. CASE AddJar(f)
  BY <1>1, <1>7 DEF AddJar, Sim, ScriptsTyped
<1>8. QED
  BY <1>2, <1>3, <1>4, <1>5, <1>6, <1>7 DEF FileHandled

\* What a handled directory does to them: one that is not a lib gets a script,
\* a lib is a library of its parent's.
LEMMA DirDone ==
  ASSUME WalkTyped, ScriptsTyped, Walked, Walks, NEW e \in DirsHere, HandleDir(e)
  PROVE  /\ templatePairs' = templatePairs /\ ignored' = ignored /\ failed' = failed /\ order' = order
         /\ \A d \in Dir : prop'[d] = IF d = e /\ e \notin Lib THEN prop[Here] ELSE prop[d]
         /\ \A d \in Dir : libURLs'[d] =
              IF d = Here /\ e \in Lib THEN libURLs[d] \cup {e} ELSE libURLs[d]
         /\ \A d \in Dir : \A n \in DirNames : subScripts'[d][n] =
              IF d = Here /\ n = NameOf[e] /\ e \notin Lib THEN e ELSE subScripts[d][n]
<1>1. Here \in Dir /\ Target = Here /\ e \in Dir
  BY WalkIsAt, HandleDirWalks
<1>2. templatePairs' = templatePairs /\ ignored' = ignored /\ failed' = failed /\ order' = order
  BY DEF HandleDir, Enter
<1>3. \A d \in Dir : prop'[d] = IF d = e /\ e \notin Lib THEN prop[Here] ELSE prop[d]
  BY <1>1 DEF HandleDir, Enter, ScriptsTyped
<1>4. \A d \in Dir : libURLs'[d] = IF d = Here /\ e \in Lib THEN libURLs[d] \cup {e} ELSE libURLs[d]
  <2>1. CASE e \in Lib
    <3>1. libURLs' = [libURLs EXCEPT ![Here] = libURLs[Here] \cup {e}]
      BY <1>1, <2>1 DEF HandleDir, Enter
    <3>2. QED
      BY <1>1, <2>1, <3>1 DEF ScriptsTyped
  <2>2. CASE e \notin Lib
    BY <2>2 DEF HandleDir, Enter
  <2>3. QED
    BY <2>1, <2>2
<1>5. \A d \in Dir : \A n \in DirNames : subScripts'[d][n] =
        IF d = Here /\ n = NameOf[e] /\ e \notin Lib THEN e ELSE subScripts[d][n]
  <2>1. CASE e \in Lib
    BY <2>1 DEF HandleDir, Enter
  <2>2. CASE e \notin Lib
    <3>1. subScripts' = [subScripts EXCEPT ![Here][NameOf[e]] = e]
      BY <1>1, <2>2 DEF HandleDir, Enter
    <3>2. QED
      BY <1>1, <2>2, <3>1 DEF ScriptsTyped
  <2>3. QED
    BY <2>1, <2>2
<1>6. QED
  BY <1>2, <1>3, <1>4, <1>5

\* In a lib there are but jars.
LEMMA InLib ==
  ASSUME LibsHaveJarsOnly, NEW f \in FilesHere
  PROVE  Here \in Lib => f.kind = "jar" /\ f.kind # "ignore" /\ f.kind # "bad"
                         /\ f.kind # "init" /\ f.kind \notin Sim
BY DEF FilesHere, LibsHaveJarsOnly, Sim

\* A step keeps each part of what is true of the scripts.
LEMMA FreshNext ==
  ASSUME WalkTyped, ScriptsTyped, Walked, Scripted, TreeNext
  PROVE  Fresh'
<1>1. Walks /\ Fresh
  BY NextIs DEF Scripted
<1>2. Here \in Made /\ Target \in Made
  BY <1>1, WalkIsAt
<1>3. ASSUME NEW f \in FilesHere, Visit(f), FileHandled(f) PROVE Fresh'
  <2>1. Made' = Made
    BY <1>1, <1>3, VisitWalks
  <2>2. \A d \in Dir : d # Here => order'[d] = order[d]
    BY <1>1, <1>3, VisitReads
  <2>3. \A d \in Dir : d # Target => templatePairs'[d] = templatePairs[d]
    BY <1>1, <1>3, FileDone
  <2>4. QED
    BY <1>1, <1>2, <2>1, <2>2, <2>3 DEF Fresh
<1>4. ASSUME NEW e \in DirsHere, HandleDir(e) PROVE Fresh'
  <2>1. Made' = Made \cup {e}
    BY <1>1, <1>4, HandleDirWalks
  <2>2. templatePairs' = templatePairs /\ order' = order
    BY <1>1, <1>4, DirDone
  <2>3. QED
    BY <1>1, <2>1, <2>2 DEF Fresh
<1>5. CASE GoDown
  <2>1. Made' = Made
    BY <1>1, <1>5, GoDownWalks
  <2>2. QED
    BY <1>1, <1>5, <2>1 DEF Fresh, GoDown, script
<1>6. QED
  BY <1>3, <1>4, <1>5, NextIs

LEMMA IgnoredSeenNext ==
  ASSUME WalkTyped, ScriptsTyped, Walked, Scripted, LibsHaveJarsOnly, TreeNext
  PROVE  IgnoredSeen'
<1>1. Walks /\ IgnoredSeen
  BY NextIs DEF Scripted
<1>2. /\ Here \in Dir /\ Target \in Made /\ Target \notin Lib
      /\ Here \notin Lib => Target = Here
  BY <1>1, WalkIsAt
<1>3. ASSUME NEW f \in FilesHere, Visit(f), FileHandled(f) PROVE IgnoredSeen'
  <2>1. Made' = Made
    BY <1>1, <1>3, VisitWalks
  <2>2. /\ ToSet(order'[Here]) = ToSet(order[Here]) \cup {f.kind}
        /\ \A d \in Dir : d # Here => order'[d] = order[d]
    BY <1>1, <1>3, VisitReads
  <2>3. ignored' = IF Target \notin ignored /\ f.kind = "ignore" THEN ignored \cup {Target} ELSE ignored
    BY <1>1, <1>3, FileDone
  <2>4. Here \in Lib => f.kind # "ignore"
    BY InLib
  <2>5. \A d \in ignored' : d \in Made' /\ d \notin Lib
    BY <1>1, <1>2, <2>1, <2>3 DEF IgnoredSeen
  <2>6. \A d \in Dir : d \notin Lib => (d \in ignored' <=> "ignore" \in ToSet(order'[d]))
    <3> SUFFICES ASSUME NEW d \in Dir, d \notin Lib
                 PROVE  d \in ignored' <=> "ignore" \in ToSet(order'[d])
      OBVIOUS
    <3>1. d \in ignored <=> "ignore" \in ToSet(order[d])
      BY <1>1 DEF IgnoredSeen, FolderIgnores
    <3>2. CASE d = Here
      BY <1>2, <2>2, <2>3, <3>1, <3>2
    <3>3. CASE d # Here
      <4>1. order'[d] = order[d]
        BY <2>2, <3>3
      <4>2. d \in ignored' <=> d \in ignored
        BY <1>2, <2>3, <2>4, <3>3
      <4>3. QED
        BY <3>1, <4>1, <4>2
    <3>4. QED
      BY <3>2, <3>3
  <2>7. QED
    BY <2>5, <2>6 DEF IgnoredSeen, FolderIgnores
<1>4. ASSUME NEW e \in DirsHere, HandleDir(e) PROVE IgnoredSeen'
  <2>1. Made' = Made \cup {e}
    BY <1>1, <1>4, HandleDirWalks
  <2>2. ignored' = ignored /\ order' = order
    BY <1>1, <1>4, DirDone
  <2>3. QED
    BY <1>1, <2>1, <2>2 DEF IgnoredSeen, FolderIgnores
<1>5. CASE GoDown
  <2>1. Made' = Made
    BY <1>1, <1>5, GoDownWalks
  <2>2. QED
    BY <1>1, <1>5, <2>1 DEF IgnoredSeen, FolderIgnores, GoDown, script
<1>6. QED
  BY <1>3, <1>4, <1>5, NextIs

LEMMA RulesKeptNext ==
  ASSUME WalkTyped, ScriptsTyped, Walked, Scripted, LibsHaveJarsOnly, TreeNext
  PROVE  RulesKept'
<1>1. Walks /\ RulesKept
  BY NextIs DEF Scripted
<1>2. /\ Here \in Dir /\ Target \in Dir
      /\ Here \notin Lib => Target = Here
  BY <1>1, WalkIsAt
<1>3. ASSUME NEW f \in FilesHere, Visit(f), FileHandled(f) PROVE RulesKept'
  <2>1. /\ order'[Here] = Append(order[Here], f.kind)
        /\ \A d \in Dir : d # Here => order'[d] = order[d]
    BY <1>1, <1>3, VisitReads
  <2>2. /\ ignored \subseteq ignored'
        /\ \A d \in Dir : templatePairs'[d] = IF Target \notin ignored /\ d = Target /\ f.kind \in Sim
                                      THEN Append(templatePairs[d], <<Here, f.kind>>) ELSE templatePairs[d]
    BY <1>1, <1>3, FileDone
  <2>3. Here \in Lib => f.kind \notin Sim
    BY InLib
  <2>4. order[Here] \in Seq(Kind) /\ f.kind \in Kind
    BY <1>1, <1>2, <1>3, VisitWalks DEF ScriptsTyped
  <2> SUFFICES ASSUME NEW d \in Dir, d \notin Lib, d \notin ignored'
               PROVE  templatePairs'[d] = RulesOf(d, order'[d])
    BY DEF RulesKept, RulesOf
  <2>5. d \notin ignored /\ templatePairs[d] = RulesOf(d, order[d])
    BY <1>1, <2>2 DEF RulesKept
  <2>6. CASE d = Here
    <3> DEFINE s == order[Here]
               k == f.kind
    <3>1. s \in Seq(Kind) /\ k \in Kind /\ order'[d] = Append(s, k) /\ templatePairs[d] = RulesOf(d, s)
      BY <2>1, <2>4, <2>5, <2>6
    <3>2. templatePairs'[d] = IF k \in Sim THEN Append(templatePairs[d], <<d, k>>) ELSE templatePairs[d]
      BY <1>2, <2>2, <2>5, <2>6
    <3> HIDE DEF s, k
    <3>3. RulesOf(d, Append(s, k)) = IF k \in Sim THEN Append(RulesOf(d, s), <<d, k>>) ELSE RulesOf(d, s)
      BY <3>1, RulesOfAppend
    <3>4. QED
      BY <3>1, <3>2, <3>3
  <2>7. CASE d # Here
    <3>1. order'[d] = order[d]
      BY <2>1, <2>7
    <3>2. templatePairs'[d] = templatePairs[d]
      BY <1>2, <2>2, <2>3, <2>7
    <3>3. QED
      BY <2>5, <3>1, <3>2
  <2>8. QED
    BY <2>6, <2>7
<1>4. ASSUME NEW e \in DirsHere, HandleDir(e) PROVE RulesKept'
  <2>1. templatePairs' = templatePairs /\ ignored' = ignored /\ order' = order
    BY <1>1, <1>4, DirDone
  <2>2. QED
    BY <1>1, <2>1 DEF RulesKept, RulesOf
<1>5. CASE GoDown
  BY <1>1, <1>5 DEF RulesKept, RulesOf, GoDown, script
<1>6. QED
  BY <1>3, <1>4, <1>5, NextIs

LEMMA BadFailsNext ==
  ASSUME WalkTyped, ScriptsTyped, Walked, Scripted, LibsHaveJarsOnly, TreeNext
  PROVE  BadFails'
<1>1. Walks /\ ~failed /\ BadFails /\ IgnoredSeen
  BY NextIs DEF Scripted, Walks
<1>2. /\ Here \in Dir
      /\ Here \notin Lib => Target = Here
  BY <1>1, WalkIsAt
<1>3. ASSUME NEW f \in FilesHere, Visit(f), FileHandled(f) PROVE BadFails'
  <2>1. /\ order'[Here] = Append(order[Here], f.kind)
        /\ ToSet(order'[Here]) = ToSet(order[Here]) \cup {f.kind}
        /\ \A d \in Dir : d # Here => order'[d] = order[d]
    BY <1>1, <1>3, VisitReads
  <2>2. failed' <=> Target \notin ignored /\ f.kind = "bad"
    BY <1>1, <1>3, FileDone
  <2>3. order[Here] \in Seq(Kind) /\ f.kind \in Kind
    BY <1>1, <1>2, <1>3, VisitWalks DEF ScriptsTyped
  <2> SUFFICES ASSUME ~failed', NEW d \in Dir, d \notin Lib
               PROVE  "bad" \notin ToSet(BeforeIgnore(order'[d]))
    BY DEF BadFails, Reads
  <2>4. "bad" \notin ToSet(BeforeIgnore(order[d]))
    BY <1>1 DEF BadFails, Reads
  <2>5. d \in ignored <=> "ignore" \in ToSet(order[d])
    BY <1>1 DEF IgnoredSeen, FolderIgnores
  <2>6. CASE d # Here
    BY <2>1, <2>4, <2>6
  <2>7. CASE d = Here
    <3> DEFINE s == order[Here]
               k == f.kind
    <3>1. /\ s \in Seq(Kind) /\ k \in Kind /\ order'[d] = Append(s, k)
          /\ ToSet(Append(s, k)) = ToSet(s) \cup {k}
          /\ "bad" \notin ToSet(BeforeIgnore(s)) /\ (Target \in ignored <=> "ignore" \in ToSet(s))
      BY <1>2, <2>1, <2>3, <2>4, <2>5, <2>7
    <3>2. Target \in ignored \/ k # "bad"
      BY <2>2
    <3> HIDE DEF s, k
    <3>3. CASE "ignore" \in ToSet(s)
      <4>1. BeforeIgnore(Append(s, k)) = BeforeIgnore(s)
        BY <3>1, <3>3, ReadStays
      <4>2. QED
        BY <3>1, <4>1
    <3>4. CASE "ignore" \notin ToSet(s)
      <4>1. BeforeIgnore(s) = s
        BY <3>4 DEF BeforeIgnore
      <4>2. CASE k = "ignore"
        <5>1. BeforeIgnore(Append(s, "ignore")) = s
          BY <3>1, <3>4, ReadAll
        <5>2. QED
          BY <3>1, <4>1, <4>2, <5>1
      <4>3. CASE k # "ignore"
        <5>1. "ignore" \notin ToSet(Append(s, k)) /\ "bad" \notin ToSet(Append(s, k))
          BY <3>1, <3>2, <3>4, <4>1, <4>3
        <5>2. BeforeIgnore(Append(s, k)) = Append(s, k)
          BY <5>1 DEF BeforeIgnore
        <5>3. QED
          BY <3>1, <5>1, <5>2
      <4>4. QED
        BY <4>2, <4>3
    <3>5. QED
      BY <3>3, <3>4
  <2>8. QED
    BY <2>6, <2>7
<1>4. ASSUME NEW e \in DirsHere, HandleDir(e) PROVE BadFails'
  <2>1. failed' = failed /\ order' = order
    BY <1>1, <1>4, DirDone
  <2>2. QED
    BY <1>1, <2>1 DEF BadFails, Reads
<1>5. CASE GoDown
  BY <1>1, <1>5 DEF BadFails, Reads, GoDown
<1>6. QED
  BY <1>3, <1>4, <1>5, NextIs

LEMMA FailsForBadNext ==
  ASSUME WalkTyped, ScriptsTyped, Walked, Scripted, LibsHaveJarsOnly, TreeNext
  PROVE  FailsForBad'
<1>1. Walks /\ ~failed /\ IgnoredSeen
  BY NextIs DEF Scripted, Walks
<1>2. /\ Here \in Dir
      /\ Here \notin Lib => Target = Here
  BY <1>1, WalkIsAt
<1>3. ASSUME NEW f \in FilesHere, Visit(f), FileHandled(f), failed' PROVE FailsForBad'
  <2>1. ToSet(order'[Here]) = ToSet(order[Here]) \cup {f.kind}
    BY <1>1, <1>3, VisitReads
  <2>2. Target \notin ignored /\ f.kind = "bad"
    BY <1>1, <1>3, FileDone
  <2>3. Here \notin Lib
    BY <2>2, InLib
  <2>4. "ignore" \notin ToSet(order[Here])
    BY <1>1, <1>2, <2>2, <2>3 DEF IgnoredSeen, FolderIgnores
  <2>5. f \in files' /\ f.dir = Here
    BY <1>1, <1>3, VisitWalks
  <2>6. "bad" \in ToSet(order'[f.dir]) /\ "ignore" \notin ToSet(order'[f.dir])
    BY <2>1, <2>2, <2>4, <2>5
  <2>7. QED
    BY <2>2, <2>5, <2>6 DEF FailsForBad, FolderIgnores
<1>4. ASSUME NEW e \in DirsHere, HandleDir(e) PROVE FailsForBad'
  <2>1. failed' = failed
    BY <1>1, <1>4, DirDone
  <2>2. QED
    BY <1>1, <2>1 DEF FailsForBad
<1>5. CASE GoDown
  BY <1>1, <1>5 DEF FailsForBad, GoDown
<1>6. CASE ~failed'
  BY <1>6 DEF FailsForBad
<1>7. QED
  BY <1>3, <1>4, <1>5, <1>6, NextIs

LEMMA PropKeptNext ==
  ASSUME WalkTyped, ScriptsTyped, Walked, Scripted, LibsHaveJarsOnly, TreeNext
  PROVE  PropKept'
<1>1. Walks /\ PropKept /\ IgnoredSeen /\ Fresh
  BY NextIs DEF Scripted
<1>2. /\ Here \in Dir /\ Target \in Dir
      /\ Here \notin Lib => Target = Here
  BY <1>1, WalkIsAt
<1>3. \A d \in Made : d \in Dir /\ (d # Root => d \in dirs \ entryList /\ d \in SubDir /\ ParentOf[d] \in Made)
  BY Directories DEF Made, WalkTyped, Walked
<1>4. ASSUME NEW f \in FilesHere, Visit(f), FileHandled(f) PROVE PropKept'
  <2>1. Made' = Made /\ f \in files /\ f \in entryList /\ f.dir = Here
    BY <1>1, <1>4, VisitWalks
  <2>2. /\ ToSet(order'[Here]) = ToSet(order[Here]) \cup {f.kind}
        /\ \A d \in Dir : d # Here => order'[d] = order[d]
    BY <1>1, <1>4, VisitReads
  <2>3. /\ ignored \subseteq ignored'
        /\ \A d \in Dir : prop'[d] = IF Target \notin ignored /\ d = Target /\ f.kind = "init"
                                     THEN Here ELSE prop[d]
    BY <1>1, <1>4, FileDone
  <2>4. Here \in Lib => f.kind # "init"
    BY InLib
  <2> SUFFICES ASSUME NEW d \in Made, d \notin Lib, d \notin ignored'
               PROVE  prop'[d] = IF "init" \in ToSet(order'[d]) THEN d
                                 ELSE IF d = Root THEN None ELSE prop'[ParentOf[d]]
    BY <2>1 DEF PropKept
  <2>5. /\ d \in Dir /\ d \notin ignored
        /\ prop[d] = IF "init" \in ToSet(order[d]) THEN d
                     ELSE IF d = Root THEN None ELSE prop[ParentOf[d]]
    BY <1>1, <1>3, <2>3 DEF PropKept
  <2>6. CASE d = Root \/ ParentOf[d] # Target \/ f.kind # "init"
    <3>1. d = Root \/ prop'[ParentOf[d]] = prop[ParentOf[d]]
      BY <1>3, <2>3, <2>6, Directories
    <3>2. CASE d = Here
      <4>1. Target = d /\ ToSet(order'[d]) = ToSet(order[d]) \cup {f.kind}
        BY <1>2, <2>2, <3>2
      <4>2. prop'[d] = IF f.kind = "init" THEN d ELSE prop[d]
        BY <2>3, <2>5, <3>2, <4>1
      <4>3. QED
        BY <2>5, <3>1, <4>1, <4>2
    <3>3. CASE d # Here
      <4>1. order'[d] = order[d]
        BY <2>2, <2>5, <3>3
      <4>2. prop'[d] = prop[d]
        BY <1>2, <2>3, <2>4, <2>5, <3>3
      <4>3. QED
        BY <2>5, <3>1, <4>1, <4>2
    <3>4. QED
      BY <3>2, <3>3
  <2>7. CASE d # Root /\ ParentOf[d] = Target /\ f.kind = "init"
    <3>1. Target = Here
      BY <1>2, <2>4, <2>7
    <3>2. d \in dirs \ entryList
      BY <1>3, <2>7
    <3>3. f.dir # ParentOf[d]
      BY <2>1, <3>2 DEF Walked
    <3>4. QED
      BY <2>1, <2>7, <3>1, <3>3
  <2>8. QED
    BY <2>6, <2>7
<1>5. ASSUME NEW e \in DirsHere, HandleDir(e) PROVE PropKept'
  <2>1. /\ Made' = Made \cup {e} /\ e \notin Made /\ e \in Dir /\ e # Root
        /\ ParentOf[e] = Here
    BY <1>1, <1>5, HandleDirWalks, Directories
  <2>2. /\ ignored' = ignored /\ order' = order
        /\ \A d \in Dir : prop'[d] = IF d = e /\ e \notin Lib THEN prop[Here] ELSE prop[d]
    BY <1>1, <1>5, DirDone
  <2>3. \A d \in Made : prop'[d] = prop[d]
    BY <1>3, <2>1, <2>2
  <2>4. Here \in Made
    BY <1>1, WalkIsAt
  <2> SUFFICES ASSUME NEW d \in Made', d \notin Lib, d \notin ignored
               PROVE  prop'[d] = IF "init" \in ToSet(order[d]) THEN d
                                 ELSE IF d = Root THEN None ELSE prop'[ParentOf[d]]
    BY <2>2 DEF PropKept
  <2>5. CASE d = e
    <3>1. "init" \notin ToSet(order[d])
      BY <1>1, <2>1, <2>5, ToSetOfNone DEF Fresh
    <3>2. prop'[d] = prop[Here] /\ prop'[ParentOf[d]] = prop[Here]
      BY <2>1, <2>2, <2>3, <2>4, <2>5
    <3>3. QED
      BY <2>1, <2>5, <3>1, <3>2
  <2>6. CASE d # e
    <3>1. d \in Made /\ prop'[d] = prop[d] /\ (d # Root => prop'[ParentOf[d]] = prop[ParentOf[d]])
      BY <1>3, <2>1, <2>3, <2>6
    <3>2. QED
      BY <1>1, <3>1 DEF PropKept
  <2>7. QED
    BY <2>5, <2>6
<1>6. CASE GoDown
  <2>1. Made' = Made
    BY <1>1, <1>6, GoDownWalks
  <2>2. QED
    BY <1>1, <1>6, <2>1 DEF PropKept, GoDown, script
<1>7. QED
  BY <1>4, <1>5, <1>6, NextIs

LEMMA ListedMadeNext ==
  ASSUME WalkTyped, ScriptsTyped, Walked, Scripted, LibsHaveJarsOnly, TreeNext
  PROVE  ListedMade'
<1>1. Walks /\ ListedMade /\ IgnoredSeen
  BY NextIs DEF Scripted
<1>2. /\ Here \in Dir /\ Target \in Made
      /\ Here \notin Lib => Target = Here
  BY <1>1, WalkIsAt
<1>3. ASSUME NEW f \in FilesHere, Visit(f), FileHandled(f) PROVE ListedMade'
  <2>1. Made' = Made
    BY <1>1, <1>3, VisitWalks
  <2>2. /\ ignored' = IF Target \notin ignored /\ f.kind = "ignore" THEN ignored \cup {Target} ELSE ignored
        /\ \A d \in Dir : \A n \in DirNames : subScripts'[d][n] =
              IF Target \notin ignored /\ f.kind = "ignore" /\ Target # Root
                 /\ d = ParentOf[Target] /\ n = NameOf[Here]
              THEN None ELSE subScripts[d][n]
    BY <1>1, <1>3, FileDone
  <2>3. Here \in Lib => f.kind # "ignore"
    BY InLib
  <2> SUFFICES ASSUME NEW d \in SubDir, d \notin Lib
               PROVE  subScripts'[ParentOf[d]][NameOf[d]] = d <=> d \in Made /\ d \notin ignored'
    BY <2>1 DEF ListedMade
  <2>4. /\ d \in Dir /\ d # Root /\ d # None /\ ParentOf[d] \in Dir /\ NameOf[d] \in DirNames
        /\ subScripts[ParentOf[d]][NameOf[d]] = d <=> d \in Made /\ d \notin ignored
    BY <1>1, Directories DEF ListedMade
  <2>5. CASE Target \notin ignored /\ f.kind = "ignore" /\ d = Here
    <3>1. Target = d
      BY <1>2, <2>5
    <3>2. subScripts'[ParentOf[d]][NameOf[d]] = None
      BY <2>2, <2>4, <2>5, <3>1
    <3>3. d \in ignored'
      BY <2>2, <2>5, <3>1
    <3>4. QED
      BY <2>4, <3>2, <3>3
  <2>6. CASE ~(Target \notin ignored /\ f.kind = "ignore" /\ d = Here)
    <3>1. d \in ignored' <=> d \in ignored
      BY <1>2, <2>2, <2>3, <2>6
    <3>2. subScripts'[ParentOf[d]][NameOf[d]] = subScripts[ParentOf[d]][NameOf[d]]
      <4>1. CASE f.kind = "ignore" /\ Target \notin ignored /\ Target # Root
        <5>1. Target = Here /\ Here # d /\ Here \in SubDir
          BY <1>2, <2>3, <2>6, <4>1, Directories
        <5>2. ~(ParentOf[d] = ParentOf[Target] /\ NameOf[d] = NameOf[Here])
          BY <5>1, Directories
        <5>3. QED
          BY <2>2, <2>4, <5>2
      <4>2. CASE ~(f.kind = "ignore" /\ Target \notin ignored /\ Target # Root)
        BY <2>2, <2>4, <4>2
      <4>3. QED
        BY <4>1, <4>2
    <3>3. QED
      BY <2>4, <3>1, <3>2
  <2>7. QED
    BY <2>5, <2>6
<1>4. ASSUME NEW e \in DirsHere, HandleDir(e) PROVE ListedMade'
  <2>1. Made' = Made \cup {e} /\ e \notin Made /\ e \in SubDir /\ ParentOf[e] = Here
    BY <1>1, <1>4, HandleDirWalks
  <2>2. /\ ignored' = ignored
        /\ \A d \in Dir : \A n \in DirNames : subScripts'[d][n] =
             IF d = Here /\ n = NameOf[e] /\ e \notin Lib THEN e ELSE subScripts[d][n]
    BY <1>1, <1>4, DirDone
  <2>3. e \notin ignored
    BY <1>1, <2>1 DEF IgnoredSeen
  <2> SUFFICES ASSUME NEW d \in SubDir, d \notin Lib
               PROVE  subScripts'[ParentOf[d]][NameOf[d]] = d <=> d \in Made' /\ d \notin ignored'
    BY DEF ListedMade
  <2>4. /\ ParentOf[d] \in Dir /\ NameOf[d] \in DirNames
        /\ subScripts[ParentOf[d]][NameOf[d]] = d <=> d \in Made /\ d \notin ignored
    BY <1>1, Directories DEF ListedMade
  <2>5. CASE d = e
    BY <2>1, <2>2, <2>3, <2>4, <2>5
  <2>6. CASE d # e
    <3>1. ~(ParentOf[d] = Here /\ NameOf[d] = NameOf[e])
      BY <2>1, <2>6, Directories
    <3>2. QED
      BY <2>1, <2>2, <2>4, <2>6, <3>1
  <2>7. QED
    BY <2>5, <2>6
<1>5. CASE GoDown
  <2>1. Made' = Made
    BY <1>1, <1>5, GoDownWalks
  <2>2. QED
    BY <1>1, <1>5, <2>1 DEF ListedMade, GoDown, script
<1>6. QED
  BY <1>3, <1>4, <1>5, NextIs

LEMMA JarsAddedNext ==
  ASSUME WalkTyped, ScriptsTyped, Walked, Scripted, LibsHaveJarsOnly, TreeNext
  PROVE  JarsAdded'
<1>1. Walks /\ JarsAdded
  BY NextIs DEF Scripted
<1>2. /\ Root \in Dir
      /\ Here \in Lib => Target = ParentOf[Here]
      /\ Here \notin Lib => Target = Here
  BY <1>1, WalkIsAt, Directories
<1>3. ASSUME NEW f \in FilesHere, Visit(f), FileHandled(f) PROVE JarsAdded'
  <2>1. /\ dirs' = dirs /\ files' = files /\ entryList' = entryList \ {f} /\ f \notin dirs
        /\ f \in files /\ f \in entryList /\ f.dir = Here
    BY <1>1, <1>3, VisitWalks
  <2>2. dirs' \ entryList' = dirs \ entryList /\ files' \ entryList' = (files \ entryList) \cup {f}
    BY <2>1
  <2>3. /\ ignored \subseteq ignored'
        /\ Target = Root /\ Target \in ignored => Root \in ignored'
        /\ libURLs'[Root] = IF Target \notin ignored /\ Root = Target /\ f.kind = "jar"
                               /\ Here \in Lib /\ ParentOf[Here] = Root
                            THEN libURLs[Root] \cup {f} ELSE libURLs[Root]
    <3>1. /\ ignored' = IF Target \notin ignored /\ f.kind = "ignore" THEN ignored \cup {Target} ELSE ignored
          /\ \A d \in Dir : libURLs'[d] =
               IF Target \notin ignored /\ d = Target /\ f.kind = "jar" /\ Here \in Lib /\ ParentOf[Here] = Root
               THEN libURLs[d] \cup {f} ELSE libURLs[d]
      BY <1>1, <1>3, FileDone
    <3>2. QED
      BY <1>2, <3>1
  <2> SUFFICES ASSUME Root \notin ignored'
               PROVE  libURLs'[Root] = JarsOf(dirs \ entryList, (files \ entryList) \cup {f})
    BY <2>2 DEF JarsAdded, JarsOf
  <2>5. Root \notin ignored /\ libURLs[Root] = JarsOf(dirs \ entryList, files \ entryList)
    BY <1>1, <2>3 DEF JarsAdded
  <2>6. JarsOf(dirs \ entryList, (files \ entryList) \cup {f}) =
          IF f.kind = "jar" /\ Here \in Lib /\ ParentOf[Here] = Root
          THEN libURLs[Root] \cup {f} ELSE libURLs[Root]
    BY <2>1, <2>5 DEF JarsOf
  <2>7. Here \in Lib /\ ParentOf[Here] = Root => Root = Target
    BY <1>2
  <2>8. QED
    BY <2>3, <2>5, <2>6, <2>7
<1>4. ASSUME NEW e \in DirsHere, HandleDir(e) PROVE JarsAdded'
  <2>1. /\ dirs' = dirs /\ files' = files /\ entryList' = entryList \ {e} /\ e \notin files
        /\ e \in dirs /\ e \in entryList /\ ParentOf[e] = Here
    BY <1>1, <1>4, HandleDirWalks
  <2>2. dirs' \ entryList' = (dirs \ entryList) \cup {e} /\ files' \ entryList' = files \ entryList
    BY <2>1
  <2>3. /\ ignored' = ignored
        /\ libURLs'[Root] = IF Root = Here /\ e \in Lib THEN libURLs[Root] \cup {e} ELSE libURLs[Root]
    BY <1>1, <1>2, <1>4, DirDone
  <2> SUFFICES ASSUME Root \notin ignored
               PROVE  libURLs'[Root] = JarsOf((dirs \ entryList) \cup {e}, files \ entryList)
    BY <2>2, <2>3 DEF JarsAdded, JarsOf
  <2>4. libURLs[Root] = JarsOf(dirs \ entryList, files \ entryList)
    BY <1>1 DEF JarsAdded
  <2>5. JarsOf((dirs \ entryList) \cup {e}, files \ entryList) =
          IF e \in Lib /\ ParentOf[e] = Root THEN libURLs[Root] \cup {e} ELSE libURLs[Root]
    BY <2>4 DEF JarsOf
  <2>6. QED
    BY <2>1, <2>3, <2>5
<1>5. CASE GoDown
  <2>1. dirs' = dirs /\ files' = files /\ entryList' = entryList
    BY <1>1, <1>5, GoDownWalks
  <2>2. QED
    BY <1>1, <1>5, <2>1 DEF JarsAdded, JarsOf, GoDown, script
<1>6. QED
  BY <1>3, <1>4, <1>5, NextIs

LEMMA ScriptedInit == TreeInit => Scripted
<1> SUFFICES ASSUME TreeInit PROVE Scripted
  OBVIOUS
<1>1. \A d \in Dir : order[d] = <<>> /\ templatePairs[d] = <<>> /\ prop[d] = None /\ libURLs[d] = {}
  BY DEF TreeInit
<1>2. \A d \in Dir : ToSet(order[d]) = {}
  BY <1>1, ToSetOfNone
<1>3. ignored = {} /\ ~failed /\ entryList = dirs \cup files
  BY DEF TreeInit
<1>4. dirs \ entryList = {} /\ files \ entryList = {} /\ Made = {Root} /\ Root \in Dir
  BY <1>3, Directories DEF Made
<1>5. Fresh
  BY <1>1 DEF Fresh
<1>6. IgnoredSeen
  BY <1>2, <1>3 DEF IgnoredSeen, FolderIgnores
<1>7. RulesKept
  <2>1. \A d \in Dir : templatePairs[d] = RulesOf(d, order[d])
    BY <1>1, RulesOfNone
  <2>2. QED
    BY <2>1 DEF RulesKept, RulesOf
<1>8. BadFails
  <2>1. \A d \in Dir : BeforeIgnore(order[d]) = order[d]
    BY <1>2 DEF BeforeIgnore
  <2>2. QED
    BY <1>2, <2>1 DEF BadFails, Reads
<1>9. FailsForBad
  BY <1>3 DEF FailsForBad
<1>10. PropKept
  BY <1>1, <1>2, <1>4 DEF PropKept
<1>11. ListedMade
  <2> SUFFICES ASSUME NEW d \in SubDir PROVE subScripts[ParentOf[d]][NameOf[d]] # d /\ d \notin Made
    BY DEF ListedMade
  <2>1. d # None /\ d # Root /\ ParentOf[d] \in Dir /\ NameOf[d] \in DirNames
    BY Directories
  <2>2. subScripts[ParentOf[d]][NameOf[d]] = None
    BY <2>1 DEF TreeInit
  <2>3. QED
    BY <1>4, <2>1, <2>2
<1>12. JarsAdded
  BY <1>1, <1>4 DEF JarsAdded, JarsOf
<1>13. QED
  BY <1>5, <1>6, <1>7, <1>8, <1>9, <1>10, <1>11, <1>12 DEF Scripted

\* The inductive invariant.
TreeInv == WalkTyped /\ ScriptsTyped /\ Walked /\ (LibsHaveJarsOnly => Scripted)

LEMMA TreeInvInit == TreeInit => TreeInv
BY WalkTypedInit, ScriptsTypedInit, WalkedInit, ScriptedInit DEF TreeInv

LEMMA TreeInvNext == TreeInv /\ [TreeNext]_treeVars => TreeInv'
<1> SUFFICES ASSUME TreeInv, [TreeNext]_treeVars PROVE TreeInv'
  OBVIOUS
<1>1. WalkTyped /\ ScriptsTyped /\ Walked
  BY DEF TreeInv
<1>2. WalkTyped' /\ ScriptsTyped' /\ Walked'
  BY <1>1, WalkTypedNext, ScriptsTypedNext, WalkedNext
<1>3. ASSUME LibsHaveJarsOnly' PROVE Scripted'
  <2>1. CASE UNCHANGED treeVars
    <3>1. LibsHaveJarsOnly
      BY <1>3, <2>1 DEF LibsHaveJarsOnly, treeVars, archive
    <3>2. Scripted
      BY <3>1 DEF TreeInv
    <3>3. QED
      BY <2>1, <3>2 DEF Scripted, Fresh, IgnoredSeen, RulesKept, BadFails, FailsForBad, PropKept,
                        ListedMade, JarsAdded, JarsOf, Made, RulesOf, Reads, FolderIgnores,
                        treeVars, archive, walk, script
  <2>2. CASE TreeNext
    <3>1. files' = files
      BY <2>2 DEF TreeNext, SkipFile, LoadInit, LoadSim, LoadFails, Ignore, AddJar, Visit,
                  HandleDir, Enter, GoDown, archive
    <3>2. LibsHaveJarsOnly
      BY <1>3, <3>1 DEF LibsHaveJarsOnly
    <3>3. Scripted
      BY <3>2 DEF TreeInv
    <3>4. Fresh' /\ IgnoredSeen' /\ RulesKept' /\ BadFails'
      BY <1>1, <2>2, <3>2, <3>3, FreshNext, IgnoredSeenNext, RulesKeptNext, BadFailsNext
    <3>5. FailsForBad' /\ PropKept' /\ ListedMade' /\ JarsAdded'
      BY <1>1, <2>2, <3>2, <3>3, FailsForBadNext, PropKeptNext, ListedMadeNext, JarsAddedNext
    <3>6. QED
      BY <3>4, <3>5 DEF Scripted
  <2>3. QED
    BY <2>1, <2>2
<1>4. QED
  BY <1>2, <1>3 DEF TreeInv

\* The scripts that are found from the root were made and are not ignored.
LEMMA ReachedMade ==
  ASSUME Scripted, Root \notin ignored
  PROVE  \A d \in Dir : Reached[d] => d \notin Lib /\ d \in Made /\ d \notin ignored
<1> SUFFICES ASSUME NEW d \in Dir, Reached[d] PROVE d \notin Lib /\ d \in Made /\ d \notin ignored
  OBVIOUS
<1>1. CASE d = Root
  BY <1>1, Directories DEF Made
<1>2. CASE d # Root
  <2>1. d \in SubDir
    BY <1>2, Directories
  <2>2. Listed(d)
    BY <2>1, ReachedIs
  <2>3. QED
    BY <2>1, <2>2 DEF Listed, Scripted, ListedMade
<1>3. QED
  BY <1>1, <1>2

\* What the files of a script that is not ignored are.
LEMMA NotIgnored ==
  ASSUME ScriptsTyped, Scripted, NEW d \in Dir, d \notin Lib, d \notin ignored
  PROVE  /\ "ignore" \notin ToSet(order[d]) /\ order[d] \in Seq(Kind)
         /\ Reads(d) = order[d]
         /\ templatePairs[d] = RulesOf(d, order[d])
<1>1. "ignore" \notin ToSet(order[d])
  BY DEF Scripted, IgnoredSeen, FolderIgnores
<1>2. Reads(d) = order[d]
  BY <1>1 DEF Reads, BeforeIgnore
<1>3. order[d] \in Seq(Kind)
  BY DEF ScriptsTyped
<1>4. templatePairs[d] = RulesOf(d, order[d])
  BY DEF Scripted, RulesKept
<1>5. QED
  BY <1>1, <1>2, <1>3, <1>4

LEMMA StructureKept ==
  ASSUME TreeInv
  PROVE  StructureKeepsScript
<1> SUFFICES ASSUME ~failed, Root \notin ignored, LibsHaveJarsOnly
             PROVE  \A d \in Scripts : /\ ~EvaluationFails(d)
                                       /\ templatePairs[d] = EvaluatedRules(d)
                                       /\ prop[d] = EvaluatedProp[d]
  BY DEF StructureKeepsScript
<1>1. ScriptsTyped /\ Scripted
  BY DEF TreeInv
<1>2. ASSUME NEW d \in Dir, Reached[d]
      PROVE  /\ d \in Made /\ d \notin Lib /\ d \notin ignored
             /\ "bad" \notin ToSet(StructureFiles(d))
             /\ "init" \in ToSet(StructureFiles(d)) <=> "init" \in ToSet(order[d])
             /\ templatePairs[d] = EvaluatedRules(d)
  <2>1. d \in Made /\ d \notin Lib /\ d \notin ignored
    BY <1>1, <1>2, ReachedMade
  <2>2. order[d] \in Seq(Kind) /\ Reads(d) = order[d] /\ templatePairs[d] = RulesOf(d, order[d])
    BY <1>1, <2>1, NotIgnored
  <2>3. "bad" \notin ToSet(order[d])
    BY <1>1, <2>1, <2>2 DEF Scripted, BadFails
  <2>4. ToSet(StructureFiles(d)) = ToSet(order[d]) \cap StructureKinds
    BY <2>2, OfKindHas DEF StructureFiles
  <2>5. "init" \in StructureKinds /\ Sim \subseteq StructureKinds
    BY DEF StructureKinds
  <2>6. OfKind(StructureFiles(d), Sim) = OfKind(order[d], Sim)
    <3> DEFINE s == order[d]
               all == StructureKinds
    <3>1. s \in Seq(Kind) /\ Sim \subseteq all
      BY <2>2, <2>5
    <3> HIDE DEF s, all
    <3>2. OfKind(OfKind(s, all), Sim) = OfKind(s, Sim)
      BY <3>1, OfKindTwice
    <3>3. QED
      BY <3>2 DEF StructureFiles, s, all
  <2>7. EvaluatedRules(d) = RulesOf(d, order[d])
    BY <2>6 DEF EvaluatedRules, RulesOf
  <2>8. QED
    BY <2>1, <2>2, <2>3, <2>4, <2>5, <2>7
<1>3. \A d \in Dir : Reached[d] => prop[d] = EvaluatedProp[d]
  <2> DEFINE T == {d \in Dir : Reached[d] => prop[d] = EvaluatedProp[d]}
  <2>1. \A d \in Dir : Reached[d] =>
          prop[d] = IF "init" \in ToSet(StructureFiles(d)) THEN d
                    ELSE IF d = Root THEN None ELSE prop[ParentOf[d]]
    BY <1>1, <1>2 DEF Scripted, PropKept
  <2>2. Root \in T
    BY <2>1, EvaluatedPropIs, Directories
  <2>3. \A d \in SubDir : ParentOf[d] \in T => d \in T
    <3> SUFFICES ASSUME NEW d \in SubDir, ParentOf[d] \in T, Reached[d]
                 PROVE  prop[d] = EvaluatedProp[d]
      BY Directories
    <3>1. d \in Dir /\ d # Root
      BY Directories
    <3>2. Reached[ParentOf[d]]
      BY ReachedIs
    <3>3. prop[ParentOf[d]] = EvaluatedProp[ParentOf[d]]
      BY <3>2
    <3>4. EvaluatedProp[d] = IF "init" \in ToSet(StructureFiles(d)) THEN d
                             ELSE EvaluatedProp[ParentOf[d]]
      BY EvaluatedPropIs
    <3>5. QED
      BY <2>1, <3>1, <3>3, <3>4
  <2> HIDE DEF T
  <2>4. \A d \in Dir : d \in T
    BY <2>2, <2>3, DownInduction
  <2>5. QED
    BY <2>4 DEF T
<1>4. QED
  BY <1>2, <1>3 DEF Scripts, EvaluationFails

\* The structure that is given out for a simulator of an archive with but jars in
\* a lib evaluates to the same simulator, whatever the order of its entries
\* (SimulatorFolder, SimulatorManager.evaluateSimulatorStructure).
THEOREM TreeStructureKeepsScript ==
  TreeSpec => []StructureKeepsScript
<1>1. TreeInit => TreeInv
  BY TreeInvInit
<1>2. TreeInv /\ [TreeNext]_treeVars => TreeInv'
  BY TreeInvNext
<1>3. TreeInv => StructureKeepsScript
  BY StructureKept
<1>4. QED
  BY <1>1, <1>2, <1>3, PTL DEF TreeSpec

\* At the end of a walk that did not fail nothing is left.
LEMMA WalkEnds ==
  ASSUME WalkTyped, Walked, Done, ~failed, DirsHaveEntries
  PROVE  /\ \A d \in dirs \cup {Root} : d \in Made
         /\ dirs \ entryList = dirs /\ files \ entryList = files
<1>1. Waiting = {}
  BY ToSetOfNone DEF Done, Walked, Waiting
<1>2. \A d \in Made : Left(d) = {}
  BY <1>1 DEF Walked
<1> DEFINE T == {d \in Dir : d \in dirs => d \in Made}
<1>3. Root \in T
  BY Directories DEF Made
<1>4. \A d \in SubDir : ParentOf[d] \in T => d \in T
  <2> SUFFICES ASSUME NEW d \in SubDir, ParentOf[d] \in T, d \in dirs PROVE d \in Made
    BY Directories
  <2>1. ParentOf[d] \in Made
    BY DEF DirsHaveEntries, Made
  <2>2. d \notin entryList
    BY <1>2, <2>1 DEF Left
  <2>3. QED
    BY <2>2 DEF Made
<1> HIDE DEF T
<1>5. \A d \in Dir : d \in T
  BY <1>3, <1>4, DownInduction
<1>6. \A d \in dirs \cup {Root} : d \in Made
  BY <1>5, Directories DEF T, WalkTyped, Made
<1>7. \A d \in dirs : d \notin entryList
  BY <1>6, Directories DEF Made, WalkTyped
<1>8. \A f \in files : f \notin entryList
  <2> SUFFICES ASSUME NEW f \in files, f \in entryList PROVE FALSE
    OBVIOUS
  <2>1. f.dir \in Made
    BY <1>6 DEF DirsHaveEntries
  <2>2. f \in Left(f.dir)
    BY DEF Left
  <2>3. QED
    BY <1>2, <2>1, <2>2
<1>9. QED
  BY <1>6, <1>7, <1>8

\* No .ignore in a directory, nor in one that it is in.
Clear(d) == \A e \in Up[d] : ~FolderIgnores(e)

LEMMA ClearIs ==
  /\ Clear(Root) <=> ~FolderIgnores(Root)
  /\ \A d \in SubDir : Clear(d) <=> ~FolderIgnores(d) /\ Clear(ParentOf[d])
  /\ \A d \in Dir : Clear(d) <=> Loads(d) /\ ~FolderIgnores(d)
<1>1. Clear(Root) <=> ~FolderIgnores(Root)
  BY UpIs DEF Clear
<1>2. \A d \in SubDir : Clear(d) <=> ~FolderIgnores(d) /\ Clear(ParentOf[d])
  BY UpIs DEF Clear
<1>3. \A d \in Dir : d \in Up[d]
  BY UpIs, Directories
<1>4. \A d \in Dir : Clear(d) <=> Loads(d) /\ ~FolderIgnores(d)
  BY <1>3 DEF Clear, Loads
<1>5. QED
  BY <1>1, <1>2, <1>4

LEMMA ScriptsAreFolders ==
  ASSUME WalkTyped, Walked, Scripted, Done, ~failed, Root \notin ignored, DirsHaveEntries
  PROVE  Scripts = FolderScripts
<1> DEFINE Of(d) == d \in {Root} \cup dirs /\ d \notin Lib /\ Clear(d)
           T == {d \in Dir : Reached[d] <=> Of(d)}
<1>1. \A d \in dirs \cup {Root} : d \in Made
  BY WalkEnds
<1>2. \A d \in Dir : d \notin Lib => (d \in ignored <=> FolderIgnores(d))
  BY DEF Scripted, IgnoredSeen
<1>3. Root \in T
  BY <1>2, Directories, ReachedIs, ClearIs
<1>4. \A d \in SubDir : ParentOf[d] \in T => d \in T
  <2> SUFFICES ASSUME NEW d \in SubDir, ParentOf[d] \in T PROVE Reached[d] <=> Of(d)
    BY Directories
  <2>1. d \in Dir /\ d # Root /\ ParentOf[d] \notin Lib
    BY Directories
  <2>2. Reached[d] <=> Listed(d) /\ Of(ParentOf[d])
    BY ReachedIs
  <2>3. Listed(d) <=> d \notin Lib /\ d \in Made /\ d \notin ignored
    BY DEF Listed, Scripted, ListedMade
  <2>4. d \in Made <=> d \in dirs
    BY <1>1, <2>1 DEF Made
  <2>5. d \in dirs => ParentOf[d] \in {Root} \cup dirs
    BY DEF DirsHaveEntries
  <2>6. Clear(d) <=> ~FolderIgnores(d) /\ Clear(ParentOf[d])
    BY ClearIs
  <2> HIDE DEF T
  <2>7. QED
    BY <1>2, <2>1, <2>2, <2>3, <2>4, <2>5, <2>6
<1> HIDE DEF T, Of
<1>5. \A d \in Dir : d \in T
  BY <1>3, <1>4, DownInduction
<1>6. \A d \in Dir : Reached[d] <=> Of(d)
  BY <1>5 DEF T
<1>7. \A d \in ({Root} \cup dirs) \ Lib : d \in Dir
  BY Directories DEF WalkTyped
<1>8. FolderScripts = {d \in ({Root} \cup dirs) \ Lib : Clear(d)}
  BY <1>7, ClearIs DEF FolderScripts
<1>9. QED
  BY <1>6, <1>7, <1>8 DEF Scripts, Of

LEMMA PropIsFolders ==
  ASSUME ScriptsTyped, Scripted, Root \notin ignored
  PROVE  \A d \in Dir : Reached[d] => prop[d] = FolderProp[d]
<1> DEFINE T == {d \in Dir : Reached[d] => prop[d] = FolderProp[d]}
<1>1. \A d \in Dir : Reached[d] =>
        prop[d] = IF "init" \in ToSet(Reads(d)) THEN d
                  ELSE IF d = Root THEN None ELSE prop[ParentOf[d]]
  <2> SUFFICES ASSUME NEW d \in Dir, Reached[d]
               PROVE  prop[d] = IF "init" \in ToSet(Reads(d)) THEN d
                                ELSE IF d = Root THEN None ELSE prop[ParentOf[d]]
    OBVIOUS
  <2>1. d \in Made /\ d \notin Lib /\ d \notin ignored
    BY ReachedMade
  <2>2. Reads(d) = order[d]
    BY <2>1, NotIgnored
  <2>3. QED
    BY <2>1, <2>2 DEF Scripted, PropKept
<1>2. Root \in T
  BY <1>1, FolderPropIs, Directories
<1>3. \A d \in SubDir : ParentOf[d] \in T => d \in T
  <2> SUFFICES ASSUME NEW d \in SubDir, ParentOf[d] \in T, Reached[d]
               PROVE  prop[d] = FolderProp[d]
    BY Directories
  <2>1. d \in Dir /\ d # Root
    BY Directories
  <2>2. Reached[ParentOf[d]]
    BY ReachedIs
  <2>3. prop[ParentOf[d]] = FolderProp[ParentOf[d]]
    BY <2>2
  <2>4. FolderProp[d] = IF "init" \in ToSet(Reads(d)) THEN d ELSE FolderProp[ParentOf[d]]
    BY FolderPropIs
  <2>5. QED
    BY <1>1, <2>1, <2>3, <2>4
<1> HIDE DEF T
<1>4. \A d \in Dir : d \in T
  BY <1>2, <1>3, DownInduction
<1>5. QED
  BY <1>4 DEF T

\* A walk fails where the folder's loader does.
LEMMA FailsAsFolder ==
  ASSUME WalkTyped, Scripted, DirsHaveEntries, LibsHaveJarsOnly, NothingBadIgnored
  PROVE  failed <=> FolderFails
<1>1. ASSUME failed PROVE FolderFails
  <2>1. PICK f \in files : f.kind = "bad" /\ "bad" \in ToSet(order[f.dir]) /\ ~FolderIgnores(f.dir)
    BY <1>1 DEF Scripted, FailsForBad
  <2>2. f.dir \in ({Root} \cup dirs) \ Lib
    BY <2>1 DEF DirsHaveEntries, LibsHaveJarsOnly
  <2>3. Loads(f.dir)
    BY <2>1 DEF NothingBadIgnored
  <2>4. Reads(f.dir) = order[f.dir]
    BY <2>1 DEF Reads, BeforeIgnore, FolderIgnores
  <2>5. QED
    BY <2>1, <2>2, <2>3, <2>4 DEF FolderFails
<1>2. ASSUME ~failed PROVE ~FolderFails
  <2>1. \A d \in Dir : d \notin Lib => "bad" \notin ToSet(Reads(d))
    BY <1>2 DEF Scripted, BadFails
  <2>2. \A d \in {Root} \cup dirs : d \in Dir
    BY Directories DEF WalkTyped
  <2>3. QED
    BY <2>1, <2>2 DEF FolderFails
<1>3. QED
  BY <1>1, <1>2

LEMMA LibIsFolders ==
  ASSUME Scripted, Root \notin ignored, DirsHaveEntries,
         dirs \ entryList = dirs, files \ entryList = files
  PROVE  libURLs[Root] = FolderLib(Root)
<1>1. libURLs[Root] = JarsOf(dirs, files)
  BY DEF Scripted, JarsAdded
<1>2. \A f \in files : f.dir \in Lib => f.dir \in dirs
  BY Directories DEF DirsHaveEntries
<1>3. QED
  BY <1>1, <1>2 DEF JarsOf, FolderLib

LEMMA ZipKept ==
  ASSUME TreeInv
  PROVE  ZipIsAFolder
<1> SUFFICES ASSUME Done, DirsHaveEntries, LibsHaveJarsOnly, NothingBadIgnored
             PROVE  /\ failed <=> FolderFails
                    /\ ~failed => (Root \in ignored <=> FolderIgnores(Root))
                    /\ ~failed /\ Root \notin ignored =>
                         /\ Scripts = FolderScripts
                         /\ \A d \in Scripts : templatePairs[d] = FolderRules(d) /\ prop[d] = FolderProp[d]
                         /\ libURLs[Root] = FolderLib(Root)
  BY DEF ZipIsAFolder
<1>1. WalkTyped /\ ScriptsTyped /\ Walked /\ Scripted
  BY DEF TreeInv
<1>2. failed <=> FolderFails
  BY <1>1, FailsAsFolder
<1>3. Root \in ignored <=> FolderIgnores(Root)
  BY <1>1, Directories DEF Scripted, IgnoredSeen
<1>4. ASSUME ~failed, Root \notin ignored
      PROVE  /\ Scripts = FolderScripts
             /\ \A d \in Scripts : templatePairs[d] = FolderRules(d) /\ prop[d] = FolderProp[d]
             /\ libURLs[Root] = FolderLib(Root)
  <2>1. dirs \ entryList = dirs /\ files \ entryList = files
    BY <1>1, <1>4, WalkEnds
  <2>2. Scripts = FolderScripts
    BY <1>1, <1>4, ScriptsAreFolders
  <2>3. ASSUME NEW d \in Dir, Reached[d] PROVE templatePairs[d] = FolderRules(d)
    <3>1. d \notin Lib /\ d \notin ignored
      BY <1>1, <1>4, <2>3, ReachedMade
    <3>2. Reads(d) = order[d] /\ templatePairs[d] = RulesOf(d, order[d])
      BY <1>1, <3>1, NotIgnored
    <3>3. QED
      BY <3>2 DEF FolderRules, RulesOf
  <2>4. \A d \in Dir : Reached[d] => prop[d] = FolderProp[d]
    BY <1>1, <1>4, PropIsFolders
  <2>5. libURLs[Root] = FolderLib(Root)
    BY <1>1, <1>4, <2>1, LibIsFolders
  <2>6. QED
    BY <2>2, <2>3, <2>4, <2>5 DEF Scripts
<1>5. QED
  BY <1>2, <1>3, <1>4

\* An archive whose directories have entries, with but jars in a lib and nothing
\* malformed below an ignored directory, is treated as the folder with the same
\* content, in whatever order its entries come: it fails, it is ignored, or it
\* has the same scripts with the same rules, properties and libraries (SimScript
\* constructors, loadFolder, ZipFileVisitor.visit).
THEOREM TreeZipIsAFolder ==
  TreeSpec => []ZipIsAFolder
<1>1. TreeInit => TreeInv
  BY TreeInvInit
<1>2. TreeInv /\ [TreeNext]_treeVars => TreeInv'
  BY TreeInvNext
<1>3. TreeInv => ZipIsAFolder
  BY ZipKept
<1>4. QED
  BY <1>1, <1>2, <1>3, PTL DEF TreeSpec
=============================================================================
