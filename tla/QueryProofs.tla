------------------------------- MODULE QueryProofs -------------------------------
(***************************************************************************)
(* The parts of the query path that work on numbers and sequences, for     *)
(* every input: the lexer gives every token the place of its first         *)
(* character and always ends, integer arithmetic is exact or fails, ORDER  *)
(* BY compares by an order, and the chunks a client receives are the       *)
(* result it asked for.                                                    *)
(*                                                                         *)
(* The loops are recursive functions, so each proof first shows that the   *)
(* function exists (the lemmas on runs, one per loop body because the      *)
(* provers instantiate no operator) and then what it computes, by the      *)
(* least turn that would break the claim.                                  *)
(***************************************************************************)
EXTENDS GqlLexer, Values, Streaming, TLAPS, SequenceTheorems, FiniteSetTheorems, WellFoundedInduction, NaturalsInduction

(* A set of naturals that is not empty has a least element.                *)
LEMMA NatMin ==
    ASSUME NEW S \in SUBSET Nat, S # {}
    PROVE  \E x \in S : \A y \in S : x <= y
<1>1. PICK x \in S : \A y \in S : ~(<<y, x>> \in OpToRel(<, Nat))
  BY NatLessThanWellFounded, WFMin
<1>2. \A y \in Nat : y < x => <<y, x>> \in OpToRel(<, Nat)
  BY Zenon DEF OpToRel
<1>3. \A y \in S : ~(y < x)
  BY <1>1, <1>2, Zenon
<1> QED
  BY <1>3, SMT

(* n calls of advance.                                                     *)
LEMMA StepsRun ==
    ASSUME NEW l, NEW n \in Nat
    PROVE  \E g : g = [i \in 0..n |-> IF i = 0 THEN l ELSE step(g[i - 1])]
<1> DEFINE Is(g, m) == g = [i \in 0..m |-> IF i = 0 THEN l ELSE step(g[i - 1])]
           Bad == {m \in Nat : ~ \E g : Is(g, m)}
<1>1. \E g : Is(g, 0)
  <2> DEFINE h == [i \in 0..0 |-> l]
  <2>1. Is(h, 0)
    OBVIOUS
  <2> QED
    BY <2>1
<1>2. ASSUME NEW m \in Nat \ {0}, NEW g, Is(g, m - 1)
      PROVE  \E h : Is(h, m)
  <2> DEFINE h == [i \in 0..m |-> IF i = m THEN step(g[m - 1]) ELSE g[i]]
  <2>1. \A i \in 0..(m - 1) : g[i] = IF i = 0 THEN l ELSE step(g[i - 1])
    BY <1>2
  <2>2. h[m] = step(g[m - 1]) /\ \A i \in 0..(m - 1) : h[i] = g[i]
    OBVIOUS
  <2>3. h = [i \in 0..m |-> h[i]]
    OBVIOUS
  <2> HIDE DEF h
  <2>4. \A i \in 0..m : h[i] = IF i = 0 THEN l ELSE step(h[i - 1])
    <3> TAKE i \in 0..m
    <3>1. i - 1 \in 0..(m - 1) \/ i = 0
      OBVIOUS
    <3>2. CASE i = m
      BY <2>2, <3>1, <3>2
    <3>3. CASE i # m
      <4>1. i \in 0..(m - 1)
        BY <3>3
      <4> QED
        BY <2>1, <2>2, <3>1, <4>1
    <3> QED
      BY <3>2, <3>3
  <2>5. Is(h, m)
    BY <2>3, <2>4
  <2> QED
    BY <2>5
<1>3. Bad = {}
  <2> SUFFICES ASSUME Bad # {} PROVE FALSE
    OBVIOUS
  <2> HIDE DEF Is
  <2>1. PICK m \in Bad : \A k \in Bad : m <= k
    <3>1. Bad \in SUBSET Nat
      OBVIOUS
    <3> QED
      BY <3>1, NatMin
  <2>2. m \in Nat \ {0} /\ ~ \E g : Is(g, m)
    BY <1>1, <2>1
  <2>3. \E g : Is(g, m - 1)
    BY <2>1, <2>2
  <2> QED
    BY <1>2, <2>2, <2>3
<1> QED
  BY <1>3

(* n turns of the loop of lex_string.                                      *)
LEMMA StringRun ==
    ASSUME NEW b, NEW n \in Nat
    PROVE  \E g : g = [i \in 0..n |-> IF i = 0 THEN b ELSE StringTurn(g[i - 1])]
<1> DEFINE Is(g, m) == g = [i \in 0..m |-> IF i = 0 THEN b ELSE StringTurn(g[i - 1])]
           Bad == {m \in Nat : ~ \E g : Is(g, m)}
<1>1. \E g : Is(g, 0)
  <2> DEFINE h == [i \in 0..0 |-> b]
  <2>1. Is(h, 0)
    OBVIOUS
  <2> QED
    BY <2>1
<1>2. ASSUME NEW m \in Nat \ {0}, NEW g, Is(g, m - 1)
      PROVE  \E h : Is(h, m)
  <2> DEFINE h == [i \in 0..m |-> IF i = m THEN StringTurn(g[m - 1]) ELSE g[i]]
  <2>1. \A i \in 0..(m - 1) : g[i] = IF i = 0 THEN b ELSE StringTurn(g[i - 1])
    BY <1>2
  <2>2. h[m] = StringTurn(g[m - 1]) /\ \A i \in 0..(m - 1) : h[i] = g[i]
    OBVIOUS
  <2>3. h = [i \in 0..m |-> h[i]]
    OBVIOUS
  <2> HIDE DEF h
  <2>4. \A i \in 0..m : h[i] = IF i = 0 THEN b ELSE StringTurn(h[i - 1])
    <3> TAKE i \in 0..m
    <3>1. i - 1 \in 0..(m - 1) \/ i = 0
      OBVIOUS
    <3>2. CASE i = m
      BY <2>2, <3>1, <3>2
    <3>3. CASE i # m
      <4>1. i \in 0..(m - 1)
        BY <3>3
      <4> QED
        BY <2>1, <2>2, <3>1, <4>1
    <3> QED
      BY <3>2, <3>3
  <2>5. Is(h, m)
    BY <2>3, <2>4
  <2> QED
    BY <2>5
<1>3. Bad = {}
  <2> SUFFICES ASSUME Bad # {} PROVE FALSE
    OBVIOUS
  <2> HIDE DEF Is
  <2>1. PICK m \in Bad : \A k \in Bad : m <= k
    <3>1. Bad \in SUBSET Nat
      OBVIOUS
    <3> QED
      BY <3>1, NatMin
  <2>2. m \in Nat \ {0} /\ ~ \E g : Is(g, m)
    BY <1>1, <2>1
  <2>3. \E g : Is(g, m - 1)
    BY <2>1, <2>2
  <2> QED
    BY <1>2, <2>2, <2>3
<1> QED
  BY <1>3

(* n turns of the loop of tokenize.                                        *)
LEMMA TokensRun ==
    ASSUME NEW b, NEW n \in Nat
    PROVE  \E g : g = [i \in 0..n |-> IF i = 0 THEN b ELSE TokenTurn(g[i - 1])]
<1> DEFINE Is(g, m) == g = [i \in 0..m |-> IF i = 0 THEN b ELSE TokenTurn(g[i - 1])]
           Bad == {m \in Nat : ~ \E g : Is(g, m)}
<1>1. \E g : Is(g, 0)
  <2> DEFINE h == [i \in 0..0 |-> b]
  <2>1. Is(h, 0)
    OBVIOUS
  <2> QED
    BY <2>1
<1>2. ASSUME NEW m \in Nat \ {0}, NEW g, Is(g, m - 1)
      PROVE  \E h : Is(h, m)
  <2> DEFINE h == [i \in 0..m |-> IF i = m THEN TokenTurn(g[m - 1]) ELSE g[i]]
  <2>1. \A i \in 0..(m - 1) : g[i] = IF i = 0 THEN b ELSE TokenTurn(g[i - 1])
    BY <1>2
  <2>2. h[m] = TokenTurn(g[m - 1]) /\ \A i \in 0..(m - 1) : h[i] = g[i]
    OBVIOUS
  <2>3. h = [i \in 0..m |-> h[i]]
    OBVIOUS
  <2> HIDE DEF h
  <2>4. \A i \in 0..m : h[i] = IF i = 0 THEN b ELSE TokenTurn(h[i - 1])
    <3> TAKE i \in 0..m
    <3>1. i - 1 \in 0..(m - 1) \/ i = 0
      OBVIOUS
    <3>2. CASE i = m
      BY <2>2, <3>1, <3>2
    <3>3. CASE i # m
      <4>1. i \in 0..(m - 1)
        BY <3>3
      <4> QED
        BY <2>1, <2>2, <3>1, <4>1
    <3> QED
      BY <3>2, <3>3
  <2>5. Is(h, m)
    BY <2>3, <2>4
  <2> QED
    BY <2>5
<1>3. Bad = {}
  <2> SUFFICES ASSUME Bad # {} PROVE FALSE
    OBVIOUS
  <2> HIDE DEF Is
  <2>1. PICK m \in Bad : \A k \in Bad : m <= k
    <3>1. Bad \in SUBSET Nat
      OBVIOUS
    <3> QED
      BY <3>1, NatMin
  <2>2. m \in Nat \ {0} /\ ~ \E g : Is(g, m)
    BY <1>1, <2>1
  <2>3. \E g : Is(g, m - 1)
    BY <2>1, <2>2
  <2> QED
    BY <1>2, <2>2, <2>3
<1> QED
  BY <1>3

(* The rows of the first n chunks.                                         *)
LEMMA JoinedRun ==
    ASSUME NEW chunks, NEW n \in Nat
    PROVE  \E g : g = [i \in 0..n |-> IF i = 0 THEN <<>> ELSE g[i - 1] \o chunks[i].rows]
<1> DEFINE Put(x, i) == x \o chunks[i].rows
           Is(g, m) == g = [i \in 0..m |-> IF i = 0 THEN <<>> ELSE Put(g[i - 1], i)]
           Bad == {m \in Nat : ~ \E g : Is(g, m)}
<1> HIDE DEF Put
<1>1. \E g : Is(g, 0)
  <2> DEFINE h == [i \in 0..0 |-> <<>>]
  <2>1. Is(h, 0)
    OBVIOUS
  <2> QED
    BY <2>1
<1>2. ASSUME NEW m \in Nat \ {0}, NEW g, Is(g, m - 1)
      PROVE  \E h : Is(h, m)
  <2> DEFINE h == [i \in 0..m |-> IF i = m THEN Put(g[m - 1], m) ELSE g[i]]
  <2>1. \A i \in 0..(m - 1) : g[i] = IF i = 0 THEN <<>> ELSE Put(g[i - 1], i)
    BY <1>2
  <2>2. h[m] = Put(g[m - 1], m) /\ \A i \in 0..(m - 1) : h[i] = g[i]
    OBVIOUS
  <2>3. h = [i \in 0..m |-> h[i]]
    OBVIOUS
  <2> HIDE DEF h
  <2>4. \A i \in 0..m : h[i] = IF i = 0 THEN <<>> ELSE Put(h[i - 1], i)
    <3> TAKE i \in 0..m
    <3>1. i - 1 \in 0..(m - 1) \/ i = 0
      OBVIOUS
    <3>2. CASE i = m
      BY <2>2, <3>1, <3>2
    <3>3. CASE i # m
      <4>1. i \in 0..(m - 1)
        BY <3>3
      <4> QED
        BY <2>1, <2>2, <3>1, <4>1
    <3> QED
      BY <3>2, <3>3
  <2>5. Is(h, m)
    BY <2>3, <2>4
  <2> QED
    BY <2>5
<1>3. Bad = {}
  <2> SUFFICES ASSUME Bad # {} PROVE FALSE
    OBVIOUS
  <2> HIDE DEF Is
  <2>1. PICK m \in Bad : \A k \in Bad : m <= k
    <3>1. Bad \in SUBSET Nat
      OBVIOUS
    <3> QED
      BY <3>1, NatMin
  <2>2. m \in Nat \ {0} /\ ~ \E g : Is(g, m)
    BY <1>1, <2>1
  <2>3. \E g : Is(g, m - 1)
    BY <2>1, <2>2
  <2> QED
    BY <1>2, <2>2, <2>3
<1> QED
  BY <1>3 DEF Put

--------------------------------------------------------------------------------
(* The line breaks before a position.                                      *)
LEMMA BreakFacts ==
    ASSUME NEW text, NEW n \in Nat
    PROVE  /\ IsFiniteSet(Breaks(text, n)) /\ Cardinality(Breaks(text, n)) \in Nat
           /\ LastBreak(text, n) \in {0} \cup Breaks(text, n)
           /\ \A j \in Breaks(text, n) : j <= LastBreak(text, n)
           /\ LastBreak(text, n) \in 0..n
<1> DEFINE B == Breaks(text, n)
<1>1. B \in SUBSET (1..n)
  BY DEF Breaks
<1> HIDE DEF B
<1>2. IsFiniteSet(B)
  <2>1. IsFiniteSet(1..n)
    BY FS_Interval
  <2> QED
    BY <1>1, <2>1, FS_Subset
<1>3. Cardinality(B) \in Nat
  BY <1>2, FS_CardinalityType
<1> DEFINE D == {d \in 0..n : n - d \in {0} \cup B}
<1>4. PICK d \in D : \A e \in D : d <= e
  <2>1. D \in SUBSET Nat /\ n \in D
    OBVIOUS
  <2> QED
    BY <2>1, NatMin
<1>5. n - d \in {0} \cup B
  OBVIOUS
<1>6. \A j \in B : j <= n - d
  <2> TAKE j \in B
  <2>1. j \in 1..n /\ n - j \in 0..n /\ n - (n - j) = j
    BY <1>1
  <2>2. n - j \in D
    BY <2>1
  <2>3. d <= n - j /\ d \in 0..n
    BY <1>4, <2>2
  <2> HIDE DEF D
  <2> QED
    BY <2>1, <2>3
<1>7. LastBreak(text, n) \in {0} \cup B /\ \A j \in B : j <= LastBreak(text, n)
  BY <1>5, <1>6 DEF LastBreak, B
<1>8. LastBreak(text, n) \in 0..n
  <2>1. \A x \in {0} \cup B : x \in 0..n
    BY <1>1
  <2> QED
    BY <1>7, <2>1
<1> QED
  BY <1>2, <1>3, <1>7, <1>8 DEF B

(* One character further there is one more break or none.                  *)
LEMMA BreakNext ==
    ASSUME NEW text, NEW n \in Nat
    PROVE  /\ text[n + 1] = "\n" => /\ Cardinality(Breaks(text, n + 1)) = Cardinality(Breaks(text, n)) + 1
                                    /\ LastBreak(text, n + 1) = n + 1
           /\ text[n + 1] # "\n" => /\ Breaks(text, n + 1) = Breaks(text, n)
                                    /\ LastBreak(text, n + 1) = LastBreak(text, n)
<1>0. \A j : j \in 1..(n + 1) <=> j \in 1..n \/ j = n + 1
  OBVIOUS
<1>1. CASE text[n + 1] = "\n"
  <2>1. Breaks(text, n + 1) = Breaks(text, n) \cup {n + 1}
    BY <1>0, <1>1 DEF Breaks
  <2>2. n + 1 \notin Breaks(text, n)
    BY DEF Breaks
  <2>3. Cardinality(Breaks(text, n + 1)) = Cardinality(Breaks(text, n)) + 1
    BY <2>1, <2>2, BreakFacts, FS_AddElement
  <2>4. n + 1 <= LastBreak(text, n + 1) /\ LastBreak(text, n + 1) \in 0..(n + 1)
    BY <2>1, BreakFacts
  <2> QED
    BY <1>1, <2>3, <2>4
<1>2. CASE text[n + 1] # "\n"
  <2>1. Breaks(text, n + 1) = Breaks(text, n)
    BY <1>0, <1>2 DEF Breaks
  <2> QED
    BY <1>2, <2>1 DEF LastBreak
<1> QED
  BY <1>1, <1>2

(* The states of a lexer of a text whose line and column are those of its  *)
(* position.                                                               *)
Placed(text) ==
    {l \in [input : {text}, pos : 1..(Len(text) + 1), line : Int, column : Int] :
        /\ l.line = Cardinality(Breaks(text, l.pos - 1)) + 1
        /\ l.column = l.pos - LastBreak(text, l.pos - 1)}

LEMMA PlacedFacts ==
    ASSUME NEW S, NEW text \in Seq(S), NEW l \in Placed(text)
    PROVE  /\ Len(text) \in Nat /\ l.input = text /\ l.pos \in 1..(Len(text) + 1)
           /\ l.line \in Int /\ l.column \in Int
           /\ l = [input |-> text, pos |-> l.pos, line |-> l.line, column |-> l.column]
           /\ l.line = Cardinality(Breaks(text, l.pos - 1)) + 1
           /\ l.column = l.pos - LastBreak(text, l.pos - 1)
           /\ is_eof(l) <=> l.pos = Len(text) + 1
<1>1. Len(text) \in Nat
  OBVIOUS
<1>2. /\ l.input = text /\ l.pos \in 1..(Len(text) + 1)
      /\ l.line \in Int /\ l.column \in Int
      /\ l = [input |-> text, pos |-> l.pos, line |-> l.line, column |-> l.column]
  BY DEF Placed
<1>3. is_eof(l) <=> l.pos = Len(text) + 1
  BY <1>1, <1>2 DEF is_eof
<1> QED
  BY <1>1, <1>2, <1>3 DEF Placed

(* advance keeps line and column in step with the position.                *)
LEMMA StepPlaced ==
    ASSUME NEW S, NEW text \in Seq(S), NEW l \in Placed(text)
    PROVE  /\ step(l) \in Placed(text) /\ step(l).pos >= l.pos
           /\ ~is_eof(l) => step(l).pos > l.pos
<1>0. /\ Len(text) \in Nat /\ l.input = text /\ l.pos \in 1..(Len(text) + 1)
      /\ l.line \in Int /\ l.column \in Int
      /\ l = [input |-> text, pos |-> l.pos, line |-> l.line, column |-> l.column]
      /\ l.line = Cardinality(Breaks(text, l.pos - 1)) + 1
      /\ l.column = l.pos - LastBreak(text, l.pos - 1)
      /\ is_eof(l) <=> l.pos = Len(text) + 1
  BY PlacedFacts
<1>1. CASE is_eof(l)
  BY <1>0, <1>1 DEF step
<1>2. CASE ~is_eof(l)
  <2> DEFINE c == text[l.pos]
             line == IF c = "\n" THEN l.line + 1 ELSE l.line
             column == IF c = "\n" THEN 1 ELSE l.column + 1
             m == [input |-> text, pos |-> l.pos + 1, line |-> line, column |-> column]
  <2>1. l.pos \in 1..Len(text) /\ l.pos - 1 \in Nat /\ (l.pos - 1) + 1 = l.pos /\ (l.pos + 1) - 1 = l.pos
    BY <1>0, <1>2
  <2>2. char(l, 0) = c
    BY <1>0, <2>1 DEF char
  <2>3. step(l) = [l EXCEPT !.pos = @ + 1,
                            !.line = IF char(l, 0) = "\n" THEN @ + 1 ELSE @,
                            !.column = IF char(l, 0) = "\n" THEN 1 ELSE @ + 1]
    BY <1>2 DEF step
  <2>4. step(l) = m
    <3> HIDE DEF c
    <3> QED
      BY <1>0, <2>2, <2>3
  <2>5. /\ c = "\n" => /\ Cardinality(Breaks(text, l.pos)) = Cardinality(Breaks(text, l.pos - 1)) + 1
                       /\ LastBreak(text, l.pos) = l.pos
        /\ c # "\n" => /\ Breaks(text, l.pos) = Breaks(text, l.pos - 1)
                       /\ LastBreak(text, l.pos) = LastBreak(text, l.pos - 1)
    BY <2>1, BreakNext
  <2>6. Cardinality(Breaks(text, l.pos - 1)) \in Nat /\ LastBreak(text, l.pos - 1) \in Int
    BY <2>1, BreakFacts
  <2>7. line = Cardinality(Breaks(text, l.pos)) + 1 /\ line \in Int
    <3> HIDE DEF c
    <3> QED
      BY <1>0, <2>5, <2>6
  <2>8. column = (l.pos + 1) - LastBreak(text, l.pos) /\ column \in Int
    <3> HIDE DEF c
    <3> QED
      BY <1>0, <2>5, <2>6
  <2> HIDE DEF line, column
  <2>9. m \in Placed(text) /\ m.pos = l.pos + 1
    BY <1>0, <2>1, <2>7, <2>8 DEF Placed
  <2> HIDE DEF m
  <2> QED
    BY <1>0, <2>4, <2>9
<1> QED
  BY <1>1, <1>2

(* So do several calls of it.                                              *)
LEMMA StepsPlaced ==
    ASSUME NEW S, NEW text \in Seq(S), NEW l \in Placed(text), NEW n \in Nat
    PROVE  /\ Steps(l, n) \in Placed(text) /\ Steps(l, n).pos >= l.pos
           /\ ~is_eof(l) /\ n > 0 => Steps(l, n).pos > l.pos
<1> DEFINE Is(g) == g = [i \in 0..n |-> IF i = 0 THEN l ELSE step(g[i - 1])]
           at == CHOOSE g : Is(g)
           Right(i) == /\ at[i] \in Placed(text) /\ at[i].pos >= l.pos
                       /\ ~is_eof(l) /\ i > 0 => at[i].pos > l.pos
           Bad == {i \in 0..n : ~Right(i)}
<1>1. Steps(l, n) = at[n]
  BY DEF Steps
<1>2. Is(at)
  <2>1. \E g : Is(g)
    BY StepsRun
  <2> HIDE DEF Is
  <2> QED
    BY <2>1
<1> HIDE DEF at
<1>3. at[0] = l /\ \A i \in 1..n : at[i] = step(at[i - 1])
  BY <1>2
<1>4. l.pos \in Int
  BY PlacedFacts
<1>5. Right(0)
  BY <1>3, <1>4
<1>6. ASSUME NEW i \in 1..n, Right(i - 1) PROVE Right(i)
  <2>1. at[i - 1] \in Placed(text) /\ at[i] = step(at[i - 1])
    BY <1>3, <1>6
  <2>2. /\ at[i] \in Placed(text) /\ at[i].pos >= at[i - 1].pos
        /\ ~is_eof(at[i - 1]) => at[i].pos > at[i - 1].pos
    BY <2>1, StepPlaced
  <2>3. at[i].pos \in Int /\ at[i - 1].pos \in Int
    BY <2>1, <2>2, PlacedFacts
  <2>4. CASE i = 1
    BY <1>3, <1>4, <2>2, <2>3, <2>4
  <2>5. CASE i # 1
    BY <1>4, <1>6, <2>2, <2>3, <2>5
  <2> QED
    BY <2>4, <2>5
<1>7. Bad = {}
  <2> SUFFICES ASSUME Bad # {} PROVE FALSE
    OBVIOUS
  <2> HIDE DEF Right
  <2>1. PICK m \in Bad : \A k \in Bad : m <= k
    <3>1. Bad \in SUBSET Nat
      OBVIOUS
    <3> QED
      BY <3>1, NatMin
  <2>2. m \in 1..n /\ ~Right(m)
    BY <1>5, <2>1
  <2>3. Right(m - 1)
    BY <2>1, <2>2
  <2> QED
    BY <1>6, <2>2, <2>3
<1>8. Right(n)
  <2> HIDE DEF Right
  <2> QED
    BY <1>7
<1> QED
  BY <1>1, <1>8

(* So does a loop of it, which moves on unless it stops at once.           *)
LEMMA GotoPlaced ==
    ASSUME NEW S, NEW text \in Seq(S), NEW l \in Placed(text), NEW stops \in SUBSET Nat
    PROVE  /\ Goto(l, stops) \in Placed(text) /\ Goto(l, stops).pos >= l.pos
           /\ ~is_eof(l) /\ 0 \notin stops => Goto(l, stops).pos > l.pos
<1> DEFINE left == Len(l.input) + 1 - l.pos
           all == stops \cup {left}
<1>1. left \in Nat /\ (~is_eof(l) => left # 0)
  BY PlacedFacts
<1>2. PICK n \in all : \A m \in all : n <= m
  <2>1. all \in SUBSET Nat
    BY <1>1
  <2> QED
    BY <2>1, NatMin
<1>3. Nearest(all) \in all
  <2> HIDE DEF all
  <2> QED
    BY <1>2 DEF Nearest
<1>4. Nearest(all) \in Nat
  BY <1>1, <1>3
<1>5. ~is_eof(l) /\ 0 \notin stops => Nearest(all) > 0
  <2> SUFFICES ASSUME ~is_eof(l), 0 \notin stops PROVE Nearest(all) # 0
    BY <1>4
  <2> HIDE DEF left
  <2> QED
    BY <1>1, <1>3
<1>6. Goto(l, stops) = Steps(l, Nearest(all))
  BY DEF Goto
<1> HIDE DEF all
<1> QED
  BY <1>4, <1>5, <1>6, StepsPlaced

LEMMA SkipPlaced ==
    ASSUME NEW S, NEW text \in Seq(S), NEW l \in Placed(text), NEW T
    PROVE  /\ SkipWhile(l, T) \in Placed(text) /\ SkipWhile(l, T).pos >= l.pos
           /\ ~is_eof(l) /\ char(l, 0) \in T => SkipWhile(l, T).pos > l.pos
<1> DEFINE stops == {k \in Ahead(l) : char(l, k) \notin T}
<1>1. stops \in SUBSET Nat
  BY PlacedFacts DEF Ahead
<1>2. char(l, 0) \in T => 0 \notin stops
  OBVIOUS
<1>3. SkipWhile(l, T) = Goto(l, stops)
  BY DEF SkipWhile
<1> HIDE DEF stops
<1> QED
  BY <1>1, <1>2, <1>3, GotoPlaced

--------------------------------------------------------------------------------
(* A routine of the lexer that starts at l returns a well placed state,    *)
(* and one further on unless it is an error.                               *)
Lexes(text, l, r) == r.lx \in Placed(text) /\ r.lx.pos >= l.pos /\ (r.ok => r.lx.pos > l.pos)

LEMMA LexedIs ==
    ASSUME NEW text, NEW l, NEW m \in Placed(text), m.pos >= l.pos, m.pos > l.pos, NEW kind, NEW t
    PROVE  Lexes(text, l, Lexed(m, kind, t))
<1> DEFINE r == Lexed(m, kind, t)
<1>1. r.lx = m
  BY DEF Lexed
<1> HIDE DEF r
<1>2. Lexes(text, l, r)
  BY <1>1, Zenon DEF Lexes
<1> QED
  BY <1>2 DEF r

LEMMA ErrorIs ==
    ASSUME NEW text, NEW l, NEW m \in Placed(text), m.pos >= l.pos
    PROVE  Lexes(text, l, LexError(m))
<1> DEFINE r == LexError(m)
<1>1. r.lx = m /\ ~r.ok
  BY DEF LexError
<1> HIDE DEF r
<1>2. Lexes(text, l, r)
  BY <1>1, Zenon DEF Lexes
<1> QED
  BY <1>2 DEF r

LEMMA LineCommentLexes ==
    ASSUME NEW S, NEW text \in Seq(S), NEW l \in Placed(text), ~is_eof(l)
    PROVE  Lexes(text, l, lex_single_line_comment(l))
<1> DEFINE body == Steps(l, 2)
           stops == {k \in Ahead(body) : char(body, k) = "\n"}
           end == Goto(body, stops)
<1>1. body \in Placed(text) /\ body.pos > l.pos
  BY StepsPlaced
<1> HIDE DEF body
<1>2. stops \in SUBSET Nat
  BY <1>1, PlacedFacts DEF Ahead
<1>3. end \in Placed(text) /\ end.pos >= body.pos
  <2> HIDE DEF stops
  <2> QED
    BY <1>1, <1>2, GotoPlaced
<1>4. lex_single_line_comment(l) = Lexed(end, "comment", Slice(body, end))
  BY DEF lex_single_line_comment, body
<1> HIDE DEF end
<1>5. l.pos \in Int /\ body.pos \in Int /\ end.pos \in Int
  BY <1>1, <1>3, PlacedFacts
<1>6. end.pos >= l.pos /\ end.pos > l.pos
  BY <1>1, <1>3, <1>5
<1> QED
  BY <1>3, <1>4, <1>6, LexedIs

LEMMA BlockCommentLexes ==
    ASSUME NEW S, NEW text \in Seq(S), NEW l \in Placed(text), ~is_eof(l)
    PROVE  Lexes(text, l, lex_multi_line_comment(l))
<1> DEFINE body == Steps(l, 2)
           stops == {k \in Ahead(body) : char(body, k) = "*" /\ char(body, k + 1) = "/"}
           end == Goto(body, stops)
           r == lex_multi_line_comment(l)
<1>1. body \in Placed(text) /\ body.pos > l.pos
  BY StepsPlaced
<1> HIDE DEF body
<1>2. stops \in SUBSET Nat
  BY <1>1, PlacedFacts DEF Ahead
<1>3. end \in Placed(text) /\ end.pos >= body.pos
  <2> HIDE DEF stops
  <2> QED
    BY <1>1, <1>2, GotoPlaced
<1>4. r = IF is_eof(end) THEN LexError(end) ELSE Lexed(Steps(end, 2), "comment", Slice(body, end))
  BY DEF lex_multi_line_comment, body
<1> HIDE DEF end, r
<1>5. Steps(end, 2) \in Placed(text) /\ Steps(end, 2).pos >= end.pos
  BY <1>3, StepsPlaced
<1>6. l.pos \in Int /\ body.pos \in Int /\ end.pos \in Int /\ Steps(end, 2).pos \in Int
  BY <1>1, <1>3, <1>5, PlacedFacts
<1>7. Lexes(text, l, r)
  <2>0. /\ end.pos >= l.pos
        /\ Steps(end, 2).pos >= l.pos /\ Steps(end, 2).pos > l.pos
    BY <1>1, <1>3, <1>5, <1>6
  <2>1. CASE is_eof(end)
    BY <1>3, <1>4, <2>0, <2>1, ErrorIs
  <2>2. CASE ~is_eof(end)
    BY <1>4, <1>5, <2>0, <2>2, LexedIs
  <2> QED
    BY <2>1, <2>2
<1> QED
  BY <1>7 DEF r

(* The loop of lex_string moves on and stays well placed.                  *)
LEMMA StringTurnPlaced ==
    ASSUME NEW S, NEW text \in Seq(S), NEW b, b.lx \in Placed(text)
    PROVE  StringTurn(b).lx \in Placed(text) /\ StringTurn(b).lx.pos >= b.lx.pos
<1> DEFINE c == StringTurn(b)
<1>1. b.lx.pos \in Int
  BY PlacedFacts
<1>2. step(b.lx) \in Placed(text) /\ step(b.lx).pos >= b.lx.pos
  BY StepPlaced
<1>3. Steps(b.lx, 2) \in Placed(text) /\ Steps(b.lx, 2).pos >= b.lx.pos
  BY StepsPlaced
<1>4. c.lx = b.lx \/ c.lx = step(b.lx) \/ c.lx = Steps(b.lx, 2)
  BY DEF StringTurn
<1> HIDE DEF c
<1>5. c.lx \in Placed(text) /\ c.lx.pos >= b.lx.pos
  BY <1>1, <1>2, <1>3, <1>4
<1> QED
  BY <1>5 DEF c

LEMMA StringLexes ==
    ASSUME NEW S, NEW text \in Seq(S), NEW l \in Placed(text), ~is_eof(l)
    PROVE  Lexes(text, l, lex_string(l))
<1> DEFINE n == Len(l.input) + 1 - l.pos
           b == [lx |-> step(l), text |-> <<>>, closed |-> FALSE]
           Is(g) == g = [i \in 0..n |-> IF i = 0 THEN b ELSE StringTurn(g[i - 1])]
           body == CHOOSE g : Is(g)
           end == body[n]
           Right(c) == c.lx \in Placed(text) /\ c.lx.pos > l.pos
           Bad == {i \in 0..n : ~Right(body[i])}
<1>0. n \in Nat /\ l.pos \in Int
  BY PlacedFacts
<1>1. lex_string(l) = IF end.closed THEN Lexed(end.lx, "string", end.text) ELSE LexError(end.lx)
  BY DEF lex_string, Ahead
<1>2. Is(body)
  <2>1. \E g : Is(g)
    <3> HIDE DEF n, b
    <3> QED
      BY <1>0, StringRun
  <2> HIDE DEF Is
  <2> QED
    BY <2>1
<1> HIDE DEF body
<1>3. body[0] = b /\ \A i \in 1..n : body[i] = StringTurn(body[i - 1])
  <2> HIDE DEF n, b
  <2> QED
    BY <1>0, <1>2
<1>4. Right(body[0])
  <2>1. step(l) \in Placed(text) /\ step(l).pos > l.pos
    BY StepPlaced
  <2> QED
    BY <1>3, <2>1
<1>5. ASSUME NEW i \in 1..n, Right(body[i - 1]) PROVE Right(body[i])
  <2>1. body[i] = StringTurn(body[i - 1])
    BY <1>3
  <2>2. /\ body[i].lx \in Placed(text) /\ body[i].lx.pos >= body[i - 1].lx.pos
    BY <1>5, <2>1, StringTurnPlaced
  <2>3. body[i].lx.pos \in Int /\ body[i - 1].lx.pos \in Int
    BY <1>5, <2>2, PlacedFacts
  <2> QED
    BY <1>0, <1>5, <2>2, <2>3
<1>6. Bad = {}
  <2> SUFFICES ASSUME Bad # {} PROVE FALSE
    OBVIOUS
  <2> HIDE DEF Right, n
  <2>1. PICK m \in Bad : \A k \in Bad : m <= k
    <3>1. Bad \in SUBSET Nat
      BY <1>0
    <3> QED
      BY <3>1, NatMin
  <2>2. m \in 1..n /\ ~Right(body[m])
    BY <1>0, <1>4, <2>1
  <2>3. Right(body[m - 1])
    BY <1>0, <2>1, <2>2
  <2> QED
    BY <1>5, <2>2, <2>3
<1>7. Right(end)
  <2> HIDE DEF Right, n
  <2> QED
    BY <1>0, <1>6
<1> HIDE DEF end
<1>8. end.lx.pos \in Int
  BY <1>7, PlacedFacts
<1>9. end.lx \in Placed(text) /\ end.lx.pos >= l.pos /\ end.lx.pos > l.pos
  BY <1>0, <1>7, <1>8
<1>10. Lexes(text, l, Lexed(end.lx, "string", end.text)) /\ Lexes(text, l, LexError(end.lx))
  BY <1>9, LexedIs, ErrorIs
<1> QED
  BY <1>1, <1>10

LEMMA NumberLexes ==
    ASSUME NEW S, NEW text \in Seq(S), NEW l \in Placed(text), ~is_eof(l), char(l, 0) \in Digits
    PROVE  Lexes(text, l, lex_number(l))
<1> DEFINE int  == SkipWhile(l, Digits)
           dot  == char(int, 0) = "." /\ char(int, 1) \in Digits
           frac == IF dot THEN SkipWhile(step(int), Digits) ELSE int
           exp  == char(frac, 0) \in {"e", "E"}
           sign == IF char(step(frac), 0) \in {"+", "-"} THEN Steps(frac, 2) ELSE step(frac)
           end  == IF exp THEN SkipWhile(sign, Digits) ELSE frac
           r    == lex_number(l)
<1>0. r = IF exp /\ char(sign, 0) \notin Digits THEN LexError(sign)
          ELSE IF dot \/ exp THEN Lexed(end, "float", Slice(l, end))
          ELSE IF IntegerOf(Slice(l, end)) > MaxLiteral THEN LexError(end)
          ELSE Lexed(end, "int", IntegerOf(Slice(l, end)))
  BY DEF lex_number
<1>1. int \in Placed(text) /\ int.pos > l.pos
  BY SkipPlaced
<1> HIDE DEF int
<1>2. step(int) \in Placed(text) /\ step(int).pos >= int.pos
  BY <1>1, StepPlaced
<1>3. /\ SkipWhile(step(int), Digits) \in Placed(text)
      /\ SkipWhile(step(int), Digits).pos >= step(int).pos
  BY <1>2, SkipPlaced
<1>4. l.pos \in Int /\ int.pos \in Int /\ step(int).pos \in Int /\ SkipWhile(step(int), Digits).pos \in Int
  BY <1>1, <1>2, <1>3, PlacedFacts
<1>5. frac \in Placed(text) /\ frac.pos > l.pos
  <2> HIDE DEF dot
  <2> QED
    BY <1>1, <1>2, <1>3, <1>4
<1> HIDE DEF frac, dot
<1>6. step(frac) \in Placed(text) /\ step(frac).pos >= frac.pos
  BY <1>5, StepPlaced
<1>7. Steps(frac, 2) \in Placed(text) /\ Steps(frac, 2).pos >= frac.pos
  BY <1>5, StepsPlaced
<1>8. frac.pos \in Int /\ step(frac).pos \in Int /\ Steps(frac, 2).pos \in Int
  BY <1>5, <1>6, <1>7, PlacedFacts
<1>9. sign \in Placed(text) /\ sign.pos > l.pos
  BY <1>4, <1>5, <1>6, <1>7, <1>8
<1> HIDE DEF sign
<1>10. SkipWhile(sign, Digits) \in Placed(text) /\ SkipWhile(sign, Digits).pos >= sign.pos
  BY <1>9, SkipPlaced
<1>11. sign.pos \in Int /\ SkipWhile(sign, Digits).pos \in Int
  BY <1>9, <1>10, PlacedFacts
<1>12. end \in Placed(text) /\ end.pos > l.pos
  <2> HIDE DEF exp
  <2> QED
    BY <1>4, <1>5, <1>8, <1>9, <1>10, <1>11
<1> HIDE DEF end, exp, r
<1>13. end.pos \in Int
  BY <1>12, PlacedFacts
<1>14. \/ \E kind, t : r = Lexed(end, kind, t)
       \/ r = LexError(end) \/ r = LexError(sign)
  BY <1>0
<1>15. Lexes(text, l, r)
  <2>1. end.pos >= l.pos /\ sign.pos >= l.pos
    BY <1>4, <1>9, <1>11, <1>12, <1>13
  <2>2. \A kind, t : Lexes(text, l, Lexed(end, kind, t))
    BY <1>12, <2>1, LexedIs
  <2>3. Lexes(text, l, LexError(end)) /\ Lexes(text, l, LexError(sign))
    BY <1>9, <1>12, <2>1, ErrorIs
  <2> QED
    BY <1>14, <2>2, <2>3
<1> QED
  BY <1>15 DEF r

LEMMA IdentifierLexes ==
    ASSUME NEW S, NEW text \in Seq(S), NEW l \in Placed(text), ~is_eof(l), char(l, 0) \in Letters
    PROVE  Lexes(text, l, lex_identifier(l))
<1>1. Word(l) \in Placed(text) /\ Word(l).pos > l.pos
  BY SkipPlaced DEF Word
<1>2. l.pos \in Int /\ Word(l).pos \in Int
  BY <1>1, PlacedFacts
<1>3. \E kind, t : lex_identifier(l) = Lexed(Word(l), kind, t)
  BY DEF lex_identifier
<1>4. Word(l).pos >= l.pos
  BY <1>1, <1>2
<1> QED
  BY <1>1, <1>3, <1>4, LexedIs

LEMMA ParameterLexes ==
    ASSUME NEW S, NEW text \in Seq(S), NEW l \in Placed(text), ~is_eof(l)
    PROVE  Lexes(text, l, lex_parameter(l))
<1>1. step(l) \in Placed(text) /\ step(l).pos > l.pos
  BY StepPlaced
<1>2. Word(step(l)) \in Placed(text) /\ Word(step(l)).pos >= step(l).pos
  BY <1>1, SkipPlaced DEF Word
<1>3. l.pos \in Int /\ step(l).pos \in Int /\ Word(step(l)).pos \in Int
  BY <1>1, <1>2, PlacedFacts
<1>4. \/ lex_parameter(l) = LexError(step(l))
      \/ \E kind, t : lex_parameter(l) = Lexed(Word(step(l)), kind, t)
  BY DEF lex_parameter
<1>5. step(l).pos >= l.pos /\ Word(step(l)).pos >= l.pos /\ Word(step(l)).pos > l.pos
  BY <1>1, <1>2, <1>3
<1> QED
  BY <1>1, <1>2, <1>4, <1>5, LexedIs, ErrorIs

LEMMA OperatorLexes ==
    ASSUME NEW S, NEW text \in Seq(S), NEW l \in Placed(text), ~is_eof(l)
    PROVE  Lexes(text, l, lex_operator_or_delimiter(l))
<1>1. step(l) \in Placed(text) /\ step(l).pos > l.pos
  BY StepPlaced
<1>2. Steps(l, 2) \in Placed(text) /\ Steps(l, 2).pos > l.pos
  BY StepsPlaced
<1>3. l.pos \in Int /\ step(l).pos \in Int /\ Steps(l, 2).pos \in Int
  BY <1>1, <1>2, PlacedFacts
<1>4. \/ lex_operator_or_delimiter(l) = LexError(step(l))
      \/ \E kind, t : lex_operator_or_delimiter(l) = Lexed(step(l), kind, t)
      \/ \E kind, t : lex_operator_or_delimiter(l) = Lexed(Steps(l, 2), kind, t)
  BY DEF lex_operator_or_delimiter
<1>5. step(l).pos >= l.pos /\ Steps(l, 2).pos >= l.pos
  BY <1>1, <1>2, <1>3
<1> QED
  BY <1>1, <1>2, <1>4, <1>5, LexedIs, ErrorIs

(* next_token keeps the lexer well placed and moves it past a token that   *)
(* is not the end of the text.                                             *)
LEMMA NextTokenLexes ==
    ASSUME NEW S, NEW text \in Seq(S), NEW l \in Placed(text)
    PROVE  LET w == skip_whitespace(l)
               r == next_token(l)
           IN  /\ w \in Placed(text) /\ w.pos >= l.pos
               /\ r.lx \in Placed(text) /\ r.lx.pos >= w.pos
               /\ r.ok /\ r.token[1] # "eof" => r.lx.pos > w.pos
<1> DEFINE w == skip_whitespace(l)
<1>1. w \in Placed(text) /\ w.pos >= l.pos
  BY SkipPlaced DEF skip_whitespace
<1> HIDE DEF w
<1>2. CASE is_eof(w)
  <2>1. TokenAt(w) = Lexed(w, "eof", <<>>)
    BY <1>2 DEF TokenAt
  <2>2. w.pos \in Int
    BY <1>1, PlacedFacts
  <2> QED
    BY <1>1, <2>1, <2>2 DEF next_token, w, Lexed
<1>3. CASE ~is_eof(w)
  <2>1. Lexes(text, w, TokenAt(w))
    <3>1. /\ Lexes(text, w, lex_single_line_comment(w)) /\ Lexes(text, w, lex_multi_line_comment(w))
          /\ Lexes(text, w, lex_string(w)) /\ Lexes(text, w, lex_parameter(w))
          /\ Lexes(text, w, lex_operator_or_delimiter(w))
      BY <1>1, <1>3, LineCommentLexes, BlockCommentLexes, StringLexes, ParameterLexes, OperatorLexes
    <3>2. char(w, 0) \in Digits => Lexes(text, w, lex_number(w))
      BY <1>1, <1>3, NumberLexes
    <3>3. char(w, 0) \in Letters => Lexes(text, w, lex_identifier(w))
      BY <1>1, <1>3, IdentifierLexes
    <3> QED
      BY <1>3, <3>1, <3>2, <3>3 DEF TokenAt
  <2> QED
    BY <1>1, <2>1 DEF next_token, w, Lexes
<1> QED
  BY <1>2, <1>3

--------------------------------------------------------------------------------
(* The tokens of a turn: well placed, in order, before the position the    *)
(* lexer has reached, with the end of the text as the last one or not yet  *)
(* among them.                                                             *)
Offset(tokens, i) == tokens[i].span.offset
Ends(tokens, n) == \A i \in 1..Len(tokens) : tokens[i].token[1] = "eof" => i = n
TurnRight(text, acc, n) ==
    /\ acc.lx \in Placed(text)
    /\ acc.state \in {"lex", "ok", "error"}
    /\ \E T : acc.tokens \in Seq(T)
    /\ SpansRight(acc.tokens, text)
    /\ \A i \in 1..Len(acc.tokens) : Offset(acc.tokens, i) \in 0..Len(text)
    /\ acc.state = "lex" => /\ acc.lx.pos > n
                            /\ Ends(acc.tokens, 0)
                            /\ \A i \in 1..Len(acc.tokens) : Offset(acc.tokens, i) < acc.lx.pos - 1
    /\ acc.state = "ok" => /\ Len(acc.tokens) > 0
                           /\ acc.tokens[Len(acc.tokens)].token[1] = "eof"
                           /\ Ends(acc.tokens, Len(acc.tokens))

(* A span taken in a well placed state is right.                           *)
LEMMA SpanIs ==
    ASSUME NEW S, NEW text \in Seq(S), NEW w \in Placed(text)
    PROVE  /\ SpanRight(current_span(w), text) /\ current_span(w).offset = w.pos - 1
<1>1. /\ w.pos \in Int /\ w.line = Cardinality(Breaks(text, w.pos - 1)) + 1
      /\ w.column = w.pos - LastBreak(text, w.pos - 1) /\ w.pos - 1 \in Nat
  BY PlacedFacts
<1>2. LastBreak(text, w.pos - 1) \in Int
  BY <1>1, BreakFacts
<1>3. /\ current_span(w).line = w.line /\ current_span(w).column = w.column
      /\ current_span(w).offset = w.pos - 1
  BY DEF current_span
<1>4. w.column = (w.pos - 1) - LastBreak(text, w.pos - 1) + 1
  BY <1>1, <1>2
<1> QED
  BY <1>1, <1>3, <1>4 DEF SpanRight

(* A turn of tokenize preserves it.                                        *)
LEMMA TurnKeeps ==
    ASSUME NEW S, NEW text \in Seq(S), NEW acc, NEW n \in Nat, TurnRight(text, acc, n)
    PROVE  TurnRight(text, TokenTurn(acc), n + 1)
<1> DEFINE w == skip_whitespace(acc.lx)
           t == next_token(acc.lx)
           st == [token |-> t.token, span |-> current_span(w)]
           ts == acc.tokens
           us == Append(ts, st)
           new == TokenTurn(acc)
<1>0. acc.lx \in Placed(text) /\ acc.lx.pos \in Int /\ Len(text) \in Nat
  BY PlacedFacts DEF TurnRight
<1>1. /\ w \in Placed(text) /\ w.pos >= acc.lx.pos
      /\ t.lx \in Placed(text) /\ t.lx.pos >= w.pos
      /\ t.ok /\ t.token[1] # "eof" => t.lx.pos > w.pos
  BY <1>0, NextTokenLexes
<1>2. new = IF acc.state # "lex" THEN acc
            ELSE IF ~t.ok THEN [lx |-> t.lx, tokens |-> ts, state |-> "error"]
            ELSE [lx |-> t.lx, tokens |-> us, state |-> IF t.token[1] = "eof" THEN "ok" ELSE "lex"]
  BY DEF TokenTurn
<1>3. st.token = t.token /\ st.span = current_span(w)
  OBVIOUS
<1>4. SpanRight(st.span, text) /\ st.span.offset = w.pos - 1
  BY <1>1, <1>3, SpanIs
<1>5. w.pos \in 1..(Len(text) + 1) /\ t.lx.pos \in Int
  BY <1>1, PlacedFacts
<1> HIDE DEF w, t, st, new
<1>6. CASE acc.state # "lex"
  <2>1. TurnRight(text, acc, n + 1)
    BY <1>6 DEF TurnRight
  <2>2. new = acc
    BY <1>2, <1>6
  <2> QED
    BY <2>1, <2>2 DEF new
<1>7. CASE acc.state = "lex" /\ ~t.ok
  <2>1. new.lx = t.lx /\ new.tokens = ts /\ new.state = "error"
    BY <1>2, <1>7
  <2> QED
    BY <1>1, <2>1 DEF TurnRight, new
<1>8. CASE acc.state = "lex" /\ t.ok
  <2>1. /\ new.lx = t.lx /\ new.tokens = us
        /\ new.state = IF t.token[1] = "eof" THEN "ok" ELSE "lex"
    BY <1>2, <1>8
  <2>2. PICK T : ts \in Seq(T)
    BY DEF TurnRight
  <2>3. ts \in Seq(T \cup {st})
    BY <2>2
  <2>4. /\ us \in Seq(T \cup {st}) /\ Len(us) = Len(ts) + 1 /\ us[Len(us)] = st /\ Len(ts) \in Nat
        /\ \A i \in 1..Len(ts) : us[i] = ts[i]
    BY <2>3
  <2> HIDE DEF us
  <2>5. acc.lx.pos > n /\ \A i \in 1..Len(ts) : Offset(ts, i) < acc.lx.pos - 1
    BY <1>8 DEF TurnRight
  <2>6. \A i \in 1..Len(ts) : Offset(ts, i) \in 0..Len(text) /\ ts[i].token[1] # "eof"
    BY <1>8 DEF TurnRight, Ends
  <2>7. \A i \in 1..Len(us) : i \in 1..Len(ts) \/ i = Len(us)
    BY <2>4
  <2>8. Offset(us, Len(us)) = w.pos - 1 /\ \A i \in 1..Len(ts) : Offset(us, i) = Offset(ts, i)
    BY <1>4, <2>4 DEF Offset
  <2>9. \A i \in 1..Len(us) : Offset(us, i) \in 0..Len(text)
    BY <1>5, <2>6, <2>7, <2>8
  <2>10. SpansRight(us, text)
    <3> SUFFICES ASSUME NEW i \in 1..Len(us)
                 PROVE  /\ SpanRight(us[i].span, text)
                        /\ i > 1 => us[i].span.offset > us[i - 1].span.offset
      BY DEF SpansRight
    <3>1. CASE i \in 1..Len(ts)
      <4>1. \A j \in 1..Len(ts) : us[j] = ts[j]
        BY <2>4, Zenon
      <4>2. Len(ts) \in Nat
        BY <2>4, Zenon
      <4>3. i > 1 => i - 1 \in 1..Len(ts)
        BY <3>1, <4>2
      <4>4. us[i] = ts[i] /\ (i > 1 => us[i - 1] = ts[i - 1])
        BY <3>1, <4>1, <4>3, Zenon
      <4>5. SpansRight(ts, text)
        BY <1>8, Zenon DEF TurnRight
      <4>6. SpanRight(ts[i].span, text) /\ (i > 1 => ts[i].span.offset > ts[i - 1].span.offset)
        BY <3>1, <4>5, Zenon DEF SpansRight
      <4> QED
        BY <4>4, <4>6, Zenon
    <3>2. CASE i = Len(us)
      <4>1. SpanRight(us[i].span, text)
        BY <1>4, <2>4, <3>2
      <4>2. ASSUME i > 1 PROVE us[i].span.offset > us[i - 1].span.offset
        <5>1. i - 1 \in 1..Len(ts)
          BY <2>4, <3>2, <4>2
        <5>2. Offset(us, i - 1) < acc.lx.pos - 1 /\ Offset(us, i - 1) \in Int
          BY <2>5, <2>6, <2>8, <5>1
        <5>3. Offset(us, i) = w.pos - 1
          BY <2>8, <3>2
        <5>4. Offset(us, i) > Offset(us, i - 1)
          BY <1>0, <1>1, <1>5, <5>2, <5>3
        <5> QED
          BY <5>4 DEF Offset
      <4> QED
        BY <4>1, <4>2
    <3> QED
      BY <2>7, <3>1, <3>2
  <2>11. Ends(us, Len(us))
    BY <2>4, <2>6, <2>7 DEF Ends
  <2>12. us[Len(us)].token[1] = t.token[1] /\ Len(us) > 0
    BY <1>3, <2>4
  <2>13. ASSUME t.token[1] # "eof"
         PROVE  /\ t.lx.pos > n + 1
                /\ Ends(us, 0)
                /\ \A i \in 1..Len(us) : Offset(us, i) < t.lx.pos - 1
    <3>1. t.lx.pos > w.pos
      BY <1>1, <1>8, <2>13
    <3>2. t.lx.pos > n + 1
      BY <1>0, <1>1, <1>5, <2>5, <3>1
    <3>3. Ends(us, 0)
      BY <2>4, <2>6, <2>7, <2>12, <2>13 DEF Ends
    <3>4. \A i \in 1..Len(us) : Offset(us, i) < t.lx.pos - 1
      <4> TAKE i \in 1..Len(us)
      <4>1. CASE i \in 1..Len(ts)
        <5>1. Offset(us, i) < acc.lx.pos - 1 /\ Offset(us, i) \in Int
          BY <2>5, <2>6, <2>8, <4>1
        <5> QED
          BY <1>0, <1>1, <1>5, <3>1, <5>1
      <4>2. CASE i = Len(us)
        BY <1>5, <2>8, <3>1, <4>2
      <4> QED
        BY <2>7, <4>1, <4>2
    <3> QED
      BY <3>2, <3>3, <3>4
  <2>14. new.state \in {"lex", "ok", "error"} /\ (new.state = "lex" => t.token[1] # "eof")
         /\ (new.state = "ok" => t.token[1] = "eof")
    BY <2>1
  <2>15. \E U : us \in Seq(U)
    BY <2>4
  <2> QED
    BY <1>1, <2>1, <2>9, <2>10, <2>11, <2>12, <2>13, <2>14, <2>15 DEF TurnRight, new
<1> QED
  BY <1>6, <1>7, <1>8 DEF new

(* For every text, the loop of tokenize ends within a turn per character   *)
(* and one more, and the spans of its tokens are exact and in the order of *)
(* the text; when it succeeds the end of the text is the last token and no *)
(* other (Lexer::tokenize, advance, current_span).                         *)
THEOREM TokenizeEnds ==
    ASSUME NEW S, NEW text \in Seq(S)
    PROVE  LET r == tokenize(text) IN
           /\ r.state \in {"ok", "error"}
           /\ SpansRight(r.tokens, text)
           /\ r.state = "ok" =>
                /\ Len(r.tokens) > 0
                /\ \A i \in 1..Len(r.tokens) : r.tokens[i].token[1] = "eof" <=> i = Len(r.tokens)
<1> DEFINE n == Len(text) + 1
           b == [lx |-> NewLexer(text), tokens |-> <<>>, state |-> "lex"]
           Is(g) == g = [i \in 0..n |-> IF i = 0 THEN b ELSE TokenTurn(g[i - 1])]
           turn == CHOOSE g : Is(g)
           Right(i) == TurnRight(text, turn[i], i)
           Bad == {i \in 0..n : ~Right(i)}
           r == tokenize(text)
<1>0. n \in Nat
  OBVIOUS
<1>1. r = turn[n]
  BY DEF tokenize
<1>2. Is(turn)
  <2>1. \E g : Is(g)
    <3> HIDE DEF n, b
    <3> QED
      BY <1>0, TokensRun
  <2> HIDE DEF Is
  <2> QED
    BY <2>1
<1> HIDE DEF turn
<1>3. turn[0] = b /\ \A i \in 1..n : turn[i] = TokenTurn(turn[i - 1])
  <2> HIDE DEF n, b
  <2> QED
    BY <1>0, <1>2
<1>4. Right(0)
  <2>1. NewLexer(text) \in Placed(text) /\ NewLexer(text).pos = 1
    <3>1. Breaks(text, 0) = {}
      BY DEF Breaks
    <3>2. Cardinality(Breaks(text, 0)) = 0
      BY <3>1, FS_EmptySet
    <3>3. LastBreak(text, 0) = 0
      BY BreakFacts
    <3> QED
      BY <3>2, <3>3 DEF NewLexer, Placed
  <2>2. b.lx = NewLexer(text) /\ b.tokens = <<>> /\ b.state = "lex"
    OBVIOUS
  <2> HIDE DEF b
  <2>3. b.tokens \in Seq(S) /\ Len(b.tokens) = 0
    BY <2>2
  <2> QED
    BY <1>3, <2>1, <2>2, <2>3 DEF TurnRight, SpansRight, Ends
<1>5. ASSUME NEW i \in 1..n, Right(i - 1) PROVE Right(i)
  <2>1. i - 1 \in Nat /\ (i - 1) + 1 = i /\ turn[i] = TokenTurn(turn[i - 1])
    BY <1>0, <1>3
  <2> QED
    BY <1>5, <2>1, TurnKeeps
<1>6. Bad = {}
  <2> SUFFICES ASSUME Bad # {} PROVE FALSE
    OBVIOUS
  <2> HIDE DEF Right, n
  <2>1. PICK m \in Bad : \A k \in Bad : m <= k
    <3>1. Bad \in SUBSET Nat
      BY <1>0
    <3> QED
      BY <3>1, NatMin
  <2>2. m \in 1..n /\ ~Right(m)
    BY <1>0, <1>4, <2>1
  <2>3. Right(m - 1)
    BY <1>0, <2>1, <2>2
  <2> QED
    BY <1>5, <2>2, <2>3
<1>7. Right(n)
  <2> HIDE DEF Right, n
  <2> QED
    BY <1>0, <1>6
<1>8. TurnRight(text, r, n)
  BY <1>1, <1>7
<1> HIDE DEF r
<1>9. r.lx.pos \in 1..(Len(text) + 1)
  BY <1>8, PlacedFacts DEF TurnRight
<1>10. r.state # "lex"
  BY <1>8, <1>9 DEF TurnRight
<1>11. r.state \in {"ok", "error"} /\ SpansRight(r.tokens, text)
  BY <1>8, <1>10 DEF TurnRight
<1>12. r.state = "ok" =>
         /\ Len(r.tokens) > 0
         /\ \A i \in 1..Len(r.tokens) : r.tokens[i].token[1] = "eof" <=> i = Len(r.tokens)
  BY <1>8 DEF TurnRight, Ends
<1> QED
  BY <1>11, <1>12 DEF r

--------------------------------------------------------------------------------
(* A result of total rows in chunks of size rows: the last chunk is the    *)
(* only one that reaches the end.                                          *)
LEMMA ChunkCount ==
    ASSUME NEW total \in Nat, total > 0, NEW size \in Nat, size > 0
    PROVE  LET count == (total + size - 1) \div size IN
           /\ count \in Nat /\ count > 0
           /\ count * size >= total
           /\ \A i \in 1..(count - 1) : i * size < total
<1> DEFINE count == (total + size - 1) \div size
           rest == (total + size - 1) % size
<1>1. /\ count \in Int /\ rest \in 0..(size - 1)
      /\ total + size - 1 = size * count + rest
  OBVIOUS
<1> HIDE DEF count, rest
<1>2. size * count >= total
  BY <1>1
<1>3. count > 0
  <2> SUFFICES ASSUME count <= 0 PROVE FALSE
    BY <1>1
  <2>1. size * count <= 0 /\ size * count \in Int
    BY <1>1
  <2> QED
    BY <1>2, <2>1, total > 0
<1>4. ASSUME NEW i \in 1..(count - 1) PROVE i * size < total
  <2>1. i + 1 <= count /\ i \in Nat
    BY <1>1
  <2>2. (i + 1) * size <= count * size
    BY <1>1, <2>1
  <2>3. (i + 1) * size = i * size + size /\ i * size \in Int
    BY <2>1
  <2>4. count * size = size * count /\ count * size \in Int
    BY <1>1
  <2> QED
    BY <1>1, <2>2, <2>3, <2>4
<1> QED
  BY <1>1, <1>2, <1>3, <1>4 DEF count

(* What a client has after the first i chunks.                             *)
LEMMA JoinedIs ==
    ASSUME NEW R, NEW rows \in Seq(R), Len(rows) > 0, NEW size \in Nat, size > 0,
           NEW chunks, NEW count, count = (Len(rows) + size - 1) \div size,
           Len(chunks) = count,
           \A i \in 1..count : chunks[i].rows = SubSeq(rows, (i - 1) * size + 1, Lower(i * size, Len(rows)))
    PROVE  Joined(chunks) = rows
<1> DEFINE total == Len(rows)
           Is(g) == g = [i \in 0..count |-> IF i = 0 THEN <<>> ELSE g[i - 1] \o chunks[i].rows]
           upto == CHOOSE g : Is(g)
           Right(i) == upto[i] = SubSeq(rows, 1, Lower(i * size, total))
           Bad == {i \in 0..count : ~Right(i)}
<1>0. total \in Nat /\ total > 0
  OBVIOUS
<1> HIDE DEF total
<1>1. /\ count \in Nat /\ count > 0
      /\ count * size >= total
      /\ \A i \in 1..(count - 1) : i * size < total
  BY <1>0, ChunkCount DEF total
<1>2. Joined(chunks) = upto[count]
  BY DEF Joined
<1>3. Is(upto)
  <2>1. \E g : Is(g)
    BY <1>1, JoinedRun
  <2> HIDE DEF Is
  <2> QED
    BY <2>1
<1> HIDE DEF upto
<1>4. upto[0] = <<>> /\ \A i \in 1..count : upto[i] = upto[i - 1] \o chunks[i].rows
  <2> DEFINE Put(x, i) == x \o chunks[i].rows
             none == <<>>
  <2>1. upto = [i \in 0..count |-> IF i = 0 THEN none ELSE Put(upto[i - 1], i)]
    BY <1>3
  <2> HIDE DEF Put, none
  <2>2. 0 \in 0..count /\ \A i \in 1..count : i \in 0..count /\ i # 0
    BY <1>1
  <2>3. upto[0] = none /\ \A i \in 1..count : upto[i] = Put(upto[i - 1], i)
    BY <2>1, <2>2, Zenon
  <2> QED
    BY <2>3 DEF Put, none
<1>5. Right(0)
  <2>1. Lower(0 * size, total) = 0
    BY <1>0 DEF Lower
  <2>2. SubSeq(rows, 1, 0) = <<>>
    OBVIOUS
  <2> QED
    BY <1>4, <2>1, <2>2
<1>6. ASSUME NEW i \in 1..count, Right(i - 1) PROVE Right(i)
  <2> DEFINE a == (i - 1) * size
             e == Lower(i * size, total)
  <2>1. a \in Nat /\ i * size \in Nat /\ i * size = a + size
    BY <1>1
  <2>2. a < total
    <3>1. CASE i = 1
      BY <1>0, <3>1
    <3>2. CASE i # 1
      <4>1. i - 1 \in 1..(count - 1)
        BY <1>1, <3>2
      <4> QED
        BY <1>1, <4>1
    <3> QED
      BY <3>1, <3>2
  <2> HIDE DEF a
  <2>3. e \in Nat /\ a <= e /\ e <= total /\ Lower(a, total) = a
    BY <1>0, <2>1, <2>2 DEF Lower
  <2>4. upto[i] = SubSeq(rows, 1, a) \o SubSeq(rows, a + 1, e)
    <3>1. upto[i] = upto[i - 1] \o chunks[i].rows
      BY <1>4
    <3>2. upto[i - 1] = SubSeq(rows, 1, a)
      BY <1>6, <2>3 DEF a
    <3>3. chunks[i].rows = SubSeq(rows, a + 1, e)
      BY DEF a, total
    <3> QED
      BY <3>1, <3>2, <3>3
  <2> HIDE DEF e
  <2>5. SubSeq(rows, 1, a) \o SubSeq(rows, a + 1, e) = SubSeq(rows, 1, e)
    <3>1. 1 \in 1..(Len(rows) + 1) /\ a \in (1 - 1)..Len(rows) /\ e \in a..Len(rows)
      BY <1>0, <2>1, <2>3 DEF total
    <3> QED
      BY <3>1, ConcatAdjacentSubSeq
  <2> QED
    BY <2>4, <2>5 DEF e
<1>7. Bad = {}
  <2> SUFFICES ASSUME Bad # {} PROVE FALSE
    OBVIOUS
  <2> HIDE DEF Right
  <2>1. PICK m \in Bad : \A k \in Bad : m <= k
    <3>1. Bad \in SUBSET Nat
      BY <1>1
    <3> QED
      BY <3>1, NatMin
  <2>2. m \in 1..count /\ ~Right(m)
    BY <1>1, <1>5, <2>1
  <2>3. Right(m - 1)
    BY <1>1, <2>1, <2>2
  <2> QED
    BY <1>6, <2>2, <2>3
<1>8. Right(count)
  <2> HIDE DEF Right
  <2> QED
    BY <1>1, <1>7
<1>9. Lower(count * size, total) = total
  BY <1>0, <1>1 DEF Lower
<1>10. SubSeq(rows, 1, total) = rows
  BY DEF total
<1> QED
  BY <1>2, <1>8, <1>9, <1>10

(* For every result, every counters and every chunk size, what the client  *)
(* service streams is the result: each row once and in order, no chunk     *)
(* above the limit, the counters with the last chunk only (chunk_rows).    *)
THEOREM ChunksAlwaysRight ==
    ASSUME NEW R, NEW rs, rs.rows \in Seq(R), NEW stats, NEW chunk_size \in Nat
    PROVE  ChunksRight(rs, stats, chunk_size)
<1> DEFINE rows == rs.rows
           total == Len(rows)
           size == AtLeastOne(chunk_size)
           count == (total + size - 1) \div size
           chunks == chunk_rows(rs, stats, chunk_size)
           Part(i) == SubSeq(rows, (i - 1) * size + 1, Lower(i * size, total))
           Chunk(i) == [columns |-> rs.columns, rows |-> Part(i),
                        stats |-> IF i * size >= total THEN Some(stats) ELSE None]
<1>0. total \in Nat /\ size \in Nat /\ size > 0
  BY DEF AtLeastOne
<1>1. CASE total = 0
  <2> DEFINE one == [columns |-> rs.columns, rows |-> <<>>, stats |-> Some(stats)]
  <2>1. chunks = <<one>>
    BY <1>1 DEF chunk_rows
  <2>2. one.columns = rs.columns /\ one.rows = <<>> /\ one.stats = Some(stats)
    OBVIOUS
  <2>3. rows = <<>>
    BY <1>1
  <2> HIDE DEF one, chunks
  <2>4. Len(chunks) = 1 /\ chunks[1] = one
    BY <2>1
  <2>5. Joined(chunks) = <<>>
    <3> DEFINE Is(g) == g = [i \in 0..1 |-> IF i = 0 THEN <<>> ELSE g[i - 1] \o chunks[i].rows]
               upto == CHOOSE g : Is(g)
    <3>1. Joined(chunks) = upto[1]
      BY <2>4 DEF Joined
    <3>2. Is(upto)
      <4>0. 1 \in Nat
        OBVIOUS
      <4>1. \E g : Is(g)
        BY <4>0, JoinedRun, Zenon
      <4> HIDE DEF Is
      <4> QED
        BY <4>1
    <3> HIDE DEF upto
    <3>3. upto[0] = <<>> /\ upto[1] = upto[0] \o chunks[1].rows
      BY <3>2
    <3>4. upto[1] = <<>> \o <<>>
      BY <2>2, <2>4, <3>3
    <3> QED
      BY <3>1, <3>4
  <2>6. Len(chunks[1].rows) = 0
    BY <2>2, <2>4
  <2> QED
    BY <1>0, <2>2, <2>3, <2>4, <2>5, <2>6 DEF ChunksRight, chunks
<1>2. CASE total # 0
  <2> HIDE DEF total, size
  <2>1. /\ count \in Nat /\ count > 0
        /\ count * size >= total
        /\ \A i \in 1..(count - 1) : i * size < total
    BY <1>0, <1>2, ChunkCount
  <2>2. chunks = [i \in 1..count |-> Chunk(i)]
    BY <1>2 DEF chunk_rows, total, size
  <2> HIDE DEF count, chunks
  <2>3. \A i \in 1..count : chunks[i] = Chunk(i)
    BY <2>2
  <2>4. Len(chunks) = count
    <3> HIDE DEF Chunk
    <3> QED
      BY <2>1, <2>2
  <2>5. \A i \in 1..count : /\ chunks[i].columns = rs.columns /\ chunks[i].rows = Part(i)
                             /\ chunks[i].stats = IF i * size >= total THEN Some(stats) ELSE None
    <3> TAKE i \in 1..count
    <3> DEFINE x == Part(i)
               y == IF i * size >= total THEN Some(stats) ELSE None
    <3>1. chunks[i] = [columns |-> rs.columns, rows |-> x, stats |-> y]
      BY <2>3, Zenon
    <3> HIDE DEF x, y
    <3>2. chunks[i].columns = rs.columns /\ chunks[i].rows = x /\ chunks[i].stats = y
      BY <3>1
    <3> QED
      BY <3>2, Zenon DEF x, y
  <2>6. Joined(chunks) = rows
    <3>1. \A i \in 1..count : chunks[i].rows = SubSeq(rows, (i - 1) * size + 1, Lower(i * size, Len(rows)))
      BY <2>5 DEF total
    <3>2. Len(rows) > 0 /\ count = (Len(rows) + size - 1) \div size
      BY <1>0, <1>2 DEF total, count
    <3> HIDE DEF rows
    <3> QED
      BY <1>0, <2>4, <3>1, <3>2, JoinedIs DEF rows
  <2>7. ASSUME NEW i \in 1..count
        PROVE  /\ Len(Part(i)) <= size
               /\ (IF i * size >= total THEN Some(stats) ELSE None) = IF i = count THEN Some(stats) ELSE None
    <3> DEFINE a == (i - 1) * size
               e == Lower(i * size, total)
    <3>1. a \in Nat /\ i * size \in Nat /\ i * size = a + size
      BY <1>0, <2>1
    <3>2. i * size >= total <=> i = count
      <4>1. CASE i = count
        BY <2>1, <4>1
      <4>2. CASE i # count
        <5>1. i \in 1..(count - 1)
          BY <2>1, <4>2
        <5> QED
          BY <1>0, <2>1, <3>1, <4>2, <5>1
      <4> QED
        BY <4>1, <4>2
    <3>3. e \in Nat /\ e <= a + size /\ e <= total
      <4> HIDE DEF a
      <4> QED
        BY <1>0, <3>1 DEF Lower
    <3>4. Len(SubSeq(rows, a + 1, e)) <= size
      <4> HIDE DEF a, e
      <4> QED
        BY <1>0, <3>1, <3>3 DEF total
    <3> QED
      BY <3>2, <3>4
  <2> HIDE DEF Part
  <2>8. \A i \in 1..count : /\ Len(chunks[i].rows) <= size
                             /\ chunks[i].columns = rs.columns
                             /\ chunks[i].stats = IF i = count THEN Some(stats) ELSE None
    BY <2>5, <2>7
  <2> QED
    BY <2>1, <2>4, <2>6, <2>8 DEF ChunksRight, chunks, size
<1> QED
  BY <1>1, <1>2

--------------------------------------------------------------------------------
(* Division of integers truncates: the remainder is smaller than the       *)
(* divisor and has the sign of the dividend, as the operators / and % of   *)
(* eval_binary_op have it.                                                 *)
THEOREM DivisionTruncates ==
    ASSUME NEW a \in Int, NEW b \in Int \ {0}
    PROVE  LET q == Quotient(a, b)
               r == Remainder(a, b)
           IN  /\ q \in Int /\ r \in Int /\ a = b * q + r
               /\ Abs(r) < Abs(b) /\ Abs(q) <= Abs(a)
               /\ r = 0 \/ (r < 0 <=> a < 0)
               /\ q = 0 \/ (q < 0 <=> ~(a < 0 <=> b < 0))
<1> DEFINE x == Abs(a)
           y == Abs(b)
           d == x \div y
           m == x % y
           q == Quotient(a, b)
           r == Remainder(a, b)
<1>1. x \in Nat /\ y \in Nat /\ y > 0
  BY DEF Abs
<1>2. a = (IF a < 0 THEN -x ELSE x) /\ b = IF b < 0 THEN -y ELSE y
  BY DEF Abs
<1> HIDE DEF x, y
<1>3. d \in Int /\ m \in 0..(y - 1) /\ x = y * d + m
  BY <1>1
<1> HIDE DEF d, m
<1>4. d >= 0
  <2> SUFFICES ASSUME d <= -1 PROVE FALSE
    BY <1>3
  <2>1. y * d <= -y
    BY <1>1, <1>3
  <2> QED
    BY <1>1, <1>3, <2>1
<1>5. d <= x
  <2>1. d <= y * d
    BY <1>1, <1>3, <1>4
  <2> QED
    BY <1>1, <1>3, <2>1
<1>6. q = (IF a < 0 <=> b < 0 THEN d ELSE -d) /\ q \in Int
  <2>1. q = IF (a < 0) = (b < 0) THEN d ELSE -d
    BY DEF Quotient, d, x, y
  <2> QED
    BY <1>3, <2>1
<1> HIDE DEF q
<1>7. r = a - b * q
  BY DEF Remainder, q
<1> HIDE DEF r
<1>8. b * q = IF a < 0 THEN -(y * d) ELSE y * d
  BY <1>1, <1>2, <1>3, <1>6
<1>9. y * d \in Int
  BY <1>1, <1>3
<1>10. r = IF a < 0 THEN -m ELSE m
  BY <1>1, <1>2, <1>3, <1>7, <1>8, <1>9
<1>11. Abs(r) = m /\ Abs(q) = d /\ r \in Int
  BY <1>3, <1>4, <1>6, <1>10 DEF Abs
<1>12. Abs(r) < Abs(b) /\ Abs(q) <= Abs(a)
  BY <1>1, <1>3, <1>5, <1>11 DEF x, y
<1>13. a = b * q + r
  BY <1>1, <1>2, <1>3, <1>8, <1>9, <1>10
<1>14. r = 0 \/ (r < 0 <=> a < 0)
  BY <1>3, <1>10
<1>15. q = 0 \/ (q < 0 <=> ~(a < 0 <=> b < 0))
  BY <1>3, <1>4, <1>6
<1> QED
  BY <1>6, <1>11, <1>12, <1>13, <1>14, <1>15 DEF q, r

(* The one quotient that does not fit is that of the smallest integer by   *)
(* -1; a remainder always fits.                                            *)
LEMMA QuotientFits ==
    ASSUME NEW a \in Int, NEW b \in Int, b # 0, Fits(a), Fits(b)
    PROVE  /\ ~Fits(Quotient(a, b)) <=> a = -MaxInt - 1 /\ b = -1
           /\ Fits(Remainder(a, b))
<1> DEFINE q == Quotient(a, b)
           r == Remainder(a, b)
<1>0. MaxInt \in Nat /\ a \in (-MaxInt - 1)..MaxInt /\ b \in (-MaxInt - 1)..MaxInt
  BY IntAssumption DEF Fits
<1>1. /\ q \in Int /\ r \in Int /\ a = b * q + r
      /\ Abs(r) < Abs(b) /\ Abs(q) <= Abs(a)
      /\ r = 0 \/ (r < 0 <=> a < 0)
      /\ q = 0 \/ (q < 0 <=> ~(a < 0 <=> b < 0))
  BY DivisionTruncates
<1> HIDE DEF q, r
<1>2. Fits(r)
  BY <1>0, <1>1 DEF Fits, Abs
<1>3. ASSUME a = -MaxInt - 1, b = -1 PROVE ~Fits(q)
  <2>1. r = 0
    BY <1>1, <1>3 DEF Abs
  <2>2. q = MaxInt + 1
    BY <1>0, <1>1, <1>3, <2>1
  <2> QED
    BY <1>0, <2>2 DEF Fits
<1>4. ASSUME ~Fits(q) PROVE a = -MaxInt - 1 /\ b = -1
  <2>1. Abs(a) <= MaxInt + 1 /\ Abs(q) <= MaxInt + 1 /\ Abs(a) \in Int /\ Abs(q) \in Int
    BY <1>0, <1>1 DEF Abs
  <2>2. q = MaxInt + 1
    BY <1>0, <1>1, <1>4, <2>1 DEF Fits, Abs
  <2>3. a = -MaxInt - 1
    BY <1>0, <1>1, <2>2 DEF Abs
  <2>4. b < 0
    BY <1>0, <1>1, <2>2, <2>3
  <2>5. b * q = a - r
    BY <1>0, <1>1
  <2>6. b > -2
    <3> SUFFICES ASSUME b <= -2 PROVE FALSE
      BY <1>0
    <3>1. b * q = b * MaxInt + b
      BY <1>0, <2>2
    <3>2. b * MaxInt <= (-2) * MaxInt
      BY <1>0
    <3>3. b * MaxInt \in Int
      BY <1>0
    <3>4. r <= 0
      BY <1>0, <1>1, <2>3
    <3> QED
      BY <1>0, <1>1, <2>3, <2>5, <3>1, <3>2, <3>3, <3>4
  <2> QED
    BY <1>0, <2>3, <2>4, <2>6
<1> QED
  BY <1>2, <1>3, <1>4 DEF q, r

(* Wrapping keeps a number within its type, changes it by a multiple of    *)
(* the number of values of the type, and leaves alone what fits.           *)
LEMMA WrapIs ==
    ASSUME NEW n \in Int
    PROVE  /\ Wrap(n) \in Int /\ Fits(Wrap(n))
           /\ \E k \in Int : n = Wrap(n) + k * (2 * (MaxInt + 1))
           /\ Fits(n) => Wrap(n) = n
<1> DEFINE size == 2 * (MaxInt + 1)
           z == n + MaxInt + 1
           k == z \div size
           m == z % size
<1>0. MaxInt \in Nat /\ size \in Nat /\ size > 0 /\ z \in Int
  BY IntAssumption
<1>1. Wrap(n) = m - MaxInt - 1
  BY DEF Wrap
<1>2. k \in Int /\ m \in 0..(size - 1) /\ z = size * k + m
  <2> HIDE DEF size, z
  <2> QED
    BY <1>0
<1> HIDE DEF k, m
<1>3. size * k = k * size /\ size * k \in Int
  <2> HIDE DEF size
  <2> QED
    BY <1>0, <1>2
<1>4. Wrap(n) \in Int /\ Fits(Wrap(n))
  BY <1>0, <1>1, <1>2 DEF Fits
<1>5. n = Wrap(n) + k * size
  <2>1. n = z - MaxInt - 1
    BY <1>0
  <2> HIDE DEF size, z
  <2> QED
    BY <1>0, <1>1, <1>2, <1>3, <2>1
<1>6. ASSUME Fits(n) PROVE Wrap(n) = n
  <2>1. z \in 0..(size - 1)
    BY <1>0, <1>6 DEF Fits
  <2> HIDE DEF size, z
  <2>2. k >= 0
    <3> SUFFICES ASSUME k <= -1 PROVE FALSE
      BY <1>2
    <3>1. size * k <= -size
      BY <1>0, <1>2
    <3> QED
      BY <1>0, <1>2, <1>3, <2>1, <3>1
  <2>3. k <= 0
    <3> SUFFICES ASSUME k >= 1 PROVE FALSE
      BY <1>2
    <3>1. size * k >= size
      BY <1>0, <1>2
    <3> QED
      BY <1>0, <1>2, <1>3, <2>1, <3>1
  <2>4. k = 0
    BY <1>2, <2>2, <2>3
  <2>5. k * size = 0
    BY <1>0, <2>4
  <2> QED
    BY <1>4, <1>5, <2>5
<1> QED
  BY <1>2, <1>4, <1>5, <1>6

(* For every width: integer arithmetic fails exactly when a build with     *)
(* overflow checks meets a result that does not fit, and in every build on *)
(* the smallest integer divided by -1; where it does not fail it gives the *)
(* exact result if that fits, and one that differs from it by a multiple   *)
(* of the number of integers if not (eval_arithmetic and the panics it     *)
(* catches).                                                               *)
THEOREM IntegersExact ==
    ASSUME NEW op \in {"Add", "Sub", "Mul", "Div", "Mod"},
           NEW a \in Int, NEW b \in Int, Fits(a), Fits(b), op \in {"Div", "Mod"} => b # 0
    PROVE  LET n == Exact(op, a, b)
               r == IntOp(op, a, b)
           IN  /\ IsOk(r) <=> /\ OverflowChecks => Fits(n)
                              /\ ~(op \in {"Div", "Mod"} /\ a = -MaxInt - 1 /\ b = -1)
               /\ IsOk(r) => \E v \in Int :
                     /\ r = Ok(Integer(v)) /\ Fits(v) /\ (Fits(n) => v = n)
                     /\ \E k \in Int : n = v + k * (2 * (MaxInt + 1))
<1> DEFINE n == Exact(op, a, b)
           r == IntOp(op, a, b)
           Fails == \/ ~Fits(n) /\ (OverflowChecks \/ op = "Div")
                    \/ op = "Mod" /\ ~Fits(Quotient(a, b))
           Extreme == a = -MaxInt - 1 /\ b = -1
<1>1. r = IF Fails THEN Err("overflow") ELSE Ok(Integer(Wrap(n)))
  BY DEF IntOp
<1>2. n \in Int
  <2>1. op \in {"Div", "Mod"} => Quotient(a, b) \in Int /\ Remainder(a, b) \in Int
    BY DivisionTruncates
  <2> QED
    BY <2>1 DEF Exact
<1>3. op \in {"Div", "Mod"} => (~Fits(Quotient(a, b)) <=> Extreme) /\ Fits(Remainder(a, b))
  BY QuotientFits
<1>4. (op = "Div" => n = Quotient(a, b)) /\ (op = "Mod" => n = Remainder(a, b))
  BY DEF Exact
<1> HIDE DEF n, r
<1>5. Fails <=> (OverflowChecks /\ ~Fits(n)) \/ (op \in {"Div", "Mod"} /\ Extreme)
  <2> HIDE DEF Extreme
  <2>1. CASE op = "Div"
    BY <1>3, <1>4, <2>1
  <2>2. CASE op = "Mod"
    BY <1>3, <1>4, <2>2
  <2>3. CASE op \notin {"Div", "Mod"}
    <3>1. op # "Div" /\ op # "Mod"
      BY <2>3
    <3> QED
      BY <2>3, <3>1, Zenon
  <2> QED
    BY <2>1, <2>2, <2>3
<1>6. IsOk(r) <=> ~Fails
  <2> HIDE DEF Fails
  <2> QED
    BY <1>1 DEF IsOk, Ok, Err
<1>7. IsOk(r) => r = Ok(Integer(Wrap(n)))
  <2> HIDE DEF Fails
  <2> QED
    BY <1>1, <1>6
<1>8. IsOk(r) <=> (OverflowChecks => Fits(n)) /\ ~(op \in {"Div", "Mod"} /\ Extreme)
  <2> HIDE DEF Fails, Extreme
  <2> QED
    BY <1>5, <1>6, Zenon
<1>9. /\ Wrap(n) \in Int /\ Fits(Wrap(n)) /\ (Fits(n) => Wrap(n) = n)
      /\ \E k \in Int : n = Wrap(n) + k * (2 * (MaxInt + 1))
  BY <1>2, WrapIs
<1>10. IsOk(r) => \E v \in Int :
          /\ r = Ok(Integer(v)) /\ Fits(v) /\ (Fits(n) => v = n)
          /\ \E k \in Int : n = v + k * (2 * (MaxInt + 1))
  BY <1>7, <1>9, Zenon
<1> QED
  BY <1>8, <1>10 DEF n, r

--------------------------------------------------------------------------------
(* Less, by the place where two strings part.                              *)
Parts(a, b, i) ==
    /\ i \in 1..Len(b) /\ i - 1 <= Len(a)
    /\ \A j \in 1..(i - 1) : a[j] = b[j]
    /\ i > Len(a) \/ a[i] < b[i]

LEMMA LessIs ==
    ASSUME NEW a \in Seq(Int), NEW b \in Seq(Int)
    PROVE  Less(a, b) <=> \E i \in 1..Len(b) : Parts(a, b, i)
<1>1. Len(a) \in Nat /\ Len(b) \in Nat
  OBVIOUS
<1>2. ASSUME NEW n \in Nat, n <= Len(a), n <= Len(b)
      PROVE  SubSeq(a, 1, n) = SubSeq(b, 1, n) <=> \A j \in 1..n : a[j] = b[j]
  <2> DEFINE x == SubSeq(a, 1, n)
             y == SubSeq(b, 1, n)
  <2>1. /\ x \in Seq(Int) /\ Len(x) = n /\ \A j \in 1..n : x[j] = a[j]
        /\ y \in Seq(Int) /\ Len(y) = n /\ \A j \in 1..n : y[j] = b[j]
    BY <1>1, <1>2
  <2> HIDE DEF x, y
  <2>2. ASSUME \A j \in 1..n : a[j] = b[j] PROVE x = y
    BY <2>1, <2>2, SeqEqual
  <2>3. ASSUME x = y PROVE \A j \in 1..n : a[j] = b[j]
    BY <2>1, <2>3
  <2> QED
    BY <2>2, <2>3 DEF x, y
<1>3. ASSUME NEW i \in 1..Len(b), Parts(a, b, i) PROVE Less(a, b)
  <2>1. i - 1 \in Nat /\ i - 1 <= Len(a) /\ i - 1 <= Len(b) /\ i \in 1..(Len(b) + 1) /\ i <= Len(b)
    BY <1>1, <1>3 DEF Parts
  <2>2. SubSeq(a, 1, i - 1) = SubSeq(b, 1, i - 1)
    BY <1>2, <1>3, <2>1 DEF Parts
  <2> QED
    BY <1>3, <2>1, <2>2, Zenon DEF Less, Parts
<1>4. ASSUME Less(a, b) PROVE \E i \in 1..Len(b) : Parts(a, b, i)
  <2>1. PICK i \in 1..(Len(b) + 1) : /\ SubSeq(a, 1, i - 1) = SubSeq(b, 1, i - 1) /\ i - 1 <= Len(a)
                                     /\ i <= Len(b) /\ (i > Len(a) \/ a[i] < b[i])
    BY <1>4, Zenon DEF Less
  <2>2. i \in 1..Len(b) /\ i - 1 \in Nat /\ i - 1 <= Len(b)
    BY <1>1, <2>1
  <2>3. \A j \in 1..(i - 1) : a[j] = b[j]
    BY <1>2, <2>1, <2>2
  <2> QED
    BY <2>1, <2>2, <2>3, Zenon DEF Parts
<1> QED
  BY <1>3, <1>4

(* Strings are totally ordered by Less.                                    *)
LEMMA LessOrder ==
    ASSUME NEW a \in Seq(Int), NEW b \in Seq(Int), NEW c \in Seq(Int)
    PROVE  /\ ~Less(a, a)
           /\ Less(a, b) /\ Less(b, c) => Less(a, c)
           /\ Less(a, b) \/ Less(b, a) \/ a = b
<1>0. /\ Len(a) \in Nat /\ Len(b) \in Nat /\ Len(c) \in Nat
      /\ \A i \in 1..Len(a) : a[i] \in Int
      /\ \A i \in 1..Len(b) : b[i] \in Int
      /\ \A i \in 1..Len(c) : c[i] \in Int
  OBVIOUS
<1>1. ~Less(a, a)
  <2> SUFFICES ASSUME NEW i \in 1..Len(a), Parts(a, a, i) PROVE FALSE
    BY LessIs
  <2> QED
    BY <1>0 DEF Parts
<1>2. ASSUME Less(a, b), Less(b, c) PROVE Less(a, c)
  <2>1. PICK i \in 1..Len(b) : Parts(a, b, i)
    BY <1>2, LessIs
  <2>2. PICK k \in 1..Len(c) : Parts(b, c, k)
    BY <1>2, LessIs
  <2>3. CASE i < k
    <3>1. i \in 1..Len(c) /\ i \in 1..(k - 1)
      BY <1>0, <2>3
    <3>2. b[i] = c[i] /\ \A j \in 1..(i - 1) : b[j] = c[j]
      BY <1>0, <2>2, <2>3, <3>1 DEF Parts
    <3>3. Parts(a, c, i)
      BY <1>0, <2>1, <3>1, <3>2 DEF Parts
    <3> QED
      BY <3>1, <3>3, LessIs
  <2>4. CASE k < i
    <3>1. k - 1 <= Len(a) /\ k <= Len(a) /\ a[k] = b[k] /\ \A j \in 1..(k - 1) : a[j] = b[j]
      <4>1. i - 1 <= Len(a) /\ \A j \in 1..(i - 1) : a[j] = b[j]
        BY <2>1 DEF Parts
      <4>2. k \in 1..(i - 1) /\ \A j \in 1..(k - 1) : j \in 1..(i - 1)
        BY <1>0, <2>4
      <4> QED
        BY <1>0, <4>1, <4>2
    <3>2. k <= Len(b)
      BY <1>0, <2>4
    <3>3. b[k] < c[k] /\ \A j \in 1..(k - 1) : b[j] = c[j]
      BY <1>0, <2>2, <3>2 DEF Parts
    <3>4. Parts(a, c, k)
      BY <1>0, <3>1, <3>3 DEF Parts
    <3> QED
      BY <3>4, LessIs
  <2>5. CASE i = k
    <3>1. b[i] < c[i] /\ \A j \in 1..(i - 1) : a[j] = b[j] /\ b[j] = c[j]
      <4>1. \A j \in 1..(i - 1) : a[j] = b[j]
        BY <2>1 DEF Parts
      <4>2. (k > Len(b) \/ b[k] < c[k]) /\ \A j \in 1..(k - 1) : b[j] = c[j]
        BY <2>2 DEF Parts
      <4>3. i <= Len(b) /\ i \in Int /\ Len(b) \in Int
        BY <1>0
      <4> QED
        BY <2>5, <4>1, <4>2, <4>3
    <3>2. i - 1 <= Len(a) /\ (i > Len(a) \/ (i \in 1..Len(a) /\ a[i] < b[i]))
      BY <1>0, <2>1 DEF Parts
    <3>3. i > Len(a) \/ a[i] < c[i]
      BY <1>0, <2>5, <3>1, <3>2
    <3>4. Parts(a, c, i)
      BY <1>0, <2>5, <3>1, <3>2, <3>3 DEF Parts
    <3> QED
      BY <2>5, <3>4, LessIs
  <2> QED
    BY <1>0, <2>3, <2>4, <2>5
<1>3. ASSUME ~Less(a, b), ~Less(b, a) PROVE a = b
  <2> DEFINE D == {i \in Nat \ {0} : i > Len(a) \/ i > Len(b) \/ a[i] # b[i]}
  <2>1. PICK i \in D : \A j \in D : i <= j
    <3>1. D \in SUBSET Nat
      OBVIOUS
    <3>2. Len(a) + 1 \in D
      BY <1>0
    <3> QED
      BY <3>1, <3>2, NatMin
  <2>2. i \in Nat \ {0} /\ (i > Len(a) \/ i > Len(b) \/ a[i] # b[i])
    OBVIOUS
  <2>3. \A j \in 1..(i - 1) : j <= Len(a) /\ j <= Len(b) /\ a[j] = b[j]
    <3> SUFFICES ASSUME NEW j \in 1..(i - 1) PROVE j \notin D
      BY <1>0
    <3> HIDE DEF D
    <3> QED
      BY <2>1, <2>2
  <2>4. i - 1 <= Len(a) /\ i - 1 <= Len(b)
    BY <1>0, <2>2, <2>3
  <2> HIDE DEF D
  <2>5. CASE i <= Len(a) /\ i <= Len(b)
    <3>1. a[i] # b[i] /\ a[i] \in Int /\ b[i] \in Int /\ i \in 1..Len(a) /\ i \in 1..Len(b)
      BY <1>0, <2>2, <2>5
    <3>2. CASE a[i] < b[i]
      <4>1. Parts(a, b, i)
        BY <2>3, <2>4, <3>1, <3>2 DEF Parts
      <4> QED
        BY <1>3, <3>1, <4>1, LessIs
    <3>3. CASE b[i] < a[i]
      <4>1. Parts(b, a, i)
        BY <2>3, <2>4, <3>1, <3>3 DEF Parts
      <4> QED
        BY <1>3, <3>1, <4>1, LessIs
    <3> QED
      BY <3>1, <3>2, <3>3
  <2>6. CASE i > Len(a) /\ i <= Len(b)
    <3>1. i \in 1..Len(b)
      BY <1>0, <2>2, <2>6
    <3>2. Parts(a, b, i)
      BY <2>3, <2>4, <2>6, <3>1 DEF Parts
    <3> QED
      BY <1>3, <3>1, <3>2, LessIs
  <2>7. CASE i <= Len(a) /\ i > Len(b)
    <3>1. i \in 1..Len(a)
      BY <1>0, <2>2, <2>7
    <3>2. Parts(b, a, i)
      BY <2>3, <2>4, <2>7, <3>1 DEF Parts
    <3> QED
      BY <1>3, <3>1, <3>2, LessIs
  <2>8. CASE i > Len(a) /\ i > Len(b)
    <3>1. Len(a) = i - 1 /\ Len(b) = i - 1
      BY <1>0, <2>2, <2>4, <2>8
    <3>2. \A j \in 1..Len(a) : a[j] = b[j]
      BY <2>3, <3>1
    <3> QED
      BY <3>1, <3>2, SeqEqual
  <2> QED
    BY <1>0, <2>2, <2>5, <2>6, <2>7, <2>8
<1> QED
  BY <1>1, <1>2, <1>3

(* The values of one kind, which cmp_values compares: Integers of any      *)
(* size; Floats of any size, but not NaN, with the Integers that are       *)
(* Floats without rounding; strings; truth values.                         *)
Integers1 == {"Integer"} \X Int
Numbers   == ({"Float"} \X Int) \cup ({"Integer"} \X ((-MaxExact)..MaxExact))
Strings == {"String"} \X Seq(Int)
Bools   == {"Bool"} \X BOOLEAN

LEMMA KindFacts ==
    /\ \A v \in Integers1 : v[1] = "Integer" /\ v[2] \in Int /\ v # Null
    /\ \A v \in Numbers : Number(v) /\ v[2] \in Int /\ v # Null /\ v # NaN /\ AsFloat(v) = v[2]
    /\ \A v \in Strings : v[1] = "String" /\ v[2] \in Seq(Int) /\ v # Null
    /\ \A v \in Bools : v[1] = "Bool" /\ v[2] \in BOOLEAN /\ v # Null
<1>0. Null[1] = "Null"
  BY DEF Null
<1>1. ASSUME NEW v \in Numbers
      PROVE  Number(v) /\ v[2] \in Int /\ v # Null /\ v # NaN /\ AsFloat(v) = v[2]
  <2>0. MaxExact \in Int
    BY IntAssumption
  <2>1. /\ v[1] \in {"Integer", "Float"} /\ v[2] \in Int
        /\ v[1] = "Integer" => v[2] \in (-MaxExact)..MaxExact
    BY <2>0 DEF Numbers
  <2>2. v[1] # "Null"
    BY <2>1
  <2>3. v # NaN
    <3>1. Len(v) = 2
      BY DEF Numbers
    <3>2. Len(NaN) = 1
      BY DEF NaN
    <3> QED
      BY <3>1, <3>2
  <2>4. v[1] = "Integer" => as_f64(v[2]) = v[2]
    BY <2>0, <2>1 DEF as_f64, Abs
  <2>5. AsFloat(v) = v[2]
    BY <2>4 DEF AsFloat
  <2> QED
    BY <1>0, <2>1, <2>2, <2>3, <2>5, Zenon DEF Number
<1>4. ASSUME NEW v \in Integers1 PROVE v[1] = "Integer" /\ v[2] \in Int /\ v # Null
  <2>1. v[1] = "Integer" /\ v[2] \in Int
    BY DEF Integers1
  <2>2. v[1] # "Null"
    BY <2>1
  <2> QED
    BY <1>0, <2>1, <2>2, Zenon
<1>2. ASSUME NEW v \in Strings PROVE v[1] = "String" /\ v[2] \in Seq(Int) /\ v # Null
  <2>1. v[1] = "String" /\ v[2] \in Seq(Int)
    BY DEF Strings
  <2>2. v[1] # "Null"
    BY <2>1
  <2> QED
    BY <1>0, <2>1, <2>2, Zenon
<1>3. ASSUME NEW v \in Bools PROVE v[1] = "Bool" /\ v[2] \in BOOLEAN /\ v # Null
  <2>1. v[1] = "Bool" /\ v[2] \in BOOLEAN
    BY DEF Bools
  <2>2. v[1] # "Null"
    BY <2>1
  <2> QED
    BY <1>0, <2>1, <2>2, Zenon
<1> QED
  BY <1>1, <1>2, <1>3, <1>4

(* The order of a sort, where a and b may follow each other without being  *)
(* ordered.                                                                *)
StrictWeak(V) ==
    /\ \A v \in V : ~SortsBefore(v, v)
    /\ \A u, v, w \in V : SortsBefore(u, v) /\ SortsBefore(v, w) => SortsBefore(u, w)
    /\ \A u, v, w \in V : SortsBefore(u, w) => SortsBefore(u, v) \/ SortsBefore(v, w)

(* ORDER BY over values of one kind and NULLs sorts by a strict weak order *)
(* with the NULLs first, which is what sort_by requires of exec_sort's     *)
(* comparison.  A kind is the Integers alone, of any size, or the strings, *)
(* or the truth values, or the Floats, NaN excepted, together with the     *)
(* Integers up to MaxExact, 2^53; SortLimits says what happens beyond.     *)
THEOREM SortOrder ==
    ASSUME NEW Kind \in {Integers1, Numbers, Strings, Bools}
    PROVE  /\ StrictWeak(Kind \cup {Null})
           /\ \A v \in Kind : SortsBefore(Null, v) /\ ~SortsBefore(v, Null)
<1> DEFINE V == Kind \cup {Null}
<1>0. \A v \in Kind : v # Null
  BY KindFacts
<1>1. \A v \in V : /\ ~SortsBefore(v, Null)
                   /\ SortsBefore(Null, v) <=> v # Null
  BY DEF SortsBefore
<1>2. /\ \A v \in Kind : ~SortsBefore(v, v)
      /\ \A u, v, w \in Kind : SortsBefore(u, v) /\ SortsBefore(v, w) => SortsBefore(u, w)
      /\ \A u, v, w \in Kind : SortsBefore(u, w) => SortsBefore(u, v) \/ SortsBefore(v, w)
  <2>1. CASE Kind = Numbers
    <3>1. \A v, w \in Numbers : SortsBefore(v, w) <=> v[2] < w[2]
      <4> TAKE v \in Numbers, w \in Numbers
      <4>1. Number(v) /\ Number(w) /\ v # Null /\ w # Null
        BY KindFacts
      <4>2. v # NaN /\ w # NaN /\ AsFloat(v) = v[2] /\ AsFloat(w) = w[2]
        BY KindFacts
      <4>3. ValueLess(v, w) <=> v[2] < w[2]
        BY <4>1, <4>2, Zenon DEF ValueLess
      <4> QED
        BY <4>1, <4>3, Zenon DEF SortsBefore, Comparable
    <3>2. \A v \in Numbers : v[2] \in Int
      BY KindFacts
    <3> QED
      BY <2>1, <3>1, <3>2
  <2>4. CASE Kind = Integers1
    <3>1. \A v, w \in Integers1 : SortsBefore(v, w) <=> v[2] < w[2]
      <4> TAKE v \in Integers1, w \in Integers1
      <4>1. v[1] = "Integer" /\ w[1] = "Integer" /\ v # Null /\ w # Null
        BY KindFacts
      <4>2. Number(v) /\ Number(w)
        BY <4>1 DEF Number
      <4> QED
        BY <4>1, <4>2, Zenon DEF SortsBefore, Comparable, ValueLess
    <3>2. \A v \in Integers1 : v[2] \in Int
      BY KindFacts
    <3> QED
      BY <2>4, <3>1, <3>2
  <2>2. CASE Kind = Strings
    <3>1. \A v, w \in Strings : SortsBefore(v, w) <=> Less(v[2], w[2])
      <4> TAKE v \in Strings, w \in Strings
      <4>1. v[1] = "String" /\ w[1] = "String" /\ v # Null /\ w # Null
        BY KindFacts
      <4>2. ~Number(v) /\ v[1] # "Integer"
        BY <4>1 DEF Number
      <4> QED
        BY <4>1, <4>2, Zenon DEF SortsBefore, Comparable, ValueLess
    <3>2. \A v \in Strings : v[2] \in Seq(Int)
      BY KindFacts
    <3>3. \A a, b, c \in Seq(Int) : /\ ~Less(a, a)
                                    /\ Less(a, b) /\ Less(b, c) => Less(a, c)
                                    /\ Less(a, b) \/ Less(b, a) \/ a = b
      BY LessOrder
    <3>4. \A a, b, c \in Seq(Int) : Less(a, c) => Less(a, b) \/ Less(b, c)
      <4> SUFFICES ASSUME NEW a \in Seq(Int), NEW b \in Seq(Int), NEW c \in Seq(Int), Less(a, c), ~Less(a, b)
                   PROVE  Less(b, c)
        BY Zenon
      <4>1. CASE a = b
        BY <4>1
      <4>2. CASE a # b
        BY <3>3, <4>2, Zenon
      <4> QED
        BY <4>1, <4>2
    <3>5. ASSUME NEW u \in Strings, NEW v \in Strings, NEW w \in Strings
          PROVE  /\ ~SortsBefore(v, v)
                 /\ SortsBefore(u, v) /\ SortsBefore(v, w) => SortsBefore(u, w)
                 /\ SortsBefore(u, w) => SortsBefore(u, v) \/ SortsBefore(v, w)
      <4>1. u[2] \in Seq(Int) /\ v[2] \in Seq(Int) /\ w[2] \in Seq(Int)
        BY <3>2
      <4>2. /\ ~Less(v[2], v[2])
            /\ Less(u[2], v[2]) /\ Less(v[2], w[2]) => Less(u[2], w[2])
            /\ Less(u[2], w[2]) => Less(u[2], v[2]) \/ Less(v[2], w[2])
        BY <3>3, <3>4, <4>1
      <4> QED
        BY <3>1, <4>2, Zenon
    <3> QED
      BY <2>2, <3>5, Zenon
  <2>3. CASE Kind = Bools
    <3>1. \A v, w \in Bools : SortsBefore(v, w) <=> ~v[2] /\ w[2]
      <4> TAKE v \in Bools, w \in Bools
      <4>1. v[1] = "Bool" /\ w[1] = "Bool" /\ v # Null /\ w # Null
        BY KindFacts
      <4>2. ~Comparable(v, w)
        BY <4>1 DEF Comparable, Number
      <4> QED
        BY <4>1, <4>2, Zenon DEF SortsBefore
    <3> QED
      BY <2>3, <3>1, Zenon
  <2> QED
    BY <2>1, <2>2, <2>3, <2>4
<1>3. \A v \in V : ~SortsBefore(v, v)
  BY <1>1, <1>2, Zenon
<1>4. ASSUME NEW u \in V, NEW v \in V, NEW w \in V, SortsBefore(u, v), SortsBefore(v, w)
      PROVE  SortsBefore(u, w)
  <2>1. v # Null /\ w # Null
    BY <1>1, <1>4, Zenon
  <2>2. CASE u = Null
    BY <1>1, <2>1, <2>2, Zenon
  <2>3. CASE u # Null
    BY <1>2, <1>4, <2>1, <2>3, Zenon
  <2> QED
    BY <2>2, <2>3
<1>5. ASSUME NEW u \in V, NEW v \in V, NEW w \in V, SortsBefore(u, w), ~SortsBefore(u, v)
      PROVE  SortsBefore(v, w)
  <2>1. w # Null
    BY <1>1, <1>5, Zenon
  <2>2. CASE v = Null
    BY <1>1, <2>1, <2>2, Zenon
  <2>3. CASE v # Null
    <3>1. u # Null
      BY <1>1, <1>5, <2>3, Zenon
    <3> QED
      BY <1>2, <1>5, <2>1, <2>3, <3>1, Zenon
  <2> QED
    BY <2>2, <2>3
<1>6. StrictWeak(V)
  BY <1>3, <1>4, <1>5, Zenon DEF StrictWeak
<1> QED
  BY <1>0, <1>1, <1>6, Zenon

(* Where SortOrder ends: two Integers that become one Float are ordered,   *)
(* yet both are equal to that Float for cmp_values (2^53, 2^53 + 1 and the *)
(* Float 2^53); and NaN is equal to two Floats that differ.  In both cases *)
(* the comparison given to sort_by is no order.                            *)
THEOREM SortLimits ==
    ASSUME NEW i \in Int, NEW j \in Int, i < j, NEW f \in Int, NEW g \in Int, f < g
    PROVE  /\ as_f64(i) = f /\ as_f64(j) = f => ~StrictWeak({Integer(i), Float(f), Integer(j)})
           /\ ~StrictWeak({Float(f), NaN, Float(g)})
<1>0. /\ Integer(i)[1] = "Integer" /\ Integer(i)[2] = i /\ Integer(j)[1] = "Integer" /\ Integer(j)[2] = j
      /\ Float(f)[1] = "Float" /\ Float(f)[2] = f /\ Float(g)[1] = "Float" /\ Float(g)[2] = g
      /\ NaN[1] = "Float" /\ Null[1] = "Null"
  BY DEF Integer, Float, NaN, Null
<1>1. Number(Integer(i)) /\ Number(Integer(j)) /\ Number(Float(f)) /\ Number(Float(g)) /\ Number(NaN)
  BY <1>0 DEF Number
<1>2. Null \notin {Integer(i), Integer(j), Float(f), Float(g), NaN}
  BY <1>0
<1>3. Float(f) # NaN /\ Float(g) # NaN
  <2>1. Len(Float(f)) = 2 /\ Len(Float(g)) = 2 /\ Len(NaN) = 1
    BY DEF Float, NaN
  <2> QED
    BY <2>1
<1>4. \A v, w \in {Integer(i), Integer(j), Float(f), Float(g), NaN} : SortsBefore(v, w) <=> ValueLess(v, w)
  BY <1>1, <1>2, Zenon DEF SortsBefore, Comparable
<1>5. AsFloat(Integer(i)) = as_f64(i) /\ AsFloat(Integer(j)) = as_f64(j)
      /\ AsFloat(Float(f)) = f /\ AsFloat(Float(g)) = g
  BY <1>0 DEF AsFloat
<1>6. ASSUME as_f64(i) = f, as_f64(j) = f, StrictWeak({Integer(i), Float(f), Integer(j)}) PROVE FALSE
  <2>1. ValueLess(Integer(i), Integer(j))
    BY <1>0 DEF ValueLess
  <2>2. ~(f < f)
    OBVIOUS
  <2>3. ~ValueLess(Integer(i), Float(f)) /\ ~ValueLess(Float(f), Integer(j))
    BY <1>0, <1>1, <1>5, <1>6, <2>2 DEF ValueLess
  <2> QED
    BY <1>4, <1>6, <2>1, <2>3, Zenon DEF StrictWeak
<1>7. ASSUME StrictWeak({Float(f), NaN, Float(g)}) PROVE FALSE
  <2>1. ValueLess(Float(f), Float(g))
    BY <1>0, <1>1, <1>3, <1>5 DEF ValueLess
  <2>2. ~ValueLess(Float(f), NaN) /\ ~ValueLess(NaN, Float(g))
    BY <1>0, <1>1 DEF ValueLess
  <2> QED
    BY <1>4, <1>7, <2>1, <2>2, Zenon DEF StrictWeak
<1> QED
  BY <1>6, <1>7
==================================================================================
