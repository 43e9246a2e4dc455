----------------------------- MODULE QueueLemmas -----------------------------
(***************************************************************************)
(* What taking from and adding to a sequence does to the set of its         *)
(* elements; and induction, over sets of numbers, with the function that a  *)
(* loop over a sequence defines.                                            *)
(***************************************************************************)
EXTENDS Integers, FiniteSets, Sequences, SequencesExt, FiniteSetTheorems,
        WellFoundedInduction, TLAPS

LEMMA QueueGrows ==
    ASSUME NEW S, NEW q \in Seq(S), NEW e \in S
    PROVE  /\ Append(q, e) \in Seq(S) /\ Len(Append(q, e)) = Len(q) + 1
           /\ Range(Append(q, e)) = Range(q) \cup {e}
<1>1. Append(q, e) \in Seq(S) /\ Len(Append(q, e)) = Len(q) + 1 /\ Len(q) \in Nat
  OBVIOUS
<1>2. DOMAIN q = 1..Len(q) /\ DOMAIN Append(q, e) = 1..(Len(q) + 1)
  OBVIOUS
<1>3. \A i \in 1..(Len(q) + 1) : Append(q, e)[i] = IF i = Len(q) + 1 THEN e ELSE q[i]
  OBVIOUS
<1>4. QED BY <1>1, <1>2, <1>3 DEF Range


LEMMA QueueShrinks ==
    ASSUME NEW S, NEW q \in Seq(S), q # <<>>
    PROVE  /\ Tail(q) \in Seq(S) /\ Len(Tail(q)) = Len(q) - 1 /\ Head(q) \in S
           /\ Range(q) = Range(Tail(q)) \cup {Head(q)}
<1>1. /\ Tail(q) \in Seq(S) /\ Len(Tail(q)) = Len(q) - 1 /\ Len(q) \in Nat /\ Len(q) > 0
      /\ Head(q) = q[1]
  OBVIOUS
<1>2. DOMAIN q = 1..Len(q) /\ DOMAIN Tail(q) = 1..(Len(q) - 1)
  BY <1>1
<1>3. \A i \in 1..(Len(q) - 1) : Tail(q)[i] = q[i + 1]
  BY <1>1
<1>4. \A i \in 1..Len(q) : i = 1 \/ (i - 1 \in 1..(Len(q) - 1) /\ Tail(q)[i - 1] = q[i])
  BY <1>1, <1>3
<1>5. \A i \in 1..(Len(q) - 1) : i + 1 \in 1..Len(q)
  BY <1>1
<1>6. 1 \in 1..Len(q) /\ q[1] \in S
  BY <1>1, <1>2
<1>7. Range(Tail(q)) \cup {Head(q)} \subseteq Range(q)
  BY <1>1, <1>2, <1>3, <1>5, <1>6 DEF Range
<1>8. ASSUME NEW i \in DOMAIN q PROVE q[i] \in Range(Tail(q)) \cup {Head(q)}
  BY <1>1, <1>2, <1>4 DEF Range
<1>9. Range(q) \subseteq Range(Tail(q)) \cup {Head(q)}
  BY <1>8 DEF Range
<1>10. QED BY <1>1, <1>6, <1>7, <1>9

\* The rest of a sequence from some place on.
LEMMA QueueRest ==
    ASSUME NEW S, NEW q \in Seq(S), NEW m \in 1..(Len(q) + 1)
    PROVE  /\ SubSeq(q, m, Len(q)) \in Seq(S)
           /\ Len(SubSeq(q, m, Len(q))) = Len(q) + 1 - m
           /\ \A i \in 1..(Len(q) + 1 - m) : SubSeq(q, m, Len(q))[i] = q[i + m - 1]
OBVIOUS
\* A finite set in any order: every element, once.
LEMMA QueueOfSet ==
    ASSUME NEW S, IsFiniteSet(S), NEW q \in SetToSeqs(S)
    PROVE  /\ q \in Seq(S) /\ Len(q) = Cardinality(S) /\ Range(q) = S
           /\ \A i, j \in 1..Len(q) : q[i] = q[j] => i = j
<1> DEFINE n == Cardinality(S)
<1>1. n \in Nat
  BY FS_CardinalityType
<1>2. q \in [1..n -> S] /\ \A i, j \in 1..n : i # j => q[i] # q[j]
  BY DEF SetToSeqs
<1> HIDE DEF n
<1>3. q \in Seq(S) /\ Len(q) = n
  BY <1>1, <1>2
<1>4. q \in Injection(1..n, S)
  BY <1>2 DEF Injection, IsInjective
<1>5. IsFiniteSet(1..n) /\ Cardinality(1..n) = n
  BY <1>1, FS_Interval
<1>6. q \in Surjection(1..n, S)
  BY <1>4, <1>5, FS_Injection DEF n
<1>7. Range(q) = S
  BY <1>2, <1>6 DEF Surjection, Range
<1>8. QED BY <1>2, <1>3, <1>7 DEF n

\* The first of elements that differ is not among the others.
LEMMA DistinctShrinks ==
    ASSUME NEW S, NEW q \in Seq(S), q # <<>>, \A i, j \in 1..Len(q) : q[i] = q[j] => i = j
    PROVE  /\ Head(q) \notin Range(Tail(q))
           /\ \A i, j \in 1..Len(Tail(q)) : Tail(q)[i] = Tail(q)[j] => i = j
<1>1. /\ Len(q) \in Nat /\ Len(q) > 0 /\ Len(Tail(q)) = Len(q) - 1 /\ Head(q) = q[1]
      /\ DOMAIN Tail(q) = 1..(Len(q) - 1)
  OBVIOUS
<1>2. \A i \in 1..(Len(q) - 1) : Tail(q)[i] = q[i + 1] /\ i + 1 \in 1..Len(q) /\ i + 1 # 1
  BY <1>1
<1>3. \A i \in 1..(Len(q) - 1) : Tail(q)[i] # q[1]
  BY <1>1, <1>2
<1>4. Head(q) \notin Range(Tail(q))
  BY <1>1, <1>3 DEF Range
<1>5. \A i, j \in 1..(Len(q) - 1) : q[i + 1] = q[j + 1] => i = j
  BY <1>1
<1>6. QED BY <1>1, <1>2, <1>4, <1>5

LEMMA DistinctGrows ==
    ASSUME NEW S, NEW q \in Seq(S), NEW e \in S \ Range(q),
           \A i, j \in 1..Len(q) : q[i] = q[j] => i = j
    PROVE  \A i, j \in 1..Len(Append(q, e)) : Append(q, e)[i] = Append(q, e)[j] => i = j
<1>1. /\ Len(q) \in Nat /\ Len(Append(q, e)) = Len(q) + 1 /\ DOMAIN q = 1..Len(q)
      /\ \A i \in 1..(Len(q) + 1) : Append(q, e)[i] = IF i = Len(q) + 1 THEN e ELSE q[i]
  OBVIOUS
<1>2. \A i \in 1..Len(q) : q[i] # e
  BY <1>1 DEF Range
<1>3. QED BY <1>1, <1>2

-----------------------------------------------------------------------------
(* Induction, stated of a set. *)

LEMMA LeastNatural ==
    ASSUME NEW T, T \subseteq Nat, T # {}
    PROVE  \E x \in T : \A y \in T : x <= y
<1>1. PICK R : R = {ss \in Nat \X Nat : ss[1] < ss[2]}
  OBVIOUS
<1>2. IsWellFoundedOn(R, Nat)
  BY <1>1, NatLessThanWellFounded DEF OpToRel
<1>3. PICK x \in T : \A y \in T : <<y, x>> \notin R
  BY <1>2, WFMin
<1>4. \A y \in T : ~(y < x)
  BY <1>1, <1>3
<1>5. QED BY <1>4

LEMMA CountingUp ==
    ASSUME NEW S, NEW N \in Nat, 0 \in S, \A n \in 0..(N - 1) : n \in S => n + 1 \in S
    PROVE  0..N \subseteq S
<1>1. SUFFICES ASSUME (0..N) \ S # {} PROVE FALSE
  OBVIOUS
<1>2. PICK x \in (0..N) \ S : \A y \in (0..N) \ S : x <= y
  <2>1. PICK T : T = (0..N) \ S
    OBVIOUS
  <2>2. T \subseteq Nat /\ T # {}
    BY <1>1, <2>1
  <2>3. QED BY <2>1, <2>2, LeastNatural
<1>3. x - 1 \in 0..(N - 1) /\ x - 1 \in S
  BY <1>2
<1>4. QED BY <1>2, <1>3

\* A loop over 1..N from x, each turn a step: f is what it has after each turn.
Ran(f, x, N, step) ==
    \A n \in 0..N : f[n] = IF n = 0 THEN x ELSE step[<<f[n - 1], n>>]

\* Such a loop has its values.
LEMMA LoopRuns ==
    ASSUME NEW X, NEW x \in X, NEW N \in Nat, NEW step \in [X \X (1..N) -> X]
    PROVE  \E f \in [0..N -> X] : Ran(f, x, N, step)
<1> DEFINE S == {m \in Nat : \E f \in [0..m -> X] : Ran(f, x, m, step)}
<1>1. 0 \in S
  <2>1. [n \in 0..0 |-> x] \in [0..0 -> X] /\ Ran([n \in 0..0 |-> x], x, 0, step)
    BY DEF Ran
  <2>2. QED BY <2>1
<1>2. ASSUME NEW m \in 0..(N - 1), m \in S PROVE m + 1 \in S
  <2>1. PICK f \in [0..m -> X] : Ran(f, x, m, step)
    BY <1>2
  <2>2. PICK y : y = step[<<f[m], m + 1>>]
    OBVIOUS
  <2>3. y \in X
    BY <2>2
  <2>4. PICK g : g = [n \in 0..(m + 1) |-> IF n = m + 1 THEN y ELSE f[n]]
    OBVIOUS
  <2>5. /\ g \in [0..(m + 1) -> X] /\ g[m + 1] = y /\ \A n \in 0..m : g[n] = f[n]
    BY <2>3, <2>4
  <2>6. ASSUME NEW n \in 0..(m + 1)
        PROVE  g[n] = IF n = 0 THEN x ELSE step[<<g[n - 1], n>>]
    <3>1. CASE n = m + 1
      BY <2>2, <2>5, <3>1
    <3>2. CASE n # m + 1
      <4>1. n \in 0..m /\ (n # 0 => n - 1 \in 0..m)
        BY <3>2
      <4>2. QED BY <2>1, <2>5, <4>1 DEF Ran
    <3>3. QED BY <3>1, <3>2
  <2>7. QED BY <2>5, <2>6 DEF Ran
<1>3. N \in S
  <2> HIDE DEF S
  <2>1. 0..N \subseteq S
    BY <1>1, <1>2, CountingUp
  <2>2. QED BY <2>1
<1>4. QED BY <1>3
=============================================================================
