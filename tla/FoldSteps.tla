------------------------------ MODULE FoldSteps ------------------------------
(***************************************************************************)
(* FoldLeft of the community modules, one element at a time, for any       *)
(* operator: an instance of this module gives the operator.  FoldLeft      *)
(* chooses a function of sets of positions; what follows turns it into the *)
(* list of the values that the fold goes through.                          *)
(***************************************************************************)
EXTENDS Naturals, SequencesExt, WellFoundedInduction, SequenceTheorems, TLAPS

CONSTANT Op(_, _)  \* what the fold applies to a value and an element

Folded(v, s) == FoldLeft(Op, v, s)

(***************************************************************************)
(* Induction over the natural numbers for a set.                           *)
(***************************************************************************)
LEMMA SetInduction ==
  ASSUME NEW S, 0 \in S, \A n \in Nat : n \in S => n + 1 \in S
  PROVE  Nat \subseteq S
<1> DEFINE R == {p \in Nat \X Nat : p[1] < p[2]}
           T == Nat \ S
<1>1. IsWellFoundedOn(R, Nat)
  BY NatLessThanWellFounded DEF OpToRel
<1>2. SUFFICES ASSUME T # {} PROVE FALSE
  OBVIOUS
<1>3. T \subseteq Nat
  OBVIOUS
<1> HIDE DEF R, T
<1>4. PICK x \in T : \A y \in T : <<y, x>> \notin R
  BY <1>1, <1>2, <1>3, WFMin
<1>5. x \in Nat /\ x # 0 /\ x \notin S
  BY <1>4 DEF T
<1>6. x - 1 \in Nat /\ <<x - 1, x>> \in R
  BY <1>5 DEF R
<1>7. x - 1 \in S
  BY <1>4, <1>6 DEF T
<1>8. (x - 1) + 1 \in S
  BY <1>6, <1>7
<1> QED
  BY <1>5, <1>8

LEMMA MaxExists ==
  ASSUME NEW n \in Nat, NEW T \in SUBSET (1..n), T # {}
  PROVE  Max(T) \in T /\ \A y \in T : Max(T) >= y
<1> DEFINE S == {k \in Nat : \A U \in SUBSET (1..k) :
                   U # {} => \E x \in U : \A y \in U : x >= y}
<1>1. 0 \in S
  <2>1. \A U \in SUBSET (1..0) : U = {}
    OBVIOUS
  <2> QED
    BY <2>1
<1>2. ASSUME NEW k \in Nat, k \in S PROVE k + 1 \in S
  <2> SUFFICES ASSUME NEW U \in SUBSET (1..(k + 1)), U # {}
               PROVE  \E x \in U : \A y \in U : x >= y
    OBVIOUS
  <2>1. CASE k + 1 \in U
    BY <2>1
  <2>2. CASE k + 1 \notin U
    <3>1. U \in SUBSET (1..k)
      BY <2>2
    <3> QED
      BY <1>2, <3>1
  <2> QED
    BY <2>1, <2>2
<1> HIDE DEF S
<1>3. n \in S
  BY <1>1, <1>2, SetInduction
<1>4. \E x \in T : \A y \in T : x >= y
  BY <1>3 DEF S
<1> QED
  BY <1>4 DEF Max
-----------------------------------------------------------------------------
(***************************************************************************)
(* The fold.  The function that FoldLeft chooses exists, and its values at *)
(* the initial segments are those after so many elements.                  *)
(***************************************************************************)
FoldBody(g, v, s, T) ==
  IF T = {} THEN v ELSE Op(g[T \ {Max(T)}], s[Max(T)])

IsFold(g, v, s, n) == g = [T \in SUBSET (1..n) |-> FoldBody(g, v, s, T)]

LEMMA FoldExists ==
  ASSUME NEW v, NEW s, NEW n \in Nat
  PROVE  \E g : IsFold(g, v, s, n)
<1> DEFINE S == {k \in Nat : \E g : IsFold(g, v, s, k)}
<1>1. 0 \in S
  <2> DEFINE g == [T \in SUBSET (1..0) |-> v]
  <2>1. IsFold(g, v, s, 0)
    BY DEF IsFold, FoldBody
  <2> QED
    BY <2>1
<1>2. ASSUME NEW k \in Nat, k \in S PROVE k + 1 \in S
  <2>1. PICK g : IsFold(g, v, s, k)
    BY <1>2
  <2> DEFINE h == [T \in SUBSET (1..(k + 1)) |->
                     IF k + 1 \in T
                     THEN Op(g[T \ {k + 1}], s[k + 1]) ELSE g[T]]
  <2>2. ASSUME NEW T \in SUBSET (1..(k + 1))
        PROVE  h[T] = FoldBody(h, v, s, T)
    <3>1. CASE k + 1 \in T
      <4>1. Max(T) = k + 1
        <5>1. k + 1 \in Nat
          OBVIOUS
        <5>2. Max(T) \in T /\ \A y \in T : Max(T) >= y
          BY <3>1, <5>1, MaxExists
        <5>3. Max(T) \in 1..(k + 1) /\ Max(T) >= k + 1
          BY <3>1, <5>2
        <5> HIDE DEF h
        <5> QED
          BY <5>3
      <4>2. T \ {k + 1} \in SUBSET (1..k) /\ k + 1 \notin T \ {k + 1}
        OBVIOUS
      <4>3. T \ {k + 1} \in SUBSET (1..(k + 1))
        OBVIOUS
      <4>4. h[T \ {k + 1}] = g[T \ {k + 1}]
        BY <4>2, <4>3
      <4> QED
        BY <3>1, <4>1, <4>4 DEF FoldBody
    <3>2. CASE k + 1 \notin T
      <4>1. T \in SUBSET (1..k)
        BY <3>2
      <4>2. h[T] = FoldBody(g, v, s, T)
        BY <2>1, <3>2, <4>1 DEF IsFold
      <4>3. CASE T = {}
        BY <4>2, <4>3 DEF FoldBody
      <4>4. CASE T # {}
        <5>1. Max(T) \in T
          BY <4>1, <4>4, MaxExists
        <5>2. k + 1 \notin T \ {Max(T)} /\ T \ {Max(T)} \in SUBSET (1..(k + 1))
          BY <3>2
        <5>3. h[T \ {Max(T)}] = g[T \ {Max(T)}]
          BY <5>2
        <5> HIDE DEF h
        <5> QED
          BY <4>2, <4>4, <5>3 DEF FoldBody
      <4> QED
        BY <4>3, <4>4
    <3> QED
      BY <3>1, <3>2
  <2>3. h = [T \in SUBSET (1..(k + 1)) |-> h[T]]
    OBVIOUS
  <2> HIDE DEF h
  <2>4. IsFold(h, v, s, k + 1)
    BY <2>2, <2>3 DEF IsFold
  <2> QED
    BY <2>4
<1> HIDE DEF S
<1>3. n \in S
  BY <1>1, <1>2, SetInduction
<1> QED
  BY <1>3 DEF S

\* f lists the values that the fold of s goes through from v on.
Trace(f, v, s) ==
  /\ f[0] = v
  /\ \A k \in 1..Len(s) : f[k] = Op(f[k - 1], s[k])

LEMMA FoldTrace ==
  ASSUME NEW v, NEW X, NEW s \in Seq(X)
  PROVE  \E f : Trace(f, v, s) /\ Folded(v, s) = f[Len(s)]
<1> DEFINE n == Len(s)
           chosen == CHOOSE g : IsFold(g, v, s, n)
           f == [k \in 0..n |-> chosen[1..k]]
<1>1. n \in Nat /\ DOMAIN s = 1..n
  OBVIOUS
<1>2. IsFold(chosen, v, s, n)
  BY <1>1, FoldExists
<1>3. Folded(v, s) = chosen[1..n]
  BY <1>1 DEF Folded, FoldLeft, MapThenFoldSet, IsFold, FoldBody
<1> HIDE DEF chosen
<1>4. f[0] = v
  <2>1. 1..0 = {} /\ 1..0 \in SUBSET (1..n)
    OBVIOUS
  <2>2. chosen[1..0] = FoldBody(chosen, v, s, 1..0)
    BY <1>2, <2>1 DEF IsFold
  <2> QED
    BY <1>1, <2>1, <2>2 DEF FoldBody
<1>5. ASSUME NEW k \in 1..n PROVE f[k] = Op(f[k - 1], s[k])
  <2>1. k \in Nat /\ k - 1 \in 0..n /\ k \in 0..n
    BY <1>1
  <2> HIDE DEF n
  <2>a. k \in 1..k /\ 1..k \in SUBSET (1..n)
    BY <1>1
  <2>b. (1..k) \ {k} = 1..(k - 1)
    BY <2>1
  <2>2. 1..k \in SUBSET (1..n) /\ 1..k # {} /\ (1..k) \ {k} = 1..(k - 1)
    BY <2>a, <2>b
  <2>3. Max(1..k) = k
    <3> HIDE DEF n, f
    <3>1. Max(1..k) \in 1..k /\ \A y \in 1..k : Max(1..k) >= y
      BY <1>1, <2>2, MaxExists
    <3>2. Max(1..k) \in 1..k /\ Max(1..k) >= k
      BY <2>1, <3>1
    <3> QED
      BY <2>1, <3>2
  <2>4. chosen[1..k] = FoldBody(chosen, v, s, 1..k)
    BY <1>2, <2>2 DEF IsFold
  <2>5. chosen[1..k] = Op(chosen[1..(k - 1)], s[k])
    BY <2>2, <2>3, <2>4 DEF FoldBody
  <2> QED
    BY <2>1, <2>5
<1>6. f[n] = chosen[1..n]
  BY <1>1
<1> HIDE DEF f
<1>7. Trace(f, v, s)
  BY <1>4, <1>5 DEF Trace
<1> QED
  BY <1>3, <1>6, <1>7

LEMMA TraceFold ==
  ASSUME NEW v, NEW X, NEW s \in Seq(X), NEW f, Trace(f, v, s)
  PROVE  Folded(v, s) = f[Len(s)]
<1>1. PICK g : Trace(g, v, s) /\ Folded(v, s) = g[Len(s)]
  BY FoldTrace
<1> DEFINE S == {k \in Nat : k <= Len(s) => f[k] = g[k]}
<1>2. 0 \in S
  BY <1>1 DEF Trace
<1>3. ASSUME NEW k \in Nat, k \in S PROVE k + 1 \in S
  <2> SUFFICES ASSUME k + 1 <= Len(s) PROVE f[k + 1] = g[k + 1]
    OBVIOUS
  <2>1. k + 1 \in 1..Len(s) /\ (k + 1) - 1 = k
    OBVIOUS
  <2>2. f[k] = g[k]
    BY <1>3
  <2> QED
    BY <1>1, <2>1, <2>2 DEF Trace
<1> HIDE DEF S
<1>4. Len(s) \in S
  BY <1>2, <1>3, SetInduction
<1> QED
  BY <1>1, <1>4 DEF S

LEMMA FoldEmpty ==
  ASSUME NEW v
  PROVE  Folded(v, <<>>) = v
<1>1. <<>> \in Seq({}) /\ Len(<<>>) = 0
  OBVIOUS
<1>2. PICK f : Trace(f, v, <<>>) /\ Folded(v, <<>>) = f[0]
  BY <1>1, FoldTrace
<1> QED
  BY <1>2 DEF Trace

LEMMA FoldOne ==
  ASSUME NEW v, NEW p
  PROVE  Folded(v, <<p>>) = Op(v, p)
<1>1. <<p>> \in Seq({p}) /\ Len(<<p>>) = 1 /\ <<p>>[1] = p
  OBVIOUS
<1>2. PICK f : Trace(f, v, <<p>>) /\ Folded(v, <<p>>) = f[1]
  BY <1>1, FoldTrace
<1>3. f[0] = v /\ f[1] = Op(f[1 - 1], <<p>>[1])
  BY <1>1, <1>2 DEF Trace
<1> QED
  BY <1>2, <1>3

LEMMA FoldAppend ==
  ASSUME NEW v, NEW X, NEW s \in Seq(X), NEW x \in X
  PROVE  Folded(v, Append(s, x)) = Op(Folded(v, s), x)
<1> DEFINE t == Append(s, x)
<1>1. /\ t \in Seq(X) /\ Len(t) = Len(s) + 1 /\ t[Len(s) + 1] = x
      /\ Len(s) \in Nat /\ \A k \in 1..Len(s) : t[k] = s[k]
  OBVIOUS
<1> HIDE DEF t
<1>2. PICK f : Trace(f, v, t) /\ Folded(v, t) = f[Len(t)]
  BY <1>1, FoldTrace
<1>3. \A k \in 1..Len(s) : f[k] = Op(f[k - 1], s[k])
  BY <1>1, <1>2 DEF Trace
<1>4. Trace(f, v, s)
  BY <1>2, <1>3 DEF Trace
<1>5. Folded(v, s) = f[Len(s)]
  BY <1>4, TraceFold
<1>6. Len(s) + 1 \in 1..Len(t) /\ (Len(s) + 1) - 1 = Len(s)
  BY <1>1
<1>7. f[Len(s) + 1] = Op(f[Len(s)], t[Len(s) + 1])
  BY <1>2, <1>6 DEF Trace
<1> QED
  BY <1>1, <1>2, <1>5, <1>7 DEF t

LEMMA FoldHead ==
  ASSUME NEW v, NEW X, NEW s \in Seq(X), s # <<>>
  PROVE  Folded(Op(v, Head(s)), Tail(s)) =
           Folded(v, s)
<1>1. PICK f : Trace(f, v, s) /\ Folded(v, s) = f[Len(s)]
  BY FoldTrace
<1> DEFINE t == Tail(s)
           n == Len(t)
           g == [k \in 0..n |-> f[k + 1]]
<1>2. /\ t \in Seq(X) /\ Len(s) = n + 1 /\ n \in Nat /\ s[1] = Head(s)
      /\ \A k \in 1..n : t[k] = s[k + 1]
  OBVIOUS
<1> HIDE DEF t
<1>3. g[0] = Op(v, Head(s))
  BY <1>1, <1>2 DEF Trace
<1>4. ASSUME NEW k \in 1..n PROVE g[k] = Op(g[k - 1], t[k])
  <2>1. /\ k + 1 \in 1..Len(s) /\ (k + 1) - 1 = k /\ (k - 1) + 1 = k
        /\ k \in 0..n /\ k - 1 \in 0..n
    BY <1>2
  <2>2. f[k + 1] = Op(f[k], s[k + 1])
    BY <1>1, <2>1 DEF Trace
  <2> QED
    BY <1>2, <2>1, <2>2
<1>5. g[n] = f[Len(s)]
  BY <1>2
<1> HIDE DEF g
<1>6. Trace(g, Op(v, Head(s)), t)
  BY <1>3, <1>4 DEF Trace
<1>7. Folded(Op(v, Head(s)), t) = g[Len(t)]
  BY <1>2, <1>6, TraceFold
<1> QED
  BY <1>1, <1>5, <1>7 DEF t
=============================================================================
