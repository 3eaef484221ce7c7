---------------------------- MODULE FoldInduction ----------------------------
(***************************************************************************)
(* Induction over a fold. The library's theorems about folds and about     *)
(* induction take the operator as a parameter of the theorem, which the    *)
(* provers cannot instantiate; here the step and the invariant are         *)
(* CONSTANTS, and a module that reasons about a fold takes an INSTANCE of  *)
(* this one.                                                               *)
(***************************************************************************)
EXTENDS Integers, SequencesExt, WellFoundedInduction, TLAPS

CONSTANTS
  Step(_, _, _, _),   \* Step(p, r, s, x): the state after s and the element x
  Inv(_, _, _)     \* Inv(a, i, s): what s satisfies after i elements

\* The fold of Step over q, from base.
Run(p, r, base, q) == FoldLeft(LAMBDA s, x : Step(p, r, s, x), base, q)

-----------------------------------------------------------------------------
\* A set of numbers with 0 and the successor of each of its elements is all of Nat.
LEMMA NatSet ==
  ASSUME NEW T \in SUBSET Nat, 0 \in T, \A n \in T : n + 1 \in T
  PROVE  T = Nat
<1>1. SUFFICES ASSUME Nat \ T # {} PROVE FALSE
  OBVIOUS
<1>2. PICK m \in Nat \ T : \A y \in Nat \ T : ~ (<<y, m>> \in OpToRel(<, Nat))
  BY <1>1, NatLessThanWellFounded, WFMin
<1>3. m # 0 /\ m - 1 \in Nat /\ m - 1 < m
  OBVIOUS
<1>4. m - 1 \in T
  BY <1>2, <1>3 DEF OpToRel
<1> QED
  BY <1>3, <1>4

\* The recursive function behind FoldLeft over the numbers up to k.
Iter(p, r, base, q, k) ==
  CHOOSE f : f = [s \in SUBSET (1..k) |->
                    IF s = {} THEN base
                    ELSE Step(p, r, f[s \ {Max(s)}], q[Max(s)])]
\* f is such a function.
Solves(f, p, r, base, q, k) ==
  f = [s \in SUBSET (1..k) |->
         IF s = {} THEN base ELSE Step(p, r, f[s \ {Max(s)}], q[Max(s)])]

\* The fold is that function's value at all the numbers of the sequence.
LEMMA RunIter ==
  ASSUME NEW p, NEW r, NEW base, NEW q, NEW n \in Nat, DOMAIN q = 1..n
  PROVE  Run(p, r, base, q) = Iter(p, r, base, q, n)[1..n]
BY DEF Run, FoldLeft, MapThenFoldSet, Iter, Max

\* The largest number of a set up to k + 1 that holds k + 1.
LEMMA MaxOf ==
  ASSUME NEW k \in Nat, NEW s \in SUBSET (1..(k+1)), k + 1 \in s
  PROVE  Max(s) = k + 1
<1>1. \A y \in s : y \in Int /\ k + 1 >= y
  OBVIOUS
<1>2. \A x \in s : (\A y \in s : x >= y) => x = k + 1
  BY <1>1
<1> QED
  BY <1>1, <1>2 DEF Max

\* There is such a function: what it is on the sets up to k + 1 follows from
\* what it is on the sets up to k.
LEMMA IterStep ==
  ASSUME NEW p, NEW r, NEW base, NEW q, NEW k \in Nat, NEW f, Solves(f, p, r, base, q, k)
  PROVE  \E g : Solves(g, p, r, base, q, k + 1)
<1> DEFINE Sets == SUBSET (1..(k+1))
           g == [s \in Sets |->
                   IF k + 1 \in s THEN Step(p, r, f[s \ {k + 1}], q[k + 1]) ELSE f[s]]
           h == [s \in Sets |->
                   IF s = {} THEN base ELSE Step(p, r, g[s \ {Max(s)}], q[Max(s)])]
<1>1. ASSUME NEW s \in Sets PROVE g[s] = h[s]
  <2>1. CASE k + 1 \in s
    <3>1. s \ {k + 1} \in SUBSET (1..k) /\ s \ {k + 1} \in Sets /\ ~ (k + 1 \in s \ {k + 1})
      OBVIOUS
    <3>2. g[s \ {k + 1}] = f[s \ {k + 1}]
      BY <3>1
    <3>3. Max(s) = k + 1 /\ s # {}
      BY <2>1, MaxOf
    <3>4. h[s] = Step(p, r, g[s \ {k + 1}], q[k + 1])
      BY <3>3
    <3>5. g[s] = Step(p, r, f[s \ {k + 1}], q[k + 1])
      BY <2>1
    <3> QED
      BY <3>2, <3>4, <3>5
  <2>2. CASE ~ (k + 1 \in s)
    <3>1. s \in SUBSET (1..k)
      BY <2>2
    <3>2. s \ {Max(s)} \in SUBSET (1..k) /\ s \ {Max(s)} \in Sets
          /\ ~ (k + 1 \in s \ {Max(s)})
      BY <2>2, <3>1
    <3>3. g[s \ {Max(s)}] = f[s \ {Max(s)}]
      BY <3>2
    <3>4. g[s] = f[s]
      BY <2>2
    <3>5. f[s] = IF s = {} THEN base ELSE Step(p, r, f[s \ {Max(s)}], q[Max(s)])
      BY <3>1 DEF Solves
    <3> HIDE DEF g
    <3> QED
      BY <3>3, <3>4, <3>5
  <2> QED
    BY <2>1, <2>2
<1>2. g = h
  <2> HIDE DEF Sets
  <2>1. g = [s \in Sets |-> g[s]] /\ h = [s \in Sets |-> h[s]]
    OBVIOUS
  <2> HIDE DEF g, h
  <2> QED
    BY <1>1, <2>1
<1> WITNESS g
<1> HIDE DEF g
<1> QED
  BY <1>2 DEF Solves

\* There is one for every length.
LEMMA IterExists ==
  ASSUME NEW p, NEW r, NEW base, NEW q, NEW n \in Nat
  PROVE  Solves(Iter(p, r, base, q, n), p, r, base, q, n)
<1> DEFINE T == {k \in Nat : \E f : Solves(f, p, r, base, q, k)}
<1>1. 0 \in T
  <2> DEFINE g == [s \in SUBSET (1..0) |-> base]
  <2>1. 1..0 = {}
    OBVIOUS
  <2>2. Solves(g, p, r, base, q, 0)
    BY <2>1 DEF Solves
  <2> HIDE DEF g
  <2> QED
    BY <2>2
<1>2. \A k \in T : k + 1 \in T
  BY IterStep
<1>3. T = Nat
  <2> HIDE DEF T
  <2>1. T \in SUBSET Nat
    BY DEF T
  <2> QED
    BY <1>1, <1>2, <2>1, NatSet
<1> QED
  BY <1>3 DEF Solves, Iter

\* A fold keeps what each of its steps keeps.
LEMMA FoldInvariant ==
  ASSUME NEW p, NEW r, NEW a, NEW base, NEW q, NEW n \in Nat, DOMAIN q = 1..n,
         Inv(a, 0, base),
         \A i \in 1..n : \A s : Inv(a, i - 1, s) => Inv(a, i, Step(p, r, s, q[i]))
  PROVE  Inv(a, n, Run(p, r, base, q))
<1> DEFINE f == Iter(p, r, base, q, n)
           T == {k \in Nat : k <= n => Inv(a, k, f[1..k])}
<1>1. \A s \in SUBSET (1..n) :
         f[s] = IF s = {} THEN base ELSE Step(p, r, f[s \ {Max(s)}], q[Max(s)])
  <2> HIDE DEF f
  <2>1. Solves(f, p, r, base, q, n)
    BY IterExists DEF f
  <2> QED
    BY <2>1 DEF Solves
<1> HIDE DEF f
<1>2. 0 \in T
  <2>1. 1..0 = {} /\ 1..0 \in SUBSET (1..n)
    OBVIOUS
  <2>2. f[1..0] = base
    BY <1>1, <2>1
  <2> QED
    BY <2>2
<1>3. ASSUME NEW k \in T PROVE k + 1 \in T
  <2>1. SUFFICES ASSUME k + 1 <= n PROVE Inv(a, k + 1, f[1..(k+1)])
    OBVIOUS
  <2>2. Inv(a, k, f[1..k]) /\ k + 1 \in 1..n /\ k + 1 - 1 = k
    BY <2>1
  <2>a. k \in Nat
    OBVIOUS
  <2>3. 1..(k+1) \in SUBSET (1..n) /\ 1..(k+1) # {} /\ k + 1 \in 1..(k+1)
        /\ 1..(k+1) \in SUBSET (1..(k+1))
    <3> HIDE DEF T
    <3>1. \A y \in 1..(k+1) : y \in 1..n
      BY <2>1, <2>a
    <3>2. k + 1 \in 1..(k+1)
      BY <2>a
    <3> QED
      BY <3>1, <3>2
  <2>4. Max(1..(k+1)) = k + 1
    BY <2>3, MaxOf
  <2>5. (1..(k+1)) \ {k + 1} = 1..k
    OBVIOUS
  <2>6. f[1..(k+1)] = Step(p, r, f[1..k], q[k + 1])
    BY <1>1, <2>3, <2>4, <2>5
  <2> QED
    BY <2>2, <2>6
<1>4. T = Nat
  <2> HIDE DEF T
  <2>1. T \in SUBSET Nat
    BY DEF T
  <2> QED
    BY <1>2, <1>3, <2>1, NatSet
<1>5. Inv(a, n, f[1..n])
  BY <1>4
<1> QED
  BY <1>5, RunIter DEF f
=============================================================================
