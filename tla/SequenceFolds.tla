--------------------------- MODULE SequenceFolds ---------------------------
(***************************************************************************)
(* Folds of sequences over a monoid, for the sums of sizes and the         *)
(* concatenations of messages that the modules define as recursive         *)
(* functions.  The operation is a function here, and not an operator, so   *)
(* that the facts can be cited for any of them.                            *)
(***************************************************************************)
EXTENDS Integers, Sequences, SequenceTheorems, WellFoundedInduction, TLAPS

(* op is an operation on S, associative, with a neutral element.           *)
Monoid(S, op, unit) ==
  /\ op \in [S \X S -> S]
  /\ unit \in S
  /\ \A a \in S : op[<<unit, a>>] = a /\ op[<<a, unit>>] = a
  /\ \A a, b, c \in S : op[<<a, op[<<b, c>>]>>] = op[<<op[<<a, b>>], c>>]

(* f meets the equation of a recursive definition, as far as that says     *)
(* something: op is applied to elements of S only.                         *)
IsFold(f, T, S, val, op, unit) ==
  /\ f = [s \in Seq(T) |-> f[s]]
  /\ f[<<>>] = unit
  /\ \A s \in Seq(T) :
       s # <<>> /\ f[Tail(s)] \in S => f[s] = op[<<val[Head(s)], f[Tail(s)]>>]

(* What one wants to know of it.                                           *)
FoldLaws(f, T, S, val, op, unit) ==
  /\ f \in [Seq(T) -> S]
  /\ f[<<>>] = unit
  /\ \A s \in Seq(T) : s # <<>> => f[s] = op[<<val[Head(s)], f[Tail(s)]>>]
  /\ \A s \in Seq(T), x \in T : f[Append(s, x)] = op[<<f[s], val[x]>>]

-----------------------------------------------------------------------------

(* Induction over the natural numbers, for a set of them.                  *)
LEMMA SetInduction ==
  ASSUME NEW S \in SUBSET Nat, 0 \in S, \A n \in S : n + 1 \in S
  PROVE  S = Nat
<1> SUFFICES ASSUME Nat \ S # {}
             PROVE  FALSE
  OBVIOUS
<1>1. PICK x \in Nat \ S :
        \A y \in Nat \ S : <<y, x>> \notin OpToRel(<, Nat)
  BY NatLessThanWellFounded, WFMin
<1>2. x - 1 \in Nat
  OBVIOUS
<1>3. <<x - 1, x>> \in OpToRel(<, Nat)
  BY <1>2 DEF OpToRel
<1>4. x - 1 \notin Nat \ S
  BY <1>1, <1>3, Zenon
<1>5. x - 1 \in S /\ x = (x - 1) + 1
  BY <1>2, <1>4
<1> QED
  BY <1>5

(* Induction over sequences, for a set of them.                            *)
LEMMA TailInduction ==
  ASSUME NEW T, NEW P \in SUBSET Seq(T), <<>> \in P,
         \A s \in Seq(T) : s # <<>> /\ Tail(s) \in P => s \in P
  PROVE  P = Seq(T)
<1> DEFINE N == {n \in Nat : \A s \in Seq(T) : Len(s) = n => s \in P}
<1>1. 0 \in N
  <2>1. \A s \in Seq(T) : Len(s) = 0 => s = <<>>
    BY EmptySeq
  <2> QED
    BY <2>1
<1>2. ASSUME NEW n \in N
      PROVE  n + 1 \in N
  <2>1. ASSUME NEW s \in Seq(T), Len(s) = n + 1
        PROVE  s \in P
    <3>1. s # <<>> /\ Len(s) - 1 = n
      BY <2>1
    <3>2. Tail(s) \in Seq(T) /\ Len(Tail(s)) = n
      BY <3>1, HeadTailProperties
    <3>3. Tail(s) \in P
      BY <3>2
    <3> QED
      BY <3>1, <3>3
  <2> QED
    BY <2>1
<1>3. N \in SUBSET Nat
  OBVIOUS
<1> HIDE DEF N
<1>4. N = Nat
  BY <1>1, <1>2, <1>3, SetInduction
<1>5. ASSUME NEW s \in Seq(T)
      PROVE  s \in P
  <2>1. Len(s) \in N
    BY <1>4, LenProperties
  <2> QED
    BY <2>1 DEF N
<1> QED
  BY <1>5

-----------------------------------------------------------------------------
(* Existence                                                               *)

(* f is the fold for sequences of at most n elements.                      *)
FoldsUpTo(f, n, T, S, val, op, unit) ==
  /\ f \in [Seq(T) -> S]
  /\ \A s \in Seq(T) :
       Len(s) <= n =>
         f[s] = IF s = <<>> THEN unit ELSE op[<<val[Head(s)], f[Tail(s)]>>]

(* The next element and what the fold gives for the rest fit together.     *)
LEMMA FoldStepType ==
  ASSUME NEW T, NEW S, NEW val \in [T -> S], NEW op \in [S \X S -> S],
         NEW s \in Seq(T), s # <<>>
  PROVE  /\ val[Head(s)] \in S
         /\ Tail(s) \in Seq(T)
         /\ Len(s) \in Nat \ {0} /\ Len(Tail(s)) = Len(s) - 1
         /\ \A a \in S : op[<<val[Head(s)], a>>] \in S
<1>1. Head(s) \in T /\ Tail(s) \in Seq(T) /\ Len(Tail(s)) = Len(s) - 1
  BY HeadTailProperties
<1>2. Len(s) \in Nat \ {0}
  BY EmptySeq
<1>3. val[Head(s)] \in S
  BY <1>1
<1> QED
  BY <1>1, <1>2, <1>3

(* There is such a function for every n.                                   *)
LEMMA FoldsUpToExist ==
  ASSUME NEW T, NEW S, NEW val \in [T -> S], NEW op, NEW unit,
         Monoid(S, op, unit)
  PROVE  \A n \in Nat : \E f : FoldsUpTo(f, n, T, S, val, op, unit)
<1> DEFINE Up(f, n) == FoldsUpTo(f, n, T, S, val, op, unit)
           N == {n \in Nat : \E f : Up(f, n)}
<1>0. op \in [S \X S -> S] /\ unit \in S
  BY DEF Monoid
<1>1. 0 \in N
  <2> DEFINE f == [s \in Seq(T) |-> unit]
  <2>1. \A s \in Seq(T) : Len(s) <= 0 => s = <<>>
    BY EmptySeq
  <2>2. Up(f, 0)
    BY <1>0, <2>1 DEF FoldsUpTo
  <2> QED
    BY <2>2
<1>2. ASSUME NEW n \in N
      PROVE  n + 1 \in N
  <2>1. n \in Nat
    OBVIOUS
  <2>2. PICK f : Up(f, n)
    OBVIOUS
  <2> DEFINE g == [s \in Seq(T) |->
                     IF s = <<>> THEN unit ELSE op[<<val[Head(s)], f[Tail(s)]>>]]
  <2>3. \A s \in Seq(T) : Len(s) <= n => g[s] = f[s]
    BY <2>2 DEF FoldsUpTo
  <2>4. g \in [Seq(T) -> S]
    <3>1. \A s \in Seq(T) : f[s] \in S
      BY <2>2 DEF FoldsUpTo
    <3>2. ASSUME NEW s \in Seq(T), s # <<>>
          PROVE  op[<<val[Head(s)], f[Tail(s)]>>] \in S
      <4>1. Tail(s) \in Seq(T) /\ \A a \in S : op[<<val[Head(s)], a>>] \in S
        BY <1>0, <3>2, FoldStepType
      <4> QED
        BY <3>1, <4>1
    <3> QED
      BY <1>0, <3>2
  <2>5. ASSUME NEW s \in Seq(T), Len(s) <= n + 1, s # <<>>
        PROVE  g[s] = op[<<val[Head(s)], g[Tail(s)]>>]
    <3>1. Tail(s) \in Seq(T) /\ Len(Tail(s)) <= n
      BY <1>0, <2>1, <2>5, FoldStepType
    <3>2. g[s] = op[<<val[Head(s)], f[Tail(s)]>>]
      BY <2>5
    <3> QED
      BY <2>3, <3>1, <3>2
  <2>6. Up(g, n + 1)
    <3>1. <<>> \in Seq(T) => g[<<>>] = unit
      OBVIOUS
    <3> HIDE DEF g
    <3> QED
      BY <2>4, <2>5, <3>1 DEF FoldsUpTo
  <2> QED
    BY <2>1, <2>6
<1>3. N \in SUBSET Nat
  OBVIOUS
<1> HIDE DEF N
<1>4. N = Nat
  BY <1>1, <1>2, <1>3, SetInduction
<1> QED
  BY <1>4 DEF N

(* Two of them agree on the sequences that both are right about.           *)
LEMMA FoldsAgree ==
  ASSUME NEW T, NEW S, NEW val \in [T -> S], NEW op, NEW unit,
         Monoid(S, op, unit), NEW m \in Nat, NEW n \in Nat, NEW f, NEW g,
         FoldsUpTo(f, m, T, S, val, op, unit),
         FoldsUpTo(g, n, T, S, val, op, unit)
  PROVE  \A s \in Seq(T) : Len(s) <= m /\ Len(s) <= n => f[s] = g[s]
<1> DEFINE P == {s \in Seq(T) : Len(s) <= m /\ Len(s) <= n => f[s] = g[s]}
<1>0. op \in [S \X S -> S]
  BY DEF Monoid
<1>1. <<>> \in P
  <2>1. <<>> \in Seq(T) /\ Len(<<>>) <= m /\ Len(<<>>) <= n
    OBVIOUS
  <2>2. f[<<>>] = unit /\ g[<<>>] = unit
    BY <2>1 DEF FoldsUpTo
  <2> QED
    BY <2>1, <2>2
<1>2. ASSUME NEW s \in Seq(T), s # <<>>, Tail(s) \in P
      PROVE  s \in P
  <2> SUFFICES ASSUME Len(s) <= m, Len(s) <= n
               PROVE  f[s] = g[s]
    OBVIOUS
  <2>1. Len(s) \in Nat \ {0} /\ Len(Tail(s)) = Len(s) - 1
    BY <1>0, <1>2, FoldStepType
  <2>2. f[Tail(s)] = g[Tail(s)]
    BY <1>2, <2>1
  <2>3. /\ f[s] = op[<<val[Head(s)], f[Tail(s)]>>]
        /\ g[s] = op[<<val[Head(s)], g[Tail(s)]>>]
    BY <1>2 DEF FoldsUpTo
  <2> QED
    BY <2>2, <2>3
<1>3. P \in SUBSET Seq(T)
  OBVIOUS
<1> HIDE DEF P
<1>4. P = Seq(T)
  BY <1>1, <1>2, <1>3, TailInduction
<1> QED
  BY <1>4 DEF P

(* So there is a fold for all sequences.                                   *)
LEMMA FoldExists ==
  ASSUME NEW T, NEW S, NEW val \in [T -> S], NEW op, NEW unit,
         Monoid(S, op, unit)
  PROVE  \E f : f \in [Seq(T) -> S] /\ IsFold(f, T, S, val, op, unit)
<1> DEFINE Up(f, n) == FoldsUpTo(f, n, T, S, val, op, unit)
           F(n) == CHOOSE f : Up(f, n)
           h == [s \in Seq(T) |-> F(Len(s))[s]]
<1>0. op \in [S \X S -> S] /\ unit \in S
  BY DEF Monoid
<1>1. \A n \in Nat : Up(F(n), n)
  <2>1. \A n \in Nat : \E f : Up(f, n)
    BY FoldsUpToExist
  <2> QED
    BY <2>1
<1> HIDE DEF F
<1>2. \A s \in Seq(T) : Len(s) \in Nat
  BY LenProperties
<1>3. h \in [Seq(T) -> S]
  BY <1>1, <1>2 DEF FoldsUpTo
<1>4. ASSUME NEW s \in Seq(T)
      PROVE  h[s] = IF s = <<>> THEN unit ELSE op[<<val[Head(s)], h[Tail(s)]>>]
  <2>1. h[s] = IF s = <<>> THEN unit
                           ELSE op[<<val[Head(s)], F(Len(s))[Tail(s)]>>]
    BY <1>1, <1>2 DEF FoldsUpTo
  <2>2. ASSUME s # <<>>
        PROVE  F(Len(s))[Tail(s)] = h[Tail(s)]
    <3>1. /\ Tail(s) \in Seq(T) /\ Len(Tail(s)) \in Nat
          /\ Len(s) \in Nat /\ Len(Tail(s)) <= Len(s)
      BY <1>0, <2>2, FoldStepType
    <3> DEFINE f == F(Len(s))
               g == F(Len(Tail(s)))
    <3>2. Up(f, Len(s)) /\ Up(g, Len(Tail(s)))
      BY <1>1, <3>1
    <3>3. h[Tail(s)] = g[Tail(s)]
      BY <3>1
    <3> HIDE DEF f, g
    <3>4. f[Tail(s)] = g[Tail(s)]
      <4>1. \A t \in Seq(T) :
              Len(t) <= Len(s) /\ Len(t) <= Len(Tail(s)) => f[t] = g[t]
        BY <3>1, <3>2, FoldsAgree
      <4>2. Len(Tail(s)) <= Len(Tail(s))
        BY <3>1
      <4> QED
        BY <3>1, <4>1, <4>2, Zenon
    <3> QED
      BY <3>3, <3>4 DEF f
  <2> QED
    BY <2>1, <2>2
<1>5. <<>> \in Seq(T)
  OBVIOUS
<1> HIDE DEF h
<1>6. IsFold(h, T, S, val, op, unit)
  BY <1>3, <1>4, <1>5 DEF IsFold
<1> QED
  BY <1>3, <1>6

-----------------------------------------------------------------------------

(* A recursive function that folds has values in S, takes an element off   *)
(* the front by its equation and, as op is associative, one onto the end.  *)
LEMMA FoldFacts ==
  ASSUME NEW T, NEW S, NEW val \in [T -> S], NEW op, NEW unit,
         Monoid(S, op, unit), NEW f, IsFold(f, T, S, val, op, unit)
  PROVE  FoldLaws(f, T, S, val, op, unit)
<1>0. op \in [S \X S -> S] /\ unit \in S
  BY DEF Monoid
<1>1. \A s \in Seq(T) : f[s] \in S
  <2> DEFINE P == {s \in Seq(T) : f[s] \in S}
  <2>1. <<>> \in P
    BY <1>0 DEF IsFold
  <2>2. ASSUME NEW s \in Seq(T), s # <<>>, Tail(s) \in P
        PROVE  s \in P
    <3>1. f[s] = op[<<val[Head(s)], f[Tail(s)]>>]
      BY <2>2 DEF IsFold
    <3>2. \A a \in S : op[<<val[Head(s)], a>>] \in S
      BY <1>0, <2>2, FoldStepType
    <3> QED
      BY <2>2, <3>1, <3>2
  <2>3. P \in SUBSET Seq(T)
    OBVIOUS
  <2> HIDE DEF P
  <2>4. P = Seq(T)
    BY <2>1, <2>2, <2>3, TailInduction
  <2> QED
    BY <2>4 DEF P
<1>2. \A s \in Seq(T) : s # <<>> => f[s] = op[<<val[Head(s)], f[Tail(s)]>>]
  <2>1. \A s \in Seq(T) : s # <<>> => Tail(s) \in Seq(T)
    BY HeadTailProperties
  <2> QED
    BY <1>1, <2>1 DEF IsFold
<1>3. ASSUME NEW x \in T
      PROVE  \A s \in Seq(T) : f[Append(s, x)] = op[<<f[s], val[x]>>]
  <2> DEFINE P == {s \in Seq(T) : f[Append(s, x)] = op[<<f[s], val[x]>>]}
  <2>0. val[x] \in S
    OBVIOUS
  <2>1. <<>> \in P
    <3>1. /\ Append(<<>>, x) \in Seq(T) /\ Append(<<>>, x) # <<>>
          /\ Head(Append(<<>>, x)) = x /\ Tail(Append(<<>>, x)) = <<>>
      OBVIOUS
    <3>2. f[<<>>] = unit
      BY DEF IsFold
    <3>3. f[Append(<<>>, x)] = op[<<val[x], unit>>]
      BY <1>2, <3>1, <3>2
    <3>4. op[<<val[x], unit>>] = val[x] /\ op[<<unit, val[x]>>] = val[x]
      BY <2>0 DEF Monoid
    <3> QED
      BY <3>2, <3>3, <3>4
  <2>2. ASSUME NEW s \in Seq(T), s # <<>>, Tail(s) \in P
        PROVE  s \in P
    <3>1. /\ Append(s, x) \in Seq(T) /\ Append(s, x) # <<>>
          /\ Head(Append(s, x)) = Head(s)
          /\ Tail(Append(s, x)) = Append(Tail(s), x)
      BY <2>2, HeadTailAppend
    <3>2. f[Append(s, x)] = op[<<val[Head(s)], f[Append(Tail(s), x)]>>]
      BY <1>2, <3>1
    <3>3. f[Append(Tail(s), x)] = op[<<f[Tail(s)], val[x]>>]
      BY <2>2
    <3>4. val[Head(s)] \in S /\ f[Tail(s)] \in S
      BY <1>0, <1>1, <2>2, FoldStepType
    <3>5. op[<<val[Head(s)], op[<<f[Tail(s)], val[x]>>]>>] =
            op[<<op[<<val[Head(s)], f[Tail(s)]>>], val[x]>>]
      BY <2>0, <3>4 DEF Monoid
    <3>6. f[s] = op[<<val[Head(s)], f[Tail(s)]>>]
      BY <1>2, <2>2
    <3> QED
      BY <3>2, <3>3, <3>5, <3>6
  <2>3. P \in SUBSET Seq(T)
    OBVIOUS
  <2> HIDE DEF P
  <2>4. P = Seq(T)
    BY <2>1, <2>2, <2>3, TailInduction
  <2> QED
    BY <2>4 DEF P
<1> QED
  BY <1>1, <1>2, <1>3 DEF FoldLaws, IsFold

-----------------------------------------------------------------------------
(* The two monoids the modules use                                         *)

plus == [p \in Nat \X Nat |-> p[1] + p[2]]
concat(E) == [p \in Seq(E) \X Seq(E) |-> p[1] \o p[2]]

(* Addition                                                                *)
LEMMA PlusMonoid == Monoid(Nat, plus, 0)
BY DEF Monoid, plus

(* Concatenation                                                           *)
LEMMA ConcatMonoid == ASSUME NEW E PROVE Monoid(Seq(E), concat(E), <<>>)
<1>1. concat(E) \in [Seq(E) \X Seq(E) -> Seq(E)]
  BY ConcatProperties DEF concat
<1>2. \A a, b \in Seq(E) : concat(E)[<<a, b>>] = a \o b
  BY DEF concat
<1>3. \A a, b \in Seq(E) : a \o b \in Seq(E)
  BY ConcatProperties
<1>4. <<>> \in Seq(E)
  OBVIOUS
<1> HIDE DEF concat
<1>5. \A a \in Seq(E) : concat(E)[<<<<>>, a>>] = a /\ concat(E)[<<a, <<>>>>] = a
  <2>1. \A a \in Seq(E) : <<>> \o a = a /\ a \o <<>> = a
    BY ConcatEmptySeq
  <2> QED
    BY <1>2, <1>4, <2>1
<1>6. ASSUME NEW a \in Seq(E), NEW b \in Seq(E), NEW c \in Seq(E)
      PROVE  concat(E)[<<a, concat(E)[<<b, c>>]>>] =
               concat(E)[<<concat(E)[<<a, b>>], c>>]
  <2>1. a \o (b \o c) = (a \o b) \o c
    BY ConcatAssociative
  <2>2. concat(E)[<<a, concat(E)[<<b, c>>]>>] = a \o (b \o c)
    BY <1>2, <1>3, Zenon
  <2>3. concat(E)[<<concat(E)[<<a, b>>], c>>] = (a \o b) \o c
    BY <1>2, <1>3, Zenon
  <2> QED
    BY <2>1, <2>2, <2>3
<1> QED
  BY <1>1, <1>4, <1>5, <1>6 DEF Monoid

-----------------------------------------------------------------------------
(* Sums of the values that val gives to the elements                       *)

SumDef(f, T, val) ==
  f = [s \in Seq(T) |-> IF s = <<>> THEN 0 ELSE val[Head(s)] + f[Tail(s)]]

SumLaws(f, T, val) ==
  /\ f \in [Seq(T) -> Nat]
  /\ f[<<>>] = 0
  /\ \A s \in Seq(T) : s # <<>> => f[s] = val[Head(s)] + f[Tail(s)]
  /\ \A s \in Seq(T), x \in T : f[Append(s, x)] = f[s] + val[x]

(* There is a sum of the values.                                           *)
LEMMA SumExists ==
  ASSUME NEW T, NEW val \in [T -> Nat]
  PROVE  \E f : SumDef(f, T, val)
<1>1. \A s \in Seq(T) : s # <<>> => val[Head(s)] \in Nat /\ Tail(s) \in Seq(T)
  BY HeadTailProperties
<1>2. \A a, b \in Nat : plus[<<a, b>>] = a + b
  BY DEF plus
<1>3. PICK f : f \in [Seq(T) -> Nat] /\ IsFold(f, T, Nat, val, plus, 0)
  BY PlusMonoid, FoldExists
<1>4. ASSUME NEW s \in Seq(T)
      PROVE  f[s] = IF s = <<>> THEN 0 ELSE val[Head(s)] + f[Tail(s)]
  BY <1>1, <1>2, <1>3 DEF IsFold
<1>5. SumDef(f, T, val)
  BY <1>3, <1>4 DEF SumDef
<1> QED
  BY <1>5

(* A recursive function with the equation of a sum obeys its laws.         *)
LEMMA SumFacts ==
  ASSUME NEW T, NEW val \in [T -> Nat], NEW f, SumDef(f, T, val)
  PROVE  SumLaws(f, T, val)
<1>1. \A s \in Seq(T) : s # <<>> => val[Head(s)] \in Nat /\ Tail(s) \in Seq(T)
  BY HeadTailProperties
<1>2. \A a, b \in Nat : plus[<<a, b>>] = a + b
  BY DEF plus
<1>3. IsFold(f, T, Nat, val, plus, 0)
  <2>1. f = [s \in Seq(T) |-> f[s]]
    BY DEF SumDef
  <2>2. \A s \in Seq(T) :
          f[s] = IF s = <<>> THEN 0 ELSE val[Head(s)] + f[Tail(s)]
    BY DEF SumDef
  <2>3. <<>> \in Seq(T)
    OBVIOUS
  <2> QED
    BY <1>1, <1>2, <2>1, <2>2, <2>3 DEF IsFold
<1>4. FoldLaws(f, T, Nat, val, plus, 0)
  BY <1>3, PlusMonoid, FoldFacts
<1>5. f \in [Seq(T) -> Nat] /\ f[<<>>] = 0
  BY <1>4 DEF FoldLaws
<1>6. ASSUME NEW s \in Seq(T), s # <<>>
      PROVE  f[s] = val[Head(s)] + f[Tail(s)]
  <2>1. f[s] = plus[<<val[Head(s)], f[Tail(s)]>>]
    BY <1>4, <1>6 DEF FoldLaws
  <2> QED
    BY <1>1, <1>2, <1>5, <1>6, <2>1
<1>7. ASSUME NEW s \in Seq(T), NEW x \in T
      PROVE  f[Append(s, x)] = f[s] + val[x]
  <2>1. f[Append(s, x)] = plus[<<f[s], val[x]>>]
    BY <1>4 DEF FoldLaws
  <2> QED
    BY <1>2, <1>5, <2>1
<1> QED
  BY <1>5, <1>6, <1>7 DEF SumLaws

-----------------------------------------------------------------------------
(* The sum of a sequence of numbers                                        *)

NumbersDef(f) ==
  f = [q \in Seq(Nat) |-> IF q = <<>> THEN 0 ELSE Head(q) + f[Tail(q)]]

NumbersLaws(f) ==
  /\ f \in [Seq(Nat) -> Nat]
  /\ f[<<>>] = 0
  /\ \A q \in Seq(Nat) : q # <<>> => f[q] = Head(q) + f[Tail(q)]
  /\ \A q \in Seq(Nat), n \in Nat : f[Append(q, n)] = f[q] + n

(* A recursive function with that equation sums the numbers.               *)
LEMMA NumbersFacts ==
  ASSUME NEW f, f = CHOOSE g : NumbersDef(g)
  PROVE  NumbersLaws(f)
<1> DEFINE id == [n \in Nat |-> n]
<1>1. id \in [Nat -> Nat] /\ \A n \in Nat : id[n] = n
  OBVIOUS
<1>2. \A q \in Seq(Nat) : q # <<>> => Head(q) \in Nat
  OBVIOUS
<1> HIDE DEF id
<1>3. \A g : NumbersDef(g) <=> SumDef(g, Nat, id)
  <2>1. ASSUME NEW g
        PROVE  [q \in Seq(Nat) |-> IF q = <<>> THEN 0 ELSE Head(q) + g[Tail(q)]]
                 = [q \in Seq(Nat) |->
                      IF q = <<>> THEN 0 ELSE id[Head(q)] + g[Tail(q)]]
    BY <1>1, <1>2
  <2> QED
    BY <2>1 DEF SumDef, NumbersDef
<1>4. \E g : SumDef(g, Nat, id)
  BY <1>1, SumExists
<1>5. SumDef(f, Nat, id)
  <2>1. \E g : NumbersDef(g)
    BY <1>3, <1>4
  <2>2. NumbersDef(f)
    BY <2>1
  <2> QED
    BY <1>3, <2>2
<1>6. SumLaws(f, Nat, id)
  BY <1>1, <1>5, SumFacts
<1> QED
  BY <1>1, <1>2, <1>6 DEF SumLaws, NumbersLaws

(* If one number is replaced, the sum changes by the difference.           *)
LEMMA NumbersReplace ==
  ASSUME NEW f, NumbersLaws(f), NEW v \in Nat
  PROVE  \A s \in Seq(Nat) : \A i \in 1 .. Len(s) :
           f[[s EXCEPT ![i] = v]] + s[i] = f[s] + v
<1> DEFINE Good(s) == \A i \in 1 .. Len(s) :
                        f[[s EXCEPT ![i] = v]] + s[i] = f[s] + v
           P == {s \in Seq(Nat) : Good(s)}
<1>1. <<>> \in P
  OBVIOUS
<1>2. ASSUME NEW s \in Seq(Nat), s # <<>>, Tail(s) \in P
      PROVE  s \in P
  <2> DEFINE h == Head(s)
             r == Tail(s)
  <2>1. /\ h \in Nat /\ h = s[1] /\ r \in Seq(Nat)
        /\ Len(s) \in Nat \ {0} /\ Len(r) = Len(s) - 1
        /\ \A i \in 1 .. Len(s) - 1 : r[i] = s[i + 1]
    BY <1>2, HeadTailProperties, EmptySeq
  <2>2. f[s] = h + f[r] /\ f[r] \in Nat
    BY <1>2, <2>1 DEF NumbersLaws
  <2>3. \A i \in 1 .. Len(r) : f[[r EXCEPT ![i] = v]] + r[i] = f[r] + v
    BY <1>2
  <2> HIDE DEF h, r
  <2>4. ASSUME NEW i \in 1 .. Len(s)
        PROVE  f[[s EXCEPT ![i] = v]] + s[i] = f[s] + v
    <3> DEFINE t == [s EXCEPT ![i] = v]
    <3>1. /\ t \in Seq(Nat) /\ Len(t) = Len(s) /\ t # <<>>
          /\ \A k \in 1 .. Len(s) : t[k] = IF k = i THEN v ELSE s[k]
      BY <2>1
    <3> SUFFICES f[t] + s[i] = f[s] + v
      OBVIOUS
    <3> HIDE DEF t
    <3>2. /\ Head(t) = t[1] /\ Tail(t) \in Seq(Nat)
          /\ Len(Tail(t)) = Len(s) - 1
          /\ \A k \in 1 .. Len(s) - 1 : Tail(t)[k] = t[k + 1]
      BY <2>1, <3>1, HeadTailProperties
    <3>3. f[t] = Head(t) + f[Tail(t)]
      BY <3>1 DEF NumbersLaws
    <3>4. CASE i = 1
      <4>1. Tail(t) = r
        <5>1. \A k \in 1 .. Len(r) : Tail(t)[k] = r[k]
          BY <2>1, <3>1, <3>2, <3>4
        <5> QED
          BY <2>1, <3>2, <5>1, SeqEqual
      <4>2. Head(t) = v /\ s[i] = h
        BY <2>1, <3>1, <3>2, <3>4
      <4>3. f[t] = v + f[r]
        BY <3>3, <4>1, <4>2
      <4>4. h \in Nat /\ f[r] \in Nat /\ f[s] = h + f[r]
        BY <2>1, <2>2
      <4> QED
        BY <4>2, <4>3, <4>4
    <3>5. CASE i # 1
      <4> DEFINE j == i - 1
                 u == [r EXCEPT ![j] = v]
      <4>1. j \in 1 .. Len(r) /\ i = j + 1
        BY <2>1, <3>5
      <4> HIDE DEF j
      <4>2. /\ u \in Seq(Nat) /\ Len(u) = Len(r)
            /\ \A k \in 1 .. Len(r) : u[k] = IF k = j THEN v ELSE r[k]
        <5>1. r \in Seq(Nat) /\ j \in 1 .. Len(r)
          BY <2>1, <4>1
        <5> QED
          BY <5>1
      <4>3. f[u] + r[j] = f[r] + v
        BY <2>3, <4>1
      <4> HIDE DEF u
      <4>4. Tail(t) = u
        <5>1. ASSUME NEW k \in 1 .. Len(u)
              PROVE  Tail(t)[k] = u[k]
          <6>1. k \in 1 .. Len(s) - 1 /\ k + 1 \in 1 .. Len(s)
            BY <2>1, <4>2
          <6>2. Tail(t)[k] = IF k + 1 = i THEN v ELSE s[k + 1]
            BY <3>1, <3>2, <6>1
          <6>3. k + 1 = i <=> k = j
            BY <4>1, <6>1
          <6> QED
            BY <2>1, <4>2, <6>1, <6>2, <6>3
        <5> QED
          BY <2>1, <3>2, <4>2, <5>1, SeqEqual
      <4>5. Head(t) = h /\ r[j] = s[i]
        <5>1. Head(t) = s[1]
          <6>1. 1 \in 1 .. Len(s) /\ 1 # i
            BY <2>1, <3>5
          <6>2. t[1] = s[1]
            BY <3>1, <6>1
          <6> QED
            BY <3>2, <6>2
        <5>2. r[j] = s[j + 1]
          BY <2>1, <4>1
        <5> QED
          BY <2>1, <4>1, <5>1, <5>2
      <4>6. r[j] \in Nat
        BY <2>1, <4>1
      <4>7. f[u] \in Nat
        BY <4>2 DEF NumbersLaws
      <4>8. f[t] = h + f[u]
        BY <3>3, <4>4, <4>5
      <4>9. h \in Nat /\ f[r] \in Nat /\ f[s] = h + f[r]
        BY <2>1, <2>2
      <4> DEFINE x == r[j]
                 y == f[u]
                 z == f[r]
      <4>10. /\ x \in Nat /\ y \in Nat /\ z \in Nat /\ h \in Nat
             /\ y + x = z + v
        BY <4>3, <4>6, <4>7, <4>9
      <4>11. f[t] = h + y /\ s[i] = x /\ f[s] = h + z
        BY <4>5, <4>8, <4>9
      <4> HIDE DEF x, y, z
      <4>12. (h + y) + x = (h + z) + v
        BY <4>10
      <4> QED
        BY <4>11, <4>12, Zenon
    <3> QED
      BY <3>4, <3>5
  <2> QED
    BY <2>4
<1>3. P \in SUBSET Seq(Nat)
  OBVIOUS
<1> HIDE DEF P
<1>4. P = Seq(Nat)
  BY <1>1, <1>2, <1>3, TailInduction
<1> QED
  BY <1>4 DEF P

(* Zeros add up to zero.                                                   *)
LEMMA NumbersZero ==
  ASSUME NEW f, NumbersLaws(f)
  PROVE  \A s \in Seq(Nat) : (\A i \in 1 .. Len(s) : s[i] = 0) => f[s] = 0
<1> DEFINE P == {s \in Seq(Nat) : (\A i \in 1 .. Len(s) : s[i] = 0) => f[s] = 0}
<1>1. <<>> \in P
  BY DEF NumbersLaws
<1>2. ASSUME NEW s \in Seq(Nat), s # <<>>, Tail(s) \in P
      PROVE  s \in P
  <2> SUFFICES ASSUME \A i \in 1 .. Len(s) : s[i] = 0
               PROVE  f[s] = 0
    OBVIOUS
  <2>1. /\ Head(s) = s[1] /\ Tail(s) \in Seq(Nat)
        /\ Len(s) \in Nat \ {0} /\ Len(Tail(s)) = Len(s) - 1
        /\ \A i \in 1 .. Len(s) - 1 : Tail(s)[i] = s[i + 1]
    BY <1>2, HeadTailProperties, EmptySeq
  <2>2. \A i \in 1 .. Len(Tail(s)) : Tail(s)[i] = 0
    BY <2>1
  <2>3. f[Tail(s)] = 0 /\ Head(s) = 0
    <3>1. f[Tail(s)] = 0
      BY <1>2, <2>2
    <3>2. 1 \in 1 .. Len(s)
      BY <2>1
    <3> QED
      BY <2>1, <3>1, <3>2
  <2>4. f[s] = Head(s) + f[Tail(s)]
    BY <1>2 DEF NumbersLaws
  <2> QED
    BY <2>3, <2>4
<1>3. P \in SUBSET Seq(Nat)
  OBVIOUS
<1> HIDE DEF P
<1>4. P = Seq(Nat)
  BY <1>1, <1>2, <1>3, TailInduction
<1> QED
  BY <1>4 DEF P

=============================================================================
