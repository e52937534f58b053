-------------------------- MODULE StreamRelayProofs --------------------------
(***************************************************************************)
(* Theorems about StreamRelay: for any requests, answers and lines, any    *)
(* limits of the token plan and any length of a stream.                    *)
(***************************************************************************)
EXTENDS StreamRelay, FiniteSetTheorems, SequenceTheorems, WellFoundedInduction, TLAPS

(***************************************************************************)
(* Recursion over the naturals.  The induction theorems of the library     *)
(* take an operator; a set of naturals and its least element do without.   *)
(***************************************************************************)
\* A set of naturals has a least element.
LEMMA Least ==
  ASSUME NEW T, T \subseteq Nat, T # {}
  PROVE \E x \in T : \A y \in T : x <= y
<1> DEFINE R == OpToRel(<, Nat)
<1>1. IsWellFoundedOn(R, Nat)
  BY NatLessThanWellFounded
<1>2. \A x, y \in Nat : <<y, x>> \in R <=> y < x
  BY DEF OpToRel
<1> HIDE DEF R
<1>3. \E x \in T : \A y \in T : ~ (<<y, x>> \in R)
  BY <1>1, WFMin
<1>4. PICK x \in T : \A y \in T : ~ (<<y, x>> \in R)
  BY <1>3
<1>5. ASSUME NEW y \in T PROVE x <= y
  <2>1. x \in Nat /\ y \in Nat /\ ~ (<<y, x>> \in R)
    BY <1>4
  <2>2. ~(y < x)
    BY <1>2, <2>1
  <2>3. QED
    BY <2>1, <2>2
<1>6. QED
  BY <1>5

\* Induction: a set that has 0 and the successor of each of its elements has them all.
LEMMA Induct ==
  ASSUME NEW T, T \subseteq Nat, 0 \in T, \A n \in T : n + 1 \in T
  PROVE  T = Nat
<1>1. SUFFICES ASSUME NEW k \in Nat, k \notin T PROVE FALSE
  OBVIOUS
<1>2. PICK x \in Nat \ T : \A y \in Nat \ T : x <= y
  <2> DEFINE U == Nat \ T
  <2>1. U \subseteq Nat /\ U # {}
    BY <1>1
  <2> HIDE DEF U
  <2>2. \E x \in U : \A y \in U : x <= y
    BY <2>1, Least
  <2>3. QED
    BY <2>2 DEF U
<1>3. x # 0 /\ x - 1 \in Nat
  OBVIOUS
<1>4. x - 1 \in T
  BY <1>2, <1>3
<1>5. (x - 1) + 1 = x
  OBVIOUS
<1>6. QED
  BY <1>2, <1>4, <1>5

\* f iterates g from a.
Iterates(f, X, m, n, a, g) ==
  /\ f \in [m..(m + n) -> X]
  /\ f[m] = a /\ \A i \in (m + 1)..(m + n) : f[i] = g[<<i, f[i - 1]>>]

\* There is an iteration of a given length.
LEMMA Iterate ==
  ASSUME NEW X, NEW m \in Nat, NEW a \in X, NEW g \in [Nat \X X -> X], NEW n \in Nat
  PROVE  \E f : Iterates(f, X, m, n, a, g)
<1> DEFINE T == {k \in Nat : \E f \in [m..(m + k) -> X] :
                    f[m] = a /\ \A i \in (m + 1)..(m + k) : f[i] = g[<<i, f[i - 1]>>]}
<1>1. 0 \in T
  <2> DEFINE f == [i \in m..(m + 0) |-> a]
  <2>1. f \in [m..(m + 0) -> X] /\ f[m] = a /\ (m + 1)..(m + 0) = {}
    OBVIOUS
  <2> HIDE DEF f
  <2>2. QED
    BY <2>1
<1>2. ASSUME NEW k \in T PROVE k + 1 \in T
  <2>1. k \in Nat
    OBVIOUS
  <2>2. PICK f \in [m..(m + k) -> X] : f[m] = a /\ \A i \in (m + 1)..(m + k) : f[i] = g[<<i, f[i - 1]>>]
    OBVIOUS
  <2> DEFINE h == [i \in m..(m + (k + 1)) |-> IF i \in m..(m + k) THEN f[i] ELSE g[<<i, f[m + k]>>]]
  <2>3. \A i \in m..(m + k) : f[i] \in X /\ i \in m..(m + (k + 1))
    BY <2>1, <2>2
  <2>4. m + k \in m..(m + k) /\ f[m + k] \in X
    BY <2>1, <2>2
  <2>5. h \in [m..(m + (k + 1)) -> X]
    BY <2>1, <2>3, <2>4
  <2>6. /\ \A i \in m..(m + k) : h[i] = f[i]
        /\ m + (k + 1) \notin m..(m + k)
        /\ h[m + (k + 1)] = g[<<m + (k + 1), f[m + k]>>]
    BY <2>1, <2>3
  <2> HIDE DEF h
  <2>7. h[m] = a
    BY <2>1, <2>2, <2>6
  <2>8. ASSUME NEW i \in (m + 1)..(m + (k + 1)) PROVE h[i] = g[<<i, h[i - 1]>>]
    <3>1. CASE i \in (m + 1)..(m + k)
      <4>1. i \in m..(m + k) /\ i - 1 \in m..(m + k)
        BY <2>1, <3>1
      <4>2. QED
        BY <2>2, <2>6, <3>1, <4>1
    <3>2. CASE i = m + (k + 1)
      <4>1. i - 1 = m + k
        BY <2>1, <3>2
      <4>2. QED
        BY <2>4, <2>6, <3>2, <4>1
    <3>3. QED
      BY <2>1, <2>8, <3>1, <3>2
  <2>9. \E e \in [m..(m + (k + 1)) -> X] :
          e[m] = a /\ \A i \in (m + 1)..(m + (k + 1)) : e[i] = g[<<i, e[i - 1]>>]
    BY <2>5, <2>7, <2>8, Zenon
  <2>10. k + 1 \in Nat
    BY <2>1
  <2>11. QED
    BY <2>9, <2>10, Zenon
<1> HIDE DEF T
<1>3. T \subseteq Nat
  BY DEF T
<1>4. T = Nat
  BY <1>1, <1>2, <1>3, Induct
<1>5. QED
  BY <1>4 DEF T, Iterates


\* The recursion in FlattenSeq.
Flattens(f, s) ==
  f = [i \in 1..Len(s) |-> IF i = 1 THEN s[i] ELSE f[i - 1] \o s[i]]

\* FlattenSeq is such a recursion.
LEMMA FlattenIs ==
  ASSUME NEW C, NEW s \in Seq(Seq(C)), s # <<>>
  PROVE  \E f : Flattens(f, s) /\ FlattenSeq(s) = f[Len(s)]
<1> DEFINE fl == CHOOSE f : Flattens(f, s)
           g  == [p \in Nat \X Seq(C) |-> IF p[1] \in 1..Len(s) THEN p[2] \o s[p[1]] ELSE <<>>]
           n  == Len(s) - 1
<1>1. FlattenSeq(s) = fl[Len(s)]
  BY DEF FlattenSeq, Flattens
<1>2. n \in Nat /\ 1 + n = Len(s) /\ s[1] \in Seq(C) /\ \A i \in 1..Len(s) : s[i] \in Seq(C)
  OBVIOUS
<1>3. g \in [Nat \X Seq(C) -> Seq(C)]
  BY <1>2
<1>4. ASSUME NEW i \in 1..Len(s), NEW t \in Seq(C) PROVE g[<<i, t>>] = t \o s[i]
  <2> DEFINE p == <<i, t>>
  <2>1. p \in Nat \X Seq(C) /\ p[1] = i /\ p[2] = t
    OBVIOUS
  <2> HIDE DEF p
  <2>2. g[p] = t \o s[i]
    BY <2>1
  <2>3. QED
    BY <2>2 DEF p
<1> DEFINE X == Seq(C)
           a == s[1]
<1>5. a \in X /\ g \in [Nat \X X -> X] /\ 1 \in Nat
  BY <1>2, <1>3
<1> HIDE DEF fl, g, n, X, a
<1>6. \E f : Iterates(f, X, 1, n, a, g)
  BY <1>2, <1>5, Iterate
<1>7. PICK f \in [1..(1 + n) -> Seq(C)] :
              f[1] = s[1] /\ \A i \in (1 + 1)..(1 + n) : f[i] = g[<<i, f[i - 1]>>]
  BY <1>6 DEF X, a, Iterates
<1>8. ASSUME NEW i \in 1..Len(s) PROVE f[i] = IF i = 1 THEN s[i] ELSE f[i - 1] \o s[i]
  <2>1. CASE i = 1
    BY <1>7, <2>1
  <2>2. CASE i # 1
    <3>1. i \in (1 + 1)..(1 + n) /\ i - 1 \in 1..(1 + n)
      BY <1>2, <2>2
    <3>2. f[i - 1] \in Seq(C) /\ f[i] = g[<<i, f[i - 1]>>]
      BY <1>7, <3>1
    <3>3. QED
      BY <1>4, <2>2, <3>2
  <2>3. QED
    BY <2>1, <2>2
<1>9. Flattens(f, s)
  BY <1>2, <1>7, <1>8 DEF Flattens
<1>10. Flattens(fl, s)
  BY <1>9 DEF fl
<1>11. QED
  BY <1>1, <1>10

\* The recursions for a sequence and for a longer one agree.
LEMMA FlattensAgree ==
  ASSUME NEW C, NEW s \in Seq(Seq(C)), NEW t \in Seq(Seq(C)), NEW f, NEW h,
         Flattens(f, s), Flattens(h, t), Len(s) <= Len(t),
         \A i \in 1..Len(s) : s[i] = t[i]
  PROVE  \A i \in 1..Len(s) : f[i] = h[i] /\ f[i] \in Seq(C)
<1> DEFINE T == {k \in Nat : k \in 1..Len(s) => f[k] = h[k] /\ f[k] \in Seq(C)}
<1>1. /\ \A i \in 1..Len(s) : f[i] = IF i = 1 THEN s[i] ELSE f[i - 1] \o s[i]
      /\ \A i \in 1..Len(t) : h[i] = IF i = 1 THEN t[i] ELSE h[i - 1] \o t[i]
  BY DEF Flattens
<1>2. \A i \in 1..Len(s) : i \in 1..Len(t) /\ s[i] = t[i] /\ s[i] \in Seq(C)
  OBVIOUS
<1>3. 0 \in T
  OBVIOUS
<1>4. ASSUME NEW k \in T PROVE k + 1 \in T
  <2>0. k \in Nat /\ k + 1 \in Nat /\ (k \in 1..Len(s) => f[k] = h[k] /\ f[k] \in Seq(C))
    OBVIOUS
  <2> SUFFICES ASSUME k + 1 \in 1..Len(s) PROVE f[k + 1] = h[k + 1] /\ f[k + 1] \in Seq(C)
    BY <2>0
  <2> HIDE DEF T
  <2>1. CASE k = 0
    <3>1. k + 1 = 1
      BY <2>1
    <3>2. f[1] = s[1] /\ h[1] = t[1] /\ s[1] = t[1] /\ s[1] \in Seq(C)
      BY <1>1, <1>2, <3>1
    <3>3. QED
      BY <3>1, <3>2
  <2>2. CASE k # 0
    <3>1. k \in 1..Len(s) /\ (k + 1) - 1 = k /\ k + 1 # 1 /\ k + 1 \in 1..Len(t)
      BY <1>2, <2>0, <2>2
    <3>2. f[k] = h[k] /\ f[k] \in Seq(C)
      BY <2>0, <3>1
    <3>3. f[k + 1] = f[k] \o s[k + 1] /\ h[k + 1] = h[k] \o t[k + 1]
      BY <1>1, <2>2, <3>1
    <3>4. f[k] \o s[k + 1] \in Seq(C)
      BY <1>2, <2>2, <3>2
    <3>5. QED
      BY <1>2, <2>2, <3>2, <3>3, <3>4
  <2>3. QED
    BY <2>1, <2>2
<1>5. T \subseteq Nat
  OBVIOUS
<1> HIDE DEF T
<1>6. T = Nat
  BY <1>3, <1>4, <1>5, Induct
<1>7. \A i \in 1..Len(s) : i \in T
  BY <1>6
<1>8. QED
  BY <1>7 DEF T

\* Flattening nothing.
LEMMA FlattenEmpty == FlattenSeq(<<>>) = <<>>
BY DEF FlattenSeq

\* Flattening, one sequence more.
LEMMA FlattenMore ==
  ASSUME NEW C, NEW s \in Seq(Seq(C)), NEW u \in Seq(C)
  PROVE  /\ FlattenSeq(s) \in Seq(C)
         /\ FlattenSeq(Append(s, u)) = FlattenSeq(s) \o u
<1>0. FlattenSeq(<<>>) = <<>>
  BY FlattenEmpty
<1> DEFINE t == Append(s, u)
<1>1. /\ t \in Seq(Seq(C)) /\ t # <<>> /\ Len(t) = Len(s) + 1
      /\ t[Len(t)] = u /\ \A i \in 1..Len(s) : s[i] = t[i]
  BY AppendProperties
<1> HIDE DEF t
<1>2. PICK h : Flattens(h, t) /\ FlattenSeq(t) = h[Len(t)]
  BY <1>1, FlattenIs
<1>3. \A i \in 1..Len(t) : h[i] = IF i = 1 THEN t[i] ELSE h[i - 1] \o t[i]
  BY <1>2 DEF Flattens
<1>4. CASE s = <<>>
  <2>1. Len(t) = 1 /\ h[1] = u
    BY <1>1, <1>3, <1>4
  <2>2. <<>> \o u = u /\ <<>> \in Seq(C)
    OBVIOUS
  <2>3. QED
    BY <1>0, <1>2, <1>4, <2>1, <2>2 DEF t
<1>5. CASE s # <<>>
  <2>1. PICK f : Flattens(f, s) /\ FlattenSeq(s) = f[Len(s)]
    BY <1>5, FlattenIs
  <2>2. Len(s) \in 1..Len(s) /\ Len(s) <= Len(t) /\ Len(t) \in 1..Len(t) /\ Len(t) # 1 /\ Len(t) - 1 = Len(s)
    BY <1>1, <1>5
  <2>3. \A i \in 1..Len(s) : f[i] = h[i] /\ f[i] \in Seq(C)
    BY <1>1, <1>2, <2>1, <2>2, FlattensAgree
  <2>4. f[Len(s)] = h[Len(s)] /\ f[Len(s)] \in Seq(C)
    BY <2>2, <2>3
  <2>5. h[Len(t)] = h[Len(s)] \o u
    BY <1>1, <1>3, <2>2
  <2>6. QED
    BY <1>0, <1>2, <2>1, <2>4, <2>5 DEF t
<1>6. QED
  BY <1>4, <1>5

\* The same for any sequence of sequences.
LEMMA FlattenTyped ==
  ASSUME NEW C, NEW s \in Seq(Seq(C))
  PROVE  FlattenSeq(s) \in Seq(C)
<1>1. <<>> \in Seq(C)
  OBVIOUS
<1>2. QED
  BY <1>1, FlattenMore

(***************************************************************************)
(* The token plan                                                          *)
(***************************************************************************)
\* The recursion in SumTo.
Sums(h, f, n) == h = [i \in 0..n |-> IF i = 0 THEN 0 ELSE h[i - 1] + f[i]]

\* A sum of naturals is one.
LEMMA SumIsNat ==
  ASSUME NEW n \in Nat, NEW f, \A i \in 1..n : f[i] \in Nat
  PROVE  SumTo(f, n) \in Nat
<1> DEFINE sum == CHOOSE h : Sums(h, f, n)
           g   == [p \in Nat \X Nat |-> IF p[1] \in 1..n THEN p[2] + f[p[1]] ELSE 0]
           T   == {k \in Nat : k \in 0..n => sum[k] \in Nat}
<1>1. SumTo(f, n) = sum[n]
  BY DEF SumTo, Sums
<1>2. g \in [Nat \X Nat -> Nat] /\ 0 \in Nat
  OBVIOUS
<1>3. ASSUME NEW i \in 1..n, NEW t \in Nat PROVE g[<<i, t>>] = t + f[i]
  <2> DEFINE p == <<i, t>>
  <2>1. p \in Nat \X Nat /\ p[1] = i /\ p[2] = t
    OBVIOUS
  <2> HIDE DEF p
  <2>2. g[p] = t + f[i]
    BY <2>1
  <2>3. QED
    BY <2>2 DEF p
<1> HIDE DEF sum, g
<1>4. PICK h : Iterates(h, Nat, 0, n, 0, g)
  BY <1>2, Iterate
<1>5. ASSUME NEW i \in 0..n PROVE h[i] = IF i = 0 THEN 0 ELSE h[i - 1] + f[i]
  <2>1. CASE i = 0
    BY <1>4, <2>1 DEF Iterates
  <2>2. CASE i # 0
    <3>1. i \in (0 + 1)..(0 + n) /\ i - 1 \in 0..(0 + n) /\ i \in 1..n
      BY <2>2
    <3>2. h[i - 1] \in Nat /\ h[i] = g[<<i, h[i - 1]>>]
      BY <1>4, <3>1 DEF Iterates
    <3>3. QED
      BY <1>3, <2>2, <3>1, <3>2
  <2>3. QED
    BY <2>1, <2>2
<1>6. h \in [0..n -> Nat]
  BY <1>4 DEF Iterates
<1>7. Sums(h, f, n)
  BY <1>5, <1>6 DEF Sums
<1>8. Sums(sum, f, n)
  BY <1>7 DEF sum
<1>9. \A i \in 0..n : sum[i] = IF i = 0 THEN 0 ELSE sum[i - 1] + f[i]
  BY <1>8 DEF Sums
<1>10. 0 \in T
  BY <1>9
<1>11. ASSUME NEW k \in T PROVE k + 1 \in T
  <2>1. k \in Nat /\ k + 1 \in Nat /\ (k \in 0..n => sum[k] \in Nat)
    OBVIOUS
  <2> SUFFICES ASSUME k + 1 \in 0..n PROVE sum[k + 1] \in Nat
    BY <2>1
  <2> HIDE DEF T
  <2>2. k \in 0..n /\ k + 1 \in 1..n /\ (k + 1) - 1 = k /\ k + 1 # 0
    BY <2>1
  <2>3. sum[k + 1] = sum[k] + f[k + 1] /\ f[k + 1] \in Nat
    BY <1>9, <2>2
  <2>4. QED
    BY <2>1, <2>2, <2>3
<1>12. T \subseteq Nat
  OBVIOUS
<1> HIDE DEF T
<1>13. n \in T
  BY <1>10, <1>11, <1>12, Induct
<1>14. QED
  BY <1>1, <1>13 DEF T

\* The ends of a bounded set of naturals.
LEMMA Ends ==
  ASSUME NEW n \in Nat, NEW U, U \subseteq 1..n, U # {}
  PROVE  Max(U) \in U /\ Min(U) \in U /\ Min(U) <= Max(U)
<1>1. \E x \in U : \A y \in U : x <= y
  <2>1. U \subseteq Nat
    OBVIOUS
  <2>2. QED
    BY <2>1, Least
<1>2. Min(U) \in U /\ \A y \in U : Min(U) <= y
  BY <1>1 DEF Min
<1> DEFINE T == {k \in Nat : \A y \in U : y <= k}
<1>3. T \subseteq Nat /\ n \in T
  OBVIOUS
<1>4. PICK x \in T : \A y \in T : x <= y
  BY <1>3, Least
<1>5. x \in U
  <2>1. SUFFICES ASSUME x \notin U PROVE FALSE
    OBVIOUS
  <2>2. x \in Nat /\ \A y \in U : y \in Nat /\ y >= 1 /\ y <= x /\ y # x
    BY <2>1
  <2>3. x >= 1
    <3>1. PICK y \in U : TRUE
      OBVIOUS
    <3>2. y \in Nat /\ y >= 1 /\ y <= x
      BY <2>2
    <3>3. QED
      BY <2>2, <3>2
  <2>4. x - 1 \in Nat /\ \A y \in U : y <= x - 1
    BY <2>2, <2>3
  <2>5. x - 1 \in T
    BY <2>4
  <2>6. x <= x - 1
    BY <1>4, <2>5
  <2>7. QED
    BY <2>2, <2>6
<1>6. \A y \in U : x >= y
  OBVIOUS
<1>7. Max(U) \in U /\ \A y \in U : Max(U) >= y
  BY <1>5, <1>6 DEF Max
<1>8. QED
  BY <1>2, <1>7

\* What a text counts for.
LEMMA CountIsNat ==
  ASSUME NEW t \in Seq(Chars)
  PROVE  CountText(t) \in Nat
<1> DEFINE solid == {i \in 1..Len(t) : t[i] # Blank}
<1>1. Stripped(t) \in Nat
  <2>1. CASE solid = {}
    BY <2>1 DEF Stripped
  <2>2. CASE solid # {}
    <3>1. solid \subseteq 1..Len(t) /\ Len(t) \in Nat
      OBVIOUS
    <3>2. Stripped(t) = Max(solid) - Min(solid) + 1
      BY <2>2 DEF Stripped
    <3> HIDE DEF solid
    <3>3. Max(solid) \in solid /\ Min(solid) \in solid /\ Min(solid) <= Max(solid)
      BY <2>2, <3>1, Ends
    <3>4. \A k \in solid : k \in Nat
      BY <3>1
    <3>5. QED
      BY <3>2, <3>3, <3>4
  <2>3. QED
    BY <2>1, <2>2
<1>2. \A k \in Nat : Quarter(k) \in Nat
  BY DEF Quarter
<1>3. QED
  BY <1>1, <1>2 DEF CountText

\* What a prompt counts for.
LEMMA PromptIsNat ==
  ASSUME NEW messages \in Seq(Message)
  PROVE  EstimatePrompt(messages) \in Nat
<1>1. ASSUME NEW m \in Message PROVE MessageTokens(m) \in Nat
  <2>1. m.role \in {"system", "user", "assistant", "tool"} /\ m.parts \in Seq(Part)
    BY DEF Message
  <2>2. RoleTokens(m.role) \in Nat
    BY <2>1 DEF RoleTokens, Quarter
  <2> DEFINE n == Len(m.parts)
             f == [p \in 1..n |-> PartTokens(m.parts[p])]
  <2>3. n \in Nat
    BY <2>1
  <2>4. ASSUME NEW p \in 1..n PROVE PartTokens(m.parts[p]) \in Nat
    <3>1. m.parts[p] \in Part
      BY <2>1
    <3>2. m.parts[p].text \in Seq(Chars)
      BY <3>1 DEF Part
    <3>3. CountText(m.parts[p].text) \in Nat
      BY <3>2, CountIsNat
    <3>4. QED
      BY <3>3, TokenLimitsAssumption DEF PartTokens
  <2>5. \A i \in 1..n : f[i] \in Nat
    BY <2>4
  <2>6. MessageTokens(m) = 4 + RoleTokens(m.role) + SumTo(f, n)
    BY DEF MessageTokens
  <2> HIDE DEF f, n
  <2>7. SumTo(f, n) \in Nat
    BY <2>3, <2>5, SumIsNat
  <2>8. QED
    BY <2>2, <2>6, <2>7
<1> DEFINE n == Len(messages)
           f == [i \in 1..n |-> MessageTokens(messages[i])]
<1>2. n \in Nat /\ \A i \in 1..n : messages[i] \in Message
  OBVIOUS
<1>3. \A i \in 1..n : f[i] \in Nat
  BY <1>1, <1>2
<1>4. EstimatePrompt(messages) = 2 + SumTo(f, n)
  BY DEF EstimatePrompt
<1> HIDE DEF f, n
<1>5. SumTo(f, n) \in Nat
  BY <1>2, <1>3, SumIsNat
<1>6. QED
  BY <1>4, <1>5

\* The plan of a request, before and after it is accepted.
LEMMA PlanTyped ==
  ASSUME request \in Requests
  PROVE  /\ Plan.prompt \in Nat
         /\ ValidRequest(request) /\ Refusal(Plan) = "none" => Plan.total \in 0..MaxTotal
<1>1. request.messages \in Seq(Message) /\ request.max_tokens \in Int
  BY RequestsAssumption
<1>2. EstimatePrompt(request.messages) \in Nat
  BY <1>1, PromptIsNat
<1>3. /\ Plan.prompt = EstimatePrompt(request.messages)
      /\ Plan.total = EstimatePrompt(request.messages) + OutputOf(request)
  BY DEF Plan, PlanOf
<1>4. ASSUME ValidRequest(request), Refusal(Plan) = "none" PROVE Plan.total \in 0..MaxTotal
  <2>1. OutputOf(request) \in Nat
    BY <1>1, <1>4, TokenLimitsAssumption DEF ValidRequest, OutputOf
  <2>2. ~(Plan.total > MaxTotal)
    BY <1>4 DEF Refusal
  <2>3. Plan.total \in Nat
    BY <1>2, <1>3, <2>1
  <2>4. QED
    BY <2>2, <2>3, TokenLimitsAssumption
<1>5. QED
  BY <1>2, <1>3, <1>4

\* The usage of an answer in one piece.
LEMMA AnswerTyped ==
  ASSUME request \in Requests, NEW r \in Responses
  PROVE  /\ UsageFromResponse(r, Plan).total \in Nat
         /\ UsageFromResponse(r, Plan).status = "completed"
<1>1. Plan.prompt \in Nat
  BY PlanTyped
<1>2. /\ r.reports \in BOOLEAN /\ r.choices \in Seq(Seq(Chars))
      /\ r.reports =>
           {r.prompt_tokens, r.completion_tokens, r.total_tokens} \subseteq Nat \cup {Null, Absent}
  BY ResponsesAssumption
<1>3. \A v \in Nat \cup {Null, Absent}, d \in Nat : Get(v, d) \in Nat
  BY DEF Get, Null, Absent
<1>4. CASE r.reports
  <2> DEFINE prompt     == Get(r.prompt_tokens, Plan.prompt)
             completion == Get(r.completion_tokens, 0)
             total      == Get(r.total_tokens, prompt + completion)
  <2>1. prompt \in Nat /\ completion \in Nat
    BY <1>1, <1>2, <1>3, <1>4
  <2>2. UsageFromResponse(r, Plan) = UsageRecord(prompt, completion, total, "completed")
    BY <1>4 DEF UsageFromResponse
  <2> HIDE DEF prompt, completion
  <2>3. total \in Nat
    <3>1. prompt + completion \in Nat
      BY <2>1
    <3>2. r.total_tokens \in Nat \cup {Null, Absent}
      BY <1>2, <1>4
    <3>3. QED
      BY <1>3, <3>1, <3>2
  <2> HIDE DEF total
  <2>4. QED
    BY <2>2, <2>3 DEF UsageRecord
<1>5. CASE ~r.reports
  <2> DEFINE completion == CountText(FlattenSeq(r.choices))
  <2>1. UsageFromResponse(r, Plan)
          = UsageRecord(Plan.prompt, completion, Plan.prompt + completion, "completed")
    BY <1>5 DEF UsageFromResponse
  <2>2. FlattenSeq(r.choices) \in Seq(Chars)
    BY <1>2, FlattenTyped
  <2>3. completion \in Nat
    BY <2>2, CountIsNat
  <2> HIDE DEF completion
  <2>4. Plan.prompt + completion \in Nat
    BY <1>1, <2>3
  <2>5. QED
    BY <2>1, <2>4 DEF UsageRecord
<1>6. QED
  BY <1>4, <1>5

\* What is left of the reservation is no more than there was.
LEMMA ChargeTyped ==
  ASSUME NEW total \in 0..MaxTotal, NEW plan, plan.total = total,
         NEW record, record.total \in Nat
  PROVE  /\ ChargeLeft(plan, record) \in 0..MaxTotal
         /\ record.status # "failed" /\ ChargeLeft(plan, record) < record.total =>
              ChargeLeft(plan, record) = plan.total
BY TokenLimitsAssumption DEF ChargeLeft

(***************************************************************************)
(* The lines and their text                                                *)
(***************************************************************************)
\* The text of a line.
LEMMA DeltaTyped ==
  ASSUME NEW l \in Lines
  PROVE  DeltaText(l) \in Seq(Chars)
<1>1. l.choices \in Seq(Seq(Chars))
  BY LinesAssumption
<1>2. FlattenSeq(l.choices) \in Seq(Chars)
  BY <1>1, FlattenTyped
<1>3. <<>> \in Seq(Chars)
  OBVIOUS
<1>4. QED
  BY <1>2, <1>3 DEF DeltaText

\* The text of all the lines of a stream.
TextOf(lines) == FlattenSeq([i \in 1..Len(lines) |-> DeltaText(lines[i])])

\* A line adds its text to that of the stream.
LEMMA TextGrows ==
  /\ TextOf(<<>>) = <<>>
  /\ \A lines \in Seq(Lines), l \in Lines : TextOf(Append(lines, l)) = TextOf(lines) \o DeltaText(l)
  /\ \A lines \in Seq(Lines) : TextOf(lines) \in Seq(Chars)
<1> DEFINE each(lines) == [i \in 1..Len(lines) |-> DeltaText(lines[i])]
<1>1. each(<<>>) = <<>>
  OBVIOUS
<1>2. ASSUME NEW lines \in Seq(Lines)
      PROVE  each(lines) \in Seq(Seq(Chars)) /\ Len(each(lines)) = Len(lines)
  BY DeltaTyped
<1>3. ASSUME NEW lines \in Seq(Lines), NEW l \in Lines
      PROVE  each(Append(lines, l)) = Append(each(lines), DeltaText(l))
  <2>1. Append(lines, l) \in Seq(Lines) /\ Len(Append(lines, l)) = Len(lines) + 1
    BY AppendProperties
  <2>2. /\ \A i \in 1..Len(lines) : Append(lines, l)[i] = lines[i]
        /\ Append(lines, l)[Len(lines) + 1] = l
    BY AppendProperties
  <2>3. QED
    BY <2>1, <2>2
<1>4. /\ TextOf(<<>>) = FlattenSeq(each(<<>>))
      /\ \A lines \in Seq(Lines) : TextOf(lines) = FlattenSeq(each(lines))
      /\ \A lines \in Seq(Lines), l \in Lines :
           TextOf(Append(lines, l)) = FlattenSeq(each(Append(lines, l)))
  BY DEF TextOf
<1> HIDE DEF each
<1>5. TextOf(<<>>) = <<>>
  BY <1>1, <1>4, FlattenEmpty
<1>6. ASSUME NEW lines \in Seq(Lines), NEW l \in Lines
      PROVE  TextOf(Append(lines, l)) = TextOf(lines) \o DeltaText(l)
  <2>1. each(lines) \in Seq(Seq(Chars)) /\ DeltaText(l) \in Seq(Chars)
    BY <1>2, DeltaTyped
  <2>2. FlattenSeq(Append(each(lines), DeltaText(l))) = FlattenSeq(each(lines)) \o DeltaText(l)
    BY <2>1, FlattenMore
  <2>3. QED
    BY <1>3, <1>4, <2>2
<1>7. ASSUME NEW lines \in Seq(Lines) PROVE TextOf(lines) \in Seq(Chars)
  BY <1>2, <1>4, FlattenTyped
<1>8. QED
  BY <1>5, <1>6, <1>7

\* A line of white space is not seen, any other one is.
LEMMA VisibleGrows ==
  /\ Visible(<<>>) = <<>>
  /\ \A lines \in Seq(Lines) : Visible(lines) \in Seq(Lines)
  /\ \A lines \in Seq(Lines), l \in Lines :
       Visible(Append(lines, l)) =
         IF l.kind = "space" THEN Visible(lines) ELSE Append(Visible(lines), l)
<1> DEFINE one(l) == IF l.kind = "space" THEN <<>> ELSE <<l>>
           each(lines) == [i \in 1..Len(lines) |-> one(lines[i])]
<1>1. each(<<>>) = <<>>
  OBVIOUS
<1>2. \A l \in Lines : one(l) \in Seq(Lines)
  OBVIOUS
<1>3. \A s \in Seq(Lines), l \in Lines :
        s \o one(l) = IF l.kind = "space" THEN s ELSE Append(s, l)
  <2>1. ASSUME NEW s \in Seq(Lines), NEW l \in Lines
        PROVE  s \o <<>> = s /\ s \o <<l>> = Append(s, l)
    BY AppendIsConcat
  <2>2. QED
    BY <2>1
<1>4. /\ Visible(<<>>) = FlattenSeq(each(<<>>))
      /\ \A lines \in Seq(Lines) : Visible(lines) = FlattenSeq(each(lines))
      /\ \A lines \in Seq(Lines), l \in Lines :
           Visible(Append(lines, l)) = FlattenSeq(each(Append(lines, l)))
  BY DEF Visible
<1> HIDE DEF one
<1>5. ASSUME NEW lines \in Seq(Lines)
      PROVE  each(lines) \in Seq(Seq(Lines)) /\ Len(each(lines)) = Len(lines)
  BY <1>2
<1>6. ASSUME NEW lines \in Seq(Lines), NEW l \in Lines
      PROVE  each(Append(lines, l)) = Append(each(lines), one(l))
  <2>1. Append(lines, l) \in Seq(Lines) /\ Len(Append(lines, l)) = Len(lines) + 1
    BY AppendProperties
  <2>2. /\ \A i \in 1..Len(lines) : Append(lines, l)[i] = lines[i]
        /\ Append(lines, l)[Len(lines) + 1] = l
    BY AppendProperties
  <2>3. QED
    BY <2>1, <2>2
<1> HIDE DEF each
<1>7. Visible(<<>>) = <<>>
  BY <1>1, <1>4, FlattenEmpty
<1>8. ASSUME NEW lines \in Seq(Lines) PROVE Visible(lines) \in Seq(Lines)
  BY <1>4, <1>5, FlattenTyped
<1>9. ASSUME NEW lines \in Seq(Lines), NEW l \in Lines
      PROVE  Visible(Append(lines, l)) =
               IF l.kind = "space" THEN Visible(lines) ELSE Append(Visible(lines), l)
  <2>1. each(lines) \in Seq(Seq(Lines)) /\ one(l) \in Seq(Lines)
    BY <1>2, <1>5
  <2>2. FlattenSeq(Append(each(lines), one(l))) = FlattenSeq(each(lines)) \o one(l)
    BY <2>1, FlattenMore
  <2>3. Visible(Append(lines, l)) = Visible(lines) \o one(l)
    BY <1>4, <1>6, <2>2
  <2>4. QED
    BY <1>3, <1>8, <2>3
<1>10. QED
  BY <1>7, <1>8, <1>9

(***************************************************************************)
(* The inductive invariant                                                 *)
(***************************************************************************)
\* The count goes with the lines, and the books are closed once, at the end.
Books ==
  /\ text = TextOf(relayed)
  /\ pc \notin {"new", "refused"} => Plan.total \in 0..MaxTotal
  /\ pc = "calling" => ~request.stream
  /\ pc \in {"reading", "sending", "closing", "settling"} => request.stream
  /\ usage # NoUsage => pc = "done"
  /\ pc = "done" => /\ charged = ChargeLeft(Plan, usage) /\ usage.total \in Nat
                    /\ request.stream => usage = UsageFromStreamText(text, Plan, status)

\* A read runs on an open connection and before the settlement, which waits for the
\* end of both.
Wire ==
  /\ read = "pending" => conn = "open" /\ pc \in {"reading", "sending", "closing"}
  /\ read \in {"ready", "idle"} /\ pc \in {"reading", "sending"} => conn = "open"
  /\ request.stream /\ pc \in {"settling", "done"} => conn = "closed"

\* The stream, with what closes it.
Complete == relayed = IF Contains(Shown, Done) THEN Shown ELSE Append(Shown, Done)

\* While the response runs, the client has all that was read but the line at hand.
InStep ==
  /\ read \in {"pending", "idle", "failed"} => relayed = Shown
  /\ read = "ready" => \E s \in Seq(Lines), l \in Lines :
                         sent = Append(s, l) /\ relayed = Visible(s)
  /\ read = "ended" => relayed = Shown \/ (relayed = Append(Shown, Done) /\ ~Contains(Shown, Done))
  /\ read = "idle" => pc = "sending" /\ hand = "line"
  /\ read # "cancelled" /\ status = "completed"

Order ==
  /\ pc = "new" => read = "idle" /\ sent = <<>> /\ relayed = <<>> /\ status = "completed"
  /\ pc \in {"reading", "sending"} => InStep
  /\ pc \in {"closing", "settling", "done"} /\ request.stream /\ status = "completed" /\ ~gone =>
       read = "ended" /\ Complete

StreamInv == TypeOK /\ Books /\ Wire /\ Order

\* The settlement of an answer, whichever way it ended.
LEMMA SettledTyped ==
  ASSUME StreamInv, Answered \/ CallFails \/ Settle
  PROVE  /\ usage'.total \in Nat /\ charged' = ChargeLeft(Plan, usage')
         /\ Plan.total \in 0..MaxTotal
<1>1. request \in Requests /\ Plan.prompt \in Nat /\ relayed \in Seq(Lines)
  BY PlanTyped DEF StreamInv, TypeOK
<1>2. Plan.total \in 0..MaxTotal
  BY DEF StreamInv, Books, Answered, CallFails, Settle
<1>3. CASE Answered
  BY <1>1, <1>2, <1>3, AnswerTyped DEF Answered
<1>4. CASE CallFails
  BY <1>2, <1>4 DEF CallFails, UsageRecord
<1>5. CASE Settle
  <2>1. text \in Seq(Chars)
    BY <1>1, TextGrows DEF StreamInv, Books
  <2>2. Plan.prompt + CountText(text) \in Nat
    BY <1>1, <2>1, CountIsNat
  <2>3. QED
    BY <1>2, <1>5, <2>2 DEF Settle, UsageFromStreamText, UsageRecord
<1>6. QED
  BY <1>3, <1>4, <1>5

\* The line at hand is the last that was read.
LEMMA LastRead ==
  ASSUME TypeOK, Order, pc = "reading", read = "ready"
  PROVE  \E s \in Seq(Lines) : /\ sent = Append(s, Last(sent)) /\ relayed = Visible(s)
                               /\ Last(sent) \in Lines
<1>1. PICK s \in Seq(Lines), l \in Lines : sent = Append(s, l) /\ relayed = Visible(s)
  BY DEF Order, InStep
<1>2. Last(sent) = l
  BY <1>1, AppendProperties DEF Last
<1>3. QED
  BY <1>1, <1>2

\* A line that is yielded is one of the stream, or what closes it.
LEMMA Yields ==
  ASSUME StreamInv, RelayLine \/ AppendDone
  PROVE  NoticeGone \/ \E l \in Lines : YieldLine(l)
<1>1. Done \in Lines
  BY LinesAssumption
<1>2. RelayLine => Last(sent) \in Lines
  BY LastRead DEF StreamInv, RelayLine
<1>3. QED
  BY <1>1, <1>2 DEF RelayLine, AppendDone

\* The shape, from the types and the books.
LEMMA TypeKept ==
  ASSUME StreamInv, Next
  PROVE  TypeOK'
<1>0. TypeOK /\ Books /\ request \in Requests /\ sent \in Seq(Lines) /\ relayed \in Seq(Lines)
  BY DEF StreamInv, TypeOK
<1>1. CASE Accept
  <2>1. Plan.total \in 0..MaxTotal
    BY <1>0, <1>1, PlanTyped DEF Accept
  <2>2. QED
    BY <1>0, <1>1, <2>1 DEF Accept, TypeOK, progress
<1>2. CASE Refuse
  BY <1>0, <1>2 DEF Refuse, TypeOK, upstream, progress, settled
<1>3. CASE Answered \/ CallFails \/ Settle
  <2>1. usage'.total \in Nat /\ charged' = ChargeLeft(Plan, usage') /\ Plan.total \in 0..MaxTotal
    BY <1>3, SettledTyped
  <2>2. charged' \in 0..MaxTotal
    BY <2>1, ChargeTyped
  <2>3. QED
    BY <1>0, <1>3, <2>2 DEF Answered, CallFails, Settle, TypeOK, upstream, progress
<1>4. CASE UpstreamSends
  <2>1. PICK l \in Lines : sent' = Append(sent, l)
    BY <1>4 DEF UpstreamSends
  <2>2. sent' \in Seq(Lines)
    BY <1>0, <2>1, AppendProperties
  <2>3. QED
    BY <1>0, <1>4, <2>2 DEF UpstreamSends, TypeOK, progress, settled
<1>5. CASE UpstreamEnds \/ UpstreamFails \/ Disconnect
  BY <1>0, <1>5 DEF UpstreamEnds, UpstreamFails, Disconnect, TypeOK, upstream, progress, settled
<1>6. CASE RelayLine \/ AppendDone
  <2>1. NoticeGone \/ \E l \in Lines : YieldLine(l)
    BY <1>6, Yields
  <2>2. /\ relayed' \in Seq(Lines) /\ hand' \in {"nothing", "heartbeat", "line"}
        /\ status' \in {"completed", "failed", "client_disconnected"}
        /\ pc' \in {"sending", "closing"}
    <3>1. \A l \in Lines : Append(relayed, l) \in Seq(Lines)
      BY <1>0, AppendProperties
    <3>2. QED
      BY <1>0, <2>1, <3>1 DEF NoticeGone, YieldLine, TypeOK, progress
  <2>3. QED
    BY <1>0, <1>6, <2>2 DEF RelayLine, AppendDone, TypeOK, upstream, settled
<1>7. CASE SkipSpace \/ Pull \/ Cancel
  BY <1>0, <1>7 DEF SkipSpace, Pull, Cancel, TypeOK, upstream, progress, settled
<1>8. CASE Heartbeat
  BY <1>0, <1>8 DEF Heartbeat, NoticeGone, TypeOK, upstream, progress, settled
<1>9. CASE StreamEnds \/ StreamFails \/ CancelRead \/ CloseUpstream
  BY <1>0, <1>9
     DEF StreamEnds, StreamFails, CancelRead, CloseUpstream, TypeOK, upstream, progress, settled
<1>10. CASE Finished
  BY <1>0, <1>10 DEF Finished, vars, TypeOK
<1>11. QED
  BY <1>1, <1>2, <1>3, <1>4, <1>5, <1>6, <1>7, <1>8, <1>9, <1>10 DEF Next

\* No step changes the request or its plan.
LEMMA PlanKept ==
  ASSUME Next \/ UNCHANGED vars
  PROVE  request' = request /\ Plan' = Plan
<1>1. request' = request
  BY DEF Next, vars, Accept, Refuse, Answered, CallFails, UpstreamSends, UpstreamEnds, UpstreamFails,
         Disconnect, RelayLine, SkipSpace, Heartbeat, Pull, AppendDone, StreamEnds, StreamFails,
         Cancel, CancelRead, CloseUpstream, Settle, Finished
<1>2. QED
  BY <1>1 DEF Plan

\* The books.
LEMMA BooksKept ==
  ASSUME StreamInv, Next
  PROVE  Books'
<1>0. /\ TypeOK /\ Books /\ request' = request /\ Plan' = Plan
      /\ request \in Requests /\ relayed \in Seq(Lines)
  BY PlanKept DEF StreamInv, TypeOK
<1>1. CASE Accept
  <2>1. Plan.total \in 0..MaxTotal
    BY <1>0, <1>1, PlanTyped DEF Accept
  <2>2. QED
    BY <1>0, <1>1, <2>1 DEF Accept, Books, progress, NoUsage
<1>2. CASE Refuse
  BY <1>0, <1>2 DEF Refuse, Books, progress, settled, NoUsage
<1>3. CASE Answered \/ CallFails \/ Settle
  <2>1. usage'.total \in Nat /\ charged' = ChargeLeft(Plan, usage') /\ Plan.total \in 0..MaxTotal
    BY <1>3, SettledTyped
  <2>2. pc' = "done" /\ text' = text /\ relayed' = relayed
    BY <1>3 DEF Answered, CallFails, Settle, progress
  <2>3. request.stream => usage' = UsageFromStreamText(text', Plan, status')
    BY <1>0, <1>3, <2>2 DEF Answered, CallFails, Settle, Books
  <2>4. QED
    BY <1>0, <2>1, <2>2, <2>3 DEF Books
<1>4. CASE RelayLine \/ AppendDone
  <2>1. /\ pc = "reading" /\ usage' = usage /\ charged' = charged /\ pc' \in {"sending", "closing"}
    BY <1>4 DEF RelayLine, AppendDone, settled, NoticeGone, YieldLine
  <2>2. text' = TextOf(relayed')
    <3>1. CASE NoticeGone
      BY <1>0, <3>1 DEF NoticeGone, Books, progress
    <3>2. ASSUME NEW l \in Lines, YieldLine(l) PROVE text' = TextOf(relayed')
      <4>1. text' = text \o DeltaText(l) /\ relayed' = Append(relayed, l)
        BY <3>2 DEF YieldLine
      <4>2. QED
        BY <1>0, <4>1, TextGrows DEF Books
    <3>3. QED
      BY <1>4, <3>1, <3>2, Yields
  <2>3. QED
    BY <1>0, <2>1, <2>2 DEF Books, NoUsage
<1>5. CASE UpstreamSends \/ UpstreamEnds \/ UpstreamFails \/ Disconnect \/ CancelRead \/ SkipSpace
  <2>1. pc' = pc /\ text' = text /\ relayed' = relayed /\ usage' = usage /\ charged' = charged
        /\ status' = status
    BY <1>5 DEF UpstreamSends, UpstreamEnds, UpstreamFails, Disconnect, CancelRead, SkipSpace,
                progress, settled
  <2>2. QED
    BY <1>0, <2>1 DEF Books, NoUsage
<1>6. CASE Heartbeat \/ Pull \/ StreamEnds \/ StreamFails \/ Cancel \/ CloseUpstream
  <2>1. /\ pc \in {"reading", "sending", "closing"} /\ pc' \in {"reading", "sending", "closing", "settling"}
        /\ text' = text /\ relayed' = relayed /\ usage' = usage /\ charged' = charged
    BY <1>6 DEF Heartbeat, NoticeGone, Pull, StreamEnds, StreamFails, Cancel, CloseUpstream,
                progress, settled
  <2>2. QED
    BY <1>0, <2>1 DEF Books, NoUsage
<1>7. CASE Finished
  BY <1>0, <1>7 DEF Finished, vars, Books, NoUsage
<1>8. QED
  BY <1>1, <1>2, <1>3, <1>4, <1>5, <1>6, <1>7 DEF Next

\* The connection.
LEMMA WireKept ==
  ASSUME StreamInv, Next
  PROVE  Wire'
<1>0. Wire /\ Books /\ TypeOK /\ request' = request
  BY PlanKept DEF StreamInv
<1>1. CASE Accept \/ Refuse \/ Answered \/ CallFails
  BY <1>0, <1>1 DEF Accept, Refuse, Answered, CallFails, Wire, Books, upstream
<1>2. CASE UpstreamSends \/ UpstreamEnds \/ UpstreamFails \/ Disconnect
  BY <1>0, <1>2 DEF UpstreamSends, UpstreamEnds, UpstreamFails, Disconnect, Wire, upstream
<1>3. CASE RelayLine \/ AppendDone
  BY <1>0, <1>3 DEF RelayLine, AppendDone, NoticeGone, YieldLine, Wire, upstream
<1>4. CASE SkipSpace
  <2>1. conn = "open"
    BY <1>4, <1>0 DEF SkipSpace, StreamInv, Wire
  <2>2. QED
    BY <1>0, <1>4, <2>1 DEF SkipSpace, Wire, upstream
<1>5. CASE Heartbeat \/ StreamEnds \/ StreamFails \/ Cancel
  BY <1>0, <1>5 DEF Heartbeat, NoticeGone, StreamEnds, StreamFails, Cancel, Wire, upstream
<1>6. CASE Pull
  BY <1>0, <1>6 DEF Pull, Wire, upstream
<1>7. CASE CancelRead \/ CloseUpstream \/ Settle \/ Finished
  BY <1>0, <1>7 DEF CancelRead, CloseUpstream, Settle, Finished, vars, Wire, upstream
<1>8. QED
  BY <1>1, <1>2, <1>3, <1>4, <1>5, <1>6, <1>7 DEF Next

\* What ends in [DONE] contains it.
LEMMA DoneLast ==
  ASSUME NEW s \in Seq(Lines)
  PROVE  Contains(Append(s, Done), Done)
<1>1. Done \in Lines
  BY LinesAssumption
<1>2. /\ Len(Append(s, Done)) = Len(s) + 1 /\ Append(s, Done)[Len(s) + 1] = Done
      /\ Len(s) + 1 \in 1..(Len(s) + 1)
  BY <1>1, AppendProperties
<1>3. QED
  BY <1>2 DEF Contains

\* The lines: while the response runs it is in step with vLLM.
LEMMA OrderKept ==
  ASSUME StreamInv, Next
  PROVE  Order'
<1>0. /\ TypeOK /\ Books /\ Wire /\ Order /\ request' = request
      /\ sent \in Seq(Lines) /\ relayed \in Seq(Lines)
  BY PlanKept DEF StreamInv, TypeOK
<1>1. CASE Accept
  <2>1. sent' = <<>> /\ relayed' = <<>> /\ status' = "completed" /\ pc' \in {"reading", "calling"}
        /\ (pc' = "reading" => read' = "pending")
    BY <1>0, <1>1 DEF Accept, Order, progress
  <2>2. Shown' = <<>>
    BY <2>1, VisibleGrows DEF Shown
  <2>3. QED
    BY <2>1, <2>2 DEF Order, InStep
<1>2. CASE Refuse
  BY <1>2 DEF Refuse, Order
<1>3. CASE Answered \/ CallFails
  <2>1. pc' = "done" /\ ~request.stream
    BY <1>0, <1>3 DEF Answered, CallFails, Books
  <2>2. QED
    BY <1>0, <2>1 DEF Order
<1>4. CASE UpstreamSends
  <2>1. PICK l \in Lines : sent' = Append(sent, l)
    BY <1>4 DEF UpstreamSends
  <2>2. /\ read = "pending" /\ read' = "ready" /\ pc' = pc /\ relayed' = relayed /\ hand' = hand
        /\ status' = status /\ gone' = gone /\ pc \in {"reading", "sending", "closing"}
    BY <1>0, <1>4 DEF UpstreamSends, progress, Wire
  <2>3. pc \in {"reading", "sending"} => relayed = Visible(sent) /\ status = "completed"
    BY <1>0, <2>2 DEF Order, InStep, Shown
  <2>4. pc \in {"reading", "sending"} => InStep'
    BY <1>0, <2>1, <2>2, <2>3 DEF InStep
  <2>5. QED
    BY <1>0, <2>2, <2>4 DEF Order
<1>5. CASE UpstreamEnds \/ UpstreamFails
  <2>1. /\ read = "pending" /\ read' \in {"ended", "failed"} /\ pc' = pc /\ relayed' = relayed
        /\ status' = status /\ gone' = gone /\ sent' = sent /\ pc \in {"reading", "sending", "closing"}
    BY <1>0, <1>5 DEF UpstreamEnds, UpstreamFails, progress, Wire
  <2>2. Shown' = Shown
    BY <2>1 DEF Shown
  <2>3. pc \in {"reading", "sending"} => relayed = Shown /\ status = "completed"
    BY <1>0, <2>1 DEF Order, InStep
  <2>4. QED
    BY <1>0, <2>1, <2>2, <2>3 DEF Order, InStep
<1>6. CASE Disconnect
  <2>1. /\ read' = read /\ pc' = pc /\ relayed' = relayed /\ hand' = hand /\ gone' = TRUE
        /\ status' = status /\ sent' = sent /\ pc \in {"reading", "sending"}
    BY <1>6 DEF Disconnect, progress, upstream
  <2>2. InStep
    BY <1>0, <2>1 DEF Order
  <2>3. InStep'
    BY <2>1, <2>2 DEF InStep, Shown
  <2>4. QED
    BY <2>1, <2>3 DEF Order
<1>7. CASE RelayLine
  <2>1. /\ pc = "reading" /\ read = "ready" /\ Last(sent).kind # "space" /\ read' = "idle"
        /\ sent' = sent /\ gone' = gone /\ (NoticeGone \/ YieldLine(Last(sent)))
    BY <1>7 DEF RelayLine, upstream
  <2>2. PICK s \in Seq(Lines) : /\ sent = Append(s, Last(sent)) /\ relayed = Visible(s)
                                /\ Last(sent) \in Lines
    BY <1>0, <2>1, LastRead
  <2>3. Append(relayed, Last(sent)) = Shown
    BY <2>1, <2>2, VisibleGrows DEF Shown
  <2>4. Shown' = Shown
    BY <2>1 DEF Shown
  <2>5. status = "completed"
    BY <1>0, <2>1 DEF Order, InStep
  <2>6. CASE NoticeGone
    BY <2>6 DEF NoticeGone, Order
  <2>7. CASE YieldLine(Last(sent))
    BY <2>1, <2>3, <2>4, <2>5, <2>7 DEF YieldLine, Order, InStep
  <2>8. QED
    BY <2>1, <2>6, <2>7
<1>8. CASE SkipSpace
  <2>1. /\ pc = "reading" /\ read = "ready" /\ Last(sent).kind = "space" /\ read' = "pending"
        /\ sent' = sent /\ relayed' = relayed /\ status' = status /\ pc' = pc
    BY <1>8 DEF SkipSpace, upstream, progress
  <2>2. PICK s \in Seq(Lines) : /\ sent = Append(s, Last(sent)) /\ relayed = Visible(s)
                                /\ Last(sent) \in Lines
    BY <1>0, <2>1, LastRead
  <2>3. relayed' = Shown'
    BY <2>1, <2>2, VisibleGrows DEF Shown
  <2>4. status = "completed"
    BY <1>0, <2>1 DEF Order, InStep
  <2>5. QED
    BY <2>1, <2>3, <2>4 DEF Order, InStep
<1>9. CASE Heartbeat
  <2>1. /\ pc = "reading" /\ read \in {"pending", "ready"} /\ read' = read /\ sent' = sent
        /\ \/ pc' = "closing" /\ status' = "client_disconnected"
           \/ pc' = "sending" /\ relayed' = relayed /\ status' = status
    BY <1>9 DEF Heartbeat, NoticeGone, upstream
  <2>2. InStep
    BY <1>0, <2>1 DEF Order
  <2>3. QED
    BY <2>1, <2>2 DEF Order, InStep, Shown
<1>10. CASE Pull
  <2>1. /\ pc = "sending" /\ pc' = "reading" /\ sent' = sent /\ relayed' = relayed /\ status' = status
        /\ read' = IF hand = "line" /\ read = "idle" THEN "pending" ELSE read
    BY <1>10 DEF Pull, upstream
  <2>2. InStep
    BY <1>0, <2>1 DEF Order
  <2>3. read' # "idle" /\ Shown' = Shown
    BY <2>1, <2>2 DEF InStep, Shown
  <2>4. QED
    BY <2>1, <2>2, <2>3 DEF Order, InStep
<1>11. CASE AppendDone
  <2>1. /\ pc = "reading" /\ read = "ended" /\ ~Contains(relayed, Done) /\ read' = read /\ sent' = sent
        /\ (NoticeGone \/ YieldLine(Done))
    BY <1>11 DEF AppendDone, NeedsDone, upstream
  <2>2. status = "completed" /\ relayed = Shown
    <3>1. InStep
      BY <1>0, <2>1 DEF Order
    <3>2. relayed # Append(Shown, Done)
      <4>1. Shown \in Seq(Lines)
        BY <1>0, VisibleGrows DEF Shown
      <4>2. QED
        BY <2>1, <4>1, DoneLast
    <3>3. QED
      BY <2>1, <3>1, <3>2 DEF InStep
  <2>3. Shown' = Shown
    BY <2>1 DEF Shown
  <2>4. CASE NoticeGone
    BY <2>4 DEF NoticeGone, Order
  <2>5. CASE YieldLine(Done)
    <3>1. pc' = "sending" /\ relayed' = Append(relayed, Done) /\ status' = status /\ read' = "ended"
      BY <2>1, <2>5 DEF YieldLine
    <3>2. relayed' = Append(Shown', Done) /\ ~Contains(Shown', Done)
      BY <2>1, <2>2, <2>3, <3>1
    <3>3. QED
      BY <2>2, <3>1, <3>2 DEF Order, InStep
  <2>6. QED
    BY <2>1, <2>4, <2>5
<1>12. CASE StreamEnds
  <2>1. /\ pc = "reading" /\ read = "ended" /\ Contains(relayed, Done) /\ pc' = "closing"
        /\ read' = read /\ sent' = sent /\ relayed' = relayed
    BY <1>12 DEF StreamEnds, NeedsDone, upstream, progress
  <2>2. relayed = Shown \/ (relayed = Append(Shown, Done) /\ ~Contains(Shown, Done))
    BY <1>0, <2>1 DEF Order, InStep
  <2>3. Complete
    BY <2>1, <2>2 DEF Complete
  <2>4. Complete' /\ read' = "ended"
    BY <2>1, <2>3 DEF Complete, Shown
  <2>5. QED
    BY <2>1, <2>4 DEF Order
<1>13. CASE StreamFails
  BY <1>13 DEF StreamFails, Order
<1>14. CASE Cancel
  BY <1>14 DEF Cancel, Order
<1>15. CASE CancelRead
  <2>1. pc = "closing" /\ pc' = pc /\ read = "pending" /\ status' = status /\ gone' = gone
    BY <1>15 DEF CancelRead
  <2>2. QED
    BY <1>0, <2>1 DEF Order
<1>16. CASE CloseUpstream \/ Settle \/ Finished
  <2>1. /\ \/ pc = "refused" /\ pc' = "refused"
           \/ pc \in {"closing", "settling", "done"} /\ pc' \in {"closing", "settling", "done"}
        /\ read' = read /\ status' = status /\ gone' = gone /\ sent' = sent /\ relayed' = relayed
    BY <1>16 DEF CloseUpstream, Settle, Finished, vars, progress, upstream
  <2>2. Complete => Complete'
    BY <2>1 DEF Complete, Shown
  <2>3. QED
    BY <1>0, <2>1, <2>2 DEF Order
<1>17. QED
  BY <1>1, <1>2, <1>3, <1>4, <1>5, <1>6, <1>7, <1>8, <1>9, <1>10, <1>11, <1>12, <1>13, <1>14, <1>15,
     <1>16 DEF Next

\* It holds at first.
LEMMA StreamInit ==
  ASSUME Init
  PROVE  StreamInv
<1>1. <<>> \in Seq(Lines)
  OBVIOUS
<1>2. 0 \in 0..MaxTotal
  BY TokenLimitsAssumption
<1>3. TypeOK
  BY <1>1, <1>2 DEF Init, TypeOK
<1>4. Books /\ Wire
  BY TextGrows DEF Init, Books, Wire
<1>5. Order
  BY DEF Init, Order
<1>6. QED
  BY <1>3, <1>4, <1>5 DEF StreamInv

\* A step that changes nothing keeps it.
LEMMA StreamStutters ==
  ASSUME StreamInv, UNCHANGED vars
  PROVE  StreamInv'
BY PlanKept DEF StreamInv, vars, TypeOK, Books, NoUsage, Wire, Order, InStep, Complete, Shown

\* It is an invariant.
LEMMA StreamAlways == Spec => []StreamInv
<1>1. Init => StreamInv
  BY StreamInit
<1>2. StreamInv /\ [Next]_vars => StreamInv'
  <2>1. ASSUME StreamInv, Next PROVE StreamInv'
    BY <2>1, TypeKept, BooksKept, WireKept, OrderKept DEF StreamInv
  <2>2. QED
    BY <2>1, StreamStutters
<1>3. QED
  BY <1>1, <1>2, PTL DEF Spec

(***************************************************************************)
(* The theorems                                                            *)
(***************************************************************************)
\* Nobody closes vLLM's stream under a running read, and nothing is settled before
\* it is closed: the order of the finally in _stream_response, whichever way the
\* response ends.
THEOREM Closed == Spec => []ClosedInOrder
<1>1. StreamInv => ClosedInOrder
  BY DEF StreamInv, Books, Wire, ClosedInOrder
<1>2. QED
  BY <1>1, StreamAlways, PTL

\* A stream that did not fail is charged like the same text in one piece, however
\* it was cut: completion_text is the text of the lines that were yielded.
THEOREM ChunksAreFree == Spec => []ChunksCostNothing
<1>1. ASSUME StreamInv PROVE ChunksCostNothing
  <2> SUFFICES ASSUME request.stream, pc = "done", status # "failed"
               PROVE  LET whole == [reports |-> FALSE,
                                    choices |-> [i \in 1..Len(relayed) |-> DeltaText(relayed[i])]]
                      IN  /\ usage.total = UsageFromResponse(whole, Plan).total
                          /\ charged = ChargeLeft(Plan, UsageFromResponse(whole, Plan))
    BY DEF ChunksCostNothing
  <2> DEFINE choices == [i \in 1..Len(relayed) |-> DeltaText(relayed[i])]
             whole   == [reports |-> FALSE, choices |-> choices]
             count   == CountText(FlattenSeq(choices))
  <2>1. FlattenSeq(choices) = text
    BY <1>1 DEF StreamInv, Books, TextOf
  <2>2. usage = UsageFromStreamText(text, Plan, status) /\ charged = ChargeLeft(Plan, usage)
    BY <1>1 DEF StreamInv, Books
  <2> HIDE DEF choices
  <2>3. UsageFromResponse(whole, Plan) = UsageRecord(Plan.prompt, count, Plan.prompt + count, "completed")
    BY DEF UsageFromResponse
  <2>4. usage = UsageRecord(Plan.prompt, count, Plan.prompt + count, status)
    BY <2>1, <2>2 DEF UsageFromStreamText
  <2> HIDE DEF whole, count
  <2>5. /\ usage.total = UsageFromResponse(whole, Plan).total
        /\ usage.status # "failed" /\ UsageFromResponse(whole, Plan).status # "failed"
    BY <2>3, <2>4 DEF UsageRecord
  <2>6. ChargeLeft(Plan, usage) = ChargeLeft(Plan, UsageFromResponse(whole, Plan))
    BY <2>5 DEF ChargeLeft
  <2>7. QED
    BY <2>2, <2>5, <2>6 DEF whole, choices
<1>2. QED
  BY <1>1, StreamAlways, PTL

\* Only what exceeds the reservation goes free: finalize gives back, and no more
\* than was not used, for every answer vLLM can report.
THEOREM ExcessOnly == Spec => []OnlyExcessIsFree
<1>1. ASSUME StreamInv PROVE OnlyExcessIsFree
  <2> SUFFICES ASSUME pc = "done", usage.status # "failed", charged < usage.total
               PROVE  charged = Plan.total
    BY DEF OnlyExcessIsFree
  <2>1. charged = ChargeLeft(Plan, usage) /\ usage.total \in Nat /\ Plan.total \in 0..MaxTotal
    BY <1>1 DEF StreamInv, Books
  <2> DEFINE plan   == Plan
             record == usage
  <2>2. plan.total \in 0..MaxTotal /\ record.total \in Nat
    BY <2>1
  <2> HIDE DEF plan, record
  <2>3. record.status # "failed" /\ ChargeLeft(plan, record) < record.total =>
          ChargeLeft(plan, record) = plan.total
    BY <2>2, ChargeTyped
  <2>4. QED
    BY <2>1, <2>3 DEF plan, record
<1>2. QED
  BY <1>1, StreamAlways, PTL

\* A stream recorded as completed, whose client stayed, gave it all of a stream that
\* vLLM ended, and one [DONE].
THEOREM CompletedStreams == Spec => []CompletedIsComplete
<1>1. StreamInv => CompletedIsComplete
  BY DEF StreamInv, Order, Complete, CompletedIsComplete
<1>2. QED
  BY <1>1, StreamAlways, PTL

\* The relay keeps the lines in order, each once, and terminates the stream once:
\* vLLM's visible lines are produced, a yield delivers, [DONE] is appended at the end
\* of a stream that has none, and every other step is a stutter.
THEOREM RelayInOrder == Spec => ImplementsRelay
<1>1. Init => Relay!Init
  BY VisibleGrows DEF Init, Relay!Init, Shown
<1>2. ASSUME StreamInv, [Next]_vars PROVE [Relay!Next]_(Relay!vars)
  <2>0. /\ TypeOK /\ Order /\ sent \in Seq(Lines) /\ relayed \in Seq(Lines) /\ Shown \in Seq(Lines)
    BY <1>2, VisibleGrows DEF StreamInv, TypeOK, Shown
  <2> DEFINE Quiet == Shown' = Shown /\ (read' = "ended") = (read = "ended") /\ relayed' = relayed
  <2>1. ASSUME Quiet PROVE UNCHANGED Relay!vars
    BY <2>1 DEF Relay!vars
  <2>2. CASE UpstreamSends
    <3>1. PICK l \in Lines : sent' = Append(sent, l)
      BY <2>2 DEF UpstreamSends
    <3>2. read # "ended" /\ read' # "ended" /\ relayed' = relayed
      BY <2>2 DEF UpstreamSends, progress
    <3>3. Shown' = IF l.kind = "space" THEN Shown ELSE Append(Shown, l)
      BY <2>0, <3>1, VisibleGrows DEF Shown
    <3>4. CASE l.kind = "space"
      BY <2>1, <3>2, <3>3, <3>4
    <3>5. CASE l.kind # "space"
      BY <3>2, <3>3, <3>5 DEF Relay!Next, Relay!Produce
    <3>6. QED
      BY <3>4, <3>5
  <2>3. CASE UpstreamEnds
    <3>1. Shown' = Shown /\ read' = "ended" /\ relayed' = relayed
      BY <2>3 DEF UpstreamEnds, progress, Shown
    <3>2. QED
      BY <3>1 DEF Relay!Next, Relay!End
  <2>4. CASE RelayLine
    <3>1. /\ pc = "reading" /\ read = "ready" /\ read' = "idle" /\ sent' = sent
          /\ Last(sent).kind # "space"
          /\ (NoticeGone \/ YieldLine(Last(sent)))
      BY <2>4 DEF RelayLine, upstream
    <3>2. PICK s \in Seq(Lines) : /\ sent = Append(s, Last(sent)) /\ relayed = Visible(s)
                                  /\ Last(sent) \in Lines
      BY <2>0, <3>1, LastRead
    <3>3. Shown = Append(relayed, Last(sent)) /\ Shown' = Shown
      BY <3>1, <3>2, VisibleGrows DEF Shown
    <3>4. CASE NoticeGone
      BY <2>1, <3>1, <3>3, <3>4 DEF NoticeGone, progress
    <3>5. CASE YieldLine(Last(sent))
      <4>1. relayed' = Append(relayed, Last(sent))
        BY <3>5 DEF YieldLine
      <4>2. Len(relayed) < Len(Shown) /\ Shown[Len(relayed) + 1] = Last(sent)
        BY <2>0, <3>2, <3>3, AppendProperties
      <4>3. QED
        BY <3>1, <3>3, <4>1, <4>2 DEF Relay!Next, Relay!Deliver
    <3>6. QED
      BY <3>1, <3>4, <3>5
  <2>5. CASE AppendDone
    <3>1. /\ pc = "reading" /\ read = "ended" /\ read' = "ended" /\ sent' = sent
          /\ ~Contains(relayed, Done)
          /\ (NoticeGone \/ YieldLine(Done))
      BY <2>5 DEF AppendDone, NeedsDone, upstream
    <3>2. relayed = Shown /\ Shown' = Shown
      <4>1. relayed # Append(Shown, Done)
        BY <2>0, <3>1, DoneLast
      <4>2. QED
        BY <2>0, <3>1, <4>1 DEF Order, InStep, Shown
    <3>3. CASE NoticeGone
      BY <2>1, <3>1, <3>2, <3>3 DEF NoticeGone, progress
    <3>4. CASE YieldLine(Done)
      <4>1. relayed' = Append(relayed, Done)
        BY <3>4 DEF YieldLine
      <4>2. QED
        BY <3>1, <3>2, <4>1 DEF Relay!Next, Relay!Terminate, Contains, Relay!Contains
    <3>5. QED
      BY <3>1, <3>3, <3>4
  <2>6. CASE Accept \/ Refuse \/ Answered \/ CallFails
    <3>1. sent' = sent /\ relayed' = relayed
      BY <2>6 DEF Accept, Refuse, Answered, CallFails, upstream, progress
    <3>2. (read' = "ended") = (read = "ended")
      BY <1>2, <2>6 DEF Accept, Refuse, Answered, CallFails, StreamInv, Order
    <3>3. QED
      BY <2>1, <3>1, <3>2 DEF Shown
  <2>7. CASE UpstreamFails \/ Disconnect \/ SkipSpace \/ Heartbeat \/ Pull \/ StreamEnds \/ StreamFails
    <3>1. sent' = sent /\ relayed' = relayed /\ (read' = "ended") = (read = "ended")
      BY <2>7 DEF UpstreamFails, Disconnect, SkipSpace, Heartbeat, NoticeGone, Pull, StreamEnds,
                  StreamFails, upstream, progress
    <3>2. QED
      BY <2>1, <3>1 DEF Shown
  <2>8. CASE Cancel \/ CancelRead \/ CloseUpstream \/ Settle \/ Finished \/ UNCHANGED vars
    <3>1. sent' = sent /\ relayed' = relayed /\ (read' = "ended") = (read = "ended")
      BY <2>8 DEF Cancel, CancelRead, CloseUpstream, Settle, Finished, vars, upstream, progress
    <3>2. QED
      BY <2>1, <3>1 DEF Shown
  <2>9. QED
    BY <1>2, <2>2, <2>3, <2>4, <2>5, <2>6, <2>7, <2>8 DEF Next
<1>3. QED
  BY <1>1, <1>2, StreamAlways, PTL DEF Spec, ImplementsRelay, Relay!Spec
==============================================================================
