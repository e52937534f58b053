----------------------- MODULE AnalyticsPipelineProofs -----------------------
(***************************************************************************)
(* Theorems about AnalyticsPipeline: for any events, sizes of the queue    *)
(* and of a batch, numbers of retries and of outages, either wiring of the *)
(* collector, and whatever faults.                                         *)
(***************************************************************************)
EXTENDS AnalyticsPipeline, FiniteSetTheorems, SequenceTheorems, TLAPS

(***************************************************************************)
(* Sequences                                                               *)
(***************************************************************************)
\* The front of a sequence and the rest of it.
LEMMA TakeElements ==
  ASSUME NEW S, NEW s \in Seq(S), NEW n \in Nat
  PROVE  /\ Take(s, n) \in Seq(S)
         /\ Len(Take(s, n)) = IF n < Len(s) THEN n ELSE Len(s)
         /\ \A i \in 1..Len(Take(s, n)) : Take(s, n)[i] = s[i]
BY DEF Take

\* What comes after the front.
LEMMA SkipElements ==
  ASSUME NEW S, NEW s \in Seq(S), NEW n \in Nat
  PROVE  /\ Skip(s, n) \in Seq(S)
         /\ Len(Skip(s, n)) = IF n < Len(s) THEN Len(s) - n ELSE 0
         /\ \A i \in 1..Len(Skip(s, n)) : Skip(s, n)[i] = s[i + n]
BY DEF Skip

\* The elements of a sequence are those at its places.
LEMMA Elements ==
  ASSUME NEW S, NEW s \in Seq(S)
  PROVE  /\ ToSet(s) \subseteq S
         /\ \A e : e \in ToSet(s) <=> \E i \in 1..Len(s) : s[i] = e
         /\ IsInjective(s) <=> \A i, j \in 1..Len(s) : s[i] = s[j] => i = j
         /\ ToSet(s) = {} <=> s = <<>>
BY DEF ToSet, IsInjective

\* Cutting a sequence in two.
LEMMA Cut ==
  ASSUME NEW S, NEW s \in Seq(S), NEW n \in Nat
  PROVE  /\ ToSet(Take(s, n)) \cup ToSet(Skip(s, n)) = ToSet(s)
         /\ IsInjective(s) => /\ IsInjective(Take(s, n)) /\ IsInjective(Skip(s, n))
                              /\ ToSet(Take(s, n)) \cap ToSet(Skip(s, n)) = {}
<1> DEFINE t == Take(s, n)
           u == Skip(s, n)
<1>1. /\ t \in Seq(S) /\ Len(t) = (IF n < Len(s) THEN n ELSE Len(s))
      /\ \A i \in 1..Len(t) : t[i] = s[i]
  BY TakeElements
<1>2. /\ u \in Seq(S) /\ Len(u) = (IF n < Len(s) THEN Len(s) - n ELSE 0)
      /\ \A i \in 1..Len(u) : u[i] = s[i + n]
  BY SkipElements
<1> HIDE DEF t, u
<1>3. ToSet(t) \cup ToSet(u) = ToSet(s)
  <2>1. ASSUME NEW e \in ToSet(s) PROVE e \in ToSet(t) \cup ToSet(u)
    <3>1. PICK i \in 1..Len(s) : s[i] = e
      BY Elements
    <3>2. CASE i <= n
      <4>1. i \in 1..Len(t) /\ t[i] = e
        BY <1>1, <3>1, <3>2
      <4>2. QED
        BY <1>1, <4>1, Elements
    <3>3. CASE i > n
      <4>1. i - n \in 1..Len(u) /\ u[i - n] = e
        BY <1>2, <3>1, <3>3
      <4>2. QED
        BY <1>2, <4>1, Elements
    <3>4. QED
      BY <3>2, <3>3
  <2>2. ASSUME NEW e \in ToSet(t) PROVE e \in ToSet(s)
    <3>1. PICK i \in 1..Len(t) : t[i] = e
      BY <1>1, Elements
    <3>2. i \in 1..Len(s) /\ s[i] = e
      BY <1>1, <3>1
    <3>3. QED
      BY <3>2, Elements
  <2>3. ASSUME NEW e \in ToSet(u) PROVE e \in ToSet(s)
    <3>1. PICK i \in 1..Len(u) : u[i] = e
      BY <1>2, Elements
    <3>2. i + n \in 1..Len(s) /\ s[i + n] = e
      BY <1>2, <3>1
    <3>3. QED
      BY <3>2, Elements
  <2>4. QED
    BY <2>1, <2>2, <2>3
<1>4. ASSUME IsInjective(s)
      PROVE  IsInjective(t) /\ IsInjective(u) /\ ToSet(t) \cap ToSet(u) = {}
  <2>1. \A i, j \in 1..Len(s) : s[i] = s[j] => i = j
    BY <1>4, Elements
  <2>2. \A i, j \in 1..Len(t) : t[i] = t[j] => i = j
    BY <1>1, <2>1
  <2>3. \A i, j \in 1..Len(u) : u[i] = u[j] => i = j
    <3>1. \A i \in 1..Len(u) : i + n \in 1..Len(s)
      BY <1>2
    <3>2. QED
      BY <1>2, <2>1, <3>1
  <2>4. \A i \in 1..Len(t), j \in 1..Len(u) : t[i] # u[j]
    <3>1. \A i \in 1..Len(t), j \in 1..Len(u) :
            /\ i \in 1..Len(s) /\ j + n \in 1..Len(s) /\ i # j + n
            /\ t[i] = s[i] /\ u[j] = s[j + n]
      BY <1>1, <1>2
    <3>2. QED
      BY <2>1, <3>1
  <2>5. ASSUME NEW e \in ToSet(t), e \in ToSet(u) PROVE FALSE
    <3>1. PICK i \in 1..Len(t) : t[i] = e
      BY <1>1, Elements
    <3>2. PICK j \in 1..Len(u) : u[j] = e
      BY <1>2, <2>5, Elements
    <3>3. QED
      BY <2>4, <3>1, <3>2
  <2>6. QED
    BY <1>1, <1>2, <2>2, <2>3, <2>5, Elements
<1>5. QED
  BY <1>3, <1>4 DEF t, u

\* Putting two sequences together.
LEMMA Joined ==
  ASSUME NEW S, NEW s \in Seq(S), NEW t \in Seq(S)
  PROVE  /\ s \o t \in Seq(S) /\ Len(s \o t) = Len(s) + Len(t)
         /\ ToSet(s \o t) = ToSet(s) \cup ToSet(t)
         /\ IsInjective(s) /\ IsInjective(t) /\ ToSet(s) \cap ToSet(t) = {} => IsInjective(s \o t)
<1> DEFINE u == s \o t
<1>1. /\ u \in Seq(S) /\ Len(u) = Len(s) + Len(t)
      /\ \A i \in 1..Len(s) : u[i] = s[i]
      /\ \A i \in 1..Len(t) : u[i + Len(s)] = t[i]
      /\ \A i \in 1..Len(u) : i \in 1..Len(s) \/ (i - Len(s) \in 1..Len(t) /\ u[i] = t[i - Len(s)])
  OBVIOUS
<1> HIDE DEF u
<1>2. ASSUME NEW e PROVE e \in ToSet(u) <=> e \in ToSet(s) \cup ToSet(t)
  <2>1. ASSUME NEW i \in 1..Len(u), u[i] = e PROVE e \in ToSet(s) \cup ToSet(t)
    <3>1. CASE i \in 1..Len(s)
      <4>1. s[i] = e
        BY <1>1, <2>1, <3>1
      <4>2. QED
        BY <3>1, <4>1, Elements
    <3>2. CASE i - Len(s) \in 1..Len(t) /\ u[i] = t[i - Len(s)]
      <4> DEFINE j == i - Len(s)
      <4>1. j \in 1..Len(t) /\ t[j] = e
        BY <2>1, <3>2
      <4> HIDE DEF j
      <4>2. QED
        BY <4>1, Elements
    <3>3. QED
      BY <1>1, <3>1, <3>2
  <2>2. ASSUME NEW i \in 1..Len(s), s[i] = e PROVE e \in ToSet(u)
    <3>1. i \in 1..Len(u) /\ u[i] = e
      BY <1>1, <2>2
    <3>2. QED
      BY <1>1, <3>1, Elements
  <2>3. ASSUME NEW i \in 1..Len(t), t[i] = e PROVE e \in ToSet(u)
    <3>1. i + Len(s) \in 1..Len(u) /\ u[i + Len(s)] = e
      BY <1>1, <2>3
    <3>2. QED
      BY <1>1, <3>1, Elements
  <2>4. QED
    BY <1>1, <2>1, <2>2, <2>3, Elements
<1>3. ASSUME IsInjective(s), IsInjective(t), ToSet(s) \cap ToSet(t) = {}
      PROVE  IsInjective(u)
  <2>1. /\ \A i, j \in 1..Len(s) : s[i] = s[j] => i = j
        /\ \A i, j \in 1..Len(t) : t[i] = t[j] => i = j
    BY <1>3, Elements
  <2>2. \A i \in 1..Len(s), j \in 1..Len(t) : s[i] # t[j]
    BY <1>3, Elements
  <2>3. ASSUME NEW i \in 1..Len(u), NEW j \in 1..Len(u), u[i] = u[j] PROVE i = j
    <3>1. i \in 1..Len(s) \/ (i - Len(s) \in 1..Len(t) /\ u[i] = t[i - Len(s)])
      BY <1>1
    <3>2. j \in 1..Len(s) \/ (j - Len(s) \in 1..Len(t) /\ u[j] = t[j - Len(s)])
      BY <1>1
    <3>3. \A k \in 1..Len(s) : u[k] = s[k]
      BY <1>1
    <3>4. CASE i \in 1..Len(s) /\ j \in 1..Len(s)
      BY <2>1, <2>3, <3>3, <3>4
    <3>5. CASE i \in 1..Len(s) /\ j - Len(s) \in 1..Len(t) /\ u[j] = t[j - Len(s)]
      BY <2>2, <2>3, <3>3, <3>5
    <3>6. CASE j \in 1..Len(s) /\ i - Len(s) \in 1..Len(t) /\ u[i] = t[i - Len(s)]
      BY <2>2, <2>3, <3>3, <3>6
    <3>7. CASE /\ i - Len(s) \in 1..Len(t) /\ u[i] = t[i - Len(s)]
               /\ j - Len(s) \in 1..Len(t) /\ u[j] = t[j - Len(s)]
      <4>1. i - Len(s) = j - Len(s)
        BY <2>1, <2>3, <3>7
      <4>2. QED
        BY <4>1
    <3>8. QED
      BY <3>1, <3>2, <3>4, <3>5, <3>6, <3>7
  <2>4. QED
    BY <1>1, <2>3, Elements
<1>4. QED
  BY <1>1, <1>2, <1>3 DEF u

\* Where the elements of two sequences come in the one put together.
LEMMA JoinedAt ==
  ASSUME NEW S, NEW s \in Seq(S), NEW t \in Seq(S)
  PROVE  /\ \A i \in 1..Len(s) : i \in 1..Len(s \o t) /\ (s \o t)[i] = s[i]
         /\ \A i \in 1..Len(t) : i + Len(s) \in 1..Len(s \o t) /\ (s \o t)[i + Len(s)] = t[i]
         /\ \A i \in 1..Len(s \o t) :
              i \in 1..Len(s) \/ (i - Len(s) \in 1..Len(t) /\ (s \o t)[i] = t[i - Len(s)])
OBVIOUS

\* The front and the rest are the sequence.
LEMMA Whole ==
  ASSUME NEW S, NEW s \in Seq(S), NEW n \in 0..Len(s)
  PROVE  Take(s, n) \o Skip(s, n) = s
<1> DEFINE t == Take(s, n)
           u == Skip(s, n)
<1>0. n \in Nat /\ Len(s) \in Nat /\ n <= Len(s)
  OBVIOUS
<1>1. t \in Seq(S) /\ Len(t) = n /\ \A i \in 1..n : t[i] = s[i]
  <2>1. Len(t) = IF n < Len(s) THEN n ELSE Len(s)
    BY <1>0, TakeElements
  <2>2. Len(t) = n
    BY <1>0, <2>1
  <2>3. QED
    BY <1>0, <2>2, TakeElements
<1>2. u \in Seq(S) /\ Len(u) = Len(s) - n /\ \A i \in 1..Len(u) : u[i] = s[i + n]
  <2>1. Len(u) = IF n < Len(s) THEN Len(s) - n ELSE 0
    BY <1>0, SkipElements
  <2>2. Len(u) = Len(s) - n
    BY <1>0, <2>1
  <2>3. QED
    BY <1>0, <2>2, SkipElements
<1> HIDE DEF t, u
<1>3. t \o u \in Seq(S) /\ Len(t \o u) = Len(s)
  <2>1. t \o u \in Seq(S) /\ Len(t \o u) = Len(t) + Len(u)
    BY <1>1, <1>2, Joined
  <2>2. QED
    BY <1>0, <1>1, <1>2, <2>1
<1>4. ASSUME NEW i \in 1..Len(s) PROVE (t \o u)[i] = s[i]
  <2>1. i \in 1..Len(t \o u)
    BY <1>3
  <2>2. i \in 1..Len(t) \/ (i - Len(t) \in 1..Len(u) /\ (t \o u)[i] = u[i - Len(t)])
    <3>1. t \in Seq(S) /\ u \in Seq(S)
      BY <1>1, <1>2
    <3>2. \A j \in 1..Len(t \o u) :
            j \in 1..Len(t) \/ (j - Len(t) \in 1..Len(u) /\ (t \o u)[j] = u[j - Len(t)])
      BY <3>1, JoinedAt
    <3>3. QED
      BY <2>1, <3>2
  <2>3. CASE i \in 1..Len(t)
    <3>1. (t \o u)[i] = t[i]
      BY <1>1, <1>2, <2>3, JoinedAt
    <3>2. QED
      BY <1>1, <2>3, <3>1
  <2>4. CASE i - Len(t) \in 1..Len(u) /\ (t \o u)[i] = u[i - Len(t)]
    BY <1>0, <1>1, <1>2, <2>4
  <2>5. QED
    BY <2>2, <2>3, <2>4
<1>5. t \o u = s
  BY <1>3, <1>4, SeqEqual
<1>6. QED
  BY <1>5 DEF t, u

\* One more element at the end.
LEMMA Longer ==
  ASSUME NEW S, NEW s \in Seq(S), NEW e \in S
  PROVE  /\ Append(s, e) \in Seq(S) /\ Len(Append(s, e)) = Len(s) + 1
         /\ ToSet(Append(s, e)) = ToSet(s) \cup {e}
         /\ IsInjective(s) /\ e \notin ToSet(s) => IsInjective(Append(s, e))
<1> DEFINE t == <<e>>
<1>1. Append(s, e) = s \o t /\ t \in Seq(S)
  OBVIOUS
<1>2. ToSet(t) = {e} /\ IsInjective(t) /\ Len(t) = 1
  BY DEF ToSet, IsInjective
<1> HIDE DEF t
<1>3. ToSet(s \o t) = ToSet(s) \cup ToSet(t) /\ s \o t \in Seq(S) /\ Len(s \o t) = Len(s) + Len(t)
  BY <1>1, Joined
<1>4. IsInjective(s) /\ e \notin ToSet(s) => IsInjective(s \o t)
  BY <1>1, <1>2, Joined
<1>5. QED
  BY <1>1, <1>2, <1>3, <1>4

\* One more element at the end of the second of two.
LEMMA LongerAfter ==
  ASSUME NEW S, NEW s \in Seq(S), NEW t \in Seq(S), NEW e \in S
  PROVE  s \o Append(t, e) = Append(s \o t, e)
<1> DEFINE o == <<e>>
<1>1. /\ o \in Seq(S) /\ Append(t, e) = t \o o /\ s \o t \in Seq(S)
      /\ Append(s \o t, e) = (s \o t) \o o
  <2>1. s \o t \in Seq(S)
    BY Joined
  <2>2. \A x \in Seq(S) : Append(x, e) = x \o o
    OBVIOUS
  <2>3. QED
    BY <2>1, <2>2
<1> HIDE DEF o
<1>2. (s \o t) \o o = s \o (t \o o)
  <2>1. o \in Seq(S)
    BY <1>1
  <2>2. QED
    BY <2>1
<1>3. QED
  BY <1>1, <1>2

(***************************************************************************)
(* The inserts of a batch                                                  *)
(***************************************************************************)
Calls == [batch : Seq(Events), rows : SUBSET Events]

\* The tables of a batch are different, and there is one for each of its events.
LEMMA TablesShape ==
  ASSUME NEW batch \in Seq(Events), batch # <<>>
  PROVE  /\ Len(TablesOf(batch)) \in Nat
         /\ \A i, j \in 1..Len(TablesOf(batch)) : TablesOf(batch)[i] = TablesOf(batch)[j] => i = j
         /\ \A e \in ToSet(batch) : \E i \in 1..Len(TablesOf(batch)) : TablesOf(batch)[i] = TableOf(e)
<1> DEFINE first == TableOf(Head(batch))
           other == IF first = "usage_events" THEN "inference_events" ELSE "usage_events"
<1>1. first # other /\ \A e \in ToSet(batch) : TableOf(e) \in {first, other}
  BY DEF TableOf
<1>2. TablesOf(batch) = IF \E e \in ToSet(batch) : TableOf(e) = other THEN <<first, other>>
                                                                       ELSE <<first>>
  BY DEF TablesOf
<1> HIDE DEF first, other
<1>3. CASE \E e \in ToSet(batch) : TableOf(e) = other
  <2> DEFINE t == <<first, other>>
  <2>1. Len(t) = 2 /\ t[1] = first /\ t[2] = other
    OBVIOUS
  <2>2. TablesOf(batch) = t
    BY <1>2, <1>3
  <2> HIDE DEF t
  <2>3. \A i, j \in 1..Len(t) : t[i] = t[j] => i = j
    BY <1>1, <2>1
  <2>4. \A e \in ToSet(batch) : \E i \in 1..Len(t) : t[i] = TableOf(e)
    BY <1>1, <2>1
  <2>5. Len(t) \in Nat
    BY <2>1
  <2>6. QED
    BY <2>2, <2>3, <2>4, <2>5, Zenon
<1>4. CASE ~\E e \in ToSet(batch) : TableOf(e) = other
  <2> DEFINE t == <<first>>
  <2>1. Len(t) = 1 /\ t[1] = first
    OBVIOUS
  <2>2. TablesOf(batch) = t
    BY <1>2, <1>4
  <2> HIDE DEF t
  <2>3. \A i, j \in 1..Len(t) : t[i] = t[j] => i = j
    BY <2>1
  <2>4. \A e \in ToSet(batch) : \E i \in 1..Len(t) : t[i] = TableOf(e)
    BY <1>1, <1>4, <2>1
  <2>5. Len(t) \in Nat
    BY <2>1
  <2>6. QED
    BY <2>2, <2>3, <2>4, <2>5, Zenon
<1>5. QED
  BY <1>3, <1>4

\* The inserts of a batch carry its events, each at most once, and all of them when
\* no table is left out.
LEMMA InsertedRows ==
  ASSUME NEW batch \in Seq(Events), batch # <<>>, NEW n \in 0..Len(TablesOf(batch))
  PROVE  /\ Inserted(batch, n) \in Seq(Calls) /\ Len(Inserted(batch, n)) = n
         /\ \A i \in 1..n : /\ Inserted(batch, n)[i].batch = batch
                            /\ Inserted(batch, n)[i].rows \subseteq ToSet(batch)
                            /\ \A e : e \in Inserted(batch, n)[i].rows <=>
                                        e \in ToSet(batch) /\ TableOf(e) = TablesOf(batch)[i]
         /\ \A i, j \in 1..n : \A e \in Inserted(batch, n)[i].rows :
              e \in Inserted(batch, n)[j].rows => i = j
         /\ n = Len(TablesOf(batch)) =>
              \A e \in ToSet(batch) : \E i \in 1..n : e \in Inserted(batch, n)[i].rows
<1> DEFINE t == TablesOf(batch)
           c(i) == [batch |-> batch, rows |-> {e \in ToSet(batch) : TableOf(e) = t[i]}]
           s == [i \in 1..n |-> c(i)]
<1>1. Inserted(batch, n) = s /\ n \in Nat
  BY TablesShape DEF Inserted
<1>2. \A i \in 1..n : c(i) \in Calls
  BY Elements DEF Calls
<1>3. \A i \in 1..n : c(i).batch = batch /\ \A e : e \in c(i).rows <=> e \in ToSet(batch) /\ TableOf(e) = t[i]
  OBVIOUS
<1>4. /\ \A i, j \in 1..Len(t) : t[i] = t[j] => i = j
      /\ \A e \in ToSet(batch) : \E i \in 1..Len(t) : t[i] = TableOf(e)
      /\ 1..n \subseteq 1..Len(t)
  BY TablesShape
<1> HIDE DEF c, t
<1>5. s \in Seq(Calls) /\ Len(s) = n /\ \A i \in 1..n : s[i] = c(i)
  BY <1>1, <1>2
<1> HIDE DEF s
<1>6. /\ \A i \in 1..n : \A e : e \in s[i].rows <=> e \in ToSet(batch) /\ TableOf(e) = t[i]
      /\ \A i \in 1..n : s[i].batch = batch
  BY <1>3, <1>5
<1>7. \A i, j \in 1..n : \A e \in s[i].rows : e \in s[j].rows => i = j
  BY <1>4, <1>6
<1>8. n = Len(t) => \A e \in ToSet(batch) : \E i \in 1..n : e \in s[i].rows
  BY <1>4, <1>6
<1>9. QED
  BY <1>1, <1>5, <1>6, <1>7, <1>8 DEF t

\* What the rows of some inserts are.
LEMMA RowsOf ==
  ASSUME NEW s \in Seq(Calls)
  PROVE  /\ UNION {c.rows : c \in ToSet(s)} \subseteq Events
         /\ \A e : e \in UNION {c.rows : c \in ToSet(s)} <=> \E i \in 1..Len(s) : e \in s[i].rows
<1>1. \A c : c \in ToSet(s) <=> \E i \in 1..Len(s) : s[i] = c
  BY Elements
<1>2. \A i \in 1..Len(s) : s[i].rows \subseteq Events
  <2>1. \A i \in 1..Len(s) : s[i] \in Calls
    OBVIOUS
  <2>2. QED
    BY <2>1 DEF Calls
<1>3. QED
  BY <1>1, <1>2

\* An attempt adds the events of the tables it got to.
LEMMA AttemptStores ==
  ASSUME inserts \in Seq(Calls), NEW batch \in Seq(Events), batch # <<>>,
         NEW n \in 0..Len(TablesOf(batch)), inserts' = inserts \o Inserted(batch, n)
  PROVE  /\ inserts' \in Seq(Calls)
         /\ Stored \subseteq Stored' /\ Stored' \subseteq Stored \cup ToSet(batch)
         /\ n = Len(TablesOf(batch)) => ToSet(batch) \subseteq Stored'
<1> DEFINE c == Inserted(batch, n)
<1>1. /\ c \in Seq(Calls) /\ Len(c) = n /\ n \in Nat
      /\ \A i \in 1..n : c[i].rows \subseteq ToSet(batch)
      /\ n = Len(TablesOf(batch)) => \A e \in ToSet(batch) : \E i \in 1..n : e \in c[i].rows
  BY InsertedRows, TablesShape
<1>2. inserts' = inserts \o c
  OBVIOUS
<1> HIDE DEF c
<1>3. /\ inserts' \in Seq(Calls) /\ Len(inserts') = Len(inserts) + n
      /\ \A i \in 1..Len(inserts) : inserts'[i] = inserts[i]
      /\ \A i \in 1..n : inserts'[i + Len(inserts)] = c[i]
      /\ \A i \in 1..Len(inserts') :
           i \in 1..Len(inserts) \/ (i - Len(inserts) \in 1..n /\ inserts'[i] = c[i - Len(inserts)])
  <2>1. inserts \o c \in Seq(Calls) /\ Len(inserts \o c) = Len(inserts) + n
    BY <1>1, Joined
  <2>2. QED
    BY <1>1, <1>2, <2>1, JoinedAt
<1>4. /\ \A e : e \in Stored <=> \E i \in 1..Len(inserts) : e \in inserts[i].rows
      /\ \A e : e \in Stored' <=> \E i \in 1..Len(inserts') : e \in inserts'[i].rows
  <2>1. Stored = UNION {x.rows : x \in ToSet(inserts)}
    BY DEF Stored
  <2>2. Stored' = UNION {x.rows : x \in ToSet(inserts')}
    BY DEF Stored
  <2>3. QED
    BY <1>3, <2>1, <2>2, RowsOf
<1>5. ASSUME NEW e \in Stored PROVE e \in Stored'
  <2>1. PICK i \in 1..Len(inserts) : e \in inserts[i].rows
    BY <1>4
  <2>2. i \in 1..Len(inserts') /\ e \in inserts'[i].rows
    BY <1>1, <1>3, <2>1
  <2>3. QED
    BY <1>4, <2>2
<1>6. ASSUME NEW e \in Stored' PROVE e \in Stored \cup ToSet(batch)
  <2>1. PICK i \in 1..Len(inserts') : e \in inserts'[i].rows
    BY <1>4
  <2>2. QED
    BY <1>1, <1>3, <1>4, <2>1
<1>7. ASSUME n = Len(TablesOf(batch)), NEW e \in ToSet(batch) PROVE e \in Stored'
  <2>1. PICK i \in 1..n : e \in c[i].rows
    BY <1>1, <1>7
  <2>2. i + Len(inserts) \in 1..Len(inserts') /\ e \in inserts'[i + Len(inserts)].rows
    BY <1>1, <1>3, <2>1
  <2>3. QED
    BY <1>4, <2>2
<1>8. QED
  BY <1>3, <1>5, <1>6, <1>7

(***************************************************************************)
(* Where the events are                                                    *)
(***************************************************************************)
\* The events that met a fate other than ClickHouse.
Away == spool \cup dropped \cup lost

\* An event is in one place, once.
Distinct ==
  /\ IsInjective(queue) /\ ToSet(queue) \cap spooling = {}
  /\ \A f \in Tasks : /\ IsInjective(hand[f])
                      /\ ToSet(queue) \cap ToSet(hand[f]) = {}
                      /\ spooling \cap ToSet(hand[f]) = {}
  /\ ToSet(hand["loop"]) \cap ToSet(hand["stop"]) = {}

\* A task between two attempts has a batch and an attempt left, and stop has not begun
\* before SIGTERM.
Progress ==
  /\ \A f \in Tasks : pc[f] = "retry" => tries[f] \in 1..(MaxRetries - 1) /\ hand[f] # <<>>
  /\ proc = "running" => pc["stop"] = "off"

\* The inductive invariant of the places.
PlaceInv ==
  /\ TypeOK /\ Progress /\ Distinct
  /\ Held \cup Stored \cup Away \subseteq ToSet(collected)
  /\ Held \cap Away = {}
  /\ counter = Cardinality(dropped)

\* No event that was collected is forgotten.
NoneForgotten == ToSet(collected) \subseteq Held \cup Stored \cup Away

\* What a step does to the fates: none is taken back, what is held stays or meets one,
\* only what was held or is new meets one, and what is new is held or meets one.
Keeps ==
  /\ Stored \subseteq Stored' /\ spool \subseteq spool'
  /\ dropped \subseteq dropped' /\ lost \subseteq lost'
  /\ Held \subseteq Held' \cup Stored' \cup Away'
  /\ Stored' \ Stored \subseteq Held /\ lost' \ lost \subseteq Held
  /\ spool' \ spool \subseteq Held \cap Critical
  /\ dropped' \ dropped \subseteq (Held \cup (Events \ ToSet(collected))) \ Critical
  /\ Held' \ Held \subseteq Events \ ToSet(collected)
  /\ ToSet(collected') \subseteq ToSet(collected) \cup Held' \cup Away'

\* The task beside f.
Other(f) == IF f = "loop" THEN "stop" ELSE "loop"

\* What is held, seen from one task, and what the places have in common.
LEMMA HeldBy ==
  ASSUME NEW f \in Tasks
  PROVE  /\ Other(f) \in Tasks /\ Other(f) # f /\ Tasks = {f, Other(f)}
         /\ Held = ToSet(queue) \cup ToSet(hand[f]) \cup ToSet(hand[Other(f)]) \cup spooling
         /\ Held' = ToSet(queue') \cup ToSet(hand'[f]) \cup ToSet(hand'[Other(f)]) \cup spooling'
         /\ ToSet(hand["loop"]) \cap ToSet(hand["stop"]) = ToSet(hand[f]) \cap ToSet(hand[Other(f)])
         /\ ToSet(hand'["loop"]) \cap ToSet(hand'["stop"]) = ToSet(hand'[f]) \cap ToSet(hand'[Other(f)])
<1>1. CASE f = "loop"
  BY <1>1 DEF Other, Tasks, Held
<1>2. CASE f = "stop"
  BY <1>2 DEF Other, Tasks, Held
<1>3. QED
  BY <1>1, <1>2 DEF Tasks

\* Types that the proofs take apart.
LEMMA Typed ==
  ASSUME TypeOK
  PROVE  /\ queue \in Seq(Events) /\ Len(queue) <= MaxSize /\ collected \in Seq(Events)
         /\ hand \in [Tasks -> Seq(Events)] /\ inserts \in Seq(Calls)
         /\ \A f \in Tasks : Len(hand[f]) <= BatchSize /\ (hand[f] # <<>> => pc[f] = "retry")
         /\ pc \in [Tasks -> {"off", "wait", "retry", "flushed", "done"}]
         /\ tries \in [Tasks -> 0..MaxRetries]
         /\ counter \in Nat /\ failures \in Nat /\ outages \in 0..MaxOutages
         /\ spooling \subseteq Critical /\ spool \subseteq Critical
         /\ dropped \subseteq Events \ Critical /\ lost \subseteq Events
         /\ MaxSize \in Nat \ {0} /\ BatchSize \in Nat \ {0} /\ MaxRetries \in Nat \ {0}
         /\ MaxOutages \in Nat
         /\ proc \in {"running", "stopping", "cancelled", "exited"}
BY LimitsAssumption DEF TypeOK, Calls

\* The events that leave no room are counted as they are dropped.
LEMMA OverflowCounts ==
  ASSUME dropped \subseteq Events, counter = Cardinality(dropped), NEW S,
         S \subseteq Events, S \cap dropped = {}, Overflow(S)
  PROVE  counter' = Cardinality(dropped') /\ counter' \in Nat
<1> DEFINE X == S \ Critical
<1>1. IsFiniteSet(dropped) /\ IsFiniteSet(X) /\ dropped \cap X = {}
  BY EventsAssumption, FS_Subset
<1>2. /\ Cardinality(dropped \cup X) = Cardinality(dropped) + Cardinality(X) - Cardinality(dropped \cap X)
      /\ Cardinality(dropped) \in Nat /\ Cardinality(X) \in Nat
  BY <1>1, FS_Union, FS_CardinalityType
<1>3. Cardinality(dropped \cap X) = 0
  BY <1>1, FS_EmptySet
<1>4. dropped' = dropped \cup X /\ counter' = counter + Cardinality(X)
  BY DEF Overflow
<1> HIDE DEF X
<1>5. QED
  BY <1>2, <1>3, <1>4

\* How a flush takes a batch from the queue, or from the hand it is in.
Split(f, batch, rest) ==
  /\ batch \in Seq(Events) /\ batch # <<>> /\ Len(batch) <= BatchSize
  /\ rest \in Seq(Events) /\ Len(rest) <= MaxSize
  /\ IsInjective(batch) /\ IsInjective(rest) /\ ToSet(batch) \cap ToSet(rest) = {}
  /\ ToSet(batch) \cup ToSet(rest) = ToSet(queue) \cup ToSet(hand[f])
  /\ batch \o rest = hand[f] \o queue /\ hand[f] \in {<<>>, batch}

\* The empty sequence.
LEMMA Empty == <<>> \in Seq(Events) /\ ToSet(<<>>) = {} /\ IsInjective(<<>>) /\ Len(<<>>) = 0
BY DEF ToSet, IsInjective

\* What a flush holds is held, and is in no other place.
LEMMA SplitApart ==
  ASSUME PlaceInv, NEW f \in Tasks, NEW batch, NEW rest, Split(f, batch, rest)
  PROVE  /\ ToSet(batch) \subseteq Held /\ ToSet(rest) \subseteq Held
         /\ Held = ToSet(batch) \cup ToSet(rest) \cup ToSet(hand[Other(f)]) \cup spooling
         /\ (ToSet(batch) \cup ToSet(rest)) \cap (ToSet(hand[Other(f)]) \cup spooling) = {}
         /\ ToSet(hand[Other(f)]) \cap spooling = {} /\ IsInjective(hand[Other(f)])
         /\ Held \subseteq ToSet(collected) /\ Held \cap dropped = {} /\ Held \subseteq Events
<1>1. /\ Held = ToSet(queue) \cup ToSet(hand[f]) \cup ToSet(hand[Other(f)]) \cup spooling
      /\ Other(f) \in Tasks
      /\ ToSet(hand["loop"]) \cap ToSet(hand["stop"]) = ToSet(hand[f]) \cap ToSet(hand[Other(f)])
  BY HeldBy
<1>2. Distinct /\ TypeOK /\ Held \subseteq ToSet(collected) /\ Held \cap dropped = {}
  BY DEF PlaceInv, Away
<1>3. collected \in Seq(Events)
  BY <1>2, Typed
<1>4. ToSet(collected) \subseteq Events
  BY <1>3, Elements
<1>5. QED
  BY <1>1, <1>2, <1>4 DEF Split, Distinct

\* The places after a step of one task.
LEMMA DistinctNext ==
  ASSUME NEW f \in Tasks, IsInjective(queue'), IsInjective(hand'[f]), IsInjective(hand'[Other(f)]),
         ToSet(queue') \cap spooling' = {},
         ToSet(queue') \cap ToSet(hand'[f]) = {}, ToSet(queue') \cap ToSet(hand'[Other(f)]) = {},
         spooling' \cap ToSet(hand'[f]) = {}, spooling' \cap ToSet(hand'[Other(f)]) = {},
         ToSet(hand'[f]) \cap ToSet(hand'[Other(f)]) = {}
  PROVE  Distinct'
<1>1. /\ Tasks = {f, Other(f)}
      /\ ToSet(hand'["loop"]) \cap ToSet(hand'["stop"])
           = ToSet(hand'[f]) \cap ToSet(hand'[Other(f)])
  BY HeldBy
<1>2. QED
  BY <1>1 DEF Distinct

\* What an attempt leaves of a task.
LEMMA TaskLeft ==
  ASSUME TypeOK, Progress, NEW f \in Tasks, NEW p \in {"wait", "flushed", "retry"},
         NEW h \in Seq(Events), NEW t \in 0..MaxRetries,
         pc' = [pc EXCEPT ![f] = p], hand' = [hand EXCEPT ![f] = h],
         tries' = [tries EXCEPT ![f] = t],
         Len(h) <= BatchSize, h # <<>> => p = "retry",
         p = "retry" => t \in 1..(MaxRetries - 1) /\ h # <<>>,
         proc' = "running" => f = "loop" /\ proc = "running"
  PROVE  /\ Progress' /\ hand'[f] = h /\ hand'[Other(f)] = hand[Other(f)]
         /\ pc' \in [Tasks -> {"off", "wait", "retry", "flushed", "done"}]
         /\ hand' \in [Tasks -> Seq(Events)] /\ tries' \in [Tasks -> 0..MaxRetries]
         /\ \A g \in Tasks : Len(hand'[g]) <= BatchSize /\ (hand'[g] # <<>> => pc'[g] = "retry")
<1>1. Other(f) \in Tasks /\ Other(f) # f /\ Tasks = {f, Other(f)}
  BY HeldBy
<1>2. /\ pc \in [Tasks -> {"off", "wait", "retry", "flushed", "done"}]
      /\ hand \in [Tasks -> Seq(Events)] /\ tries \in [Tasks -> 0..MaxRetries]
      /\ \A g \in Tasks : Len(hand[g]) <= BatchSize /\ (hand[g] # <<>> => pc[g] = "retry")
  BY Typed
<1>3. /\ pc' \in [Tasks -> {"off", "wait", "retry", "flushed", "done"}]
      /\ hand' \in [Tasks -> Seq(Events)] /\ tries' \in [Tasks -> 0..MaxRetries]
      /\ pc'[f] = p /\ hand'[f] = h /\ tries'[f] = t
      /\ \A g \in Tasks \ {f} : pc'[g] = pc[g] /\ hand'[g] = hand[g] /\ tries'[g] = tries[g]
  BY <1>2
<1>4. Progress'
  <2>1. \A g \in Tasks : pc'[g] = "retry" => tries'[g] \in 1..(MaxRetries - 1) /\ hand'[g] # <<>>
    BY <1>3 DEF Progress
  <2>2. proc' = "running" => pc'["stop"] = "off"
    BY <1>3 DEF Progress, Tasks
  <2>3. QED
    BY <2>1, <2>2 DEF Progress
<1>5. \A g \in Tasks : Len(hand'[g]) <= BatchSize /\ (hand'[g] # <<>> => pc'[g] = "retry")
  BY <1>2, <1>3
<1>6. QED
  BY <1>1, <1>3, <1>4, <1>5

\* A flush that returns leaves an empty hand.
LEMMA ReturnsLeft ==
  ASSUME TypeOK, Progress, NEW f \in Tasks, Returns(f),
         proc' = "running" => f = "loop" /\ proc = "running"
  PROVE  /\ Progress' /\ hand'[f] = <<>> /\ hand'[Other(f)] = hand[Other(f)]
         /\ pc' \in [Tasks -> {"off", "wait", "retry", "flushed", "done"}]
         /\ hand' \in [Tasks -> Seq(Events)] /\ tries' \in [Tasks -> 0..MaxRetries]
         /\ \A g \in Tasks : Len(hand'[g]) <= BatchSize /\ (hand'[g] # <<>> => pc'[g] = "retry")
<1> DEFINE p == IF f = "loop" THEN "wait" ELSE "flushed"
           h == <<>>
<1>1. /\ pc' = [pc EXCEPT ![f] = p] /\ hand' = [hand EXCEPT ![f] = h]
      /\ tries' = [tries EXCEPT ![f] = 0]
  BY DEF Returns
<1>2. p \in {"wait", "flushed", "retry"} /\ p # "retry" /\ h \in Seq(Events) /\ Len(h) = 0 /\ h = <<>>
  OBVIOUS
<1>3. 0 \in 0..MaxRetries /\ 0 <= BatchSize
  BY LimitsAssumption
<1> HIDE DEF p, h
<1>4. /\ Progress' /\ hand'[f] = h /\ hand'[Other(f)] = hand[Other(f)]
      /\ pc' \in [Tasks -> {"off", "wait", "retry", "flushed", "done"}]
      /\ hand' \in [Tasks -> Seq(Events)] /\ tries' \in [Tasks -> 0..MaxRetries]
      /\ \A g \in Tasks : Len(hand'[g]) <= BatchSize /\ (hand'[g] # <<>> => pc'[g] = "retry")
  BY <1>1, <1>2, <1>3, TaskLeft
<1>5. QED
  BY <1>2, <1>4

\* Whatever an attempt does, ClickHouse has taken the first tables of the batch.
LEMMA AttemptInserts ==
  ASSUME NEW f \in Tasks, NEW batch \in Seq(Events), batch # <<>>, NEW rest,
         NEW k \in 1..MaxRetries, Attempt(f, batch, rest, k)
  PROVE  \E n \in 0..Len(TablesOf(batch)) : inserts' = inserts \o Inserted(batch, n)
<1> DEFINE T == Len(TablesOf(batch))
           Taken(n) == inserts' = inserts \o Inserted(batch, n)
<1>1. T \in 0..T
  BY TablesShape
<1>2. CASE Taken(T)
  <2> HIDE DEF T, Taken
  <2>1. \E n \in 0..T : Taken(n)
    BY <1>1, <1>2, Zenon
  <2>2. QED
    BY <2>1, Zenon DEF T, Taken
<1>3. CASE \E n \in 0..T : Taken(n)
  BY <1>3, Zenon
<1>4. Taken(T) \/ \E n \in 0..T : Taken(n)
  BY Zenon DEF Attempt
<1>5. QED
  BY <1>2, <1>3, <1>4, Zenon

\* A batch goes to ClickHouse, stays in the hand, or goes back and overflows.
LEMMA AttemptKeeps ==
  ASSUME PlaceInv, NEW f \in Tasks, NEW batch, NEW rest, Split(f, batch, rest),
         NEW k \in 1..MaxRetries, Attempt(f, batch, rest, k), UNCHANGED producing,
         proc' \in {"running", "stopping", "cancelled", "exited"},
         proc' = "running" => f = "loop" /\ proc = "running"
  PROVE  PlaceInv' /\ Keeps
<1>0. /\ TypeOK /\ Progress /\ Held \cup Stored \cup Away \subseteq ToSet(collected)
      /\ Held \cap Away = {} /\ counter = Cardinality(dropped)
      /\ spool' = spool /\ collected' = collected /\ lost' = lost
      /\ batch \in Seq(Events) /\ batch # <<>> /\ Len(batch) <= BatchSize
      /\ rest \in Seq(Events) /\ Len(rest) <= MaxSize
      /\ IsInjective(batch) /\ IsInjective(rest) /\ ToSet(batch) \cap ToSet(rest) = {}
  BY DEF PlaceInv, Split, producing
<1>1. /\ collected \in Seq(Events) /\ inserts \in Seq(Calls)
      /\ counter \in Nat /\ failures \in Nat /\ outages \in 0..MaxOutages
      /\ spooling \subseteq Critical /\ spool \subseteq Critical
      /\ dropped \subseteq Events \ Critical /\ lost \subseteq Events
      /\ MaxSize \in Nat \ {0} /\ BatchSize \in Nat \ {0} /\ MaxRetries \in Nat \ {0}
      /\ MaxOutages \in Nat
  BY <1>0, Typed
<1>2. /\ ToSet(batch) \subseteq Held /\ ToSet(rest) \subseteq Held
      /\ Held = ToSet(batch) \cup ToSet(rest) \cup ToSet(hand[Other(f)]) \cup spooling
      /\ (ToSet(batch) \cup ToSet(rest)) \cap (ToSet(hand[Other(f)]) \cup spooling) = {}
      /\ ToSet(hand[Other(f)]) \cap spooling = {} /\ IsInjective(hand[Other(f)])
      /\ Held \subseteq ToSet(collected) /\ Held \cap dropped = {} /\ Held \subseteq Events
  BY SplitApart
<1>3. /\ inserts' \in Seq(Calls) /\ Stored \subseteq Stored' /\ Stored' \subseteq Stored \cup ToSet(batch)
      /\ inserts' = inserts \o Inserted(batch, Len(TablesOf(batch))) => ToSet(batch) \subseteq Stored'
  <2>1. Len(TablesOf(batch)) \in Nat
    BY <1>0, TablesShape
  <2>2. \E n \in 0..Len(TablesOf(batch)) : inserts' = inserts \o Inserted(batch, n)
    BY <1>0, AttemptInserts
  <2>3. Len(TablesOf(batch)) \in 0..Len(TablesOf(batch))
    BY <2>1
  <2>4. QED
    BY <1>0, <1>1, <2>2, <2>3, AttemptStores
<1>4. Held' = ToSet(queue') \cup ToSet(hand'[f]) \cup ToSet(hand'[Other(f)]) \cup spooling'
  BY HeldBy
<1>5. CASE /\ inserts' = inserts \o Inserted(batch, Len(TablesOf(batch)))
           /\ queue' = rest /\ Returns(f)
           /\ UNCHANGED <<spooling, counter, dropped, failures, outages>>
  <2>1. /\ Progress' /\ hand'[f] = <<>> /\ hand'[Other(f)] = hand[Other(f)]
        /\ pc' \in [Tasks -> {"off", "wait", "retry", "flushed", "done"}]
        /\ hand' \in [Tasks -> Seq(Events)] /\ tries' \in [Tasks -> 0..MaxRetries]
        /\ \A g \in Tasks : Len(hand'[g]) <= BatchSize /\ (hand'[g] # <<>> => pc'[g] = "retry")
    BY <1>0, <1>5, ReturnsLeft
  <2>2. Distinct'
    BY <1>0, <1>2, <1>5, <2>1, Empty, DistinctNext
  <2>3. TypeOK'
    BY <1>0, <1>1, <1>3, <1>5, <2>1 DEF TypeOK, Calls
  <2>4. Held' = ToSet(rest) \cup ToSet(hand[Other(f)]) \cup spooling
    BY <1>4, <1>5, <2>1, Empty
  <2>5. Away' = Away
    BY <1>0, <1>5 DEF Away
  <2>6. Keeps
    BY <1>0, <1>2, <1>3, <1>5, <2>4, <2>5 DEF Keeps
  <2>7. QED
    BY <1>0, <1>2, <1>3, <1>5, <2>1, <2>2, <2>3, <2>4, <2>5, <2>6 DEF PlaceInv
<1>6. CASE /\ outages < MaxOutages /\ outages' = outages + 1
           /\ k < MaxRetries /\ queue' = rest
           /\ pc' = [pc EXCEPT ![f] = "retry"]
           /\ hand' = [hand EXCEPT ![f] = batch]
           /\ tries' = [tries EXCEPT ![f] = k]
           /\ UNCHANGED <<spooling, counter, dropped, failures>>
  <2>0. k \in 0..MaxRetries /\ k \in 1..(MaxRetries - 1)
    BY <1>1, <1>6
  <2>1. /\ Progress' /\ hand'[f] = batch /\ hand'[Other(f)] = hand[Other(f)]
        /\ pc' \in [Tasks -> {"off", "wait", "retry", "flushed", "done"}]
        /\ hand' \in [Tasks -> Seq(Events)] /\ tries' \in [Tasks -> 0..MaxRetries]
        /\ \A g \in Tasks : Len(hand'[g]) <= BatchSize /\ (hand'[g] # <<>> => pc'[g] = "retry")
    BY <1>0, <1>1, <1>6, <2>0, TaskLeft
  <2>2. Distinct'
    BY <1>0, <1>2, <1>6, <2>1, DistinctNext
  <2>3. TypeOK'
    <3>1. outages' \in 0..MaxOutages
      BY <1>1, <1>6
    <3>2. QED
      BY <1>0, <1>1, <1>3, <1>6, <2>1, <3>1 DEF TypeOK, Calls
  <2>4. Held' = Held
    BY <1>2, <1>4, <1>6, <2>1
  <2>5. Away' = Away
    BY <1>0, <1>6 DEF Away
  <2>6. Keeps
    BY <1>0, <1>2, <1>3, <1>6, <2>4, <2>5 DEF Keeps
  <2>7. QED
    BY <1>0, <1>2, <1>3, <1>6, <2>1, <2>2, <2>3, <2>4, <2>5, <2>6 DEF PlaceInv
<1>7. CASE /\ outages < MaxOutages /\ outages' = outages + 1
           /\ Requeue(batch, rest) /\ failures' = failures + 1 /\ Returns(f)
  <2> DEFINE m == MaxSize - Len(rest)
             front == Take(batch, m)
             back  == Skip(batch, m)
  <2>0. m \in Nat
    BY <1>0, <1>1
  <2>1. /\ front \in Seq(Events) /\ back \in Seq(Events) /\ Len(front) <= m
        /\ ToSet(front) \cup ToSet(back) = ToSet(batch)
        /\ IsInjective(front) /\ ToSet(front) \cap ToSet(back) = {}
    <3>1. front \in Seq(Events) /\ Len(front) = IF m < Len(batch) THEN m ELSE Len(batch)
      BY <1>0, <2>0, TakeElements
    <3>2. back \in Seq(Events)
      BY <1>0, <2>0, SkipElements
    <3>3. /\ ToSet(front) \cup ToSet(back) = ToSet(batch)
          /\ IsInjective(front) /\ ToSet(front) \cap ToSet(back) = {}
      BY <1>0, <2>0, Cut
    <3> HIDE DEF front, back, m
    <3>4. Len(front) <= m
      BY <1>0, <2>0, <3>1
    <3>5. QED
      BY <3>1, <3>2, <3>3, <3>4
  <2>2. queue' = rest \o front /\ Overflow(ToSet(back))
    BY <1>7 DEF Requeue
  <2> HIDE DEF front, back
  <2>3. /\ queue' \in Seq(Events) /\ Len(queue') <= MaxSize
        /\ ToSet(queue') = ToSet(rest) \cup ToSet(front) /\ IsInjective(queue')
    BY <1>0, <1>1, <2>1, <2>2, Joined
  <2>4. /\ Progress' /\ hand'[f] = <<>> /\ hand'[Other(f)] = hand[Other(f)]
        /\ pc' \in [Tasks -> {"off", "wait", "retry", "flushed", "done"}]
        /\ hand' \in [Tasks -> Seq(Events)] /\ tries' \in [Tasks -> 0..MaxRetries]
        /\ \A g \in Tasks : Len(hand'[g]) <= BatchSize /\ (hand'[g] # <<>> => pc'[g] = "retry")
    BY <1>0, <1>7, ReturnsLeft
  <2>5. /\ spooling' = spooling \cup (ToSet(back) \cap Critical)
        /\ dropped' = dropped \cup (ToSet(back) \ Critical)
    BY <2>2 DEF Overflow
  <2>6. counter' = Cardinality(dropped') /\ counter' \in Nat
    BY <1>0, <1>1, <1>2, <2>1, <2>2, OverflowCounts
  <2>7. Distinct'
    <3>1. /\ IsInjective(queue') /\ IsInjective(hand'[f]) /\ IsInjective(hand'[Other(f)])
          /\ ToSet(hand'[f]) = {}
      BY <1>2, <2>3, <2>4, Empty
    <3>2. ToSet(queue') \subseteq ToSet(batch) \cup ToSet(rest)
      BY <2>1, <2>3
    <3>3. ToSet(queue') \cap spooling' = {}
      BY <1>0, <1>2, <2>1, <2>3, <2>5
    <3>4. ToSet(queue') \cap ToSet(hand'[Other(f)]) = {}
      BY <1>2, <2>4, <3>2
    <3>5. spooling' \cap ToSet(hand'[Other(f)]) = {}
      BY <1>2, <2>1, <2>4, <2>5
    <3>6. QED
      BY <3>1, <3>3, <3>4, <3>5, DistinctNext
  <2>8. TypeOK'
    <3>1. outages' \in 0..MaxOutages /\ failures' \in Nat
      BY <1>1, <1>7
    <3>2. /\ spooling' \subseteq Critical /\ dropped' \subseteq Events \ Critical
          /\ spool' \subseteq Critical /\ lost' \subseteq Events
      BY <1>0, <1>1, <1>2, <2>1, <2>5
    <3>3. QED
      BY <1>0, <1>1, <1>3, <2>3, <2>4, <2>6, <3>1, <3>2 DEF TypeOK, Calls
  <2>9. Held' = ToSet(rest) \cup ToSet(front) \cup ToSet(hand[Other(f)]) \cup spooling'
    BY <1>4, <2>3, <2>4, Empty
  <2>10. Away' = Away \cup (ToSet(back) \ Critical)
    BY <1>0, <2>5 DEF Away
  <2>11. Keeps
    BY <1>0, <1>2, <1>3, <2>1, <2>5, <2>9, <2>10 DEF Keeps
  <2>12. Held' \cap Away' = {}
    BY <1>0, <1>2, <2>1, <2>5, <2>9, <2>10
  <2>13. Held' \cup Stored' \cup Away' \subseteq ToSet(collected')
    <3>1. Held' \subseteq Held /\ Away' \subseteq Away \cup Held /\ Stored' \subseteq Stored \cup Held
      <4>1. ToSet(back) \subseteq Held /\ ToSet(front) \subseteq Held
        BY <1>2, <2>1
      <4>2. Held' \subseteq Held
        BY <1>2, <2>5, <2>9, <4>1
      <4>3. Away' \subseteq Away \cup Held
        BY <2>10, <4>1
      <4>4. Stored' \subseteq Stored \cup Held
        BY <1>2, <1>3
      <4>5. QED
        BY <4>2, <4>3, <4>4
    <3>2. Held \cup Stored \cup Away \subseteq ToSet(collected) /\ collected' = collected
      BY <1>0 DEF PlaceInv
    <3>3. QED
      BY <3>1, <3>2
  <2>14. QED
    BY <2>4, <2>6, <2>7, <2>8, <2>11, <2>12, <2>13 DEF PlaceInv
<1>8. QED
  BY <1>5, <1>6, <1>7 DEF Attempt

\* A step of a task that makes an attempt.
Attempts(f) ==
  \E batch, rest \in Seq(Events), k \in 1..MaxRetries :
    Split(f, batch, rest) /\ Attempt(f, batch, rest, k)

\* A task that has nothing in hand takes the front of the queue.
LEMMA FlushAttempts ==
  ASSUME PlaceInv, NEW f \in Tasks, hand[f] = <<>>, FlushOnce(f)
  PROVE  \/ Attempts(f)
         \/ Returns(f) /\ UNCHANGED <<queue, inserts, spooling, counter, dropped, failures, outages>>
<1>1. CASE DrainBatch # <<>> /\ Attempt(f, DrainBatch, Skip(queue, Len(DrainBatch)), 1)
  <2>0. /\ queue \in Seq(Events) /\ Len(queue) <= MaxSize /\ IsInjective(queue)
        /\ BatchSize \in Nat /\ MaxRetries \in Nat \ {0} /\ MaxSize \in Nat
    BY Typed DEF PlaceInv, Distinct
  <2> DEFINE batch == Take(queue, BatchSize)
             n == Len(batch)
             rest == Skip(queue, n)
  <2>1. DrainBatch = batch
    BY <1>1 DEF DrainBatch
  <2>2. /\ batch \in Seq(Events) /\ n = (IF BatchSize < Len(queue) THEN BatchSize ELSE Len(queue))
        /\ \A i \in 1..n : batch[i] = queue[i]
    BY <2>0, TakeElements
  <2>3. batch = Take(queue, n) /\ n \in Nat /\ n <= BatchSize
    <3>1. n \in Nat /\ n <= BatchSize
      BY <2>0, <2>2
    <3>2. batch = Take(queue, n)
      BY <2>0, <2>2 DEF Take
    <3>3. QED
      BY <3>1, <3>2
  <2>4. rest \in Seq(Events) /\ Len(rest) = IF n < Len(queue) THEN Len(queue) - n ELSE 0
    BY <2>0, <2>3, SkipElements
  <2>5. Len(rest) <= MaxSize
    BY <2>0, <2>3, <2>4
  <2>6. /\ ToSet(batch) \cup ToSet(rest) = ToSet(queue)
        /\ IsInjective(batch) /\ IsInjective(rest) /\ ToSet(batch) \cap ToSet(rest) = {}
    <3>1. /\ ToSet(Take(queue, n)) \cup ToSet(Skip(queue, n)) = ToSet(queue)
          /\ IsInjective(Take(queue, n)) /\ IsInjective(Skip(queue, n))
          /\ ToSet(Take(queue, n)) \cap ToSet(Skip(queue, n)) = {}
      BY <2>0, <2>3, Cut
    <3>2. QED
      BY <2>3, <3>1
  <2>7. batch # <<>> /\ Attempt(f, batch, rest, 1) /\ 1 \in 1..MaxRetries
    BY <1>1, <2>0, <2>1
  <2> HIDE DEF batch, n, rest
  <2>8. Split(f, batch, rest)
    <3>1. Len(batch) <= BatchSize
      BY <2>3 DEF n
    <3>2. batch \o rest = queue
      <4>1. Take(queue, n) \o Skip(queue, n) = queue
        <5>1. n \in 0..Len(queue)
          BY <2>0, <2>2, <2>3 DEF n
        <5>2. QED
          BY <2>0, <5>1, Whole
      <4>2. QED
        BY <2>3, <4>1 DEF rest
    <3>3. <<>> \o queue = queue
      BY <2>0
    <3>4. QED
      BY <2>2, <2>4, <2>5, <2>6, <2>7, <3>1, <3>2, <3>3, Empty DEF Split
  <2>9. QED
    BY <2>2, <2>4, <2>7, <2>8 DEF Attempts
<1>2. QED
  BY <1>1 DEF FlushOnce

\* A task that tries again does so with the batch in its hand.
LEMMA RetryAttempts ==
  ASSUME PlaceInv, NEW f \in Tasks, Retry(f)
  PROVE  Attempts(f)
<1>1. /\ hand[f] \in Seq(Events) /\ queue \in Seq(Events) /\ Len(hand[f]) <= BatchSize
      /\ Len(queue) <= MaxSize /\ MaxRetries \in Nat
  BY Typed DEF PlaceInv
<1>2. pc[f] = "retry" /\ Attempt(f, hand[f], queue, tries[f] + 1)
  BY DEF Retry
<1>3. tries[f] \in 1..(MaxRetries - 1) /\ hand[f] # <<>>
  BY <1>2 DEF PlaceInv, Progress
<1>4. Split(f, hand[f], queue)
  BY <1>1, <1>3 DEF Split, PlaceInv, Distinct
<1>5. tries[f] + 1 \in 1..MaxRetries
  BY <1>1, <1>3
<1>6. QED
  BY <1>1, <1>2, <1>4, <1>5 DEF Attempts

\* What the attempts of any task keep.
LEMMA AttemptsKeep ==
  ASSUME PlaceInv, NEW f \in Tasks, Attempts(f), UNCHANGED producing,
         proc' \in {"running", "stopping", "cancelled", "exited"},
         proc' = "running" => f = "loop" /\ proc = "running"
  PROVE  PlaceInv' /\ Keeps
BY AttemptKeeps DEF Attempts

\* A flush that finds nothing changes no place.
LEMMA IdleKeeps ==
  ASSUME PlaceInv, NEW f \in Tasks, hand[f] = <<>>, Returns(f), UNCHANGED producing,
         UNCHANGED <<queue, inserts, spooling, counter, dropped, failures, outages>>,
         proc' \in {"running", "stopping", "cancelled", "exited"},
         proc' = "running" => f = "loop" /\ proc = "running"
  PROVE  PlaceInv' /\ Keeps
<1>1. /\ Progress' /\ hand'[f] = <<>> /\ hand'[Other(f)] = hand[Other(f)]
      /\ pc' \in [Tasks -> {"off", "wait", "retry", "flushed", "done"}]
      /\ hand' \in [Tasks -> Seq(Events)] /\ tries' \in [Tasks -> 0..MaxRetries]
      /\ \A g \in Tasks : Len(hand'[g]) <= BatchSize /\ (hand'[g] # <<>> => pc'[g] = "retry")
  BY ReturnsLeft DEF PlaceInv
<1>2. Tasks = {f, Other(f)} /\ Tasks = {"loop", "stop"}
  BY HeldBy DEF Tasks
<1>3. \A g \in Tasks : hand'[g] = hand[g]
  BY <1>1, <1>2
<1>4. Held' = Held /\ Stored' = Stored /\ Away' = Away
  BY <1>2, <1>3 DEF Held, Stored, Away, producing
<1>5. Distinct'
  BY <1>2, <1>3 DEF PlaceInv, Distinct
<1>6. TypeOK'
  BY <1>1 DEF PlaceInv, TypeOK, producing
<1>7. QED
  BY <1>1, <1>4, <1>5, <1>6 DEF PlaceInv, Keeps, producing

\* An event is collected: it finds room in the queue, or overflows.
LEMMA CollectKeeps ==
  ASSUME PlaceInv, NEW e \in Events, Collect(e)
  PROVE  PlaceInv' /\ Keeps
<1>0. /\ TypeOK /\ Progress /\ Distinct /\ counter = Cardinality(dropped)
      /\ Held \cup Stored \cup Away \subseteq ToSet(collected) /\ Held \cap Away = {}
      /\ e \notin ToSet(collected) /\ collected' = Append(collected, e)
      /\ UNCHANGED <<spool, lost, flushing>>
  BY DEF PlaceInv, Collect
<1>1. /\ queue \in Seq(Events) /\ Len(queue) <= MaxSize /\ collected \in Seq(Events)
      /\ hand \in [Tasks -> Seq(Events)] /\ counter \in Nat
      /\ spooling \subseteq Critical /\ dropped \subseteq Events \ Critical
      /\ MaxSize \in Nat
  BY <1>0, Typed
<1>2. collected' \in Seq(Events) /\ ToSet(collected') = ToSet(collected) \cup {e}
  BY <1>0, <1>1, Longer
<1>3. /\ e \notin Held /\ e \notin Stored /\ e \notin Away
      /\ Stored' = Stored /\ hand' = hand /\ Progress'
  BY <1>0 DEF flushing, Stored, Progress
<1>4. /\ Held = ToSet(queue) \cup ToSet(hand["loop"]) \cup ToSet(hand["stop"]) \cup spooling
      /\ Held' = ToSet(queue') \cup ToSet(hand["loop"]) \cup ToSet(hand["stop"]) \cup spooling'
  BY <1>3 DEF Held
<1>5. CASE /\ Len(queue) < MaxSize /\ queue' = Append(queue, e)
           /\ UNCHANGED <<spooling, counter, dropped>>
  <2>1. /\ queue' \in Seq(Events) /\ Len(queue') = Len(queue) + 1
        /\ ToSet(queue') = ToSet(queue) \cup {e} /\ IsInjective(queue')
    <3>1. IsInjective(queue) /\ e \notin ToSet(queue)
      BY <1>0, <1>3, <1>4 DEF Distinct
    <3>2. QED
      BY <1>1, <1>5, <3>1, Longer
  <2>2. Held' = Held \cup {e} /\ Away' = Away
    BY <1>0, <1>4, <1>5, <2>1 DEF Away
  <2>3. Distinct'
    BY <1>0, <1>3, <1>4, <1>5, <2>1 DEF Distinct, Tasks
  <2>4. Len(queue') <= MaxSize
    BY <1>1, <1>5, <2>1
  <2>5. TypeOK'
    BY <1>0, <1>2, <1>5, <2>1, <2>4 DEF TypeOK, flushing
  <2>6. Keeps
    BY <1>0, <1>2, <1>3, <1>5, <2>2 DEF Keeps
  <2>7. QED
    BY <1>0, <1>2, <1>3, <1>5, <2>2, <2>3, <2>5, <2>6 DEF PlaceInv
<1>6. CASE Overflow({e}) /\ UNCHANGED queue
  <2>1. spooling' = spooling \cup ({e} \cap Critical) /\ dropped' = dropped \cup ({e} \ Critical)
    BY <1>6 DEF Overflow
  <2>2. counter' = Cardinality(dropped') /\ counter' \in Nat
    BY <1>0, <1>1, <1>3, <1>6, OverflowCounts DEF Away
  <2>3. Held' = Held \cup ({e} \cap Critical) /\ Away' = Away \cup ({e} \ Critical)
    BY <1>0, <1>4, <1>6, <2>1 DEF Away
  <2>4. Distinct'
    BY <1>0, <1>3, <1>4, <1>6, <2>1 DEF Distinct, Tasks
  <2>5. TypeOK'
    BY <1>0, <1>1, <1>2, <1>6, <2>1, <2>2 DEF TypeOK, flushing
  <2>6. Keeps
    BY <1>0, <1>2, <1>3, <2>1, <2>3 DEF Keeps
  <2>7. QED
    BY <1>0, <1>2, <1>3, <2>1, <2>2, <2>3, <2>4, <2>5, <2>6 DEF PlaceInv
<1>7. QED
  BY <1>5, <1>6 DEF Collect

\* A critical event reaches the file, or is lost to the disk.
LEMMA SpoolKeeps ==
  ASSUME PlaceInv, NEW e \in Events, SafeSpool(e)
  PROVE  PlaceInv' /\ Keeps
<1>0. /\ TypeOK /\ Progress /\ Distinct /\ counter = Cardinality(dropped)
      /\ Held \cup Stored \cup Away \subseteq ToSet(collected) /\ Held \cap Away = {}
      /\ e \in spooling /\ spooling' = spooling \ {e}
      /\ UNCHANGED <<queue, counter, dropped, collected, flushing>>
  BY DEF PlaceInv, SafeSpool
<1>1. spooling \subseteq Critical
  BY <1>0, Typed
<1>2. Stored' = Stored /\ hand' = hand /\ Progress'
  BY <1>0 DEF flushing, Stored, Progress
<1>3. /\ Held = ToSet(queue) \cup ToSet(hand["loop"]) \cup ToSet(hand["stop"]) \cup spooling
      /\ Held' = ToSet(queue) \cup ToSet(hand["loop"]) \cup ToSet(hand["stop"]) \cup spooling'
  BY <1>0, <1>2 DEF Held
<1>4. Held' = Held \ {e} /\ e \in Held
  BY <1>0, <1>3 DEF Distinct, Tasks
<1>5. \/ spool' = spool \cup {e} /\ lost' = lost
      \/ lost' = lost \cup {e} /\ spool' = spool
  BY DEF SafeSpool
<1>6. Away' = Away \cup {e}
  BY <1>0, <1>5 DEF Away
<1>7. Distinct'
  BY <1>0, <1>2 DEF Distinct
<1>8. TypeOK'
  BY <1>0, <1>1, <1>5 DEF TypeOK, flushing
<1>9. Keeps
  BY <1>0, <1>1, <1>2, <1>4, <1>5, <1>6 DEF Keeps
<1>10. QED
  BY <1>0, <1>2, <1>4, <1>6, <1>7, <1>8, <1>9 DEF PlaceInv

\* What the process takes with it was held.
LEMMA LeaveKeeps ==
  ASSUME PlaceInv, Leave
  PROVE  PlaceInv' /\ Keeps
<1>0. /\ TypeOK /\ Progress /\ Distinct /\ counter = Cardinality(dropped)
      /\ Held \cup Stored \cup Away \subseteq ToSet(collected) /\ Held \cap Away = {}
      /\ proc' = "exited" /\ lost' = lost \cup InProcess
      /\ hand' = [f \in Tasks |-> <<>>] /\ pc' = [f \in Tasks |-> "done"]
      /\ UNCHANGED <<counter, spool, tries, failures, inserts, outages, collected, dropped>>
  BY DEF PlaceInv, Leave
<1>1. /\ queue \in Seq(Events) /\ Len(queue) <= MaxSize /\ collected \in Seq(Events)
      /\ MaxSize \in Nat /\ BatchSize \in Nat
      /\ spooling \subseteq Critical
  BY <1>0, Typed
<1>2. Stored' = Stored
  BY <1>0 DEF Stored
<1>3. hand'["loop"] = <<>> /\ hand'["stop"] = <<>> /\ \A f \in Tasks : hand'[f] = <<>> /\ pc'[f] = "done"
  BY <1>0 DEF Tasks
<1>4. Held' = ToSet(queue') \cup spooling'
  BY <1>3, Empty DEF Held
<1>5. Held \subseteq Events
  BY <1>0, <1>1, Elements
<1>6. \/ SameCollector /\ queue' = <<>> /\ spooling' = {} /\ InProcess = Held
      \/ /\ ~SameCollector /\ queue' = queue /\ spooling' = spooling
         /\ InProcess = ToSet(hand["loop"]) \cup ToSet(hand["stop"])
  BY DEF Leave, InProcess
<1>7. /\ queue' \in Seq(Events) /\ Len(queue') <= MaxSize /\ spooling' \subseteq Critical
      /\ IsInjective(queue') /\ ToSet(queue') \cap spooling' = {}
      /\ Held' \subseteq Held /\ Held \subseteq Held' \cup InProcess /\ Held' \cap InProcess = {}
      /\ InProcess \subseteq Held
  <2>1. CASE SameCollector /\ queue' = <<>> /\ spooling' = {} /\ InProcess = Held
    BY <1>1, <1>4, <2>1, Empty
  <2>2. CASE /\ ~SameCollector /\ queue' = queue /\ spooling' = spooling
             /\ InProcess = ToSet(hand["loop"]) \cup ToSet(hand["stop"])
    BY <1>0, <1>1, <1>4, <2>2 DEF Held, Distinct, Tasks
  <2>3. QED
    BY <1>6, <2>1, <2>2
<1>8. Away' = Away \cup InProcess
  BY <1>0 DEF Away
<1>9. Distinct'
  BY <1>3, <1>7, Empty DEF Distinct, Tasks
<1>10. Progress'
  BY <1>0, <1>3 DEF Progress
<1>11. TypeOK'
  <2>1. hand' \in [Tasks -> Seq(Events)] /\ pc' \in [Tasks -> {"off", "wait", "retry", "flushed", "done"}]
    BY <1>0, Empty
  <2>2. \A f \in Tasks : Len(hand'[f]) <= BatchSize /\ (hand'[f] # <<>> => pc'[f] = "retry")
    BY <1>1, <1>3, Empty
  <2>3. lost' \subseteq Events
    BY <1>0, <1>5, <1>7 DEF TypeOK
  <2>4. QED
    BY <1>0, <1>7, <2>1, <2>2, <2>3 DEF TypeOK
<1>12. Keeps
  BY <1>0, <1>2, <1>7, <1>8 DEF Keeps
<1>13. QED
  BY <1>0, <1>2, <1>7, <1>8, <1>9, <1>10, <1>11, <1>12 DEF PlaceInv

\* Run_forever is cancelled with a batch in its hand.
LEMMA CancelKeeps ==
  ASSUME PlaceInv, CancelLoop
  PROVE  PlaceInv' /\ Keeps
<1>0. /\ TypeOK /\ Progress /\ Distinct /\ counter = Cardinality(dropped)
      /\ Held \cup Stored \cup Away \subseteq ToSet(collected) /\ Held \cap Away = {}
      /\ pc["stop"] = "flushed"
      /\ pc' = [pc EXCEPT !["loop"] = "done", !["stop"] = "done"]
      /\ lost' = lost \cup ToSet(hand["loop"])
      /\ hand' = [hand EXCEPT !["loop"] = <<>>]
      /\ proc' = "cancelled"
      /\ UNCHANGED <<queue, counter, spooling, spool, tries, failures, inserts, outages,
                     collected, dropped>>
  BY DEF PlaceInv, CancelLoop
<1>1. /\ collected \in Seq(Events) /\ hand \in [Tasks -> Seq(Events)] /\ BatchSize \in Nat
      /\ \A f \in Tasks : Len(hand[f]) <= BatchSize /\ (hand[f] # <<>> => pc[f] = "retry")
      /\ pc \in [Tasks -> {"off", "wait", "retry", "flushed", "done"}]
  BY <1>0, Typed
<1>2. Stored' = Stored
  BY <1>0 DEF Stored
<1>3. hand["stop"] = <<>>
  BY <1>0, <1>1 DEF Tasks
<1>4. /\ hand' \in [Tasks -> Seq(Events)] /\ hand'["loop"] = <<>> /\ hand'["stop"] = <<>>
      /\ pc' \in [Tasks -> {"off", "wait", "retry", "flushed", "done"}]
      /\ pc'["loop"] = "done" /\ pc'["stop"] = "done"
      /\ \A f \in Tasks : hand'[f] = <<>> /\ pc'[f] = "done"
  BY <1>0, <1>1, <1>3, Empty DEF Tasks
<1>5. /\ Held = ToSet(queue) \cup ToSet(hand["loop"]) \cup spooling
      /\ Held' = ToSet(queue) \cup spooling
  BY <1>0, <1>3, <1>4, Empty DEF Held
<1>6. /\ ToSet(hand["loop"]) \subseteq Held /\ ToSet(hand["loop"]) \cap Held' = {}
      /\ Held = Held' \cup ToSet(hand["loop"])
  BY <1>0, <1>5 DEF Distinct, Tasks
<1>7. Away' = Away \cup ToSet(hand["loop"])
  BY <1>0 DEF Away
<1>8. Distinct'
  BY <1>0, <1>4, Empty DEF Distinct, Tasks
<1>9. Progress'
  BY <1>0, <1>4 DEF Progress
<1>10. TypeOK'
  <2>1. lost' \subseteq Events
    BY <1>0, <1>1, <1>5, Elements DEF TypeOK
  <2>2. \A f \in Tasks : Len(hand'[f]) <= BatchSize /\ (hand'[f] # <<>> => pc'[f] = "retry")
    BY <1>1, <1>4, Empty
  <2>3. QED
    BY <1>0, <1>4, <2>1, <2>2 DEF TypeOK
<1>11. Keeps
  BY <1>0, <1>2, <1>6, <1>7 DEF Keeps
<1>12. QED
  BY <1>0, <1>2, <1>6, <1>7, <1>8, <1>9, <1>10, <1>11 DEF PlaceInv

\* A task that flushes, in either of its two ways.
LEMMA FlushKeeps ==
  ASSUME PlaceInv, NEW f \in Tasks, hand[f] = <<>>, FlushOnce(f), UNCHANGED producing,
         proc' \in {"running", "stopping", "cancelled", "exited"},
         proc' = "running" => f = "loop" /\ proc = "running"
  PROVE  PlaceInv' /\ Keeps
BY FlushAttempts, AttemptsKeep, IdleKeeps

\* The tasks that begin a flush have nothing in hand.
LEMMA FlushersAreFree ==
  ASSUME PlaceInv
  PROVE  /\ pc["loop"] = "wait" => hand["loop"] = <<>>
         /\ proc = "running" => hand["stop"] = <<>>
<1>1. /\ \A f \in Tasks : hand[f] # <<>> => pc[f] = "retry"
      /\ proc = "running" => pc["stop"] = "off"
  BY Typed DEF PlaceInv, Progress
<1>2. QED
  BY <1>1 DEF Tasks

\* Every step keeps the invariant, and what the fates ask of a step.
LEMMA NextKeeps ==
  ASSUME PlaceInv, [Next]_vars
  PROVE  PlaceInv' /\ Keeps
<1>0. proc \in {"running", "stopping", "cancelled", "exited"} /\ "loop" \in Tasks /\ "stop" \in Tasks
  BY Typed DEF PlaceInv, Tasks
<1>1. CASE \E e \in Events : Collect(e)
  BY <1>1, CollectKeeps
<1>2. CASE \E e \in Events : SafeSpool(e)
  BY <1>2, SpoolKeeps
<1>3. ASSUME NEW f \in Tasks, Retry(f) PROVE PlaceInv' /\ Keeps
  <2>1. UNCHANGED producing /\ proc' = proc /\ pc[f] = "retry"
    BY <1>3 DEF Retry
  <2>2. proc = "running" => f = "loop"
    BY <2>1 DEF PlaceInv, Progress, Tasks
  <2>3. Attempts(f)
    BY <1>3, RetryAttempts
  <2>4. QED
    BY <1>0, <2>1, <2>2, <2>3, AttemptsKeep
<1>4. CASE LoopRuns
  <2>1. FlushOnce("loop") /\ UNCHANGED producing /\ proc' = proc /\ proc = "running"
        /\ pc["loop"] = "wait"
    BY <1>4 DEF LoopRuns
  <2>2. hand["loop"] = <<>>
    BY <2>1, FlushersAreFree
  <2>3. QED
    BY <1>0, <2>1, <2>2, FlushKeeps
<1>5. CASE LoopEnds
  <2>1. /\ pc["loop"] = "wait" /\ proc = "stopping"
        /\ pc' = [pc EXCEPT !["loop"] = "done"]
        /\ UNCHANGED <<queue, counter, spooling, spool, hand, tries, failures, proc, inserts,
                       outages, collected, dropped, lost>>
    BY <1>5 DEF LoopEnds
  <2>2. hand["loop"] = <<>>
    BY <2>1, FlushersAreFree
  <2>3. /\ pc \in [Tasks -> {"off", "wait", "retry", "flushed", "done"}]
        /\ \A f \in Tasks : Len(hand[f]) <= BatchSize /\ (hand[f] # <<>> => pc[f] = "retry")
    BY Typed DEF PlaceInv
  <2>4. /\ pc' \in [Tasks -> {"off", "wait", "retry", "flushed", "done"}]
        /\ pc'["loop"] = "done" /\ pc'["stop"] = pc["stop"]
    BY <2>1, <2>3 DEF Tasks
  <2>5. \A f \in Tasks : Len(hand'[f]) <= BatchSize /\ (hand'[f] # <<>> => pc'[f] = "retry")
    BY <2>1, <2>2, <2>3, <2>4 DEF Tasks
  <2>6. Progress'
    BY <2>1, <2>4 DEF PlaceInv, Progress, Tasks
  <2>7. Held' = Held /\ Stored' = Stored /\ Away' = Away
    BY <2>1 DEF Held, Stored, Away
  <2>8. Distinct'
    BY <2>1 DEF PlaceInv, Distinct
  <2>9. TypeOK'
    BY <2>1, <2>4, <2>5 DEF PlaceInv, TypeOK
  <2>10. QED
    BY <2>1, <2>6, <2>7, <2>8, <2>9 DEF PlaceInv, Keeps
<1>6. CASE Stop
  <2>1. proc = "running" /\ proc' = "stopping" /\ FlushOnce("stop") /\ UNCHANGED producing
    BY <1>6 DEF Stop
  <2>2. hand["stop"] = <<>>
    BY <2>1, Typed DEF PlaceInv, Progress, Tasks
  <2>3. QED
    BY <1>0, <2>1, <2>2, FlushKeeps
<1>7. CASE CancelLoop
  BY <1>7, CancelKeeps
<1>8. CASE Exit \/ Crash
  BY <1>8, LeaveKeeps DEF Exit, Crash
<1>9. CASE UNCHANGED vars
  <2>1. Held' = Held /\ Stored' = Stored /\ Away' = Away
    BY <1>9 DEF vars, Held, Stored, Away
  <2>2. Distinct' /\ Progress' /\ TypeOK'
    BY <1>9 DEF vars, PlaceInv, Distinct, Progress, TypeOK
  <2>3. QED
    BY <1>9, <2>1, <2>2 DEF vars, PlaceInv, Keeps
<1>10. QED
  BY <1>1, <1>2, <1>3, <1>4, <1>5, <1>6, <1>7, <1>8, <1>9 DEF Next, Finished

\* Nothing has been collected.
LEMMA InitPlaces ==
  ASSUME Init
  PROVE  /\ PlaceInv /\ \A f \in Tasks : hand[f] = <<>>
         /\ Held = {} /\ Stored = {} /\ Away = {}
<1>1. /\ queue = <<>> /\ counter = 0 /\ spooling = {} /\ spool = {}
      /\ \A f \in Tasks : pc[f] = IF f = "loop" THEN "wait" ELSE "off"
      /\ \A f \in Tasks : hand[f] = <<>>
      /\ \A f \in Tasks : tries[f] = 0
      /\ failures = 0 /\ proc = "running" /\ inserts = <<>> /\ outages = 0
      /\ collected = <<>> /\ dropped = {} /\ lost = {}
  BY DEF Init
<1>2. Held = {} /\ Away = {} /\ ToSet(collected) = {}
  BY <1>1, Empty DEF Held, Away, Tasks
<1>3. Stored = {}
  <2>1. inserts \in Seq(Calls) /\ Len(inserts) = 0
    BY <1>1
  <2>2. Stored = UNION {c.rows : c \in ToSet(inserts)}
    BY DEF Stored
  <2>3. \A e : e \in Stored <=> \E i \in 1..Len(inserts) : e \in inserts[i].rows
    BY <2>1, <2>2, RowsOf
  <2>4. QED
    BY <2>1, <2>3
<1>4. Distinct
  BY <1>1, Empty DEF Distinct, Tasks
<1>5. Progress
  BY <1>1 DEF Progress, Tasks
<1>6. TypeOK
  <2>1. pc \in [Tasks -> {"off", "wait", "retry", "flushed", "done"}]
    BY DEF Init
  <2>2. hand \in [Tasks -> Seq(Events)] /\ collected \in Seq(Events) /\ queue \in Seq(Events)
    BY Empty DEF Init
  <2>3. tries \in [Tasks -> 0..MaxRetries] /\ outages \in 0..MaxOutages
    BY LimitsAssumption DEF Init
  <2>4. \A f \in Tasks : Len(hand[f]) <= BatchSize /\ (hand[f] # <<>> => pc[f] = "retry")
    BY <1>1, LimitsAssumption
  <2>5. Len(queue) <= MaxSize
    BY <1>1, LimitsAssumption
  <2>6. inserts \in Seq([batch : Seq(Events), rows : SUBSET Events])
    BY <1>1
  <2>7. QED
    BY <1>1, <2>1, <2>2, <2>3, <2>4, <2>5, <2>6 DEF TypeOK
<1>7. Cardinality({}) = 0
  BY FS_EmptySet
<1>8. QED
  BY <1>1, <1>2, <1>3, <1>4, <1>5, <1>6, <1>7 DEF PlaceInv

\* The places keep their invariant.
LEMMA Places == Spec => []PlaceInv
<1>1. Init => PlaceInv
  BY InitPlaces
<1>2. PlaceInv /\ [Next]_vars => PlaceInv'
  BY NextKeeps
<1>3. QED
  BY <1>1, <1>2, PTL DEF Spec

\* No event is forgotten.
LEMMA Remembered == Spec => []NoneForgotten
<1>1. ASSUME Init PROVE NoneForgotten
  BY <1>1, Empty DEF Init, NoneForgotten
<1>2. ASSUME PlaceInv, NoneForgotten, [Next]_vars PROVE NoneForgotten'
  <2>1. Keeps
    BY <1>2, NextKeeps
  <2>2. QED
    BY <1>2, <2>1 DEF NoneForgotten, Keeps, Away
<1>3. QED
  BY <1>1, <1>2, Places, PTL DEF Spec

\* However the two flushes of a shutdown, the retries and the overflow interleave, an
\* event is in one place, once; every event collected is in such a place or has met a
\* fate; and dropped_non_critical is the number of those dropped.
THEOREM Accounted == Spec => []EventsAccounted
<1>1. ASSUME PlaceInv, NoneForgotten PROVE EventsAccounted
  <2>1. /\ queue \in Seq(Events) /\ hand["loop"] \in Seq(Events) /\ hand["stop"] \in Seq(Events)
        /\ TypeOK /\ Distinct /\ counter = Cardinality(dropped)
    BY <1>1, Typed DEF PlaceInv, Tasks
  <2>2. /\ IsInjective(queue) /\ IsInjective(hand["loop"]) /\ IsInjective(hand["stop"])
        /\ ToSet(queue) \cap ToSet(hand["loop"]) = {} /\ ToSet(queue) \cap ToSet(hand["stop"]) = {}
        /\ ToSet(hand["loop"]) \cap ToSet(hand["stop"]) = {}
        /\ spooling \cap (ToSet(queue) \cup ToSet(hand["loop"]) \cup ToSet(hand["stop"])) = {}
    BY <2>1 DEF Distinct, Tasks
  <2> DEFINE a == queue \o hand["loop"]
             b == a \o hand["stop"]
  <2>3. a \in Seq(Events) /\ ToSet(a) = ToSet(queue) \cup ToSet(hand["loop"]) /\ IsInjective(a)
    BY <2>1, <2>2, Joined
  <2>4. ToSet(b) = ToSet(a) \cup ToSet(hand["stop"]) /\ IsInjective(b)
    <3> HIDE DEF a
    <3>1. QED
      BY <2>1, <2>2, <2>3, Joined
  <2>5. ToSet(b) \cap spooling = {}
    BY <2>2, <2>3, <2>4
  <2>6. b = queue \o hand["loop"] \o hand["stop"]
    OBVIOUS
  <2> HIDE DEF a, b
  <2>7. /\ ToSet(collected) = Held \cup Stored \cup spool \cup dropped \cup lost
        /\ Held \cap (spool \cup dropped \cup lost) = {}
    BY <1>1 DEF PlaceInv, NoneForgotten, Away
  <2>8. QED
    BY <2>1, <2>4, <2>5, <2>6, <2>7 DEF EventsAccounted
<1>2. QED
  BY <1>1, Places, Remembered, PTL

(***************************************************************************)
(* The fates                                                               *)
(***************************************************************************)
FateNow ==
  [e \in Events |->
    IF e \in Stored THEN "stored"
    ELSE IF e \in spool THEN "spooled"
    ELSE IF e \in dropped THEN "dropped"
    ELSE IF e \in lost THEN "lost"
    ELSE IF e \in Held THEN "held" ELSE "none"]

\* An event meets one fate and keeps it, a critical one is never dropped, and nothing
\* that was held is forgotten, in every step of the pipeline.
THEOREM ImplementsEventFate == Spec => ImplementsFate
<1>1. Init => Fate!Init
  <2>1. ASSUME Init PROVE FateNow = [e \in Events |-> "none"]
    BY <2>1, InitPlaces DEF FateNow, Away
  <2>2. QED
    BY <2>1 DEF Fate!Init, FateNow
<1>2. ASSUME PlaceInv, [Next]_vars PROVE [Fate!Next]_(FateNow)
  <2>1. PlaceInv' /\ Keeps
    BY <1>2, NextKeeps
  <2>2. /\ \A e \in Events : FateNow[e] \in Fate!Fates /\ FateNow'[e] \in Fate!Fates
        /\ FateNow' \in [Events -> Fate!Fates]
    BY DEF FateNow, Fate!Fates
  <2>3. ASSUME NEW e \in Events
        PROVE  FateNow'[e] = FateNow[e] \/ <<FateNow[e], FateNow'[e]>> \in Fate!Moves(e)
    <3>1. /\ Held \cup Stored \cup Away \subseteq ToSet(collected) /\ Held \cap Away = {}
          /\ spool' \subseteq Critical /\ dropped' \cap Critical = {}
      BY <1>2, <2>1 DEF PlaceInv, TypeOK
    <3>2. /\ FateNow[e] = IF e \in Stored THEN "stored" ELSE IF e \in spool THEN "spooled"
                          ELSE IF e \in dropped THEN "dropped" ELSE IF e \in lost THEN "lost"
                          ELSE IF e \in Held THEN "held" ELSE "none"
          /\ FateNow'[e] = IF e \in Stored' THEN "stored" ELSE IF e \in spool' THEN "spooled"
                           ELSE IF e \in dropped' THEN "dropped" ELSE IF e \in lost' THEN "lost"
                           ELSE IF e \in Held' THEN "held" ELSE "none"
      BY DEF FateNow
    <3>3. /\ <<"none", "held">> \in Fate!Moves(e) /\ <<"held", "stored">> \in Fate!Moves(e)
          /\ <<"held", "lost">> \in Fate!Moves(e)
          /\ e \in Critical => <<"held", "spooled">> \in Fate!Moves(e)
          /\ e \notin Critical => /\ <<"none", "dropped">> \in Fate!Moves(e)
                                  /\ <<"held", "dropped">> \in Fate!Moves(e)
      BY DEF Fate!Moves
    <3>4. CASE e \in Stored
      BY <2>1, <3>2, <3>4 DEF Keeps
    <3>5. CASE e \notin Stored /\ e \in Away
      BY <2>1, <3>1, <3>2, <3>5 DEF Keeps, Away
    <3>6. CASE e \notin Stored /\ e \in Held
      <4>1. FateNow[e] = "held"
        BY <3>1, <3>2, <3>6 DEF Away
      <4>2. e \in Stored' \/ e \in spool' \/ e \in dropped' \/ e \in lost' \/ e \in Held'
        BY <2>1, <3>6 DEF Keeps, Away
      <4>3. (e \in spool' => e \in Critical) /\ (e \in dropped' => e \notin Critical)
        BY <3>1
      <4>4. FateNow'[e] \in {"stored", "spooled", "dropped", "lost", "held"}
            /\ (FateNow'[e] = "spooled" => e \in Critical)
            /\ (FateNow'[e] = "dropped" => e \notin Critical)
        BY <3>2, <4>2, <4>3
      <4>5. QED
        BY <3>3, <4>1, <4>4
    <3>7. CASE e \notin Stored /\ e \notin Away /\ e \notin Held
      <4>1. FateNow[e] = "none" /\ e \notin spool /\ e \notin dropped /\ e \notin lost
        BY <3>2, <3>7 DEF Away
      <4>2. e \notin Stored' /\ e \notin spool' /\ e \notin lost'
            /\ (e \in dropped' => e \notin Critical)
        BY <2>1, <3>1, <3>7, <4>1 DEF Keeps
      <4>3. FateNow'[e] \in {"dropped", "held", "none"}
            /\ (FateNow'[e] = "dropped" => e \notin Critical)
        BY <3>2, <4>2
      <4>4. QED
        BY <3>3, <4>1, <4>3
    <3>8. QED
      BY <3>4, <3>5, <3>6, <3>7
  <2>4. Fate!Next
    BY <2>2, <2>3 DEF Fate!Next, FateNow
  <2>5. QED
    BY <2>4
<1>3. [Fate!Next]_(FateNow) => [Fate!Next]_([e \in Events |->
        IF e \in Stored THEN "stored"
        ELSE IF e \in spool THEN "spooled"
        ELSE IF e \in dropped THEN "dropped"
        ELSE IF e \in lost THEN "lost"
        ELSE IF e \in Held THEN "held" ELSE "none"])
  BY DEF FateNow
<1>4. QED
  BY <1>1, <1>2, <1>3, Places, PTL DEF Spec, ImplementsFate, Fate!Spec

(***************************************************************************)
(* How often ClickHouse is given an event                                  *)
(***************************************************************************)
\* An attempt inserts an event of its batch at most once, and no other.
LEMMA InsertsOnce ==
  ASSUME inserts \in Seq(Calls), NEW batch \in Seq(Events), batch # <<>>,
         NEW n \in 0..Len(TablesOf(batch)), inserts' = inserts \o Inserted(batch, n),
         NEW e \in Events
  PROVE  /\ Cardinality(InsertsOf(e)) \in Nat /\ Cardinality(InsertsOf(e)') \in Nat
         /\ Cardinality(InsertsOf(e)') <= Cardinality(InsertsOf(e)) + 1
         /\ e \notin ToSet(batch) => InsertsOf(e)' = InsertsOf(e)
<1> DEFINE c == Inserted(batch, n)
           l == Len(inserts)
<1>1. /\ c \in Seq(Calls) /\ Len(c) = n /\ n \in Nat /\ l \in Nat
      /\ \A i \in 1..n : c[i].rows \subseteq ToSet(batch)
      /\ \A i, j \in 1..n : \A d \in c[i].rows : d \in c[j].rows => i = j
  <2>1. n \in Nat /\ l \in Nat
    BY TablesShape
  <2>2. /\ c \in Seq(Calls) /\ Len(c) = n
        /\ \A i \in 1..n : c[i].rows \subseteq ToSet(batch)
        /\ \A i, j \in 1..n : \A d \in c[i].rows : d \in c[j].rows => i = j
    BY InsertedRows
  <2>3. QED
    BY <2>1, <2>2
<1>2. inserts' = inserts \o c
  OBVIOUS
<1> HIDE DEF c
<1>3. /\ inserts' \in Seq(Calls) /\ Len(inserts') = l + n
      /\ \A i \in 1..l : i \in 1..Len(inserts') /\ inserts'[i] = inserts[i]
      /\ \A i \in 1..n : i + l \in 1..Len(inserts') /\ inserts'[i + l] = c[i]
      /\ \A i \in 1..Len(inserts') :
           i \in 1..l \/ (i - l \in 1..n /\ inserts'[i] = c[i - l])
  <2>1. inserts \o c \in Seq(Calls) /\ Len(inserts \o c) = Len(inserts) + n
    BY <1>1, Joined
  <2>2. QED
    BY <1>1, <1>2, <2>1, JoinedAt
<1>4. /\ \A i : i \in InsertsOf(e) <=> i \in 1..l /\ e \in inserts[i].rows
      /\ \A i : i \in InsertsOf(e)' <=> i \in 1..Len(inserts') /\ e \in inserts'[i].rows
  BY <1>3 DEF InsertsOf
<1> HIDE DEF l
<1>5. IsFiniteSet(InsertsOf(e)) /\ IsFiniteSet(InsertsOf(e)')
  <2>1. InsertsOf(e) \subseteq 1..l /\ InsertsOf(e)' \subseteq 1..(l + n)
    BY <1>3, <1>4
  <2>2. 1 \in Int /\ l \in Int /\ l + n \in Int
    BY <1>1
  <2>3. IsFiniteSet(1..l) /\ IsFiniteSet(1..(l + n))
    BY <2>2, FS_Interval
  <2>4. QED
    BY <2>1, <2>3, FS_Subset
<1>6. Cardinality(InsertsOf(e)) \in Nat /\ Cardinality(InsertsOf(e)') \in Nat
  BY <1>5, FS_CardinalityType
<1>7. CASE \E i \in 1..n : e \in c[i].rows
  <2>1. PICK i \in 1..n : e \in c[i].rows
    BY <1>7
  <2>2. InsertsOf(e)' = InsertsOf(e) \cup {i + l}
    <3>1. ASSUME NEW k \in InsertsOf(e)' PROVE k \in InsertsOf(e) \cup {i + l}
      <4>1. k \in 1..Len(inserts') /\ e \in inserts'[k].rows
        BY <1>4
      <4>2. CASE k \in 1..l
        BY <1>3, <1>4, <4>1, <4>2
      <4>3. CASE k - l \in 1..n /\ inserts'[k] = c[k - l]
        <5>1. k - l = i
          BY <1>1, <2>1, <4>1, <4>3
        <5>2. QED
          BY <1>1, <4>1, <5>1
      <4>4. QED
        BY <1>3, <4>1, <4>2, <4>3
    <3>2. InsertsOf(e) \subseteq InsertsOf(e)' /\ i + l \in InsertsOf(e)'
      BY <1>3, <1>4, <2>1
    <3>3. QED
      BY <3>1, <3>2
  <2>3. Cardinality(InsertsOf(e) \cup {i + l}) \in
          {Cardinality(InsertsOf(e)), Cardinality(InsertsOf(e)) + 1}
    <3> DEFINE I == InsertsOf(e)
               x == i + l
    <3>1. IsFiniteSet(I)
      BY <1>5
    <3> HIDE DEF I, x
    <3>2. Cardinality(I \cup {x}) = IF x \in I THEN Cardinality(I) ELSE Cardinality(I) + 1
      BY <3>1, FS_AddElement
    <3>3. Cardinality(I \cup {x}) \in {Cardinality(I), Cardinality(I) + 1}
      BY <3>2
    <3>4. QED
      BY <3>3 DEF I, x
  <2>4. e \in ToSet(batch)
    BY <1>1, <2>1
  <2>5. Cardinality(InsertsOf(e)') <= Cardinality(InsertsOf(e)) + 1
    <3>1. Cardinality(InsertsOf(e)') \in {Cardinality(InsertsOf(e)), Cardinality(InsertsOf(e)) + 1}
      BY <2>2, <2>3
    <3>2. QED
      BY <1>6, <3>1
  <2>6. QED
    BY <1>6, <2>4, <2>5
<1>8. CASE ~\E i \in 1..n : e \in c[i].rows
  <2>1. InsertsOf(e)' = InsertsOf(e)
    <3>1. ASSUME NEW k \in InsertsOf(e)' PROVE k \in InsertsOf(e)
      <4>1. k \in 1..Len(inserts') /\ e \in inserts'[k].rows
        BY <1>4
      <4>2. ~(k - l \in 1..n /\ inserts'[k] = c[k - l])
        BY <1>8, <4>1
      <4>3. k \in 1..l
        BY <1>3, <4>1, <4>2
      <4>4. QED
        BY <1>3, <1>4, <4>1, <4>3
    <3>2. ASSUME NEW k \in InsertsOf(e) PROVE k \in InsertsOf(e)'
      BY <1>3, <1>4
    <3>3. QED
      BY <3>1, <3>2
  <2>2. QED
    BY <1>6, <2>1
<1>9. QED
  BY <1>7, <1>8

\* The inserts change by an attempt of a task, and by nothing else.
LEMMA WhoInserts ==
  ASSUME PlaceInv, [Next]_vars
  PROVE  \/ UNCHANGED <<inserts, outages>>
         \/ \E f \in Tasks : Attempts(f) /\ UNCHANGED producing
<1>1. CASE \E f \in Tasks : Retry(f)
  BY <1>1, RetryAttempts DEF Retry
<1>2. CASE LoopRuns
  <2>1. FlushOnce("loop") /\ UNCHANGED producing /\ hand["loop"] = <<>> /\ "loop" \in Tasks
    BY <1>2, FlushersAreFree DEF LoopRuns, Tasks
  <2>2. QED
    BY <2>1, FlushAttempts
<1>3. CASE Stop
  <2>1. FlushOnce("stop") /\ UNCHANGED producing /\ hand["stop"] = <<>> /\ "stop" \in Tasks
    BY <1>3, FlushersAreFree DEF Stop, Tasks
  <2>2. QED
    BY <2>1, FlushAttempts
<1>4. CASE \E e \in Events : Collect(e) \/ SafeSpool(e)
  BY <1>4 DEF Collect, SafeSpool, flushing
<1>5. CASE LoopEnds \/ CancelLoop
  BY <1>5 DEF LoopEnds, CancelLoop
<1>6. CASE Exit \/ Crash
  BY <1>6 DEF Exit, Crash, Leave
<1>7. CASE UNCHANGED vars
  BY <1>7 DEF vars
<1>8. QED
  BY <1>1, <1>2, <1>3, <1>4, <1>5, <1>6, <1>7 DEF Next, Finished

\* The history grows by an event at a time, a new one.
LEMMA Collects ==
  ASSUME PlaceInv, [Next]_vars
  PROVE  \/ collected' = collected
         \/ \E e \in Events : e \notin ToSet(collected) /\ collected' = Append(collected, e)
<1>1. CASE \E e \in Events : Collect(e)
  BY <1>1 DEF Collect
<1>2. CASE \E f \in Tasks : Retry(f)
  BY <1>2 DEF Retry, producing
<1>3. CASE LoopRuns \/ Stop
  BY <1>3 DEF LoopRuns, Stop, producing
<1>4. CASE \/ \E e \in Events : SafeSpool(e)
           \/ LoopEnds \/ CancelLoop \/ Exit \/ Crash \/ UNCHANGED vars
  BY <1>4 DEF SafeSpool, LoopEnds, CancelLoop, Exit, Crash, Leave, vars
<1>5. QED
  BY <1>1, <1>2, <1>3, <1>4 DEF Next, Finished

\* What an attempt inserts, and what becomes of its batch.
LEMMA AttemptEnds ==
  ASSUME PlaceInv, NEW f \in Tasks, NEW batch, NEW rest, Split(f, batch, rest),
         NEW k \in 1..MaxRetries, Attempt(f, batch, rest, k)
  PROVE  /\ \E n \in 0..Len(TablesOf(batch)) : inserts' = inserts \o Inserted(batch, n)
         /\ \/ outages' = outages /\ Held' \cap ToSet(batch) = {}
            \/ outages' = outages + 1
<1>0. batch \in Seq(Events) /\ batch # <<>>
  BY DEF Split
<1>1. Len(TablesOf(batch)) \in 0..Len(TablesOf(batch))
  BY <1>0, TablesShape
<1>2. CASE /\ inserts' = inserts \o Inserted(batch, Len(TablesOf(batch)))
           /\ queue' = rest /\ Returns(f)
           /\ UNCHANGED <<spooling, outages>>
  <2>1. hand \in [Tasks -> Seq(Events)]
    BY Typed DEF PlaceInv
  <2>2. hand'[f] = <<>> /\ hand'[Other(f)] = hand[Other(f)]
    BY <1>2, <2>1, HeldBy DEF Returns
  <2>3. Held' = ToSet(rest) \cup ToSet(hand[Other(f)]) \cup spooling
    BY <1>2, <2>2, HeldBy, Empty
  <2>4. /\ (ToSet(batch) \cup ToSet(rest)) \cap (ToSet(hand[Other(f)]) \cup spooling) = {}
        /\ ToSet(batch) \cap ToSet(rest) = {}
    BY SplitApart DEF Split
  <2>5. QED
    BY <1>1, <1>2, <2>3, <2>4
<1>3. \E n \in 0..Len(TablesOf(batch)) : inserts' = inserts \o Inserted(batch, n)
  BY <1>0, AttemptInserts
<1>4. \/ outages' = outages /\ Held' \cap ToSet(batch) = {}
      \/ outages' = outages + 1
  BY <1>2 DEF Attempt
<1>5. QED
  BY <1>3, <1>4

\* The inductive invariant of the inserts of an event: what is held, and what has not
\* been collected, was inserted by failed attempts only.
CountInv ==
  /\ PlaceInv
  /\ \A e \in Events :
       /\ Cardinality(InsertsOf(e)) \in Nat
       /\ Cardinality(InsertsOf(e)) <= outages + 1
       /\ e \in Held \/ e \notin ToSet(collected) => Cardinality(InsertsOf(e)) <= outages

\* An attempt that succeeds takes its batch out of every hand, one that fails counts.
LEMMA CountKept ==
  ASSUME CountInv, [Next]_vars
  PROVE  CountInv'
<1>1. PlaceInv' /\ Keeps /\ PlaceInv
  BY NextKeeps DEF CountInv
<1>2. outages \in Nat
  BY <1>1, Typed DEF PlaceInv
<1>3. ToSet(collected) \subseteq ToSet(collected')
  <2>1. collected \in Seq(Events)
    BY <1>1, Typed DEF PlaceInv
  <2>2. CASE \E e \in Events : collected' = Append(collected, e)
    <3>1. PICK e \in Events : collected' = Append(collected, e)
      BY <2>2
    <3>2. ToSet(Append(collected, e)) = ToSet(collected) \cup {e}
      BY <2>1, Longer
    <3>3. QED
      BY <3>1, <3>2
  <2>3. QED
    BY <1>1, <2>2, Collects
<1>4. ASSUME NEW e \in Events, e \in Held' \/ e \notin ToSet(collected')
      PROVE  e \in Held \/ e \notin ToSet(collected)
  BY <1>1, <1>3, <1>4 DEF Keeps
<1>5. CASE UNCHANGED <<inserts, outages>>
  <2>1. \A e \in Events : InsertsOf(e)' = InsertsOf(e)
    BY <1>5 DEF InsertsOf
  <2>2. QED
    BY <1>1, <1>4, <1>5, <2>1 DEF CountInv
<1>6. ASSUME NEW f \in Tasks, Attempts(f), UNCHANGED producing PROVE CountInv'
  <2>1. PICK batch, rest \in Seq(Events), k \in 1..MaxRetries :
               Split(f, batch, rest) /\ Attempt(f, batch, rest, k)
    BY <1>6 DEF Attempts
  <2>2. PICK n \in 0..Len(TablesOf(batch)) : inserts' = inserts \o Inserted(batch, n)
    BY <1>1, <2>1, AttemptEnds
  <2>3. \/ outages' = outages /\ Held' \cap ToSet(batch) = {}
        \/ outages' = outages + 1
    BY <1>1, <2>1, AttemptEnds
  <2>4. batch # <<>> /\ inserts \in Seq(Calls) /\ ToSet(batch) \subseteq Held
    BY <1>1, <2>1, Typed, SplitApart DEF Split, PlaceInv
  <2>5. ASSUME NEW e \in Events
        PROVE  /\ Cardinality(InsertsOf(e)) \in Nat /\ Cardinality(InsertsOf(e)') \in Nat
               /\ Cardinality(InsertsOf(e)') <= Cardinality(InsertsOf(e)) + 1
               /\ e \notin ToSet(batch) => InsertsOf(e)' = InsertsOf(e)
    BY <2>2, <2>4, InsertsOnce
  <2>6. ASSUME NEW e \in Events
        PROVE  /\ Cardinality(InsertsOf(e)') \in Nat
               /\ Cardinality(InsertsOf(e)') <= outages' + 1
               /\ e \in Held' \/ e \notin ToSet(collected') =>
                    Cardinality(InsertsOf(e)') <= outages'
    <3>1. /\ Cardinality(InsertsOf(e)) <= outages + 1
          /\ e \in Held \/ e \notin ToSet(collected) => Cardinality(InsertsOf(e)) <= outages
      BY DEF CountInv
    <3>2. CASE e \in ToSet(batch)
      <4>1. Cardinality(InsertsOf(e)) <= outages
        BY <2>4, <3>1, <3>2
      <4>2. e \in ToSet(collected')
        BY <1>1, <1>3, <2>4, <3>2 DEF PlaceInv
      <4>3. QED
        BY <1>2, <2>3, <2>5, <3>2, <4>1, <4>2
    <3>3. CASE e \notin ToSet(batch)
      BY <1>2, <1>4, <2>3, <2>5, <3>1, <3>3
    <3>4. QED
      BY <3>2, <3>3
  <2>7. QED
    BY <1>1, <2>6 DEF CountInv
<1>7. QED
  BY <1>1, <1>5, <1>6, WhoInserts

\* ClickHouse is given an event once, and once more for each attempt that failed: no
\* interleaving of the two flushes of a shutdown inserts it twice by itself.
THEOREM Duplicates == Spec => []DuplicatesNeedAFailure
<1>1. Init => CountInv
  <2>1. ASSUME Init PROVE CountInv
    <3>1. PlaceInv /\ inserts = <<>> /\ outages = 0
      BY <2>1, InitPlaces DEF Init
    <3>2. \A e \in Events : InsertsOf(e) = {}
      BY <3>1 DEF InsertsOf
    <3>3. Cardinality({}) = 0
      BY FS_EmptySet
    <3>4. \A e \in Events : Cardinality(InsertsOf(e)) = 0
      BY <3>2, <3>3, Zenon
    <3>5. 0 \in Nat /\ 0 <= outages + 1 /\ 0 <= outages
      BY <3>1
    <3>6. QED
      BY <3>1, <3>4, <3>5 DEF CountInv
  <2>2. QED
    BY <2>1
<1>2. CountInv /\ [Next]_vars => CountInv'
  BY CountKept
<1>3. CountInv => DuplicatesNeedAFailure
  <2>1. ASSUME CountInv PROVE DuplicatesNeedAFailure
    <3>1. outages \in Nat
      BY <2>1, Typed DEF CountInv, PlaceInv
    <3>2. QED
      BY <2>1, <3>1 DEF CountInv, DuplicatesNeedAFailure
  <2>2. QED
    BY <2>1
<1>4. QED
  BY <1>1, <1>2, <1>3, PTL DEF Spec

(***************************************************************************)
(* The order of the inserts                                                *)
(***************************************************************************)
\* What run_forever has in hand, and what waits behind it.
Line == hand["loop"] \o queue

\* No flush has given up, and no signal has come.
Calm == failures = 0 /\ proc = "running"

\* The line is in the order of collect.
LineOrdered == \A m, n \in 1..Len(Line) : m < n => Ahead(collected, Line[m], Line[n])

\* What has been inserted, and is not tried again, was collected before the line.
PastOrdered ==
  \A d \in Stored \ ToSet(hand["loop"]) : \A e \in ToSet(Line) : Ahead(collected, d, e)

\* An insert of an event in hand took all of its table that is in hand.
TableTogether ==
  \A i \in 1..Len(inserts) : \A d \in inserts[i].rows \cap ToSet(hand["loop"]) :
    \A e \in ToSet(hand["loop"]) : TableOf(e) = TableOf(d) => e \in inserts[i].rows

InsertsOrdered ==
  \A j \in 1..Len(inserts) : \A e \in inserts[j].rows :
    /\ \A d \in inserts[j].rows : Ahead(inserts[j].batch, d, e) => Ahead(collected, d, e)
    /\ \A i \in 1..(j - 1) : \A d \in inserts[i].rows :
         TableOf(d) = TableOf(e) /\ InsertsOf(e) \cap 1..(j - 1) = {} => Ahead(collected, d, e)

\* The inductive invariant of the order.
OrderInv ==
  /\ PlaceInv /\ IsInjective(collected)
  /\ Calm => LineOrdered /\ PastOrdered /\ TableTogether /\ InsertsOrdered

\* What is ahead stays ahead of what comes later.
LEMMA AheadGrows ==
  ASSUME NEW S, NEW s \in Seq(S), NEW x \in S
  PROVE  /\ \A d, e : Ahead(s, d, e) => Ahead(Append(s, x), d, e)
         /\ \A d \in ToSet(s) : Ahead(Append(s, x), d, x)
<1> DEFINE t == Append(s, x)
<1>1. /\ DOMAIN s = 1..Len(s) /\ DOMAIN t = 1..(Len(s) + 1) /\ Len(s) \in Nat
      /\ \A i \in 1..Len(s) : t[i] = s[i]
      /\ t[Len(s) + 1] = x
  OBVIOUS
<1>2. \A d \in ToSet(s) : \E i \in 1..Len(s) : s[i] = d
  BY Elements
<1> HIDE DEF t
<1>3. ASSUME NEW d, NEW e, Ahead(s, d, e) PROVE Ahead(t, d, e)
  <2>1. PICK m, n \in 1..Len(s) : m < n /\ s[m] = d /\ s[n] = e
    BY <1>1, <1>3 DEF Ahead
  <2>2. m \in DOMAIN t /\ n \in DOMAIN t /\ t[m] = d /\ t[n] = e
    BY <1>1, <2>1
  <2>3. QED
    BY <2>1, <2>2 DEF Ahead
<1>4. ASSUME NEW d \in ToSet(s) PROVE Ahead(t, d, x)
  <2>1. PICK m \in 1..Len(s) : s[m] = d
    BY <1>2
  <2>2. m \in DOMAIN t /\ Len(s) + 1 \in DOMAIN t /\ m < Len(s) + 1 /\ t[m] = d
    BY <1>1, <2>1
  <2>3. QED
    BY <1>1, <2>2 DEF Ahead
<1>5. QED
  BY <1>3, <1>4 DEF t

\* Nothing is ahead of itself in a sequence without repetition.
LEMMA NotAheadOfItself ==
  ASSUME NEW S, NEW s \in Seq(S), IsInjective(s), NEW d
  PROVE  ~Ahead(s, d, d)
<1>1. DOMAIN s = 1..Len(s) /\ \A m, n \in 1..Len(s) : m < n => m # n
  OBVIOUS
<1>2. \A m, n \in 1..Len(s) : s[m] = s[n] => m = n
  BY Elements
<1>3. QED
  BY <1>1, <1>2 DEF Ahead

\* The steps after which no flush has given up: an attempt of run_forever that succeeds
\* or will be tried again, a new event, or nothing that the order sees.
LEMMA CalmSteps ==
  ASSUME PlaceInv, [Next]_vars, Calm'
  PROVE  /\ Calm
         /\ \/ \E batch, rest \in Seq(Events), k \in 1..MaxRetries :
                 /\ Split("loop", batch, rest) /\ Attempt("loop", batch, rest, k)
                 /\ failures' = failures /\ collected' = collected
            \/ \E e \in Events : Collect(e)
            \/ UNCHANGED <<queue, inserts, collected>> /\ hand'["loop"] = hand["loop"]
<1>0. /\ proc' = "running" /\ failures' = 0 /\ "loop" \in Tasks
      /\ failures \in Nat /\ hand \in [Tasks -> Seq(Events)]
      /\ proc = "running" => pc["stop"] = "off"
  BY Typed DEF Calm, PlaceInv, Progress, Tasks
<1>1. CASE \E e \in Events : Collect(e)
  BY <1>0, <1>1 DEF Collect, flushing, Calm
<1>2. CASE \E e \in Events : SafeSpool(e)
  BY <1>0, <1>2 DEF SafeSpool, flushing, Calm
<1>3. ASSUME Attempts("loop"), UNCHANGED producing, proc = "running"
      PROVE  /\ Calm
             /\ \E batch, rest \in Seq(Events), k \in 1..MaxRetries :
                  /\ Split("loop", batch, rest) /\ Attempt("loop", batch, rest, k)
                  /\ failures' = failures /\ collected' = collected
  <2>1. PICK batch, rest \in Seq(Events), k \in 1..MaxRetries :
               Split("loop", batch, rest) /\ Attempt("loop", batch, rest, k)
    BY <1>3 DEF Attempts
  <2>2. failures' = failures \/ failures' = failures + 1
    BY <2>1 DEF Attempt
  <2>3. failures' = failures /\ collected' = collected
    BY <1>0, <1>3, <2>2 DEF producing
  <2>4. QED
    BY <1>0, <1>3, <2>1, <2>3 DEF Calm
<1>4. ASSUME NEW f \in Tasks, Retry(f)
      PROVE f = "loop" /\ Attempts("loop") /\ UNCHANGED producing /\ proc = "running"
  <2>1. pc[f] = "retry" /\ UNCHANGED producing /\ proc' = proc
    BY <1>4 DEF Retry
  <2>2. f = "loop"
    BY <1>0, <2>1 DEF Tasks
  <2>3. QED
    BY <1>0, <1>4, <2>1, <2>2, RetryAttempts
<1>5. CASE LoopRuns
  <2>1. /\ FlushOnce("loop") /\ UNCHANGED producing /\ proc' = proc
        /\ hand["loop"] = <<>>
    BY <1>5, FlushersAreFree DEF LoopRuns
  <2>2. CASE Attempts("loop")
    BY <1>0, <1>3, <2>1, <2>2
  <2>3. CASE Returns("loop") /\ UNCHANGED <<queue, inserts, failures>>
    BY <1>0, <2>1, <2>3 DEF Returns, producing, Calm
  <2>4. QED
    BY <1>0, <2>1, <2>2, <2>3, FlushAttempts
<1>6. CASE Stop \/ CancelLoop \/ Exit \/ Crash
  BY <1>0, <1>6 DEF Stop, CancelLoop, Exit, Crash, Leave
<1>7. CASE LoopEnds \/ UNCHANGED vars
  BY <1>0, <1>7 DEF LoopEnds, vars, Calm
<1>8. QED
  BY <1>1, <1>2, <1>3, <1>4, <1>5, <1>6, <1>7 DEF Next, Finished

\* A new event comes last, in the line and in the history.
LEMMA CollectOrdered ==
  ASSUME PlaceInv, PlaceInv', LineOrdered, PastOrdered, TableTogether, InsertsOrdered,
         NEW e \in Events, Collect(e)
  PROVE  LineOrdered' /\ PastOrdered' /\ TableTogether' /\ InsertsOrdered'
<1>0. /\ collected \in Seq(Events) /\ queue \in Seq(Events) /\ hand["loop"] \in Seq(Events)
      /\ Held \cup Stored \subseteq ToSet(collected)
  BY Typed DEF PlaceInv, Tasks
<1>1. /\ collected' = Append(collected, e) /\ hand' = hand /\ inserts' = inserts
      /\ queue' = queue \/ queue' = Append(queue, e)
  BY DEF Collect, flushing
<1>2. /\ \A d, x : Ahead(collected, d, x) => Ahead(collected', d, x)
      /\ \A d \in ToSet(collected) : Ahead(collected', d, e)
  BY <1>0, <1>1, AheadGrows
<1>3. Line \in Seq(Events) /\ ToSet(Line) \subseteq ToSet(collected)
  <2>1. ToSet(Line) = ToSet(hand["loop"]) \cup ToSet(queue) /\ Line \in Seq(Events)
    BY <1>0, Joined DEF Line
  <2>2. QED
    BY <1>0, <2>1 DEF Held
<1>4. Line' = Line \/ Line' = Append(Line, e)
  <2>1. \A s, t \in Seq(Events) : s \o Append(t, e) = Append(s \o t, e)
    BY LongerAfter
  <2>2. QED
    BY <1>0, <1>1, <2>1 DEF Line
<1>5. Stored' = Stored /\ \A x : InsertsOf(x)' = InsertsOf(x)
  BY <1>1 DEF Stored, InsertsOf
<1>6. LineOrdered' /\ \A x \in ToSet(Line') : x \in ToSet(Line) \/ x = e
  <2>1. CASE Line' = Line
    BY <1>2, <2>1 DEF LineOrdered
  <2>2. CASE Line' = Append(Line, e)
    <3>1. /\ Len(Line') = Len(Line) + 1 /\ Line'[Len(Line) + 1] = e
          /\ \A i \in 1..Len(Line) : Line'[i] = Line[i]
      BY <1>3, <2>2
    <3>2. ASSUME NEW m \in 1..Len(Line'), NEW n \in 1..Len(Line'), m < n
          PROVE  Ahead(collected', Line'[m], Line'[n])
      <4>1. m \in 1..Len(Line) /\ Line[m] \in ToSet(collected) /\ Line'[m] = Line[m]
        <5>1. m \in 1..Len(Line)
          BY <1>3, <3>1, <3>2
        <5>2. QED
          BY <1>3, <3>1, <5>1, Elements
      <4>2. CASE n \in 1..Len(Line)
        BY <1>2, <3>1, <3>2, <4>1, <4>2 DEF LineOrdered
      <4>3. CASE n = Len(Line) + 1
        BY <1>2, <3>1, <4>1, <4>3
      <4>4. QED
        BY <1>3, <3>1, <4>2, <4>3
    <3>3. ToSet(Line') = ToSet(Line) \cup {e}
      BY <1>3, <2>2, Longer
    <3>4. QED
      BY <3>2, <3>3 DEF LineOrdered
  <2>3. QED
    BY <1>4, <2>1, <2>2
<1>7. PastOrdered'
  BY <1>0, <1>1, <1>2, <1>5, <1>6 DEF PastOrdered
<1>8. TableTogether'
  BY <1>1 DEF TableTogether
<1>9. InsertsOrdered'
  BY <1>1, <1>2, <1>5 DEF InsertsOrdered
<1>10. QED
  BY <1>6, <1>7, <1>8, <1>9

\* An attempt takes its batch from the front of the line.
LEMMA AttemptOrdered ==
  ASSUME PlaceInv, IsInjective(collected),
         LineOrdered, PastOrdered, TableTogether, InsertsOrdered,
         NEW batch \in Seq(Events), NEW rest \in Seq(Events), NEW k \in 1..MaxRetries,
         Split("loop", batch, rest), Attempt("loop", batch, rest, k),
         failures' = failures, collected' = collected
  PROVE  LineOrdered' /\ PastOrdered' /\ TableTogether' /\ InsertsOrdered'
<1>0. /\ collected \in Seq(Events) /\ inserts \in Seq(Calls) /\ failures \in Nat
      /\ hand \in [Tasks -> Seq(Events)] /\ "loop" \in Tasks
      /\ batch # <<>> /\ hand["loop"] \in {<<>>, batch} /\ Line = batch \o rest
  BY Typed DEF PlaceInv, Tasks, Split, Line
<1>1. PICK n \in 0..Len(TablesOf(batch)) : inserts' = inserts \o Inserted(batch, n)
  BY <1>0, AttemptInserts
<1> DEFINE l == Len(inserts)
           T == TablesOf(batch)
           c == Inserted(batch, n)
<1>2. /\ c \in Seq(Calls) /\ Len(c) = n
      /\ \A i \in 1..n : /\ c[i].batch = batch /\ c[i].rows \subseteq ToSet(batch)
                         /\ \A e : e \in c[i].rows <=> e \in ToSet(batch) /\ TableOf(e) = T[i]
  <2>1. c \in Seq(Calls) /\ Len(c) = n
    BY <1>0, InsertedRows
  <2>2. \A i \in 1..n : /\ c[i].batch = batch /\ c[i].rows \subseteq ToSet(batch)
                        /\ \A e : e \in c[i].rows <=> e \in ToSet(batch) /\ TableOf(e) = T[i]
    <3>1. \A i \in 1..n : /\ Inserted(batch, n)[i].batch = batch
                          /\ Inserted(batch, n)[i].rows \subseteq ToSet(batch)
                          /\ \A e : e \in Inserted(batch, n)[i].rows <=>
                                      e \in ToSet(batch) /\ TableOf(e) = TablesOf(batch)[i]
      <4> HIDE DEF c, T
      <4>1. QED
        BY <1>0, InsertedRows
    <3>2. QED
      BY <3>1
  <2>3. QED
    BY <2>1, <2>2
<1>3. /\ n \in Nat /\ l \in Nat /\ Len(T) \in Nat /\ n <= Len(T)
      /\ \A i, j \in 1..Len(T) : T[i] = T[j] => i = j
  <2>1. Len(T) \in Nat /\ \A i, j \in 1..Len(T) : T[i] = T[j] => i = j
    BY <1>0, TablesShape
  <2>2. l \in Nat
    BY <1>0
  <2> HIDE DEF T
  <2>3. n \in Nat /\ n <= Len(T)
    BY <2>1 DEF T
  <2>4. QED
    BY <2>1, <2>2, <2>3
<1>4. Stored' \subseteq Stored \cup ToSet(batch)
  BY <1>0, <1>1, AttemptStores
<1>5. /\ Len(inserts') = l + n
      /\ \A i \in 1..l : inserts'[i] = inserts[i]
      /\ \A i \in 1..Len(inserts') : i \in 1..l \/ (i - l \in 1..n /\ inserts'[i] = c[i - l])
  <2>0. inserts' = inserts \o c /\ inserts \in Seq(Calls) /\ c \in Seq(Calls) /\ Len(c) = n
    BY <1>0, <1>1, <1>2
  <2> HIDE DEF c
  <2>1. inserts \o c \in Seq(Calls) /\ Len(inserts \o c) = Len(inserts) + Len(c)
    BY <2>0, Joined
  <2>2. /\ \A i \in 1..Len(inserts) : (inserts \o c)[i] = inserts[i]
        /\ \A i \in 1..Len(inserts \o c) :
             i \in 1..Len(inserts) \/ (i - Len(inserts) \in 1..Len(c)
                                         /\ (inserts \o c)[i] = c[i - Len(inserts)])
    BY <2>0, JoinedAt
  <2>3. QED
    BY <2>0, <2>1, <2>2
<1> HIDE DEF c, l, T
<1>6. /\ ToSet(Line) = ToSet(batch) \cup ToSet(rest)
      /\ \A i \in 1..Len(batch) : i \in 1..Len(Line) /\ Line[i] = batch[i]
      /\ \A i \in 1..Len(rest) : i + Len(batch) \in 1..Len(Line) /\ Line[i + Len(batch)] = rest[i]
  <2>0. batch \in Seq(Events) /\ rest \in Seq(Events)
    OBVIOUS
  <2>1. ToSet(batch \o rest) = ToSet(batch) \cup ToSet(rest)
    BY <2>0, Joined
  <2>2. /\ \A i \in 1..Len(batch) : /\ i \in 1..Len(batch \o rest)
                                     /\ (batch \o rest)[i] = batch[i]
        /\ \A i \in 1..Len(rest) : /\ i + Len(batch) \in 1..Len(batch \o rest)
                                    /\ (batch \o rest)[i + Len(batch)] = rest[i]
    BY <2>0, JoinedAt
  <2>3. Line = batch \o rest
    BY <1>0
  <2>4. QED
    BY <2>1, <2>2, <2>3
<1>7. \A d, e : Ahead(batch, d, e) => Ahead(collected, d, e)
  <2>1. SUFFICES ASSUME NEW d, NEW e, Ahead(batch, d, e) PROVE Ahead(collected, d, e)
    OBVIOUS
  <2>2. PICK i, j \in 1..Len(batch) : i < j /\ batch[i] = d /\ batch[j] = e
    BY <2>1 DEF Ahead
  <2>3. /\ i \in 1..Len(Line) /\ j \in 1..Len(Line) /\ Line[i] = d /\ Line[j] = e
    BY <1>6, <2>2
  <2>4. QED
    BY <2>2, <2>3 DEF LineOrdered
<1>8. \A d \in ToSet(batch), e \in ToSet(rest) : Ahead(collected, d, e)
  <2>1. ASSUME NEW d \in ToSet(batch), NEW e \in ToSet(rest) PROVE Ahead(collected, d, e)
    <3>1. PICK i \in 1..Len(batch) : batch[i] = d
      BY Elements
    <3>2. PICK j \in 1..Len(rest) : rest[j] = e
      BY Elements
    <3>3. /\ i \in 1..Len(Line) /\ j + Len(batch) \in 1..Len(Line) /\ i < j + Len(batch)
          /\ Line[i] = d /\ Line[j + Len(batch)] = e
      BY <1>6, <3>1, <3>2
    <3>4. QED
      BY <3>3 DEF LineOrdered
  <2>2. QED
    BY <2>1
<1>9. \A i, j \in 1..Len(rest) : i < j => Ahead(collected, rest[i], rest[j])
  <2>1. ASSUME NEW i \in 1..Len(rest), NEW j \in 1..Len(rest), i < j
        PROVE  Ahead(collected, rest[i], rest[j])
    <3>1. /\ i + Len(batch) \in 1..Len(Line) /\ j + Len(batch) \in 1..Len(Line)
          /\ i + Len(batch) < j + Len(batch)
          /\ Line[i + Len(batch)] = rest[i] /\ Line[j + Len(batch)] = rest[j]
      BY <1>6, <2>1
    <3>2. QED
      BY <3>1 DEF LineOrdered
  <2>2. QED
    BY <2>1
<1>10. \A i \in 1..l : \A d : d \in inserts[i].rows => d \in Stored
  BY <1>0, RowsOf DEF Stored, l
<1>11. \A d : ~Ahead(collected, d, d)
  BY <1>0, NotAheadOfItself
<1>12. \/ hand'["loop"] = <<>> /\ Line' = rest
       \/ hand'["loop"] = batch /\ Line' = batch \o rest
  <2>1. CASE queue' = rest /\ Returns("loop")
    BY <1>0, <2>1 DEF Returns, Line
  <2>2. CASE queue' = rest /\ hand' = [hand EXCEPT !["loop"] = batch]
    BY <1>0, <2>2 DEF Line
  <2>3. failures' # failures + 1
    BY <1>0
  <2>4. QED
    BY <2>1, <2>2, <2>3 DEF Attempt
<1>13. ToSet(<<>>) = {}
  BY Empty
<1>14. LineOrdered' /\ ToSet(Line') \subseteq ToSet(Line)
  <2>1. CASE Line' = rest
    BY <1>6, <1>9, <2>1 DEF LineOrdered
  <2>2. CASE Line' = batch \o rest
    BY <1>0, <2>2 DEF LineOrdered
  <2>3. QED
    BY <1>12, <2>1, <2>2
<1>15. PastOrdered'
  <2>1. ASSUME NEW d \in Stored' \ ToSet(hand'["loop"]), NEW e \in ToSet(Line')
        PROVE  Ahead(collected, d, e)
    <3>1. CASE d \notin ToSet(batch)
      BY <1>0, <1>4, <1>13, <1>14, <2>1, <3>1 DEF PastOrdered
    <3>2. CASE d \in ToSet(batch)
      BY <1>8, <1>12, <2>1, <3>2
    <3>3. QED
      BY <3>1, <3>2
  <2>2. QED
    BY <2>1 DEF PastOrdered
<1>16. TableTogether'
  <2>1. ASSUME NEW i \in 1..Len(inserts'), NEW d \in inserts'[i].rows \cap ToSet(hand'["loop"]),
               NEW e \in ToSet(hand'["loop"]), TableOf(e) = TableOf(d)
        PROVE  e \in inserts'[i].rows
    <3>1. hand'["loop"] = batch
      BY <1>12, <1>13, <2>1
    <3>2. CASE i \in 1..l
      <4>1. d \in Stored /\ d \in ToSet(Line) /\ inserts'[i] = inserts[i]
        BY <1>5, <1>6, <1>10, <2>1, <3>1, <3>2
      <4>2. hand["loop"] = batch
        BY <1>0, <1>11, <1>13, <4>1 DEF PastOrdered
      <4>3. QED
        BY <2>1, <3>1, <3>2, <4>1, <4>2 DEF TableTogether, l
    <3>3. CASE i - l \in 1..n /\ inserts'[i] = c[i - l]
      BY <1>2, <2>1, <3>1, <3>3
    <3>4. QED
      BY <1>5, <3>2, <3>3
  <2>2. QED
    BY <2>1 DEF TableTogether
<1>17. InsertsOrdered'
  <2>1. ASSUME NEW j \in 1..Len(inserts'), NEW e \in inserts'[j].rows
        PROVE  /\ \A d \in inserts'[j].rows : Ahead(inserts'[j].batch, d, e) => Ahead(collected, d, e)
               /\ \A i \in 1..(j - 1) : \A d \in inserts'[i].rows :
                    TableOf(d) = TableOf(e) /\ InsertsOf(e)' \cap 1..(j - 1) = {}
                      => Ahead(collected, d, e)
    <3>1. CASE j \in 1..l
      <4>1. \A i \in 1..j : i \in 1..l /\ inserts'[i] = inserts[i]
        BY <1>3, <1>5, <3>1
      <4>2. InsertsOf(e)' \cap 1..(j - 1) = InsertsOf(e) \cap 1..(j - 1)
        <5>1. \A i \in 1..(j - 1) : i \in 1..l /\ i \in 1..Len(inserts') /\ inserts'[i] = inserts[i]
          BY <1>3, <1>5, <3>1
        <5>2. DOMAIN inserts' = 1..Len(inserts') /\ DOMAIN inserts = 1..l
          BY <1>0, <1>1, <1>2, Joined DEF c, l
        <5>3. QED
          BY <5>1, <5>2 DEF InsertsOf
      <4>3. \A i \in 1..(j - 1) : inserts'[i] = inserts[i]
        BY <4>1
      <4>4. inserts'[j] = inserts[j]
        BY <1>5, <3>1
      <4>5. QED
        BY <2>1, <3>1, <4>2, <4>3, <4>4 DEF InsertsOrdered, l
    <3>2. CASE j - l \in 1..n /\ inserts'[j] = c[j - l]
      <4>1. inserts'[j].batch = batch /\ e \in ToSet(batch) /\ TableOf(e) = T[j - l]
        BY <1>2, <2>1, <3>2
      <4>2. ASSUME NEW i \in 1..(j - 1), NEW d \in inserts'[i].rows, TableOf(d) = TableOf(e),
                   InsertsOf(e)' \cap 1..(j - 1) = {}
            PROVE  Ahead(collected, d, e)
        <5>0. i \in 1..Len(inserts')
          BY <1>3, <1>5, <2>1
        <5>1. CASE i \in 1..l
          <6>1. d \in Stored /\ inserts'[i] = inserts[i] /\ e \in ToSet(Line)
            BY <1>5, <1>6, <1>10, <4>1, <4>2, <5>1
          <6>2. CASE d \in ToSet(hand["loop"])
            <7>1. hand["loop"] = batch
              BY <1>0, <1>13, <6>2
            <7>2. e \in inserts'[i].rows
              BY <4>1, <4>2, <5>1, <6>1, <6>2, <7>1 DEF TableTogether, l
            <7>3. DOMAIN inserts' = 1..Len(inserts')
              BY <1>0, <1>1, <1>2, Joined DEF c
            <7>4. QED
              BY <4>2, <5>0, <7>2, <7>3 DEF InsertsOf
          <6>3. CASE d \notin ToSet(hand["loop"])
            BY <6>1, <6>3 DEF PastOrdered
          <6>4. QED
            BY <6>2, <6>3
        <5>2. CASE i - l \in 1..n /\ inserts'[i] = c[i - l]
          <6>1. TableOf(d) = T[i - l]
            BY <1>2, <4>2, <5>2
          <6>2. i - l \in 1..Len(T) /\ j - l \in 1..Len(T)
            <7>1. n <= Len(T) /\ n \in Nat /\ Len(T) \in Nat
              BY <1>3
            <7>2. \A x \in 1..n : x \in 1..Len(T)
              BY <7>1
            <7>3. QED
              BY <3>2, <5>2, <7>2
          <6>3. i - l = j - l
            BY <1>3, <4>1, <4>2, <6>1, <6>2
          <6>4. QED
            BY <1>3, <2>1, <4>2, <6>3
        <5>3. QED
          BY <1>5, <5>0, <5>1, <5>2
      <4>3. QED
        BY <1>7, <4>1, <4>2
    <3>3. QED
      BY <1>5, <3>1, <3>2
  <2>2. QED
    BY <2>1 DEF InsertsOrdered
<1>18. QED
  BY <1>14, <1>15, <1>16, <1>17

\* Every step keeps the order.
LEMMA OrderKept ==
  ASSUME OrderInv, [Next]_vars
  PROVE  OrderInv'
<1>0. PlaceInv /\ PlaceInv' /\ IsInjective(collected) /\ collected \in Seq(Events)
  BY NextKeeps, Typed DEF OrderInv, PlaceInv
<1>1. IsInjective(collected')
  <2>1. CASE \E e \in Events : e \notin ToSet(collected) /\ collected' = Append(collected, e)
    <3>1. PICK e \in Events : e \notin ToSet(collected) /\ collected' = Append(collected, e)
      BY <2>1
    <3>2. IsInjective(Append(collected, e))
      BY <1>0, <3>1, Longer
    <3>3. QED
      BY <3>1, <3>2
  <2>2. QED
    BY <1>0, <2>1, Collects
<1>2. ASSUME Calm' PROVE LineOrdered' /\ PastOrdered' /\ TableTogether' /\ InsertsOrdered'
  <2>1. LineOrdered /\ PastOrdered /\ TableTogether /\ InsertsOrdered
    BY <1>0, <1>2, CalmSteps DEF OrderInv
  <2>2. CASE \E batch, rest \in Seq(Events), k \in 1..MaxRetries :
               /\ Split("loop", batch, rest) /\ Attempt("loop", batch, rest, k)
               /\ failures' = failures /\ collected' = collected
    BY <1>0, <2>1, <2>2, AttemptOrdered
  <2>3. CASE \E e \in Events : Collect(e)
    BY <1>0, <2>1, <2>3, CollectOrdered
  <2>4. CASE UNCHANGED <<queue, inserts, collected>> /\ hand'["loop"] = hand["loop"]
    <3>1. Line' = Line /\ Stored' = Stored /\ \A e : InsertsOf(e)' = InsertsOf(e)
      BY <2>4 DEF Line, Stored, InsertsOf
    <3>2. LineOrdered' /\ PastOrdered'
      BY <2>1, <2>4, <3>1 DEF LineOrdered, PastOrdered
    <3>3. TableTogether'
      BY <2>1, <2>4 DEF TableTogether
    <3>4. InsertsOrdered'
      BY <2>1, <2>4, <3>1 DEF InsertsOrdered
    <3>5. QED
      BY <3>2, <3>3, <3>4
  <2>5. QED
    BY <1>0, <1>2, <2>2, <2>3, <2>4, CalmSteps
<1>3. QED
  BY <1>0, <1>1, <1>2 DEF OrderInv

\* Until a flush gives up, or a signal comes, whatever retries there are and whatever
\* is collected between them, the events of a table are inserted in the order of collect.
THEOREM Ordered == Spec => []OrderUntilRequeue
<1>1. ASSUME Init PROVE OrderInv
  <2>1. /\ PlaceInv /\ Stored = {} /\ inserts = <<>> /\ queue = <<>> /\ collected = <<>>
        /\ hand["loop"] = <<>>
    BY <1>1, InitPlaces DEF Init, Tasks
  <2>2. IsInjective(collected) /\ Len(Line) = 0
    BY <2>1, Empty DEF Line
  <2>3. LineOrdered
    BY <2>2 DEF LineOrdered
  <2>4. PastOrdered
    BY <2>1 DEF PastOrdered
  <2>5. TableTogether /\ InsertsOrdered
    BY <2>1 DEF TableTogether, InsertsOrdered
  <2>6. QED
    BY <2>1, <2>2, <2>3, <2>4, <2>5 DEF OrderInv
<1>2. OrderInv /\ [Next]_vars => OrderInv'
  BY OrderKept
<1>3. ASSUME OrderInv PROVE OrderUntilRequeue
  <2>1. inserts \in Seq(Calls)
    BY <1>3, Typed DEF OrderInv, PlaceInv
  <2>2. DOMAIN inserts = 1..Len(inserts)
    BY <2>1
  <2>3. QED
    BY <1>3, <2>2 DEF OrderInv, Calm, InsertsOrdered, OrderUntilRequeue
<1>4. QED
  BY <1>1, <1>2, <1>3, PTL DEF Spec
=============================================================================
