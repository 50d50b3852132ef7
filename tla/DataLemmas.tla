------------------------------ MODULE DataLemmas ------------------------------
(***************************************************************************)
(* Facts about naturals and selections that the proofs of several modules  *)
(* cite.  The induction they need is over sets of naturals: one that were  *)
(* not all of Nat would miss a least natural.                              *)
(***************************************************************************)
EXTENDS Selection, WellFoundedInduction, SequenceTheorems, TLAPS

(* Every set of naturals that is not empty has a least element: without    *)
(* one, the function below would pick ever smaller elements for ever.      *)
LEMMA LeastElement ==
    ASSUME NEW T \in SUBSET Nat, T # {}
    PROVE  \E m \in T : \A n \in T : m <= n
<1> DEFINE R == {ss \in Nat \X Nat : ss[1] < ss[2]}
<1>1. IsWellFoundedOn(R, Nat)
  <2>1. R = OpToRel(<, Nat)
    BY DEF OpToRel
  <2> QED
    BY ONLY <2>1, NatLessThanWellFounded
<1>2. PICK m \in T : \A n \in T : ~(<<n, m>> \in R)
  <2> HIDE DEF R
  <2> QED
    BY <1>1, WFMin
<1>3. ASSUME NEW n \in T, n < m PROVE <<n, m>> \in R
  <2>1. /\ <<n, m>> \in Nat \X Nat
        /\ <<n, m>>[1] = n /\ <<n, m>>[2] = m
    OBVIOUS
  <2> QED
    BY <1>3, <2>1
<1>4. \A n \in T : ~(n < m)
  BY <1>2, <1>3
<1> QED
  BY <1>4

LEMMA GreatestElement ==
    ASSUME NEW n \in Nat, NEW T \in SUBSET (0..n), T # {}
    PROVE  \E m \in T : \A k \in T : k <= m
<1> DEFINE U == {n - k : k \in T}
<1>1. U \in SUBSET Nat /\ U # {}
  <2>1. \A k \in T : n - k \in Nat
    OBVIOUS
  <2>2. PICK k \in T : TRUE
    OBVIOUS
  <2>3. n - k \in U
    OBVIOUS
  <2> QED
    BY <2>1, <2>3
<1>2. PICK u \in U : \A v \in U : u <= v
  <2> HIDE DEF U
  <2> QED
    BY <1>1, LeastElement
<1>3. PICK m \in T : u = n - m
  BY <1>2
<1>4. ASSUME NEW k \in T PROVE k <= m
  <2>1. n - m <= n - k
    BY <1>2, <1>3
  <2> QED
    BY <2>1
<1> QED
  BY <1>4

(* A set of naturals that holds 0 and the successor of each of its members *)
(* up to n holds 0..n.                                                     *)
LEMMA UpToInduction ==
    ASSUME NEW n \in Nat, NEW G, 0 \in G,
           \A k \in 1..n : k - 1 \in G => k \in G
    PROVE  0..n \subseteq G
<1> DEFINE T == (0..n) \ G
<1> SUFFICES ASSUME T # {} PROVE FALSE
  OBVIOUS
<1>1. PICK m \in T : \A k \in T : m <= k
  <2>1. T \in SUBSET Nat
    OBVIOUS
  <2> HIDE DEF T
  <2> QED
    BY <2>1, LeastElement
<1>2. m \in 1..n /\ m - 1 \in 0..n /\ m \notin G
  BY <1>1
<1>3. m - 1 \notin T
  BY <1>1, <1>2
<1> QED
  BY <1>2, <1>3

-----------------------------------------------------------------------------
(***************************************************************************)
(* The selections of the beginnings of a sequence.                         *)
(***************************************************************************)
Grows(f, s, places, n) ==
    /\ DOMAIN f = 0..n
    /\ f[0] = <<>>
    /\ \A k \in 1..n : f[k] = IF k \in places THEN Append(f[k - 1], s[k]) ELSE f[k - 1]

Grown(f, s, places, k) ==
    IF k = 0 THEN <<>> ELSE IF k \in places THEN Append(f[k - 1], s[k]) ELSE f[k - 1]

Solves(f, s, places, n) == f = [k \in 0..n |-> Grown(f, s, places, k)]

LEMMA SelectionGrows ==
    ASSUME NEW n \in Nat, NEW s, NEW places
    PROVE  \E f : Solves(f, s, places, n)
<1> DEFINE SolvesUpTo(f, m) == f = [k \in 0..m |-> Grown(f, s, places, k)]
           G == {m \in Nat : \E f : SolvesUpTo(f, m)}
<1>1. 0 \in G
  <2> DEFINE f == [k \in 0..0 |-> <<>>]
  <2>1. SolvesUpTo(f, 0)
    BY DEF Grown
  <2> HIDE DEF f
  <2> QED
    BY <2>1
<1>2. ASSUME NEW m \in 1..n, m - 1 \in G
      PROVE  m \in G
  <2>1. PICK f : SolvesUpTo(f, m - 1)
    BY <1>2
  <2> DEFINE g == [k \in 0..m |-> IF k = m THEN Grown(f, s, places, m) ELSE f[k]]
  <2>2. m \in Nat /\ m # 0
    OBVIOUS
  <2>3. \A k \in 0..(m - 1) : f[k] = Grown(f, s, places, k)
    BY <2>1
  <2>4. /\ DOMAIN g = 0..m
        /\ g[m] = Grown(f, s, places, m)
        /\ \A k \in 0..(m - 1) : g[k] = f[k]
    BY <2>2
  <2>5. g = [k \in 0..m |-> g[k]]
    OBVIOUS
  <2> HIDE DEF g
  <2>6. ASSUME NEW k \in 0..m
        PROVE  g[k] = Grown(g, s, places, k)
    <3>1. k = 0 \/ k - 1 \in 0..(m - 1)
      BY <2>2
    <3>2. Grown(g, s, places, k) = Grown(f, s, places, k)
      BY <2>4, <3>1 DEF Grown
    <3>3. CASE k = m
      BY <2>4, <3>2, <3>3
    <3>4. CASE k # m
      <4>1. k \in 0..(m - 1)
        BY <2>2, <3>4
      <4> QED
        BY <4>1, <2>3, <2>4, <3>2
    <3> QED
      BY <3>3, <3>4
  <2>7. SolvesUpTo(g, m)
    BY <2>5, <2>6
  <2> QED
    BY <2>2, <2>7
<1>3. n \in G
  <2> HIDE DEF G
  <2>1. 0..n \subseteq G
    BY <1>1, <1>2, UpToInduction
  <2> QED
    BY <2>1
<1> QED
  BY <1>3 DEF Solves

LEMMA SelectedGrows ==
    ASSUME NEW s, Len(s) \in Nat, NEW places
    PROVE  \E f : Grows(f, s, places, Len(s)) /\ Selected(s, places) = f[Len(s)]
<1> DEFINE N == Len(s)
           upTo == CHOOSE f : Solves(f, s, places, N)
<1>1. Selected(s, places) = upTo[N]
  BY DEF Selected, Solves, Grown
<1>2. Solves(upTo, s, places, N)
  <2>1. \E f : Solves(f, s, places, N)
    BY SelectionGrows
  <2> QED
    BY <2>1
<1>3. N \in Nat
  OBVIOUS
<1> HIDE DEF upTo, N
<1>4. Grows(upTo, s, places, N)
  <2>1. DOMAIN upTo = 0..N /\ \A k \in 0..N : upTo[k] = Grown(upTo, s, places, k)
    BY <1>2 DEF Solves
  <2>2. upTo[0] = <<>>
    BY <1>3, <2>1 DEF Grown
  <2>3. ASSUME NEW k \in 1..N
        PROVE  upTo[k] = IF k \in places THEN Append(upTo[k - 1], s[k]) ELSE upTo[k - 1]
    <3>1. k \in 0..N /\ k # 0
      BY <1>3
    <3> QED
      BY <2>1, <3>1 DEF Grown
  <2> QED
    BY <2>1, <2>2, <2>3 DEF Grows
<1> QED
  BY <1>1, <1>4 DEF N

(* Two sequences that agree up to n select the same up to n.               *)
LEMMA GrowthsAgree ==
    ASSUME NEW n \in Nat, NEW s, NEW t, NEW P, NEW Q, NEW M \in Nat, NEW N \in Nat,
           n <= M, n <= N,
           NEW f, Grows(f, s, P, M), NEW g, Grows(g, t, Q, N),
           \A i \in 1..n : s[i] = t[i] /\ (i \in P <=> i \in Q)
    PROVE  f[n] = g[n]
<1> DEFINE G == {k \in 0..n : f[k] = g[k]}
<1>1. 0 \in G
  BY DEF Grows
<1>2. ASSUME NEW k \in 1..n, k - 1 \in G
      PROVE  k \in G
  <2>1. k \in 1..M /\ k \in 1..N /\ k \in 0..n /\ f[k - 1] = g[k - 1]
    BY <1>2
  <2>2. s[k] = t[k] /\ (k \in P <=> k \in Q)
    OBVIOUS
  <2>3. f[k] = IF k \in P THEN Append(f[k - 1], s[k]) ELSE f[k - 1]
    BY <2>1 DEF Grows
  <2>4. g[k] = IF k \in Q THEN Append(g[k - 1], t[k]) ELSE g[k - 1]
    BY <2>1 DEF Grows
  <2> QED
    BY <2>1, <2>2, <2>3, <2>4
<1>3. n \in G
  <2> HIDE DEF G
  <2>1. 0..n \subseteq G
    BY <1>1, <1>2, UpToInduction
  <2> QED
    BY <2>1
<1> QED
  BY <1>3

(* A selection depends on the places that the sequence has.                *)
LEMMA SelectedAlike ==
    ASSUME NEW s, Len(s) \in Nat, NEW t, Len(t) = Len(s), NEW P, NEW Q,
           \A i \in 1..Len(s) : s[i] = t[i] /\ (i \in P <=> i \in Q)
    PROVE  Selected(s, P) = Selected(t, Q)
<1>1. PICK f : Grows(f, s, P, Len(s)) /\ Selected(s, P) = f[Len(s)]
  BY SelectedGrows
<1>2. PICK g : Grows(g, t, Q, Len(t)) /\ Selected(t, Q) = g[Len(t)]
  BY SelectedGrows
<1>3. f[Len(s)] = g[Len(s)]
  BY <1>1, <1>2, GrowthsAgree
<1> QED
  BY <1>1, <1>2, <1>3

(* What is appended is selected last, or not at all.                       *)
LEMMA SelectedAppend ==
    ASSUME NEW S, NEW s \in Seq(S), NEW x \in S, NEW P, NEW Q,
           \A i \in 1..Len(s) : i \in P <=> i \in Q
    PROVE  Selected(Append(s, x), Q)
             = IF Len(s) + 1 \in Q THEN Append(Selected(s, P), x) ELSE Selected(s, P)
<1> DEFINE t == Append(s, x)
           N == Len(s)
<1>1. /\ N \in Nat
      /\ Len(t) = N + 1
      /\ \A i \in 1..N : t[i] = s[i]
      /\ t[N + 1] = x
  OBVIOUS
<1>2. \A i \in 1..N : i \in P <=> i \in Q
  OBVIOUS
<1>3. PICK f : Grows(f, s, P, N) /\ Selected(s, P) = f[N]
  BY SelectedGrows
<1> HIDE DEF t, N
<1>4. PICK g : Grows(g, t, Q, N + 1) /\ Selected(t, Q) = g[N + 1]
  BY <1>1, SelectedGrows
<1>5. g[N + 1] = IF N + 1 \in Q THEN Append(g[N], x) ELSE g[N]
  <2>1. N + 1 \in 1..(N + 1) /\ (N + 1) - 1 = N
    BY <1>1
  <2> QED
    BY <1>1, <1>4, <2>1 DEF Grows
<1>6. f[N] = g[N]
  <2>1. N + 1 \in Nat /\ N <= N + 1 /\ N <= N
    BY <1>1
  <2> QED
    BY <1>1, <1>2, <1>3, <1>4, <2>1, GrowthsAgree
<1> QED
  BY <1>3, <1>4, <1>5, <1>6 DEF t, N

(* A selection lists the selected places in their order, each once.        *)
Lists(at, m, places) ==
    /\ at \in [1..m -> places]
    /\ \A i, j \in 1..m : i < j => at[i] < at[j]
    /\ \A k \in places : \E i \in 1..m : at[i] = k

Chooses(at, q, s, P, n) ==
    /\ Lists(at, Len(q), P \cap 1..n)
    /\ \A i \in 1..Len(q) : q[i] = s[at[i]]

LEMMA GrowthLists ==
    ASSUME NEW S, NEW s \in Seq(S), NEW P,
           NEW f, Grows(f, s, P, Len(s))
    PROVE  \A n \in 0..Len(s) :
              f[n] \in Seq(S) /\ \E at : Chooses(at, f[n], s, P, n)
<1> DEFINE N == Len(s)
           Good(n) == f[n] \in Seq(S) /\ \E at : Chooses(at, f[n], s, P, n)
           G == {n \in 0..N : Good(n)}
<1>0. N \in Nat
  OBVIOUS
<1>1. 0 \in G
  <2> DEFINE at == [i \in {} |-> 0]
  <2>1. f[0] = <<>> /\ Len(f[0]) = 0 /\ f[0] \in Seq(S)
    BY DEF Grows
  <2>2. 1..0 = {} /\ P \cap 1..0 = {}
    OBVIOUS
  <2>3. at \in [{} -> {}]
    OBVIOUS
  <2> HIDE DEF at
  <2>4. Lists(at, 0, {})
    BY <2>2, <2>3 DEF Lists
  <2>5. Good(0)
    BY <2>1, <2>2, <2>4 DEF Chooses
  <2> QED
    BY <1>0, <2>5
<1>2. ASSUME NEW n \in 1..N, n - 1 \in G
      PROVE  n \in G
  <2>1. f[n - 1] \in Seq(S)
    BY <1>2
  <2>2. PICK at : Chooses(at, f[n - 1], s, P, n - 1)
    BY <1>2
  <2>3. f[n] = IF n \in P THEN Append(f[n - 1], s[n]) ELSE f[n - 1]
    BY DEF Grows
  <2>4. n \in Nat /\ n - 1 \in Nat /\ n \in 0..N /\ s[n] \in S
    BY <1>0
  <2>5. CASE n \notin P
    <3>1. P \cap 1..n = P \cap 1..(n - 1)
      BY <2>4, <2>5
    <3>2. f[n] = f[n - 1]
      BY <2>3, <2>5
    <3>3. Good(n)
      BY <2>1, <2>2, <3>1, <3>2 DEF Chooses
    <3> QED
      BY <2>4, <3>3
  <2>6. CASE n \in P
    <3> DEFINE q == f[n - 1]
               m == Len(q)
               longer == [i \in 1..(m + 1) |-> IF i = m + 1 THEN n ELSE at[i]]
    <3>1. /\ m \in Nat /\ f[n] \in Seq(S) /\ Len(f[n]) = m + 1
          /\ \A i \in 1..m : f[n][i] = q[i]
          /\ f[n][m + 1] = s[n]
      BY <2>1, <2>3, <2>4, <2>6
    <3>2. P \cap 1..n = (P \cap 1..(n - 1)) \cup {n}
      BY <2>4, <2>6
    <3>3. /\ at \in [1..m -> P \cap 1..(n - 1)]
          /\ \A i, j \in 1..m : i < j => at[i] < at[j]
          /\ \A k \in P \cap 1..(n - 1) : \E i \in 1..m : at[i] = k
      BY <2>2 DEF Chooses, Lists
    <3>4. /\ longer[m + 1] = n
          /\ \A i \in 1..m : longer[i] = at[i]
          /\ DOMAIN longer = 1..(m + 1)
          /\ longer = [i \in 1..(m + 1) |-> longer[i]]
      BY <3>1
    <3>5. \A i \in 1..(m + 1) : i \in 1..m \/ i = m + 1
      BY <3>1
    <3>6. 1..m \subseteq 1..(m + 1) /\ m + 1 \in 1..(m + 1)
      BY <3>1
    <3> HIDE DEF longer, m, q
    <3>7. longer \in [1..(m + 1) -> P \cap 1..n]
      BY <3>2, <3>3, <3>4, <3>5
    <3>8. ASSUME NEW i \in 1..(m + 1), NEW j \in 1..(m + 1), i < j
          PROVE  longer[i] < longer[j]
      <4>1. i \in 1..m
        BY <3>1, <3>8
      <4>2. at[i] \in 1..(n - 1)
        BY <3>3, <4>1
      <4>3. CASE j \in 1..m
        BY <3>3, <3>4, <3>8, <4>1, <4>3
      <4>4. CASE j = m + 1
        <5>1. longer[j] = n /\ longer[i] = at[i]
          BY <3>4, <4>1, <4>4
        <5>2. at[i] < n
          BY <2>4, <4>2
        <5> QED
          BY <5>1, <5>2
      <4> QED
        BY <3>5, <4>3, <4>4
    <3>9. \A k \in P \cap 1..n : \E i \in 1..(m + 1) : longer[i] = k
      BY <3>2, <3>3, <3>4, <3>6
    <3>10. Lists(longer, m + 1, P \cap 1..n)
      BY <3>7, <3>8, <3>9 DEF Lists
    <3>11. \A i \in 1..(m + 1) : f[n][i] = s[longer[i]]
      BY <2>2, <3>1, <3>4, <3>5 DEF q, m, Chooses
    <3>12. Good(n)
      BY <3>1, <3>10, <3>11 DEF Chooses
    <3> QED
      BY <2>4, <3>12
  <2> QED
    BY <2>5, <2>6
<1> HIDE DEF G
<1>3. 0..N \subseteq G
  BY <1>0, <1>1, <1>2, UpToInduction
<1> QED
  BY <1>3 DEF G

LEMMA SelectedPlaces ==
    ASSUME NEW S, NEW s \in Seq(S), NEW P
    PROVE  /\ Selected(s, P) \in Seq(S)
           /\ \E at : Chooses(at, Selected(s, P), s, P, Len(s))
<1>1. PICK f : Grows(f, s, P, Len(s)) /\ Selected(s, P) = f[Len(s)]
  BY SelectedGrows
<1>2. Len(s) \in 0..Len(s)
  OBVIOUS
<1> QED
  BY <1>1, <1>2, GrowthLists

(* The elements of a selection are those at the selected places.           *)
LEMMA SelectedElements ==
    ASSUME NEW S, NEW s \in Seq(S), NEW P
    PROVE  /\ Selected(s, P) \in Seq(S)
           /\ Len(Selected(s, P)) \in Nat
           /\ DOMAIN Selected(s, P) = 1..Len(Selected(s, P))
           /\ \A i \in 1..Len(Selected(s, P)) :
                 \E k \in P \cap 1..Len(s) : Selected(s, P)[i] = s[k]
           /\ \A k \in P \cap 1..Len(s) :
                 \E i \in 1..Len(Selected(s, P)) : Selected(s, P)[i] = s[k]
<1> DEFINE q == Selected(s, P)
<1>1. q \in Seq(S)
  BY SelectedPlaces
<1>2. PICK at : Chooses(at, q, s, P, Len(s))
  BY SelectedPlaces
<1>3. Len(q) \in Nat /\ DOMAIN q = 1..Len(q)
  BY <1>1, LenProperties
<1> DEFINE R == P \cap 1..Len(s)
           m == Len(q)
<1>4. /\ at \in [1..m -> R]
      /\ \A k \in R : \E i \in 1..m : at[i] = k
      /\ \A i \in 1..m : q[i] = s[at[i]]
  BY <1>2 DEF Chooses, Lists
<1> HIDE DEF q, R, m
<1>5. \A i \in 1..m : \E k \in R : q[i] = s[k]
  BY <1>4
<1>6. \A k \in R : \E i \in 1..m : q[i] = s[k]
  BY <1>4
<1> QED
  BY <1>1, <1>3, <1>5, <1>6 DEF q, R, m

-----------------------------------------------------------------------------
(***************************************************************************)
(* A function defined by recursion on 0..n, from the steps that it takes.  *)
(***************************************************************************)
Iterates(f, first, next, n) ==
    f = [k \in 0..n |-> IF k = 0 THEN first ELSE next[k][f[k - 1]]]

LEMMA IterationExists ==
    ASSUME NEW n \in Nat, NEW S, NEW first \in S,
           NEW next, \A k \in 1..n : next[k] \in [S -> S]
    PROVE  \E f \in [0..n -> S] : Iterates(f, first, next, n)
<1> DEFINE G == {m \in Nat : \E f \in [0..m -> S] : Iterates(f, first, next, m)}
<1>1. 0 \in G
  <2> DEFINE f == [k \in 0..0 |-> first]
  <2>1. f \in [0..0 -> S] /\ Iterates(f, first, next, 0)
    BY DEF Iterates
  <2> HIDE DEF f
  <2> QED
    BY <2>1
<1>2. ASSUME NEW m \in 1..n, m - 1 \in G
      PROVE  m \in G
  <2>1. PICK f \in [0..(m - 1) -> S] : Iterates(f, first, next, m - 1)
    BY <1>2
  <2> DEFINE last == next[m][f[m - 1]]
             g == [k \in 0..m |-> IF k = m THEN last ELSE f[k]]
  <2>2. m \in Nat /\ m # 0 /\ m - 1 \in 0..(m - 1)
    OBVIOUS
  <2>3. last \in S
    <3>1. f[m - 1] \in S /\ next[m] \in [S -> S]
      BY <2>2
    <3> QED
      BY <3>1
  <2>4. \A k \in 0..(m - 1) : f[k] = IF k = 0 THEN first ELSE next[k][f[k - 1]]
    BY <2>1 DEF Iterates
  <2> HIDE DEF last
  <2>5. /\ DOMAIN g = 0..m
        /\ g[m] = last
        /\ \A k \in 0..(m - 1) : g[k] = f[k]
        /\ g = [k \in 0..m |-> g[k]]
    BY <2>2
  <2> HIDE DEF g
  <2>6. \A k \in 0..m : k = m \/ k \in 0..(m - 1)
    BY <2>2
  <2>7. g \in [0..m -> S]
    BY <2>3, <2>5, <2>6
  <2>8. ASSUME NEW k \in 0..m
        PROVE  g[k] = IF k = 0 THEN first ELSE next[k][g[k - 1]]
    <3>1. k = 0 \/ k - 1 \in 0..(m - 1)
      BY <2>2
    <3>2. CASE k = m
      BY <2>2, <2>5, <3>1, <3>2 DEF last
    <3>3. CASE k \in 0..(m - 1)
      BY <2>4, <2>5, <3>1, <3>3
    <3> QED
      BY <2>6, <3>2, <3>3
  <2>9. Iterates(g, first, next, m)
    BY <2>5, <2>8 DEF Iterates
  <2> QED
    BY <2>2, <2>7, <2>9
<1>3. n \in G
  <2> HIDE DEF G
  <2>1. 0..n \subseteq G
    BY <1>1, <1>2, UpToInduction
  <2> QED
    BY <2>1
<1> QED
  BY <1>3
===============================================================================
