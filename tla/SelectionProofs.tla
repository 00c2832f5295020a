-------------------------- MODULE SelectionProofs --------------------------
(***************************************************************************)
(* What Only(s, S) returns: the elements of s that are in S, each as often *)
(* and in the order as in s.  Induction over the length is put as: there   *)
(* is no least prefix for which the claim fails.                           *)
(***************************************************************************)
EXTENDS Selection, WellFoundedInduction, TLAPS

\* Every set of natural numbers has a least one: the form in which the proofs below
\* use induction.
LEMMA LeastNumber ==
    ASSUME NEW T, T \subseteq Nat, T # {}
    PROVE  \E m \in T : \A n \in T : m <= n
<1> DEFINE R == OpToRel(<, Nat)
<1>1. IsWellFoundedOn(R, Nat)
  BY NatLessThanWellFounded
<1>2. \E m \in T : \A n \in T : ~(<<n, m>> \in R)
  <2> HIDE DEF R
  <2> QED BY <1>1, WFMin
<1>3. \A m, n \in Nat : n < m => <<n, m>> \in R
  BY DEF OpToRel
<1>4. PICK m \in T : \A n \in T : ~(<<n, m>> \in R)
  BY <1>2
<1>5. \A n \in T : ~(n < m)
  <2> HIDE DEF R
  <2> QED BY <1>3, <1>4
<1>6. \A n \in T : m <= n
  BY <1>5
<1> QED BY <1>6

\* The recursive function of Only, as far as it has come.
Stepwise(f, s, S, n) ==
    f = [i \in 0 .. n |->
            IF i = 0 THEN << >>
            ELSE IF s[i] \in S THEN Append(f[i - 1], s[i]) ELSE f[i - 1]]

\* The function exists.
LEMMA StepwiseExists ==
    ASSUME NEW s, NEW S, NEW N \in Nat
    PROVE  \E f : Stepwise(f, s, S, N)
<1> DEFINE Bad == {n \in Nat : ~ \E f : Stepwise(f, s, S, n)}
<1>1. SUFFICES ASSUME Bad # {} PROVE FALSE
  OBVIOUS
<1>2. PICK m \in Bad : \A n \in Bad : m <= n
  <2> HIDE DEF Bad
  <2>1. Bad \subseteq Nat BY DEF Bad
  <2> QED BY <1>1, <2>1, LeastNumber
<1>3. m \in Nat /\ ~ \E f : Stepwise(f, s, S, m)
  OBVIOUS
<1>4. m # 0
  <2>1. Stepwise([i \in 0 .. 0 |-> << >>], s, S, 0)
    BY DEF Stepwise
  <2> QED BY <2>1, <1>3
<1>5. m - 1 \in Nat /\ m - 1 \notin Bad
  BY <1>2, <1>3, <1>4
<1>6. PICK g : Stepwise(g, s, S, m - 1)
  BY <1>5
<1> DEFINE h == [i \in 0 .. m |-> IF i < m THEN g[i]
                    ELSE IF s[m] \in S THEN Append(g[m - 1], s[m]) ELSE g[m - 1]]
<1>7. Stepwise(h, s, S, m)
  <2>1. \A i \in 0 .. m : h[i] = IF i = 0 THEN << >>
            ELSE IF s[i] \in S THEN Append(h[i - 1], s[i]) ELSE h[i - 1]
    <3> TAKE i \in 0 .. m
    <3>1. CASE i = m
      BY <3>1, <1>3, <1>4
    <3>2. CASE i < m
      <4>1. h[i] = g[i] /\ (i # 0 => h[i - 1] = g[i - 1])
        BY <3>2, <1>3
      <4>2. i \in 0 .. m - 1
        BY <3>2, <1>3
      <4>3. g[i] = IF i = 0 THEN << >>
            ELSE IF s[i] \in S THEN Append(g[i - 1], s[i]) ELSE g[i - 1]
        BY <4>2, <1>6 DEF Stepwise
      <4> QED BY <4>1, <4>3
    <3> QED BY <3>1, <3>2, <1>3
  <2> HIDE DEF h
  <2>2. h = [i \in 0 .. m |-> h[i]]
    BY DEF h
  <2> QED BY <2>1, <2>2 DEF Stepwise
<1> QED BY <1>7, <1>3

\* Only is the last value of that function.
LEMMA OnlyIsStepwise ==
    ASSUME NEW s, NEW S, Len(s) \in Nat
    PROVE  \E f : Stepwise(f, s, S, Len(s)) /\ Only(s, S) = f[Len(s)]
<1> DEFINE N == Len(s)
           Rest(g) == [i \in 0 .. N |->
                    IF i = 0 THEN << >>
                    ELSE IF s[i] \in S THEN Append(g[i - 1], s[i]) ELSE g[i - 1]]
           f == CHOOSE g : g = Rest(g)
<1>1. Only(s, S) = f[N]
  BY DEF Only
<1>2. \E g : g = Rest(g)
  <2>1. PICK g : Stepwise(g, s, S, N)
    BY StepwiseExists
  <2>2. g = Rest(g)
    BY <2>1 DEF Stepwise
  <2> QED BY <2>2
<1>3. f = Rest(f)
  <2> HIDE DEF Rest
  <2> QED BY <1>2, Zenon
<1>4. Stepwise(f, s, S, N)
  <2> HIDE DEF f
  <2> QED BY <1>3 DEF Stepwise
<1> QED BY <1>1, <1>4

\* A sequence of the elements at some positions, in order, each position once.
Traces(t, s, S, n, g) ==
    /\ g \in [1 .. Len(t) -> 1 .. n]
    /\ \A k \in 1 .. Len(t) : t[k] = s[g[k]] /\ s[g[k]] \in S
    /\ \A j, k \in 1 .. Len(t) : j < k => g[j] < g[k]
    /\ \A i \in 1 .. n : s[i] \in S => \E k \in 1 .. Len(t) : g[k] = i

\* Only(s, S) has the elements of s that are in S, in their order, each once.
LEMMA OnlyTraces ==
    ASSUME NEW T, NEW s \in Seq(T), NEW S
    PROVE  /\ Only(s, S) \in Seq(T)
           /\ \E g : Traces(Only(s, S), s, S, Len(s), g)
<1> DEFINE N == Len(s)
<1>0. N \in Nat
  OBVIOUS
<1>1. PICK f : Stepwise(f, s, S, N) /\ Only(s, S) = f[N]
  BY <1>0, OnlyIsStepwise
<1> DEFINE Good(n) == f[n] \in Seq(T) /\ \E g : Traces(f[n], s, S, n, g)
           Bad == {n \in 0 .. N : ~ Good(n)}
<1>2. SUFFICES ASSUME Bad # {} PROVE FALSE
  BY <1>0, <1>1
<1>3. PICK m \in Bad : \A n \in Bad : m <= n
  <2> HIDE DEF Bad
  <2>1. Bad \subseteq Nat BY <1>0 DEF Bad
  <2> QED BY <1>2, <2>1, LeastNumber
<1>4. m \in 0 .. N /\ ~ Good(m)
  OBVIOUS
<1>5. m # 0
  <2>1. f[0] = << >>
    BY <1>0, <1>1 DEF Stepwise
  <2>2. Traces(<< >>, s, S, 0, << >>)
    BY DEF Traces
  <2>3. Good(0)
    BY <2>1, <2>2
  <2> QED BY <2>3, <1>4
<1>6. m - 1 \in 0 .. N /\ m \in 1 .. N /\ Good(m - 1)
  <2>1. m - 1 \in 0 .. N /\ m - 1 \notin Bad
    BY <1>0, <1>3, <1>4, <1>5
  <2> QED BY <2>1, <1>0, <1>4, <1>5
<1> DEFINE t == f[m - 1]
<1>7. t \in Seq(T) /\ s[m] \in T
  BY <1>6
<1>8. PICK g : Traces(t, s, S, m - 1, g)
  BY <1>6
<1>9. f[m] = IF s[m] \in S THEN Append(t, s[m]) ELSE t
  <2>1. m \in 0 .. N /\ m # 0
    BY <1>4, <1>5
  <2> QED BY <2>1, <1>1 DEF Stepwise
<1> HIDE DEF t, Good
<1>10. CASE s[m] \notin S
  <2>1. Traces(t, s, S, m, g)
    BY <1>7, <1>8, <1>10, <1>6 DEF Traces
  <2> QED BY <2>1, <1>9, <1>10, <1>7, <1>4 DEF Good
<1>11. CASE s[m] \in S
  <2> DEFINE u == Append(t, s[m])
             h == [k \in 1 .. Len(u) |-> IF k = Len(u) THEN m ELSE g[k]]
  <2>1. /\ u \in Seq(T) /\ Len(u) = Len(t) + 1 /\ u[Len(t) + 1] = s[m]
        /\ \A k \in 1 .. Len(t) : u[k] = t[k]
        /\ Len(t) \in Nat
    BY <1>7
  <2> HIDE DEF u
  <2>2. h \in [1 .. Len(u) -> 1 .. m]
    BY <2>1, <1>8, <1>6 DEF Traces
  <2>3. \A k \in 1 .. Len(u) : u[k] = s[h[k]] /\ s[h[k]] \in S
    <3> TAKE k \in 1 .. Len(u)
    <3>1. CASE k = Len(t) + 1
      BY <3>1, <2>1, <1>11
    <3>2. CASE k # Len(t) + 1
      <4>1. k \in 1 .. Len(t) /\ h[k] = g[k] /\ u[k] = t[k]
        BY <3>2, <2>1
      <4> QED BY <4>1, <1>8 DEF Traces
    <3> QED BY <3>1, <3>2
  <2>4. \A j, k \in 1 .. Len(u) : j < k => h[j] < h[k]
    <3>1. \A j \in 1 .. Len(t) : h[j] = g[j] /\ g[j] \in 1 .. m - 1
      <4>1. \A j \in 1 .. Len(t) : g[j] \in 1 .. m - 1
        BY <1>8 DEF Traces
      <4>2. \A j \in 1 .. Len(t) : h[j] = g[j]
        BY <2>1
      <4> QED BY <4>1, <4>2
    <3>2. h[Len(t) + 1] = m
      BY <2>1
    <3>3. \A j, k \in 1 .. Len(t) : j < k => g[j] < g[k]
      BY <1>8 DEF Traces
    <3> HIDE DEF h
    <3> TAKE j, k \in 1 .. Len(u)
    <3> HAVE j < k
    <3>4. j \in 1 .. Len(t) /\ (k \in 1 .. Len(t) \/ k = Len(t) + 1)
      BY <2>1
    <3>5. CASE k \in 1 .. Len(t)
      BY <3>1, <3>3, <3>4, <3>5
    <3>6. CASE k = Len(t) + 1
      BY <3>1, <3>2, <3>4, <3>6, <1>4
    <3> QED BY <3>4, <3>5, <3>6
  <2>5. \A i \in 1 .. m : s[i] \in S => \E k \in 1 .. Len(u) : h[k] = i
    <3> TAKE i \in 1 .. m
    <3> HAVE s[i] \in S
    <3>1. CASE i = m
      BY <3>1, <2>1
    <3>2. CASE i # m
      <4>1. i \in 1 .. m - 1
        BY <3>2, <1>6
      <4>2. PICK k \in 1 .. Len(t) : g[k] = i
        BY <4>1, <1>8 DEF Traces
      <4> QED BY <4>2, <2>1
    <3> QED BY <3>1, <3>2
  <2>6. Traces(u, s, S, m, h)
    <3> HIDE DEF h
    <3> QED BY <2>2, <2>3, <2>4, <2>5 DEF Traces
  <2>7. f[m] = u
    BY <1>9, <1>11 DEF u
  <2> QED BY <2>1, <2>6, <2>7, <1>4 DEF Good
<1> QED BY <1>10, <1>11

\* When all elements are in the set, Only keeps the sequence.
LEMMA OnlyAll ==
    ASSUME NEW T, NEW s \in Seq(T), NEW S, \A i \in 1 .. Len(s) : s[i] \in S
    PROVE  Only(s, S) = s
<1> DEFINE N == Len(s)
<1>0. N \in Nat
  OBVIOUS
<1>1. PICK f : Stepwise(f, s, S, N) /\ Only(s, S) = f[N]
  BY <1>0, OnlyIsStepwise
<1> DEFINE Good(n) == f[n] \in Seq(T) /\ Len(f[n]) = n /\ \A i \in 1 .. n : f[n][i] = s[i]
           Bad == {n \in 0 .. N : ~ Good(n)}
<1>2. ASSUME Bad # {} PROVE FALSE
  <2>1. PICK m \in Bad : \A n \in Bad : m <= n
    <3> HIDE DEF Bad
    <3>1. Bad \subseteq Nat BY <1>0 DEF Bad
    <3> QED BY <1>2, <3>1, LeastNumber
  <2>2. m \in 0 .. N /\ ~ Good(m)
    OBVIOUS
  <2>3. m # 0
    <3>1. f[0] = << >>
      BY <1>0, <1>1 DEF Stepwise
    <3>2. Good(0)
      BY <3>1
    <3> QED BY <3>2, <2>2
  <2>4. m - 1 \in 0 .. N /\ m \in 1 .. N /\ Good(m - 1)
    <3>1. m - 1 \in 0 .. N /\ m - 1 \notin Bad
      BY <1>0, <2>1, <2>2, <2>3
    <3> QED BY <3>1, <1>0, <2>2, <2>3
  <2>5. f[m] = Append(f[m - 1], s[m])
    <3>1. m \in 0 .. N /\ m # 0 /\ s[m] \in S
      BY <2>2, <2>3, <2>4
    <3> QED BY <3>1, <1>1 DEF Stepwise
  <2> DEFINE t == f[m - 1]
  <2>6. t \in Seq(T) /\ Len(t) = m - 1 /\ s[m] \in T /\ \A i \in 1 .. m - 1 : t[i] = s[i]
    BY <2>4
  <2> HIDE DEF t
  <2>7. /\ Append(t, s[m]) \in Seq(T) /\ Len(Append(t, s[m])) = m
        /\ \A i \in 1 .. m : Append(t, s[m])[i] = s[i]
    BY <2>6, <2>4
  <2>8. Good(m)
    BY <2>5, <2>7 DEF t
  <2> QED BY <2>2, <2>8
<1>3. Good(N)
  BY <1>0, <1>2
<1> DEFINE t == Only(s, S)
<1>4. t \in Seq(T) /\ Len(t) = Len(s) /\ \A i \in 1 .. Len(s) : t[i] = s[i]
  BY <1>1, <1>3
<1> HIDE DEF t
<1>5. t = s
  BY <1>4
<1> QED BY <1>5 DEF t

\* When none is, it leaves nothing.
LEMMA OnlyNone ==
    ASSUME NEW T, NEW s \in Seq(T), NEW S, \A i \in 1 .. Len(s) : s[i] \notin S
    PROVE  Only(s, S) = << >>
<1>1. PICK g : Traces(Only(s, S), s, S, Len(s), g)
  BY OnlyTraces
<1> DEFINE t == Only(s, S)
<1>2. t \in Seq(T)
  BY OnlyTraces
<1> HIDE DEF t
<1>3. Traces(t, s, S, Len(s), g)
  BY <1>1 DEF t
<1>4. ASSUME Len(t) # 0 PROVE FALSE
  <2>1. 1 \in 1 .. Len(t)
    BY <1>2, <1>4
  <2>2. g[1] \in 1 .. Len(s) /\ s[g[1]] \in S
    BY <2>1, <1>3 DEF Traces
  <2> QED BY <2>2
<1>5. t = << >>
  BY <1>2, <1>4
<1> QED BY <1>5 DEF t

\* What Only keeps, without the positions it was at.
LEMMA OnlyKeeps ==
    ASSUME NEW T, NEW s \in Seq(T), NEW S
    PROVE  /\ Only(s, S) \in Seq(T)
           /\ \A k \in 1 .. Len(Only(s, S)) :
                \E i \in 1 .. Len(s) : Only(s, S)[k] = s[i] /\ s[i] \in S
           /\ \A i \in 1 .. Len(s) : s[i] \in S =>
                \E k \in 1 .. Len(Only(s, S)) : Only(s, S)[k] = s[i]
<1>1. PICK g : Traces(Only(s, S), s, S, Len(s), g)
  BY OnlyTraces
<1> DEFINE t == Only(s, S)
<1> HIDE DEF t
<1>2. Traces(t, s, S, Len(s), g) /\ t \in Seq(T)
  BY <1>1, OnlyTraces DEF t
<1>3. \A k \in 1 .. Len(t) : \E i \in 1 .. Len(s) : t[k] = s[i] /\ s[i] \in S
  BY <1>2 DEF Traces
<1>4. \A i \in 1 .. Len(s) : s[i] \in S => \E k \in 1 .. Len(t) : t[k] = s[i]
  BY <1>2 DEF Traces
<1> QED BY <1>2, <1>3, <1>4 DEF t

\* A sequence without repetitions has none after Only, whatever tells elements apart.
LEMMA OnlyDistinct ==
    ASSUME NEW T, NEW s \in Seq(T), NEW S, NEW key,
           \A i, j \in 1 .. Len(s) : key[s[i]] = key[s[j]] => i = j
    PROVE  \A i, j \in 1 .. Len(Only(s, S)) : key[Only(s, S)[i]] = key[Only(s, S)[j]] => i = j
<1>1. PICK g : Traces(Only(s, S), s, S, Len(s), g)
  BY OnlyTraces
<1> DEFINE t == Only(s, S)
<1>2. t \in Seq(T)
  BY OnlyTraces
<1> HIDE DEF t
<1>3. Traces(t, s, S, Len(s), g)
  BY <1>1 DEF t
<1>4. \A i, j \in 1 .. Len(t) : key[t[i]] = key[t[j]] => i = j
  <2> TAKE i, j \in 1 .. Len(t)
  <2> HAVE key[t[i]] = key[t[j]]
  <2>1. g[i] \in 1 .. Len(s) /\ g[j] \in 1 .. Len(s) /\ t[i] = s[g[i]] /\ t[j] = s[g[j]]
    BY <1>3 DEF Traces
  <2>2. g[i] = g[j]
    BY <2>1
  <2>3. ~(i < j) /\ ~(j < i)
    BY <1>3, <2>1, <2>2 DEF Traces
  <2>4. i \in Int /\ j \in Int
    OBVIOUS
  <2> QED BY <2>3, <2>4
<1> QED BY <1>4 DEF t
=============================================================================
