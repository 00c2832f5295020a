-------------------------- MODULE SchedulingProofs --------------------------
(***************************************************************************)
(* Proofs about Scheduling, for any endpoints, addresses, domains, TTL and *)
(* bound: the type invariant, that what PickProxy remembers of a domain is *)
(* what it should, and that GetProxy goes round.                           *)
(***************************************************************************)
EXTENDS Scheduling, SelectionProofs, FunctionTheorems, FiniteSetTheorems,
        SequenceTheorems, TLAPS

-----------------------------------------------------------------------------
(* The inductive invariant *)

\* The list names no endpoint twice.
Distinct(list) == \A i, j \in 1 .. Len(list) : list[i].e = list[j].e => i = j

\* The picks of a domain against the time since each address served it: no pick is
\* younger than that time, and a time within the window is the age of a pick.
PicksAre(picks, seconds) ==
    /\ \A k \in 1 .. Len(picks) : picks[k].age >= seconds[IpOf[picks[k].e]]
    /\ \A ip \in IP : seconds[ip] < Window =>
         \E k \in 1 .. Len(picks) : IpOf[picks[k].e] = ip /\ picks[k].age = seconds[ip]

\* The circuits of a domain against what was promised.
CircuitsAre(failures, seconds) ==
    /\ DOMAIN failures \subseteq Endpoint
    /\ \A e \in Endpoint : seconds[e] = IF e \in DOMAIN failures THEN failures[e] ELSE 0

\* The position so many results before the last one, which was at position last of n.
Place(back, last, n) == IF last - back >= 1 THEN last - back ELSE last - back + n

Typed ==
    /\ pl \in Seq(Entries) /\ Distinct(pl)
    /\ getProxyIndex \in 0 .. Cardinality(Endpoint)
    /\ dl \in [Domain -> Seq(Picks)]
    /\ DOMAIN targetFailures = Domain
    /\ since \in [Domain -> [IP -> 0 .. Window]]
    /\ circuit \in [Domain -> [Endpoint -> 0 .. TTL]]
    /\ lap \in Seq(Endpoint)

Remembered == \A d \in Domain : PicksAre(dl[d], since[d])

Circuits == \A d \in Domain : CircuitsAre(targetFailures[d], circuit[d])

Rotation ==
    \/ lap = << >>
    \/ /\ getProxyIndex \in 1 .. Len(pl) /\ Len(lap) <= Len(pl)
       /\ \A k \in 1 .. Len(lap) : lap[k] = pl[Place(Len(lap) - k, getProxyIndex, Len(pl))].e

SchedulingInv == Typed /\ Remembered /\ Circuits /\ Rotation

-----------------------------------------------------------------------------
(* Lemmas *)

\* Counting the endpoints of a list tells whether it repeats one.
LEMMA DistinctIsCardinality ==
    ASSUME NEW list \in Seq(Entries)
    PROVE  LET named == {list[i].e : i \in 1 .. Len(list)}
           IN  /\ (Cardinality(named) = Len(list)) <=> Distinct(list)
               /\ Cardinality(named) <= Cardinality(Endpoint)
<1> DEFINE n == Len(list)
           named == {list[i].e : i \in 1 .. n}
           f == [i \in 1 .. n |-> list[i].e]
<1>1. n \in Nat
  OBVIOUS
<1>2. f \in Surjection(1 .. n, named)
  <2>1. f \in [1 .. n -> named]
    OBVIOUS
  <2>2. \A t \in named : \E i \in 1 .. n : f[i] = t
    OBVIOUS
  <2> HIDE DEF f, named, n
  <2> QED
    BY <2>1, <2>2 DEF Surjection
<1>3. IsFiniteSet(1 .. n) /\ Cardinality(1 .. n) = n
  <2> HIDE DEF n
  <2>1. /\ IsFiniteSet(1 .. n)
        /\ Cardinality(1 .. n) = IF 1 > n THEN 0 ELSE n - 1 + 1
    BY <1>1, FS_Interval
  <2> QED
    BY <1>1, <2>1
<1>4. (Cardinality(named) = n) <=> f \in Injection(1 .. n, named)
  <2> HIDE DEF f, named, n
  <2> QED BY <1>2, <1>3, FS_Surjection
<1>5. f \in Injection(1 .. n, named) <=> Distinct(list)
  <2>1. f \in [1 .. n -> named]
    BY <1>2 DEF Surjection
  <2>2. (\A i, j \in 1 .. n : f[i] = f[j] => i = j) <=> Distinct(list)
    BY DEF Distinct
  <2> HIDE DEF f, named
  <2> QED BY <2>1, <2>2 DEF Injection, IsInjective
<1>6. named \in SUBSET Endpoint
  <2>1. \A i \in 1 .. n : list[i] \in Entries
    OBVIOUS
  <2>2. \A x \in Entries : x.e \in Endpoint
    BY DEF Entries
  <2> QED BY <2>1, <2>2
<1>7. Cardinality(named) <= Cardinality(Endpoint)
  BY <1>6, FS_Subset, SchedulingAssumption
<1> QED BY <1>4, <1>5, <1>7

\* What is left of a list without repetitions has none.
LEMMA WithoutIsDistinct ==
    ASSUME pl \in Seq(Entries), Distinct(pl), NEW gone
    PROVE  /\ Without(gone) \in Seq(Entries)
           /\ Distinct(Without(gone))
           /\ \A i \in 1 .. Len(Without(gone)) : Without(gone)[i].e \notin gone
<1> DEFINE S == {x \in Entries : x.e \notin gone}
           key == [x \in Entries |-> x.e]
           rest == Without(gone)
<1>1. rest = Only(pl, S)
  BY DEF Without
<1>2. rest \in Seq(Entries)
  BY <1>1, OnlyKeeps
<1>3. \A i, j \in 1 .. Len(pl) : key[pl[i]] = key[pl[j]] => i = j
  BY DEF Distinct
<1>4. \A i, j \in 1 .. Len(rest) : key[rest[i]] = key[rest[j]] => i = j
  <2> HIDE DEF key, S, rest
  <2> QED BY <1>1, <1>3, OnlyDistinct
<1>5. Distinct(rest)
  <2>1. \A i \in 1 .. Len(rest) : rest[i] \in Entries
    BY <1>2
  <2>2. \A i \in 1 .. Len(rest) : key[rest[i]] = rest[i].e
    BY <2>1
  <2> HIDE DEF key, rest
  <2> QED BY <1>4, <2>2 DEF Distinct
<1>6. \A i \in 1 .. Len(rest) : rest[i] \in S
  <2> HIDE DEF S, rest
  <2> QED BY <1>1, OnlyKeeps
<1>7. \A i \in 1 .. Len(rest) : rest[i].e \notin gone
  <2> HIDE DEF rest
  <2> QED BY <1>6
<1> QED BY <1>2, <1>5, <1>7

\* q has picks of p only, and all that count.
Keeps(p, q) ==
    /\ q \in Seq(Picks)
    /\ \A k \in 1 .. Len(q) : \E i \in 1 .. Len(p) : q[k] = p[i]
    /\ \A i \in 1 .. Len(p) : p[i].age < Window => \E k \in 1 .. Len(q) : q[k] = p[i]

LEMMA RecentKeeps ==
    ASSUME NEW d \in Domain, dl[d] \in Seq(Picks)
    PROVE  /\ Keeps(dl[d], Recent(d))
           /\ \A k \in 1 .. Len(Recent(d)) : Recent(d)[k].age < Window
<1> DEFINE p == dl[d]
           q == Only(p, Young)
<1>1. Recent(d) = q
  BY DEF Recent
<1>2. p \in Seq(Picks) /\ \A i \in 1 .. Len(p) : p[i] \in Picks
  OBVIOUS
<1> HIDE DEF p
<1>3. /\ q \in Seq(Picks)
      /\ \A k \in 1 .. Len(q) : \E i \in 1 .. Len(p) : q[k] = p[i] /\ p[i] \in Young
      /\ \A i \in 1 .. Len(p) : p[i] \in Young => \E k \in 1 .. Len(q) : q[k] = p[i]
  <2>1. p \in Seq(Picks)
    BY <1>2
  <2> QED BY <2>1, OnlyKeeps
<1> HIDE DEF q
<1>4. \A i \in 1 .. Len(p) : p[i].age < Window <=> p[i] \in Young
  BY <1>2 DEF Young
<1>5. Keeps(p, q)
  BY <1>3, <1>4 DEF Keeps
<1>6. \A k \in 1 .. Len(q) : q[k].age < Window
  BY <1>3, <1>4
<1> QED BY <1>1, <1>5, <1>6 DEF p

\* gc may leave copies of the last pick behind, but no pick that was not there.
LEMMA CollectedKeeps ==
    ASSUME NEW p \in Seq(Picks)
    PROVE  Keeps(p, Collected(p))
<1> DEFINE kept == Only(p, Fresh)
           copies == Cardinality(Stale(p)) - 1
           again == [i \in 1 .. copies |-> p[Len(p)]]
<1>1. Stale(p) \in SUBSET (1 .. Len(p)) /\ Len(p) \in Nat
  BY DEF Stale
<1>2. IsFiniteSet(Stale(p)) /\ copies \in Int
  <2>1. IsFiniteSet(1 .. Len(p))
    BY <1>1, FS_Interval
  <2>2. IsFiniteSet(Stale(p))
    BY <1>1, <2>1, FS_Subset
  <2> QED BY <2>2, FS_CardinalityType
<1>3. /\ kept \in Seq(Picks)
      /\ \A k \in 1 .. Len(kept) : \E i \in 1 .. Len(p) : kept[k] = p[i]
      /\ \A i \in 1 .. Len(p) : p[i] \in Fresh => \E k \in 1 .. Len(kept) : kept[k] = p[i]
  BY OnlyKeeps
<1>4. \A i \in 1 .. Len(p) : p[i].age < Window => p[i] \in Fresh
  <2> TAKE i \in 1 .. Len(p)
  <2>1. p[i] \in Picks
    OBVIOUS
  <2>2. p[i].age < Window => p[i].age <= Kept
    <3>1. p[i].age \in 0 .. Kept + 1
      BY <2>1 DEF Picks
    <3> DEFINE a == p[i].age
    <3> HIDE DEF a
    <3>2. a \in 0 .. 4
      BY <3>1 DEF Kept, a
    <3>3. a < 3 => a <= 3
      BY <3>2
    <3> QED BY <3>3 DEF a, Window, Kept
  <2> QED BY <2>1, <2>2 DEF Fresh
<1>5. CASE copies < 0
  <2>1. Collected(p) = p
    BY <1>5 DEF Collected
  <2> QED BY <2>1 DEF Keeps
<1>6. CASE copies >= 0
  <2>1. Collected(p) = kept \o again
    BY <1>6, <1>2 DEF Collected
  <2>2. Len(p) \in 1 .. Len(p) /\ p[Len(p)] \in Picks
    <3>1. Stale(p) # {}
      BY <1>2, <1>6, FS_EmptySet
    <3> QED BY <1>1, <3>1
  <2>3. again \in Seq(Picks) /\ Len(again) = copies
    BY <2>2, <1>2, <1>6
  <2>4. \A k \in 1 .. Len(again) : again[k] = p[Len(p)]
    BY <2>3
  <2> HIDE DEF kept, again, copies
  <2> DEFINE q == kept \o again
  <2>5. /\ q \in Seq(Picks) /\ Len(q) = Len(kept) + Len(again)
        /\ \A k \in 1 .. Len(kept) : q[k] = kept[k]
        /\ \A k \in Len(kept) + 1 .. Len(q) : q[k] = again[k - Len(kept)]
        /\ Len(kept) \in Nat /\ Len(again) \in Nat
    <3>1. kept \in Seq(Picks) /\ again \in Seq(Picks)
      BY <1>3, <2>3
    <3> QED BY <3>1
  <2> HIDE DEF q
  <2>6. \A k \in 1 .. Len(q) : \E i \in 1 .. Len(p) : q[k] = p[i]
    <3> TAKE k \in 1 .. Len(q)
    <3>1. CASE k <= Len(kept)
      <4>1. k \in 1 .. Len(kept)
        BY <3>1, <2>5
      <4>2. q[k] = kept[k]
        BY <4>1, <2>5
      <4> QED BY <4>1, <4>2, <1>3
    <3>2. CASE k > Len(kept)
      <4>1. k \in Len(kept) + 1 .. Len(q) /\ k - Len(kept) \in 1 .. Len(again)
        BY <3>2, <2>5
      <4>2. q[k] = p[Len(p)]
        BY <4>1, <2>5, <2>4
      <4> QED BY <4>2, <2>2
    <3> QED BY <3>1, <3>2, <2>5
  <2>7. \A i \in 1 .. Len(p) : p[i].age < Window => \E k \in 1 .. Len(q) : q[k] = p[i]
    <3> TAKE i \in 1 .. Len(p)
    <3> HAVE p[i].age < Window
    <3>1. PICK k \in 1 .. Len(kept) : kept[k] = p[i]
      BY <1>3, <1>4
    <3>2. k \in 1 .. Len(q) /\ q[k] = p[i]
      BY <3>1, <2>5
    <3> QED BY <3>2
  <2> QED BY <2>1, <2>5, <2>6, <2>7 DEF Keeps, q
<1> QED BY <1>2, <1>5, <1>6

\* Forgetting picks that count no more changes nothing for a domain.
LEMMA Forgetting ==
    ASSUME NEW p \in Seq(Picks), NEW q, NEW s \in [IP -> 0 .. Window],
           PicksAre(p, s), Keeps(p, q)
    PROVE  PicksAre(q, s)
<1>1. \A k \in 1 .. Len(q) : q[k].age >= s[IpOf[q[k].e]]
  <2> TAKE k \in 1 .. Len(q)
  <2>1. PICK i \in 1 .. Len(p) : q[k] = p[i]
    BY DEF Keeps
  <2> QED BY <2>1 DEF PicksAre
<1>2. \A ip \in IP : s[ip] < Window =>
        \E k \in 1 .. Len(q) : IpOf[q[k].e] = ip /\ q[k].age = s[ip]
  <2> TAKE ip \in IP
  <2> HAVE s[ip] < Window
  <2>1. PICK i \in 1 .. Len(p) : IpOf[p[i].e] = ip /\ p[i].age = s[ip]
    BY DEF PicksAre
  <2>2. PICK k \in 1 .. Len(q) : q[k] = p[i]
    BY <2>1 DEF Keeps
  <2> QED BY <2>1, <2>2
<1> QED BY <1>1, <1>2 DEF PicksAre

\* A pick is the last of its domain, and its address has just served the domain.
LEMMA Picking ==
    ASSUME NEW q \in Seq(Picks), NEW s \in [IP -> 0 .. Window], NEW e \in Endpoint,
           PicksAre(q, s)
    PROVE  /\ Append(q, [e |-> e, age |-> 0]) \in Seq(Picks)
           /\ PicksAre(Append(q, [e |-> e, age |-> 0]), [s EXCEPT ![IpOf[e]] = 0])
<1> DEFINE new == [e |-> e, age |-> 0]
           r == Append(q, new)
           z == [s EXCEPT ![IpOf[e]] = 0]
<1>1. new \in Picks /\ IpOf[e] \in IP
  BY SchedulingAssumption DEF Picks, Kept
<1>2. /\ r \in Seq(Picks) /\ Len(r) = Len(q) + 1 /\ r[Len(q) + 1] = new
      /\ \A k \in 1 .. Len(q) : r[k] = q[k]
      /\ Len(q) \in Nat
  BY <1>1
<1>3. z[IpOf[e]] = 0 /\ \A ip \in IP : ip # IpOf[e] => z[ip] = s[ip]
  BY <1>1
<1>4. new.e = e /\ new.age = 0
  OBVIOUS
<1> HIDE DEF r, z, new
<1>5. \A k \in 1 .. Len(r) : r[k].age >= z[IpOf[r[k].e]]
  <2> TAKE k \in 1 .. Len(r)
  <2>1. CASE k = Len(q) + 1
    BY <2>1, <1>2, <1>3, <1>4
  <2>2. CASE k # Len(q) + 1
    <3>1. k \in 1 .. Len(q) /\ r[k] = q[k] /\ q[k] \in Picks
      BY <2>2, <1>2
    <3>2. q[k].age >= s[IpOf[q[k].e]]
      BY <3>1 DEF PicksAre
    <3>3. IpOf[q[k].e] \in IP /\ q[k].age \in 0 .. Kept + 1
      BY <3>1, SchedulingAssumption DEF Picks
    <3>4. q[k].age >= 0
      BY <3>3 DEF Kept
    <3>5. CASE IpOf[q[k].e] = IpOf[e]
      BY <3>1, <3>4, <3>5, <1>3
    <3>6. CASE IpOf[q[k].e] # IpOf[e]
      BY <3>1, <3>2, <3>3, <3>6, <1>3
    <3> QED BY <3>5, <3>6
  <2> QED BY <2>1, <2>2
<1>6. \A ip \in IP : z[ip] < Window =>
        \E k \in 1 .. Len(r) : IpOf[r[k].e] = ip /\ r[k].age = z[ip]
  <2> TAKE ip \in IP
  <2> HAVE z[ip] < Window
  <2>1. CASE ip = IpOf[e]
    <3>1. Len(q) + 1 \in 1 .. Len(r)
      BY <1>2
    <3> QED BY <2>1, <3>1, <1>2, <1>3, <1>4
  <2>2. CASE ip # IpOf[e]
    <3>1. PICK k \in 1 .. Len(q) : IpOf[q[k].e] = ip /\ q[k].age = s[ip]
      BY <2>2, <1>3 DEF PicksAre
    <3>2. k \in 1 .. Len(r) /\ r[k] = q[k]
      BY <3>1, <1>2
    <3> QED BY <2>2, <3>1, <3>2, <1>3
  <2> QED BY <2>1, <2>2
<1> QED BY <1>2, <1>5, <1>6 DEF PicksAre, r, z, new

\* A second passes for both.
LEMMA Ageing ==
    ASSUME NEW p \in Seq(Picks), NEW s \in [IP -> 0 .. Window], PicksAre(p, s)
    PROVE  LET q == [i \in 1 .. Len(p) |-> [p[i] EXCEPT !.age = Up(@, Kept + 1)]]
               z == [ip \in IP |-> Up(s[ip], Window)]
           IN  q \in Seq(Picks) /\ z \in [IP -> 0 .. Window] /\ PicksAre(q, z)
<1> DEFINE q == [i \in 1 .. Len(p) |-> [p[i] EXCEPT !.age = Up(@, Kept + 1)]]
           z == [ip \in IP |-> Up(s[ip], Window)]
<1>1. \A n \in 0 .. 4 : Up(n, Kept + 1) \in 0 .. 4 /\ (n < 3 => Up(n, Kept + 1) = n + 1)
                        /\ (n >= 3 => Up(n, Kept + 1) >= 3)
  BY DEF Up, Kept
<1>2. \A n \in 0 .. 3 : Up(n, Window) \in 0 .. 3 /\ (n < 3 => Up(n, Window) = n + 1)
                        /\ (n = 3 => Up(n, Window) = 3)
  BY DEF Up, Window
<1>3. \A i \in 1 .. Len(p) : p[i] \in Picks /\ p[i].e \in Endpoint /\ p[i].age \in 0 .. 4
                            /\ IpOf[p[i].e] \in IP
  <2> TAKE i \in 1 .. Len(p)
  <2>1. p[i] \in Picks
    OBVIOUS
  <2> QED BY <2>1, SchedulingAssumption DEF Picks, Kept
<1>4. \A i \in 1 .. Len(p) : q[i] = [e |-> p[i].e, age |-> Up(p[i].age, Kept + 1)]
  <2> TAKE i \in 1 .. Len(p)
  <2>1. p[i] \in Picks
    OBVIOUS
  <2>2. p[i] = [e |-> p[i].e, age |-> p[i].age]
    BY <2>1 DEF Picks
  <2>3. q[i] = [p[i] EXCEPT !.age = Up(p[i].age, Kept + 1)]
    OBVIOUS
  <2> QED BY <2>2, <2>3
<1>5. q \in Seq(Picks) /\ Len(q) = Len(p)
  <2>1. \A i \in 1 .. Len(p) : q[i] \in Picks
    <3> TAKE i \in 1 .. Len(p)
    <3>1. Up(p[i].age, Kept + 1) \in 0 .. Kept + 1
      BY <1>1, <1>3 DEF Kept
    <3> QED BY <1>3, <1>4, <3>1 DEF Picks
  <2>2. Len(p) \in Nat
    OBVIOUS
  <2>3. q = [i \in 1 .. Len(p) |-> q[i]]
    OBVIOUS
  <2> HIDE DEF q
  <2> QED BY <2>1, <2>2, <2>3
<1>6. \A ip \in IP : z[ip] = Up(s[ip], Window) /\ s[ip] \in 0 .. 3
  BY DEF Window
<1>7. z \in [IP -> 0 .. Window]
  <2>1. \A ip \in IP : z[ip] \in 0 .. Window
    BY <1>2, <1>6 DEF Window
  <2> QED BY <2>1
<1>8. \A i \in 1 .. Len(p) : q[i].e = p[i].e /\ q[i].age = Up(p[i].age, Kept + 1)
  BY <1>4
<1> HIDE DEF q, z
<1>9. \A k \in 1 .. Len(q) : q[k].age >= z[IpOf[q[k].e]]
  <2> TAKE k \in 1 .. Len(q)
  <2>1. k \in 1 .. Len(p)
    BY <1>5
  <2>2. PICK a \in 0 .. 4 : a = p[k].age
    BY <2>1, <1>3
  <2>3. PICK ip \in IP : ip = IpOf[p[k].e]
    BY <2>1, <1>3
  <2>4. PICK b \in 0 .. 3 : b = s[ip]
    BY <1>6
  <2>5. a >= b
    BY <2>1, <2>2, <2>3, <2>4 DEF PicksAre
  <2>6. Up(a, Kept + 1) >= Up(b, Window)
    <3> DEFINE ua == Up(a, Kept + 1)
               ub == Up(b, Window)
    <3>1. ua \in 0 .. 4 /\ ub \in 0 .. 3 /\ (a < 3 => ua = a + 1) /\ (a >= 3 => ua >= 3)
          /\ (b < 3 => ub = b + 1) /\ (b = 3 => ub = 3)
      BY <1>1, <1>2
    <3> HIDE DEF ua, ub
    <3>2. ua >= ub
      BY <3>1, <2>5
    <3> QED BY <3>2 DEF ua, ub
  <2> QED BY <2>1, <2>2, <2>3, <2>4, <2>6, <1>6, <1>8
<1>10. \A ip \in IP : z[ip] < Window =>
        \E k \in 1 .. Len(q) : IpOf[q[k].e] = ip /\ q[k].age = z[ip]
  <2> TAKE ip \in IP
  <2> HAVE z[ip] < Window
  <2>1. PICK b \in 0 .. 3 : b = s[ip]
    BY <1>6
  <2>2. b < 3 /\ z[ip] = b + 1
    <3>1. b = 3 => Up(b, Window) = 3
      BY <1>2
    <3>2. b # 3
      BY <3>1, <2>1, <1>6 DEF Window
    <3> QED BY <3>2, <2>1, <1>2, <1>6
  <2>3. PICK k \in 1 .. Len(p) : IpOf[p[k].e] = ip /\ p[k].age = b
    BY <2>1, <2>2 DEF PicksAre, Window
  <2>4. Up(b, Kept + 1) = b + 1
    BY <1>1, <2>2
  <2> QED BY <2>2, <2>3, <2>4, <1>5, <1>8
<1> QED BY <1>5, <1>7, <1>9, <1>10 DEF PicksAre, q, z

\* The circuits that are over are as good as none.
LEMMA Opening ==
    ASSUME NEW f, NEW s \in [Endpoint -> 0 .. TTL], CircuitsAre(f, s)
    PROVE  CircuitsAre(Open(f), s)
<1>1. DOMAIN Open(f) = {x \in DOMAIN f : f[x] > 0}
  BY DEF Open
<1>2. \A e \in DOMAIN Open(f) : Open(f)[e] = f[e]
  BY DEF Open
<1>3. \A e \in Endpoint : s[e] = IF e \in DOMAIN Open(f) THEN Open(f)[e] ELSE 0
  <2> TAKE e \in Endpoint
  <2>1. s[e] \in Nat
    BY SchedulingAssumption
  <2>2. s[e] = IF e \in DOMAIN f THEN f[e] ELSE 0
    BY DEF CircuitsAre
  <2> QED BY <2>1, <2>2, <1>1, <1>2
<1> QED BY <1>1, <1>3 DEF CircuitsAre

\* One result more is one position further.
LEMMA TurnOn ==
    ASSUME NEW n \in Nat \ {0}, NEW last \in 1 .. n, NEW back \in 0 .. n - 1
    PROVE  LET next == IF last >= n THEN 0 ELSE last
           IN  /\ Place(back + 1, next + 1, n) = Place(back, last, n)
               /\ Place(0, next + 1, n) = next + 1
BY DEF Place

\* Within a round every position comes once.
LEMMA PlacesDiffer ==
    ASSUME NEW n \in Nat \ {0}, NEW last \in 1 .. n, NEW i \in 0 .. n - 1, NEW j \in 0 .. n - 1
    PROVE  /\ Place(i, last, n) \in 1 .. n
           /\ Place(i, last, n) = Place(j, last, n) => i = j
BY DEF Place

\* The stable sort by use has a first element.
LEMMA LeastUsedIsOne ==
    ASSUME pl \in Seq(Entries), NEW S, S \subseteq 1 .. Len(pl), S # {}
    PROVE  LeastUsed(S) \in S
<1> DEFINE Uses == {pl[i].n : i \in S}
<1>1. Uses \subseteq Nat /\ Uses # {}
  <2>1. \A i \in S : pl[i] \in Entries
    OBVIOUS
  <2>2. \A x \in Entries : x.n \in Nat
    BY SchedulingAssumption DEF Entries
  <2> QED BY <2>1, <2>2
<1>2. PICK m \in Uses : \A n \in Uses : m <= n
  <2> HIDE DEF Uses
  <2> QED BY <1>1, LeastNumber
<1> DEFINE First == {i \in S : pl[i].n = m}
<1>3. First \subseteq Nat /\ First # {}
  <2>1. PICK i \in S : pl[i].n = m
    OBVIOUS
  <2>2. i \in First
    BY <2>1
  <2>3. S \subseteq Nat
    OBVIOUS
  <2> QED BY <2>2, <2>3
<1>4. PICK f \in First : \A i \in First : f <= i
  <2> HIDE DEF First
  <2> QED BY <1>3, LeastNumber
<1>5. \A j \in S : pl[f].n < pl[j].n \/ (pl[f].n = pl[j].n /\ f <= j)
  <2> TAKE j \in S
  <2>1. pl[f].n = m /\ pl[j].n \in Uses /\ m \in Nat /\ pl[j].n \in Nat
    BY <1>1
  <2>2. m <= pl[j].n
    BY <2>1, <1>2
  <2>3. CASE pl[j].n = m
    <3>1. j \in First
      BY <2>3
    <3> QED BY <3>1, <1>4, <2>1, <2>3
  <2>4. CASE pl[j].n # m
    BY <2>1, <2>2, <2>4
  <2> QED BY <2>3, <2>4
<1>6. f \in S
  OBVIOUS
<1> QED BY <1>5, <1>6, Zenon DEF LeastUsed

-----------------------------------------------------------------------------
(* The inductive invariant holds initially and every action preserves it.  *)

LEMMA InitHolds == Init => SchedulingInv
<1> SUFFICES ASSUME Init PROVE SchedulingInv
  OBVIOUS
<1>1. pl \in Seq(Entries)
  <2>1. PICK k \in 0 .. Cardinality(Endpoint) : pl \in [1 .. k -> {x \in Entries : x.n = 0}]
    BY DEF Init
  <2>2. k \in Nat /\ pl \in [1 .. k -> Entries]
    BY <2>1
  <2> QED BY <2>2
<1>2. Distinct(pl)
  BY <1>1, DistinctIsCardinality DEF Init, Pool
<1>3. 0 \in 0 .. Cardinality(Endpoint)
  BY FS_CardinalityType, SchedulingAssumption
<1>4. Typed
  <2>1. dl \in [Domain -> Seq(Picks)] /\ DOMAIN targetFailures = Domain /\ lap \in Seq(Endpoint)
    BY DEF Init
  <2>2. since \in [Domain -> [IP -> 0 .. Window]]
    BY DEF Init, Window
  <2>3. circuit \in [Domain -> [Endpoint -> 0 .. TTL]]
    BY SchedulingAssumption DEF Init
  <2> QED BY <1>1, <1>2, <1>3, <2>1, <2>2, <2>3 DEF Typed, Init
<1>5. Remembered
  BY DEF Init, Remembered, PicksAre, Window
<1>6. Circuits
  <2> SUFFICES ASSUME NEW d \in Domain PROVE CircuitsAre(targetFailures[d], circuit[d])
    BY DEF Circuits
  <2>1. targetFailures[d] = << >> /\ DOMAIN << >> = {} /\ \A e \in Endpoint : circuit[d][e] = 0
    BY DEF Init
  <2> QED BY <2>1 DEF CircuitsAre
<1>7. Rotation
  BY DEF Init, Rotation
<1> QED BY <1>4, <1>5, <1>6, <1>7 DEF SchedulingInv

\* What a step does not touch stays as it was.
LEMMA DomainsStay ==
    Remembered /\ Circuits /\ UNCHANGED <<domains, promises>> => Remembered' /\ Circuits'
BY DEF Remembered, Circuits, domains, promises

LEMMA GetProxyHolds == SchedulingInv /\ GetProxy => SchedulingInv'
<1> SUFFICES ASSUME SchedulingInv, GetProxy PROVE SchedulingInv'
  OBVIOUS
<1> DEFINE n == Len(pl)
           next == IF getProxyIndex >= n THEN 0 ELSE getProxyIndex
           x == pl[next + 1].e
           longer == Append(lap, x)
<1>1. /\ pl # << >> /\ getProxyIndex' = next + 1
      /\ lap' = IF Len(longer) > n THEN Tail(longer) ELSE longer
      /\ UNCHANGED <<pl, domains, promises>>
  BY DEF GetProxy
<1>2. n \in Nat \ {0} /\ getProxyIndex \in Nat /\ pl \in Seq(Entries)
  <2>1. pl \in Seq(Entries) /\ pl # << >>
    BY <1>1 DEF SchedulingInv, Typed
  <2>2. getProxyIndex \in Nat
    BY FS_CardinalityType, SchedulingAssumption DEF SchedulingInv, Typed
  <2> QED BY <2>1, <2>2
<1>3. next + 1 \in 1 .. n
  BY <1>2
<1>4. n <= Cardinality(Endpoint) /\ Cardinality(Endpoint) \in Nat
  BY <1>2, DistinctIsCardinality, FS_CardinalityType, SchedulingAssumption
     DEF SchedulingInv, Typed
<1>5. x \in Endpoint
  <2>1. pl[next + 1] \in Entries
    BY <1>2, <1>3
  <2> QED BY <2>1 DEF Entries
<1>6. /\ lap \in Seq(Endpoint) /\ longer \in Seq(Endpoint) /\ Len(longer) = Len(lap) + 1
      /\ longer[Len(lap) + 1] = x
      /\ \A k \in 1 .. Len(lap) : longer[k] = lap[k]
      /\ Len(lap) \in Nat
  <2>1. lap \in Seq(Endpoint)
    BY DEF SchedulingInv, Typed
  <2> HIDE DEF x
  <2> QED BY <2>1, <1>5
<1> HIDE DEF longer
<1>7. /\ Tail(longer) \in Seq(Endpoint) /\ Len(Tail(longer)) = Len(lap)
      /\ \A k \in 1 .. Len(lap) : Tail(longer)[k] = longer[k + 1]
  BY <1>6
<1>8. Typed'
  <2>1. lap' \in Seq(Endpoint)
    BY <1>1, <1>6, <1>7
  <2>2. getProxyIndex' \in 0 .. Cardinality(Endpoint)
    BY <1>1, <1>3, <1>4
  <2> QED BY <2>1, <2>2, <1>1 DEF SchedulingInv, Typed, domains, promises
<1>9. Remembered' /\ Circuits'
  BY <1>1, DomainsStay DEF SchedulingInv
<1>10. Place(0, next + 1, n) = next + 1
  BY <1>3, <1>2 DEF Place
<1>11. Rotation'
  <2>1. CASE lap = << >>
    <3>1. Len(lap) = 0 /\ lap' = longer /\ Len(lap') = 1
      BY <2>1, <1>1, <1>2, <1>6
    <3>2. lap'[1] = x
      BY <3>1, <1>6
    <3>3. \A k \in 1 .. Len(lap') : k = 1 /\ Len(lap') - k = 0
      BY <3>1
    <3> HIDE DEF next
    <3> QED BY <3>1, <3>2, <3>3, <1>1, <1>2, <1>3, <1>10 DEF Rotation
  <2>2. CASE lap # << >>
    <3>1. /\ getProxyIndex \in 1 .. n /\ Len(lap) <= n
          /\ \A k \in 1 .. Len(lap) : lap[k] = pl[Place(Len(lap) - k, getProxyIndex, n)].e
      BY <2>2 DEF SchedulingInv, Rotation
    <3>2. \A back \in 0 .. n - 1 :
             Place(back + 1, next + 1, n) = Place(back, getProxyIndex, n)
      BY <1>2, <3>1, TurnOn
    <3> HIDE DEF n, next
    <3>3. CASE Len(lap) < n
      <4>1. lap' = longer /\ Len(lap') = Len(lap) + 1 /\ Len(lap') <= n
        BY <3>3, <1>1, <1>2, <1>6
      <4>2. \A k \in 1 .. Len(lap') : lap'[k] = pl[Place(Len(lap') - k, next + 1, n)].e
        <5> TAKE k \in 1 .. Len(lap')
        <5>1. CASE k = Len(lap) + 1
          <6>1. Len(lap') - k = 0
            BY <4>1, <5>1, <1>6
          <6> QED BY <6>1, <4>1, <5>1, <1>6, <1>10
        <5>2. CASE k # Len(lap) + 1
          <6>1. /\ k \in 1 .. Len(lap) /\ Len(lap) - k \in 0 .. n - 1
                /\ Len(lap') - k = (Len(lap) - k) + 1
            BY <5>2, <4>1, <3>3, <1>2, <1>6
          <6>2. lap'[k] = pl[Place(Len(lap) - k, getProxyIndex, n)].e
            BY <6>1, <4>1, <3>1, <1>6
          <6>3. Place(Len(lap') - k, next + 1, n) = Place(Len(lap) - k, getProxyIndex, n)
            BY <6>1, <3>2
          <6> QED BY <6>2, <6>3
        <5> QED BY <5>1, <5>2
      <4> QED BY <4>1, <4>2, <1>1, <1>3 DEF Rotation, n
    <3>4. CASE Len(lap) = n
      <4>1. lap' = Tail(longer) /\ Len(lap') = n
        BY <3>4, <1>1, <1>2, <1>6, <1>7
      <4>2. \A k \in 1 .. Len(lap') : lap'[k] = pl[Place(Len(lap') - k, next + 1, n)].e
        <5> TAKE k \in 1 .. Len(lap')
        <5>1. CASE k = n
          <6>1. Len(lap') - k = 0 /\ lap'[k] = x
            BY <3>4, <4>1, <5>1, <1>2, <1>6, <1>7
          <6> QED BY <6>1, <1>10
        <5>2. CASE k # n
          <6>1. /\ k \in 1 .. n /\ k + 1 \in 1 .. Len(lap) /\ Len(lap) - (k + 1) \in 0 .. n - 1
                /\ Len(lap') - k = (Len(lap) - (k + 1)) + 1
            BY <5>2, <4>1, <3>4, <1>2
          <6>2. lap'[k] = lap[k + 1]
            BY <6>1, <4>1, <3>4, <1>6, <1>7
          <6>3. lap'[k] = pl[Place(Len(lap) - (k + 1), getProxyIndex, n)].e
            BY <6>1, <6>2, <3>1
          <6>4. Place(Len(lap') - k, next + 1, n) = Place(Len(lap) - (k + 1), getProxyIndex, n)
            BY <6>1, <3>2
          <6> QED BY <6>3, <6>4
        <5> QED BY <5>1, <5>2
      <4>3. Len(lap') <= n
        BY <4>1, <1>2
      <4> QED BY <4>2, <4>3, <1>1, <1>3 DEF Rotation, n
    <3> QED BY <3>1, <3>3, <3>4, <1>2, <1>6
  <2> QED BY <2>1, <2>2
<1> QED BY <1>8, <1>9, <1>11 DEF SchedulingInv

LEMMA PickProxyHolds ==
    ASSUME NEW d \in Domain
    PROVE  SchedulingInv /\ PickProxy(d) => SchedulingInv'
<1> SUFFICES ASSUME SchedulingInv, PickProxy(d) PROVE SchedulingInv'
  OBVIOUS
<1> DEFINE i == LeastUsed(Eligible(d))
           e == pl[i].e
<1>1. /\ Eligible(d) # {} /\ pl[i].n < MaxUse
      /\ pl' = [pl EXCEPT ![i].n = @ + 1]
      /\ dl' = [dl EXCEPT ![d] = Append(Recent(d), [e |-> e, age |-> 0])]
      /\ targetFailures' = [targetFailures EXCEPT ![d] = Open(@)]
      /\ since' = [since EXCEPT ![d][IpOf[e]] = 0]
      /\ UNCHANGED <<getProxyIndex, circuit, lap>>
  BY DEF PickProxy
<1>2. i \in 1 .. Len(pl)
  <2>1. Eligible(d) \subseteq 1 .. Len(pl)
    BY DEF Eligible
  <2> QED BY <2>1, <1>1, LeastUsedIsOne DEF SchedulingInv, Typed
<1>3. pl \in Seq(Entries) /\ pl[i] \in Entries /\ e \in Endpoint /\ pl[i].n \in 0 .. MaxUse
  <2>1. pl \in Seq(Entries)
    BY DEF SchedulingInv, Typed
  <2>2. pl[i] \in Entries
    BY <2>1, <1>2
  <2> QED BY <2>1, <2>2 DEF Entries
<1> HIDE DEF i
<1>4. /\ pl' \in Seq(Entries) /\ Len(pl') = Len(pl)
      /\ \A j \in 1 .. Len(pl) : pl'[j].e = pl[j].e
  <2> DEFINE to == [pl[i] EXCEPT !.n = @ + 1]
  <2>1. to.e = e /\ to \in Entries
    <3>1. PICK a \in 0 .. MaxUse : a = pl[i].n
      BY <1>3
    <3>2. a + 1 \in 0 .. MaxUse
      BY <3>1, <1>1, SchedulingAssumption
    <3>3. pl[i] = [e |-> e, n |-> a]
      BY <3>1, <1>3 DEF Entries
    <3>4. to = [e |-> e, n |-> a + 1]
      BY <3>3
    <3> QED BY <3>2, <3>4, <1>3 DEF Entries
  <2>2. pl' = [pl EXCEPT ![i] = to]
    BY <1>1
  <2> HIDE DEF to
  <2>3. pl' \in Seq(Entries) /\ Len(pl') = Len(pl)
    BY <2>1, <2>2, <1>3, <1>2
  <2>4. \A j \in 1 .. Len(pl) : pl'[j] = IF j = i THEN to ELSE pl[j]
    BY <2>2, <1>3
  <2> QED BY <2>1, <2>3, <2>4
<1>5. Distinct(pl)'
  BY <1>4 DEF SchedulingInv, Typed, Distinct
<1>6. dl[d] \in Seq(Picks) /\ since[d] \in [IP -> 0 .. Window] /\ PicksAre(dl[d], since[d])
  BY DEF SchedulingInv, Typed, Remembered
<1>7. Recent(d) \in Seq(Picks) /\ PicksAre(Recent(d), since[d])
  <2>1. Keeps(dl[d], Recent(d))
    BY <1>6, RecentKeeps
  <2> QED BY <2>1, <1>6, Forgetting DEF Keeps
<1> DEFINE q == Append(Recent(d), [e |-> e, age |-> 0])
           z == [since[d] EXCEPT ![IpOf[e]] = 0]
<1>8. q \in Seq(Picks) /\ PicksAre(q, z)
  <2> HIDE DEF e
  <2> QED BY <1>3, <1>6, <1>7, Picking
<1>9. z \in [IP -> 0 .. Window]
  <2>1. 0 \in 0 .. Window
    BY DEF Window
  <2> HIDE DEF e
  <2> QED BY <2>1, <1>6
<1>10. /\ dl \in [Domain -> Seq(Picks)] /\ since \in [Domain -> [IP -> 0 .. Window]]
       /\ circuit \in [Domain -> [Endpoint -> 0 .. TTL]] /\ DOMAIN targetFailures = Domain
  BY DEF SchedulingInv, Typed
<1>11. dl' = [dl EXCEPT ![d] = q] /\ since' = [since EXCEPT ![d] = z]
  BY <1>1
<1> HIDE DEF q, z, e
<1>12. Typed'
  <2>1. dl' \in [Domain -> Seq(Picks)]
    BY <1>8, <1>10, <1>11
  <2>2. since' \in [Domain -> [IP -> 0 .. Window]]
    BY <1>9, <1>10, <1>11
  <2>3. DOMAIN targetFailures' = Domain
    BY <1>1, <1>10
  <2> QED BY <2>1, <2>2, <2>3, <1>1, <1>4, <1>5 DEF SchedulingInv, Typed
<1>13. Remembered'
  <2> SUFFICES ASSUME NEW c \in Domain PROVE PicksAre(dl'[c], since'[c])
    BY DEF Remembered
  <2>1. CASE c = d
    <3>1. dl'[c] = q /\ since'[c] = z
      BY <2>1, <1>10, <1>11
    <3> QED BY <3>1, <1>8
  <2>2. CASE c # d
    <3>1. dl'[c] = dl[c] /\ since'[c] = since[c]
      BY <2>2, <1>10, <1>11
    <3> QED BY <3>1 DEF SchedulingInv, Remembered
  <2> QED BY <2>1, <2>2
<1>14. Circuits'
  <2> SUFFICES ASSUME NEW c \in Domain PROVE CircuitsAre(targetFailures'[c], circuit'[c])
    BY DEF Circuits
  <2>1. CircuitsAre(targetFailures[c], circuit[c]) /\ circuit[c] \in [Endpoint -> 0 .. TTL]
    BY <1>10 DEF SchedulingInv, Circuits
  <2>2. targetFailures'[c] = IF c = d THEN Open(targetFailures[c]) ELSE targetFailures[c]
    BY <1>1, <1>10
  <2>3. circuit'[c] = circuit[c]
    BY <1>1
  <2> QED BY <2>1, <2>2, <2>3, Opening
<1>15. Rotation'
  <2>1. CASE lap = << >>
    BY <2>1, <1>1 DEF Rotation
  <2>2. CASE lap # << >>
    <3> DEFINE n == Len(pl)
    <3>1. /\ getProxyIndex \in 1 .. n /\ Len(lap) <= n
          /\ \A k \in 1 .. Len(lap) : lap[k] = pl[Place(Len(lap) - k, getProxyIndex, n)].e
      BY <2>2 DEF SchedulingInv, Rotation
    <3>2. n \in Nat \ {0} /\ Len(lap) \in Nat
      BY <1>2, <1>3 DEF SchedulingInv, Typed
    <3>3. n' = n
      BY <1>4
    <3>4. \A k \in 1 .. Len(lap) : Place(Len(lap) - k, getProxyIndex, n) \in 1 .. n
      BY <3>1, <3>2 DEF Place
    <3>5. \A k \in 1 .. Len(lap) : lap[k] = pl'[Place(Len(lap) - k, getProxyIndex, n)].e
      BY <3>1, <3>4, <1>4
    <3> QED BY <3>1, <3>3, <3>5, <1>1 DEF Rotation
  <2> QED BY <2>1, <2>2
<1> QED BY <1>12, <1>13, <1>14, <1>15 DEF SchedulingInv

\* Lists and promises stay, picks that count no more and circuits that are over are
\* dropped, in any of the domains.
LEMMA ThinningHolds ==
    ASSUME SchedulingInv, UNCHANGED <<lists, promises, lap>>,
           DOMAIN dl' = Domain, DOMAIN targetFailures' = Domain,
           dl' = [d \in Domain |-> dl'[d]],
           \A d \in Domain : Keeps(dl[d], dl'[d]),
           \A d \in Domain : targetFailures'[d] \in {targetFailures[d], Open(targetFailures[d])}
    PROVE  SchedulingInv'
<1>1. /\ dl \in [Domain -> Seq(Picks)] /\ since \in [Domain -> [IP -> 0 .. Window]]
      /\ circuit \in [Domain -> [Endpoint -> 0 .. TTL]]
  BY DEF SchedulingInv, Typed
<1>2. since' = since /\ circuit' = circuit
  BY DEF promises
<1>3. Typed'
  <2>1. \A d \in Domain : dl'[d] \in Seq(Picks)
    BY DEF Keeps
  <2>2. dl' \in [Domain -> Seq(Picks)]
    BY <2>1
  <2> QED BY <2>2 DEF SchedulingInv, Typed, lists, promises
<1>4. Remembered'
  <2> SUFFICES ASSUME NEW d \in Domain PROVE PicksAre(dl'[d], since'[d])
    BY DEF Remembered
  <2>1. dl[d] \in Seq(Picks) /\ since[d] \in [IP -> 0 .. Window] /\ PicksAre(dl[d], since[d])
    BY <1>1 DEF SchedulingInv, Remembered
  <2>2. PicksAre(dl'[d], since[d])
    BY <2>1, Forgetting
  <2> QED BY <2>2, <1>2
<1>5. Circuits'
  <2> SUFFICES ASSUME NEW d \in Domain PROVE CircuitsAre(targetFailures'[d], circuit'[d])
    BY DEF Circuits
  <2>1. CircuitsAre(targetFailures[d], circuit[d]) /\ circuit[d] \in [Endpoint -> 0 .. TTL]
    BY <1>1 DEF SchedulingInv, Circuits
  <2>2. CircuitsAre(Open(targetFailures[d]), circuit[d])
    BY <2>1, Opening
  <2> QED BY <2>1, <2>2, <1>2
<1>6. Rotation'
  BY DEF SchedulingInv, Rotation, lists
<1> QED BY <1>3, <1>4, <1>5, <1>6 DEF SchedulingInv

LEMMA PickProxyRefusedHolds ==
    ASSUME NEW d \in Domain
    PROVE  SchedulingInv /\ PickProxyRefused(d) => SchedulingInv'
<1> SUFFICES ASSUME SchedulingInv, PickProxyRefused(d) PROVE SchedulingInv'
  OBVIOUS
<1>1. /\ dl' = [dl EXCEPT ![d] = Recent(d)]
      /\ targetFailures' = [targetFailures EXCEPT ![d] = Open(@)]
      /\ UNCHANGED <<lists, promises, lap>>
  BY DEF PickProxyRefused
<1>2. dl \in [Domain -> Seq(Picks)] /\ DOMAIN targetFailures = Domain
  BY DEF SchedulingInv, Typed
<1>3. \A c \in Domain : Keeps(dl[c], dl'[c])
  <2> TAKE c \in Domain
  <2>1. CASE c = d
    <3>1. dl'[c] = Recent(d)
      BY <2>1, <1>1, <1>2
    <3> QED BY <2>1, <3>1, <1>2, RecentKeeps
  <2>2. CASE c # d
    <3>1. dl'[c] = dl[c] /\ dl[c] \in Seq(Picks)
      BY <2>2, <1>1, <1>2
    <3> QED BY <3>1 DEF Keeps
  <2> QED BY <2>1, <2>2
<1>4. \A c \in Domain : targetFailures'[c] \in {targetFailures[c], Open(targetFailures[c])}
  BY <1>1, <1>2
<1>5. DOMAIN dl' = Domain /\ DOMAIN targetFailures' = Domain /\ dl' = [c \in Domain |-> dl'[c]]
  BY <1>1, <1>2
<1> QED BY <1>1, <1>3, <1>4, <1>5, ThinningHolds

LEMMA GcHolds == SchedulingInv /\ Gc => SchedulingInv'
<1> SUFFICES ASSUME SchedulingInv, Gc PROVE SchedulingInv'
  OBVIOUS
<1>1. /\ dl' = [d \in Domain |-> Collected(dl[d])]
      /\ targetFailures' = [d \in Domain |-> Open(targetFailures[d])]
      /\ UNCHANGED <<lists, promises, lap>>
  BY DEF Gc
<1>2. \A d \in Domain : dl[d] \in Seq(Picks) /\ dl'[d] = Collected(dl[d])
  BY <1>1 DEF SchedulingInv, Typed
<1>3. \A d \in Domain : Keeps(dl[d], dl'[d])
  BY <1>2, CollectedKeeps
<1>4. \A d \in Domain : targetFailures'[d] \in {targetFailures[d], Open(targetFailures[d])}
  BY <1>1
<1>5. DOMAIN dl' = Domain /\ DOMAIN targetFailures' = Domain /\ dl' = [d \in Domain |-> dl'[d]]
  BY <1>1
<1> QED BY <1>1, <1>3, <1>4, <1>5, ThinningHolds

LEMMA MarkHolds ==
    ASSUME NEW e \in Endpoint, NEW d \in Domain
    PROVE  SchedulingInv /\ MarkProxyTargetFailure(e, d) => SchedulingInv'
<1> SUFFICES ASSUME SchedulingInv, MarkProxyTargetFailure(e, d) PROVE SchedulingInv'
  OBVIOUS
<1> DEFINE f == targetFailures[d]
           g == [x \in DOMAIN f \cup {e} |-> IF x = e THEN TTL ELSE f[x]]
<1>1. /\ targetFailures' = [targetFailures EXCEPT ![d] = g]
      /\ circuit' = [circuit EXCEPT ![d][e] = TTL]
      /\ UNCHANGED <<lists, dl, since, lap>>
  BY DEF MarkProxyTargetFailure
<1>2. circuit \in [Domain -> [Endpoint -> 0 .. TTL]] /\ DOMAIN targetFailures = Domain
  BY DEF SchedulingInv, Typed
<1>3. TTL \in 0 .. TTL
  BY SchedulingAssumption
<1>4. Typed'
  <2>1. circuit' \in [Domain -> [Endpoint -> 0 .. TTL]]
    BY <1>1, <1>2, <1>3
  <2>2. DOMAIN targetFailures' = Domain
    BY <1>1, <1>2
  <2> QED BY <2>1, <2>2, <1>1 DEF SchedulingInv, Typed, lists
<1>5. Remembered'
  BY <1>1 DEF SchedulingInv, Remembered
<1>6. Circuits'
  <2> SUFFICES ASSUME NEW c \in Domain PROVE CircuitsAre(targetFailures'[c], circuit'[c])
    BY DEF Circuits
  <2>1. CircuitsAre(targetFailures[c], circuit[c])
    BY DEF SchedulingInv, Circuits
  <2>2. CASE c # d
    BY <2>1, <2>2, <1>1, <1>2
  <2>3. CASE c = d
    <3>1. targetFailures'[c] = g /\ circuit'[c] = [circuit[d] EXCEPT ![e] = TTL]
      BY <2>3, <1>1, <1>2
    <3>2. \A x \in Endpoint : circuit'[c][x] = IF x = e THEN TTL ELSE circuit[d][x]
      BY <3>1, <1>2
    <3>3. DOMAIN g = DOMAIN f \cup {e} /\ \A x \in DOMAIN g : g[x] = IF x = e THEN TTL ELSE f[x]
      OBVIOUS
    <3>4. CircuitsAre(f, circuit[d])
      BY <2>1, <2>3
    <3> HIDE DEF f, g
    <3> QED BY <3>1, <3>2, <3>3, <3>4 DEF CircuitsAre
  <2> QED BY <2>2, <2>3
<1>7. Rotation'
  BY <1>1 DEF SchedulingInv, Rotation, lists
<1> QED BY <1>4, <1>5, <1>6, <1>7 DEF SchedulingInv

LEMMA JoinHolds ==
    ASSUME NEW e \in Endpoint
    PROVE  SchedulingInv /\ Join(e) => SchedulingInv'
<1> SUFFICES ASSUME SchedulingInv, Join(e) PROVE SchedulingInv'
  OBVIOUS
<1> DEFINE rest == Without({e})
           new == [e |-> e, n |-> 0]
<1>1. /\ pl' = Append(rest, new) /\ lap' = << >>
      /\ UNCHANGED <<getProxyIndex, domains, promises>>
  BY DEF Join
<1>2. rest \in Seq(Entries) /\ Distinct(rest) /\ \A i \in 1 .. Len(rest) : rest[i].e # e
  <2>1. pl \in Seq(Entries) /\ Distinct(pl)
    BY DEF SchedulingInv, Typed
  <2> QED BY <2>1, WithoutIsDistinct
<1>3. new \in Entries /\ new.e = e
  BY SchedulingAssumption DEF Entries
<1> HIDE DEF rest, new
<1>4. /\ pl' \in Seq(Entries) /\ Len(pl') = Len(rest) + 1 /\ pl'[Len(rest) + 1] = new
      /\ \A i \in 1 .. Len(rest) : pl'[i] = rest[i]
      /\ Len(rest) \in Nat
  BY <1>1, <1>2, <1>3
<1>5. Distinct(pl)'
  <2> SUFFICES ASSUME NEW i \in 1 .. Len(pl'), NEW j \in 1 .. Len(pl'), pl'[i].e = pl'[j].e
               PROVE  i = j
    BY DEF Distinct
  <2>1. \A k \in 1 .. Len(pl') : k \in 1 .. Len(rest) \/ k = Len(rest) + 1
    BY <1>4
  <2>2. CASE i \in 1 .. Len(rest) /\ j \in 1 .. Len(rest)
    BY <2>2, <1>2, <1>4 DEF Distinct
  <2>3. CASE i \in 1 .. Len(rest) /\ j = Len(rest) + 1
    BY <2>3, <1>2, <1>3, <1>4
  <2>4. CASE i = Len(rest) + 1 /\ j \in 1 .. Len(rest)
    BY <2>4, <1>2, <1>3, <1>4
  <2> QED BY <2>1, <2>2, <2>3, <2>4
<1>6. Typed'
  <2>1. lap' \in Seq(Endpoint)
    BY <1>1
  <2> QED BY <2>1, <1>1, <1>4, <1>5 DEF SchedulingInv, Typed, domains, promises
<1>7. Remembered' /\ Circuits'
  BY <1>1, DomainsStay DEF SchedulingInv
<1>8. Rotation'
  BY <1>1 DEF Rotation
<1> QED BY <1>6, <1>7, <1>8 DEF SchedulingInv

LEMMA RemoveHolds ==
    ASSUME NEW gone \in SUBSET Endpoint
    PROVE  SchedulingInv /\ Remove(gone) => SchedulingInv'
<1> SUFFICES ASSUME SchedulingInv, Remove(gone) PROVE SchedulingInv'
  OBVIOUS
<1>1. /\ pl' = Without(gone) /\ lap' = << >>
      /\ UNCHANGED <<getProxyIndex, domains, promises>>
  BY DEF Remove
<1>2. pl' \in Seq(Entries) /\ Distinct(pl)'
  <2>1. pl \in Seq(Entries) /\ Distinct(pl)
    BY DEF SchedulingInv, Typed
  <2>2. Without(gone) \in Seq(Entries) /\ Distinct(Without(gone))
    BY <2>1, WithoutIsDistinct
  <2> QED BY <2>2, <1>1 DEF Distinct
<1>3. Typed'
  <2>1. lap' \in Seq(Endpoint)
    BY <1>1
  <2> QED BY <2>1, <1>1, <1>2 DEF SchedulingInv, Typed, domains, promises
<1>4. Remembered' /\ Circuits'
  BY <1>1, DomainsStay DEF SchedulingInv
<1>5. Rotation'
  BY <1>1 DEF Rotation
<1> QED BY <1>3, <1>4, <1>5 DEF SchedulingInv

LEMMA TickHolds == SchedulingInv /\ Tick => SchedulingInv'
<1> SUFFICES ASSUME SchedulingInv, Tick PROVE SchedulingInv'
  OBVIOUS
<1> DEFINE Older(p) == [i \in 1 .. Len(p) |-> [p[i] EXCEPT !.age = Up(@, Kept + 1)]]
           Longer(s) == [ip \in IP |-> Up(s[ip], Window)]
           Nearer(f) == [e \in DOMAIN f |-> Down(f[e])]
           Shorter(s) == [e \in Endpoint |-> Down(s[e])]
<1>1. /\ dl' = [d \in Domain |-> Older(dl[d])]
      /\ targetFailures' = [d \in Domain |-> Nearer(targetFailures[d])]
      /\ since' = [d \in Domain |-> Longer(since[d])]
      /\ circuit' = [d \in Domain |-> Shorter(circuit[d])]
      /\ UNCHANGED <<lists, lap>>
  BY DEF Tick
<1>2. \A d \in Domain : /\ Older(dl[d]) \in Seq(Picks) /\ Longer(since[d]) \in [IP -> 0 .. Window]
                        /\ PicksAre(Older(dl[d]), Longer(since[d]))
  <2> TAKE d \in Domain
  <2>1. dl[d] \in Seq(Picks) /\ since[d] \in [IP -> 0 .. Window] /\ PicksAre(dl[d], since[d])
    BY DEF SchedulingInv, Typed, Remembered
  <2> QED BY <2>1, Ageing
<1>3. \A n \in 0 .. TTL : Down(n) \in 0 .. TTL
  BY SchedulingAssumption DEF Down
<1>4. \A d \in Domain : /\ Shorter(circuit[d]) \in [Endpoint -> 0 .. TTL]
                        /\ CircuitsAre(Nearer(targetFailures[d]), Shorter(circuit[d]))
  <2> TAKE d \in Domain
  <2>1. circuit[d] \in [Endpoint -> 0 .. TTL] /\ CircuitsAre(targetFailures[d], circuit[d])
    BY DEF SchedulingInv, Typed, Circuits
  <2>2. Down(0) = 0
    BY DEF Down
  <2>3. Shorter(circuit[d]) \in [Endpoint -> 0 .. TTL]
    BY <2>1, <1>3
  <2>4. DOMAIN Nearer(targetFailures[d]) = DOMAIN targetFailures[d]
    OBVIOUS
  <2>5. \A e \in Endpoint : Shorter(circuit[d])[e] =
           IF e \in DOMAIN targetFailures[d] THEN Down(targetFailures[d][e]) ELSE 0
    BY <2>1, <2>2 DEF CircuitsAre
  <2> QED BY <2>1, <2>3, <2>4, <2>5 DEF CircuitsAre
<1> HIDE DEF Older, Longer, Nearer, Shorter
<1>5. Typed'
  <2>1. dl' \in [Domain -> Seq(Picks)]
    BY <1>1, <1>2
  <2>2. since' \in [Domain -> [IP -> 0 .. Window]]
    BY <1>1, <1>2
  <2>3. circuit' \in [Domain -> [Endpoint -> 0 .. TTL]]
    BY <1>1, <1>4
  <2>4. DOMAIN targetFailures' = Domain
    BY <1>1
  <2> QED BY <2>1, <2>2, <2>3, <2>4, <1>1 DEF SchedulingInv, Typed, lists
<1>6. Remembered'
  BY <1>1, <1>2 DEF Remembered
<1>7. Circuits'
  BY <1>1, <1>4 DEF Circuits
<1>8. Rotation'
  BY <1>1 DEF SchedulingInv, Rotation, lists
<1> QED BY <1>5, <1>6, <1>7, <1>8 DEF SchedulingInv

LEMMA StutterHolds == SchedulingInv /\ UNCHANGED vars => SchedulingInv'
BY DEF SchedulingInv, Typed, Remembered, Circuits, Rotation, vars, lists, domains, promises

LEMMA NextHolds == SchedulingInv /\ [Next]_vars => SchedulingInv'
BY GetProxyHolds, PickProxyHolds, PickProxyRefusedHolds, MarkHolds, GcHolds, JoinHolds,
   RemoveHolds, TickHolds, StutterHolds DEF Next

LEMMA AlwaysScheduled == Spec => []SchedulingInv
BY InitHolds, NextHolds, PTL DEF Spec

-----------------------------------------------------------------------------
(* Theorems *)

LEMMA ScheduledIsTyped == SchedulingInv => SchedulingTypeOK
<1> SUFFICES ASSUME SchedulingInv PROVE SchedulingTypeOK
  OBVIOUS
<1>1. pl \in Seq(Entries) /\ Cardinality(Pool) = Len(pl)
  BY DistinctIsCardinality DEF SchedulingInv, Typed, Pool
<1>2. \A d \in Domain : /\ DOMAIN targetFailures[d] \subseteq Endpoint
                        /\ \A e \in DOMAIN targetFailures[d] : targetFailures[d][e] \in 0 .. TTL
  <2> TAKE d \in Domain
  <2>1. circuit[d] \in [Endpoint -> 0 .. TTL] /\ CircuitsAre(targetFailures[d], circuit[d])
    BY DEF SchedulingInv, Typed, Circuits
  <2> QED BY <2>1 DEF CircuitsAre
<1> QED BY <1>1, <1>2 DEF SchedulingInv, Typed, SchedulingTypeOK

\* Every reachable state is well typed, and the list names no endpoint twice, whatever
\* joins and leaves it (memcache.go).
THEOREM SchedulingTypeCorrect == Spec => []SchedulingTypeOK
BY AlwaysScheduled, ScheduledIsTyped, PTL

LEMMA ScheduledIsExact == SchedulingInv => PickIsExact
<1> SUFFICES ASSUME SchedulingInv PROVE PickIsExact
  OBVIOUS
<1> SUFFICES ASSUME NEW d \in Domain, NEW i \in 1 .. Len(pl)
             PROVE  i \in Eligible(d) <=>
                    since[d][IpOf[pl[i].e]] >= Window /\ circuit[d][pl[i].e] = 0
  <2>2. \A c \in Domain : Eligible(c) \subseteq 1 .. Len(pl)
    BY DEF Eligible
  <2>3. \A c \in Domain, j \in 1 .. Len(pl) :
          /\ since[c][IpOf[pl[j].e]] \in Nat /\ circuit[c][pl[j].e] \in Nat
    <3> TAKE c \in Domain, j \in 1 .. Len(pl)
    <3>1. pl[j] \in Entries
      BY DEF SchedulingInv, Typed
    <3>2. pl[j].e \in Endpoint /\ IpOf[pl[j].e] \in IP
      BY <3>1, SchedulingAssumption DEF Entries
    <3>3. since \in [Domain -> [IP -> 0 .. Window]] /\ circuit \in [Domain -> [Endpoint -> 0 .. TTL]]
      BY DEF SchedulingInv, Typed
    <3>4. since[c][IpOf[pl[j].e]] \in 0 .. Window /\ circuit[c][pl[j].e] \in 0 .. TTL
      BY <3>2, <3>3
    <3> QED BY <3>4, SchedulingAssumption DEF Window
  <2> QED BY <2>2, <2>3 DEF PickIsExact, NoEarlyReuse, NoNeedlessRefusal, Window
<1> DEFINE p == dl[d]
           q == Recent(d)
           e == pl[i].e
<1>1. e \in Endpoint /\ IpOf[e] \in IP
  <2>1. pl[i] \in Entries
    BY DEF SchedulingInv, Typed
  <2> QED BY <2>1, SchedulingAssumption DEF Entries
<1>2. /\ p \in Seq(Picks) /\ since[d] \in [IP -> 0 .. Window]
      /\ circuit[d] \in [Endpoint -> 0 .. TTL]
      /\ PicksAre(p, since[d]) /\ CircuitsAre(targetFailures[d], circuit[d])
  BY DEF SchedulingInv, Typed, Remembered, Circuits
<1>3. Keeps(p, q) /\ \A k \in 1 .. Len(q) : q[k].age < Window
  BY <1>2, RecentKeeps
<1>4. PicksAre(q, since[d]) /\ q \in Seq(Picks)
  BY <1>2, <1>3, Forgetting DEF Keeps
<1>5. since[d][IpOf[e]] \in 0 .. 3 /\ circuit[d][e] \in Nat
  BY <1>1, <1>2, SchedulingAssumption DEF Window
<1> HIDE DEF e, q
<1>6. i \in Eligible(d) <=> /\ e \notin DOMAIN Open(targetFailures[d])
                            /\ \A k \in 1 .. Len(q) : IpOf[q[k].e] # IpOf[e]
  BY DEF Eligible, e, q
<1>7. e \notin DOMAIN Open(targetFailures[d]) <=> circuit[d][e] = 0
  BY <1>1, <1>2, <1>5 DEF Open, CircuitsAre
<1>8. (\A k \in 1 .. Len(q) : IpOf[q[k].e] # IpOf[e]) <=> since[d][IpOf[e]] >= Window
  <2>1. ASSUME \A k \in 1 .. Len(q) : IpOf[q[k].e] # IpOf[e]
        PROVE  since[d][IpOf[e]] >= Window
    <3>1. ~(since[d][IpOf[e]] < Window)
      BY <1>1, <1>4, <2>1 DEF PicksAre
    <3> QED BY <3>1, <1>5 DEF Window
  <2>2. ASSUME NEW k \in 1 .. Len(q), IpOf[q[k].e] = IpOf[e]
        PROVE  ~(since[d][IpOf[e]] >= Window)
    <3>1. q[k].age >= since[d][IpOf[e]] /\ q[k].age < Window
      BY <1>3, <1>4, <2>2 DEF PicksAre
    <3>2. q[k].age \in 0 .. 4
      <4>1. q[k] \in Picks
        BY <1>4
      <4> QED BY <4>1 DEF Picks, Kept
    <3> QED BY <3>1, <3>2, <1>5 DEF Window
  <2> QED BY <2>1, <2>2
<1> QED BY <1>6, <1>7, <1>8 DEF e

\* What PickProxy skips is exactly the endpoints whose address has just served the
\* domain or whose circuit is open, after any order of picks, reports, collections and
\* changes of the list, with gc's copies of old picks (memcache.go:258-298).
THEOREM PicksAlwaysExact == Spec => []PickIsExact
BY AlwaysScheduled, ScheduledIsExact, PTL

LEMMA ScheduledGoesRound == SchedulingInv => RoundRobin
<1> SUFFICES ASSUME SchedulingInv, NEW i \in 1 .. Len(lap), NEW j \in 1 .. Len(lap),
                    lap[i] = lap[j]
             PROVE  i = j
  BY DEF RoundRobin
<1> DEFINE n == Len(pl)
           last == getProxyIndex
<1>1. lap \in Seq(Endpoint) /\ Len(lap) \in Nat /\ lap # << >> /\ n \in Nat
  BY DEF SchedulingInv, Typed
<1>2. /\ last \in 1 .. n /\ Len(lap) <= n
      /\ \A k \in 1 .. Len(lap) : lap[k] = pl[Place(Len(lap) - k, last, n)].e
  BY <1>1 DEF SchedulingInv, Rotation
<1> HIDE DEF n, last
<1>3. n \in Nat \ {0} /\ Len(lap) - i \in 0 .. n - 1 /\ Len(lap) - j \in 0 .. n - 1
  BY <1>1, <1>2
<1>4. /\ Place(Len(lap) - i, last, n) \in 1 .. n /\ Place(Len(lap) - j, last, n) \in 1 .. n
      /\ Place(Len(lap) - i, last, n) = Place(Len(lap) - j, last, n) => Len(lap) - i = Len(lap) - j
  BY <1>2, <1>3, PlacesDiffer
<1>5. Place(Len(lap) - i, last, n) = Place(Len(lap) - j, last, n)
  BY <1>2, <1>4 DEF SchedulingInv, Typed, Distinct, n
<1> QED BY <1>1, <1>4, <1>5

\* While the list stays the same, GetProxy returns every endpoint once before it returns
\* one again, for lists of any length and however often it is called (memcache.go:250).
THEOREM RoundsAlwaysFair == Spec => []RoundRobin
BY AlwaysScheduled, ScheduledGoesRound, PTL
=============================================================================
