---------------------------- MODULE PartsProofs ----------------------------
(***************************************************************************)
(* Theorems about the parts that MCParts brings together, each for every    *)
(* value of its own constants: the rate limiter, the certificates, the     *)
(* migration, the ring of outcomes, the source engine, the windows of the   *)
(* dashboard and the trend of the backlog.  Those about the browser and the *)
(* failure cache are in modules of their own.                              *)
(*                                                                         *)
(* Nothing here is by induction over data: a claim about every number, or   *)
(* every subset of a finite set, is proved from its least counterexample    *)
(* (LeastNumber of SelectionProofs, LargestNumber, SmallestSubset).        *)
(***************************************************************************)
EXTENDS MCParts, BrowserProofs, FailureCacheProofs, SelectionProofs,
        FiniteSetTheorems, TLAPS

-----------------------------------------------------------------------------
(* The rate limiter keeps its pace for every rate, burst and number of        *)
(* callers.  The invariant is CreditIsLeft: what the bucket holds is what      *)
(* the burst leaves after all reservations since any one of them; as the       *)
(* bucket never holds less than nothing, Paced follows.                       *)

RateInv == RateTypeOK /\ CreditIsLeft /\ Paced

\* A step of a product.
LEMMA OneLess == ASSUME NEW m \in Int, NEW k \in Int
                 PROVE  (m - 1) * k = m * k - k /\ (-m) * k = -(m * k)
  BY SMT

\* A full bucket, and one without its first token.
LEMMA BurstIsPositive == Burst * Cost \in Nat /\ Burst * Cost >= Cost
  <1>1. Burst \in Nat \ {0} /\ Cost \in Nat \ {0}
    BY RateAssumption
  <1>2. (Burst - 1) * Cost = Burst * Cost - Cost
    BY <1>1, OneLess
  <1>3. (Burst - 1) * Cost >= 0
    BY <1>1, SMT
  <1> QED BY <1>1, <1>2, <1>3, SMT

\* The bucket starts full and nothing has been reserved.
LEMMA RateInitially == RateInit => RateInv
  BY BurstIsPositive, RateAssumption, SMT DEF RateInit, RateInv, RateTypeOK, CreditIsLeft, Paced

\* What Reserve finds: no more than the burst, no more than what time adds.
LEMMA RefillIsBounded ==
    ASSUME RateTypeOK, NEW now \in Nat
    PROVE  /\ Refilled(now) \in 0 .. Burst * Cost
           /\ Base(now) \in Nat
           /\ Base(now) >= last
           /\ Refilled(now) <= credit + (Base(now) - last)
  BY BurstIsPositive, SMT DEF RateTypeOK, Refilled, Base, Lesser

\* One reservation keeps the invariant.
LEMMA ReserveIsPaced ==
    ASSUME RateInv, NEW c \in Caller, Reserve(c)
    PROVE  RateInv'
  <1> DEFINE now == asked[c]
             held == Refilled(now)
             base == Base(now)
             wait == IF held >= Cost THEN 0 ELSE Cost - held
             n == Len(granted)
             Left(i) == (Burst - (n - i + 1)) * Cost
  <1>1. now \in Nat
    BY DEF Reserve, RateInv, RateTypeOK
  <1>2. held \in 0 .. Burst * Cost /\ base \in Nat /\ base >= last /\ held <= credit + (base - last)
    BY <1>1, RefillIsBounded DEF RateInv
  <1>3. Cost \in Nat \ {0} /\ Burst \in Nat \ {0}
    BY RateAssumption
  <1>4. /\ credit' = IF held >= Cost THEN held - Cost ELSE 0
        /\ last' = base + wait
        /\ granted' = Append(granted, base + wait)
        /\ asked' = [asked EXCEPT ![c] = Unread]
        /\ tick' = tick
    BY DEF Reserve
  <1>5. wait \in Nat /\ last' \in Nat /\ last' >= last
    <2> HIDE DEF held, base
    <2> QED BY <1>2, <1>3, <1>4, SMT DEF RateInv, RateTypeOK
  <1>6. credit' \in 0 .. Burst * Cost /\ credit' <= held + wait - Cost
    <2> HIDE DEF held
    <2> QED BY <1>2, <1>3, <1>4, BurstIsPositive, SMT
  <1>7. n \in Nat /\ granted \in Seq(Nat) /\ last \in Nat /\ credit \in 0 .. Burst * Cost
    BY DEF RateInv, RateTypeOK
  <1>8. /\ granted' \in Seq(Nat) /\ Len(granted') = n + 1
        /\ granted'[n + 1] = last'
        /\ \A i \in 1 .. n : granted'[i] = granted[i] /\ granted[i] \in Nat
    <2> HIDE DEF base, wait
    <2> QED BY <1>4, <1>5, <1>7, SMT
  <1>9. RateTypeOK'
    BY <1>4, <1>5, <1>6, <1>8 DEF RateInv, RateTypeOK
  <1>10. ASSUME NEW i \in 1 .. n + 1
         PROVE  /\ granted'[i] <= last'
                /\ credit' <= (Burst - (n + 1 - i + 1)) * Cost + (last' - granted'[i])
    <2>1. CASE i = n + 1
      <3>1. (Burst - (n + 1 - i + 1)) * Cost = Burst * Cost - Cost
        BY <2>1, <1>3, <1>7, OneLess
      <3>2. credit' <= Burst * Cost - Cost
        <4> HIDE DEF held
        <4> QED BY <1>2, <1>3, <1>4, BurstIsPositive, SMT
      <3> QED BY <2>1, <3>1, <3>2, <1>3, <1>5, <1>6, <1>8, BurstIsPositive, SMT
    <2>2. CASE i \in 1 .. n
      <3>1. granted[i] <= last /\ credit <= Left(i) + (last - granted[i])
        BY <2>2 DEF RateInv, CreditIsLeft
      <3>2. Left(i) \in Int /\ (Burst - (n + 1 - i + 1)) * Cost = Left(i) - Cost
        <4>1. Burst - (n - i + 1) \in Int /\ Burst - (n + 1 - i + 1) = (Burst - (n - i + 1)) - 1
          BY <1>3, <1>7, <2>2
        <4>2. Left(i) \in Int
          BY <4>1, <1>3, SMT
        <4> QED BY <4>1, <4>2, <1>3, OneLess
      <3> HIDE DEF held, base, wait, Left
      <3>3. credit' <= (credit + (base - last)) + wait - Cost /\ last' = base + wait
        BY <1>2, <1>3, <1>4, <1>5, <1>6, <1>7, SMT
      <3>4. granted'[i] = granted[i] /\ granted[i] \in Nat
        BY <2>2, <1>8
      <3> DEFINE P == (Burst - (n + 1 - i + 1)) * Cost
      <3>5. P = Left(i) - Cost
        BY <3>2
      <3> HIDE DEF P
      <3>6. credit' <= P + (last' - granted[i])
        <4> DEFINE L == Left(i)
        <4>1. L \in Int /\ credit \in Int /\ credit' \in Int
          BY <3>2, <1>3, <1>6, <1>7, BurstIsPositive, SMT
        <4>2. P = L - Cost /\ credit <= L + (last - granted[i])
          BY <3>1, <3>5
        <4>3. base \in Int /\ wait \in Int /\ last \in Int /\ Cost \in Int /\ granted[i] \in Int
          BY <1>2, <1>3, <1>5, <1>7, <3>4
        <4> HIDE DEF L
        <4> QED BY <4>1, <4>2, <4>3, <3>3, SMT
      <3>7. granted'[i] <= last'
        BY <3>1, <3>4, <1>5, <1>7, SMT
      <3> QED BY <3>4, <3>6, <3>7 DEF P
    <2> QED BY <2>1, <2>2, <1>7
  <1>11. CreditIsLeft'
    BY <1>8, <1>10, <1>7 DEF CreditIsLeft
  <1>12. ASSUME NEW i \in 1 .. n + 1
         PROVE  (n + 1 - i + 1 - Burst) * Cost <= last' - granted'[i]
    <2> DEFINE m == Burst - (n + 1 - i + 1)
    <2>1. m \in Int /\ n + 1 - i + 1 - Burst = -m
      BY <1>3, <1>7
    <2>2. (-m) * Cost = -(m * Cost) /\ m * Cost \in Int
      BY <2>1, <1>3, OneLess, SMT
    <2>3. credit' <= m * Cost + (last' - granted'[i])
      BY <1>10
    <2>4. granted'[i] \in Nat
      BY <1>5, <1>7, <1>8
    <2> HIDE DEF m
    <2> QED BY <2>1, <2>2, <2>3, <2>4, <1>5, <1>6, BurstIsPositive, SMT
  <1>13. Paced'
    <2> SUFFICES ASSUME NEW i \in 1 .. n + 1, NEW j \in 1 .. n + 1, i <= j
                 PROVE  /\ granted'[i] <= granted'[j]
                        /\ (j - i + 1 - Burst) * Cost <= granted'[j] - granted'[i]
      BY <1>7, <1>8 DEF Paced
    <2>1. CASE j = n + 1
      BY <2>1, <1>8, <1>10, <1>12
    <2>2. CASE j \in 1 .. n
      <3>1. i \in 1 .. n
        BY <2>2, <1>7
      <3> QED BY <2>2, <3>1, <1>8 DEF RateInv, Paced
    <2> QED BY <2>1, <2>2, <1>7
  <1> QED BY <1>9, <1>11, <1>13 DEF RateInv

\* Every step keeps the invariant.
LEMMA RateStep == RateInv /\ [RateNext]_rateVars => RateInv'
  <1> SUFFICES ASSUME RateInv, [RateNext]_rateVars PROVE RateInv'
    OBVIOUS
  <1>1. CASE RateTick
    BY <1>1, SMT DEF RateTick, RateInv, RateTypeOK, CreditIsLeft, Paced
  <1>2. ASSUME NEW c \in Caller, Ask(c) PROVE RateInv'
    BY <1>2 DEF Ask, RateInv, RateTypeOK, CreditIsLeft, Paced
  <1>3. ASSUME NEW c \in Caller, Reserve(c) PROVE RateInv'
    BY <1>3, ReserveIsPaced
  <1>4. CASE UNCHANGED rateVars
    BY <1>4 DEF rateVars, RateInv, RateTypeOK, CreditIsLeft, Paced
  <1> QED BY <1>1, <1>2, <1>3, <1>4 DEF RateNext

LEMMA RateInvariant == RateSpec => []RateInv
  BY RateInitially, RateStep, PTL DEF RateSpec

\* The limiter's variables keep their types: the bucket never holds less than
\* nothing nor more than the burst.
THEOREM RateTypeCorrect == RateSpec => []RateTypeOK
  <1>1. RateInv => RateTypeOK
    BY DEF RateInv
  <1> QED BY <1>1, RateInvariant, PTL

\* For every rate, burst and set of callers, successive reservations are paced and
\* used in their order (Reserve).
THEOREM RateIsKept == RateSpec => []Paced
  <1>1. RateInv => Paced
    BY DEF RateInv
  <1> QED BY <1>1, RateInvariant, PTL

-----------------------------------------------------------------------------
(* Certificates: through any number of crashes, the key in use is the         *)
(* issuer's, and what is served is valid.                                     *)

\* The key is on disk before anything it signed is, and stays there.
CertInv ==
    /\ CertTypeOK
    /\ step # "down" => pk \in Keys
    /\ step = "writeKey" => keyFile = Nothing
    /\ step \in {"cert", "writeCert", "up"} => keyFile = pk
    /\ step \in {"writeCert", "up"} => issuingCert \in Issuers /\ issuingCert.key = pk
    /\ certFile # Nothing => keyFile = certFile.key
    /\ step \in {"writeCert", "up"} => issuingCert.notAfter >= started + Month
    /\ step # "up" => \A h \in Host : cache[h] = Nothing
    /\ \A h \in Host : cache[h] # Nothing =>
         cache[h].key = pk /\ cache[h].until <= cache[h].notAfter

LEMMA CertInitInv == CertInit => CertInv
BY CertificatesAssumption DEF CertInit, CertInv, CertTypeOK

LEMMA CertStepInv == CertInv /\ [CertNext]_certVars => CertInv'
<1> SUFFICES ASSUME CertInv, [CertNext]_certVars
             PROVE  CertInv'
  OBVIOUS
<1>0. /\ day \in Nat /\ keys \in Nat /\ started \in Nat /\ Month \in Nat /\ Year \in Nat
      /\ Keys \subseteq Nat /\ Nothing \notin Keys
  BY CertificatesAssumption, NothingAssumption DEF CertInv, CertTypeOK, Keys
<1>1. CASE DayPasses
  BY <1>0, <1>1, CertificatesAssumption DEF DayPasses, files, CertInv, CertTypeOK
<1>2. CASE LoadKey
  BY <1>0, <1>2 DEF LoadKey, files, CertInv, CertTypeOK
<1>3. CASE NewKey
  <2>1. keys + 1 \in Keys /\ keys' \in 0 .. MaxKeys /\ pk' \in Keys
    BY <1>0, <1>3, CertificatesAssumption DEF NewKey, Keys, CertInv, CertTypeOK
  <2> QED
    BY <1>0, <1>3, <2>1 DEF NewKey, files, CertInv, CertTypeOK
<1>4. CASE WriteKey
  <2>1. certFile = Nothing
    BY <1>0, <1>4 DEF WriteKey, CertInv, CertTypeOK, Issuers
  <2> QED
    BY <1>0, <1>4, <2>1 DEF WriteKey, CertInv, CertTypeOK
<1>5. CASE LoadCert
  <2>1. certFile \in Issuers /\ certFile.notAfter >= day + Month
    BY <1>0, <1>5 DEF LoadCert, ExpiresSoon, CertInv, CertTypeOK, Issuers
  <2>2. started' \in 0 .. day'
    BY <1>0, <1>5 DEF LoadCert
  <2> QED
    BY <1>0, <1>5, <2>1, <2>2 DEF LoadCert, files, CertInv, CertTypeOK
<1>6. CASE NewCert
  <2>1. /\ issuingCert' \in Issuers /\ issuingCert'.key = pk
        /\ issuingCert'.notAfter >= day + Month
    BY <1>0, <1>6, CertificatesAssumption DEF NewCert, CertInv, Issuers
  <2>2. started' \in 0 .. day' /\ started' = day
    BY <1>0, <1>6 DEF NewCert
  <2> QED
    BY <1>0, <1>6, <2>1, <2>2 DEF NewCert, CertInv, CertTypeOK
<1>7. CASE WriteCert
  BY <1>0, <1>7 DEF WriteCert, CertInv, CertTypeOK
<1>8. ASSUME NEW h \in Host, Issue(h)
      PROVE  CertInv'
  <2> DEFINE leaf == [key |-> pk, notAfter |-> day + Leaf, until |-> day + Cached]
  <2>1. leaf \in Leaves /\ leaf.key = pk /\ leaf.until <= leaf.notAfter
    BY <1>0, <1>8, CertificatesAssumption DEF Issue, CertInv, Leaves
  <2>2. cache' = [cache EXCEPT ![h] = leaf]
    BY <1>8 DEF Issue
  <2> HIDE DEF leaf
  <2>3. /\ cache' \in [Host -> Leaves \cup {Nothing}]
        /\ \A x \in Host : cache'[x] # Nothing =>
             cache'[x].key = pk /\ cache'[x].until <= cache'[x].notAfter
    BY <2>1, <2>2 DEF CertInv, CertTypeOK
  <2> QED
    BY <1>0, <1>8, <2>3 DEF Issue, files, CertInv, CertTypeOK
<1>9. CASE Dies
  BY <1>0, <1>9 DEF Dies, files, CertInv, CertTypeOK
<1>10. CASE UNCHANGED certVars
  BY <1>10 DEF certVars, files, CertInv, CertTypeOK
<1> QED
  BY <1>1, <1>2, <1>3, <1>4, <1>5, <1>6, <1>7, <1>8, <1>9, <1>10 DEF CertNext

LEMMA CertInvariant == CertSpec => []CertInv
BY CertInitInv, CertStepInv, PTL DEF CertSpec

\* The certificates keep their types.
THEOREM CertTypeCorrect == CertSpec => []CertTypeOK
<1>1. CertInv => CertTypeOK
  BY DEF CertInv
<1> QED
  BY <1>1, CertInvariant, PTL

\* Whichever write the process died in, the loaded issuer has the loaded key.
THEOREM KeyAlwaysIssuers == CertSpec => []KeyIsIssuers
<1>1. CertInv => KeyIsIssuers
  BY DEF CertInv, KeyIsIssuers
<1> QED
  BY <1>1, CertInvariant, PTL

\* No leaf outlives its validity in the cache, and no issuer ends within the margin.
THEOREM ServedAlwaysValid == CertSpec => []ServedIsValid
<1>1. CertInv => ServedIsValid
  <2> SUFFICES ASSUME CertInv, NEW h \in Host, step = "up", Fresh(h)
               PROVE  /\ cache[h].key = issuingCert.key
                      /\ cache[h].notAfter >= day
                      /\ day <= started + Month => issuingCert.notAfter >= day
    BY DEF ServedIsValid
  <2>1. cache[h] \in Leaves /\ issuingCert \in Issuers /\ day \in Nat /\ started \in Nat
    BY CertificatesAssumption DEF CertInv, CertTypeOK, Fresh
  <2>2. cache[h].notAfter \in Int /\ cache[h].until \in Int /\ issuingCert.notAfter \in Int
    BY <2>1 DEF Leaves, Issuers
  <2>3. day <= cache[h].until /\ cache[h].until <= cache[h].notAfter
    BY DEF Fresh, CertInv
  <2>4. issuingCert.notAfter >= started + Month
    BY DEF CertInv
  <2> QED
    BY <2>1, <2>2, <2>3, <2>4, CertificatesAssumption DEF CertInv, Fresh
<1> QED
  BY <1>1, CertInvariant, PTL

\* What clients are served verifies and is valid, wherever the process died.
THEOREM CertificatesAlwaysHold == CertSpec => []CertificatesHold
<1>1. KeyIsIssuers /\ ServedIsValid => CertificatesHold
  BY DEF CertificatesHold
<1> QED
  BY <1>1, KeyAlwaysIssuers, ServedAlwaysValid, PTL

-----------------------------------------------------------------------------
(* Numbers *)

\* Of a finite set of numbers, not empty, one is the largest.
LEMMA LargestNumber ==
    ASSUME NEW T, T \subseteq Nat, T # {}, IsFiniteSet(T)
    PROVE  \E m \in T : \A n \in T : n <= m
<1> DEFINE Above(m) == {n \in T : n > m}
           Sizes == {Cardinality(Above(m)) : m \in T}
<1>1. \A m \in T : IsFiniteSet(Above(m)) /\ Cardinality(Above(m)) \in Nat
  <2> TAKE m \in T
  <2>1. Above(m) \subseteq T
    OBVIOUS
  <2> HIDE DEF Above
  <2> QED BY <2>1, FS_Subset, FS_CardinalityType
<1>2. Sizes \subseteq Nat /\ Sizes # {}
  <2> HIDE DEF Above
  <2> QED BY <1>1
<1>3. PICK c \in Sizes : \A d \in Sizes : c <= d
  <2> HIDE DEF Sizes
  <2> QED BY <1>2, LeastNumber
<1>4. PICK m \in T : c = Cardinality(Above(m))
  OBVIOUS
<1>5. ASSUME NEW n \in T, ~(n <= m)
      PROVE  FALSE
  <2>1. n \in Nat /\ m \in Nat /\ n > m
    BY <1>5
  <2>2. Above(n) \subseteq Above(m) /\ n \in Above(m) /\ n \notin Above(n)
    <3>1. \A x \in T : x > n => x > m
      <4> TAKE x \in T
      <4>1. x \in Nat
        OBVIOUS
      <4> QED BY <4>1, <2>1
    <3>2. ~(n > n)
      BY <2>1
    <3> QED BY <3>1, <3>2, <2>1
  <2>3. Cardinality(Above(n)) \in Sizes
    OBVIOUS
  <2> HIDE DEF Above, Sizes
  <2>4. Cardinality(Above(n)) < Cardinality(Above(m))
    <3>1. Above(n) # Above(m)
      BY <2>2
    <3>2. IsFiniteSet(Above(m)) /\ IsFiniteSet(Above(n))
      BY <1>1
    <3>3. Cardinality(Above(n)) <= Cardinality(Above(m))
      BY <2>2, <3>2, FS_Subset
    <3>4. Cardinality(Above(n)) # Cardinality(Above(m))
      BY <2>2, <3>1, <3>2, FS_Subset
    <3>5. Cardinality(Above(n)) \in Nat /\ Cardinality(Above(m)) \in Nat
      BY <1>1
    <3> QED BY <3>3, <3>4, <3>5
  <2>5. c <= Cardinality(Above(n))
    BY <1>3, <2>3
  <2>6. Cardinality(Above(n)) \in Nat /\ Cardinality(Above(m)) \in Nat
    BY <1>1
  <2> QED BY <2>4, <2>5, <2>6, <1>4
<1> QED BY <1>5

-----------------------------------------------------------------------------
(* Migration *)

\* Once this release has opened the database, the columns are there and the rows are
\* the index's.
Opened ==
    /\ process = "up" => migrated
    /\ process = "none" => ~migrated
    /\ migrated =>
         /\ columns = Columns
         /\ \A r \in rows : r.protocol \in Protocol
         /\ \A r, s \in rows : r.protocol = s.protocol => r = s

MigrationInv == MigrationTypeOK /\ Opened

\* One of two rows of an endpoint goes.
LEMMA RanksAreTotal ==
    ASSUME NEW r \in Rows, NEW s \in Rows, r.id # s.id
    PROVE  RankedBefore(r, s) \/ RankedBefore(s, r)
<1>1. r.id \in Nat /\ s.id \in Nat /\ r.deleted \in BOOLEAN /\ s.deleted \in BOOLEAN
  BY MigrationAssumption DEF Rows
<1>2. r.id > s.id \/ s.id > r.id
  BY <1>1
<1> QED BY <1>1, <1>2 DEF RankedBefore

\* The transaction gives a row its values, and leaves it its identity.
LEMMA MigratedRow ==
    ASSUME NEW r \in Rows
    PROVE  /\ Migrated(r) \in Rows
           /\ Migrated(r).id = r.id /\ Migrated(r).deleted = r.deleted
           /\ Migrated(r).protocol = ProtocolOf(r) /\ ProtocolOf(r) \in Protocol
<1>1. ProtocolOf(r) \in Protocol
  BY MigrationAssumption DEF Rows, ProtocolOf
<1>2. Migrated(r).id = r.id /\ Migrated(r).deleted = r.deleted /\ Migrated(r).protocol = ProtocolOf(r)
  BY DEF Rows, Migrated
<1> DEFINE late == IF "NextVerifyAt" \notin columns /\ ~r.available /\ ~r.deleted
                   THEN "future" ELSE r.nextVerify
           probed == r.deep \/ ("LastDeepVerify" \notin columns /\ ~r.deleted)
<1>3. late \in {"unset", "future", "past"} /\ probed \in BOOLEAN
  BY DEF Rows
<1>4. Migrated(r) = [r EXCEPT !.protocol = ProtocolOf(r), !.nextVerify = late, !.deep = probed]
  BY DEF Migrated
<1> HIDE DEF late, probed
<1>5. Migrated(r) \in Rows
  BY <1>1, <1>3, <1>4 DEF Rows
<1> QED BY <1>1, <1>2, <1>5

\* No two rows that stay are of one endpoint.
LEMMA OneRowStays ==
    ASSUME MigrationTypeOK, NEW r \in Deduplicated, NEW s \in Deduplicated,
           ProtocolOf(r) = ProtocolOf(s)
    PROVE  r = s
<1>1. r \in Rows /\ s \in Rows /\ r \in rows /\ s \in rows
  BY DEF MigrationTypeOK, Deduplicated
<1>2. ~RankedBefore(r, s) /\ ~RankedBefore(s, r)
  BY DEF Deduplicated
<1>3. r.id = s.id
  BY <1>1, <1>2, RanksAreTotal
<1> QED BY <1>1, <1>3 DEF MigrationTypeOK

\* Of the rows in use of an endpoint, the newest stays.
LEMMA NewestStays ==
    ASSUME MigrationTypeOK, NEW r \in rows, ~r.deleted
    PROVE  \E s \in Deduplicated : ProtocolOf(s) = ProtocolOf(r) /\ ~s.deleted /\ s.id >= r.id
<1> DEFINE Live == {s \in rows : ~s.deleted /\ ProtocolOf(s) = ProtocolOf(r)}
           Ids == {s.id : s \in Live}
<1>1. \A s \in rows : s \in Rows /\ s.id \in Id /\ s.id \in Nat /\ s.deleted \in BOOLEAN
  BY MigrationAssumption DEF MigrationTypeOK, Rows
<1>2. Ids \subseteq Id /\ Ids # {} /\ r.id \in Ids
  BY <1>1
<1>3. IsFiniteSet(Ids) /\ Ids \subseteq Nat
  <2> HIDE DEF Ids
  <2> QED BY <1>2, MigrationAssumption, FS_Subset
<1>4. PICK m \in Ids : \A n \in Ids : n <= m
  <2> HIDE DEF Ids
  <2> QED BY <1>2, <1>3, LargestNumber
<1>5. PICK s \in Live : s.id = m
  OBVIOUS
<1>6. ASSUME NEW q \in rows, ProtocolOf(q) = ProtocolOf(s), RankedBefore(q, s)
      PROVE  FALSE
  <2>1. ~q.deleted /\ q.id > s.id
    BY <1>1, <1>5, <1>6 DEF RankedBefore
  <2>2. q.id \in Ids
    BY <2>1, <1>5, <1>6
  <2> QED BY <2>1, <2>2, <1>1, <1>4, <1>5
<1>7. s \in Deduplicated
  BY <1>5, <1>6 DEF Deduplicated
<1>8. s.id >= r.id
  BY <1>1, <1>2, <1>4, <1>5
<1> QED BY <1>5, <1>7, <1>8

\* What the transaction leaves.
LEMMA MigrateIsSafe ==
    ASSUME MigrationInv, Migrate
    PROVE  /\ MigrationInv'
           /\ OneRowPerEndpoint'
           /\ LiveRowsSurvive
           /\ migrated => rows' = rows
<1>0. MigrationTypeOK /\ \A r \in rows : r \in Rows
  BY DEF MigrationInv, MigrationTypeOK
<1>1. \A r \in Deduplicated : r \in rows /\ r \in Rows
  BY <1>0 DEF Deduplicated
<1>2. /\ process' = "up" /\ columns' = Columns /\ migrated' = TRUE
      /\ rows' = {Migrated(r) : r \in Deduplicated}
  BY DEF Migrate
<1>3. \A r \in rows' : \E q \in Deduplicated : r = Migrated(q)
  BY <1>2
<1>4. /\ rows' \subseteq Rows
      /\ \A r \in rows' : r.protocol \in Protocol
  BY <1>1, <1>3, MigratedRow
<1>5. ASSUME NEW r \in rows', NEW s \in rows', r.protocol = s.protocol
      PROVE  r = s
  <2>1. PICK p \in Deduplicated : r = Migrated(p)
    BY <1>3
  <2>2. PICK q \in Deduplicated : s = Migrated(q)
    BY <1>3
  <2>3. ProtocolOf(p) = ProtocolOf(q)
    BY <2>1, <2>2, <1>1, <1>5, MigratedRow
  <2>4. p = q
    BY <2>3, <1>0, OneRowStays
  <2> QED BY <2>1, <2>2, <2>4
<1>6. ASSUME NEW r \in rows', NEW s \in rows', r.id = s.id
      PROVE  r = s
  <2>1. PICK p \in Deduplicated : r = Migrated(p)
    BY <1>3
  <2>2. PICK q \in Deduplicated : s = Migrated(q)
    BY <1>3
  <2>3. p.id = q.id
    BY <2>1, <2>2, <1>1, <1>6, MigratedRow
  <2>4. p = q
    BY <2>3, <1>0, <1>1 DEF MigrationTypeOK
  <2> QED BY <2>1, <2>2, <2>4
<1>7. MigrationInv'
  BY <1>2, <1>4, <1>5, <1>6 DEF MigrationInv, MigrationTypeOK, Opened
<1>8. OneRowPerEndpoint'
  <2>1. \A r \in rows' : ProtocolOf(r) = r.protocol
    BY <1>4, MigrationAssumption DEF ProtocolOf
  <2> QED BY <2>1, <1>5 DEF OneRowPerEndpoint, ProtocolOf
<1>9. LiveRowsSurvive
  <2> SUFFICES ASSUME NEW r \in rows, ~r.deleted
               PROVE  \E s \in rows' : s.protocol = ProtocolOf(r) /\ ~s.deleted /\ s.id >= r.id
    BY DEF LiveRowsSurvive
  <2>1. PICK s \in Deduplicated : ProtocolOf(s) = ProtocolOf(r) /\ ~s.deleted /\ s.id >= r.id
    BY <1>0, NewestStays
  <2>2. Migrated(s) \in rows'
    BY <1>2
  <2>3. /\ Migrated(s).id = s.id /\ Migrated(s).deleted = s.deleted
        /\ Migrated(s).protocol = ProtocolOf(s)
    BY <1>1, MigratedRow
  <2> QED BY <2>1, <2>2, <2>3
<1>10. ASSUME migrated
       PROVE  rows' = rows
  <2>1. /\ columns = Columns
        /\ \A r \in rows : ProtocolOf(r) = r.protocol
        /\ \A r, s \in rows : r.protocol = s.protocol => r = s
    BY <1>10, MigrationAssumption DEF MigrationInv, Opened, ProtocolOf
  <2>2. ASSUME NEW r \in rows
        PROVE  r \in Deduplicated
    <3>1. ~RankedBefore(r, r)
      <4>1. r.id \in Nat
        BY <1>0, MigrationAssumption DEF Rows
      <4> QED BY <4>1 DEF RankedBefore
    <3> QED BY <2>1, <3>1 DEF Deduplicated
  <2>3. ASSUME NEW r \in rows
        PROVE  Migrated(r) = r
    <3>1. r \in Rows /\ "NextVerifyAt" \in columns /\ "LastDeepVerify" \in columns
      BY <1>0, <2>1 DEF Columns
    <3>2. r.deep \in BOOLEAN
      BY <3>1 DEF Rows
    <3>3. Migrated(r) = [r EXCEPT !.protocol = r.protocol, !.nextVerify = r.nextVerify, !.deep = r.deep]
      BY <2>1, <3>1, <3>2 DEF Migrated
    <3>4. r = [id |-> r.id, protocol |-> r.protocol, deleted |-> r.deleted,
               available |-> r.available, nextVerify |-> r.nextVerify, deep |-> r.deep]
      BY <3>1 DEF Rows
    <3> QED BY <3>1, <3>3, <3>4 DEF Rows
  <2> QED BY <1>1, <1>2, <2>2, <2>3
<1> QED BY <1>7, <1>8, <1>9, <1>10

\* The release that runs writes rows one at a time.
LEMMA WritesKeepRows ==
    ASSUME MigrationInv, NEW r \in rows, NEW to \in Rows, Writes(r, to),
           to.id = r.id, to.protocol = r.protocol
    PROVE  MigrationInv'
<1>1. /\ process = "up" /\ rows' = (rows \ {r}) \cup {to}
      /\ process' = process /\ columns' = columns /\ migrated' = migrated
  BY DEF Writes
<1>2. \A s \in rows : s.id = r.id \/ s.protocol = r.protocol => s = r
  BY <1>1 DEF MigrationInv, MigrationTypeOK, Opened
<1>3. r.protocol \in Protocol
  BY <1>1 DEF MigrationInv, MigrationTypeOK
<1>4. MigrationTypeOK'
  BY <1>1, <1>2, <1>3 DEF MigrationInv, MigrationTypeOK
<1>5. Opened'
  BY <1>1, <1>2, <1>3 DEF MigrationInv, Opened
<1> QED BY <1>4, <1>5 DEF MigrationInv

LEMMA MigrationInitially == MigrationInit => MigrationInv
BY DEF MigrationInit, MigrationInv, MigrationTypeOK, Opened, Columns

LEMMA MigrationStep == MigrationInv /\ [MigrationNext]_migrationVars => MigrationInv'
<1> SUFFICES ASSUME MigrationInv, [MigrationNext]_migrationVars
             PROVE  MigrationInv'
  OBVIOUS
<1>0. rows \subseteq Rows
  BY DEF MigrationInv, MigrationTypeOK
<1>1. CASE Legacy
  <2>1. PICK has \in SUBSET Columns :
          /\ columns' = has
          /\ \E ids \in SUBSET Id : \E table \in [ids -> LegacyRows(has)] :
               /\ \A i \in ids : table[i].id = i
               /\ rows' = {table[i] : i \in ids}
    BY <1>1 DEF Legacy
  <2>5. PICK ids \in SUBSET Id : \E table \in [ids -> LegacyRows(has)] :
          /\ \A i \in ids : table[i].id = i
          /\ rows' = {table[i] : i \in ids}
    BY <2>1
  <2>2. PICK table \in [ids -> LegacyRows(has)] :
          /\ \A i \in ids : table[i].id = i
          /\ rows' = {table[i] : i \in ids}
    BY <2>5
  <2>3. rows' \subseteq Rows
    BY <2>2 DEF LegacyRows
  <2>4. \A r, s \in rows' : r.id = s.id => r = s
    BY <2>2
  <2> QED BY <1>1, <2>1, <2>3, <2>4 DEF Legacy, MigrationInv, MigrationTypeOK, Opened
<1>2. CASE Migrate
  BY <1>2, MigrateIsSafe
<1>3. ASSUME NEW r \in rows, Quarantines(r)
      PROVE  MigrationInv'
  <2> DEFINE to == [r EXCEPT !.available = FALSE, !.nextVerify = "future"]
  <2>1. to \in Rows /\ to.id = r.id /\ to.protocol = r.protocol
    BY <1>0 DEF Rows
  <2>2. Writes(r, to)
    BY <1>3 DEF Quarantines
  <2> HIDE DEF to
  <2> QED BY <2>1, <2>2, WritesKeepRows
<1>4. ASSUME NEW r \in rows, DelayEnds(r)
      PROVE  MigrationInv'
  <2> DEFINE to == [r EXCEPT !.nextVerify = "past"]
  <2>1. to \in Rows /\ to.id = r.id /\ to.protocol = r.protocol
    BY <1>0 DEF Rows
  <2>2. Writes(r, to)
    BY <1>4 DEF DelayEnds
  <2> HIDE DEF to
  <2> QED BY <2>1, <2>2, WritesKeepRows
<1>5. ASSUME NEW id \in Id, NEW protocol \in Protocol, Inserts(id, protocol)
      PROVE  MigrationInv'
  <2> DEFINE new == [id |-> id, protocol |-> protocol, deleted |-> FALSE,
                     available |-> TRUE, nextVerify |-> "unset", deep |-> TRUE]
  <2>1. new \in Rows /\ new.id = id /\ new.protocol = protocol
    BY DEF Rows
  <2>2. /\ process = "up" /\ rows' = rows \cup {new}
        /\ \A r \in rows : r.id # id /\ r.protocol # protocol
        /\ process' = process /\ columns' = columns /\ migrated' = migrated
    BY <1>5 DEF Inserts
  <2> HIDE DEF new
  <2>3. MigrationTypeOK'
    BY <2>1, <2>2 DEF MigrationInv, MigrationTypeOK
  <2>4. Opened'
    BY <2>1, <2>2 DEF MigrationInv, Opened
  <2> QED BY <2>3, <2>4 DEF MigrationInv
<1>6. CASE Stops
  BY <1>6 DEF Stops, MigrationInv, MigrationTypeOK, Opened
<1>7. CASE UNCHANGED migrationVars
  BY <1>7 DEF migrationVars, MigrationInv, MigrationTypeOK, Opened
<1> QED BY <1>1, <1>2, <1>3, <1>4, <1>5, <1>6, <1>7 DEF MigrationNext

MigrationSpec == MigrationInit /\ [][MigrationNext]_migrationVars

LEMMA MigrationInvariant == MigrationSpec => []MigrationInv
BY MigrationInitially, MigrationStep, PTL DEF MigrationSpec

\* The table keeps its type, and its rows their keys.
THEOREM MigrationTypeCorrect == MigrationSpec => []MigrationTypeOK
<1>1. MigrationInv => MigrationTypeOK
  BY DEF MigrationInv
<1> QED BY <1>1, MigrationInvariant, PTL

\* Whatever database an earlier release left, with any finite number of rows, the
\* upgrade leaves one row per endpoint, keeps the newest one in use, and happens once.
THEOREM MigrationAlwaysSafe == MigrationSpec => MigrationIsSafe
<1>1. MigrationInv /\ [MigrationNext]_migrationVars =>
        [Migrate => /\ OneRowPerEndpoint'
                    /\ LiveRowsSurvive
                    /\ migrated => rows' = rows]_migrationVars
  BY MigrateIsSafe
<1> QED BY <1>1, MigrationInvariant, PTL DEF MigrationSpec, MigrationIsSafe

-----------------------------------------------------------------------------
(* OutcomeRing *)

\* Counting does not depend on the names of what is counted.
LEMMA SameCount ==
    ASSUME NEW S, NEW T, IsFiniteSet(S), NEW f \in [S -> T],
           \A x, y \in S : f[x] = f[y] => x = y,
           \A t \in T : \E x \in S : f[x] = t
    PROVE  IsFiniteSet(T) /\ Cardinality(T) = Cardinality(S)
<1>1. f \in Injection(S, T)
  BY DEF Injection, IsInjective
<1>2. f \in Surjection(S, T)
  BY DEF Surjection
<1>3. f \in Bijection(S, T)
  BY <1>1, <1>2 DEF Bijection
<1> QED BY <1>3, FS_Bijection DEF ExistsBijection

\* The places in which a sequence of results has a success.
Wins(s) == {i \in 1 .. Len(s) : s[i]}

LEMMA WinsAreFinite ==
    ASSUME NEW s \in Seq(BOOLEAN)
    PROVE  /\ IsFiniteSet(Wins(s)) /\ Cardinality(Wins(s)) \in Nat
           /\ Cardinality(Wins(s)) <= Len(s)
<1>1. Len(s) \in Nat /\ Wins(s) \subseteq 1 .. Len(s)
  BY DEF Wins
<1>2. IsFiniteSet(1 .. Len(s)) /\ Cardinality(1 .. Len(s)) = Len(s)
  <2>1. 1 \in Int /\ Len(s) \in Int
    BY <1>1
  <2>2. /\ IsFiniteSet(1 .. Len(s))
        /\ Cardinality(1 .. Len(s)) = IF 1 > Len(s) THEN 0 ELSE Len(s) - 1 + 1
    BY <2>1, FS_Interval
  <2> QED BY <2>2, <1>1
<1> QED BY <1>1, <1>2, FS_Subset, FS_CardinalityType

LEMMA ScoreOf == \A b \in BOOLEAN : Score(b) = IF b THEN 1 ELSE 0
BY DEF Score

\* One result more.
LEMMA WinsOfAppend ==
    ASSUME NEW s \in Seq(BOOLEAN), NEW success \in BOOLEAN
    PROVE  Cardinality(Wins(Append(s, success))) = Cardinality(Wins(s)) + Score(success)
<1> DEFINE t == Append(s, success)
<1>1. /\ Len(s) \in Nat /\ Len(t) = Len(s) + 1 /\ t[Len(s) + 1] = success
      /\ \A i \in 1 .. Len(s) : t[i] = s[i]
  OBVIOUS
<1> HIDE DEF t
<1>2. IsFiniteSet(Wins(s)) /\ Cardinality(Wins(s)) \in Nat
  BY WinsAreFinite
<1>3. CASE success
  <2>1. Wins(t) = Wins(s) \cup {Len(s) + 1}
    <3>1. \A i \in 1 .. Len(t) : i \in 1 .. Len(s) \/ i = Len(s) + 1
      BY <1>1
    <3>2. \A i \in 1 .. Len(s) : i \in 1 .. Len(t)
      BY <1>1
    <3>3. Len(s) + 1 \in 1 .. Len(t) /\ t[Len(s) + 1]
      BY <1>1, <1>3
    <3> QED BY <3>1, <3>2, <3>3, <1>1, Zenon DEF Wins
  <2>2. Len(s) + 1 \notin Wins(s)
    BY <1>1 DEF Wins
  <2>3. Cardinality(Wins(s) \cup {Len(s) + 1}) = Cardinality(Wins(s)) + 1
    BY <1>2, <2>2, FS_AddElement
  <2>4. Score(success) = 1
    BY <1>3 DEF Score
  <2> QED BY <2>1, <2>3, <2>4 DEF t
<1>4. CASE ~success
  <2>1. Wins(t) = Wins(s)
    BY <1>1, <1>4 DEF Wins
  <2>2. Score(success) = 0
    BY <1>4 DEF Score
  <2> QED BY <2>1, <2>2, <1>2 DEF t
<1> QED BY <1>3, <1>4

\* The oldest result less.
LEMMA WinsOfTail ==
    ASSUME NEW s \in Seq(BOOLEAN), Len(s) > 0
    PROVE  Cardinality(Wins(Tail(s))) = Cardinality(Wins(s)) - Score(s[1])
<1> DEFINE t == Tail(s)
           f == [i \in Wins(t) |-> i + 1]
<1>1. /\ Len(s) \in Nat /\ Len(t) \in Nat /\ Len(t) = Len(s) - 1 /\ t \in Seq(BOOLEAN)
      /\ \A i \in 1 .. Len(t) : t[i] = s[i + 1]
  OBVIOUS
<1> HIDE DEF t
<1>2. /\ IsFiniteSet(Wins(t)) /\ Cardinality(Wins(t)) \in Nat
      /\ IsFiniteSet(Wins(s)) /\ Cardinality(Wins(s)) \in Nat
  BY <1>1, WinsAreFinite
<1>3. f \in [Wins(t) -> Wins(s) \ {1}]
  <2> SUFFICES ASSUME NEW i \in Wins(t) PROVE i + 1 \in Wins(s) \ {1}
    OBVIOUS
  <2>1. i \in 1 .. Len(t) /\ s[i + 1]
    BY <1>1 DEF Wins
  <2> QED BY <2>1, <1>1 DEF Wins
<1>4. \A x, y \in Wins(t) : f[x] = f[y] => x = y
  BY <1>1 DEF Wins
<1>5. \A k \in Wins(s) \ {1} : \E x \in Wins(t) : f[x] = k
  <2> TAKE k \in Wins(s) \ {1}
  <2>1. k \in 1 .. Len(s) /\ k # 1 /\ s[k]
    BY DEF Wins
  <2>2. k - 1 \in 1 .. Len(t) /\ (k - 1) + 1 = k
    BY <2>1, <1>1
  <2>3. k - 1 \in Wins(t)
    BY <2>1, <2>2, <1>1 DEF Wins
  <2> QED BY <2>2, <2>3
<1>6. Cardinality(Wins(s) \ {1}) = Cardinality(Wins(t))
  <2> HIDE DEF f
  <2> QED BY <1>2, <1>3, <1>4, <1>5, SameCount
<1>7. 1 \in 1 .. Len(s)
  BY <1>1
<1>8. CASE s[1]
  <2>1. 1 \in Wins(s)
    BY <1>7, <1>8 DEF Wins
  <2>2. Cardinality(Wins(s) \ {1}) = Cardinality(Wins(s)) - 1
    BY <2>1, <1>2, FS_RemoveElement
  <2>3. Score(s[1]) = 1
    BY <1>8 DEF Score
  <2> QED BY <2>2, <2>3, <1>6 DEF t
<1>9. CASE ~s[1]
  <2>1. Wins(s) \ {1} = Wins(s)
    BY <1>9 DEF Wins
  <2>2. Score(s[1]) = 0
    <3>1. s[1] \in BOOLEAN
      BY <1>7
    <3> QED BY <3>1, <1>9, ScoreOf
  <2>3. Cardinality(Wins(t)) = Cardinality(Wins(s))
    BY <2>1, <1>6, Zenon
  <2> DEFINE gone == Score(s[1])
             before == Cardinality(Wins(s))
  <2>4. gone = 0 /\ Cardinality(Wins(t)) = before /\ before \in Nat
    BY <2>2, <2>3, <1>2
  <2>5. SUFFICES Cardinality(Wins(t)) = before - gone
    BY DEF t
  <2> HIDE DEF gone, before
  <2> QED BY <2>4
<1> QED BY <1>8, <1>9

\* Where the k-th of the last results is in the ring.
PlaceOf(k) ==
    IF recentCount < RingSize THEN k - 1
    ELSE IF recentIndex + k - 1 < RingSize THEN recentIndex + k - 1
    ELSE recentIndex + k - 1 - RingSize

\* The ring holds the last results, the oldest in the place that is taken next.
RingHolds ==
    /\ results \in Seq(BOOLEAN) /\ recentCount = Len(results)
    /\ recentCount < RingSize => recentIndex = recentCount
    /\ \A k \in 1 .. Len(results) : results[k] = recentOutcomes[PlaceOf(k)]
    /\ recentSuccess = Cardinality(Wins(results))

RingInv == RingTypeOK /\ RingHolds

LEMMA RingInitially == RingInit => RingInv
<1> SUFFICES ASSUME RingInit PROVE RingInv
  OBVIOUS
<1>1. RingSize \in Nat \ {0}
  BY RingAssumption
<1>2. Wins(results) = {}
  BY DEF RingInit, Wins
<1>3. Cardinality(Wins(results)) = 0
  BY <1>2, FS_EmptySet
<1> QED BY <1>1, <1>3 DEF RingInit, RingInv, RingTypeOK, RingHolds, Places

\* A result while the ring is not full.
LEMMA RecordIntoSpace ==
    ASSUME RingInv, NEW success \in BOOLEAN, RecordResult(success), recentCount # RingSize
    PROVE  RingInv'
<1>1. /\ RingSize \in Nat \ {0} /\ recentCount \in 0 .. RingSize - 1
      /\ recentIndex = recentCount /\ recentCount = Len(results)
      /\ results \in Seq(BOOLEAN) /\ recentOutcomes \in [Places -> BOOLEAN]
  BY RingAssumption DEF RingInv, RingTypeOK, RingHolds
<1>2. /\ recentCount' = recentCount + 1
      /\ recentSuccess' = recentSuccess + Score(success)
      /\ recentOutcomes' = [recentOutcomes EXCEPT ![recentIndex] = success]
      /\ recentIndex' = (recentIndex + 1) % RingSize
      /\ results' = Latest(Append(results, success))
  BY DEF RecordResult
<1>3. recentIndex' = IF recentCount + 1 = RingSize THEN 0 ELSE recentCount + 1
  BY <1>1, <1>2
<1>4. Len(Append(results, success)) = recentCount + 1
  BY <1>1
<1>5. results' = Append(results, success)
  BY <1>1, <1>2, <1>4 DEF Latest
<1>6. /\ results' \in Seq(BOOLEAN) /\ Len(results') = recentCount + 1
      /\ results'[recentCount + 1] = success
      /\ \A k \in 1 .. recentCount : results'[k] = results[k]
  BY <1>1, <1>5
<1>7. recentSuccess' = Cardinality(Wins(results'))
  BY <1>1, <1>2, <1>5, WinsOfAppend DEF RingInv, RingHolds
<1>8. recentSuccess' \in 0 .. recentCount'
  BY <1>2, <1>6, <1>7, WinsAreFinite
<1>9. RingTypeOK'
  BY <1>1, <1>2, <1>3, <1>8 DEF RingTypeOK, Places
<1>10. \A k \in 1 .. recentCount + 1 : PlaceOf(k)' = k - 1
  BY <1>1, <1>2, <1>3 DEF PlaceOf
<1>11. ASSUME NEW k \in 1 .. recentCount + 1
       PROVE  results'[k] = recentOutcomes'[k - 1]
  <2>1. k - 1 \in Places
    BY <1>1 DEF Places
  <2>2. CASE k = recentCount + 1
    BY <2>1, <2>2, <1>1, <1>2, <1>6
  <2>3. CASE k # recentCount + 1
    <3>1. k \in 1 .. recentCount /\ k - 1 # recentIndex /\ PlaceOf(k) = k - 1
      BY <2>3, <1>1 DEF PlaceOf
    <3>2. results[k] = recentOutcomes[k - 1]
      BY <3>1, <1>1 DEF RingInv, RingHolds
    <3>3. recentOutcomes'[k - 1] = recentOutcomes[k - 1]
      BY <2>1, <3>1, <1>1, <1>2
    <3> QED BY <3>1, <3>2, <3>3, <1>6
  <2> QED BY <2>2, <2>3
<1>12. RingHolds'
  <2>1. \A k \in 1 .. Len(results') : results'[k] = recentOutcomes'[PlaceOf(k)']
    BY <1>6, <1>10, <1>11
  <2>2. recentCount' < RingSize => recentIndex' = recentCount'
    BY <1>1, <1>2, <1>3
  <2> QED BY <2>1, <2>2, <1>2, <1>6, <1>7 DEF RingHolds
<1> QED BY <1>9, <1>12 DEF RingInv

\* A result that takes the place of the oldest one.
LEMMA RecordOverOldest ==
    ASSUME RingInv, NEW success \in BOOLEAN, RecordResult(success), recentCount = RingSize
    PROVE  RingInv'
<1>1. /\ RingSize \in Nat \ {0} /\ recentIndex \in 0 .. RingSize - 1
      /\ RingSize = Len(results)
      /\ results \in Seq(BOOLEAN) /\ recentOutcomes \in [Places -> BOOLEAN]
  BY RingAssumption DEF RingInv, RingTypeOK, RingHolds, Places
<1>2. /\ recentCount' = RingSize
      /\ recentSuccess' = recentSuccess + Score(success) - Score(recentOutcomes[recentIndex])
      /\ recentOutcomes' = [recentOutcomes EXCEPT ![recentIndex] = success]
      /\ recentIndex' = (recentIndex + 1) % RingSize
      /\ results' = Latest(Append(results, success))
  BY DEF RecordResult
<1>3. recentIndex' = IF recentIndex + 1 = RingSize THEN 0 ELSE recentIndex + 1
  BY <1>1, <1>2
<1> DEFINE longer == Append(results, success)
<1>4. /\ longer \in Seq(BOOLEAN) /\ Len(longer) = RingSize + 1
      /\ longer[RingSize + 1] = success
      /\ \A k \in 1 .. RingSize : longer[k] = results[k]
  BY <1>1
<1>5. Cardinality(Wins(longer)) = recentSuccess + Score(success)
  BY <1>1, WinsOfAppend DEF RingInv, RingHolds
<1>6. results' = Tail(longer)
  BY <1>1, <1>2, <1>4 DEF Latest
<1> HIDE DEF longer
<1>7. /\ results' \in Seq(BOOLEAN) /\ Len(results') = RingSize
      /\ \A k \in 1 .. RingSize : results'[k] = longer[k + 1]
  BY <1>1, <1>4, <1>6
<1>8. longer[1] = recentOutcomes[recentIndex]
  <2>1. 1 \in 1 .. Len(results) /\ PlaceOf(1) = recentIndex
    BY <1>1 DEF PlaceOf
  <2> QED BY <2>1, <1>1, <1>4 DEF RingInv, RingHolds
<1>9. recentSuccess' = Cardinality(Wins(results'))
  <2>1. Cardinality(Wins(Tail(longer))) = Cardinality(Wins(longer)) - Score(longer[1])
    <3>1. Len(longer) > 0
      BY <1>1, <1>4
    <3>2. longer \in Seq(BOOLEAN)
      BY <1>4
    <3> QED BY <3>1, <3>2, WinsOfTail
  <2> DEFINE gone == Score(recentOutcomes[recentIndex])
             before == Cardinality(Wins(longer))
  <2>2. Score(longer[1]) = gone
    BY <1>8
  <2>3. recentSuccess' = before - gone
    <3> DEFINE come == Score(success)
    <3>1. before = recentSuccess + come
      BY <1>5
    <3>2. recentSuccess' = recentSuccess + come - gone
      BY <1>2
    <3>3. recentSuccess \in Int /\ come \in Int /\ gone \in Int
      BY DEF RingInv, RingTypeOK, Score
    <3> HIDE DEF gone, before, come
    <3> QED BY <3>1, <3>2, <3>3
  <2>4. Cardinality(Wins(results')) = before - Score(longer[1])
    BY <2>1, <1>6
  <2> HIDE DEF gone, before
  <2> QED BY <2>2, <2>3, <2>4
<1>10. recentSuccess' \in 0 .. recentCount'
  BY <1>2, <1>7, <1>9, WinsAreFinite
<1>11. RingTypeOK'
  BY <1>1, <1>2, <1>3, <1>10 DEF RingTypeOK, Places
<1>12. ASSUME NEW k \in 1 .. RingSize
       PROVE  results'[k] = recentOutcomes'[PlaceOf(k)']
  <2>1. PlaceOf(k)' = IF recentIndex' + k - 1 < RingSize THEN recentIndex' + k - 1
                      ELSE recentIndex' + k - 1 - RingSize
    BY <1>1, <1>2 DEF PlaceOf
  <2>2. CASE k = RingSize
    <3>1. PlaceOf(k)' = recentIndex
      BY <2>1, <2>2, <1>1, <1>3
    <3>2. recentOutcomes'[recentIndex] = success
      BY <1>1, <1>2 DEF Places
    <3> QED BY <3>1, <3>2, <2>2, <1>1, <1>4, <1>7
  <2>3. CASE k # RingSize
    <3>1. k + 1 \in 1 .. RingSize
      BY <2>3, <1>1
    <3>2. PlaceOf(k + 1) = IF recentIndex + k < RingSize THEN recentIndex + k
                           ELSE recentIndex + k - RingSize
      BY <1>1 DEF PlaceOf
    <3>3. PlaceOf(k)' = PlaceOf(k + 1) /\ PlaceOf(k + 1) \in Places /\ PlaceOf(k + 1) # recentIndex
      BY <2>1, <3>1, <3>2, <1>1, <1>3 DEF Places
    <3>4. results[k + 1] = recentOutcomes[PlaceOf(k + 1)]
      BY <3>1, <1>1 DEF RingInv, RingHolds
    <3>5. recentOutcomes'[PlaceOf(k + 1)] = recentOutcomes[PlaceOf(k + 1)]
      BY <3>3, <1>1, <1>2
    <3>6. results'[k] = results[k + 1]
      BY <3>1, <1>4, <1>7
    <3> QED BY <3>3, <3>4, <3>5, <3>6
  <2> QED BY <2>2, <2>3
<1>13. RingHolds'
  <2>1. ~(recentCount' < RingSize)
    BY <1>1, <1>2
  <2> QED BY <2>1, <1>2, <1>7, <1>9, <1>12 DEF RingHolds
<1> QED BY <1>11, <1>13 DEF RingInv

LEMMA RingStep == RingInv /\ [RingNext]_ringVars => RingInv'
<1> SUFFICES ASSUME RingInv, [RingNext]_ringVars
             PROVE  RingInv'
  OBVIOUS
<1>1. CASE RingNext
  BY <1>1, RecordIntoSpace, RecordOverOldest DEF RingNext
<1>2. CASE UNCHANGED ringVars
  BY <1>2 DEF ringVars, ring, RingInv, RingTypeOK, RingHolds, PlaceOf
<1> QED BY <1>1, <1>2

RingSpec == RingInit /\ [][RingNext]_ringVars

LEMMA RingInvariant == RingSpec => []RingInv
BY RingInitially, RingStep, PTL DEF RingSpec

\* The counters count the last results, for rings of every size.
LEMMA RingIsExact == RingInv => RecentIsExact
<1>1. Wins(results) = {i \in 1 .. Len(results) : results[i]}
  BY DEF Wins
<1> QED BY <1>1 DEF RingInv, RingHolds, RecentIsExact

-----------------------------------------------------------------------------
(* The limit of a source, by the divisors its yield allows. *)

\* The greatest element, once one is known to be.
LEMMA MaxIs ==
    ASSUME NEW S, S \subseteq Int, NEW m \in S, \A y \in S : m >= y
    PROVE  Max(S) = m
<1> DEFINE Great(x) == \A y \in S : x >= y
<1>1. Max(S) = CHOOSE x \in S : Great(x)
  BY DEF Max
<1>2. m \in S /\ Great(m)
  OBVIOUS
<1>3. ASSUME NEW x \in S, Great(x) PROVE x = m
  <2>1. x >= m /\ m >= x /\ x \in Int /\ m \in Int
    BY <1>3
  <2> QED BY <2>1
<1> HIDE DEF Great
<1>4. (CHOOSE x \in S : Great(x)) \in S /\ Great(CHOOSE x \in S : Great(x))
  BY <1>2, Zenon
<1> QED BY <1>1, <1>3, <1>4

LEMMA MaxOfTwo ==
    ASSUME NEW a \in Int, NEW b \in Int
    PROVE  Max({a, b}) = IF a >= b THEN a ELSE b
<1>1. CASE a >= b
  <2>1. Max({a, b}) = a
    BY <1>1, MaxIs
  <2> QED BY <1>1, <2>1
<1>2. CASE ~(a >= b)
  <2>1. Max({a, b}) = b
    BY <1>2, MaxIs
  <2> QED BY <1>2, <2>1
<1> QED BY <1>1, <1>2

\* By what the limit is divided, with the product of successes and samples written
\* once.
LEMMA DivisorsAre ==
    ASSUME NEW count \in Nat, NEW success \in Nat
    PROVE  Divisors(count, success) =
             {1} \cup {d \in {2, 4, 8} : count >= Samples
                                         /\ (d \div 2) * (success * Samples) < count}
<1>1. Samples \in Nat
  BY RingAssumption
<1>2. \A d \in {2, 4, 8} : success * (d \div 2) * Samples = (d \div 2) * (success * Samples)
  <2>1. /\ 2 \div 2 = 1 /\ 4 \div 2 = 2 /\ 8 \div 2 = 4
    BY SMT
  <2>2. /\ success * 1 * Samples = 1 * (success * Samples)
        /\ success * 2 * Samples = 2 * (success * Samples)
        /\ success * 4 * Samples = 4 * (success * Samples)
    BY <1>1, SMT
  <2> QED BY <2>1, <2>2
<1>3. \A d \in {2, 4, 8} :
        (success * (d \div 2) * Samples < count) <=> ((d \div 2) * (success * Samples) < count)
  BY <1>2
<1> QED BY <1>3, Zenon DEF Divisors

\* The largest of them, as a step function.
Greatest(judged, p, count) ==
    IF ~judged THEN 1
    ELSE IF 4 * p < count THEN 8 ELSE IF 2 * p < count THEN 4 ELSE IF p < count THEN 2 ELSE 1

LEMMA GreatestDivisor ==
    ASSUME NEW count \in Nat, NEW success \in Nat
    PROVE  Max(Divisors(count, success)) = Greatest(count >= Samples, success * Samples, count)
<1> DEFINE p == success * Samples
           D == Divisors(count, success)
<1>1. Samples \in Nat /\ p \in Nat
  BY RingAssumption, SMT
<1>2. D = {1} \cup {d \in {2, 4, 8} : count >= Samples /\ (d \div 2) * p < count}
  BY DivisorsAre
<1>3. /\ 1 \in D /\ D \subseteq {1, 2, 4, 8}
      /\ 2 \in D <=> count >= Samples /\ p < count
      /\ 4 \in D <=> count >= Samples /\ 2 * p < count
      /\ 8 \in D <=> count >= Samples /\ 4 * p < count
  <2> HIDE DEF p, D
  <2>1. 2 \div 2 = 1 /\ 4 \div 2 = 2 /\ 8 \div 2 = 4
    BY SMT
  <2> QED BY <2>1, <1>1, <1>2
<1> DEFINE G == Greatest(count >= Samples, p, count)
<1>4. G \in D /\ \A y \in D : G >= y
  <2> HIDE DEF p, D
  <2> QED BY <1>1, <1>3 DEF Greatest
<1>5. D \subseteq Int
  BY <1>3
<1> HIDE DEF G, D
<1>6. Max(D) = G
  BY <1>4, <1>5, MaxIs
<1> QED BY <1>6 DEF G, D

\* A smaller divisor leaves a larger limit.
LEMMA LimitOfDivisor ==
    ASSUME NEW m \in {1, 2, 4, 8}, NEW n \in {1, 2, 4, 8}, n <= m
    PROVE  /\ Max({1, MaxPerFetch \div n}) >= 1
           /\ Max({1, MaxPerFetch \div n}) >= Max({1, MaxPerFetch \div m})
<1>1. MaxPerFetch \in Nat
  BY RingAssumption
<1>2. /\ MaxPerFetch \div n \in Nat /\ MaxPerFetch \div m \in Nat
      /\ MaxPerFetch \div n >= MaxPerFetch \div m
  <2>1. CASE m = 1
    BY <2>1, <1>1
  <2>2. CASE m = 2
    BY <2>2, <1>1
  <2>3. CASE m = 4
    BY <2>3, <1>1
  <2>4. CASE m = 8
    BY <2>4, <1>1
  <2> QED BY <2>1, <2>2, <2>3, <2>4
<1> DEFINE a == MaxPerFetch \div n
           b == MaxPerFetch \div m
<1>3. Max({1, a}) = (IF 1 >= a THEN 1 ELSE a) /\ Max({1, b}) = (IF 1 >= b THEN 1 ELSE b)
  BY <1>2, MaxOfTwo
<1>4. a \in Nat /\ b \in Nat /\ a >= b
  BY <1>2
<1> HIDE DEF a, b
<1>5. Max({1, a}) >= 1 /\ Max({1, a}) >= Max({1, b})
  BY <1>3, <1>4
<1> QED BY <1>5 DEF a, b

\* More successes, among as many results or one more, make no divisor larger; nor does
\* a success that completes the samples.
LEMMA SuccessDividesLess ==
    ASSUME NEW count \in Nat, NEW success \in Nat, NEW count2 \in Nat, NEW success2 \in Nat,
           \/ count2 = count /\ success2 >= success
           \/ count2 = count + 1 /\ success2 = success + 1
    PROVE  Greatest(count2 >= Samples, success2 * Samples, count2)
             <= Greatest(count >= Samples, success * Samples, count)
<1> DEFINE p == success * Samples
           q == success2 * Samples
<1>1. Samples \in Nat \ {0} /\ p \in Nat /\ q \in Nat
  BY RingAssumption, SMT
<1>2. CASE count2 = count /\ success2 >= success
  <2>1. q >= p
    BY <1>1, <1>2, SMT
  <2> HIDE DEF p, q
  <2>2. Greatest(count2 >= Samples, q, count2) <= Greatest(count >= Samples, p, count)
    BY <1>1, <1>2, <2>1 DEF Greatest
  <2> QED BY <2>2 DEF p, q
<1>3. CASE count2 = count + 1 /\ success2 = success + 1
  <2>1. q = p + Samples
    BY <1>1, <1>3, SMT
  <2> HIDE DEF p, q
  <2>2. Greatest(count2 >= Samples, q, count2) <= Greatest(count >= Samples, p, count)
    BY <1>1, <1>3, <2>1 DEF Greatest
  <2> QED BY <2>2 DEF p, q
<1> QED BY <1>2, <1>3

LEMMA LimitStep ==
    ASSUME RingInv, RingNext
    PROVE  /\ SourceLimit(recentCount', recentSuccess') >= 1
           /\ RecordResult(TRUE) =>
                SourceLimit(recentCount', recentSuccess') >= SourceLimit(recentCount, recentSuccess)
<1>1. RingInv'
  BY RingStep
<1>2. /\ recentCount \in Nat /\ recentSuccess \in Nat /\ recentCount' \in Nat /\ recentSuccess' \in Nat
  <2>1. RingSize \in Nat
    BY RingAssumption
  <2> QED BY <2>1, <1>1 DEF RingInv, RingTypeOK
<1> DEFINE m == Max(Divisors(recentCount, recentSuccess))
           n == Max(Divisors(recentCount', recentSuccess'))
<1>3. /\ m = Greatest(recentCount >= Samples, recentSuccess * Samples, recentCount)
      /\ n = Greatest(recentCount' >= Samples, recentSuccess' * Samples, recentCount')
  BY <1>2, GreatestDivisor
<1>4. m \in {1, 2, 4, 8} /\ n \in {1, 2, 4, 8}
  BY <1>3 DEF Greatest
<1>5. /\ SourceLimit(recentCount, recentSuccess) = Max({1, MaxPerFetch \div m})
      /\ SourceLimit(recentCount', recentSuccess') = Max({1, MaxPerFetch \div n})
  BY DEF SourceLimit
<1> HIDE DEF m, n
<1>6. SourceLimit(recentCount', recentSuccess') >= 1
  <2>1. n <= n
    BY <1>4
  <2>2. Max({1, MaxPerFetch \div n}) >= 1
    BY <1>4, <2>1, LimitOfDivisor
  <2> QED BY <1>5, <2>2
<1>7. ASSUME RecordResult(TRUE)
      PROVE  n <= m
  <2>1. \/ recentCount' = recentCount /\ recentSuccess' >= recentSuccess
        \/ recentCount' = recentCount + 1 /\ recentSuccess' = recentSuccess + 1
    <3>1. Score(TRUE) = 1 /\ Score(recentOutcomes[recentIndex]) \in {0, 1}
      BY DEF Score
    <3>2. CASE recentCount = RingSize
      <4> DEFINE gone == Score(recentOutcomes[recentIndex])
      <4>1. recentCount' = recentCount /\ recentSuccess' = recentSuccess + 1 - gone
        BY <1>7, <3>1, <3>2 DEF RecordResult
      <4>2. gone \in {0, 1}
        BY <3>1
      <4> HIDE DEF gone
      <4> QED BY <4>1, <4>2, <1>2
    <3>3. CASE recentCount # RingSize
      BY <1>7, <3>1, <3>3 DEF RecordResult
    <3> QED BY <3>2, <3>3
  <2> QED BY <2>1, <1>2, <1>3, SuccessDividesLess
<1>8. RecordResult(TRUE) => Max({1, MaxPerFetch \div n}) >= Max({1, MaxPerFetch \div m})
  BY <1>4, <1>7, LimitOfDivisor
<1> QED BY <1>5, <1>6, <1>8

\* A success never lowers the number of candidates a source may offer, and the number
\* is never nought: for every size of the ring, of the sample and of the limit
\* (sourceCandidateLimit).
THEOREM SuccessNeverEverCosts == RingSpec => SuccessNeverCosts
<1>1. RingInv /\ [RingNext]_ringVars =>
        [/\ SourceLimit(recentCount', recentSuccess') >= 1
         /\ RecordResult(TRUE) =>
              SourceLimit(recentCount', recentSuccess') >= SourceLimit(recentCount, recentSuccess)
        ]_ringVars
  BY LimitStep
<1> QED BY <1>1, RingInvariant, PTL DEF RingSpec, SuccessNeverCosts

-----------------------------------------------------------------------------
(* Sources *)

Endpoints == [ip : Address, port : Port, protocol : Scheme]

\* How far a round has come, by what it has tried.
Tried ==
    /\ round = "loading" => source = Absent /\ attempts = << >> /\ offered = << >>
    /\ round # "loading" => source \in [kind : Kinds, protocol : Scheme]
    /\ round = "script" => source.kind = "script"
    /\ round \in {"direct", "fallback", "proxied", "parse"} => source.kind \in {"text", "json"}
    /\ round \in {"direct", "fallback", "proxied"} =>
         \A i \in 1 .. Len(attempts) : attempts[i] = "direct"
    /\ round = "direct" => Len(attempts) < Retries
    /\ round \in {"fallback", "proxied"} => Len(attempts) = Retries
    /\ round = "proxied" => fallback

SourcesInv == SourcesTypeOK /\ OneProxyTry /\ WholeDocument /\ Tried

\* The columns of a document: values of a field, and none that is missing.
LEMMA ColumnValues ==
    ASSUME NEW doc \in Seq(Entry), NEW field \in {"ip", "port", "protocol"}
    PROVE  /\ Len(Column(doc, field)) \in Nat
           /\ \A i \in 1 .. Len(Column(doc, field)) :
                \E x \in Entry : x[field] # Absent /\ Column(doc, field)[i] = x[field]
<1> DEFINE having == Only(doc, {x \in Entry : x[field] # Absent})
<1>1. /\ having \in Seq(Entry)
      /\ \A k \in 1 .. Len(having) : having[k] \in {x \in Entry : x[field] # Absent}
  BY OnlyKeeps
<1>2. Column(doc, field) = [i \in 1 .. Len(having) |-> having[i][field]]
  BY DEF Column
<1> HIDE DEF having
<1>3. Len(Column(doc, field)) = Len(having) /\ Len(having) \in Nat
  BY <1>1, <1>2
<1> QED BY <1>1, <1>2, <1>3

LEMMA ColumnTypes ==
    ASSUME NEW doc \in Seq(Entry)
    PROVE  /\ \A i \in 1 .. Len(Column(doc, "ip")) : Column(doc, "ip")[i] \in Address
           /\ \A i \in 1 .. Len(Column(doc, "port")) : Column(doc, "port")[i] \in Port
           /\ \A i \in 1 .. Len(Column(doc, "protocol")) : Column(doc, "protocol")[i] \in Scheme
<1>1. \A x \in Entry : /\ x["ip"] # Absent => x["ip"] \in Address
                       /\ x["port"] # Absent => x["port"] \in Port
                       /\ x["protocol"] # Absent => x["protocol"] \in Scheme
  BY DEF Entry
<1>2. \A field \in {"ip", "port", "protocol"} : \A i \in 1 .. Len(Column(doc, field)) :
        \E x \in Entry : x[field] # Absent /\ Column(doc, field)[i] = x[field]
  BY ColumnValues
<1> QED BY <1>1, <1>2

\* An endpoint of a list has an address, a port and a protocol.
LEMMA EndpointIsOne ==
    ASSUME source \in [kind : Kinds, protocol : Scheme], NEW ip \in Address, NEW port \in Port,
           NEW protocol \in Scheme \cup {Absent}
    PROVE  EndpointOf(ip, port, protocol) \in Endpoints
BY DEF EndpointOf, Endpoints

LEMMA ParsedText ==
    ASSUME source \in [kind : Kinds, protocol : Scheme], NEW doc \in Seq(Entry)
    PROVE  ParseText(doc) \in Seq(Endpoints)
<1> DEFINE good == Only(doc, Listed)
<1>1. /\ good \in Seq(Entry)
      /\ \A k \in 1 .. Len(good) : good[k] \in Listed
  BY OnlyKeeps
<1>2. ParseText(doc) =
        [i \in 1 .. Len(good) |-> EndpointOf(good[i].ip, good[i].port, good[i].protocol)]
  BY DEF ParseText
<1> HIDE DEF good
<1>3. \A i \in 1 .. Len(good) : EndpointOf(good[i].ip, good[i].port, good[i].protocol) \in Endpoints
  <2> TAKE i \in 1 .. Len(good)
  <2>1. /\ good[i].ip \in Address /\ good[i].port \in Port
        /\ good[i].protocol \in Scheme \cup {Absent}
    BY <1>1 DEF Listed, Entry
  <2> QED BY <2>1, EndpointIsOne
<1>4. Len(good) \in Nat
  BY <1>1
<1> QED BY <1>2, <1>3, <1>4

LEMMA ParsedJSON ==
    ASSUME source \in [kind : Kinds, protocol : Scheme], NEW doc \in Seq(Entry)
    PROVE  ParseJSON(doc) \in Seq(Endpoints)
<1> DEFINE ips == Column(doc, "ip")
           ports == Column(doc, "port")
           protocols == Column(doc, "protocol")
           count == IF Len(ports) < Len(ips) THEN Len(ports) ELSE Len(ips)
           at(i) == EndpointOf(ips[i], ports[i], IF i <= Len(protocols) THEN protocols[i] ELSE Absent)
<1>1. ParseJSON(doc) = [i \in 1 .. count |-> at(i)]
  BY DEF ParseJSON
<1>2. Len(ips) \in Nat /\ Len(ports) \in Nat /\ Len(protocols) \in Nat
  BY ColumnValues
<1>3. count \in Nat
  BY <1>2
<1>4. /\ \A i \in 1 .. Len(ips) : ips[i] \in Address
      /\ \A i \in 1 .. Len(ports) : ports[i] \in Port
      /\ \A i \in 1 .. Len(protocols) : protocols[i] \in Scheme
  BY ColumnTypes
<1> HIDE DEF ips, ports, protocols
<1>5. \A i \in 1 .. count : at(i) \in Endpoints
  <2> TAKE i \in 1 .. count
  <2>1. i \in 1 .. Len(ips) /\ i \in 1 .. Len(ports)
    BY <1>2
  <2>2. (IF i <= Len(protocols) THEN protocols[i] ELSE Absent) \in Scheme \cup {Absent}
    BY <1>2, <1>4
  <2> QED BY <2>1, <2>2, <1>4, EndpointIsOne
<1> HIDE DEF count, at
<1> QED BY <1>1, <1>3, <1>5

\* Entries with the same fields: the columns are the document's.
LEMMA UniformColumn ==
    ASSUME NEW doc \in Seq(Entry), Uniform(doc), NEW field \in {"ip", "port", "protocol"},
           NEW i \in 1 .. Len(doc)
    PROVE  Column(doc, field) = IF doc[i][field] = Absent THEN << >>
                                ELSE [k \in 1 .. Len(doc) |-> doc[k][field]]
<1> DEFINE Having == {x \in Entry : x[field] # Absent}
<1>1. \A j \in 1 .. Len(doc) : doc[j] \in Entry /\ ((doc[j][field] = Absent) <=> (doc[i][field] = Absent))
  BY DEF Uniform
<1>2. CASE doc[i][field] = Absent
  <2>1. \A j \in 1 .. Len(doc) : doc[j] \notin Having
    BY <1>1, <1>2
  <2> HIDE DEF Having
  <2>2. Only(doc, Having) = << >>
    BY <2>1, OnlyNone
  <2>3. Column(doc, field) = << >>
    <3> DEFINE column == Column(doc, field)
    <3>1. column = [k \in 1 .. Len(<< >>) |-> << >>[k][field]]
      BY <2>2 DEF Column, Having
    <3>2. Len(<< >>) = 0 /\ 1 .. 0 = {}
      OBVIOUS
    <3>3. column \in Seq({}) /\ Len(column) = 0
      BY <3>1, <3>2
    <3> HIDE DEF column
    <3>4. column = << >>
      BY <3>3
    <3> QED BY <3>4 DEF column
  <2> QED BY <2>3, <1>2
<1>3. CASE doc[i][field] # Absent
  <2>1. \A j \in 1 .. Len(doc) : doc[j] \in Having
    BY <1>1, <1>3
  <2> HIDE DEF Having
  <2>2. Only(doc, Having) = doc
    BY <2>1, OnlyAll
  <2>3. Column(doc, field) = [k \in 1 .. Len(doc) |-> doc[k][field]]
    BY <2>2 DEF Column, Having
  <2> QED BY <2>3, <1>3
<1> QED BY <1>2, <1>3

\* Lists whose entries have the same fields keep them together.
LEMMA UniformIsKept ==
    ASSUME NEW doc \in Seq(Entry), Uniform(doc), NEW i \in 1 .. Len(doc),
           doc[i].ip # Absent, doc[i].port # Absent
    PROVE  /\ ParseText(doc)[i] = EndpointOf(doc[i].ip, doc[i].port, doc[i].protocol)
           /\ ParseJSON(doc)[i] = EndpointOf(doc[i].ip, doc[i].port, doc[i].protocol)
<1>1. \A j \in 1 .. Len(doc) : doc[j] \in Entry /\ doc[j].ip # Absent /\ doc[j].port # Absent
  BY DEF Uniform
<1>2. ParseText(doc)[i] = EndpointOf(doc[i].ip, doc[i].port, doc[i].protocol)
  <2>1. \A j \in 1 .. Len(doc) : doc[j] \in Listed
    BY <1>1 DEF Listed
  <2>2. Only(doc, Listed) = doc
    BY <2>1, OnlyAll
  <2> QED BY <2>2 DEF ParseText
<1>3. ParseJSON(doc)[i] = EndpointOf(doc[i].ip, doc[i].port, doc[i].protocol)
  <2> DEFINE ips == Column(doc, "ip")
             ports == Column(doc, "port")
             protocols == Column(doc, "protocol")
             count == IF Len(ports) < Len(ips) THEN Len(ports) ELSE Len(ips)
             at(k) == EndpointOf(ips[k], ports[k], IF k <= Len(protocols) THEN protocols[k] ELSE Absent)
  <2>1. ParseJSON(doc) = [k \in 1 .. count |-> at(k)]
    BY DEF ParseJSON
  <2>2. Len(doc) \in Nat
    OBVIOUS
  <2>3. /\ ips = [k \in 1 .. Len(doc) |-> doc[k].ip]
        /\ ports = [k \in 1 .. Len(doc) |-> doc[k].port]
    BY UniformColumn
  <2>4. protocols = IF doc[i].protocol = Absent THEN << >>
                    ELSE [k \in 1 .. Len(doc) |-> doc[k].protocol]
    BY UniformColumn
  <2> HIDE DEF ips, ports, protocols
  <2>5. Len(ips) = Len(doc) /\ Len(ports) = Len(doc)
    BY <2>2, <2>3
  <2>6. ips[i] = doc[i].ip /\ ports[i] = doc[i].port
    BY <2>3
  <2>7. (IF i <= Len(protocols) THEN protocols[i] ELSE Absent) = doc[i].protocol
    BY <2>2, <2>4
  <2>8. i \in 1 .. count
    BY <2>5
  <2>9. at(i) = EndpointOf(doc[i].ip, doc[i].port, doc[i].protocol)
    BY <2>6, <2>7
  <2> HIDE DEF count, at
  <2> QED BY <2>1, <2>8, <2>9
<1> QED BY <1>2, <1>3

LEMMA FieldsAlwaysTogether == FieldsStayTogether
<1> SUFFICES ASSUME NEW doc \in Document, Uniform(doc), NEW i \in 1 .. Len(doc),
                    doc[i].ip # Absent, doc[i].port # Absent
             PROVE  \A endpoints \in {ParseText(doc), ParseJSON(doc)} :
                      endpoints[i] = EndpointOf(doc[i].ip, doc[i].port, doc[i].protocol)
  BY DEF FieldsStayTogether
<1>1. doc \in Seq(Entry)
  BY SourcesAssumption
<1> QED BY <1>1, UniformIsKept

\* What is read of a document that is accepted is all of it.
LEMMA AcceptedIsWhole ==
    ASSUME NEW doc \in Document, Accepted(doc)
    PROVE  /\ sent' = doc /\ body' = doc /\ doc \in Seq(Entry)
           /\ Len(doc) <= BodyLimit /\ round' = "parse"
<1>1. doc \in Seq(Entry) /\ Len(doc) \in Nat /\ BodyLimit \in Nat
  BY SourcesAssumption
<1>2. sent' = doc /\ body' = Read(doc) /\ round' = "parse" /\ Len(Read(doc)) <= BodyLimit
  BY DEF Accepted
<1> DEFINE most == IF Len(doc) < BodyLimit + 1 THEN Len(doc) ELSE BodyLimit + 1
<1>3. Read(doc) = SubSeq(doc, 1, most) /\ most \in 0 .. Len(doc)
  BY <1>1 DEF Read
<1>4. Len(SubSeq(doc, 1, most)) = most
  <2> HIDE DEF most
  <2> QED BY <1>1, <1>3
<1>5. most = Len(doc) /\ Len(doc) <= BodyLimit
  BY <1>1, <1>2, <1>3, <1>4
<1>6. SubSeq(doc, 1, Len(doc)) = doc
  BY <1>1
<1> HIDE DEF most
<1> QED BY <1>1, <1>2, <1>3, <1>5, <1>6

LEMMA SourcesInitially == SourcesInit => SourcesInv
<1> SUFFICES ASSUME SourcesInit PROVE SourcesInv
  OBVIOUS
<1>1. SourcesTypeOK
  <2>1. status \in [fetched : BOOLEAN, count : Nat, failed : BOOLEAN]
    BY DEF SourcesInit
  <2>2. /\ attempts \in Seq({"direct", "proxied"}) /\ body \in Seq(Entry) /\ offered \in Seq(Entry)
        /\ 1 .. Len(offered) = {}
    BY DEF SourcesInit
  <2>3. round \in Rounds
    BY DEF SourcesInit, Rounds
  <2> QED BY <2>1, <2>2, <2>3 DEF SourcesInit, SourcesTypeOK
<1>2. OneProxyTry /\ WholeDocument /\ Tried
  BY SourcesAssumption DEF SourcesInit, OneProxyTry, WholeDocument, Tried
<1> QED BY <1>1, <1>2 DEF SourcesInv

\* One more attempt.
LEMMA AttemptsAppend ==
    ASSUME NEW s \in Seq({"direct", "proxied"}), NEW way \in {"direct", "proxied"}
    PROVE  /\ Append(s, way) \in Seq({"direct", "proxied"})
           /\ Len(s) \in Nat /\ Len(Append(s, way)) = Len(s) + 1
           /\ Append(s, way)[Len(s) + 1] = way
           /\ \A i \in 1 .. Len(s) : Append(s, way)[i] = s[i]
OBVIOUS

LEMMA DirectKeeps == SourcesInv /\ DirectAttempt => SourcesInv'
<1> SUFFICES ASSUME SourcesInv, DirectAttempt PROVE SourcesInv'
  OBVIOUS
<1>1. /\ round = "direct" /\ attempts' = Append(attempts, "direct")
      /\ source' = source /\ fallback' = fallback /\ status' = status /\ offered' = offered
  BY DEF DirectAttempt
<1>2. /\ attempts \in Seq({"direct", "proxied"}) /\ Len(attempts) < Retries /\ Retries \in Nat
      /\ source \in [kind : Kinds, protocol : Scheme] /\ source.kind \in {"text", "json"}
      /\ \A i \in 1 .. Len(attempts) : attempts[i] = "direct"
  BY <1>1, SourcesAssumption DEF SourcesInv, SourcesTypeOK, Tried
<1>3. /\ attempts' \in Seq({"direct", "proxied"}) /\ Len(attempts') = Len(attempts) + 1
      /\ \A i \in 1 .. Len(attempts') : attempts'[i] = "direct"
  <2>1. \A i \in 1 .. Len(attempts) + 1 : i = Len(attempts) + 1 \/ i \in 1 .. Len(attempts)
    BY <1>2
  <2> QED BY <2>1, <1>1, <1>2, AttemptsAppend
<1>4. OneProxyTry'
  BY <1>2, <1>3 DEF OneProxyTry
<1>5. CASE \E doc \in Document : Accepted(doc)
  <2>1. PICK doc \in Document : Accepted(doc)
    BY <1>5
  <2>2. /\ sent' = doc /\ body' = doc /\ doc \in Seq(Entry)
        /\ Len(doc) <= BodyLimit /\ round' = "parse"
    BY <2>1, AcceptedIsWhole
  <2>3. SourcesTypeOK'
    BY <1>1, <1>3, <2>2 DEF SourcesInv, SourcesTypeOK, Rounds
  <2>4. WholeDocument' /\ Tried'
    BY <1>1, <1>2, <1>3, <2>2 DEF WholeDocument, Tried
  <2> QED BY <1>4, <2>3, <2>4 DEF SourcesInv
<1>6. CASE Refused /\ round' = IF Len(attempts') < Retries THEN "direct" ELSE "fallback"
  <2>1. sent' = sent /\ body' = body
    BY <1>6 DEF Refused
  <2>2. SourcesTypeOK'
    BY <1>1, <1>3, <1>6, <2>1 DEF SourcesInv, SourcesTypeOK, Rounds
  <2>3. WholeDocument' /\ Tried'
    BY <1>1, <1>2, <1>3, <1>6, <2>1 DEF WholeDocument, Tried
  <2> QED BY <1>4, <2>2, <2>3 DEF SourcesInv
<1> QED BY <1>5, <1>6 DEF DirectAttempt

LEMMA ProxiedKeeps == SourcesInv /\ ProxiedAttempt => SourcesInv'
<1> SUFFICES ASSUME SourcesInv, ProxiedAttempt PROVE SourcesInv'
  OBVIOUS
<1>1. /\ round = "proxied" /\ attempts' = Append(attempts, "proxied")
      /\ source' = source /\ fallback' = fallback /\ status' = status /\ offered' = offered
  BY DEF ProxiedAttempt
<1>2. /\ attempts \in Seq({"direct", "proxied"}) /\ Len(attempts) = Retries /\ Retries \in Nat
      /\ fallback /\ source \in [kind : Kinds, protocol : Scheme] /\ source.kind \in {"text", "json"}
      /\ \A i \in 1 .. Len(attempts) : attempts[i] = "direct"
  BY <1>1, SourcesAssumption DEF SourcesInv, SourcesTypeOK, Tried
<1>3. /\ attempts' \in Seq({"direct", "proxied"}) /\ Len(attempts') = Retries + 1
      /\ \A i \in 1 .. Retries : attempts'[i] = "direct"
  BY <1>1, <1>2, AttemptsAppend
<1>4. OneProxyTry'
  <2>1. fallback'
    BY <1>1, <1>2
  <2>2. \A i \in 1 .. Len(attempts') : attempts'[i] = "proxied" => i = Retries + 1
    BY <1>2, <1>3
  <2> QED BY <2>1, <2>2, <1>2, <1>3 DEF OneProxyTry
<1>5. CASE \E doc \in Document : Accepted(doc)
  <2>1. PICK doc \in Document : Accepted(doc)
    BY <1>5
  <2>2. /\ sent' = doc /\ body' = doc /\ doc \in Seq(Entry)
        /\ Len(doc) <= BodyLimit /\ round' = "parse"
    BY <2>1, AcceptedIsWhole
  <2>3. SourcesTypeOK'
    BY <1>1, <1>3, <2>2 DEF SourcesInv, SourcesTypeOK, Rounds
  <2>4. WholeDocument' /\ Tried'
    BY <1>1, <1>2, <2>2 DEF WholeDocument, Tried
  <2> QED BY <1>4, <2>3, <2>4 DEF SourcesInv
<1>6. CASE Refused /\ round' = "failed"
  <2>1. sent' = sent /\ body' = body
    BY <1>6 DEF Refused
  <2>2. SourcesTypeOK'
    BY <1>1, <1>3, <1>6, <2>1 DEF SourcesInv, SourcesTypeOK, Rounds
  <2>3. WholeDocument' /\ Tried'
    BY <1>1, <1>2, <1>6, <2>1 DEF WholeDocument, Tried
  <2> QED BY <1>4, <2>2, <2>3 DEF SourcesInv
<1> QED BY <1>5, <1>6 DEF ProxiedAttempt

\* The endpoints a round offers.
LEMMA OfferKeeps ==
    ASSUME SourcesInv, NEW endpoints \in Seq(Entry), Offer(endpoints), round # "loading",
           \A i \in 1 .. Len(endpoints) : source.kind # "script" => endpoints[i] \in Endpoints
    PROVE  SourcesInv'
<1>1. /\ offered' = endpoints /\ round' = "start"
      /\ status' = [fetched |-> TRUE, count |-> Len(endpoints), failed |-> FALSE]
      /\ source' = source /\ fallback' = fallback /\ attempts' = attempts
      /\ sent' = sent /\ body' = body
  BY DEF Offer
<1>2. Len(endpoints) \in Nat
  OBVIOUS
<1>3. SourcesTypeOK'
  BY <1>1, <1>2 DEF SourcesInv, SourcesTypeOK, Rounds, Endpoints
<1>4. OneProxyTry' /\ WholeDocument' /\ Tried'
  BY <1>1 DEF SourcesInv, OneProxyTry, WholeDocument, Tried
<1> QED BY <1>3, <1>4 DEF SourcesInv

LEMMA SourcesStep == SourcesInv /\ [SourcesNext]_sourceVars => SourcesInv'
<1> SUFFICES ASSUME SourcesInv, [SourcesNext]_sourceVars PROVE SourcesInv'
  OBVIOUS
<1>0. Endpoints \subseteq Entry
  BY DEF Endpoints, Entry
<1>1. ASSUME NEW kind \in Kinds, NEW scheme \in Scheme, LoadSource(kind, scheme)
      PROVE  SourcesInv'
  <2>1. /\ round = "loading" /\ round' = "start"
        /\ source' = [kind |-> kind, protocol |-> scheme] /\ fallback' \in BOOLEAN
        /\ attempts' = attempts /\ sent' = sent /\ body' = body
        /\ status' = status /\ offered' = offered
    BY <1>1 DEF LoadSource
  <2>2. attempts = << >> /\ offered = << >>
    BY <2>1 DEF SourcesInv, Tried
  <2>3. SourcesTypeOK'
    BY <2>1, <2>2 DEF SourcesInv, SourcesTypeOK, Rounds
  <2>4. OneProxyTry' /\ WholeDocument' /\ Tried'
    BY <2>1, <2>2, SourcesAssumption DEF SourcesInv, OneProxyTry, WholeDocument, Tried
  <2> QED BY <2>3, <2>4 DEF SourcesInv
<1>2. CASE StartRound
  <2>1. /\ round = "start" /\ attempts' = << >> /\ source' = source /\ fallback' = fallback
        /\ sent' = sent /\ body' = body /\ offered' = offered
    BY <1>2 DEF StartRound
  <2>2. source \in [kind : Kinds, protocol : Scheme] /\ source.kind \in Kinds
    BY <2>1 DEF SourcesInv, Tried
  <2>3. \/ source.kind \in {"text", "json"} /\ round' = "direct" /\ status' = status
        \/ source.kind = "script" /\ round' = "script" /\ status' = status
        \/ /\ source.kind = "other" /\ round' = "ended"
           /\ status' = [fetched |-> TRUE, count |-> 0, failed |-> TRUE]
    <3>1. CASE source.kind \in {"text", "json"}
      BY <3>1, <1>2 DEF StartRound
    <3>2. CASE source.kind = "script"
      BY <3>2, <1>2 DEF StartRound
    <3>3. CASE source.kind = "other"
      BY <3>3, <1>2 DEF StartRound
    <3> QED BY <3>1, <3>2, <3>3, <2>2 DEF Kinds
  <2>4. SourcesTypeOK'
    <3>1. round' \in Rounds /\ status' \in [fetched : BOOLEAN, count : Nat, failed : BOOLEAN]
      <4>1. round' \in Rounds
        BY <2>3 DEF Rounds
      <4>2. status \in [fetched : BOOLEAN, count : Nat, failed : BOOLEAN]
        BY DEF SourcesInv, SourcesTypeOK
      <4>3. [fetched |-> TRUE, count |-> 0, failed |-> TRUE]
              \in [fetched : BOOLEAN, count : Nat, failed : BOOLEAN]
        OBVIOUS
      <4> QED BY <2>3, <4>1, <4>2, <4>3
    <3>2. attempts' \in Seq({"direct", "proxied"})
      BY <2>1
    <3> QED BY <2>1, <3>1, <3>2 DEF SourcesInv, SourcesTypeOK
  <2>5. OneProxyTry' /\ WholeDocument' /\ Tried'
    BY <2>1, <2>2, <2>3, SourcesAssumption DEF OneProxyTry, WholeDocument, Tried
  <2> QED BY <2>4, <2>5 DEF SourcesInv
<1>3. CASE DirectAttempt
  BY <1>3, DirectKeeps
<1>4. CASE NoFallback
  BY <1>4 DEF NoFallback, SourcesInv, SourcesTypeOK, Rounds, OneProxyTry, WholeDocument, Tried
<1>5. CASE TakeProxy
  BY <1>5 DEF TakeProxy, SourcesInv, SourcesTypeOK, Rounds, OneProxyTry, WholeDocument, Tried
<1>6. CASE ProxiedAttempt
  BY <1>6, ProxiedKeeps
<1>7. CASE Parsed
  <2> DEFINE endpoints == IF source.kind = "text" THEN ParseText(body) ELSE ParseJSON(body)
  <2>1. round = "parse" /\ Offer(endpoints)
    BY <1>7 DEF Parsed
  <2>2. source \in [kind : Kinds, protocol : Scheme] /\ body \in Seq(Entry)
    BY <2>1 DEF SourcesInv, SourcesTypeOK, Tried
  <2>3. endpoints \in Seq(Endpoints)
    BY <2>2, ParsedText, ParsedJSON
  <2> HIDE DEF endpoints
  <2>4. endpoints \in Seq(Entry) /\ \A i \in 1 .. Len(endpoints) : endpoints[i] \in Endpoints
    BY <2>3, <1>0
  <2> QED BY <2>1, <2>4, OfferKeeps
<1>8. CASE Scripted
  <2>1. PICK given \in Document : Offer(given)
    BY <1>8 DEF Scripted
  <2>2. round = "script" /\ given \in Seq(Entry) /\ source.kind = "script"
    BY <1>8, SourcesAssumption DEF Scripted, SourcesInv, Tried
  <2> QED BY <2>1, <2>2, OfferKeeps
<1>9. CASE RoundFails
  <2>1. /\ round \in {"failed", "script", "parse"} /\ round' = "start"
        /\ status' = [fetched |-> TRUE, count |-> 0, failed |-> TRUE]
        /\ source' = source /\ fallback' = fallback /\ attempts' = attempts
        /\ sent' = sent /\ body' = body /\ offered' = offered
    BY <1>9 DEF RoundFails
  <2>2. SourcesTypeOK'
    BY <2>1 DEF SourcesInv, SourcesTypeOK, Rounds
  <2>3. OneProxyTry' /\ WholeDocument' /\ Tried'
    BY <2>1 DEF SourcesInv, OneProxyTry, WholeDocument, Tried
  <2> QED BY <2>2, <2>3 DEF SourcesInv
<1>10. CASE UNCHANGED sourceVars
  BY <1>10 DEF sourceVars, SourcesInv, SourcesTypeOK, OneProxyTry, WholeDocument, Tried
<1> QED BY <1>1, <1>2, <1>3, <1>4, <1>5, <1>6, <1>7, <1>8, <1>9, <1>10 DEF SourcesNext

SourcesSpec == SourcesInit /\ [][SourcesNext]_sourceVars

LEMMA SourcesInvariant == SourcesSpec => []SourcesInv
BY SourcesInitially, SourcesStep, PTL DEF SourcesSpec

\* A source's variables keep their types: what a list offers has an address, a port and
\* a protocol.
THEOREM SourcesTypeCorrect == SourcesSpec => []SourcesTypeOK
<1>1. SourcesInv => SourcesTypeOK
  BY DEF SourcesInv
<1> QED BY <1>1, SourcesInvariant, PTL

\* For documents of any length and every limit, a round gets its document with bounded
\* effort, whole, and keeps the fields of an entry together.
THEOREM FetchAlwaysFaithful == SourcesSpec => []FetchIsFaithful
<1>1. SourcesInv => FetchIsFaithful
  BY FieldsAlwaysTogether DEF SourcesInv, FetchIsFaithful
<1> QED BY <1>1, SourcesInvariant, PTL

-----------------------------------------------------------------------------
(* Sums.  SumFunctionOnSet(f, S) is a recursive function on the subsets of   *)
(* S; what the windows need of it is in SumOfNone, SumOfOne, SumMapped,      *)
(* SumIdle and SumBound.                                                   *)

Pick(s) == CHOOSE x \in s : TRUE

\* The recursive function of a sum, on a collection of sets.
SumSteps(F, f, D) ==
    F = [s \in D |-> IF s = {} THEN 0 ELSE f[Pick(s)] + F[s \ {Pick(s)}]]

Small(S, n) == {t \in SUBSET S : Cardinality(t) <= n}

LEMMA PickIsIn == ASSUME NEW s, s # {} PROVE Pick(s) \in s
BY DEF Pick

\* One element less is a smaller set.
LEMMA OneFewer ==
    ASSUME NEW S, IsFiniteSet(S), NEW s \in SUBSET S, NEW x \in s
    PROVE  /\ IsFiniteSet(s) /\ Cardinality(s) \in Nat /\ s \ {x} \in SUBSET S
           /\ Cardinality(s \ {x}) = Cardinality(s) - 1 /\ Cardinality(s) > 0
<1>1. IsFiniteSet(s)
  BY FS_Subset
<1>2. Cardinality(s \ {x}) = Cardinality(s) - 1 /\ IsFiniteSet(s \ {x})
  BY <1>1, FS_RemoveElement
<1>3. Cardinality(s) \in Nat /\ Cardinality(s \ {x}) \in Nat
  BY <1>1, <1>2, FS_CardinalityType
<1> QED BY <1>1, <1>2, <1>3

\* A claim about the subsets of a finite set has a smallest counterexample.
LEMMA SmallestSubset ==
    ASSUME NEW S, IsFiniteSet(S), NEW Bad, Bad \subseteq SUBSET S, Bad # {}
    PROVE  \E s \in Bad : \A t \in Bad : Cardinality(s) <= Cardinality(t)
<1> DEFINE Sizes == {Cardinality(t) : t \in Bad}
<1>1. \A t \in Bad : Cardinality(t) \in Nat
  BY FS_Subset, FS_CardinalityType
<1>2. Sizes \subseteq Nat /\ Sizes # {}
  BY <1>1
<1>3. PICK c \in Sizes : \A d \in Sizes : c <= d
  <2> HIDE DEF Sizes
  <2> QED BY <1>2, LeastNumber
<1>4. PICK s \in Bad : c = Cardinality(s)
  OBVIOUS
<1>5. \A t \in Bad : Cardinality(t) \in Sizes
  OBVIOUS
<1> HIDE DEF Sizes
<1> QED BY <1>3, <1>4, <1>5

LEMMA SumStepsExist ==
    ASSUME NEW f, NEW S, IsFiniteSet(S)
    PROVE  \E F : SumSteps(F, f, SUBSET S)
<1> DEFINE Bad == {n \in Nat : ~ \E F : SumSteps(F, f, Small(S, n))}
<1>1. ASSUME Bad # {} PROVE FALSE
  <2>1. PICK m \in Bad : \A n \in Bad : m <= n
    <3>1. Bad \subseteq Nat
      OBVIOUS
    <3> HIDE DEF Bad
    <3> QED BY <1>1, <3>1, LeastNumber
  <2>2. m \in Nat /\ ~ \E F : SumSteps(F, f, Small(S, m))
    OBVIOUS
  <2>3. m # 0
    <3> DEFINE F == [s \in Small(S, 0) |-> 0]
    <3>1. ASSUME NEW s \in Small(S, 0) PROVE s = {}
      <4>1. s \in SUBSET S /\ Cardinality(s) <= 0 /\ IsFiniteSet(s)
        BY FS_Subset DEF Small
      <4>2. Cardinality(s) \in Nat
        BY <4>1, FS_CardinalityType
      <4>3. Cardinality(s) = 0
        BY <4>1, <4>2
      <4> QED BY <4>1, <4>3, FS_EmptySet
    <3>2. \A s \in Small(S, 0) : F[s] = IF s = {} THEN 0 ELSE f[Pick(s)] + F[s \ {Pick(s)}]
      BY <3>1
    <3>3. F = [s \in Small(S, 0) |-> F[s]]
      OBVIOUS
    <3> HIDE DEF F
    <3>4. SumSteps(F, f, Small(S, 0))
      BY <3>2, <3>3 DEF SumSteps
    <3> QED BY <3>4, <2>2
  <2>4. m - 1 \in Nat /\ m - 1 \notin Bad
    BY <2>1, <2>2, <2>3
  <2>5. PICK G : SumSteps(G, f, Small(S, m - 1))
    BY <2>4
  <2> DEFINE H == [s \in Small(S, m) |->
                     IF s \in Small(S, m - 1) THEN G[s] ELSE f[Pick(s)] + G[s \ {Pick(s)}]]
  <2>6. ASSUME NEW s \in Small(S, m), s # {}
        PROVE  s \ {Pick(s)} \in Small(S, m - 1) /\ s \ {Pick(s)} \in Small(S, m)
    <3>1. s \in SUBSET S /\ Pick(s) \in s /\ Cardinality(s) <= m
      BY <2>6, PickIsIn DEF Small
    <3>2. /\ Cardinality(s) \in Nat /\ s \ {Pick(s)} \in SUBSET S
          /\ Cardinality(s \ {Pick(s)}) = Cardinality(s) - 1
      BY <3>1, OneFewer
    <3>3. Cardinality(s \ {Pick(s)}) <= m - 1 /\ Cardinality(s \ {Pick(s)}) <= m
      BY <3>1, <3>2, <2>2
    <3> QED BY <3>2, <3>3 DEF Small
  <2>7. \A s \in Small(S, m) : H[s] = IF s = {} THEN 0 ELSE f[Pick(s)] + H[s \ {Pick(s)}]
    <3> TAKE s \in Small(S, m)
    <3>1. CASE s = {}
      <4>1. s \in Small(S, m - 1)
        <5>1. Cardinality({}) = 0 /\ m - 1 >= 0
          BY <2>4, FS_EmptySet
        <5> QED BY <3>1, <5>1, <2>4 DEF Small
      <4>2. H[s] = G[s]
        BY <4>1
      <4>3. G[s] = 0
        BY <3>1, <4>1, <2>5 DEF SumSteps
      <4> QED BY <3>1, <4>2, <4>3
    <3>2. CASE s # {}
      <4>1. /\ s \ {Pick(s)} \in Small(S, m - 1) /\ s \ {Pick(s)} \in Small(S, m)
        BY <3>2, <2>6
      <4>2. H[s \ {Pick(s)}] = G[s \ {Pick(s)}]
        BY <4>1
      <4>3. H[s] = f[Pick(s)] + G[s \ {Pick(s)}]
        <5>1. CASE s \in Small(S, m - 1)
          BY <5>1, <3>2, <2>5 DEF SumSteps
        <5>2. CASE s \notin Small(S, m - 1)
          BY <5>2
        <5> QED BY <5>1, <5>2
      <4> HIDE DEF H
      <4> QED BY <3>2, <4>2, <4>3
    <3> QED BY <3>1, <3>2
  <2>8. H = [s \in Small(S, m) |-> H[s]]
    OBVIOUS
  <2> HIDE DEF H
  <2>9. SumSteps(H, f, Small(S, m))
    BY <2>7, <2>8 DEF SumSteps
  <2> QED BY <2>2, <2>9
<1>2. Cardinality(S) \in Nat
  BY FS_CardinalityType
<1>3. \E F : SumSteps(F, f, Small(S, Cardinality(S)))
  BY <1>1, <1>2
<1>4. Small(S, Cardinality(S)) = SUBSET S
  <2>1. \A t \in SUBSET S : Cardinality(t) <= Cardinality(S)
    BY FS_Subset
  <2> QED BY <2>1 DEF Small
<1> QED BY <1>3, <1>4

\* A sum is the last value of that function.
LEMMA SumIsStepwise ==
    ASSUME NEW f, NEW S, IsFiniteSet(S)
    PROVE  \E F : SumSteps(F, f, SUBSET S) /\ SumFunctionOnSet(f, S) = F[S]
<1> DEFINE Rest(G) == [s \in SUBSET S |-> IF s = {} THEN 0 ELSE f[Pick(s)] + G[s \ {Pick(s)}]]
           F == CHOOSE G : G = Rest(G)
<1>1. SumFunctionOnSet(f, S) = F[S]
  BY DEF SumFunctionOnSet, FoldFunctionOnSet, MapThenFoldSet, Pick
<1>2. \E G : G = Rest(G)
  <2>1. PICK G : SumSteps(G, f, SUBSET S)
    BY SumStepsExist
  <2>2. G = Rest(G)
    BY <2>1 DEF SumSteps
  <2> QED BY <2>2
<1>3. F = Rest(F)
  <2> HIDE DEF Rest
  <2> QED BY <1>2, Zenon
<1>4. SumSteps(F, f, SUBSET S)
  <2> HIDE DEF F
  <2> QED BY <1>3 DEF SumSteps
<1> QED BY <1>1, <1>4

\* It is the same function on a smaller set.
LEMMA SumStepsAgree ==
    ASSUME NEW f, NEW S, IsFiniteSet(S), NEW s \in SUBSET S, NEW F, NEW G,
           SumSteps(F, f, SUBSET S), SumSteps(G, f, SUBSET s)
    PROVE  F[s] = G[s]
<1> DEFINE Bad == {t \in SUBSET s : F[t] # G[t]}
<1>0. IsFiniteSet(s)
  BY FS_Subset
<1>1. ASSUME Bad # {} PROVE FALSE
  <2>1. PICK t \in Bad : \A u \in Bad : Cardinality(t) <= Cardinality(u)
    <3>1. Bad \subseteq SUBSET s
      OBVIOUS
    <3> HIDE DEF Bad
    <3> QED BY <1>0, <1>1, <3>1, SmallestSubset
  <2>2. t \in SUBSET s /\ t \in SUBSET S /\ F[t] # G[t]
    OBVIOUS
  <2>3. t # {}
    <3>1. F[{}] = 0 /\ G[{}] = 0
      BY DEF SumSteps
    <3> QED BY <3>1, <2>2
  <2> DEFINE r == t \ {Pick(t)}
  <2>4. /\ r \in SUBSET s /\ Cardinality(t) \in Nat /\ Cardinality(r) = Cardinality(t) - 1
    BY <1>0, <2>2, <2>3, PickIsIn, OneFewer
  <2>5. F[t] = f[Pick(t)] + F[r] /\ G[t] = f[Pick(t)] + G[r]
    BY <2>2, <2>3 DEF SumSteps
  <2> HIDE DEF r
  <2>6. r \notin Bad
    <3> HIDE DEF Bad
    <3> QED BY <2>1, <2>4
  <2>7. F[r] = G[r]
    BY <2>4, <2>6
  <2> QED BY <2>2, <2>5, <2>7
<1>2. s \notin Bad
  BY <1>1
<1> QED BY <1>2

LEMMA SumOfNone == \A f : SumFunctionOnSet(f, {}) = 0
<1> TAKE f
<1>1. PICK F : SumSteps(F, f, SUBSET {}) /\ SumFunctionOnSet(f, {}) = F[{}]
  BY SumIsStepwise, FS_EmptySet
<1>2. F[{}] = 0
  BY <1>1 DEF SumSteps
<1> QED BY <1>1, <1>2

\* A sum of numbers is a number, and any element may be counted first.
LEMMA SumOfOne ==
    ASSUME NEW f, NEW S, IsFiniteSet(S), \A x \in S : f[x] \in Nat
    PROVE  /\ SumFunctionOnSet(f, S) \in Nat
           /\ \A x \in S : SumFunctionOnSet(f, S) = f[x] + SumFunctionOnSet(f, S \ {x})
<1>1. PICK F : SumSteps(F, f, SUBSET S) /\ SumFunctionOnSet(f, S) = F[S]
  BY SumIsStepwise
<1>2. F[{}] = 0
  BY <1>1 DEF SumSteps
<1>3. ASSUME NEW s \in SUBSET S, s # {}
      PROVE  F[s] = f[Pick(s)] + F[s \ {Pick(s)}]
  BY <1>1, <1>3 DEF SumSteps
<1> DEFINE Good(s) == F[s] \in Nat /\ \A x \in s : F[s] = f[x] + F[s \ {x}]
           Bad == {s \in SUBSET S : ~ Good(s)}
<1>4. ASSUME Bad # {} PROVE FALSE
  <2>1. PICK s \in Bad : \A t \in Bad : Cardinality(s) <= Cardinality(t)
    <3>1. Bad \subseteq SUBSET S
      OBVIOUS
    <3> HIDE DEF Bad
    <3> QED BY <1>4, <3>1, SmallestSubset
  <2>2. s \in SUBSET S /\ ~ Good(s)
    OBVIOUS
  <2>3. s # {}
    <3>1. Good({})
      BY <1>2
    <3> HIDE DEF Good
    <3> QED BY <2>2, <3>1
  <2> DEFINE y == Pick(s)
  <2>4. y \in s /\ F[s] = f[y] + F[s \ {y}] /\ f[y] \in Nat
    BY <2>2, <2>3, <1>3, PickIsIn
  <2> HIDE DEF y
  <2>5. \A x \in s : Good(s \ {x}) /\ s \ {x} \in SUBSET S
    <3> TAKE x \in s
    <3>1. /\ s \ {x} \in SUBSET S /\ Cardinality(s) \in Nat /\ Cardinality(s \ {x}) = Cardinality(s) - 1
      BY <2>2, OneFewer
    <3>2. s \ {x} \notin Bad
      <4> HIDE DEF Bad, Good
      <4> QED BY <2>1, <3>1
    <3> QED BY <3>1, <3>2
  <2>6. F[s] \in Nat
    <3>1. F[s \ {y}] \in Nat
      BY <2>4, <2>5
    <3> DEFINE m == F[s \ {y}]
               n == f[y]
    <3>2. m \in Nat /\ n \in Nat /\ F[s] = n + m
      BY <2>4, <3>1
    <3> HIDE DEF m, n
    <3> QED BY <3>2
  <2>7. ASSUME NEW x \in s PROVE F[s] = f[x] + F[s \ {x}]
    <3>1. CASE x = y
      BY <3>1, <2>4
    <3>2. CASE x # y
      <4>1. x \in s \ {y} /\ y \in s \ {x} /\ (s \ {y}) \ {x} = (s \ {x}) \ {y}
        BY <3>2, <2>4
      <4> DEFINE r == (s \ {x}) \ {y}
      <4>2. F[s \ {y}] = f[x] + F[r] /\ F[s \ {x}] = f[y] + F[r]
        BY <4>1, <2>4, <2>5
      <4>3. F[r] \in Int /\ f[x] \in Int /\ f[y] \in Int
        <5>1. r \in SUBSET S
          BY <2>2
        <5>2. r \notin Bad
          <6>1. s \ {x} \in SUBSET S /\ Cardinality(s \ {x}) = Cardinality(s) - 1 /\ Cardinality(s) \in Nat
            BY <2>2, OneFewer
          <6>2. Cardinality(r) = Cardinality(s \ {x}) - 1
            <7>1. y \in s \ {x}
              BY <4>1
            <7> DEFINE q == s \ {x}
            <7>2. q \in SUBSET S /\ y \in q
              BY <6>1, <7>1
            <7> HIDE DEF q
            <7>3. Cardinality(q \ {y}) = Cardinality(q) - 1
              BY <7>2, OneFewer
            <7> QED BY <7>3 DEF q
          <6> DEFINE c == Cardinality(s)
                     d == Cardinality(r)
          <6>3. c \in Int /\ d = c - 1 - 1
            BY <6>1, <6>2
          <6>4. r \in Bad => c <= d
            <7> HIDE DEF Bad, r
            <7> QED BY <2>1
          <6> HIDE DEF c, d, Bad, r
          <6>5. ~(c <= d)
            BY <6>3
          <6> QED BY <6>4, <6>5
        <5>3. F[r] \in Nat
          <6> HIDE DEF r
          <6> QED BY <5>1, <5>2
        <5>4. f[x] \in Nat /\ f[y] \in Nat
          BY <2>2, <2>4
        <5> HIDE DEF r
        <5> QED BY <5>3, <5>4
      <4> HIDE DEF r
      <4> QED BY <4>2, <4>3, <2>4
    <3> QED BY <3>1, <3>2
  <2> QED BY <2>2, <2>6, <2>7
<1>5. Good(S)
  BY <1>4
<1>6. ASSUME NEW x \in S PROVE SumFunctionOnSet(f, S \ {x}) = F[S \ {x}]
  <2> DEFINE q == S \ {x}
  <2>1. q \in SUBSET S /\ IsFiniteSet(q)
    BY FS_RemoveElement
  <2> HIDE DEF q, Good, Bad
  <2>2. PICK G : SumSteps(G, f, SUBSET q) /\ SumFunctionOnSet(f, q) = G[q]
    BY <2>1, SumIsStepwise
  <2>3. F[q] = G[q]
    BY <1>1, <2>1, <2>2, SumStepsAgree
  <2> QED BY <2>2, <2>3 DEF q
<1> QED BY <1>1, <1>5, <1>6

\* Counting under other names: each element of S has a name of its own, under which it
\* counts as much.
LEMMA SumMapped ==
    ASSUME NEW S, IsFiniteSet(S), NEW f, NEW g, NEW h,
           \A x \in S : f[x] \in Nat /\ g[h[x]] = f[x],
           \A x, y \in S : h[x] = h[y] => x = y
    PROVE  SumFunctionOnSet(f, S) = SumFunctionOnSet(g, {h[x] : x \in S})
<1> DEFINE Named(s) == {h[x] : x \in s}
           Good(s) == SumFunctionOnSet(f, s) = SumFunctionOnSet(g, Named(s))
           Bad == {s \in SUBSET S : ~ Good(s)}
<1>1. ASSUME Bad # {} PROVE FALSE
  <2>1. PICK s \in Bad : \A t \in Bad : Cardinality(s) <= Cardinality(t)
    <3>1. Bad \subseteq SUBSET S
      OBVIOUS
    <3> HIDE DEF Bad
    <3> QED BY <1>1, <3>1, SmallestSubset
  <2>2. s \in SUBSET S /\ ~ Good(s)
    OBVIOUS
  <2>3. s # {}
    <3>1. Named({}) = {}
      OBVIOUS
    <3> HIDE DEF Named
    <3>2. Good({})
      BY <3>1, SumOfNone
    <3> HIDE DEF Good
    <3> QED BY <2>2, <3>2
  <2>4. PICK x \in s : TRUE
    BY <2>3
  <2>5. /\ s \ {x} \in SUBSET S /\ Cardinality(s) \in Nat /\ IsFiniteSet(s)
        /\ Cardinality(s \ {x}) = Cardinality(s) - 1
    BY <2>2, OneFewer
  <2>6. Good(s \ {x})
    <3>1. s \ {x} \notin Bad
      <4>1. ~(Cardinality(s) <= Cardinality(s \ {x}))
        BY <2>5
      <4> HIDE DEF Bad
      <4> QED BY <2>1, <4>1
    <3> QED BY <3>1, <2>5
  <2>7. SumFunctionOnSet(f, s) = f[x] + SumFunctionOnSet(f, s \ {x})
    <3>1. \A y \in s : f[y] \in Nat
      BY <2>2
    <3> QED BY <2>5, <3>1, SumOfOne
  <2>8. Named(s) \ {h[x]} = Named(s \ {x})
    BY <2>2
  <2>9. SumFunctionOnSet(g, Named(s)) = g[h[x]] + SumFunctionOnSet(g, Named(s) \ {h[x]})
    <3>1. h[x] \in Named(s) /\ \A y \in Named(s) : g[y] \in Nat
      BY <2>2
    <3>2. IsFiniteSet(Named(s))
      <4> DEFINE k == [y \in s |-> h[y]]
      <4>1. \A y, z \in s : k[y] = k[z] => y = z
        BY <2>2
      <4>2. k \in [s -> Named(s)] /\ \A n \in Named(s) : \E y \in s : k[y] = n
        OBVIOUS
      <4> HIDE DEF k, Named
      <4> QED BY <2>5, <4>1, <4>2, SameCount
    <3> HIDE DEF Named
    <3> QED BY <3>1, <3>2, SumOfOne
  <2>10. g[h[x]] = f[x]
    BY <2>2
  <2>11. Good(s)
    <3> HIDE DEF Named
    <3> QED BY <2>6, <2>7, <2>8, <2>9, <2>10, Zenon
  <2> QED BY <2>2, <2>11
<1>2. Good(S)
  BY <1>1
<1> QED BY <1>2

\* What counts nothing may be left out.
LEMMA SumIdle ==
    ASSUME NEW T, IsFiniteSet(T), NEW g, \A x \in T : g[x] \in Nat,
           NEW R \in SUBSET T, \A x \in T \ R : g[x] = 0
    PROVE  SumFunctionOnSet(g, T) = SumFunctionOnSet(g, R)
<1> DEFINE Good(s) == SumFunctionOnSet(g, s) = SumFunctionOnSet(g, R)
           Bad == {s \in SUBSET T : R \subseteq s /\ ~ Good(s)}
<1>1. ASSUME Bad # {} PROVE FALSE
  <2>1. PICK s \in Bad : \A t \in Bad : Cardinality(s) <= Cardinality(t)
    <3>1. Bad \subseteq SUBSET T
      OBVIOUS
    <3> HIDE DEF Bad
    <3> QED BY <1>1, <3>1, SmallestSubset
  <2>2. s \in SUBSET T /\ R \subseteq s /\ ~ Good(s)
    OBVIOUS
  <2>3. s # R
    BY <2>2
  <2>4. PICK x \in s : x \notin R
    BY <2>2, <2>3
  <2>5. /\ s \ {x} \in SUBSET T /\ Cardinality(s) \in Nat /\ IsFiniteSet(s)
        /\ Cardinality(s \ {x}) = Cardinality(s) - 1
    BY <2>2, OneFewer
  <2>6. Good(s \ {x})
    <3>1. s \ {x} \notin Bad
      <4>1. ~(Cardinality(s) <= Cardinality(s \ {x}))
        BY <2>5
      <4> HIDE DEF Bad
      <4> QED BY <2>1, <4>1
    <3>2. R \subseteq s \ {x}
      BY <2>2, <2>4
    <3> QED BY <3>1, <3>2, <2>5
  <2>7. /\ SumFunctionOnSet(g, s) = g[x] + SumFunctionOnSet(g, s \ {x})
        /\ SumFunctionOnSet(g, s \ {x}) \in Nat
    <3>1. \A y \in s : g[y] \in Nat
      BY <2>2
    <3>2. \A y \in s \ {x} : g[y] \in Nat
      BY <3>1
    <3>3. IsFiniteSet(s \ {x})
      BY <2>5, FS_Subset
    <3>4. SumFunctionOnSet(g, s) = g[x] + SumFunctionOnSet(g, s \ {x})
      BY <2>5, <3>1, SumOfOne
    <3>5. SumFunctionOnSet(g, s \ {x}) \in Nat
      BY <3>2, <3>3, SumOfOne
    <3> QED BY <3>4, <3>5
  <2>8. g[x] = 0
    BY <2>2, <2>4
  <2>9. Good(s)
    <3> DEFINE less == SumFunctionOnSet(g, s \ {x})
    <3>1. SumFunctionOnSet(g, s) = 0 + less /\ less \in Nat
      BY <2>7, <2>8
    <3>2. SumFunctionOnSet(g, s) = less
      <4> HIDE DEF less
      <4> QED BY <3>1
    <3> QED BY <2>6, <3>2
  <2> QED BY <2>2, <2>9
<1>2. Good(T)
  BY <1>1
<1> QED BY <1>2

\* A sum is at most the number of elements times the largest.
LEMMA SumBound ==
    ASSUME NEW S, IsFiniteSet(S), NEW f, NEW m \in Nat,
           \A x \in S : f[x] \in Nat /\ f[x] <= m
    PROVE  SumFunctionOnSet(f, S) <= Cardinality(S) * m
<1> DEFINE Good(s) == SumFunctionOnSet(f, s) <= Cardinality(s) * m
           Bad == {s \in SUBSET S : ~ Good(s)}
<1>1. ASSUME Bad # {} PROVE FALSE
  <2>1. PICK s \in Bad : \A t \in Bad : Cardinality(s) <= Cardinality(t)
    <3>1. Bad \subseteq SUBSET S
      OBVIOUS
    <3> HIDE DEF Bad
    <3> QED BY <1>1, <3>1, SmallestSubset
  <2>2. s \in SUBSET S /\ ~ Good(s)
    OBVIOUS
  <2>3. s # {}
    <3>1. SumFunctionOnSet(f, {}) = 0 /\ Cardinality({}) = 0
      BY SumOfNone, FS_EmptySet
    <3>2. 0 * m = 0
      OBVIOUS
    <3>3. Good({})
      BY <3>1, <3>2
    <3> HIDE DEF Good
    <3> QED BY <2>2, <3>3
  <2>4. PICK x \in s : TRUE
    BY <2>3
  <2>5. /\ s \ {x} \in SUBSET S /\ Cardinality(s) \in Nat /\ IsFiniteSet(s)
        /\ Cardinality(s \ {x}) = Cardinality(s) - 1
    BY <2>2, OneFewer
  <2>6. Good(s \ {x})
    <3>1. s \ {x} \notin Bad
      <4>1. ~(Cardinality(s) <= Cardinality(s \ {x}))
        BY <2>5
      <4> HIDE DEF Bad
      <4> QED BY <2>1, <4>1
    <3> QED BY <3>1, <2>5
  <2>7. /\ SumFunctionOnSet(f, s) = f[x] + SumFunctionOnSet(f, s \ {x})
        /\ SumFunctionOnSet(f, s \ {x}) \in Nat
    <3>1. \A y \in s : f[y] \in Nat
      BY <2>2
    <3>2. \A y \in s \ {x} : f[y] \in Nat
      BY <3>1
    <3>3. IsFiniteSet(s \ {x})
      BY <2>5, FS_Subset
    <3>4. SumFunctionOnSet(f, s) = f[x] + SumFunctionOnSet(f, s \ {x})
      BY <2>5, <3>1, SumOfOne
    <3>5. SumFunctionOnSet(f, s \ {x}) \in Nat
      BY <3>2, <3>3, SumOfOne
    <3> QED BY <3>4, <3>5
  <2>8. Good(s)
    <3> DEFINE less == SumFunctionOnSet(f, s \ {x})
               c == Cardinality(s)
               one == f[x]
    <3>1. one \in Nat /\ one <= m /\ less \in Nat /\ c \in Nat
      BY <2>2, <2>5, <2>7
    <3>2. less <= (c - 1) * m
      BY <2>5, <2>6
    <3>3. SumFunctionOnSet(f, s) = one + less
      BY <2>7
    <3> HIDE DEF less, c, one
    <3>4. (c - 1) * m = c * m - m /\ c * m \in Int
      BY <3>1, SMT
    <3>5. one + less <= c * m
      BY <3>1, <3>2, <3>4
    <3> QED BY <3>3, <3>5 DEF c
  <2> QED BY <2>2, <2>8
<1>2. Good(S)
  BY <1>1
<1> QED BY <1>2

-----------------------------------------------------------------------------
(* Windows *)

LEMMA MinIs ==
    ASSUME NEW S, S \subseteq Int, NEW m \in S, \A y \in S : m <= y
    PROVE  Min(S) = m
<1> DEFINE Least(x) == \A y \in S : x =< y
<1>1. Min(S) = CHOOSE x \in S : Least(x)
  BY DEF Min
<1>2. m \in S /\ Least(m)
  OBVIOUS
<1>3. ASSUME NEW x \in S, Least(x) PROVE x = m
  <2>1. x <= m /\ m <= x /\ x \in Int /\ m \in Int
    BY <1>3
  <2> QED BY <2>1
<1> HIDE DEF Least
<1>4. (CHOOSE x \in S : Least(x)) \in S /\ Least(CHOOSE x \in S : Least(x))
  BY <1>2, Zenon
<1> QED BY <1>1, <1>3, <1>4

\* Two times of one bucket are a round apart.
LEMMA RoundsApart ==
    ASSUME NEW u \in Nat, NEW v \in Nat, u % Buckets = v % Buckets, u < v
    PROVE  v >= u + Buckets
<1>1. Buckets \in Nat \ {0}
  BY WindowsAssumption
<1> DEFINE p == u \div Buckets
           q == v \div Buckets
           r == u % Buckets
<1>2. p \in Int /\ q \in Int /\ r \in Int
  BY <1>1, SMT
<1>3. u = Buckets * p + r /\ v = Buckets * q + r
  BY <1>1, SMT
<1> HIDE DEF p, q, r
<1> DEFINE d == q - p
<1>4. d \in Int /\ q = p + d
  BY <1>2
<1>5. Buckets * q = Buckets * p + Buckets * d
  BY <1>1, <1>2, <1>4, SMT
<1> HIDE DEF d
<1> DEFINE bp == Buckets * p
           bq == Buckets * q
           bd == Buckets * d
<1>6. bp \in Int /\ bq \in Int /\ bd \in Int /\ bq = bp + bd /\ u = bp + r /\ v = bq + r
  <2>1. bp \in Int /\ bq \in Int /\ bd \in Int
    BY <1>1, <1>2, <1>4, SMT
  <2> QED BY <2>1, <1>3, <1>5
<1>7. d <= 0 => bd <= 0
  BY <1>1, <1>4, SMT
<1>8. d >= 1 => bd >= Buckets
  BY <1>1, <1>4, SMT
<1> HIDE DEF bp, bq, bd
<1> QED BY <1>1, <1>2, <1>4, <1>6, <1>7, <1>8

\* Every bucket holds what happened in the last unit it was written in, of those that
\* have it in common; later ones of them have had nothing.
Bucketed ==
    /\ attempted \in [Units -> 0 .. MaxRecords]
    /\ checked \in [Units -> [Outcome -> 0 .. MaxRecords]]
    /\ \A g \in Recorder : holds[g] # Unheld => holds[g] <= unit
    /\ \A b \in Slots : rates[b].at <= unit /\ checks[b].at <= unit
    /\ \A u \in Units :
         /\ rates[u % Buckets].at = u => rates[u % Buckets].n = attempted[u]
         /\ rates[u % Buckets].at < u => attempted[u] = 0
         /\ checks[u % Buckets].at = u => checks[u % Buckets].n = checked[u]
         /\ checks[u % Buckets].at < u => checked[u] = NoChecks

WindowsInv == WindowsTypeOK /\ Bucketed

\* Times, buckets and their numbers.
LEMMA WindowFacts ==
    /\ Buckets \in Nat \ {0} /\ Started \in Nat /\ Started >= Buckets /\ LastUnit \in Nat
    /\ MaxRecords \in Nat /\ Unheld \notin Units
    /\ \A u \in Units : u \in Nat /\ u >= Buckets /\ u % Buckets \in Slots
<1>1. /\ Buckets \in Nat \ {0} /\ Started \in Nat /\ Started >= Buckets /\ LastUnit \in Nat
      /\ MaxRecords \in Nat /\ Unheld \notin Int
  BY WindowsAssumption
<1>2. \A u \in Units : u \in Nat /\ u >= Buckets /\ u \in Int
  BY <1>1 DEF Units
<1>3. \A u \in Nat : u % Buckets \in Slots
  BY <1>1, SMT DEF Slots
<1> QED BY <1>1, <1>2, <1>3

LEMMA WindowsInitially == WindowsInit => WindowsInv
<1> SUFFICES ASSUME WindowsInit PROVE WindowsInv
  OBVIOUS
<1>1. Started \in Units /\ unit \in Units
  BY WindowsAssumption DEF Units, WindowsInit
<1>2. NoChecks \in [Outcome -> 0 .. MaxRecords]
  BY WindowFacts DEF NoChecks
<1>3. /\ rates = [b \in Slots |-> [at |-> 0, n |-> 0]]
      /\ checks = [b \in Slots |-> [at |-> 0, n |-> NoChecks]]
      /\ attempted = [u \in Units |-> 0] /\ checked = [u \in Units |-> NoChecks]
      /\ holds = [g \in Recorder |-> Unheld] /\ unit = Started
  BY DEF WindowsInit
<1>4. /\ rates \in [Slots -> [at : {0} \cup Units, n : 0 .. MaxRecords]]
      /\ checks \in [Slots -> [at : {0} \cup Units, n : [Outcome -> 0 .. MaxRecords]]]
      /\ attempted \in [Units -> 0 .. MaxRecords]
      /\ checked \in [Units -> [Outcome -> 0 .. MaxRecords]]
      /\ holds \in [Recorder -> Units \cup {Unheld}]
  <2>1. 0 \in 0 .. MaxRecords
    BY WindowFacts
  <2> QED BY <2>1, <1>2, <1>3
<1>5. \A b \in Slots : rates[b].at = 0 /\ checks[b].at = 0
  BY <1>3
<1>6. WindowsTypeOK
  BY <1>1, <1>4, <1>5 DEF WindowsTypeOK
<1>7. Bucketed
  <2>1. \A u \in Units : rates[u % Buckets].at = 0 /\ checks[u % Buckets].at = 0 /\ u # 0
    BY <1>5, WindowFacts
  <2>2. \A u \in Units : attempted[u] = 0 /\ checked[u] = NoChecks
    BY <1>3
  <2>3. unit >= 0
    BY <1>1, WindowFacts
  <2> QED BY <1>3, <1>4, <1>5, <2>1, <2>2, <2>3 DEF Bucketed
<1> QED BY <1>6, <1>7 DEF WindowsInv

\* A unit passes, or a recorder reads the clock.
LEMMA UnitPassesKeeps == WindowsInv /\ UnitPasses => WindowsInv'
<1> SUFFICES ASSUME WindowsInv, UnitPasses PROVE WindowsInv'
  OBVIOUS
<1>1. /\ unit < LastUnit /\ unit' = unit + 1 /\ holds' = holds /\ rates' = rates
      /\ checks' = checks /\ attempted' = attempted /\ checked' = checked
  BY DEF UnitPasses
<1>2. unit \in Units /\ unit' \in Units /\ unit <= unit'
  BY <1>1, WindowFacts DEF WindowsInv, WindowsTypeOK, Units
<1>3. WindowsTypeOK'
  BY <1>1, <1>2 DEF WindowsInv, WindowsTypeOK
<1>4. \A x \in Units \cup {0} : x <= unit => x <= unit'
  BY <1>1, <1>2, WindowFacts
<1>5. /\ \A g \in Recorder : holds[g] # Unheld => holds[g] \in Units /\ holds[g] <= unit
      /\ \A b \in Slots : /\ rates[b].at \in Units \cup {0} /\ checks[b].at \in Units \cup {0}
                          /\ rates[b].at <= unit /\ checks[b].at <= unit
  BY DEF WindowsInv, WindowsTypeOK, Bucketed
<1>6. /\ \A g \in Recorder : holds'[g] # Unheld => holds'[g] <= unit'
      /\ \A b \in Slots : rates'[b].at <= unit' /\ checks'[b].at <= unit'
  BY <1>1, <1>4, <1>5
<1>7. Bucketed'
  BY <1>1, <1>6 DEF WindowsInv, Bucketed
<1> QED BY <1>3, <1>7 DEF WindowsInv

LEMMA ReadUnitKeeps == ASSUME WindowsInv, NEW g \in Recorder, ReadUnit(g) PROVE WindowsInv'
<1>1. /\ holds' = [holds EXCEPT ![g] = unit] /\ unit' = unit /\ rates' = rates
      /\ checks' = checks /\ attempted' = attempted /\ checked' = checked
  BY DEF ReadUnit
<1>2. unit \in Units /\ unit <= unit /\ holds \in [Recorder -> Units \cup {Unheld}]
  BY WindowFacts DEF WindowsInv, WindowsTypeOK
<1>3. WindowsTypeOK'
  BY <1>1, <1>2 DEF WindowsInv, WindowsTypeOK
<1>4. Bucketed'
  BY <1>1, <1>2 DEF WindowsInv, Bucketed
<1> QED BY <1>3, <1>4 DEF WindowsInv

\* One attempt is recorded, in time or late.
LEMMA RecordAttemptKeeps ==
    ASSUME WindowsInv, NEW g \in Recorder, RecordAttempt(g)
    PROVE  WindowsInv'
<1> DEFINE second == holds[g]
           b == second % Buckets
           before == IF rates[b].at # second THEN 0 ELSE rates[b].n
           now == [at |-> second, n |-> before + 1]
<1>1. /\ holds[g] # Unheld /\ attempted[second] < MaxRecords
      /\ attempted' = [attempted EXCEPT ![second] = @ + 1]
      /\ rates' = IF rates[b].at > second THEN rates ELSE [rates EXCEPT ![b] = now]
      /\ holds' = [holds EXCEPT ![g] = Unheld]
      /\ unit' = unit /\ checks' = checks /\ checked' = checked
  BY DEF RecordAttempt, Recorded
<1>2. /\ second \in Units /\ second <= unit /\ unit \in Units
      /\ holds \in [Recorder -> Units \cup {Unheld}]
      /\ attempted \in [Units -> 0 .. MaxRecords]
      /\ rates \in [Slots -> [at : {0} \cup Units, n : 0 .. MaxRecords]]
      /\ \A s \in Slots : rates[s].at \in {0} \cup {u \in Units : u % Buckets = s}
      /\ \A s \in Slots : rates[s].at <= unit
  BY <1>1 DEF WindowsInv, WindowsTypeOK, Bucketed
<1>3. /\ b \in Slots /\ \A u \in Units : u % Buckets \in Slots /\ u \in Nat
  BY <1>2, WindowFacts
<1>4. \A u \in Units : /\ rates[u % Buckets].at = u => rates[u % Buckets].n = attempted[u]
                       /\ rates[u % Buckets].at < u => attempted[u] = 0
  BY DEF WindowsInv, Bucketed
<1> HIDE DEF second, b
<1>5. attempted' \in [Units -> 0 .. MaxRecords]
  <2>1. attempted[second] + 1 \in 0 .. MaxRecords
    BY <1>1, <1>2, WindowFacts
  <2> QED BY <2>1, <1>1, <1>2
<1>6. ~(rates[b].at > second) => before = attempted[second]
  <2>1. rates[b].at \in Nat /\ second \in Nat
    BY <1>2, <1>3
  <2>2. rates[b].at = second => rates[b].n = attempted[second]
    BY <1>2, <1>4 DEF b
  <2>3. rates[b].at < second => attempted[second] = 0
    BY <1>2, <1>4 DEF b
  <2> QED BY <2>1, <2>2, <2>3
<1>7. /\ \A u \in Units : u # second => attempted'[u] = attempted[u]
      /\ attempted'[second] = attempted[second] + 1
  BY <1>1, <1>2
<1>8. /\ rates' \in [Slots -> [at : {0} \cup Units, n : 0 .. MaxRecords]]
      /\ \A s \in Slots : rates'[s].at \in {0} \cup {u \in Units : u % Buckets = s}
      /\ \A s \in Slots : rates'[s].at <= unit
  <2>1. CASE rates[b].at > second
    BY <2>1, <1>1, <1>2
  <2>2. CASE ~(rates[b].at > second)
    <3>1. now.n = attempted'[second] /\ now.at = second
      BY <2>2, <1>6, <1>7
    <3>2. now \in [at : {0} \cup Units, n : 0 .. MaxRecords]
      BY <3>1, <1>2, <1>5
    <3>3. rates' = [rates EXCEPT ![b] = now]
      BY <2>2, <1>1
    <3>4. second % Buckets = b
      BY DEF b
    <3> HIDE DEF now
    <3> QED BY <3>1, <3>2, <3>3, <3>4, <1>2, <1>3
  <2> QED BY <2>1, <2>2
<1>9. ASSUME NEW u \in Units
      PROVE  /\ rates'[u % Buckets].at = u => rates'[u % Buckets].n = attempted'[u]
             /\ rates'[u % Buckets].at < u => attempted'[u] = 0
  <2>1. CASE rates[b].at > second
    <3>1. rates' = rates
      BY <2>1, <1>1
    <3>2. CASE u = second
      <4>1. u % Buckets = b /\ rates[b].at \in Nat /\ second \in Nat
        BY <3>2, <1>2, <1>3 DEF b
      <4> QED BY <4>1, <3>1, <3>2, <2>1
    <3>3. CASE u # second
      BY <3>1, <3>3, <1>4, <1>7
    <3> QED BY <3>2, <3>3
  <2>2. CASE ~(rates[b].at > second)
    <3>1. rates' = [rates EXCEPT ![b] = now] /\ now.n = attempted'[second] /\ now.at = second
      BY <2>2, <1>1, <1>6, <1>7
    <3> HIDE DEF now
    <3>2. CASE u % Buckets # b
      <4>1. u # second
        BY <3>2 DEF b
      <4>2. rates'[u % Buckets] = rates[u % Buckets]
        BY <3>1, <3>2, <1>2, <1>3
      <4> QED BY <4>1, <4>2, <1>4, <1>7
    <3>3. CASE u % Buckets = b
      <4>1. rates'[u % Buckets] = now
        BY <3>1, <3>3, <1>2, <1>3
      <4>2. CASE u = second
        BY <4>1, <4>2, <3>1, <1>3
      <4>3. CASE u # second
        <5>1. second < u => attempted[u] = 0
          <6>1. rates[b].at \in Nat /\ second \in Nat /\ u \in Nat
            BY <1>2, <1>3
          <6>2. second < u => rates[b].at < u
            BY <6>1, <2>2
          <6> QED BY <6>2, <3>3, <1>4
        <5> QED BY <5>1, <4>1, <4>3, <3>1, <1>7
      <4> QED BY <4>2, <4>3
    <3> QED BY <3>2, <3>3
  <2> QED BY <2>1, <2>2
<1>10. /\ holds' \in [Recorder -> Units \cup {Unheld}]
       /\ \A r \in Recorder : holds'[r] # Unheld => holds'[r] <= unit
  BY <1>1, <1>2 DEF WindowsInv, Bucketed
<1>11. WindowsTypeOK'
  BY <1>1, <1>2, <1>8, <1>10 DEF WindowsInv, WindowsTypeOK
<1>12. Bucketed'
  BY <1>1, <1>5, <1>8, <1>9, <1>10 DEF WindowsInv, Bucketed
<1> QED BY <1>11, <1>12 DEF WindowsInv

\* One check is recorded within the window: its bucket is of no later round.
LEMMA RecordCheckKeeps ==
    ASSUME WindowsInv, NEW g \in Recorder, NEW outcome \in Outcome, RecordCheck(g, outcome)
    PROVE  WindowsInv'
<1> DEFINE moment == holds[g]
           b == moment % Buckets
           before == IF checks[b].at # moment THEN NoChecks ELSE checks[b].n
           now == [at |-> moment, n |-> [before EXCEPT ![outcome] = @ + 1]]
<1>1. /\ holds[g] # Unheld /\ unit < moment + Buckets /\ checked[moment][outcome] < MaxRecords
      /\ checked' = [checked EXCEPT ![moment][outcome] = @ + 1]
      /\ checks' = [checks EXCEPT ![b] = now]
      /\ holds' = [holds EXCEPT ![g] = Unheld]
      /\ unit' = unit /\ rates' = rates /\ attempted' = attempted
  BY DEF RecordCheck, Recorded
<1>2. /\ moment \in Units /\ moment <= unit /\ unit \in Units
      /\ holds \in [Recorder -> Units \cup {Unheld}]
      /\ checked \in [Units -> [Outcome -> 0 .. MaxRecords]]
      /\ checks \in [Slots -> [at : {0} \cup Units, n : [Outcome -> 0 .. MaxRecords]]]
      /\ \A s \in Slots : checks[s].at \in {0} \cup {u \in Units : u % Buckets = s}
      /\ \A s \in Slots : checks[s].at <= unit
  BY <1>1 DEF WindowsInv, WindowsTypeOK, Bucketed
<1>3. b \in Slots /\ \A u \in Units : u % Buckets \in Slots /\ u \in Nat
  BY <1>2, WindowFacts
<1>4. \A u \in Units : /\ checks[u % Buckets].at = u => checks[u % Buckets].n = checked[u]
                       /\ checks[u % Buckets].at < u => checked[u] = NoChecks
  BY DEF WindowsInv, Bucketed
<1> HIDE DEF moment
<1>5. checks[b].at <= moment
  <2>1. checks[b].at = 0 \/ (checks[b].at \in Units /\ checks[b].at % Buckets = moment % Buckets)
    BY <1>2, <1>3
  <2>2. moment \in Nat /\ unit \in Nat /\ checks[b].at \in Nat /\ checks[b].at <= unit
    BY <1>2, <1>3
  <2>3. CASE moment < checks[b].at
    <3>1. checks[b].at >= moment + Buckets
      BY <2>1, <2>2, <2>3, RoundsApart
    <3> QED BY <3>1, <2>2, <1>1, WindowFacts
  <2> QED BY <2>2, <2>3
<1>6. before = checked[moment]
  <2>1. checks[b].at \in Nat /\ moment \in Nat
    BY <1>2, <1>3
  <2>2. CASE checks[b].at = moment
    BY <2>2, <1>2, <1>4
  <2>3. CASE checks[b].at # moment
    <3>1. checks[b].at < moment
      BY <2>1, <2>3, <1>5
    <3> QED BY <3>1, <2>3, <1>2, <1>4
  <2> QED BY <2>2, <2>3
<1> HIDE DEF before, b
<1>7. /\ checked' \in [Units -> [Outcome -> 0 .. MaxRecords]]
      /\ checked'[moment] = now.n
      /\ \A u \in Units : u # moment => checked'[u] = checked[u]
  <2>1. checked[moment] \in [Outcome -> 0 .. MaxRecords] /\ checked[moment][outcome] + 1 \in 0 .. MaxRecords
    BY <1>1, <1>2, WindowFacts
  <2> DEFINE new == [checked[moment] EXCEPT ![outcome] = @ + 1]
  <2>2. new \in [Outcome -> 0 .. MaxRecords]
    BY <2>1
  <2>3. checked' = [checked EXCEPT ![moment] = new]
    BY <1>1, <1>2
  <2>4. now.n = new
    BY <1>6
  <2> HIDE DEF new, now
  <2> QED BY <2>2, <2>3, <2>4, <1>2
<1>8. now.at = moment /\ now \in [at : {0} \cup Units, n : [Outcome -> 0 .. MaxRecords]]
  <2>1. now.n \in [Outcome -> 0 .. MaxRecords]
    BY <1>2, <1>7
  <2> QED BY <2>1, <1>2
<1> HIDE DEF now
<1>9. /\ checks' \in [Slots -> [at : {0} \cup Units, n : [Outcome -> 0 .. MaxRecords]]]
      /\ \A s \in Slots : checks'[s].at \in {0} \cup {u \in Units : u % Buckets = s}
      /\ \A s \in Slots : checks'[s].at <= unit
  <2>1. moment % Buckets = b
    BY DEF b
  <2> QED BY <2>1, <1>1, <1>2, <1>3, <1>8
<1>10. ASSUME NEW u \in Units
       PROVE  /\ checks'[u % Buckets].at = u => checks'[u % Buckets].n = checked'[u]
              /\ checks'[u % Buckets].at < u => checked'[u] = NoChecks
  <2>1. CASE u % Buckets # b
    <3>1. u # moment
      BY <2>1 DEF b
    <3>2. checks'[u % Buckets] = checks[u % Buckets]
      BY <2>1, <1>1, <1>2, <1>3
    <3> QED BY <3>1, <3>2, <1>4, <1>7
  <2>2. CASE u % Buckets = b
    <3>1. checks'[u % Buckets] = now
      BY <2>2, <1>1, <1>2, <1>3
    <3>2. CASE u = moment
      BY <3>1, <3>2, <1>3, <1>7, <1>8
    <3>3. CASE u # moment
      <4>1. moment < u => checked[u] = NoChecks
        <5>1. checks[b].at \in Nat /\ moment \in Nat /\ u \in Nat
          BY <1>2, <1>3
        <5>2. moment < u => checks[b].at < u
          BY <5>1, <1>5
        <5> QED BY <5>2, <2>2, <1>4
      <4> QED BY <4>1, <3>1, <3>3, <1>7, <1>8
    <3> QED BY <3>2, <3>3
  <2> QED BY <2>1, <2>2
<1>11. /\ holds' \in [Recorder -> Units \cup {Unheld}]
       /\ \A r \in Recorder : holds'[r] # Unheld => holds'[r] <= unit
  BY <1>1, <1>2 DEF WindowsInv, Bucketed
<1>12. WindowsTypeOK'
  BY <1>1, <1>2, <1>9, <1>11 DEF WindowsInv, WindowsTypeOK
<1>13. Bucketed'
  BY <1>1, <1>7, <1>9, <1>10, <1>11 DEF WindowsInv, Bucketed
<1> QED BY <1>12, <1>13 DEF WindowsInv

LEMMA WindowsStep == WindowsInv /\ [WindowsNext]_windowVars => WindowsInv'
<1> SUFFICES ASSUME WindowsInv, [WindowsNext]_windowVars PROVE WindowsInv'
  OBVIOUS
<1>1. CASE UnitPasses
  BY <1>1, UnitPassesKeeps
<1>2. ASSUME NEW g \in Recorder, ReadUnit(g) PROVE WindowsInv'
  BY <1>2, ReadUnitKeeps
<1>3. ASSUME NEW g \in Recorder, RecordAttempt(g) PROVE WindowsInv'
  BY <1>3, RecordAttemptKeeps
<1>4. ASSUME NEW g \in Recorder, NEW outcome \in Outcome, RecordCheck(g, outcome) PROVE WindowsInv'
  BY <1>4, RecordCheckKeeps
<1>5. CASE UNCHANGED windowVars
  BY <1>5 DEF windowVars, WindowsInv, WindowsTypeOK, Bucketed
<1> QED BY <1>1, <1>2, <1>3, <1>4, <1>5 DEF WindowsNext

WindowsSpec == WindowsInit /\ [][WindowsNext]_windowVars

LEMMA WindowsInvariant == WindowsSpec => []WindowsInv
BY WindowsInitially, WindowsStep, PTL DEF WindowsSpec

\* The window, as an interval.
LEMMA WindowIsInterval ==
    ASSUME WindowsInv
    PROVE  LET first == IF unit - Buckets + 1 >= Started THEN unit - Buckets + 1 ELSE Started
           IN  /\ InWindow = first .. unit /\ first \in Nat /\ first <= unit
               /\ IsFiniteSet(InWindow) /\ Cardinality(InWindow) = unit - first + 1
<1> DEFINE first == IF unit - Buckets + 1 >= Started THEN unit - Buckets + 1 ELSE Started
<1>1. /\ Buckets \in Nat \ {0} /\ Started \in Nat /\ LastUnit \in Nat /\ unit \in Started .. LastUnit
  BY WindowFacts DEF WindowsInv, WindowsTypeOK, Units
<1>2. first \in Nat /\ first <= unit
  BY <1>1
<1>3. InWindow = first .. unit
  BY <1>1 DEF InWindow, Units
<1>4. IsFiniteSet(first .. unit) /\ Cardinality(first .. unit) = unit - first + 1
  <2> HIDE DEF first
  <2>1. first \in Int /\ unit \in Int /\ ~(first > unit)
    BY <1>1, <1>2
  <2> QED BY <2>1, FS_Interval
<1> QED BY <1>2, <1>3, <1>4

\* The current buckets are written at different times of the window.
LEMMA CurrentTimes ==
    ASSUME WindowsInv, NEW buckets,
           \A b \in Slots : buckets[b].at \in {0} \cup {u \in Units : u % Buckets = b}
    PROVE  /\ IsFiniteSet(Current(buckets))
           /\ \A b \in Current(buckets) :
                /\ b \in Slots /\ buckets[b].at \in InWindow /\ buckets[b].at \in Units
                /\ buckets[b].at % Buckets = b
           /\ \A b, c \in Current(buckets) : buckets[b].at = buckets[c].at => b = c
<1>1. unit \in Units /\ unit \in Nat /\ unit >= Buckets /\ Buckets \in Nat \ {0}
  BY WindowFacts DEF WindowsInv, WindowsTypeOK
<1>2. ASSUME NEW b \in Current(buckets)
      PROVE  /\ b \in Slots /\ buckets[b].at \in InWindow /\ buckets[b].at \in Units
             /\ buckets[b].at % Buckets = b
  <2>1. b \in Slots /\ buckets[b].at > unit - Buckets /\ buckets[b].at <= unit
    BY DEF Current
  <2>2. buckets[b].at # 0
    BY <2>1, <1>1
  <2> QED BY <2>1, <2>2 DEF InWindow
<1>3. IsFiniteSet(Current(buckets))
  <2>1. IsFiniteSet(0 .. Buckets - 1)
    <3>1. 0 \in Int /\ Buckets - 1 \in Int
      BY <1>1
    <3> QED BY <3>1, FS_Interval
  <2> QED BY <2>1, FS_Subset DEF Current, Slots
<1> QED BY <1>2, <1>3

\* Adding up the current buckets is adding up the units of the window, when a bucket
\* holds what its unit has and later units of it have nothing.
LEMMA RingSum ==
    ASSUME WindowsInv, NEW buckets, NEW f, NEW g,
           \A b \in Slots : /\ buckets[b].at \in {0} \cup {u \in Units : u % Buckets = b}
                            /\ buckets[b].at <= unit,
           \A b \in Slots : f[b] \in Nat,
           \A u \in Units : /\ g[u] \in Nat
                            /\ buckets[u % Buckets].at = u => f[u % Buckets] = g[u]
                            /\ buckets[u % Buckets].at < u => g[u] = 0
    PROVE  SumFunctionOnSet(f, Current(buckets)) = SumFunctionOnSet(g, InWindow)
<1> DEFINE h == [b \in Slots |-> buckets[b].at]
           Written == {h[b] : b \in Current(buckets)}
<1>1. /\ IsFiniteSet(Current(buckets))
      /\ \A b \in Current(buckets) :
           /\ b \in Slots /\ buckets[b].at \in InWindow /\ buckets[b].at \in Units
           /\ buckets[b].at % Buckets = b
      /\ \A b, c \in Current(buckets) : buckets[b].at = buckets[c].at => b = c
  BY CurrentTimes
<1>2. \A b \in Current(buckets) : h[b] = buckets[b].at
  BY <1>1
<1> HIDE DEF h
<1>3. \A b \in Current(buckets) : f[b] \in Nat /\ g[h[b]] = f[b]
  BY <1>1, <1>2
<1>4. \A b, c \in Current(buckets) : h[b] = h[c] => b = c
  BY <1>1, <1>2
<1>5. SumFunctionOnSet(f, Current(buckets)) = SumFunctionOnSet(g, Written)
  BY <1>1, <1>3, <1>4, SumMapped
<1>6. Written \in SUBSET InWindow
  BY <1>1, <1>2
<1>7. ASSUME NEW u \in InWindow \ Written PROVE g[u] = 0
  <2> DEFINE b == u % Buckets
  <2>1. u \in Units /\ u > unit - Buckets /\ u <= unit
    BY <1>7 DEF InWindow
  <2>2. /\ b \in Slots /\ u \in Nat /\ unit \in Nat /\ Buckets \in Nat
        /\ buckets[b].at \in Nat /\ buckets[b].at <= unit
        /\ buckets[b].at = 0 \/ buckets[b].at % Buckets = u % Buckets
    BY <2>1, WindowFacts DEF WindowsInv, WindowsTypeOK
  <2>3. CASE buckets[b].at = u
    <3>1. b \in Current(buckets)
      BY <2>1, <2>2, <2>3 DEF Current
    <3>2. h[b] = u
      BY <3>1, <1>2, <2>3
    <3> HIDE DEF b
    <3>3. u \in Written
      BY <3>1, <3>2
    <3> QED BY <1>7, <3>3
  <2>4. CASE u < buckets[b].at
    <3>1. buckets[b].at >= u + Buckets
      BY <2>2, <2>4, RoundsApart
    <3> QED BY <3>1, <2>1, <2>2
  <2>5. CASE buckets[b].at < u
    BY <2>1, <2>5
  <2> QED BY <2>2, <2>3, <2>4, <2>5
<1>8. IsFiniteSet(InWindow) /\ \A u \in InWindow : g[u] \in Nat
  BY WindowIsInterval DEF InWindow
<1> HIDE DEF Written
<1>9. SumFunctionOnSet(g, InWindow) = SumFunctionOnSet(g, Written)
  BY <1>6, <1>7, <1>8, SumIdle
<1> QED BY <1>5, <1>9

\* What the invariant says of the two rings, in the form RingSum asks for.
LEMMA BucketFacts ==
    ASSUME WindowsInv
    PROVE  /\ \A b \in Slots :
                /\ rates[b].at \in {0} \cup {u \in Units : u % Buckets = b} /\ rates[b].at <= unit
                /\ checks[b].at \in {0} \cup {u \in Units : u % Buckets = b} /\ checks[b].at <= unit
                /\ rates[b].n \in 0 .. MaxRecords
                /\ checks[b].n \in [Outcome -> 0 .. MaxRecords]
           /\ \A u \in Units :
                /\ u % Buckets \in Slots /\ u \in Nat
                /\ attempted[u] \in 0 .. MaxRecords /\ checked[u] \in [Outcome -> 0 .. MaxRecords]
                /\ rates[u % Buckets].at = u => rates[u % Buckets].n = attempted[u]
                /\ rates[u % Buckets].at < u => attempted[u] = 0
                /\ checks[u % Buckets].at = u => checks[u % Buckets].n = checked[u]
                /\ checks[u % Buckets].at < u => checked[u] = NoChecks
           /\ unit \in Units /\ MaxRecords \in Nat
<1>1. /\ rates \in [Slots -> [at : {0} \cup Units, n : 0 .. MaxRecords]]
      /\ checks \in [Slots -> [at : {0} \cup Units, n : [Outcome -> 0 .. MaxRecords]]]
      /\ \A b \in Slots : {rates[b].at, checks[b].at} \subseteq {0} \cup {u \in Units : u % Buckets = b}
      /\ unit \in Units
  BY DEF WindowsInv, WindowsTypeOK
<1>2. \A b \in Slots : rates[b].n \in 0 .. MaxRecords /\ checks[b].n \in [Outcome -> 0 .. MaxRecords]
  BY <1>1
<1>3. /\ attempted \in [Units -> 0 .. MaxRecords]
      /\ checked \in [Units -> [Outcome -> 0 .. MaxRecords]]
  BY DEF WindowsInv, Bucketed
<1>4. \A u \in Units : attempted[u] \in 0 .. MaxRecords /\ checked[u] \in [Outcome -> 0 .. MaxRecords]
  BY <1>3
<1> QED BY <1>1, <1>2, <1>4, WindowFacts DEF WindowsInv, Bucketed

LEMMA AttemptsAreExact == WindowsInv => Attempts = SumFunctionOnSet(attempted, InWindow)
<1> SUFFICES ASSUME WindowsInv PROVE Attempts = SumFunctionOnSet(attempted, InWindow)
  OBVIOUS
<1> DEFINE f == [b \in Slots |-> rates[b].n]
<1>1. \A b \in Slots : f[b] = rates[b].n /\ f[b] \in Nat
  BY BucketFacts
<1>2. \A b \in Slots : /\ rates[b].at \in {0} \cup {u \in Units : u % Buckets = b}
                       /\ rates[b].at <= unit
  BY BucketFacts
<1>3. \A u \in Units : /\ attempted[u] \in Nat
                       /\ rates[u % Buckets].at = u => f[u % Buckets] = attempted[u]
                       /\ rates[u % Buckets].at < u => attempted[u] = 0
  <2> HIDE DEF f
  <2> QED BY <1>1, BucketFacts
<1>4. Attempts = SumFunctionOnSet(f, Current(rates))
  BY DEF Attempts
<1> HIDE DEF f
<1> QED BY <1>1, <1>2, <1>3, <1>4, RingSum

LEMMA ChecksAreExact ==
    ASSUME WindowsInv, NEW o \in Outcome
    PROVE  Checks(o) = SumFunctionOnSet([u \in Units |-> checked[u][o]], InWindow)
<1> DEFINE f == [b \in Slots |-> checks[b].n[o]]
           g == [u \in Units |-> checked[u][o]]
<1>1. /\ \A b \in Slots : f[b] = checks[b].n[o] /\ f[b] \in Nat
      /\ \A u \in Units : g[u] = checked[u][o] /\ g[u] \in Nat
  BY BucketFacts
<1>2. \A b \in Slots : /\ checks[b].at \in {0} \cup {u \in Units : u % Buckets = b}
                       /\ checks[b].at <= unit
  BY BucketFacts
<1>3. \A u \in Units : /\ g[u] \in Nat
                       /\ checks[u % Buckets].at = u => f[u % Buckets] = g[u]
                       /\ checks[u % Buckets].at < u => g[u] = 0
  <2>1. NoChecks[o] = 0
    BY DEF NoChecks
  <2> HIDE DEF f, g
  <2> QED BY <1>1, <2>1, BucketFacts
<1>4. Checks(o) = SumFunctionOnSet(f, Current(checks))
  BY DEF Checks
<1> HIDE DEF f, g
<1>5. Checks(o) = SumFunctionOnSet(g, InWindow)
  BY <1>1, <1>2, <1>3, <1>4, RingSum
<1> QED BY <1>5 DEF g

LEMMA PreviousIsExact ==
    ASSUME WindowsInv, Buckets > 1, unit > Started
    PROVE  Previous = attempted[unit - 1]
<1> DEFINE f == [b \in Slots |-> IF rates[b].at = unit - 1 THEN rates[b].n ELSE 0]
           g == [u \in Units |-> IF u = unit - 1 THEN attempted[u] ELSE 0]
           v == unit - 1
<1>1. /\ \A b \in Slots : f[b] = (IF rates[b].at = v THEN rates[b].n ELSE 0) /\ f[b] \in Nat
      /\ \A u \in Units : g[u] = (IF u = v THEN attempted[u] ELSE 0) /\ g[u] \in Nat
  BY BucketFacts
<1>2. \A b \in Slots : /\ rates[b].at \in {0} \cup {u \in Units : u % Buckets = b}
                       /\ rates[b].at <= unit
  BY BucketFacts
<1>3. \A u \in Units : /\ g[u] \in Nat
                       /\ rates[u % Buckets].at = u => f[u % Buckets] = g[u]
                       /\ rates[u % Buckets].at < u => g[u] = 0
  <2> HIDE DEF f, g, v
  <2> QED BY <1>1, BucketFacts
<1>4. Previous = SumFunctionOnSet(f, Current(rates))
  BY DEF Previous
<1>5. v \in Units /\ v > unit - Buckets /\ v <= unit
  BY WindowFacts, BucketFacts DEF Units
<1> HIDE DEF f, g, v
<1>6. Previous = SumFunctionOnSet(g, InWindow)
  BY <1>1, <1>2, <1>3, <1>4, RingSum
<1>7. {v} \in SUBSET InWindow
  BY <1>5 DEF InWindow
<1>8. SumFunctionOnSet(g, InWindow) = SumFunctionOnSet(g, {v})
  <2>1. \A u \in InWindow : u \in Units /\ g[u] \in Nat
    BY <1>1 DEF InWindow
  <2>2. \A u \in InWindow \ {v} : g[u] = 0
    BY <1>1, <2>1
  <2> QED BY <1>7, <2>1, <2>2, WindowIsInterval, SumIdle
<1>9. SumFunctionOnSet(g, {v}) = g[v] + SumFunctionOnSet(g, {v} \ {v})
  <2>1. IsFiniteSet({v})
    BY FS_EmptySet, FS_AddElement
  <2> QED BY <2>1, <1>1, <1>5, SumOfOne
<1>10. SumFunctionOnSet(g, {v} \ {v}) = 0
  <2>1. {v} \ {v} = {}
    OBVIOUS
  <2> QED BY <2>1, SumOfNone
<1>11. g[v] = attempted[v] /\ attempted[v] \in Nat
  BY <1>1, <1>5, BucketFacts
<1>12. SumFunctionOnSet(g, {v}) = attempted[v]
  BY <1>9, <1>10, <1>11
<1> QED BY <1>6, <1>8, <1>12 DEF v

\* The busiest unit.
LEMMA PeakIsGreatest ==
    ASSUME WindowsInv
    PROVE  Peak \in Nat /\ \A b \in Current(rates) : rates[b].n <= Peak
<1> DEFINE T == {0} \cup {rates[b].n : b \in Current(rates)}
<1>1. \A b \in Current(rates) : rates[b].n \in 0 .. MaxRecords
  BY BucketFacts DEF Current
<1>2. T \subseteq 0 .. MaxRecords /\ T \subseteq Nat /\ T # {} /\ IsFiniteSet(T)
  <2>1. MaxRecords \in Nat
    BY BucketFacts
  <2>2. T \subseteq 0 .. MaxRecords
    BY <1>1, <2>1
  <2>3. IsFiniteSet(0 .. MaxRecords)
    <3>1. 0 \in Int /\ MaxRecords \in Int
      BY <2>1
    <3> QED BY <3>1, FS_Interval
  <2>4. T # {}
    OBVIOUS
  <2> HIDE DEF T
  <2>5. IsFiniteSet(T)
    BY <2>2, <2>3, FS_Subset
  <2>6. T \subseteq Nat
    BY <2>1, <2>2
  <2> QED BY <2>2, <2>4, <2>5, <2>6
<1>3. PICK m \in T : \A n \in T : n <= m
  <2> HIDE DEF T
  <2> QED BY <1>2, LargestNumber
<1>4. Max(T) = m
  <2>1. \A n \in T : m >= n
    BY <1>2, <1>3
  <2>2. T \subseteq Int
    BY <1>2
  <2>3. m \in T
    BY <1>3
  <2> HIDE DEF T
  <2> QED BY <2>1, <2>2, <2>3, MaxIs
<1>5. Peak = m
  BY <1>4 DEF Peak
<1>6. \A b \in Current(rates) : rates[b].n \in T
  OBVIOUS
<1> HIDE DEF T
<1> QED BY <1>2, <1>3, <1>5, <1>6

\* The seconds the average divides by are those of the window.
LEMMA UnitsOfWindow == WindowsInv => WindowUnits = Cardinality(InWindow)
<1> SUFFICES ASSUME WindowsInv PROVE WindowUnits = Cardinality(InWindow)
  OBVIOUS
<1> DEFINE lived == unit - Started + 1
           first == IF unit - Buckets + 1 >= Started THEN unit - Buckets + 1 ELSE Started
           least == IF Buckets <= lived THEN Buckets ELSE lived
<1>1. Buckets \in Nat \ {0} /\ Started \in Nat /\ lived \in Nat \ {0} /\ unit \in Nat
  BY WindowFacts, BucketFacts DEF Units
<1>2. Cardinality(InWindow) = unit - first + 1
  BY WindowIsInterval
<1>3. least = unit - first + 1 /\ least \in Nat \ {0}
  BY <1>1
<1>4. Min({Buckets, lived}) = least
  <2> HIDE DEF lived
  <2>1. {Buckets, lived} \subseteq Int /\ least \in {Buckets, lived} /\ \A y \in {Buckets, lived} : least <= y
    BY <1>1
  <2> HIDE DEF least
  <2> QED BY <2>1, MinIs
<1>5. WindowUnits = Max({1, least})
  BY <1>4 DEF WindowUnits
<1> HIDE DEF least, first
<1>6. Max({1, least}) = IF 1 >= least THEN 1 ELSE least
  <2>1. 1 \in Int /\ least \in Int
    BY <1>3
  <2> QED BY <2>1, MaxOfTwo
<1> QED BY <1>2, <1>3, <1>5, <1>6

\* The snapshot of the last minute and hour is exact, and its average no more than its
\* peak.
LEMMA SnapshotIsExact == WindowsInv => WindowIsExact /\ AverageBelowPeak
<1> SUFFICES ASSUME WindowsInv PROVE WindowIsExact /\ AverageBelowPeak
  OBVIOUS
<1>1. WindowIsExact
  BY AttemptsAreExact, ChecksAreExact, PreviousIsExact DEF WindowIsExact
<1>2. AverageBelowPeak
  <2> DEFINE f == [b \in Slots |-> rates[b].n]
             h == [b \in Current(rates) |-> rates[b].at]
             Written == {h[b] : b \in Current(rates)}
  <2>1. /\ IsFiniteSet(Current(rates))
        /\ \A b \in Current(rates) : b \in Slots /\ rates[b].at \in InWindow
        /\ \A b, c \in Current(rates) : rates[b].at = rates[c].at => b = c
    <3>1. \A b \in Slots : rates[b].at \in {0} \cup {u \in Units : u % Buckets = b}
      BY BucketFacts
    <3> QED BY <3>1, CurrentTimes
  <2>2. \A b \in Current(rates) : f[b] \in Nat /\ f[b] <= Peak
    BY <2>1, PeakIsGreatest, BucketFacts
  <2>3. Attempts = SumFunctionOnSet(f, Current(rates))
    BY DEF Attempts
  <2>4. Written \subseteq InWindow /\ \A b, c \in Current(rates) : h[b] = h[c] => b = c
    BY <2>1
  <2>5. h \in [Current(rates) -> Written] /\ \A w \in Written : \E b \in Current(rates) : h[b] = w
    OBVIOUS
  <2> HIDE DEF f, h, Written
  <2>6. Attempts <= Cardinality(Current(rates)) * Peak
    BY <2>1, <2>2, <2>3, PeakIsGreatest, SumBound
  <2>7. IsFiniteSet(Written) /\ Cardinality(Written) = Cardinality(Current(rates))
    BY <2>1, <2>4, <2>5, SameCount
  <2>8. Cardinality(Written) <= Cardinality(InWindow)
    BY <2>4, WindowIsInterval, FS_Subset
  <2>9. Attempts \in Nat
    BY <2>1, <2>2, <2>3, SumOfOne
  <2> DEFINE c == Cardinality(Current(rates))
             w == WindowUnits
  <2>10. c \in Nat /\ w \in Nat /\ c <= w /\ Peak \in Nat
    <3>1. Cardinality(InWindow) \in Nat
      BY WindowIsInterval, FS_CardinalityType
    <3>2. Cardinality(Current(rates)) \in Nat
      BY <2>1, FS_CardinalityType
    <3> QED BY <3>1, <3>2, <2>7, <2>8, UnitsOfWindow, PeakIsGreatest
  <2>11. Attempts <= c * Peak
    BY <2>6
  <2> HIDE DEF c, w
  <2>12. c * Peak <= w * Peak /\ c * Peak \in Nat /\ w * Peak \in Nat
    BY <2>10, SMT
  <2>13. Attempts <= w * Peak
    BY <2>9, <2>11, <2>12
  <2> QED BY <2>13 DEF AverageBelowPeak, w
<1> QED BY <1>1, <1>2

-----------------------------------------------------------------------------
(* The trend.  Samples are in the order of their times, all at ticks; those    *)
(* kept have all been recorded, and every one recorded in the last two         *)
(* windows is kept.  As a trend looks back a window and a tick at most, it     *)
(* finds in what is kept what it would find in everything recorded.            *)

BacklogSample == [at : Nat, due : Nat, waiting : Nat]

Rising(s) == \A i, j \in 1 .. Len(s) : i < j => s[i].at < s[j].at

SampledAtTicks ==
    \A i \in 1 .. Len(recorded) :
        /\ recorded[i].at <= minute /\ recorded[i].at % Interval = 0
        /\ recorded[i].at = minute => ticked

KeptWasRecorded ==
    \A k \in 1 .. Len(samples) : \E i \in 1 .. Len(recorded) : samples[k] = recorded[i]

RecentIsKept ==
    \A i \in 1 .. Len(recorded) :
        recorded[i].at >= minute - 2 * Trendspan =>
            \E k \in 1 .. Len(samples) : samples[k] = recorded[i]

KeptSpan ==
    \A j, k \in 1 .. Len(samples) : samples[k].at - samples[j].at <= 2 * Trendspan

TrendInv ==
    /\ minute \in 0 .. LastMinute /\ ticked \in BOOLEAN
    /\ samples \in Seq(BacklogSample) /\ recorded \in Seq(BacklogSample)
    /\ Rising(samples) /\ Rising(recorded)
    /\ SampledAtTicks /\ KeptWasRecorded /\ RecentIsKept /\ KeptSpan

TrendSpec == TrendInit /\ [][TrendNext]_trendVars

LEMMA TrendInitially == TrendInit => TrendInv
<1> SUFFICES ASSUME TrendInit
             PROVE  TrendInv
  OBVIOUS
<1>1. /\ minute = 0 /\ ticked = FALSE /\ samples = << >> /\ recorded = << >>
      /\ Len(samples) = 0 /\ Len(recorded) = 0
  BY DEF TrendInit
<1>2. minute \in 0 .. LastMinute
  BY <1>1, TrendAssumption
<1>3. samples \in Seq(BacklogSample) /\ recorded \in Seq(BacklogSample)
  BY <1>1
<1>4. \A i \in 1 .. 0 : FALSE
  OBVIOUS
<1> QED
  BY <1>1, <1>2, <1>3, <1>4
     DEF TrendInv, Rising, SampledAtTicks, KeptWasRecorded, RecentIsKept, KeptSpan

LEMMA SampledIs ==
    ASSUME TrendInv, NEW b \in Backlog
    PROVE  Sampled(b) \in BacklogSample /\ Sampled(b).at = minute
BY TrendAssumption DEF Sampled, BacklogSample, TrendInv

\* A sequence in the order of its times stays so when it gets a later element.
LEMMA RisingAppend ==
    ASSUME NEW s \in Seq(BacklogSample), Rising(s), NEW x \in BacklogSample,
           \A i \in 1 .. Len(s) : s[i].at < x.at
    PROVE  Rising(Append(s, x)) /\ Append(s, x) \in Seq(BacklogSample)
<1> DEFINE t == Append(s, x)
<1>1. t \in Seq(BacklogSample) /\ Len(t) = Len(s) + 1 /\ Len(s) \in Nat
  OBVIOUS
<1>2. t[Len(s) + 1] = x /\ \A i \in 1 .. Len(s) : t[i] = s[i]
  OBVIOUS
<1> HIDE DEF t
<1>3. ASSUME NEW i \in 1 .. Len(t), NEW j \in 1 .. Len(t), i < j
      PROVE  t[i].at < t[j].at
  <2>1. i \in 1 .. Len(s)
    BY <1>1, <1>3
  <2>2. CASE j \in 1 .. Len(s)
    <3>1. s[i].at < s[j].at
      BY <1>3, <2>1, <2>2 DEF Rising
    <3>2. t[i] = s[i] /\ t[j] = s[j]
      BY <1>2, <2>1, <2>2
    <3> QED BY <3>1, <3>2
  <2>3. CASE j = Len(s) + 1
    <3>1. s[i].at < x.at /\ t[i] = s[i] /\ t[j] = x
      BY <1>2, <2>1, <2>3
    <3> QED BY <3>1
  <2> QED BY <1>1, <2>2, <2>3
<1>4. Rising(t)
  BY <1>3 DEF Rising
<1> QED BY <1>1, <1>4 DEF t

\* Dropping elements leaves the others in their order.
LEMMA RisingOnly ==
    ASSUME NEW s \in Seq(BacklogSample), Rising(s), NEW S
    PROVE  Rising(Only(s, S)) /\ Only(s, S) \in Seq(BacklogSample)
<1> DEFINE t == Only(s, S)
<1>1. PICK g : Traces(t, s, S, Len(s), g)
  BY OnlyTraces
<1>2. t \in Seq(BacklogSample)
  BY OnlyTraces
<1> HIDE DEF t
<1>3. ASSUME NEW i \in 1 .. Len(t), NEW j \in 1 .. Len(t), i < j
      PROVE  t[i].at < t[j].at
  <2>1. /\ g[i] \in 1 .. Len(s) /\ g[j] \in 1 .. Len(s) /\ g[i] < g[j]
        /\ t[i] = s[g[i]] /\ t[j] = s[g[j]]
    BY <1>1, <1>3 DEF Traces
  <2>2. s[g[i]].at < s[g[j]].at
    BY <2>1 DEF Rising
  <2> QED BY <2>1, <2>2
<1>4. Rising(t)
  BY <1>3 DEF Rising
<1> QED BY <1>2, <1>4 DEF t

\* No sample has the time of a tick that has not been sampled yet.
LEMMA SampledBefore ==
    ASSUME TrendInv, ~ticked
    PROVE  /\ \A i \in 1 .. Len(recorded) : recorded[i].at < minute
           /\ \A k \in 1 .. Len(samples) : samples[k].at < minute
<1>1. ASSUME NEW i \in 1 .. Len(recorded) PROVE recorded[i].at < minute
  <2>1. recorded[i] \in BacklogSample
    BY DEF TrendInv
  <2>2. recorded[i].at \in Nat /\ recorded[i].at <= minute /\ recorded[i].at # minute
    BY <2>1 DEF TrendInv, SampledAtTicks, BacklogSample
  <2>3. minute \in Nat
    BY TrendAssumption DEF TrendInv
  <2> QED BY <2>2, <2>3
<1> QED BY <1>1 DEF TrendInv, KeptWasRecorded

LEMMA RecordingKeeps ==
    ASSUME TrendInv, NEW b \in Backlog, RecordBacklog(b)
    PROVE  TrendInv'
<1> DEFINE x == Sampled(b)
           old == Append(samples, x)
           cutoff == minute - 2 * Trendspan
<1>0. /\ minute \in Nat /\ minute % Interval = 0 /\ ~ticked
      /\ minute' = minute /\ minute' \in 0 .. LastMinute /\ ticked' = TRUE
      /\ cutoff \in Int /\ cutoff <= minute
  BY TrendAssumption DEF TrendInv, RecordBacklog
<1>1. x \in BacklogSample /\ x.at = minute
  BY SampledIs
<1>2. samples' = Only(old, Since(cutoff)) /\ recorded' = Append(recorded, x)
  BY DEF RecordBacklog
<1>3. /\ Rising(old) /\ old \in Seq(BacklogSample)
      /\ Rising(recorded') /\ recorded' \in Seq(BacklogSample)
  <2> HIDE DEF x
  <2>1. \A i \in 1 .. Len(samples) : samples[i].at < x.at
    BY <1>0, <1>1, SampledBefore
  <2>2. \A i \in 1 .. Len(recorded) : recorded[i].at < x.at
    BY <1>0, <1>1, SampledBefore
  <2>3. Rising(old) /\ old \in Seq(BacklogSample)
    BY <1>1, <2>1, RisingAppend DEF TrendInv
  <2> QED BY <1>1, <1>2, <2>2, <2>3, RisingAppend DEF TrendInv
<1>4. Rising(samples') /\ samples' \in Seq(BacklogSample)
  <2> HIDE DEF old
  <2> QED BY <1>2, <1>3, RisingOnly
<1>5. /\ \A k \in 1 .. Len(samples') :
           \E i \in 1 .. Len(old) : samples'[k] = old[i] /\ old[i] \in Since(cutoff)
      /\ \A i \in 1 .. Len(old) :
           old[i] \in Since(cutoff) => \E k \in 1 .. Len(samples') : samples'[k] = old[i]
  <2> DEFINE S == Since(cutoff)
             t == Only(old, S)
  <2>1. old \in Seq(BacklogSample)
    BY <1>3
  <2>2. samples' = t
    BY <1>2
  <2> HIDE DEF old, S
  <2>3. /\ \A k \in 1 .. Len(t) : \E i \in 1 .. Len(old) : t[k] = old[i] /\ old[i] \in S
        /\ \A i \in 1 .. Len(old) : old[i] \in S => \E k \in 1 .. Len(t) : t[k] = old[i]
    <3>1. \A k \in 1 .. Len(t) : \E i \in 1 .. Len(old) : t[k] = old[i] /\ old[i] \in S
      BY <2>1, OnlyKeeps
    <3>2. \A i \in 1 .. Len(old) : old[i] \in S => \E k \in 1 .. Len(t) : t[k] = old[i]
      BY <2>1, OnlyKeeps
    <3> QED BY <3>1, <3>2
  <2> HIDE DEF t
  <2>4. /\ \A k \in 1 .. Len(samples') : \E i \in 1 .. Len(old) : samples'[k] = old[i] /\ old[i] \in S
        /\ \A i \in 1 .. Len(old) : old[i] \in S => \E k \in 1 .. Len(samples') : samples'[k] = old[i]
    BY <2>2, <2>3
  <2> QED BY <2>4 DEF S
<1>6. /\ \A i \in 1 .. Len(old) :
           old[i] = x \/ \E k \in 1 .. Len(samples) : old[i] = samples[k]
      /\ \A k \in 1 .. Len(samples) : \E i \in 1 .. Len(old) : old[i] = samples[k]
      /\ \E i \in 1 .. Len(old) : old[i] = x
  <2> HIDE DEF x
  <2>1. Len(samples) \in Nat /\ Len(old) = Len(samples) + 1 /\ old[Len(samples) + 1] = x
    BY <1>1 DEF TrendInv
  <2>2. \A i \in 1 .. Len(samples) : old[i] = samples[i]
    BY <1>1 DEF TrendInv
  <2> HIDE DEF old
  <2>3. \A i \in 1 .. Len(old) : i \in 1 .. Len(samples) \/ i = Len(samples) + 1
    BY <2>1
  <2>4. \A i \in 1 .. Len(samples) : i \in 1 .. Len(old)
    BY <2>1
  <2>5. Len(samples) + 1 \in 1 .. Len(old)
    BY <2>1
  <2> QED BY <2>1, <2>2, <2>3, <2>4, <2>5
<1>7. /\ \A i \in 1 .. Len(recorded') :
           recorded'[i] = x \/ \E k \in 1 .. Len(recorded) : recorded'[i] = recorded[k]
      /\ \A k \in 1 .. Len(recorded) : \E i \in 1 .. Len(recorded') : recorded'[i] = recorded[k]
      /\ \E i \in 1 .. Len(recorded') : recorded'[i] = x
  <2> HIDE DEF x
  <2> DEFINE r == Append(recorded, x)
  <2>1. Len(recorded) \in Nat /\ Len(r) = Len(recorded) + 1 /\ r[Len(recorded) + 1] = x
    BY <1>1 DEF TrendInv
  <2>2. \A i \in 1 .. Len(recorded) : r[i] = recorded[i]
    BY <1>1 DEF TrendInv
  <2>3. recorded' = r
    BY <1>2
  <2> HIDE DEF r
  <2>4. \A i \in 1 .. Len(r) : i \in 1 .. Len(recorded) \/ i = Len(recorded) + 1
    BY <2>1
  <2>5. \A i \in 1 .. Len(recorded) : i \in 1 .. Len(r)
    BY <2>1
  <2>6. Len(recorded) + 1 \in 1 .. Len(r)
    BY <2>1
  <2> QED BY <2>1, <2>2, <2>3, <2>4, <2>5, <2>6
<1> HIDE DEF old, x
<1>8. SampledAtTicks'
  <2> SUFFICES ASSUME NEW i \in 1 .. Len(recorded')
               PROVE  recorded'[i].at <= minute /\ recorded'[i].at % Interval = 0
    BY <1>0 DEF SampledAtTicks
  <2>1. CASE recorded'[i] = x
    BY <1>0, <1>1, <2>1
  <2>2. ASSUME NEW k \in 1 .. Len(recorded), recorded'[i] = recorded[k]
        PROVE  recorded'[i].at <= minute /\ recorded'[i].at % Interval = 0
    BY <2>2 DEF TrendInv, SampledAtTicks
  <2> QED BY <1>7, <2>1, <2>2
<1>9. KeptWasRecorded'
  <2> SUFFICES ASSUME NEW k \in 1 .. Len(samples')
               PROVE  \E i \in 1 .. Len(recorded') : samples'[k] = recorded'[i]
    BY DEF KeptWasRecorded
  <2>1. PICK i \in 1 .. Len(old) : samples'[k] = old[i]
    BY <1>5
  <2>2. CASE old[i] = x
    BY <1>7, <2>1, <2>2
  <2>3. ASSUME NEW j \in 1 .. Len(samples), old[i] = samples[j]
        PROVE  \E m \in 1 .. Len(recorded') : samples'[k] = recorded'[m]
    <3>1. PICK m \in 1 .. Len(recorded) : samples[j] = recorded[m]
      BY DEF TrendInv, KeptWasRecorded
    <3>2. PICK n \in 1 .. Len(recorded') : recorded'[n] = recorded[m]
      BY <1>7
    <3> QED BY <2>1, <2>3, <3>1, <3>2
  <2> QED BY <1>6, <2>2, <2>3
<1>10. RecentIsKept'
  <2> SUFFICES ASSUME NEW i \in 1 .. Len(recorded'), recorded'[i].at >= cutoff
               PROVE  \E k \in 1 .. Len(samples') : samples'[k] = recorded'[i]
    BY <1>0 DEF RecentIsKept
  <2>1. \E j \in 1 .. Len(old) : old[j] = recorded'[i]
    <3>1. CASE recorded'[i] = x
      BY <1>6, <3>1
    <3>2. ASSUME NEW m \in 1 .. Len(recorded), recorded'[i] = recorded[m]
          PROVE  \E j \in 1 .. Len(old) : old[j] = recorded'[i]
      <4>1. recorded[m].at >= minute - 2 * Trendspan
        BY <3>2
      <4>2. PICK k \in 1 .. Len(samples) : samples[k] = recorded[m]
        BY <4>1 DEF TrendInv, RecentIsKept
      <4>3. PICK j \in 1 .. Len(old) : old[j] = samples[k]
        BY <1>6
      <4> QED BY <3>2, <4>2, <4>3
    <3> QED BY <1>7, <3>1, <3>2
  <2>2. recorded'[i] \in BacklogSample
    BY <1>3
  <2>3. recorded'[i].at <= minute
    BY <1>0, <1>8 DEF SampledAtTicks
  <2>4. recorded'[i] \in Since(cutoff)
    <3> DEFINE y == recorded'[i]
    <3>1. y.at \in Nat /\ y.at <= minute /\ y.at >= cutoff /\ cutoff \in Int
      BY <1>0, <2>2, <2>3 DEF BacklogSample
    <3>2. y.at \in cutoff .. minute
      BY <1>0, <3>1
    <3>3. y = [at |-> y.at, due |-> y.due, waiting |-> y.waiting] /\ y.due \in Nat /\ y.waiting \in Nat
      BY <2>2 DEF BacklogSample
    <3> HIDE DEF y, cutoff
    <3>4. y \in Since(cutoff)
      BY <3>2, <3>3 DEF Since
    <3> QED BY <3>4 DEF y
  <2> HIDE DEF cutoff
  <2> QED BY <1>5, <2>1, <2>4
<1>11. KeptSpan'
  <2> SUFFICES ASSUME NEW j \in 1 .. Len(samples'), NEW k \in 1 .. Len(samples')
               PROVE  samples'[k].at - samples'[j].at <= 2 * Trendspan
    BY DEF KeptSpan
  <2>1. samples'[k] \in Since(cutoff) /\ samples'[j] \in Since(cutoff)
    <3> HIDE DEF cutoff
    <3> QED BY <1>5
  <2>2. samples'[k].at \in cutoff .. minute /\ samples'[j].at \in cutoff .. minute
    <3> HIDE DEF cutoff
    <3> QED BY <2>1 DEF Since
  <2> DEFINE p == samples'[k].at
             q == samples'[j].at
  <2>3. p \in Int /\ q \in Int /\ p <= minute /\ q >= minute - 2 * Trendspan /\ 2 * Trendspan \in Int
    BY <1>0, <2>2, TrendAssumption
  <2> HIDE DEF p, q
  <2>4. p - q <= 2 * Trendspan
    BY <1>0, <2>3
  <2> QED BY <2>4 DEF p, q
<1> QED BY <1>0, <1>3, <1>4, <1>8, <1>9, <1>10, <1>11 DEF TrendInv

LEMMA TrendStep == TrendInv /\ [TrendNext]_trendVars => TrendInv'
<1> SUFFICES ASSUME TrendInv, [TrendNext]_trendVars
             PROVE  TrendInv'
  OBVIOUS
<1>1. CASE MinutePasses
  <2>1. /\ minute' = minute + 1 /\ minute' \in 0 .. LastMinute /\ ticked' = FALSE
        /\ samples' = samples /\ recorded' = recorded /\ minute \in Nat
        /\ 2 * Trendspan \in Nat
    BY <1>1, TrendAssumption DEF MinutePasses, TrendInv
  <2>2. ASSUME NEW i \in 1 .. Len(recorded)
        PROVE  recorded[i].at \in Nat /\ recorded[i].at <= minute
    <3>1. recorded[i] \in BacklogSample
      BY DEF TrendInv
    <3> QED BY <3>1 DEF TrendInv, SampledAtTicks, BacklogSample
  <2>3. SampledAtTicks'
    BY <2>1, <2>2 DEF SampledAtTicks, TrendInv
  <2>4. RecentIsKept'
    <3> SUFFICES ASSUME NEW i \in 1 .. Len(recorded), recorded[i].at >= minute + 1 - 2 * Trendspan
                 PROVE  \E k \in 1 .. Len(samples) : samples[k] = recorded[i]
      BY <2>1 DEF RecentIsKept
    <3> DEFINE p == recorded[i].at
               w == 2 * Trendspan
    <3>1. p \in Nat /\ p >= minute + 1 - w /\ w \in Nat
      BY <2>1, <2>2
    <3> HIDE DEF p, w
    <3>2. p >= minute - w
      BY <2>1, <3>1
    <3> QED BY <3>2 DEF p, w, TrendInv, RecentIsKept
  <2>5. KeptWasRecorded' /\ KeptSpan' /\ Rising(samples') /\ Rising(recorded')
    BY <2>1 DEF KeptWasRecorded, KeptSpan, TrendInv
  <2> QED BY <2>1, <2>3, <2>4, <2>5 DEF TrendInv
<1>2. CASE \E b \in Backlog : RecordBacklog(b)
  BY <1>2, RecordingKeeps
<1>3. CASE QueryFails
  <2>1. /\ minute' = minute /\ samples' = samples /\ recorded' = recorded /\ ticked' = TRUE
    BY <1>3 DEF QueryFails
  <2> QED BY <2>1 DEF TrendInv, Rising, SampledAtTicks, KeptWasRecorded, RecentIsKept, KeptSpan
<1>4. CASE UNCHANGED trendVars
  BY <1>4 DEF trendVars, TrendInv, Rising, SampledAtTicks, KeptWasRecorded, RecentIsKept, KeptSpan
<1> QED BY <1>1, <1>2, <1>3, <1>4 DEF TrendNext

LEMMA TrendInvariant == TrendSpec => []TrendInv
<1>1. TrendInit => TrendInv
  BY TrendInitially
<1>2. TrendInv /\ [TrendNext]_trendVars => TrendInv'
  BY TrendStep
<1> QED BY <1>1, <1>2, PTL DEF TrendSpec

-----------------------------------------------------------------------------
LEMMA BySteps ==
    ASSUME NEW p \in Nat, NEW q \in Nat, NEW N \in Nat \ {0}, p % N = 0, q % N = 0, p < q
    PROVE  q >= p + N
<1> DEFINE a == p \div N
           b == q \div N
<1>1. a \in Nat /\ b \in Nat /\ p = N * a /\ q = N * b
  BY SMT
<1> HIDE DEF a, b
<1>2. a < b
  <2>1. ASSUME b <= a PROVE FALSE
    <3>1. N * b <= N * a
      BY <1>1, <2>1, SMT
    <3> QED BY <1>1, <3>1
  <2> QED BY <1>1, <2>1
<1>3. N * b >= N * (a + 1) /\ N * (a + 1) = N * a + N
  BY <1>1, <1>2, SMT
<1> QED BY <1>1, <1>3

\* Five samples of two windows are kept at most.
LEMMA FewAreKept == TrendInv => TrendTypeOK
<1> SUFFICES ASSUME TrendInv
             PROVE  TrendTypeOK
  OBVIOUS
<1>1. ASSUME NEW k \in 1 .. Len(samples)
      PROVE  samples[k].at \in 0 .. minute /\ samples[k].at % Interval = 0
  <2>1. PICK i \in 1 .. Len(recorded) : samples[k] = recorded[i]
    BY DEF TrendInv, KeptWasRecorded
  <2>2. recorded[i] \in BacklogSample
    BY DEF TrendInv
  <2>3. recorded[i].at \in Nat /\ recorded[i].at <= minute /\ recorded[i].at % Interval = 0
    BY <2>2 DEF BacklogSample, TrendInv, SampledAtTicks
  <2>4. minute \in Nat
    BY TrendAssumption DEF TrendInv
  <2> QED BY <2>1, <2>3, <2>4
<1>2. Len(samples) \in Nat
  BY DEF TrendInv
<1>3. ASSUME Len(samples) > 5 PROVE FALSE
  <2> DEFINE at == [k \in 1 .. 6 |-> samples[k].at]
  <2>1. \A k \in 1 .. 6 : k \in 1 .. Len(samples)
    BY <1>2, <1>3
  <2>2. \A k \in 1 .. 6 : at[k] \in Nat /\ at[k] % Interval = 0
    <3>1. minute \in Nat
      BY TrendAssumption DEF TrendInv
    <3>2. ASSUME NEW k \in 1 .. 6 PROVE at[k] \in Nat /\ at[k] % Interval = 0
      <4>1. at[k] = samples[k].at
        OBVIOUS
      <4>2. samples[k].at \in 0 .. minute /\ samples[k].at % Interval = 0
        BY <1>1, <2>1
      <4> QED BY <3>1, <4>1, <4>2
    <3> HIDE DEF at
    <3> QED BY <3>2
  <2>3. \A j, k \in 1 .. 6 : j < k => at[j] < at[k]
    BY <2>1 DEF TrendInv, Rising
  <2>4. at[6] - at[1] <= 2 * Trendspan
    <3>1. samples[6].at - samples[1].at <= 2 * Trendspan
      BY <2>1 DEF TrendInv, KeptSpan
    <3> QED BY <3>1
  <2> HIDE DEF at
  <2>5. Interval \in Nat \ {0} /\ 2 * Trendspan = 4 * Interval
    BY TrendAssumption
  <2>6. \A k \in 1 .. 5 : at[k + 1] >= at[k] + Interval
    <3> TAKE k \in 1 .. 5
    <3>1. k \in 1 .. 6 /\ k + 1 \in 1 .. 6 /\ k < k + 1
      OBVIOUS
    <3>2. at[k] < at[k + 1]
      BY <2>3, <3>1
    <3> QED BY <2>2, <2>5, <3>1, <3>2, BySteps
  <2>7. /\ at[2] >= at[1] + Interval /\ at[3] >= at[2] + Interval /\ at[4] >= at[3] + Interval
        /\ at[5] >= at[4] + Interval /\ at[6] >= at[5] + Interval
    <3>1. 1 + 1 = 2 /\ 2 + 1 = 3 /\ 3 + 1 = 4 /\ 4 + 1 = 5 /\ 5 + 1 = 6
      OBVIOUS
    <3> QED BY <2>6, <3>1
  <2>8. /\ at[1] \in Int /\ at[2] \in Int /\ at[3] \in Int /\ at[4] \in Int
        /\ at[5] \in Int /\ at[6] \in Int
    BY <2>2
  <2> QED BY <2>4, <2>5, <2>7, <2>8
<1>4. (2 * Trendspan) \div Interval + 1 = 5
  <2>1. Interval \in Nat \ {0} /\ 2 * Trendspan = 4 * Interval
    BY TrendAssumption
  <2>2. (4 * Interval) \div Interval = 4
    BY <2>1, SMT
  <2> QED BY <2>1, <2>2
<1>5. Len(samples) <= (2 * Trendspan) \div Interval + 1
  BY <1>2, <1>3, <1>4
<1> QED BY <1>1, <1>5 DEF TrendTypeOK, TrendInv

\* At most five samples are kept, all of the past, for any number of ticks and any
\* queries that fail.
THEOREM TrendTypeCorrect == TrendSpec => []TrendTypeOK
<1>1. TrendInv => TrendTypeOK
  BY FewAreKept
<1> QED BY <1>1, TrendInvariant, PTL

\* The place of the last sample with an age in a range, zero if there is none.
LEMMA AgedIs ==
    ASSUME NEW s, Len(s) \in Nat, NEW ages
    PROVE  /\ Aged(s, ages) = 0 \/ (Aged(s, ages) \in 1 .. Len(s)
                                    /\ minute - s[Aged(s, ages)].at \in ages)
           /\ \A i \in 1 .. Len(s) : minute - s[i].at \in ages =>
                Aged(s, ages) # 0 /\ i <= Aged(s, ages)
<1> DEFINE G == {i \in 1 .. Len(s) : minute - s[i].at \in ages}
           T == {0} \cup G
<1>1. G \subseteq 1 .. Len(s) /\ \A i \in 1 .. Len(s) : i \in G <=> minute - s[i].at \in ages
  OBVIOUS
<1> HIDE DEF G
<1>2. T \subseteq 0 .. Len(s) /\ T \subseteq Nat /\ T \subseteq Int /\ T # {} /\ 0 \in T
  BY <1>1
<1>3. IsFiniteSet(T)
  <2>1. IsFiniteSet(0 .. Len(s))
    BY FS_Interval
  <2> HIDE DEF T
  <2> QED BY <1>2, <2>1, FS_Subset
<1>4. PICK m \in T : \A n \in T : n <= m
  <2> HIDE DEF T
  <2> QED BY <1>2, <1>3, LargestNumber
<1>5. Max(T) = m
  <2>1. \A n \in T : m >= n
    BY <1>2, <1>4
  <2>2. m \in T
    BY <1>4
  <2> HIDE DEF T
  <2> QED BY <1>2, <2>1, <2>2, MaxIs
<1>6. Aged(s, ages) = m
  BY <1>5 DEF Aged, G
<1>7. m = 0 \/ (m \in 1 .. Len(s) /\ minute - s[m].at \in ages)
  BY <1>1, <1>4
<1>8. \A i \in 1 .. Len(s) : minute - s[i].at \in ages => m # 0 /\ i <= m
  <2> TAKE i \in 1 .. Len(s)
  <2> HAVE minute - s[i].at \in ages
  <2>1. i \in T
    BY <1>1
  <2>2. i <= m /\ m \in Int
    BY <1>2, <1>4, <2>1
  <2> QED BY <2>2
<1> QED BY <1>6, <1>7, <1>8

\* A range of ages within two windows finds the same sample in what is kept as in
\* what was recorded.
LEMMA AgedAgree ==
    ASSUME TrendInv, NEW ages, ages \subseteq 0 .. 2 * Trendspan
    PROVE  /\ (Aged(samples, ages) = 0) = (Aged(recorded, ages) = 0)
           /\ Aged(samples, ages) # 0 =>
                samples[Aged(samples, ages)] = recorded[Aged(recorded, ages)]
<1> DEFINE k == Aged(samples, ages)
           i == Aged(recorded, ages)
<1>1. Len(samples) \in Nat /\ Len(recorded) \in Nat
  BY DEF TrendInv
<1>2. /\ k = 0 \/ (k \in 1 .. Len(samples) /\ minute - samples[k].at \in ages)
      /\ \A j \in 1 .. Len(samples) : minute - samples[j].at \in ages => k # 0 /\ j <= k
  BY <1>1, AgedIs
<1>3. /\ i = 0 \/ (i \in 1 .. Len(recorded) /\ minute - recorded[i].at \in ages)
      /\ \A j \in 1 .. Len(recorded) : minute - recorded[j].at \in ages => i # 0 /\ j <= i
  BY <1>1, AgedIs
<1> HIDE DEF k, i
<1>4. \A j \in 1 .. Len(recorded) : minute - recorded[j].at \in ages =>
         \E n \in 1 .. Len(samples) : samples[n] = recorded[j]
  <2> SUFFICES ASSUME NEW j \in 1 .. Len(recorded), minute - recorded[j].at \in ages
               PROVE  \E n \in 1 .. Len(samples) : samples[n] = recorded[j]
    OBVIOUS
  <2>1. recorded[j] \in BacklogSample
    BY DEF TrendInv
  <2> DEFINE p == recorded[j].at
             w == 2 * Trendspan
  <2>2. p \in Nat /\ minute - p \in 0 .. w /\ w \in Nat /\ minute \in Nat
    <3>1. p \in Nat
      BY <2>1 DEF BacklogSample
    <3>2. minute \in Nat /\ w \in Nat
      BY TrendAssumption DEF TrendInv
    <3>3. minute - p \in 0 .. w
      OBVIOUS
    <3> HIDE DEF p, w
    <3> QED BY <3>1, <3>2, <3>3
  <2> HIDE DEF p, w
  <2>3. p >= minute - w
    BY <2>2
  <2> QED BY <2>3 DEF p, w, TrendInv, RecentIsKept
<1>5. k = 0 => i = 0
  BY <1>2, <1>3, <1>4
<1>6. ASSUME k # 0
      PROVE  i # 0 /\ samples[k] = recorded[i]
  <2>1. PICK j \in 1 .. Len(recorded) : samples[k] = recorded[j]
    BY <1>2, <1>6 DEF TrendInv, KeptWasRecorded
  <2>2. i # 0 /\ j <= i /\ i \in 1 .. Len(recorded) /\ minute - recorded[i].at \in ages
    BY <1>2, <1>3, <1>6, <2>1
  <2>3. PICK n \in 1 .. Len(samples) : samples[n] = recorded[i]
    BY <1>4, <2>2
  <2>4. n <= k /\ k \in 1 .. Len(samples)
    BY <1>2, <1>6, <2>2, <2>3
  <2>5. /\ j < i => recorded[j].at < recorded[i].at
        /\ n < k => samples[n].at < samples[k].at
    BY <2>2, <2>4 DEF TrendInv, Rising
  <2>6. recorded[i].at \in Nat /\ recorded[j].at \in Nat
    <3>1. recorded[i] \in BacklogSample /\ recorded[j] \in BacklogSample
      BY <2>2 DEF TrendInv
    <3> QED BY <3>1 DEF BacklogSample
  <2>7. n = k \/ n < k
    BY <2>4
  <2>8. ~(j < i)
    <3> DEFINE p == recorded[i].at
               q == recorded[j].at
    <3> p \in Nat /\ q \in Nat /\ samples[n].at = p /\ samples[k].at = q
      BY <2>1, <2>3, <2>6
    <3>0. (j < i => q < p) /\ (n < k => p < q) /\ (n = k => p = q)
      BY <2>5
    <3> HIDE DEF p, q
    <3>1. CASE n = k
      BY <3>0, <3>1
    <3>2. CASE n < k
      BY <3>0, <3>2
    <3> QED BY <2>7, <3>1, <3>2
  <2>9. j = i
    BY <2>2, <2>8
  <2> QED BY <2>1, <2>2, <2>9
<1> QED BY <1>5, <1>6 DEF k, i

LEMMA SpansOfTrend ==
    /\ Interval \in Nat \ {0} /\ Trendspan \in Nat
    /\ Trendspan .. Trendspan + Interval \subseteq 0 .. 2 * Trendspan
    /\ Interval .. Trendspan - 1 \subseteq 0 .. 2 * Trendspan
<1>1. Interval \in Nat \ {0} /\ Trendspan = 2 * Interval
  BY TrendAssumption
<1> QED BY <1>1

LEMMA TrendCompletes == TrendInv => TrendIsComplete
<1> SUFFICES ASSUME TrendInv
             PROVE  TrendIsComplete
  OBVIOUS
<1> DEFINE older == Trendspan .. Trendspan + Interval
           newer == Interval .. Trendspan - 1
<1>1. older \subseteq 0 .. 2 * Trendspan /\ newer \subseteq 0 .. 2 * Trendspan
  BY SpansOfTrend
<1>2. /\ Old(samples) = Aged(samples, older) /\ Old(recorded) = Aged(recorded, older)
      /\ Mid(samples) = Aged(samples, newer) /\ Mid(recorded) = Aged(recorded, newer)
  BY DEF Old, Mid
<1> HIDE DEF older, newer
<1>3. /\ (Old(samples) = 0) = (Old(recorded) = 0)
      /\ Old(samples) # 0 => samples[Old(samples)] = recorded[Old(recorded)]
  BY <1>1, <1>2, AgedAgree
<1>4. /\ (Mid(samples) = 0) = (Mid(recorded) = 0)
      /\ Mid(samples) # 0 => samples[Mid(samples)] = recorded[Mid(recorded)]
  BY <1>1, <1>2, AgedAgree
<1> QED BY <1>3, <1>4 DEF TrendIsComplete, TrendReady, OldBacklog, MidBacklog

\* The last tick that is a window old, and the one after it.
LEMMA TicksBehind ==
    ASSUME NEW N \in Nat \ {0}, NEW m \in Nat, m >= 2 * N
    PROVE  \E t \in Nat : /\ t % N = 0 /\ (t + N) % N = 0 /\ t + N <= m
                          /\ m - t >= 2 * N /\ m - t <= 3 * N
                          /\ m - (t + N) >= N /\ m - (t + N) <= 2 * N - 1
<1> DEFINE q == (m - 2 * N) \div N
           r == (m - 2 * N) % N
           t == N * q
<1>1. m - 2 * N \in Nat
  OBVIOUS
<1>2. q \in Nat /\ r \in 0 .. N - 1 /\ m - 2 * N = N * q + r
  BY <1>1, SMT
<1>3. t \in Nat /\ m - 2 * N = t + r
  BY <1>2
<1>4. t % N = 0 /\ (t + N) % N = 0
  <2>1. t + N = N * (q + 1)
    BY <1>2, SMT
  <2>2. \A n \in Nat : (N * n) % N = 0
    BY SMT
  <2>3. q \in Nat /\ q + 1 \in Nat
    BY <1>2
  <2> HIDE DEF q
  <2> QED BY <2>1, <2>2, <2>3
<1> HIDE DEF t, r
<1>5. /\ t + N <= m /\ m - t >= 2 * N /\ m - t <= 3 * N
      /\ m - (t + N) >= N /\ m - (t + N) <= 2 * N - 1
  BY <1>2, <1>3
<1> QED BY <1>3, <1>4, <1>5

LEMMA ReadyIsSeen == TrendInv => ReadyWhenSampled
<1> SUFFICES ASSUME TrendInv,
                    \A at \in {t \in 0 .. minute :
                                   t % Interval = 0 /\ t >= minute - Trendspan - Interval} :
                        \E i \in 1 .. Len(recorded) : recorded[i].at = at,
                    minute >= Trendspan
             PROVE  TrendReady
  <2>0. Trendspan \in Nat
    BY TrendAssumption
  <2>1. ASSUME TrendInv PROVE minute \in Nat
    BY <2>1, TrendAssumption DEF TrendInv
  <2>2. ASSUME TrendInv PROVE minute >= Trendspan \/ minute < Trendspan
    BY <2>0, <2>1, <2>2
  <2> QED BY <2>2 DEF ReadyWhenSampled
<1>1. minute \in Nat /\ Interval \in Nat \ {0} /\ Trendspan = 2 * Interval
  BY TrendAssumption DEF TrendInv
<1>2. PICK t \in Nat :
        /\ t % Interval = 0 /\ (t + Interval) % Interval = 0 /\ t + Interval <= minute
        /\ minute - t >= 2 * Interval /\ minute - t <= 3 * Interval
        /\ minute - (t + Interval) >= Interval /\ minute - (t + Interval) <= 2 * Interval - 1
  BY <1>1, TicksBehind
<1>3. /\ t \in 0 .. minute /\ t >= minute - Trendspan - Interval
      /\ t + Interval \in 0 .. minute /\ t + Interval >= minute - Trendspan - Interval
      /\ minute - t \in Trendspan .. Trendspan + Interval
      /\ minute - (t + Interval) \in Interval .. Trendspan - 1
  BY <1>1, <1>2
<1>4. PICK i \in 1 .. Len(recorded) : recorded[i].at = t
  BY <1>2, <1>3
<1>5. PICK j \in 1 .. Len(recorded) : recorded[j].at = t + Interval
  BY <1>2, <1>3
<1>6. Len(recorded) \in Nat
  BY DEF TrendInv
<1>7. Old(recorded) # 0
  BY <1>3, <1>4, <1>6, AgedIs DEF Old
<1>8. Mid(recorded) # 0
  BY <1>3, <1>5, <1>6, AgedIs DEF Mid
<1> QED BY <1>7, <1>8, TrendCompletes DEF TrendIsComplete, TrendReady

-----------------------------------------------------------------------------
(* The lights.  DueLevel and WaitingLevel are a rise in what is due or waiting  *)
(* of conditions that are monotone in it; the other two are arithmetic.        *)

LEMMA LightsOfBacklog ==
    ASSUME TrendInv, TrendReady
    PROVE  /\ OldBacklog.due \in Nat /\ MidBacklog.due \in Nat
           /\ OldBacklog.waiting \in Nat /\ MidBacklog.waiting \in Nat
<1>1. Len(samples) \in Nat
  BY DEF TrendInv
<1>2. Old(samples) \in 1 .. Len(samples) /\ Mid(samples) \in 1 .. Len(samples)
  BY <1>1, AgedIs DEF TrendReady, Old, Mid
<1>3. OldBacklog \in BacklogSample /\ MidBacklog \in BacklogSample
  BY <1>2 DEF OldBacklog, MidBacklog, TrendInv
<1> QED BY <1>3 DEF BacklogSample

LEMMA DueNeverCalmer ==
    ASSUME TrendInv, TrendReady, NEW d \in Nat, NEW e \in Nat, d <= e, NEW available \in Nat
    PROVE  Alarm(DueLevel(d, available)) <= Alarm(DueLevel(e, available))
<1> DEFINE o == OldBacklog.due
           m == MidBacklog.due
           x == AtLeast(available \div 5, 20)
<1>1. o \in Nat /\ m \in Nat
  BY LightsOfBacklog
<1>2. x \in Nat
  BY DEF AtLeast
<1>3. ASSUME NEW n \in Nat
      PROVE  Alarm(DueLevel(n, available)) =
               IF n > 0 /\ DueStalled(n) THEN IF DueGrowing(n) /\ n >= x THEN 3 ELSE 2 ELSE 0
  <2> HIDE DEF x
  <2>1. CASE n = 0
    <3>1. DueLevel(n, available) = "green"
      BY <2>1 DEF DueLevel
    <3> QED BY <2>1, <3>1 DEF Alarm
  <2>2. CASE n > 0 /\ DueStalled(n) /\ DueGrowing(n) /\ n >= x
    <3>1. DueLevel(n, available) = "red"
      BY <2>2 DEF DueLevel, x
    <3> QED BY <2>2, <3>1 DEF Alarm
  <2>3. CASE n > 0 /\ DueStalled(n) /\ ~(DueGrowing(n) /\ n >= x)
    <3>1. DueLevel(n, available) = "yellow"
      BY <2>3 DEF DueLevel, x
    <3> QED BY <2>3, <3>1 DEF Alarm
  <2>4. CASE n > 0 /\ ~DueStalled(n)
    <3>1. DueLevel(n, available) = "green"
      BY <2>4 DEF DueLevel
    <3> QED BY <2>4, <3>1 DEF Alarm
  <2>5. n = 0 \/ n > 0
    OBVIOUS
  <2> QED BY <2>1, <2>2, <2>3, <2>4, <2>5
<1>4. /\ DueStalled(d) <=> d > 0 /\ o > 0 /\ m >= o /\ d >= m
      /\ DueStalled(e) <=> e > 0 /\ o > 0 /\ m >= o /\ e >= m
      /\ DueGrowing(d) <=> d > o /\ m >= o /\ d >= m
      /\ DueGrowing(e) <=> e > o /\ m >= o /\ e >= m
  BY DEF DueStalled, DueGrowing
<1>5. /\ Alarm(DueLevel(d, available)) =
           IF d > 0 /\ DueStalled(d) THEN IF DueGrowing(d) /\ d >= x THEN 3 ELSE 2 ELSE 0
      /\ Alarm(DueLevel(e, available)) =
           IF e > 0 /\ DueStalled(e) THEN IF DueGrowing(e) /\ e >= x THEN 3 ELSE 2 ELSE 0
  BY <1>3
<1> HIDE DEF o, m, x
<1>6. /\ d > 0 /\ DueStalled(d) => e > 0 /\ DueStalled(e)
      /\ DueGrowing(d) /\ d >= x => DueGrowing(e) /\ e >= x
  BY <1>1, <1>2, <1>4
<1> QED BY <1>5, <1>6

LEMMA WaitingNeverCalmer ==
    ASSUME TrendInv, TrendReady, NEW d \in Nat, NEW e \in Nat, d <= e, NEW available \in Nat
    PROVE  Alarm(WaitingLevel(d, available)) <= Alarm(WaitingLevel(e, available))
<1> DEFINE base == AtLeast(OldBacklog.waiting, 1)
           more == AtLeast(available \div 10, 10)
           most == AtLeast(available \div 2, 20)
           Up(n) == WaitingGrowing(n)
           Yellow(n) == n >= more /\ n >= 2 * base
           Red(n) == n >= most /\ n >= 3 * base
<1>1. OldBacklog.waiting \in Nat /\ MidBacklog.waiting \in Nat
  BY LightsOfBacklog
<1>2. base \in Nat /\ more \in Nat /\ most \in Nat
  BY <1>1 DEF AtLeast
<1>3. ASSUME NEW n \in Nat
      PROVE  Alarm(WaitingLevel(n, available)) =
               IF Up(n) /\ Yellow(n) THEN IF Red(n) THEN 3 ELSE 2 ELSE 1
  <2>1. WaitingLevel(n, available) =
           IF Up(n) /\ Yellow(n) THEN IF Red(n) THEN "red" ELSE "yellow" ELSE "neutral"
    BY DEF WaitingLevel
  <2> HIDE DEF Up, Yellow, Red
  <2>2. Alarm("red") = 3 /\ Alarm("yellow") = 2 /\ Alarm("neutral") = 1
    BY DEF Alarm
  <2> QED BY <2>1, <2>2
<1>4. Alarm(WaitingLevel(d, available)) =
        IF Up(d) /\ Yellow(d) THEN IF Red(d) THEN 3 ELSE 2 ELSE 1
  BY <1>3
<1>5. Alarm(WaitingLevel(e, available)) =
        IF Up(e) /\ Yellow(e) THEN IF Red(e) THEN 3 ELSE 2 ELSE 1
  BY <1>3
<1>6. Up(d) => Up(e)
  BY <1>1 DEF WaitingGrowing
<1> HIDE DEF base, more, most, Up
<1>7. (Yellow(d) => Yellow(e)) /\ (Red(d) => Red(e))
  BY <1>2
<1> HIDE DEF Yellow, Red
<1> QED BY <1>4, <1>5, <1>6, <1>7

LEMMA CountersNeverCalmer == WorseCountersAreNotBetter
<1>1. ASSUME NEW total \in 0 .. 4, NEW pending \in 0 .. 4, NEW errors \in 0 .. total - pending - 1
      PROVE  Alarm(SourcesLevel(total, errors, pending)) <= Alarm(SourcesLevel(total, errors + 1, pending))
  <2>0. total \in Nat /\ pending \in Nat /\ errors \in Nat /\ total > 0
    OBVIOUS
  <2>1. Alarm("red") = 3 /\ Alarm("yellow") = 2 /\ Alarm("gray") = 0 /\ Alarm("green") = 0
    BY DEF Alarm
  <2>2. CASE errors * 2 >= total
    <3>1. SourcesLevel(total, errors, pending) = "red"
      BY <2>0, <2>2 DEF SourcesLevel
    <3>2. SourcesLevel(total, errors + 1, pending) = "red"
      BY <2>0, <2>2 DEF SourcesLevel
    <3> QED BY <2>1, <3>1, <3>2
  <2>3. CASE errors * 2 < total
    <3>1. SourcesLevel(total, errors, pending) \in {"yellow", "gray", "green"}
      BY <2>0, <2>3 DEF SourcesLevel
    <3>2. SourcesLevel(total, errors + 1, pending) \in {"red", "yellow"}
      BY <2>0, <2>3 DEF SourcesLevel
    <3> QED BY <2>1, <3>1, <3>2
  <2> QED BY <2>0, <2>2, <2>3
<1>2. ASSUME NEW success \in 1 .. 6, NEW failures \in 4 .. 12, NEW due \in {"green", "red"}
      PROVE  Alarm(ChecksLevel(success, failures, due)) <= Alarm(ChecksLevel(success - 1, failures + 1, due))
  <2>1. Alarm("red") = 3 /\ Alarm("neutral") = 1 /\ Alarm("gray") = 0 /\ Alarm("green") = 0
    BY DEF Alarm
  <2>0. success \in Nat \ {0} /\ failures \in Nat /\ success - 1 \in Nat /\ failures + 1 \in Nat
        /\ (success - 1) + (failures + 1) = success + failures
    OBVIOUS
  <2> DEFINE light == IF due = "red" THEN "red" ELSE "neutral"
  <2>2. CASE success + failures < 10
    <3>1. ChecksLevel(success, failures, due) = "gray"
      BY <2>0, <2>2 DEF ChecksLevel
    <3>2. ChecksLevel(success - 1, failures + 1, due) = "gray"
      BY <2>0, <2>2 DEF ChecksLevel
    <3> QED BY <2>1, <3>1, <3>2
  <2>3. CASE success + failures >= 10 /\ failures <= success
    <3>1. ChecksLevel(success, failures, due) = "green"
      BY <2>0, <2>3 DEF ChecksLevel
    <3>2. ChecksLevel(success - 1, failures + 1, due) \in {"red", "green", "neutral"}
      BY <2>0, <2>3 DEF ChecksLevel
    <3> QED BY <2>1, <3>1, <3>2
  <2>4. CASE success + failures >= 10 /\ ~(failures <= success)
    <3>1. ChecksLevel(success, failures, due) = light
      BY <2>0, <2>4 DEF ChecksLevel
    <3>2. ChecksLevel(success - 1, failures + 1, due) \in {"red", light}
      BY <2>0, <2>4 DEF ChecksLevel
    <3> QED BY <2>1, <3>1, <3>2
  <2> QED BY <2>0, <2>2, <2>3, <2>4
<1> QED BY <1>1, <1>2 DEF WorseCountersAreNotBetter

LEMMA LightsFollow == TrendInv => WorseIsNotBetter
<1> SUFFICES ASSUME TrendInv
             PROVE  WorseIsNotBetter
  OBVIOUS
<1>1. ASSUME TrendReady, NEW b \in Backlog, NEW c \in Backlog, NEW available \in Available
      PROVE  /\ b.due <= c.due =>
                  Alarm(DueLevel(b.due, available)) <= Alarm(DueLevel(c.due, available))
             /\ b.waiting <= c.waiting =>
                  Alarm(WaitingLevel(b.waiting, available)) <= Alarm(WaitingLevel(c.waiting, available))
  <2>1. /\ b.due \in Nat /\ c.due \in Nat /\ b.waiting \in Nat /\ c.waiting \in Nat
        /\ available \in Nat
    BY TrendAssumption
  <2> QED BY <1>1, <2>1, DueNeverCalmer, WaitingNeverCalmer
<1> QED BY <1>1, CountersNeverCalmer DEF WorseIsNotBetter

\* Whatever is sampled, and whatever queries fail: what a dashboard is told of the
\* backlog's trend is what all samples since the start would tell it, it is told as
\* soon as the two windows before were sampled, and no light is calmer for more
\* endpoints due or waiting, more sources failing or fewer checks succeeding.
THEOREM TrendIsAlwaysTrue == TrendSpec => []TrendIsTrue
<1>1. TrendInv => TrendIsTrue
  BY TrendCompletes, ReadyIsSeen, LightsFollow DEF TrendIsTrue
<1> QED BY <1>1, TrendInvariant, PTL

-----------------------------------------------------------------------------
(* All parts.  A step of the whole is a step of one part or leaves it alone.   *)

PartsInv ==
    /\ BrowserInv /\ RateInv /\ WindowsInv /\ RingInv /\ CacheInv /\ TrendInv
    /\ MigrationInv /\ CertInv /\ SourcesInv

LEMMA StepsOfParts ==
    ASSUME [PartsNext]_allVars
    PROVE  /\ [BrowserNext]_browserVars /\ [RateNext]_rateVars /\ [WindowsNext]_windowVars
           /\ [RingNext]_ringVars /\ [CacheNext]_cacheVars /\ [TrendNext]_trendVars
           /\ [MigrationNext]_migrationVars /\ [CertNext]_certVars /\ [SourcesNext]_sourceVars
BY DEF PartsNext, allVars

LEMMA PartsStep == PartsInv /\ [PartsNext]_allVars => PartsInv'
<1> SUFFICES ASSUME PartsInv, [PartsNext]_allVars
             PROVE  PartsInv'
  OBVIOUS
<1>1. BrowserInv' /\ RateInv' /\ WindowsInv'
  BY StepsOfParts, BrowserNextHolds, RateStep, WindowsStep DEF PartsInv
<1>2. RingInv' /\ CacheInv' /\ TrendInv'
  BY StepsOfParts, RingStep, CacheStepInv, TrendStep DEF PartsInv
<1>3. MigrationInv' /\ CertInv' /\ SourcesInv'
  BY StepsOfParts, MigrationStep, CertStepInv, SourcesStep DEF PartsInv
<1> QED BY <1>1, <1>2, <1>3 DEF PartsInv

LEMMA PartsInvariant == PartsSpec => []PartsInv
<1>1. PartsInit => PartsInv
  BY BrowserInitHolds, RateInitially, WindowsInitially, RingInitially, CacheInitInv,
     TrendInitially, MigrationInitially, CertInitInv, SourcesInitially
     DEF PartsInit, PartsInv
<1>2. PartsInv /\ [PartsNext]_allVars => PartsInv'
  BY PartsStep
<1>3. PartsSpec => PartsInit /\ [][PartsNext]_allVars
  BY DEF PartsSpec
<1> QED BY <1>1, <1>2, <1>3, PTL

\* Every variable of every part keeps its type; among it: a bucket of the dashboard's
\* rings is empty or of a time of its place, the limiter's bucket is never overdrawn,
\* and five samples of the backlog are kept at most.
THEOREM PartsTypeCorrect == PartsSpec => []PartsTypeOK
<1>1. PartsInv => PartsTypeOK
  BY FewAreKept
     DEF PartsInv, PartsTypeOK, BrowserInv, RateInv, WindowsInv, RingInv, CacheInv,
         MigrationInv, CertInv, SourcesInv
<1> QED BY <1>1, PartsInvariant, PTL

\* For rings of any size, any number of recorders and any time between reading the
\* clock and taking the mutex: a snapshot counts what happened in its window and nothing
\* else, no average is above the peak, and the outcomes that a source's limit is computed
\* from are its last ones (record, recordRecent, recordSourceCandidateResult).
THEOREM CountersAlwaysExact == PartsSpec => []CountersAreExact
<1>1. PartsInv => CountersAreExact
  BY SnapshotIsExact, RingIsExact DEF PartsInv, CountersAreExact
<1> QED BY <1>1, PartsInvariant, PTL
=============================================================================
