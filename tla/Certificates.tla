---------------------------- MODULE Certificates ----------------------------
(***************************************************************************)
(* The certificates of the intercepting proxy (mitm/cert.go): GenerateCA at *)
(* every start, with its two files, and FakeCert with its cache.  The      *)
(* process may die between any two statements: a file is empty from the     *)
(* moment it is opened until it is written, and both look the same to a     *)
(* later start.  Writes that fail are in the README's list of gaps.        *)
(***************************************************************************)
EXTENDS Integers

CONSTANTS
    Host,       \* domains of clients' requests
    Leaf,       \* days a leaf is valid: 14
    Cached,     \* days it stays in the cache: 2
    Month,      \* days left when the issuer is replaced
    Year,       \* days the issuer is valid
    Nothing,    \* no file, no certificate
    LastDay,    \* bound: the clock
    MaxKeys     \* bound: keys generated

ASSUME CertificatesAssumption ==
    /\ Leaf \in Nat /\ Cached \in Nat /\ Cached < Leaf
    /\ Month \in Nat /\ Year \in Nat /\ Month < Year
    /\ LastDay \in Nat /\ MaxKeys \in Nat

VARIABLES
    day,                \* the clock
    step,               \* where GenerateCA is
    keyFile, certFile,  \* what the files hold
    pk, issuingCert,    \* memory: the key, the issuer
    cache,              \* memory: leaf of each host, and when it leaves the cache
    keys,               \* keys generated so far, which are 1, 2 ..
    started             \* history: when GenerateCA looked at the issuer's end

files    == <<keyFile, certFile>>
certVars == <<day, step, files, pk, issuingCert, cache, keys, started>>

Keys == 1 .. MaxKeys
Issuers == [key : Keys, notAfter : Int]
Leaves == [key : Keys, notAfter : Int, until : Int]

ASSUME NothingAssumption == Nothing \notin Keys \cup Issuers \cup Leaves

CertInit ==
    /\ day = 0 /\ step = "down" /\ keyFile = Nothing /\ certFile = Nothing
    /\ pk = Nothing /\ issuingCert = Nothing
    /\ cache = [h \in Host |-> Nothing]
    /\ keys = 0 /\ started = 0

DayPasses ==
    /\ day < LastDay
    /\ day' = day + 1
    /\ UNCHANGED <<step, files, pk, issuingCert, cache, keys, started>>

-----------------------------------------------------------------------------
(* GenerateCA *)

LoadKey ==
    /\ step = "down" /\ keyFile # Nothing
    /\ pk' = keyFile
    /\ step' = "cert"
    /\ UNCHANGED <<day, files, issuingCert, cache, keys, started>>

\* Mutant: the key is used without being written.
NewKeyUnsaved ==
    /\ step = "down" /\ keyFile = Nothing /\ keys < MaxKeys
    /\ keys' = keys + 1
    /\ pk' = keys + 1
    /\ step' = "cert"
    /\ UNCHANGED <<day, files, issuingCert, cache, started>>

\* Mutant: the new key goes to a local variable.
NewKeyShadowed ==
    /\ step = "down" /\ keyFile = Nothing /\ keys < MaxKeys
    /\ keys' = keys + 1
    /\ step' = "writeKey"
    /\ UNCHANGED <<day, files, pk, issuingCert, cache, started>>

\* The file is opened, which empties it; it was of no use before.
NewKey ==
    /\ step = "down" /\ keyFile = Nothing /\ keys < MaxKeys
    /\ keys' = keys + 1
    /\ pk' = keys + 1
    /\ step' = "writeKey"
    /\ UNCHANGED <<day, files, issuingCert, cache, started>>

WriteKey ==
    /\ step = "writeKey"
    /\ keyFile' = pk
    /\ step' = "cert"
    /\ UNCHANGED <<day, certFile, pk, issuingCert, cache, keys, started>>

\* Mutant: an issuer is good until its last day.
ExpiredAlready == certFile.notAfter < day

ExpiresSoon == certFile.notAfter < day + Month

LoadCert ==
    /\ step = "cert" /\ certFile # Nothing /\ ~ExpiresSoon
    /\ issuingCert' = certFile
    /\ step' = "up" /\ started' = day
    /\ UNCHANGED <<day, files, pk, cache, keys>>

\* The new issuer is signed with the key in memory; the old file goes first.
NewCert ==
    /\ step = "cert"
    /\ certFile # Nothing => ExpiresSoon
    /\ issuingCert' = [key |-> pk, notAfter |-> day + Year]
    /\ certFile' = Nothing
    /\ step' = "writeCert" /\ started' = day
    /\ UNCHANGED <<day, keyFile, pk, cache, keys>>

WriteCert ==
    /\ step = "writeCert"
    /\ certFile' = issuingCert
    /\ step' = "up"
    /\ UNCHANGED <<day, keyFile, pk, issuingCert, cache, keys, started>>

-----------------------------------------------------------------------------
(* FakeCert *)

Fresh(h) == cache[h] # Nothing /\ day <= cache[h].until

\* Mutant: a leaf stays cached for as long as it is valid when issued, and more.
IssueForLong(h) ==
    /\ step = "up" /\ ~Fresh(h)
    /\ cache' = [cache EXCEPT ![h] =
         [key |-> pk, notAfter |-> day + Leaf, until |-> day + Leaf + Cached]]
    /\ UNCHANGED <<day, step, files, pk, issuingCert, keys, started>>

Issue(h) ==
    /\ step = "up" /\ ~Fresh(h)
    /\ cache' = [cache EXCEPT ![h] =
         [key |-> pk, notAfter |-> day + Leaf, until |-> day + Cached]]
    /\ UNCHANGED <<day, step, files, pk, issuingCert, keys, started>>

\* The process ends, or dies: what is in memory is lost.
Dies ==
    /\ step # "down"
    /\ step' = "down" /\ pk' = Nothing /\ issuingCert' = Nothing
    /\ cache' = [h \in Host |-> Nothing]
    /\ UNCHANGED <<day, files, keys, started>>

CertNext ==
    \/ DayPasses
    \/ LoadKey \/ NewKey \/ WriteKey \/ LoadCert \/ NewCert \/ WriteCert
    \/ \E h \in Host : Issue(h)
    \/ Dies

CertSpec == CertInit /\ [][CertNext]_certVars

-----------------------------------------------------------------------------
CertTypeOK ==
    /\ day \in 0 .. LastDay /\ keys \in 0 .. MaxKeys /\ started \in 0 .. day
    /\ step \in {"down", "writeKey", "cert", "writeCert", "up"}
    /\ keyFile \in Keys \cup {Nothing} /\ pk \in Keys \cup {Nothing}
    /\ certFile \in Issuers \cup {Nothing} /\ issuingCert \in Issuers \cup {Nothing}
    /\ cache \in [Host -> Leaves \cup {Nothing}]

\* What is signed with the key in memory verifies under the issuer the clients see:
\* wherever an earlier start died between the writes of the two files, the issuer that
\* is loaded belongs to the key that is loaded (cert.go:26-48).
KeyIsIssuers ==
    step = "up" => issuingCert.key = pk

\* While the process is no older than the margin at which GenerateCA renews, every
\* certificate it serves, new or cached, is valid, and so is its issuer.
ServedIsValid ==
    \A h \in Host :
        step = "up" /\ Fresh(h) =>
            /\ cache[h].key = issuingCert.key
            /\ cache[h].notAfter >= day
            /\ day <= started + Month => issuingCert.notAfter >= day

\* A client that trusts the issuer accepts what it is served, whatever crashes and
\* however old the cache (GenerateCA, FakeCert).
CertificatesHold == KeyIsIssuers /\ ServedIsValid
=============================================================================
