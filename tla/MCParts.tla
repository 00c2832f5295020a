------------------------------ MODULE MCParts ------------------------------
(***************************************************************************)
(* Instances for TLC of the parts that share no state with each other: one  *)
(* behaviour exercises one part, chosen at the start, and leaves the others *)
(* as they were.  Their states add up instead of multiplying.              *)
(***************************************************************************)
EXTENDS Browser, RateLimiter, Windows, OutcomeRing, FailureCache, Trend,
        Migration, Certificates, Sources

CONSTANTS http, socks5, ip1, ip2, port1, port2

VARIABLE part

ThreeWindows == <<2, 3, 5>>

Backlogs == {[due |-> 0, waiting |-> 0], [due |-> 20, waiting |-> 12],
             [due |-> 60, waiting |-> 40]}

Row(ip, port, protocol) == [ip |-> ip, port |-> port, protocol |-> protocol]

Documents ==
    {<< >>,
     <<Row(ip1, port1, Absent), Row(ip2, port2, Absent)>>,
     <<Row(ip1, port1, socks5), Row(ip2, port2, http)>>,
     <<Row(ip1, Absent, Absent), Row(ip2, port2, socks5)>>,
     <<Row(ip1, port1, Absent), Row(ip2, port2, Absent), Row(ip1, port2, Absent)>>}

PartsInit ==
    /\ part \in {"browser", "rates", "windows", "outcomes", "failures", "trend",
                 "migration", "certificates", "sources"}
    /\ BrowserInit /\ RateInit /\ WindowsInit /\ RingInit /\ CacheInit /\ TrendInit
    /\ MigrationInit /\ CertInit /\ SourcesInit

PartsNext ==
    \/ /\ part = "browser" /\ BrowserNext
       /\ UNCHANGED <<part, rateVars, windowVars, ringVars, cacheVars, trendVars,
                      migrationVars, certVars, sourceVars>>
    \/ /\ part = "rates" /\ RateNext
       /\ UNCHANGED <<part, browserVars, windowVars, ringVars, cacheVars, trendVars,
                      migrationVars, certVars, sourceVars>>
    \/ /\ part = "windows" /\ WindowsNext
       /\ UNCHANGED <<part, browserVars, rateVars, ringVars, cacheVars, trendVars,
                      migrationVars, certVars, sourceVars>>
    \/ /\ part = "outcomes" /\ RingNext
       /\ UNCHANGED <<part, browserVars, rateVars, windowVars, cacheVars, trendVars,
                      migrationVars, certVars, sourceVars>>
    \/ /\ part = "failures" /\ CacheNext
       /\ UNCHANGED <<part, browserVars, rateVars, windowVars, ringVars, trendVars,
                      migrationVars, certVars, sourceVars>>
    \/ /\ part = "trend" /\ TrendNext
       /\ UNCHANGED <<part, browserVars, rateVars, windowVars, ringVars, cacheVars,
                      migrationVars, certVars, sourceVars>>
    \/ /\ part = "migration" /\ MigrationNext
       /\ UNCHANGED <<part, browserVars, rateVars, windowVars, ringVars, cacheVars,
                      trendVars, certVars, sourceVars>>
    \/ /\ part = "certificates" /\ CertNext
       /\ UNCHANGED <<part, browserVars, rateVars, windowVars, ringVars, cacheVars,
                      trendVars, migrationVars, sourceVars>>
    \/ /\ part = "sources" /\ SourcesNext
       /\ UNCHANGED <<part, browserVars, rateVars, windowVars, ringVars, cacheVars,
                      trendVars, migrationVars, certVars>>

allVars == <<part, browserVars, rateVars, windowVars, ringVars, cacheVars, trendVars,
             migrationVars, certVars, sourceVars>>

\* Only the browser part has liveness properties: its fairness asks nothing of the
\* others, in which the browser stays unused.
PartsSpec == PartsInit /\ [][PartsNext]_allVars /\ BrowserFairness

\* Every variable of every part has its type.
PartsTypeOK ==
    /\ BrowserTypeOK /\ RateTypeOK /\ WindowsTypeOK /\ RingTypeOK /\ FailureCacheTypeOK
    /\ TrendTypeOK /\ MigrationTypeOK /\ CertTypeOK /\ SourcesTypeOK

\* What the dashboard and the candidate limit are told of the last minute, hour and 256
\* results is what happened in them, and consistent, whoever records late.
CountersAreExact == WindowIsExact /\ AverageBelowPeak /\ RecentIsExact
=============================================================================
