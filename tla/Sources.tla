------------------------------ MODULE Sources ------------------------------
(***************************************************************************)
(* The fetch loop of one source (crawler/source.go, GetDocFromURL and       *)
(* getURLThroughProxyWithRetryLimit of crawler/crawler.go): attempts and    *)
(* their limits, what of the document is read, and how the fields of its    *)
(* entries become endpoints.  An entry counts as one byte.  A script may    *)
(* return any table of entries; how it came by them is Browser's concern.  *)
(***************************************************************************)
EXTENDS Selection

CONSTANTS
    Document,   \* bodies a server may send: sequences of entries
    Address,    \* values of the field ip, those of port and protocol below
    Port,
    Scheme,
    Absent,     \* a field an entry does not have, a variable without value
    Retries,    \* configuredSourceFetchRetries
    BodyLimit   \* configuredSourceResponseLimit

Entry == [ip : Address \cup {Absent}, port : Port \cup {Absent},
          protocol : Scheme \cup {Absent}]

ASSUME SourcesAssumption ==
    /\ Absent \notin Address \cup Port \cup Scheme
    /\ \A doc \in Document : doc \in Seq(Entry)
    /\ Retries \in Nat \ {0} /\ BodyLimit \in Nat \ {0}

VARIABLES
    source,     \* Source: its type and protocol, Absent before it is loaded
    fallback,   \* SourceFetch.ProxyFallback
    round,      \* where fetchSource is in its loop
    attempts,   \* attempts of this round: "direct" or "proxied"
    sent,       \* history: the body the server sent last
    body,       \* what was read of it
    status,     \* the source's entry of sourceStatuses
    offered     \* what was given to enqueueSourceCandidates

sourceVars == <<source, fallback, round, attempts, sent, body, status, offered>>

Kinds == {"text", "json", "script", "other"}

SourcesInit ==
    /\ source = Absent /\ fallback = FALSE /\ round = "loading"
    /\ attempts = << >> /\ sent = << >> /\ body = << >>
    /\ status = [fetched |-> FALSE, count |-> 0, failed |-> FALSE]
    /\ offered = << >>

\* LoadSources and FetchAllSources.
LoadSource(kind, scheme) ==
    /\ round = "loading"
    /\ source' = [kind |-> kind, protocol |-> scheme]
    /\ fallback' \in BOOLEAN
    /\ round' = "start"
    /\ UNCHANGED <<attempts, sent, body, status, offered>>

\* fetchSource, after it has pruned candidateFailures.
StartRound ==
    /\ round = "start"
    /\ attempts' = << >>
    /\ CASE source.kind \in {"text", "json"} -> round' = "direct" /\ UNCHANGED status
         [] source.kind = "script" -> round' = "script" /\ UNCHANGED status
         [] source.kind = "other" ->
              /\ round' = "ended"
              /\ status' = [fetched |-> TRUE, count |-> 0, failed |-> TRUE]
    /\ UNCHANGED <<source, fallback, sent, body, offered>>

-----------------------------------------------------------------------------
(* getURLThroughProxyWithRetryLimit *)

\* Mutant: the reader stops at the limit, so that a body is never longer.
ReadToLimit(doc) == SubSeq(doc, 1, IF Len(doc) < BodyLimit THEN Len(doc) ELSE BodyLimit)

\* One byte more than the limit, to tell a body that is too long.
Read(doc) == SubSeq(doc, 1, IF Len(doc) < BodyLimit + 1 THEN Len(doc) ELSE BodyLimit + 1)

\* The response is read and accepted.
Accepted(doc) ==
    /\ Len(Read(doc)) <= BodyLimit
    /\ sent' = doc
    /\ body' = Read(doc)
    /\ round' = "parse"

\* Connection, status line, body or its length are no good.
Refused == UNCHANGED <<sent, body>>

\* Mutant: the proxy is tried as often as the source.
ProxiedAttemptRetried ==
    /\ round = "proxied"
    /\ attempts' = Append(attempts, "proxied")
    /\ \/ \E doc \in Document : Accepted(doc)
       \/ /\ Refused
          /\ round' = IF Len(attempts') < 2 * Retries THEN "proxied" ELSE "failed"
    /\ UNCHANGED <<source, fallback, status, offered>>

DirectAttempt ==
    /\ round = "direct"
    /\ attempts' = Append(attempts, "direct")
    /\ \/ \E doc \in Document : Accepted(doc)
       \/ /\ Refused
          /\ round' = IF Len(attempts') < Retries THEN "direct" ELSE "fallback"
    /\ UNCHANGED <<source, fallback, status, offered>>

\* GetDocFromURL: RandomProxy may have none.
NoFallback ==
    /\ round = "fallback"
    /\ round' = "failed"
    /\ UNCHANGED <<source, fallback, attempts, sent, body, status, offered>>

TakeProxy ==
    /\ round = "fallback" /\ fallback
    /\ round' = "proxied"
    /\ UNCHANGED <<source, fallback, attempts, sent, body, status, offered>>

ProxiedAttempt ==
    /\ round = "proxied"
    /\ attempts' = Append(attempts, "proxied")
    /\ \/ \E doc \in Document : Accepted(doc)
       \/ Refused /\ round' = "failed"
    /\ UNCHANGED <<source, fallback, status, offered>>

-----------------------------------------------------------------------------
(* parseTextResponse and parseJSONResponse *)

\* Mutant: an endpoint without a protocol does not get that of its source.
EndpointBare(ip, port, protocol) == [ip |-> ip, port |-> port, protocol |-> protocol]

EndpointOf(ip, port, protocol) ==
    [ip |-> ip, port |-> port, protocol |-> IF protocol = Absent THEN source.protocol ELSE protocol]

\* Lines without an address and a port are skipped.
Listed == {x \in Entry : x.ip # Absent /\ x.port # Absent}

ParseText(lines) ==
    LET good == Only(lines, Listed)
    IN  [i \in 1 .. Len(good) |-> EndpointOf(good[i].ip, good[i].port, good[i].protocol)]

\* extractFieldPath: the values of one field, of the entries that have it.
Column(entries, field) ==
    LET having == Only(entries, {x \in Entry : x[field] # Absent})
    IN  [i \in 1 .. Len(having) |-> having[i][field]]

\* Mutant: the ports are taken from the other end.
ParseJSONReversed(doc) ==
    LET ips == Column(doc, "ip")
        forward == Column(doc, "port")
        ports == [i \in 1 .. Len(forward) |-> forward[Len(forward) + 1 - i]]
        protocols == Column(doc, "protocol")
        count == IF Len(ports) < Len(ips) THEN Len(ports) ELSE Len(ips)
    IN  [i \in 1 .. count |-> EndpointOf(ips[i], ports[i],
                                 IF i <= Len(protocols) THEN protocols[i] ELSE Absent)]

\* The columns are put side by side again, whatever entries their values came from.
ParseJSON(doc) ==
    LET ips == Column(doc, "ip")
        ports == Column(doc, "port")
        protocols == Column(doc, "protocol")
        count == IF Len(ports) < Len(ips) THEN Len(ports) ELSE Len(ips)
    IN  [i \in 1 .. count |-> EndpointOf(ips[i], ports[i],
                                 IF i <= Len(protocols) THEN protocols[i] ELSE Absent)]

\* The round ends: its result is shown, and the endpoints are offered.
Offer(endpoints) ==
    /\ offered' = endpoints
    /\ status' = [fetched |-> TRUE, count |-> Len(endpoints), failed |-> FALSE]
    /\ round' = "start"
    /\ UNCHANGED <<source, fallback, attempts, sent, body>>

Parsed == round = "parse" /\ Offer(IF source.kind = "text" THEN ParseText(body) ELSE ParseJSON(body))

\* runScript: a field that an entry lacks becomes the text nil, which is not empty, so
\* the entry is taken as it is, and the protocol of the source is not looked at.
Scripted == round = "script" /\ \E entries \in Document : Offer(entries)

\* An attempt, the JSON or the script failed; the last endpoints stay offered.
RoundFails ==
    /\ round \in {"failed", "script"} \/ (round = "parse" /\ source.kind = "json")
    /\ status' = [fetched |-> TRUE, count |-> 0, failed |-> TRUE]
    /\ round' = "start"
    /\ UNCHANGED <<source, fallback, attempts, sent, body, offered>>

SourcesNext ==
    \/ \E kind \in Kinds, scheme \in Scheme : LoadSource(kind, scheme)
    \/ StartRound
    \/ DirectAttempt \/ NoFallback \/ TakeProxy \/ ProxiedAttempt
    \/ Parsed \/ Scripted \/ RoundFails

-----------------------------------------------------------------------------
Rounds == {"loading", "start", "script", "direct", "fallback", "proxied", "parse", "failed", "ended"}

SourcesTypeOK ==
    /\ source = Absent \/ source \in [kind : Kinds, protocol : Scheme]
    /\ fallback \in BOOLEAN /\ round \in Rounds
    /\ attempts \in Seq({"direct", "proxied"})
    /\ sent \in Document \cup {<< >>} /\ body \in Seq(Entry)
    /\ status \in [fetched : BOOLEAN, count : Nat, failed : BOOLEAN]
    /\ offered \in Seq(Entry)
    /\ \A i \in 1 .. Len(offered) :
         source.kind # "script" => offered[i] \in [ip : Address, port : Port, protocol : Scheme]

\* "A bad free proxy is never allowed to delay every source refresh by several retries":
\* one attempt through a proxy, after as many direct ones as are configured
\* (crawler.go:156-177).
OneProxyTry ==
    /\ Len(attempts) <= Retries + 1
    /\ \A i \in 1 .. Len(attempts) : attempts[i] = "proxied" => i = Retries + 1 /\ fallback

\* A list is parsed as a whole or not at all: a body at the limit is not taken for a
\* longer one, nor the beginning of a longer one for a list (crawler.go:426-443).
WholeDocument == round = "parse" => body = sent /\ Len(sent) <= BodyLimit

\* Entries that all have the same fields keep them together: every endpoint offered has
\* address, port and protocol of one entry, and every entry with an address and a port
\* is offered (source.go:230-303).
Uniform(doc) ==
    \A i, j \in 1 .. Len(doc) : \A field \in {"ip", "port", "protocol"} :
        (doc[i][field] = Absent) = (doc[j][field] = Absent)

FieldsStayTogether ==
    \A doc \in Document : source # Absent /\ Uniform(doc) =>
        \A endpoints \in {ParseText(doc), ParseJSON(doc)} :
            \A i \in 1 .. Len(doc) :
                doc[i].ip # Absent /\ doc[i].port # Absent =>
                    endpoints[i] = EndpointOf(doc[i].ip, doc[i].port, doc[i].protocol)

\* A round gets its document with bounded effort, whole, and offers what it lists.
FetchIsFaithful == OneProxyTry /\ WholeDocument /\ FieldsStayTogether
=============================================================================
