----------------------------- MODULE Migration -----------------------------
(***************************************************************************)
(* Start-up over a database of any earlier release (migrateDB,              *)
(* proxyinabox.go): one transaction that adds columns, removes duplicates   *)
(* that older schemas allowed, and gives the new columns their values.     *)
(* Rows of one address and port are modelled; the index is theirs.         *)
(***************************************************************************)
EXTENDS Integers, FiniteSets

CONSTANTS
    Id,         \* primary keys
    Protocol,   \* protocols of endpoints
    Http,       \* the protocol an empty one stands for
    Blank       \* an empty or missing protocol

ASSUME MigrationAssumption ==
    Id \subseteq Nat /\ IsFiniteSet(Id) /\ Http \in Protocol /\ Blank \notin Protocol

VARIABLES
    process,    \* "none" (no database yet), "down" or "up"
    columns,    \* which of the newer columns the table has
    rows,       \* table proxies
    migrated    \* history: this release has opened the database

migrationVars == <<process, columns, rows, migrated>>

Columns == {"Available", "NextVerifyAt", "LastDeepVerify"}

\* next_verify_at is unset, in the future or in the past; deep tells whether
\* last_deep_verify is set.  Every release has set last_verify.
Rows == [id : Id, protocol : Protocol \cup {Blank}, deleted : BOOLEAN,
         available : BOOLEAN, nextVerify : {"unset", "future", "past"},
         deep : BOOLEAN]

MigrationInit == process = "none" /\ columns = {} /\ rows = {} /\ migrated = FALSE

\* A database an earlier release left: columns it had no name for have no values, and
\* no schema but the newest had an index on endpoints.
LegacyRows(has) ==
    {r \in Rows :
        /\ r.available \/ "Available" \in has
        /\ r.nextVerify = "past" => "NextVerifyAt" \in has /\ ~r.available
        /\ r.nextVerify # "future"
        /\ r.deep = ("LastDeepVerify" \in has)}

Legacy ==
    /\ process = "none"
    /\ process' = "down"
    /\ UNCHANGED migrated
    /\ \E has \in SUBSET Columns :
         /\ columns' = has
         /\ \E ids \in SUBSET Id : \E table \in [ids -> LegacyRows(has)] :
              /\ \A i \in ids : table[i].id = i
              /\ rows' = {table[i] : i \in ids}

-----------------------------------------------------------------------------
(* migrateDB *)

ProtocolOf(r) == IF r.protocol = Blank THEN Http ELSE r.protocol

\* Mutant: the newest row stays, deleted or not.
RankedByAge(r, s) == r.id > s.id

\* The order of ROW_NUMBER: rows that are not deleted first, then the newest.
RankedBefore(r, s) ==
    \/ ~r.deleted /\ s.deleted
    \/ r.deleted = s.deleted /\ r.id > s.id

\* Mutant: an empty protocol is an endpoint of its own.
FirstOfProtocol == {r \in rows : ~\E s \in rows : s.protocol = r.protocol /\ RankedBefore(s, r)}

Deduplicated ==
    {r \in rows : ~\E s \in rows : ProtocolOf(s) = ProtocolOf(r) /\ RankedBefore(s, r)}

\* Mutant: quarantined rows are postponed on every start.
MigratedAlways(r) ==
    [r EXCEPT !.protocol = ProtocolOf(r),
              !.nextVerify = IF ~r.available /\ ~r.deleted THEN "future" ELSE @,
              !.deep = @ \/ ("LastDeepVerify" \notin columns /\ ~r.deleted)]

\* Mutant: an empty protocol stays empty.
MigratedBlank(r) ==
    [r EXCEPT !.nextVerify = IF "NextVerifyAt" \notin columns /\ ~r.available /\ ~r.deleted
                             THEN "future" ELSE @,
              !.deep = @ \/ ("LastDeepVerify" \notin columns /\ ~r.deleted)]

\* The values of a row after the transaction: both seeds go to rows that are not
\* deleted, when their column is new.
Migrated(r) ==
    [r EXCEPT !.protocol = ProtocolOf(r),
              !.nextVerify = IF "NextVerifyAt" \notin columns /\ ~r.available /\ ~r.deleted
                             THEN "future" ELSE @,
              !.deep = @ \/ ("LastDeepVerify" \notin columns /\ ~r.deleted)]

\* An error rolls everything back, and the process panics: nothing happened.
Migrate ==
    /\ process = "down"
    /\ process' = "up"
    /\ columns' = Columns
    /\ migrated' = TRUE
    /\ rows' = {Migrated(r) : r \in Deduplicated}

-----------------------------------------------------------------------------
(* The release that runs now, as far as it writes the table (ProxyPool).   *)

Writes(r, to) ==
    /\ process = "up"
    /\ rows' = (rows \ {r}) \cup {to}
    /\ UNCHANGED <<process, columns, migrated>>

Quarantines(r) == r.available /\ Writes(r, [r EXCEPT !.available = FALSE, !.nextVerify = "future"])

DelayEnds(r) == r.nextVerify = "future" /\ Writes(r, [r EXCEPT !.nextVerify = "past"])

\* UpsertProxy, for an endpoint that has no row.
Inserts(id, protocol) ==
    /\ process = "up"
    /\ \A r \in rows : r.id # id /\ r.protocol # protocol
    /\ rows' = rows \cup {[id |-> id, protocol |-> protocol, deleted |-> FALSE,
                           available |-> TRUE, nextVerify |-> "unset",
                           deep |-> TRUE]}
    /\ UNCHANGED <<process, columns, migrated>>

Stops == process = "up" /\ process' = "down" /\ UNCHANGED <<columns, rows, migrated>>

MigrationNext ==
    \/ Legacy
    \/ Migrate
    \/ \E r \in rows : ~r.deleted /\ (Quarantines(r) \/ DelayEnds(r))
    \/ \E id \in Id, protocol \in Protocol : Inserts(id, protocol)
    \/ Stops

-----------------------------------------------------------------------------
MigrationTypeOK ==
    /\ process \in {"none", "down", "up"} /\ columns \subseteq Columns
    /\ rows \subseteq Rows /\ migrated \in BOOLEAN
    /\ \A r, s \in rows : r.id = s.id => r = s
    /\ process = "up" => columns = Columns /\ \A r \in rows : r.protocol \in Protocol

\* Whatever an older release left behind, the running one finds one row per endpoint,
\* so that AutoMigrate can create its unique index and URI identifies rows.
OneRowPerEndpoint ==
    process = "up" => \A r, s \in rows : ProtocolOf(r) = ProtocolOf(s) => r = s

\* No endpoint that had a row in use loses it to a deleted duplicate, and the row that
\* stays is no older than any that was in use.
LiveRowsSurvive ==
    \A r \in rows : ~r.deleted =>
        \E s \in rows' : s.protocol = ProtocolOf(r) /\ ~s.deleted /\ s.id >= r.id

\* The upgrade is safe: it leaves one row per endpoint, which the index accepts, and loses
\* nothing in use (proxyinabox.go:121-130).  A later start changes no row: it neither
\* postpones a quarantined endpoint that was about to be checked again nor marks one as
\* deeply verified (proxyinabox.go:150-165).
MigrationIsSafe ==
    [][Migrate => /\ OneRowPerEndpoint'
                  /\ LiveRowsSurvive
                  /\ migrated => rows' = rows
      ]_migrationVars
=============================================================================
