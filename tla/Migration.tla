------------------------------ MODULE Migration ------------------------------
(***************************************************************************)
(* Store::open and the schema migrations (pnull-core/src/migrate.rs).      *)
(* Every command opens the one database of the data directory first: it    *)
(* creates the base tables, reads user_version, and brings an older schema *)
(* up to its own inside one transaction.  The version is read before the   *)
(* transaction begins, so two commands may both decide to migrate.         *)
(***************************************************************************)
EXTENDS Naturals, FiniteSets

CONSTANTS
    Opener,      \* the commands
    OldVersions  \* the schema versions a data directory may have

SCHEMA_VERSION == 4
MAX_SUPPORTED_SCHEMA_VERSION == 4

ASSUME VersionAssumption == OldVersions \subseteq Nat

BaseTables == {"evidence", "findings", "alerts", "approvals", "posts", "source_fetches", "post_segments"}

\* The tables each version adds (apply_v1 .. apply_v4); all are additive
\* CREATE ... IF NOT EXISTS, so applying one again changes nothing.
Adds == <<
    {"matters", "matter_attachments", "subjects", "actions", "text_maps", "page_citations",
     "review_decisions", "processing_runs", "source_reviews", "fetch_observations",
     "x_attempts", "x_reconciliations", "publication_allowlists"},
    {"procurement_matters", "procurement_events", "procurement_identifiers",
     "procurement_organizations", "coverage_ledger", "source_snapshots", "snapshot_revisions",
     "snapshot_diffs", "reconciliation_items", "reconciliation_decisions", "case_files", "cora_drafts"},
    {"procurement_alerts", "cora_requests", "official_relationships", "supplied_records"},
    {"snapshot_rows", "snapshot_row_sets"}>>

AddedSince(version) == UNION {Adds[v] : v \in {v \in DOMAIN Adds : version < v /\ v <= SCHEMA_VERSION}}

\* A mistake: the newest step only, as if every database were one version old.
LastStepOnly(version) == UNION {Adds[v] : v \in {v \in DOMAIN Adds : v = SCHEMA_VERSION}}

VARIABLES
    schema,  \* the database: its user_version and its tables
    opening  \* command -> where Store::open is, and the version it read

schemaVars == <<schema, opening>>

OpenInit ==
    /\ schema \in {[version |-> v,
                    tables  |-> IF v = 0 THEN {}
                                ELSE BaseTables \cup UNION {Adds[w] : w \in {w \in DOMAIN Adds : w <= v}}] :
                    v \in OldVersions}
    /\ opening = [o \in Opener |-> [at |-> "closed", version |-> 0]]

\* What the transaction adds on top of the version the command read.
Steps(version) == AddedSince(version)

\* The base tables are created and user_version is read.
ReadVersion(o) ==
    /\ opening[o].at = "closed"
    /\ schema' = [schema EXCEPT !.tables = @ \cup BaseTables]
    /\ opening' = [opening EXCEPT ![o] =
         [at |-> IF schema.version = SCHEMA_VERSION THEN "open"
                 ELSE IF schema.version > MAX_SUPPORTED_SCHEMA_VERSION THEN "refused"
                 ELSE "migrating",
          version |-> schema.version]]

\* The transaction: every step above the version that was READ, then the mark.
Migrate(o) ==
    /\ opening[o].at = "migrating"
    /\ schema' = [version |-> SCHEMA_VERSION, tables |-> schema.tables \cup Steps(opening[o].version)]
    /\ opening' = [opening EXCEPT ![o].at = "open"]

\* SQLite reports the other command's lock; nothing is applied.
MigrateBusy(o) ==
    /\ opening[o].at = "migrating"
    /\ \E p \in Opener \ {o} : opening[p].at # "closed"
    /\ opening' = [opening EXCEPT ![o].at = "closed"]
    /\ UNCHANGED schema

IsOpen(o) == opening[o].at = "open"

OpenNext(o) == ReadVersion(o) \/ Migrate(o) \/ MigrateBusy(o)

(***************************************************************************)
(* Properties.                                                             *)
(***************************************************************************)

\* Whatever versions the commands read and in whatever order their
\* transactions commit, a command works on a database that has every table of
\* this build's schema, and one with a newer schema is never migrated.
\* (migrate.rs:44-76.)
OpenMeansMigrated ==
    /\ \A o \in Opener :
         IsOpen(o) => schema.version = SCHEMA_VERSION
                      /\ schema.tables = BaseTables \cup UNION {Adds[v] : v \in DOMAIN Adds}
    /\ schema.version > SCHEMA_VERSION => \A o \in Opener : opening[o].at \in {"closed", "refused"}

=============================================================================
