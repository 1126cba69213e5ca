------------------------------ MODULE Encryption ------------------------------
(* The encryption at rest of store/crypto.ts over the starts of the            *)
(* application, with and without a secure backend of the operating system, and *)
(* the migration of encryptMigration.ts that runs at a start.  Rows of the     *)
(* entity tables are encrypted in place; the rows of known_hosts and           *)
(* command_history are found by a primary key that is a token of their text.   *)
(* One process at a time, which has the backend for its whole life or never; a *)
(* data key that cannot be unwrapped is an unavailable backend.                *)
EXTENDS FiniteSets

CONSTANTS
    Hosts,      \* host keys the user may trust
    Commands,   \* commands the user may run
    Entities,   \* rows of the tables that are encrypted in place
    NoHost

VARIABLES
    rows,       \* how the row of an entity is stored
    lookups,    \* the rows of known_hosts and command_history
    migrated,   \* meta rows_encrypted_v1 is set
    marked,      \* meta rows_need_encryption_v1 is '1'
    process,    \* the application, or how its last start ended
    key,        \* keys() of this process gives a key
    accepting   \* the host whose row trustHostkey() is about to insert

encryptionVars == <<rows, lookups, migrated, marked, process, key, accepting>>

(* `keyed' is the form of the primary key, `text' that of host_enc, cmd_enc.   *)
Lookups == [item : Hosts \cup Commands, keyed : {"plain", "token"},
            text : {"none", "plain", "sealed"}]

(* Rows are what they may be, and only a running process has a key.            *)
EncryptionTypeOK ==
    /\ rows \in [Entities -> {"none", "plain", "sealed"}]
    /\ lookups \subseteq Lookups
    /\ migrated \in BOOLEAN /\ marked \in BOOLEAN
    /\ process \in {"off", "up", "failed"}
    /\ key \in BOOLEAN /\ (key => process = "up")
    /\ accepting \in Hosts \cup {NoHost}

(* A fresh installation, or a version without encryption leaving its rows.     *)
EncryptionInit ==
    /\ rows \in [Entities -> {"none", "plain"}]
    /\ lookups \in {{}, {[item |-> i, keyed |-> "plain", text |-> "none"] :
                             i \in Hosts \cup Commands}}
    /\ migrated = FALSE /\ marked = FALSE
    /\ process = "off" /\ key = FALSE /\ accepting = NoHost

Idle == process = "up" /\ accepting = NoHost

EncField == IF key THEN "sealed" ELSE "plain"
Tokenize == IF key THEN "token" ELSE "plain"

(* Variant: only a database that was never migrated gets the mark.             *)
MarkedOnce == marked' = (marked \/ (~key /\ ~migrated))

(* markDataEncryptionDirty(): plain text is about to be stored.                *)
Marked == marked' = (marked \/ ~key)

(* INSERT ... ON CONFLICT(key) DO UPDATE, which leaves the encrypted text.     *)
Upserted(i) ==
    IF \E r \in lookups : r.item = i /\ r.keyed = Tokenize THEN lookups
    ELSE lookups \cup {[item |-> i, keyed |-> Tokenize, text |-> EncField]}

-------------------------------------------------------------------------------
(* Starts.                                                                     *)

MigrationIsDue == ~migrated \/ marked

(* What the migration inserts into the emptied tables.                         *)
Rekeyed == {[item |-> r.item, keyed |-> "token", text |-> "sealed"] : r \in lookups}

(* Two rows of one item would get the same primary key.                        *)
Clash == Cardinality(Rekeyed) # Cardinality(lookups)

StartPlain(available) ==
    /\ process # "up"
    /\ ~available \/ ~MigrationIsDue
    /\ process' = "up" /\ key' = available
    /\ UNCHANGED <<rows, lookups, migrated, marked, accepting>>

StartMigrating ==
    /\ process # "up"
    /\ MigrationIsDue /\ ~Clash
    /\ process' = "up" /\ key' = TRUE
    /\ rows' = [e \in Entities |-> IF rows[e] = "none" THEN "none" ELSE "sealed"]
    /\ lookups' = Rekeyed
    /\ migrated' = TRUE /\ marked' = FALSE
    /\ UNCHANGED accepting

(* The transaction is rolled back, the error reaches whenReady() and the       *)
(* application quits.                                                          *)
MigrationFails ==
    /\ process # "up"
    /\ MigrationIsDue /\ Clash
    /\ process' = "failed"
    /\ UNCHANGED <<rows, lookups, migrated, marked, key, accepting>>

(* Quitting, or a crash between any two statements.                            *)
Leave ==
    /\ process = "up"
    /\ process' = "off" /\ key' = FALSE /\ accepting' = NoHost
    /\ UNCHANGED <<rows, lookups, migrated, marked>>

-------------------------------------------------------------------------------
(* Writes.                                                                     *)

(* The mark and the row are written by one transaction.                        *)
SaveEntity(e) ==
    /\ Idle
    /\ rows' = [rows EXCEPT ![e] = EncField]
    /\ Marked
    /\ UNCHANGED <<lookups, migrated, process, key, accepting>>

DeleteEntity(e) ==
    /\ Idle /\ rows[e] # "none"
    /\ rows' = [rows EXCEPT ![e] = "none"]
    /\ UNCHANGED <<lookups, migrated, marked, process, key, accepting>>

(* Looking a host key up makes the token to look for.                          *)
CheckHostkey ==
    /\ Idle
    /\ Marked
    /\ UNCHANGED <<rows, lookups, migrated, process, key, accepting>>

(* trustHostkey() evaluates the arguments of its INSERT: a statement of its    *)
(* own marks the database when they are plain.                                 *)
TrustHostkey(h) ==
    /\ Idle
    /\ accepting' = h
    /\ Marked
    /\ UNCHANGED <<rows, lookups, migrated, process, key>>

InsertHostkey ==
    /\ process = "up" /\ accepting # NoHost
    /\ lookups' = Upserted(accepting)
    /\ accepting' = NoHost
    /\ UNCHANGED <<rows, migrated, marked, process, key>>

DeleteKnownHost(r) ==
    /\ Idle /\ r.item \in Hosts
    /\ lookups' = lookups \ {r}
    /\ UNCHANGED <<rows, migrated, marked, process, key, accepting>>

(* The table keeps far more commands than there are here, so none is evicted.  *)
PushCommandHistory(c) ==
    /\ Idle
    /\ lookups' = Upserted(c)
    /\ Marked
    /\ UNCHANGED <<rows, migrated, process, key, accepting>>

ClearCommandHistory ==
    /\ Idle
    /\ lookups' = {r \in lookups : r.item \in Hosts}
    /\ UNCHANGED <<rows, migrated, marked, process, key, accepting>>

EncryptionNext ==
    \/ \E available \in BOOLEAN : StartPlain(available)
    \/ StartMigrating \/ MigrationFails \/ Leave
    \/ \E e \in Entities : SaveEntity(e) \/ DeleteEntity(e)
    \/ \E h \in Hosts : TrustHostkey(h)
    \/ CheckHostkey \/ InsertHostkey
    \/ \E r \in lookups : DeleteKnownHost(r)
    \/ \E c \in Commands : PushCommandHistory(c)
    \/ ClearCommandHistory

EncryptionSpec == EncryptionInit /\ [][EncryptionNext]_encryptionVars

-------------------------------------------------------------------------------
PlainText ==
    \/ \E e \in Entities : rows[e] = "plain"
    \/ \E r \in lookups : r.keyed = "plain" \/ r.text # "sealed"

(* Whatever was stored in plain text while no backend was there, and wherever  *)
(* the process ended, the next start with a backend is due to encrypt it.      *)
PlaintextIsMarked == PlainText => MigrationIsDue

(* "Guarantees that the migration is idempotent (a partial migration, and      *)
(* running it again, are both safe)": a start never ends in the migration.     *)
MigrationNeverFails == process # "failed"
==============================================================================
