------------------------------ MODULE Migration ------------------------------
(***************************************************************************)
(* NoveltyStore::open (src/novelty.rs): the schema, the rename of a column,*)
(* the capture triggers, and the copy of an older table, each a statement  *)
(* that commits by itself, on a database an older or an interrupted build  *)
(* left behind.  Any of them may be the last one before the process ends.  *)
(*                                                                         *)
(* A row stands for its primary key.  capturable_state::install (external) *)
(* makes the triggers follow the columns of the moment; the collector that *)
(* reads the _outbox is not modelled.                                      *)
(***************************************************************************)
EXTENDS Integers, Sequences, FiniteSets

CONSTANTS Rows, MaxCrashes

ASSUME MigrationAssumption == MaxCrashes \in Nat

VARIABLES
    column,   \* the list column of multi_brand_certs; "none" without the table
    certs,    \* its rows
    aprime,   \* the rows of aprime_alerts, or NoTable
    triggers, \* the key the capture triggers write, "none" before install
    outbox,   \* row -> the events captured for it
    renamed,  \* renamed_names, a local of open
    statement, \* the statement open has reached; "down", "open"
    crashes,
    older     \* rows stored by a build without capture: history

db == <<column, certs, aprime, triggers, outbox>>
storeVars == <<db, renamed, statement, crashes, older>>

NoTable == {"no table"}
ListKey == {"names", "hosts"}
Event == [op : {"I", "U"}, key : ListKey]

StoreTypeOK ==
    /\ column \in ListKey \cup {"none"} /\ certs \subseteq Rows /\ older \subseteq certs
    /\ aprime \subseteq Rows \/ aprime = NoTable
    /\ triggers \in ListKey \cup {"none"}
    /\ outbox \in [Rows -> Seq(Event)]
    /\ renamed \in BOOLEAN
    /\ statement \in {"down", "schema", "rename", "install", "copy", "drop", "touch",
                      "open"}
    /\ statement = "open" => column = "hosts" /\ triggers = "hosts" /\ aprime = NoTable

Captured(rows, op, key) ==
    [r \in Rows |-> IF r \in rows THEN Append(outbox[r], [op |-> op, key |-> key])
                    ELSE outbox[r]]

\* What a database of each age holds: rows were captured under the name their
\* column had, or stored before there were triggers, and aprime_alerts, older
\* than capture, has none of its own.
StoreInit ==
    /\ column \in ListKey \cup {"none"} /\ triggers \in {"none", column}
    /\ certs \in SUBSET Rows /\ (column = "none" => certs = {})
    /\ older \in SUBSET certs /\ (triggers = "none" => older = certs)
    /\ aprime \in (SUBSET Rows) \cup {NoTable}
    /\ outbox = [r \in Rows |-> IF r \in certs \ older
                                THEN <<[op |-> "I", key |-> column]>> ELSE <<>>]
    /\ renamed = FALSE /\ statement = "down" /\ crashes = 0

Open ==
    /\ statement = "down"
    /\ statement' = "schema" /\ renamed' = FALSE
    /\ UNCHANGED <<db, crashes, older>>

\* CREATE TABLE IF NOT EXISTS, with the new name.
Schema ==
    /\ statement = "schema"
    /\ column' = IF column = "none" THEN "hosts" ELSE column
    /\ statement' = "rename"
    /\ UNCHANGED <<certs, aprime, triggers, outbox, renamed, crashes, older>>

migrate_names_column ==
    /\ statement = "rename"
    /\ renamed' = (column = "names")
    /\ column' = "hosts"
    /\ statement' = "install"
    /\ UNCHANGED <<certs, aprime, triggers, outbox, crashes, older>>

install_capture ==
    /\ statement = "install"
    /\ triggers' = column
    /\ statement' = "copy"
    /\ UNCHANGED <<column, certs, aprime, outbox, renamed, crashes, older>>

\* Mutant of CopyAprime: INSERT OR REPLACE.
CopyReplacing ==
    /\ statement = "copy"
    /\ IF aprime = NoTable
          THEN statement' = "touch" /\ UNCHANGED <<certs, outbox>>
          ELSE /\ certs' = certs \cup aprime
               /\ outbox' = Captured(aprime, "I", triggers)
               /\ statement' = "drop"
    /\ UNCHANGED <<column, aprime, triggers, renamed, crashes, older>>

\* Mutant of CopyAprime: an empty target only, as a one-time import would.
CopyIntoEmpty ==
    /\ statement = "copy"
    /\ IF aprime = NoTable
          THEN statement' = "touch" /\ UNCHANGED <<certs, outbox>>
          ELSE /\ certs' = IF certs = {} THEN aprime ELSE certs
               /\ outbox' = IF certs = {} THEN Captured(aprime, "I", triggers) ELSE outbox
               /\ statement' = "drop"
    /\ UNCHANGED <<column, aprime, triggers, renamed, crashes, older>>

\* INSERT OR IGNORE ... SELECT, through the insert trigger.
CopyAprime ==
    /\ statement = "copy"
    /\ IF aprime = NoTable
          THEN statement' = "touch" /\ UNCHANGED <<certs, outbox>>
          ELSE /\ certs' = certs \cup aprime
               /\ outbox' = Captured(aprime \ certs, "I", triggers)
               /\ statement' = "drop"
    /\ UNCHANGED <<column, aprime, triggers, renamed, crashes, older>>

DropAprime ==
    /\ statement = "drop"
    /\ aprime' = NoTable
    /\ statement' = "touch"
    /\ UNCHANGED <<column, certs, triggers, outbox, renamed, crashes, older>>

\* UPDATE ... SET fingerprint = fingerprint, by the process that renamed.
Touch ==
    /\ statement = "touch"
    /\ outbox' = IF renamed THEN Captured(certs, "U", triggers) ELSE outbox
    /\ statement' = "open"
    /\ UNCHANGED <<column, certs, aprime, triggers, renamed, crashes, older>>

\* insert_multi_brand_cert, once the store is open.
Insert(r) ==
    /\ statement = "open" /\ r \notin certs
    /\ certs' = certs \cup {r}
    /\ outbox' = Captured({r}, "I", triggers)
    /\ UNCHANGED <<column, aprime, triggers, renamed, statement, crashes, older>>

\* The process is killed, or a statement fails and start-up with it.
Crash ==
    /\ statement # "down" /\ crashes < MaxCrashes
    /\ crashes' = crashes + 1
    /\ statement' = "down" /\ renamed' = FALSE
    /\ UNCHANGED <<db, older>>

\* The store is open and has every row of the model.
StoreRest == statement = "open" /\ certs = Rows /\ UNCHANGED storeVars

StoreNext ==
    \/ Open \/ Schema \/ migrate_names_column \/ install_capture
    \/ CopyAprime \/ DropAprime \/ Touch
    \/ \E r \in Rows : Insert(r)
    \/ Crash \/ StoreRest

StoreSpec == StoreInit /\ [][StoreNext]_storeVars

-----------------------------------------------------------------------------
(* Properties *)

\* The inserts among the events captured for a row.
Inserts(events) == {i \in DOMAIN events : events[i].op = "I"}

\* Every row that entered multi_brand_certs with this build has been captured, as
\* one insert: a copy that an interrupted open repeats is not captured twice, and
\* no row enters the table before its trigger exists.  A row an older build
\* stored without triggers never has an insert of its own.
CapturedOnce ==
    \A r \in Rows :
        Cardinality(Inserts(outbox[r])) = IF r \in certs \ older THEN 1 ELSE 0

\* No alert is lost on the way: a row of aprime_alerts is there until it is in
\* multi_brand_certs, and rows never leave that table.
AlertsKept ==
    [][/\ certs \subseteq certs'
       /\ (IF aprime = NoTable THEN {} ELSE aprime)
            \subseteq (IF aprime' = NoTable THEN {} ELSE aprime') \cup certs']_storeVars
=============================================================================
