------------------------------- MODULE Schema ------------------------------
(***************************************************************************)
(* Opening a store (depo/alan, depo/migrate): the database is opened, its  *)
(* version read, and each pending migration applied in a transaction of    *)
(* its own that also sets the version.  The version is read outside those  *)
(* transactions.  One file may be opened by several openers at once: a     *)
(* workspace opened twice, or an older and a newer build of the program.   *)
(* What a transaction is in itself is module Database.                     *)
(***************************************************************************)
EXTENDS Naturals, Sequences

CONSTANTS
    Openers,        \* calls that open one database file
    Knows,          \* the last migration each one's program has
    Sizes,          \* how many statements each migration has
    NoOpener

Migrations == DOMAIN Sizes      \* numbered from 1: the files are consecutive

ASSUME SchemaAssumption ==
    /\ Sizes \in Seq(Nat \ {0})
    /\ Knows \in [Openers -> Migrations]
    /\ NoOpener \notin Openers

VARIABLES
    version,        \* PRAGMA user_version, as committed
    made,           \* the tables that statements have made, as committed
    writer,         \* who holds the file's write lock
    draft,          \* the tables made in its transaction
    stage,          \* where each opener stands
    next            \* the migration it is to apply

schemaVars == <<version, made, writer, draft, stage, next>>

OpenStages == {"closed", "opening", "between", "applying", "open", "refused", "failed"}
Tables(m) == {m} \X (1 .. Sizes[m])

SchemaInit ==
    /\ version = 0 /\ made = {}
    /\ writer = NoOpener /\ draft = {}
    /\ stage = [o \in Openers |-> "closed"]
    /\ next = [o \in Openers |-> 0]

SetStage(o, s) == stage' = [stage EXCEPT ![o] = s]

OpenFile(o) ==
    /\ stage[o] = "closed"
    /\ SetStage(o, "opening")
    /\ UNCHANGED <<version, made, writer, draft, next>>

(* A newer program's database is refused; otherwise what lies above the    *)
(* version just read is applied, in order.                                 *)
ReadVersion(o) ==
    /\ stage[o] = "opening"
    /\ CASE version > Knows[o] -> SetStage(o, "refused")
         [] version = Knows[o] -> SetStage(o, "open")
         [] version < Knows[o] -> SetStage(o, "between")
    /\ next' = [next EXCEPT ![o] = version + 1]
    /\ UNCHANGED <<version, made, writer, draft>>

BeginMigration(o) ==
    /\ stage[o] = "between"
    /\ writer = NoOpener
    /\ writer' = o /\ draft' = {}
    /\ SetStage(o, "applying")
    /\ UNCHANGED <<version, made, next>>

(* A statement makes its table, unless it is there already. *)
Statement(o) ==
    /\ stage[o] = "applying"
    /\ \E t \in Tables(next[o]) \ draft :
          /\ \A u \in Tables(next[o]) \ draft : t[2] <= u[2]
          /\ t \notin made
          /\ draft' = draft \cup {t}
    /\ UNCHANGED <<version, made, writer, stage, next>>

Rollback(o, s) ==
    /\ writer' = NoOpener /\ draft' = {}
    /\ SetStage(o, s)
    /\ UNCHANGED <<version, made, next>>

(* Mutant: the version is set to what the program knows. *)
CommitToLast(o) ==
    /\ stage[o] = "applying" /\ draft = Tables(next[o])
    /\ version' = Knows[o] /\ made' = made \cup draft
    /\ writer' = NoOpener /\ draft' = {}
    /\ next' = [next EXCEPT ![o] = @ + 1]
    /\ SetStage(o, IF next[o] = Knows[o] THEN "open" ELSE "between")

CommitMigration(o) ==
    /\ stage[o] = "applying" /\ draft = Tables(next[o])
    /\ version' = next[o] /\ made' = made \cup draft
    /\ writer' = NoOpener /\ draft' = {}
    /\ next' = [next EXCEPT ![o] = @ + 1]
    /\ SetStage(o, IF next[o] = Knows[o] THEN "open" ELSE "between")

(* The table exists, or the disk fails: rolled back, and the open with it. *)
FailStatement(o) ==
    /\ stage[o] = "applying"
    /\ Rollback(o, "failed")

(* The file is not readable, or the lock is not had in time. *)
FailEarly(o) ==
    /\ stage[o] \in {"opening", "between"}
    /\ SetStage(o, "failed")
    /\ UNCHANGED <<version, made, writer, draft, next>>

(* The process ends, or the store is closed, at any point. *)
Stop(o) ==
    /\ stage[o] # "closed"
    /\ IF writer = o THEN Rollback(o, "closed")
       ELSE SetStage(o, "closed") /\ UNCHANGED <<version, made, writer, draft, next>>

SchemaStep ==
    \E o \in Openers :
        \/ OpenFile(o) \/ ReadVersion(o) \/ BeginMigration(o) \/ Statement(o)
        \/ CommitMigration(o) \/ FailStatement(o) \/ FailEarly(o) \/ Stop(o)

----------------------------------------------------------------------------
SchemaTypeOK ==
    /\ version \in Nat
    /\ writer \in Openers \cup {NoOpener}
    /\ stage \in [Openers -> OpenStages]
    /\ next \in [Openers -> Nat]

(* The schema is whole: whoever opened, raced, failed or stopped, and      *)
(* wherever, the tables are those of the migrations up to the version, no  *)
(* more and no less; and a store that is open has the schema its program   *)
(* knows, or a newer one that another program has put there since.         *)
SchemaWhole ==
    /\ made = UNION {Tables(m) : m \in {k \in Migrations : k <= version}}
    /\ \A o \in Openers : stage[o] = "open" => version >= Knows[o]
============================================================================
