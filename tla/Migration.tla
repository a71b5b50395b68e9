------------------------------- MODULE Migration -------------------------------
(***************************************************************************)
(* The migration task of a schema (payments or pos): a one-off ECS task    *)
(* that is run by hand, takes no lock, and may die or be run twice.  It    *)
(* creates the application's role, applies the files of its image that     *)
(* schema_migrations does not list, grants the role what it needs, and     *)
(* writes the role's credentials to Secrets Manager.                       *)
(***************************************************************************)
EXTENDS Naturals, Sequences

CONSTANTS
    Jobs,    \* runs of the task
    Files,   \* the number of migration files there are in the newest image
    NULL

ASSUME MigrationAssumption == Files \in Nat /\ NULL \notin Jobs

VARIABLES
    role,       \* the run whose password the role has, NULL: no such role
    secret,     \* the run whose password the secret holds, NULL: placeholder
    applied,    \* schema_migrations
    reachable,  \* the files on whose tables the role has its privileges
    default,    \* whether the default privileges give them on new tables
    log,        \* the files in the order their SQL took effect
    pc,         \* per run: where it is
    image,      \* the files its image has: the first so many
    write,      \* whether it was given --write-secret
    password,   \* whether it generated a password
    seen,       \* the files it will not run: applied before, or by itself
    open,       \* the file of its open transaction, 0: none
    granted     \* whether that file's tables get the default privileges

database == <<role, secret, applied, reachable, default, log>>
vars == <<database, pc, image, write, password, seen, open, granted>>

Goto(j, step) == pc' = [pc EXCEPT ![j] = step]

-----------------------------------------------------------------------------
(* The schema is there or created, and the role is looked up.  An older    *)
(* image has the first files only: applied migrations are never edited,    *)
(* new ones are added at the end.                                          *)
Start(j) ==
    /\ pc[j] = "idle"
    /\ \E n \in 0..Files, w \in BOOLEAN :
          /\ image' = [image EXCEPT ![j] = n]
          /\ write' = [write EXCEPT ![j] = w]
    /\ Goto(j, IF role = NULL THEN "create" ELSE "read")
    /\ UNCHANGED <<database, password, seen, open, granted>>

(* Mutant: a role that exists by now is no error. *)
CreateRoleUnlessExists(j) ==
    /\ pc[j] = "create"
    /\ role' = IF role = NULL THEN j ELSE role
    /\ password' = [password EXCEPT ![j] = TRUE]
    /\ Goto(j, "read")
    /\ UNCHANGED <<secret, applied, reachable, default, log, image, write, seen, open, granted>>

(* CREATE ROLE with a new password: an error if another run was faster.    *)
CreateRole(j) ==
    /\ pc[j] = "create" /\ role = NULL
    /\ role' = j
    /\ password' = [password EXCEPT ![j] = TRUE]
    /\ Goto(j, "read")
    /\ UNCHANGED <<secret, applied, reachable, default, log, image, write, seen, open, granted>>

ReadApplied(j) ==
    /\ pc[j] = "read"
    /\ seen' = [seen EXCEPT ![j] = applied]
    /\ Goto(j, "files")
    /\ UNCHANGED <<database, image, write, password, open, granted>>

-----------------------------------------------------------------------------
(* The files, by name.  Two runs of one file collide on what it creates,   *)
(* and on the primary key of schema_migrations: the second waits for the   *)
(* transaction of the first, and fails if that commits.                    *)

Todo(j) == 1..image[j] \ seen[j]

IsNext(j, f) == f \in Todo(j) /\ \A g \in Todo(j) : f <= g

(* Mutant: a file that was applied meanwhile runs again. *)
RunFileTwice(j) ==
    /\ pc[j] = "files"
    /\ \E f \in Todo(j) :
          /\ IsNext(j, f)
          /\ \A k \in Jobs : open[k] # f
          /\ open' = [open EXCEPT ![j] = f]
    /\ granted' = [granted EXCEPT ![j] = default]
    /\ Goto(j, "commit")
    /\ UNCHANGED <<database, image, write, password, seen>>

RunFile(j) ==
    /\ pc[j] = "files"
    /\ \E f \in Todo(j) :
          /\ IsNext(j, f) /\ f \notin applied
          /\ \A k \in Jobs : open[k] # f
          /\ open' = [open EXCEPT ![j] = f]
    /\ granted' = [granted EXCEPT ![j] = default]
    /\ Goto(j, "commit")
    /\ UNCHANGED <<database, image, write, password, seen>>

Commit(j) ==
    /\ pc[j] = "commit"
    /\ applied' = applied \cup {open[j]}
    /\ log' = Append(log, open[j])
    /\ reachable' = IF granted[j] THEN reachable \cup {open[j]} ELSE reachable
    /\ seen' = [seen EXCEPT ![j] = @ \cup {open[j]}]
    /\ open' = [open EXCEPT ![j] = 0]
    /\ Goto(j, "files")
    /\ UNCHANGED <<role, secret, default, image, write, password, granted>>

-----------------------------------------------------------------------------
(* Mutant: the grant on all tables is left to the default privileges. *)
GrantNothing(j) ==
    /\ pc[j] = "files" /\ Todo(j) = {}
    /\ Goto(j, "default")
    /\ UNCHANGED <<database, image, write, password, seen, open, granted>>

(* search_path, and the privileges on every table there is.                *)
GrantTables(j) ==
    /\ pc[j] = "files" /\ Todo(j) = {}
    /\ reachable' = applied
    /\ Goto(j, "default")
    /\ UNCHANGED <<role, secret, applied, default, log, image, write, password, seen, open, granted>>

AlterDefault(j) ==
    /\ pc[j] = "default"
    /\ default' = TRUE
    /\ Goto(j, "secret")
    /\ UNCHANGED <<role, secret, applied, reachable, log, image, write, password, seen, open, granted>>

(* Without --write-secret the password is printed, once, for an operator   *)
(* to store.                                                               *)
StoreSecret(j) ==
    /\ pc[j] = "secret"
    /\ secret' = IF password[j] /\ write[j] THEN j ELSE secret
    /\ Goto(j, "done")
    /\ UNCHANGED <<role, applied, reachable, default, log, image, write, password, seen, open, granted>>

(* Mutant: the transaction of a failing run is left open. *)
FailOpen(j) ==
    /\ pc[j] \notin {"idle", "done", "failed"}
    /\ Goto(j, "failed")
    /\ UNCHANGED <<database, image, write, password, seen, open, granted>>

(* A statement fails, as the role that is there or the file that was       *)
(* applied meanwhile make it do, or the task dies.                         *)
Fail(j) ==
    /\ pc[j] \notin {"idle", "done", "failed"}
    /\ open' = [open EXCEPT ![j] = 0]
    /\ Goto(j, "failed")
    /\ UNCHANGED <<database, image, write, password, seen, granted>>

Init ==
    /\ role = NULL /\ secret = NULL
    /\ applied = {} /\ reachable = {} /\ default = FALSE /\ log = <<>>
    /\ pc = [j \in Jobs |-> "idle"]
    /\ image = [j \in Jobs |-> 0]
    /\ write = [j \in Jobs |-> FALSE]
    /\ password = [j \in Jobs |-> FALSE]
    /\ seen = [j \in Jobs |-> {}]
    /\ open = [j \in Jobs |-> 0]
    /\ granted = [j \in Jobs |-> FALSE]

JobStep(j) ==
    \/ Start(j) \/ CreateRole(j) \/ ReadApplied(j)
    \/ RunFile(j) \/ Commit(j)
    \/ GrantTables(j) \/ AlterDefault(j) \/ StoreSecret(j)
    \/ Fail(j)

Next == \E j \in Jobs : JobStep(j)

Spec == Init /\ [][Next]_vars

-----------------------------------------------------------------------------
(* Properties.                                                             *)

Steps == {"idle", "create", "read", "files", "commit", "default", "secret", "done", "failed"}

(* Types; a run has a file open only while it is in its transaction.       *)
TypeOK ==
    /\ role \in Jobs \cup {NULL} /\ secret \in Jobs \cup {NULL}
    /\ applied \subseteq 1..Files /\ reachable \subseteq applied /\ default \in BOOLEAN
    /\ log \in Seq(1..Files)
    /\ pc \in [Jobs -> Steps]
    /\ image \in [Jobs -> 0..Files]
    /\ write \in [Jobs -> BOOLEAN] /\ password \in [Jobs -> BOOLEAN]
    /\ seen \in [Jobs -> SUBSET (1..Files)]
    /\ open \in [Jobs -> 0..Files] /\ granted \in [Jobs -> BOOLEAN]
    /\ \A j \in Jobs : open[j] # 0 <=> pc[j] = "commit"

(* The SQL of every file took effect once, in the order of their names,    *)
(* and schema_migrations lists just these, whatever runs overlapped, died  *)
(* half-way, or came from an older image.                                  *)
AppliedOnceInOrder ==
    /\ \A i \in DOMAIN log : log[i] = i
    /\ applied = 1..Len(log)

(* The credentials in Secrets Manager are those the role was created with: *)
(* a run that finds the role, or loses the race to create it, does not     *)
(* overwrite them with a password the database does not know.              *)
SecretMatchesRole == secret # NULL => secret = role

(* Once a run has ended well, its whole image is applied, its tables can   *)
(* be used by the application, and the role's credentials were stored if   *)
(* the run made them and was asked to.                                     *)
DoneIsReady ==
    \A j \in Jobs : pc[j] = "done" =>
        /\ 1..image[j] \subseteq reachable
        /\ role # NULL
        /\ role = j /\ write[j] => secret = j
=============================================================================
