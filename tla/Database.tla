------------------------------ MODULE Database ------------------------------
(* Databases on the node's MariaDB: DbAdmin::create_database and             *)
(* DbAdmin::delete_database (daemon/src/db.rs), one action per statement,    *)
(* since DDL commits by itself and other commands run between two            *)
(* statements.                                                               *)
(*                                                                           *)
(* A statement succeeds, is refused by the server without effect, or takes   *)
(* the connection down, with or without having taken effect; every later     *)
(* statement on that connection then fails.  The daemon may also die between *)
(* two statements.  A command whose arguments are missing, whose names do    *)
(* not validate or that gets no connection changes nothing and is no step.   *)
EXTENDS Naturals, FiniteSets

CONSTANTS
    Names,      \* database names the panel has given out
    Users,      \* database users
    Owner,      \* the user the panel generates for a database
    Tasks,      \* command tasks of the daemon
    PerName,    \* commands on one name that run at once
    Recreate    \* whether a create may name a database that was acked

\* The panel generates a user per database ("a user scoped to it").
ASSUME OwnerAssumption ==
    /\ Owner \in [Names -> Users]
    /\ \A n, m \in Names : Owner[n] = Owner[m] => n = m
ASSUME TasksAssumption == IsFiniteSet(Tasks) /\ Names # {}
ASSUME PerNameAssumption == PerName \in Nat
ASSUME RecreateAssumption == Recreate \in BOOLEAN

VARIABLES
    data,       \* MariaDB: what is in a database, or "absent"
    users,      \* MariaDB: the users there are
    grants,     \* MariaDB: the databases their owner has privileges on
    at,         \* the statement a task is about to run
    name,       \* the database of a task's command
    conn,       \* a task's connection, "up" or "down"
    outcome,    \* the answer to the last command on a name, "none" before it
    missed      \* history: names for which a DROP, a connection or the daemon
                \* failed in the middle of a command

mariaVars == <<data, users, grants>>
dbVars == <<data, users, grants, at, name, conn, outcome, missed>>

Statements == {"create.db", "create.user", "create.grant", "undo.db", "undo.user",
               "create.flush", "delete.db", "delete.user", "delete.flush"}

DatabaseTypeOK ==
    /\ data \in [Names -> {"absent", "empty", "used"}]
    /\ users \subseteq Users
    /\ grants \subseteq Names
    /\ at \in [Tasks -> Statements \cup {"idle"}]
    /\ name \in [Tasks -> Names]
    /\ conn \in [Tasks -> {"up", "down"}]
    /\ outcome \in [Names -> {"none", "created", "failed", "deleted"}]
    /\ missed \subseteq Names

DatabaseInit ==
    /\ data = [n \in Names |-> "absent"]
    /\ users = {}
    /\ grants = {}
    /\ at = [t \in Tasks |-> "idle"]
    /\ name = [t \in Tasks |-> CHOOSE n \in Names : TRUE]
    /\ conn = [t \in Tasks |-> "up"]
    /\ outcome = [n \in Names |-> "none"]
    /\ missed = {}

Busy(n) == {t \in Tasks : at[t] # "idle" /\ name[t] = n}

-----------------------------------------------------------------------------
\* What MariaDB does: each operator is the effect of one statement.

\* CREATE DATABASE IF NOT EXISTS
MakeDatabase(n) ==
    /\ data' = [data EXCEPT ![n] = IF @ = "absent" THEN "empty" ELSE @]
    /\ UNCHANGED <<users, grants>>

\* CREATE USER IF NOT EXISTS
MakeUser(n) ==
    /\ users' = users \cup {Owner[n]}
    /\ UNCHANGED <<data, grants>>

\* GRANT ALL PRIVILEGES: an error if there is no such user; the database
\* itself need not exist.
Grant(n) ==
    /\ Owner[n] \in users
    /\ grants' = grants \cup {n}
    /\ UNCHANGED <<data, users>>

\* DROP DATABASE IF EXISTS: privileges on the name stay.
DropDatabase(n) ==
    /\ data' = [data EXCEPT ![n] = "absent"]
    /\ UNCHANGED <<users, grants>>

\* DROP USER IF EXISTS: the user's privileges go with it.
DropUser(n) ==
    /\ users' = users \ {Owner[n]}
    /\ grants' = grants \ {n}
    /\ UNCHANGED data

-----------------------------------------------------------------------------
\* Running a statement

\* The statement of task t succeeds.
Succeeds(t, effect) ==
    /\ conn[t] = "up"
    /\ effect
    /\ UNCHANGED conn

\* The statement of task t returns an error.
Errs(t, effect) ==
    \/ UNCHANGED <<mariaVars, conn>>
    \/ /\ conn[t] = "up"
       /\ effect \/ UNCHANGED mariaVars
       /\ conn' = [conn EXCEPT ![t] = "down"]

\* What the command leaves behind is out of the code's hands from here on.
Missing(t, gap) == missed' = IF gap THEN missed \cup {name[t]} ELSE missed

Goto(t, s) == at' = [at EXCEPT ![t] = s] /\ UNCHANGED <<name, outcome>>

Answer(t, o) ==
    /\ at' = [at EXCEPT ![t] = "idle"]
    /\ outcome' = [outcome EXCEPT ![name[t]] = o]
    /\ UNCHANGED name

\* A command arrives, validates and gets a fresh connection.
Receive(t, n, first) ==
    /\ at[t] = "idle"
    /\ Cardinality(Busy(n)) < PerName
    /\ at' = [at EXCEPT ![t] = first]
    /\ name' = [name EXCEPT ![t] = n]
    /\ conn' = [conn EXCEPT ![t] = "up"]
    /\ outcome' = [outcome EXCEPT ![n] = "none"]
    /\ UNCHANGED <<mariaVars, missed>>

-----------------------------------------------------------------------------
\* DbAdmin::create_database

CreateReceived(t, n) ==
    /\ Recreate \/ outcome[n] # "created"
    /\ Receive(t, n, "create.db")

\* An error here is returned as it is: nothing is compensated.
CreateDb(t) ==
    /\ at[t] = "create.db"
    /\ \/ Succeeds(t, MakeDatabase(name[t])) /\ Goto(t, "create.user") /\ UNCHANGED missed
       \/ Errs(t, MakeDatabase(name[t])) /\ Answer(t, "failed") /\ Missing(t, conn'[t] = "down")

CreateUser(t) ==
    /\ at[t] = "create.user"
    /\ \/ Succeeds(t, MakeUser(name[t])) /\ Goto(t, "create.grant") /\ UNCHANGED missed
       \/ Errs(t, MakeUser(name[t])) /\ Goto(t, "undo.db") /\ Missing(t, conn'[t] = "down")

\* Mutant: the error of the GRANT is ignored like the one of FLUSH.
CreateGrantIgnored(t) ==
    /\ at[t] = "create.grant"
    /\ \/ Succeeds(t, Grant(name[t])) /\ UNCHANGED missed
       \/ Errs(t, Grant(name[t])) /\ Missing(t, conn'[t] = "down")
    /\ Goto(t, "create.flush")

\* Mutant: the GRANT is outside the block whose failure is compensated.
CreateGrantReturns(t) ==
    /\ at[t] = "create.grant"
    /\ \/ Succeeds(t, Grant(name[t])) /\ Goto(t, "create.flush") /\ UNCHANGED missed
       \/ Errs(t, Grant(name[t])) /\ Answer(t, "failed") /\ Missing(t, conn'[t] = "down")

CreateGrant(t) ==
    /\ at[t] = "create.grant"
    /\ \/ Succeeds(t, Grant(name[t])) /\ Goto(t, "create.flush") /\ UNCHANGED missed
       \/ Errs(t, Grant(name[t])) /\ Goto(t, "undo.db") /\ Missing(t, conn'[t] = "down")

\* The compensation: both errors are ignored, the first error is returned.
UndoDb(t) ==
    /\ at[t] = "undo.db"
    /\ \/ Succeeds(t, DropDatabase(name[t])) /\ UNCHANGED missed
       \/ Errs(t, DropDatabase(name[t])) /\ Missing(t, TRUE)
    /\ Goto(t, "undo.user")

UndoUser(t) ==
    /\ at[t] = "undo.user"
    /\ \/ Succeeds(t, DropUser(name[t])) /\ UNCHANGED missed
       \/ Errs(t, DropUser(name[t])) /\ Missing(t, TRUE)
    /\ Answer(t, "failed")

\* FLUSH PRIVILEGES changes nothing the account statements did not, and its
\* error is ignored.
CreateFlush(t) ==
    /\ at[t] = "create.flush"
    /\ Answer(t, "created")
    /\ UNCHANGED <<mariaVars, conn, missed>>

-----------------------------------------------------------------------------
\* DbAdmin::delete_database

DeleteReceived(t, n) == Receive(t, n, "delete.db")

\* Mutant: the error of DROP DATABASE is ignored like the one of DROP USER.
DeleteDbIgnored(t) ==
    /\ at[t] = "delete.db"
    /\ \/ Succeeds(t, DropDatabase(name[t])) /\ UNCHANGED missed
       \/ Errs(t, DropDatabase(name[t])) /\ Missing(t, TRUE)
    /\ Goto(t, "delete.user")

DeleteDb(t) ==
    /\ at[t] = "delete.db"
    /\ \/ Succeeds(t, DropDatabase(name[t])) /\ Goto(t, "delete.user") /\ UNCHANGED missed
       \/ Errs(t, DropDatabase(name[t])) /\ Answer(t, "failed") /\ Missing(t, TRUE)

DeleteUser(t) ==
    /\ at[t] = "delete.user"
    /\ \/ Succeeds(t, DropUser(name[t])) /\ UNCHANGED missed
       \/ Errs(t, DropUser(name[t])) /\ Missing(t, TRUE)
    /\ Goto(t, "delete.flush")

DeleteFlush(t) ==
    /\ at[t] = "delete.flush"
    /\ Answer(t, "deleted")
    /\ UNCHANGED <<mariaVars, conn, missed>>

-----------------------------------------------------------------------------

\* The owner of a database logs in and stores something.
Use(n) ==
    /\ data[n] = "empty" /\ Owner[n] \in users /\ n \in grants
    /\ data' = [data EXCEPT ![n] = "used"]
    /\ UNCHANGED <<users, grants, at, name, conn, outcome, missed>>

\* The daemon dies: its tasks and connections go, MariaDB keeps what it has.
Crash ==
    /\ \E t \in Tasks : at[t] # "idle"
    /\ missed' = missed \cup {name[t] : t \in {u \in Tasks : at[u] # "idle"}}
    /\ at' = [t \in Tasks |-> "idle"]
    /\ UNCHANGED <<mariaVars, name, conn, outcome>>

DatabaseStep(t) ==
    \/ CreateDb(t) \/ CreateUser(t) \/ CreateGrant(t) \/ UndoDb(t) \/ UndoUser(t)
    \/ CreateFlush(t)
    \/ DeleteDb(t) \/ DeleteUser(t) \/ DeleteFlush(t)

DatabaseNext ==
    \/ \E t \in Tasks, n \in Names : CreateReceived(t, n) \/ DeleteReceived(t, n)
    \/ \E t \in Tasks : DatabaseStep(t)
    \/ \E n \in Names : Use(n)
    \/ Crash

DatabaseSpec == DatabaseInit /\ [][DatabaseNext]_dbVars

-----------------------------------------------------------------------------
\* Properties

\* A database the panel was told is created is there, its user is there, and
\* the user may use it, until the next command on that name: neither lost
\* connections, nor a crash, nor commands on other names take it away.
CreatedIsUsable ==
    \A n \in Names : outcome[n] = "created" =>
        data[n] # "absent" /\ Owner[n] \in users /\ n \in grants

\* A create that failed strands nothing: unless the connection, the daemon or
\* a DROP of the compensation failed too, neither database nor user is left.
FailedStrandsNothing ==
    \A n \in Names : (outcome[n] = "failed" /\ n \notin missed) =>
        data[n] = "absent" /\ Owner[n] \notin users

\* A delete that was acked removed the database, and the user too unless the
\* DROP USER, whose error the code ignores, did not go through.
DeletedIsGone ==
    \A n \in Names : outcome[n] = "deleted" =>
        /\ data[n] = "absent"
        /\ n \notin missed => Owner[n] \notin users /\ n \notin grants

\* What the comment in create_database says of its compensation: it drops the
\* database "we just created".  Stored data is dropped by a delete only.
OnlyDeleteDropsData ==
    [][\A n \in Names : (data[n] = "used" /\ data'[n] # "used") =>
            \E t \in Tasks : at[t] = "delete.db" /\ name[t] = n]_dbVars
=============================================================================
