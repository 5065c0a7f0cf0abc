--------------------------- MODULE DatabaseProofs ---------------------------
(* What create_database and delete_database promise, for any number of       *)
(* databases, users and command tasks, as long as commands on one name come  *)
(* one at a time.                                                            *)
(*                                                                           *)
(* The three properties speak of answers already given.  The inductive       *)
(* invariant adds what a task in the middle of a command may rely on         *)
(* (TaskInv), that no other task works on its name (OnePerName), and what is *)
(* left of a name nobody works on (NameInv).  A statement changes what       *)
(* belongs to the name of its own task only (StepIsLocal), so that each      *)
(* action is looked at for one name.                                         *)
EXTENDS Database, FiniteSetTheorems, TLAPS

OnePerName ==
    \A t, u \in Tasks : (at[t] # "idle" /\ at[u] # "idle" /\ name[t] = name[u]) => t = u

TaskInv(t) ==
    LET n == name[t] IN
    /\ at[t] # "idle" => outcome[n] = "none"
    /\ at[t] \in {"create.user", "create.grant", "create.flush"} => data[n] # "absent"
    /\ at[t] \in {"create.grant", "create.flush"} => Owner[n] \in users
    /\ at[t] = "create.flush" => n \in grants
    /\ at[t] \in {"delete.user", "delete.flush"} => data[n] = "absent"
    /\ (at[t] = "delete.flush" /\ n \notin missed) => Owner[n] \notin users /\ n \notin grants
    /\ (at[t] = "undo.user" /\ n \notin missed) => data[n] = "absent"
    /\ (at[t] = "create.db" /\ n \notin missed /\ ~Recreate) =>
            data[n] = "absent" /\ Owner[n] \notin users

Gone(n) == data[n] = "absent" /\ Owner[n] \notin users

NameInv(n) ==
    /\ outcome[n] = "created" => data[n] # "absent" /\ Owner[n] \in users /\ n \in grants
    /\ outcome[n] = "deleted" =>
            /\ data[n] = "absent"
            /\ n \notin missed => Owner[n] \notin users /\ n \notin grants
    /\ ( /\ ~Recreate /\ n \notin missed
         /\ \A t \in Tasks : at[t] # "idle" => name[t] # n
         /\ outcome[n] \in {"none", "failed"} ) => Gone(n)

DatabaseInv ==
    /\ DatabaseTypeOK
    /\ OnePerName
    /\ \A t \in Tasks : TaskInv(t)
    /\ \A n \in Names : NameInv(n)

USE OwnerAssumption, TasksAssumption, PerNameAssumption, RecreateAssumption

-----------------------------------------------------------------------------
\* Every step of a task keeps the types.
LEMMA StepTypeOK ==
    ASSUME DatabaseTypeOK, NEW t \in Tasks, DatabaseStep(t)
    PROVE  DatabaseTypeOK'
<1> USE DEF DatabaseTypeOK, Statements, Succeeds, Errs, Missing, Goto, Answer,
        MakeDatabase, MakeUser, Grant, DropDatabase, DropUser, mariaVars
<1>1. CASE CreateDb(t)     BY SMTT(30), <1>1 DEF CreateDb
<1>2. CASE CreateUser(t)   BY <1>2 DEF CreateUser
<1>3. CASE CreateGrant(t)  BY <1>3 DEF CreateGrant
<1>4. CASE UndoDb(t)       BY <1>4 DEF UndoDb
<1>5. CASE UndoUser(t)     BY <1>5 DEF UndoUser
<1>6. CASE CreateFlush(t)  BY <1>6 DEF CreateFlush
<1>7. CASE DeleteDb(t)     BY SMTT(30), <1>7 DEF DeleteDb
<1>8. CASE DeleteUser(t)   BY <1>8 DEF DeleteUser
<1>9. CASE DeleteFlush(t)  BY <1>9 DEF DeleteFlush
<1>10. QED BY <1>1, <1>2, <1>3, <1>4, <1>5, <1>6, <1>7, <1>8, <1>9 DEF DatabaseStep

Same(n) ==
    /\ data'[n] = data[n]
    /\ (Owner[n] \in users') <=> (Owner[n] \in users)
    /\ (n \in grants') <=> (n \in grants)
    /\ outcome'[n] = outcome[n]
    /\ (n \in missed') <=> (n \in missed)

\* A step of task t leaves alone what belongs to other names, and where the
\* other tasks are.
LEMMA StepIsLocal ==
    ASSUME DatabaseTypeOK, NEW t \in Tasks, DatabaseStep(t)
    PROVE  /\ name' = name
           /\ at[t] # "idle"
           /\ \A u \in Tasks \ {t} : at'[u] = at[u]
           /\ \A n \in Names \ {name[t]} : Same(n)
<1> USE DEF DatabaseTypeOK, Succeeds, Errs, Missing, Goto, Answer, Same,
        MakeDatabase, MakeUser, Grant, DropDatabase, DropUser, mariaVars
<1>1. CASE CreateDb(t)     BY <1>1 DEF CreateDb
<1>2. CASE CreateUser(t)   BY <1>2 DEF CreateUser
<1>3. CASE CreateGrant(t)  BY <1>3 DEF CreateGrant
<1>4. CASE UndoDb(t)       BY <1>4 DEF UndoDb
<1>5. CASE UndoUser(t)     BY <1>5 DEF UndoUser
<1>6. CASE CreateFlush(t)  BY <1>6 DEF CreateFlush
<1>7. CASE DeleteDb(t)     BY <1>7 DEF DeleteDb
<1>8. CASE DeleteUser(t)   BY <1>8 DEF DeleteUser
<1>9. CASE DeleteFlush(t)  BY ZenonT(30), <1>9 DEF DeleteFlush
<1>10. QED BY <1>1, <1>2, <1>3, <1>4, <1>5, <1>6, <1>7, <1>8, <1>9 DEF DatabaseStep

\* What a step of task t does to its own name: the invariant's conjuncts about
\* that name hold again.
LEMMA StepOwnName ==
    ASSUME DatabaseTypeOK, OnePerName, NEW t \in Tasks, DatabaseStep(t),
           TaskInv(t), NameInv(name[t])
    PROVE  TaskInv(t)' /\ NameInv(name[t])'
<1> DEFINE n == name[t]
<1>0. n \in Names /\ Owner[n] \in Users BY DEF DatabaseTypeOK
<1> USE DEF DatabaseTypeOK, Succeeds, Errs, Missing, Goto, Answer, TaskInv, NameInv, Gone,
        MakeDatabase, MakeUser, Grant, DropDatabase, DropUser, mariaVars
<1>1. CASE CreateDb(t)     BY <1>0, <1>1 DEF CreateDb
<1>2. CASE CreateUser(t)   BY <1>0, <1>2 DEF CreateUser
<1>3. CASE CreateGrant(t)  BY <1>0, <1>3 DEF CreateGrant
<1>4. CASE UndoDb(t)       BY <1>0, <1>4 DEF UndoDb
<1>5. CASE UndoUser(t)     BY <1>0, <1>5 DEF UndoUser
<1>6. CASE CreateFlush(t)  BY <1>0, <1>6 DEF CreateFlush
<1>7. CASE DeleteDb(t)     BY <1>0, <1>7 DEF DeleteDb
<1>8. CASE DeleteUser(t)   BY <1>0, <1>8 DEF DeleteUser
<1>9. CASE DeleteFlush(t)  BY <1>0, <1>9 DEF DeleteFlush
<1>10. QED BY <1>1, <1>2, <1>3, <1>4, <1>5, <1>6, <1>7, <1>8, <1>9 DEF DatabaseStep

\* A statement keeps the invariant.
LEMMA StepInv ==
    ASSUME DatabaseInv, NEW t \in Tasks, DatabaseStep(t)
    PROVE  DatabaseInv'
<1> USE DEF DatabaseInv
<1>1. DatabaseTypeOK' BY StepTypeOK
<1>2. /\ name' = name
      /\ at[t] # "idle"
      /\ \A u \in Tasks \ {t} : at'[u] = at[u]
      /\ \A n \in Names \ {name[t]} : Same(n)
  BY StepIsLocal
<1>3. name[t] \in Names BY DEF DatabaseTypeOK
<1>4. TaskInv(t)' /\ NameInv(name[t])' BY <1>3, StepOwnName
<1>5. OnePerName' BY <1>2 DEF OnePerName
<1>6. ASSUME NEW u \in Tasks PROVE TaskInv(u)'
  <2>1. CASE u = t BY <1>4, <2>1
  <2>2. CASE u # t /\ at[u] = "idle"
    BY <1>2, <2>2 DEF TaskInv
  <2>3. CASE u # t /\ at[u] # "idle"
    <3>1. name[u] \in Names \ {name[t]}
      BY <1>2, <2>3 DEF OnePerName, DatabaseTypeOK
    <3>2. Same(name[u]) /\ at'[u] = at[u] BY <1>2, <2>3, <3>1
    <3> QED BY <1>2, <3>2 DEF TaskInv, Same
  <2> QED BY <2>1, <2>2, <2>3
<1>7. ASSUME NEW n \in Names PROVE NameInv(n)'
  <2>1. CASE n = name[t] BY <1>2, <1>4, <2>1 DEF NameInv, Gone
  <2>2. CASE n # name[t]
    <3>1. Same(n) BY <1>2, <2>2
    <3>2. (\A u \in Tasks : at'[u] # "idle" => name'[u] # n)
            => \A u \in Tasks : at[u] # "idle" => name[u] # n
      BY <1>2, <2>2
    <3> QED BY <3>1, <3>2 DEF NameInv, Gone, Same
  <2> QED BY <2>1, <2>2
<1> QED BY <1>1, <1>5, <1>6, <1>7

\* The arrival of a command keeps the invariant: nobody else works on its name.
LEMMA ReceiveInv ==
    ASSUME DatabaseInv, PerName = 1, NEW t \in Tasks, NEW n \in Names,
           CreateReceived(t, n) \/ DeleteReceived(t, n)
    PROVE  DatabaseInv'
<1> PICK first \in {"create.db", "delete.db"} :
        /\ Receive(t, n, first)
        /\ first = "create.db" => Recreate \/ outcome[n] # "created"
  BY DEF CreateReceived, DeleteReceived
<1>1. \A u \in Tasks : at[u] # "idle" => name[u] # n
  <2>1. IsFiniteSet(Busy(n)) BY FS_Subset DEF Busy
  <2>2. Cardinality(Busy(n)) = 0 BY <2>1, FS_CardinalityType DEF Receive
  <2>3. Busy(n) = {} BY <2>1, <2>2, FS_EmptySet
  <2> QED BY <2>3 DEF Busy
<1>2. DatabaseTypeOK'
  BY DEF DatabaseInv, DatabaseTypeOK, Receive, mariaVars, Statements
<1>3. OnePerName'
  BY <1>1 DEF DatabaseInv, DatabaseTypeOK, OnePerName, Receive
<1>4. ASSUME NEW u \in Tasks PROVE TaskInv(u)'
  <2>1. CASE u = t
    <3>1. (n \notin missed /\ ~Recreate /\ first = "create.db") => Gone(n)
      BY <1>1 DEF DatabaseInv, NameInv, Gone, DatabaseTypeOK
    <3> QED BY <2>1, <3>1 DEF DatabaseInv, DatabaseTypeOK, Receive, TaskInv, Gone, mariaVars
  <2>2. CASE u # t
    BY <1>1, <2>2 DEF DatabaseInv, DatabaseTypeOK, Receive, TaskInv, mariaVars
  <2> QED BY <2>1, <2>2
<1>5. ASSUME NEW m \in Names PROVE NameInv(m)'
  <2>1. CASE m = n
    BY <2>1 DEF DatabaseInv, DatabaseTypeOK, Receive, NameInv, mariaVars
  <2>2. CASE m # n
    BY <2>2 DEF DatabaseInv, DatabaseTypeOK, Receive, NameInv, Gone, mariaVars
  <2> QED BY <2>1, <2>2
<1> QED BY <1>2, <1>3, <1>4, <1>5 DEF DatabaseInv

\* Storing something in a database keeps the invariant.
LEMMA UseInv ==
    ASSUME DatabaseInv, NEW n \in Names, Use(n)
    PROVE  DatabaseInv'
<1> USE DEF Use
<1>1. DatabaseTypeOK' BY DEF DatabaseInv, DatabaseTypeOK
<1>2. \A m \in Names : (data'[m] = "absent") <=> (data[m] = "absent")
  BY DEF DatabaseInv, DatabaseTypeOK
<1>3. OnePerName' BY DEF DatabaseInv, OnePerName
<1>4. \A t \in Tasks : TaskInv(t)'
  BY <1>2 DEF DatabaseInv, DatabaseTypeOK, TaskInv
<1>5. \A m \in Names : NameInv(m)'
  BY <1>2 DEF DatabaseInv, NameInv, Gone
<1> QED BY <1>1, <1>3, <1>4, <1>5 DEF DatabaseInv

\* The death of the daemon keeps the invariant.
LEMMA CrashInv ==
    ASSUME DatabaseInv, Crash
    PROVE  DatabaseInv'
<1> USE DEF Crash, mariaVars
<1>1. DatabaseTypeOK' BY DEF DatabaseInv, DatabaseTypeOK
<1>2. OnePerName' BY DEF OnePerName
<1>3. \A t \in Tasks : TaskInv(t)' BY DEF TaskInv
<1>4. ASSUME NEW n \in Names PROVE NameInv(n)'
  <2>1. n \notin missed' =>
            n \notin missed /\ \A t \in Tasks : at[t] # "idle" => name[t] # n
    OBVIOUS
  <2> QED BY <2>1 DEF DatabaseInv, NameInv, Gone
<1> QED BY <1>1, <1>2, <1>3, <1>4 DEF DatabaseInv

-----------------------------------------------------------------------------
\* The invariant holds at the start and is kept by every step, when commands on
\* one name come one at a time.
THEOREM DatabaseInvariant == PerName = 1 /\ DatabaseSpec => []DatabaseInv
<1> SUFFICES ASSUME PerName = 1 PROVE DatabaseSpec => []DatabaseInv
  OBVIOUS
<1>1. DatabaseInit => DatabaseInv
  BY DEF DatabaseInit, DatabaseInv, DatabaseTypeOK, OnePerName, TaskInv, NameInv, Gone
<1>2. DatabaseInv /\ [DatabaseNext]_dbVars => DatabaseInv'
  <2> SUFFICES ASSUME DatabaseInv, [DatabaseNext]_dbVars PROVE DatabaseInv'
    OBVIOUS
  <2>1. CASE \E t \in Tasks, n \in Names : CreateReceived(t, n) \/ DeleteReceived(t, n)
    BY <2>1, ReceiveInv
  <2>2. CASE \E t \in Tasks : DatabaseStep(t) BY <2>2, StepInv
  <2>3. CASE \E n \in Names : Use(n) BY <2>3, UseInv
  <2>4. CASE Crash BY ZenonT(30), <2>4, CrashInv
  <2>5. CASE UNCHANGED dbVars
    BY <2>5 DEF dbVars, DatabaseInv, DatabaseTypeOK, OnePerName, TaskInv, NameInv, Gone
  <2> QED BY <2>1, <2>2, <2>3, <2>4, <2>5 DEF DatabaseNext
<1> QED BY <1>1, <1>2, PTL DEF DatabaseSpec

\* A database that was acked as created is usable by its user until the next
\* command on its name (create_database), through lost connections, refused
\* statements and crashes.
THEOREM CreatesAreTrue == PerName = 1 /\ DatabaseSpec => []CreatedIsUsable
<1>1. DatabaseInv => CreatedIsUsable
  BY DEF DatabaseInv, NameInv, CreatedIsUsable
<1> QED BY <1>1, DatabaseInvariant, PTL

\* A database that was acked as deleted is gone, and its user and grants too
\* unless the DROP USER whose error delete_database ignores did not go through.
THEOREM DeletesAreTrue == PerName = 1 /\ DatabaseSpec => []DeletedIsGone
<1>1. DatabaseInv => DeletedIsGone
  BY DEF DatabaseInv, NameInv, DeletedIsGone
<1> QED BY <1>1, DatabaseInvariant, PTL

\* The compensation of create_database strands nothing, when the panel never
\* creates a database it already has.
THEOREM CompensationIsComplete ==
    PerName = 1 /\ ~Recreate /\ DatabaseSpec => []FailedStrandsNothing
<1> SUFFICES ASSUME PerName = 1, ~Recreate PROVE DatabaseSpec => []FailedStrandsNothing
  OBVIOUS
<1>1. DatabaseInv => FailedStrandsNothing
  <2> SUFFICES ASSUME DatabaseInv, NEW n \in Names, outcome[n] = "failed", n \notin missed
               PROVE  Gone(n)
    BY DEF FailedStrandsNothing, Gone
  <2>1. \A t \in Tasks : at[t] # "idle" => name[t] # n
    BY DEF DatabaseInv, TaskInv
  <2> QED BY <2>1 DEF DatabaseInv, NameInv
<1> QED BY <1>1, DatabaseInvariant, PTL
=============================================================================
