---------------------------- MODULE MigrationProofs ----------------------------
(***************************************************************************)
(* What the migration task guarantees, for any number of runs and files.   *)
(***************************************************************************)
EXTENDS Migration, TLAPS

(* What a run will not apply is a beginning of what was applied.           *)
SeenIsPrefix == \A j \in Jobs : \E n \in 0..Len(log) : seen[j] = 1..n

(* The file of an open transaction is the one the database needs next, and *)
(* no other run has it open.                                               *)
OpenIsNext ==
    /\ \A j \in Jobs : open[j] # 0 => open[j] = Len(log) + 1 /\ seen[j] = 1..Len(log)
    /\ \A j, k \in Jobs : open[j] # 0 /\ open[j] = open[k] => j = k

(* The run that made the role, and no other, has its password.             *)
CreatorHasPassword == \A j \in Jobs : password[j] <=> role = j

Past == {"read", "files", "commit", "default", "secret", "done"}

(* What a run has achieved at each of its steps.                           *)
Achieved ==
    \A j \in Jobs :
        /\ pc[j] \in Past => role # NULL
        /\ pc[j] \in {"default", "secret", "done"} => 1..image[j] \subseteq reachable
        /\ pc[j] = "done" /\ role = j /\ write[j] => secret = j

IInv ==
    /\ TypeOK
    /\ AppliedOnceInOrder
    /\ SeenIsPrefix
    /\ OpenIsNext
    /\ CreatorHasPassword
    /\ SecretMatchesRole
    /\ Achieved

-----------------------------------------------------------------------------
(* The invariant holds of an empty database.                               *)
LEMMA InitIInv == Init => IInv
<1> SUFFICES ASSUME Init PROVE IInv
  OBVIOUS
<1> USE MigrationAssumption DEF Init
<1>1. TypeOK
  <2>1. \A j \in Jobs : open[j] = 0 /\ pc[j] = "idle"
    OBVIOUS
  <2>2. log \in Seq(1..Files) /\ open \in [Jobs -> 0..Files] /\ image \in [Jobs -> 0..Files]
    OBVIOUS
  <2> QED BY <2>1, <2>2 DEF TypeOK, Steps
<1>2. AppliedOnceInOrder /\ OpenIsNext
  BY DEF AppliedOnceInOrder, OpenIsNext
<1>3. SeenIsPrefix
  <2> SUFFICES ASSUME NEW j \in Jobs PROVE \E n \in 0..Len(log) : seen[j] = 1..n
    BY DEF SeenIsPrefix
  <2> WITNESS 0 \in 0..Len(log)
  <2> QED OBVIOUS
<1>4. CreatorHasPassword /\ SecretMatchesRole /\ Achieved
  BY DEF CreatorHasPassword, SecretMatchesRole, Achieved, Past
<1> QED BY <1>1, <1>2, <1>3, <1>4 DEF IInv

(* A run that is about to apply a file, or finds it has none left, knows   *)
(* how far the database is.                                                *)
LEMMA NextFile ==
  ASSUME IInv, NEW j \in Jobs, NEW f \in Todo(j), IsNext(j, f), f \notin applied
  PROVE  f = Len(log) + 1 /\ seen[j] = 1..Len(log)
<1>1. PICK n \in 0..Len(log) : seen[j] = 1..n
  BY DEF IInv, SeenIsPrefix
<1>2. Len(log) \in Nat /\ image[j] \in Nat /\ f \in Nat
  BY MigrationAssumption DEF IInv, TypeOK, Todo
<1>3. f >= n + 1 /\ n + 1 \in Todo(j)
  BY <1>1, <1>2 DEF Todo
<1>4. f = n + 1
  BY <1>2, <1>3 DEF IsNext
<1>5. ~(n + 1 <= Len(log))
  BY <1>2, <1>4 DEF IInv, AppliedOnceInOrder
<1>6. n = Len(log)
  BY <1>2, <1>5
<1> QED BY <1>1, <1>4, <1>6

LEMMA SeenIsApplied == ASSUME IInv, NEW j \in Jobs PROVE seen[j] \subseteq applied
<1>1. PICK n \in 0..Len(log) : seen[j] = 1..n
  BY DEF IInv, SeenIsPrefix
<1> QED BY <1>1 DEF IInv, AppliedOnceInOrder, TypeOK

-----------------------------------------------------------------------------
(* Every step of a run keeps the invariant.                                *)
LEMMA StartInv == ASSUME IInv, NEW j \in Jobs, Start(j) PROVE IInv'
<1> USE MigrationAssumption DEF Start, IInv, Goto, database
<1>1. TypeOK'
  BY DEF TypeOK, Steps
<1>2. AppliedOnceInOrder' /\ SeenIsPrefix' /\ OpenIsNext' /\ SecretMatchesRole'
  BY DEF AppliedOnceInOrder, SeenIsPrefix, OpenIsNext, SecretMatchesRole
<1>3. CreatorHasPassword'
  BY DEF CreatorHasPassword
<1>4. Achieved'
  BY DEF Achieved, Past, TypeOK
<1> QED BY <1>1, <1>2, <1>3, <1>4

LEMMA CreateRoleInv == ASSUME IInv, NEW j \in Jobs, CreateRole(j) PROVE IInv'
<1> USE MigrationAssumption DEF CreateRole, IInv, Goto
<1>1. TypeOK'
  BY DEF TypeOK, Steps
<1>2. AppliedOnceInOrder' /\ SeenIsPrefix' /\ OpenIsNext' /\ SecretMatchesRole'
  BY DEF AppliedOnceInOrder, SeenIsPrefix, OpenIsNext, SecretMatchesRole
<1>3. CreatorHasPassword'
  BY DEF CreatorHasPassword, TypeOK
<1>4. Achieved'
  BY DEF Achieved, Past, TypeOK
<1> QED BY <1>1, <1>2, <1>3, <1>4

LEMMA ReadAppliedInv == ASSUME IInv, NEW j \in Jobs, ReadApplied(j) PROVE IInv'
<1> USE MigrationAssumption DEF ReadApplied, IInv, Goto, database
<1>1. TypeOK'
  BY DEF TypeOK, Steps
<1>2. AppliedOnceInOrder' /\ OpenIsNext' /\ SecretMatchesRole' /\ CreatorHasPassword'
  BY DEF AppliedOnceInOrder, OpenIsNext, SecretMatchesRole, CreatorHasPassword
<1>3. SeenIsPrefix'
  <2>1. Len(log) \in 0..Len(log) /\ seen'[j] = 1..Len(log)
    BY DEF TypeOK, AppliedOnceInOrder
  <2>2. \A k \in Jobs : k # j => seen'[k] = seen[k]
    BY DEF TypeOK
  <2> QED BY <2>1, <2>2 DEF SeenIsPrefix
<1>4. Achieved'
  BY DEF Achieved, Past, TypeOK
<1> QED BY <1>1, <1>2, <1>3, <1>4

LEMMA RunFileInv == ASSUME IInv, NEW j \in Jobs, RunFile(j) PROVE IInv'
<1> USE MigrationAssumption DEF Goto, database
<1>1. PICK f \in Todo(j) :
          /\ IsNext(j, f) /\ f \notin applied
          /\ \A k \in Jobs : open[k] # f
          /\ open' = [open EXCEPT ![j] = f]
  BY DEF RunFile
<1>2. f = Len(log) + 1 /\ seen[j] = 1..Len(log)
  BY <1>1, NextFile
<1>3. f \in 1..Files
  BY DEF Todo, IInv, TypeOK
<1>4. TypeOK'
  BY <1>1, <1>3 DEF RunFile, IInv, TypeOK, Steps
<1>5. AppliedOnceInOrder' /\ SeenIsPrefix' /\ SecretMatchesRole' /\ CreatorHasPassword'
  BY DEF RunFile, IInv, AppliedOnceInOrder, SeenIsPrefix, SecretMatchesRole, CreatorHasPassword
<1>6. OpenIsNext'
  BY <1>1, <1>2 DEF RunFile, IInv, TypeOK, OpenIsNext
<1>7. Achieved'
  BY DEF RunFile, IInv, Achieved, Past, TypeOK
<1> QED BY <1>4, <1>5, <1>6, <1>7 DEF IInv

LEMMA CommitInv == ASSUME IInv, NEW j \in Jobs, Commit(j) PROVE IInv'
<1> USE MigrationAssumption DEF Goto
<1> DEFINE f == open[j]
<1>1. f = Len(log) + 1 /\ f \in 1..Files /\ Len(log) \in Nat
  BY DEF Commit, IInv, TypeOK, OpenIsNext
<1>2. Len(log') = Len(log) + 1 /\ log' \in Seq(1..Files)
  BY <1>1 DEF Commit, IInv, TypeOK
<1>3. TypeOK'
  <2>1. applied' \subseteq 1..Files /\ reachable' \subseteq applied'
    BY <1>1 DEF Commit, IInv, TypeOK
  <2> QED BY <1>1, <1>2, <2>1 DEF Commit, IInv, TypeOK, Steps
<1>4. AppliedOnceInOrder'
  <2>1. applied' = 1..Len(log')
    BY <1>1, <1>2 DEF Commit, IInv, AppliedOnceInOrder
  <2>2. ASSUME NEW i \in DOMAIN log' PROVE log'[i] = i
    BY <1>1 DEF Commit, IInv, TypeOK, AppliedOnceInOrder
  <2> QED BY <2>1, <2>2 DEF AppliedOnceInOrder
<1>5. SeenIsPrefix'
  <2>1. seen'[j] = 1..Len(log')
    BY <1>1, <1>2 DEF Commit, IInv, TypeOK, OpenIsNext
  <2>2. Len(log') \in 0..Len(log')
    BY <1>1, <1>2
  <2>3. ASSUME NEW k \in Jobs, k # j PROVE \E n \in 0..Len(log') : seen'[k] = 1..n
    <3>1. PICK n \in 0..Len(log) : seen[k] = 1..n
      BY DEF IInv, SeenIsPrefix
    <3>2. seen'[k] = 1..n /\ n \in 0..Len(log')
      BY <1>1, <1>2, <2>3, <3>1 DEF Commit, IInv, TypeOK
    <3> QED BY <3>2
  <2> QED BY <2>1, <2>2, <2>3 DEF SeenIsPrefix
<1>6. OpenIsNext'
  BY <1>1 DEF Commit, IInv, TypeOK, OpenIsNext
<1>7. SecretMatchesRole' /\ CreatorHasPassword'
  BY DEF Commit, IInv, SecretMatchesRole, CreatorHasPassword
<1>8. Achieved'
  BY DEF Commit, IInv, Achieved, Past, TypeOK
<1> QED BY <1>3, <1>4, <1>5, <1>6, <1>7, <1>8 DEF IInv

LEMMA GrantTablesInv == ASSUME IInv, NEW j \in Jobs, GrantTables(j) PROVE IInv'
<1> USE MigrationAssumption DEF Goto
<1>1. 1..image[j] \subseteq applied
  BY SeenIsApplied DEF GrantTables, Todo
<1>2. TypeOK'
  BY DEF GrantTables, IInv, TypeOK, Steps
<1>3. AppliedOnceInOrder' /\ SeenIsPrefix' /\ OpenIsNext'
  BY DEF GrantTables, IInv, AppliedOnceInOrder, SeenIsPrefix, OpenIsNext
<1>4. SecretMatchesRole' /\ CreatorHasPassword'
  BY DEF GrantTables, IInv, SecretMatchesRole, CreatorHasPassword
<1>5. Achieved'
  <2> SUFFICES ASSUME NEW k \in Jobs
               PROVE  /\ pc'[k] \in Past => role' # NULL
                      /\ pc'[k] \in {"default", "secret", "done"} => 1..image'[k] \subseteq reachable'
                      /\ pc'[k] = "done" /\ role' = k /\ write'[k] => secret' = k
    BY DEF Achieved
  <2>1. reachable \subseteq reachable'
    BY DEF GrantTables, IInv, TypeOK
  <2>2. CASE k = j
    BY <1>1, <2>2 DEF GrantTables, IInv, Achieved, Past, TypeOK
  <2>3. CASE k # j
    BY <2>1, <2>3 DEF GrantTables, IInv, Achieved, Past, TypeOK
  <2> QED BY <2>2, <2>3
<1> QED BY <1>2, <1>3, <1>4, <1>5 DEF IInv

LEMMA AlterDefaultInv == ASSUME IInv, NEW j \in Jobs, AlterDefault(j) PROVE IInv'
<1> USE MigrationAssumption DEF AlterDefault, IInv, Goto
<1>1. TypeOK'
  BY DEF TypeOK, Steps
<1>2. AppliedOnceInOrder' /\ SeenIsPrefix' /\ OpenIsNext'
  BY DEF AppliedOnceInOrder, SeenIsPrefix, OpenIsNext
<1>3. SecretMatchesRole' /\ CreatorHasPassword'
  BY DEF SecretMatchesRole, CreatorHasPassword
<1>4. Achieved'
  BY DEF Achieved, Past, TypeOK
<1> QED BY <1>1, <1>2, <1>3, <1>4

(* The only run with a password is the one that made the role.             *)
LEMMA StoreSecretInv == ASSUME IInv, NEW j \in Jobs, StoreSecret(j) PROVE IInv'
<1> USE MigrationAssumption DEF StoreSecret, IInv, Goto
<1>1. TypeOK'
  BY DEF TypeOK, Steps
<1>2. AppliedOnceInOrder' /\ SeenIsPrefix' /\ OpenIsNext'
  BY DEF AppliedOnceInOrder, SeenIsPrefix, OpenIsNext
<1>3. SecretMatchesRole' /\ CreatorHasPassword'
  BY DEF SecretMatchesRole, CreatorHasPassword
<1>4. Achieved'
  BY DEF Achieved, Past, TypeOK, CreatorHasPassword
<1> QED BY <1>1, <1>2, <1>3, <1>4

LEMMA FailInv == ASSUME IInv, NEW j \in Jobs, Fail(j) PROVE IInv'
<1> USE MigrationAssumption DEF Fail, IInv, Goto, database
<1>1. TypeOK'
  BY DEF TypeOK, Steps
<1>2. AppliedOnceInOrder' /\ SeenIsPrefix' /\ SecretMatchesRole' /\ CreatorHasPassword'
  BY DEF AppliedOnceInOrder, SeenIsPrefix, SecretMatchesRole, CreatorHasPassword
<1>3. OpenIsNext'
  BY DEF OpenIsNext, TypeOK
<1>4. Achieved'
  BY DEF Achieved, Past, TypeOK
<1> QED BY <1>1, <1>2, <1>3, <1>4

LEMMA StepInv == IInv /\ [Next]_vars => IInv'
<1> SUFFICES ASSUME IInv, [Next]_vars PROVE IInv'
  OBVIOUS
<1>1. ASSUME NEW j \in Jobs, JobStep(j) PROVE IInv'
  BY <1>1, StartInv, CreateRoleInv, ReadAppliedInv, RunFileInv, CommitInv, GrantTablesInv,
     AlterDefaultInv, StoreSecretInv, FailInv DEF JobStep
<1>2. CASE UNCHANGED vars
  BY <1>2 DEF vars, database, IInv, TypeOK, AppliedOnceInOrder, SeenIsPrefix, OpenIsNext,
       CreatorHasPassword, SecretMatchesRole, Achieved
<1> QED BY <1>1, <1>2 DEF Next

-----------------------------------------------------------------------------
(* Results.                                                                *)

(* The inductive invariant holds in every state of the specification.      *)
THEOREM MigrationInvariant == Spec => []IInv
<1> QED BY InitIInv, StepInv, PTL DEF Spec

(* Every variable keeps its type, and a run has a file open only within    *)
(* its transaction (the BEGIN and ROLLBACK of main).                       *)
THEOREM MigrationTypeCorrect == Spec => []TypeOK
<1>1. IInv => TypeOK
  BY DEF IInv
<1> QED BY <1>1, MigrationInvariant, PTL

(* Each file takes effect once and in order, for any number of overlapping *)
(* and failing runs of any images, although main takes no lock.            *)
THEOREM MigrationsApplyOnce == Spec => []AppliedOnceInOrder
<1>1. IInv => AppliedOnceInOrder
  BY DEF IInv
<1> QED BY <1>1, MigrationInvariant, PTL

(* writeAppSecret never stores a password the role does not have.          *)
THEOREM SecretCorrect == Spec => []SecretMatchesRole
<1>1. IInv => SecretMatchesRole
  BY DEF IInv
<1> QED BY <1>1, MigrationInvariant, PTL

(* A run that reports "Migration complete." leaves its image applied, the  *)
(* tables usable by the role, and the secret written if it was to be.      *)
THEOREM CompletedRunIsReady == Spec => []DoneIsReady
<1>1. IInv => DoneIsReady
  BY DEF IInv, DoneIsReady, Achieved, Past
<1> QED BY <1>1, MigrationInvariant, PTL
=============================================================================
