--------------------------- MODULE MailboxProofs ---------------------------
(***************************************************************************)
(* Theorems about the mailboxes of a node: the registry (MailboxService),  *)
(* for every set of keys, every number of handlers and every limit, the    *)
(* messages of a key (MailboxStore), for every set of messages, their      *)
(* sizes, and any number of handlers, clients, registrations and restarts, *)
(* and their user (MailboxClient), for every set of servers and messages   *)
(* and any number of calls.                                                *)
(***************************************************************************)
EXTENDS MailboxService, MailboxStore, MailboxClient, FiniteSetTheorems,
        WellFoundedInduction, TLAPS

-----------------------------------------------------------------------------
(* The strengthening of AnswersAreDurable and PromisedAreServed.           *)

(* Whoever saves or loads has the database open, and nobody else has.      *)
LockInv ==
    /\ \A w \in Worker : pc[w] = "saving" <=> dbLock = w
    /\ pc[Main] \in {"importing", "loading", "loadInsert"} <=> dbLock = Main

(* A goroutine has a task exactly while it is handling one.                *)
TaskInv ==
    /\ \A w \in Worker :
          /\ pc[w] = "idle" <=> task[w] = None
          /\ task[w] # None => task[w].op # "load"
          /\ pc[w] \in {"lookup", "insert"} => task[w].op = "create"
          /\ pc[w] = "delete" => task[w].op = "release"
    /\ pc[Main] = "loadInsert" <=> task[Main] # None

(* Of two requests in progress for a key neither is alone.                 *)
AloneInv ==
    \A v, w \in Worker :
        v # w /\ task[v] # None /\ task[w] # None /\ task[v].user = task[w].user
            => ~task[v].alone /\ ~task[w].alone

(* What a request that is alone has achieved so far.                       *)
ProgressInv ==
    \A w \in Worker : task[w] # None =>
        LET u == task[w].user IN
        /\ pc[w] = "insert" => promise[u] # "released"
        /\ pc[w] = "delete" => promise[u] # "created"
        /\ pc[w] \in {"saveOpen", "saving"} /\ task[w].alone =>
              /\ task[w].op = "create" => u \in userList \/ pc[Main] = "releasing"
              /\ task[w].op = "release" => u \notin userList
              /\ pc[w] = "saving" /\ u \notin todo[w] /\ u \in userList => db[u] = "1"
              /\ pc[w] = "saving" /\ u \notin todo[w] /\ task[w].op = "release"
                    => db[u] # "1"

(* A load that is under way still has every promised key before it.        *)
LoadInv ==
    /\ pc[Main] \in {"importing", "loading", "loadInsert"} => legacy = {}
    /\ pc[Main] \in {"loading", "loadInsert"} =>
          \A u \in User \ forfeited :
              promise[u] = "created" =>
                  \/ u \in userList
                  \/ u \in todo[Main]
                  \/ pc[Main] = "loadInsert" /\ task[Main].user = u

(* A key whose release was answered stays out of the list.                 *)
ReleasedAreOut ==
    \A u \in User \ forfeited : promise[u] = "released" => u \notin userList

Registry ==
    /\ LockInv
    /\ AloneInv
    /\ ProgressInv
    /\ LoadInv
    /\ ReleasedAreOut
    /\ AnswersAreDurable
    /\ PromisedAreServed

IInv == TypeOK /\ TaskInv /\ Registry
-----------------------------------------------------------------------------
(* Types, and the task of each goroutine.                                  *)

Typed == TypeOK /\ TaskInv

LEMMA TaskFields ==
    /\ None \notin Task
    /\ \A t \in Task :
          /\ t.op \in {"create", "release", "load"}
          /\ t.user \in User
          /\ t.alone \in BOOLEAN
          /\ LET s == [t EXCEPT !.alone = FALSE] IN
             s \in Task /\ s.op = t.op /\ s.user = t.user /\ s.alone = FALSE
BY ServiceAssumption DEF Task

LEMMA NewTaskFields ==
    ASSUME NEW what \in {"create", "release", "load"}, NEW u \in User,
           NEW b \in BOOLEAN
    PROVE  LET t == NewTask(what, u, b) IN
           /\ t \in Task
           /\ t # None
           /\ t.op = what
           /\ t.user = u
           /\ t.alone = b
BY ServiceAssumption DEF Task, NewTask

LEMMA TaskUser ==
    ASSUME Typed, NEW p \in Proc, task[p] # None
    PROVE  task[p] \in Task /\ task[p].user \in User
<1>1. task[p] \in Task
  BY DEF Typed, TypeOK
<1>2. QED
  BY <1>1, TaskFields

(* A worker that is not idle, and a Main that is about to insert, have a   *)
(* task.                                                                   *)
LEMMA Busy ==
    ASSUME Typed
    PROVE  /\ \A w \in Worker : pc[w] # "idle" => task[w] # None /\ task[w].user \in User
           /\ pc[Main] = "loadInsert" => task[Main] # None /\ task[Main].user \in User
<1>1. \A w \in Worker : pc[w] # "idle" => task[w] # None
  BY DEF Typed, TaskInv
<1>2. pc[Main] = "loadInsert" => task[Main] # None
  BY DEF Typed, TaskInv
<1>3. QED
  BY <1>1, <1>2, TaskUser DEF Proc

(* What Contest does to the tasks: p has the new one, every other          *)
(* goroutine keeps its own, and those for the same key are not alone.      *)
LEMMA ContestEffect ==
    ASSUME TypeOK, NEW p \in Proc, NEW t \in Task \cup {None}, NEW u \in User,
           Contest(p, t, u)
    PROVE  /\ task' \in [Proc -> Task \cup {None}]
           /\ task'[p] = t
           /\ \A q \in Proc \ {p} :
                 /\ task'[q] = None <=> task[q] = None
                 /\ task[q] # None =>
                       /\ task'[q].op = task[q].op
                       /\ task'[q].user = task[q].user
                       /\ task'[q].alone => task[q].alone
                       /\ q \in Worker /\ task[q].user = u => ~task'[q].alone
<1> DEFINE T(q) == IF q = p THEN t
                   ELSE IF q \in Rivals(p, u) THEN [task[q] EXCEPT !.alone = FALSE]
                   ELSE task[q]
<1>1. task' = [q \in Proc |-> T(q)]
  BY DEF Contest
<1>2. task \in [Proc -> Task \cup {None}]
  BY DEF TypeOK
<1>3. \A q \in Proc : T(q) \in Task \cup {None}
  <2> TAKE q \in Proc
  <2>1. CASE q \in Rivals(p, u)
    BY <2>1, <1>2, TaskFields DEF Rivals
  <2>2. CASE q \notin Rivals(p, u)
    BY <2>2, <1>2
  <2>3. QED
    BY <2>1, <2>2
<1>4. ASSUME NEW q \in Proc \ {p}
      PROVE  /\ T(q) = None <=> task[q] = None
             /\ task[q] # None =>
                   /\ T(q).op = task[q].op
                   /\ T(q).user = task[q].user
                   /\ T(q).alone => task[q].alone
                   /\ q \in Worker /\ task[q].user = u => ~T(q).alone
  <2>1. CASE q \in Rivals(p, u)
    BY <2>1, <1>2, TaskFields DEF Rivals
  <2>2. CASE q \notin Rivals(p, u)
    BY <2>2, <1>2 DEF Rivals
  <2>3. QED
    BY <2>1, <2>2
<1>5. T(p) = t
  OBVIOUS
<1> HIDE DEF T
<1>6. QED
  BY <1>1, <1>3, <1>4, <1>5

(* The same for a request that begins.                                     *)
LEMMA BeginEffect ==
    ASSUME TypeOK, NEW w \in Worker, NEW what \in {"create", "release"},
           NEW u \in User, Begin(w, what, u)
    PROVE  /\ task' \in [Proc -> Task \cup {None}]
           /\ task'[w] # None
           /\ task'[w].op = what
           /\ task'[w].user = u
           /\ task'[w].alone => Rivals(w, u) = {}
           /\ \A q \in Proc \ {w} :
                 /\ task'[q] = None <=> task[q] = None
                 /\ task[q] # None =>
                       /\ task'[q].op = task[q].op
                       /\ task'[q].user = task[q].user
                       /\ task'[q].alone => task[q].alone
                       /\ q \in Worker /\ task[q].user = u => ~task'[q].alone
<1> DEFINE b == (Rivals(w, u) = {})
<1>1. b \in BOOLEAN
  OBVIOUS
<1>2. Contest(w, NewTask(what, u, b), u)
  BY DEF Begin
<1> HIDE DEF b
<1>3. /\ NewTask(what, u, b) \in Task
      /\ NewTask(what, u, b) # None
      /\ NewTask(what, u, b).op = what
      /\ NewTask(what, u, b).user = u
      /\ NewTask(what, u, b).alone = b
  BY <1>1, NewTaskFields
<1>4. /\ task' \in [Proc -> Task \cup {None}]
      /\ task'[w] = NewTask(what, u, b)
      /\ \A q \in Proc \ {w} :
            /\ task'[q] = None <=> task[q] = None
            /\ task[q] # None =>
                  /\ task'[q].op = task[q].op
                  /\ task'[q].user = task[q].user
                  /\ task'[q].alone => task[q].alone
                  /\ q \in Worker /\ task[q].user = u => ~task'[q].alone
  <2>1. w \in Proc
    BY DEF Proc
  <2>2. NewTask(what, u, b) \in Task \cup {None}
    BY <1>3
  <2>3. QED
    BY <1>2, <2>1, <2>2, ContestEffect
<1>5. task'[w].alone => Rivals(w, u) = {}
  <2>1. task'[w].alone = b
    BY <1>3, <1>4
  <2>2. QED
    BY <2>1, Zenon DEF b
<1>6. QED
  BY <1>3, <1>4, <1>5

(* The task of a load that is about to insert a key.                       *)
LEMMA LoadAbsentEffect ==
    ASSUME NEW u \in User, LoadAbsent(u)
    PROVE  \E t \in Task : /\ t # None
                           /\ t.op = "load"
                           /\ t.user = u
                           /\ task' = [task EXCEPT ![Main] = t]
<1>1. NewTask("load", u, TRUE) \in Task
  BY NewTaskFields
<1>2. /\ NewTask("load", u, TRUE) # None
      /\ NewTask("load", u, TRUE).op = "load"
      /\ NewTask("load", u, TRUE).user = u
  BY NewTaskFields
<1>3. task' = [task EXCEPT ![Main] = NewTask("load", u, TRUE)]
  BY Zenon DEF LoadAbsent
<1>4. QED
  BY <1>1, <1>2, <1>3, Zenon

LEMMA TypedInit == Init => Typed
<1> SUFFICES ASSUME Init PROVE Typed
  OBVIOUS
<1>1. TypeOK
  BY ServiceAssumption
  DEF Init, TypeOK, Proc, Entry, Promise, WorkerPC, MainPC
<1>2. TaskInv
  BY ServiceAssumption DEF Init, TaskInv, Proc
<1>3. QED
  BY <1>1, <1>2 DEF Typed

LEMMA TypedStep == Typed /\ [Next]_vars => Typed'
<1> SUFFICES ASSUME Typed, [Next]_vars PROVE Typed'
  OBVIOUS
<1> USE ServiceAssumption
    DEF Typed, TypeOK, TaskInv, Proc, Entry, Promise, WorkerPC, MainPC
<1>1. ASSUME NEW w \in Worker, NEW u \in User, CreateAdmit(w, u) PROVE Typed'
  <2>1. Begin(w, "create", u)
    BY <1>1 DEF CreateAdmit
  <2>2. QED
    BY <1>1, <2>1, BeginEffect DEF CreateAdmit, Goto, disk, ghost
<1>2. ASSUME NEW w \in Worker, CreateExists(w) PROVE Typed'
  BY <1>2 DEF CreateExists, Goto, disk, ghost
<1>3. ASSUME NEW w \in Worker, CreateAbsent(w) PROVE Typed'
  BY <1>3 DEF CreateAbsent, Goto, disk, ghost
<1>4. ASSUME NEW w \in Worker, CreateError(w) PROVE Typed'
  BY <1>4 DEF CreateError, Goto, disk, ghost
<1>5. ASSUME NEW w \in Worker, CreateInsert(w) PROVE Typed'
  BY <1>5, Busy DEF CreateInsert, Goto, disk, ghost
<1>6. ASSUME NEW w \in Worker, NEW u \in User, ReleaseLookup(w, u) PROVE Typed'
  <2>1. Begin(w, "release", u)
    BY <1>6 DEF ReleaseLookup
  <2>2. QED
    BY <1>6, <2>1, BeginEffect DEF ReleaseLookup, Goto, disk, ghost
<1>7. ASSUME NEW w \in Worker, ReleaseDelete(w) PROVE Typed'
  BY <1>7 DEF ReleaseDelete, Goto, disk, ghost
<1>8. ASSUME NEW w \in Worker, SaveOpen(w) PROVE Typed'
  BY <1>8 DEF SaveOpen, Goto, disk, ghost
<1>9. ASSUME NEW w \in Worker, SaveSkip(w) PROVE Typed'
  BY <1>9, Busy DEF SaveSkip, Goto, disk, ghost, Reply, Settled
<1>10. ASSUME NEW w \in Worker, NEW u \in User, SaveEntry(w, u) PROVE Typed'
  BY <1>10 DEF SaveEntry, Goto, disk, ghost, Recorded, ListAgrees, Steady
<1>11. ASSUME NEW w \in Worker, SaveClose(w) PROVE Typed'
  BY <1>11 DEF SaveClose, Goto, disk, ghost, Reply, Settled
<1>12. CASE LoadOpen
  BY <1>12 DEF LoadOpen, Goto, disk, ghost
<1>13. CASE LoadSkip
  BY <1>13 DEF LoadSkip, Goto, disk, ghost
<1>14. ASSUME NEW u \in User, ImportEntry(u) PROVE Typed'
  BY <1>14 DEF ImportEntry, Goto, disk, ghost
<1>15. CASE ImportDone
  BY <1>15 DEF ImportDone, Goto, disk, ghost
<1>16. ASSUME NEW u \in User, LoadPresent(u) PROVE Typed'
  BY <1>16 DEF LoadPresent, Goto, disk, ghost
<1>17. ASSUME NEW u \in User, LoadAbsent(u) PROVE Typed'
  <2>1. PICK t \in Task : /\ t # None
                          /\ t.op = "load"
                          /\ t.user = u
                          /\ task' = [task EXCEPT ![Main] = t]
    BY <1>17, LoadAbsentEffect
  <2>2. pc[Main] = "loading" /\ u \in todo[Main] /\ u \notin userList
    BY <1>17 DEF LoadAbsent
  <2>3. /\ todo' = [todo EXCEPT ![Main] = @ \ {u}]
        /\ pc' = [pc EXCEPT ![Main] = "loadInsert"]
        /\ UNCHANGED <<enable, userList, db, legacy, dbLock, promise,
                       forfeited, restored>>
    BY <1>17 DEF LoadAbsent, Goto, disk, ghost
  <2>4. QED
    BY <2>1, <2>2, <2>3
<1>18. CASE LoadInsert
  <2>0. pc[Main] = "loadInsert"
    BY <1>18 DEF LoadInsert
  <2>1. task[Main].user \in User
    BY <2>0, Busy
  <2>2. Contest(Main, None, task[Main].user)
    BY <1>18, Zenon DEF LoadInsert
  <2>3. QED
    BY <1>18, <2>1, <2>2, ContestEffect, TaskFields
    DEF LoadInsert, Goto, disk, ghost
<1>19. CASE LoadError
  BY <1>19, Busy DEF LoadError, Goto, disk, ghost
<1>20. CASE LoadClose
  BY <1>20 DEF LoadClose, Goto, disk, ghost
<1>21. CASE Start
  BY <1>21 DEF Start, Goto, disk, ghost
<1>22. CASE Stop
  BY <1>22 DEF Stop, Goto, disk, ghost, Steady
<1>23. CASE Release
  BY <1>23 DEF Release, Goto, disk, ghost, Steady
<1>24. ASSUME NEW u \in User, ReleaseOne(u) PROVE Typed'
  BY <1>24 DEF ReleaseOne, Goto, disk, ghost
<1>25. CASE Crash
  <2>1. TypeOK'
    <3>1. /\ pc' \in [Proc -> WorkerPC \cup MainPC]
          /\ \A w \in Worker : pc'[w] \in WorkerPC
          /\ pc'[Main] \in MainPC
      BY <1>25 DEF Crash
    <3>2. /\ task' \in [Proc -> Task \cup {None}]
          /\ todo' \in [Proc -> SUBSET User]
      BY <1>25 DEF Crash
    <3>3. forfeited' \in SUBSET User
      BY <1>25 DEF Crash
    <3>4. /\ enable' \in BOOLEAN
          /\ userList' \in SUBSET User
          /\ db' \in [User -> Entry]
          /\ legacy' \in SUBSET User
          /\ dbLock' \in Proc \cup {None}
          /\ promise' \in [User -> Promise]
          /\ restored' \in SUBSET User
      BY <1>25 DEF Crash, disk
    <3>5. QED
      BY <3>1, <3>2, <3>3, <3>4
  <2>2. TaskInv'
    BY <1>25 DEF Crash
  <2>3. QED
    BY <2>1, <2>2
<1>26. CASE UNCHANGED vars
  BY <1>26 DEF vars, ghost, disk
<1>27. QED
  BY <1>1, <1>2, <1>3, <1>4, <1>5, <1>6, <1>7, <1>8, <1>9,
     <1>10, <1>11, <1>12, <1>13, <1>14, <1>15, <1>16, <1>17, <1>18,
     <1>19, <1>20, <1>21, <1>22, <1>23, <1>24, <1>25, <1>26
  DEF Next, Create, ReleaseMailbox, Save, Load, Service


LEMMA RegistryStep ==
    ASSUME IInv, Typed', [Next]_vars
    PROVE  Registry'
<1> USE ServiceAssumption, Busy
    DEF IInv, Registry, Typed, TypeOK, TaskInv, LockInv, AloneInv, ProgressInv,
        LoadInv, ReleasedAreOut, AnswersAreDurable, PromisedAreServed, ToImport,
        Rivals, Proc, Entry, Promise, WorkerPC, MainPC, Goto, Steady, disk, ghost
<1>1. ASSUME NEW w \in Worker, NEW u \in User, CreateAdmit(w, u) PROVE Registry'
  <2>1. Begin(w, "create", u)
    BY <1>1 DEF CreateAdmit
  <2>2. QED
    BY <1>1, <2>1, BeginEffect DEF CreateAdmit
<1>2. ASSUME NEW w \in Worker, CreateExists(w) PROVE Registry'
  BY <1>2 DEF CreateExists
<1>3. ASSUME NEW w \in Worker, CreateAbsent(w) PROVE Registry'
  BY <1>3 DEF CreateAbsent
<1>4. ASSUME NEW w \in Worker, CreateError(w) PROVE Registry'
  BY <1>4 DEF CreateError
<1>5. ASSUME NEW w \in Worker, CreateInsert(w) PROVE Registry'
  BY <1>5 DEF CreateInsert
<1>6. ASSUME NEW w \in Worker, NEW u \in User, ReleaseLookup(w, u) PROVE Registry'
  <2>1. Begin(w, "release", u)
    BY <1>6 DEF ReleaseLookup
  <2>2. QED
    BY <1>6, <2>1, BeginEffect DEF ReleaseLookup
<1>7. ASSUME NEW w \in Worker, ReleaseDelete(w) PROVE Registry'
  BY <1>7 DEF ReleaseDelete
<1>8. ASSUME NEW w \in Worker, SaveOpen(w) PROVE Registry'
  BY <1>8 DEF SaveOpen
<1>9. ASSUME NEW w \in Worker, SaveSkip(w) PROVE Registry'
  BY <1>9 DEF SaveSkip, Reply, Settled
<1>10. ASSUME NEW w \in Worker, NEW u \in User, SaveEntry(w, u) PROVE Registry'
  BY <1>10 DEF SaveEntry, Recorded, ListAgrees
<1>11. ASSUME NEW w \in Worker, SaveClose(w) PROVE Registry'
  BY <1>11 DEF SaveClose, Reply, Settled
<1>12. CASE LoadOpen
  BY <1>12 DEF LoadOpen
<1>13. CASE LoadSkip
  BY <1>13 DEF LoadSkip
<1>14. ASSUME NEW u \in User, ImportEntry(u) PROVE Registry'
  BY <1>14 DEF ImportEntry
<1>15. CASE ImportDone
  BY <1>15 DEF ImportDone
<1>16. ASSUME NEW u \in User, LoadPresent(u) PROVE Registry'
  BY <1>16 DEF LoadPresent
<1>17. ASSUME NEW u \in User, LoadAbsent(u) PROVE Registry'
  <2>1. PICK t \in Task : /\ t # None
                          /\ t.op = "load"
                          /\ t.user = u
                          /\ task' = [task EXCEPT ![Main] = t]
    BY <1>17, LoadAbsentEffect
  <2>2. pc[Main] = "loading" /\ u \in todo[Main] /\ u \notin userList
    BY <1>17 DEF LoadAbsent
  <2>3. /\ todo' = [todo EXCEPT ![Main] = @ \ {u}]
        /\ pc' = [pc EXCEPT ![Main] = "loadInsert"]
        /\ UNCHANGED <<enable, userList, db, legacy, dbLock, promise,
                       forfeited, restored>>
    BY <1>17 DEF LoadAbsent
  <2>4. QED
    BY <2>1, <2>2, <2>3
<1>18. CASE LoadInsert
  <2>1. pc[Main] = "loadInsert"
    BY <1>18 DEF LoadInsert
  <2>2. task[Main].user \in User
    BY <2>1, Busy
  <2>3. Contest(Main, None, task[Main].user)
    BY <1>18, Zenon DEF LoadInsert
  <2>4. QED
    BY <1>18, <2>2, <2>3, ContestEffect, TaskFields DEF LoadInsert
<1>19. CASE LoadError
  BY <1>19 DEF LoadError
<1>20. CASE LoadClose
  BY <1>20 DEF LoadClose
<1>21. CASE Start
  BY <1>21 DEF Start
<1>22. CASE Stop
  BY <1>22 DEF Stop
<1>23. CASE Release
  BY <1>23 DEF Release
<1>24. ASSUME NEW u \in User, ReleaseOne(u) PROVE Registry'
  BY <1>24 DEF ReleaseOne
<1>25. CASE Crash
  BY <1>25 DEF Crash
<1>26. CASE UNCHANGED vars
  BY <1>26 DEF vars
<1>27. QED
  BY <1>1, <1>2, <1>3, <1>4, <1>5, <1>6, <1>7, <1>8, <1>9,
     <1>10, <1>11, <1>12, <1>13, <1>14, <1>15, <1>16, <1>17, <1>18,
     <1>19, <1>20, <1>21, <1>22, <1>23, <1>24, <1>25, <1>26
  DEF Next, Create, ReleaseMailbox, Save, Load, Service

LEMMA IInvInit == Init => IInv
<1> SUFFICES ASSUME Init PROVE IInv
  OBVIOUS
<1>1. Typed
  BY TypedInit
<1>2. Registry
  BY ServiceAssumption
  DEF Init, Registry, LockInv, AloneInv, ProgressInv, LoadInv, ReleasedAreOut,
      AnswersAreDurable, PromisedAreServed, ToImport, Steady, Proc
<1>3. QED
  BY <1>1, <1>2 DEF IInv, Registry, Typed

LEMMA IInvStep == IInv /\ [Next]_vars => IInv'
<1> SUFFICES ASSUME IInv, [Next]_vars PROVE IInv'
  OBVIOUS
<1>1. Typed'
  BY TypedStep DEF IInv, Typed
<1>2. Registry'
  BY <1>1, RegistryStep
<1>3. QED
  BY <1>1, <1>2 DEF IInv, Registry, Typed

LEMMA Inductive == Spec => []IInv
BY IInvInit, IInvStep, PTL DEF Spec

(* Every variable stays within its type.                                   *)
THEOREM TypeCorrect == Spec => []TypeOK
<1>1. Typed => TypeOK
  BY DEF Typed
<1>2. QED
  BY <1>1, TypedInit, TypedStep, PTL DEF Spec

(* An answered create survives every interleaving, stop, release and crash *)
(* on disk, and an answered release too, for keys no named race has caught.*)
THEOREM DurableAnswers == Spec => []AnswersAreDurable
<1>1. IInv => AnswersAreDurable
  BY DEF IInv, Registry
<1>2. QED
  BY <1>1, Inductive, PTL

(* After any number of restarts every promised mailbox is served again,    *)
(* unless a named race has caught its key.                                 *)
THEOREM ServedPromises == Spec => []PromisedAreServed
<1>1. IInv => PromisedAreServed
  BY DEF IInv, Registry
<1>2. QED
  BY <1>1, Inductive, PTL

-----------------------------------------------------------------------------
(* The limit.  A request is counted from its admission: first among the    *)
(* Admitted, then by the key it inserts, so that the sum grows only where  *)
(* the limit is checked.                                                   *)

Requested == userList \ restored

AdmissionInv ==
    Cardinality(Requested) + Cardinality(Admitted)
        <= MaxMailboxCount + Cardinality(Worker) - 1

LEMMA CountsAreNat ==
    ASSUME Typed
    PROVE  /\ IsFiniteSet(Requested) /\ Cardinality(Requested) \in Nat
           /\ IsFiniteSet(Admitted) /\ Cardinality(Admitted) \in Nat
           /\ Cardinality(Worker) \in Nat
           /\ Cardinality(Admitted) <= Cardinality(Worker)
<1>1. Requested \in SUBSET User /\ Admitted \in SUBSET Worker
  BY DEF Typed, TypeOK, Requested, Admitted
<1>2. QED
  BY <1>1, ServiceAssumption, FS_Subset, FS_CardinalityType

LEMMA NoneAdmitted ==
    ASSUME Typed, Typed', AdmissionInv, Requested' \subseteq Requested,
           Admitted' \subseteq Admitted
    PROVE  AdmissionInv'
<1>1. /\ Cardinality(Requested') <= Cardinality(Requested)
      /\ Cardinality(Admitted') <= Cardinality(Admitted)
  BY CountsAreNat, FS_Subset
<1>2. Cardinality(Requested') \in Nat /\ Cardinality(Admitted') \in Nat
  BY CountsAreNat, FS_CardinalityType, FS_Subset
<1>3. QED
  BY <1>1, <1>2, CountsAreNat, ServiceAssumption DEF AdmissionInv

LEMMA AdmissionStep ==
    ASSUME Typed, Typed', AdmissionInv, [Next]_vars
    PROVE  AdmissionInv'
<1>1. ASSUME NEW w \in Worker, NEW u \in User, CreateAdmit(w, u) PROVE AdmissionInv'
  <2>1. Requested' = Requested /\ Requested \subseteq userList
    BY <1>1 DEF CreateAdmit, Requested, ghost
  <2>2. IsFiniteSet(userList)
    BY ServiceAssumption, FS_Subset DEF Typed, TypeOK
  <2>3. /\ Cardinality(Requested) <= Cardinality(userList)
        /\ Cardinality(userList) \in Nat
    BY <2>1, <2>2, FS_Subset, FS_CardinalityType
  <2>4. Cardinality(userList) < MaxMailboxCount
    BY <1>1 DEF CreateAdmit, HasRoom
  <2>5. Cardinality(Admitted') \in Nat /\ Cardinality(Admitted') <= Cardinality(Worker)
    <3>1. Admitted' \subseteq Worker
      BY DEF Admitted
    <3>2. QED
      BY <3>1, ServiceAssumption, FS_Subset, FS_CardinalityType
  <2>6. QED
    BY <2>1, <2>3, <2>4, <2>5, CountsAreNat, ServiceAssumption DEF AdmissionInv
<1>2. ASSUME NEW w \in Worker, CreateInsert(w) PROVE AdmissionInv'
  <2> DEFINE u == task[w].user
  <2> HIDE DEF u
  <2>1. Requested' \subseteq Requested \cup {u}
    BY <1>2 DEF CreateInsert, Requested, ghost, u
  <2>2. w \in Admitted /\ Admitted' = Admitted \ {w}
    BY <1>2 DEF CreateInsert, Goto, Admitted, Typed, TypeOK, Proc
  <2>3. /\ IsFiniteSet(Requested \cup {u})
        /\ Cardinality(Requested \cup {u}) \in Nat
        /\ Cardinality(Requested \cup {u}) <= Cardinality(Requested) + 1
    <3>1. IsFiniteSet(Requested) /\ Cardinality(Requested) \in Nat
      BY CountsAreNat
    <3>2. Cardinality(Requested \cup {u}) =
             IF u \in Requested THEN Cardinality(Requested) ELSE Cardinality(Requested) + 1
      BY <3>1, FS_AddElement
    <3>3. IsFiniteSet(Requested \cup {u})
      BY <3>1, FS_AddElement
    <3>4. QED
      BY <3>1, <3>2, <3>3
  <2>4. /\ Cardinality(Requested') \in Nat
        /\ Cardinality(Requested') <= Cardinality(Requested) + 1
    BY <2>1, <2>3, FS_Subset, FS_CardinalityType, CountsAreNat
  <2>5. Cardinality(Admitted') = Cardinality(Admitted) - 1
    BY <2>2, CountsAreNat, FS_RemoveElement
  <2>6. QED
    BY <2>4, <2>5, CountsAreNat, ServiceAssumption DEF AdmissionInv
<1>3. ASSUME NEW w \in Worker, CreateExists(w) \/ CreateAbsent(w) \/ CreateError(w)
      PROVE  AdmissionInv'
  <2>1. Requested' \subseteq Requested
    BY <1>3 DEF CreateExists, CreateAbsent, CreateError, Requested, ghost
  <2>2. Admitted' \subseteq Admitted
    BY <1>3 DEF CreateExists, CreateAbsent, CreateError, Goto, Admitted, Typed,
               TypeOK, Proc
  <2>3. QED
    BY <2>1, <2>2, NoneAdmitted
<1>4. ASSUME NEW w \in Worker, ReleaseMailbox(w) \/ Save(w) PROVE AdmissionInv'
  <2>1. Requested' \subseteq Requested
    BY <1>4 DEF ReleaseMailbox, ReleaseLookup, ReleaseDelete, Save, SaveOpen,
               SaveSkip, SaveEntry, SaveClose, Requested, ghost
  <2>2. Admitted' \subseteq Admitted
    BY <1>4 DEF ReleaseMailbox, ReleaseLookup, ReleaseDelete, Save, SaveOpen,
               SaveSkip, SaveEntry, SaveClose, Goto, Reply, Admitted, Typed, TypeOK,
               Proc
  <2>3. QED
    BY <2>1, <2>2, NoneAdmitted
<1>5. ASSUME Load \/ Service PROVE AdmissionInv'
  <2>1. Requested' \subseteq Requested
    BY <1>5 DEF Load, LoadOpen, LoadSkip, ImportEntry, ImportDone, LoadPresent,
               LoadAbsent, LoadInsert, LoadError, LoadClose, Service, Start, Stop,
               Release, ReleaseOne, Requested, ghost
  <2>2. \A w \in Worker : pc'[w] = pc[w]
    BY <1>5, ServiceAssumption
    DEF Load, LoadOpen, LoadSkip, ImportEntry, ImportDone, LoadPresent,
        LoadAbsent, LoadInsert, LoadError, LoadClose, Service, Start, Stop,
        Release, ReleaseOne, Goto, Typed, TypeOK, Proc
  <2>3. Admitted' = Admitted
    BY <2>2 DEF Admitted
  <2>4. QED
    BY <2>1, <2>3, NoneAdmitted
<1>6. CASE Crash
  <2>1. Requested' \subseteq Requested /\ Admitted' \subseteq Admitted
    BY <1>6, ServiceAssumption DEF Crash, Requested, Admitted, Proc
  <2>2. QED
    BY <2>1, NoneAdmitted
<1>7. CASE UNCHANGED vars
  BY <1>7 DEF vars, ghost, AdmissionInv, Requested, Admitted
<1>8. QED
  BY <1>1, <1>2, <1>3, <1>4, <1>5, <1>6, <1>7 DEF Next, Create

LEMMA AdmissionInit == Init => AdmissionInv
<1> SUFFICES ASSUME Init PROVE AdmissionInv
  OBVIOUS
<1>1. Requested = {} /\ Admitted = {}
  BY ServiceAssumption DEF Init, Requested, Admitted, Proc
<1>2. Cardinality(Worker) \in Nat
  BY ServiceAssumption, FS_CardinalityType
<1>3. QED
  BY <1>1, <1>2, FS_EmptySet, ServiceAssumption DEF AdmissionInv

(* Whatever the interleaving, requests put at most |Worker| - 1 keys more  *)
(* than the configured maximum in the list.                                *)
THEOREM BoundedAdmission == Spec => []AdmissionBound
<1>1. Typed /\ AdmissionInv => AdmissionBound
  BY CountsAreNat, ServiceAssumption DEF AdmissionInv, AdmissionBound, Requested
<1>2. Typed /\ AdmissionInv /\ [Next]_vars => Typed' /\ AdmissionInv'
  BY TypedStep, AdmissionStep
<1>3. QED
  BY <1>1, <1>2, TypedInit, AdmissionInit, PTL DEF Spec

-----------------------------------------------------------------------------
(* The strengthening of NothingVanishes and ReturnedOnce.                  *)

(* A user object's lock is held by the handler that deletes under it.      *)
ReadLockInv ==
    /\ \A h \in Handler : hpc[h] = "delete" => lock[hgen[h]] = h
    /\ \A g \in Gen : lock[g] # Nobody =>
          hpc[lock[g]] = "delete" /\ hgen[lock[g]] = g

(* What a handler has in hand, by where it is.  Of its page it deletes all *)
(* but what may be returned again.                                         *)
PageInv ==
    \A h \in Handler :
        /\ h \notin Taken => page[h] = {}
        /\ hpc[h] # "delete" => doomed[h] = {}
        /\ asker[h] # Nobody => doomed[h] \subseteq page[h]
        /\ asker[h] = Nobody => page[h] = {}
        /\ (page[h] \ doomed[h]) \cap store \subseteq again

(* Only messages that were stored are anywhere.                            *)
StoredInv ==
    /\ \A m \in store \cup InHand \cup delivered \cup lost : arrival[m] = "stored"
    /\ \A h \in Handler : \A m \in doomed[h] : arrival[m] = "stored"

SInv ==
    /\ ReadLockInv
    /\ PageInv
    /\ StoredInv
    /\ NothingVanishes
    /\ ReturnedOnce

-----------------------------------------------------------------------------
(* A page.                                                                 *)

LEMMA PageFacts ==
    ASSUME NEW S \in SUBSET Msg
    PROVE  /\ PageOf(S) \subseteq S
           /\ DoomedOf(S) = PageOf(S) \ Filling(S)
BY DEF PageOf, DoomedOf

(* A nonempty set of messages has a first one.                             *)
LEMMA FirstIsMember ==
    ASSUME NEW S \in SUBSET Msg, S # {}
    PROVE  Min(S) \in S
<1>1. S \subseteq Nat
  BY StoreAssumption
<1>2. PICK x \in S : \A y \in S : <<y, x>> \notin OpToRel(<, Nat)
  BY <1>1, NatLessThanWellFounded, WFMin, Zenon
<1>3. \A y \in S : ~(y < x)
  BY <1>1, <1>2, Zenon DEF OpToRel
<1>4. \A y \in S : x =< y
  BY <1>1, <1>3
<1>5. QED
  BY <1>4 DEF Min

-----------------------------------------------------------------------------
(* Types.                                                                  *)

LEMMA TypeInit == StoreInit => StoreTypeOK
BY StoreAssumption DEF StoreInit, StoreTypeOK, Gen

LEMMA FinishTypes ==
    ASSUME StoreTypeOK, NEW h \in Handler, Finish(h)
    PROVE  /\ hpc' \in [Handler -> {"idle", "asked", "lock", "delete", "reply", "failed"}]
           /\ hgen' \in [Handler -> Gen]
           /\ asker' \in [Handler -> Client \cup {Nobody}]
           /\ page' \in [Handler -> SUBSET Msg]
           /\ doomed' \in [Handler -> SUBSET Msg]
           /\ more' \in [Handler -> BOOLEAN]
<1>1. 1 \in Gen
  BY StoreAssumption DEF Gen
<1>2. QED
  BY <1>1 DEF StoreTypeOK, Finish

LEMMA LeaveTypes ==
    ASSUME StoreTypeOK, NEW c \in Client,
           NEW label \in {"idle", "waiting", "next", "done"}, Leave(c, label)
    PROVE  /\ cpc' \in [Client -> {"idle", "waiting", "next", "done"}]
           /\ waitFor' \in [Client -> Handler \cup {Nobody}]
BY DEF StoreTypeOK, Leave

LEMMA TypeStep == StoreTypeOK /\ [StoreNext]_storeVars => StoreTypeOK'
<1> SUFFICES ASSUME StoreTypeOK, [StoreNext]_storeVars PROVE StoreTypeOK'
  OBVIOUS
<1> USE DEF StoreTypeOK, putVars, userVars, jobVars, clientVars, fateVars
<1>1. ASSUME NEW m \in Msg, PutLookup(m)
      PROVE  StoreTypeOK'
  BY <1>1 DEF PutLookup
<1>2. ASSUME NEW m \in Msg, PutStore(m)
      PROVE  StoreTypeOK'
  BY <1>2 DEF PutStore
<1>2a. ASSUME NEW m \in Msg, PutError(m)
      PROVE  StoreTypeOK'
  BY <1>2a DEF PutError
<1>3. ASSUME NEW h \in Handler, ClearRequest(h)
      PROVE  StoreTypeOK'
  BY <1>3 DEF ClearRequest
<1>4. ASSUME NEW h \in Handler, RequestLost(h)
      PROVE  StoreTypeOK'
  <2>1. losses' \in 0..MaxLoss
    BY <1>4, StoreAssumption DEF RequestLost
  <2>2. QED
    BY <1>4, <2>1, FinishTypes DEF RequestLost
<1>5. ASSUME NEW h \in Handler, Lookup(h)
      PROVE  StoreTypeOK'
  BY <1>5 DEF Lookup
<1>6. ASSUME NEW h \in Handler, Read(h)
      PROVE  StoreTypeOK'
  <2>1. PageOf(store) \in SUBSET Msg /\ DoomedOf(store) \in SUBSET Msg
    BY PageFacts
  <2>2. page' \in [Handler -> SUBSET Msg]
    BY <1>6, <2>1 DEF Read
  <2>3. doomed' \in [Handler -> SUBSET Msg]
    BY <1>6, <2>1 DEF Read
  <2>4. more' \in [Handler -> BOOLEAN]
    BY <1>6 DEF Read, ExistData
  <2>5. again' \in SUBSET Msg
    BY <1>6, <2>2 DEF Read
  <2>6. /\ lock' \in [Gen -> Handler \cup {Nobody}]
        /\ hpc' \in [Handler -> {"idle", "asked", "lock", "delete", "reply", "failed"}]
    BY <1>6 DEF Read
  <2>7. QED
    BY <1>6, <2>2, <2>3, <2>4, <2>5, <2>6 DEF Read
<1>7. ASSUME NEW h \in Handler, ReadError(h)
      PROVE  StoreTypeOK'
  BY <1>7 DEF ReadError
<1>8. ASSUME NEW h \in Handler, Delete(h)
      PROVE  StoreTypeOK'
  <2>1. FirstDoomed(h) \in Msg
    BY <1>8, FirstIsMember DEF Delete, FirstDoomed
  <2>2. doomed' \in [Handler -> SUBSET Msg] /\ lost' \in SUBSET Msg
    BY <1>8, <2>1 DEF Delete
  <2>3. QED
    BY <1>8, <2>2 DEF Delete
<1>9. ASSUME NEW h \in Handler, DeleteError(h)
      PROVE  StoreTypeOK'
  <2>1. FirstDoomed(h) \in Msg
    BY <1>9, FirstIsMember DEF DeleteError, FirstDoomed
  <2>2. doomed' \in [Handler -> SUBSET Msg] /\ again' \in SUBSET Msg
    BY <1>9, <2>1 DEF DeleteError
  <2>3. QED
    BY <1>9, <2>2 DEF DeleteError
<1>10. ASSUME NEW h \in Handler, ReadReturn(h)
      PROVE  StoreTypeOK'
  BY <1>10 DEF ReadReturn
<1>11. ASSUME NEW h \in Handler, Respond(h)
      PROVE  StoreTypeOK'
  <2>1. Finish(h) /\ delivered' \in SUBSET Msg
    BY <1>11 DEF Respond, Handed
  <2>2. /\ cpc' \in [Client -> {"idle", "waiting", "next", "done"}]
        /\ waitFor' \in [Client -> Handler \cup {Nobody}]
    BY <1>11, LeaveTypes DEF Respond, Handed
  <2>3. QED
    BY <1>11, <2>1, <2>2, FinishTypes DEF Respond, Handed
<1>12. ASSUME NEW h \in Handler, RespondError(h)
      PROVE  StoreTypeOK'
  <2>1. /\ cpc' \in [Client -> {"idle", "waiting", "next", "done"}]
        /\ waitFor' \in [Client -> Handler \cup {Nobody}]
    BY <1>12, LeaveTypes DEF RespondError
  <2>2. QED
    BY <1>12, <2>1, FinishTypes DEF RespondError
<1>13. ASSUME NEW h \in Handler, ResponseLost(h)
      PROVE  StoreTypeOK'
  BY <1>13, FinishTypes DEF ResponseLost
<1>14. ASSUME NEW c \in Client, NEW h \in Handler, Ask(c, h)
      PROVE  StoreTypeOK'
  BY <1>14 DEF Ask
<1>15. ASSUME NEW c \in Client, Timeout(c)
      PROVE  StoreTypeOK'
  BY <1>15, LeaveTypes DEF Timeout
<1>16. ASSUME NEW c \in Client, Return(c)
      PROVE  StoreTypeOK'
  BY <1>16 DEF Return
<1>17. CASE Unregister
  BY <1>17 DEF Unregister
<1>18. CASE Register
  BY <1>18, StoreAssumption DEF Register, Gen
<1>19. CASE Restart
  <2>1. gen' \in Gen /\ 1 \in Gen
    BY <1>19, StoreAssumption DEF Restart, Gen
  <2>2. /\ lock' \in [Gen -> Handler \cup {Nobody}]
        /\ hpc' \in [Handler -> {"idle", "asked", "lock", "delete", "reply", "failed"}]
        /\ hgen' \in [Handler -> Gen]
        /\ asker' \in [Handler -> Client \cup {Nobody}]
    BY <1>19, <2>1 DEF Restart
  <2>3. /\ page' \in [Handler -> SUBSET Msg]
        /\ doomed' \in [Handler -> SUBSET Msg]
        /\ more' \in [Handler -> BOOLEAN]
    BY <1>19 DEF Restart
  <2>4. arrival' \in [Msg -> {"away", "held", "stored", "gone"}]
    BY <1>19 DEF Restart
  <2>5. lost' \in SUBSET Msg /\ again' \in SUBSET Msg
    BY <1>19 DEF Restart, InHand, Taken
  <2>6. QED
    BY <1>19, <2>1, <2>2, <2>3, <2>4, <2>5 DEF Restart
<1>20. CASE UNCHANGED storeVars
  BY <1>20 DEF storeVars
<1>21. QED
  BY <1>1, <1>2, <1>2a, <1>3, <1>4, <1>5, <1>6, <1>7, <1>8, <1>9, <1>10,
     <1>11, <1>12, <1>13, <1>14, <1>15, <1>16, <1>17, <1>18, <1>19, <1>20
  DEF StoreNext, Put, ReadRequest, Fault

(* Every variable stays within its type.                                   *)
THEOREM StoreTypeCorrect == StoreSpec => []StoreTypeOK
BY TypeInit, TypeStep, PTL DEF StoreSpec

-----------------------------------------------------------------------------
(* The fate of messages.                                                   *)

LEMMA FateInit == StoreInit => SInv
BY StoreAssumption
DEF StoreInit, SInv, ReadLockInv, PageInv, StoredInv, NothingVanishes, ReturnedOnce,
    Taken, InHand, Gen

LEMMA FateStep == StoreTypeOK /\ StoreTypeOK' /\ SInv /\ [StoreNext]_storeVars => SInv'
<1> SUFFICES ASSUME StoreTypeOK, StoreTypeOK', SInv, [StoreNext]_storeVars PROVE SInv'
  OBVIOUS
<1>0. Nobody \notin Handler \cup Client
  BY StoreAssumption
<1> USE <1>0 DEF StoreTypeOK, Gen, putVars, userVars, jobVars, clientVars, fateVars, SInv,
        ReadLockInv, PageInv, StoredInv, NothingVanishes, ReturnedOnce, Taken, InHand
<1>1. ASSUME NEW m \in Msg, PutLookup(m)
      PROVE  SInv'
  BY <1>1 DEF PutLookup
<1>2. ASSUME NEW m \in Msg, PutStore(m)
      PROVE  SInv'
  <2>1. ReadLockInv'
    BY <1>2 DEF PutStore
  <2>2. PageInv'
    BY <1>2 DEF PutStore
  <2>3. StoredInv'
    BY <1>2 DEF PutStore
  <2>4. NothingVanishes'
    BY <1>2 DEF PutStore
  <2>5. ReturnedOnce'
    BY <1>2 DEF PutStore
  <2>6. QED
    BY <2>1, <2>2, <2>3, <2>4, <2>5
<1>2a. ASSUME NEW m \in Msg, PutError(m)
      PROVE  SInv'
  BY <1>2a DEF PutError
<1>3. ASSUME NEW h \in Handler, ClearRequest(h)
      PROVE  SInv'
  BY <1>3 DEF ClearRequest
<1>4. ASSUME NEW h \in Handler, RequestLost(h)
      PROVE  SInv'
  <2>1. ReadLockInv'
    BY <1>4 DEF RequestLost, Finish
  <2>2. PageInv'
    BY <1>4 DEF RequestLost, Finish
  <2>3. StoredInv'
    BY <1>4 DEF RequestLost, Finish
  <2>4. NothingVanishes'
    BY <1>4 DEF RequestLost, Finish
  <2>5. ReturnedOnce'
    BY <1>4 DEF RequestLost, Finish
  <2>6. QED
    BY <2>1, <2>2, <2>3, <2>4, <2>5
<1>5. ASSUME NEW h \in Handler, Lookup(h)
      PROVE  SInv'
  <2>1. ReadLockInv'
    BY <1>5 DEF Lookup
  <2>2. PageInv'
    BY <1>5 DEF Lookup
  <2>3. StoredInv'
    BY <1>5 DEF Lookup
  <2>4. NothingVanishes'
    BY <1>5 DEF Lookup
  <2>5. ReturnedOnce'
    BY <1>5 DEF Lookup
  <2>6. QED
    BY <2>1, <2>2, <2>3, <2>4, <2>5
<1>6. ASSUME NEW h \in Handler, Read(h)
      PROVE  SInv'
  <2> DEFINE P == IF asker[h] = Nobody THEN {} ELSE PageOf(store)
             D == IF asker[h] = Nobody THEN store ELSE DoomedOf(store)
  <2>1. /\ P \subseteq store
        /\ D \subseteq store
        /\ asker[h] = Nobody => P = {}
        /\ asker[h] # Nobody => D \subseteq P
        /\ P \ D \subseteq Filling(store)
    <3>1. /\ PageOf(store) \subseteq store
          /\ DoomedOf(store) = PageOf(store) \ Filling(store)
      BY PageFacts
    <3>2. QED
      BY <3>1
  <2>2. /\ hpc[h] = "lock"
        /\ lock[hgen[h]] = Nobody
        /\ lock' = [lock EXCEPT ![hgen[h]] = h]
        /\ hpc' = [hpc EXCEPT ![h] = "delete"]
        /\ page' = [page EXCEPT ![h] = P]
        /\ doomed' = [doomed EXCEPT ![h] = D]
        /\ UNCHANGED <<store, arrival, hgen, asker, delivered, lost>>
    BY <1>6 DEF Read
  <2>3. again' = again \cup (P \cap (Filling(store) \cup Shared(h)))
    BY <1>6, <2>2 DEF Read
  <2> HIDE DEF P, D
  <2>4. ReadLockInv'
    BY <2>2
  <2>5. PageInv'
    BY <2>1, <2>2, <2>3
  <2>6. InHand' = InHand \cup P
    BY <2>2
  <2>7. StoredInv'
    BY <2>1, <2>2, <2>6
  <2>8. NothingVanishes'
    BY <2>2, <2>6
  <2>9. ReturnedOnce'
    <3>1. ASSUME NEW k \in Handler, k # h, k \in Taken
          PROVE  P \cap page[k] \subseteq again'
      <4>1. CASE hpc[k] = "reply"
        BY <4>1, <2>1, <2>3
      <4>2. CASE hpc[k] = "delete"
        <5>1. hgen[k] # hgen[h]
          BY <4>2, <2>2
        <5>2. page[k] \subseteq Shared(h)
          BY <4>2, <5>1 DEF Shared
        <5>3. QED
          BY <5>2, <2>3
      <4>3. QED
        BY <3>1, <4>1, <4>2
    <3>2. \A i, k \in Taken' : i # k => page'[i] \cap page'[k] \subseteq again'
      BY <2>2, <2>3, <3>1
    <3>3. (delivered' \cup lost') \cap store' \subseteq again'
      BY <2>2, <2>3
    <3>4. QED
      BY <3>2, <3>3
  <2>10. QED
    BY <2>4, <2>5, <2>7, <2>8, <2>9
<1>7. ASSUME NEW h \in Handler, ReadError(h)
      PROVE  SInv'
  <2>1. ReadLockInv'
    BY <1>7 DEF ReadError
  <2>2. PageInv'
    BY <1>7 DEF ReadError
  <2>3. StoredInv'
    BY <1>7 DEF ReadError
  <2>4. NothingVanishes'
    BY <1>7 DEF ReadError
  <2>5. ReturnedOnce'
    BY <1>7 DEF ReadError
  <2>6. QED
    BY <2>1, <2>2, <2>3, <2>4, <2>5
<1>8. ASSUME NEW h \in Handler, Delete(h)
      PROVE  SInv'
  <2>1. FirstDoomed(h) \in doomed[h]
    <3>1. doomed[h] \in SUBSET Msg /\ doomed[h] # {}
      BY <1>8 DEF Delete
    <3>2. QED
      BY <3>1, FirstIsMember DEF FirstDoomed
  <2>2. ReadLockInv'
    BY <1>8, <2>1 DEF Delete
  <2>3. PageInv'
    BY <1>8, <2>1 DEF Delete
  <2>4. StoredInv'
    <3>1. InHand' = InHand /\ store' \subseteq store
      BY <1>8 DEF Delete
    <3>2. lost' \subseteq lost \cup {FirstDoomed(h)}
      BY <1>8 DEF Delete
    <3>3. QED
      BY <1>8, <2>1, <3>1, <3>2 DEF Delete
  <2>5. NothingVanishes'
    BY <1>8, <2>1 DEF Delete
  <2>6. ReturnedOnce'
    BY <1>8, <2>1 DEF Delete
  <2>7. QED
    BY <2>2, <2>3, <2>4, <2>5, <2>6
<1>9. ASSUME NEW h \in Handler, DeleteError(h)
      PROVE  SInv'
  <2>1. FirstDoomed(h) \in doomed[h]
    <3>1. doomed[h] \in SUBSET Msg /\ doomed[h] # {}
      BY <1>9 DEF DeleteError
    <3>2. QED
      BY <3>1, FirstIsMember DEF FirstDoomed
  <2>2. ReadLockInv'
    BY <1>9, <2>1 DEF DeleteError
  <2>3. PageInv'
    BY <1>9, <2>1 DEF DeleteError
  <2>4. StoredInv'
    BY <1>9, <2>1 DEF DeleteError
  <2>5. NothingVanishes'
    BY <1>9, <2>1 DEF DeleteError
  <2>6. ReturnedOnce'
    BY <1>9, <2>1 DEF DeleteError
  <2>7. QED
    BY <2>2, <2>3, <2>4, <2>5, <2>6
<1>10. ASSUME NEW h \in Handler, ReadReturn(h)
      PROVE  SInv'
  BY <1>10 DEF ReadReturn
<1>11. ASSUME NEW h \in Handler, Respond(h)
      PROVE  SInv'
  <2>1. ReadLockInv'
    BY <1>11 DEF Respond, Handed, Finish, Leave
  <2>2. PageInv'
    BY <1>11 DEF Respond, Handed, Finish, Leave
  <2>3. StoredInv'
    BY <1>11 DEF Respond, Handed, Finish, Leave
  <2>4. NothingVanishes'
    BY <1>11 DEF Respond, Handed, Finish, Leave
  <2>5. ReturnedOnce'
    <3>1. page[h] \cap store \subseteq again
      BY <1>11 DEF Respond, Handed
    <3>2. (delivered' \cup lost') \cap store' \subseteq again'
      BY <1>11, <3>1 DEF Respond, Handed
    <3>3. \A i, k \in Taken' : i # k => page'[i] \cap page'[k] \subseteq again'
      BY <1>11 DEF Respond, Handed, Finish
    <3>4. QED
      BY <3>2, <3>3
  <2>6. QED
    BY <2>1, <2>2, <2>3, <2>4, <2>5
<1>12. ASSUME NEW h \in Handler, RespondError(h)
      PROVE  SInv'
  BY <1>12 DEF RespondError, Finish, Leave, WaitsFor
<1>13. ASSUME NEW h \in Handler, ResponseLost(h)
      PROVE  SInv'
  <2>1. ReadLockInv'
    BY <1>13 DEF ResponseLost, Finish
  <2>2. PageInv'
    BY <1>13 DEF ResponseLost, Finish
  <2>3. StoredInv'
    BY <1>13 DEF ResponseLost, Finish
  <2>4. NothingVanishes'
    BY <1>13 DEF ResponseLost, Finish
  <2>5. ReturnedOnce'
    <3>1. page[h] \cap store \subseteq again
      BY <1>13 DEF ResponseLost
    <3>2. (delivered' \cup lost') \cap store' \subseteq again'
      BY <1>13, <3>1 DEF ResponseLost
    <3>3. \A i, k \in Taken' : i # k => page'[i] \cap page'[k] \subseteq again'
      BY <1>13 DEF ResponseLost, Finish
    <3>4. QED
      BY <3>2, <3>3
  <2>6. QED
    BY <2>1, <2>2, <2>3, <2>4, <2>5
<1>14. ASSUME NEW c \in Client, NEW h \in Handler, Ask(c, h)
      PROVE  SInv'
  BY <1>14 DEF Ask
<1>15. ASSUME NEW c \in Client, Timeout(c)
      PROVE  SInv'
  BY <1>15 DEF Timeout, Leave
<1>16. ASSUME NEW c \in Client, Return(c)
      PROVE  SInv'
  BY <1>16 DEF Return
<1>17. CASE Unregister
  BY <1>17 DEF Unregister
<1>18. CASE Register
  BY <1>18 DEF Register
<1>19. CASE Restart
  <2>1. ReadLockInv'
    BY <1>19 DEF Restart
  <2>2. PageInv'
    BY <1>19 DEF Restart
  <2>3. StoredInv'
    BY <1>19 DEF Restart
  <2>4. NothingVanishes'
    BY <1>19 DEF Restart
  <2>5. ReturnedOnce'
    BY <1>19 DEF Restart
  <2>6. QED
    BY <2>1, <2>2, <2>3, <2>4, <2>5
<1>20. CASE UNCHANGED storeVars
  BY <1>20 DEF storeVars
<1>21. QED
  BY <1>1, <1>2, <1>2a, <1>3, <1>4, <1>5, <1>6, <1>7, <1>8, <1>9, <1>10,
     <1>11, <1>12, <1>13, <1>14, <1>15, <1>16, <1>17, <1>18, <1>19, <1>20
  DEF StoreNext, Put, ReadRequest, Fault

LEMMA FateInvariant == StoreSpec => [](StoreTypeOK /\ SInv)
<1>1. StoreInit => StoreTypeOK /\ SInv
  BY TypeInit, FateInit
<1>2. StoreTypeOK /\ SInv /\ [StoreNext]_storeVars => StoreTypeOK' /\ SInv'
  BY TypeStep, FateStep
<1>3. QED
  BY <1>1, <1>2, PTL DEF StoreSpec

(* No interleaving of puts, reads, registrations and restarts loses track  *)
(* of a stored message.                                                    *)
THEOREM MessagesKept == StoreSpec => []NothingVanishes
<1>1. SInv => NothingVanishes
  BY DEF SInv
<1>2. QED
  BY <1>1, FateInvariant, PTL

(* No message but the named exceptions is returned by two reads.           *)
THEOREM NoSecondCopy == StoreSpec => []ReturnedOnce
<1>1. SInv => ReturnedOnce
  BY DEF SInv
<1>2. QED
  BY <1>1, FateInvariant, PTL

-----------------------------------------------------------------------------
(* A page that nothing fills.                                                *)

(* A page without messages has no size.                                      *)
LEMMA EmptySize == SizeOf({}) = 0
<1> DEFINE rest(f, s) == LET x == CHOOSE y \in s : TRUE IN Size[x] + f[s \ {x}]
           sum(f) == f = [s \in SUBSET {} |-> IF s = {} THEN 0 ELSE rest(f, s)]
           one == [s \in SUBSET {} |-> 0]
<1>1. SUBSET {} = {{}}
  OBVIOUS
<1>2. sum(one)
  BY <1>1
<1>3. sum(CHOOSE f : sum(f))
  BY <1>2
<1>4. (CHOOSE f : sum(f))[{}] = 0
  BY <1>1, <1>3
<1>5. QED
  BY <1>4, Zenon DEF SizeOf, MapThenSumSet, MapThenFoldSet

(* A nonempty set of numbers has a least member, and a greatest one if it is *)
(* bounded.                                                                  *)
LEMMA LeastOf ==
  ASSUME NEW T \in SUBSET Nat, T # {}
  PROVE  \E x \in T : \A y \in T : x <= y
<1>1. \E x \in T : \A y \in T : ~(<<y, x>> \in OpToRel(<, Nat))
  BY NatLessThanWellFounded, WFMin
<1>2. PICK x \in T : \A y \in T : <<y, x>> \notin OpToRel(<, Nat)
  BY <1>1
<1>3. ASSUME NEW y \in T
      PROVE  x <= y
  <2>1. ~(y < x)
    BY <1>2 DEF OpToRel
  <2>2. QED
    BY <2>1
<1>4. QED
  BY <1>3

LEMMA GreatestOf ==
  ASSUME NEW n \in Nat, NEW T \in SUBSET (0..n), T # {}
  PROVE  \E x \in T : \A y \in T : y <= x
<1> DEFINE U == {k \in Nat : n - k \in T}
<1>1. U \in SUBSET Nat /\ U # {}
  <2>1. PICK t \in T : TRUE
    OBVIOUS
  <2>2. n - t \in Nat /\ n - (n - t) = t
    OBVIOUS
  <2>3. QED
    BY <2>1, <2>2
<1>2. PICK k \in U : \A j \in U : k <= j
  BY <1>1, LeastOf
<1>3. ASSUME NEW y \in T
      PROVE  y <= n - k
  <2>1. n - y \in Nat /\ n - (n - y) = y
    OBVIOUS
  <2>2. n - y \in U
    BY <2>1
  <2>3. k <= n - y
    BY <1>2, <2>2
  <2>4. QED
    BY <2>3
<1>4. QED
  BY <1>3

(* A page that nothing fills holds all that is stored.                       *)
LEMMA NotFullHasAll ==
  ASSUME NEW S \in SUBSET Msg, ~Full(S)
  PROVE  PageOf(S) = S
<1> SUFFICES ASSUME PageOf(S) # S
             PROVE  FALSE
  OBVIOUS
<1>1. S \subseteq Nat /\ PageOf(S) \subseteq S
  BY StoreAssumption DEF PageOf
<1>2. PICK m \in S \ PageOf(S) : \A y \in S \ PageOf(S) : m <= y
  <2>1. S \ PageOf(S) \in SUBSET Nat /\ S \ PageOf(S) # {}
    BY <1>1
  <2>2. QED
    BY <2>1, LeastOf
<1> DEFINE T == {l \in S : l < m}
<1>3. ~Below(T)
  BY <1>2 DEF PageOf
<1>4. CASE T = {}
  <2>1. Size[m] \in Nat /\ Size[m] < PageLimit /\ PageLimit \in Nat
    BY <1>2, StoreAssumption
  <2>2. Below({})
    BY <2>1, EmptySize DEF Below
  <2>3. QED
    BY <1>3, <1>4, <2>2
<1>5. CASE T # {}
  <2>0. m \in Nat
    BY <1>1, <1>2
  <2>1. T \in SUBSET (0..m)
    <3>1. ASSUME NEW l \in T
          PROVE  l \in 0..m
      <4>1. l \in Nat /\ l < m
        BY <1>1
      <4>2. QED
        BY <2>0, <4>1
    <3>2. QED
      BY <3>1
  <2>2. PICK p \in T : \A y \in T : y <= p
    BY <1>5, <2>0, <2>1, GreatestOf
  <2>3. p \in S /\ p < m
    OBVIOUS
  <2>4. p \in PageOf(S)
    BY <1>1, <1>2, <2>3
  <2>5. {l \in S : l <= p} = T
    <3>1. \A l \in S : l <= p <=> l < m
      <4>1. p \in Nat /\ \A l \in S : l \in Nat
        BY <1>1, <2>3
      <4>2. QED
        BY <2>0, <2>2, <2>3, <4>1
    <3>2. QED
      BY <3>1
  <2> HIDE DEF T
  <2>6. p \in Filling(S)
    BY <1>3, <2>4, <2>5 DEF Filling
  <2>7. QED
    BY <2>6 DEF Full
<1>6. QED
  BY <1>4, <1>5

(* The strengthening of ReadAllOnSuccess. What a client wants was stored,    *)
(* and is not stored again; it waits for one handler, whose page, if it is   *)
(* the last one, has all that is left of it.                                 *)
LoopInv ==
    /\ \A c \in Client : \A m \in want[c] : arrival[m] = "stored"
    /\ \A c \in Client : waitFor[c] # Nobody => cpc[c] = "waiting"
    /\ \A c \in Client, h \in Handler :
          WaitsFor(c, h) /\ h \in Taken /\ ~more[h] =>
              want[c] \cap store \subseteq page[h] \cup delivered

LInv == StoreTypeOK /\ SInv /\ LoopInv /\ ReadAllOnSuccess

LEMMA LoopInit == StoreInit => LoopInv /\ ReadAllOnSuccess
BY DEF StoreInit, LoopInv, ReadAllOnSuccess, WaitsFor, Taken

(* What need not be said again of a step: it stores nothing that a client    *)
(* wants, takes nothing back, and gives no client another handler.           *)
LEMMA LoopGoesOn ==
    ASSUME LInv, StoreTypeOK', UNCHANGED want,
           \A m \in Msg : arrival[m] = "stored" =>
               arrival'[m] = "stored" /\ (m \in store' => m \in store),
           delivered \subseteq delivered',
           \A c \in Client :
               \/ waitFor'[c] = waitFor[c] /\ cpc'[c] = cpc[c]
               \/ /\ waitFor'[c] = Nobody
                  /\ cpc'[c] = "done" => want[c] \cap store \subseteq delivered',
           \A h \in Handler :
               h \in Taken' =>
                   /\ h \in Taken /\ asker'[h] = asker[h] /\ more'[h] = more[h]
                   /\ page'[h] = page[h]
    PROVE  LoopInv' /\ ReadAllOnSuccess'
<1> USE DEF LInv, StoreTypeOK
<1>1. \A c \in Client : /\ \A m \in want'[c] : arrival'[m] = "stored"
                        /\ want'[c] \cap store' \subseteq want[c] \cap store
  BY DEF LoopInv
<1>2. \A c \in Client : waitFor'[c] # Nobody => cpc'[c] = "waiting"
  BY DEF LoopInv
<1>3. ASSUME NEW c \in Client, NEW h \in Handler, WaitsFor(c, h)', h \in Taken', ~more'[h]
      PROVE  want'[c] \cap store' \subseteq page'[h] \cup delivered'
  <2>1. h # Nobody
    BY StoreAssumption
  <2>2. WaitsFor(c, h) /\ h \in Taken /\ ~more[h] /\ page'[h] = page[h]
    BY <1>3, <2>1 DEF WaitsFor
  <2>3. want[c] \cap store \subseteq page[h] \cup delivered
    BY <2>2 DEF LoopInv
  <2>4. QED
    BY <1>1, <2>2, <2>3
<1>4. ReadAllOnSuccess'
  BY <1>1 DEF ReadAllOnSuccess
<1>5. QED
  BY <1>1, <1>2, <1>3, <1>4 DEF LoopInv

LEMMA LoopStep == LInv /\ StoreTypeOK' /\ [StoreNext]_storeVars
                      => LoopInv' /\ ReadAllOnSuccess'
<1> SUFFICES ASSUME LInv, StoreTypeOK', [StoreNext]_storeVars
             PROVE  LoopInv' /\ ReadAllOnSuccess'
  OBVIOUS
<1> USE DEF LInv, StoreTypeOK, putVars, userVars, jobVars, clientVars, fateVars
<1>1. ASSUME NEW m \in Msg, Put(m)
      PROVE  LoopInv' /\ ReadAllOnSuccess'
  BY <1>1, LoopGoesOn DEF Put, PutLookup, PutStore, PutError, Taken
<1>2. ASSUME NEW h \in Handler, ClearRequest(h) \/ Lookup(h) \/ ReadError(h)
      PROVE  LoopInv' /\ ReadAllOnSuccess'
  BY <1>2, LoopGoesOn DEF ClearRequest, Lookup, ReadError, Taken
<1>3. ASSUME NEW h \in Handler, Delete(h) \/ DeleteError(h) \/ ReadReturn(h)
      PROVE  LoopInv' /\ ReadAllOnSuccess'
  BY <1>3, LoopGoesOn DEF Delete, DeleteError, ReadReturn, Taken
<1>4. ASSUME NEW h \in Handler, RequestLost(h) \/ ResponseLost(h)
      PROVE  LoopInv' /\ ReadAllOnSuccess'
  BY <1>4, LoopGoesOn DEF RequestLost, ResponseLost, Finish, Taken
<1>5. ASSUME NEW h \in Handler, RespondError(h)
      PROVE  LoopInv' /\ ReadAllOnSuccess'
  <2>1. UNCHANGED <<want, store, arrival, delivered>>
    BY <1>5 DEF RespondError
  <2>2. ASSUME NEW k \in Handler, k \in Taken'
        PROVE  /\ k \in Taken /\ asker'[k] = asker[k] /\ more'[k] = more[k]
               /\ page'[k] = page[k]
    BY <1>5, <2>2 DEF RespondError, Finish, Taken
  <2>3. ASSUME NEW c \in Client
        PROVE  \/ waitFor'[c] = waitFor[c] /\ cpc'[c] = cpc[c]
               \/ waitFor'[c] = Nobody /\ cpc'[c] # "done"
    <3>1. CASE UNCHANGED <<cpc, waitFor>>
      BY <3>1
    <3>2. ASSUME NEW d \in Client, Leave(d, "idle")
          PROVE  \/ waitFor'[c] = waitFor[c] /\ cpc'[c] = cpc[c]
                 \/ waitFor'[c] = Nobody /\ cpc'[c] # "done"
      <4>1. CASE c # d
        BY <3>2, <4>1 DEF Leave
      <4>2. CASE c = d
        BY <3>2, <4>2 DEF Leave
      <4>3. QED
        BY <4>1, <4>2
    <3>3. QED
      BY <1>5, <3>1, <3>2 DEF RespondError
  <2>4. QED
    BY <2>1, <2>2, <2>3, LoopGoesOn
<1>6. ASSUME NEW h \in Handler, Respond(h)
      PROVE  LoopInv' /\ ReadAllOnSuccess'
  <2>1. /\ UNCHANGED <<want, store, arrival>> /\ hpc[h] = "reply"
        /\ delivered' = delivered \cup page[h]
    BY <1>6 DEF Respond, Handed
  <2>2. ASSUME NEW k \in Handler, k \in Taken'
        PROVE  /\ k \in Taken /\ asker'[k] = asker[k] /\ more'[k] = more[k]
               /\ page'[k] = page[k]
    BY <1>6, <2>2 DEF Respond, Finish, Taken
  <2>3. ASSUME NEW c \in Client
        PROVE  \/ waitFor'[c] = waitFor[c] /\ cpc'[c] = cpc[c]
               \/ /\ waitFor'[c] = Nobody
                  /\ cpc'[c] = "done" => want[c] \cap store \subseteq delivered'
    <3>1. CASE UNCHANGED <<cpc, waitFor>>
      BY <3>1
    <3>2. ASSUME NEW d \in Client, WaitsFor(d, h),
                 Leave(d, IF more[h] THEN "next" ELSE "done")
          PROVE  \/ waitFor'[c] = waitFor[c] /\ cpc'[c] = cpc[c]
                 \/ /\ waitFor'[c] = Nobody
                    /\ cpc'[c] = "done" => want[c] \cap store \subseteq delivered'
      <4>1. CASE c # d
        BY <3>2, <4>1 DEF Leave
      <4>2. CASE c = d
        <5>1. waitFor'[c] = Nobody /\ (cpc'[c] = "done" => ~more[h])
          BY <3>2, <4>2 DEF Leave
        <5>2. ~more[h] => want[c] \cap store \subseteq page[h] \cup delivered
          BY <2>1, <3>2, <4>2 DEF LoopInv, Taken
        <5>3. QED
          BY <2>1, <5>1, <5>2
      <4>3. QED
        BY <4>1, <4>2
    <3>3. QED
      BY <1>6, <3>1, <3>2 DEF Respond
  <2>4. QED
    BY <2>1, <2>2, <2>3, LoopGoesOn
<1>7. ASSUME NEW h \in Handler, Read(h)
      PROVE  LoopInv' /\ ReadAllOnSuccess'
  <2>1. /\ UNCHANGED <<want, store, arrival, delivered, waitFor, cpc, asker>>
        /\ page' = [page EXCEPT ![h] = IF asker[h] = Nobody THEN {} ELSE PageOf(store)]
        /\ more' = [more EXCEPT ![h] = asker[h] # Nobody /\ ExistData(store)]
        /\ hpc' = [hpc EXCEPT ![h] = "delete"]
    BY <1>7 DEF Read
  <2>2. ASSUME NEW c \in Client, NEW k \in Handler, WaitsFor(c, k)', k \in Taken',
               ~more'[k]
        PROVE  want'[c] \cap store' \subseteq page'[k] \cup delivered'
    <3>1. WaitsFor(c, k)
      BY <2>1, <2>2 DEF WaitsFor
    <3>2. CASE k # h
      BY <2>1, <2>2, <3>1, <3>2 DEF LoopInv, Taken
    <3>3. CASE k = h
      <4>1. asker[h] # Nobody
        BY <3>1, <3>3, StoreAssumption DEF WaitsFor
      <4>2. page'[k] = PageOf(store)
        BY <2>1, <3>3, <4>1
      <4>3. ~ExistData(store)
        <5>1. more'[k] = (asker[h] # Nobody /\ ExistData(store))
          BY <2>1, <3>3
        <5> HIDE DEF LInv, StoreTypeOK
        <5>2. QED
          BY <2>2, <4>1, <5>1, Zenon
      <4>4. PageOf(store) = store
        BY <4>3, NotFullHasAll DEF ExistData
      <4>5. QED
        BY <2>1, <4>2, <4>4
    <3>4. QED
      BY <3>2, <3>3
  <2>3. QED
    BY <2>1, <2>2 DEF LoopInv, ReadAllOnSuccess
<1>8. ASSUME NEW c \in Client, NEW h \in Handler, Ask(c, h)
      PROVE  LoopInv' /\ ReadAllOnSuccess'
  <2>1. /\ UNCHANGED <<store, arrival, page, more, delivered>> /\ hpc[h] = "idle"
        /\ hpc' = [hpc EXCEPT ![h] = "asked"] /\ asker' = [asker EXCEPT ![h] = c]
        /\ cpc' = [cpc EXCEPT ![c] = "waiting"] /\ waitFor' = [waitFor EXCEPT ![c] = h]
        /\ want' = [want EXCEPT ![c] = IF cpc[c] = "idle" THEN store ELSE @]
    BY <1>8 DEF Ask
  <2>2. \A d \in Client : \A m \in want'[d] : arrival'[m] = "stored"
    BY <2>1 DEF LoopInv, SInv, StoredInv
  <2>3. \A d \in Client : waitFor'[d] # Nobody => cpc'[d] = "waiting"
    BY <2>1 DEF LoopInv
  <2>4. ASSUME NEW d \in Client, NEW k \in Handler, WaitsFor(d, k)', k \in Taken',
               ~more'[k]
        PROVE  want'[d] \cap store' \subseteq page'[k] \cup delivered'
    <3>1. k # h
      BY <2>1, <2>4 DEF Taken
    <3>2. d # c
      BY <2>1, <2>4, <3>1 DEF WaitsFor
    <3>3. WaitsFor(d, k) /\ k \in Taken /\ ~more[k] /\ want'[d] = want[d]
      BY <2>1, <2>4, <3>1, <3>2 DEF WaitsFor, Taken
    <3>4. QED
      BY <2>1, <3>3 DEF LoopInv
  <2>5. ReadAllOnSuccess'
    BY <2>1 DEF ReadAllOnSuccess
  <2>6. QED
    BY <2>2, <2>3, <2>4, <2>5 DEF LoopInv
<1>9. ASSUME NEW c \in Client, Timeout(c)
      PROVE  LoopInv' /\ ReadAllOnSuccess'
  BY <1>9, LoopGoesOn DEF Timeout, Leave, Taken
<1>10. ASSUME NEW c \in Client, Return(c)
       PROVE  LoopInv' /\ ReadAllOnSuccess'
  <2>1. waitFor[c] = Nobody
    BY <1>10 DEF Return, LoopInv
  <2>2. QED
    BY <1>10, <2>1, LoopGoesOn DEF Return, Taken
<1>11. CASE Unregister \/ Register \/ UNCHANGED storeVars
  BY <1>11, LoopGoesOn DEF Unregister, Register, storeVars, Taken
<1>12. CASE Restart
  BY <1>12, LoopGoesOn DEF Restart, Taken
<1>13. QED
  BY <1>1, <1>2, <1>3, <1>4, <1>5, <1>6, <1>7, <1>8, <1>9, <1>10, <1>11, <1>12
     DEF StoreNext, ReadRequest, Fault

(* client.go:109-171, service.go:317-337: when readMailbox returns without   *)
(* an error, what the mailbox held at its start was handed over, or taken    *)
(* out by another reader, whatever was put, read and released meanwhile.     *)
THEOREM SuccessReadsAll == StoreSpec => []ReadAllOnSuccess
<1>1. StoreInit => LInv
  BY TypeInit, FateInit, LoopInit DEF LInv
<1>2. LInv /\ [StoreNext]_storeVars => LInv'
  BY TypeStep, FateStep, LoopStep DEF LInv
<1>3. LInv => ReadAllOnSuccess
  BY DEF LInv
<1>4. QED
  BY <1>1, <1>2, <1>3, PTL DEF StoreSpec

-----------------------------------------------------------------------------
(* The strengthening of KnownHadMailbox and ReleasedWereRead.              *)

CallRecord ==
    [op : {"none", "create", "read", "release"}, at : Stage, t : Nat, i : Nat,
     rest : SUBSET (Servers \cup Nat), due : SUBSET Msgs]

AnswerRecord ==
    [op : Op, id : Nat \X Nat, s : Servers, code : Int, page : SUBSET Msgs,
     more : BOOLEAN]

(* Where a call is tells what it is, and a read has a master and slivers   *)
(* to go through.                                                          *)
CallInv ==
    /\ call \in CallRecord
    /\ call.at \in {"seek", "pick", "made"} => call.op = "create"
    /\ call.at \in {"next", "read", "more", "release"} => call.op = "read"
    /\ call.op = "read" =>
          /\ call.at \in {"next", "read", "more", "release", "released"}
          /\ master \in Servers
          /\ call.rest \subseteq DOMAIN slivers

(* No message has an id that a request is yet to get.                      *)
FreshIds ==
    \A x \in reqs \cup answers :
        /\ x.id[1] =< calls
        /\ x.id[1] = calls /\ call.at # "idle" => x.id[2] =< call.i

(* An answer that says so is from a server that had the mailbox.           *)
MailboxesHad ==
    /\ \A s \in Servers : box[s] => s \in had
    /\ \A a \in answers :
          /\ a.op = "seek" /\ a.code = SuccCode => a.s \in had
          /\ a.op = "create" /\ a.code \in {SuccCode, AlreadyExistCode} =>
                a.s \in had

(* The message is of the request that the read under way made last.        *)
OfRead(x) == x.op = "read" /\ x.id = Id

(* While a read waits there is its request or one answer, of the server    *)
(* that is read, and what the read has still to return is in that mailbox  *)
(* or on that page; between two pages there is neither, and it is in the   *)
(* mailbox.                                                                *)
RequestOut ==
    \A r \in reqs : OfRead(r) => r.s = Reading /\ call.due \subseteq kept[Reading]
AnswerOut ==
    \A a \in answers : OfRead(a) =>
        /\ a.s = Reading
        /\ \A r \in reqs : ~OfRead(r)
        /\ \A b \in answers : OfRead(b) => b = a
        /\ a.code >= 0 =>
              call.due \subseteq a.page \cup (IF a.more THEN kept[Reading] ELSE {})
NoneOut == \A x \in reqs \cup answers : ~OfRead(x)

DueIsThere ==
    /\ call.at = "read" => RequestOut /\ AnswerOut
    /\ call.at = "more" => NoneOut /\ call.due \subseteq kept[Reading]

ClientInv ==
    /\ ClientTypeOK /\ CallInv
    /\ FreshIds
    /\ MailboxesHad /\ KnownHadMailbox
    /\ DueIsThere /\ ReleasedWereRead

LEMMA ClientInitial == ClientInit => ClientInv
BY BoundAssumption, NoneAssumption
DEF ClientInit, ClientInv, ClientTypeOK, CallInv, CallRecord, FreshIds, MailboxesHad,
    KnownHadMailbox, DueIsThere, ReleasedWereRead, Idle, Stage, Peer, InRange

(* The answers of the servers.                                             *)
LEMMA Codes ==
    /\ AnswerTo(SeekMailboxAdapter, Done) = 0
    /\ AnswerTo(SeekMailboxAdapter, [Failed EXCEPT !.code = NoExistCode]) = -1
    /\ AnswerTo(CreateMailboxAdapter, Done) = 0
    /\ AnswerTo(CreateMailboxAdapter, Coded(AlreadyExistCode)) = 0
    /\ AnswerTo(CreateMailboxAdapter, Failed) = -1
    /\ AnswerTo(ReadMailboxAdapter, Returned("page")) = 0
    /\ AnswerTo(ReadMailboxAdapter, Failed) = -1
    /\ AnswerTo(ReleaseMailboxAdapter, Done) = 0
    /\ AnswerTo(ReleaseMailboxAdapter, Failed) = -1
BY DEF AnswerTo, SeekMailboxAdapter, CreateMailboxAdapter, ReadMailboxAdapter,
       ReleaseMailboxAdapter, Done, Failed, Coded, Returned, GetRetCode, SuccCode,
       ErrCode, Data

LEMMA IdleFields ==
    /\ Idle \in CallRecord
    /\ Idle.op = "none" /\ Idle.at = "idle" /\ Idle.i = 0 /\ Idle.due = {}
BY DEF Idle, CallRecord, Stage

(* The server a read asks is one.                                          *)
LEMMA ReadsServer == ClientInv /\ call.op = "read" => Reading \in Servers
BY DEF ClientInv, CallInv, ClientTypeOK, Reading, IsSliver

(* A call that does not wait for a read, nor releases after one, owes      *)
(* nothing.                                                                *)
LEMMA NothingDue ==
    ASSUME call'.at \notin {"read", "more"},
           call'.op = "read" => call'.at \notin {"release", "released"}
    PROVE  DueIsThere' /\ ReleasedWereRead'
BY DEF DueIsThere, ReleasedWereRead

(* Nor does a step disturb a read that brings no message of a read, takes  *)
(* nothing out of a mailbox and leaves the call and its server alone.      *)
LEMMA ReadUndisturbed ==
    ASSUME ClientInv, UNCHANGED <<call, calls>>,
           call.op = "read" => Reading' = Reading,
           \A s \in Servers : kept[s] \subseteq kept'[s],
           \A x \in reqs' : x \in reqs \/ x.op # "read",
           \A x \in answers' : x \in answers \/ x.op # "read"
    PROVE  DueIsThere' /\ ReleasedWereRead'
<1>1. Id' = Id
  BY DEF Id
<1>2. ReleasedWereRead'
  BY DEF ClientInv, ReleasedWereRead
<1>3. CASE call.at \in {"read", "more"}
  <2>1. call.op = "read" /\ Reading' = Reading /\ Reading \in Servers
    BY <1>3, ReadsServer DEF ClientInv, CallInv
  <2>2. kept[Reading] \subseteq kept'[Reading']
    BY <2>1
  <2>3. /\ \A x \in reqs' : OfRead(x)' => x \in reqs /\ OfRead(x)
        /\ \A x \in answers' : OfRead(x)' => x \in answers /\ OfRead(x)
    BY <1>1 DEF OfRead
  <2>4. RequestOut => RequestOut'
    BY <2>1, <2>2, <2>3 DEF RequestOut
  <2>5. AnswerOut => AnswerOut'
    BY <2>1, <2>2, <2>3 DEF AnswerOut
  <2>6. NoneOut => NoneOut'
    BY <2>3 DEF NoneOut
  <2>7. QED
    BY <1>2, <2>1, <2>2, <2>4, <2>5, <2>6 DEF ClientInv, DueIsThere
<1>4. CASE call.at \notin {"read", "more"}
  BY <1>2, <1>4 DEF DueIsThere
<1>5. QED
  BY <1>3, <1>4

(* A call that is over, or goes on to the next mailbox.                    *)
LEMMA CallGoesOn ==
    ASSUME ClientInv, (call.op = "read" /\ ReadNext) \/ call' = Idle,
           answers' \subseteq answers, UNCHANGED <<serverVars, reqs, peerVars, calls>>
    PROVE  ClientInv'
<1> USE DEF ClientInv
<1>1. \/ call' = Idle
      \/ call.op = "read" /\ call' = [call EXCEPT !.at = "next", !.t = 0, !.due = {}]
  BY DEF ReadNext
<1>2. /\ call' \in CallRecord
      /\ call'.at \in {"idle", "next"}
      /\ \/ call' = Idle
         \/ /\ call'.op = "read" /\ call.op = "read" /\ call'.at = "next"
            /\ call'.rest = call.rest /\ call'.i = call.i
  <2>1. CASE call' = Idle
    BY <2>1, IdleFields
  <2>2. CASE call.op = "read" /\ call' = [call EXCEPT !.at = "next", !.t = 0, !.due = {}]
    <3>1. call \in CallRecord /\ "next" \in Stage /\ 0 \in Nat /\ {} \in SUBSET Msgs
      BY DEF CallInv, Stage
    <3>2. QED
      BY <2>2, <3>1 DEF CallRecord
  <2>3. QED
    BY <1>1, <2>1, <2>2
<1>3. ClientTypeOK'
  BY <1>2 DEF ClientTypeOK, CallRecord, serverVars, peerVars
<1>4. CallInv'
  BY <1>2, IdleFields DEF CallInv, peerVars
<1>5. FreshIds'
  <2>1. call'.at # "idle" => call.at # "idle" /\ call'.i = call.i
    BY <1>2, IdleFields DEF CallInv
  <2>2. QED
    BY <2>1 DEF FreshIds
<1>6. MailboxesHad' /\ KnownHadMailbox'
  BY DEF MailboxesHad, KnownHadMailbox, InRange, serverVars, peerVars
<1>7. DueIsThere' /\ ReleasedWereRead'
  BY <1>2, NothingDue
<1>8. QED
  BY <1>3, <1>4, <1>5, <1>6, <1>7

(* A server answers: the message is of the request.                        *)
LEMMA AnswerFields ==
    ASSUME ClientInv, NEW r \in reqs, NEW adapter, NEW o,
           AnswerTo(adapter, o) \in {-1, 0}
    PROVE  /\ Answer(r, adapter, o) \in AnswerRecord
           /\ Answer(r, adapter, o).op = r.op
           /\ Answer(r, adapter, o).id = r.id
           /\ Answer(r, adapter, o).s = r.s
           /\ Answer(r, adapter, o).code = AnswerTo(adapter, o)
BY DEF ClientInv, ClientTypeOK, Answer, AnswerWith, AnswerRecord

(* What an answer does to everything but the mailboxes and the read.       *)
LEMMA Answered ==
    ASSUME ClientInv, NEW r \in reqs, NEW a \in AnswerRecord,
           a.id = r.id, reqs' = reqs \ {r}, Send(a),
           UNCHANGED <<peerVars, calls>>, call'.at = call.at, call'.i = call.i
    PROVE  /\ reqs' \subseteq reqs /\ answers' \subseteq answers \cup {a}
           /\ answers' \subseteq AnswerRecord
           /\ FreshIds'
<1>1. answers' \subseteq answers \cup {a} /\ reqs' \subseteq reqs
  BY DEF Send
<1>2. answers' \subseteq AnswerRecord
  BY <1>1 DEF ClientInv, ClientTypeOK, AnswerRecord
<1>3. FreshIds'
  BY <1>1 DEF ClientInv, FreshIds
<1>4. QED
  BY <1>1, <1>2, <1>3

(* A step of a server that is not read leaves the call as it is.           *)
LEMMA ServerStep ==
    ASSUME ClientInv, NEW r \in reqs, NEW a \in AnswerRecord,
           a.id = r.id, a.op = r.op, r.op # "read", reqs' = reqs \ {r}, Send(a),
           UNCHANGED <<kept, sent, peerVars, calls, call>>,
           box' \in [Servers -> BOOLEAN], had \subseteq had', had' \subseteq Servers,
           \A s \in Servers : box'[s] => s \in had',
           /\ a.op = "seek" /\ a.code = SuccCode => a.s \in had'
           /\ a.op = "create" /\ a.code \in {SuccCode, AlreadyExistCode} =>
                a.s \in had'
    PROVE  ClientInv'
<1> USE DEF ClientInv
<1>1. /\ reqs' \subseteq reqs /\ answers' \subseteq answers \cup {a}
      /\ answers' \subseteq AnswerRecord /\ FreshIds'
  BY Answered
<1>2. ClientTypeOK'
  BY <1>1 DEF ClientTypeOK, AnswerRecord, peerVars
<1>3. CallInv'
  BY DEF CallInv, peerVars
<1>4. MailboxesHad' /\ KnownHadMailbox'
  BY <1>1 DEF MailboxesHad, KnownHadMailbox, InRange, peerVars
<1>5. DueIsThere' /\ ReleasedWereRead'
  <2>1. Reading' = Reading
    BY DEF Reading, IsSliver, peerVars
  <2>2. QED
    BY <1>1, <2>1, ReadUndisturbed
<1>6. QED
  BY <1>1, <1>2, <1>3, <1>4, <1>5

(* The sequence of slivers grows at its end.                               *)
LEMMA AppendSliver ==
    ASSUME NEW q \in Seq(Servers), NEW s \in Servers
    PROVE  /\ Append(q, s) \in Seq(Servers)
           /\ DOMAIN q \subseteq DOMAIN Append(q, s)
           /\ \A j \in DOMAIN q : Append(q, s)[j] = q[j]
           /\ InRange(Append(q, s)) = InRange(q) \cup {s}
<1>1. /\ Append(q, s) \in Seq(Servers)
      /\ DOMAIN Append(q, s) = DOMAIN q \cup {Len(q) + 1}
      /\ \A j \in DOMAIN q : Append(q, s)[j] = q[j]
      /\ Append(q, s)[Len(q) + 1] = s
  OBVIOUS
<1>2. QED
  BY <1>1 DEF InRange

LEMMA PageFields ==
    ASSUME ClientInv, NEW r \in reqs, r.op = "read",
           NEW got \in SUBSET Msgs, NEW left \in BOOLEAN
    PROVE  LET a == AnswerWith(r, ReadMailboxAdapter, Returned("page"), got, left)
           IN /\ a \in AnswerRecord /\ a.op = "read" /\ a.id = r.id /\ a.s = r.s
              /\ a.page = got /\ a.more = left /\ a.code = 0
BY Codes DEF ClientInv, ClientTypeOK, AnswerWith, AnswerRecord

(* A page is served: what the read under way has still to return stays in  *)
(* the mailbox or is on the page, or an earlier read has it.               *)
LEMMA PageServed ==
    ASSUME ClientInv, NEW r \in reqs, r.op = "read", reqs' = reqs \ {r},
           NEW got \in SUBSET kept[r.s], NEW stays \in SUBSET got,
           ServePage(r, got, stays), UNCHANGED <<box, had, sent, peerVars, calls>>
    PROVE  ClientInv'
<1> DEFINE left == got # kept[r.s]
           a == AnswerWith(r, ReadMailboxAdapter, Returned("page"), got, left)
           deleted == got \ stays
<1> USE DEF ClientInv
<1>a. r.s \in Servers /\ got \in SUBSET Msgs /\ left \in BOOLEAN
      /\ (left = (got # kept[r.s]))
  BY DEF ClientTypeOK
<1>b. /\ Send(a)
      /\ kept' = [kept EXCEPT ![r.s] = @ \ deleted]
      /\ call' = IF call.op = "read" /\ r.s = Reading /\ r.id # Id
                 THEN [call EXCEPT !.due = @ \ deleted] ELSE call
  BY DEF ServePage
<1> HIDE DEF left
<1>1. /\ a \in AnswerRecord /\ a.op = "read" /\ a.id = r.id /\ a.s = r.s
      /\ a.page = got /\ a.more = left /\ a.code = 0
  BY <1>a, PageFields
<1>2. /\ Send(a)
      /\ kept' = [kept EXCEPT ![r.s] = @ \ deleted]
      /\ call' = IF call.op = "read" /\ r.s = Reading /\ r.id # Id
                 THEN [call EXCEPT !.due = @ \ deleted] ELSE call
  BY <1>b
<1> HIDE DEF a, deleted
<1>3. /\ call' \in CallRecord /\ call'.op = call.op /\ call'.at = call.at
      /\ call'.i = call.i /\ call'.rest = call.rest
      /\ call'.due = IF call.op = "read" /\ r.s = Reading /\ r.id # Id
                     THEN call.due \ deleted ELSE call.due
  BY <1>2 DEF CallInv, CallRecord
<1>4. /\ reqs' \subseteq reqs /\ answers' \subseteq answers \cup {a}
      /\ answers' \subseteq AnswerRecord /\ FreshIds'
  BY <1>1, <1>2, <1>3, Answered
<1>5. ClientTypeOK'
  <2>1. kept' \in [Servers -> SUBSET Msgs]
    BY <1>2 DEF ClientTypeOK
  <2>2. QED
    BY <1>3, <1>4, <2>1 DEF ClientTypeOK, AnswerRecord, CallRecord, peerVars
<1>6. CallInv'
  BY <1>3 DEF CallInv, peerVars
<1>7. MailboxesHad' /\ KnownHadMailbox'
  BY <1>1, <1>4 DEF MailboxesHad, KnownHadMailbox, InRange, peerVars
<1>8. ReleasedWereRead'
  BY <1>3 DEF ReleasedWereRead
<1>9. Id' = Id /\ Reading' = Reading
  BY <1>3 DEF Id, Reading, IsSliver, peerVars
<1>10. DueIsThere'
  <2>1. CASE call.at \notin {"read", "more"}
    BY <1>3, <2>1 DEF DueIsThere
  <2>2. CASE call.at \in {"read", "more"} /\ r.id # Id
    <3>1. call.op = "read" /\ Reading \in Servers
      BY <2>2, ReadsServer DEF CallInv
    <3>2. /\ \A x \in reqs' : OfRead(x)' => x \in reqs /\ OfRead(x)
          /\ \A x \in answers' : OfRead(x)' => x \in answers /\ OfRead(x)
      BY <1>1, <1>4, <1>9, <2>2 DEF OfRead
    <3>3. \A S : call.due \subseteq S \cup kept[Reading] =>
                   call'.due \subseteq S \cup kept'[Reading']
      <4>1. CASE r.s = Reading
        BY <1>2, <1>3, <1>9, <2>2, <3>1, <4>1 DEF ClientTypeOK
      <4>2. CASE r.s # Reading
        <5>1. kept'[Reading'] = kept[Reading]
          BY <1>2, <1>9, <3>1, <4>2 DEF ClientTypeOK
        <5>2. QED
          BY <1>3, <4>2, <5>1
      <4>3. QED
        BY <4>1, <4>2
    <3>4. call'.due \subseteq call.due
      BY <1>3
    <3>5. RequestOut => RequestOut'
      <4>1. call.due \subseteq kept[Reading] => call'.due \subseteq kept'[Reading']
        BY <3>3
      <4>2. QED
        BY <1>9, <3>2, <4>1 DEF RequestOut
    <3>6. AnswerOut => AnswerOut'
      <4>1. \A b \in answers :
               call.due \subseteq b.page \cup (IF b.more THEN kept[Reading] ELSE {}) =>
                 call'.due \subseteq b.page \cup (IF b.more THEN kept'[Reading'] ELSE {})
        BY <3>3, <3>4
      <4>2. QED
        BY <1>9, <3>2, <4>1 DEF AnswerOut
    <3>7. NoneOut => NoneOut'
      BY <3>2 DEF NoneOut
    <3>8. call.due \subseteq kept[Reading] => call'.due \subseteq kept'[Reading']
      BY <3>3
    <3>9. QED
      BY <1>3, <3>5, <3>6, <3>7, <3>8 DEF DueIsThere
  <2>3. CASE call.at \in {"read", "more"} /\ r.id = Id
    <3>1. OfRead(r)
      BY <2>3 DEF OfRead
    <3>2. call.at = "read" /\ RequestOut /\ AnswerOut
      BY <2>3, <3>1 DEF DueIsThere, NoneOut
    <3>3. /\ r.s = Reading /\ call.due \subseteq kept[Reading] /\ Reading \in Servers
          /\ \A x \in reqs : OfRead(x) => x = r
          /\ \A b \in answers : ~OfRead(b)
      <4>1. r.s = Reading /\ call.due \subseteq kept[Reading] /\ Reading \in Servers
        BY <3>1, <3>2, ReadsServer DEF RequestOut, CallInv
      <4>2. \A x \in reqs : OfRead(x) => x = r
        BY <3>1, <3>2 DEF RequestOut, OfRead, ClientTypeOK
      <4>3. \A b \in answers : ~OfRead(b)
        BY <3>1, <3>2 DEF AnswerOut
      <4>4. QED
        BY <4>1, <4>2, <4>3
    <3>4. call'.due = call.due /\ kept'[Reading'] = kept[Reading] \ deleted
      BY <1>2, <1>3, <1>9, <2>3, <3>3 DEF ClientTypeOK
    <3>5. call'.due \subseteq a.page \cup (IF a.more THEN kept'[Reading'] ELSE {})
      BY <1>a, <1>1, <3>3, <3>4 DEF deleted
    <3>6. /\ \A x \in reqs' : ~OfRead(x)'
          /\ \A x \in answers' : OfRead(x)' => x = a
      BY <1>4, <1>9, <3>3 DEF OfRead
    <3>7. RequestOut' /\ AnswerOut'
      BY <1>1, <1>9, <3>3, <3>5, <3>6 DEF RequestOut, AnswerOut
    <3>8. QED
      BY <1>3, <3>2, <3>7 DEF DueIsThere
  <2>4. QED
    BY <2>1, <2>2, <2>3
<1>11. QED
  BY <1>4, <1>5, <1>6, <1>7, <1>8, <1>10

LEMMA ClientStep == ClientInv /\ [ClientNext]_callerVars => ClientInv'
<1> SUFFICES ASSUME ClientInv, [ClientNext]_callerVars PROVE ClientInv'
  OBVIOUS
<1> USE BoundAssumption, NoneAssumption
<1> USE DEF ClientInv
<1>1. ASSUME NEW m \in Msgs, Publish(m) PROVE ClientInv'
  <2>1. ClientTypeOK'
    BY <1>1 DEF Publish, ClientTypeOK, netVars, peerVars
  <2>2. CallInv' /\ FreshIds'
    BY <1>1 DEF Publish, CallInv, FreshIds, netVars, peerVars
  <2>3. MailboxesHad' /\ KnownHadMailbox'
    BY <1>1 DEF Publish, MailboxesHad, KnownHadMailbox, netVars, peerVars, InRange
  <2>4. DueIsThere' /\ ReleasedWereRead'
    <3>1. \A s \in Servers : kept[s] \subseteq kept'[s]
      BY <1>1 DEF Publish
    <3>2. Reading' = Reading
      BY <1>1 DEF Publish, Reading, IsSliver, peerVars
    <3>3. UNCHANGED <<call, calls, reqs, answers>>
      BY <1>1 DEF Publish, netVars
    <3>4. QED
      BY <3>1, <3>2, <3>3, ReadUndisturbed
  <2>5. QED
    BY <2>1, <2>2, <2>3, <2>4
<1>2. ASSUME NEW r \in reqs, ServeSeek(r) PROVE ClientInv'
  <2>1. PICK o \in {Done, [Failed EXCEPT !.code = NoExistCode]} :
          /\ o = Done => box[r.s]
          /\ Send(Answer(r, SeekMailboxAdapter, o))
    BY <1>2 DEF ServeSeek, Done, Failed
  <2>2. AnswerTo(SeekMailboxAdapter, o) \in {-1, 0}
        /\ (AnswerTo(SeekMailboxAdapter, o) = 0 => o = Done)
    BY <2>1, Codes
  <2> DEFINE a == Answer(r, SeekMailboxAdapter, o)
  <2>3. /\ a \in AnswerRecord /\ a.op = "seek" /\ a.id = r.id /\ a.s = r.s
        /\ a.code = AnswerTo(SeekMailboxAdapter, o) /\ r.op = "seek"
    BY <1>2, <2>2, AnswerFields DEF ServeSeek
  <2>4. a.code = SuccCode => a.s \in had
    BY <2>1, <2>2, <2>3 DEF SuccCode, MailboxesHad, ClientTypeOK
  <2> HIDE DEF a
  <2>5. UNCHANGED <<box, had, kept, sent, peerVars, calls, call>> /\ reqs' = reqs \ {r}
    BY <1>2 DEF ServeSeek, serverVars
  <2>6. Send(a)
    BY <2>1 DEF a
  <2>7. QED
    BY <2>3, <2>4, <2>5, <2>6, ServerStep DEF ClientTypeOK, MailboxesHad
<1>3. ASSUME NEW r \in reqs, ServeCreate(r) PROVE ClientInv'
  <2>1. PICK o \in {IF box[r.s] THEN Coded(AlreadyExistCode) ELSE Done, Failed} :
           /\ box' = [box EXCEPT ![r.s] = @ \/ ~o.err]
           /\ had' = IF o.err THEN had ELSE had \cup {r.s}
           /\ Send(Answer(r, CreateMailboxAdapter, o))
    BY <1>3 DEF ServeCreate
  <2> DEFINE a == Answer(r, CreateMailboxAdapter, o)
  <2>2. \/ o = Failed /\ o.err = TRUE /\ AnswerTo(CreateMailboxAdapter, o) = -1
        \/ o.err = FALSE /\ AnswerTo(CreateMailboxAdapter, o) = 0
    <3>1. o = Coded(AlreadyExistCode) \/ o = Done \/ o = Failed
      BY <2>1
    <3>2. Failed.err = TRUE /\ Done.err = FALSE /\ Coded(AlreadyExistCode).err = FALSE
      BY DEF Done, Coded, Failed
    <3>3. QED
      BY <3>1, <3>2, Codes
  <2>3. /\ a \in AnswerRecord /\ a.op = "create" /\ a.id = r.id /\ a.s = r.s
        /\ a.code = AnswerTo(CreateMailboxAdapter, o) /\ r.op = "create"
    BY <1>3, <2>2, AnswerFields DEF ServeCreate
  <2>4. r.s \in Servers
    BY DEF ClientTypeOK
  <2>5. /\ had \subseteq had' /\ had' \subseteq Servers
        /\ a.code \in {SuccCode, AlreadyExistCode} => a.s \in had'
    BY <2>1, <2>2, <2>3, <2>4 DEF ClientTypeOK, SuccCode, AlreadyExistCode
  <2>6. box' \in [Servers -> BOOLEAN] /\ \A s \in Servers : box'[s] => s \in had'
    <3>1. CASE o.err = TRUE
      <4>1. box' = box /\ had' = had
        BY <2>1, <3>1 DEF ClientTypeOK
      <4>2. QED
        BY <4>1 DEF ClientTypeOK, MailboxesHad
    <3>2. CASE o.err = FALSE
      <4>1. box' = [box EXCEPT ![r.s] = TRUE] /\ had' = had \cup {r.s}
        BY <2>1, <3>2
      <4>2. QED
        BY <2>4, <4>1 DEF ClientTypeOK, MailboxesHad
    <3>3. QED
      BY <2>2, <3>1, <3>2
  <2> HIDE DEF a
  <2>7. UNCHANGED <<kept, sent, peerVars, calls, call>> /\ reqs' = reqs \ {r}
    BY <1>3 DEF ServeCreate
  <2>8. Send(a)
    BY <2>1 DEF a
  <2>9. QED
    BY <2>3, <2>5, <2>6, <2>7, <2>8, ServerStep
<1>4. ASSUME NEW r \in reqs, ServeRead(r) PROVE ClientInv'
  <2>1. r.op = "read" /\ reqs' = reqs \ {r} /\ UNCHANGED <<box, had, sent, peerVars, calls>>
    BY <1>4 DEF ServeRead
  <2>2. CASE Failing(r)
    <3> DEFINE a == Answer(r, ReadMailboxAdapter, Failed)
    <3>1. /\ a \in AnswerRecord /\ a.op = "read" /\ a.id = r.id /\ a.s = r.s
          /\ a.code = -1
      BY <2>1, Codes, AnswerFields
    <3>2. Send(a) /\ UNCHANGED <<kept, call>>
      BY <2>2 DEF Failing
    <3> HIDE DEF a
    <3>3. /\ reqs' \subseteq reqs /\ answers' \subseteq answers \cup {a}
          /\ answers' \subseteq AnswerRecord /\ FreshIds'
      BY <2>1, <3>1, <3>2, Answered
    <3>4. ClientTypeOK'
      BY <2>1, <3>2, <3>3 DEF ClientTypeOK, AnswerRecord, peerVars
    <3>5. CallInv'
      BY <2>1, <3>2 DEF CallInv, peerVars
    <3>6. MailboxesHad' /\ KnownHadMailbox'
      BY <2>1, <3>1, <3>3 DEF MailboxesHad, KnownHadMailbox, InRange, peerVars
    <3>7. Id' = Id /\ Reading' = Reading
      BY <2>1, <3>2 DEF Id, Reading, IsSliver, peerVars
    <3>8. ReleasedWereRead'
      BY <3>2 DEF ReleasedWereRead
    <3>9. DueIsThere'
      <4>1. CASE call.at \notin {"read", "more"}
        BY <3>2, <4>1 DEF DueIsThere
      <4>2. CASE call.at = "more"
        <5>1. ~OfRead(r) /\ ~OfRead(a)
          BY <3>1, <4>2, <2>1 DEF DueIsThere, NoneOut, OfRead
        <5>2. NoneOut'
          BY <3>3, <3>7, <4>2, <5>1 DEF DueIsThere, NoneOut, OfRead
        <5>3. QED
          BY <3>2, <3>7, <4>2, <5>2 DEF DueIsThere
      <4>3. CASE call.at = "read"
        <5>1. RequestOut'
          BY <3>2, <3>3, <3>7, <4>3 DEF DueIsThere, RequestOut, OfRead
        <5>2. AnswerOut'
          <6>1. CASE OfRead(r)
            <7>1. r.s = Reading /\ \A x \in reqs : OfRead(x) => x = r
              BY <4>3, <6>1 DEF DueIsThere, RequestOut, OfRead, ClientTypeOK
            <7>2. \A b \in answers : ~OfRead(b)
              BY <4>3, <6>1 DEF DueIsThere, AnswerOut
            <7>3. /\ \A x \in reqs' : ~OfRead(x)'
                  /\ \A b \in answers' : OfRead(b)' => b = a
              BY <2>1, <3>3, <3>7, <7>1, <7>2 DEF OfRead
            <7>4. a.s = Reading' /\ ~(a.code >= 0)
              BY <3>1, <3>7, <7>1
            <7>5. QED
              BY <7>3, <7>4 DEF AnswerOut
          <6>2. CASE ~OfRead(r)
            <7>1. ~OfRead(a)
              BY <2>1, <3>1, <6>2 DEF OfRead
            <7>2. /\ \A x \in reqs' : OfRead(x)' => x \in reqs /\ OfRead(x)
                  /\ \A b \in answers' : OfRead(b)' => b \in answers /\ OfRead(b)
              BY <3>3, <3>7, <7>1 DEF OfRead
            <7>3. QED
              BY <3>2, <3>7, <4>3, <7>2 DEF DueIsThere, AnswerOut
          <6>3. QED
            BY <6>1, <6>2
        <5>3. QED
          BY <3>2, <4>3, <5>1, <5>2 DEF DueIsThere
      <4>4. QED
        BY <4>1, <4>2, <4>3
    <3>10. QED
      BY <3>3, <3>4, <3>5, <3>6, <3>8, <3>9
  <2>3. CASE ~Failing(r)
    <3>1. PICK got \in SUBSET kept[r.s] : \E stays \in SUBSET got :
             ServePage(r, got, stays)
      BY <1>4, <2>3 DEF ServeRead
    <3>2. PICK stays \in SUBSET got : ServePage(r, got, stays)
      BY <3>1
    <3>3. QED
      BY <2>1, <3>2, PageServed
  <2>4. QED
    BY <2>2, <2>3
<1>5. ASSUME NEW r \in reqs, ServeRelease(r) PROVE ClientInv'
  <2>1. PICK o \in {Done, Failed} : Send(Answer(r, ReleaseMailboxAdapter, o))
    BY <1>5 DEF ServeRelease
  <2> DEFINE a == Answer(r, ReleaseMailboxAdapter, o)
  <2>2. /\ a \in AnswerRecord /\ a.op = "release" /\ a.id = r.id /\ r.op = "release"
    BY <1>5, <2>1, Codes, AnswerFields DEF ServeRelease
  <2> HIDE DEF a
  <2>3. /\ UNCHANGED <<had, kept, sent, peerVars, calls, call>> /\ reqs' = reqs \ {r}
        /\ box' = [box EXCEPT ![r.s] = FALSE]
    BY <1>5 DEF ServeRelease
  <2>4. box' \in [Servers -> BOOLEAN] /\ \A s \in Servers : box'[s] => s \in had'
    BY <2>3 DEF ClientTypeOK, MailboxesHad
  <2>5. Send(a)
    BY <2>1 DEF a
  <2>6. QED
    BY <2>2, <2>3, <2>4, <2>5, ServerStep DEF ClientTypeOK
<1>6. ASSUME NEW a \in answers, SeekAnswer(a) PROVE ClientInv'
  <2>a. /\ master' \in Peer /\ slivers' \in Seq(Servers)
        /\ DOMAIN slivers \subseteq DOMAIN slivers'
        /\ \A j \in DOMAIN slivers : slivers'[j] = slivers[j]
        /\ master \in Servers => master' = master
        /\ InRange(slivers') \cup ({master'} \ {NoPeer}) \subseteq had
    <3>1. a.s \in Servers /\ (a.code = SuccCode => a.s \in had)
      BY <1>6 DEF SeekAnswer, ClientTypeOK, MailboxesHad
    <3>2. CASE a.code # SuccCode
      BY <1>6, <3>2 DEF SeekAnswer, peerVars, ClientTypeOK, KnownHadMailbox
    <3>3. CASE a.code = SuccCode /\ master = NoPeer
      BY <1>6, <3>1, <3>3 DEF SeekAnswer, ClientTypeOK, KnownHadMailbox, Peer
    <3>4. CASE a.code = SuccCode /\ master # NoPeer
      <4>1. master' = master /\ slivers' = Append(slivers, a.s)
        BY <1>6, <3>4 DEF SeekAnswer
      <4>2. QED
        BY <3>1, <3>4, <4>1, AppendSliver DEF ClientTypeOK, KnownHadMailbox
    <3>5. QED
      BY <3>2, <3>3, <3>4
  <2>b. /\ answers' \subseteq answers /\ UNCHANGED <<serverVars, reqs, calls>>
        /\ call' = call \/ call' = Idle
    BY <1>6 DEF SeekAnswer
  <2>1. ClientTypeOK'
    BY <2>a, <2>b, IdleFields DEF ClientTypeOK, CallRecord, serverVars
  <2>2. CallInv'
    <3>1. CASE call' = Idle
      BY <3>1, IdleFields DEF CallInv
    <3>2. CASE call' = call
      BY <2>a, <3>2 DEF CallInv
    <3>3. QED
      BY <2>b, <3>1, <3>2
  <2>3. FreshIds'
    BY <2>b, IdleFields DEF FreshIds
  <2>4. MailboxesHad' /\ KnownHadMailbox'
    BY <2>a, <2>b DEF MailboxesHad, KnownHadMailbox, serverVars
  <2>5. DueIsThere' /\ ReleasedWereRead'
    <3>1. CASE call' = Idle
      BY <3>1, IdleFields, NothingDue
    <3>2. CASE call' = call
      <4>1. call.op = "read" => Reading' = Reading
        BY <2>a, <3>2 DEF CallInv, IsSliver, Reading
      <4>2. /\ UNCHANGED <<call, calls>> /\ \A s \in Servers : kept[s] \subseteq kept'[s]
            /\ \A x \in reqs' : x \in reqs \/ x.op # "read"
            /\ \A x \in answers' : x \in answers \/ x.op # "read"
        BY <2>b, <3>2 DEF serverVars
      <4>3. QED
        BY <4>1, <4>2, ReadUndisturbed
    <3>3. QED
      BY <2>b, <3>1, <3>2
  <2>6. QED
    BY <2>1, <2>2, <2>3, <2>4, <2>5
<1>7. ASSUME NEW a \in answers, CreateAnswer(a) PROVE ClientInv'
  <2>a. /\ call' \in CallRecord /\ call'.at \in {"idle", "pick"}
        /\ call'.op \in {"create", "none"} /\ (call'.at # "idle" => call'.i = call.i)
        /\ call'.at # "idle" => call'.op = "create"
        /\ answers' \subseteq answers /\ UNCHANGED <<serverVars, reqs, slivers, calls>>
        /\ call.at = "made"
    <3>1. call' = Idle \/ call' = [call EXCEPT !.at = "pick"]
      BY <1>7 DEF CreateAnswer
    <3>2. call \in CallRecord /\ call.op = "create" /\ call.at = "made" /\ "pick" \in Stage
      BY <1>7 DEF CreateAnswer, CallInv, Stage
    <3>3. QED
      BY <1>7, <3>1, <3>2, IdleFields DEF CreateAnswer, CallRecord
  <2>b. \/ master' = master
        \/ master' = a.s /\ a.s \in had
    BY <1>7 DEF CreateAnswer, MailboxesHad
  <2>1. ClientTypeOK'
    BY <2>a, <2>b DEF ClientTypeOK, serverVars, Peer, CallRecord
  <2>2. CallInv'
    BY <2>a DEF CallInv
  <2>3. FreshIds'
    BY <2>a DEF FreshIds
  <2>4. MailboxesHad' /\ KnownHadMailbox'
    BY <2>a, <2>b DEF MailboxesHad, KnownHadMailbox, serverVars, InRange
  <2>5. DueIsThere' /\ ReleasedWereRead'
    BY <2>a, NothingDue
  <2>6. QED
    BY <2>1, <2>2, <2>3, <2>4, <2>5
<1>8. ASSUME NEW a \in answers, ReadAnswer(a) PROVE ClientInv'
  <2>a. /\ call.at = "read" /\ OfRead(a) /\ call.op = "read"
        /\ answers' = answers \ {a} /\ UNCHANGED <<serverVars, reqs, peerVars, calls>>
    BY <1>8 DEF ReadAnswer, CallInv, OfRead
  <2>b. /\ a.s = Reading /\ \A r \in reqs : ~OfRead(r)
        /\ \A b \in answers : OfRead(b) => b = a
        /\ a.code >= 0 => call.due \subseteq a.page \cup (IF a.more THEN kept[Reading] ELSE {})
    BY <2>a DEF DueIsThere, AnswerOut
  <2>1. CASE ReadNext
    BY <2>1, <2>a, CallGoesOn
  <2>2. ASSUME NEW at \in {"more", "release"}, a.code >= 0,
               call' = [call EXCEPT !.at = at, !.due = @ \ a.page],
               at = "release" => ~a.more
        PROVE  ClientInv'
    <3>1. /\ call' \in CallRecord /\ call'.at = at /\ call'.op = "read"
          /\ call'.i = call.i /\ call'.rest = call.rest /\ call'.due = call.due \ a.page
      <4>1. call \in CallRecord /\ at \in Stage
        BY DEF CallInv, Stage
      <4>2. QED
        BY <2>a, <2>2, <4>1 DEF CallRecord
    <3>2. Reading' = Reading /\ Id' = Id
      BY <2>a, <3>1 DEF IsSliver, Reading, Id, peerVars
    <3>3. ClientTypeOK'
      BY <2>a, <3>1 DEF ClientTypeOK, CallRecord, serverVars, peerVars
    <3>4. CallInv'
      BY <2>a, <3>1 DEF CallInv, peerVars
    <3>5. FreshIds'
      BY <2>a, <3>1 DEF FreshIds
    <3>6. MailboxesHad' /\ KnownHadMailbox'
      BY <2>a DEF MailboxesHad, KnownHadMailbox, InRange, serverVars, peerVars
    <3>7. DueIsThere'
      <4>1. NoneOut'
        BY <2>a, <2>b, <3>2 DEF NoneOut, OfRead
      <4>2. at = "more" => call'.due \subseteq kept'[Reading']
        BY <2>a, <2>b, <2>2, <3>1, <3>2 DEF serverVars
      <4>3. QED
        BY <3>1, <4>1, <4>2 DEF DueIsThere
    <3>8. ReleasedWereRead'
      BY <2>b, <2>2, <3>1 DEF ReleasedWereRead
    <3>9. QED
      BY <3>3, <3>4, <3>5, <3>6, <3>7, <3>8
  <2>3. QED
    <3>1. \/ ReadNext
          \/ /\ a.code >= 0 /\ a.more
             /\ call' = [call EXCEPT !.at = "more", !.due = @ \ a.page]
          \/ /\ a.code >= 0 /\ ~a.more
             /\ call' = [call EXCEPT !.at = "release", !.due = @ \ a.page]
      BY <1>8 DEF ReadAnswer, ReadSucceeds
    <3>2. QED
      BY <2>1, <2>2, <3>1
<1>9. ASSUME NEW a \in answers, ReleaseAnswer(a) PROVE ClientInv'
  <2>1. (call.op = "read" /\ ReadNext) \/ call' = Idle
    BY <1>9 DEF ReleaseAnswer, ReleaseDone
  <2>2. answers' \subseteq answers /\ UNCHANGED <<serverVars, reqs, peerVars, calls>>
    BY <1>9 DEF ReleaseAnswer
  <2>3. QED
    BY <2>1, <2>2, CallGoesOn
<1>10. ASSUME CreateMailbox PROVE ClientInv'
  <2>1. ClientTypeOK'
    BY <1>10 DEF CreateMailbox, ClientTypeOK, Idle, AskServer, serverVars, netVars, peerVars, Op,
             Peer, Stage
  <2>2. CallInv'
    BY <1>10 DEF CreateMailbox, CallInv, Idle, AskServer, serverVars, netVars, peerVars,
             CallRecord, Stage
  <2>3. FreshIds'
    BY <1>10 DEF CreateMailbox, FreshIds, Idle, AskServer, serverVars, netVars, peerVars,
             ClientTypeOK
  <2>4. MailboxesHad' /\ KnownHadMailbox'
    BY <1>10 DEF CreateMailbox, MailboxesHad, KnownHadMailbox, AskServer, serverVars, netVars,
             peerVars, InRange
  <2>5. DueIsThere' /\ ReleasedWereRead'
    <3>1. /\ call'.at \notin {"read", "more"}
          /\ call'.op = "read" => call'.at \notin {"release", "released"}
      BY <1>10, IdleFields DEF CreateMailbox, CallInv, CallRecord, Idle
    <3>2. QED
      BY <3>1, NothingDue
  <2>6. QED
    BY <2>1, <2>2, <2>3, <2>4, <2>5
<1>11. ASSUME ReadMailbox PROVE ClientInv'
  <2>1. ClientTypeOK'
    BY <1>11 DEF ReadMailbox, ClientTypeOK, Idle, AskServer, serverVars, netVars, peerVars, Op,
             Peer, Stage
  <2>2. CallInv'
    <3>1. /\ call'.op = "read" /\ call'.at = "next" /\ call'.rest = 1..Len(slivers)
          /\ call' \in CallRecord
      <4>1. "read" \in {"none", "create", "read", "release"} /\ "next" \in Stage
            /\ 1..Len(slivers) \in SUBSET (Servers \cup Nat)
        BY DEF Stage
      <4>2. QED
        BY <1>11, <4>1, IdleFields DEF ReadMailbox, CallRecord
    <3>2. master' \in Servers /\ slivers' = slivers
      BY <1>11 DEF ReadMailbox, peerVars, ClientTypeOK, Peer
    <3>3. QED
      BY <3>1, <3>2 DEF CallInv, ClientTypeOK
  <2>3. FreshIds'
    BY <1>11 DEF ReadMailbox, FreshIds, Idle, AskServer, serverVars, netVars, peerVars,
             ClientTypeOK
  <2>4. MailboxesHad' /\ KnownHadMailbox'
    BY <1>11 DEF ReadMailbox, MailboxesHad, KnownHadMailbox, AskServer, serverVars, netVars,
             peerVars, InRange
  <2>5. DueIsThere' /\ ReleasedWereRead'
    <3>1. /\ call'.at \notin {"read", "more"}
          /\ call'.op = "read" => call'.at \notin {"release", "released"}
      BY <1>11, IdleFields DEF ReadMailbox, CallInv, CallRecord, Idle
    <3>2. QED
      BY <3>1, NothingDue
  <2>6. QED
    BY <2>1, <2>2, <2>3, <2>4, <2>5
<1>12. ASSUME CallReleaseMailbox PROVE ClientInv'
  <2>1. ClientTypeOK'
    BY <1>12 DEF CallReleaseMailbox, ClientTypeOK, Idle, AskServer, serverVars, netVars, peerVars, Op,
             Peer, Stage
  <2>2. CallInv'
    BY <1>12 DEF CallReleaseMailbox, CallInv, Idle, AskServer, serverVars, netVars, peerVars,
             CallRecord, Stage
  <2>3. FreshIds'
    BY <1>12 DEF CallReleaseMailbox, FreshIds, Idle, AskServer, serverVars, netVars, peerVars,
             ClientTypeOK
  <2>4. MailboxesHad' /\ KnownHadMailbox'
    BY <1>12 DEF CallReleaseMailbox, MailboxesHad, KnownHadMailbox, AskServer, serverVars, netVars,
             peerVars, InRange
  <2>5. DueIsThere' /\ ReleasedWereRead'
    <3>1. /\ call'.at \notin {"read", "more"}
          /\ call'.op = "read" => call'.at \notin {"release", "released"}
      BY <1>12, IdleFields DEF CallReleaseMailbox, CallInv, CallRecord, Idle
    <3>2. QED
      BY <3>1, NothingDue
  <2>6. QED
    BY <2>1, <2>2, <2>3, <2>4, <2>5
<1>13. ASSUME SeekTimeout PROVE ClientInv'
  <2>1. ClientTypeOK'
    BY <1>13 DEF SeekTimeout, ClientTypeOK, Idle, AskServer, serverVars, netVars, peerVars, Op,
             Peer, Stage
  <2>2. CallInv'
    BY <1>13 DEF SeekTimeout, CallInv, Idle, AskServer, serverVars, netVars, peerVars,
             CallRecord, Stage
  <2>3. FreshIds'
    BY <1>13 DEF SeekTimeout, FreshIds, Idle, AskServer, serverVars, netVars, peerVars,
             ClientTypeOK
  <2>4. MailboxesHad' /\ KnownHadMailbox'
    BY <1>13 DEF SeekTimeout, MailboxesHad, KnownHadMailbox, AskServer, serverVars, netVars,
             peerVars, InRange
  <2>5. DueIsThere' /\ ReleasedWereRead'
    <3>1. /\ call'.at \notin {"read", "more"}
          /\ call'.op = "read" => call'.at \notin {"release", "released"}
      BY <1>13, IdleFields DEF SeekTimeout, CallInv, CallRecord, Idle
    <3>2. QED
      BY <3>1, NothingDue
  <2>6. QED
    BY <2>1, <2>2, <2>3, <2>4, <2>5
<1>14. ASSUME CreateTimeout PROVE ClientInv'
  <2>1. ClientTypeOK'
    BY <1>14 DEF CreateTimeout, ClientTypeOK, Idle, AskServer, serverVars, netVars, peerVars, Op,
             Peer, Stage, GiveUp
  <2>2. CallInv'
    BY <1>14 DEF CreateTimeout, CallInv, Idle, AskServer, serverVars, netVars, peerVars,
             CallRecord, Stage
  <2>3. FreshIds'
    BY <1>14 DEF CreateTimeout, FreshIds, Idle, AskServer, serverVars, netVars, peerVars,
             ClientTypeOK, GiveUp
  <2>4. MailboxesHad' /\ KnownHadMailbox'
    BY <1>14 DEF CreateTimeout, MailboxesHad, KnownHadMailbox, AskServer, serverVars, netVars,
             peerVars, InRange, GiveUp
  <2>5. DueIsThere' /\ ReleasedWereRead'
    <3>1. /\ call'.at \notin {"read", "more"}
          /\ call'.op = "read" => call'.at \notin {"release", "released"}
      BY <1>14, IdleFields DEF CreateTimeout, CallInv, CallRecord, Idle
    <3>2. QED
      BY <3>1, NothingDue
  <2>6. QED
    BY <2>1, <2>2, <2>3, <2>4, <2>5
<1>15. ASSUME CreateNone PROVE ClientInv'
  <2>1. ClientTypeOK'
    BY <1>15 DEF CreateNone, ClientTypeOK, Idle, AskServer, serverVars, netVars, peerVars, Op,
             Peer, Stage
  <2>2. CallInv'
    BY <1>15 DEF CreateNone, CallInv, Idle, AskServer, serverVars, netVars, peerVars,
             CallRecord, Stage
  <2>3. FreshIds'
    BY <1>15 DEF CreateNone, FreshIds, Idle, AskServer, serverVars, netVars, peerVars,
             ClientTypeOK
  <2>4. MailboxesHad' /\ KnownHadMailbox'
    BY <1>15 DEF CreateNone, MailboxesHad, KnownHadMailbox, AskServer, serverVars, netVars,
             peerVars, InRange
  <2>5. DueIsThere' /\ ReleasedWereRead'
    <3>1. /\ call'.at \notin {"read", "more"}
          /\ call'.op = "read" => call'.at \notin {"release", "released"}
      BY <1>15, IdleFields DEF CreateNone, CallInv, CallRecord, Idle
    <3>2. QED
      BY <3>1, NothingDue
  <2>6. QED
    BY <2>1, <2>2, <2>3, <2>4, <2>5
<1>16. ASSUME NEW s \in Servers, CreateAsk(s) PROVE ClientInv'
  <2>1. ClientTypeOK'
    BY <1>16 DEF CreateAsk, ClientTypeOK, Idle, AskServer, serverVars, netVars, peerVars, Op,
             Peer, Stage
  <2>2. CallInv'
    <3>1. /\ call'.op = "create" /\ call'.at = "made" /\ call' \in CallRecord
      <4>1. /\ call \in CallRecord /\ call.at = "pick" /\ call.op = "create"
            /\ "made" \in Stage /\ call.i + 1 \in Nat
            /\ call.rest \ {s} \in SUBSET (Servers \cup Nat)
        BY <1>16 DEF CreateAsk, CallInv, CallRecord, Stage
      <4>2. call' = [call EXCEPT !.i = @ + 1, !.rest = @ \ {s}, !.at = "made"]
        BY <1>16 DEF CreateAsk
      <4>3. QED
        BY <4>1, <4>2 DEF CallRecord
    <3>2. QED
      BY <3>1 DEF CallInv
  <2>3. FreshIds'
    BY <1>16 DEF CreateAsk, FreshIds, Idle, AskServer, serverVars, netVars, peerVars,
             ClientTypeOK
  <2>4. MailboxesHad' /\ KnownHadMailbox'
    BY <1>16 DEF CreateAsk, MailboxesHad, KnownHadMailbox, AskServer, serverVars, netVars,
             peerVars, InRange
  <2>5. DueIsThere' /\ ReleasedWereRead'
    <3>1. /\ call'.at \notin {"read", "more"}
          /\ call'.op = "read" => call'.at \notin {"release", "released"}
      BY <1>16, IdleFields DEF CreateAsk, CallInv, CallRecord, Idle
    <3>2. QED
      BY <3>1, NothingDue
  <2>6. QED
    BY <2>1, <2>2, <2>3, <2>4, <2>5
<1>17. ASSUME ReadAsk PROVE ClientInv'
  <2> DEFINE j == call.i + 1
             asked == IF j \in call.rest THEN slivers[j] ELSE master
             r == [op |-> "read", id |-> <<calls, j>>, s |-> asked]
  <2>a. /\ call.op = "read" /\ call.at = "next"
        /\ master \in Servers /\ call.rest \subseteq DOMAIN slivers
        /\ call' = [call EXCEPT !.i = j, !.at = "read", !.due = kept[asked]]
        /\ reqs' = reqs \cup {r}
        /\ UNCHANGED <<serverVars, answers, peerVars, calls>>
    BY <1>17 DEF ReadAsk, CallInv, AskServer
  <2>b. asked \in Servers /\ j \in Nat /\ calls \in Nat /\ j > call.i
    BY <2>a, BoundAssumption DEF ClientTypeOK
  <2>c. /\ call' \in CallRecord /\ call'.at = "read" /\ call'.op = "read"
        /\ call'.i = j /\ call'.rest = call.rest /\ call'.due = kept[asked]
    <3>1. /\ call \in CallRecord /\ "read" \in Stage /\ j \in Nat
          /\ kept[asked] \in SUBSET Msgs
      BY <2>b DEF CallInv, CallRecord, Stage, ClientTypeOK
    <3>2. QED
      BY <2>a, <3>1 DEF CallRecord
  <2>d. Reading' = asked
    BY <2>a, <2>c DEF Reading, IsSliver, peerVars
  <2>e. Id' = <<calls, j>>
    BY <2>a, <2>c DEF Id
  <2>f. \A x \in reqs \cup answers : x.id # <<calls, j>>
    <3>1. ASSUME NEW x \in reqs \cup answers, x.id = <<calls, j>> PROVE FALSE
      <4>1. x.id[1] = calls /\ x.id[2] = j
        BY <3>1
      <4>2. x.id[2] =< call.i /\ call.i \in Nat
        BY <2>a, <4>1 DEF FreshIds, ClientTypeOK
      <4>3. QED
        BY <2>b, <4>1, <4>2
    <3>2. QED
      BY <3>1
  <2>g. r \in [op : Op, id : Nat \X Nat, s : Servers] /\ r.id = <<calls, j>> /\ r.s = asked
    BY <2>b DEF Op
  <2> HIDE DEF j, asked, r
  <2>1. ClientTypeOK'
    BY <2>a, <2>b, <2>c, <2>g DEF ClientTypeOK, CallRecord, serverVars, peerVars
  <2>2. CallInv'
    BY <2>a, <2>c DEF CallInv, peerVars
  <2>3. FreshIds'
    BY <2>a, <2>b, <2>c, <2>g DEF FreshIds, ClientTypeOK
  <2>4. MailboxesHad' /\ KnownHadMailbox'
    BY <2>a DEF MailboxesHad, KnownHadMailbox, InRange, serverVars, peerVars
  <2>5. DueIsThere'
    <3>1. \A x \in reqs' : OfRead(x)' => x = r
      BY <2>a, <2>e, <2>f DEF OfRead
    <3>2. \A x \in answers' : ~OfRead(x)'
      BY <2>a, <2>e, <2>f DEF OfRead
    <3>3. call'.due \subseteq kept'[Reading']
      BY <2>a, <2>c, <2>d DEF serverVars
    <3>4. RequestOut'
      BY <2>d, <2>g, <3>1, <3>3 DEF RequestOut
    <3>5. AnswerOut'
      BY <3>2 DEF AnswerOut
    <3>6. QED
      BY <2>c, <3>4, <3>5 DEF DueIsThere
  <2>6. ReleasedWereRead'
    BY <2>c DEF ReleasedWereRead
  <2>7. QED
    BY <2>1, <2>2, <2>3, <2>4, <2>5, <2>6
<1>18. ASSUME ReadAskMore PROVE ClientInv'
  <2> DEFINE r == [op |-> "read", id |-> <<calls, call.i>>, s |-> Reading]
  <2>a. /\ call.op = "read" /\ call.at = "more"
        /\ call' = [call EXCEPT !.at = "read"] /\ reqs' = reqs \cup {r}
        /\ UNCHANGED <<serverVars, answers, peerVars, calls>>
    BY <1>18 DEF ReadAskMore, CallInv, AskServer
  <2>b. Reading \in Servers /\ calls \in Nat /\ call.i \in Nat
    BY <2>a, ReadsServer, BoundAssumption DEF ClientTypeOK
  <2>c. /\ call' \in CallRecord /\ call'.at = "read" /\ call'.op = "read"
        /\ call'.i = call.i /\ call'.rest = call.rest /\ call'.due = call.due
    BY <2>a DEF CallInv, CallRecord, Stage
  <2>d. Reading' = Reading /\ Id' = Id
    BY <2>a, <2>c DEF Reading, IsSliver, Id, peerVars
  <2>e. NoneOut /\ call.due \subseteq kept[Reading]
    BY <2>a DEF DueIsThere
  <2>f. /\ r \in [op : Op, id : Nat \X Nat, s : Servers]
        /\ r.s = Reading /\ r.id = <<calls, call.i>>
    BY <2>b DEF Op
  <2> HIDE DEF r
  <2>1. ClientTypeOK'
    BY <2>a, <2>c, <2>f DEF ClientTypeOK, CallRecord, serverVars, peerVars
  <2>2. CallInv'
    BY <2>a, <2>c DEF CallInv, peerVars
  <2>3. FreshIds'
    BY <2>a, <2>b, <2>c, <2>f DEF FreshIds
  <2>4. MailboxesHad' /\ KnownHadMailbox'
    BY <2>a DEF MailboxesHad, KnownHadMailbox, InRange, serverVars, peerVars
  <2>5. DueIsThere'
    <3>1. \A x \in reqs' : OfRead(x)' => x = r
      BY <2>a, <2>d, <2>e DEF NoneOut, OfRead
    <3>2. \A x \in answers' : ~OfRead(x)'
      BY <2>a, <2>d, <2>e DEF NoneOut, OfRead
    <3>3. call'.due \subseteq kept'[Reading']
      BY <2>a, <2>c, <2>d, <2>e DEF serverVars
    <3>4. RequestOut'
      BY <2>d, <2>f, <3>1, <3>3 DEF RequestOut
    <3>5. AnswerOut'
      BY <3>2 DEF AnswerOut
    <3>6. QED
      BY <2>c, <3>4, <3>5 DEF DueIsThere
  <2>6. ReleasedWereRead'
    BY <2>c DEF ReleasedWereRead
  <2>7. QED
    BY <2>1, <2>2, <2>3, <2>4, <2>5, <2>6
<1>19. ASSUME ReadTimeout PROVE ClientInv'
  <2>1. call.op = "read" /\ ReadNext
    BY <1>19 DEF ReadTimeout, CallInv
  <2>2. answers' \subseteq answers /\ UNCHANGED <<serverVars, reqs, peerVars, calls>>
    BY <1>19 DEF ReadTimeout, GiveUp
  <2>3. QED
    BY <2>1, <2>2, CallGoesOn
<1>20. ASSUME ReleaseAsk PROVE ClientInv'
  <2> DEFINE r == [op |-> "release", id |-> <<calls, call.i>>, s |-> Reading]
  <2>a. PICK t \in Timeouts : call' = [call EXCEPT !.at = "released", !.t = t]
    BY <1>20 DEF ReleaseAsk
  <2>b. /\ call.op = "read" /\ call.at = "release" /\ reqs' = reqs \cup {r}
        /\ UNCHANGED <<serverVars, answers, peerVars, calls>>
    BY <1>20 DEF ReleaseAsk, CallInv, AskServer
  <2>c. /\ call' \in CallRecord /\ call'.at = "released" /\ call'.op = "read"
        /\ call'.i = call.i /\ call'.rest = call.rest /\ call'.due = call.due
    <3>1. call \in CallRecord /\ "released" \in Stage /\ t \in Nat
      BY BoundAssumption DEF CallInv, Stage
    <3>2. QED
      BY <2>a, <2>b, <3>1 DEF CallRecord
  <2>d. /\ r \in [op : Op, id : Nat \X Nat, s : Servers] /\ r.id = <<calls, call.i>>
        /\ calls \in Nat /\ call.i \in Nat
    BY <2>b, ReadsServer, BoundAssumption DEF Op, ClientTypeOK
  <2> HIDE DEF r
  <2>1. ClientTypeOK'
    BY <2>b, <2>c, <2>d DEF ClientTypeOK, CallRecord, serverVars, peerVars
  <2>2. CallInv'
    BY <2>b, <2>c DEF CallInv, peerVars
  <2>3. FreshIds'
    BY <2>b, <2>c, <2>d DEF FreshIds
  <2>4. MailboxesHad' /\ KnownHadMailbox'
    BY <2>b DEF MailboxesHad, KnownHadMailbox, InRange, serverVars, peerVars
  <2>5. DueIsThere' /\ ReleasedWereRead'
    BY <2>b, <2>c DEF DueIsThere, ReleasedWereRead
  <2>6. QED
    BY <2>1, <2>2, <2>3, <2>4, <2>5
<1>21. ASSUME ReleaseTimeout PROVE ClientInv'
  <2>1. (call.op = "read" /\ ReadNext) \/ call' = Idle
    BY <1>21 DEF ReleaseTimeout, ReleaseDone
  <2>2. answers' \subseteq answers /\ UNCHANGED <<serverVars, reqs, peerVars, calls>>
    BY <1>21 DEF ReleaseTimeout, GiveUp
  <2>3. QED
    BY <2>1, <2>2, CallGoesOn
<1>22. ASSUME UNCHANGED callerVars PROVE ClientInv'
  <2>1. UNCHANGED <<box, had, kept, sent, reqs, answers, master, slivers, calls, call>>
    BY <1>22 DEF callerVars, serverVars, netVars, peerVars
  <2>2. ClientTypeOK' /\ CallInv' /\ FreshIds'
    BY <2>1 DEF ClientTypeOK, CallInv, FreshIds
  <2>3. MailboxesHad' /\ KnownHadMailbox'
    BY <2>1 DEF MailboxesHad, KnownHadMailbox, InRange
  <2>4. DueIsThere' /\ ReleasedWereRead'
    <3>1. Reading' = Reading
      BY <2>1 DEF Reading, IsSliver
    <3>2. QED
      BY <2>1, <3>1, ReadUndisturbed
  <2>5. QED
    BY <2>2, <2>3, <2>4
<1>23. QED
  BY <1>1, <1>2, <1>3, <1>4, <1>5, <1>6, <1>7, <1>8, <1>9, <1>10, <1>11, <1>12,
     <1>13, <1>14, <1>15, <1>16, <1>17, <1>18, <1>19, <1>20, <1>21, <1>22
  DEF ClientNext, Serve, Receive, Call, Step

LEMMA ClientInvariance == ClientSpec => []ClientInv
BY ClientInitial, ClientStep, PTL DEF ClientSpec

(* Whatever answers come, in whatever order, every variable keeps its type *)
(* and a call asks no more servers than it has.                            *)
THEOREM ClientTypeCorrect == ClientSpec => []ClientTypeOK
<1>1. ClientInv => ClientTypeOK
  BY DEF ClientInv
<1>2. QED
  BY <1>1, ClientInvariance, PTL

(* Late answers, answers to another call and refusals never bring a server *)
(* that had no mailbox of the user among those the user reads from.        *)
THEOREM KnownHadOne == ClientSpec => []KnownHadMailbox
<1>1. ClientInv => KnownHadMailbox
  BY DEF ClientInv
<1>2. QED
  BY <1>1, ClientInvariance, PTL

(* A sliver is released only when every message that was in it when it was *)
(* asked has been returned to the read, page after page, or deleted for an *)
(* earlier read.                                                           *)
THEOREM ReleasesAfterReads == ClientSpec => []ReleasedWereRead
<1>1. ClientInv => ReleasedWereRead
  BY DEF ClientInv
<1>2. QED
  BY <1>1, ClientInvariance, PTL
=============================================================================
