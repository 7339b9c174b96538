--------------------------- MODULE MailboxService ---------------------------
(***************************************************************************)
(* The mailbox registry of dmsg/service/mailbox/service.go: which public   *)
(* keys have a mailbox on this node (serviceUserList, in memory) and which *)
(* are recorded in the subscription database (a LevelDB directory opened   *)
(* and closed by every save).                                              *)
(*                                                                         *)
(* Every incoming stream runs its handler on a goroutine of its own (a     *)
(* Worker) and no lock guards serviceUserList, so a handler is a sequence  *)
(* of steps that the steps of other handlers, and of the goroutine that    *)
(* starts and stops the service (Main), may separate.  LevelDB's file lock *)
(* is the only mutual exclusion: an open that meets it fails at once, and  *)
(* the save or the load that wanted it is skipped.                         *)
(*                                                                         *)
(* Early returns that change nothing (service disabled, own request, limit *)
(* reached, release of an unknown key) are steps that leave every variable *)
(* alone, and so need no action.                                           *)
(***************************************************************************)
EXTENDS Integers, FiniteSets

CONSTANTS
    User,              \* public keys that ask for a mailbox
    Worker,            \* stream handler goroutines that can run at once
    Main,              \* the goroutine that calls Start, Stop and Release
    None,              \* no holder, no task
    MaxMailboxCount    \* the configured limit on mailboxes

Proc == Worker \cup {Main}

(* What a goroutine is doing and for whom; alone tells whether no other    *)
(* request for that key has overlapped with it (history, see Reply).       *)
Task == [op : {"create", "release", "load"}, user : User, alone : BOOLEAN]
NewTask(what, u, b) == [op |-> what, user |-> u, alone |-> b]

ASSUME ServiceAssumption ==
    /\ IsFiniteSet(User)
    /\ IsFiniteSet(Worker)
    /\ Main \notin Worker
    /\ None \notin Worker \cup {Main}
    /\ MaxMailboxCount \in Nat \ {0}
    /\ None \notin Task

VARIABLES
    enable,      \* the enable flag
    userList,    \* the keys of serviceUserList
    db,          \* the value recorded for each key: "1", "0" or no entry
    legacy,      \* the keys in the older JSON list, while that file exists
    dbLock,      \* who has the subscription database open
    pc,          \* where each goroutine is
    task,        \* what each goroutine is doing, and for whom
    todo         \* database entries a save, an import or a load has left

(***************************************************************************)
(* History variables.  They record what clients were told and the races    *)
(* that may break it; no guard of the code's actions reads them.           *)
(***************************************************************************)
VARIABLES
    promise,     \* what the last answer that no other request contests says
    forfeited,   \* keys caught by one of the races the module names
    restored     \* keys put in serviceUserList by a load, not by a request

disk  == <<db, legacy>>
ghost == <<promise, forfeited, restored>>
vars  == <<enable, userList, db, legacy, dbLock, pc, task, todo, ghost>>

Entry     == {"none", "0", "1"}
Promise   == {"none", "created", "released"}
WorkerPC  == {"idle", "lookup", "insert", "delete", "saveOpen", "saving"}
MainPC    == {"off", "starting", "importing", "loading", "loadInsert", "run",
              "releasing"}

TypeOK ==
    /\ enable \in BOOLEAN
    /\ userList \in SUBSET User
    /\ db \in [User -> Entry]
    /\ legacy \in SUBSET User
    /\ dbLock \in Proc \cup {None}
    /\ pc \in [Proc -> WorkerPC \cup MainPC]
    /\ \A w \in Worker : pc[w] \in WorkerPC
    /\ pc[Main] \in MainPC
    /\ task \in [Proc -> Task \cup {None}]
    /\ todo \in [Proc -> SUBSET User]
    /\ promise \in [User -> Promise]
    /\ forfeited \in SUBSET User
    /\ restored \in SUBSET User

(* A node that has never used the database may have the older JSON list:   *)
(* its users were promised a mailbox by an earlier release of the program. *)
Init ==
    /\ enable = FALSE
    /\ userList = {}
    /\ db = [u \in User |-> "none"]
    /\ legacy \in SUBSET User
    /\ dbLock = None
    /\ pc = [p \in Proc |-> IF p = Main THEN "off" ELSE "idle"]
    /\ task = [p \in Proc |-> None]
    /\ todo = [p \in Proc |-> {}]
    /\ promise = [u \in User |-> IF u \in legacy THEN "created" ELSE "none"]
    /\ forfeited = {}
    /\ restored = {}

Goto(p, label) == pc' = [pc EXCEPT ![p] = label]
Steady == pc[Main] = "run"

-----------------------------------------------------------------------------
(* The answer of a create or a release.  It becomes a promise when the     *)
(* request was alone in handling its key and the list still says what it   *)
(* did; when two requests for a key overlap neither answer binds.          *)

Rivals(w, u) == {v \in Worker \ {w} : task[v] # None /\ task[v].user = u}

(* p takes up t (a task, or None); the requests in progress for u are told *)
(* apart from now on as having had company.                                *)
Contest(p, t, u) ==
    task' = [q \in Proc |->
                IF q = p THEN t
                ELSE IF q \in Rivals(p, u) THEN [task[q] EXCEPT !.alone = FALSE]
                ELSE task[q]]

Begin(w, what, u) ==
    Contest(w, NewTask(what, u, Rivals(w, u) = {}), u)

Settled(w) ==
    LET u == task[w].user IN
    CASE task[w].alone /\ task[w].op = "create" /\ u \in userList ->
            [promise EXCEPT ![u] = "created"]
      [] task[w].alone /\ task[w].op = "release" /\ u \notin userList ->
            [promise EXCEPT ![u] = "released"]
      [] OTHER -> promise

Reply(w) ==
    /\ Goto(w, "idle")
    /\ task' = [task EXCEPT ![w] = None]
    /\ promise' = Settled(w)

-----------------------------------------------------------------------------
(* OnCreateMailboxRequest: the limit is read first, the key looked up next *)
(* and inserted only after the topic has been joined.                      *)

HasRoom == Cardinality(userList) < MaxMailboxCount

CreateAdmit(w, u) ==
    /\ enable
    /\ pc[w] = "idle"
    /\ HasRoom
    /\ Goto(w, "lookup")
    /\ Begin(w, "create", u)
    /\ UNCHANGED <<enable, userList, disk, dbLock, todo, ghost>>

CreateExists(w) ==
    /\ pc[w] = "lookup"
    /\ task[w].user \in userList
    /\ Goto(w, "idle")
    /\ task' = [task EXCEPT ![w] = None]
    /\ UNCHANGED <<enable, userList, disk, dbLock, todo, ghost>>

CreateAbsent(w) ==
    /\ pc[w] = "lookup"
    /\ task[w].user \notin userList
    /\ Goto(w, "insert")
    /\ promise' = [promise EXCEPT ![task[w].user] =
                       IF @ = "released" THEN "none" ELSE @]
    /\ UNCHANGED <<enable, userList, disk, dbLock, task, todo,
                   forfeited, restored>>

(* subscribeServiceUser fails to join the topic: an error answer.          *)
CreateError(w) ==
    /\ pc[w] = "insert"
    /\ Goto(w, "idle")
    /\ task' = [task EXCEPT ![w] = None]
    /\ UNCHANGED <<enable, userList, disk, dbLock, todo, ghost>>

CreateInsert(w) ==
    /\ pc[w] = "insert"
    /\ userList' = userList \cup {task[w].user}
    /\ Goto(w, "saveOpen")
    /\ UNCHANGED <<enable, disk, dbLock, task, todo, ghost>>

-----------------------------------------------------------------------------
(* OnReleaseMailboxRequest: the user is looked up, closed and deleted from *)
(* the map; the stored messages are not touched.                           *)

ReleaseLookup(w, u) ==
    /\ enable
    /\ pc[w] = "idle"
    /\ u \in userList
    /\ Goto(w, "delete")
    /\ Begin(w, "release", u)
    /\ promise' = [promise EXCEPT ![u] = "none"]
    /\ UNCHANGED <<enable, userList, disk, dbLock, todo, forfeited, restored>>

ReleaseDelete(w) ==
    /\ pc[w] = "delete"
    /\ userList' = userList \ {task[w].user}
    /\ restored' = restored \ {task[w].user}
    /\ Goto(w, "saveOpen")
    /\ UNCHANGED <<enable, disk, dbLock, task, todo, promise, forfeited>>

-----------------------------------------------------------------------------
(* saveSubscribeMailboxList: walks the entries of the database and then    *)
(* the list, comparing each key with serviceUserList as it is at that      *)
(* moment.                                                                 *)

SaveOpen(w) ==
    /\ pc[w] = "saveOpen"
    /\ dbLock = None
    /\ dbLock' = w
    /\ todo' = [todo EXCEPT ![w] = User]
    /\ Goto(w, "saving")
    /\ UNCHANGED <<enable, userList, disk, task, ghost>>

(* The database is open elsewhere: the save is abandoned and the request   *)
(* is answered as if it had been made.                                     *)
SaveSkip(w) ==
    /\ pc[w] = "saveOpen"
    /\ dbLock # None
    /\ forfeited' = forfeited \cup {task[w].user}
    /\ Reply(w)
    /\ UNCHANGED <<enable, userList, disk, dbLock, todo, restored>>

(* Variants of Recorded: a save that never clears an entry, and one that   *)
(* writes an empty text for "0".                                           *)
RecordedForGood(u) == IF u \in userList THEN "1" ELSE db[u]
(* What a save writes for a key.                                           *)
Recorded(u) ==
    IF u \in userList THEN "1" ELSE IF db[u] = "none" THEN "none" ELSE "0"

ListAgrees(u) ==
    /\ promise[u] = "created" => u \in userList
    /\ promise[u] = "released" => u \notin userList

(* A save repairs a key whose promise the list still keeps.  Outside the   *)
(* steady phase the list is being filled or emptied and the save records   *)
(* that: the race the module names.                                        *)
SaveEntry(w, u) ==
    /\ pc[w] = "saving"
    /\ u \in todo[w]
    /\ db[u] = "none" => \A v \in todo[w] : db[v] = "none"
    /\ db' = [db EXCEPT ![u] = Recorded(u)]
    /\ todo' = [todo EXCEPT ![w] = @ \ {u}]
    /\ forfeited' = IF ListAgrees(u) THEN forfeited \ {u}
                    ELSE IF Steady THEN forfeited
                    ELSE forfeited \cup {u}
    /\ UNCHANGED <<enable, userList, legacy, dbLock, pc, task, promise,
                   restored>>

SaveClose(w) ==
    /\ pc[w] = "saving"
    /\ todo[w] = {}
    /\ dbLock' = None
    /\ Reply(w)
    /\ UNCHANGED <<enable, userList, disk, todo, forfeited, restored>>

-----------------------------------------------------------------------------
(* Start: the handlers are enabled before the list is loaded.  The load    *)
(* first moves the JSON list into the database (the file is removed before *)
(* its keys are written) and then subscribes every key recorded as "1".    *)

Start ==
    /\ pc[Main] \in {"off", "run"}
    /\ ~enable
    /\ enable' = TRUE
    /\ Goto(Main, "starting")
    /\ UNCHANGED <<userList, disk, dbLock, task, todo, ghost>>

LoadOpen ==
    /\ pc[Main] = "starting"
    /\ dbLock = None
    /\ dbLock' = Main
    /\ todo' = [todo EXCEPT ![Main] = legacy]
    /\ legacy' = {}
    /\ Goto(Main, "importing")
    /\ UNCHANGED <<enable, userList, db, task, ghost>>

LoadSkip ==
    /\ pc[Main] = "starting"
    /\ dbLock # None
    /\ forfeited' = forfeited \cup (User \ userList)
    /\ Goto(Main, "run")
    /\ UNCHANGED <<enable, userList, disk, dbLock, task, todo, promise,
                   restored>>

ImportEntry(u) ==
    /\ pc[Main] = "importing"
    /\ u \in todo[Main]
    /\ db' = [db EXCEPT ![u] = "1"]
    /\ todo' = [todo EXCEPT ![Main] = @ \ {u}]
    /\ forfeited' = IF promise[u] = "released" THEN forfeited \cup {u}
                    ELSE forfeited
    /\ UNCHANGED <<enable, userList, legacy, dbLock, pc, task, promise,
                   restored>>

ImportDone ==
    /\ pc[Main] = "importing"
    /\ todo[Main] = {}
    /\ todo' = [todo EXCEPT ![Main] = {u \in User : db[u] = "1"}]
    /\ Goto(Main, "loading")
    /\ UNCHANGED <<enable, userList, disk, dbLock, task, ghost>>

LoadPresent(u) ==
    /\ pc[Main] = "loading"
    /\ u \in todo[Main]
    /\ u \in userList
    /\ todo' = [todo EXCEPT ![Main] = @ \ {u}]
    /\ UNCHANGED <<enable, userList, disk, dbLock, pc, task, ghost>>

LoadAbsent(u) ==
    /\ pc[Main] = "loading"
    /\ u \in todo[Main]
    /\ u \notin userList
    /\ todo' = [todo EXCEPT ![Main] = @ \ {u}]
    /\ task' = [task EXCEPT ![Main] = NewTask("load", u, TRUE)]
    /\ Goto(Main, "loadInsert")
    /\ UNCHANGED <<enable, userList, disk, dbLock, ghost>>

LoadInsert ==
    LET u == task[Main].user IN
    /\ pc[Main] = "loadInsert"
    /\ userList' = userList \cup {u}
    /\ restored' = restored \cup {u}
    /\ forfeited' = IF promise[u] = "released" THEN forfeited \cup {u}
                    ELSE forfeited
    /\ Contest(Main, None, u)
    /\ Goto(Main, "loading")
    /\ UNCHANGED <<enable, disk, dbLock, todo, promise>>

(* The topic cannot be joined: the load goes on with the next key.         *)
LoadError ==
    /\ pc[Main] = "loadInsert"
    /\ forfeited' = forfeited \cup {task[Main].user}
    /\ task' = [task EXCEPT ![Main] = None]
    /\ Goto(Main, "loading")
    /\ UNCHANGED <<enable, userList, disk, dbLock, todo, promise, restored>>

(* Variant: the load is left before its last key.                          *)
LoadCloseEarly ==
    /\ pc[Main] = "loading"
    /\ Cardinality(todo[Main]) <= 1
    /\ dbLock' = None
    /\ todo' = [todo EXCEPT ![Main] = {}]
    /\ Goto(Main, "run")
    /\ UNCHANGED <<enable, userList, disk, task, ghost>>

LoadClose ==
    /\ pc[Main] = "loading"
    /\ todo[Main] = {}
    /\ dbLock' = None
    /\ Goto(Main, "run")
    /\ UNCHANGED <<enable, userList, disk, task, todo, ghost>>

-----------------------------------------------------------------------------
(* Stop keeps the list; Release empties it key by key without saving it    *)
(* and the service object is then of no further use.  Handlers that passed *)
(* the enable check go on through either.                                  *)

Stop ==
    /\ Steady
    /\ enable
    /\ enable' = FALSE
    /\ UNCHANGED <<userList, disk, dbLock, pc, task, todo, ghost>>

Release ==
    /\ Steady
    /\ enable' = FALSE
    /\ Goto(Main, "releasing")
    /\ UNCHANGED <<userList, disk, dbLock, task, todo, ghost>>

ReleaseOne(u) ==
    /\ pc[Main] = "releasing"
    /\ u \in userList
    /\ userList' = userList \ {u}
    /\ restored' = restored \ {u}
    /\ UNCHANGED <<enable, disk, dbLock, pc, task, todo, promise, forfeited>>

(* The process ends, by a crash, a kill or after Release.  An import it    *)
(* interrupts has already removed the JSON list.                           *)
Crash ==
    /\ pc[Main] # "off"
    /\ enable' = FALSE
    /\ userList' = {}
    /\ dbLock' = None
    /\ pc' = [p \in Proc |-> IF p = Main THEN "off" ELSE "idle"]
    /\ task' = [p \in Proc |-> None]
    /\ todo' = [p \in Proc |-> {}]
    /\ forfeited' = IF pc[Main] = "importing" THEN forfeited \cup todo[Main]
                    ELSE forfeited
    /\ restored' = {}
    /\ UNCHANGED <<disk, promise>>

-----------------------------------------------------------------------------
Create(w) ==
    \/ \E u \in User : CreateAdmit(w, u)
    \/ CreateExists(w)
    \/ CreateAbsent(w)
    \/ CreateError(w)
    \/ CreateInsert(w)

ReleaseMailbox(w) ==
    \/ \E u \in User : ReleaseLookup(w, u)
    \/ ReleaseDelete(w)

Save(w) ==
    \/ SaveOpen(w)
    \/ SaveSkip(w)
    \/ \E u \in User : SaveEntry(w, u)
    \/ SaveClose(w)

Load ==
    \/ LoadOpen
    \/ LoadSkip
    \/ \E u \in User : ImportEntry(u) \/ LoadPresent(u) \/ LoadAbsent(u)
    \/ ImportDone
    \/ LoadInsert
    \/ LoadError
    \/ LoadClose

Service == Start \/ Stop \/ Release \/ \E u \in User : ReleaseOne(u)

Next ==
    \/ \E w \in Worker : Create(w) \/ ReleaseMailbox(w) \/ Save(w)
    \/ Load
    \/ Service
    \/ Crash

Spec == Init /\ [][Next]_vars

-----------------------------------------------------------------------------
(* What the registry guarantees.                                           *)

(* A key is on its way to the database while the JSON list, or the import  *)
(* that has just removed it, holds it.                                     *)
ToImport(u) ==
    u \in legacy \/ (pc[Main] = "importing" /\ u \in todo[Main])

(* Requests that have passed the limit check but not yet inserted.         *)
Admitted == {w \in Worker : pc[w] \in {"lookup", "insert"}}

(* An answered create is recorded on disk and an answered release is not,  *)
(* through any interleaving, stop, release or crash, unless the key is     *)
(* caught in one of the races that forfeit it: a save skipped because the  *)
(* database was open elsewhere, a save made while the list was being       *)
(* loaded or emptied, a topic that could not be joined at start, an        *)
(* import cut short.                                                       *)
AnswersAreDurable ==
    \A u \in User \ forfeited :
        /\ promise[u] = "created" => db[u] = "1" \/ ToImport(u)
        /\ promise[u] = "released" => db[u] # "1"

(* While the service runs (after its load), a key that was promised a      *)
(* mailbox is in serviceUserList: restarts restore every mailbox, unless   *)
(* one of the same races took it.                                          *)
PromisedAreServed ==
    Steady => \A u \in User \ forfeited :
                  promise[u] = "created" => u \in userList

(* The limit is read well before the insertion it is for, so it can be     *)
(* passed, but only by the handlers that were in flight: requests never    *)
(* put more than MaxMailboxCount + |Worker| - 1 keys in the list.  Keys    *)
(* that a load restored are counted apart: the load checks no limit.       *)
AdmissionBound ==
    Cardinality(userList \ restored) <= MaxMailboxCount + Cardinality(Worker) - 1
=============================================================================
