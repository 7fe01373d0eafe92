------------------------------- MODULE Database -------------------------------
(***************************************************************************)
(* The multi-version database of 11_join_server: TDatabase (database.cpp,  *)
(* database.hpp), TTable and TRow (table.cpp, table.hpp).                  *)
(*                                                                         *)
(* A request is one call of HandleCommand: a task of the pool, which is    *)
(* used through its abstract specification TaskPool.  Three kinds of locks *)
(* are taken, all std::shared_mutex, all by scoped guards:                 *)
(*   TDatabase::Mutex_  held shared from the lookup of the tables to the   *)
(*     end of the task, exclusively to create a table;                     *)
(*   TTable::Mutex_     held shared by Iterate and Truncate for the whole  *)
(*     scan, exclusively to create a row;                                  *)
(*   TRow::Mutex_       held around one access to Versions_ only.          *)
(* A guard is scoped, so what a request holds follows from pc.  What runs  *)
(* under an exclusive lock, or under a row lock, never waits for anything  *)
(* that can be held at that time and is one action.                        *)
(*                                                                         *)
(* std::shared_mutex of the build is a pthread_rwlock_t that prefers       *)
(* readers: lock_shared waits for a writer inside, never for one waiting.  *)
(***************************************************************************)
EXTENDS Naturals, Sequences, FiniteSets

CONSTANTS
    Requests,        \* the calls of HandleCommand
    TableNames,      \* names of tables
    RowIds,          \* TRowId, the keys of TTable::Rows_
    Workloads,       \* sets of commands; all requests of a behaviour carry commands of one set
    PoolCapacity,    \* number of threads of TDatabase::ThreadPool_
    Builds,          \* which builds: TRUE with BOOST_ASSERT, FALSE with NDEBUG
    NULL             \* std::nullopt, the payload of a deleted row

Command ==
    [op : {"INSERT"}, table : TableNames, row : RowIds]
    \union [op : {"SELECT", "TRUNCATE"}, table : TableNames]
    \union [op : {"INTERSECT", "DIFFERENCE"}, table : TableNames, other : TableNames]

ASSUME RowIdsAssumption == RowIds \subseteq Nat
ASSUME WorkloadsAssumption == Workloads \subseteq SUBSET Command
ASSUME CapacityAssumption == PoolCapacity \in Nat \ {0}
ASSUME NullAssumption == NULL \notin Requests
ASSUME BuildsAssumption == Builds \subseteq BOOLEAN

VARIABLES
    asserts,    \* BOOST_ASSERT is compiled in
    cmd,        \* cmd[r]: the command of request r
    pc,         \* where the task of r is
    tx,         \* txId of r, 0 while it has none
    txCounter,  \* TDatabase::TxCounter_
    created,    \* the keys of TDatabase::Tables_
    versions,   \* versions[t][k]: TRow::Versions_; a key is in Rows_ exactly
                \* when its list is not empty, for a row is created to be written
    todo,       \* keys the range-for of a scan has still to visit
    pass,       \* which of the two scans of Difference is running
    held,       \* rowData of the handler of Iterate during its GetRow
    out,        \* out[r]: the messages pushed to the TResultQueue of r
    aborted,    \* a BOOST_ASSERT has failed: the process is gone
    before,     \* history: the requests answered when r was issued
    pending, running, finished, phase   \* the thread pool

taskVars == <<cmd, pc, tx, todo, pass, held, out>>
poolVars == <<pending, running, finished, phase>>
vars == <<asserts, cmd, pc, tx, txCounter, created, versions, todo, pass, held, out,
          aborted, before, pending, running, finished, phase>>

Pool == INSTANCE TaskPool WITH Tasks <- Requests, Capacity <- PoolCapacity

\* Rows are messages of the stream; the payload of a row is the request that
\* inserted it.  `right` belongs to the second table of a join; a cell that is
\* TNull is NULL.
Row(k, left, right) == [kind |-> "row", row |-> k, left |-> left, right |-> right]
Status(ok) == [kind |-> "status", ok |-> ok]
Success == Status(TRUE)
Error == Status(FALSE)

Init ==
    /\ asserts \in Builds
    /\ \E commands \in Workloads : cmd \in [Requests -> commands]
    /\ pc = [r \in Requests |-> "idle"]
    /\ tx = [r \in Requests |-> 0]
    /\ txCounter = 0
    /\ created = {}
    /\ versions = [t \in TableNames |-> [k \in RowIds |-> << >>]]
    /\ todo = [r \in Requests |-> {}]
    /\ pass = [r \in Requests |-> 1]
    /\ held = [r \in Requests |-> NULL]
    /\ out = [r \in Requests |-> << >>]
    /\ aborted = FALSE
    /\ before = [r \in Requests |-> {}]
    /\ Pool!PoolInit

-------------------------------------------------------------------------------
(* Rows: TRow *)

\* Mutants: the newest version whatever the transaction; a bound off by one.
GetNewest(list, n) == IF list = << >> THEN NULL ELSE list[Len(list)].val

GetOlder(list, n) ==
    LET valid == {i \in DOMAIN list : \A j \in 1 .. i : list[j].tx < n}
    IN  IF valid = {} THEN NULL
        ELSE list[CHOOSE i \in valid : \A j \in valid : j <= i].val

\* GetVersion scans from the oldest version and stops at the first one that is
\* too new for the transaction: what it passes is a prefix of the list.
Passed(list, n) == {i \in DOMAIN list : \A j \in 1 .. i : list[j].tx <= n}

GetVersion(list, n) ==
    IF Passed(list, n) = {} THEN NULL
    ELSE list[CHOOSE i \in Passed(list, n) : \A j \in Passed(list, n) : j <= i].val

\* The condition asserted by AddVesion before it appends.
NewerThanLast(list, n) == list = << >> \/ list[Len(list)].tx < n

AddVersion(t, k, n, v) ==
    IF asserts /\ ~NewerThanLast(versions[t][k], n)
    THEN aborted' = TRUE /\ UNCHANGED versions
    ELSE /\ versions' = [versions EXCEPT ![t][k] = Append(@, [tx |-> n, val |-> v])]
         /\ UNCHANGED aborted

-------------------------------------------------------------------------------
(* Tables and locks *)

\* The table a scanning task holds the lock of, or is about to lock: Difference
\* scans its second table in its second pass and probes the first.
Scanned(r) == IF pass[r] = 1 THEN cmd[r].table ELSE cmd[r].other

Probed(r) == IF pass[r] = 1 THEN cmd[r].other ELSE cmd[r].table

RowsOf(t) == {k \in RowIds : versions[t][k] # << >>}

\* Mutant: Insert keeps the shared lock while it waits for the exclusive one.
UpgradingReaders ==
    {r \in Requests : pc[r] \in {"create", "write", "addrow", "scan", "visit", "probe", "reply"}}

\* Who holds TDatabase::Mutex_ shared, and TTable::Mutex_ of t shared.
DatabaseReaders ==
    {r \in Requests : pc[r] \in {"write", "addrow", "scan", "visit", "probe", "reply"}}
TableReaders(t) ==
    {r \in Requests : pc[r] \in {"visit", "probe"} /\ Scanned(r) = t}

TablesOf(c) == IF c.op \in {"INTERSECT", "DIFFERENCE"} THEN {c.table, c.other} ELSE {c.table}

-------------------------------------------------------------------------------
(* Issuing and starting a task *)

HandleCommand(r) ==
    /\ pc[r] = "idle"
    /\ Pool!Submit(r)
    /\ pc' = [pc EXCEPT ![r] = "queued"]
    /\ before' = [before EXCEPT ![r] = {q \in Requests : pc[q] = "done"}]
    /\ UNCHANGED <<asserts, cmd, tx, txCounter, created, versions, todo, pass,
                   held, out, aborted>>

StartTask ==
    /\ Pool!Start
    /\ pc' = [pc EXCEPT ![Head(pending)] = "find"]
    /\ UNCHANGED <<asserts, cmd, tx, txCounter, created, versions, todo, pass, held, out,
                   aborted, before>>

\* Mutant: the counter is read and not advanced.
PeekTx(r) ==
    /\ UNCHANGED txCounter
    /\ tx' = [tx EXCEPT ![r] = txCounter + 1]

\* auto txId = ++self->TxCounter_
NextTx(r) ==
    /\ txCounter' = txCounter + 1
    /\ tx' = [tx EXCEPT ![r] = txCounter + 1]

\* The task pushes its status and returns, giving back its guards and its thread.
Answer(r, status) ==
    /\ out' = [out EXCEPT ![r] = Append(@, status)]
    /\ pc' = [pc EXCEPT ![r] = "done"]
    /\ Pool!Finish(r)

Reply(r) ==
    /\ pc[r] = "reply"
    /\ Answer(r, Success)
    /\ UNCHANGED <<asserts, cmd, tx, txCounter, created, versions, todo, pass, held,
                   aborted, before>>

-------------------------------------------------------------------------------
(* Insert *)

\* Under the shared lock: the transaction id is drawn here, the row is written
\* later.  Without the table the lock is dropped and the other path taken.
InsertFind(r) ==
    /\ pc[r] = "find"
    /\ cmd[r].op = "INSERT"
    /\ IF cmd[r].table \in created
       THEN /\ NextTx(r)
            /\ pc' = [pc EXCEPT ![r] = "write"]
       ELSE /\ pc' = [pc EXCEPT ![r] = "create"]
            /\ UNCHANGED <<tx, txCounter>>
    /\ UNCHANGED <<asserts, cmd, created, versions, todo, pass, held, out, aborted, before>>
    /\ UNCHANGED poolVars

\* Mutant: no second lookup; emplace leaves a table that is there as it is.
InsertCreateBlindly(r) ==
    /\ pc[r] = "create"
    /\ DatabaseReaders = {}
    /\ NextTx(r)
    /\ created' = created \union {cmd[r].table}
    /\ IF cmd[r].table \in created
       THEN UNCHANGED <<versions, aborted>>
       ELSE AddVersion(cmd[r].table, cmd[r].row, txCounter + 1, r)
    /\ Answer(r, Success)
    /\ UNCHANGED <<asserts, cmd, todo, pass, held, before>>

\* Under the exclusive lock: the lookup is repeated; either way the row is
\* written at once, for nobody holds the lock of a table.
InsertCreate(r) ==
    /\ pc[r] = "create"
    /\ DatabaseReaders = {}
    /\ NextTx(r)
    /\ created' = created \union {cmd[r].table}
    /\ AddVersion(cmd[r].table, cmd[r].row, txCounter + 1, r)
    /\ Answer(r, Success)
    /\ UNCHANGED <<asserts, cmd, todo, pass, held, before>>

\* InsertRow, first under the shared lock of the table ...
InsertRowExisting(r) ==
    /\ pc[r] = "write"
    /\ IF cmd[r].row \in RowsOf(cmd[r].table)
       THEN /\ AddVersion(cmd[r].table, cmd[r].row, tx[r], r)
            /\ pc' = [pc EXCEPT ![r] = "reply"]
       ELSE /\ pc' = [pc EXCEPT ![r] = "addrow"]
            /\ UNCHANGED <<versions, aborted>>
    /\ UNCHANGED <<asserts, cmd, tx, txCounter, created, todo, pass, held, out, before>>
    /\ UNCHANGED poolVars

\* Mutant: the row is created under the shared lock.
InsertRowShared(r) ==
    /\ pc[r] = "addrow"
    /\ AddVersion(cmd[r].table, cmd[r].row, tx[r], r)
    /\ pc' = [pc EXCEPT ![r] = "reply"]
    /\ UNCHANGED <<asserts, cmd, tx, txCounter, created, todo, pass, held, out, before>>
    /\ UNCHANGED poolVars

\* ... then under the exclusive one.
InsertRowNew(r) ==
    /\ pc[r] = "addrow"
    /\ TableReaders(cmd[r].table) = {}
    /\ AddVersion(cmd[r].table, cmd[r].row, tx[r], r)
    /\ pc' = [pc EXCEPT ![r] = "reply"]
    /\ UNCHANGED <<asserts, cmd, tx, txCounter, created, todo, pass, held, out, before>>
    /\ UNCHANGED poolVars

-------------------------------------------------------------------------------
(* Select, Truncate, Intersection and Difference: scans of tables *)

IsScan(r) == cmd[r].op # "INSERT"

\* Mutant: the return after the error is missing.
ScanFindOn(r) ==
    /\ pc[r] = "find"
    /\ IsScan(r)
    /\ NextTx(r)
    /\ pc' = [pc EXCEPT ![r] = "scan"]
    /\ out' = IF TablesOf(cmd[r]) \subseteq created
              THEN out ELSE [out EXCEPT ![r] = Append(@, Error)]
    /\ UNCHANGED <<asserts, cmd, created, versions, todo, pass, held, aborted, before>>
    /\ UNCHANGED poolVars

\* Lookup of the table or tables, all under the shared lock kept from here on.
ScanFind(r) ==
    /\ pc[r] = "find"
    /\ IsScan(r)
    /\ IF TablesOf(cmd[r]) \subseteq created
       THEN /\ NextTx(r)
            /\ pc' = [pc EXCEPT ![r] = "scan"]
            /\ UNCHANGED <<out, poolVars>>
       ELSE /\ Answer(r, Error)
            /\ UNCHANGED <<tx, txCounter>>
    /\ UNCHANGED <<asserts, cmd, created, versions, todo, pass, held, aborted, before>>

\* Iterate and Truncate take the shared lock of the table and walk its rows.
ScanLock(r) ==
    /\ pc[r] = "scan"
    /\ todo' = [todo EXCEPT ![r] = RowsOf(Scanned(r))]
    /\ pc' = [pc EXCEPT ![r] = "visit"]
    /\ UNCHANGED <<asserts, cmd, tx, txCounter, created, versions, pass, held, out,
                   aborted, before>>
    /\ UNCHANGED poolVars

\* std::map iterates in the order of the keys.
NextRow(r) == CHOOSE k \in todo[r] : \A j \in todo[r] : k <= j

Visited(r) == todo' = [todo EXCEPT ![r] = @ \ {NextRow(r)}]

Seen(r) == GetVersion(versions[Scanned(r)][NextRow(r)], tx[r])

\* Mutant: deleted rows are sent too.
VisitSelectAll(r) ==
    /\ cmd[r].op = "SELECT"
    /\ out' = [out EXCEPT ![r] = Append(@, Row(NextRow(r), Seen(r), NULL))]
    /\ Visited(r)
    /\ UNCHANGED <<pc, held, versions, aborted>>

VisitSelect(r) ==
    /\ cmd[r].op = "SELECT"
    /\ IF Seen(r) # NULL
       THEN out' = [out EXCEPT ![r] = Append(@, Row(NextRow(r), Seen(r), NULL))]
       ELSE UNCHANGED out
    /\ Visited(r)
    /\ UNCHANGED <<pc, held, versions, aborted>>

VisitTruncate(r) ==
    /\ cmd[r].op = "TRUNCATE"
    /\ AddVersion(Scanned(r), NextRow(r), tx[r], NULL)
    /\ Visited(r)
    /\ UNCHANGED <<pc, held, out>>

\* The joins keep the row while they ask the other table for its counterpart.
VisitJoin(r) ==
    /\ cmd[r].op \in {"INTERSECT", "DIFFERENCE"}
    /\ IF Seen(r) # NULL
       THEN /\ held' = [held EXCEPT ![r] = Seen(r)]
            /\ pc' = [pc EXCEPT ![r] = "probe"]
            /\ UNCHANGED todo
       ELSE Visited(r) /\ UNCHANGED <<held, pc>>
    /\ UNCHANGED <<out, versions, aborted>>

Visit(r) ==
    /\ pc[r] = "visit"
    /\ todo[r] # {}
    /\ VisitSelect(r) \/ VisitTruncate(r) \/ VisitJoin(r)
    /\ UNCHANGED <<asserts, cmd, tx, txCounter, created, pass, before>>
    /\ UNCHANGED poolVars

\* GetRow of the other table (under its shared lock, which is free or shared)
\* and the rest of the handler.
Probe(r) ==
    LET k == NextRow(r)
        other == GetVersion(versions[Probed(r)][k], tx[r])
        joined == IF cmd[r].op = "INTERSECT"
                  THEN IF other # NULL THEN <<Row(k, held[r], other)>> ELSE << >>
                  ELSE IF other # NULL THEN << >>
                       ELSE IF pass[r] = 1 THEN <<Row(k, held[r], NULL)>>
                                           ELSE <<Row(k, NULL, held[r])>>
    IN  /\ pc[r] = "probe"
        /\ out' = [out EXCEPT ![r] = @ \o joined]
        /\ held' = [held EXCEPT ![r] = NULL]
        /\ pc' = [pc EXCEPT ![r] = "visit"]
        /\ Visited(r)
        /\ UNCHANGED <<asserts, cmd, tx, txCounter, created, versions, pass,
                       aborted, before>>
        /\ UNCHANGED poolVars

\* The scan is over and the lock of the table is released.
ScanEnd(r) ==
    /\ pc[r] = "visit"
    /\ todo[r] = {}
    /\ IF cmd[r].op = "DIFFERENCE" /\ pass[r] = 1
       THEN /\ pass' = [pass EXCEPT ![r] = 2]
            /\ pc' = [pc EXCEPT ![r] = "scan"]
       ELSE /\ pc' = [pc EXCEPT ![r] = "reply"]
            /\ UNCHANGED pass
    /\ UNCHANGED <<asserts, cmd, tx, txCounter, created, versions, todo, held, out,
                   aborted, before>>
    /\ UNCHANGED poolVars

-------------------------------------------------------------------------------

Task(r) ==
    \/ InsertFind(r)
    \/ InsertCreate(r)
    \/ InsertRowExisting(r)
    \/ InsertRowNew(r)
    \/ ScanFind(r)
    \/ ScanLock(r)
    \/ Visit(r)
    \/ Probe(r)
    \/ ScanEnd(r)
    \/ Reply(r)

\* Every request has been answered, or the process has been aborted.
Stopped ==
    /\ aborted \/ \A r \in Requests : pc[r] = "done"
    /\ UNCHANGED vars

Next ==
    \/ /\ ~aborted
       /\ \/ \E r \in Requests : HandleCommand(r) \/ Task(r)
          \/ StartTask
    \/ Stopped

\* The threads of the pool are scheduled; nobody promises to issue a request.
Fairness ==
    /\ WF_vars(~aborted /\ StartTask)
    /\ \A r \in Requests : WF_vars(~aborted /\ Task(r))

Spec == Init /\ [][Next]_vars /\ Fairness

-------------------------------------------------------------------------------
(* Properties *)

Locations == {"idle", "queued", "find", "create", "write", "addrow", "scan",
              "visit", "probe", "reply", "done"}
Values == Requests \union {NULL}
Version == [tx : Nat, val : Values]
RowMessages ==
    {Row(k, v, w) : k \in RowIds, v \in Values, w \in Values} \ {Row(k, NULL, NULL) : k \in RowIds}
StatusMessages == {Success, Error}

TypeOK ==
    /\ asserts \in BOOLEAN
    /\ cmd \in [Requests -> Command]
    /\ pc \in [Requests -> Locations]
    /\ tx \in [Requests -> Nat]
    /\ txCounter \in Nat
    /\ created \in SUBSET TableNames
    /\ versions \in [TableNames -> [RowIds -> Seq(Version)]]
    /\ todo \in [Requests -> SUBSET RowIds]
    /\ pass \in [Requests -> {1, 2}]
    /\ held \in [Requests -> Values]
    /\ out \in [Requests -> Seq(RowMessages \union StatusMessages)]
    /\ aborted \in BOOLEAN
    /\ before \in [Requests -> SUBSET Requests]

InsertsInto(t) == {w \in Requests : cmd[w].op = "INSERT" /\ cmd[w].table = t}
Inserts(t, k) == {w \in InsertsInto(t) : cmd[w].row = k}
Truncates(t) == {w \in Requests : cmd[w].op = "TRUNCATE" /\ cmd[w].table = t}
Messages(r) == {out[r][i] : i \in DOMAIN out[r]}
RowsSent(r) == {m \in Messages(r) : m.kind = "row"}
Succeeded(r) == Success \in Messages(r)

\* "TxCounter_ provides unique ids for transactions" (database.hpp): they are
\* unique, and a request issued after another one was answered has the larger
\* one.  Ids are drawn on two paths of Insert and by every scan, concurrently.
TxOrder ==
    \A q, r \in Requests :
        tx[q] # 0 /\ tx[r] # 0 =>
            /\ q # r => tx[q] # tx[r]
            /\ q \in before[r] => tx[q] < tx[r]

\* A value that is read was put into that row of that table by a transaction
\* older than the reader, even where the list of versions is out of order.
NoFutureRead ==
    \A r \in Requests : \A m \in RowsSent(r) :
        /\ m.left # NULL => /\ m.left \in Inserts(cmd[r].table, m.row)
                            /\ tx[m.left] < tx[r]
        /\ m.right # NULL => /\ m.right \in Inserts(cmd[r].other, m.row)
                             /\ tx[m.right] < tx[r]

\* Real time.  v may be the value of row k for reader r only if no other write
\* of the row came wholly between v and r ...
CouldBeValue(r, t, k, v) ==
    /\ v \in Inserts(t, k)
    /\ r \notin before[v]
    /\ ~ \E w \in Inserts(t, k) \union Truncates(t) : v \in before[w] /\ w \in before[r]

\* ... and the row may be absent only if each insert answered before r was
\* issued could have been undone by a truncation.
CouldBeNull(r, t, k) ==
    \A w \in Inserts(t, k) \intersect before[r] :
        \E x \in Truncates(t) : tx[x] # 0 /\ x \notin before[w] /\ r \notin before[x]

CouldBeSome(r, t, k) == \E v \in Inserts(t, k) : tx[v] # 0 /\ CouldBeValue(r, t, k, v)

SelectIsRegular(r) ==
    LET t == cmd[r].table
    IN  \A k \in RowIds :
            \/ \E m \in RowsSent(r) : m.row = k /\ CouldBeValue(r, t, k, m.left)
            \/ (\A m \in RowsSent(r) : m.row # k) /\ CouldBeNull(r, t, k)

JoinIsRegular(r) ==
    LET t == cmd[r].table
        u == cmd[r].other
        Could(table, k, v) == IF v = NULL THEN CouldBeNull(r, table, k)
                                          ELSE CouldBeValue(r, table, k, v)
    IN  /\ \A m \in RowsSent(r) : Could(t, m.row, m.left) /\ Could(u, m.row, m.right)
        /\ cmd[r].op = "INTERSECT" =>
             \A k \in RowIds : \/ \E m \in RowsSent(r) : m.row = k
                               \/ CouldBeNull(r, t, k)
                               \/ CouldBeNull(r, u, k)
        /\ cmd[r].op = "DIFFERENCE" =>
             \A k \in RowIds :
                 /\ \/ \E m \in RowsSent(r) : m.row = k /\ m.left # NULL
                    \/ CouldBeNull(r, t, k)
                    \/ CouldBeSome(r, u, k)
                 /\ \/ \E m \in RowsSent(r) : m.row = k /\ m.right # NULL
                    \/ CouldBeNull(r, u, k)
                    \/ CouldBeSome(r, t, k)

\* What a client may rely on across connections, whatever order the versions of
\* a row were appended in: a command issued after others were answered sees
\* their effects, in particular no acknowledged insert is lost and no
\* overwritten or truncated row comes back.
ReadsAreRegular ==
    \A r \in Requests :
        /\ Succeeded(r) /\ cmd[r].op = "SELECT" => SelectIsRegular(r)
        /\ Succeeded(r) /\ cmd[r].op \in {"INTERSECT", "DIFFERENCE"} => JoinIsRegular(r)
        /\ Error \in Messages(r) =>
             \E t \in TablesOf(cmd[r]) : InsertsInto(t) \intersect before[r] = {}

\* "not possible to add new rows, other transactions can only read and modify
\* existing rows" (Iterate, table.cpp): the keys of a table stay as they are as
\* long as a scan of it is running, and what is left to visit are keys of it.
ScanUndisturbed(t) ==
    \A r \in TableReaders(t) : RowsOf(t)' = RowsOf(t) /\ todo[r] \subseteq RowsOf(t)

RowsFrozenDuringScan == [][\A t \in TableNames : ScanUndisturbed(t)]_vars

\* Every request handed to the database is answered: no cycle of lock waits, no
\* request is stuck behind the queue of the pool.
EveryRequestAnswered ==
    \A r \in Requests : pc[r] = "queued" ~> pc[r] = "done"

\* The messages of the queues form the streams that ResultStream promises: the
\* reader of a TResultQueue stops at the first status, so a status is the last
\* message and it has arrived exactly when the task has returned.
StreamState ==
    [r \in Requests |-> CASE pc[r] = "idle" -> "idle"
                          [] pc[r] = "done" -> "closed"
                          [] OTHER -> "open"]

Stream == INSTANCE ResultStream WITH
            Rows <- RowMessages, Statuses <- StatusMessages,
            state <- StreamState, stream <- out

ImplementsResultStream == Stream!StreamSpec

-------------------------------------------------------------------------------
(* What assertions, comments and tests of the code say of versions *)

\* BOOST_ASSERT(Versions_.back().TxId_ < txId) in AddVesion never fails.
AssertHolds == ~aborted

\* Where the assertion is compiled in, the versions of every row are in the
\* order of the ids, as GetVersion takes for granted.
VersionsSorted ==
    asserts =>
        \A t \in TableNames, k \in RowIds : \A i, j \in DOMAIN versions[t][k] :
            i < j => versions[t][k][i].tx < versions[t][k][j].tx

\* "iterate through version list to find a version the most recent for a given
\* transaction id" (GetVersion): where the assertion is compiled in, of the
\* versions not newer than the transaction the one with the largest id is
\* returned, although the scan stops at the first one that is too new.
MostRecentVersion ==
    asserts =>
        \A t \in TableNames, k \in RowIds, n \in 1 .. txCounter :
            LET list == versions[t][k]
                visible == {i \in DOMAIN list : list[i].tx <= n}
            IN  IF visible = {} THEN GetVersion(list, n) = NULL
                ELSE \E i \in visible : /\ \A j \in visible : list[j].tx <= list[i].tx
                                        /\ GetVersion(list, n) = list[i].val

\* "Every transaction occured after the truncation sees just empty rows"
\* (tests.cpp): a select issued when a truncation of its table has been answered
\* is sent no row inserted by a transaction with a smaller id than the truncation.
TruncationHidesRows ==
    \A r \in Requests : \A x \in before[r] :
        cmd[x].op = "TRUNCATE" /\ cmd[r].op = "SELECT" /\ Succeeded(x)
        /\ cmd[x].table = cmd[r].table
        => \A m \in RowsSent(r) : tx[m.left] > tx[x]
===============================================================================
