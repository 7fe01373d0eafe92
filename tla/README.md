# A verification project for cpp-2023-12

The repository is a series of C++ programs that grow from a "hello world" to a
multi-threaded TCP database. This directory holds TLA+ modules of the programs
whose behaviour is hard to test, the TLC configurations that check them on small
instances, and proofs for TLAPS that hold for every instance.

## 1. The system

| part | state | operations | what is hard |
|---|---|---|---|
| `11_join_server` thread pool (`thread_safe_queue.hpp`, `thread_pool.hpp`) | queue, mutex, condition variable, threads, promises | `Push`, `Pop`, `Enqueue`, destructor | wake-ups, draining at destruction |
| `11_join_server` database (`database.cpp`) | map of tables, `TxCounter_`, `shared_mutex`, pool | `HandleCommand`: insert, select, truncate, intersection, difference; destruction by whoever drops the last reference | tasks of the pool interleave under three levels of locks; ids are drawn before rows are locked; a task may be the last owner |
| `11_join_server` tables, rows (`table.cpp`) | map of rows; per row a list of versions | `InsertRow`, `GetRow`, `Iterate`, `Truncate`, `GetVersion`, `AddVesion` | multi-version reads, rows created during scans |
| `11_join_server` result queue | a thread-safe queue per command | rows, then one status | the reader blocks until the status comes |
| `11_join_server` parser, commands, status | none | line to command, rows and statuses to text | `std::stoi` throws; a row too long for the buffer; ids change their type; a line cut by TCP |
| `11_join_server` server (`server.cpp`) | sessions, sockets, io threads | accept, read, write, pop | handlers without strands; a handler that blocks its thread |
| `10_bulk_server` library (`async.cpp`, `bulk/`) | parser per connection, an accumulator they share, two pools | `connect`, `receive`, `disconnect` | a shared buffer that anybody flushes, order of output, waiting under locks |
| `10_bulk_server` sessions (`main.cpp`) | 1024-byte buffer | read, extract lines | stale and cut lines |
| `09_async` | a controller made by the first call; a parser per connection with its own accumulator | as above, flush at the end | the first call made twice, file names, empty blocks, waiting under an exclusive lock |
| `07_bulk` | one parser | lines of stdin | empty blocks |
| `08_bayan` | trie of block checksums, queue of blocks to read | walk, register a block, list duplicates | order of registrations, outdated tasks, padding |
| `06_matrix` | sorted lists of rows and cells | read, write, iterate, dump | order of insertions, default values, loops while writing |
| `03_allocator` | pools of memory, a growing array | allocate, push | boundaries of pools, moving elements |
| `02_ip_filter` | list of addresses | parse, sort, filter | octets that do not fit a byte |
| `05_editor`, `04_print_ip`, `01_helloworld` | little or none | | |
| `timus/` | 25 solutions of puzzles, of which 1022 (topological sort) and 1153 (binary search with big integers) have an algorithm of their own | | duplicate edges and cycles; leading zeros |

How they interact: the server of `11_join_server` posts handlers on an
`io_context` run by up to four threads; a handler calls
`TDatabase::HandleCommand`, which enqueues a task on the database's pool and
returns a result queue; the task pushes rows and a status; the handler pops one
message at a time, blocking its io thread, and writes it to the socket. The
server of `10_bulk_server` calls the library from its io threads; the library
enqueues print tasks on two pools (two threads for files, one for the screen)
and waits for both. Each of 09, 10 and 11 has its own copy of the same queue
and thread pool.

What makes each part correct, with the lines where it can go wrong, is listed as
`hazards` in PROJECT.json, each with the properties that cover it or the reason why none
does.

## 2. Modules

| module | models | lines of interest |
|---|---|---|
| `TaskPool` | abstract: what a thread pool promises | |
| `ThreadPool` | queue, condition variable, workers, destructor | `thread_safe_queue.hpp`, `thread_pool.hpp` |
| `ThreadPoolProofs` | theorems about `ThreadPool` | |
| `ResultStream` | abstract: the stream of messages of one command | `database.hpp` |
| `Database` | `TDatabase`, `TTable`, `TRow`; uses `TaskPool` | `database.cpp`, `table.cpp` |
| `MCDatabase` | command sets and symmetry for TLC | |
| `DatabaseLifetime` | `Database` with the references to it and the destructor of its pool | `database.hpp`, `database.cpp`, `thread_pool.hpp` |
| `MCDatabaseLifetime` | the same command sets for it | |
| `JoinText` | requests and answers as text, one at a time | `parser.cpp`, `parser.hpp`, `table.cpp`, `server.cpp` |
| `DatabaseProofs` | theorems about `Database` and `DatabaseLifetime` | |
| `JoinServer` | `TServer`, `TSession`; uses `ResultStream` | `server.cpp`, `parser.cpp` |
| `JoinServerProofs` | theorems about `JoinServer` | |
| `BulkServer` | parsers, accumulators, printers; uses `TaskPool` twice | `10_bulk_server/async.cpp`, `bulk/` |
| `BulkServerProofs` | theorems about `BulkServer` | |
| `Async` | the library of 09: parsers, printers, names of files; uses `TaskPool` twice | `09_async/async.cpp`, `bulk/` |
| `AsyncProofs` | theorems about `Async` | |
| `BulkSession` | sessions of 10 and their buffers | `10_bulk_server/main.cpp` |
| `BulkLocal` | the program 07 | `07_bulk/state.cpp`, `parser.cpp`, `printer.cpp` |
| `Braces` | reference: what braces mean in the input of 07, 09 and 10 | |
| `BracesProofs` | lemmas about `Braces`: what one more line changes | |
| `Bayan` | crawler, trie of block checksums, groups of duplicates | `08_bayan/file_crawler.cpp`, `block_checksum_storage.cpp` |
| `MCBayan` | contents of files for TLC | |
| `Matrix` | sparse matrix and its iterators | `06_matrix/matrix.hpp`, `row.hpp` |
| `Allocator` | pools of the arena allocator | `03_allocator/allocator.hpp` |
| `Container` | the container and the map built on it | `03_allocator/container.hpp`, `main.cpp` |
| `IpFilter` | the program 02 | `02_ip_filter/address.cpp`, `addresses.cpp`, `main.cpp` |
| `InOrder` | sets of numbers in order, and what of a list is in a set; used by `IpFilter`, `BulkSession` and `JoinText` | |
| `LinePrograms` | `IpFilter`, `BulkSession` and `JoinText` in one module, to prove about | |
| `FilesAndLinesProofs` | theorems about `Bayan`, `IpFilter`, `BulkSession` and `JoinText` | |
| `TopologicalSort` | `TGraph` | `timus/1022/main.cpp` |
| `BigInt` | the operators and the search of 1153 | `timus/1153/main.cpp` |
| `SmallPrograms` | `Container`, `Matrix`, `BulkLocal` and `TopologicalSort` in one module, to prove about | |
| `SmallProgramsProofs` | theorems about `Allocator`, `Container`, `Matrix`, `BulkLocal` and `TopologicalSort` | |
| `Sequential` | one module for all the parts above that do one thing at a time | |
| `MCSequential` | their input for TLC | |

The composition goes through abstract specifications:

    ThreadPool        implements  TaskPool
    Database          uses        TaskPool, implements  ResultStream
    DatabaseLifetime  extends     Database, and closes the pool
    JoinServer        uses        ResultStream
    BulkServer        uses        TaskPool, twice
    Async             uses        TaskPool, twice
    Container         extends     Allocator
    Sequential        extends     SmallPrograms, LinePrograms

The safety of both implementations (`Pool!PoolSafety`, `Stream!StreamSafety`) is
proved; with their fairness they are properties of the runs `thread_pool` and
`database_lifetime`.

`Sequential` is no composition of things that interact: `Matrix`, `Container`,
`BulkLocal`, `IpFilter`, `BulkSession`, `TopologicalSort`, `BigInt` and
`JoinText` are programs, or parts of programs, that do one thing at a time and
share nothing. `program` says which of them runs, the others stay in their
initial states, so that the states are the sum, not the product, of theirs. Each
has a definition of its result, written without the algorithm, that it is
checked against. `Bayan` stands alone because it is checked for termination.

### ThreadPool

`queue` is the deque, `thread[w]` says whether a worker is about to take the
mutex (`ready`), sleeps in the condition variable, executes a task or has
returned. A critical section of the mutex is one action, because nothing inside
can wait and nothing it touches is accessed outside: `Push` (append and
`notify_one`, which chooses any sleeper), `Take`, `Sleep`. Spurious wake-ups are
an action of their own. The destructor pushes one Terminate per thread, each in
a step, then joins the threads in order. The refinement mapping to `TaskPool` hides
the Terminate entries and the sleepers: what is pending there are the entries in
front of the first Terminate (`TasksAhead`, `Waiting`).

### Database

A request is one call of `HandleCommand`; `pc[r]` says where its task is:

    queued   in the pool               find     about to look up its tables
    create   about to take the database lock exclusively
    write    about to write an existing row    addrow   about to create a row
    scan     about to lock the table it scans  visit    in the loop of the scan
    probe    about to ask the other table (joins)
    reply    about to push the status          done     returned

Every lock is taken by a scoped guard, so that what a task holds is a function of
`pc` (`DatabaseReaders`, `TableReaders`); no lock variable is needed. Work under
an exclusive lock, or under the lock of a row, is one action: no lock that it
takes inside can be held by another task then, except shared locks against
shared locks. Everything else interleaves: between drawing the id and writing the row,
between two rows of a scan, between `Iterate` and `GetRow` of a join, between
the two passes of a difference. A `versions[t][k]` that is empty stands for
a key not yet in `Rows_`, because a row is created to be written at once. The
payload of a version is the request that wrote it, or `NULL` for a deletion.
Each table keeps its own lock; `before` is a history variable (which requests had been
answered when one was issued) that only properties read.

`asserts`, chosen at the start from `Builds`, is the build: with it a failed
`BOOST_ASSERT` stops the process (`aborted`), without it (the Release build of
the CI, `NDEBUG`) the version is appended anyway.

The locks are `std::shared_mutex` of glibc, which prefers readers: a thread
that waits for the exclusive lock does not keep new readers out. A table joined
with itself takes a shared lock the thread already holds, which the standard
leaves undefined; on this platform it succeeds, and the model says so.

### DatabaseLifetime

Every closure in the queue of the pool holds a `shared_ptr` to the database that
owns the pool (`References`). `returned` are the tasks that have pushed their
status and set their promise, while their closure still exists: the worker
destroys it at the end of its iteration (`DropTask`), and takes no other task
before. `DropOwner` is the end of a scope such as that of a test; `patient` says
that it came when all requests had been answered. Whoever drops the last reference runs
`~TThreadPool`: `DropReference` closes the pool, `JoinThreads` joins, which for a
worker ends in `std::system_error` out of a destructor, that is in
`std::terminate` (`process`). Nothing happens after a failed assertion, which ends
the process before anybody drops anything (`~aborted`).

### JoinText

A request is a line of words; of a word matter its width and the number
`std::stoi` makes of it. A row is a list of cells (int, string, null), `Fits`
adds their widths up as `TRowData::Dump` does. Ids are `int` in a row and
`std::size_t` in the table: `RowId` and `IntOf` convert by their lowest bits.
`IntRange` and `IdRange` are how many values the two types have, small for TLC; the proofs
ask of them only what `RangesAssumption` says. A table is a `std::map`, so that a scan
meets its rows by increasing id (`Rows`), which for negative numbers is not the order of
the numbers. An exception in an io thread ends the process.

A refusal is a text of its own: `ErrorLengths` and `MissingLength` add up the fixed
words (`Phrase`) and what is repeated of the request, which is its first word, all its words in
quotes, its blanks, or the name of the missing table. `TStatus::Dump` (`status.hpp:26`) copies
that text into the buffer of the session without a look at its length, so a request that just fits
may be refused by a text that does not: `SELECT` with a name of 1000 characters is a
line of 1008, its answer has 1038. What follows is undefined: `Refuse`
leaves the process "down", or "damaged" with the refusal sent all the same,
and nothing is claimed of what a damaged process does next.

### JoinServer

Sessions, their pending operations (`ops`), the io threads and which session's
`Pop` each of them is blocked in. How many io threads there are is chosen at the
start (`threads`), because `hardware_concurrency` may be anything, 0 included:
then `main` returns at once. Of texts it knows no lengths: those are in `JoinText`. A client may connect, send one chunk (a
command, something the parser refuses, or something that makes `std::stoi`
throw) and leave at any moment. Sockets and clients are external and modelled
from how the code uses them. Handlers run on any idle thread.

### BulkServer

A client (connection and parser) handles one line at a time. `level` and `own`
are the dynamic block of its parser, `shared` the buffer of
`TThreadSafeGroupingAccumulator`, `block[c]` the block whose printing its handler
waits for. The mutex of the shared accumulator is held from `AddCommand` or
`Dump` until both printers are done (`Holder`); a private block is printed without it,
so the enqueue on the file pool and that on the screen pool are separate steps
and blocks of two clients may reach the two outputs in different orders.
`StorageMutex` is held shared by whoever is `Inside` a line. The exceptions
thrown for a `}` outside a block and for an empty line leave `io_context::run`
and end the process (`terminated`).

### BulkSession

What `BulkServer` takes as given, the lines: a read overwrites the front of the
buffer (`Overwritten`), and `ExtractLines` takes every line that stands in the
whole buffer: what is between the ends of lines (`Ends`). `Within` says that lines are
among others in their order. The model is that of one handler at a time, since sessions share nothing
here but the counter of handles. A stray `}` is treated in `BulkServer`.

### BulkLocal

07 has one parser and writes each block at once: to the screen, then to a file named by
the second of its first command. An empty block makes `TFilePrinter` look at
the front of a vector that never held anything, which reads through a null pointer
(`crashed`); commands that a dynamic block still holds at the end are dropped.

### Async

The predecessor of `BulkServer`: `buffer` is the accumulator of whatever state
the parser is in, `block[c]` what the call has given to the printers. A block is printed
inside the call that completes it, by the threads of both pools. The first calls of `connect`
may come at the same time: `instance` is the controller `Instance` points to, a thread that
has seen `nullptr` is in `create` and looks again under `InstanceMutex`; `home[c]` is
the controller that made the parser of `c`. `disconnect` prints what
a parser outside braces still has, and does so while it holds `StorageMutex` exclusively
(`leaving`). The clock ticks at any moment; `Name` is the second of the first
command and the thread, and `files` maps names to what the last writer left. A
block without commands makes the thread of the file pool call `front()` on an
empty vector, which ends the process here, as an exception from `receive` does.
`BlocksMatchInput` compares what is printed with a definition that does not
mention parser states: commands are counted off in bulks between braces, or taken
together inside an outermost pair (`Braces`), and each group must be out as soon
as it is due. The lines `{` and `}` are called "open" and "close" in all modules
about bulks.

### Bayan

A node of the trie is the sequence of checksums on the way to it, a checksum is the padded
block (so checksums do not collide). The files, their contents, how often each
is found and in which order are chosen by TLC. `Register` has two outcomes, `AddNode` and
`JoinNode`; the set it returns is unordered, so the tasks are queued in any order
(`Asked`). `DuplicatesFound` is the definition of the groups of several files and says that they are
reached, and that any other group is one empty file; `ReadsInOrderIfNecessary` says what is
read on the way: the blocks of a file in order and once each, beyond a block only if
another file is the same up to it, and never a block that does not exist.

### Matrix

`rows` is the list of rows, each a list of cells, with `std::lower_bound` and
insertion as in the code. Elements are never removed, and lists do not
invalidate iterators, so an iterator is the index of the row and cell it points to;
writes may happen between two increments. `undefined` is set when the code has undefined
behaviour: a row inserted before others is a null pointer that is dereferenced at once,
`begin()` of an empty matrix, and a loop that misses its end because `end()` was
computed for another last row. `operator++` of a row passes over cells with the default
value, but `begin()` and the step to the next row start at the first cell whatever its
value: `blank` says that the cell that the loop has come to has the default value. It and `written`,
`steady`, `path`, `opened` and `grown` are history variables for the properties.

### Allocator, Container

A pool is its capacity and position, a block what `allocate` has returned; the
factor `sizeof(T)` that `addNewPool` and `TPool` both apply is kept. Nothing is
given back, `deallocate` is empty. `Container` lets either a `TContainer` grow or
a `std::map` take nodes; `memory` is what was written where, so that a wrong move
or an overlap shows in what `operator[]` returns.

### IpFilter, TopologicalSort, BigInt

A line of 02 is its fields: `Field` also says what the code reads behind the last
one (`npos + 1` is the beginning again), `Parse` cuts to bytes. `std::sort` leaves any
permutation of the list in which no element is less than one behind it (`Permuted`), a
filter the elements it lets through, in their order (`Kept`). In 1022 the node
on top of the heap is any with the fewest incoming edges, since the order of an
`unordered_map` decides between them. 1153 is digit by digit: `Carry`, `Trim`
and `BringDown` are the loops of the operators, and `Bisect` is the loop of
`SqrRoot`, which compares digits and not numbers.

## 3. What the runs check

| run | question | bounds |
|---|---|---|
| `thread_pool` | lost wake-ups, each task once, implementation of `TaskPool` with its fairness (order, draining destructor, every future ready) | 3 workers, 3 tasks |
| `database` | types, ids, no read from the future, regular reads and joins, frozen keys, the most recent version as long as the assertion holds, deadlock | 4 requests on a pool of 4, both builds; one table with two rows, or two tables with one row each and their joins, also of one with itself |
| `database_lifetime` | every request answered, `ResultStream` implemented, the database neither too short-lived nor leaked | 3 requests of any kind, pool of 2, 1 row, release build; an owner that may leave at any time |
| `join_server` | one activity per session, answers in order and complete, every client answered | 2 sessions, 0 to 2 io threads, 2 rows |
| `bulk_server` | no command lost, doubled or reordered; whole blocks; full bulks printed; progress | 2 clients, 7 lines in all, bulk size 2 |
| `async` | one controller, output equals the definition, files kept, every call returns | 2 clients, 4 lines in all, bulk sizes 0 and 2, 2 seconds |
| `bayan` | blocks read in order, once and only if needed; the run ends with the right groups | 3 files of up to 3 blocks of 2 bytes, found up to twice |
| `sequential` | 06: total function and `Dump`, loops, undefined behaviour | 3 rows, 2 columns, 2 values |
| | 03: disjoint blocks, elements kept | pools of 3, 9 elements, so that storage grows four times |
| | 07: blocks on the screen and in the files | 6 lines, block sizes 0 to 2, 2 seconds |
| | 02: four lists | 4 of 8 kinds of lines |
| | 10: lines a parser is given | 2 sessions, buffer of 3, 5 characters of 2 letters and the delimiter |
| | 1022: parents first | 4 nodes, 4 edges of any kind |
| | 1153: the number of terms | every input of up to 3 digits, leading zeros included |
| | 11: answers, and what ends the process | 4 of 18 requests, negative ids, rows and refusals up to and over the buffer; `int` of 3 bits, `TRowId` of 5 |

Why these bounds are enough for the interesting cases: a write between two
accesses of a reader, and a second write around it, take three or four requests;
one row is enough for lists of versions, two for a row that is created while a
scan is between two others; two tables are what a join needs. One pool thread
per request makes all interleavings possible, two threads for three requests
make the queue matter. With three workers two can sleep while a third one takes
the entry that a wake-up was meant for. For bulk, seven lines over two
clients let one of them nest braces while the other fills the shared buffer,
and let both send commands before, inside and after braces. For 09 accumulators are
private, so four lines are a full bulk and braces with a command of one client,
or a block of each that meets the other in the pools; a nested pair shows in four
lines because its inner brace must not print. The contents for 08 are
chosen such that files differ in any one of three blocks, or only in zeros at
the end, with full and with short last blocks. Two columns are enough for a cell
before, at and behind an iterator, three rows for a gap between rows. For `BulkSession`
a buffer of three holds two short lines, and five characters are a long read and a
short one after it; for `Allocator` storage of 1, 2, 4, 8 and 16 elements leaves pools with
room, without, and too small for a request. Four nodes hold a cycle of two or
three with a node above and one below it. Bounds are in
the guards (`MaxLines`, `MaxSeconds`, `MaxEntries`, `MaxRows`, `MaxElements`, `MaxAddresses`, `MaxText`,
`MaxEdges`, `MaxDigits`, `MaxRequests`) or are the sizes of the sets of requests, tasks and sessions.

Runs that end in a violation are findings, where the code does something else
than an assertion, a comment or a test says:

| run | what happens |
|---|---|
| `database_assert_fails` | two inserts draw ids in one order and reach the row in the other: the assertion in `AddVesion` fails |
| `database_truncation` | two inserts: one creates the table, the other has drawn its id and waits; a truncation draws a larger id, marks the row it finds and is answered; a select issued after that is sent the row of the second insert, which `tests.cpp:95` excludes |
| `database_self_join` | the owner leaves when it has popped the last status, as a test does, and the worker that pushed it drops the last reference: it joins itself and the process terminates |
| `bulk_mixed` | clients with different bulk sizes: the shared buffer steps over the smaller size and is not dumped |

In the release build the first of them leaves a list out of order, so that
`GetVersion`, which stops at the first version that is too new, may return an
older version than the most recent; and reads are not repeatable, so that the
difference of a table with itself need not be empty. `ReadsAreRegular` and
`NoFutureRead` are the counterpart of these findings: what a client may rely on in
spite of them, stated in real time with the history `before`. Likewise
`NoTaskOutlivesDatabase` and `NothingLeaks` say what holds of the lifetime of the
database however early its owner leaves, and `LinesHandled` what a client of 10
must do to have its lines handled: end every read with a line, and never send
less than before.

Observations that no run of their own states:

- `GetDuplicates` promises "the list of files with different names, but similair content"
  (`block_checksum_storage.hpp:66`). It asks for more than one file in a group of files with blocks,
  but reports the list of empty files whenever there is one
  (`block_checksum_storage.cpp:72`), so a single empty file is a group. `DuplicatesFound` allows this
  and nothing else beside the groups of several files.
- `main.cpp:19` of 06 calls its loop "Iterate through occupied cells", and `row.hpp:154`
  says "look for a first cell with value other than default". That holds for
  `TRow::TIterator::operator++` only: `begin()` (`matrix.hpp:146`) and the step to the next row
  (`matrix.hpp:124`) take the first cell of a row whatever its value. `main` itself assigns
  0, the default, to (0,0) and (9,0) and prints both. `IterationComplete` says what
  is true: a cell with the default value is visited only as the first one of its row.
- The errors of `parser.cpp:91` and `95` do not begin with `ERR`, by which
  `client_test.go:44` tells a failure.
- The text of an error of 11 may be longer than the buffer it is copied into
  (`status.hpp:26`). No document says how long it may be, so this is a cause that `DownExplained`
  names, and no finding.
- `BulkLocal` shows that a pair of braces with nothing between them ends 07 after
  the screen and before the file.

### Fairness

Only the code's own threads are fair. Workers of a pool and io threads are
scheduled (weak fairness of each of their steps), asynchronous operations complete. A
mutex or a reader-writer lock is not fair by itself; weak fairness of
the step that takes it is enough in these instances because the number of requests or
lines is finite and contention ends. With an endless stream of readers a writer
of a reader-preferring lock starves, and no property claims the opposite. In
`JoinServer` the handler of a ready operation gets strong fairness: the
`io_context` queues handlers first come, first served, and whenever a thread is idle it takes
the oldest, so a handler that is ready again and again is run.
`Bayan` is one thread that runs until it is done; `Sequential` promises nothing of the kind.
In `DatabaseLifetime` the destructor and the end of an iteration of a worker are fair, the owner
is not.
Nobody is forced to connect, to send a line, to submit a task or to destroy the
pool.

`CHECK_DEADLOCK FALSE` appears where stopping is right: a destroyed pool, and a
server whose clients do nothing. The other modules have a `Stopped`
step for their legitimate end, and any other deadlock is an error.

## 4. What is proved

All theorems hold for any number of threads, tasks, requests, tables, rows and
commands. Assumptions on the constants are named in the modules (a pool has at
least one thread, row ids are naturals, commands are well formed, `NULL` is no
request, a line has a field, `std::stoi` returns an `int` all digits of which stood in
the word). TLC evaluates them in the runs.

`ThreadPoolProofs`:
- `TypeCorrect`, `NoLostWakeupCorrect`, `TaskInOnePlaceCorrect`,
  `TerminationsLastCorrect`, `DrainedCorrect`. `DrainedWhenDestroyed` is not run by itself, since `TaskPool`
  says the same. The inductive invariant adds to
  the five properties how many Terminates have been pushed and which threads
  have been joined (a joined thread has returned): without the count a thread could take
  a Terminate meant for another one. `NoLostWakeup` compares two cardinalities
  and is inductive only together with the types: a `Take` removes an entry and
  its thread stays awake, a `Sleep` needs an empty queue, a `Push` wakes a
  sleeper if there is one.
- `ImplementsPoolSafety`: with the same invariant, `Waiting` is what the queue holds
  of tasks (`WaitingIsQueued`), and each step is a step of `TaskPool` or none
  (`PoolStepMaps`): a `Take` of a task starts it, a `Push` by an owner that is alive
  submits one, the first Terminate closes the pool, the last join destroys it.

`SmallProgramsProofs`, each theorem about the specification of its program alone (in
`Sequential` the others stand still):
- `BlocksApartCorrect`, for any size of elements and pools and any requests. The
  invariant adds that every block ends at or before the position of its pool,
  which never passes the capacity: then a new block, cut at the position, is
  apart from all others.
- `ContainerHoldsCorrect`: a container keeps what was pushed. `Kept` says that the
  element `i` is in memory at its address, and that there are no more elements than
  the storage has room for. Different elements have different addresses
  (`AddressesDiffer`), so what is written behind the last one touches none of the others,
  in the old storage (`PushInPlace`) and in the one they were copied to (`PushGrowing`).
- `ReadsLastWrittenCorrect`, `IterationCompleteCorrect` and `DefinedInOrderCorrect` of
  `Matrix`, for any indices without gaps (those between the used ones are then indices, too)
  and any values. Both lists are sorted, and `LowerBound`, which counts smaller elements, is
  the first element that is not less only for that reason (`LowerBoundIs`, from
  `InitialSegment`); what is inserted there leaves the list sorted and every other element in it
  (`Inserted`, `AssignIs`). `ContentOK` relates the two lists to what was written,
  `OpenedOK` the rows to their first accesses. A row that is inserted before another one was
  first accessed after it, which is the third disjunct of `DefinedInOrder`; the end of a
  loop is missed only if the last row is no longer the one it waits for, which takes a new row
  (`LoopOK`). `SteadyOK` says that what stays occupied is on the path of the loop or
  after its iterator: `operator++` skips only cells with the default value (`NextInRowIs`,
  `RowLeft`), and nothing is before the first cell of a row (`FirstCell`). `BlankOK` says that a
  cell with the default value is the first one that the loop visits in its row: a step within the row
  stops at none (`BlankGoesOn`), and a step to a new row ends a path in a row where the path
  has not been (`PathEnds`). `Dump` is
  right because behind the last cell of a row everything is the default (`BehindRow`).
- `BlocksPrintedCorrect` of `BulkLocal`, for any bulk size and any lines. `ReadFrom` ties the
  parser to the reference by the lemmas of `BracesProofs`: the commands before `first`
  are on the screen, in the groups that are due, and those from `first` on are
  collected. `OpenedAt` adds that inside braces `first` is the first command behind the outermost
  brace: so what is collected when that is closed is empty just if the pair is, which is the
  case that crashes. A file has the last block of its second because the
  next block begins behind all that were printed (`FileWritten`). Once the program
  has ended, `Left` takes the place of `ReadFrom`; a line that is refused makes nothing due
  (`BadLine`), which needs that a dynamic block closes on `}` alone.
- `ParentsFirstCorrect` of `TopologicalSort`, for any graph, with cycles and children that are
  named twice. `Counted`: `incoming` of a node in the heap is the number of times that
  the nodes in the heap name it (`Tokens`, one for each time). A node with the fewest is
  then named by no node of the heap, or every node of the heap is named by one of them: then
  all that is left is on a cycle or below one (`Taken`), and what is not has been printed.

`DatabaseProofs`:
- `TypeCorrect`: types, together with `ControlOK` (a task is only where its
  command leads; a join that probes has a row in hand), which the types need.
- `TxOrderCorrect`: ids are unique and respect real time. The induction needs
  `TxDrawn` (ids are at most the counter; there is none before it is drawn;
  what was answered before a request was issued is done) and `QueueOK` (a task is in the
  queue of the pool once, before it starts), because starting a
  task that had already drawn an id would draw a second one.
- `VersionsSortedCorrect`, `MostRecentVersionCorrect`: where `asserts` holds, every
  list is sorted, and on a sorted list the scan of `GetVersion`, which stops at the
  first version that is too new, finds the most recent one. The lemmas about
  `GetVersion` hold for every list.
- `NoFutureReadCorrect`: also in the release build, where lists may be out of
  order. The invariant says where a value comes from at every place it passes: in a
  list of versions (`ValuesOK`: written by an insert of that table and row with
  its id), with the writer, in the hands of a join (`HeldOK`), and among the messages
  sent (`SentOK`).
- `RowsFrozenCorrect`: an action property. `StepFreezesRows` says that a step
  that adds a key to a table needs it to have no reader, `ScanInv` that what is
  left of a scan are keys of its table, from the moment the scan takes its lock.
- `ReadsAreRegularCorrect`: what a select or a join returns was current when it was
  issued or was written meanwhile, in both builds. The proof has three storeys. (1) The lists
  (`ListInv`): an answered insert is in its list until the assertion fails (`InsertedOK`),
  a truncation has marked every row that an insert answered before it made, but for those
  ahead of it (`TruncatedOK`), a deletion has the id of a truncation (`DeletedOK`),
  and up to a version that was acknowledged before a
  request was issued all versions are older than that request (`OlderOK`): so the scan of
  `GetVersion` cannot stop before it. (2) One lookup on such a list is regular
  (`LookupRegular`), and what could be read once may be read for good
  (`CouldStable`), so that a join may keep what it has in hand. (3) Each pass of a scan
  accounts for every row (`SettledOK`): it is ahead, was sent, or had a reason not
  to be; a row created during the scan had one because it was not there when the scan took the lock.
- `ImplementsStreamSafety`: what the tasks push are streams of `ResultStream`. Each
  action maps to one push, to the closing status or to nothing.
- `NoTaskOutlivesDatabaseCorrect`, with `ClosuresOK`: the queue, the threads and the
  closures that remain are apart, so that dropping one reference cannot hide
  another; a pool that is closed has no references and so nothing to run.
- `LifetimeStreamSafety`: the streams again, since every step is one of `Database` or
  leaves the tasks alone.

`JoinServerProofs`:
- `SessionInvCorrect`: a session is always in one of eight stages (not accepted,
  reading, ..., popping, writing, answered); each says which one operation or handler it has
  and how much of the stream its client has got. Handlers without strands
  on several io threads are correct because each of them starts at most one operation, and starts it last.
- `AnswersInOrderCorrect`, `AnswerCompleteCorrect` follow stage by stage.

`BulkServerProofs`:
- `PrintInvCorrect`, the inductive invariant of the next two. `BlocksOK` says who may be in
  which state: at most one `Holder` of the mutex of the shared buffer, a client with
  a dynamic block has nothing on the way through that buffer (`Private`,
  since `{` flushes it), and the pool of the screen has the blocks of those
  who wait for it. `WayOK` says that the commands of a client go down along the way from the
  client through the shared buffer or its own and through blocks to the screen;
  `NoneMissing` that there is no gap.
- `PrintedInOrderCorrect`; `CommandInOnePlaceCorrect` (each kind of place has a command at
  most once, and only one kind has it).
- `EnoughDataIsDumpedCorrect` assumes in its statement that all clients connect with one bulk size,
  as those of one server do (`main.cpp` has a single `bulkSize`); with two it
  is false, as the run `bulk_mixed` shows.
- `DynamicBlocksWholeCorrect`: `InputOK` relates the parser to its input (the
  level is the depth of braces, and its own buffer has the commands since the
  brace that opened the block), `Whole` the blocks to the pairs of braces that are closed.

`BracesProofs` is about the reference alone, and by induction over nothing: what one
more line does to counts and depth, to the outermost pairs, and to the groups and
when they are due. `Grouped(list, size, first)` says that the commands before
`first` are due and those from `first` on form one group that is not;
`GroupedCommand`, `GroupedFull`, `GroupedNested`, `GroupedBrace` and `GroupedEnd` are
its steps.

`AsyncProofs`:
- `BlocksMatchInputCorrect`: the predecessor of `BulkServer` prints what the reference says.
  Parser and reference go in step: `Parsed` says that the accumulator holds the
  commands from `first` on, and the blocks given to the printers are the groups that
  are due; `ClientOK` ties this to where the client is in its call, and
  `StdOutOK` says that a block on its way to the screen is that of the call that waits for
  it, so that it counts once. After `disconnect` `Ended` takes the place of `Parsed`.
- `HandlesKnownCorrect`: the controller is made once, and who has a parser has it from
  there. `FileKeptCorrect`: a written block is in the file of its name, or there is another
  one with the same second.

`FilesAndLinesProofs`, each theorem about the specification of its program alone:
- `ReadsInOrderIfNecessaryCorrect`, for any files, contents and size of blocks. The
  order of the tasks does not matter, because `TaskOK` holds of each of them wherever it
  is in the queue: it asks for the first block of a file that has one, or for
  a block behind some that another file has read, too (`Shared`). So a task that is not
  outdated asks for the very block behind those that were read (`TaskIsNext`), and what it
  reads was needed (`NeedOK`). That the files asked for by `JoinNode` share the blocks up to
  there is what `NodeOK` is for: whoever is `trailing` in a node has passed it, and
  somebody has passed every node. Nobody goes back on his way (`NodesKept`), so
  what was shared stays shared. `BlocksAre` ties the trie to the definition: with padding,
  the checksums of the blocks that exist are the blocks of the padded file.

- Sets of numbers in order, which the next four rest on: in `InOrder(S)` stands every
  element of the finite set `S` once, from the least to the greatest (`InOrderIs`), and
  whatever list has this is `InOrder(S)` (`InOrderOf`). Both follow from `RankRises`: the
  number of elements up to one rises from each to the next by one. `InOrder` and
  `Kept` are written with `CHOOSE` and `Cardinality` in place of the recursion of the usual
  operators, because of which the prover could not look into them.
- `OutputRightCorrect` of `IpFilter`, for any input. `FilterInv` says that as long
  as every line is an address, `items` is what was read, and then that the lists
  printed are a sorted permutation of it and the three parts of that. A permutation has
  each address as often (`PermutedIs`: the bijection maps places to places), and what is kept of
  a sorted list is sorted and nothing is missing from it (`KeptIs`).
- `AnswerRightCorrect` and `DownExplainedCorrect` of `JoinText`, for any words and requests and
  any width of the two types that `RangesAssumption` allows. `Stored`, the core of
  `TextInv`, says that a table has a row under an id just if the requests so
  far stand for one, and that it is the row they stand for. Two `int`s never meet in one id, and each
  comes back as it was (`IdComesBack`), so a table has as many rows as the client has
  numbers in use (`RowsAre`, `SelectIs`). The lists of a join are counted likewise: an
  intersection, and a difference as its left and its right part, which have no row in
  common (`IntersectIs`, `LeftIs`, `RightIs`, `DifferenceIs`). A row of one INSERT
  that came whole fits the buffer, because a number is not written longer than it was read and the
  name of the request made room (`InsertedFits`); the delimiter of the null cell
  of a difference fits there, too. So only a row of an intersection can fail to. What else can is
  the text of a refusal, and the three kinds of it (`RefusalIs`) are told apart by what the request
  is: malformed (`AfterMalformed`) or naming a table that was never filled (`AfterMissing`).
- `LinesHandledCorrect` of `BulkSession`, for any buffer, letters and sessions. `SessionOK`
  describes a session from its reads alone. `FreshBehind`: behind the longest read
  the buffer is still zero, so that a read that is not shorter leaves nothing of an earlier one
  before it and no delimiter behind it (`FreshIsNoLine`). `Given` is the property for one
  session; it is inductive only together with `Clean` (as long as the process lives,
  nobody whose reads end with lines has sent an empty one) and with handles being
  different. The step (`AfterRead`) is an argument about text: lines of a text that ends with
  a delimiter and of one behind it are the lines of both (`LinesJoin`), what is
  handled stops at the first empty line, be it in the old part or in the new
  (`UpToEmptyGoesOn`, `UpToEmptyBefore`), and lines that were among those handled stay so when
  the stale ones of the buffer are handled behind them (`WithinGoesOn`).

Only model-checked: every liveness property and the fairness of both refinements;
`NothingLeaks` and `DuplicatesFound`, which are liveness properties; and of `Sequential`
the invariant `TermsFound`. Liveness and `ENABLED` are out of reach of the prover that is
used. `TermsFound` says that the operators of 1153 compute what they are named for, on digits of
any length: its proof would be an induction over the digits through each of `Carry`, `Trim` and
`BringDown`. The induction theorems of the library have an operator as a parameter, which
the provers cannot instantiate, so each would be an argument by a least counterexample, as
in the existence of sums and concatenations (`SumExists`, `FlatExists`), with
arithmetic that the provers do not find.

## 5. What is not modelled

- Time stamps and names of files in the printers of 10 (those of 07 and 09 are),
  and the creation of its controller, which is that of 09.
- `receive` on a handle that was disconnected, which no caller does.
- The copies of queue and pool in 09 and 10, which differ from that of 11 only in
  names: they are used as `TaskPool`.
- The filters on paths, collisions of checksums, and files that change during a run, in
  `Bayan`; `Size`, `LongestRowLength` and delimiters in `Matrix`, and `Dump` of windows that a row ends before or goes on behind as a property (`RowDump` models it).
- Interrupts, exhaustion of memory, errors of the file system.
- `05_editor` is a sketch whose operations are mostly empty, `04_print_ip` is decided at
  compile time, `01_helloworld` prints a number: there is no behaviour to state
  anything about. The solutions of `timus/` other than 1022 and 1153 compute one
  value from their input, most in a single loop. Build files.

## 6. Plan

Done: every part with state of its own has a module; everything concurrent is
proved down to what its clients see, and every invariant of the runs but one is a theorem. What would add most next:

1. An abstract specification of the output of the bulk programs that 07, 09 and 10
   implement, in place of the common reference `Braces`.
2. The names of files in 10, and the search of `timus/1152`, which prunes.
3. A proof of `TermsFound`, operator by operator.
