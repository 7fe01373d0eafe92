------------------------------- MODULE JoinText -------------------------------
(***************************************************************************)
(* The text that the clients of 11_join_server write and read: TParser     *)
(* (parser.cpp, parser.hpp), TRowData (table.cpp) and the way of a request *)
(* through a session and the database, one request at a time (server.cpp,  *)
(* database.cpp).  What concurrent requests do to each other is Database,  *)
(* how answers are delivered JoinServer.                                   *)
(*                                                                         *)
(* A word is a model value; what matters of it is its width and the number *)
(* that std::stoi makes of it.  A request is a line of words.  Rows travel *)
(* as cells: an int, a string or TNull.                                    *)
(***************************************************************************)
EXTENDS Integers, FiniteSets, FiniteSetsExt, SequencesExt, InOrder

CONSTANTS
    Requests,    \* lines clients may send, as sequences of words
    Number,      \* by word: what std::stoi returns for it; other words make it throw
    Width,       \* by word: how long it is
    Phrase,      \* by error: how long the fixed words of its text are
    BufferSize,  \* TSession::BufferSize_
    IntRange,    \* how many values an int has
    IdRange,     \* how many a TRowId, a std::size_t, has
    MaxRequests  \* bound: requests clients send

VARIABLES
    tables,   \* TDatabase::Tables_, by name: the newest rows, by TRowId
    answer,   \* what the client reads: rows, then a status
    process,  \* "up", "down" after an exception in an io thread, or "damaged" when it
              \* has written behind a buffer, after which nothing is known
    log       \* history: the requests so far

vars == <<tables, answer, process, log>>

IntCell(i) == <<"int", i>>
StrCell(w) == <<"string", w>>
TNull == <<"null">>

OK == <<"OK">>
ERR == <<"ERR">>

Init ==
    /\ tables = << >>
    /\ answer = << >>
    /\ process = "up"
    /\ log = << >>

-------------------------------------------------------------------------------
(* Conversions *)

\* An int becomes a TRowId, and a TRowId an int, by its lowest bits.
RowId(i) == i % IdRange

IntOf(id) ==
    LET low == id % IntRange
    IN  IF low < IntRange \div 2 THEN low ELSE low - IntRange

\* std::to_string
Decimal(i) ==
    LET digits == CHOOSE d \in 1 .. 10 : /\ i < 10 ^ d /\ -i < 10 ^ d
                                         /\ d = 1 \/ i >= 10 ^ (d - 1) \/ -i >= 10 ^ (d - 1)
    IN  IF i < 0 THEN digits + 1 ELSE digits

CellWidth(cell) ==
    CASE cell[1] = "int" -> Decimal(cell[2])
      [] cell[1] = "string" -> Width[cell[2]]
      [] cell[1] = "null" -> 0

\* The length of a text of words with these widths and a delimiter behind each.
Length(widths) ==
    LET upTo[n \in 0 .. Len(widths)] == IF n = 0 THEN 0 ELSE upTo[n - 1] + widths[n] + 1
    IN  upTo[Len(widths)]

\* TRowData::Dump puts a comma or a newline behind every cell, and throws when
\* the buffer is too short for a cell or for what follows it.
Fits(row) == Length([i \in DOMAIN row |-> CellWidth(row[i])]) <= BufferSize

\* What arrives of a line: without its newline if the buffer is too short for it.
Whole(line) == Length([i \in DOMAIN line |-> Width[line[i]]]) <= BufferSize

-------------------------------------------------------------------------------
(* TRowData *)

Empty(id) == <<IntCell(IntOf(id)), TNull>>

\* Mutant: the id of the second row is kept.
MergeWhole(row, other) == row \o other

MergeWith(row, other) == row \o Tail(other)

-------------------------------------------------------------------------------
(* Answers *)

\* The session writes row after row and the status, until a row does not fit.
Answer(rows) ==
    LET long == {i \in DOMAIN rows : ~Fits(rows[i])}
    IN  IF long = {}
        THEN answer' = Append(rows, OK) /\ UNCHANGED process
        ELSE answer' = SubSeq(rows, 1, Min(long) - 1) /\ process' = "down"

\* TStatus::Dump copies the text of an error into the buffer of the session, however
\* long it is.  Behind the buffer that is undefined: it ends the process, or the
\* session goes on and sends what is in the buffer.
Refuse(length) ==
    /\ \/ length <= BufferSize /\ answer' = <<ERR>> /\ UNCHANGED process
       \/ length > BufferSize /\ answer' = << >> /\ process' = "down"
       \/ length > BufferSize /\ answer' = <<ERR>> /\ process' = "damaged"
    /\ UNCHANGED tables

\* The rows of a table, by increasing TRowId.
Rows(table) ==
    LET ids == InOrder(DOMAIN table) IN [i \in DOMAIN ids |-> table[ids[i]]]

-------------------------------------------------------------------------------
(* Requests *)

Is(line, name, terms) == Whole(line) /\ Len(line) = terms /\ line[1] = name

\* A join names two tables, or none for A and B.
IsJoin(line, name) == Is(line, name, 3) \/ Is(line, name, 1)
Left(line) == IF Len(line) = 1 THEN "A" ELSE line[2]
Right(line) == CASE Len(line) = 1 -> "B" [] Len(line) = 2 -> line[2] [] OTHER -> line[3]

WellFormed(line) ==
    \/ Is(line, "INSERT", 4)
    \/ Is(line, "SELECT", 2) \/ Is(line, "TRUNCATE", 2)
    \/ IsJoin(line, "INTERSECT") \/ IsJoin(line, "DIFFERENCE")

\* The texts of the parser's errors.  Some say what they are about: the first word,
\* every word in quotes, or all of a line of blanks, which may be of any length.
Commands == {"INSERT", "SELECT", "TRUNCATE", "INTERSECT", "DIFFERENCE"}

ErrorLengths(line) ==
    CASE ~Whole(line) -> {Phrase.unterminated}
      [] Whole(line) /\ line = << >> -> {Phrase.blank + n : n \in 1 .. BufferSize}
      [] Whole(line) /\ line # << >> /\ line[1] \notin Commands ->
            {Phrase.unexpected + Width[line[1]]}
      [] Whole(line) /\ line # << >> /\ line[1] = "INSERT" ->
            {Phrase.insert + Decimal(Len(line)) + Length([i \in DOMAIN line |-> Width[line[i]] + 2])}
      [] Whole(line) /\ line # << >> /\ line[1] \in Commands \ {"INSERT"} ->
            {Phrase.terms + Decimal(Len(line))}

Malformed(line) ==
    /\ ~WellFormed(line)
    /\ \E length \in ErrorLengths(line) : Refuse(length)

\* Mutant: the id is converted before the terms are counted.
NotANumberEarly(line) ==
    /\ Len(line) >= 3 /\ line[1] = "INSERT" /\ line[3] \notin DOMAIN Number
    /\ process' = "down"
    /\ answer' = << >>
    /\ UNCHANGED tables

\* std::stoi throws through the handler and io_context::run.
NotANumber(line) ==
    /\ Is(line, "INSERT", 4) /\ line[3] \notin DOMAIN Number
    /\ process' = "down"
    /\ answer' = << >>
    /\ UNCHANGED tables

Put(f, x, y) == [z \in DOMAIN f \union {x} |-> IF z = x THEN y ELSE f[z]]

\* The table is created if need be, a row replaces the one with its id.
Insert(line) ==
    LET t == line[2]
        i == Number[line[3]]
        old == IF t \in DOMAIN tables THEN tables[t] ELSE << >>
    IN  /\ Is(line, "INSERT", 4) /\ line[3] \in DOMAIN Number
        /\ tables' = Put(tables, t, Put(old, RowId(i), <<IntCell(i), StrCell(line[4])>>))
        /\ Answer(<< >>)

\* A refusal names the first table that is missing.
MissingLength(name) == Phrase.missing + Width[name]

Missing(line) ==
    LET name == IF Left(line) \notin DOMAIN tables THEN Left(line) ELSE Right(line)
    IN  /\ WellFormed(line) /\ line[1] # "INSERT"
        /\ name \notin DOMAIN tables
        /\ Refuse(MissingLength(name))

Select(line) ==
    /\ Is(line, "SELECT", 2) /\ line[2] \in DOMAIN tables
    /\ Answer(Rows(tables[line[2]]))
    /\ UNCHANGED tables

\* Rows get an empty version, which neither scans nor lookups return.
Truncate(line) ==
    /\ Is(line, "TRUNCATE", 2) /\ line[2] \in DOMAIN tables
    /\ tables' = [tables EXCEPT ![line[2]] = << >>]
    /\ Answer(<< >>)

Join(line) ==
    LET one == tables[Left(line)]
        two == tables[Right(line)]
        both == [id \in DOMAIN one \intersect DOMAIN two |-> MergeWith(one[id], two[id])]
        left == [id \in DOMAIN one \ DOMAIN two |-> MergeWith(one[id], Empty(id))]
        right == [id \in DOMAIN two \ DOMAIN one |-> MergeWith(Empty(id), two[id])]
    IN  /\ IsJoin(line, "INTERSECT") \/ IsJoin(line, "DIFFERENCE")
        /\ {Left(line), Right(line)} \subseteq DOMAIN tables
        /\ IF line[1] = "INTERSECT"
           THEN Answer(Rows(both))
           ELSE Answer(Rows(left) \o Rows(right))
        /\ UNCHANGED tables

Handle(line) ==
    /\ process = "up"
    /\ Len(log) < MaxRequests
    /\ log' = Append(log, line)
    /\ \/ Malformed(line) \/ NotANumber(line) \/ Missing(line)
       \/ Insert(line) \/ Select(line) \/ Truncate(line) \/ Join(line)

Stopped ==
    /\ process # "up" \/ Len(log) = MaxRequests
    /\ UNCHANGED vars

Next == (\E line \in Requests : Handle(line)) \/ Stopped

Spec == Init /\ [][Next]_vars

-------------------------------------------------------------------------------
(* Properties *)

\* The reference: what a client that remembers its requests expects.  The name
\* of row i of table t is the last one inserted, unless t was truncated since.
Inserted(n, t) == Is(log[n], "INSERT", 4) /\ log[n][2] = t
Truncated(n, t) == Is(log[n], "TRUNCATE", 2) /\ log[n][2] = t
Names(t, i) ==
    {log[n][4] : n \in {m \in DOMAIN log :
        /\ Inserted(m, t) /\ Number[log[m][3]] = i
        /\ \A k \in m + 1 .. Len(log) :
               /\ ~ Truncated(k, t)
               /\ ~ (Inserted(k, t) /\ Number[log[k][3]] = i)}}
Known(t) == \E n \in DOMAIN log : Inserted(n, t)
Ids == {Number[w] : w \in DOMAIN Number}

SelectRows(t) == UNION {{<<IntCell(i), StrCell(w)>> : w \in Names(t, i)} : i \in Ids}
IntersectRows(t, u) ==
    UNION {{<<IntCell(i), StrCell(p[1]), StrCell(p[2])>> : p \in Names(t, i) \X Names(u, i)} : i \in Ids}
LeftRows(t, u) ==
    UNION {{<<IntCell(i), StrCell(w), TNull>> : w \in Names(t, i)} : i \in {j \in Ids : Names(u, j) = {}}}
RightRows(t, u) ==
    UNION {{<<IntCell(i), TNull, StrCell(w)>> : w \in Names(u, i)} : i \in {j \in Ids : Names(t, j) = {}}}
DifferenceRows(t, u) == LeftRows(t, u) \union RightRows(t, u)

Expected(line) ==
    CASE line[1] = "SELECT" -> SelectRows(line[2])
      [] line[1] = "INTERSECT" -> IntersectRows(Left(line), Right(line))
      [] line[1] = "DIFFERENCE" -> DifferenceRows(Left(line), Right(line))
      [] OTHER -> {}

\* A request is answered with the rows it stands for, each once, in the client's
\* own ids and names, although an id becomes an unsigned one and back, and cells
\* are merged and padded on the way; or it is refused, as a whole.
AnswerRight ==
    log # << >> /\ process = "up" =>
        LET line == Last(log)
            refused == \/ ~WellFormed(line)
                       \/ line[1] # "INSERT" /\ ~(Known(Left(line)) /\ Known(Right(line)))
        IN  IF refused THEN answer = <<ERR>>
            ELSE /\ Last(answer) = OK
                 /\ ToSet(Front(answer)) = Expected(line)
                 /\ Len(Front(answer)) = Cardinality(Expected(line))

\* Only three things end or damage the process: an id that is no number, in an
\* INSERT that is otherwise complete; an intersection with a row too long for the
\* buffer; and a refusal too long for it, of a line or of a table that the client
\* has not filled.  What came in one INSERT always fits when it is selected, and in
\* a difference.
DownExplained ==
    process # "up" =>
        LET line == Last(log)
        IN  \/ Is(line, "INSERT", 4) /\ line[3] \notin DOMAIN Number
            \/ IsJoin(line, "INTERSECT") /\ \E row \in Expected(line) : ~Fits(row)
            \/ ~WellFormed(line) /\ \E length \in ErrorLengths(line) : length > BufferSize
            \/ /\ WellFormed(line) /\ line[1] # "INSERT"
               /\ \E t \in {Left(line), Right(line)} : ~Known(t) /\ MissingLength(t) > BufferSize
===============================================================================
