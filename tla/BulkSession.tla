------------------------------ MODULE BulkSession ------------------------------
(***************************************************************************)
(* The TCP sessions of 10_bulk_server (main.cpp): TServer accepts, each    *)
(* TSession has a parser of its own and a buffer into which it reads.      *)
(* What the parsers do with a line is BulkServer; here a line is handed on *)
(* or, if it is empty, throws.                                             *)
(*                                                                         *)
(* async_read_some overwrites the front of the buffer with whatever has    *)
(* arrived.  ExtractLinesFromBuffer does not know how much that was: it    *)
(* takes every line of the buffer, what earlier reads have left included.  *)
(* An exception of a parser leaves io_context::run and ends the process.   *)
(***************************************************************************)
EXTENDS Integers, SequencesExt, InOrder

CONSTANTS
    Sessions,     \* connections that clients may open
    Letters,      \* characters of lines, other than the delimiter
    BufferSize,   \* TSession::BufferSize_
    MaxText       \* bound: characters all clients send

Delimiter == "newline"
Zero == "zero"
Characters == Letters \union {Delimiter}

VARIABLES
    state,       \* "none", "reading" or "closed"
    handle,      \* Handle_ of the session
    buffer,      \* Buffer_ of the session
    counter,     \* TParserController::ParserCounter
    handled,     \* by handle: the lines its parser was given
    reads,       \* history: what the reads of the session have returned
    terminated   \* an exception has ended the process

vars == <<state, handle, buffer, counter, handled, reads, terminated>>

FreshBuffer == [i \in 1 .. BufferSize |-> Zero]

Init ==
    /\ state = [s \in Sessions |-> "none"]
    /\ handle = [s \in Sessions |-> 0]
    /\ buffer = [s \in Sessions |-> << >>]
    /\ counter = 0
    /\ handled = << >>
    /\ reads = [s \in Sessions |-> << >>]
    /\ terminated = FALSE

\* The accept handler constructs the session, which connects, and accepts again.
Accept(s) ==
    /\ state[s] = "none"
    /\ state' = [state EXCEPT ![s] = "reading"]
    /\ buffer' = [buffer EXCEPT ![s] = FreshBuffer]
    /\ handle' = [handle EXCEPT ![s] = counter + 1]
    /\ counter' = counter + 1
    /\ handled' = Append(handled, << >>)
    /\ UNCHANGED <<reads, terminated>>

\* The positions of the delimiters, in order.
Ends(text) == InOrder({i \in DOMAIN text : text[i] = Delimiter})

\* Mutant: the search goes on at the delimiter.
LinesWithDelimiter(text) ==
    [k \in DOMAIN Ends(text) |->
        SubSeq(text, IF k = 1 THEN 1 ELSE Ends(text)[k - 1], Ends(text)[k] - 1)]

\* What is behind the last delimiter is no line.
ExtractLines(text) ==
    [k \in DOMAIN Ends(text) |->
        SubSeq(text, IF k = 1 THEN 1 ELSE Ends(text)[k - 1] + 1, Ends(text)[k] - 1)]

UpToEmpty(lines) ==
    LET empty == {i \in DOMAIN lines : lines[i] = << >>}
    IN  IF empty = {} THEN lines
        ELSE SubSeq(lines, 1, (CHOOSE i \in empty : \A j \in empty : i <= j) - 1)

Overwritten(old, chunk) == chunk \o SubSeq(old, Len(chunk) + 1, BufferSize)

Text(s) == FlattenSeq(reads[s])
Sent == FoldFunction(LAMBDA list, n : n + Len(FlattenSeq(list)), 0, reads)

\* The handler of a read: receive for each line, until one throws.
Read(s, chunk) ==
    /\ state[s] = "reading"
    /\ Sent + Len(chunk) <= MaxText
    /\ reads' = [reads EXCEPT ![s] = Append(@, chunk)]
    /\ buffer' = [buffer EXCEPT ![s] = Overwritten(@, chunk)]
    /\ LET lines == ExtractLines(buffer'[s])
       IN  /\ handled' = [handled EXCEPT ![handle[s]] = @ \o UpToEmpty(lines)]
           /\ terminated' = (UpToEmpty(lines) # lines)
    /\ UNCHANGED <<state, handle, counter>>

\* The read fails, the handler drops the session, which disconnects.
Close(s) ==
    /\ state[s] = "reading"
    /\ state' = [state EXCEPT ![s] = "closed"]
    /\ UNCHANGED <<handle, buffer, counter, handled, reads, terminated>>

Chunks == UNION {[1 .. n -> Characters] : n \in 1 .. BufferSize}

\* The server waits for ever; all clients may have left.
Stopped ==
    /\ terminated \/ \A s \in Sessions : state[s] = "closed"
    /\ UNCHANGED vars

Next ==
    \/ /\ ~terminated
       /\ \E s \in Sessions : Accept(s) \/ Close(s) \/ \E chunk \in Chunks : Read(s, chunk)
    \/ Stopped

Spec == Init /\ [][Next]_vars

-------------------------------------------------------------------------------
(* Properties *)

\* Every read ended with a line; no read was shorter than one before it.
WholeLines(s) == \A i \in DOMAIN reads[s] : Last(reads[s][i]) = Delimiter
Growing(s) == \A i, j \in DOMAIN reads[s] : i < j => Len(reads[s][i]) <= Len(reads[s][j])

\* The elements of `list` are in `whole`, in order, perhaps with others between.
Within(list, whole) ==
    \E at \in [DOMAIN list -> DOMAIN whole] :
        /\ \A i, j \in DOMAIN list : i < j => at[i] < at[j]
        /\ \A i \in DOMAIN list : list[i] = whole[at[i]]

\* What the parser of a session is given (main.cpp).  As long as every read ends
\* with a line, no line is lost and lines stay in order, whatever the buffer
\* repeats; and if no read is shorter than an earlier one, nothing is repeated,
\* and only an empty line that a client did send ends the process.
LinesHandled ==
    /\ \A s \in Sessions : state[s] # "none" /\ WholeLines(s) =>
        LET sent == UpToEmpty(ExtractLines(Text(s)))
        IN  /\ Within(sent, handled[handle[s]])
            /\ Growing(s) => handled[handle[s]] = sent
    /\ terminated =>
        \E s \in Sessions : \/ << >> \in ToSet(ExtractLines(Text(s)))
                            \/ ~(WholeLines(s) /\ Growing(s))
===============================================================================
