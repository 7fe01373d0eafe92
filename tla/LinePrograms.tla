------------------------------ MODULE LinePrograms -----------------------------
(***************************************************************************)
(* The programs that handle lines one at a time: 02 ip_filter (IpFilter),  *)
(* the sessions of 10 bulk_server (BulkSession), and what 11 join_server   *)
(* does with one request after the other (JoinText).                       *)
(***************************************************************************)
EXTENDS InOrder, Sequences

CONSTANTS
    Lines, Junk, MaxAddresses,               \* IpFilter
    Sessions, Letters, BufferSize, MaxText,  \* BulkSession
    Requests, Number, Width, Phrase, RowSize, IntRange, IdRange,
    MaxRequests                              \* JoinText, RowSize for BufferSize

VARIABLES
    source, items, output, phase,
    state, handle, buffer, counter, handled, reads, terminated,
    tables, reply, process, log

\* A line of 02 has a first field, which may be empty.
ASSUME LinesAssumption ==
    \A line \in Lines : line # << >> /\ line \in Seq({line[i] : i \in DOMAIN line})

ASSUME BufferSizesAssumption == BufferSize \in Nat /\ RowSize \in Nat

Filter == INSTANCE IpFilter
Server == INSTANCE BulkSession
Text == INSTANCE JoinText WITH BufferSize <- RowSize, answer <- reply

\* Both are powers of two, and a TRowId is not narrower than an int.
ASSUME RangesAssumption ==
    /\ IntRange \in Nat \ {0} /\ IntRange % 2 = 0
    /\ IdRange \in Nat \ {0} /\ IdRange % IntRange = 0

\* std::stoi returns an int, all digits of which it has read.
ASSUME WordsAssumption ==
    /\ Width \in [DOMAIN Width -> Nat] /\ {"A", "B"} \subseteq DOMAIN Width
    /\ Phrase \in [{"unterminated", "blank", "unexpected", "insert", "terms", "missing"} -> Nat]
    /\ \A w \in DOMAIN Number :
          /\ w \in DOMAIN Width
          /\ Number[w] \in -(IntRange \div 2) .. (IntRange \div 2) - 1
          /\ Text!Decimal(Number[w]) \in 0 .. Width[w]

ASSUME RequestsAssumption == \A line \in Requests : line \in Seq(DOMAIN Width)

filterVars == <<source, items, output, phase>>
sessionVars == <<state, handle, buffer, counter, handled, reads, terminated>>
textVars == <<tables, reply, process, log>>

-------------------------------------------------------------------------------
(* Properties *)

\* 02 ip_filter: every address is printed, in order and through each filter.
OutputRight == Filter!OutputRight

\* 10 bulk_server: a parser gets the lines that were sent to its session
\* (ExtractLinesFromBuffer), and what a client has to do for it.
LinesHandled == Server!LinesHandled

\* 11 join_server: a client gets the rows it asked for, with the ids and names it
\* gave (parser.cpp, TRowData), or a refusal.
AnswerRight == Text!AnswerRight

\* 11 join_server: all that ends or damages the process (std::stoi, TRowData::Dump,
\* TStatus::Dump).
DownExplained == Text!DownExplained
===============================================================================
