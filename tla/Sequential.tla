------------------------------- MODULE Sequential ------------------------------
(***************************************************************************)
(* The programs, and the parts of the two servers, that do one thing at a  *)
(* time and share nothing: each has a module of its own, and a behaviour   *)
(* of this one is a behaviour of one of them, the others being left in     *)
(* their initial states.                                                   *)
(***************************************************************************)
EXTENDS SmallPrograms, LinePrograms

CONSTANTS
    MaxDigits  \* BigInt

VARIABLES
    program,  \* the one that runs
    target, y, left, right, answer, step

Terms == INSTANCE BigInt

termsVars == <<target, y, left, right, answer, step>>

Programs == {"06 matrix", "03 allocator", "07 bulk", "02 ip_filter",
             "10 bulk_server", "timus 1022", "timus 1153", "11 join_server"}

\* Only the program that runs has a choice of arguments.
Init ==
    /\ program \in Programs
    /\ SparseMatrix!Init
    /\ ContainerInit
    /\ BulkInit /\ (program = "07 bulk" \/ blockSize = CHOOSE n \in BulkSizes : TRUE)
    /\ Filter!Init
    /\ Server!Init
    /\ Sort!Init
    /\ Terms!Init
    /\ Text!Init

RunSparseMatrix ==
    /\ program = "06 matrix"
    /\ SparseMatrix!Next
    /\ UNCHANGED <<program, containerVars, bulkVars, filterVars,
                   sessionVars, sortVars, termsVars, textVars>>

RunVector ==
    /\ program = "03 allocator"
    /\ ContainerNext
    /\ UNCHANGED <<program, matrixVars, bulkVars, filterVars,
                   sessionVars, sortVars, termsVars, textVars>>

RunBulk ==
    /\ program = "07 bulk"
    /\ BulkNext
    /\ UNCHANGED <<program, matrixVars, containerVars, filterVars,
                   sessionVars, sortVars, termsVars, textVars>>

RunFilter ==
    /\ program = "02 ip_filter"
    /\ Filter!Next
    /\ UNCHANGED <<program, matrixVars, containerVars, bulkVars,
                   sessionVars, sortVars, termsVars, textVars>>

RunServer ==
    /\ program = "10 bulk_server"
    /\ Server!Next
    /\ UNCHANGED <<program, matrixVars, containerVars, bulkVars,
                   filterVars, sortVars, termsVars, textVars>>

RunSort ==
    /\ program = "timus 1022"
    /\ Sort!Next
    /\ UNCHANGED <<program, matrixVars, containerVars, bulkVars,
                   filterVars, sessionVars, termsVars, textVars>>

RunTerms ==
    /\ program = "timus 1153"
    /\ Terms!Next
    /\ UNCHANGED <<program, matrixVars, containerVars, bulkVars,
                   filterVars, sessionVars, sortVars, textVars>>

RunText ==
    /\ program = "11 join_server"
    /\ Text!Next
    /\ UNCHANGED <<program, matrixVars, containerVars, bulkVars,
                   filterVars, sessionVars, sortVars, termsVars>>

Next ==
    \/ RunSparseMatrix
    \/ RunVector
    \/ RunBulk
    \/ RunFilter
    \/ RunServer
    \/ RunSort
    \/ RunTerms
    \/ RunText

vars == <<program, matrixVars, containerVars, bulkVars, filterVars,
          sessionVars, sortVars, termsVars, textVars>>

Spec == Init /\ [][Next]_vars

-------------------------------------------------------------------------------
(* Properties; those of the other programs are in SmallPrograms, in LinePrograms and
   in the modules they extend *)

\* timus 1153: the binary search ends with the number of terms (SqrRoot).
TermsFound == Terms!TermsFound
===============================================================================
