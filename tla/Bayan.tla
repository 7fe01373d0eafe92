--------------------------------- MODULE Bayan ---------------------------------
(***************************************************************************)
(* 08_bayan finds files with equal content: TFileCrawler (file_crawler.cpp)*)
(* walks directories and keeps a queue of blocks to read,                  *)
(* TFileBlockChecksumComputer computes the checksum of one block, and      *)
(* TBlockChecksumStorage (block_checksum_storage.cpp) keeps a trie of      *)
(* checksums and says which files have to be read further.                 *)
(*                                                                         *)
(* A node of the trie is the sequence of checksums on the way to it.  The  *)
(* checksum of a block is the block, padded as the code pads it: checksums *)
(* do not collide, and files do not change while the program runs.         *)
(***************************************************************************)
EXTENDS Integers, Sequences, FiniteSets, SequencesExt

CONSTANTS
    Files,         \* the paths under the included directories that no filter
                   \* drops: regular files, not excluded, matched by the mask
    Disks,         \* what these files may contain, as sequences of bytes
    BlockSize,     \* --block-size
    MinFileSizes,  \* values of --min-file-size
    MaxEntries,    \* bound: entries of one path under the included directories
    End            \* std::nullopt in FileReadState: read to the end

ASSUME BlockSizeAssumption == BlockSize \in Nat \ {0}
ASSUME DisksAssumption == Disks \subseteq [Files -> Seq(Nat)]
ASSUME MinFileSizesAssumption == MinFileSizes \subseteq Nat
ASSUME MaxEntriesAssumption == MaxEntries \in Nat
ASSUME EndAssumption == End \notin Nat

VARIABLES
    content,    \* the files on the disk
    minSize,    \* TFileCrawler::MinFileSize
    entries,    \* directory entries of a path, several if included directories overlap
    walked,     \* how many of them have been handled
    tasks,      \* TFileCrawler::Tasks
    readState,  \* TFileCrawler::FileReadState, 0 for a file that is not in it
    node,       \* TBlockChecksumStorage::Filenames, the root for a file not in it
    trailing,   \* IsTrailingBlockForFilenames of every node but the root
    emptyFiles, \* TBlockChecksumStorage::EmptyFiles
    failed      \* an exception has ended the run

storage == <<node, trailing, emptyFiles>>
vars == <<content, minSize, entries, walked, tasks, readState, node, trailing, emptyFiles, failed>>

Root == << >>
Task(f, b) == [file |-> f, block |-> b]

Init ==
    /\ content \in Disks
    /\ minSize \in MinFileSizes
    /\ entries \in [Files -> 1 .. MaxEntries]
    /\ walked = [f \in Files |-> 0]
    /\ tasks = << >>
    /\ readState = [f \in Files |-> 0]
    /\ node = [f \in Files |-> Root]
    /\ trailing = << >>
    /\ emptyFiles = {}
    /\ failed = FALSE

-------------------------------------------------------------------------------
(* Walking the directories *)

HandleDirectoryEntry(f) ==
    /\ walked[f] < entries[f]
    /\ walked' = [walked EXCEPT ![f] = @ + 1]
    /\ LET size == Len(content[f])
       IN  /\ emptyFiles' = IF size = 0 /\ size >= minSize
                            THEN emptyFiles \union {f} ELSE emptyFiles
           /\ tasks' = IF size # 0 /\ size >= minSize
                       THEN Append(tasks, Task(f, 0)) ELSE tasks
    /\ UNCHANGED <<content, minSize, entries, readState, node, trailing, failed>>

-------------------------------------------------------------------------------
(* TFileBlockChecksumComputer::Compute *)

Exists(f, b) == b * BlockSize < Len(content[f])

Checksum(f, b) ==
    [i \in 1 .. BlockSize |-> IF b * BlockSize + i <= Len(content[f])
                              THEN content[f][b * BlockSize + i] ELSE 0]

NextBlock(f, b) == IF (b + 1) * BlockSize < Len(content[f]) THEN b + 1 ELSE End

-------------------------------------------------------------------------------
(* TBlockChecksumStorage::Register, and what HandleNextTask does with the     *)
(* result.  BOOST_VERIFY_MSG(parent->BlockID = blockID - 1) assigns a field   *)
(* that nobody reads, and never fails.                                        *)

Nodes == DOMAIN trailing

Child(f, b) == Append(node[f], Checksum(f, b))

\* Mutant: the next block of the file is read at once.
AddNodeEager(f, b) ==
    /\ Child(f, b) \notin Nodes
    /\ node' = [node EXCEPT ![f] = Child(f, b)]
    /\ trailing' = [n \in Nodes \union {Child(f, b)} |->
                      IF n = Child(f, b) THEN {f}
                      ELSE IF n = node[f] THEN trailing[n] \ {f} ELSE trailing[n]]
    /\ tasks' = Append(Tail(tasks), Task(f, b + 1))

\* No file has had these blocks before: nothing has to be read.
AddNode(f, b) ==
    /\ Child(f, b) \notin Nodes
    /\ node' = [node EXCEPT ![f] = Child(f, b)]
    /\ trailing' = [n \in Nodes \union {Child(f, b)} |->
                      IF n = Child(f, b) THEN {f}
                      ELSE IF n = node[f] THEN trailing[n] \ {f} ELSE trailing[n]]
    /\ tasks' = Tail(tasks)

\* Asked(fs, b): the tasks pushed for the files of a std::unordered_set.
Asked(fs, b) == {[i \in DOMAIN s |-> Task(s[i], b)] : s \in SetToSeqs(fs)}

\* Mutant: the files that wait in the node are not asked for.
JoinNodeAlone(f, b) ==
    /\ Child(f, b) \in Nodes
    /\ node' = [node EXCEPT ![f] = Child(f, b)]
    /\ trailing' = [trailing EXCEPT ![Child(f, b)] = @ \union {f}]
    /\ tasks' = Append(Tail(tasks), Task(f, b + 1))

\* Another file has them, too: all that end here have to be read further.
JoinNode(f, b) ==
    /\ Child(f, b) \in Nodes
    /\ node' = [node EXCEPT ![f] = Child(f, b)]
    /\ trailing' = [trailing EXCEPT ![Child(f, b)] = @ \union {f}]
    /\ \E asked \in Asked(trailing'[Child(f, b)], b + 1) : tasks' = Tail(tasks) \o asked

-------------------------------------------------------------------------------
(* TFileCrawler::HandleNextTask and Tasks.pop() *)

Outdated(f, b) == readState[f] # End => b < readState[f]

HandleTask(f, b) ==
    \/ /\ Outdated(f, b)
       /\ tasks' = Tail(tasks)
       /\ UNCHANGED <<readState, storage, failed>>
    \/ /\ ~Outdated(f, b)
       /\ Exists(f, b)
       /\ readState' = [readState EXCEPT ![f] = NextBlock(f, b)]
       /\ AddNode(f, b) \/ JoinNode(f, b)
       /\ UNCHANGED <<emptyFiles, failed>>
    \/ /\ ~Outdated(f, b)
       /\ ~Exists(f, b)
       /\ failed' = TRUE
       /\ UNCHANGED <<tasks, readState, storage>>

Walked == walked = entries

HandleNextTask ==
    /\ Walked
    /\ ~failed
    /\ tasks # << >>
    /\ HandleTask(Head(tasks).file, Head(tasks).block)
    /\ UNCHANGED <<content, minSize, entries, walked>>

\* Run has returned: main prints GetDuplicates.
Finished == Walked /\ ~failed /\ tasks = << >>

Stopped == (Finished \/ failed) /\ UNCHANGED vars

Next ==
    \/ \E f \in Files : HandleDirectoryEntry(f)
    \/ HandleNextTask
    \/ Stopped

\* One thread, which goes on until the queue is empty.
Spec == Init /\ [][Next]_vars /\ WF_vars(Next)

-------------------------------------------------------------------------------
(* GetDuplicates: the files of one node, and all empty files *)

FilesOf(n) == {f \in Files : node[f] = n}

GetDuplicates ==
    {g \in {FilesOf(n) : n \in Nodes} : Cardinality(g) > 1}
    \union (IF emptyFiles # {} THEN {emptyFiles} ELSE {})

-------------------------------------------------------------------------------
(* Properties *)

\* What the padded blocks of a file are: the reference for its way in the trie.
Padding(f) == (BlockSize - (Len(content[f]) % BlockSize)) % BlockSize
Padded(f) == content[f] \o [i \in 1 .. Padding(f) |-> 0]
Blocks(f) == [b \in 1 .. Len(Padded(f)) \div BlockSize |->
                SubSeq(Padded(f), (b - 1) * BlockSize + 1, b * BlockSize)]

\* "block IDs must be contiguous" (Register), which the code means to verify and
\* does not: whatever tasks are in the queue, the blocks of a file are registered
\* once each and in their order, and the crawler knows which one is next.
BlocksContiguous ==
    \A f \in Files :
        /\ IsPrefix(node[f], Blocks(f))
        /\ readState[f] = IF node[f] # Root /\ node[f] = Blocks(f)
                          THEN End ELSE Len(node[f])

\* "asks caller to provide next blocks for some files if it is necessary for
\* file deduplication" (Register): a file is read beyond a block only if another
\* file has the same blocks up to there.
ReadIfNecessary ==
    \A f \in Files : Len(node[f]) > 1 =>
        \E g \in Files \ {f} : IsPrefix(Front(node[f]), node[g])

\* What the crawl reads is what it needs: each block at most once, in order, and
\* only to tell files apart; no task that is carried out asks for a block that does
\* not exist, "invalid request" (Compute).
ReadsInOrderIfNecessary == BlocksContiguous /\ ReadIfNecessary /\ ~failed

\* "the list of files with different names, but similair content" (GetDuplicates):
\* the queue becomes empty, and the groups of several files are then those of the
\* definition: files that are equal after padding, the empty ones among them.  What
\* else is listed, against that sentence, is one empty file without another.
DuplicatesFound ==
    LET wanted == {f \in Files : Len(content[f]) >= minSize}
        SameAs(f) == {g \in wanted : Padded(g) = Padded(f)}
        Several(groups) == {g \in groups : Cardinality(g) > 1}
    IN  <>(/\ Finished
           /\ Several(GetDuplicates) = Several({SameAs(f) : f \in wanted})
           /\ \A g \in GetDuplicates \ Several(GetDuplicates) : \A f \in g : content[f] = << >>)
===============================================================================
