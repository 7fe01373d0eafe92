--------------------------- MODULE BulkServerProofs ---------------------------
(***************************************************************************)
(* Theorems about BulkServer, for any clients, bulk sizes and lines.       *)
(*                                                                         *)
(* The commands of a client are numbered as it sends them.  The argument   *)
(* is that along the way to the screen (the client, the shared buffer, the *)
(* block that is being printed, the screen) those numbers only go down,    *)
(* and that no number is missing.                                          *)
(***************************************************************************)
EXTENDS BulkServer, BracesProofs

Locations == {"new", "idle", "add", "dump", "file", "stdout", "wait", "gone"}
Printing == {"file", "stdout", "wait"}

TypeOK ==
    /\ pc \in [Clients -> Locations]
    /\ bulk \in [Clients -> Nat]
    /\ commands \in [Clients -> Nat]
    /\ level \in [Clients -> Nat]
    /\ own \in [Clients -> Seq(Command)]
    /\ shared \in Seq(Command)
    /\ block \in [Clients -> Blocks]
    /\ screen \in Seq(Blocks)

-------------------------------------------------------------------------------
(* Lists of commands *)

\* The commands of each client are in order.
Ordered(list) ==
    \A i, j \in DOMAIN list :
        i < j /\ list[i].client = list[j].client => list[i].n < list[j].n

\* The commands of a client in the first list come before those in the second.
Follows(first, second) ==
    \A i \in DOMAIN first, j \in DOMAIN second :
        first[i].client = second[j].client => first[i].n < second[j].n

\* No client has commands in both lists; none of c; none but those of c.
Apart(first, second) ==
    \A i \in DOMAIN first, j \in DOMAIN second : first[i].client # second[j].client
NoneOf(c, list) == \A i \in DOMAIN list : list[i].client # c
OnlyOf(c, list) == \A i \in DOMAIN list : list[i].client = c

\* All commands of the client of m in the list come before m.
Before(list, m) == \A i \in DOMAIN list : list[i].client = m.client => list[i].n < m.n

\* No command has a number above that which top gives its client.
Numbered(list, top) == \A i \in DOMAIN list : list[i].n \in 1 .. top[list[i].client]

Holds(list, m) == \E i \in DOMAIN list : list[i] = m

-------------------------------------------------------------------------------
(* The invariant *)

Unprinted(c) == block[c] \notin OnScreen

\* How many commands of each client have come further than to wait for the mutex
\* of the shared accumulator.
Settled == [c \in Clients |-> IF pc[c] = "add" THEN commands[c] - 1 ELSE commands[c]]

\* A dynamic block is open, or is being printed: the client has nothing on the
\* way through the shared buffer, but for what it flushes itself.
Private(c) == (level[c] > 0 /\ pc[c] # "dump") \/ block[c].origin = "own"

\* Where a client is, and what is in its own buffer and in its block.
ClientOK(c) ==
    /\ pc[c] \in Printing <=> block[c].list # << >>
    /\ pc[c] \in Printing <=> block[c].origin # "none"
    /\ Unprinted(c) \/ pc[c] = "wait"
    /\ block[c].origin = "own" => level[c] = 0 /\ OnlyOf(c, block[c].list)
    /\ own[c] # << >> => level[c] > 0 /\ pc[c] = "idle"
    /\ OnlyOf(c, own[c])
    /\ pc[c] = "add" => level[c] = 0 /\ commands[c] > 0

PrivateOK(c) ==
    Private(c) => /\ NoneOf(c, shared)
                  /\ \A d \in Holder \ {c} : Unprinted(d) => NoneOf(c, block[d].list)

\* The pool of the screen has the blocks of those who wait for it.
PrintersOK ==
    /\ \A i \in DOMAIN screen : screen[i].list # << >>
    /\ outFinished = OnScreen
    /\ outPending \in Seq(Blocks)
    /\ \A i, j \in DOMAIN outPending : i # j => outPending[i] # outPending[j]
    /\ \A i \in DOMAIN outPending : outPending[i] \notin outRunning
    /\ \A b \in outRunning \union {outPending[i] : i \in DOMAIN outPending} :
          \E c \in Clients : pc[c] = "wait" /\ b = block[c] /\ Unprinted(c)

BlocksOK ==
    /\ \A c \in Clients : ClientOK(c) /\ PrivateOK(c)
    /\ \A c, d \in Holder : c = d
    /\ PrintersOK

\* Everything is in order on its way to the screen.
WayOK ==
    /\ Ordered(shared) /\ Numbered(shared, Settled)
    /\ \A i \in DOMAIN screen :
        /\ Ordered(screen[i].list) /\ Numbered(screen[i].list, Settled)
        /\ Follows(screen[i].list, shared)
        /\ \A j \in DOMAIN screen : i < j => Follows(screen[i].list, screen[j].list)
    /\ \A c \in Clients :
        /\ Ordered(own[c]) /\ Numbered(own[c], Settled)
        /\ Ordered(block[c].list) /\ Numbered(block[c].list, Settled)
        /\ Unprinted(c) /\ c \in Holder => Follows(block[c].list, shared)
        /\ \A i \in DOMAIN screen : /\ Follows(screen[i].list, own[c])
                                    /\ Unprinted(c) => Follows(screen[i].list, block[c].list)
        /\ \A d \in Clients \ {c} :
              Unprinted(c) /\ Unprinted(d) => Apart(block[c].list, block[d].list)

\* Where a command is.
Present(m) ==
    \/ pc[m.client] = "add" /\ m = LastCommand(m.client)
    \/ Holds(shared, m)
    \/ \E c \in Clients : Holds(own[c], m)
    \/ \E c \in Clients : Unprinted(c) /\ Holds(block[c].list, m)
    \/ \E i \in DOMAIN screen : Holds(screen[i].list, m)

\* No number is missing: a client that is there has all its commands somewhere,
\* one that is gone all up to the last that is anywhere.
NoneMissing ==
    \A c \in Clients : \A k \in 1 .. commands[c] :
        Present([client |-> c, n |-> k]) \/ (k = commands[c] /\ pc[c] # "gone") =>
            \A n \in 1 .. k : Present([client |-> c, n |-> n])

PrintInv == TypeOK /\ BlocksOK /\ WayOK /\ NoneMissing

-------------------------------------------------------------------------------
(* Lemmas about lists *)

LEMMA ListFields ==
    ASSUME NEW list \in Seq(Command)
    PROVE  /\ DOMAIN list = 1 .. Len(list) /\ Len(list) \in Nat
           /\ \A i \in DOMAIN list : /\ list[i] \in Command
                                     /\ list[i].client \in Clients /\ list[i].n \in Nat
  <1>1. DOMAIN list = 1 .. Len(list) /\ Len(list) \in Nat
    BY LenProperties
  <1>2. \A i \in DOMAIN list : list[i] \in Command
    BY <1>1, ElementOfSeq
  <1> QED
    BY <1>1, <1>2 DEF Command

LEMMA ListAppend ==
    ASSUME NEW list \in Seq(Command), NEW m \in Command
    PROVE  /\ Append(list, m) \in Seq(Command) /\ Append(list, m) # << >>
           /\ DOMAIN Append(list, m) = 1 .. Len(list) + 1
           /\ \A i \in DOMAIN list : i \in DOMAIN Append(list, m) /\ Append(list, m)[i] = list[i]
           /\ Append(list, m)[Len(list) + 1] = m
           /\ \A i \in DOMAIN Append(list, m) : i \in DOMAIN list \/ i = Len(list) + 1
  <1>1. /\ DOMAIN list = 1 .. Len(list) /\ Len(list) \in Nat
    BY ListFields
  <1>2. /\ Append(list, m) \in Seq(Command)
        /\ Len(Append(list, m)) = Len(list) + 1
        /\ \A i \in 1 .. Len(list) : Append(list, m)[i] = list[i]
        /\ Append(list, m)[Len(list) + 1] = m
    BY AppendProperties
  <1>3. DOMAIN Append(list, m) = 1 .. Len(list) + 1
    BY <1>2, LenProperties
  <1>4. Append(list, m) # << >>
    BY <1>1, <1>2
  <1> QED
    BY <1>1, <1>2, <1>3, <1>4

LEMMA EmptyList ==
    /\ Ordered(<< >>)
    /\ \A list : Follows(list, << >>) /\ Follows(<< >>, list)
    /\ \A list : Apart(list, << >>) /\ Apart(<< >>, list)
    /\ \A c : NoneOf(c, << >>) /\ OnlyOf(c, << >>)
    /\ \A m : Before(<< >>, m) /\ ~ Holds(<< >>, m)
    /\ \A top : Numbered(<< >>, top)
  <1>1. DOMAIN << >> = {}
    OBVIOUS
  <1> QED
    BY <1>1 DEF Ordered, Follows, Apart, NoneOf, OnlyOf, Before, Holds, Numbered

LEMMA AppendLists ==
    ASSUME NEW list \in Seq(Command), NEW m \in Command
    PROVE  /\ Ordered(list) /\ Before(list, m) => Ordered(Append(list, m))
           /\ \A x : Follows(x, list) /\ Before(x, m) => Follows(x, Append(list, m))
           /\ \A c : NoneOf(c, list) /\ c # m.client => NoneOf(c, Append(list, m))
           /\ \A c : OnlyOf(c, list) /\ c = m.client => OnlyOf(c, Append(list, m))
           /\ \A k : Holds(Append(list, m), k) <=> Holds(list, k) \/ k = m
           /\ \A top : Numbered(list, top) /\ m.n \in 1 .. top[m.client]
                       => Numbered(Append(list, m), top)
  <1> DEFINE longer == Append(list, m)
  <1>1. /\ \A i \in DOMAIN list : i \in DOMAIN longer /\ longer[i] = list[i]
        /\ longer[Len(list) + 1] = m /\ Len(list) + 1 \in DOMAIN longer
        /\ \A i \in DOMAIN longer : i \in DOMAIN list \/ i = Len(list) + 1
        /\ DOMAIN list = 1 .. Len(list) /\ Len(list) \in Nat
    BY ListAppend, ListFields
  <1>2. \A i \in DOMAIN list : ~ (Len(list) + 1 < i)
    BY <1>1
  <1> HIDE DEF longer
  <1>3. Ordered(list) /\ Before(list, m) => Ordered(longer)
    BY <1>1, <1>2 DEF Ordered, Before
  <1>4. \A x : Follows(x, list) /\ Before(x, m) => Follows(x, longer)
    BY <1>1 DEF Follows, Before
  <1>5. /\ \A c : NoneOf(c, list) /\ c # m.client => NoneOf(c, longer)
        /\ \A c : OnlyOf(c, list) /\ c = m.client => OnlyOf(c, longer)
    BY <1>1 DEF NoneOf, OnlyOf
  <1>6. \A k : Holds(longer, k) <=> Holds(list, k) \/ k = m
    BY <1>1 DEF Holds
  <1>7. \A top : Numbered(list, top) /\ m.n \in 1 .. top[m.client] => Numbered(longer, top)
    BY <1>1 DEF Numbered
  <1> QED
    BY <1>3, <1>4, <1>5, <1>6, <1>7 DEF longer

LEMMA ApartLists ==
    /\ \A x, y : Apart(x, y) => Apart(y, x) /\ Follows(x, y) /\ Follows(y, x)
    /\ \A c, x, y : OnlyOf(c, x) /\ NoneOf(c, y) => Apart(x, y)
    /\ \A c, d, x, y : OnlyOf(c, x) /\ OnlyOf(d, y) /\ c # d => Apart(x, y)
    /\ \A c, d, x : OnlyOf(c, x) /\ c # d => NoneOf(d, x)
  BY DEF Apart, Follows, OnlyOf, NoneOf

\* A list that is not empty neither follows itself nor is apart from itself.
LEMMA NotBeforeItself ==
    ASSUME NEW list \in Seq(Command), list # << >>
    PROVE  ~ Follows(list, list) /\ ~ Apart(list, list)
  <1>1. 1 \in DOMAIN list
    BY ListFields, EmptySeq
  <1>2. list[1].n \in Nat
    BY <1>1, ListFields
  <1> QED
    BY <1>1, <1>2 DEF Follows, Apart

LEMMA NumberedMore ==
    ASSUME NEW list \in Seq(Command), NEW f \in [Clients -> Int], NEW g \in [Clients -> Int],
           \A c \in Clients : f[c] <= g[c], Numbered(list, f)
    PROVE  Numbered(list, g)
  <1>1. \A i \in DOMAIN list : list[i].client \in Clients /\ list[i].n \in Nat
    BY ListFields
  <1> SUFFICES ASSUME NEW i \in DOMAIN list PROVE list[i].n \in 1 .. g[list[i].client]
    BY DEF Numbered
  <1>2. list[i].n \in 1 .. f[list[i].client] /\ f[list[i].client] <= g[list[i].client]
    BY <1>1 DEF Numbered
  <1> QED
    BY <1>1, <1>2

LEMMA NumberedBefore ==
    ASSUME NEW list \in Seq(Command), NEW top \in [Clients -> Int], Numbered(list, top),
           NEW m \in Command, top[m.client] < m.n
    PROVE  Before(list, m)
  <1>1. m.client \in Clients /\ m.n \in Nat /\ top[m.client] \in Int
    BY DEF Command
  <1> SUFFICES ASSUME NEW i \in DOMAIN list, list[i].client = m.client
               PROVE  list[i].n < m.n
    BY DEF Before
  <1>2. list[i].n \in 1 .. top[m.client]
    BY DEF Numbered
  <1> QED
    BY <1>1, <1>2

LEMMA SettledType ==
    TypeOK => /\ Settled \in [Clients -> Int]
              /\ \A c \in Clients : Settled[c] <= commands[c]
  BY DEF TypeOK, Settled

-------------------------------------------------------------------------------
(* The screen *)

LEMMA ScreenFields ==
    ASSUME TypeOK
    PROVE  /\ DOMAIN screen = 1 .. Len(screen) /\ Len(screen) \in Nat
           /\ \A i \in DOMAIN screen : screen[i] \in Blocks /\ screen[i].list \in Seq(Command)
  <1>1. DOMAIN screen = 1 .. Len(screen) /\ Len(screen) \in Nat
    BY LenProperties DEF TypeOK
  <1>2. \A i \in DOMAIN screen : screen[i] \in Blocks
    BY <1>1, ElementOfSeq DEF TypeOK
  <1> QED
    BY <1>1, <1>2 DEF Blocks

LEMMA BlockFields ==
    ASSUME TypeOK, NEW c \in Clients
    PROVE  /\ block[c].list \in Seq(Command)
           /\ block[c].origin \in {"none", "shared", "own"}
           /\ block[c] = Block(block[c].origin, block[c].list)
  BY DEF TypeOK, Blocks, Block

LEMMA HolderIs ==
    ASSUME BlocksOK, NEW c \in Clients
    PROVE  c \in Holder <=> block[c].origin = "shared"
  BY DEF BlocksOK, ClientOK, Holder, Printing

\* A list that follows all that is on the screen is not on the screen.
LEMMA NotOnScreen ==
    ASSUME TypeOK, NEW list \in Seq(Command), list # << >>,
           \A i \in DOMAIN screen : Follows(screen[i].list, list), NEW origin
    PROVE  Block(origin, list) \notin OnScreen
  <1> SUFFICES ASSUME NEW i \in DOMAIN screen, screen[i] = Block(origin, list)
               PROVE  FALSE
    BY DEF OnScreen
  <1>1. screen[i].list = list
    BY DEF Block
  <1> QED
    BY <1>1, NotBeforeItself

LEMMA NextCommandType ==
    ASSUME TypeOK, NEW c \in Clients
    PROVE  /\ NextCommand(c) \in Command /\ LastCommand(c) \in Command
           /\ NextCommand(c).client = c /\ NextCommand(c).n = commands[c] + 1
           /\ LastCommand(c).client = c /\ LastCommand(c).n = commands[c]
  BY DEF TypeOK, NextCommand, LastCommand, Command

LEMMA StepTypes ==
    ASSUME TypeOK, BlocksOK, [Next]_vars
    PROVE  TypeOK'
  <1>1. ASSUME NEW c \in Clients, Connect(c) PROVE TypeOK'
    BY <1>1 DEF Connect, TypeOK, Locations
  <1>2. ASSUME NEW c \in Clients, Disconnect(c) PROVE TypeOK'
    <2>1. << >> \in Seq(Command)
      BY EmptySeq
    <2> QED
      BY <1>2, <2>1 DEF Disconnect, TypeOK, Locations
  <1>3. ASSUME NEW c \in Clients, Line(c) PROVE TypeOK'
    <2>1. /\ commands[c] + 1 \in Nat /\ level[c] + 1 \in Nat
          /\ level[c] > 0 => level[c] - 1 \in Nat
          /\ own[c] \in Seq(Command) /\ << >> \in Seq(Command)
      BY EmptySeq DEF TypeOK
    <2>2. CASE NormalCommand(c) \/ Invalid(c)
      BY <1>3, <2>1, <2>2 DEF NormalCommand, Invalid, Receive, TypeOK, Locations
    <2>3. CASE DynamicCommand(c)
      <3>1. Append(own[c], NextCommand(c)) \in Seq(Command)
        BY <2>1, NextCommandType, ListAppend
      <3> QED
        BY <2>1, <2>3, <3>1 DEF DynamicCommand, Receive, TypeOK
    <2>4. CASE BlockStart(c)
      BY <2>1, <2>4 DEF BlockStart, Receive, TypeOK, Locations
    <2>5. CASE BlockEnd(c)
      <3>1. Block("own", own[c]) \in Blocks
        BY <2>1 DEF Block, Blocks
      <3> QED
        BY <2>1, <2>5, <3>1 DEF BlockEnd, Receive, TypeOK, Locations
    <2> QED
      BY <1>3, <2>2, <2>3, <2>4, <2>5 DEF Line
  <1>4. ASSUME NEW c \in Clients, Handler(c) PROVE TypeOK'
    <2>1. /\ << >> \in Seq(Command) /\ shared \in Seq(Command)
          /\ Append(shared, LastCommand(c)) \in Seq(Command)
      BY EmptySeq, NextCommandType, ListAppend DEF TypeOK
    <2>2. \A list \in Seq(Command) : Block("shared", list) \in Blocks
      BY DEF Block, Blocks
    <2>3. CASE AddCommand(c)
      BY <2>1, <2>2, <2>3 DEF AddCommand, TypeOK, Locations
    <2>4. CASE Dump(c)
      BY <2>1, <2>2, <2>4 DEF Dump, TypeOK, Locations
    <2>5. CASE EnqueueFile(c) \/ EnqueueStdOut(c)
      BY <2>5 DEF EnqueueFile, EnqueueStdOut, TypeOK, Locations
    <2>6. CASE Printed(c)
      <3>1. NoBlock \in Blocks
        BY <2>1 DEF NoBlock, Block, Blocks
      <3> QED
        BY <2>6, <3>1 DEF Printed, TypeOK, Locations
    <2> QED
      BY <1>4, <2>3, <2>4, <2>5, <2>6 DEF Handler
  <1>5. CASE StartFile \/ StartStdOut \/ \E b \in fileRunning : WriteFile(b)
    BY <1>5 DEF StartFile, StartStdOut, WriteFile, clientVars, TypeOK
  <1>6. ASSUME NEW b \in outRunning, WriteStdOut(b) PROVE TypeOK'
    <2>1. b \in Blocks
      BY DEF BlocksOK, PrintersOK, TypeOK
    <2>2. Append(screen, b) \in Seq(Blocks)
      BY <2>1, AppendProperties DEF TypeOK
    <2> QED
      BY <1>6, <2>2 DEF WriteStdOut, clientVars, TypeOK
  <1>7. CASE UNCHANGED vars
    BY <1>7 DEF vars, TypeOK
  <1> QED
    BY <1>1, <1>2, <1>3, <1>4, <1>5, <1>6, <1>7 DEF Next, Printers, Stopped

-------------------------------------------------------------------------------
(* Steps that leave every command where it is *)

LEMMA WayKept ==
    ASSUME TypeOK, WayOK,
           UNCHANGED <<own, shared, block, screen, commands>>,
           \A c \in Clients : pc'[c] = "add" <=> pc[c] = "add",
           Holder' \subseteq Holder
    PROVE  WayOK'
  <1>1. Settled' = Settled
    BY DEF Settled
  <1>2. \A c : Unprinted(c)' <=> Unprinted(c)
    BY DEF Unprinted, OnScreen
  <1> QED
    BY <1>1, <1>2 DEF WayOK

LEMMA PresentKept ==
    ASSUME UNCHANGED <<own, shared, block, screen, commands>>,
           \A c \in Clients : pc'[c] = "add" <=> pc[c] = "add",
           NEW m, m.client \in Clients
    PROVE  Present(m)' <=> Present(m)
  <1>1. \A c : Unprinted(c)' <=> Unprinted(c)
    BY DEF Unprinted, OnScreen
  <1>2. LastCommand(m.client)' = LastCommand(m.client)
    BY DEF LastCommand
  <1> QED
    BY <1>1, <1>2 DEF Present

\* It is enough that no command appears or is lost.
LEMMA MissingKept ==
    ASSUME TypeOK, NoneMissing, UNCHANGED commands,
           \A c \in Clients : pc'[c] = "gone" <=> pc[c] = "gone",
           \A m \in Command : Present(m)' <=> Present(m)
    PROVE  NoneMissing'
  <1> SUFFICES ASSUME NEW c \in Clients, NEW k \in 1 .. commands[c],
                      \/ Present([client |-> c, n |-> k])'
                      \/ k = commands[c] /\ pc'[c] # "gone",
                      NEW n \in 1 .. k
               PROVE  Present([client |-> c, n |-> n])'
    BY DEF NoneMissing
  <1>1. commands[c] \in Nat
    BY DEF TypeOK
  <1>2. [client |-> c, n |-> k] \in Command /\ [client |-> c, n |-> n] \in Command
    BY <1>1 DEF Command
  <1>3. Present([client |-> c, n |-> k]) \/ (k = commands[c] /\ pc[c] # "gone")
    BY <1>2
  <1>4. Present([client |-> c, n |-> n])
    BY <1>3 DEF NoneMissing
  <1> QED
    BY <1>2, <1>4

LEMMA ClientKept ==
    ASSUME NEW c \in Clients, ClientOK(c),
           UNCHANGED screen, own'[c] = own[c], block'[c] = block[c],
           pc[c] = "add" => commands'[c] = commands[c],
           pc'[c] \in Printing <=> pc[c] \in Printing,
           pc[c] = "wait" => pc'[c] = "wait",
           pc[c] = "idle" /\ level[c] > 0 => pc'[c] = "idle" \/ own[c] = << >>,
           level'[c] = level[c] \/ (own[c] = << >> /\ block[c].origin # "own"),
           pc'[c] = "add" => pc[c] = "add" /\ level'[c] = level[c]
    PROVE  ClientOK(c)'
  <1>1. Unprinted(c)' <=> Unprinted(c)
    BY DEF Unprinted, OnScreen
  <1> QED
    BY <1>1 DEF ClientOK

LEMMA PrintersKept ==
    ASSUME PrintersOK, UNCHANGED <<screen, outVars>>,
           \A c \in Clients : pc[c] = "wait" /\ Unprinted(c)
                              => pc'[c] = "wait" /\ block'[c] = block[c]
    PROVE  PrintersOK'
  <1>1. OnScreen' = OnScreen
    BY DEF OnScreen
  <1>2. \A c \in Clients : pc[c] = "wait" /\ Unprinted(c)
                           => pc'[c] = "wait" /\ block'[c] = block[c] /\ Unprinted(c)'
    BY <1>1 DEF Unprinted
  <1> QED
    BY <1>1, <1>2 DEF PrintersOK, outVars

\* Lines that move no command, and a flush of an empty shared buffer.
LEMMA QuietLine ==
    ASSUME TypeOK, BlocksOK, WayOK, NoneMissing, NEW c \in Clients,
           \/ Connect(c) \/ BlockStart(c) \/ Invalid(c)
           \/ BlockEnd(c) /\ UNCHANGED block
           \/ Dump(c) /\ shared = << >>
    PROVE  BlocksOK' /\ WayOK' /\ NoneMissing'
  <1>1. /\ UNCHANGED <<own, shared, block, screen, commands, outVars>>
        /\ \A d \in Clients : d # c => pc'[d] = pc[d] /\ level'[d] = level[d]
        /\ \/ pc[c] = "new" /\ pc'[c] = "idle" /\ level'[c] = level[c]
           \/ pc[c] = "idle" /\ level[c] = 0 /\ pc'[c] = "dump" /\ level'[c] = level[c] + 1
           \/ pc[c] = "idle" /\ level[c] > 0 /\ pc'[c] = "idle" /\ level'[c] = level[c] + 1
           \/ pc[c] = "idle" /\ pc'[c] = "idle" /\ level'[c] = level[c]
           \/ /\ pc[c] = "idle" /\ pc'[c] = "idle" /\ level'[c] = level[c] - 1
              /\ level[c] = 1 /\ own[c] = << >>
           \/ /\ pc[c] = "idle" /\ pc'[c] = "idle" /\ level'[c] = level[c] - 1
              /\ level[c] > 1
           \/ /\ pc[c] = "dump" /\ pc'[c] = "idle" /\ level'[c] = level[c]
              /\ shared = << >> /\ Holder = {}
    <2>1. CASE Connect(c)
      BY <2>1 DEF Connect, TypeOK
    <2>2. CASE BlockStart(c)
      <3>1. /\ pc[c] = "idle" /\ UNCHANGED <<own, shared, block, screen, commands, outVars>>
            /\ level[c] \in Nat
        BY <2>2 DEF BlockStart, Receive, TypeOK
      <3>2. /\ level'[c] = level[c] + 1
            /\ \A d \in Clients : d # c => level'[d] = level[d] /\ pc'[d] = pc[d]
            /\ level[c] = 0 => pc'[c] = "dump"
            /\ level[c] > 0 => pc'[c] = pc[c]
        <4>1. level' = [level EXCEPT ![c] = level[c] + 1]
          BY <2>2 DEF BlockStart
        <4>2. /\ level'[c] = level[c] + 1
              /\ \A d \in Clients : d # c => level'[d] = level[d]
          BY <4>1 DEF TypeOK
        <4>3. pc' = IF level[c] = 0 THEN [pc EXCEPT ![c] = "dump"] ELSE pc
          BY <2>2 DEF BlockStart
        <4>4. level[c] > 0 => level[c] # 0
          BY <3>1
        <4> QED
          BY <4>2, <4>3, <4>4 DEF TypeOK
      <3>3. level[c] = 0 \/ level[c] > 0
        BY <3>1
      <3> QED
        BY <3>1, <3>2, <3>3
    <2>3. CASE Invalid(c)
      <3>1. /\ pc[c] = "idle" /\ UNCHANGED <<shared, screen, outVars>>
            /\ UNCHANGED <<pc, commands, level, own, block>>
        BY <2>3 DEF Invalid, Receive
      <3> QED
        BY <3>1
    <2>4. CASE BlockEnd(c) /\ UNCHANGED block
      <3>1. ~ (level[c] = 1 /\ own[c] # << >>)
        <4>1. ASSUME level[c] = 1 /\ own[c] # << >> PROVE FALSE
          <5>1. block'[c] = Block("own", own[c]) /\ pc[c] = "idle"
            BY <2>4, <4>1 DEF BlockEnd, Receive, TypeOK
          <5>2. block'[c].list # << >>
            BY <4>1, <5>1 DEF Block
          <5> QED
            BY <2>4, <5>1, <5>2 DEF BlocksOK, ClientOK, Printing
        <4> QED
          BY <4>1
      <3> QED
        <4>1. /\ level[c] \in Nat /\ level[c] > 0
              /\ pc[c] = "idle" /\ UNCHANGED <<own, shared, block, screen, commands, outVars, pc>>
          BY <2>4, <3>1 DEF BlockEnd, Receive, TypeOK
        <4>2. /\ level'[c] = level[c] - 1
              /\ \A d \in Clients : d # c => level'[d] = level[d]
          BY <2>4 DEF BlockEnd, TypeOK
        <4>3. level[c] > 1 \/ (level[c] = 1 /\ own[c] = << >>)
          BY <3>1, <4>1
        <4> QED
          BY <4>1, <4>2, <4>3
    <2>5. CASE Dump(c) /\ shared = << >>
      BY <2>5 DEF Dump, TypeOK
    <2> QED
      BY <2>1, <2>2, <2>3, <2>4, <2>5
  <1>2. /\ level[c] \in Nat
        /\ ~ (pc[c] \in Printing) /\ ~ (pc'[c] \in Printing)
    BY <1>1 DEF TypeOK, Printing
  <1>3. Holder' = Holder
    BY <1>1, <1>2 DEF Holder, Printing
  <1>4. \A d \in Clients : /\ pc'[d] = "add" <=> pc[d] = "add"
                           /\ pc'[d] = "gone" <=> pc[d] = "gone"
                           /\ pc'[d] = "wait" <=> pc[d] = "wait"
    BY <1>1
  <1>5. WayOK'
    BY <1>1, <1>3, <1>4, WayKept
  <1>6. NoneMissing'
    <2>1. \A m \in Command : m.client \in Clients
      BY DEF Command
    <2> QED
      BY <1>1, <1>4, <2>1, PresentKept, MissingKept
  <1>7. PrintersOK'
    BY <1>1, <1>4, PrintersKept DEF BlocksOK
  <1>8. ASSUME NEW d \in Clients PROVE ClientOK(d)' /\ PrivateOK(d)'
    <2>1. ClientOK(d)' 
      <3>1. ClientOK(d) /\ block[c].origin # "own"
        BY <1>2, BlockFields DEF BlocksOK, ClientOK
      <3>2. CASE d # c
        BY <1>1, <3>1, <3>2, ClientKept
      <3>3. CASE d = c
        <4>1. level[c] = 0 => own[c] = << >>
          BY DEF BlocksOK, ClientOK
        <4>2. Unprinted(c)' <=> Unprinted(c)
          BY <1>1 DEF Unprinted, OnScreen
        <4> QED
          BY <1>1, <1>2, <3>1, <3>3, <4>1, <4>2 DEF ClientOK
      <3> QED
        BY <3>2, <3>3
    <2>2. PrivateOK(d)'
      <3>1. \A e : Unprinted(e)' <=> Unprinted(e)
        BY <1>1 DEF Unprinted, OnScreen
      <3>2. CASE shared = << >> /\ Holder = {}
        BY <1>1, <1>3, <3>2, EmptyList DEF PrivateOK
      <3>3. CASE ~(shared = << >> /\ Holder = {})
        <4>1. Private(d)' => Private(d)
          <5>1. block[c].origin # "own"
            BY <1>2, BlockFields DEF BlocksOK, ClientOK
          <5> QED
            BY <1>1, <1>2, <3>3, <5>1 DEF Private, BlocksOK, ClientOK
        <4> QED
          BY <1>1, <1>3, <3>1, <4>1 DEF BlocksOK, PrivateOK
      <3> QED
        BY <3>2, <3>3
    <2> QED
      BY <2>1, <2>2
  <1> QED
    BY <1>3, <1>5, <1>6, <1>7, <1>8 DEF BlocksOK

\* The way of a block through the pools, up to the screen.
LEMMA QuietPrinter ==
    ASSUME TypeOK, BlocksOK, WayOK, NoneMissing,
           \/ \E c \in Clients : EnqueueFile(c) \/ EnqueueStdOut(c)
           \/ StartFile \/ StartStdOut
           \/ \E b \in fileRunning : WriteFile(b)
           \/ UNCHANGED vars
    PROVE  BlocksOK' /\ WayOK' /\ NoneMissing'
  <1>1. /\ UNCHANGED <<own, shared, block, screen, commands, level, outFinished>>
        /\ \A d \in Clients : \/ pc'[d] = pc[d]
                              \/ pc[d] = "file" /\ pc'[d] = "stdout"
                              \/ pc[d] = "stdout" /\ pc'[d] = "wait"
    BY DEF EnqueueFile, EnqueueStdOut, StdOut!Submit, StartFile, StartStdOut, StdOut!Start,
           WriteFile, clientVars, outVars, vars, TypeOK
  <1>2. Holder' = Holder
    BY <1>1 DEF Holder
  <1>3. \A d \in Clients : /\ pc'[d] = "add" <=> pc[d] = "add"
                           /\ pc'[d] = "gone" <=> pc[d] = "gone"
                           /\ pc[d] = "wait" => pc'[d] = "wait"
                           /\ pc'[d] = "dump" <=> pc[d] = "dump"
                           /\ pc'[d] = "idle" <=> pc[d] = "idle"
                           /\ pc'[d] \in Printing <=> pc[d] \in Printing
    BY <1>1 DEF Printing
  <1>4. WayOK'
    BY <1>1, <1>2, <1>3, WayKept
  <1>5. NoneMissing'
    <2>1. \A m \in Command : m.client \in Clients
      BY DEF Command
    <2> QED
      BY <1>1, <1>3, <2>1, PresentKept, MissingKept
  <1>6. ASSUME NEW d \in Clients PROVE ClientOK(d)' /\ PrivateOK(d)'
    <2>1. ClientOK(d)'
      BY <1>1, <1>3, ClientKept DEF BlocksOK
    <2>2. Private(d)' <=> Private(d)
      BY <1>1, <1>3 DEF Private
    <2>3. \A e : Unprinted(e)' <=> Unprinted(e)
      BY <1>1 DEF Unprinted, OnScreen
    <2>4. PrivateOK(d)'
      BY <1>1, <1>2, <2>2, <2>3 DEF BlocksOK, PrivateOK
    <2> QED
      BY <2>1, <2>4
  <1>7. PrintersOK'
    <2>1. CASE UNCHANGED outVars
      BY <1>1, <1>3, <2>1, PrintersKept DEF BlocksOK
    <2>2. ASSUME NEW c \in Clients, EnqueueStdOut(c) PROVE PrintersOK'
      <3>1. /\ outPending' = Append(outPending, block[c]) /\ UNCHANGED outRunning
            /\ block[c] \notin {outPending[i] : i \in DOMAIN outPending}
            /\ block[c] \notin outRunning
            /\ pc[c] = "stdout" /\ pc'[c] = "wait"
        BY <2>2 DEF EnqueueStdOut, StdOut!Submit, StdOut!Accepted, TypeOK
      <3>2. outPending \in Seq(Blocks) /\ block[c] \in Blocks
        BY DEF BlocksOK, PrintersOK, TypeOK
      <3>3. /\ outPending' \in Seq(Blocks)
            /\ DOMAIN outPending = 1 .. Len(outPending) /\ Len(outPending) \in Nat
            /\ DOMAIN outPending' = 1 .. Len(outPending) + 1
            /\ \A i \in DOMAIN outPending : outPending'[i] = outPending[i]
            /\ outPending'[Len(outPending) + 1] = block[c]
        BY <3>1, <3>2, AppendProperties, LenProperties
      <3>4. \A i \in DOMAIN outPending' : i \in DOMAIN outPending \/ i = Len(outPending) + 1
        BY <3>3
      <3>5. /\ \A i, j \in DOMAIN outPending' : i # j => outPending'[i] # outPending'[j]
            /\ \A i \in DOMAIN outPending' : outPending'[i] \notin outRunning
        BY <3>1, <3>3, <3>4 DEF BlocksOK, PrintersOK
      <3>6. OnScreen' = OnScreen /\ \A d : Unprinted(d)' <=> Unprinted(d)
        BY <1>1 DEF OnScreen, Unprinted
      <3>7. Unprinted(c)
        BY <3>1 DEF BlocksOK, ClientOK
      <3>8. \A b \in outRunning \union {outPending'[i] : i \in DOMAIN outPending'} :
               \E d \in Clients : pc'[d] = "wait" /\ b = block[d] /\ Unprinted(d)
        BY <1>3, <3>1, <3>3, <3>4, <3>7 DEF BlocksOK, PrintersOK
      <3> QED
        BY <1>1, <3>1, <3>3, <3>5, <3>6, <3>8 DEF BlocksOK, PrintersOK
    <2>3. ASSUME StartStdOut PROVE PrintersOK'
      <3>1. /\ outPending # << >> /\ outPending' = Tail(outPending)
            /\ outRunning' = outRunning \union {Head(outPending)}
            /\ UNCHANGED pc
        BY <2>3 DEF StartStdOut, StdOut!Start, clientVars
      <3>2. outPending \in Seq(Blocks)
        BY DEF BlocksOK, PrintersOK
      <3>3. /\ DOMAIN outPending = 1 .. Len(outPending) /\ Len(outPending) \in Nat \ {0}
            /\ Head(outPending) = outPending[1] /\ 1 \in DOMAIN outPending
            /\ outPending' \in Seq(Blocks)
            /\ DOMAIN outPending' = 1 .. Len(outPending) - 1
            /\ \A i \in 1 .. Len(outPending) - 1 : outPending'[i] = outPending[i + 1]
        BY <3>1, <3>2, HeadTailProperties, LenProperties, EmptySeq
      <3>4. \A i \in DOMAIN outPending' : i + 1 \in DOMAIN outPending /\ i + 1 # 1
        BY <3>3
      <3>5. \A i, j \in DOMAIN outPending' : i # j => i + 1 # j + 1
        BY <3>3
      <3>6. \A i, j \in DOMAIN outPending' : i # j => outPending'[i] # outPending'[j]
        BY <3>3, <3>4, <3>5 DEF BlocksOK, PrintersOK
      <3>7. \A i \in DOMAIN outPending' : outPending'[i] \notin outRunning'
        BY <3>1, <3>3, <3>4 DEF BlocksOK, PrintersOK
      <3>8. OnScreen' = OnScreen /\ \A d : Unprinted(d)' <=> Unprinted(d)
        BY <1>1 DEF OnScreen, Unprinted
      <3>9. \A b \in outRunning' \union {outPending'[i] : i \in DOMAIN outPending'} :
               b \in outRunning \union {outPending[i] : i \in DOMAIN outPending}
        BY <3>1, <3>3, <3>4
      <3> QED
        BY <1>1, <3>1, <3>3, <3>6, <3>7, <3>8, <3>9 DEF BlocksOK, PrintersOK
    <2> QED
      BY <2>1, <2>2, <2>3
      DEF EnqueueFile, StartFile, WriteFile, vars, outVars
  <1> QED
    BY <1>2, <1>4, <1>5, <1>6, <1>7 DEF BlocksOK

-------------------------------------------------------------------------------
(* Steps that bring a command *)

LEMMA MissingAdded ==
    ASSUME TypeOK, NoneMissing, NEW c \in Clients, pc[c] # "gone",
           commands' = [commands EXCEPT ![c] = @ + 1],
           \A d \in Clients : pc'[d] = "gone" <=> pc[d] = "gone",
           \A m \in Command : Present(m)' <=> Present(m) \/ m = NextCommand(c)
    PROVE  NoneMissing'
  <1> SUFFICES ASSUME NEW d \in Clients, NEW k \in 1 .. commands'[d],
                      \/ Present([client |-> d, n |-> k])'
                      \/ k = commands'[d] /\ pc'[d] # "gone",
                      NEW n \in 1 .. k
               PROVE  Present([client |-> d, n |-> n])'
    BY DEF NoneMissing
  <1>1. /\ commands[d] \in Nat /\ commands[c] \in Nat
        /\ commands'[c] = commands[c] + 1
        /\ d # c => commands'[d] = commands[d]
    BY DEF TypeOK
  <1>2. k \in Nat /\ n \in Nat
    BY <1>1
  <1>3. [client |-> d, n |-> k] \in Command /\ [client |-> d, n |-> n] \in Command
    BY <1>2 DEF Command
  <1>4. CASE d # c
    <2>1. [client |-> d, n |-> k] # NextCommand(c)
      BY <1>4 DEF NextCommand
    <2>2. k \in 1 .. commands[d]
      BY <1>1, <1>4
    <2>3. Present([client |-> d, n |-> k]) \/ (k = commands[d] /\ pc[d] # "gone")
      BY <1>1, <1>3, <1>4, <2>1
    <2>4. Present([client |-> d, n |-> n])
      BY <2>2, <2>3 DEF NoneMissing
    <2> QED
      BY <1>3, <2>4
  <1>5. CASE d = c
    <2>1. CASE n = commands[c] + 1
      BY <1>3, <1>5, <2>1 DEF NextCommand
    <2>2. CASE n # commands[c] + 1 /\ k = commands[c] + 1
      <3>1. commands[c] \in 1 .. commands[c] /\ n \in 1 .. commands[c]
        BY <1>1, <1>2, <2>2
      <3>2. Present([client |-> c, n |-> n])
        BY <3>1 DEF NoneMissing
      <3> QED
        BY <1>3, <1>5, <3>2
    <2>3. CASE k # commands[c] + 1
      <3>1. k \in 1 .. commands[c] /\ [client |-> c, n |-> k] # NextCommand(c)
        BY <1>1, <1>2, <1>5, <2>3 DEF NextCommand
      <3>2. Present([client |-> c, n |-> k])
        BY <1>1, <1>3, <1>5, <2>3, <3>1
      <3>3. Present([client |-> c, n |-> n])
        BY <3>1, <3>2 DEF NoneMissing
      <3> QED
        BY <1>3, <1>5, <3>3
    <2> QED
      BY <2>1, <2>2, <2>3
  <1> QED
    BY <1>4, <1>5

LEMMA NormalCommandStep ==
    ASSUME TypeOK, BlocksOK, WayOK, NoneMissing, NEW c \in Clients, NormalCommand(c)
    PROVE  BlocksOK' /\ WayOK' /\ NoneMissing'
  <1>1. /\ UNCHANGED <<own, shared, block, screen, level, outVars>>
        /\ pc[c] = "idle" /\ level[c] = 0
        /\ commands' = [commands EXCEPT ![c] = @ + 1]
        /\ pc' = [pc EXCEPT ![c] = "add"]
    BY DEF NormalCommand, Receive
  <1>2. /\ commands[c] \in Nat /\ commands'[c] = commands[c] + 1 /\ pc'[c] = "add"
        /\ \A d \in Clients : d # c => commands'[d] = commands[d] /\ pc'[d] = pc[d]
    BY <1>1 DEF TypeOK
  <1>3. Settled' = Settled
    BY <1>1, <1>2 DEF Settled
  <1>4. Holder' = Holder
    BY <1>1, <1>2 DEF Holder
  <1>5. OnScreen' = OnScreen /\ \A e : Unprinted(e)' <=> Unprinted(e)
    BY <1>1 DEF Unprinted, OnScreen
  <1>6. WayOK'
    BY <1>1, <1>3, <1>4, <1>5 DEF WayOK
  <1>7. own[c] = << >> /\ block[c].origin = "none"
    BY <1>1, BlockFields DEF BlocksOK, ClientOK, Printing
  <1>8. ASSUME NEW d \in Clients PROVE ClientOK(d)' /\ PrivateOK(d)'
    <2>1. CASE d # c
      <3>1. ClientOK(d)'
        BY <1>1, <1>2, <2>1, ClientKept DEF BlocksOK
      <3>2. Private(d)' <=> Private(d)
        BY <1>1, <1>2, <2>1 DEF Private
      <3> QED
        BY <1>1, <1>4, <1>5, <3>1, <3>2 DEF BlocksOK, PrivateOK
    <2>2. CASE d = c
      <3>1. ClientOK(c)'
        BY <1>1, <1>2, <1>5, <1>7 DEF BlocksOK, ClientOK, Printing
      <3>2. ~ Private(c)'
        BY <1>1, <1>7 DEF Private
      <3> QED
        BY <2>2, <3>1, <3>2 DEF PrivateOK
    <2> QED
      BY <2>1, <2>2
  <1>9. PrintersOK'
    BY <1>1, <1>2, PrintersKept DEF BlocksOK
  <1>10. ASSUME NEW m \in Command PROVE Present(m)' <=> Present(m) \/ m = NextCommand(c)
    <2>1. m.client \in Clients
      BY DEF Command
    <2>2. (pc[m.client] = "add" /\ m = LastCommand(m.client))' <=>
             (pc[m.client] = "add" /\ m = LastCommand(m.client)) \/ m = NextCommand(c)
      <3>1. NextCommand(c).client = c
        BY DEF NextCommand
      <3>2. CASE m.client = c
        BY <1>1, <1>2, <3>2 DEF LastCommand, NextCommand
      <3>3. CASE m.client # c
        BY <1>2, <2>1, <3>1, <3>3 DEF LastCommand
      <3> QED
        BY <3>2, <3>3
    <2> QED
      BY <1>1, <1>5, <2>2 DEF Present
  <1>11. NoneMissing'
    <2>1. pc[c] # "gone" /\ \A d \in Clients : pc'[d] = "gone" <=> pc[d] = "gone"
      BY <1>1, <1>2
    <2> QED
      BY <1>1, <1>10, <2>1, MissingAdded
  <1> QED
    BY <1>4, <1>6, <1>8, <1>9, <1>11 DEF BlocksOK

LEMMA DynamicCommandStep ==
    ASSUME TypeOK, TypeOK', BlocksOK, WayOK, NoneMissing, NEW c \in Clients, DynamicCommand(c)
    PROVE  BlocksOK' /\ WayOK' /\ NoneMissing'
  <1> DEFINE m == NextCommand(c)
  <1>1. /\ UNCHANGED <<pc, shared, block, screen, level, outVars>>
        /\ pc[c] = "idle" /\ level[c] > 0
        /\ commands' = [commands EXCEPT ![c] = @ + 1]
        /\ own' = [own EXCEPT ![c] = Append(own[c], m)]
    BY DEF DynamicCommand, Receive
  <1>2. /\ commands[c] \in Nat /\ commands'[c] = commands[c] + 1
        /\ own'[c] = Append(own[c], m)
        /\ \A d \in Clients : d # c => commands'[d] = commands[d] /\ own'[d] = own[d]
    BY <1>1 DEF TypeOK
  <1>3. /\ own[c] \in Seq(Command) /\ m \in Command /\ m.client = c
        /\ m.n = commands[c] + 1
    BY NextCommandType DEF TypeOK
  <1> HIDE DEF m
  <1>4. /\ Settled \in [Clients -> Int] /\ Settled' \in [Clients -> Int]
        /\ \A d \in Clients : Settled[d] <= Settled'[d]
        /\ Settled[c] = commands[c] /\ Settled'[c] = commands[c] + 1
    <2>1. /\ Settled \in [Clients -> Int] /\ Settled[c] = commands[c]
          /\ \A d \in Clients : Settled[d] = IF pc[d] = "add" THEN commands[d] - 1 ELSE commands[d]
      BY <1>1 DEF Settled, TypeOK
    <2>2. /\ Settled' \in [Clients -> Int] /\ Settled'[c] = commands'[c]
          /\ \A d \in Clients : Settled'[d] = IF pc[d] = "add" THEN commands'[d] - 1
                                                              ELSE commands'[d]
      BY <1>1 DEF Settled, TypeOK
    <2>3. \A d \in Clients : commands[d] \in Nat /\ commands'[d] \in Nat
                              /\ commands[d] <= commands'[d]
      <3> SUFFICES ASSUME NEW d \in Clients
                   PROVE  /\ commands[d] \in Nat /\ commands'[d] \in Nat
                          /\ commands[d] <= commands'[d]
        OBVIOUS
      <3>1. commands[d] \in Nat /\ commands'[d] \in Nat
        BY DEF TypeOK
      <3>2. commands'[d] = commands[d] \/ commands'[d] = commands[d] + 1
        BY <1>2
      <3> QED
        BY <3>1, <3>2
    <2>4. \A d \in Clients : Settled[d] <= Settled'[d]
      BY <2>1, <2>2, <2>3
    <2> QED
      BY <1>2, <2>1, <2>2, <2>4
  <1>5. Holder' = Holder
    BY <1>1 DEF Holder
  <1>6. OnScreen' = OnScreen /\ \A e : Unprinted(e)' <=> Unprinted(e)
    BY <1>1 DEF Unprinted, OnScreen
  <1>7. \A list \in Seq(Command) :
            Numbered(list, Settled) => Numbered(list, Settled') /\ Before(list, m)
    <2> SUFFICES ASSUME NEW list \in Seq(Command), Numbered(list, Settled)
                 PROVE  Numbered(list, Settled') /\ Before(list, m)
      OBVIOUS
    <2>1. Numbered(list, Settled')
      BY <1>4, NumberedMore
    <2>2. Settled[m.client] < m.n
      BY <1>2, <1>3, <1>4
    <2> QED
      BY <1>3, <1>4, <2>1, <2>2, NumberedBefore
  <1>8. WayOK'
    <2>1. Ordered(shared) /\ Numbered(shared, Settled')
      BY <1>7 DEF WayOK, TypeOK
    <2>2. ASSUME NEW i \in DOMAIN screen
          PROVE  /\ Ordered(screen[i].list) /\ Numbered(screen[i].list, Settled')
                 /\ Follows(screen[i].list, shared)
                 /\ \A j \in DOMAIN screen : i < j => Follows(screen[i].list, screen[j].list)
                 /\ Before(screen[i].list, m)
      BY <1>7, ScreenFields DEF WayOK
    <2>3. ASSUME NEW d \in Clients
          PROVE  /\ Ordered(own'[d]) /\ Numbered(own'[d], Settled')
                 /\ Ordered(block[d].list) /\ Numbered(block[d].list, Settled')
                 /\ Unprinted(d) /\ d \in Holder => Follows(block[d].list, shared)
                 /\ \A i \in DOMAIN screen : /\ Follows(screen[i].list, own'[d])
                                             /\ Unprinted(d) => Follows(screen[i].list, block[d].list)
                 /\ \A e \in Clients \ {d} :
                       Unprinted(d) /\ Unprinted(e) => Apart(block[d].list, block[e].list)
      <3>1. Numbered(own[d], Settled') /\ Numbered(block[d].list, Settled')
        BY <1>7, BlockFields DEF WayOK, TypeOK
      <3>2. CASE d # c
        BY <1>2, <3>1, <3>2 DEF WayOK
      <3>3. CASE d = c
        <4>1. Ordered(own[c]) /\ Before(own[c], m) /\ Numbered(own[c], Settled')
          BY <1>3, <1>7 DEF WayOK
        <4>2. m.n \in 1 .. Settled'[m.client]
          BY <1>2, <1>3, <1>4
        <4>3. Ordered(own'[c]) /\ Numbered(own'[c], Settled')
          BY <1>2, <1>3, <4>1, <4>2, AppendLists
        <4>4. \A i \in DOMAIN screen : Follows(screen[i].list, own'[c])
          BY <1>2, <1>3, <2>2, AppendLists DEF WayOK
        <4> QED
          BY <3>1, <3>3, <4>3, <4>4 DEF WayOK
      <3> QED
        BY <3>2, <3>3
    <2> QED
      BY <1>1, <1>5, <1>6, <2>1, <2>2, <2>3 DEF WayOK
  <1>9. ASSUME NEW d \in Clients PROVE ClientOK(d)' /\ PrivateOK(d)'
    <2>1. d # c => ClientOK(d)'
      BY <1>1, <1>2, ClientKept DEF BlocksOK
    <2>2. d = c => ClientOK(d)'
      <3>1. OnlyOf(c, own'[c])
        BY <1>2, <1>3, AppendLists DEF BlocksOK, ClientOK
      <3>2. pc'[c] = pc[c] /\ pc[c] = "idle" /\ level'[c] = level[c] /\ block'[c] = block[c]
        BY <1>1
      <3> QED
        BY <1>1, <1>6, <3>1, <3>2 DEF BlocksOK, ClientOK
    <2>3. PrivateOK(d)'
      <3>1. Private(d)' <=> Private(d)
        BY <1>1 DEF Private
      <3> QED
        BY <1>1, <1>5, <1>6, <3>1 DEF BlocksOK, PrivateOK
    <2> QED
      BY <2>1, <2>2, <2>3
  <1>10. PrintersOK'
    BY <1>1, PrintersKept DEF BlocksOK
  <1>11. ASSUME NEW k \in Command PROVE Present(k)' <=> Present(k) \/ k = NextCommand(c)
    <2>1. k.client \in Clients
      BY DEF Command
    <2>2. /\ Holds(own'[c], k) <=> Holds(own[c], k) \/ k = m
          /\ \A d \in Clients : d # c => (Holds(own'[d], k) <=> Holds(own[d], k))
      BY <1>2, <1>3, AppendLists
    <2>3. (\E d \in Clients : Holds(own'[d], k)) <=>
             (\E d \in Clients : Holds(own[d], k)) \/ k = m
      BY <2>2
    <2>4. (pc[k.client] = "add" /\ k = LastCommand(k.client))' <=>
             pc[k.client] = "add" /\ k = LastCommand(k.client)
      BY <1>1, <1>2, <2>1 DEF LastCommand
    <2> QED
      BY <1>1, <1>6, <2>3, <2>4 DEF Present, m
  <1>12. NoneMissing'
    BY <1>1, <1>11, MissingAdded
  <1> QED
    BY <1>5, <1>8, <1>9, <1>10, <1>12 DEF BlocksOK

-------------------------------------------------------------------------------
(* The shared accumulator *)

\* The command of c, if it waits to be added, counts as settled.
Top(c) == [Settled EXCEPT ![c] = commands[c]]

LEMMA TopIs ==
    ASSUME TypeOK, NEW c \in Clients
    PROVE  /\ Top(c) \in [Clients -> Int]
           /\ \A list \in Seq(Command) : Numbered(list, Settled) => Numbered(list, Top(c))
           /\ UNCHANGED commands /\ pc'[c] # "add"
                 /\ (\A d \in Clients : d # c => pc'[d] = pc[d]) => Settled' = Top(c)
  <1>1. /\ Settled \in [Clients -> Int] /\ commands[c] \in Nat
        /\ \A d \in Clients : Settled[d] <= commands[d]
    BY SettledType DEF TypeOK
  <1>2. Top(c) \in [Clients -> Int]
    BY <1>1 DEF Top
  <1>3. \A d \in Clients : Settled[d] <= Top(c)[d]
    BY <1>1 DEF Top
  <1>4. ASSUME NEW list \in Seq(Command), Numbered(list, Settled) PROVE Numbered(list, Top(c))
    BY <1>1, <1>2, <1>3, <1>4, NumberedMore
  <1>5. ASSUME UNCHANGED commands, pc'[c] # "add",
               \A d \in Clients : d # c => pc'[d] = pc[d]
        PROVE  Settled' = Top(c)
    BY <1>5 DEF Settled, Top
  <1> QED
    BY <1>2, <1>4, <1>5

\* The shared buffer with the command that c waits to add.
LEMMA AddedBuffer ==
    ASSUME TypeOK, BlocksOK, WayOK, NEW c \in Clients, pc[c] = "add",
           NEW buffer, buffer = Append(shared, LastCommand(c))
    PROVE  /\ buffer \in Seq(Command) /\ buffer # << >>
           /\ Ordered(buffer) /\ Numbered(buffer, Top(c))
           /\ \A i \in DOMAIN screen : Follows(screen[i].list, buffer)
           /\ \A d \in Clients \ {c} : Private(d) => NoneOf(d, buffer)
           /\ \A k : Holds(buffer, k) <=> Holds(shared, k) \/ k = LastCommand(c)
  <1> DEFINE m == LastCommand(c)
  <1>1. /\ shared \in Seq(Command) /\ m \in Command /\ m.client = c /\ m.n = commands[c]
        /\ commands[c] \in Nat /\ commands[c] > 0
    BY NextCommandType DEF TypeOK, BlocksOK, ClientOK
  <1>2. Settled \in [Clients -> Int] /\ Settled[c] < commands[c] /\ Top(c)[c] = commands[c]
    BY <1>1, SettledType DEF Settled, Top
  <1>3. buffer = Append(shared, m)
    OBVIOUS
  <1> HIDE DEF m
  <1>4. Before(shared, m) /\ \A i \in DOMAIN screen : Before(screen[i].list, m)
    <2>1. Before(shared, m)
      BY <1>1, <1>2, NumberedBefore DEF WayOK
    <2>2. ASSUME NEW i \in DOMAIN screen PROVE Before(screen[i].list, m)
      BY <1>1, <1>2, <2>2, NumberedBefore, ScreenFields DEF WayOK
    <2> QED
      BY <2>1, <2>2
  <1>5. Ordered(shared) /\ Numbered(shared, Top(c))
    BY <1>1, TopIs DEF WayOK
  <1>6. m.n \in 1 .. Top(c)[m.client]
    BY <1>1, <1>2
  <1>7. buffer \in Seq(Command) /\ buffer # << >>
    BY <1>1, <1>3, ListAppend
  <1>8. Ordered(buffer) /\ Numbered(buffer, Top(c))
    BY <1>1, <1>3, <1>4, <1>5, <1>6, AppendLists
  <1>9. \A i \in DOMAIN screen : Follows(screen[i].list, buffer)
    BY <1>1, <1>3, <1>4, AppendLists DEF WayOK
  <1>10. \A d \in Clients \ {c} : Private(d) => NoneOf(d, buffer)
    BY <1>1, <1>3, AppendLists DEF BlocksOK, PrivateOK
  <1>11. \A k : Holds(buffer, k) <=> Holds(shared, k) \/ k = m
    BY <1>1, <1>3, AppendLists
  <1> QED
    BY <1>7, <1>8, <1>9, <1>10, <1>11 DEF m

\* Either way of flushing: the block is what is in the buffer, or in the buffer
\* with the command of c.
LEMMA Flush ==
    ASSUME TypeOK, TypeOK', BlocksOK, WayOK, NoneMissing, NEW c \in Clients,
           pc[c] \in {"add", "dump"}, Holder = {},
           NEW buffer \in Seq(Command), buffer # << >>,
           Ordered(buffer), Numbered(buffer, Top(c)),
           \A i \in DOMAIN screen : Follows(screen[i].list, buffer),
           \A d \in Clients \ {c} : Private(d) => NoneOf(d, buffer),
           \A k : Holds(buffer, k) <=>
                      Holds(shared, k) \/ (pc[c] = "add" /\ k = LastCommand(c)),
           block' = [block EXCEPT ![c] = Block("shared", buffer)],
           shared' = << >>,
           pc' = [pc EXCEPT ![c] = "file"],
           UNCHANGED <<own, screen, commands, level, outVars>>
    PROVE  BlocksOK' /\ WayOK' /\ NoneMissing'
  <1>1. /\ pc'[c] = "file" /\ block'[c] = Block("shared", buffer)
        /\ block'[c].origin = "shared" /\ block'[c].list = buffer
        /\ \A d \in Clients : d # c => pc'[d] = pc[d] /\ block'[d] = block[d]
    BY DEF TypeOK, Block
  <1>2. OnScreen' = OnScreen
    BY DEF OnScreen
  <1>3. /\ Unprinted(c)'
        /\ \A d \in Clients \ {c} : Unprinted(d)' <=> Unprinted(d)
    <2>1. Block("shared", buffer) \notin OnScreen
      BY NotOnScreen
    <2> QED
      BY <1>1, <1>2, <2>1 DEF Unprinted
  <1>4. own[c] = << >> /\ block[c].list = << >> /\ block[c].origin = "none"
    BY BlockFields DEF BlocksOK, ClientOK, Printing
  <1>5. Holder' = {c}
    BY <1>1 DEF Holder
  <1>6. ASSUME NEW d \in Clients PROVE ClientOK(d)' /\ PrivateOK(d)'
    <2>1. d # c => ClientOK(d)'
      BY <1>1, ClientKept DEF BlocksOK
    <2>2. d = c => ClientOK(d)'
      <3>1. OnlyOf(c, own[c])
        BY DEF BlocksOK, ClientOK
      <3> QED
        BY <1>1, <1>3, <1>4, <3>1 DEF ClientOK, Printing
    <2>3. NoneOf(d, shared')
      BY EmptyList
    <2>4. CASE d = c
      BY <1>5, <2>2, <2>3, <2>4 DEF PrivateOK
    <2>5. CASE d # c
      <3>1. Private(d)' <=> Private(d)
        BY <1>1, <2>5 DEF Private
      <3> QED
        BY <1>1, <1>5, <2>1, <2>3, <2>5, <3>1 DEF PrivateOK
    <2> QED
      BY <2>4, <2>5
  <1>7. PrintersOK'
    BY <1>1, PrintersKept DEF BlocksOK
  <1>8. WayOK'
    <2>1. Settled' = Top(c)
      BY <1>1, TopIs
    <2>2. /\ Ordered(shared') /\ Numbered(shared', Settled')
          /\ \A list : Follows(list, shared')
      BY EmptyList
    <2>3. \A list \in Seq(Command) : Numbered(list, Settled) => Numbered(list, Settled')
      BY <2>1, TopIs
    <2>4. ASSUME NEW i \in DOMAIN screen
          PROVE  /\ Ordered(screen[i].list) /\ Numbered(screen[i].list, Settled')
                 /\ Follows(screen[i].list, shared')
                 /\ \A j \in DOMAIN screen : i < j => Follows(screen[i].list, screen[j].list)
      BY <2>2, <2>3, ScreenFields DEF WayOK
    <2>5. ASSUME NEW d \in Clients, d # c, Unprinted(d) PROVE Apart(block[d].list, buffer)
      <3>1. CASE block[d].origin = "own"
        <4>1. Private(d) /\ OnlyOf(d, block[d].list)
          BY <3>1 DEF Private, BlocksOK, ClientOK
        <4> QED
          BY <2>5, <4>1, ApartLists
      <3>2. CASE block[d].origin # "own"
        <4>1. block[d].list = << >>
          BY <3>2, BlockFields, HolderIs DEF BlocksOK, ClientOK
        <4> QED
          BY <4>1, EmptyList
      <3> QED
        BY <3>1, <3>2
    <2>6. ASSUME NEW d \in Clients
          PROVE  /\ Ordered(own[d]) /\ Numbered(own[d], Settled')
                 /\ Ordered(block'[d].list) /\ Numbered(block'[d].list, Settled')
                 /\ \A i \in DOMAIN screen : /\ Follows(screen[i].list, own[d])
                                             /\ Unprinted(d)' => Follows(screen[i].list, block'[d].list)
      <3>1. Numbered(own[d], Settled') /\ Numbered(block[d].list, Settled')
        BY <2>3, BlockFields DEF WayOK, TypeOK
      <3>2. CASE d # c
        BY <1>1, <1>3, <3>1, <3>2 DEF WayOK
      <3>3. CASE d = c
        BY <1>1, <2>1, <3>1, <3>3 DEF WayOK
      <3> QED
        BY <3>2, <3>3
    <2>7. ASSUME NEW d \in Clients, NEW e \in Clients \ {d}, Unprinted(d)', Unprinted(e)'
          PROVE  Apart(block'[d].list, block'[e].list)
      <3>1. CASE d = c
        BY <1>1, <1>3, <2>5, <2>7, <3>1, ApartLists
      <3>2. CASE e = c
        BY <1>1, <1>3, <2>5, <2>7, <3>2
      <3>3. CASE d # c /\ e # c
        BY <1>1, <1>3, <2>7, <3>3 DEF WayOK
      <3> QED
        BY <3>1, <3>2, <3>3
    <2> QED
      BY <2>2, <2>4, <2>6, <2>7 DEF WayOK
  <1>9. ASSUME NEW m \in Command PROVE Present(m)' <=> Present(m)
    <2>1. m.client \in Clients /\ LastCommand(c).client = c
      BY NextCommandType DEF Command
    <2>2. (pc[m.client] = "add" /\ m = LastCommand(m.client))' <=>
             pc[m.client] = "add" /\ m = LastCommand(m.client) /\ m.client # c
      BY <1>1, <2>1 DEF LastCommand
    <2>3. ~ Holds(shared', m)
      BY EmptyList
    <2>4. (\E d \in Clients : Unprinted(d)' /\ Holds(block'[d].list, m)) <=>
             \/ \E d \in Clients : Unprinted(d) /\ Holds(block[d].list, m)
             \/ Holds(buffer, m)
      <3>1. ~ Holds(block[c].list, m)
        BY <1>4, EmptyList
      <3> QED
        BY <1>1, <1>3, <3>1
    <2>5. Present(m)' <=>
             \/ pc[m.client] = "add" /\ m = LastCommand(m.client) /\ m.client # c
             \/ \E d \in Clients : Holds(own[d], m)
             \/ \E d \in Clients : Unprinted(d) /\ Holds(block[d].list, m)
             \/ Holds(buffer, m)
             \/ \E i \in DOMAIN screen : Holds(screen[i].list, m)
      BY <2>2, <2>3, <2>4 DEF Present
    <2>6. Holds(buffer, m) <=> Holds(shared, m) \/ (pc[c] = "add" /\ m = LastCommand(c))
      OBVIOUS
    <2>7. (pc[c] = "add" /\ m = LastCommand(c))
             <=> pc[m.client] = "add" /\ m = LastCommand(m.client) /\ m.client = c
      BY <2>1
    <2> QED
      BY <2>5, <2>6, <2>7 DEF Present
  <1>10. NoneMissing'
    BY <1>1, <1>9, MissingKept
  <1> QED
    BY <1>5, <1>6, <1>7, <1>8, <1>10 DEF BlocksOK

LEMMA AddCommandStep ==
    ASSUME TypeOK, TypeOK', BlocksOK, WayOK, NoneMissing, NEW c \in Clients, AddCommand(c)
    PROVE  BlocksOK' /\ WayOK' /\ NoneMissing'
  <1> DEFINE buffer == Append(shared, LastCommand(c))
  <1>1. /\ pc[c] = "add" /\ Holder = {}
        /\ UNCHANGED <<own, screen, commands, level, outVars>>
    BY DEF AddCommand
  <1>2. /\ buffer \in Seq(Command) /\ buffer # << >>
        /\ Ordered(buffer) /\ Numbered(buffer, Top(c))
        /\ \A i \in DOMAIN screen : Follows(screen[i].list, buffer)
        /\ \A d \in Clients \ {c} : Private(d) => NoneOf(d, buffer)
        /\ \A k : Holds(buffer, k) <=> Holds(shared, k) \/ k = LastCommand(c)
    BY <1>1, AddedBuffer
  <1>3. CASE Len(buffer) = bulk[c]
    <2>1. /\ block' = [block EXCEPT ![c] = Block("shared", buffer)]
          /\ shared' = << >>
          /\ pc' = [pc EXCEPT ![c] = "file"]
      BY <1>3 DEF AddCommand
    <2> HIDE DEF buffer
    <2> QED
      BY <1>1, <1>2, <2>1, Flush
  <1>4. CASE Len(buffer) # bulk[c]
    <2>1. /\ shared' = buffer
          /\ pc' = [pc EXCEPT ![c] = "idle"]
          /\ UNCHANGED block
      BY <1>4 DEF AddCommand
    <2> HIDE DEF buffer
    <2>2. pc'[c] = "idle" /\ \A d \in Clients : d # c => pc'[d] = pc[d]
      BY <2>1 DEF TypeOK
    <2>3. OnScreen' = OnScreen /\ \A e : Unprinted(e)' <=> Unprinted(e)
      BY <1>1, <2>1 DEF Unprinted, OnScreen
    <2>4. own[c] = << >> /\ level[c] = 0 /\ block[c].list = << >> /\ block[c].origin = "none"
      BY <1>1, BlockFields DEF BlocksOK, ClientOK, Printing
    <2>5. Holder' = {}
      BY <1>1, <2>1, <2>2, <2>4 DEF Holder
    <2>6. ASSUME NEW d \in Clients PROVE ClientOK(d)' /\ PrivateOK(d)'
      <3>1. d # c => ClientOK(d)'
        BY <1>1, <2>1, <2>2, ClientKept DEF BlocksOK
      <3>2. d = c => ClientOK(d)'
        BY <1>1, <2>1, <2>2, <2>3, <2>4 DEF BlocksOK, ClientOK, Printing
      <3>3. d # c => PrivateOK(d)'
        <4>1. d # c => (Private(d)' <=> Private(d))
          BY <1>1, <2>1, <2>2 DEF Private
        <4> QED
          BY <1>2, <2>1, <2>5, <4>1 DEF PrivateOK
      <3>4. d = c => PrivateOK(d)'
        <4>1. d = c => ~ Private(d)'
          BY <1>1, <2>1, <2>4 DEF Private
        <4> QED
          BY <4>1 DEF PrivateOK
      <3> QED
        BY <3>1, <3>2, <3>3, <3>4
    <2>7. PrintersOK'
      BY <1>1, <2>1, <2>2, PrintersKept DEF BlocksOK
    <2>8. WayOK'
      <3>1. Settled' = Top(c)
        BY <1>1, <2>2, TopIs
      <3>2. \A list \in Seq(Command) : Numbered(list, Settled) => Numbered(list, Settled')
        BY <3>1, TopIs
      <3>3. Ordered(shared') /\ Numbered(shared', Settled')
        BY <1>2, <2>1, <3>1
      <3>4. ASSUME NEW i \in DOMAIN screen
            PROVE  /\ Ordered(screen[i].list) /\ Numbered(screen[i].list, Settled')
                   /\ Follows(screen[i].list, shared')
                   /\ \A j \in DOMAIN screen : i < j => Follows(screen[i].list, screen[j].list)
        BY <1>2, <2>1, <3>2, ScreenFields DEF WayOK
      <3>5. ASSUME NEW d \in Clients
            PROVE  Numbered(own[d], Settled') /\ Numbered(block[d].list, Settled')
        BY <3>2, BlockFields DEF WayOK, TypeOK
      <3> QED
        BY <1>1, <2>1, <2>3, <2>5, <3>3, <3>4, <3>5 DEF WayOK
    <2>9. ASSUME NEW m \in Command PROVE Present(m)' <=> Present(m)
      <3>1. m.client \in Clients /\ LastCommand(c).client = c
        BY NextCommandType DEF Command
      <3>2. (pc[m.client] = "add" /\ m = LastCommand(m.client))' <=>
               pc[m.client] = "add" /\ m = LastCommand(m.client) /\ m.client # c
        BY <1>1, <2>2, <3>1 DEF LastCommand
      <3>3. m = LastCommand(c)
               <=> pc[m.client] = "add" /\ m = LastCommand(m.client) /\ m.client = c
        BY <1>1, <3>1
      <3> QED
        BY <1>1, <1>2, <2>1, <2>3, <3>2, <3>3 DEF Present
    <2>10. NoneMissing'
      BY <1>1, <2>2, <2>9, MissingKept
    <2> QED
      BY <2>5, <2>6, <2>7, <2>8, <2>10 DEF BlocksOK
  <1> QED
    BY <1>3, <1>4

LEMMA DumpStep ==
    ASSUME TypeOK, TypeOK', BlocksOK, WayOK, NoneMissing, NEW c \in Clients, Dump(c)
    PROVE  BlocksOK' /\ WayOK' /\ NoneMissing'
  <1>1. CASE shared = << >>
    BY <1>1, QuietLine
  <1>2. CASE shared # << >>
    <2>1. /\ pc[c] = "dump" /\ Holder = {}
          /\ block' = [block EXCEPT ![c] = Block("shared", shared)]
          /\ shared' = << >>
          /\ pc' = [pc EXCEPT ![c] = "file"]
          /\ UNCHANGED <<own, screen, commands, level, outVars>>
      BY <1>2 DEF Dump
    <2>2. /\ shared \in Seq(Command)
          /\ Ordered(shared) /\ Numbered(shared, Top(c))
          /\ \A i \in DOMAIN screen : Follows(screen[i].list, shared)
          /\ \A d \in Clients \ {c} : Private(d) => NoneOf(d, shared)
      BY TopIs DEF TypeOK, WayOK, BlocksOK, PrivateOK
    <2> QED
      BY <1>2, <2>1, <2>2, Flush
  <1> QED
    BY <1>1, <1>2

-------------------------------------------------------------------------------
(* A dynamic block *)

LEMMA BlockEndStep ==
    ASSUME TypeOK, TypeOK', BlocksOK, WayOK, NoneMissing, NEW c \in Clients, BlockEnd(c)
    PROVE  BlocksOK' /\ WayOK' /\ NoneMissing'
  <1>1. CASE UNCHANGED block
    BY <1>1, QuietLine
  <1>2. CASE block' # block
    <2>1. /\ pc[c] = "idle" /\ level[c] = 1 /\ own[c] # << >>
          /\ level' = [level EXCEPT ![c] = @ - 1]
          /\ block' = [block EXCEPT ![c] = Block("own", own[c])]
          /\ own' = [own EXCEPT ![c] = << >>]
          /\ pc' = [pc EXCEPT ![c] = "file"]
          /\ UNCHANGED <<shared, screen, commands, outVars>>
      BY <1>2 DEF BlockEnd, Receive
    <2>2. /\ pc'[c] = "file" /\ block'[c] = Block("own", own[c])
          /\ block'[c].origin = "own" /\ block'[c].list = own[c]
          /\ own'[c] = << >> /\ level'[c] = 0
          /\ \A d \in Clients : d # c => /\ pc'[d] = pc[d] /\ block'[d] = block[d]
                                         /\ own'[d] = own[d] /\ level'[d] = level[d]
      BY <2>1 DEF TypeOK, Block
    <2>3. OnScreen' = OnScreen
      BY <2>1 DEF OnScreen
    <2>4. own[c] \in Seq(Command) /\ OnlyOf(c, own[c])
      BY DEF TypeOK, BlocksOK, ClientOK
    <2>5. /\ Unprinted(c)'
          /\ \A d \in Clients \ {c} : Unprinted(d)' <=> Unprinted(d)
      <3>1. Block("own", own[c]) \notin OnScreen
        BY <2>1, <2>4, NotOnScreen DEF WayOK
      <3> QED
        BY <2>2, <2>3, <3>1 DEF Unprinted
    <2>6. block[c].list = << >> /\ block[c].origin = "none"
      BY <2>1, BlockFields DEF BlocksOK, ClientOK, Printing
    <2>7. Holder' = Holder
      BY <2>1, <2>2, <2>6 DEF Holder
    <2>8. c \notin Holder
      BY <2>6, HolderIs
    <2>9. Private(c)
      BY <2>1 DEF Private
    <2>10. ASSUME NEW d \in Clients PROVE ClientOK(d)' /\ PrivateOK(d)'
      <3>1. d # c => ClientOK(d)'
        BY <2>1, <2>2, ClientKept DEF BlocksOK
      <3>2. d = c => ClientOK(d)'
        <4>1. OnlyOf(c, own'[c])
          BY <2>2, EmptyList
        <4> QED
          BY <2>1, <2>2, <2>4, <2>5, <4>1 DEF ClientOK, Printing
      <3>3. \A e \in Holder : e # c /\ block'[e] = block[e] /\ (Unprinted(e)' <=> Unprinted(e))
        BY <2>2, <2>5, <2>8 DEF Holder
      <3>4. d # c => (Private(d)' <=> Private(d))
        BY <2>2 DEF Private
      <3>5. PrivateOK(d)'
        BY <2>1, <2>7, <2>9, <3>3, <3>4 DEF BlocksOK, PrivateOK
      <3> QED
        BY <3>1, <3>2, <3>5
    <2>11. PrintersOK'
      BY <2>1, <2>2, PrintersKept DEF BlocksOK
    <2>12. WayOK'
      <3>1. Settled' = Settled
        BY <2>1, <2>2 DEF Settled
      <3>2. ASSUME NEW d \in Clients, d # c, Unprinted(d) PROVE Apart(own[c], block[d].list)
        <4>1. CASE block[d].origin = "own"
          BY <2>4, <3>2, <4>1, ApartLists DEF BlocksOK, ClientOK
        <4>2. CASE block[d].origin = "shared"
          <5>1. d \in Holder \ {c}
            BY <3>2, <4>2, HolderIs
          <5>2. NoneOf(c, block[d].list)
            BY <2>9, <3>2, <5>1 DEF BlocksOK, PrivateOK
          <5> QED
            BY <2>4, <5>2, ApartLists
        <4>3. CASE block[d].origin = "none"
          <5>1. block[d].list = << >>
            BY <4>3, BlockFields DEF BlocksOK, ClientOK
          <5> QED
            BY <5>1, EmptyList
        <4> QED
          BY <4>1, <4>2, <4>3, BlockFields
      <3>3. ASSUME NEW d \in Clients
            PROVE  /\ Ordered(own'[d]) /\ Numbered(own'[d], Settled)
                   /\ Ordered(block'[d].list) /\ Numbered(block'[d].list, Settled)
                   /\ \A i \in DOMAIN screen : /\ Follows(screen[i].list, own'[d])
                                               /\ Unprinted(d)' => Follows(screen[i].list, block'[d].list)
        <4>1. CASE d # c
          BY <2>2, <2>5, <4>1 DEF WayOK
        <4>2. CASE d = c
          BY <2>2, <4>2, EmptyList DEF WayOK
        <4> QED
          BY <4>1, <4>2
      <3>4. ASSUME NEW d \in Clients, d \in Holder', Unprinted(d)'
            PROVE  Follows(block'[d].list, shared)
        BY <2>2, <2>5, <2>7, <2>8, <3>4 DEF WayOK
      <3>5. ASSUME NEW d \in Clients, NEW e \in Clients \ {d}, Unprinted(d)', Unprinted(e)'
            PROVE  Apart(block'[d].list, block'[e].list)
        <4>1. CASE d = c
          BY <2>2, <2>5, <3>2, <3>5, <4>1
        <4>2. CASE e = c
          BY <2>2, <2>5, <3>2, <3>5, <4>2, ApartLists
        <4>3. CASE d # c /\ e # c
          BY <2>2, <2>5, <3>5, <4>3 DEF WayOK
        <4> QED
          BY <4>1, <4>2, <4>3
      <3> QED
        BY <2>1, <3>1, <3>3, <3>4, <3>5 DEF WayOK
    <2>13. ASSUME NEW m \in Command PROVE Present(m)' <=> Present(m)
      <3>1. m.client \in Clients
        BY DEF Command
      <3>2. (pc[m.client] = "add" /\ m = LastCommand(m.client))' <=>
               pc[m.client] = "add" /\ m = LastCommand(m.client)
        BY <2>1, <2>2, <3>1 DEF LastCommand
      <3>3. (\E d \in Clients : Holds(own[d], m)) <=>
               (\E d \in Clients : Holds(own'[d], m)) \/ Holds(own[c], m)
        BY <2>2, EmptyList
      <3>4. (\E d \in Clients : Unprinted(d)' /\ Holds(block'[d].list, m)) <=>
               \/ \E d \in Clients : Unprinted(d) /\ Holds(block[d].list, m)
               \/ Holds(own[c], m)
        <4>1. ~ Holds(block[c].list, m)
          BY <2>6, EmptyList
        <4> QED
          BY <2>2, <2>5, <4>1
      <3> QED
        BY <2>1, <3>2, <3>3, <3>4 DEF Present
    <2>14. NoneMissing'
      BY <2>1, <2>2, <2>13, MissingKept
    <2> QED
      BY <2>7, <2>10, <2>11, <2>12, <2>14 DEF BlocksOK
  <1> QED
    BY <1>1, <1>2

\* The commands of an open block go with the parser; none that came after them
\* is anywhere.
LEMMA DisconnectStep ==
    ASSUME TypeOK, TypeOK', BlocksOK, WayOK, NoneMissing, NEW c \in Clients, Disconnect(c)
    PROVE  BlocksOK' /\ WayOK' /\ NoneMissing'
  <1>1. /\ pc[c] = "idle"
        /\ pc' = [pc EXCEPT ![c] = "gone"]
        /\ own' = [own EXCEPT ![c] = << >>]
        /\ UNCHANGED <<shared, block, screen, commands, level, outVars>>
    BY DEF Disconnect
  <1>2. /\ pc'[c] = "gone" /\ own'[c] = << >>
        /\ \A d \in Clients : d # c => pc'[d] = pc[d] /\ own'[d] = own[d]
    BY <1>1 DEF TypeOK
  <1>3. OnScreen' = OnScreen /\ \A e : Unprinted(e)' <=> Unprinted(e)
    BY <1>1 DEF Unprinted, OnScreen
  <1>4. Holder' = Holder
    BY <1>1, <1>2 DEF Holder
  <1>5. block[c].list = << >> /\ block[c].origin = "none"
    BY <1>1, BlockFields DEF BlocksOK, ClientOK, Printing
  <1>6. ASSUME NEW d \in Clients PROVE ClientOK(d)' /\ PrivateOK(d)'
    <2>1. d # c => ClientOK(d)'
      BY <1>1, <1>2, ClientKept DEF BlocksOK
    <2>2. d = c => ClientOK(d)'
      <3>1. OnlyOf(c, own'[c])
        BY <1>2, EmptyList
      <3> QED
        BY <1>1, <1>2, <1>3, <1>5, <3>1 DEF BlocksOK, ClientOK, Printing
    <2>3. Private(d)' <=> Private(d)
      BY <1>1, <1>2 DEF Private
    <2>4. PrivateOK(d)'
      BY <1>1, <1>3, <1>4, <2>3 DEF BlocksOK, PrivateOK
    <2> QED
      BY <2>1, <2>2, <2>4
  <1>7. PrintersOK'
    BY <1>1, <1>2, PrintersKept DEF BlocksOK
  <1>8. WayOK'
    <2>1. Settled' = Settled
      BY <1>1, <1>2 DEF Settled
    <2>2. ASSUME NEW d \in Clients
          PROVE  /\ Ordered(own'[d]) /\ Numbered(own'[d], Settled)
                 /\ \A i \in DOMAIN screen : Follows(screen[i].list, own'[d])
      <3>1. CASE d # c
        BY <1>2, <3>1 DEF WayOK
      <3>2. CASE d = c
        BY <1>2, <3>2, EmptyList
      <3> QED
        BY <3>1, <3>2
    <2> QED
      BY <1>1, <1>3, <1>4, <2>1, <2>2 DEF WayOK
  <1>9. ASSUME NEW m \in Command
        PROVE  /\ Present(m)' => Present(m)
               /\ Present(m) => Present(m)' \/ Holds(own[c], m)
    <2>1. m.client \in Clients
      BY DEF Command
    <2>2. (pc[m.client] = "add" /\ m = LastCommand(m.client))' <=>
             pc[m.client] = "add" /\ m = LastCommand(m.client)
      BY <1>1, <1>2, <2>1 DEF LastCommand
    <2>3. (\E d \in Clients : Holds(own'[d], m)) <=>
             (\E d \in Clients : d # c /\ Holds(own[d], m))
      BY <1>2, EmptyList
    <2> QED
      BY <1>1, <1>3, <2>2, <2>3 DEF Present
  <1>10. ASSUME NEW m \in Command, Holds(own[c], m) PROVE m.client = c
    BY <1>10 DEF BlocksOK, ClientOK, OnlyOf, Holds
  <1>11. NoneMissing'
    <2> SUFFICES ASSUME NEW d \in Clients, NEW k \in 1 .. commands[d],
                        \/ Present([client |-> d, n |-> k])'
                        \/ k = commands[d] /\ pc'[d] # "gone",
                        NEW n \in 1 .. k
                 PROVE  Present([client |-> d, n |-> n])'
      BY <1>1 DEF NoneMissing
    <2>1. commands[d] \in Nat
      BY DEF TypeOK
    <2>2. k \in Nat /\ n \in Nat
      BY <2>1
    <2>3. [client |-> d, n |-> k] \in Command /\ [client |-> d, n |-> n] \in Command
      BY <2>2 DEF Command
    <2>4. Present([client |-> d, n |-> k]) \/ (k = commands[d] /\ pc[d] # "gone")
      BY <1>1, <1>2, <1>9, <2>3
    <2>5. Present([client |-> d, n |-> n])
      BY <2>4 DEF NoneMissing
    <2>6. CASE ~ Holds(own[c], [client |-> d, n |-> n])
      BY <1>9, <2>3, <2>5, <2>6
    <2>7. CASE Holds(own[c], [client |-> d, n |-> n])
      <3>1. d = c
        BY <1>10, <2>3, <2>7
      <3>2. Present([client |-> c, n |-> k])'
        BY <1>2, <3>1
      <3>3. PICK j \in DOMAIN own[c] : own[c][j] = [client |-> c, n |-> n]
        BY <2>7, <3>1 DEF Holds
      <3>4. own[c] # << >>
        BY <3>3
      <3>5. Private(c)
        BY <1>1, <3>4 DEF Private, BlocksOK, ClientOK
      <3>6. ~ Holds(shared, [client |-> c, n |-> k])
        BY <3>5 DEF BlocksOK, PrivateOK, NoneOf, Holds
      <3>7. ASSUME NEW e \in Clients PROVE ~ Holds(own'[e], [client |-> c, n |-> k])
        <4>1. CASE e = c
          BY <1>2, <4>1, EmptyList
        <4>2. CASE e # c
          BY <1>2, <4>2 DEF BlocksOK, ClientOK, OnlyOf, Holds
        <4> QED
          BY <4>1, <4>2
      <3>8. ASSUME NEW e \in Clients, Unprinted(e)
            PROVE  ~ Holds(block[e].list, [client |-> c, n |-> k])
        <4>1. CASE e = c \/ block[e].origin = "none"
          <5>1. block[e].list = << >>
            BY <1>5, <4>1, BlockFields DEF BlocksOK, ClientOK
          <5> QED
            BY <5>1, EmptyList
        <4>2. CASE e # c /\ block[e].origin = "own"
          BY <4>2 DEF BlocksOK, ClientOK, OnlyOf, Holds
        <4>3. CASE e # c /\ block[e].origin = "shared"
          <5>1. e \in Holder \ {c}
            BY <4>3, HolderIs
          <5> QED
            BY <3>5, <3>8, <5>1 DEF BlocksOK, PrivateOK, NoneOf, Holds
        <4> QED
          BY <4>1, <4>2, <4>3, BlockFields
      <3>9. PICK i \in DOMAIN screen : Holds(screen[i].list, [client |-> c, n |-> k])
        BY <1>1, <1>2, <1>3, <3>2, <3>6, <3>7, <3>8 DEF Present
      <3>10. PICK l \in DOMAIN screen[i].list : screen[i].list[l] = [client |-> c, n |-> k]
        BY <3>9 DEF Holds
      <3>11. Follows(screen[i].list, own[c])
        BY DEF WayOK
      <3>12. k < n
        BY <3>3, <3>10, <3>11 DEF Follows
      <3> QED
        BY <2>2, <3>12
    <2> QED
      BY <2>6, <2>7
  <1> QED
    BY <1>4, <1>6, <1>7, <1>8, <1>11 DEF BlocksOK

-------------------------------------------------------------------------------
(* A block gets on the screen, and the one who waits for it goes on *)

LEMMA PrintedStep ==
    ASSUME TypeOK, TypeOK', BlocksOK, WayOK, NoneMissing, NEW c \in Clients, Printed(c)
    PROVE  BlocksOK' /\ WayOK' /\ NoneMissing'
  <1>1. /\ pc[c] = "wait" /\ block[c] \in OnScreen
        /\ block' = [block EXCEPT ![c] = NoBlock]
        /\ pc' = [pc EXCEPT ![c] = "idle"]
        /\ UNCHANGED <<own, shared, screen, commands, level, outVars>>
    BY DEF Printed, BlocksOK, PrintersOK
  <1>2. /\ pc'[c] = "idle" /\ block'[c].list = << >> /\ block'[c].origin = "none"
        /\ block'[c] = NoBlock
        /\ \A d \in Clients : d # c => pc'[d] = pc[d] /\ block'[d] = block[d]
    BY <1>1 DEF TypeOK, NoBlock, Block
  <1>3. OnScreen' = OnScreen
    BY <1>1 DEF OnScreen
  <1>4. /\ Unprinted(c)' /\ ~ Unprinted(c)
        /\ \A d \in Clients \ {c} : Unprinted(d)' <=> Unprinted(d)
    <2>1. NoBlock \notin OnScreen
      BY DEF OnScreen, BlocksOK, PrintersOK, NoBlock, Block
    <2> QED
      BY <1>1, <1>2, <1>3, <2>1 DEF Unprinted
  <1>5. own[c] = << >>
    BY <1>1 DEF BlocksOK, ClientOK
  <1>6. Holder' = Holder \ {c}
    BY <1>2 DEF Holder
  <1>7. ASSUME NEW d \in Clients PROVE ClientOK(d)' /\ PrivateOK(d)'
    <2>1. d # c => ClientOK(d)'
      BY <1>1, <1>2, ClientKept DEF BlocksOK
    <2>2. d = c => ClientOK(d)'
      BY <1>1, <1>2, <1>4, <1>5 DEF BlocksOK, ClientOK, Printing
    <2>3. Private(d)' => Private(d)
      BY <1>1, <1>2 DEF Private
    <2>4. \A e \in Holder' : e # c /\ block'[e] = block[e] /\ (Unprinted(e)' <=> Unprinted(e))
      BY <1>2, <1>4, <1>6 DEF Holder
    <2>5. PrivateOK(d)'
      BY <1>1, <1>6, <2>3, <2>4 DEF BlocksOK, PrivateOK
    <2> QED
      BY <2>1, <2>2, <2>5
  <1>8. PrintersOK'
    BY <1>1, <1>2, <1>4, PrintersKept DEF BlocksOK
  <1>9. WayOK'
    <2>1. Settled' = Settled
      BY <1>1, <1>2 DEF Settled
    <2>2. ASSUME NEW d \in Clients
          PROVE  /\ Ordered(block'[d].list) /\ Numbered(block'[d].list, Settled)
                 /\ Unprinted(d)' /\ d \in Holder' => Follows(block'[d].list, shared)
                 /\ \A i \in DOMAIN screen :
                       Unprinted(d)' => Follows(screen[i].list, block'[d].list)
                 /\ \A e \in Clients \ {d} :
                       Unprinted(d)' /\ Unprinted(e)' => Apart(block'[d].list, block'[e].list)
      <3>1. \A list : Apart(list, block'[c].list) /\ Apart(block'[c].list, list)
        BY <1>2, EmptyList
      <3>2. CASE d # c
        <4>1. block'[d] = block[d] /\ (Unprinted(d)' <=> Unprinted(d)) /\ (d \in Holder' => d \in Holder)
          BY <1>2, <1>4, <1>6, <3>2
        <4>2. \A e \in Clients \ {d} :
                 Unprinted(d)' /\ Unprinted(e)' => Apart(block'[d].list, block'[e].list)
          BY <1>2, <1>4, <3>1, <4>1 DEF WayOK
        <4> QED
          BY <4>1, <4>2 DEF WayOK
      <3>3. CASE d = c
        BY <1>2, <3>1, <3>3, EmptyList
      <3> QED
        BY <3>2, <3>3
    <2> QED
      BY <1>1, <2>1, <2>2 DEF WayOK
  <1>10. ASSUME NEW m \in Command PROVE Present(m)' <=> Present(m)
    <2>1. m.client \in Clients
      BY DEF Command
    <2>2. (pc[m.client] = "add" /\ m = LastCommand(m.client))' <=>
             pc[m.client] = "add" /\ m = LastCommand(m.client)
      BY <1>1, <1>2, <2>1 DEF LastCommand
    <2>3. (\E d \in Clients : Unprinted(d)' /\ Holds(block'[d].list, m)) <=>
             (\E d \in Clients : Unprinted(d) /\ Holds(block[d].list, m))
      <3>1. ~ Holds(block'[c].list, m)
        BY <1>2, EmptyList
      <3> QED
        BY <1>2, <1>4, <3>1
    <2> QED
      BY <1>1, <2>2, <2>3 DEF Present
  <1>11. NoneMissing'
    BY <1>1, <1>2, <1>10, MissingKept
  <1> QED
    BY <1>6, <1>7, <1>8, <1>9, <1>11 DEF BlocksOK

LEMMA WriteStdOutStep ==
    ASSUME TypeOK, TypeOK', BlocksOK, WayOK, NoneMissing,
           NEW b \in outRunning, WriteStdOut(b)
    PROVE  BlocksOK' /\ WayOK' /\ NoneMissing'
  <1> DEFINE last == Len(screen) + 1
  <1>1. /\ outRunning' = outRunning \ {b}
        /\ outFinished' = outFinished \union {b}
        /\ UNCHANGED outPending
        /\ screen' = Append(screen, b)
        /\ UNCHANGED <<pc, own, shared, block, commands, level>>
    BY DEF WriteStdOut, StdOut!Finish, clientVars
  <1>2. PICK c \in Clients : pc[c] = "wait" /\ b = block[c] /\ Unprinted(c)
    BY DEF BlocksOK, PrintersOK
  <1>3. /\ b \in Blocks /\ b.list \in Seq(Command) /\ b.list # << >>
        /\ own[c] = << >>
    BY <1>2, BlockFields DEF TypeOK, BlocksOK, ClientOK, Printing
  <1>4. /\ DOMAIN screen = 1 .. Len(screen) /\ Len(screen) \in Nat
        /\ DOMAIN screen' = 1 .. last
        /\ \A i \in DOMAIN screen : i \in DOMAIN screen' /\ screen'[i] = screen[i]
        /\ screen'[last] = b
    BY <1>1, <1>3, AppendProperties, LenProperties DEF TypeOK
  <1>5. /\ \A i \in DOMAIN screen' : i \in DOMAIN screen \/ i = last
        /\ last \in DOMAIN screen' /\ \A i \in DOMAIN screen' : ~ (last < i)
    BY <1>4
  <1> HIDE DEF last
  <1>6. OnScreen' = OnScreen \union {b}
    BY <1>4, <1>5 DEF OnScreen
  <1>7. /\ ~ Unprinted(c)'
        /\ \A d \in Clients \ {c} : Unprinted(d)' <=> Unprinted(d)
    <2>1. ASSUME NEW d \in Clients \ {c}, Unprinted(d), block[d] = b PROVE FALSE
      <3>1. Apart(b.list, b.list)
        BY <1>2, <2>1 DEF WayOK
      <3> QED
        BY <1>3, <3>1, NotBeforeItself
    <2>2. \A d \in Clients : Unprinted(d)' <=> Unprinted(d) /\ block[d] # b
      BY <1>1, <1>6 DEF Unprinted
    <2> QED
      BY <1>2, <2>1, <2>2
  <1>8. Holder' = Holder
    BY <1>1 DEF Holder
  <1>9. ASSUME NEW d \in Clients PROVE ClientOK(d)' /\ PrivateOK(d)'
    <2>1. Unprinted(d)' \/ pc'[d] = "wait"
      BY <1>1, <1>2, <1>7 DEF BlocksOK, ClientOK
    <2>2. ClientOK(d)'
      BY <1>1, <2>1 DEF BlocksOK, ClientOK
    <2>3. Private(d)' <=> Private(d)
      BY <1>1 DEF Private
    <2>4. \A e \in Holder : Unprinted(e)' => Unprinted(e)
      BY <1>7 DEF Holder
    <2>5. PrivateOK(d)'
      BY <1>1, <1>8, <2>3, <2>4 DEF BlocksOK, PrivateOK
    <2> QED
      BY <2>2, <2>5
  <1>10. PrintersOK'
    <2>1. \A i \in DOMAIN screen' : screen'[i].list # << >>
      BY <1>3, <1>4, <1>5 DEF BlocksOK, PrintersOK
    <2>2. outFinished' = OnScreen'
      BY <1>1, <1>6 DEF BlocksOK, PrintersOK
    <2>3. \A a \in outRunning' \union {outPending[i] : i \in DOMAIN outPending} :
             a # b /\ a \in outRunning \union {outPending[i] : i \in DOMAIN outPending}
      BY <1>1 DEF BlocksOK, PrintersOK
    <2>4. ASSUME NEW a \in outRunning' \union {outPending[i] : i \in DOMAIN outPending}
          PROVE  \E d \in Clients : pc[d] = "wait" /\ a = block[d] /\ Unprinted(d)'
      <3>1. PICK d \in Clients : pc[d] = "wait" /\ a = block[d] /\ Unprinted(d)
        BY <2>3 DEF BlocksOK, PrintersOK
      <3>2. d # c
        BY <1>2, <2>3, <3>1
      <3> QED
        BY <1>7, <3>1, <3>2
    <2> QED
      BY <1>1, <2>1, <2>2, <2>4 DEF BlocksOK, PrintersOK
  <1>11. CASE block[c].origin = "own" \/ block[c].origin = "shared"
    <2>1. Settled' = Settled
      BY <1>1 DEF Settled
    <2>2. Follows(b.list, shared)
      <3>1. CASE block[c].origin = "own"
        <4>1. OnlyOf(c, b.list) /\ NoneOf(c, shared)
          BY <1>2, <3>1 DEF BlocksOK, ClientOK, PrivateOK, Private
        <4> QED
          BY <4>1, ApartLists
      <3>2. CASE block[c].origin = "shared"
        BY <1>2, <3>2, HolderIs DEF WayOK
      <3> QED
        BY <1>11, <3>1, <3>2
    <2>3. ASSUME NEW d \in Clients PROVE Follows(b.list, own[d])
      <3>1. CASE own[d] = << >>
        BY <3>1, EmptyList
      <3>2. CASE own[d] # << >>
        <4>1. d # c /\ Private(d) /\ OnlyOf(d, own[d])
          BY <1>3, <3>2 DEF BlocksOK, ClientOK, Private
        <4>2. CASE block[c].origin = "own"
          BY <1>2, <4>1, <4>2, ApartLists DEF BlocksOK, ClientOK
        <4>3. CASE block[c].origin = "shared"
          <5>1. c \in Holder \ {d}
            BY <4>1, <4>3, HolderIs
          <5>2. NoneOf(d, b.list)
            BY <1>2, <4>1, <5>1 DEF BlocksOK, PrivateOK
          <5> QED
            BY <4>1, <5>2, ApartLists
        <4> QED
          BY <1>11, <4>2, <4>3
      <3> QED
        BY <3>1, <3>2
    <2>4. ASSUME NEW d \in Clients, Unprinted(d)' PROVE Follows(b.list, block[d].list)
      <3>1. d # c /\ Unprinted(d)
        BY <1>7, <2>4
      <3> QED
        BY <1>2, <3>1, ApartLists DEF WayOK
    <2>5. Ordered(b.list) /\ Numbered(b.list, Settled)
      BY <1>2 DEF WayOK
    <2>6. ASSUME NEW i \in DOMAIN screen'
          PROVE  /\ Ordered(screen'[i].list) /\ Numbered(screen'[i].list, Settled)
                 /\ Follows(screen'[i].list, shared)
                 /\ \A j \in DOMAIN screen' : i < j => Follows(screen'[i].list, screen'[j].list)
                 /\ \A d \in Clients : /\ Follows(screen'[i].list, own[d])
                                       /\ Unprinted(d)' => Follows(screen'[i].list, block[d].list)
      <3>1. CASE i \in DOMAIN screen
        <4>1. screen'[i] = screen[i] /\ Follows(screen[i].list, b.list)
          BY <1>2, <1>4, <3>1 DEF WayOK
        <4>2. \A j \in DOMAIN screen' : i < j => Follows(screen'[i].list, screen'[j].list)
          BY <1>4, <1>5, <3>1, <4>1 DEF WayOK
        <4>3. \A d \in Clients : Unprinted(d)' => Unprinted(d)
          BY <1>7
        <4> QED
          BY <3>1, <4>1, <4>2, <4>3 DEF WayOK
      <3>2. CASE i = last
        BY <1>4, <1>5, <2>2, <2>3, <2>4, <2>5, <3>2
      <3> QED
        BY <1>5, <3>1, <3>2
    <2>7. ASSUME NEW d \in Clients, NEW e \in Clients \ {d}, Unprinted(d)', Unprinted(e)'
          PROVE  Apart(block[d].list, block[e].list)
      BY <1>7, <2>7 DEF WayOK
    <2>8. ASSUME NEW d \in Clients
          PROVE  /\ Ordered(own[d]) /\ Numbered(own[d], Settled)
                 /\ Ordered(block[d].list) /\ Numbered(block[d].list, Settled)
                 /\ Unprinted(d)' /\ d \in Holder => Follows(block[d].list, shared)
      BY <1>7 DEF WayOK
    <2>9. Ordered(shared) /\ Numbered(shared, Settled)
      BY DEF WayOK
    <2>10. WayOK'
      BY <1>1, <1>8, <2>1, <2>6, <2>7, <2>8, <2>9 DEF WayOK
    <2>11. ASSUME NEW m \in Command PROVE Present(m)' <=> Present(m)
      <3>1. m.client \in Clients
        BY DEF Command
      <3>2. LastCommand(m.client)' = LastCommand(m.client)
        BY <1>1 DEF LastCommand
      <3>3. (\E d \in Clients : Unprinted(d) /\ Holds(block[d].list, m)) <=>
               \/ \E d \in Clients : Unprinted(d)' /\ Holds(block[d].list, m)
               \/ Holds(b.list, m)
        BY <1>2, <1>7
      <3>4. (\E i \in DOMAIN screen' : Holds(screen'[i].list, m)) <=>
               \/ \E i \in DOMAIN screen : Holds(screen[i].list, m)
               \/ Holds(b.list, m)
        BY <1>4, <1>5
      <3> QED
        BY <1>1, <3>2, <3>3, <3>4 DEF Present
    <2>12. NoneMissing'
      BY <1>1, <2>11, MissingKept
    <2> QED
      BY <1>8, <1>9, <1>10, <2>10, <2>12 DEF BlocksOK
  <1> QED
    BY <1>2, <1>11, BlockFields DEF BlocksOK, ClientOK, Printing

-------------------------------------------------------------------------------
(* The invariant holds *)

LEMMA InitPrint == Init => PrintInv
  <1> SUFFICES ASSUME Init PROVE PrintInv
    OBVIOUS
  <1>1. << >> \in Seq(Command) /\ << >> \in Seq(Blocks) /\ DOMAIN << >> = {}
    BY EmptySeq
  <1>2. NoBlock \in Blocks /\ NoBlock.list = << >> /\ NoBlock.origin = "none"
    BY <1>1 DEF NoBlock, Block, Blocks
  <1>3. TypeOK
    BY <1>1, <1>2, BulkSizesAssumption DEF Init, TypeOK, Locations
  <1>4. /\ shared = << >> /\ screen = << >>
        /\ \A c \in Clients : /\ pc[c] = "new" /\ own[c] = << >> /\ block[c] = NoBlock
                              /\ level[c] = 0 /\ commands[c] = 0
    BY DEF Init
  <1>5. OnScreen = {} /\ \A c \in Clients : Unprinted(c)
    BY <1>1, <1>4 DEF OnScreen, Unprinted
  <1>6. Holder = {}
    BY <1>4 DEF Holder
  <1>7. BlocksOK
    <2>1. PrintersOK
      BY <1>1, <1>4, <1>5 DEF Init, StdOut!PoolInit, PrintersOK
    <2>2. ASSUME NEW c \in Clients PROVE ClientOK(c) /\ PrivateOK(c)
      BY <1>2, <1>4, <1>5, EmptyList DEF ClientOK, PrivateOK, Private, Printing
    <2> QED
      BY <1>6, <2>1, <2>2 DEF BlocksOK
  <1>8. WayOK
    BY <1>1, <1>2, <1>4, EmptyList DEF WayOK
  <1>9. NoneMissing
    BY <1>4 DEF NoneMissing
  <1> QED
    BY <1>3, <1>7, <1>8, <1>9 DEF PrintInv

LEMMA PrintStep == PrintInv /\ [Next]_vars => PrintInv'
  <1> SUFFICES ASSUME PrintInv, [Next]_vars PROVE PrintInv'
    OBVIOUS
  <1> USE DEF PrintInv
  <1>1. TypeOK'
    BY StepTypes
  <1>2. ASSUME NEW c \in Clients, Line(c) PROVE BlocksOK' /\ WayOK' /\ NoneMissing'
    BY <1>1, <1>2, NormalCommandStep, DynamicCommandStep, BlockEndStep, QuietLine DEF Line
  <1>3. ASSUME NEW c \in Clients, Handler(c) PROVE BlocksOK' /\ WayOK' /\ NoneMissing'
    BY <1>1, <1>3, AddCommandStep, DumpStep, PrintedStep, QuietPrinter DEF Handler
  <1>4. ASSUME NEW c \in Clients, Connect(c) \/ Disconnect(c)
        PROVE  BlocksOK' /\ WayOK' /\ NoneMissing'
    BY <1>1, <1>4, DisconnectStep, QuietLine
  <1>5. ASSUME NEW b \in outRunning, WriteStdOut(b) PROVE BlocksOK' /\ WayOK' /\ NoneMissing'
    BY <1>1, <1>5, WriteStdOutStep
  <1>6. ASSUME \/ StartFile \/ StartStdOut
               \/ \E b \in fileRunning : WriteFile(b)
               \/ UNCHANGED vars
        PROVE  BlocksOK' /\ WayOK' /\ NoneMissing'
    BY <1>6, QuietPrinter
  <1>7. BlocksOK' /\ WayOK' /\ NoneMissing'
    <2>1. \/ \E c \in Clients : Connect(c) \/ Line(c) \/ Handler(c) \/ Disconnect(c)
          \/ StartFile \/ StartStdOut \/ \E b \in fileRunning : WriteFile(b)
          \/ UNCHANGED vars
          \/ \E b \in outRunning : WriteStdOut(b)
      BY DEF Next, Printers, Stopped
    <2> QED
      BY <1>2, <1>3, <1>4, <1>5, <1>6, <2>1
  <1> QED
    BY <1>1, <1>7

\* The commands of every client go in order, and without gaps, from the client
\* to the screen.
THEOREM PrintInvCorrect == Spec => []PrintInv
  BY InitPrint, PrintStep, PTL DEF Spec

-------------------------------------------------------------------------------
(* What follows from it *)

LEMMA OneEntry ==
    ASSUME NEW list \in Seq(Command), Ordered(list),
           NEW i \in DOMAIN list, NEW j \in DOMAIN list, list[i] = list[j]
    PROVE  i = j
  <1>1. /\ i \in Nat /\ j \in Nat /\ list[i].n \in Nat
    BY ListFields
  <1>2. ~ (i < j) /\ ~ (j < i)
    BY <1>1 DEF Ordered
  <1> QED
    BY <1>1, <1>2

LEMMA NoCommon ==
    ASSUME NEW x \in Seq(Command), NEW y \in Seq(Command), Follows(x, y), NEW m
    PROVE  ~ (Holds(x, m) /\ Holds(y, m))
  <1> SUFFICES ASSUME NEW i \in DOMAIN x, x[i] = m, NEW j \in DOMAIN y, y[j] = m
               PROVE  FALSE
    BY DEF Holds
  <1>1. m.n \in Nat
    BY ListFields
  <1>2. m.n < m.n
    BY DEF Follows
  <1> QED
    BY <1>1, <1>2

\* A command that waits for the mutex has the number of its client's last.
LEMMA NotSettled ==
    ASSUME TypeOK, NEW m \in Command, pc[m.client] = "add", m = LastCommand(m.client),
           NEW list, Numbered(list, Settled)
    PROVE  ~ Holds(list, m)
  <1>1. m.client \in Clients /\ m.n = commands[m.client] /\ commands[m.client] \in Nat
    BY NextCommandType DEF Command, TypeOK
  <1>2. Settled[m.client] = commands[m.client] - 1
    BY <1>1 DEF Settled
  <1>3. m.n \notin 1 .. Settled[m.client]
    BY <1>1, <1>2
  <1> QED
    BY <1>3 DEF Numbered, Holds

\* A command that is on the screen comes after all that its client sent before,
\* and each of them is somewhere: everywhere else numbers are higher.
LEMMA ScreenInOrder == PrintInv => PrintedInOrder
  <1> SUFFICES ASSUME PrintInv,
                      NEW k \in DOMAIN screen, NEW l \in DOMAIN screen[k].list,
                      NEW m, m = screen[k].list[l], NEW n \in 1 .. m.n - 1
               PROVE  \E i \in DOMAIN screen : \E j \in DOMAIN screen[i].list :
                         /\ screen[i].list[j] = [client |-> m.client, n |-> n]
                         /\ Earlier(i, j, k, l)
    BY DEF PrintedInOrder
  <1> USE DEF PrintInv
  <1> DEFINE early == [client |-> m.client, n |-> n]
  <1>1. /\ screen[k].list \in Seq(Command) /\ k \in Nat /\ l \in Nat
        /\ m \in Command /\ m.client \in Clients /\ m.n \in Nat
        /\ m = [client |-> m.client, n |-> m.n]
    <2>1. screen[k].list \in Seq(Command) /\ k \in Nat
      BY ScreenFields
    <2>2. l \in Nat /\ m \in Command
      BY <2>1, ListFields
    <2> QED
      BY <2>1, <2>2 DEF Command
  <1>2. n \in Nat /\ n < m.n /\ early \in Command /\ early.client = m.client /\ early.n = n
    BY <1>1 DEF Command
  <1>3. /\ m.n \in 1 .. Settled[m.client] /\ Settled[m.client] <= commands[m.client]
        /\ commands[m.client] \in Nat /\ Settled[m.client] \in Int
    BY <1>1, SettledType DEF WayOK, Numbered, TypeOK
  <1>4. Present(m)
    BY DEF Present, Holds
  <1>5. Present(early)
    <2>1. m.n \in 1 .. commands[m.client] /\ n \in 1 .. m.n
      BY <1>1, <1>2, <1>3
    <2> QED
      BY <1>1, <1>4, <2>1 DEF NoneMissing
  <1> HIDE DEF early
  <1>6. ~ (pc[m.client] = "add" /\ early = LastCommand(m.client))
    <2>1. early.n < commands[m.client]
      BY <1>1, <1>2, <1>3
    <2>2. LastCommand(m.client).n = commands[m.client]
      BY DEF LastCommand
    <2> QED
      BY <1>2, <1>3, <2>1, <2>2
  <1>7. ASSUME NEW list \in Seq(Command), Follows(screen[k].list, list) PROVE ~ Holds(list, early)
    <2> SUFFICES ASSUME NEW i \in DOMAIN list, list[i] = early PROVE FALSE
      BY DEF Holds
    <2>1. m.n < n
      BY <1>1, <1>2, <1>7 DEF Follows
    <2> QED
      BY <1>1, <1>2, <2>1
  <1>8. /\ ~ Holds(shared, early)
        /\ \A c \in Clients : ~ Holds(own[c], early)
        /\ \A c \in Clients : Unprinted(c) => ~ Holds(block[c].list, early)
    BY <1>7, BlockFields DEF WayOK, TypeOK
  <1>9. PICK i \in DOMAIN screen : Holds(screen[i].list, early)
    BY <1>2, <1>5, <1>6, <1>8 DEF Present
  <1>10. PICK j \in DOMAIN screen[i].list : screen[i].list[j] = early
    BY <1>9 DEF Holds
  <1>11. i \in Nat /\ j \in Nat /\ screen[i].list \in Seq(Command)
    BY ScreenFields, ListFields
  <1>12. ~ (k < i)
    BY <1>7, <1>9, <1>11 DEF WayOK
  <1>13. i = k => j < l
    <2> SUFFICES ASSUME i = k, l = j \/ l < j PROVE FALSE
      BY <1>1, <1>11
    <2>1. l # j
      BY <1>1, <1>2, <1>10
    <2>2. m.n < n
      BY <1>1, <1>2, <1>10, <2>1 DEF WayOK, Ordered
    <2> QED
      BY <1>1, <1>2, <2>2
  <1>14. Earlier(i, j, k, l)
    BY <1>1, <1>11, <1>12, <1>13 DEF Earlier
  <1> QED
    BY <1>10, <1>14 DEF early

\* PrintedInOrder, whoever flushes the shared buffer, and whenever.
THEOREM PrintedInOrderCorrect == Spec => []PrintedInOrder
  BY PrintInvCorrect, ScreenInOrder, PTL

-------------------------------------------------------------------------------
(* A command is in one place *)

\* The places are those of Present, ...
LEMMA PlacesPresent ==
    ASSUME NEW m \in Command
    PROVE  /\ WaitingAt(m) # {} <=> pc[m.client] = "add" /\ m = LastCommand(m.client)
           /\ SharedAt(m) # {} <=> Holds(shared, m)
           /\ OwnAt(m) # {} <=> \E c \in Clients : Holds(own[c], m)
           /\ PrintingAt(m) # {} <=> \E c \in Clients : Unprinted(c) /\ Holds(block[c].list, m)
           /\ ScreenAt(m) # {} <=> \E i \in DOMAIN screen : Holds(screen[i].list, m)
  <1>1. m.client \in Clients
    BY DEF Command
  <1>2. WaitingAt(m) # {} <=> pc[m.client] = "add" /\ m = LastCommand(m.client)
    <2>1. ASSUME NEW p \in WaitingAt(m) PROVE pc[m.client] = "add" /\ m = LastCommand(m.client)
      <3>1. PICK d \in Clients : pc[d] = "add" /\ LastCommand(d) = m
        BY DEF WaitingAt
      <3> QED
        BY <3>1 DEF LastCommand
    <2>2. ASSUME pc[m.client] = "add", m = LastCommand(m.client)
          PROVE  <<"waiting", m.client>> \in WaitingAt(m)
      BY <1>1, <2>2 DEF WaitingAt
    <2> QED
      BY <2>1, <2>2
  <1>3. SharedAt(m) # {} <=> Holds(shared, m)
    BY DEF SharedAt, Holds
  <1>4. OwnAt(m) # {} <=> \E c \in Clients : Holds(own[c], m)
    <2>1. ASSUME NEW p \in OwnAt(m) PROVE \E c \in Clients : Holds(own[c], m)
      BY DEF OwnAt, Holds
    <2>2. ASSUME NEW c \in Clients, NEW i \in DOMAIN own[c], own[c][i] = m
          PROVE  <<"own", c, i>> \in OwnAt(m)
      BY <2>2 DEF OwnAt
    <2> QED
      BY <2>1, <2>2 DEF Holds
  <1>5. PrintingAt(m) # {} <=> \E c \in Clients : Unprinted(c) /\ Holds(block[c].list, m)
    <2>1. ASSUME NEW p \in PrintingAt(m)
          PROVE  \E c \in Clients : Unprinted(c) /\ Holds(block[c].list, m)
      BY DEF PrintingAt, Holds, Unprinted
    <2>2. ASSUME NEW c \in Clients, Unprinted(c),
                 NEW i \in DOMAIN block[c].list, block[c].list[i] = m
          PROVE  <<"printing", c, i>> \in PrintingAt(m)
      BY <2>2 DEF PrintingAt, Unprinted
    <2> QED
      BY <2>1, <2>2 DEF Holds
  <1>6. ScreenAt(m) # {} <=> \E i \in DOMAIN screen : Holds(screen[i].list, m)
    <2>1. ASSUME NEW p \in ScreenAt(m) PROVE \E i \in DOMAIN screen : Holds(screen[i].list, m)
      BY DEF ScreenAt, Holds
    <2>2. ASSUME NEW b \in DOMAIN screen, NEW i \in DOMAIN screen[b].list, screen[b].list[i] = m
          PROVE  <<"screen", b, i>> \in ScreenAt(m)
      BY <2>2 DEF ScreenAt
    <2> QED
      BY <2>1, <2>2 DEF Holds
  <1> QED
    BY <1>2, <1>3, <1>4, <1>5, <1>6

\* ... each kind of them has at most one, ...
LEMMA PlacesOnce ==
    ASSUME PrintInv, NEW m \in Command
    PROVE  /\ \A p, q \in WaitingAt(m) : p = q
           /\ \A p, q \in SharedAt(m) : p = q
           /\ \A p, q \in OwnAt(m) : p = q
           /\ \A p, q \in PrintingAt(m) : p = q
           /\ \A p, q \in ScreenAt(m) : p = q
  <1> USE DEF PrintInv
  <1>1. \A p, q \in WaitingAt(m) : p = q
    BY DEF WaitingAt, LastCommand
  <1>2. \A p, q \in SharedAt(m) : p = q
    <2>1. \A i, j \in DOMAIN shared : shared[i] = m /\ shared[j] = m => i = j
      BY OneEntry DEF TypeOK, WayOK
    <2> QED
      BY <2>1 DEF SharedAt
  <1>3. ASSUME NEW p \in OwnAt(m), NEW q \in OwnAt(m) PROVE p = q
    <2>1. PICK c \in Clients : \E i \in DOMAIN own[c] : own[c][i] = m /\ p = <<"own", c, i>>
      BY DEF OwnAt
    <2>2. PICK d \in Clients : \E j \in DOMAIN own[d] : own[d][j] = m /\ q = <<"own", d, j>>
      BY DEF OwnAt
    <2>3. c = m.client /\ d = m.client
      BY <2>1, <2>2 DEF BlocksOK, ClientOK, OnlyOf
    <2>4. own[c] \in Seq(Command) /\ Ordered(own[c])
      BY DEF TypeOK, WayOK
    <2> QED
      BY <2>1, <2>2, <2>3, <2>4, OneEntry
  <1>4. ASSUME NEW p \in PrintingAt(m), NEW q \in PrintingAt(m) PROVE p = q
    <2>1. PICK c \in Clients : /\ Unprinted(c)
                             /\ \E i \in DOMAIN block[c].list :
                                   block[c].list[i] = m /\ p = <<"printing", c, i>>
      BY DEF PrintingAt, Unprinted
    <2>2. PICK d \in Clients : /\ Unprinted(d)
                             /\ \E j \in DOMAIN block[d].list :
                                   block[d].list[j] = m /\ q = <<"printing", d, j>>
      BY DEF PrintingAt, Unprinted
    <2>3. c = d
      BY <2>1, <2>2 DEF WayOK, Apart
    <2>4. block[c].list \in Seq(Command) /\ Ordered(block[c].list)
      BY BlockFields DEF WayOK
    <2> QED
      BY <2>1, <2>2, <2>3, <2>4, OneEntry
  <1>5. ASSUME NEW p \in ScreenAt(m), NEW q \in ScreenAt(m) PROVE p = q
    <2>1. PICK a \in DOMAIN screen : \E i \in DOMAIN screen[a].list :
             screen[a].list[i] = m /\ p = <<"screen", a, i>>
      BY DEF ScreenAt
    <2>2. PICK b \in DOMAIN screen : \E j \in DOMAIN screen[b].list :
             screen[b].list[j] = m /\ q = <<"screen", b, j>>
      BY DEF ScreenAt
    <2>3. /\ a \in Nat /\ b \in Nat
          /\ screen[a].list \in Seq(Command) /\ screen[b].list \in Seq(Command)
      BY ScreenFields
    <2>4. Holds(screen[a].list, m) /\ Holds(screen[b].list, m)
      BY <2>1, <2>2 DEF Holds
    <2>5. ~ (a < b) /\ ~ (b < a)
      BY <2>3, <2>4, NoCommon DEF WayOK
    <2>6. a = b
      BY <2>3, <2>5
    <2>7. Ordered(screen[a].list)
      BY DEF WayOK
    <2> QED
      BY <2>1, <2>2, <2>3, <2>6, <2>7, OneEntry
  <1> QED
    BY <1>1, <1>2, <1>3, <1>4, <1>5

\* ... and only one kind has any.
LEMMA PlacesApart ==
    ASSUME PrintInv, NEW m \in Command
    PROVE  /\ WaitingAt(m) # {} => SharedAt(m) = {} /\ OwnAt(m) = {} /\ PrintingAt(m) = {}
                                   /\ ScreenAt(m) = {}
           /\ SharedAt(m) # {} => OwnAt(m) = {} /\ PrintingAt(m) = {} /\ ScreenAt(m) = {}
           /\ OwnAt(m) # {} => PrintingAt(m) = {} /\ ScreenAt(m) = {}
           /\ PrintingAt(m) # {} => ScreenAt(m) = {}
  <1> USE DEF PrintInv
  <1>1. shared \in Seq(Command)
    BY DEF TypeOK
  <1>2. ASSUME pc[m.client] = "add", m = LastCommand(m.client)
        PROVE  /\ ~ Holds(shared, m)
               /\ \A c \in Clients : ~ Holds(own[c], m) /\ ~ Holds(block[c].list, m)
               /\ \A i \in DOMAIN screen : ~ Holds(screen[i].list, m)
    BY <1>2, NotSettled DEF WayOK
  <1>3. ASSUME NEW i \in DOMAIN screen, Holds(screen[i].list, m)
        PROVE  /\ ~ Holds(shared, m)
               /\ \A c \in Clients : ~ Holds(own[c], m)
               /\ \A c \in Clients : Unprinted(c) => ~ Holds(block[c].list, m)
    <2>1. screen[i].list \in Seq(Command)
      BY ScreenFields
    <2>2. ~ Holds(shared, m)
      BY <1>1, <1>3, <2>1, NoCommon DEF WayOK
    <2>3. ASSUME NEW c \in Clients PROVE ~ Holds(own[c], m)
      <3>1. own[c] \in Seq(Command) /\ Follows(screen[i].list, own[c])
        BY DEF TypeOK, WayOK
      <3> QED
        BY <1>3, <2>1, <3>1, NoCommon
    <2>4. ASSUME NEW c \in Clients, Unprinted(c) PROVE ~ Holds(block[c].list, m)
      <3>1. block[c].list \in Seq(Command) /\ Follows(screen[i].list, block[c].list)
        BY <2>4, BlockFields DEF WayOK
      <3> QED
        BY <1>3, <2>1, <3>1, NoCommon
    <2> QED
      BY <2>2, <2>3, <2>4
  <1>4. ASSUME NEW c \in Clients, Holds(own[c], m)
        PROVE  /\ ~ Holds(shared, m)
               /\ \A d \in Clients : Unprinted(d) => ~ Holds(block[d].list, m)
    <2>1. c = m.client /\ own[c] # << >>
      BY <1>4, EmptyList DEF BlocksOK, ClientOK, OnlyOf, Holds
    <2>2. Private(c) /\ pc[c] = "idle"
      BY <2>1 DEF BlocksOK, ClientOK, Private
    <2>3. ~ Holds(shared, m)
      BY <2>1, <2>2 DEF BlocksOK, PrivateOK, NoneOf, Holds
    <2>4. ASSUME NEW d \in Clients, Unprinted(d) PROVE ~ Holds(block[d].list, m)
      <3>1. CASE block[d].origin = "none"
        <4>1. block[d].list = << >>
          BY <3>1, BlockFields DEF BlocksOK, ClientOK
        <4> QED
          BY <4>1, EmptyList
      <3>2. CASE block[d].origin = "own"
        <4>1. d # c
          BY <2>2, <3>2 DEF BlocksOK, ClientOK, Printing
        <4> QED
          BY <2>1, <3>2, <4>1 DEF BlocksOK, ClientOK, OnlyOf, Holds
      <3>3. CASE block[d].origin = "shared"
        <4>1. d \in Holder \ {c}
          BY <2>2, <3>3, HolderIs DEF BlocksOK, ClientOK, Printing
        <4> QED
          BY <2>1, <2>2, <2>4, <4>1 DEF BlocksOK, PrivateOK, NoneOf, Holds
      <3> QED
        BY <3>1, <3>2, <3>3, BlockFields
    <2> QED
      BY <2>3, <2>4
  <1>5. ASSUME NEW c \in Clients, Unprinted(c), Holds(block[c].list, m) PROVE ~ Holds(shared, m)
    <2>1. CASE block[c].origin = "own"
      BY <1>5, <2>1 DEF BlocksOK, ClientOK, PrivateOK, Private, OnlyOf, NoneOf, Holds
    <2>2. CASE block[c].origin = "shared"
      <3>1. Follows(block[c].list, shared) /\ block[c].list \in Seq(Command)
        BY <1>5, <2>2, HolderIs, BlockFields DEF WayOK
      <3> QED
        BY <1>1, <1>5, <3>1, NoCommon
    <2>3. CASE block[c].origin = "none"
      <3>1. block[c].list = << >>
        BY <2>3, BlockFields DEF BlocksOK, ClientOK
      <3> QED
        BY <1>5, <3>1, EmptyList
    <2> QED
      BY <2>1, <2>2, <2>3, BlockFields
  <1> QED
    BY <1>2, <1>3, <1>4, <1>5, PlacesPresent

LEMMA OnePlace == PrintInv => CommandInOnePlace
  <1> SUFFICES ASSUME PrintInv, NEW c \in Clients, NEW n \in 1 .. commands[c],
                      NEW m, m = [client |-> c, n |-> n]
               PROVE  IF pc[c] = "gone" THEN Cardinality(Places(m)) <= 1
                                        ELSE Cardinality(Places(m)) = 1
    BY DEF CommandInOnePlace
  <1>1. commands[c] \in Nat
    BY DEF PrintInv, TypeOK
  <1>2. m \in Command /\ m.client = c
    BY <1>1 DEF Command
  <1>3. \A p, q \in Places(m) : p = q
    BY <1>2, PlacesOnce, PlacesApart DEF Places
  <1>4. pc[c] # "gone" => Places(m) # {}
    <2> SUFFICES ASSUME pc[c] # "gone" PROVE Places(m) # {}
      OBVIOUS
    <2>1. commands[c] \in 1 .. commands[c]
      BY <1>1
    <2>2. Present(m)
      BY <2>1 DEF PrintInv, NoneMissing
    <2> QED
      BY <1>2, <2>2, PlacesPresent DEF Present, Places
  <1>5. CASE Places(m) = {}
    BY <1>4, <1>5, FS_EmptySet
  <1>6. CASE Places(m) # {}
    <2>1. PICK p : p \in Places(m)
      BY <1>6
    <2>2. Places(m) = {p}
      BY <1>3, <2>1
    <2>3. Cardinality(Places(m)) = 1
      BY <2>2, FS_Singleton
    <2> QED
      BY <2>3
  <1> QED
    BY <1>5, <1>6

\* CommandInOnePlace, whoever flushes the shared buffer, and whenever.
THEOREM CommandInOnePlaceCorrect == Spec => []CommandInOnePlace
  BY PrintInvCorrect, OnePlace, PTL

-------------------------------------------------------------------------------
(* Clients that connect with one bulk size *)

FewerThanBulk ==
    /\ bulk \in [Clients -> BulkSizes]
    /\ \A c \in Clients : Len(shared) < bulk[c]

LEMMA FewerInit ==
    ASSUME NEW size \in Nat \ {0}, BulkSizes = {size}, Init
    PROVE  FewerThanBulk
  <1>1. bulk \in [Clients -> {size}] /\ shared = << >>
    BY DEF Init
  <1>2. Len(shared) = 0
    BY <1>1
  <1> QED
    BY <1>1, <1>2 DEF FewerThanBulk

LEMMA FewerStep ==
    ASSUME NEW size \in Nat \ {0}, BulkSizes = {size}, TypeOK, FewerThanBulk, [Next]_vars
    PROVE  /\ FewerThanBulk'
           /\ \A c \in Clients : pc[c] = "add" /\ pc'[c] = "idle" => Len(shared') < bulk[c]
  <1>1. \A c \in Clients : bulk[c] = size
    BY DEF FewerThanBulk
  <1>2. shared \in Seq(Command) /\ Len(shared) \in Nat
    BY LenProperties DEF TypeOK
  <1>3. UNCHANGED bulk
    BY DEF Next, Stopped, Connect, Disconnect, Line, NormalCommand, DynamicCommand, BlockStart,
           BlockEnd, Invalid, Receive, Handler, AddCommand, Dump, EnqueueFile, EnqueueStdOut,
           Printed, Printers, StartFile, StartStdOut, WriteFile, WriteStdOut, clientVars, vars
  <1>4. ASSUME NEW c \in Clients, AddCommand(c) PROVE Len(shared') < size
    <2>1. LastCommand(c) \in Command
      BY NextCommandType
    <2>2. Len(Append(shared, LastCommand(c))) = Len(shared) + 1
      BY <1>2, <2>1, AppendProperties
    <2>3. shared' = << >> \/ (shared' = Append(shared, LastCommand(c)) /\ Len(shared') # size)
      BY <1>1, <1>4 DEF AddCommand
    <2>4. Len(shared) < size
      BY <1>1 DEF FewerThanBulk
    <2> QED
      BY <1>2, <2>2, <2>3, <2>4
  <1>5. ASSUME NEW c \in Clients, Dump(c) PROVE Len(shared') < size
    BY <1>5 DEF Dump
  <1>6. \/ \E c \in Clients : AddCommand(c) \/ Dump(c)
        \/ UNCHANGED shared
    BY DEF Next, Stopped, Connect, Disconnect, Line, NormalCommand, DynamicCommand, BlockStart,
           BlockEnd, Invalid, Receive, Handler, EnqueueFile, EnqueueStdOut,
           Printed, Printers, StartFile, StartStdOut, WriteFile, WriteStdOut, clientVars, vars
  <1>7. \A c \in Clients : Len(shared') < bulk[c]
    BY <1>1, <1>4, <1>5, <1>6 DEF FewerThanBulk
  <1> QED
    BY <1>3, <1>7 DEF FewerThanBulk

\* EnoughDataIsDumped, if all clients come with the same bulk size, as those of
\* one server do.  With two sizes it is false, as BulkMixed shows.
THEOREM EnoughDataIsDumpedCorrect ==
    ASSUME NEW size \in Nat \ {0}, BulkSizes = {size}
    PROVE  Spec => EnoughDataIsDumped
  <1> DEFINE Enough == \A c \in Clients : pc[c] = "add" /\ pc'[c] = "idle" => Len(shared') < bulk[c]
  <1>1. Init => FewerThanBulk
    BY FewerInit
  <1>2. PrintInv /\ FewerThanBulk /\ [Next]_vars => FewerThanBulk'
    BY FewerStep DEF PrintInv
  <1>3. PrintInv /\ FewerThanBulk /\ [Next]_vars => [Enough]_vars
    BY FewerStep DEF PrintInv
  <1>4. EnoughDataIsDumped <=> [][Enough]_vars
    BY DEF EnoughDataIsDumped
  <1> QED
    BY <1>1, <1>2, <1>3, <1>4, PrintInvCorrect, PTL DEF Spec

-------------------------------------------------------------------------------
(* Dynamic blocks *)

\* The commands of c from first + 1 to last, and no others.
Consecutive(list, c, first, last) ==
    /\ Len(list) = last - first
    /\ \A j \in DOMAIN list : list[j] = [client |-> c, n |-> first + j]

\* What the parser knows of its input, and that its own buffer has the commands
\* since the block was opened.
InputOK(c) ==
    /\ level[c] = Depth(input[c], Len(input[c]))
    /\ commands[c] = Count(input[c], Len(input[c]), "command")
    /\ level[c] > 0 /\ pc[c] # "gone" =>
         \E i \in DOMAIN input[c] :
            IsOpen(input[c], i) /\ Consecutive(own[c], c, Count(input[c], i, "command"), commands[c])

Mine(c) == {b \in OnScreen \union {block[c]} : b.origin = "own" /\ b.list[1].client = c}
NumbersOf(b) == {b.list[i].n : i \in DOMAIN b.list}

Whole(c) ==
    /\ \A b \in Mine(c) : \A i \in DOMAIN b.list :
          b.list[i] = [client |-> c, n |-> b.list[1].n + i - 1]
    /\ {NumbersOf(b) : b \in Mine(c)} = Enclosed(input[c])

WholeInv ==
    /\ input \in [Clients -> Seq(LineKinds)]
    /\ ~terminated => \A c \in Clients : InputOK(c) /\ Whole(c)

LEMMA ReceiveInput ==
    ASSUME input \in [Clients -> Seq(LineKinds)], NEW c \in Clients, NEW line \in LineKinds,
           Receive(c, line)
    PROVE  /\ input' \in [Clients -> Seq(LineKinds)]
           /\ input'[c] = Append(input[c], line)
           /\ \A d \in Clients : d # c => input'[d] = input[d]
  <1>1. Append(input[c], line) \in Seq(LineKinds)
    BY LineAdded
  <1>2. input' = [input EXCEPT ![c] = Append(input[c], line)]
    BY DEF Receive
  <1> QED
    BY <1>1, <1>2

\* A client whose parser and whose blocks a step leaves alone.
LEMMA ClientWhole ==
    ASSUME NEW c \in Clients, InputOK(c), Whole(c),
           input'[c] = input[c], level'[c] = level[c], commands'[c] = commands[c],
           own'[c] = own[c] \/ pc'[c] = "gone",
           pc[c] = "gone" => pc'[c] = "gone",
           Mine(c)' = Mine(c)
    PROVE  InputOK(c)' /\ Whole(c)'
  <1>1. InputOK(c)'
    BY DEF InputOK
  <1>2. Whole(c)'
    BY DEF Whole, NumbersOf
  <1> QED
    BY <1>1, <1>2

LEMMA MineIs ==
    ASSUME TypeOK, BlocksOK, NEW c \in Clients, NEW d \in Clients
    PROVE  block[c].origin = "own" => (block[c].list[1].client = d <=> c = d)
  <1> SUFFICES ASSUME block[c].origin = "own" PROVE block[c].list[1].client = c
    OBVIOUS
  <1>1. block[c].list # << >> /\ OnlyOf(c, block[c].list)
    BY DEF BlocksOK, ClientOK
  <1>2. 1 \in DOMAIN block[c].list
    BY <1>1, BlockFields, ListFields, EmptySeq
  <1> QED
    BY <1>1, <1>2 DEF OnlyOf

LEMMA GoneStays ==
    ASSUME TypeOK, [Next]_vars
    PROVE  \A c \in Clients : pc[c] = "gone" => pc'[c] = "gone"
  <1>1. ASSUME NEW d \in Clients, Line(d)
        PROVE  pc[d] # "gone" /\ \A c \in Clients : c # d => pc'[c] = pc[c]
    <2>1. pc[d] = "idle"
      BY <1>1 DEF Line, NormalCommand, DynamicCommand, BlockStart, BlockEnd, Invalid, Receive
    <2>2. pc' = pc \/ \E l : pc' = [pc EXCEPT ![d] = l]
      <3>1. CASE NormalCommand(d)
        BY <3>1 DEF NormalCommand
      <3>2. CASE DynamicCommand(d) \/ Invalid(d)
        BY <3>2 DEF DynamicCommand, Invalid
      <3>3. CASE BlockStart(d)
        BY <3>3 DEF BlockStart
      <3>4. CASE BlockEnd(d)
        BY <3>4 DEF BlockEnd
      <3> QED
        BY <1>1, <3>1, <3>2, <3>3, <3>4 DEF Line
    <2> QED
      BY <2>1, <2>2 DEF TypeOK
  <1>2. ASSUME NEW d \in Clients, Handler(d) \/ Connect(d) \/ Disconnect(d)
        PROVE  pc[d] # "gone" /\ \A c \in Clients : c # d => pc'[c] = pc[c]
    BY <1>2 DEF Handler, Connect, Disconnect, AddCommand, Dump, EnqueueFile, EnqueueStdOut,
                Printed, TypeOK
  <1>3. CASE Printers \/ Stopped \/ UNCHANGED vars
    BY <1>3 DEF Printers, StartFile, StartStdOut, WriteFile, WriteStdOut, Stopped, clientVars, vars
  <1> QED
    BY <1>1, <1>2, <1>3 DEF Next

\* Steps that no parser takes: on the way through the accumulator, the pools and
\* the printers the blocks of a client stay the same ones.
LEMMA PrintingWhole ==
    ASSUME PrintInv, WholeInv, ~terminated, [Next]_vars,
           UNCHANGED <<bulk, input, commands, level, terminated>>,
           \A c \in Clients : own'[c] = own[c] \/ pc'[c] = "gone",
           \A c \in Clients : Mine(c)' = Mine(c)
    PROVE  WholeInv'
  <1>1. \A c \in Clients : pc[c] = "gone" => pc'[c] = "gone"
    BY GoneStays DEF PrintInv
  <1>2. ASSUME NEW c \in Clients PROVE InputOK(c)' /\ Whole(c)'
    BY <1>1, ClientWhole DEF WholeInv
  <1> QED
    BY <1>2 DEF WholeInv

LEMMA HandlerWhole ==
    ASSUME PrintInv, WholeInv, ~terminated, [Next]_vars, NEW c \in Clients,
           Handler(c) \/ Connect(c) \/ Disconnect(c)
    PROVE  WholeInv'
  <1>1. /\ UNCHANGED <<bulk, input, commands, level, terminated, screen>>
        /\ \A d \in Clients : own'[d] = own[d] \/ pc'[d] = "gone"
    BY DEF Handler, Connect, Disconnect, AddCommand, Dump, EnqueueFile, EnqueueStdOut,
           Printed, PrintInv, TypeOK
  <1>2. \A d \in Clients : d # c => block'[d] = block[d]
    BY DEF Handler, Connect, Disconnect, AddCommand, Dump, EnqueueFile, EnqueueStdOut,
           Printed, PrintInv, TypeOK
  <1>3. \/ block' = block
        \/ block[c].origin # "own" /\ block'[c].origin # "own"
        \/ block[c] \in OnScreen /\ block'[c].origin # "own"
    <2>1. CASE AddCommand(c) \/ Dump(c)
      <3>1. block[c].origin = "none"
        BY <2>1 DEF AddCommand, Dump, PrintInv, BlocksOK, ClientOK, Printing
      <3>2. block' = block \/ \E l : block' = [block EXCEPT ![c] = Block("shared", l)]
        BY <2>1 DEF AddCommand, Dump
      <3> QED
        BY <3>1, <3>2 DEF Block, PrintInv, TypeOK
    <2>2. CASE Printed(c)
      BY <2>2 DEF Printed, PrintInv, TypeOK, BlocksOK, PrintersOK, NoBlock, Block
    <2>3. CASE EnqueueFile(c) \/ EnqueueStdOut(c) \/ Connect(c) \/ Disconnect(c)
      BY <2>3 DEF EnqueueFile, EnqueueStdOut, Connect, Disconnect
    <2> QED
      BY <2>1, <2>2, <2>3 DEF Handler
  <1>4. ASSUME NEW d \in Clients PROVE Mine(d)' = Mine(d)
    <2>1. OnScreen' = OnScreen
      BY <1>1 DEF OnScreen
    <2>2. CASE d # c \/ block' = block
      BY <1>2, <2>1, <2>2 DEF Mine
    <2>3. CASE d = c /\ block'[c].origin # "own" /\ (block[c].origin # "own" \/ block[c] \in OnScreen)
      BY <2>1, <2>3 DEF Mine
    <2> QED
      BY <1>3, <2>2, <2>3
  <1> QED
    BY <1>1, <1>4, PrintingWhole

LEMMA WriteWhole ==
    ASSUME PrintInv, WholeInv, ~terminated, [Next]_vars, NEW b \in outRunning, WriteStdOut(b)
    PROVE  WholeInv'
  <1>1. PICK c \in Clients : b = block[c]
    BY DEF PrintInv, BlocksOK, PrintersOK
  <1>2. UNCHANGED <<bulk, input, commands, level, terminated, pc, own, block>>
    BY DEF WriteStdOut, clientVars
  <1>3. OnScreen' = OnScreen \union {b}
    <2>1. screen' = Append(screen, b) /\ b \in Blocks /\ screen \in Seq(Blocks)
      BY <1>1 DEF WriteStdOut, PrintInv, TypeOK
    <2>2. /\ DOMAIN screen = 1 .. Len(screen) /\ Len(screen) \in Nat
          /\ DOMAIN screen' = 1 .. Len(screen) + 1
          /\ screen'[Len(screen) + 1] = b
          /\ \A i \in DOMAIN screen : screen'[i] = screen[i]
      BY <2>1, AppendProperties, LenProperties
    <2>3. DOMAIN screen' = DOMAIN screen \union {Len(screen) + 1}
      BY <2>2
    <2> QED
      BY <2>2, <2>3 DEF OnScreen
  <1>4. ASSUME NEW d \in Clients PROVE Mine(d)' = Mine(d)
    <2>1. CASE d = c
      BY <1>1, <1>2, <1>3, <2>1 DEF Mine
    <2>2. CASE d # c
      BY <1>1, <1>2, <1>3, <2>2, MineIs DEF Mine, PrintInv
    <2> QED
      BY <2>1, <2>2
  <1> QED
    BY <1>2, <1>4, PrintingWhole

\* The brace that closes a block gives its commands to the printers.
LEMMA BlockEndWhole ==
    ASSUME PrintInv, WholeInv, ~terminated, NEW c \in Clients, BlockEnd(c)
    PROVE  WholeInv'
  <1> DEFINE list == input[c]
             N == Len(list)
             longer == Append(list, "close")
  <1>1. /\ list \in Seq(LineKinds) /\ InputOK(c) /\ Whole(c)
        /\ level[c] = Depth(list, N) /\ level[c] \in Nat
        /\ commands[c] = Count(list, N, "command") /\ commands[c] \in Nat
        /\ N \in Nat /\ DOMAIN list = 1 .. N
    BY LenProperties DEF WholeInv, InputOK, PrintInv, TypeOK
  <1>2. /\ pc[c] = "idle" /\ level[c] > 0 /\ Receive(c, "close")
        /\ UNCHANGED <<commands, terminated>>
        /\ level' = [level EXCEPT ![c] = @ - 1]
    BY DEF BlockEnd, Receive
  <1>3. block[c].origin # "own" /\ Mine(c) = {b \in OnScreen : b.origin = "own" /\ b.list[1].client = c}
    BY <1>2 DEF PrintInv, BlocksOK, ClientOK, Printing, Mine
  <1>4. "close" \in LineKinds
    BY DEF LineKinds
  <1>5. /\ input' \in [Clients -> Seq(LineKinds)]
        /\ input'[c] = longer
        /\ \A d \in Clients : d # c => input'[d] = input[d]
    BY <1>2, <1>4, ReceiveInput DEF WholeInv
  <1>6. OnScreen' = OnScreen
    BY <1>2 DEF Receive, OnScreen
  <1>7. /\ Count(longer, N + 1, "command") = commands[c] /\ Len(longer) = N + 1
        /\ Depth(longer, N + 1) = level[c] - 1 /\ DOMAIN longer = 1 .. N + 1
    BY <1>1, <1>4, LineAdded
  <1>8. PICK i \in DOMAIN list :
           IsOpen(list, i) /\ Consecutive(own[c], c, Count(list, i, "command"), commands[c])
    BY <1>1, <1>2 DEF InputOK
  <1>9. level'[c] = level[c] - 1 /\ \A d \in Clients : d # c => level'[d] = level[d]
    BY <1>2 DEF PrintInv, TypeOK
  <1>10. \A d \in Clients : d # c => /\ own'[d] = own[d] /\ pc'[d] = pc[d] /\ block'[d] = block[d]
    <2>1. \/ /\ block' = [block EXCEPT ![c] = Block("own", own[c])]
             /\ own' = [own EXCEPT ![c] = << >>]
             /\ pc' = [pc EXCEPT ![c] = "file"]
          \/ UNCHANGED <<block, own, pc>>
      BY DEF BlockEnd
    <2> QED
      BY <2>1 DEF PrintInv, TypeOK
  <1> HIDE DEF longer, N
  <1>11. InputOK(c)'
    <2>1. CASE level[c] = 1
      BY <1>2, <1>5, <1>7, <1>9, <2>1 DEF InputOK
    <2>2. CASE level[c] > 1
      <3>1. own'[c] = own[c]
        BY <2>2 DEF BlockEnd
      <3>2. Depth(longer, N + 1) > 0
        BY <1>1, <1>7, <2>2
      <3>3. /\ IsOpen(longer, i)
            /\ Count(longer, i, "command") = Count(list, i, "command")
        BY <1>1, <1>4, <1>8, <3>2, StillOpen DEF longer, N
      <3>4. i \in DOMAIN longer
        BY <1>1, <1>7
      <3> QED
        BY <1>2, <1>5, <1>7, <1>8, <1>9, <3>1, <3>3, <3>4 DEF InputOK
    <2> QED
      BY <1>1, <1>2, <2>1, <2>2
  <1>12. Whole(c)'
    <2>1. CASE level[c] # 1
      <3>1. Mine(c)' = Mine(c)
        BY <1>6, <2>1 DEF Mine, BlockEnd
      <3>2. Enclosed(longer) = Enclosed(list)
        BY <1>1, <1>4, <2>1, EnclosedKept DEF longer, N
      <3> QED
        BY <1>1, <1>5, <3>1, <3>2 DEF Whole, NumbersOf
    <2>2. CASE level[c] = 1
      <3> DEFINE new == {own[c][j].n : j \in DOMAIN own[c]}
      <3>1. PICK first \in Nat : first = Count(list, i, "command")
        <4>1. i \in Nat
          BY <1>1
        <4> QED
          BY <4>1, CountType
      <3>2. /\ own[c] \in Seq(Command) /\ DOMAIN own[c] = 1 .. Len(own[c]) /\ Len(own[c]) \in Nat
            /\ Len(own[c]) = commands[c] - first
        BY <1>8, <3>1, ListFields DEF Consecutive, PrintInv, TypeOK
      <3>7. \A j \in DOMAIN own[c] : own[c][j] = [client |-> c, n |-> first + j]
        BY <1>8, <3>1 DEF Consecutive
      <3>3. new = first + 1 .. commands[c]
        <4>1. ASSUME NEW j \in DOMAIN own[c]
              PROVE  own[c][j].n = first + j /\ first + j \in first + 1 .. commands[c]
          <5>1. j \in Nat /\ 1 <= j /\ j <= commands[c] - first
            BY <3>2
          <5>2. own[c][j].n = first + j
            <6>1. own[c][j] = [client |-> c, n |-> first + j]
              BY <3>7
            <6>2. PICK m : m = first + j
              OBVIOUS
            <6>3. own[c][j] = [client |-> c, n |-> m]
              BY <6>1, <6>2
            <6>4. own[c][j].n = m
              BY <6>3
            <6> QED
              BY <6>2, <6>4
          <5> QED
            BY <1>1, <5>1, <5>2
        <4>2. \A m \in first + 1 .. commands[c] : m - first \in DOMAIN own[c] /\ first + (m - first) = m
          BY <1>1, <3>2
        <4> QED
          BY <4>1, <4>2
      <3>4. Enclosed(longer) = Enclosed(list) \union ({new} \ {{}})
        BY <1>1, <1>8, <2>2, <3>1, <3>3, EnclosedAdded DEF longer, N
      <3>5. CASE own[c] = << >>
        <4>1. new = {}
          BY <3>5
        <4>2. Mine(c)' = Mine(c)
          BY <1>6, <3>5 DEF Mine, BlockEnd
        <4> QED
          BY <1>1, <1>5, <3>4, <4>1, <4>2 DEF Whole, NumbersOf
      <3>6. CASE own[c] # << >>
        <4> DEFINE given == Block("own", own[c])
        <4>1. block'[c] = given
          BY <2>2, <3>6 DEF BlockEnd, PrintInv, TypeOK
        <4>2. 1 \in DOMAIN own[c]
          BY <3>2, <3>6, EmptySeq
        <4>3. given.origin = "own" /\ given.list = own[c] /\ given.list[1] = [client |-> c, n |-> first + 1]
          BY <3>7, <4>2 DEF Block
        <4>4. NumbersOf(given) = new
          BY <4>3 DEF NumbersOf
        <4>5. new # {}
          BY <4>2
        <4> HIDE DEF given, new
        <4>6. Mine(c)' = Mine(c) \union {given}
          BY <1>3, <1>6, <4>1, <4>3 DEF Mine
        <4>7. \A j \in DOMAIN given.list :
                 given.list[j] = [client |-> c, n |-> given.list[1].n + j - 1]
          <5> TAKE j \in DOMAIN given.list
          <5>1. given.list[1].n + j - 1 = first + j
            BY <3>2, <4>3
          <5> QED
            BY <3>7, <4>3, <5>1
        <4>8. {NumbersOf(b) : b \in Mine(c) \union {given}} = Enclosed(longer)
          BY <1>1, <3>4, <4>4, <4>5 DEF Whole
        <4> QED
          BY <1>1, <1>5, <4>6, <4>7, <4>8 DEF Whole, NumbersOf
      <3> QED
        BY <3>5, <3>6
    <2> QED
      BY <2>1, <2>2
  <1>13. ASSUME NEW d \in Clients, d # c PROVE InputOK(d)' /\ Whole(d)'
    <2>1. Mine(d)' = Mine(d)
      BY <1>6, <1>10, <1>13 DEF Mine
    <2> QED
      BY <1>2, <1>5, <1>9, <1>10, <1>13, <2>1, ClientWhole DEF WholeInv
  <1> QED
    BY <1>5, <1>11, <1>12, <1>13 DEF WholeInv

\* What a line does to the parser of its client, and to its blocks.
LEMMA LineWhole ==
    ASSUME PrintInv, WholeInv, ~terminated, NEW c \in Clients, Line(c)
    PROVE  WholeInv'
  <1> DEFINE list == input[c]
             N == Len(list)
             longer(line) == Append(list, line)
  <1>1. /\ list \in Seq(LineKinds) /\ InputOK(c) /\ Whole(c)
        /\ level[c] = Depth(list, N) /\ level[c] \in Nat
        /\ commands[c] = Count(list, N, "command") /\ commands[c] \in Nat
        /\ N \in Nat
    BY LenProperties DEF WholeInv, InputOK, PrintInv, TypeOK
  <1>2. pc[c] = "idle"
    BY DEF Line, NormalCommand, DynamicCommand, BlockStart, BlockEnd, Invalid, Receive
  <1>3. block[c].origin # "own" /\ Mine(c) = {b \in OnScreen : b.origin = "own" /\ b.list[1].client = c}
    BY <1>2 DEF PrintInv, BlocksOK, ClientOK, Printing, Mine
  <1>4. "command" \in LineKinds /\ "open" \in LineKinds /\ "close" \in LineKinds /\ "" \in LineKinds
    BY DEF LineKinds
  <1>13. /\ Count(Append(list, "command"), N + 1, "command") = commands[c] + 1
         /\ Depth(Append(list, "command"), N + 1) = level[c]
         /\ Count(Append(list, "open"), N + 1, "command") = commands[c]
         /\ Depth(Append(list, "open"), N + 1) = level[c] + 1
         /\ DOMAIN Append(list, "open") = 1 .. N + 1
    BY <1>1, <1>4, LineCounts, LineAdded
  <1>5. ASSUME NEW line \in LineKinds, Receive(c, line)
        PROVE  /\ input' \in [Clients -> Seq(LineKinds)]
               /\ input'[c] = longer(line) /\ Len(longer(line)) = N + 1
               /\ \A d \in Clients : d # c => input'[d] = input[d]
               /\ OnScreen' = OnScreen
    <2>1. screen' = screen
      BY <1>5 DEF Receive
    <2>2. Len(longer(line)) = N + 1
      BY <1>1, LineAdded
    <2> QED
      BY <1>5, <2>1, <2>2, ReceiveInput DEF WholeInv, OnScreen
  <1>6. ASSUME NEW line \in LineKinds, Receive(c, line), terminated' = terminated,
               \A d \in Clients : d # c =>
                  /\ level'[d] = level[d] /\ commands'[d] = commands[d] /\ own'[d] = own[d]
                  /\ pc'[d] = pc[d] /\ block'[d] = block[d],
               InputOK(c)', Whole(c)'
        PROVE  WholeInv'
    <2>1. ASSUME NEW d \in Clients, d # c PROVE InputOK(d)' /\ Whole(d)'
      <3>1. Mine(d)' = Mine(d)
        BY <1>5, <1>6, <2>1 DEF Mine
      <3> QED
        BY <1>5, <1>6, <2>1, <3>1, ClientWhole DEF WholeInv
    <2> QED
      BY <1>5, <1>6, <2>1 DEF WholeInv
  <1>7. ASSUME NEW line \in LineKinds, Receive(c, line), UNCHANGED block,
               line # "close" \/ Depth(list, N) # 1
        PROVE  Whole(c)'
    <2>1. Mine(c)' = Mine(c)
      BY <1>5, <1>7 DEF Mine
    <2>2. Enclosed(input'[c]) = Enclosed(list)
      BY <1>1, <1>5, <1>7, EnclosedKept
    <2> QED
      BY <1>1, <2>1, <2>2 DEF Whole, NumbersOf
  <1>8. CASE NormalCommand(c)
    <2>1. /\ Receive(c, "command") /\ UNCHANGED <<level, own, block, terminated>>
          /\ commands' = [commands EXCEPT ![c] = @ + 1] /\ pc' = [pc EXCEPT ![c] = "add"]
          /\ level[c] = 0
      BY <1>8 DEF NormalCommand
    <2>2. /\ Count(longer("command"), N + 1, "command") = commands[c] + 1
          /\ Depth(longer("command"), N + 1) = level[c]
      BY <1>13
    <2>3. InputOK(c)'
      <3>1. /\ input'[c] = longer("command") /\ Len(longer("command")) = N + 1
            /\ level' = level /\ commands'[c] = commands[c] + 1
        BY <1>4, <1>5, <2>1 DEF PrintInv, TypeOK
      <3> HIDE DEF longer
      <3> QED
        BY <2>1, <2>2, <3>1 DEF InputOK
    <2>4. Whole(c)'
      BY <1>4, <1>7, <2>1
    <2> QED
      BY <1>4, <1>6, <2>1, <2>3, <2>4 DEF PrintInv, TypeOK
  <1>9. ASSUME NEW line \in LineKinds, NEW i \in DOMAIN list, IsOpen(list, i),
               Depth(longer(line), N + 1) > 0
        PROVE  /\ i \in DOMAIN longer(line) /\ IsOpen(longer(line), i)
               /\ Count(longer(line), i, "command") = Count(list, i, "command")
    BY <1>1, <1>9, StillOpen, LineAdded
  <1>10. CASE DynamicCommand(c)
    <2>1. /\ Receive(c, "command") /\ UNCHANGED <<pc, level, block, terminated>>
          /\ commands' = [commands EXCEPT ![c] = @ + 1]
          /\ own' = [own EXCEPT ![c] = Append(@, NextCommand(c))]
          /\ level[c] > 0
      BY <1>10 DEF DynamicCommand
    <2>2. /\ Count(longer("command"), N + 1, "command") = commands[c] + 1
          /\ Depth(longer("command"), N + 1) = level[c]
      BY <1>13
    <2>3. PICK i \in DOMAIN list :
             IsOpen(list, i) /\ Consecutive(own[c], c, Count(list, i, "command"), commands[c])
      BY <1>1, <1>2, <2>1 DEF InputOK
    <2>4. PICK first \in Nat : first = Count(list, i, "command")
      <3>1. i \in Nat
        BY <1>1, LenProperties
      <3> QED
        BY <3>1, CountType
    <2>5. Consecutive(Append(own[c], NextCommand(c)), c, first, commands[c] + 1)
      <3>1. own[c] \in Seq(Command) /\ NextCommand(c) = [client |-> c, n |-> commands[c] + 1]
        BY DEF PrintInv, TypeOK, NextCommand
      <3>2. NextCommand(c) \in Command
        BY NextCommandType DEF PrintInv
      <3>3. /\ Len(Append(own[c], NextCommand(c))) = Len(own[c]) + 1 /\ Len(own[c]) \in Nat
            /\ \A j \in DOMAIN own[c] : Append(own[c], NextCommand(c))[j] = own[c][j]
            /\ Append(own[c], NextCommand(c))[Len(own[c]) + 1] = NextCommand(c)
            /\ \A j \in DOMAIN Append(own[c], NextCommand(c)) :
                  j \in DOMAIN own[c] \/ j = Len(own[c]) + 1
        BY <3>1, <3>2, ListAppend, ListFields, AppendProperties
      <3>4. Len(own[c]) = commands[c] - first
        BY <2>3, <2>4 DEF Consecutive
      <3>5. first + (Len(own[c]) + 1) = commands[c] + 1
        BY <1>1, <3>3, <3>4
      <3>6. \A j \in DOMAIN Append(own[c], NextCommand(c)) :
               Append(own[c], NextCommand(c))[j] = [client |-> c, n |-> first + j]
        BY <2>3, <2>4, <3>1, <3>3, <3>5 DEF Consecutive
      <3>7. Len(Append(own[c], NextCommand(c))) = (commands[c] + 1) - first
        BY <1>1, <2>4, <3>3, <3>4
      <3> QED
        BY <3>6, <3>7 DEF Consecutive
    <2>6. InputOK(c)'
      <3>1. /\ i \in DOMAIN longer("command") /\ IsOpen(longer("command"), i)
            /\ Count(longer("command"), i, "command") = first
        BY <1>1, <1>4, <1>9, <2>1, <2>2, <2>3, <2>4
      <3>2. /\ input'[c] = longer("command") /\ Len(longer("command")) = N + 1
            /\ commands'[c] = commands[c] + 1 /\ own'[c] = Append(own[c], NextCommand(c))
        BY <1>4, <1>5, <2>1 DEF PrintInv, TypeOK
      <3> HIDE DEF longer
      <3> QED
        BY <1>1, <2>1, <2>2, <2>5, <3>1, <3>2 DEF InputOK
    <2>7. Whole(c)'
      BY <1>4, <1>7, <2>1
    <2> QED
      BY <1>4, <1>6, <2>1, <2>6, <2>7 DEF PrintInv, TypeOK
  <1>11. CASE BlockStart(c)
    <2>1. /\ Receive(c, "open") /\ UNCHANGED <<commands, own, block, terminated>>
          /\ level' = [level EXCEPT ![c] = @ + 1]
          /\ pc' = IF level[c] = 0 THEN [pc EXCEPT ![c] = "dump"] ELSE pc
      BY <1>11 DEF BlockStart
    <2>2. /\ Count(longer("open"), N + 1, "command") = commands[c]
          /\ Depth(longer("open"), N + 1) = level[c] + 1
          /\ DOMAIN longer("open") = 1 .. N + 1
      BY <1>13
    <2>3. \E i \in DOMAIN longer("open") :
             /\ IsOpen(longer("open"), i)
             /\ Consecutive(own[c], c, Count(longer("open"), i, "command"), commands[c])
      <3>1. CASE level[c] = 0
        <4>1. IsOpen(longer("open"), N + 1)
          BY <1>1, <3>1, OpensNow
        <4>4. N + 1 \in DOMAIN longer("open")
          BY <1>1, <2>2
        <4>2. own[c] = << >>
          BY <3>1 DEF PrintInv, BlocksOK, ClientOK
        <4>3. Consecutive(own[c], c, commands[c], commands[c])
          BY <1>1, <4>2 DEF Consecutive
        <4> QED
          BY <2>2, <4>1, <4>3, <4>4
      <3>2. CASE level[c] > 0
        <4>1. PICK i \in DOMAIN list :
                 IsOpen(list, i) /\ Consecutive(own[c], c, Count(list, i, "command"), commands[c])
          BY <1>1, <1>2, <3>2 DEF InputOK
        <4>2. /\ i \in DOMAIN longer("open") /\ IsOpen(longer("open"), i)
              /\ Count(longer("open"), i, "command") = Count(list, i, "command")
          <5>1. Depth(longer("open"), N + 1) > 0
            BY <1>1, <2>2
          <5> QED
            BY <1>4, <1>9, <4>1, <5>1
        <4> QED
          BY <4>1, <4>2
      <3> QED
        BY <1>1, <3>1, <3>2
    <2>4. InputOK(c)'
      <3>1. /\ input'[c] = longer("open") /\ Len(longer("open")) = N + 1
            /\ level'[c] = level[c] + 1 /\ commands' = commands /\ own' = own
        BY <1>4, <1>5, <2>1 DEF PrintInv, TypeOK
      <3> HIDE DEF longer
      <3> QED
        BY <2>2, <2>3, <3>1 DEF InputOK
    <2>5. Whole(c)'
      <3>1. "open" # "close"
        OBVIOUS
      <3> QED
        BY <1>4, <1>7, <2>1, <3>1
    <2> QED
      BY <1>4, <1>6, <2>1, <2>4, <2>5 DEF PrintInv, TypeOK
  <1>12. CASE Invalid(c)
    <2>1. terminated' = TRUE /\ (Receive(c, "close") \/ Receive(c, ""))
      BY <1>12 DEF Invalid
    <2> QED
      BY <1>4, <1>5, <2>1 DEF WholeInv
  <1> QED
    BY <1>8, <1>10, <1>11, <1>12, BlockEndWhole DEF Line

LEMMA InitWhole == Init => WholeInv
  <1> SUFFICES ASSUME Init PROVE WholeInv
    OBVIOUS
  <1>1. input \in [Clients -> Seq(LineKinds)]
    BY EmptySeq DEF Init
  <1>2. ASSUME NEW c \in Clients PROVE InputOK(c) /\ Whole(c)
    <2>1. /\ input[c] = << >> /\ level[c] = 0 /\ commands[c] = 0 /\ block[c] = NoBlock
          /\ OnScreen = {} /\ Len(<< >>) = 0 /\ DOMAIN << >> = {}
      BY <1>2 DEF Init, OnScreen
    <2>2. \A line : Count(<< >>, 0, line) = 0
      BY CountStep
    <2>3. Depth(<< >>, 0) = 0
      BY <2>2 DEF Depth
    <2>4. InputOK(c)
      BY <2>1, <2>2, <2>3 DEF InputOK
    <2>5. Mine(c) = {}
      BY <2>1 DEF Mine, NoBlock, Block
    <2>6. Enclosed(<< >>) = {}
      BY <2>1 DEF Enclosed, OuterPairs
    <2>7. Whole(c)
      BY <2>1, <2>5, <2>6 DEF Whole
    <2> QED
      BY <2>4, <2>7
  <1> QED
    BY <1>1, <1>2 DEF WholeInv

LEMMA WholeStep == PrintInv /\ WholeInv /\ [Next]_vars => WholeInv'
  <1> SUFFICES ASSUME PrintInv, WholeInv, [Next]_vars PROVE WholeInv'
    OBVIOUS
  <1>1. ASSUME NEW c \in Clients, ~terminated, Line(c) PROVE WholeInv'
    BY <1>1, LineWhole
  <1>2. ASSUME NEW c \in Clients, ~terminated, Handler(c) \/ Connect(c) \/ Disconnect(c)
        PROVE  WholeInv'
    BY <1>2, HandlerWhole
  <1>3. ASSUME ~terminated, Printers PROVE WholeInv'
    <2>1. ASSUME NEW b \in outRunning, WriteStdOut(b) PROVE WholeInv'
      BY <1>3, <2>1, WriteWhole
    <2>2. CASE StartFile \/ StartStdOut \/ \E b \in fileRunning : WriteFile(b)
      <3>1. UNCHANGED <<pc, bulk, input, commands, level, terminated, own, block, screen>>
        BY <2>2 DEF StartFile, StartStdOut, WriteFile, clientVars
      <3>2. \A c \in Clients : Mine(c)' = Mine(c)
        BY <3>1 DEF Mine, OnScreen
      <3> QED
        BY <1>3, <3>1, <3>2, PrintingWhole
    <2> QED
      BY <1>3, <2>1, <2>2 DEF Printers
  <1>4. CASE UNCHANGED vars
    <2>1. UNCHANGED <<pc, bulk, input, commands, level, terminated, own, block, screen>>
      BY <1>4 DEF vars
    <2>2. \A c \in Clients : Mine(c)' = Mine(c)
      BY <2>1 DEF Mine, OnScreen
    <2>3. CASE terminated
      BY <2>1, <2>3 DEF WholeInv
    <2>4. CASE ~terminated
      BY <2>1, <2>2, <2>4, PrintingWhole
    <2> QED
      BY <2>3, <2>4
  <1> QED
    BY <1>1, <1>2, <1>3, <1>4 DEF Next, Stopped

LEMMA WholeBlocks == WholeInv => DynamicBlocksWhole
  BY DEF WholeInv, DynamicBlocksWhole, Whole, Mine, NumbersOf, Enclosed

\* A dynamic block is one block on the screen, with all commands between its
\* braces, those between inner braces included, and none of another client;
\* whatever the others send meanwhile and in whichever order things are printed.
THEOREM DynamicBlocksWholeCorrect == Spec => []DynamicBlocksWhole
  <1> QED
    BY InitWhole, WholeStep, WholeBlocks, PrintInvCorrect, PTL DEF Spec
===============================================================================
