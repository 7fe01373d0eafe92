---------------------------- MODULE DatabaseProofs ----------------------------
(***************************************************************************)
(* Theorems about Database, for any requests, tables, rows and commands,   *)
(* and about its end (DatabaseLifetime).                                   *)
(***************************************************************************)
EXTENDS DatabaseLifetime, SequenceTheorems, WellFoundedInduction, TLAPS

-------------------------------------------------------------------------------
(* Least and greatest elements *)

LEMMA LeastExists ==
    ASSUME NEW S \in SUBSET Nat, S # {}
    PROVE  \E i \in S : \A j \in S : i <= j
  <1>1. PICK i \in S : \A j \in S : ~ (<<j, i>> \in OpToRel(<, Nat))
    BY NatLessThanWellFounded, WFMin
  <1>2. \A j \in S : ~ (j < i)
    BY <1>1 DEF OpToRel
  <1> QED
    BY <1>2

LEMMA GreatestExists ==
    ASSUME NEW n \in Nat, NEW S \in SUBSET (1 .. n), S # {}
    PROVE  \E i \in S : \A j \in S : j <= i
  <1> DEFINE D == {m \in Nat : n - m \in S}
  <1>1. D # {}
    <2>1. PICK i \in S : TRUE
      OBVIOUS
    <2>2. n - i \in Nat /\ n - (n - i) = i
      BY <2>1
    <2> QED
      BY <2>1, <2>2
  <1>2. PICK m \in D : \A k \in D : m <= k
    BY <1>1, LeastExists
  <1>3. n - m \in S
    OBVIOUS
  <1>4. ASSUME NEW j \in S PROVE j <= n - m
    <2>1. n - j \in Nat /\ n - (n - j) = j
      OBVIOUS
    <2>2. n - j \in D
      BY <2>1
    <2>3. m <= n - j
      BY <1>2, <2>2
    <2> QED
      BY <2>1, <2>3
  <1> QED
    BY <1>3, <1>4

\* The row a scan visits next is one it has still to visit.
LEMMA NextRowInTodo ==
    ASSUME TypeOK, NEW r \in Requests, todo[r] # {}
    PROVE  /\ NextRow(r) \in todo[r]
           /\ NextRow(r) \in RowIds
           /\ \A j \in todo[r] : NextRow(r) <= j
  <1>1. todo[r] \in SUBSET Nat /\ todo[r] \subseteq RowIds
    BY RowIdsAssumption DEF TypeOK
  <1>2. \E k \in todo[r] : \A j \in todo[r] : k <= j
    BY <1>1, LeastExists
  <1>3. NextRow(r) \in todo[r] /\ \A j \in todo[r] : NextRow(r) <= j
    BY <1>2 DEF NextRow
  <1> QED
    BY <1>1, <1>3

-------------------------------------------------------------------------------
(* GetVersion *)

\* GetVersion returns nothing, or the payload of the last version passed.
LEMMA GetVersionProperties ==
    ASSUME NEW list \in Seq(Version), NEW n \in Nat
    PROVE  \/ Passed(list, n) = {} /\ GetVersion(list, n) = NULL
           \/ \E i \in Passed(list, n) : /\ \A j \in Passed(list, n) : j <= i
                                         /\ GetVersion(list, n) = list[i].val
  <1> DEFINE passed == Passed(list, n)
  <1>1. Len(list) \in Nat /\ passed \in SUBSET (1 .. Len(list))
    BY LenProperties DEF Passed
  <1>2. CASE passed = {}
    BY <1>2 DEF GetVersion
  <1>3. CASE passed # {}
    <2>1. \E i \in passed : \A j \in passed : j <= i
      BY <1>1, <1>3, GreatestExists
    <2> DEFINE last == CHOOSE i \in passed : \A j \in passed : j <= i
    <2>2. last \in passed /\ \A j \in passed : j <= last
      BY <2>1
    <2>3. GetVersion(list, n) = list[last].val
      BY <1>3 DEF GetVersion
    <2> QED
      BY <2>2, <2>3
  <1> QED
    BY <1>2, <1>3

LEMMA VersionFields ==
    ASSUME NEW list \in Seq(Version)
    PROVE  /\ DOMAIN list = 1 .. Len(list) /\ Len(list) \in Nat
           /\ \A i \in DOMAIN list : list[i].tx \in Nat /\ list[i].val \in Values
  <1>1. DOMAIN list = 1 .. Len(list) /\ Len(list) \in Nat
    BY LenProperties
  <1>2. ASSUME NEW i \in DOMAIN list PROVE list[i].tx \in Nat /\ list[i].val \in Values
    <2>1. list[i] \in Version
      BY <1>1, ElementOfSeq
    <2> QED
      BY <2>1 DEF Version
  <1> QED
    BY <1>1, <1>2

LEMMA GetVersionType ==
    ASSUME NEW list \in Seq(Version), NEW n \in Nat
    PROVE  GetVersion(list, n) \in Values
  <1>1. \A i \in DOMAIN list : list[i].val \in Values
    BY VersionFields
  <1>2. Passed(list, n) \subseteq DOMAIN list
    BY DEF Passed
  <1> QED
    BY <1>1, <1>2, GetVersionProperties DEF Values

\* On a list in the order of the ids the scan finds the version with the
\* largest id that is not larger than that of the transaction.
LEMMA SortedMostRecent ==
    ASSUME NEW list \in Seq(Version), NEW n \in Nat,
           \A i, j \in DOMAIN list : i < j => list[i].tx < list[j].tx
    PROVE  LET visible == {i \in DOMAIN list : list[i].tx <= n}
           IN  IF visible = {} THEN GetVersion(list, n) = NULL
               ELSE \E i \in visible : /\ \A j \in visible : list[j].tx <= list[i].tx
                                       /\ GetVersion(list, n) = list[i].val
  <1> DEFINE visible == {i \in DOMAIN list : list[i].tx <= n}
  <1>1. /\ DOMAIN list = 1 .. Len(list) /\ Len(list) \in Nat
        /\ \A i \in DOMAIN list : list[i].tx \in Nat
    BY VersionFields
  <1>2. ASSUME NEW i \in visible PROVE i \in Passed(list, n)
    <2> SUFFICES ASSUME NEW j \in 1 .. i PROVE list[j].tx <= n
      BY DEF Passed
    <2>1. j \in DOMAIN list /\ i \in DOMAIN list /\ (j = i \/ j < i)
      BY <1>1
    <2>2. list[j].tx <= list[i].tx
      BY <1>1, <2>1
    <2> QED
      BY <1>1, <2>1, <2>2
  <1>3. ASSUME NEW i \in Passed(list, n) PROVE i \in visible
    BY <1>1 DEF Passed
  <1>4. Passed(list, n) = visible
    BY <1>2, <1>3
  <1>5. CASE visible = {}
    BY <1>4, <1>5 DEF GetVersion
  <1>6. CASE visible # {}
    <2>1. PICK i \in visible : /\ \A j \in visible : j <= i
                               /\ GetVersion(list, n) = list[i].val
      BY <1>4, <1>6, GetVersionProperties
    <2>2. ASSUME NEW j \in visible PROVE list[j].tx <= list[i].tx
      <3>1. j = i \/ j < i
        BY <1>1, <2>1
      <3> QED
        BY <1>1, <3>1
    <2> QED
      BY <1>6, <2>1, <2>2
  <1> QED
    BY <1>5, <1>6

-------------------------------------------------------------------------------
(* Type correctness *)

\* Where a task can be, given the command it carries out.
ControlOK ==
    \A r \in Requests :
        /\ pc[r] \in {"create", "write", "addrow"} => cmd[r].op = "INSERT"
        /\ pc[r] \in {"scan", "visit", "probe"} => IsScan(r)
        /\ pass[r] = 2 => cmd[r].op = "DIFFERENCE"
        /\ pc[r] = "probe" => /\ cmd[r].op \in {"INTERSECT", "DIFFERENCE"}
                              /\ todo[r] # {}
                              /\ held[r] # NULL

LEMMA CommandFields ==
    ASSUME TypeOK, NEW r \in Requests
    PROVE  /\ cmd[r].op \in {"INSERT", "SELECT", "TRUNCATE", "INTERSECT", "DIFFERENCE"}
           /\ cmd[r].table \in TableNames
           /\ cmd[r].op = "INSERT" => cmd[r].row \in RowIds
           /\ cmd[r].op \in {"INTERSECT", "DIFFERENCE"} => cmd[r].other \in TableNames
  <1>1. cmd[r] \in Command
    BY DEF TypeOK
  <1> QED
    BY <1>1 DEF Command

LEMMA ScannedType ==
    ASSUME TypeOK, ControlOK, NEW r \in Requests
    PROVE  /\ Scanned(r) \in TableNames
           /\ pc[r] = "probe" => Probed(r) \in TableNames
  BY CommandFields DEF Scanned, Probed, ControlOK, TypeOK

LEMMA AddVersionType ==
    ASSUME TypeOK, NEW t \in TableNames, NEW k \in RowIds, NEW n \in Nat,
           NEW v \in Values, AddVersion(t, k, n, v)
    PROVE  /\ versions' \in [TableNames -> [RowIds -> Seq(Version)]]
           /\ aborted' \in BOOLEAN
  <1>1. [tx |-> n, val |-> v] \in Version
    BY DEF Version
  <1>2. versions[t][k] \in Seq(Version)
    BY DEF TypeOK
  <1>3. Append(versions[t][k], [tx |-> n, val |-> v]) \in Seq(Version)
    BY <1>1, <1>2, AppendProperties
  <1>4. CASE UNCHANGED versions /\ aborted' = TRUE
    BY <1>4 DEF TypeOK
  <1>5. CASE /\ versions' = [versions EXCEPT ![t][k] = Append(@, [tx |-> n, val |-> v])]
             /\ UNCHANGED aborted
    BY <1>3, <1>5 DEF TypeOK
  <1> QED
    BY <1>4, <1>5 DEF AddVersion

LEMMA MessageTypes ==
    /\ Success \in StatusMessages /\ Error \in StatusMessages
    /\ \A k \in RowIds, v \in Values, w \in Values :
          v # NULL \/ w # NULL => Row(k, v, w) \in RowMessages
  <1>1. Success \in StatusMessages /\ Error \in StatusMessages
    BY DEF StatusMessages
  <1>2. ASSUME NEW k \in RowIds, NEW v \in Values, NEW w \in Values, v # NULL \/ w # NULL
        PROVE  Row(k, v, w) \in RowMessages
    <2>1. \A l \in RowIds : Row(k, v, w) # Row(l, NULL, NULL)
      <3> TAKE l \in RowIds
      <3>1. /\ Row(k, v, w).left = v /\ Row(k, v, w).right = w
            /\ Row(l, NULL, NULL).left = NULL /\ Row(l, NULL, NULL).right = NULL
        BY DEF Row
      <3> QED
        BY <1>2, <3>1
    <2> QED
      BY <1>2, <2>1 DEF RowMessages
  <1> QED
    BY <1>1, <1>2

LEMMA SendType ==
    ASSUME TypeOK, NEW r \in Requests, NEW m \in RowMessages \union StatusMessages,
           out' = [out EXCEPT ![r] = Append(@, m)]
    PROVE  out' \in [Requests -> Seq(RowMessages \union StatusMessages)]
  <1>1. out[r] \in Seq(RowMessages \union StatusMessages)
    BY DEF TypeOK
  <1>2. Append(out[r], m) \in Seq(RowMessages \union StatusMessages)
    BY <1>1, AppendProperties
  <1> QED
    BY <1>2 DEF TypeOK

LEMMA SeenType ==
    ASSUME TypeOK, ControlOK, NEW r \in Requests, todo[r] # {}
    PROVE  Seen(r) \in Values
  <1>1. versions[Scanned(r)][NextRow(r)] \in Seq(Version) /\ tx[r] \in Nat
    BY NextRowInTodo, ScannedType DEF TypeOK
  <1> QED
    BY <1>1, GetVersionType DEF Seen

\* Drawing a transaction id.
LEMMA NextTxTypes ==
    ASSUME TypeOK, NEW r \in Requests, NextTx(r)
    PROVE  tx' \in [Requests -> Nat] /\ txCounter' \in Nat
  <1>1. txCounter + 1 \in Nat
    BY DEF TypeOK
  <1> QED
    BY <1>1 DEF NextTx, TypeOK

LEMMA InitTypes == Init => TypeOK /\ ControlOK
  <1> SUFFICES ASSUME Init PROVE TypeOK /\ ControlOK
    OBVIOUS
  <1>1. \A S : << >> \in Seq(S)
    BY EmptySeq
  <1>2. TypeOK
    <2>1. asserts \in BOOLEAN
      BY BuildsAssumption DEF Init
    <2>2. PICK commands \in Workloads : cmd \in [Requests -> commands]
      BY DEF Init
    <2>3. cmd \in [Requests -> Command]
      BY <2>2, WorkloadsAssumption
    <2> QED
      BY <1>1, <2>1, <2>3 DEF Init, TypeOK, Locations, Values
  <1>3. ControlOK
    BY DEF Init, ControlOK
  <1> QED
    BY <1>2, <1>3

LEMMA TaskTypes ==
    ASSUME TypeOK, ControlOK, NEW r \in Requests, Task(r)
    PROVE  TypeOK' /\ ControlOK'
  <1>1. CASE InsertFind(r)
    <2>1. TypeOK'
      <3>1. CASE cmd[r].table \in created
        <4>1. tx' \in [Requests -> Nat] /\ txCounter' \in Nat
          BY <1>1, <3>1, NextTxTypes DEF InsertFind
        <4> QED
          BY <1>1, <3>1, <4>1 DEF InsertFind, TypeOK, Locations
      <3>2. CASE cmd[r].table \notin created
        BY <1>1, <3>2 DEF InsertFind, TypeOK, Locations
      <3> QED
        BY <3>1, <3>2
    <2>2. ControlOK'
      BY <1>1 DEF InsertFind, TypeOK, ControlOK, IsScan
    <2> QED
      BY <2>1, <2>2
  <1>2. CASE InsertCreate(r)
    <2>1. /\ cmd[r].table \in TableNames /\ cmd[r].row \in RowIds
          /\ txCounter + 1 \in Nat /\ r \in Values
      BY <1>2, CommandFields DEF InsertCreate, ControlOK, TypeOK, Values
    <2>2. /\ versions' \in [TableNames -> [RowIds -> Seq(Version)]]
          /\ aborted' \in BOOLEAN
      BY <1>2, <2>1, AddVersionType DEF InsertCreate
    <2>3. out' \in [Requests -> Seq(RowMessages \union StatusMessages)]
      BY <1>2, MessageTypes, SendType DEF InsertCreate, Answer
    <2>4. TypeOK'
      BY <1>2, <2>1, <2>2, <2>3 DEF InsertCreate, Answer, NextTx, TypeOK, Locations
    <2>5. ControlOK'
      BY <1>2 DEF InsertCreate, Answer, TypeOK, ControlOK, IsScan
    <2> QED
      BY <2>4, <2>5
  <1>3. CASE InsertRowExisting(r) \/ InsertRowNew(r)
    <2>1. /\ cmd[r].table \in TableNames /\ cmd[r].row \in RowIds
          /\ tx[r] \in Nat /\ r \in Values
      BY <1>3, CommandFields
      DEF InsertRowExisting, InsertRowNew, ControlOK, TypeOK, Values
    <2>2. /\ versions' \in [TableNames -> [RowIds -> Seq(Version)]]
          /\ aborted' \in BOOLEAN
      <3>1. CASE AddVersion(cmd[r].table, cmd[r].row, tx[r], r)
        BY <2>1, <3>1, AddVersionType
      <3>2. CASE UNCHANGED <<versions, aborted>>
        BY <3>2 DEF TypeOK
      <3> QED
        BY <1>3, <3>1, <3>2 DEF InsertRowExisting, InsertRowNew
    <2>3. TypeOK'
      BY <1>3, <2>2 DEF InsertRowExisting, InsertRowNew, TypeOK, Locations
    <2>4. ControlOK'
      BY <1>3 DEF InsertRowExisting, InsertRowNew, TypeOK, ControlOK, IsScan
    <2> QED
      BY <2>3, <2>4
  <1>4. CASE ScanFind(r)
    <2>1. out' \in [Requests -> Seq(RowMessages \union StatusMessages)]
      <3>1. CASE UNCHANGED out
        BY <3>1 DEF TypeOK
      <3>2. CASE Answer(r, Error)
        BY <3>2, MessageTypes, SendType DEF Answer
      <3> QED
        BY <1>4, <3>1, <3>2 DEF ScanFind
    <2>2. TypeOK'
      <3>1. CASE TablesOf(cmd[r]) \subseteq created
        <4>1. tx' \in [Requests -> Nat] /\ txCounter' \in Nat
          BY <1>4, <3>1, NextTxTypes DEF ScanFind
        <4> QED
          BY <1>4, <2>1, <3>1, <4>1 DEF ScanFind, TypeOK, Locations
      <3>2. CASE ~(TablesOf(cmd[r]) \subseteq created)
        BY <1>4, <2>1, <3>2 DEF ScanFind, Answer, TypeOK, Locations
      <3> QED
        BY <3>1, <3>2
    <2>3. ControlOK'
      BY <1>4 DEF ScanFind, Answer, TypeOK, ControlOK, IsScan
    <2> QED
      BY <2>2, <2>3
  <1>5. CASE ScanLock(r)
    <2>1. RowsOf(Scanned(r)) \in SUBSET RowIds
      BY DEF RowsOf
    <2>2. TypeOK'
      BY <1>5, <2>1 DEF ScanLock, TypeOK, Locations
    <2>3. ControlOK'
      BY <1>5 DEF ScanLock, TypeOK, ControlOK, IsScan
    <2> QED
      BY <2>2, <2>3
  <1>6. CASE Visit(r)
    <2>1. /\ NextRow(r) \in RowIds /\ Scanned(r) \in TableNames
          /\ Seen(r) \in Values /\ tx[r] \in Nat /\ NULL \in Values
      BY <1>6, NextRowInTodo, ScannedType, SeenType DEF Visit, TypeOK, Values
    <2>2. Visited(r) => todo' \in [Requests -> SUBSET RowIds]
      BY DEF Visited, TypeOK
    <2>3. CASE VisitSelect(r)
      <3>1. out' \in [Requests -> Seq(RowMessages \union StatusMessages)]
        <4>1. CASE Seen(r) # NULL
          <5>1. Row(NextRow(r), Seen(r), NULL) \in RowMessages
            BY <2>1, <4>1, MessageTypes
          <5> QED
            BY <2>3, <4>1, <5>1, SendType DEF VisitSelect
        <4>2. CASE Seen(r) = NULL
          BY <2>3, <4>2 DEF VisitSelect, TypeOK
        <4> QED
          BY <4>1, <4>2
      <3>2. TypeOK'
        BY <1>6, <2>2, <2>3, <3>1 DEF Visit, VisitSelect, TypeOK
      <3>3. ControlOK'
        BY <1>6, <2>3 DEF Visit, VisitSelect, Visited, TypeOK, ControlOK, IsScan
      <3> QED
        BY <3>2, <3>3
    <2>4. CASE VisitTruncate(r)
      <3>1. /\ versions' \in [TableNames -> [RowIds -> Seq(Version)]]
            /\ aborted' \in BOOLEAN
        BY <2>1, <2>4, AddVersionType DEF VisitTruncate
      <3>2. TypeOK'
        BY <1>6, <2>2, <2>4, <3>1 DEF Visit, VisitTruncate, TypeOK
      <3>3. ControlOK'
        BY <1>6, <2>4 DEF Visit, VisitTruncate, Visited, TypeOK, ControlOK, IsScan
      <3> QED
        BY <3>2, <3>3
    <2>5. CASE VisitJoin(r)
      <3>1. TypeOK'
        <4>1. CASE Seen(r) # NULL
          <5>1. /\ held' = [held EXCEPT ![r] = Seen(r)]
                /\ pc' = [pc EXCEPT ![r] = "probe"]
                /\ UNCHANGED <<todo, out, versions, aborted>>
            BY <2>5, <4>1 DEF VisitJoin
          <5>2. UNCHANGED <<asserts, cmd, tx, txCounter, created, pass, before>>
            BY <1>6 DEF Visit
          <5> QED
            BY <2>1, <5>1, <5>2 DEF TypeOK, Locations
        <4>2. CASE Seen(r) = NULL
          <5>1. Visited(r)
                /\ UNCHANGED <<held, pc, out, versions, aborted>>
            BY <2>5, <4>2 DEF VisitJoin
          <5>2. /\ todo' \in [Requests -> SUBSET RowIds]
                /\ UNCHANGED <<asserts, cmd, tx, txCounter, created, pass, before>>
            BY <1>6, <2>2, <5>1 DEF Visit
          <5> QED
            BY <5>1, <5>2 DEF TypeOK
        <4> QED
          BY <4>1, <4>2
      <3>2. ControlOK'
        <4>1. CASE Seen(r) # NULL
          BY <1>6, <2>5, <4>1 DEF Visit, VisitJoin, TypeOK, ControlOK, IsScan
        <4>2. CASE Seen(r) = NULL
          BY <1>6, <2>5, <4>2 DEF Visit, VisitJoin, Visited, TypeOK, ControlOK, IsScan
        <4> QED
          BY <4>1, <4>2
      <3> QED
        BY <3>1, <3>2
    <2> QED
      BY <1>6, <2>3, <2>4, <2>5 DEF Visit
  <1>7. CASE Probe(r)
    <2>1. /\ NextRow(r) \in RowIds /\ Probed(r) \in TableNames
          /\ held[r] \in Values /\ held[r] # NULL /\ NULL \in Values
      BY <1>7, NextRowInTodo, ScannedType DEF Probe, ControlOK, TypeOK, Values
    <2> DEFINE other == GetVersion(versions[Probed(r)][NextRow(r)], tx[r])
    <2>2. other \in Values
      <3>1. versions[Probed(r)][NextRow(r)] \in Seq(Version) /\ tx[r] \in Nat
        BY <2>1 DEF TypeOK
      <3> QED
        BY <3>1, GetVersionType
    <2>3. PICK joined : /\ out' = [out EXCEPT ![r] = @ \o joined]
                        /\ \/ joined = << >>
                           \/ other # NULL /\ joined = <<Row(NextRow(r), held[r], other)>>
                           \/ joined = <<Row(NextRow(r), held[r], NULL)>>
                           \/ joined = <<Row(NextRow(r), NULL, held[r])>>
      BY <1>7 DEF Probe
    <2>4. joined \in Seq(RowMessages \union StatusMessages)
      <3>1. /\ other # NULL => Row(NextRow(r), held[r], other) \in RowMessages
            /\ Row(NextRow(r), held[r], NULL) \in RowMessages
            /\ Row(NextRow(r), NULL, held[r]) \in RowMessages
        BY <2>1, <2>2, MessageTypes
      <3>2. \A m \in RowMessages : <<m>> \in Seq(RowMessages \union StatusMessages)
        OBVIOUS
      <3>3. CASE joined = << >>
        BY <3>3
      <3>4. CASE other # NULL /\ joined = <<Row(NextRow(r), held[r], other)>>
        BY <3>1, <3>2, <3>4
      <3>5. CASE joined = <<Row(NextRow(r), held[r], NULL)>>
        BY <3>1, <3>2, <3>5
      <3>6. CASE joined = <<Row(NextRow(r), NULL, held[r])>>
        BY <3>1, <3>2, <3>6
      <3> QED
        BY <2>3, <3>3, <3>4, <3>5, <3>6
    <2>5. out[r] \o joined \in Seq(RowMessages \union StatusMessages)
      <3>1. out[r] \in Seq(RowMessages \union StatusMessages)
        BY DEF TypeOK
      <3> QED
        BY <2>4, <3>1, ConcatProperties
    <2>6. TypeOK'
      BY <1>7, <2>1, <2>3, <2>5 DEF Probe, Visited, TypeOK, Locations
    <2>7. ControlOK'
      BY <1>7 DEF Probe, Visited, TypeOK, ControlOK, IsScan
    <2> QED
      BY <2>6, <2>7
  <1>8. CASE ScanEnd(r)
    <2>1. TypeOK'
      BY <1>8 DEF ScanEnd, TypeOK, Locations
    <2>2. ControlOK'
      BY <1>8 DEF ScanEnd, TypeOK, ControlOK, IsScan
    <2> QED
      BY <2>1, <2>2
  <1>9. CASE Reply(r)
    <2>1. out' \in [Requests -> Seq(RowMessages \union StatusMessages)]
      BY <1>9, MessageTypes, SendType DEF Reply, Answer
    <2>2. TypeOK'
      BY <1>9, <2>1 DEF Reply, Answer, TypeOK, Locations
    <2>3. ControlOK'
      BY <1>9 DEF Reply, Answer, TypeOK, ControlOK, IsScan
    <2> QED
      BY <2>2, <2>3
  <1> QED
    BY <1>1, <1>2, <1>3, <1>4, <1>5, <1>6, <1>7, <1>8, <1>9 DEF Task

LEMMA StepTypes == TypeOK /\ ControlOK /\ [Next]_vars => TypeOK' /\ ControlOK'
  <1> SUFFICES ASSUME TypeOK, ControlOK, [Next]_vars PROVE TypeOK' /\ ControlOK'
    OBVIOUS
  <1>1. ASSUME NEW r \in Requests, HandleCommand(r) PROVE TypeOK' /\ ControlOK'
    <2>1. TypeOK'
      BY <1>1 DEF HandleCommand, TypeOK, Locations
    <2>2. ControlOK'
      BY <1>1 DEF HandleCommand, TypeOK, ControlOK, IsScan
    <2> QED
      BY <2>1, <2>2
  <1>2. CASE StartTask
    <2>1. TypeOK'
      BY <1>2 DEF StartTask, TypeOK, Locations
    <2>2. ControlOK'
      BY <1>2 DEF StartTask, TypeOK, ControlOK, IsScan
    <2> QED
      BY <2>1, <2>2
  <1>3. CASE UNCHANGED vars
    BY <1>3 DEF vars, TypeOK, ControlOK, IsScan
  <1> QED
    BY <1>1, <1>2, <1>3, TaskTypes DEF Next, Stopped

\* The database keeps its types, and a task is only where its command leads.
THEOREM TypeCorrect == Spec => [](TypeOK /\ ControlOK)
  <1>1. (TypeOK /\ ControlOK) /\ [Next]_vars => (TypeOK /\ ControlOK)'
    BY StepTypes
  <1> QED
    BY <1>1, InitTypes, PTL DEF Spec

-------------------------------------------------------------------------------
(* The order of versions, when the assertion of AddVesion is compiled in *)

LEMMA AppendSorted ==
    ASSUME NEW list \in Seq(Version), NEW n \in Nat, NEW v \in Values,
           NewerThanLast(list, n),
           \A i, j \in DOMAIN list : i < j => list[i].tx < list[j].tx
    PROVE  LET longer == Append(list, [tx |-> n, val |-> v])
           IN  \A i, j \in DOMAIN longer : i < j => longer[i].tx < longer[j].tx
  <1> DEFINE last == [tx |-> n, val |-> v]
             longer == Append(list, last)
  <1>1. last \in Version /\ last.tx = n
    BY DEF Version
  <1>2. /\ DOMAIN list = 1 .. Len(list) /\ Len(list) \in Nat
        /\ \A i \in DOMAIN list : list[i].tx \in Nat
    BY VersionFields
  <1>3. /\ DOMAIN longer = 1 .. Len(list) + 1
        /\ \A i \in 1 .. Len(list) : longer[i] = list[i]
        /\ longer[Len(list) + 1] = last
    BY <1>1, AppendProperties, LenProperties
  <1>4. ASSUME NEW i \in DOMAIN list PROVE list[i].tx < n
    <2>1. list # << >> /\ Len(list) \in DOMAIN list
      BY <1>2
    <2>2. list[Len(list)].tx < n
      BY <2>1 DEF NewerThanLast
    <2>3. i = Len(list) \/ i < Len(list)
      BY <1>2
    <2>4. list[i].tx <= list[Len(list)].tx
      BY <1>2, <2>1, <2>3
    <2> QED
      BY <1>2, <2>1, <2>2, <2>4
  <1> SUFFICES ASSUME NEW i \in DOMAIN longer, NEW j \in DOMAIN longer, i < j
               PROVE  longer[i].tx < longer[j].tx
    OBVIOUS
  <1>5. i \in DOMAIN list
    BY <1>2, <1>3
  <1>6. CASE j \in DOMAIN list
    BY <1>2, <1>3, <1>5, <1>6
  <1>7. CASE j = Len(list) + 1
    BY <1>1, <1>2, <1>3, <1>4, <1>5, <1>7
  <1> QED
    BY <1>2, <1>3, <1>6, <1>7

LEMMA AddVersionSorted ==
    ASSUME TypeOK, VersionsSorted, asserts, UNCHANGED asserts,
           NEW t \in TableNames, NEW k \in RowIds, NEW n \in Nat, NEW v \in Values,
           AddVersion(t, k, n, v)
    PROVE  VersionsSorted'
  <1>1. CASE UNCHANGED versions
    BY <1>1 DEF VersionsSorted
  <1>2. CASE /\ NewerThanLast(versions[t][k], n)
             /\ versions' = [versions EXCEPT ![t][k] = Append(@, [tx |-> n, val |-> v])]
    <2>1. versions[t][k] \in Seq(Version)
      BY DEF TypeOK
    <2>2. \A i, j \in DOMAIN versions[t][k] :
             i < j => versions[t][k][i].tx < versions[t][k][j].tx
      BY DEF VersionsSorted
    <2>3. LET longer == Append(versions[t][k], [tx |-> n, val |-> v])
          IN  \A i, j \in DOMAIN longer : i < j => longer[i].tx < longer[j].tx
      BY <1>2, <2>1, <2>2, AppendSorted
    <2> SUFFICES ASSUME NEW u \in TableNames, NEW l \in RowIds
                 PROVE  \A i, j \in DOMAIN versions'[u][l] :
                           i < j => versions'[u][l][i].tx < versions'[u][l][j].tx
      BY DEF VersionsSorted
    <2>4. CASE u = t /\ l = k
      <3>1. versions'[u][l] = Append(versions[t][k], [tx |-> n, val |-> v])
        BY <1>2, <2>4 DEF TypeOK
      <3> QED
        BY <2>3, <3>1
    <2>5. CASE ~(u = t /\ l = k)
      <3>1. versions'[u][l] = versions[u][l]
        BY <1>2, <2>5 DEF TypeOK
      <3> QED
        BY <3>1 DEF VersionsSorted
    <2> QED
      BY <2>4, <2>5
  <1> QED
    BY <1>1, <1>2 DEF AddVersion

LEMMA InitSorted == Init => VersionsSorted
  BY DEF Init, VersionsSorted

\* A build has assertions or has none.
LEMMA SameBuild ==
    ASSUME [Next]_vars
    PROVE  UNCHANGED asserts
  <1>1. ASSUME NEW r \in Requests, HandleCommand(r) \/ Task(r)
        PROVE  UNCHANGED asserts
    BY <1>1
    DEF HandleCommand, Task, InsertFind, InsertCreate, InsertRowExisting, InsertRowNew,
        ScanFind, ScanLock, Visit, Probe, ScanEnd, Reply
  <1>2. CASE StartTask \/ UNCHANGED vars
    BY <1>2 DEF StartTask, vars
  <1> QED
    BY <1>1, <1>2 DEF Next, Stopped

\* Versions are only ever appended by AddVersion.
LEMMA StepSorted ==
    ASSUME TypeOK, ControlOK, VersionsSorted, [Next]_vars
    PROVE  VersionsSorted'
  <1> UNCHANGED asserts
    BY SameBuild
  <1> SUFFICES ASSUME asserts PROVE VersionsSorted'
    BY DEF VersionsSorted
  <1>1. CASE UNCHANGED versions
    BY <1>1 DEF VersionsSorted
  <1>2. ASSUME NEW r \in Requests, InsertCreate(r) PROVE VersionsSorted'
    <2>1. /\ cmd[r].table \in TableNames /\ cmd[r].row \in RowIds
          /\ txCounter + 1 \in Nat /\ r \in Values
      BY <1>2, CommandFields DEF InsertCreate, ControlOK, TypeOK, Values
    <2> QED
      BY <1>2, <2>1, AddVersionSorted DEF InsertCreate
  <1>3. ASSUME NEW r \in Requests, InsertRowExisting(r) \/ InsertRowNew(r)
        PROVE  VersionsSorted'
    <2>1. /\ cmd[r].table \in TableNames /\ cmd[r].row \in RowIds
          /\ tx[r] \in Nat /\ r \in Values
      BY <1>3, CommandFields
      DEF InsertRowExisting, InsertRowNew, ControlOK, TypeOK, Values
    <2>2. AddVersion(cmd[r].table, cmd[r].row, tx[r], r) \/ UNCHANGED versions
      BY <1>3 DEF InsertRowExisting, InsertRowNew
    <2> QED
      BY <1>1, <2>1, <2>2, AddVersionSorted
  <1>4. ASSUME NEW r \in Requests, Visit(r) PROVE VersionsSorted'
    <2>1. /\ NextRow(r) \in RowIds /\ Scanned(r) \in TableNames
          /\ tx[r] \in Nat /\ NULL \in Values
      BY <1>4, NextRowInTodo, ScannedType DEF Visit, TypeOK, Values
    <2>2. AddVersion(Scanned(r), NextRow(r), tx[r], NULL) \/ UNCHANGED versions
      BY <1>4 DEF Visit, VisitSelect, VisitTruncate, VisitJoin
    <2> QED
      BY <1>1, <2>1, <2>2, AddVersionSorted
  <1>5. ASSUME NEW r \in Requests,
               HandleCommand(r) \/ InsertFind(r) \/ ScanFind(r) \/ ScanLock(r)
               \/ Probe(r) \/ ScanEnd(r) \/ Reply(r)
        PROVE  UNCHANGED versions
    BY <1>5 DEF HandleCommand, InsertFind, ScanFind, ScanLock, Probe, ScanEnd, Reply
  <1>6. CASE StartTask
    BY <1>1, <1>6 DEF StartTask
  <1>7. CASE UNCHANGED vars
    BY <1>1, <1>7 DEF vars
  <1> QED
    BY <1>1, <1>2, <1>3, <1>4, <1>5, <1>6, <1>7 DEF Next, Task, Stopped

\* With the assertion compiled in, the versions of every row are in the order
\* of the ids of the transactions that wrote them (an abort comes first) ...
THEOREM VersionsSortedCorrect == Spec => []VersionsSorted
  <1> DEFINE IInv == (TypeOK /\ ControlOK) /\ VersionsSorted
  <1>1. Init => IInv
    BY InitTypes, InitSorted
  <1>2. IInv /\ [Next]_vars => IInv'
    <2> SUFFICES ASSUME IInv, [Next]_vars PROVE IInv'
      OBVIOUS
    <2>1. TypeOK' /\ ControlOK'
      BY StepTypes
    <2>2. VersionsSorted'
      BY StepSorted
    <2> QED
      BY <2>1, <2>2
  <1>3. IInv => VersionsSorted
    OBVIOUS
  <1> HIDE DEF IInv
  <1> QED
    BY <1>1, <1>2, <1>3, PTL DEF Spec

LEMMA SortedGivesMostRecent ==
    ASSUME TypeOK, VersionsSorted
    PROVE  MostRecentVersion
  <1> SUFFICES ASSUME asserts,
                      NEW t \in TableNames, NEW k \in RowIds, NEW n \in 1 .. txCounter
               PROVE  LET list == versions[t][k]
                          visible == {i \in DOMAIN list : list[i].tx <= n}
                      IN  IF visible = {} THEN GetVersion(list, n) = NULL
                          ELSE \E i \in visible :
                                  /\ \A j \in visible : list[j].tx <= list[i].tx
                                  /\ GetVersion(list, n) = list[i].val
    BY DEF MostRecentVersion
  <1>1. versions[t][k] \in Seq(Version) /\ n \in Nat
    BY DEF TypeOK
  <1>2. \A i, j \in DOMAIN versions[t][k] :
           i < j => versions[t][k][i].tx < versions[t][k][j].tx
    BY DEF VersionsSorted
  <1> QED
    BY <1>1, <1>2, SortedMostRecent

\* ... and a lookup then returns what its comment promises: the most recent
\* version for the transaction.
THEOREM MostRecentVersionCorrect == Spec => []MostRecentVersion
  <1>1. (TypeOK /\ ControlOK) /\ VersionsSorted => MostRecentVersion
    BY SortedGivesMostRecent
  <1> QED
    BY <1>1, TypeCorrect, VersionsSortedCorrect, PTL

-------------------------------------------------------------------------------
(* The order of transactions *)

\* What TxOrder rests on: ids come from the counter, one per task; what was
\* answered before a request was issued has drawn its id.
TxDrawn ==
    \A r \in Requests :
        /\ tx[r] <= txCounter
        /\ pc[r] \in {"idle", "queued", "find", "create"} => tx[r] = 0
        /\ \A q \in before[r] : pc[q] = "done"

LEMMA InitTx == Init => TxDrawn /\ TxOrder
  BY DEF Init, TxDrawn, TxOrder

\* A task that draws an id has not been answered yet.
LEMMA DrawTx ==
    ASSUME TypeOK, TxDrawn, TxOrder, NEW r \in Requests, NextTx(r),
           pc[r] \in {"find", "create"}, NEW l \in {"write", "scan", "done"},
           pc' = [pc EXCEPT ![r] = l], UNCHANGED before
    PROVE  TxDrawn' /\ TxOrder'
  <1>1. /\ \A q \in Requests : tx[q] \in Nat /\ pc[q] \in Locations
        /\ txCounter \in Nat
        /\ before \in [Requests -> SUBSET Requests]
    BY DEF TypeOK
  <1>2. /\ txCounter' = txCounter + 1
        /\ tx'[r] = txCounter + 1
        /\ \A q \in Requests \ {r} : tx'[q] = tx[q] /\ pc'[q] = pc[q]
        /\ pc'[r] = l
    BY DEF NextTx, TypeOK
  <1>3. \A q \in Requests : r \notin before[q]
    BY DEF TxDrawn
  <1>4. TxDrawn'
    <2> SUFFICES ASSUME NEW p \in Requests
                 PROVE  /\ tx'[p] <= txCounter'
                        /\ pc'[p] \in {"idle", "queued", "find", "create"} => tx'[p] = 0
                        /\ \A q \in before'[p] : pc'[q] = "done"
      BY DEF TxDrawn
    <2>1. tx'[p] <= txCounter'
      BY <1>1, <1>2 DEF TxDrawn
    <2>2. pc'[p] \in {"idle", "queued", "find", "create"} => tx'[p] = 0
      BY <1>2 DEF TxDrawn
    <2>3. \A q \in before'[p] : pc'[q] = "done"
      BY <1>1, <1>2, <1>3 DEF TxDrawn
    <2> QED
      BY <2>1, <2>2, <2>3
  <1>5. TxOrder'
    <2> SUFFICES ASSUME NEW p \in Requests, NEW q \in Requests,
                        tx'[p] # 0, tx'[q] # 0
                 PROVE  /\ p # q => tx'[p] # tx'[q]
                        /\ p \in before'[q] => tx'[p] < tx'[q]
      BY DEF TxOrder
    <2>1. CASE p # r /\ q # r
      BY <1>2, <2>1 DEF TxOrder
    <2>2. CASE p # r /\ q = r
      <3>1. tx'[p] <= txCounter /\ tx'[p] \in Nat
        BY <1>1, <1>2, <2>2 DEF TxDrawn
      <3> QED
        BY <1>1, <1>2, <2>2, <3>1
    <2>3. CASE p = r
      <3>1. p \notin before'[q]
        BY <1>3, <2>3
      <3>2. q # r => tx'[q] <= txCounter /\ tx'[q] \in Nat
        BY <1>1, <1>2 DEF TxDrawn
      <3> QED
        BY <1>1, <1>2, <2>3, <3>1, <3>2
    <2> QED
      BY <2>1, <2>2, <2>3
  <1> QED
    BY <1>4, <1>5

\* A step within a task that has its id, or does not draw it yet.
LEMMA KeepTx ==
    ASSUME TypeOK, TxDrawn, TxOrder, NEW r \in Requests, NEW l \in Locations,
           pc[r] # "done",
           l \in {"idle", "queued", "find", "create"}
             => pc[r] \in {"idle", "queued", "find", "create"},
           pc' = [pc EXCEPT ![r] = l], UNCHANGED <<tx, txCounter, before>>
    PROVE  TxDrawn' /\ TxOrder'
  <1>1. pc'[r] = l /\ \A q \in Requests \ {r} : pc'[q] = pc[q]
    BY DEF TypeOK
  <1>2. \A q \in Requests : before[q] \subseteq Requests \ {r}
    BY DEF TypeOK, TxDrawn
  <1> QED
    BY <1>1, <1>2 DEF TxDrawn, TxOrder

LEMMA SameTx ==
    ASSUME TxDrawn, TxOrder, UNCHANGED <<pc, tx, txCounter, before>>
    PROVE  TxDrawn' /\ TxOrder'
  BY DEF TxDrawn, TxOrder

LEMMA TaskTx ==
    ASSUME TypeOK, TxDrawn, TxOrder, NEW r \in Requests, Task(r)
    PROVE  TxDrawn' /\ TxOrder'
  <1>1. CASE InsertFind(r)
    <2>1. CASE cmd[r].table \in created
      BY <1>1, <2>1, DrawTx DEF InsertFind
    <2>2. CASE cmd[r].table \notin created
      BY <1>1, <2>2, KeepTx DEF InsertFind, Locations
    <2> QED
      BY <2>1, <2>2
  <1>2. CASE InsertCreate(r)
    BY <1>2, DrawTx DEF InsertCreate, Answer
  <1>3. CASE ScanFind(r)
    <2>1. CASE TablesOf(cmd[r]) \subseteq created
      BY <1>3, <2>1, DrawTx DEF ScanFind
    <2>2. CASE ~(TablesOf(cmd[r]) \subseteq created)
      BY <1>3, <2>2, KeepTx DEF ScanFind, Answer, Locations
    <2> QED
      BY <2>1, <2>2
  <1>4. CASE InsertRowExisting(r) \/ InsertRowNew(r)
    <2>1. PICK l \in {"reply", "addrow"} : pc' = [pc EXCEPT ![r] = l]
      BY <1>4 DEF InsertRowExisting, InsertRowNew
    <2> QED
      BY <1>4, <2>1, KeepTx DEF InsertRowExisting, InsertRowNew, Locations
  <1>5. CASE ScanLock(r) \/ Probe(r)
    BY <1>5, KeepTx DEF ScanLock, Probe, Locations
  <1>6. CASE Visit(r)
    <2>1. CASE pc' = [pc EXCEPT ![r] = "probe"]
      BY <1>6, <2>1, KeepTx DEF Visit, Locations
    <2>2. CASE UNCHANGED pc
      BY <1>6, <2>2, SameTx DEF Visit
    <2> QED
      BY <1>6, <2>1, <2>2 DEF Visit, VisitSelect, VisitTruncate, VisitJoin
  <1>7. CASE ScanEnd(r)
    <2>1. PICK l \in {"reply", "scan"} : pc' = [pc EXCEPT ![r] = l]
      BY <1>7 DEF ScanEnd
    <2> QED
      BY <1>7, <2>1, KeepTx DEF ScanEnd, Locations
  <1>8. CASE Reply(r)
    BY <1>8, KeepTx DEF Reply, Answer, Locations
  <1> QED
    BY <1>1, <1>2, <1>3, <1>4, <1>5, <1>6, <1>7, <1>8 DEF Task

LEMMA HandleCommandTx ==
    ASSUME TypeOK, TxDrawn, TxOrder, NEW r \in Requests, HandleCommand(r)
    PROVE  TxDrawn' /\ TxOrder'
  <1>1. /\ pc'[r] = "queued" /\ \A q \in Requests \ {r} : pc'[q] = pc[q]
        /\ before'[r] = {q \in Requests : pc[q] = "done"}
        /\ \A q \in Requests \ {r} : before'[q] = before[q]
        /\ tx' = tx /\ txCounter' = txCounter
        /\ pc[r] = "idle" /\ tx[r] = 0
    BY DEF HandleCommand, TypeOK, TxDrawn
  <1>2. \A q \in Requests : before[q] \subseteq Requests \ {r}
    BY <1>1 DEF TypeOK, TxDrawn
  <1>3. TxDrawn'
    BY <1>1, <1>2 DEF TxDrawn
  <1>4. TxOrder'
    BY <1>1 DEF TxOrder
  <1> QED
    BY <1>3, <1>4

\* A task waits in the queue of the pool at most once, and only before it starts.
QueueOK ==
    /\ pending \in Seq(Requests)
    /\ \A i \in DOMAIN pending : pc[pending[i]] = "queued"
    /\ \A i, j \in DOMAIN pending : i # j => pending[i] # pending[j]

LEMMA QueueSubmit ==
    ASSUME TypeOK, QueueOK, NEW r \in Requests, HandleCommand(r)
    PROVE  QueueOK'
  <1>1. /\ pending' = Append(pending, r)
        /\ pc'[r] = "queued" /\ \A q \in Requests \ {r} : pc'[q] = pc[q]
        /\ pc[r] = "idle"
    BY DEF HandleCommand, Pool!Submit, TypeOK
  <1>2. /\ DOMAIN pending = 1 .. Len(pending) /\ Len(pending) \in Nat
        /\ \A i \in 1 .. Len(pending) : pending[i] \in Requests
    BY LenProperties, ElementOfSeq DEF QueueOK
  <1>3. /\ pending' \in Seq(Requests)
        /\ DOMAIN pending' = 1 .. Len(pending) + 1
        /\ \A i \in 1 .. Len(pending) : pending'[i] = pending[i]
        /\ pending'[Len(pending) + 1] = r
    BY <1>1, AppendProperties, LenProperties DEF QueueOK
  <1>4. \A i \in DOMAIN pending : pending[i] # r
    BY <1>1 DEF QueueOK
  <1>5. \A i \in DOMAIN pending' : i \in DOMAIN pending \/ i = Len(pending) + 1
    BY <1>2, <1>3
  <1>6. \A i \in DOMAIN pending' : pc'[pending'[i]] = "queued"
    BY <1>1, <1>2, <1>3, <1>5 DEF QueueOK
  <1>7. \A i, j \in DOMAIN pending' : i # j => pending'[i] # pending'[j]
    BY <1>2, <1>3, <1>4, <1>5 DEF QueueOK
  <1> QED
    BY <1>3, <1>6, <1>7 DEF QueueOK

LEMMA QueueStart ==
    ASSUME TypeOK, QueueOK, StartTask
    PROVE  /\ QueueOK'
           /\ Head(pending) \in Requests
           /\ pc[Head(pending)] = "queued"
  <1>1. /\ pending # << >> /\ pending' = Tail(pending)
        /\ pc' = [pc EXCEPT ![Head(pending)] = "find"]
    BY DEF StartTask, Pool!Start
  <1>2. /\ DOMAIN pending = 1 .. Len(pending) /\ Len(pending) \in Nat \ {0}
        /\ \A i \in 1 .. Len(pending) : pending[i] \in Requests
    BY <1>1, LenProperties, ElementOfSeq, EmptySeq DEF QueueOK
  <1>3. Head(pending) = pending[1] /\ 1 \in DOMAIN pending
    BY <1>2 DEF QueueOK
  <1>4. /\ pending' \in Seq(Requests)
        /\ DOMAIN pending' = 1 .. Len(pending) - 1
        /\ \A i \in 1 .. Len(pending) - 1 : pending'[i] = pending[i + 1]
    BY <1>1, <1>2, HeadTailProperties, LenProperties DEF QueueOK
  <1>5. \A i \in DOMAIN pending' : i + 1 \in DOMAIN pending /\ i + 1 # 1
    BY <1>2, <1>4
  <1>6. \A i \in DOMAIN pending' : pc'[pending'[i]] = "queued"
    <2> TAKE i \in DOMAIN pending'
    <2>1. pending'[i] = pending[i + 1] /\ pending[i + 1] # pending[1]
      BY <1>3, <1>4, <1>5 DEF QueueOK
    <2>2. pc[pending[i + 1]] = "queued" /\ pending[i + 1] \in Requests
      BY <1>2, <1>5 DEF QueueOK
    <2> QED
      BY <1>1, <1>3, <2>1, <2>2 DEF TypeOK
  <1>7. \A i, j \in DOMAIN pending' : i # j => pending'[i] # pending'[j]
    <2> TAKE i, j \in DOMAIN pending'
    <2>1. i # j => i + 1 # j + 1
      BY <1>4
    <2> QED
      BY <1>4, <1>5, <2>1 DEF QueueOK
  <1> QED
    BY <1>2, <1>3, <1>4, <1>6, <1>7 DEF QueueOK

LEMMA QueueTask ==
    ASSUME TypeOK, QueueOK, NEW r \in Requests, Task(r)
    PROVE  QueueOK'
  <1>1. UNCHANGED pending
    BY DEF Task, InsertFind, InsertCreate, InsertRowExisting, InsertRowNew, ScanFind,
           ScanLock, Visit, Probe, ScanEnd, Reply, Answer, Pool!Finish, poolVars
  <1>2. pc[r] # "queued" /\ \A q \in Requests \ {r} : pc'[q] = pc[q]
    BY DEF Task, InsertFind, InsertCreate, InsertRowExisting, InsertRowNew, ScanFind,
           ScanLock, Visit, VisitSelect, VisitTruncate, VisitJoin, Probe, ScanEnd,
           Reply, Answer, TypeOK
  <1>3. \A i \in DOMAIN pending : pending[i] \in Requests
    BY LenProperties, ElementOfSeq DEF QueueOK
  <1> QED
    BY <1>1, <1>2, <1>3 DEF QueueOK

\* The invariant that gives the order of transactions.
LEMMA TxInvariant == Spec => []((TypeOK /\ ControlOK) /\ QueueOK /\ TxDrawn /\ TxOrder)
  <1> DEFINE IInv == (TypeOK /\ ControlOK) /\ QueueOK /\ TxDrawn /\ TxOrder
  <1>1. Init => IInv
    <2>1. Init => QueueOK
      BY EmptySeq DEF Init, Pool!PoolInit, QueueOK
    <2> QED
      BY <2>1, InitTypes, InitTx
  <1>2. IInv /\ [Next]_vars => IInv'
    <2> SUFFICES ASSUME IInv, [Next]_vars PROVE IInv'
      OBVIOUS
    <2>1. TypeOK' /\ ControlOK'
      BY StepTypes
    <2>2. ASSUME NEW r \in Requests, HandleCommand(r)
          PROVE  QueueOK' /\ TxDrawn' /\ TxOrder'
      BY <2>2, QueueSubmit, HandleCommandTx
    <2>3. ASSUME NEW r \in Requests, Task(r)
          PROVE  QueueOK' /\ TxDrawn' /\ TxOrder'
      BY <2>3, QueueTask, TaskTx
    <2>4. ASSUME StartTask PROVE QueueOK' /\ TxDrawn' /\ TxOrder'
      <3>1. QueueOK' /\ Head(pending) \in Requests /\ pc[Head(pending)] = "queued"
        BY <2>4, QueueStart
      <3>2. /\ pc' = [pc EXCEPT ![Head(pending)] = "find"]
            /\ UNCHANGED <<tx, txCounter, before>>
        BY <2>4 DEF StartTask
      <3>3. TxDrawn' /\ TxOrder'
        BY <3>1, <3>2, KeepTx DEF Locations
      <3> QED
        BY <3>1, <3>3
    <2>5. ASSUME UNCHANGED vars PROVE QueueOK' /\ TxDrawn' /\ TxOrder'
      BY <2>5 DEF vars, QueueOK, TxDrawn, TxOrder
    <2> QED
      BY <2>1, <2>2, <2>3, <2>4, <2>5 DEF Next, Stopped
  <1> HIDE DEF IInv
  <1>3. Spec => []IInv
    BY <1>1, <1>2, PTL DEF Spec
  <1> QED
    BY <1>3 DEF IInv

\* Ids of transactions are unique, and follow the order in which commands are
\* answered and issued: whichever of its two paths an Insert takes.
THEOREM TxOrderCorrect == Spec => []TxOrder
  BY TxInvariant, PTL
-------------------------------------------------------------------------------
(* Scans *)

\* What a scan has still to visit are rows of the table it scans.
ScanInv == \A t \in TableNames : \A r \in TableReaders(t) : todo[r] \subseteq RowsOf(t)

\* A version makes its key a row of its table, and nothing else a row.
LEMMA AddVersionRows ==
    ASSUME TypeOK, NEW t \in TableNames, NEW k \in RowIds, NEW n, NEW v,
           AddVersion(t, k, n, v)
    PROVE  /\ \A u \in TableNames \ {t} : RowsOf(u)' = RowsOf(u)
           /\ RowsOf(t) \subseteq RowsOf(t)' /\ RowsOf(t)' \subseteq RowsOf(t) \union {k}
  <1>1. CASE UNCHANGED versions
    BY <1>1 DEF RowsOf
  <1>2. CASE versions' = [versions EXCEPT ![t][k] = Append(@, [tx |-> n, val |-> v])]
    <2>1. versions \in [TableNames -> [RowIds -> Seq(Version)]]
      BY DEF TypeOK
    <2>2. \A u \in TableNames, l \in RowIds :
             ~ (u = t /\ l = k) => versions'[u][l] = versions[u][l]
      BY <1>2, <2>1
    <2>3. versions'[t][k] # << >>
      <3>1. versions'[t][k] = Append(versions[t][k], [tx |-> n, val |-> v])
        BY <1>2, <2>1
      <3>2. Len(versions[t][k]) \in Nat
        BY <2>1, LenProperties
      <3>3. Len(Append(versions[t][k], [tx |-> n, val |-> v])) = Len(versions[t][k]) + 1
        BY <2>1
      <3>4. Len(versions'[t][k]) = Len(versions[t][k]) + 1
        BY <3>1, <3>3, Zenon
      <3>5. Len(versions[t][k]) + 1 # 0
        BY <3>2
      <3>6. Len(<< >>) = 0
        OBVIOUS
      <3> QED
        BY <3>4, <3>5, <3>6, Zenon
    <2>4. \A u \in TableNames : u # t => RowsOf(u)' = RowsOf(u)
      BY <2>2 DEF RowsOf
    <2>5. RowsOf(t) \subseteq RowsOf(t)' /\ RowsOf(t)' \subseteq RowsOf(t) \union {k}
      BY <2>2, <2>3 DEF RowsOf
    <2> QED
      BY <2>4, <2>5
  <1> QED
    BY <1>1, <1>2 DEF AddVersion

\* No step adds a row to a table, or removes one, while somebody scans it.
LEMMA StepFreezesRows ==
    ASSUME TypeOK, ControlOK, ScanInv, [Next]_vars,
           NEW t \in TableNames, TableReaders(t) # {}
    PROVE  RowsOf(t)' = RowsOf(t)
  <1>1. CASE UNCHANGED versions
    BY <1>1 DEF RowsOf
  <1>2. ASSUME NEW r \in Requests, InsertCreate(r) PROVE FALSE
    BY <1>2 DEF InsertCreate, DatabaseReaders, TableReaders
  <1>3. ASSUME NEW r \in Requests, InsertRowExisting(r) PROVE RowsOf(t)' = RowsOf(t)
    <2>1. cmd[r].table \in TableNames /\ cmd[r].row \in RowIds
      BY <1>3, CommandFields DEF InsertRowExisting, ControlOK
    <2>2. CASE cmd[r].row \in RowsOf(cmd[r].table)
      BY <1>3, <2>1, <2>2, AddVersionRows DEF InsertRowExisting
    <2>3. CASE cmd[r].row \notin RowsOf(cmd[r].table)
      BY <1>1, <1>3, <2>3 DEF InsertRowExisting
    <2> QED
      BY <2>2, <2>3
  <1>4. ASSUME NEW r \in Requests, InsertRowNew(r) PROVE RowsOf(t)' = RowsOf(t)
    <2>1. cmd[r].table \in TableNames /\ cmd[r].row \in RowIds
      BY <1>4, CommandFields DEF InsertRowNew, ControlOK
    <2>2. cmd[r].table # t
      BY <1>4 DEF InsertRowNew
    <2> QED
      BY <1>4, <2>1, <2>2, AddVersionRows DEF InsertRowNew
  <1>5. ASSUME NEW r \in Requests, Visit(r) PROVE RowsOf(t)' = RowsOf(t)
    <2>1. CASE VisitTruncate(r)
      <3>1. /\ NextRow(r) \in RowIds /\ NextRow(r) \in todo[r]
            /\ Scanned(r) \in TableNames
        BY <1>5, NextRowInTodo, ScannedType DEF Visit
      <3>2. r \in TableReaders(Scanned(r))
        BY <1>5 DEF Visit, TableReaders
      <3>3. NextRow(r) \in RowsOf(Scanned(r))
        BY <3>1, <3>2 DEF ScanInv
      <3>4. AddVersion(Scanned(r), NextRow(r), tx[r], NULL)
        BY <2>1 DEF VisitTruncate
      <3> QED
        BY <3>1, <3>3, <3>4, AddVersionRows
    <2>2. CASE VisitSelect(r) \/ VisitJoin(r)
      BY <1>1, <2>2 DEF VisitSelect, VisitJoin
    <2> QED
      BY <1>5, <2>1, <2>2 DEF Visit
  <1>6. ASSUME NEW r \in Requests,
               HandleCommand(r) \/ InsertFind(r) \/ ScanFind(r) \/ ScanLock(r)
               \/ Probe(r) \/ ScanEnd(r) \/ Reply(r)
        PROVE  UNCHANGED versions
    BY <1>6 DEF HandleCommand, InsertFind, ScanFind, ScanLock, Probe, ScanEnd, Reply
  <1>7. CASE StartTask \/ UNCHANGED vars
    BY <1>1, <1>7 DEF StartTask, vars
  <1> QED
    BY <1>1, <1>2, <1>3, <1>4, <1>5, <1>6, <1>7 DEF Next, Task, Stopped

\* A scan of t after a step is one from before, with no more to do, or one that
\* has just taken the lock and found all rows.
LEMMA ReadersOfStep ==
    ASSUME TypeOK, ControlOK, [Next]_vars,
           NEW t \in TableNames, NEW r \in TableReaders(t)'
    PROVE  \/ r \in TableReaders(t) /\ todo'[r] \subseteq todo[r]
           \/ UNCHANGED versions /\ todo'[r] = RowsOf(t)
  <1>1. /\ r \in Requests /\ pc'[r] \in {"visit", "probe"}
        /\ (IF pass'[r] = 1 THEN cmd'[r].table ELSE cmd'[r].other) = t
    BY DEF TableReaders, Scanned
  <1> DEFINE Old == r \in TableReaders(t) /\ todo'[r] \subseteq todo[r]
  <1>2. ASSUME pc[r] \in {"visit", "probe"}, pass'[r] = pass[r], cmd'[r] = cmd[r],
               todo'[r] \subseteq todo[r]
        PROVE  Old
    BY <1>1, <1>2 DEF TableReaders, Scanned
  <1>3. ASSUME NEW q \in Requests, HandleCommand(q) PROVE Old
    BY <1>1, <1>2, <1>3 DEF HandleCommand, TypeOK
  <1>4. CASE StartTask
    BY <1>1, <1>2, <1>4 DEF StartTask, TypeOK
  <1>5. ASSUME NEW q \in Requests, InsertFind(q) \/ InsertCreate(q)
               \/ InsertRowExisting(q) \/ InsertRowNew(q)
        PROVE  Old
    <2>1. /\ pc'[r] = pc[r] \/ pc'[r] \in {"write", "create", "addrow", "reply", "done"}
          /\ UNCHANGED <<pass, cmd, todo>>
      BY <1>1, <1>5
      DEF InsertFind, InsertCreate, InsertRowExisting, InsertRowNew, Answer, TypeOK
    <2> QED
      BY <1>1, <1>2, <2>1
  <1>6. ASSUME NEW q \in Requests, ScanFind(q) \/ ScanEnd(q) \/ Reply(q) PROVE Old
    <2>1. /\ pc'[r] = pc[r] \/ pc'[r] \in {"scan", "reply", "done"}
          /\ UNCHANGED <<cmd, todo>>
          /\ pass'[r] = pass[r] \/ pc'[r] = "scan"
      BY <1>1, <1>6 DEF ScanFind, ScanEnd, Reply, Answer, TypeOK, poolVars
    <2> QED
      BY <1>1, <1>2, <2>1
  <1>7. ASSUME NEW q \in Requests, Visit(q) \/ Probe(q) PROVE Old
    <2>1. /\ UNCHANGED <<cmd, pass>>
          /\ todo' = todo \/ Visited(q)
          /\ pc[q] \in {"visit", "probe"}
          /\ \A p \in Requests : p # q => pc'[p] = pc[p]
      BY <1>7 DEF Visit, Probe, VisitSelect, VisitTruncate, VisitJoin, TypeOK
    <2>2. todo'[r] \subseteq todo[r]
      <3>1. CASE todo' = [todo EXCEPT ![q] = @ \ {NextRow(q)}]
        <4>1. todo \in [Requests -> SUBSET RowIds]
          BY DEF TypeOK
        <4>2. todo'[r] = IF r = q THEN todo[r] \ {NextRow(q)} ELSE todo[r]
          BY <1>1, <3>1, <4>1
        <4> QED
          BY <4>2
      <3> QED
        BY <2>1, <3>1 DEF Visited
    <2>3. pc[r] \in {"visit", "probe"}
      BY <1>1, <2>1
    <2> QED
      BY <1>2, <2>1, <2>2, <2>3
  <1>8. ASSUME NEW q \in Requests, ScanLock(q)
        PROVE  Old \/ (UNCHANGED versions /\ todo'[r] = RowsOf(t))
    <2>1. UNCHANGED <<cmd, pass, versions>>
      BY <1>8 DEF ScanLock
    <2>2. CASE q = r
      <3>1. Scanned(r) = t
        BY <1>1, <2>1 DEF Scanned
      <3>2. todo'[r] = RowsOf(Scanned(r))
        BY <1>1, <1>8, <2>2 DEF ScanLock, TypeOK
      <3> QED
        BY <2>1, <3>1, <3>2
    <2>3. CASE q # r
      <3>1. pc'[r] = pc[r] /\ todo'[r] = todo[r]
        BY <1>1, <1>8, <2>3 DEF ScanLock, TypeOK
      <3> QED
        BY <1>1, <1>2, <2>1, <3>1
    <2> QED
      BY <2>2, <2>3
  <1>9. CASE UNCHANGED vars
    BY <1>1, <1>2, <1>9 DEF vars
  <1> QED
    BY <1>3, <1>4, <1>5, <1>6, <1>7, <1>8, <1>9 DEF Next, Task, Stopped

LEMMA StepScan ==
    ASSUME TypeOK, ControlOK, ScanInv, [Next]_vars
    PROVE  ScanInv'
  <1> SUFFICES ASSUME NEW t \in TableNames, NEW r \in TableReaders(t)'
               PROVE  todo'[r] \subseteq RowsOf(t)'
    BY DEF ScanInv
  <1>1. CASE r \in TableReaders(t) /\ todo'[r] \subseteq todo[r]
    BY <1>1, StepFreezesRows DEF ScanInv
  <1>2. CASE UNCHANGED versions /\ todo'[r] = RowsOf(t)
    BY <1>2 DEF RowsOf
  <1> QED
    BY <1>1, <1>2, ReadersOfStep

\* As long as a scan holds the lock of a table no row comes or goes, and the scan
\* meets nothing but rows: what Iterate claims, and what its iterators rely on.
THEOREM RowsFrozenCorrect == Spec => RowsFrozenDuringScan
  <1> DEFINE IInv == (TypeOK /\ ControlOK) /\ ScanInv
  <1>1. Init => IInv
    <2>1. Init => ScanInv
      BY DEF Init, ScanInv, TableReaders
    <2> QED
      BY <2>1, InitTypes
  <1>2. IInv /\ [Next]_vars => IInv'
    <2> SUFFICES ASSUME IInv, [Next]_vars PROVE IInv'
      OBVIOUS
    <2>1. TypeOK' /\ ControlOK'
      BY StepTypes
    <2>2. ScanInv'
      BY StepScan
    <2> QED
      BY <2>1, <2>2
  <1>3. IInv /\ [Next]_vars => [\A t \in TableNames : ScanUndisturbed(t)]_vars
    <2> SUFFICES ASSUME IInv, [Next]_vars, NEW t \in TableNames
                 PROVE  ScanUndisturbed(t)
      OBVIOUS
    <2>1. ASSUME NEW r \in TableReaders(t) PROVE RowsOf(t)' = RowsOf(t)
      BY <2>1, StepFreezesRows
    <2> QED
      BY <2>1 DEF ScanInv, ScanUndisturbed
  <1> HIDE DEF IInv
  <1> QED
    BY <1>1, <1>2, <1>3, PTL DEF Spec, RowsFrozenDuringScan
-------------------------------------------------------------------------------
(* Values that are read *)

\* v, read from row k of table t by r, was put there by an older transaction.
Reads(r, t, k, v) == v # NULL => v \in Inserts(t, k) /\ tx[v] # 0 /\ tx[v] < tx[r]

\* A version carries the id of the request that inserted it, ...
ValuesOK ==
    \A t \in TableNames, k \in RowIds : \A i \in DOMAIN versions[t][k] :
        versions[t][k][i].val # NULL =>
            /\ versions[t][k][i].val \in Inserts(t, k)
            /\ tx[versions[t][k][i].val] # 0
            /\ tx[versions[t][k][i].val] = versions[t][k][i].tx

\* ... which has drawn it before it writes.
WriterOK == \A r \in Requests : pc[r] \in {"write", "addrow"} => tx[r] # 0

\* What a join holds comes from the least row it has still to visit.
HeldOK ==
    \A r \in Requests : pc[r] = "probe" =>
        \A k \in todo[r] : (\A j \in todo[r] : k <= j) => Reads(r, Scanned(r), k, held[r])

SentOK ==
    \A r \in Requests : \A m \in RowsSent(r) :
        /\ Reads(r, cmd[r].table, m.row, m.left)
        /\ Reads(r, cmd[r].other, m.row, m.right)

ReadInv == ValuesOK /\ WriterOK /\ HeldOK /\ SentOK

\* Commands stay, and so do ids once they are drawn.
StableIds == cmd' = cmd /\ \A q \in Requests : tx[q] # 0 => tx'[q] = tx[q]

LEMMA StepStable ==
    ASSUME TypeOK, TxDrawn, [Next]_vars
    PROVE  StableIds
  <1>1. CASE UNCHANGED <<tx, cmd>>
    BY <1>1 DEF StableIds
  <1>2. ASSUME NEW r \in Requests, NextTx(r), pc[r] \in {"find", "create"}, UNCHANGED cmd
        PROVE  StableIds
    <2>1. tx[r] = 0
      BY <1>2 DEF TxDrawn
    <2> QED
      BY <1>2, <2>1 DEF NextTx, StableIds, TypeOK
  <1>3. ASSUME NEW r \in Requests, InsertFind(r) \/ InsertCreate(r) \/ ScanFind(r)
        PROVE  StableIds
    BY <1>1, <1>2, <1>3 DEF InsertFind, InsertCreate, ScanFind
  <1>4. ASSUME NEW r \in Requests,
               HandleCommand(r) \/ InsertRowExisting(r) \/ InsertRowNew(r)
               \/ ScanLock(r) \/ Visit(r) \/ Probe(r) \/ ScanEnd(r) \/ Reply(r)
        PROVE  UNCHANGED <<tx, cmd>>
    BY <1>4 DEF HandleCommand, InsertRowExisting, InsertRowNew, ScanLock, Visit, Probe,
                ScanEnd, Reply
  <1>5. CASE StartTask \/ UNCHANGED vars
    BY <1>1, <1>5 DEF StartTask, vars
  <1> QED
    BY <1>1, <1>3, <1>4, <1>5 DEF Next, Task, Stopped

LEMMA ReadsStable ==
    ASSUME TypeOK, StableIds, NEW r \in Requests, NEW t, NEW k, NEW v, Reads(r, t, k, v)
    PROVE  Reads(r, t, k, v)'
  <1> SUFFICES ASSUME v # NULL
               PROVE  v \in Inserts(t, k)' /\ tx'[v] # 0 /\ tx'[v] < tx'[r]
    BY DEF Reads
  <1>1. v \in Inserts(t, k) /\ tx[v] # 0 /\ tx[v] < tx[r] /\ v \in Requests
    BY DEF Reads, Inserts, InsertsInto
  <1>2. v \in Inserts(t, k)'
    BY <1>1 DEF StableIds, Inserts, InsertsInto
  <1>3. tx[v] \in Nat /\ tx[r] \in Nat /\ tx[r] # 0
    BY <1>1 DEF TypeOK
  <1>4. tx'[v] = tx[v] /\ tx'[r] = tx[r]
    BY <1>1, <1>3 DEF StableIds
  <1> QED
    BY <1>1, <1>2, <1>4

\* What GetVersion returns to a scan is older than the scan.
LEMMA LookupReads ==
    ASSUME TypeOK, TxOrder, ValuesOK, NEW r \in Requests, IsScan(r),
           NEW t \in TableNames, NEW k \in RowIds
    PROVE  Reads(r, t, k, GetVersion(versions[t][k], tx[r]))
  <1> DEFINE list == versions[t][k]
             v == GetVersion(list, tx[r])
  <1>1. list \in Seq(Version) /\ tx[r] \in Nat
    BY DEF TypeOK
  <1> SUFFICES ASSUME v # NULL
               PROVE  v \in Inserts(t, k) /\ tx[v] # 0 /\ tx[v] < tx[r]
    BY DEF Reads
  <1>2. PICK i \in Passed(list, tx[r]) : v = list[i].val
    BY <1>1, GetVersionProperties
  <1>3. i \in DOMAIN list /\ DOMAIN list = 1 .. Len(list) /\ Len(list) \in Nat
    BY <1>1, LenProperties DEF Passed
  <1>4. list[i].tx <= tx[r]
    <2>1. i \in 1 .. i
      BY <1>3
    <2> QED
      BY <1>2, <2>1 DEF Passed
  <1>5. v \in Inserts(t, k) /\ tx[v] # 0 /\ tx[v] = list[i].tx
    BY <1>2, <1>3 DEF ValuesOK
  <1>6. v \in Requests /\ v # r /\ tx[v] \in Nat
    BY <1>5 DEF Inserts, InsertsInto, IsScan, TypeOK
  <1>7. tx[r] # 0
    BY <1>1, <1>4, <1>5, <1>6
  <1>8. tx[v] # tx[r]
    BY <1>5, <1>6, <1>7 DEF TxOrder
  <1> QED
    BY <1>1, <1>4, <1>5, <1>6, <1>8

LEMMA AddVersionValues ==
    ASSUME TypeOK, StableIds, ValuesOK,
           NEW t \in TableNames, NEW k \in RowIds, NEW n \in Nat, NEW v \in Values,
           AddVersion(t, k, n, v),
           v # NULL => v \in Inserts(t, k) /\ n # 0 /\ tx'[v] = n
    PROVE  ValuesOK'
  <1> SUFFICES ASSUME NEW u \in TableNames, NEW l \in RowIds,
                      NEW i \in DOMAIN versions'[u][l],
                      versions'[u][l][i].val # NULL
               PROVE  /\ versions'[u][l][i].val \in Inserts(u, l)'
                      /\ tx'[versions'[u][l][i].val] # 0
                      /\ tx'[versions'[u][l][i].val] = versions'[u][l][i].tx
    BY DEF ValuesOK
  <1>1. Inserts(u, l)' = Inserts(u, l) /\ Inserts(u, l) \subseteq Requests
    BY DEF StableIds, Inserts, InsertsInto
  <1>2. CASE i \in DOMAIN versions[u][l] /\ versions'[u][l][i] = versions[u][l][i]
    BY <1>1, <1>2 DEF ValuesOK, StableIds
  <1>3. CASE u = t /\ l = k /\ versions'[u][l][i] = [tx |-> n, val |-> v]
    BY <1>1, <1>3
  <1>4. CASE UNCHANGED versions
    BY <1>2, <1>4
  <1>5. CASE versions' = [versions EXCEPT ![t][k] = Append(@, [tx |-> n, val |-> v])]
    <2>1. CASE u = t /\ l = k
      <3>1. versions'[u][l] = Append(versions[t][k], [tx |-> n, val |-> v])
        BY <1>5, <2>1 DEF TypeOK
      <3>2. versions[t][k] \in Seq(Version) /\ [tx |-> n, val |-> v] \in Version
        BY DEF TypeOK, Version
      <3>3. /\ DOMAIN versions[t][k] = 1 .. Len(versions[t][k])
            /\ DOMAIN versions'[u][l] = 1 .. Len(versions[t][k]) + 1
            /\ Len(versions[t][k]) \in Nat
            /\ \A j \in 1 .. Len(versions[t][k]) : versions'[u][l][j] = versions[t][k][j]
            /\ versions'[u][l][Len(versions[t][k]) + 1] = [tx |-> n, val |-> v]
        BY <3>1, <3>2, AppendProperties, LenProperties
      <3>4. i \in 1 .. Len(versions[t][k]) \/ i = Len(versions[t][k]) + 1
        BY <3>3
      <3> QED
        BY <1>2, <1>3, <2>1, <3>3, <3>4
    <2>2. CASE ~ (u = t /\ l = k)
      <3>1. versions'[u][l] = versions[u][l]
        BY <1>5, <2>2 DEF TypeOK
      <3> QED
        BY <1>2, <3>1
    <2> QED
      BY <2>1, <2>2
  <1> QED
    BY <1>4, <1>5 DEF AddVersion

LEMMA StepValues ==
    ASSUME TypeOK, ControlOK, TxDrawn, ValuesOK, WriterOK, [Next]_vars
    PROVE  ValuesOK'
  <1> StableIds
    BY StepStable
  <1>1. CASE UNCHANGED versions
    <2>1. \A t, k : Inserts(t, k)' = Inserts(t, k) /\ Inserts(t, k) \subseteq Requests
      BY DEF StableIds, Inserts, InsertsInto
    <2> QED
      BY <1>1, <2>1 DEF ValuesOK, StableIds
  <1>2. ASSUME NEW r \in Requests, InsertCreate(r) PROVE ValuesOK'
    <2>1. /\ cmd[r].table \in TableNames /\ cmd[r].row \in RowIds
          /\ txCounter + 1 \in Nat \ {0} /\ r \in Values
          /\ r \in Inserts(cmd[r].table, cmd[r].row)
      BY <1>2, CommandFields
      DEF InsertCreate, ControlOK, TypeOK, Values, Inserts, InsertsInto
    <2>2. tx'[r] = txCounter + 1
      BY <1>2 DEF InsertCreate, NextTx, TypeOK
    <2> QED
      BY <1>2, <2>1, <2>2, AddVersionValues DEF InsertCreate
  <1>3. ASSUME NEW r \in Requests, InsertRowExisting(r) \/ InsertRowNew(r)
        PROVE  ValuesOK'
    <2>1. /\ cmd[r].table \in TableNames /\ cmd[r].row \in RowIds
          /\ tx[r] \in Nat /\ r \in Values
          /\ r \in Inserts(cmd[r].table, cmd[r].row)
      BY <1>3, CommandFields
      DEF InsertRowExisting, InsertRowNew, ControlOK, TypeOK, Values, Inserts, InsertsInto
    <2>2. tx[r] # 0 /\ tx' = tx
      BY <1>3 DEF InsertRowExisting, InsertRowNew, WriterOK
    <2>3. AddVersion(cmd[r].table, cmd[r].row, tx[r], r) \/ UNCHANGED versions
      BY <1>3 DEF InsertRowExisting, InsertRowNew
    <2> QED
      BY <1>1, <2>1, <2>2, <2>3, AddVersionValues
  <1>4. ASSUME NEW r \in Requests, Visit(r) PROVE ValuesOK'
    <2>1. /\ NextRow(r) \in RowIds /\ Scanned(r) \in TableNames
          /\ tx[r] \in Nat /\ NULL \in Values
      BY <1>4, NextRowInTodo, ScannedType DEF Visit, TypeOK, Values
    <2>2. AddVersion(Scanned(r), NextRow(r), tx[r], NULL) \/ UNCHANGED versions
      BY <1>4 DEF Visit, VisitSelect, VisitTruncate, VisitJoin
    <2> QED
      BY <1>1, <2>1, <2>2, AddVersionValues
  <1>5. ASSUME NEW r \in Requests,
               HandleCommand(r) \/ InsertFind(r) \/ ScanFind(r) \/ ScanLock(r)
               \/ Probe(r) \/ ScanEnd(r) \/ Reply(r)
        PROVE  UNCHANGED versions
    BY <1>5 DEF HandleCommand, InsertFind, ScanFind, ScanLock, Probe, ScanEnd, Reply
  <1>6. CASE StartTask \/ UNCHANGED vars
    BY <1>1, <1>6 DEF StartTask, vars
  <1> QED
    BY <1>1, <1>2, <1>3, <1>4, <1>5, <1>6 DEF Next, Task, Stopped

LEMMA StepWriter ==
    ASSUME TypeOK, TxDrawn, WriterOK, [Next]_vars
    PROVE  WriterOK'
  <1> StableIds
    BY StepStable
  <1> SUFFICES ASSUME NEW p \in Requests, pc'[p] \in {"write", "addrow"}
               PROVE  tx'[p] # 0
    BY DEF WriterOK
  <1>1. CASE pc[p] \in {"write", "addrow"}
    BY <1>1 DEF WriterOK, StableIds
  <1>2. ASSUME NEW r \in Requests, InsertFind(r) PROVE tx'[p] # 0
    <2>1. txCounter + 1 # 0
      BY DEF TypeOK
    <2> QED
      BY <1>1, <1>2, <2>1 DEF InsertFind, NextTx, TypeOK
  <1>3. ASSUME NEW r \in Requests,
               HandleCommand(r) \/ InsertCreate(r) \/ InsertRowExisting(r) \/ InsertRowNew(r)
               \/ ScanFind(r) \/ ScanLock(r) \/ Visit(r) \/ Probe(r) \/ ScanEnd(r) \/ Reply(r)
        PROVE  pc[p] \in {"write", "addrow"}
    BY <1>3
    DEF HandleCommand, InsertCreate, InsertRowExisting, InsertRowNew, ScanFind, ScanLock,
        Visit, VisitSelect, VisitTruncate, VisitJoin, Probe, ScanEnd, Reply, Answer, TypeOK
  <1>4. CASE StartTask
    BY <1>1, <1>4 DEF StartTask, TypeOK
  <1>5. CASE UNCHANGED vars
    BY <1>1, <1>5 DEF vars
  <1> QED
    BY <1>1, <1>2, <1>3, <1>4, <1>5 DEF Next, Task, Stopped

\* A step leaves what a join holds as it is, or is the one that reads it.
LEMMA StepHeld ==
    ASSUME TypeOK, ControlOK, TxDrawn, TxOrder, ReadInv, [Next]_vars
    PROVE  HeldOK'
  <1> StableIds
    BY StepStable
  <1> SUFFICES ASSUME NEW p \in Requests, pc'[p] = "probe",
                      NEW k \in todo'[p], \A j \in todo'[p] : k <= j
               PROVE  Reads(p, Scanned(p), k, held[p])'
    BY DEF HeldOK
  <1>1. CASE pc[p] = "probe" /\ todo'[p] = todo[p] /\ pass'[p] = pass[p] /\ held'[p] = held[p]
    <2>1. Scanned(p)' = Scanned(p)
      BY <1>1 DEF Scanned, StableIds
    <2>2. Reads(p, Scanned(p), k, held[p])
      BY <1>1 DEF ReadInv, HeldOK
    <2>3. ASSUME NEW t, NEW v, t = Scanned(p), v = held[p] PROVE Reads(p, t, k, v)'
      BY <2>2, <2>3, ReadsStable
    <2> QED
      BY <1>1, <2>1, <2>3 DEF Reads
  <1>2. ASSUME NEW r \in Requests, Visit(r) PROVE Reads(p, Scanned(p), k, held[p])'
    <2>1. CASE p = r
      <3>1. /\ VisitJoin(r) /\ pc[r] = "visit" /\ todo[r] # {} /\ tx' = tx
            /\ UNCHANGED <<cmd, pass>>
        BY <1>2, <2>1 DEF Visit, VisitSelect, VisitTruncate, VisitJoin
      <3>2. Seen(r) # NULL
        BY <2>1, <3>1 DEF VisitJoin
      <3>3. held'[r] = Seen(r) /\ todo' = todo
        BY <3>1, <3>2 DEF VisitJoin, TypeOK
      <3>4. k = NextRow(r)
        <4>1. /\ NextRow(r) \in todo[r] /\ todo[r] \subseteq Nat
              /\ \A j \in todo[r] : NextRow(r) <= j
          BY <3>1, NextRowInTodo, RowIdsAssumption DEF TypeOK
        <4> QED
          BY <2>1, <3>3, <4>1
      <3>5. Reads(r, Scanned(r), NextRow(r), Seen(r))
        <4>1. NextRow(r) \in RowIds /\ Scanned(r) \in TableNames /\ IsScan(r)
          BY <3>1, NextRowInTodo, ScannedType DEF ControlOK
        <4> QED
          BY <4>1, LookupReads DEF Seen, ReadInv
      <3>6. Scanned(r)' = Scanned(r)
        BY <3>1 DEF Scanned
      <3>7. ASSUME NEW t, NEW v, t = Scanned(r), v = Seen(r) PROVE Reads(r, t, k, v)'
        BY <3>4, <3>5, <3>7, ReadsStable
      <3> QED
        BY <2>1, <3>3, <3>6, <3>7 DEF Reads
    <2>2. CASE p # r
      <3>1. /\ pc'[p] = pc[p] /\ todo'[p] = todo[p] /\ held'[p] = held[p]
            /\ UNCHANGED pass
        BY <1>2, <2>2 DEF Visit, VisitSelect, VisitTruncate, VisitJoin, Visited, TypeOK
      <3> QED
        BY <1>1, <3>1
    <2> QED
      BY <2>1, <2>2
  <1>3. ASSUME NEW r \in Requests,
               HandleCommand(r) \/ InsertFind(r) \/ InsertCreate(r) \/ InsertRowExisting(r)
               \/ InsertRowNew(r) \/ ScanFind(r) \/ Reply(r)
        PROVE  pc[p] = "probe" /\ UNCHANGED <<todo, pass, held>>
    BY <1>3
    DEF HandleCommand, InsertFind, InsertCreate, InsertRowExisting, InsertRowNew, ScanFind,
        Reply, Answer, TypeOK
  <1>4. ASSUME NEW r \in Requests, ScanLock(r) \/ Probe(r) \/ ScanEnd(r)
        PROVE  /\ pc[p] = "probe"
               /\ todo'[p] = todo[p] /\ pass'[p] = pass[p] /\ held'[p] = held[p]
    <2>1. p # r
      BY <1>4 DEF ScanLock, Probe, ScanEnd, TypeOK
    <2> QED
      BY <1>4, <2>1 DEF ScanLock, Probe, ScanEnd, Visited, TypeOK
  <1>5. CASE StartTask
    BY <1>1, <1>5 DEF StartTask, TypeOK
  <1>6. CASE UNCHANGED vars
    BY <1>1, <1>6 DEF vars
  <1> QED
    BY <1>1, <1>2, <1>3, <1>4, <1>5, <1>6 DEF Next, Task, Stopped

\* Sending more keeps SentOK if what is sent was read as it should be.
LEMMA SendReads ==
    ASSUME TypeOK, StableIds, SentOK, NEW r \in Requests,
           NEW more \in Seq(RowMessages \union StatusMessages),
           out' = [out EXCEPT ![r] = @ \o more],
           \A i \in DOMAIN more : more[i].kind = "row" =>
               /\ Reads(r, cmd[r].table, more[i].row, more[i].left)
               /\ Reads(r, cmd[r].other, more[i].row, more[i].right)
    PROVE  SentOK'
  <1> DEFINE Right(p, m) == /\ Reads(p, cmd[p].table, m.row, m.left)
                            /\ Reads(p, cmd[p].other, m.row, m.right)
  <1> SUFFICES ASSUME NEW p \in Requests, NEW i \in DOMAIN out'[p], out'[p][i].kind = "row"
               PROVE  /\ Reads(p, cmd[p].table, out[p][i].row, out[p][i].left)'
                      /\ Reads(p, cmd[p].other, out[p][i].row, out[p][i].right)'
    BY DEF SentOK, RowsSent, Messages
  <1>1. ASSUME NEW m, Right(p, m)
        PROVE  /\ Reads(p, cmd[p].table, m.row, m.left)'
               /\ Reads(p, cmd[p].other, m.row, m.right)'
    <2>1. ASSUME NEW t, NEW u, t = cmd[p].table, u = cmd[p].other
          PROVE  Reads(p, t, m.row, m.left)' /\ Reads(p, u, m.row, m.right)'
      BY <1>1, <2>1, ReadsStable
    <2> QED
      BY <2>1 DEF StableIds, Reads
  <1>2. CASE i \in DOMAIN out[p] /\ out'[p][i] = out[p][i]
    <2>1. Right(p, out[p][i])
      BY <1>2 DEF SentOK, RowsSent, Messages
    <2> QED
      BY <1>1, <1>2, <2>1
  <1>3. CASE p = r /\ \E j \in DOMAIN more : out'[p][i] = more[j]
    <2>1. PICK j \in DOMAIN more : out'[p][i] = more[j]
      BY <1>3
    <2>2. Right(p, more[j])
      BY <1>3, <2>1
    <2> QED
      BY <1>1, <2>1, <2>2
  <1>4. CASE p # r
    BY <1>2, <1>4 DEF TypeOK
  <1>5. CASE p = r
    <2>1. out'[p] = out[p] \o more /\ out[p] \in Seq(RowMessages \union StatusMessages)
      BY <1>5 DEF TypeOK
    <2>2. /\ Len(out[p]) \in Nat /\ Len(more) \in Nat
          /\ DOMAIN out[p] = 1 .. Len(out[p]) /\ DOMAIN more = 1 .. Len(more)
          /\ DOMAIN out'[p] = 1 .. Len(out[p]) + Len(more)
          /\ \A j \in 1 .. Len(out[p]) : out'[p][j] = out[p][j]
          /\ \A j \in Len(out[p]) + 1 .. Len(out[p]) + Len(more) :
                out'[p][j] = more[j - Len(out[p])]
      BY <2>1, ConcatProperties, LenProperties
    <2>3. CASE i \in 1 .. Len(out[p])
      BY <1>2, <2>2, <2>3
    <2>4. CASE i \in Len(out[p]) + 1 .. Len(out[p]) + Len(more)
      <3>1. i - Len(out[p]) \in DOMAIN more
        BY <2>2, <2>4
      <3> QED
        BY <1>3, <1>5, <2>2, <2>4, <3>1
    <2> QED
      BY <2>2, <2>3, <2>4
  <1> QED
    BY <1>4, <1>5

LEMMA AppendReads ==
    ASSUME TypeOK, StableIds, SentOK, NEW r \in Requests,
           NEW m \in RowMessages \union StatusMessages,
           out' = [out EXCEPT ![r] = Append(@, m)],
           m.kind = "row" => /\ Reads(r, cmd[r].table, m.row, m.left)
                             /\ Reads(r, cmd[r].other, m.row, m.right)
    PROVE  SentOK'
  <1>1. out[r] \in Seq(RowMessages \union StatusMessages)
    BY DEF TypeOK
  <1>2. Append(out[r], m) = out[r] \o <<m>>
    BY <1>1, AppendIsConcat
  <1>3. out' = [out EXCEPT ![r] = @ \o <<m>>]
    BY <1>2 DEF TypeOK
  <1>4. PICK more : more = <<m>>
    OBVIOUS
  <1>5. more \in Seq(RowMessages \union StatusMessages)
    BY <1>4
  <1>6. \A i \in DOMAIN more : more[i] = m
    BY <1>4
  <1>7. out' = [out EXCEPT ![r] = @ \o more]
    BY <1>3, <1>4
  <1>8. \A i \in DOMAIN more : more[i].kind = "row" =>
           /\ Reads(r, cmd[r].table, more[i].row, more[i].left)
           /\ Reads(r, cmd[r].other, more[i].row, more[i].right)
    BY <1>6
  <1> QED
    BY <1>5, <1>7, <1>8, SendReads

\* A status is no row.
LEMMA AnswerReads ==
    ASSUME TypeOK, StableIds, SentOK, NEW r \in Requests, NEW m \in StatusMessages,
           Answer(r, m)
    PROVE  SentOK'
  <1>1. m.kind # "row"
    BY DEF StatusMessages, Success, Error, Status
  <1> QED
    BY <1>1, AppendReads DEF Answer

LEMMA StepSent ==
    ASSUME TypeOK, ControlOK, TxDrawn, TxOrder, ReadInv, [Next]_vars
    PROVE  SentOK'
  <1> StableIds
    BY StepStable
  <1>1. CASE UNCHANGED out
    <2> SUFFICES ASSUME NEW p \in Requests, NEW m \in RowsSent(p)
                 PROVE  /\ Reads(p, cmd[p].table, m.row, m.left)'
                        /\ Reads(p, cmd[p].other, m.row, m.right)'
      BY <1>1 DEF SentOK, RowsSent, Messages
    <2>1. /\ Reads(p, cmd[p].table, m.row, m.left)
          /\ Reads(p, cmd[p].other, m.row, m.right)
      BY DEF ReadInv, SentOK
    <2>2. ASSUME NEW t, NEW u, t = cmd[p].table, u = cmd[p].other
          PROVE  Reads(p, t, m.row, m.left)' /\ Reads(p, u, m.row, m.right)'
      BY <2>1, <2>2, ReadsStable
    <2> QED
      BY <2>2 DEF StableIds, Reads
  <1>2. ASSUME NEW r \in Requests, InsertCreate(r) \/ ScanFind(r) \/ Reply(r)
        PROVE  SentOK'
    BY <1>1, <1>2, AnswerReads, MessageTypes DEF InsertCreate, ScanFind, Reply, ReadInv
  <1>3. ASSUME NEW r \in Requests, Visit(r) PROVE SentOK'
    <2>1. CASE VisitSelect(r) /\ Seen(r) # NULL
      <3>1. /\ NextRow(r) \in RowIds /\ Scanned(r) \in TableNames /\ IsScan(r)
            /\ Seen(r) \in Values /\ NULL \in Values
        BY <1>3, NextRowInTodo, ScannedType, SeenType DEF Visit, ControlOK, Values
      <3>2. Scanned(r) = cmd[r].table
        BY <2>1 DEF VisitSelect, ControlOK, TypeOK, Scanned
      <3>3. Reads(r, cmd[r].table, NextRow(r), Seen(r))
        BY <3>1, <3>2, LookupReads DEF Seen, ReadInv
      <3>4. Reads(r, cmd[r].other, NextRow(r), NULL)
        BY DEF Reads
      <3> DEFINE m == Row(NextRow(r), Seen(r), NULL)
      <3>5. m.row = NextRow(r) /\ m.left = Seen(r) /\ m.right = NULL
        BY DEF Row
      <3>6. m \in RowMessages
        BY <2>1, <3>1, MessageTypes
      <3>7. out' = [out EXCEPT ![r] = Append(@, m)]
        BY <2>1 DEF VisitSelect
      <3> HIDE DEF m
      <3> QED
        BY <3>3, <3>4, <3>5, <3>6, <3>7, AppendReads DEF ReadInv
    <2>2. CASE ~ (VisitSelect(r) /\ Seen(r) # NULL)
      BY <1>1, <1>3, <2>2 DEF Visit, VisitSelect, VisitTruncate, VisitJoin
    <2> QED
      BY <2>1, <2>2
  <1>4. ASSUME NEW r \in Requests, Probe(r) PROVE SentOK'
    <2> DEFINE k == NextRow(r)
               other == GetVersion(versions[Probed(r)][k], tx[r])
    <2>1. /\ k \in RowIds /\ k \in todo[r] /\ \A j \in todo[r] : k <= j
          /\ Probed(r) \in TableNames /\ IsScan(r)
          /\ held[r] \in Values /\ held[r] # NULL /\ NULL \in Values
          /\ cmd[r].op \in {"INTERSECT", "DIFFERENCE"}
          /\ pass[r] \in {1, 2} /\ (pass[r] = 2 => cmd[r].op = "DIFFERENCE")
      BY <1>4, NextRowInTodo, ScannedType DEF Probe, ControlOK, TypeOK, Values
    <2>2. Reads(r, Scanned(r), k, held[r])
      BY <1>4, <2>1 DEF Probe, ReadInv, HeldOK
    <2>3. Reads(r, Probed(r), k, other) /\ other \in Values
      <3>1. versions[Probed(r)][k] \in Seq(Version) /\ tx[r] \in Nat
        BY <2>1 DEF TypeOK
      <3>2. other \in Values
        BY <3>1, GetVersionType
      <3> QED
        BY <2>1, <3>2, LookupReads DEF ReadInv
    <2>4. \A t : Reads(r, t, k, NULL)
      BY DEF Reads
    <2> DEFINE Fine(m) == /\ m \in RowMessages
                          /\ Reads(r, cmd[r].table, m.row, m.left)
                          /\ Reads(r, cmd[r].other, m.row, m.right)
    <2>5. ASSUME NEW v \in Values, NEW w \in Values, v # NULL \/ w # NULL,
                 Reads(r, cmd[r].table, k, v), Reads(r, cmd[r].other, k, w)
          PROVE  Fine(Row(k, v, w))
      <3>1. /\ Row(k, v, w).row = k /\ Row(k, v, w).left = v /\ Row(k, v, w).right = w
        BY DEF Row
      <3>2. Row(k, v, w) \in RowMessages
        BY <2>1, <2>5, MessageTypes
      <3> QED
        BY <2>5, <3>1, <3>2
    <2>6. PICK joined : /\ out' = [out EXCEPT ![r] = @ \o joined]
                        /\ \/ joined = << >>
                           \/ \E m : joined = <<m>> /\ Fine(m)
      <3>1. CASE pass[r] = 1
        <4>1. Scanned(r) = cmd[r].table /\ Probed(r) = cmd[r].other
          BY <3>1 DEF Scanned, Probed
        <4>2. other # NULL => Fine(Row(k, held[r], other))
          BY <2>1, <2>2, <2>3, <2>5, <4>1
        <4>3. Fine(Row(k, held[r], NULL))
          BY <2>1, <2>2, <2>4, <2>5, <4>1
        <4>4. PICK joined : /\ out' = [out EXCEPT ![r] = @ \o joined]
                            /\ \/ joined = << >>
                               \/ other # NULL /\ joined = <<Row(k, held[r], other)>>
                               \/ joined = <<Row(k, held[r], NULL)>>
          BY <1>4, <3>1 DEF Probe
        <4> HIDE DEF Fine
        <4> QED
          BY <4>2, <4>3, <4>4
      <3>2. CASE pass[r] = 2
        <4>1. Scanned(r) = cmd[r].other /\ cmd[r].op = "DIFFERENCE"
          BY <2>1, <3>2 DEF Scanned
        <4>2. Fine(Row(k, NULL, held[r]))
          BY <2>1, <2>2, <2>4, <2>5, <4>1
        <4>3. PICK joined : /\ out' = [out EXCEPT ![r] = @ \o joined]
                            /\ \/ joined = << >>
                               \/ joined = <<Row(k, NULL, held[r])>>
          <5>1. CASE other = NULL
            <6>1. out' = [out EXCEPT ![r] = @ \o <<Row(k, NULL, held[r])>>]
              BY <1>4, <3>2, <4>1, <5>1 DEF Probe
            <6> QED
              BY <6>1
          <5>2. CASE other # NULL
            BY <1>4, <3>2, <4>1, <5>2 DEF Probe
          <5> QED
            BY <5>1, <5>2
        <4> HIDE DEF Fine
        <4> QED
          BY <4>2, <4>3
      <3> QED
        BY <2>1, <3>1, <3>2
    <2>7. /\ joined \in Seq(RowMessages \union StatusMessages)
          /\ \A i \in DOMAIN joined : Fine(joined[i])
      <3>1. CASE joined = << >>
        BY <3>1
      <3>2. ASSUME NEW m, joined = <<m>>, Fine(m)
            PROVE  /\ joined \in Seq(RowMessages \union StatusMessages)
                   /\ \A i \in DOMAIN joined : Fine(joined[i])
        <4>1. m \in RowMessages /\ \A i \in DOMAIN joined : joined[i] = m
          BY <3>2
        <4> HIDE DEF Fine
        <4> QED
          BY <3>2, <4>1
      <3> QED
        BY <2>6, <3>1, <3>2
    <2> QED
      BY <2>6, <2>7, SendReads DEF ReadInv
  <1>5. ASSUME NEW r \in Requests,
               HandleCommand(r) \/ InsertFind(r) \/ InsertRowExisting(r) \/ InsertRowNew(r)
               \/ ScanLock(r) \/ ScanEnd(r)
        PROVE  UNCHANGED out
    BY <1>5 DEF HandleCommand, InsertFind, InsertRowExisting, InsertRowNew, ScanLock, ScanEnd
  <1>6. CASE StartTask \/ UNCHANGED vars
    BY <1>1, <1>6 DEF StartTask, vars
  <1> QED
    BY <1>1, <1>2, <1>3, <1>4, <1>5, <1>6 DEF Next, Task, Stopped

LEMMA ReadInvariant == Spec => []ReadInv
  <1> DEFINE TxInv == (TypeOK /\ ControlOK) /\ QueueOK /\ TxDrawn /\ TxOrder
  <1>1. Init => ReadInv
    <2>1. ASSUME Init, NEW r \in Requests PROVE RowsSent(r) = {} /\ pc[r] = "idle"
      BY <2>1 DEF Init, RowsSent, Messages
    <2>2. ASSUME Init, NEW t \in TableNames, NEW k \in RowIds PROVE DOMAIN versions[t][k] = {}
      BY <2>2 DEF Init
    <2> QED
      BY <2>1, <2>2 DEF ReadInv, ValuesOK, WriterOK, HeldOK, SentOK
  <1>2. TxInv /\ ReadInv /\ [Next]_vars => ReadInv'
    BY StepValues, StepWriter, StepHeld, StepSent DEF ReadInv
  <1>3. Spec => []TxInv
    BY TxInvariant
  <1> HIDE DEF TxInv
  <1> QED
    BY <1>1, <1>2, <1>3, PTL DEF Spec

\* A row that is sent was inserted by an older transaction: snapshots never show
\* the future, not even where versions are out of the order of their ids.
THEOREM NoFutureReadCorrect == Spec => []NoFutureRead
  <1>1. ReadInv => NoFutureRead
    BY DEF ReadInv, SentOK, Reads, NoFutureRead
  <1> QED
    BY <1>1, ReadInvariant, PTL

-------------------------------------------------------------------------------
(* The queues of results are the streams of ResultStream *)

\* A task that goes from one place to another while it runs does not change
\* the state of its stream.
LEMMA StateKept ==
    ASSUME TypeOK, UNCHANGED pc \/ \E r \in Requests : \E l :
               /\ pc[r] \notin {"idle", "done"} /\ l \notin {"idle", "done"}
               /\ pc' = [pc EXCEPT ![r] = l]
    PROVE  UNCHANGED StreamState
  <1>1. CASE UNCHANGED pc
    BY <1>1 DEF StreamState
  <1>2. ASSUME NEW r \in Requests, NEW l,
               pc[r] \notin {"idle", "done"}, l \notin {"idle", "done"},
               pc' = [pc EXCEPT ![r] = l]
        PROVE  UNCHANGED StreamState
    <2>1. pc'[r] = l /\ \A q \in Requests : q # r => pc'[q] = pc[q]
      BY <1>2 DEF TypeOK
    <2>2. \A q \in Requests : (pc'[q] = "idle" <=> pc[q] = "idle")
                              /\ (pc'[q] = "done" <=> pc[q] = "done")
      BY <1>2, <2>1
    <2> QED
      BY <2>2 DEF StreamState
  <1> QED
    BY <1>1, <1>2

\* A row sent by a task is an Emit of its stream ...
LEMMA RowEmitted ==
    ASSUME TypeOK, NEW r \in Requests, pc[r] \notin {"idle", "done"},
           NEW m \in RowMessages, UNCHANGED StreamState,
           out' = [out EXCEPT ![r] = Append(@, m)]
    PROVE  Stream!StreamNext
  <1>1. StreamState[r] = "open"
    BY DEF StreamState
  <1>2. Stream!Emit(r)
    BY <1>1 DEF Stream!Emit
  <1> QED
    BY <1>2 DEF Stream!StreamNext

\* ... and the status with which it returns is the Close.
LEMMA AnswerCloses ==
    ASSUME TypeOK, NEW r \in Requests, pc[r] \notin {"idle", "done"},
           NEW s \in StatusMessages, Answer(r, s)
    PROVE  Stream!StreamNext
  <1>1. StreamState[r] = "open"
    BY DEF StreamState
  <1>2. pc'[r] = "done" /\ \A q \in Requests : q # r => pc'[q] = pc[q]
    BY DEF Answer, TypeOK
  <1>3. StreamState' = [StreamState EXCEPT ![r] = "closed"]
    BY <1>2 DEF StreamState
  <1>4. Stream!Close(r)
    BY <1>1, <1>3 DEF Stream!Close, Answer
  <1> QED
    BY <1>4 DEF Stream!StreamNext

LEMMA StreamInitMaps == Init => Stream!StreamInit
  BY DEF Init, StreamState, Stream!StreamInit

LEMMA TaskStreams ==
    ASSUME TypeOK, ControlOK, NEW r \in Requests, Task(r)
    PROVE  [Stream!StreamNext]_(Stream!streamVars)
  <1>0. ASSUME UNCHANGED out, pc[r] \notin {"idle", "done"},
               pc' = pc \/ \E l \in Locations \ {"idle", "done"} : pc' = [pc EXCEPT ![r] = l]
        PROVE  [Stream!StreamNext]_(Stream!streamVars)
    <2>1. UNCHANGED StreamState
      BY <1>0, StateKept
    <2> QED
      BY <1>0, <2>1 DEF Stream!streamVars
  <1>1. CASE InsertFind(r)
    BY <1>1, <1>0 DEF InsertFind, Locations
  <1>2. CASE InsertCreate(r)
    BY <1>2, AnswerCloses, MessageTypes DEF InsertCreate
  <1>3. CASE InsertRowExisting(r)
    BY <1>3, <1>0 DEF InsertRowExisting, Locations
  <1>4. CASE InsertRowNew(r)
    BY <1>4, <1>0 DEF InsertRowNew, Locations
  <1>5. CASE ScanFind(r)
    <2>1. CASE Answer(r, Error)
      BY <1>5, <2>1, AnswerCloses, MessageTypes DEF ScanFind
    <2>2. CASE UNCHANGED out /\ pc' = [pc EXCEPT ![r] = "scan"]
      BY <1>5, <2>2, <1>0 DEF ScanFind, Locations
    <2> QED
      BY <1>5, <2>1, <2>2 DEF ScanFind
  <1>6. CASE ScanLock(r)
    BY <1>6, <1>0 DEF ScanLock, Locations
  <1>7. CASE Visit(r)
    <2>1. /\ NextRow(r) \in RowIds /\ Seen(r) \in Values /\ NULL \in Values
          /\ pc[r] = "visit"
      BY <1>7, NextRowInTodo, SeenType DEF Visit, Values
    <2>2. CASE VisitSelect(r) /\ Seen(r) # NULL
      <3>1. Row(NextRow(r), Seen(r), NULL) \in RowMessages
        BY <2>1, <2>2, MessageTypes
      <3>2. /\ out' = [out EXCEPT ![r] = Append(@, Row(NextRow(r), Seen(r), NULL))]
            /\ UNCHANGED pc
        BY <2>2 DEF VisitSelect
      <3> QED
        BY <2>1, <3>1, <3>2, StateKept, RowEmitted
    <2>3. CASE VisitSelect(r) /\ Seen(r) = NULL
      BY <2>1, <2>3, <1>0 DEF VisitSelect, Locations
    <2>4. CASE VisitTruncate(r)
      BY <2>1, <2>4, <1>0 DEF VisitTruncate, Locations
    <2>5. CASE VisitJoin(r)
      BY <2>1, <2>5, <1>0 DEF VisitJoin, Locations
    <2> QED
      BY <1>7, <2>2, <2>3, <2>4, <2>5 DEF Visit
  <1>8. CASE Probe(r)
    <2> DEFINE other == GetVersion(versions[Probed(r)][NextRow(r)], tx[r])
    <2>1. /\ NextRow(r) \in RowIds /\ Probed(r) \in TableNames
          /\ held[r] \in Values /\ held[r] # NULL /\ NULL \in Values
          /\ pc[r] = "probe"
      BY <1>8, NextRowInTodo, ScannedType DEF Probe, ControlOK, TypeOK, Values
    <2>2. other \in Values
      <3>1. versions[Probed(r)][NextRow(r)] \in Seq(Version) /\ tx[r] \in Nat
        BY <2>1 DEF TypeOK
      <3> QED
        BY <3>1, GetVersionType
    <2>3. UNCHANGED StreamState
      <3>1. pc' = [pc EXCEPT ![r] = "visit"]
        BY <1>8 DEF Probe
      <3> QED
        BY <2>1, <3>1, StateKept
    <2>4. PICK joined : /\ out' = [out EXCEPT ![r] = @ \o joined]
                        /\ \/ joined = << >>
                           \/ other # NULL /\ joined = <<Row(NextRow(r), held[r], other)>>
                           \/ joined = <<Row(NextRow(r), held[r], NULL)>>
                           \/ joined = <<Row(NextRow(r), NULL, held[r])>>
      BY <1>8 DEF Probe
    <2> HIDE DEF other
    <2>5. joined = << >> \/ \E m \in RowMessages : joined = <<m>>
      BY <2>1, <2>2, <2>4, MessageTypes
    <2>6. out[r] \in Seq(RowMessages \union StatusMessages)
      BY DEF TypeOK
    <2>7. CASE joined = << >>
      <3>1. out[r] \o joined = out[r]
        BY <2>6, <2>7, ConcatEmptySeq
      <3>2. UNCHANGED out
        BY <2>4, <3>1 DEF TypeOK
      <3> QED
        BY <2>3, <3>2 DEF Stream!streamVars
    <2>8. ASSUME NEW m \in RowMessages, joined = <<m>>
          PROVE  Stream!StreamNext
      <3>1. out[r] \o joined = Append(out[r], m)
        BY <2>6, <2>8, AppendIsConcat
      <3>2. out' = [out EXCEPT ![r] = Append(@, m)]
        BY <2>4, <3>1 DEF TypeOK
      <3> QED
        BY <2>1, <2>3, <3>2, RowEmitted
    <2> QED
      BY <2>5, <2>7, <2>8
  <1>9. CASE ScanEnd(r)
    BY <1>9, <1>0 DEF ScanEnd, Locations
  <1>10. CASE Reply(r)
    BY <1>10, AnswerCloses, MessageTypes DEF Reply
  <1> QED
    BY <1>1, <1>2, <1>3, <1>4, <1>5, <1>6, <1>7, <1>8, <1>9, <1>10 DEF Task

\* Every step of the database is a step of one of the streams, or none of them:
\* rows are sent between the issue of a command and its status only, and there
\* is one status, which comes with the return of the task.
LEMMA StreamStepMaps ==
    (TypeOK /\ ControlOK) /\ QueueOK /\ [Next]_vars
        => [Stream!StreamNext]_(Stream!streamVars)
  <1> SUFFICES ASSUME TypeOK, ControlOK, QueueOK, [Next]_vars
               PROVE  [Stream!StreamNext]_(Stream!streamVars)
    OBVIOUS
  <1>1. ASSUME NEW r \in Requests, HandleCommand(r) PROVE Stream!StreamNext
    <2>1. /\ pc'[r] = "queued" /\ \A q \in Requests : q # r => pc'[q] = pc[q]
          /\ pc[r] = "idle" /\ UNCHANGED out
      BY <1>1 DEF HandleCommand, TypeOK
    <2>2. StreamState[r] = "idle" /\ StreamState' = [StreamState EXCEPT ![r] = "open"]
      BY <2>1 DEF StreamState
    <2>3. Stream!Open(r)
      BY <2>1, <2>2 DEF Stream!Open
    <2> QED
      BY <2>3 DEF Stream!StreamNext
  <1>2. ASSUME StartTask PROVE UNCHANGED Stream!streamVars
    <2>1. Head(pending) \in Requests /\ pc[Head(pending)] = "queued"
      BY <1>2, QueueStart
    <2>2. pc' = [pc EXCEPT ![Head(pending)] = "find"] /\ UNCHANGED out
      BY <1>2 DEF StartTask
    <2> QED
      BY <2>1, <2>2, StateKept DEF Stream!streamVars
  <1>3. ASSUME UNCHANGED vars PROVE UNCHANGED Stream!streamVars
    BY <1>3, StateKept DEF vars, Stream!streamVars
  <1> QED
    BY <1>1, <1>2, <1>3, TaskStreams DEF Next, Stopped

\* The reader of a TResultQueue finds what ResultStream promises, whatever else
\* the database is doing: some rows, none of them empty, then one status and
\* nothing after it.
THEOREM ImplementsStreamSafety == Spec => Stream!StreamSafety
  <1>1. Spec => []((TypeOK /\ ControlOK) /\ QueueOK)
    BY TxInvariant, PTL
  <1> QED
    BY <1>1, StreamInitMaps, StreamStepMaps, PTL DEF Spec, Stream!StreamSafety

-------------------------------------------------------------------------------
(***************************************************************************)
(* ReadsAreRegular.                                                        *)
(*                                                                         *)
(* The list of a row need not be in the order of the ids, but what         *)
(* precedes the version of an answered request was appended, and so had    *)
(* drawn its id, before any request issued later drew one (OlderOK).       *)
(* Hence GetVersion passes every version of a request that was answered    *)
(* before the reader was issued, and returns that one or one behind it.    *)
(* Answered inserts have their version (InsertedOK), answered truncations  *)
(* theirs on every row that was there when they were issued                *)
(* (TruncatedOK).  Scans then account for every row (SettledOK).           *)
(***************************************************************************)

HasVersion(t, k, n) == \E i \in DOMAIN versions[t][k] : versions[t][k][i].tx = n

-------------------------------------------------------------------------------
(* The invariant of the lists *)

\* Requests that have been answered: their table is there, they have an id
\* unless they failed, and nothing was answered before they were issued.
AnsweredOK ==
    \A r \in Requests :
        /\ pc[r] = "idle" => before[r] = {}
        /\ cmd[r].op = "INSERT" /\ pc[r] \in {"write", "addrow", "reply", "done"}
             => cmd[r].table \in created
        /\ pc[r] \in {"scan", "visit", "probe", "reply"} => tx[r] # 0
        /\ pc[r] = "done" => tx[r] # 0 \/ Error \in Messages(r)
        /\ Success \in Messages(r) \/ Error \in Messages(r) => pc[r] = "done"

\* A lookup fails only while the table has no insert that was answered.
ErrorOK ==
    \A r \in Requests :
        Error \in Messages(r) =>
            \E t \in TablesOf(cmd[r]) : InsertsInto(t) \intersect before[r] = {}

\* A deletion carries the id of the truncation that made it.
DeletedOK ==
    \A t \in TableNames, k \in RowIds : \A i \in DOMAIN versions[t][k] :
        versions[t][k][i].val = NULL =>
            \E x \in Truncates(t) : tx[x] # 0 /\ tx[x] = versions[t][k][i].tx

\* Up to the version of a request answered before r was issued, all versions
\* are older than r.
OlderOK ==
    \A t \in TableNames, k \in RowIds, r \in Requests :
        tx[r] # 0 =>
            \A w \in before[r], j \in DOMAIN versions[t][k] :
                versions[t][k][j].tx = tx[w] =>
                    \A i \in 1 .. j : versions[t][k][i].tx < tx[r]

InsertedOK ==
    ~aborted =>
        \A w \in Requests :
            cmd[w].op = "INSERT" /\ pc[w] \in {"reply", "done"}
                => HasVersion(cmd[w].table, cmd[w].row, tx[w])

\* A truncation deletes every row that an insert answered before it has made.
TruncatedOK ==
    ~aborted =>
        \A x \in Requests, k \in RowIds :
            /\ cmd[x].op = "TRUNCATE"
            /\ pc[x] = "visit" \/ (pc[x] \in {"reply", "done"} /\ tx[x] # 0)
            /\ Inserts(cmd[x].table, k) \intersect before[x] # {}
            => \/ pc[x] = "visit" /\ k \in todo[x]
               \/ HasVersion(cmd[x].table, k, tx[x])

ListInv ==
    AnsweredOK /\ ErrorOK /\ DeletedOK /\ OlderOK /\ InsertedOK /\ TruncatedOK

-------------------------------------------------------------------------------
(* The invariant of the scans *)

\* v may be what r reads of row k of t, for good.
Could(r, t, k, v) ==
    IF v = NULL THEN CouldBeNull(r, t, k) ELSE tx[v] # 0 /\ CouldBeValue(r, t, k, v)

Reader(r) == cmd[r].op \in {"SELECT", "INTERSECT", "DIFFERENCE"}
IsJoin(r) == cmd[r].op \in {"INTERSECT", "DIFFERENCE"}

\* What r has sent of row k.
Sent(r, k) == {m \in RowsSent(r) : m.row = k}

\* Row k is accounted for by scan p of r.
Settled(r, p, k) ==
    LET t == cmd[r].table
        u == cmd[r].other
    IN  CASE cmd[r].op = "SELECT" ->
               \/ \E m \in Sent(r, k) : m.left # NULL /\ Could(r, t, k, m.left)
               \/ Sent(r, k) = {} /\ CouldBeNull(r, t, k)
          [] cmd[r].op = "INTERSECT" ->
               Sent(r, k) # {} \/ CouldBeNull(r, t, k) \/ CouldBeNull(r, u, k)
          [] cmd[r].op = "DIFFERENCE" /\ p = 1 ->
               \/ \E m \in Sent(r, k) : m.left # NULL
               \/ CouldBeNull(r, t, k)
               \/ CouldBeSome(r, u, k)
          [] OTHER ->
               \/ \E m \in Sent(r, k) : m.right # NULL
               \/ CouldBeNull(r, u, k)
               \/ CouldBeSome(r, t, k)

Passes(r) == IF cmd[r].op = "DIFFERENCE" THEN {1, 2} ELSE {1}

\* Scan p of r is running, with k ahead; it is over.
Scanning(r, p) == pass[r] = p /\ pc[r] \in {"visit", "probe"}
Ahead(r, p, k) ==
    Scanning(r, p) /\ k \in todo[r] /\ (cmd[r].op = "SELECT" => Sent(r, k) = {})
Over(r, p) == pc[r] = "reply" \/ Succeeded(r) \/ p < pass[r]

\* Nothing is sent before the first scan.
FreshOK ==
    \A r \in Requests :
        /\ tx[r] = 0 => RowsSent(r) = {} /\ pass[r] = 1 /\ ~Succeeded(r)
        /\ pc[r] = "scan" /\ pass[r] = 1 => RowsSent(r) = {}

HeldRegular ==
    \A r \in Requests : pc[r] = "probe" =>
        \A k \in todo[r] : (\A j \in todo[r] : k <= j) => Could(r, Scanned(r), k, held[r])

JoinsOK ==
    \A r \in Requests : IsJoin(r) =>
        \A m \in RowsSent(r) :
            Could(r, cmd[r].table, m.row, m.left) /\ Could(r, cmd[r].other, m.row, m.right)

SettledOK ==
    \A r \in Requests : Reader(r) =>
        \A p \in Passes(r), k \in RowIds :
            Scanning(r, p) \/ Over(r, p) => Ahead(r, p, k) \/ Settled(r, p, k)

RegularInv == FreshOK /\ HeldRegular /\ JoinsOK /\ SettledOK

-------------------------------------------------------------------------------
(* What a step does to requests *)

\* Answers, ids and the requests answered before one was issued stay.
History ==
    /\ StableIds
    /\ \A q \in Requests :
        /\ pc[q] = "done" => pc'[q] = "done" /\ tx'[q] = tx[q]
        /\ pc[q] # "idle" => pc'[q] # "idle" /\ before'[q] = before[q]
        /\ pc'[q] = "idle" => before'[q] = before[q]
        /\ tx'[q] = tx[q] \/ (tx'[q] = txCounter + 1 /\ pc[q] # "idle")
        /\ pc[q] = "idle" /\ pc'[q] # "idle"
             => before'[q] = {p \in Requests : pc[p] = "done"} /\ tx'[q] = 0

LEMMA StepHistory ==
    ASSUME TypeOK, QueueOK, TxDrawn, [Next]_vars
    PROVE  History
  <1> StableIds
    BY StepStable
  <1> DEFINE P(q) ==
        /\ pc[q] = "done" => pc'[q] = "done" /\ tx'[q] = tx[q]
        /\ pc[q] # "idle" => pc'[q] # "idle" /\ before'[q] = before[q]
        /\ pc'[q] = "idle" => before'[q] = before[q]
        /\ tx'[q] = tx[q] \/ (tx'[q] = txCounter + 1 /\ pc[q] # "idle")
        /\ pc[q] = "idle" /\ pc'[q] # "idle"
             => before'[q] = {p \in Requests : pc[p] = "done"} /\ tx'[q] = 0
  <1> SUFFICES ASSUME NEW q \in Requests PROVE P(q)
    BY DEF History
  <1>1. CASE pc'[q] = pc[q] /\ tx'[q] = tx[q] /\ before'[q] = before[q]
    BY <1>1
  <1>2. ASSUME NEW r \in Requests, HandleCommand(r) PROVE P(q)
    <2>1. /\ pc'[r] = "queued" /\ pc[r] = "idle" /\ tx' = tx /\ tx[r] = 0
          /\ before'[r] = {p \in Requests : pc[p] = "done"}
          /\ q # r => pc'[q] = pc[q] /\ before'[q] = before[q]
      BY <1>2 DEF HandleCommand, TypeOK, TxDrawn
    <2> QED
      BY <1>1, <2>1
  <1>3. ASSUME NEW r \in Requests, Task(r) PROVE P(q)
    <2>1. /\ pc[r] \notin {"idle", "done"} /\ before' = before
          /\ q # r => pc'[q] = pc[q]
      BY <1>3 DEF Task, InsertFind, InsertCreate, InsertRowExisting, InsertRowNew, ScanFind,
           ScanLock, Visit, VisitSelect, VisitTruncate, VisitJoin, Probe, ScanEnd,
           Reply, Answer, TypeOK
    <2>2. pc'[r] # "idle"
      BY <1>3 DEF Task, InsertFind, InsertCreate, InsertRowExisting, InsertRowNew, ScanFind,
           ScanLock, Visit, VisitSelect, VisitTruncate, VisitJoin, Probe, ScanEnd,
           Reply, Answer, TypeOK
    <2>3. tx' = tx \/ NextTx(r)
      BY <1>3 DEF Task, InsertFind, InsertCreate, InsertRowExisting, InsertRowNew, ScanFind,
           ScanLock, Visit, Probe, ScanEnd, Reply
    <2>4. (q # r => tx'[q] = tx[q]) /\ (tx'[r] = tx[r] \/ tx'[r] = txCounter + 1)
      BY <2>3 DEF NextTx, TypeOK
    <2> QED
      BY <2>1, <2>2, <2>4
  <1>4. ASSUME StartTask PROVE P(q)
    <2>1. Head(pending) \in Requests /\ pc[Head(pending)] = "queued"
      BY <1>4, QueueStart
    <2>2. /\ pc' = [pc EXCEPT ![Head(pending)] = "find"] /\ tx' = tx /\ before' = before
      BY <1>4 DEF StartTask
    <2>3. q # Head(pending) => pc'[q] = pc[q]
      BY <2>2 DEF TypeOK
    <2>4. pc'[Head(pending)] = "find"
      BY <2>1, <2>2 DEF TypeOK
    <2> QED
      BY <2>1, <2>2, <2>3, <2>4
  <1>5. CASE UNCHANGED vars
    BY <1>1, <1>5 DEF vars
  <1> QED
    BY <1>2, <1>3, <1>4, <1>5 DEF Next, Stopped

-------------------------------------------------------------------------------
(* What a step does to lists *)

\* r appends a version to the list of row k of table t.
Writes(r, t, k) ==
    \E v \in Values :
        /\ versions' = [versions EXCEPT ![t][k] = Append(@, [tx |-> tx'[r], val |-> v])]
        /\ (v = r /\ r \in Inserts(t, k)) \/ (v = NULL /\ r \in Truncates(t))

LEMMA AddVersionWrites ==
    ASSUME TypeOK, NEW r \in Requests, NEW t, NEW k, NEW n, NEW v \in Values,
           tx'[r] = n, AddVersion(t, k, n, v),
           (v = r /\ r \in Inserts(t, k)) \/ (v = NULL /\ r \in Truncates(t))
    PROVE  \/ UNCHANGED versions /\ aborted'
           \/ Writes(r, t, k) /\ UNCHANGED aborted
  BY DEF AddVersion, Writes

\* Versions are appended by tasks that have an id, one in a step.
LEMMA StepWrites ==
    ASSUME TypeOK, ControlOK, WriterOK, AnsweredOK, [Next]_vars
    PROVE  \/ UNCHANGED versions
           \/ \E r \in Requests, t \in TableNames, k \in RowIds :
                 Writes(r, t, k) /\ tx'[r] # 0 /\ pc[r] \notin {"idle", "done"}
  <1> DEFINE Goal == \/ UNCHANGED versions
                     \/ \E r \in Requests, t \in TableNames, k \in RowIds :
                           Writes(r, t, k) /\ tx'[r] # 0 /\ pc[r] \notin {"idle", "done"}
  <1>1. ASSUME NEW r \in Requests, InsertCreate(r) PROVE Goal
    <2>1. /\ cmd[r].table \in TableNames /\ cmd[r].row \in RowIds /\ r \in Values
          /\ r \in Inserts(cmd[r].table, cmd[r].row)
      BY <1>1, CommandFields DEF InsertCreate, ControlOK, Values, Inserts, InsertsInto
    <2>2. tx'[r] = txCounter + 1 /\ tx'[r] # 0 /\ pc[r] = "create"
      BY <1>1 DEF InsertCreate, NextTx, TypeOK
    <2>3. AddVersion(cmd[r].table, cmd[r].row, txCounter + 1, r)
      BY <1>1 DEF InsertCreate
    <2>4. Writes(r, cmd[r].table, cmd[r].row) \/ UNCHANGED versions
      BY <2>1, <2>2, <2>3, AddVersionWrites
    <2> QED
      BY <2>1, <2>2, <2>4
  <1>2. ASSUME NEW r \in Requests, InsertRowExisting(r) \/ InsertRowNew(r) PROVE Goal
    <2>1. /\ cmd[r].table \in TableNames /\ cmd[r].row \in RowIds /\ r \in Values
          /\ r \in Inserts(cmd[r].table, cmd[r].row)
      BY <1>2, CommandFields
      DEF InsertRowExisting, InsertRowNew, ControlOK, Values, Inserts, InsertsInto
    <2>2. tx' = tx /\ tx[r] # 0 /\ pc[r] \in {"write", "addrow"}
      BY <1>2 DEF InsertRowExisting, InsertRowNew, WriterOK
    <2>3. AddVersion(cmd[r].table, cmd[r].row, tx[r], r) \/ UNCHANGED versions
      BY <1>2 DEF InsertRowExisting, InsertRowNew
    <2>4. Writes(r, cmd[r].table, cmd[r].row) \/ UNCHANGED versions
      BY <2>1, <2>2, <2>3, AddVersionWrites
    <2> QED
      BY <2>1, <2>2, <2>4
  <1>3. ASSUME NEW r \in Requests, Visit(r) PROVE Goal
    <2>1. CASE VisitTruncate(r)
      <3>1. /\ NextRow(r) \in RowIds /\ Scanned(r) \in TableNames /\ NULL \in Values
            /\ r \in Truncates(Scanned(r))
        BY <1>3, <2>1, NextRowInTodo, ScannedType
        DEF Visit, VisitTruncate, ControlOK, TypeOK, Values, Truncates, Scanned
      <3>2. tx' = tx /\ tx[r] # 0 /\ pc[r] = "visit"
        BY <1>3 DEF Visit, AnsweredOK
      <3>3. AddVersion(Scanned(r), NextRow(r), tx[r], NULL)
        BY <2>1 DEF VisitTruncate
      <3>4. Writes(r, Scanned(r), NextRow(r)) \/ UNCHANGED versions
        BY <3>1, <3>2, <3>3, AddVersionWrites
      <3> QED
        BY <3>1, <3>2, <3>4
    <2>2. CASE VisitSelect(r) \/ VisitJoin(r)
      BY <2>2 DEF VisitSelect, VisitJoin
    <2> QED
      BY <1>3, <2>1, <2>2 DEF Visit
  <1>4. ASSUME NEW r \in Requests,
               HandleCommand(r) \/ InsertFind(r) \/ ScanFind(r) \/ ScanLock(r)
               \/ Probe(r) \/ ScanEnd(r) \/ Reply(r)
        PROVE  UNCHANGED versions
    BY <1>4 DEF HandleCommand, InsertFind, ScanFind, ScanLock, Probe, ScanEnd, Reply
  <1>5. CASE StartTask \/ UNCHANGED vars
    BY <1>5 DEF StartTask, vars
  <1> QED
    BY <1>1, <1>2, <1>3, <1>4, <1>5 DEF Next, Task, Stopped

LEMMA WritesLists ==
    ASSUME TypeOK, NEW r \in Requests, NEW t \in TableNames, NEW k \in RowIds,
           Writes(r, t, k), NEW u \in TableNames, NEW l \in RowIds
    PROVE  /\ \A i \in DOMAIN versions[u][l] :
                 i \in DOMAIN versions'[u][l] /\ versions'[u][l][i] = versions[u][l][i]
           /\ \A i \in DOMAIN versions'[u][l] :
                 \/ i \in DOMAIN versions[u][l]
                 \/ /\ u = t /\ versions'[u][l][i].tx = tx'[r]
                    /\ versions'[u][l][i].val = NULL => r \in Truncates(u)
           /\ u = t /\ l = k => HasVersion(u, l, tx[r])'
  <1>1. PICK v \in Values :
           /\ versions' = [versions EXCEPT ![t][k] = Append(@, [tx |-> tx'[r], val |-> v])]
           /\ (v = r /\ r \in Inserts(t, k)) \/ (v = NULL /\ r \in Truncates(t))
    BY DEF Writes
  <1>2. versions[t][k] \in Seq(Version)
    BY DEF TypeOK
  <1>3. CASE ~ (u = t /\ l = k)
    <2>1. versions'[u][l] = versions[u][l]
      BY <1>1, <1>3 DEF TypeOK
    <2> QED
      BY <1>3, <2>1
  <1>4. CASE u = t /\ l = k
    <2> DEFINE new == [tx |-> tx'[r], val |-> v]
               len == Len(versions[t][k])
    <2>1. versions'[u][l] = Append(versions[t][k], new)
      BY <1>1, <1>4 DEF TypeOK
    <2>2. /\ len \in Nat /\ DOMAIN versions[t][k] = 1 .. len
          /\ DOMAIN versions'[u][l] = 1 .. len + 1
          /\ \A i \in 1 .. len : versions'[u][l][i] = versions[t][k][i]
          /\ versions'[u][l][len + 1] = new
      <3>1. len \in Nat /\ DOMAIN versions[t][k] = 1 .. len
        BY <1>2, LenProperties
      <3>2. versions[t][k] \in Seq(Version \union {new})
        BY <1>2, <3>1, ElementOfSeq, SeqDef
      <3> HIDE DEF new
      <3>3. new \in Version \union {new}
        OBVIOUS
      <3> QED
        BY <2>1, <3>1, <3>2, <3>3, AppendProperties, LenProperties
    <2>3. new.tx = tx'[r] /\ (new.val = NULL => r \in Truncates(u))
      BY <1>1, <1>4, NullAssumption
    <2> HIDE DEF new
    <2>4. \A i \in DOMAIN versions'[u][l] : i \in 1 .. len \/ i = len + 1
      BY <2>2
    <2>5. len + 1 \in DOMAIN versions'[u][l]
      BY <2>2
    <2>6. HasVersion(u, l, tx[r])'
      BY <2>2, <2>3, <2>5 DEF HasVersion
    <2> QED
      BY <1>4, <2>2, <2>3, <2>4, <2>6
  <1> QED
    BY <1>3, <1>4

\* Lists only grow, by versions of requests that are at work.
LEMMA StepLists ==
    ASSUME TypeOK, ControlOK, WriterOK, AnsweredOK, [Next]_vars,
           NEW u \in TableNames, NEW l \in RowIds
    PROVE  /\ \A i \in DOMAIN versions[u][l] :
                 i \in DOMAIN versions'[u][l] /\ versions'[u][l][i] = versions[u][l][i]
           /\ \A i \in DOMAIN versions'[u][l] :
                 \/ i \in DOMAIN versions[u][l]
                 \/ \E r \in Requests :
                       /\ versions'[u][l][i].tx = tx'[r]
                       /\ tx'[r] # 0 /\ pc[r] \notin {"idle", "done"}
                       /\ versions'[u][l][i].val = NULL => r \in Truncates(u)
  <1>1. CASE UNCHANGED versions
    BY <1>1
  <1>2. ASSUME NEW r \in Requests, NEW t \in TableNames, NEW k \in RowIds,
               Writes(r, t, k), tx'[r] # 0, pc[r] \notin {"idle", "done"}
        PROVE  /\ \A i \in DOMAIN versions[u][l] :
                     i \in DOMAIN versions'[u][l] /\ versions'[u][l][i] = versions[u][l][i]
               /\ \A i \in DOMAIN versions'[u][l] :
                     \/ i \in DOMAIN versions[u][l]
                     \/ \E q \in Requests :
                           /\ versions'[u][l][i].tx = tx'[q]
                           /\ tx'[q] # 0 /\ pc[q] \notin {"idle", "done"}
                           /\ versions'[u][l][i].val = NULL => q \in Truncates(u)
    BY <1>2, WritesLists
  <1> QED
    BY <1>1, <1>2, StepWrites

-------------------------------------------------------------------------------
(* What a step does to messages *)

LEMMA StatusKinds ==
    /\ Success.kind = "status" /\ Error.kind = "status" /\ Success # Error
    /\ \A k, v, w : /\ Row(k, v, w).kind = "row" /\ Row(k, v, w).row = k
                    /\ Row(k, v, w).left = v /\ Row(k, v, w).right = w
  <1>1. Success.ok = TRUE /\ Error.ok = FALSE
    BY DEF Success, Error, Status
  <1> QED
    BY <1>1 DEF Success, Error, Status, Row

LEMMA ConcatMessages ==
    ASSUME TypeOK, NEW r \in Requests, NEW m \in RowMessages \union StatusMessages,
           NEW more, more = <<m>> \/ more = << >>,
           out' = [out EXCEPT ![r] = @ \o more]
    PROVE  /\ \A p \in Requests \ {r} : Messages(p)' = Messages(p)
           /\ more = <<m>> => Messages(r)' = Messages(r) \union {m}
           /\ more = << >> => Messages(r)' = Messages(r)
  <1>1. \A p \in Requests \ {r} : Messages(p)' = Messages(p)
    BY DEF TypeOK, Messages
  <1>2. out'[r] = out[r] \o more /\ out[r] \in Seq(RowMessages \union StatusMessages)
    BY DEF TypeOK
  <1>3. ASSUME more = <<m>> PROVE Messages(r)' = Messages(r) \union {m}
    <2> DEFINE len == Len(out[r])
    <2>1. out'[r] = Append(out[r], m)
      BY <1>2, <1>3, AppendIsConcat
    <2>2. /\ len \in Nat /\ DOMAIN out[r] = 1 .. len /\ DOMAIN out'[r] = 1 .. len + 1
          /\ \A i \in 1 .. len : out'[r][i] = out[r][i]
          /\ out'[r][len + 1] = m
      BY <1>2, <2>1, AppendProperties, LenProperties
    <2>3. \A i \in 1 .. len + 1 : i \in 1 .. len \/ i = len + 1
      BY <2>2
    <2>4. len + 1 \in 1 .. len + 1 /\ 1 .. len \subseteq 1 .. len + 1
      BY <2>2
    <2> HIDE DEF len
    <2> QED
      BY <2>2, <2>3, <2>4 DEF Messages
  <1>4. ASSUME more = << >> PROVE Messages(r)' = Messages(r)
    <2>1. out'[r] = out[r]
      BY <1>2, <1>4
    <2> QED
      BY <2>1 DEF Messages
  <1> QED
    BY <1>1, <1>3, <1>4

LEMMA AppendMessages ==
    ASSUME TypeOK, NEW r \in Requests, NEW m \in RowMessages \union StatusMessages,
           out' = [out EXCEPT ![r] = Append(@, m)]
    PROVE  /\ \A p \in Requests \ {r} : Messages(p)' = Messages(p)
           /\ Messages(r)' = Messages(r) \union {m}
  <1>1. out[r] \in Seq(RowMessages \union StatusMessages)
    BY DEF TypeOK
  <1>2. Append(out[r], m) = out[r] \o <<m>>
    BY <1>1, AppendIsConcat
  <1>3. PICK more : more = <<m>>
    OBVIOUS
  <1>4. out' = [out EXCEPT ![r] = @ \o more]
    BY <1>2, <1>3 DEF TypeOK
  <1> QED
    BY <1>3, <1>4, ConcatMessages

\* The rest of the handler of a join sends at most one row.
LEMMA ProbeMessages ==
    ASSUME TypeOK, ControlOK, NEW r \in Requests, Probe(r)
    PROVE  LET k == NextRow(r)
               other == GetVersion(versions[Probed(r)][k], tx[r])
               m == IF cmd[r].op = "INTERSECT" THEN Row(k, held[r], other)
                    ELSE IF pass[r] = 1 THEN Row(k, held[r], NULL) ELSE Row(k, NULL, held[r])
               sends == (cmd[r].op = "INTERSECT") = (other # NULL)
           IN  /\ \A p \in Requests \ {r} : Messages(p)' = Messages(p)
               /\ sends => Messages(r)' = Messages(r) \union {m}
               /\ ~sends => Messages(r)' = Messages(r)
               /\ k \in RowIds /\ held[r] \in Values /\ held[r] # NULL /\ other \in Values
  <1> DEFINE k == NextRow(r)
             other == GetVersion(versions[Probed(r)][k], tx[r])
             m == IF cmd[r].op = "INTERSECT" THEN Row(k, held[r], other)
                  ELSE IF pass[r] = 1 THEN Row(k, held[r], NULL) ELSE Row(k, NULL, held[r])
             sends == (cmd[r].op = "INTERSECT") = (other # NULL)
  <1>1. /\ k \in RowIds /\ Probed(r) \in TableNames /\ tx[r] \in Nat
        /\ held[r] \in Values /\ held[r] # NULL /\ NULL \in Values
        /\ cmd[r].op \in {"INTERSECT", "DIFFERENCE"}
        /\ pass[r] \in {1, 2}
    BY NextRowInTodo, ScannedType DEF Probe, ControlOK, TypeOK, Values
  <1>2. other \in Values
    <2>1. versions[Probed(r)][k] \in Seq(Version)
      BY <1>1 DEF TypeOK
    <2> QED
      BY <1>1, <2>1, GetVersionType
  <1>3. m \in RowMessages \union StatusMessages
    <2>1. \A v \in Values, w \in Values :
             v # NULL \/ w # NULL => Row(k, v, w) \in RowMessages
      BY <1>1, MessageTypes
    <2> QED
      BY <1>1, <1>2, <2>1
  <1> HIDE DEF k
  <1>4. PICK more : /\ out' = [out EXCEPT ![r] = @ \o more]
                    /\ sends => more = <<m>>
                    /\ ~sends => more = << >>
    <2>1. CASE cmd[r].op = "INTERSECT"
      <3>1. out' = [out EXCEPT ![r] = @ \o IF other # NULL THEN <<Row(k, held[r], other)>> ELSE << >>]
        BY <2>1 DEF Probe, k
      <3> QED
        BY <2>1, <3>1
    <2>2. CASE cmd[r].op = "DIFFERENCE"
      <3>1. out' = [out EXCEPT ![r] =
                      @ \o IF other # NULL THEN << >>
                           ELSE IF pass[r] = 1 THEN <<Row(k, held[r], NULL)>>
                                               ELSE <<Row(k, NULL, held[r])>>]
        BY <2>2 DEF Probe, k
      <3> QED
        BY <2>2, <3>1
    <2> QED
      BY <1>1, <2>1, <2>2
  <1>5. /\ \A p \in Requests \ {r} : Messages(p)' = Messages(p)
        /\ sends => Messages(r)' = Messages(r) \union {m}
        /\ ~sends => Messages(r)' = Messages(r)
    <2> HIDE DEF sends, m
    <2> QED
      BY <1>3, <1>4, ConcatMessages
  <1> QED
    BY <1>1, <1>2, <1>5 DEF k

\* Messages stay.  A row comes from a scan, the status with the end of the task;
\* it is an error exactly if the lookup of a scan fails.
LEMMA StepMessages ==
    ASSUME TypeOK, ControlOK, [Next]_vars, NEW p \in Requests
    PROVE  /\ Messages(p) \subseteq Messages(p)'
           /\ \A m \in Messages(p)' : m.kind = "row" =>
                 m \in Messages(p) \/ pc[p] \in {"visit", "probe"}
           /\ Success \in Messages(p)' =>
                 Success \in Messages(p) \/ (pc[p] \in {"create", "reply"} /\ pc'[p] = "done")
           /\ Error \in Messages(p)' =>
                 \/ Error \in Messages(p)
                 \/ pc[p] = "find" /\ pc'[p] = "done" /\ ~(TablesOf(cmd[p]) \subseteq created)
           /\ pc[p] # "done" /\ pc'[p] = "done" =>
                 Error \in Messages(p)' \/ tx'[p] # 0 \/ pc[p] = "reply"
  <1> DEFINE Goal ==
           /\ Messages(p) \subseteq Messages(p)'
           /\ \A m \in Messages(p)' : m.kind = "row" =>
                 m \in Messages(p) \/ pc[p] \in {"visit", "probe"}
           /\ Success \in Messages(p)' =>
                 Success \in Messages(p) \/ (pc[p] \in {"create", "reply"} /\ pc'[p] = "done")
           /\ Error \in Messages(p)' =>
                 \/ Error \in Messages(p)
                 \/ pc[p] = "find" /\ pc'[p] = "done" /\ ~(TablesOf(cmd[p]) \subseteq created)
           /\ pc[p] # "done" /\ pc'[p] = "done" =>
                 Error \in Messages(p)' \/ tx'[p] # 0 \/ pc[p] = "reply"
  <1>0. ASSUME NEW S, NEW m \in S, m.kind = "row" PROVE m # Success /\ m # Error
    BY <1>0, StatusKinds
  <1>1. CASE Messages(p)' = Messages(p) /\ (pc'[p] = "done" => pc[p] = "done")
    BY <1>1
  <1>2. ASSUME NEW r \in Requests,
               HandleCommand(r) \/ InsertFind(r) \/ InsertRowExisting(r)
               \/ InsertRowNew(r) \/ ScanLock(r) \/ ScanEnd(r)
        PROVE  Goal
    <2>1. out' = out /\ (pc'[p] = "done" => pc[p] = "done")
      BY <1>2 DEF HandleCommand, InsertFind, InsertRowExisting, InsertRowNew, ScanLock,
                  ScanEnd, TypeOK
    <2>2. Messages(p)' = Messages(p)
      BY <2>1 DEF Messages
    <2> QED
      BY <1>1, <2>1, <2>2
  <1>3. ASSUME NEW r \in Requests, InsertCreate(r) \/ Reply(r)
        PROVE  Goal
    <2>1. /\ out' = [out EXCEPT ![r] = Append(@, Success)]
          /\ pc' = [pc EXCEPT ![r] = "done"]
          /\ pc[r] \in {"create", "reply"}
      BY <1>3 DEF InsertCreate, Reply, Answer
    <2>2. /\ p # r => pc'[p] = pc[p]
          /\ pc'[r] = "done"
      BY <2>1 DEF TypeOK
    <2>3. /\ \A q \in Requests \ {r} : Messages(q)' = Messages(q)
          /\ Messages(r)' = Messages(r) \union {Success}
      BY <2>1, AppendMessages, MessageTypes
    <2>4. pc[r] = "create" => tx'[r] # 0
      BY <1>3 DEF InsertCreate, Reply, NextTx, TypeOK
    <2>5. CASE p # r
      BY <1>1, <2>2, <2>3, <2>5
    <2>6. CASE p = r
      <3>1. \A m \in Messages(p)' : m.kind = "row" => m \in Messages(p)
        BY <1>0, <2>3, <2>6
      <3> QED
        BY <2>1, <2>2, <2>3, <2>4, <2>6, <3>1, StatusKinds
    <2> QED
      BY <2>5, <2>6
  <1>4. ASSUME NEW r \in Requests, ScanFind(r) PROVE Goal
    <2>1. CASE TablesOf(cmd[r]) \subseteq created
      <3>1. out' = out /\ (pc'[p] = "done" => pc[p] = "done")
        BY <1>4, <2>1 DEF ScanFind, TypeOK
      <3>2. Messages(p)' = Messages(p)
        BY <3>1 DEF Messages
      <3> QED
        BY <1>1, <3>1, <3>2
    <2>2. CASE ~(TablesOf(cmd[r]) \subseteq created)
      <3>1. /\ out' = [out EXCEPT ![r] = Append(@, Error)]
            /\ pc' = [pc EXCEPT ![r] = "done"]
            /\ pc[r] = "find"
        BY <1>4, <2>2 DEF ScanFind, Answer
      <3>2. /\ p # r => pc'[p] = pc[p]
            /\ pc'[r] = "done"
        BY <3>1 DEF TypeOK
      <3>3. /\ \A q \in Requests \ {r} : Messages(q)' = Messages(q)
            /\ Messages(r)' = Messages(r) \union {Error}
        BY <3>1, AppendMessages, MessageTypes
      <3>4. CASE p # r
        BY <1>1, <3>2, <3>3, <3>4
      <3>5. CASE p = r
        <4>1. \A m \in Messages(p)' : m.kind = "row" => m \in Messages(p)
          BY <1>0, <3>3, <3>5
        <4> QED
          BY <2>2, <3>1, <3>2, <3>3, <3>5, <4>1, StatusKinds
      <3> QED
        BY <3>4, <3>5
    <2> QED
      BY <2>1, <2>2
  <1>5. ASSUME NEW r \in Requests, Visit(r) PROVE Goal
    <2>1. CASE VisitSelect(r) /\ Seen(r) # NULL
      <3>1. /\ NextRow(r) \in RowIds /\ Seen(r) \in Values /\ NULL \in Values
        BY <1>5, NextRowInTodo, SeenType DEF Visit, Values
      <3> DEFINE m == Row(NextRow(r), Seen(r), NULL)
      <3>2. m \in RowMessages /\ m.kind = "row"
        BY <2>1, <3>1, MessageTypes, StatusKinds
      <3>3. out' = [out EXCEPT ![r] = Append(@, m)] /\ pc' = pc /\ pc[r] = "visit"
        BY <1>5, <2>1 DEF Visit, VisitSelect
      <3> HIDE DEF m
      <3>4. /\ \A q \in Requests \ {r} : Messages(q)' = Messages(q)
            /\ Messages(r)' = Messages(r) \union {m}
        BY <3>2, <3>3, AppendMessages
      <3>5. m # Success /\ m # Error
        BY <3>2, StatusKinds
      <3> QED
        BY <1>1, <3>3, <3>4, <3>5
    <2>2. CASE ~(VisitSelect(r) /\ Seen(r) # NULL)
      <3>1. out' = out
        BY <1>5, <2>2 DEF Visit, VisitSelect, VisitTruncate, VisitJoin
      <3>2. pc'[p] = "done" => pc[p] = "done"
        BY <1>5 DEF Visit, VisitSelect, VisitTruncate, VisitJoin, TypeOK
      <3>3. Messages(p)' = Messages(p)
        BY <3>1 DEF Messages
      <3> QED
        BY <1>1, <3>2, <3>3
    <2> QED
      BY <2>1, <2>2
  <1>6. ASSUME NEW r \in Requests, Probe(r) PROVE Goal
    <2>1. PICK m : /\ \A q \in Requests \ {r} : Messages(q)' = Messages(q)
                   /\ Messages(r)' = Messages(r) \union {m} \/ Messages(r)' = Messages(r)
                   /\ m.kind = "row"
      <3> DEFINE other == GetVersion(versions[Probed(r)][NextRow(r)], tx[r])
                 m == IF cmd[r].op = "INTERSECT" THEN Row(NextRow(r), held[r], other)
                      ELSE IF pass[r] = 1 THEN Row(NextRow(r), held[r], NULL)
                                          ELSE Row(NextRow(r), NULL, held[r])
      <3>1. m.kind = "row"
        BY StatusKinds
      <3>2. /\ \A q \in Requests \ {r} : Messages(q)' = Messages(q)
            /\ Messages(r)' = Messages(r) \union {m} \/ Messages(r)' = Messages(r)
        BY <1>6, ProbeMessages
      <3> HIDE DEF m
      <3> QED
        BY <3>1, <3>2
    <2>2. m # Success /\ m # Error
      BY <2>1, StatusKinds
    <2>3. pc[r] = "probe" /\ (pc'[p] = "done" => pc[p] = "done")
      BY <1>6 DEF Probe, TypeOK
    <2>4. CASE p # r
      BY <1>1, <2>1, <2>3, <2>4
    <2>5. CASE p = r
      BY <1>1, <2>1, <2>2, <2>3, <2>5
    <2> QED
      BY <2>4, <2>5
  <1>7. CASE StartTask \/ UNCHANGED vars
    <2>1. out' = out /\ (pc'[p] = "done" => pc[p] = "done")
      BY <1>7 DEF StartTask, vars, TypeOK
    <2>2. Messages(p)' = Messages(p)
      BY <2>1 DEF Messages
    <2> QED
      BY <1>1, <2>1, <2>2
  <1> QED
    BY <1>2, <1>3, <1>4, <1>5, <1>6, <1>7 DEF Next, Task, Stopped

-------------------------------------------------------------------------------
(* Requests that have been answered *)

\* A task works with an id; an insert that has found or made its table leaves it.
LEMMA StepProgress ==
    ASSUME TypeOK, ControlOK, WriterOK, AnsweredOK, [Next]_vars, NEW p \in Requests
    PROVE  /\ created \subseteq created'
           /\ cmd[p].op = "INSERT" /\ pc'[p] \in {"write", "addrow", "reply", "done"}
                => cmd[p].table \in created'
           /\ pc'[p] \in {"scan", "visit", "probe", "reply"} => tx'[p] # 0
  <1> DEFINE Goal ==
           /\ created \subseteq created'
           /\ cmd[p].op = "INSERT" /\ pc'[p] \in {"write", "addrow", "reply", "done"}
                => cmd[p].table \in created'
           /\ pc'[p] \in {"scan", "visit", "probe", "reply"} => tx'[p] # 0
  <1>1. CASE /\ created \subseteq created' /\ tx'[p] = tx[p]
             /\ \/ pc'[p] = pc[p]
                \/ pc'[p] = "queued"
                \/ pc[p] \in {"scan", "visit", "probe", "reply"}
                   /\ (cmd[p].op # "INSERT" \/ pc[p] = "reply")
    BY <1>1 DEF AnsweredOK
  <1>2. ASSUME NEW r \in Requests, HandleCommand(r) PROVE Goal
    BY <1>1, <1>2 DEF HandleCommand, TypeOK
  <1>3. ASSUME NEW r \in Requests, InsertFind(r) PROVE Goal
    <2>1. created' = created /\ (p # r => pc'[p] = pc[p] /\ tx'[p] = tx[p])
      BY <1>3 DEF InsertFind, NextTx, TypeOK
    <2>2. \/ cmd[r].table \in created /\ pc'[r] = "write"
          \/ pc'[r] = "create"
      BY <1>3 DEF InsertFind, TypeOK
    <2> QED
      BY <1>1, <2>1, <2>2
  <1>4. ASSUME NEW r \in Requests, InsertCreate(r) PROVE Goal
    <2>1. /\ created' = created \union {cmd[r].table}
          /\ p # r => pc'[p] = pc[p] /\ tx'[p] = tx[p]
          /\ pc'[r] = "done"
      BY <1>4 DEF InsertCreate, Answer, NextTx, TypeOK
    <2> QED
      BY <1>1, <2>1
  <1>5. ASSUME NEW r \in Requests, InsertRowExisting(r) \/ InsertRowNew(r) PROVE Goal
    <2>1. /\ created' = created /\ tx' = tx /\ (p # r => pc'[p] = pc[p])
          /\ pc[r] \in {"write", "addrow"} /\ pc'[r] \in {"reply", "addrow"}
      BY <1>5 DEF InsertRowExisting, InsertRowNew, TypeOK
    <2>2. pc[r] \in {"write", "addrow"} => tx[r] # 0
      BY <2>1 DEF WriterOK
    <2> QED
      BY <1>1, <2>1, <2>2 DEF AnsweredOK
  <1>6. ASSUME NEW r \in Requests, ScanFind(r) PROVE Goal
    <2>1. /\ created' = created /\ (p # r => pc'[p] = pc[p] /\ tx'[p] = tx[p])
          /\ cmd[r].op # "INSERT"
          /\ pc'[r] = "done" \/ (pc'[r] = "scan" /\ tx'[r] = txCounter + 1)
          /\ txCounter + 1 # 0
      BY <1>6 DEF ScanFind, Answer, NextTx, IsScan, TypeOK
    <2> QED
      BY <1>1, <2>1
  <1>7. ASSUME NEW r \in Requests,
               ScanLock(r) \/ Visit(r) \/ Probe(r) \/ ScanEnd(r) \/ Reply(r)
        PROVE  Goal
    <2>1. /\ created' = created /\ tx' = tx /\ (p # r => pc'[p] = pc[p])
          /\ pc[r] \in {"scan", "visit", "probe", "reply"}
      BY <1>7 DEF ScanLock, Visit, VisitSelect, VisitTruncate, VisitJoin, Probe, ScanEnd,
                  Reply, Answer, TypeOK
    <2>2. cmd[r].op # "INSERT" \/ pc[r] = "reply"
      BY <2>1 DEF ControlOK, IsScan
    <2> QED
      BY <1>1, <2>1, <2>2
  <1>8. CASE StartTask
    <2>1. created' = created /\ tx' = tx /\ (pc'[p] = pc[p] \/ pc'[p] = "find")
      BY <1>8 DEF StartTask, TypeOK
    <2> QED
      BY <1>1, <2>1
  <1>9. CASE UNCHANGED vars
    BY <1>1, <1>9 DEF vars
  <1> QED
    BY <1>2, <1>3, <1>4, <1>5, <1>6, <1>7, <1>8, <1>9 DEF Next, Task, Stopped

LEMMA StepAnswered ==
    ASSUME TypeOK, ControlOK, QueueOK, TxDrawn, WriterOK, AnsweredOK, [Next]_vars
    PROVE  AnsweredOK'
  <1> History
    BY StepHistory
  <1>1. ASSUME NEW p \in Requests, pc'[p] = "idle" PROVE before'[p] = {}
    BY <1>1 DEF History, AnsweredOK
  <1>2. ASSUME NEW p \in Requests
        PROVE  /\ cmd'[p].op = "INSERT" /\ pc'[p] \in {"write", "addrow", "reply", "done"}
                    => cmd'[p].table \in created'
               /\ pc'[p] \in {"scan", "visit", "probe", "reply"} => tx'[p] # 0
    BY StepProgress DEF History, StableIds
  <1>3. ASSUME NEW p \in Requests, pc'[p] = "done"
        PROVE  tx'[p] # 0 \/ Error \in Messages(p)'
    <2>1. CASE pc[p] = "done"
      <3>1. tx'[p] = tx[p] /\ Messages(p) \subseteq Messages(p)'
        BY <2>1, StepMessages DEF History
      <3> QED
        BY <2>1, <3>1 DEF AnsweredOK
    <2>2. CASE pc[p] # "done"
      <3>1. Error \in Messages(p)' \/ tx'[p] # 0 \/ pc[p] = "reply"
        BY <1>3, <2>2, StepMessages
      <3>2. pc[p] = "reply" => tx'[p] # 0
        BY DEF AnsweredOK, History, StableIds
      <3> QED
        BY <3>1, <3>2
    <2> QED
      BY <2>1, <2>2
  <1>4. ASSUME NEW p \in Requests, Success \in Messages(p)' \/ Error \in Messages(p)'
        PROVE  pc'[p] = "done"
    <2>1. \/ Success \in Messages(p) \/ Error \in Messages(p)
          \/ pc'[p] = "done"
      BY <1>4, StepMessages
    <2> QED
      BY <2>1 DEF AnsweredOK, History
  <1> QED
    BY <1>1, <1>2, <1>3, <1>4 DEF AnsweredOK

LEMMA StepError ==
    ASSUME TypeOK, ControlOK, QueueOK, TxDrawn, AnsweredOK, ErrorOK, [Next]_vars
    PROVE  ErrorOK'
  <1> History
    BY StepHistory
  <1> SUFFICES ASSUME NEW r \in Requests, Error \in Messages(r)'
               PROVE  \E t \in TablesOf(cmd'[r]) : InsertsInto(t)' \intersect before'[r] = {}
    BY DEF ErrorOK
  <1>1. cmd' = cmd /\ \A t : InsertsInto(t)' = InsertsInto(t)
    BY DEF History, StableIds, InsertsInto
  <1>2. pc[r] # "idle"
    <2>1. Error \in Messages(r) \/ pc[r] = "find"
      BY StepMessages
    <2> QED
      BY <2>1 DEF AnsweredOK
  <1>3. before'[r] = before[r]
    BY <1>2 DEF History
  <1>4. CASE Error \in Messages(r)
    BY <1>1, <1>3, <1>4 DEF ErrorOK
  <1>5. CASE ~(TablesOf(cmd[r]) \subseteq created)
    <2>1. PICK t \in TablesOf(cmd[r]) : t \notin created
      BY <1>5
    <2>2. ASSUME NEW w \in InsertsInto(t) \intersect before[r] PROVE FALSE
      <3>1. w \in Requests /\ cmd[w].op = "INSERT" /\ cmd[w].table = t /\ pc[w] = "done"
        BY DEF InsertsInto, TxDrawn
      <3> QED
        BY <2>1, <3>1 DEF AnsweredOK
    <2> QED
      BY <1>1, <1>3, <2>1, <2>2
  <1> QED
    BY <1>4, <1>5, StepMessages

-------------------------------------------------------------------------------
(* The order of lists *)

\* A version carries the id of a request that has drawn it.
LEMMA VersionTx ==
    ASSUME TypeOK, TxDrawn, ValuesOK, DeletedOK,
           NEW t \in TableNames, NEW k \in RowIds, NEW i \in DOMAIN versions[t][k]
    PROVE  /\ versions[t][k][i].tx \in Nat /\ versions[t][k][i].tx # 0
           /\ versions[t][k][i].tx <= txCounter
           /\ i \in Nat /\ 1 .. i \subseteq DOMAIN versions[t][k]
           /\ i \in 1 .. i
  <1>1. versions[t][k] \in Seq(Version)
    BY DEF TypeOK
  <1>2. PICK w \in Requests : tx[w] # 0 /\ tx[w] = versions[t][k][i].tx
    <2>1. CASE versions[t][k][i].val = NULL
      BY <2>1 DEF DeletedOK, Truncates
    <2>2. CASE versions[t][k][i].val # NULL
      BY <2>2 DEF ValuesOK, Inserts, InsertsInto
    <2> QED
      BY <2>1, <2>2
  <1>3. DOMAIN versions[t][k] = 1 .. Len(versions[t][k]) /\ Len(versions[t][k]) \in Nat
    BY <1>1, LenProperties
  <1>4. tx[w] <= txCounter /\ tx[w] \in Nat
    BY DEF TypeOK, TxDrawn
  <1> QED
    BY <1>2, <1>3, <1>4

LEMMA StepDeleted ==
    ASSUME TypeOK, ControlOK, TxDrawn, WriterOK, AnsweredOK, DeletedOK, [Next]_vars
    PROVE  DeletedOK'
  <1> StableIds
    BY StepStable
  <1> SUFFICES ASSUME NEW t \in TableNames, NEW k \in RowIds, NEW i \in DOMAIN versions'[t][k],
                      versions'[t][k][i].val = NULL
               PROVE  \E x \in Truncates(t)' : tx'[x] # 0 /\ tx'[x] = versions'[t][k][i].tx
    BY DEF DeletedOK
  <1>1. Truncates(t)' = Truncates(t) /\ Truncates(t) \subseteq Requests
    BY DEF Truncates, StableIds
  <1>2. CASE i \in DOMAIN versions[t][k]
    <2>1. versions'[t][k][i] = versions[t][k][i]
      BY <1>2, StepLists
    <2>2. PICK x \in Truncates(t) : tx[x] # 0 /\ tx[x] = versions[t][k][i].tx
      BY <1>2, <2>1 DEF DeletedOK
    <2>3. tx'[x] = tx[x]
      BY <1>1, <2>2 DEF StableIds
    <2> QED
      BY <1>1, <2>1, <2>2, <2>3
  <1>3. CASE i \notin DOMAIN versions[t][k]
    <2>1. PICK r \in Requests :
             /\ versions'[t][k][i].tx = tx'[r]
             /\ tx'[r] # 0
             /\ versions'[t][k][i].val = NULL => r \in Truncates(t)
      BY <1>3, StepLists
    <2> QED
      BY <1>1, <2>1
  <1> QED
    BY <1>2, <1>3

\* Behind the version of an answered request stand only later ones: so what is
\* up to it has its id before another request is issued.
LEMMA StepOlder ==
    ASSUME TypeOK, ControlOK, QueueOK, TxDrawn, ValuesOK, WriterOK, AnsweredOK, DeletedOK,
           OlderOK, TxOrder', [Next]_vars
    PROVE  OlderOK'
  <1> History
    BY StepHistory
  <1> SUFFICES ASSUME NEW t \in TableNames, NEW k \in RowIds, NEW r \in Requests, tx'[r] # 0,
                      NEW w \in before'[r], NEW j \in DOMAIN versions'[t][k],
                      versions'[t][k][j].tx = tx'[w], NEW i \in 1 .. j
               PROVE  versions'[t][k][i].tx < tx'[r]
    BY DEF OlderOK
  <1>1. pc[r] # "idle" /\ before'[r] = before[r]
    <2>1. pc[r] # "idle"
      BY DEF History, TxDrawn
    <2> QED
      BY <2>1 DEF History
  <1>2. w \in Requests /\ pc[w] = "done" /\ tx'[w] = tx[w]
    BY <1>1 DEF TxDrawn, TypeOK, History
  <1>3. j \in DOMAIN versions[t][k]
    <2> SUFFICES ASSUME j \notin DOMAIN versions[t][k] PROVE FALSE
      OBVIOUS
    <2>1. PICK q \in Requests : versions'[t][k][j].tx = tx'[q] /\ tx'[q] # 0 /\ pc[q] # "done"
      BY StepLists
    <2> QED
      BY <1>2, <2>1 DEF TxOrder
  <1>4. versions[t][k][j].tx = tx[w] /\ i \in DOMAIN versions[t][k]
        /\ versions'[t][k][i] = versions[t][k][i]
    BY <1>2, <1>3, StepLists, VersionTx
  <1>5. CASE tx[r] # 0
    <2>1. tx'[r] = tx[r]
      BY <1>5 DEF History, StableIds
    <2> QED
      BY <1>1, <1>3, <1>4, <1>5, <2>1 DEF OlderOK
  <1>6. CASE tx[r] = 0
    <2>1. tx'[r] = txCounter + 1
      BY <1>6 DEF History
    <2>2. versions[t][k][i].tx \in Nat /\ versions[t][k][i].tx <= txCounter
      BY <1>4, VersionTx
    <2> QED
      BY <1>4, <2>1, <2>2 DEF TypeOK
  <1> QED
    BY <1>5, <1>6

\* A version, once in a list, is there for good.
LEMMA VersionStays ==
    ASSUME TypeOK, ControlOK, QueueOK, TxDrawn, WriterOK, AnsweredOK, [Next]_vars,
           NEW t \in TableNames, NEW k \in RowIds, NEW r \in Requests, tx'[r] = tx[r],
           HasVersion(t, k, tx[r])
    PROVE  HasVersion(t, k, tx[r])'
  <1>1. PICK i \in DOMAIN versions[t][k] : versions[t][k][i].tx = tx[r]
    BY DEF HasVersion
  <1>2. i \in DOMAIN versions'[t][k] /\ versions'[t][k][i] = versions[t][k][i]
    BY StepLists
  <1> QED
    BY <1>1, <1>2 DEF HasVersion

-------------------------------------------------------------------------------
(* Answered writes *)

\* A task changes nothing of another one.
LEMMA TaskOthers ==
    ASSUME TypeOK, NEW r \in Requests, Task(r), NEW q \in Requests, q # r
    PROVE  /\ pc'[q] = pc[q] /\ tx'[q] = tx[q] /\ todo'[q] = todo[q] /\ pass'[q] = pass[q]
           /\ held'[q] = held[q] /\ out'[q] = out[q]
  <1>1. CASE InsertFind(r) \/ InsertCreate(r)
    BY <1>1 DEF InsertFind, InsertCreate, Answer, NextTx, TypeOK
  <1>2. CASE InsertRowExisting(r) \/ InsertRowNew(r)
    BY <1>2 DEF InsertRowExisting, InsertRowNew, TypeOK
  <1>3. CASE ScanFind(r)
    BY <1>3 DEF ScanFind, Answer, NextTx, TypeOK
  <1>4. CASE ScanLock(r) \/ ScanEnd(r) \/ Reply(r)
    BY <1>4 DEF ScanLock, ScanEnd, Reply, Answer, TypeOK
  <1>5. CASE Visit(r)
    BY <1>5 DEF Visit, VisitSelect, VisitTruncate, VisitJoin, Visited, TypeOK
  <1>6. CASE Probe(r)
    BY <1>6 DEF Probe, Visited, TypeOK
  <1> QED
    BY <1>1, <1>2, <1>3, <1>4, <1>5, <1>6 DEF Task

LEMMA TaskAtWork ==
    ASSUME NEW r \in Requests, Task(r)
    PROVE  pc[r] \notin {"idle", "queued", "done"}
  BY DEF Task, InsertFind, InsertCreate, InsertRowExisting, InsertRowNew, ScanFind,
         ScanLock, Visit, Probe, ScanEnd, Reply

\* Nothing happens but that requests are issued or started.
Quiet ==
    /\ UNCHANGED <<cmd, tx, txCounter, created, versions, todo, pass, held, out, aborted>>
    /\ \A q \in Requests : \/ pc'[q] = pc[q]
                           \/ pc[q] \in {"idle", "queued"} /\ pc'[q] \in {"queued", "find"}

LEMMA StepKinds ==
    ASSUME TypeOK, QueueOK, [Next]_vars
    PROVE  Quiet \/ \E r \in Requests : Task(r) /\ ~aborted
  <1>1. ASSUME NEW r \in Requests, HandleCommand(r) PROVE Quiet
    BY <1>1 DEF HandleCommand, Quiet, TypeOK
  <1>2. CASE StartTask
    <2>1. Head(pending) \in Requests /\ pc[Head(pending)] = "queued"
      BY <1>2, QueueStart
    <2>2. \A q \in Requests : pc'[q] = pc[q] \/ (pc[q] = "queued" /\ pc'[q] = "find")
      BY <1>2, <2>1 DEF StartTask, TypeOK
    <2> QED
      BY <1>2, <2>2 DEF StartTask, Quiet
  <1>3. CASE UNCHANGED vars
    BY <1>3 DEF vars, Quiet
  <1> QED
    BY <1>1, <1>2, <1>3 DEF Next, Stopped

\* Whether the process is there after a step, it was before.
LEMMA NotAborted ==
    ASSUME TypeOK, QueueOK, [Next]_vars, ~aborted'
    PROVE  ~aborted
  BY StepKinds DEF Quiet

LEMMA StepInserted ==
    ASSUME TypeOK, ControlOK, QueueOK, TxDrawn, WriterOK, AnsweredOK, InsertedOK, [Next]_vars
    PROVE  InsertedOK'
  <1> History
    BY StepHistory
  <1> SUFFICES ASSUME ~aborted', NEW w \in Requests, cmd'[w].op = "INSERT",
                      pc'[w] \in {"reply", "done"}
               PROVE  HasVersion(cmd[w].table, cmd[w].row, tx[w])'
    BY DEF InsertedOK
  <1>1. ~aborted /\ cmd' = cmd
    BY NotAborted DEF History, StableIds
  <1>2. cmd[w].table \in TableNames /\ cmd[w].row \in RowIds /\ w \in Values
        /\ w \in Inserts(cmd[w].table, cmd[w].row)
    BY <1>1, CommandFields DEF Values, Inserts, InsertsInto
  <1>3. CASE pc[w] \in {"reply", "done"}
    <2>1. HasVersion(cmd[w].table, cmd[w].row, tx[w])
      BY <1>1, <1>3 DEF InsertedOK
    <2>2. tx'[w] = tx[w]
      BY <1>3 DEF AnsweredOK, History, StableIds
    <2>3. ASSUME NEW t \in TableNames, NEW k \in RowIds, HasVersion(t, k, tx[w])
          PROVE  HasVersion(t, k, tx[w])'
      BY <2>2, <2>3, VersionStays
    <2>4. PICK t \in TableNames, k \in RowIds : t = cmd[w].table /\ k = cmd[w].row
      BY <1>2
    <2> QED
      BY <1>1, <2>1, <2>3, <2>4
  <1>4. CASE pc[w] \notin {"reply", "done"}
    <2>1. PICK r \in Requests : Task(r)
      BY <1>4, StepKinds DEF Quiet
    <2>2. r = w
      BY <1>4, <2>1, TaskOthers
    <2>3. ~IsScan(w) /\ pc[w] \notin {"scan", "visit", "probe"}
      BY <1>1 DEF IsScan, ControlOK
    <2>4. InsertCreate(w) \/ InsertRowExisting(w) \/ InsertRowNew(w)
      BY <1>4, <2>1, <2>2, <2>3
      DEF Task, InsertFind, ScanFind, ScanLock, Visit, Probe, ScanEnd, Reply, TypeOK
    <2>5. AddVersion(cmd[w].table, cmd[w].row, tx'[w], w)
      <3>1. CASE InsertCreate(w)
        BY <3>1 DEF InsertCreate, NextTx, TypeOK
      <3>2. CASE InsertRowExisting(w)
        BY <3>2 DEF InsertRowExisting, TypeOK
      <3>3. CASE InsertRowNew(w)
        BY <3>3 DEF InsertRowNew
      <3> QED
        BY <2>4, <3>1, <3>2, <3>3
    <2>6. Writes(w, cmd[w].table, cmd[w].row)
      BY <1>2, <2>5, AddVersionWrites
    <2>7. ASSUME NEW t \in TableNames, NEW k \in RowIds, Writes(w, t, k)
          PROVE  HasVersion(t, k, tx[w])'
      BY <2>7, WritesLists
    <2>8. PICK t \in TableNames, k \in RowIds : t = cmd[w].table /\ k = cmd[w].row
      BY <1>2
    <2> QED
      BY <1>1, <2>6, <2>7, <2>8
  <1> QED
    BY <1>3, <1>4

\* Whatever was inserted before a scan was issued, the scan finds.
LEMMA AnsweredInsertIsRow ==
    ASSUME TypeOK, TxDrawn, InsertedOK, ~aborted,
           NEW t \in TableNames, NEW k \in RowIds, NEW x \in Requests,
           NEW w \in Inserts(t, k) \intersect before[x]
    PROVE  HasVersion(t, k, tx[w]) /\ k \in RowsOf(t)
  <1>1. w \in Requests /\ cmd[w].op = "INSERT" /\ cmd[w].table = t /\ cmd[w].row = k
        /\ pc[w] = "done"
    BY DEF Inserts, InsertsInto, TxDrawn
  <1>2. HasVersion(t, k, tx[w])
    BY <1>1 DEF InsertedOK
  <1>3. versions[t][k] # << >>
    BY <1>2 DEF HasVersion
  <1> QED
    BY <1>2, <1>3 DEF RowsOf

LEMMA StepTruncated ==
    ASSUME TypeOK, ControlOK, QueueOK, TxDrawn, WriterOK, AnsweredOK, InsertedOK,
           TruncatedOK, [Next]_vars
    PROVE  TruncatedOK'
  <1> History
    BY StepHistory
  <1> SUFFICES ASSUME ~aborted', NEW x \in Requests, NEW k \in RowIds,
                      cmd'[x].op = "TRUNCATE",
                      pc'[x] = "visit" \/ (pc'[x] \in {"reply", "done"} /\ tx'[x] # 0),
                      Inserts(cmd[x].table, k)' \intersect before'[x] # {}
               PROVE  \/ pc'[x] = "visit" /\ k \in todo'[x]
                      \/ HasVersion(cmd[x].table, k, tx[x])'
    BY DEF TruncatedOK
  <1>1. ~aborted /\ cmd' = cmd
    BY NotAborted DEF History, StableIds
  <1>2. PICK t \in TableNames : t = cmd[x].table
    BY CommandFields
  <1>3. /\ pc[x] # "idle" /\ before'[x] = before[x]
        /\ Inserts(t, k) \intersect before[x] # {}
    <2>1. pc[x] # "idle"
      <3>1. Quiet => pc[x] # "idle"
        BY DEF Quiet
      <3>2. \A r \in Requests : Task(r) /\ r # x => pc[x] # "idle"
        BY TaskOthers
      <3>3. Task(x) => pc[x] # "idle"
        BY TaskAtWork
      <3> QED
        BY <3>1, <3>2, <3>3, StepKinds
    <2>2. before'[x] = before[x]
      BY <2>1 DEF History
    <2>3. Inserts(t, k)' = Inserts(cmd[x].table, k)'
      BY <1>1, <1>2 DEF Inserts, InsertsInto
    <2>4. Inserts(t, k)' = Inserts(t, k)
      BY <1>1 DEF Inserts, InsertsInto
    <2> QED
      BY <2>1, <2>2, <2>3, <2>4
  <1> SUFFICES (pc'[x] = "visit" /\ k \in todo'[x]) \/ HasVersion(t, k, tx[x])'
    BY <1>1, <1>2 DEF HasVersion
  <1>4. ASSUME tx'[x] = tx[x], HasVersion(t, k, tx[x]) PROVE HasVersion(t, k, tx[x])'
    BY <1>4, VersionStays
  <1>5. CASE /\ pc'[x] = pc[x] /\ tx'[x] = tx[x] /\ todo'[x] = todo[x]
    BY <1>1, <1>2, <1>3, <1>4, <1>5 DEF TruncatedOK
  <1>6. ASSUME Task(x) PROVE (pc'[x] = "visit" /\ k \in todo'[x]) \/ HasVersion(t, k, tx[x])'
    <2>1. Scanned(x) = t
      BY <1>1, <1>2 DEF ControlOK, Scanned, TypeOK
    <2>2. CASE ScanLock(x)
      <3>1. k \in RowsOf(t)
        BY <1>1, <1>3, AnsweredInsertIsRow
      <3> QED
        BY <2>1, <2>2, <3>1 DEF ScanLock, TypeOK
    <2>3. CASE Visit(x)
      <3>1. /\ VisitTruncate(x) /\ pc' = pc /\ tx' = tx /\ pc[x] = "visit"
            /\ todo'[x] = todo[x] \ {NextRow(x)}
        BY <1>1, <2>3 DEF Visit, VisitSelect, VisitTruncate, VisitJoin, Visited, TypeOK
      <3>2. (k \in todo[x]) \/ HasVersion(t, k, tx[x])
        BY <1>1, <1>2, <1>3, <3>1 DEF TruncatedOK
      <3>3. CASE k \in todo[x] /\ k = NextRow(x)
        <4>1. AddVersion(t, k, tx[x], NULL)
          BY <2>1, <3>1, <3>3 DEF VisitTruncate
        <4>2. x \in Truncates(t) /\ NULL \in Values /\ tx'[x] = tx[x]
          BY <1>1, <1>2, <3>1 DEF Truncates, Values
        <4>3. Writes(x, t, k)
          BY <4>1, <4>2, AddVersionWrites
        <4> QED
          BY <4>3, WritesLists
      <3> QED
        BY <1>4, <3>1, <3>2, <3>3
    <2>4. CASE ScanEnd(x)
      <3>1. pc[x] = "visit" /\ todo[x] = {} /\ tx' = tx
        BY <2>4 DEF ScanEnd
      <3> QED
        BY <1>1, <1>2, <1>3, <1>4, <3>1 DEF TruncatedOK
    <2>5. CASE Reply(x)
      <3>1. pc[x] = "reply" /\ tx' = tx /\ tx[x] # 0
        BY <2>5 DEF Reply, AnsweredOK
      <3> QED
        BY <1>1, <1>2, <1>3, <1>4, <3>1 DEF TruncatedOK
    <2>6. ~ScanFind(x)
      <3>1. ASSUME ScanFind(x) PROVE pc[x] = "find" /\ (pc'[x] = "scan" \/ (tx' = tx /\ pc'[x] = "done"))
        BY <3>1 DEF ScanFind, Answer, TypeOK
      <3> QED
        BY <3>1 DEF TxDrawn
    <2>7. /\ ~InsertFind(x) /\ ~InsertCreate(x) /\ ~InsertRowExisting(x) /\ ~InsertRowNew(x)
          /\ ~Probe(x)
      BY <1>1
      DEF InsertFind, InsertCreate, InsertRowExisting, InsertRowNew, Probe, ControlOK
    <2> QED
      BY <1>6, <2>2, <2>3, <2>4, <2>5, <2>6, <2>7 DEF Task
  <1>7. CASE Quiet
    <2>1. pc'[x] = pc[x]
      BY <1>7 DEF Quiet
    <2> QED
      BY <1>5, <1>7, <2>1 DEF Quiet
  <1>8. ASSUME NEW r \in Requests, r # x, Task(r)
        PROVE  pc'[x] = pc[x] /\ tx'[x] = tx[x] /\ todo'[x] = todo[x]
    BY <1>8, TaskOthers
  <1> QED
    BY <1>5, <1>6, <1>7, <1>8, StepKinds

LEMMA ListInvariant == Spec => []ListInv
  <1> DEFINE TxInv == (TypeOK /\ ControlOK) /\ QueueOK /\ TxDrawn /\ TxOrder
  <1>1. Init => ListInv
    <2> SUFFICES ASSUME Init PROVE ListInv
      OBVIOUS
    <2>1. \A r \in Requests : /\ pc[r] = "idle" /\ before[r] = {} /\ tx[r] = 0
                              /\ Messages(r) = {}
      BY DEF Init, Messages
    <2>2. \A t \in TableNames, k \in RowIds : DOMAIN versions[t][k] = {}
      BY DEF Init
    <2> QED
      BY <2>1, <2>2
      DEF ListInv, AnsweredOK, ErrorOK, DeletedOK, OlderOK, InsertedOK, TruncatedOK
  <1>2. TxInv /\ TxInv' /\ ReadInv /\ ListInv /\ [Next]_vars => ListInv'
    <2> SUFFICES ASSUME TxInv, TxInv', ReadInv, ListInv, [Next]_vars PROVE ListInv'
      OBVIOUS
    <2>1. AnsweredOK' /\ ErrorOK'
      BY StepAnswered, StepError DEF ReadInv, ListInv
    <2>2. DeletedOK' /\ OlderOK'
      BY StepDeleted, StepOlder DEF ReadInv, ListInv
    <2>3. InsertedOK' /\ TruncatedOK'
      BY StepInserted, StepTruncated DEF ReadInv, ListInv
    <2> QED
      BY <2>1, <2>2, <2>3 DEF ListInv
  <1>3. Spec => []TxInv
    BY TxInvariant
  <1> HIDE DEF TxInv
  <1> QED
    BY <1>1, <1>2, <1>3, ReadInvariant, PTL DEF Spec

-------------------------------------------------------------------------------
(* A lookup is regular *)

\* An answered write of a row has its version in the list, if there was anything
\* to write to.
LEMMA AnsweredWriteIsThere ==
    ASSUME TypeOK, TxDrawn, ListInv, ~aborted,
           NEW t \in TableNames, NEW k \in RowIds,
           NEW v \in Inserts(t, k), NEW w \in Inserts(t, k) \union Truncates(t),
           v \in before[w], pc[w] = "done"
    PROVE  HasVersion(t, k, tx[w])
  <1>1. CASE w \in Inserts(t, k)
    BY <1>1 DEF ListInv, InsertedOK, Inserts, InsertsInto
  <1>2. CASE w \in Truncates(t)
    <2>1. w \in Requests /\ cmd[w].op = "TRUNCATE" /\ cmd[w].table = t
      BY <1>2 DEF Truncates
    <2>2. v \in InsertsInto(t) \intersect before[w]
      BY DEF Inserts
    <2>3. TablesOf(cmd[w]) = {t}
      BY <2>1 DEF TablesOf
    <2>4. Error \notin Messages(w)
      BY <2>1, <2>2, <2>3 DEF ListInv, ErrorOK
    <2>5. tx[w] # 0
      BY <2>1, <2>4 DEF ListInv, AnsweredOK
    <2>6. Inserts(cmd[w].table, k) \intersect before[w] # {}
      BY <2>1
    <2> QED
      BY <2>1, <2>5, <2>6 DEF ListInv, TruncatedOK
  <1> QED
    BY <1>1, <1>2

\* Two versions of requests one of which was answered before the other was
\* issued are in that order.
LEMMA VersionsInOrder ==
    ASSUME TypeOK, TxDrawn, ValuesOK, ListInv,
           NEW t \in TableNames, NEW k \in RowIds,
           NEW i \in DOMAIN versions[t][k], NEW j \in DOMAIN versions[t][k],
           NEW v \in Requests, NEW w \in Requests, v \in before[w],
           versions[t][k][i].tx = tx[v], versions[t][k][j].tx = tx[w]
    PROVE  i < j
  <1> SUFFICES ASSUME ~(i < j) PROVE FALSE
    OBVIOUS
  <1>1. /\ i \in Nat /\ j \in Nat /\ j \in 1 .. j /\ tx[w] # 0 /\ tx[w] \in Nat
    BY VersionTx DEF ListInv, TypeOK
  <1>2. j \in 1 .. i
    BY <1>1
  <1>3. versions[t][k][j].tx < tx[w]
    BY <1>1, <1>2 DEF ListInv, OlderOK
  <1> QED
    BY <1>1, <1>3

\* GetVersion passes the versions of all that was answered before the reader.
LEMMA PassesAnswered ==
    ASSUME TypeOK, TxDrawn, ValuesOK, ListInv, NEW r \in Requests, tx[r] # 0,
           NEW t \in TableNames, NEW k \in RowIds, NEW w \in before[r],
           NEW j \in DOMAIN versions[t][k], versions[t][k][j].tx = tx[w]
    PROVE  j \in Passed(versions[t][k], tx[r])
  <1>1. \A i \in 1 .. j : versions[t][k][i].tx < tx[r]
    BY DEF ListInv, OlderOK
  <1>2. \A i \in 1 .. j : versions[t][k][i].tx \in Nat
    BY VersionTx DEF ListInv
  <1>3. tx[r] \in Nat
    BY DEF TypeOK
  <1> QED
    BY <1>1, <1>2, <1>3 DEF Passed

LEMMA LookupRegular ==
    ASSUME TypeOK, TxDrawn, TxOrder, ValuesOK, ListInv, ~aborted,
           NEW r \in Requests, IsScan(r), tx[r] # 0,
           NEW t \in TableNames, NEW k \in RowIds
    PROVE  Could(r, t, k, GetVersion(versions[t][k], tx[r]))
  <1> DEFINE list == versions[t][k]
             v == GetVersion(list, tx[r])
  <1>1. list \in Seq(Version) /\ tx[r] \in Nat
    BY DEF TypeOK
  <1>2. ASSUME v # NULL PROVE tx[v] # 0 /\ CouldBeValue(r, t, k, v)
    <2>1. PICK i \in Passed(list, tx[r]) :
             (\A j \in Passed(list, tx[r]) : j <= i) /\ v = list[i].val
      BY <1>1, <1>2, GetVersionProperties
    <2>2. i \in DOMAIN list /\ i \in Nat
      BY <2>1, VersionTx DEF Passed, ListInv
    <2>3. v \in Inserts(t, k) /\ tx[v] # 0 /\ tx[v] < tx[r]
      BY <1>2, LookupReads DEF Reads
    <2>4. v \in Requests /\ list[i].tx = tx[v] /\ tx[v] \in Nat
      BY <1>2, <2>1, <2>2, <2>3 DEF ValuesOK, Inserts, InsertsInto, TypeOK
    <2>5. r \notin before[v]
      BY <1>1, <2>3, <2>4 DEF TxOrder
    <2>6. ASSUME NEW w \in Inserts(t, k) \union Truncates(t), v \in before[w], w \in before[r]
          PROVE  FALSE
      <3>1. w \in Requests /\ pc[w] = "done"
        BY <2>6 DEF Inserts, InsertsInto, Truncates, TxDrawn
      <3>2. PICK j \in DOMAIN list : list[j].tx = tx[w]
        BY <2>3, <2>6, <3>1, AnsweredWriteIsThere DEF HasVersion
      <3>3. j \in Passed(list, tx[r])
        BY <2>6, <3>2, PassesAnswered
      <3>4. i < j
        BY <2>2, <2>4, <2>6, <3>1, <3>2, VersionsInOrder
      <3>5. j \in Nat
        BY <3>2, VersionTx DEF ListInv
      <3> QED
        BY <2>1, <2>2, <3>3, <3>4, <3>5
    <2> QED
      BY <2>3, <2>5, <2>6 DEF CouldBeValue
  <1>3. ASSUME v = NULL PROVE CouldBeNull(r, t, k)
    <2> SUFFICES ASSUME NEW w \in Inserts(t, k) \intersect before[r]
                 PROVE  \E x \in Truncates(t) : tx[x] # 0 /\ x \notin before[w] /\ r \notin before[x]
      BY DEF CouldBeNull
    <2>1. w \in Requests
      BY DEF Inserts, InsertsInto
    <2>2. PICK j \in DOMAIN list : list[j].tx = tx[w]
      BY AnsweredInsertIsRow DEF HasVersion, ListInv
    <2>3. j \in Passed(list, tx[r])
      BY <2>2, PassesAnswered
    <2>4. PICK i \in Passed(list, tx[r]) :
             (\A l \in Passed(list, tx[r]) : l <= i) /\ list[i].val = NULL
      BY <1>1, <1>3, <2>3, GetVersionProperties
    <2>5. i \in DOMAIN list /\ i \in Nat /\ j \in Nat /\ i \in 1 .. i
      BY <2>2, <2>4, VersionTx DEF Passed, ListInv
    <2>6. PICK x \in Truncates(t) : tx[x] # 0 /\ tx[x] = list[i].tx
      BY <2>4, <2>5 DEF ListInv, DeletedOK
    <2>7. x \in Requests
      BY DEF Truncates
    <2>8. x \notin before[w]
      <3>1. x \in before[w] => i < j
        BY <2>1, <2>2, <2>5, <2>6, <2>7, VersionsInOrder
      <3> QED
        BY <2>3, <2>4, <2>5, <3>1
    <2>9. r \notin before[x]
      <3>1. list[i].tx <= tx[r] /\ list[i].tx \in Nat
        BY <2>4, <2>5, VersionTx DEF Passed, ListInv
      <3>2. r \in before[x] => tx[r] < tx[x]
        BY <2>6, <2>7 DEF TxOrder
      <3> QED
        BY <1>1, <2>6, <3>1, <3>2
    <2> QED
      BY <2>6, <2>8, <2>9
  <1> QED
    BY <1>2, <1>3 DEF Could

-------------------------------------------------------------------------------
(* What may be read stays so *)

LEMMA CouldStable ==
    ASSUME TypeOK, TxDrawn, History, NEW r \in Requests, tx[r] # 0,
           NEW t, NEW k, NEW v, Could(r, t, k, v)
    PROVE  Could(r, t, k, v)'
  <1>1. /\ Inserts(t, k)' = Inserts(t, k) /\ Truncates(t)' = Truncates(t)
        /\ Inserts(t, k) \subseteq Requests /\ Truncates(t) \subseteq Requests
    BY DEF History, StableIds, Inserts, InsertsInto, Truncates
  <1>2. ASSUME NEW q \in Requests, tx[q] # 0
        PROVE  tx'[q] = tx[q] /\ before'[q] = before[q]
    BY <1>2 DEF TxDrawn, History, StableIds
  <1>3. \A w \in before[r] : w \in Requests /\ before'[w] = before[w]
    BY DEF TypeOK, TxDrawn, History
  <1>4. before'[r] = before[r]
    BY <1>2
  <1>5. CASE v = NULL
    <2> SUFFICES ASSUME NEW w \in Inserts(t, k) \intersect before[r]
                 PROVE  \E x \in Truncates(t) :
                           tx'[x] # 0 /\ x \notin before'[w] /\ r \notin before'[x]
      BY <1>1, <1>4, <1>5 DEF Could, CouldBeNull
    <2>1. PICK x \in Truncates(t) : tx[x] # 0 /\ x \notin before[w] /\ r \notin before[x]
      BY <1>5 DEF Could, CouldBeNull
    <2> QED
      BY <1>1, <1>2, <1>3, <2>1
  <1>6. CASE v # NULL
    <2>1. /\ tx[v] # 0 /\ v \in Inserts(t, k) /\ r \notin before[v]
          /\ ~ \E w \in Inserts(t, k) \union Truncates(t) : v \in before[w] /\ w \in before[r]
      BY <1>6 DEF Could, CouldBeValue
    <2>2. tx'[v] # 0 /\ before'[v] = before[v]
      BY <1>1, <1>2, <2>1
    <2>3. ~ \E w \in Inserts(t, k) \union Truncates(t) : v \in before'[w] /\ w \in before'[r]
      BY <1>3, <1>4, <2>1
    <2> QED
      BY <1>1, <1>6, <2>1, <2>2, <2>3 DEF Could, CouldBeValue
  <1> QED
    BY <1>5, <1>6

LEMMA CouldBeSomeStable ==
    ASSUME TypeOK, TxDrawn, History, NEW r \in Requests, tx[r] # 0,
           NEW t, NEW k, CouldBeSome(r, t, k)
    PROVE  CouldBeSome(r, t, k)'
  <1>1. PICK v \in Inserts(t, k) : tx[v] # 0 /\ CouldBeValue(r, t, k, v)
    BY DEF CouldBeSome
  <1>2. v # NULL /\ Could(r, t, k, v)
    BY <1>1, NullAssumption DEF Could, Inserts, InsertsInto
  <1>3. Could(r, t, k, v)'
    BY <1>2, CouldStable
  <1>4. v \in Inserts(t, k)' /\ tx'[v] # 0 /\ CouldBeValue(r, t, k, v)'
    BY <1>2, <1>3 DEF Could, CouldBeValue
  <1> QED
    BY <1>4 DEF CouldBeSome

\* Row k stays accounted for, as long as what is sent of it only grows (and is
\* not touched in the case of a select).
LEMMA SettledStable ==
    ASSUME TypeOK, TxDrawn, History, NEW r \in Requests, tx[r] # 0, Reader(r),
           NEW p, NEW k, Settled(r, p, k),
           Sent(r, k) \subseteq Sent(r, k)',
           cmd[r].op = "SELECT" => Sent(r, k)' = Sent(r, k)
    PROVE  Settled(r, p, k)'
  <1>1. cmd' = cmd
    BY DEF History, StableIds
  <1>2. PICK t, u : t = cmd[r].table /\ u = cmd[r].other
    OBVIOUS
  <1>3. \A v : (Could(r, t, k, v) => Could(r, t, k, v)')
               /\ (Could(r, u, k, v) => Could(r, u, k, v)')
    BY CouldStable
  <1>4. /\ CouldBeNull(r, t, k) => CouldBeNull(r, t, k)'
        /\ CouldBeNull(r, u, k) => CouldBeNull(r, u, k)'
    BY <1>3 DEF Could
  <1>5. /\ CouldBeSome(r, t, k) => CouldBeSome(r, t, k)'
        /\ CouldBeSome(r, u, k) => CouldBeSome(r, u, k)'
    BY CouldBeSomeStable
  <1>6. \A v : Could(r, cmd[r].table, k, v)' = Could(r, t, k, v)'
    BY <1>1, <1>2 DEF Could, CouldBeNull, CouldBeValue, Inserts, InsertsInto, Truncates
  <1>7. /\ CouldBeNull(r, cmd[r].table, k)' = CouldBeNull(r, t, k)'
        /\ CouldBeNull(r, cmd[r].other, k)' = CouldBeNull(r, u, k)'
        /\ CouldBeSome(r, cmd[r].table, k)' = CouldBeSome(r, t, k)'
        /\ CouldBeSome(r, cmd[r].other, k)' = CouldBeSome(r, u, k)'
    BY <1>1, <1>2
    DEF CouldBeNull, CouldBeSome, CouldBeValue, Inserts, InsertsInto, Truncates
  <1>8. CASE cmd[r].op = "SELECT"
    <2>1. \/ \E m \in Sent(r, k) : m.left # NULL /\ Could(r, t, k, m.left)
          \/ Sent(r, k) = {} /\ CouldBeNull(r, t, k)
      BY <1>2, <1>8 DEF Settled
    <2>2. \/ \E m \in Sent(r, k)' : m.left # NULL /\ Could(r, cmd[r].table, k, m.left)'
          \/ Sent(r, k)' = {} /\ CouldBeNull(r, cmd[r].table, k)'
      BY <1>3, <1>4, <1>6, <1>7, <1>8, <2>1
    <2> QED
      BY <1>1, <1>8, <2>2 DEF Settled
  <1>9. CASE cmd[r].op = "INTERSECT"
    <2>1. Sent(r, k) # {} \/ CouldBeNull(r, t, k) \/ CouldBeNull(r, u, k)
      BY <1>2, <1>9 DEF Settled
    <2>2. \/ Sent(r, k)' # {} \/ CouldBeNull(r, cmd[r].table, k)'
          \/ CouldBeNull(r, cmd[r].other, k)'
      BY <1>4, <1>7, <2>1
    <2> QED
      BY <1>1, <1>9, <2>2 DEF Settled
  <1>10. CASE cmd[r].op = "DIFFERENCE" /\ p = 1
    <2>1. \/ \E m \in Sent(r, k) : m.left # NULL
          \/ CouldBeNull(r, t, k)
          \/ CouldBeSome(r, u, k)
      BY <1>2, <1>10 DEF Settled
    <2>2. \/ \E m \in Sent(r, k)' : m.left # NULL
          \/ CouldBeNull(r, cmd[r].table, k)'
          \/ CouldBeSome(r, cmd[r].other, k)'
      BY <1>4, <1>5, <1>7, <2>1
    <2> QED
      BY <1>1, <1>10, <2>2 DEF Settled
  <1>11. CASE cmd[r].op = "DIFFERENCE" /\ p # 1
    <2>1. \/ \E m \in Sent(r, k) : m.right # NULL
          \/ CouldBeNull(r, u, k)
          \/ CouldBeSome(r, t, k)
      BY <1>2, <1>11 DEF Settled
    <2>2. \/ \E m \in Sent(r, k)' : m.right # NULL
          \/ CouldBeNull(r, cmd[r].other, k)'
          \/ CouldBeSome(r, cmd[r].table, k)'
      BY <1>4, <1>5, <1>7, <2>1
    <2> QED
      BY <1>1, <1>11, <2>2 DEF Settled
  <1> QED
    BY <1>8, <1>9, <1>10, <1>11 DEF Reader

-------------------------------------------------------------------------------
(* Steps of others, and of the request itself *)

Rests(p) ==
    /\ tx'[p] = tx[p] /\ todo'[p] = todo[p] /\ pass'[p] = pass[p] /\ held'[p] = held[p]
    /\ Messages(p)' = Messages(p)
    /\ \/ pc'[p] = pc[p]
       \/ pc[p] \in {"idle", "queued"} /\ pc'[p] \in {"queued", "find"}

LEMMA StepOwn ==
    ASSUME TypeOK, QueueOK, [Next]_vars, NEW p \in Requests
    PROVE  Rests(p) \/ (Task(p) /\ ~aborted)
  <1>1. CASE Quiet
    BY <1>1 DEF Quiet, Rests, Messages
  <1>2. ASSUME NEW r \in Requests, Task(r), r # p PROVE Rests(p)
    BY <1>2, TaskOthers DEF Rests, Messages
  <1> QED
    BY <1>1, <1>2, StepKinds

\* Scans are steps of requests that are no inserts.
LEMMA TaskOfScan ==
    ASSUME ControlOK, NEW p \in Requests, IsScan(p), Task(p)
    PROVE  ScanFind(p) \/ ScanLock(p) \/ Visit(p) \/ Probe(p) \/ ScanEnd(p) \/ Reply(p)
  BY DEF Task, InsertFind, InsertCreate, InsertRowExisting, InsertRowNew, ControlOK, IsScan

\* Only the end of a scan changes the pass, and nothing goes back to find.
LEMMA StepPass ==
    ASSUME TypeOK, QueueOK, [Next]_vars, NEW p \in Requests
    PROVE  /\ pass'[p] = pass[p] \/ (pc[p] = "visit" /\ pass'[p] = 2)
           /\ pc'[p] = "scan" =>
                 pc[p] \in {"scan", "find"} \/ (pc[p] = "visit" /\ pass'[p] = 2)
  <1>1. CASE Rests(p)
    BY <1>1 DEF Rests
  <1>2. ASSUME InsertFind(p) \/ InsertCreate(p) \/ InsertRowExisting(p) \/ InsertRowNew(p)
        PROVE  pass'[p] = pass[p] /\ pc'[p] # "scan"
    BY <1>2
    DEF InsertFind, InsertCreate, InsertRowExisting, InsertRowNew, Answer, TypeOK
  <1>3. ASSUME ScanFind(p) \/ ScanLock(p) \/ Visit(p) \/ Probe(p) \/ Reply(p)
        PROVE  pass'[p] = pass[p] /\ (pc'[p] # "scan" \/ pc[p] = "find")
    BY <1>3
    DEF ScanFind, ScanLock, Visit, VisitSelect, VisitTruncate, VisitJoin, Probe, Reply,
        Answer, TypeOK
  <1>4. ASSUME ScanEnd(p)
        PROVE  /\ pass'[p] = pass[p] \/ pass'[p] = 2
               /\ pc'[p] = "scan" => pass'[p] = 2
    BY <1>4 DEF ScanEnd, TypeOK
  <1>5. ASSUME ScanEnd(p)
        PROVE  pc[p] = "visit"
    BY <1>5 DEF ScanEnd
  <1> QED
    BY <1>1, <1>2, <1>3, <1>4, <1>5, StepOwn DEF Task

LEMMA StepFresh ==
    ASSUME TypeOK, ControlOK, QueueOK, TxDrawn, AnsweredOK, FreshOK, [Next]_vars
    PROVE  FreshOK'
  <1> History
    BY StepHistory
  <1>1. ASSUME NEW r \in Requests, pc[r] \notin {"visit", "probe"}, RowsSent(r) = {}
        PROVE  RowsSent(r)' = {}
    BY <1>1, StepMessages DEF RowsSent
  <1>2. ASSUME NEW r \in Requests, tx'[r] = 0
        PROVE  RowsSent(r)' = {} /\ pass'[r] = 1 /\ ~Succeeded(r)'
    <2>1. tx[r] = 0
      BY <1>2 DEF History, StableIds, TypeOK
    <2>2. pc[r] \notin {"scan", "visit", "probe", "reply"}
      BY <2>1 DEF AnsweredOK
    <2>3. RowsSent(r) = {} /\ pass[r] = 1 /\ ~Succeeded(r)
      BY <2>1 DEF FreshOK
    <2>4. RowsSent(r)' = {} /\ pass'[r] = 1
      BY <1>1, <2>2, <2>3, StepPass
    <2>5. ASSUME Success \in Messages(r)' PROVE FALSE
      <3>1. pc[r] = "create" /\ pc'[r] = "done"
        BY <2>2, <2>3, <2>5, StepMessages DEF Succeeded
      <3>2. Error \in Messages(r)'
        BY <1>2, <3>1, StepMessages
      <3> QED
        BY <3>1, <3>2, StepMessages DEF AnsweredOK
    <2> QED
      BY <2>4, <2>5 DEF Succeeded
  <1>3. ASSUME NEW r \in Requests, pc'[r] = "scan", pass'[r] = 1
        PROVE  RowsSent(r)' = {}
    <2>1. pc[r] \in {"scan", "find"} /\ pass[r] = 1
      BY <1>3, StepPass
    <2>2. RowsSent(r) = {}
      BY <2>1 DEF FreshOK, TxDrawn
    <2> QED
      BY <1>1, <2>1, <2>2
  <1> QED
    BY <1>2, <1>3 DEF FreshOK

\* What a join holds was read from the row it is at.
LEMMA StepHeldRegular ==
    ASSUME TypeOK, ControlOK, QueueOK, TxDrawn, TxOrder, ReadInv, ListInv, HeldRegular,
           [Next]_vars
    PROVE  HeldRegular'
  <1> History
    BY StepHistory
  <1> SUFFICES ASSUME NEW p \in Requests, pc'[p] = "probe",
                      NEW k \in todo'[p], \A j \in todo'[p] : k <= j
               PROVE  Could(p, Scanned(p), k, held[p])'
    BY DEF HeldRegular
  <1>1. cmd' = cmd
    BY DEF History, StableIds
  <1>2. ASSUME pass'[p] = pass[p], tx[p] # 0, NEW t, NEW v, t = Scanned(p), v = held'[p],
               Could(p, t, k, v)
        PROVE  Could(p, Scanned(p), k, held[p])'
    <2>1. Could(p, t, k, v)'
      BY <1>2, CouldStable
    <2>2. Scanned(p)' = t
      BY <1>1, <1>2 DEF Scanned
    <2> QED
      BY <1>2, <2>1, <2>2
      DEF Could, CouldBeNull, CouldBeValue, Inserts, InsertsInto, Truncates
  <1>3. CASE Rests(p)
    <2>1. /\ pc[p] = "probe" /\ todo'[p] = todo[p] /\ pass'[p] = pass[p] /\ held'[p] = held[p]
          /\ tx[p] # 0
      BY <1>3 DEF Rests, ListInv, AnsweredOK
    <2>2. Could(p, Scanned(p), k, held[p])
      BY <2>1 DEF HeldRegular
    <2> QED
      BY <1>2, <2>1, <2>2
  <1>4. ASSUME Task(p), ~aborted PROVE Could(p, Scanned(p), k, held[p])'
    <2>1. Visit(p)
      BY <1>4
      DEF Task, InsertFind, InsertCreate, InsertRowExisting, InsertRowNew, ScanFind,
          ScanLock, Probe, ScanEnd, Reply, Answer, TypeOK
    <2>2. VisitJoin(p) /\ Seen(p) # NULL /\ todo[p] # {} /\ pass' = pass /\ tx[p] # 0
      BY <2>1
      DEF Visit, VisitSelect, VisitTruncate, VisitJoin, ListInv, AnsweredOK
    <2>3. held'[p] = Seen(p) /\ todo' = todo
      BY <2>2 DEF VisitJoin, TypeOK
    <2>4. k = NextRow(p) /\ k \in RowIds
      <3>1. /\ NextRow(p) \in todo[p] /\ todo[p] \subseteq Nat /\ todo[p] \subseteq RowIds
            /\ \A j \in todo[p] : NextRow(p) <= j
        BY <2>2, NextRowInTodo, RowIdsAssumption DEF TypeOK
      <3> QED
        BY <2>3, <3>1
    <2>5. Scanned(p) \in TableNames /\ IsScan(p)
      BY <2>1, ScannedType DEF Visit, ControlOK
    <2>6. Could(p, Scanned(p), k, Seen(p))
      BY <1>4, <2>2, <2>4, <2>5, LookupRegular DEF Seen, ReadInv
    <2> QED
      BY <1>2, <2>2, <2>3, <2>6
  <1> QED
    BY <1>3, <1>4, StepOwn

\* The rows a join sends.
LEMMA StepJoins ==
    ASSUME TypeOK, ControlOK, QueueOK, TxDrawn, TxOrder, ReadInv, ListInv, FreshOK,
           HeldRegular, JoinsOK, [Next]_vars
    PROVE  JoinsOK'
  <1> History
    BY StepHistory
  <1>1. cmd' = cmd
    BY DEF History, StableIds
  <1> SUFFICES ASSUME NEW p \in Requests, IsJoin(p), NEW m \in RowsSent(p)'
               PROVE  /\ Could(p, cmd[p].table, m.row, m.left)'
                      /\ Could(p, cmd[p].other, m.row, m.right)'
    BY <1>1 DEF JoinsOK, IsJoin
  <1>2. PICK t, u : t = cmd[p].table /\ u = cmd[p].other
    OBVIOUS
  <1>3. ASSUME tx[p] # 0, Could(p, t, m.row, m.left), Could(p, u, m.row, m.right)
        PROVE  /\ Could(p, cmd[p].table, m.row, m.left)'
               /\ Could(p, cmd[p].other, m.row, m.right)'
    <2>1. Could(p, t, m.row, m.left)' /\ Could(p, u, m.row, m.right)'
      BY <1>3, CouldStable
    <2> QED
      BY <1>1, <1>2, <2>1
      DEF Could, CouldBeNull, CouldBeValue, Inserts, InsertsInto, Truncates
  <1>4. CASE m \in RowsSent(p)
    <2>1. tx[p] # 0
      BY <1>4 DEF FreshOK
    <2> QED
      BY <1>2, <1>3, <1>4, <2>1 DEF JoinsOK
  <1>5. CASE m \notin RowsSent(p)
    <2>1. m \in Messages(p)' /\ m \notin Messages(p) /\ m.kind = "row"
      BY <1>5 DEF RowsSent
    <2>2. Task(p) /\ ~aborted /\ pc[p] \in {"visit", "probe"}
      BY <2>1, StepOwn, StepMessages DEF Rests
    <2>3. ~Visit(p)
      <3>1. Visit(p) => out' = out
        BY DEF Visit, VisitSelect, VisitTruncate, VisitJoin, IsJoin
      <3> QED
        BY <2>1, <3>1 DEF Messages
    <2>4. ~ScanEnd(p)
      BY <2>1 DEF ScanEnd, Messages
    <2>5. Probe(p)
      BY <2>2, <2>3, <2>4
      DEF Task, InsertFind, InsertCreate, InsertRowExisting, InsertRowNew, ScanFind,
          ScanLock, Reply
    <2> DEFINE k == NextRow(p)
               other == GetVersion(versions[Probed(p)][k], tx[p])
               row == IF cmd[p].op = "INTERSECT" THEN Row(k, held[p], other)
                      ELSE IF pass[p] = 1 THEN Row(k, held[p], NULL) ELSE Row(k, NULL, held[p])
               sends == (cmd[p].op = "INTERSECT") = (other # NULL)
    <2>6. /\ sends /\ m = row
          /\ k \in RowIds /\ held[p] # NULL
      BY <2>1, <2>5, ProbeMessages
    <2>7. /\ Probed(p) \in TableNames /\ IsScan(p) /\ tx[p] # 0
          /\ k \in todo[p] /\ \A j \in todo[p] : k <= j
          /\ pass[p] \in {1, 2} /\ (pass[p] = 2 => cmd[p].op = "DIFFERENCE")
      BY <2>5, ScannedType, NextRowInTodo DEF Probe, ControlOK, ListInv, AnsweredOK, TypeOK
    <2>8. Could(p, Scanned(p), k, held[p])
      BY <2>5, <2>7 DEF Probe, HeldRegular
    <2>9. Could(p, Probed(p), k, other)
      BY <2>2, <2>6, <2>7, LookupRegular DEF ReadInv
    <2>10. row.row = k /\ (cmd[p].op = "INTERSECT" => row.left = held[p] /\ row.right = other)
           /\ (cmd[p].op = "DIFFERENCE" /\ pass[p] = 1 => row.left = held[p] /\ row.right = NULL)
           /\ (cmd[p].op = "DIFFERENCE" /\ pass[p] = 2 => row.left = NULL /\ row.right = held[p])
      BY StatusKinds
    <2>11. cmd[p].op = "INTERSECT" \/ (cmd[p].op = "DIFFERENCE" /\ other = NULL)
      BY <2>6 DEF IsJoin
    <2> HIDE DEF row, other, k
    <2>12. CASE pass[p] = 1
      <3>1. Scanned(p) = t /\ Probed(p) = u
        BY <1>2, <2>12 DEF Scanned, Probed
      <3>2. m.row = k /\ m.left = held[p] /\ m.right = other
        BY <2>6, <2>10, <2>11, <2>12
      <3> QED
        BY <1>3, <2>7, <2>8, <2>9, <3>1, <3>2
    <2>13. CASE pass[p] = 2
      <3>1. Scanned(p) = u /\ Probed(p) = t /\ other = NULL
        BY <1>2, <2>7, <2>11, <2>13 DEF Scanned, Probed
      <3>2. m.row = k /\ m.left = other /\ m.right = held[p]
        BY <2>6, <2>7, <2>10, <2>13, <3>1
      <3> QED
        BY <1>3, <2>7, <2>8, <2>9, <3>1, <3>2
    <2> QED
      BY <2>7, <2>12, <2>13
  <1> QED
    BY <1>4, <1>5

\* Where scan p of r is not running, and is not over, nothing is claimed.
LEMMA SettledIds ==
    ASSUME TypeOK, AnsweredOK, FreshOK, NEW r \in Requests, NEW p \in Passes(r),
           Scanning(r, p) \/ Over(r, p)
    PROVE  tx[r] # 0 /\ p \in {1, 2} /\ pass[r] \in {1, 2}
  <1>1. p \in {1, 2} /\ pass[r] \in {1, 2}
    BY DEF Passes, TypeOK
  <1>2. pass[r] = 2 \/ Scanning(r, p) \/ pc[r] = "reply" \/ Succeeded(r)
    BY <1>1 DEF Over
  <1> QED
    BY <1>1, <1>2 DEF Scanning, AnsweredOK, FreshOK

LEMMA SettledRests ==
    ASSUME TypeOK, QueueOK, TxDrawn, History, AnsweredOK, FreshOK, SettledOK,
           NEW r \in Requests, Reader(r), Rests(r), NEW p \in Passes(r), NEW k \in RowIds,
           Scanning(r, p)' \/ Over(r, p)'
    PROVE  Ahead(r, p, k)' \/ Settled(r, p, k)'
  <1>1. cmd' = cmd /\ Sent(r, k)' = Sent(r, k)
    BY DEF History, StableIds, Rests, Sent, RowsSent
  <1>2. Scanning(r, p) \/ Over(r, p)
    BY DEF Rests, Scanning, Over, Succeeded
  <1>3. tx[r] # 0
    BY <1>2, SettledIds
  <1>4. CASE Settled(r, p, k)
    BY <1>1, <1>3, <1>4, SettledStable
  <1>5. CASE Ahead(r, p, k)
    <2>1. Ahead(r, p, k)'
      BY <1>1, <1>5 DEF Ahead, Scanning, Rests
    <2> QED
      BY <2>1
  <1> QED
    BY <1>2, <1>4, <1>5 DEF SettledOK

\* A row that may be absent in the table that is scanned is accounted for.
LEMMA NullSettles ==
    ASSUME ControlOK, NEW r \in Requests, Reader(r), pass[r] \in Passes(r), NEW k,
           CouldBeNull(r, Scanned(r), k), cmd[r].op = "SELECT" => Sent(r, k) = {}
    PROVE  Settled(r, pass[r], k)
  <1>1. CASE cmd[r].op = "SELECT"
    <2>1. Scanned(r) = cmd[r].table
      BY <1>1 DEF Passes, Scanned
    <2> QED
      BY <1>1, <2>1 DEF Settled
  <1>2. CASE cmd[r].op = "INTERSECT"
    BY <1>2 DEF Settled, Scanned, Passes
  <1>3. CASE cmd[r].op = "DIFFERENCE"
    <2>1. pass[r] \in {1, 2}
      BY <1>3 DEF Passes
    <2>2. CASE pass[r] = 1
      BY <1>3, <2>2 DEF Settled, Scanned
    <2>3. CASE pass[r] = 2
      <3>1. CouldBeNull(r, cmd[r].other, k)
        BY <2>3 DEF Scanned
      <3> QED
        BY <1>3, <2>3, <3>1 DEF Settled
    <2> QED
      BY <2>1, <2>2, <2>3
  <1> QED
    BY <1>1, <1>2, <1>3 DEF Reader

\* A scan takes the lock: rows that are not there could be absent.
LEMMA SettledLock ==
    ASSUME TypeOK, ControlOK, QueueOK, TxDrawn, TxOrder, ReadInv, ListInv, FreshOK, SettledOK,
           History, ~aborted, NEW r \in Requests, Reader(r), ScanLock(r),
           NEW p \in Passes(r), NEW k \in RowIds,
           Scanning(r, p)' \/ Over(r, p)'
    PROVE  Ahead(r, p, k)' \/ Settled(r, p, k)'
  <1>1. /\ cmd' = cmd /\ pc[r] = "scan" /\ pc'[r] = "visit" /\ pass' = pass
        /\ todo'[r] = RowsOf(Scanned(r)) /\ out' = out /\ tx' = tx
    BY DEF ScanLock, TypeOK
  <1>2. Messages(r)' = Messages(r) /\ Sent(r, k)' = Sent(r, k)
    BY <1>1 DEF Messages, Sent, RowsSent
  <1>3. tx[r] # 0 /\ Success \notin Messages(r)
    BY <1>1 DEF ListInv, AnsweredOK
  <1>4. CASE p # pass[r]
    <2>1. Over(r, p)
      BY <1>1, <1>2, <1>4 DEF Scanning, Over, Succeeded
    <2>2. ~Ahead(r, p, k)
      BY <1>4 DEF Ahead, Scanning
    <2>3. Settled(r, p, k)
      BY <2>1, <2>2 DEF SettledOK
    <2> QED
      BY <1>2, <1>3, <2>3, SettledStable
  <1>5. CASE p = pass[r] /\ k \in RowsOf(Scanned(r))
    <2>1. cmd[r].op = "SELECT" => Sent(r, k)' = {}
      <3>1. ASSUME cmd[r].op = "SELECT" PROVE RowsSent(r) = {}
        BY <1>1, <1>5, <3>1 DEF Passes, FreshOK
      <3> QED
        BY <1>2, <3>1 DEF Sent
    <2>2. Ahead(r, p, k)'
      BY <1>1, <1>5, <2>1 DEF Ahead, Scanning
    <2> QED
      BY <2>2
  <1>6. CASE p = pass[r] /\ k \notin RowsOf(Scanned(r))
    <2>1. IsScan(r) /\ Scanned(r) \in TableNames
      BY ScannedType DEF Reader, IsScan
    <2>2. GetVersion(versions[Scanned(r)][k], tx[r]) = NULL
      BY <1>6 DEF RowsOf, GetVersion, Passed
    <2>3. Could(r, Scanned(r), k, NULL)
      BY <1>3, <2>1, <2>2, LookupRegular DEF ReadInv
    <2>4. CouldBeNull(r, Scanned(r), k)
      BY <2>3 DEF Could
    <2>5. cmd[r].op = "SELECT" => Sent(r, k) = {}
      BY <1>1, <1>6 DEF Passes, FreshOK, Sent
    <2>6. Settled(r, p, k)
      BY <1>6, <2>4, <2>5, NullSettles
    <2> QED
      BY <1>2, <1>3, <2>6, SettledStable
  <1> QED
    BY <1>4, <1>5, <1>6

\* A step of a scan keeps what is known of a row it is not at, or of another pass.
LEMMA SettledSame ==
    ASSUME TypeOK, TxDrawn, AnsweredOK, AnsweredOK', FreshOK, SettledOK, History,
           NEW r \in Requests, Reader(r),
           pc[r] \in {"visit", "probe"}, pc'[r] \in {"visit", "probe"}, pass'[r] = pass[r],
           NEW p \in Passes(r), NEW k \in RowIds,
           p = pass[r] /\ k \in todo[r] => k \in todo'[r],
           Sent(r, k) \subseteq Sent(r, k)',
           cmd[r].op = "SELECT" => Sent(r, k)' = Sent(r, k),
           Scanning(r, p)' \/ Over(r, p)'
    PROVE  Ahead(r, p, k)' \/ Settled(r, p, k)'
  <1>1. cmd' = cmd
    BY DEF History, StableIds
  <1>2. Success \notin Messages(r)'
    BY DEF AnsweredOK
  <1>3. Scanning(r, p) \/ Over(r, p)
    BY <1>2 DEF Scanning, Over, Succeeded
  <1>4. tx[r] # 0
    BY <1>3, SettledIds
  <1>5. CASE Settled(r, p, k)
    BY <1>4, <1>5, SettledStable
  <1>6. CASE Ahead(r, p, k)
    <2>1. Ahead(r, p, k)'
      BY <1>1, <1>6 DEF Ahead, Scanning
    <2> QED
      BY <2>1
  <1> QED
    BY <1>3, <1>5, <1>6 DEF SettledOK

LEMMA SettledSelect ==
    ASSUME TypeOK, ControlOK, TxDrawn, TxOrder, ReadInv, ListInv, ListInv', FreshOK,
           SettledOK, History, ~aborted, NEW r \in Requests, Visit(r), VisitSelect(r),
           NEW p \in Passes(r), NEW k \in RowIds,
           Scanning(r, p)' \/ Over(r, p)'
    PROVE  Ahead(r, p, k)' \/ Settled(r, p, k)'
  <1>1. /\ cmd' = cmd /\ pc' = pc /\ pc[r] = "visit" /\ pass' = pass /\ todo[r] # {}
        /\ todo'[r] = todo[r] \ {NextRow(r)} /\ tx' = tx
        /\ cmd[r].op = "SELECT" /\ Reader(r) /\ IsScan(r)
    BY DEF Visit, VisitSelect, Visited, Reader, IsScan, TypeOK
  <1>2. tx[r] # 0 /\ p = 1 /\ pass[r] = 1 /\ Scanned(r) = cmd[r].table
    BY <1>1 DEF ListInv, AnsweredOK, ControlOK, Passes, Scanned, TypeOK
  <1>3. PICK k0 \in RowIds : k0 = NextRow(r)
    BY <1>1, NextRowInTodo
  <1>4. PICK t \in TableNames : t = Scanned(r)
    BY <1>1, CommandFields, <1>2
  <1>5. Could(r, t, k0, Seen(r))
    BY <1>1, <1>2, <1>3, <1>4, LookupRegular DEF Seen, ReadInv
  <1>6. CASE Seen(r) # NULL
    <2>0. PICK m : m = Row(k0, Seen(r), NULL)
      OBVIOUS
    <2>1. m.kind = "row" /\ m.row = k0 /\ m.left = Seen(r)
      BY <2>0, StatusKinds
    <2>2. m \in RowMessages
      <3>1. Seen(r) \in Values /\ NULL \in Values
        BY <1>1, SeenType DEF Values
      <3> QED
        BY <1>6, <2>0, <3>1, MessageTypes
    <2>3. out' = [out EXCEPT ![r] = Append(@, m)]
      BY <1>3, <1>6, <2>0 DEF VisitSelect
    <2>4. Messages(r)' = Messages(r) \union {m}
      BY <2>2, <2>3, AppendMessages
    <2>5. CASE k # k0
      <3>1. Sent(r, k)' = Sent(r, k)
        BY <2>1, <2>4, <2>5 DEF Sent, RowsSent
      <3> QED
        BY <1>1, <1>3, <2>5, <3>1, SettledSame DEF ListInv
    <2>6. CASE k = k0
      <3>1. m \in Sent(r, k)'
        BY <2>1, <2>4, <2>6 DEF Sent, RowsSent
      <3>2. PICK v : v = Seen(r)
        OBVIOUS
      <3>3. Could(r, t, k, v)'
        BY <1>2, <1>5, <2>6, <3>2, CouldStable
      <3>4. Could(r, cmd[r].table, k, m.left)'
        BY <1>1, <1>2, <1>4, <2>1, <3>2, <3>3
        DEF Could, CouldBeNull, CouldBeValue, Inserts, InsertsInto, Truncates
      <3>5. \E n \in Sent(r, k)' : n.left # NULL /\ Could(r, cmd[r].table, k, n.left)'
        BY <1>6, <2>1, <3>1, <3>4
      <3>6. Settled(r, p, k)'
        BY <1>1, <3>5 DEF Settled
      <3> QED
        BY <3>6
    <2> QED
      BY <2>5, <2>6
  <1>7. CASE Seen(r) = NULL
    <2>1. Sent(r, k)' = Sent(r, k)
      BY <1>7 DEF VisitSelect, Sent, RowsSent, Messages
    <2>2. CASE k # k0
      BY <1>1, <1>3, <2>1, <2>2, SettledSame DEF ListInv
    <2>3. CASE k = k0
      <3>1. Ahead(r, p, k) \/ Settled(r, p, k)
        BY <1>1, <1>2 DEF SettledOK, Scanning
      <3>2. ASSUME Ahead(r, p, k) PROVE Settled(r, p, k)
        <4>1. Sent(r, k) = {} /\ CouldBeNull(r, Scanned(r), k)
          BY <1>1, <1>4, <1>5, <1>7, <2>3, <3>2 DEF Ahead, Could
        <4>2. pass[r] \in Passes(r)
          BY <1>2
        <4>3. Settled(r, pass[r], k)
          BY <1>1, <4>1, <4>2, NullSettles
        <4> QED
          BY <1>2, <4>3
      <3>3. Settled(r, p, k)'
        BY <1>1, <1>2, <2>1, <3>1, <3>2, SettledStable
      <3> QED
        BY <3>3
    <2> QED
      BY <2>2, <2>3
  <1> QED
    BY <1>6, <1>7

LEMMA SettledJoin ==
    ASSUME TypeOK, ControlOK, TxDrawn, TxOrder, ReadInv, ListInv, ListInv', FreshOK,
           SettledOK, History, ~aborted, NEW r \in Requests, Visit(r), VisitJoin(r),
           NEW p \in Passes(r), NEW k \in RowIds,
           Scanning(r, p)' \/ Over(r, p)'
    PROVE  Ahead(r, p, k)' \/ Settled(r, p, k)'
  <1>1. /\ cmd' = cmd /\ pc[r] = "visit" /\ pass' = pass /\ todo[r] # {} /\ tx' = tx
        /\ out' = out /\ Reader(r) /\ IsScan(r) /\ cmd[r].op # "SELECT"
    BY DEF Visit, VisitJoin, Reader, IsScan
  <1>2. tx[r] # 0 /\ Scanned(r) \in TableNames
    BY <1>1, ScannedType DEF ListInv, AnsweredOK
  <1>3. PICK k0 \in RowIds : k0 = NextRow(r)
    BY <1>1, NextRowInTodo
  <1>4. Could(r, Scanned(r), k0, Seen(r))
    BY <1>1, <1>2, <1>3, LookupRegular DEF Seen, ReadInv
  <1>5. Sent(r, k)' = Sent(r, k)
    BY <1>1 DEF Sent, RowsSent, Messages
  <1>6. CASE Seen(r) # NULL
    <2>1. pc'[r] = "probe" /\ todo' = todo
      BY <1>6 DEF VisitJoin, TypeOK
    <2> QED
      BY <1>1, <1>5, <2>1, SettledSame DEF ListInv
  <1>7. CASE Seen(r) = NULL
    <2>1. pc' = pc /\ todo'[r] = todo[r] \ {k0}
      BY <1>3, <1>7 DEF VisitJoin, Visited, TypeOK
    <2>2. CASE ~(p = pass[r] /\ k = k0)
      BY <1>1, <1>5, <2>1, <2>2, SettledSame DEF ListInv
    <2>3. CASE p = pass[r] /\ k = k0
      <3>1. CouldBeNull(r, Scanned(r), k)
        BY <1>4, <1>7, <2>3 DEF Could
      <3>2. Settled(r, p, k)
        BY <1>1, <2>3, <3>1, NullSettles
      <3>3. Settled(r, p, k)'
        BY <1>1, <1>2, <1>5, <3>2, SettledStable
      <3> QED
        BY <3>3
    <2> QED
      BY <2>2, <2>3
  <1> QED
    BY <1>6, <1>7

LEMMA SettledProbe ==
    ASSUME TypeOK, ControlOK, TxDrawn, TxOrder, ReadInv, ListInv, ListInv', FreshOK,
           SettledOK, History, ~aborted, NEW r \in Requests, Probe(r),
           NEW p \in Passes(r), NEW k \in RowIds,
           Scanning(r, p)' \/ Over(r, p)'
    PROVE  Ahead(r, p, k)' \/ Settled(r, p, k)'
  <1>1. /\ cmd' = cmd /\ pc[r] = "probe" /\ pc'[r] = "visit" /\ pass' = pass /\ tx' = tx
        /\ todo[r] # {} /\ cmd[r].op \in {"INTERSECT", "DIFFERENCE"}
        /\ Reader(r) /\ IsScan(r)
        /\ pass[r] \in {1, 2} /\ (pass[r] = 2 => cmd[r].op = "DIFFERENCE")
    BY DEF Probe, ControlOK, Reader, IsScan, TypeOK
  <1>2. tx[r] # 0 /\ Probed(r) \in TableNames
    BY <1>1, ScannedType DEF ListInv, AnsweredOK
  <1>3. PICK k0 \in RowIds : k0 = NextRow(r)
    BY <1>1, NextRowInTodo
  <1>4. todo'[r] = todo[r] \ {k0}
    BY <1>3 DEF Probe, Visited, TypeOK
  <1>5. PICK other : other = GetVersion(versions[Probed(r)][k0], tx[r])
    OBVIOUS
  <1>6. Could(r, Probed(r), k0, other)
    BY <1>1, <1>2, <1>5, LookupRegular DEF ReadInv
  <1>7. PICK m : m = IF cmd[r].op = "INTERSECT" THEN Row(k0, held[r], other)
                     ELSE IF pass[r] = 1 THEN Row(k0, held[r], NULL) ELSE Row(k0, NULL, held[r])
    OBVIOUS
  <1>8. /\ (cmd[r].op = "INTERSECT") = (other # NULL)
              => Messages(r)' = Messages(r) \union {m}
        /\ ~((cmd[r].op = "INTERSECT") = (other # NULL)) => Messages(r)' = Messages(r)
        /\ held[r] # NULL
    BY <1>3, <1>5, <1>7, ProbeMessages
  <1>9. /\ m.kind = "row" /\ m.row = k0
        /\ cmd[r].op = "DIFFERENCE" /\ pass[r] = 1 => m.left = held[r]
        /\ cmd[r].op = "DIFFERENCE" /\ pass[r] = 2 => m.right = held[r]
    BY <1>7, StatusKinds
  <1>10. Sent(r, k) \subseteq Sent(r, k)'
    BY <1>8 DEF Sent, RowsSent
  <1>11. CASE ~(p = pass[r] /\ k = k0)
    BY <1>1, <1>4, <1>10, <1>11, SettledSame DEF ListInv
  <1>12. CASE /\ p = pass[r] /\ k = k0
              /\ (cmd[r].op = "INTERSECT") = (other # NULL)
    <2>1. m \in Sent(r, k)'
      BY <1>8, <1>9, <1>12 DEF Sent, RowsSent
    <2>2. Settled(r, p, k)'
      BY <1>1, <1>8, <1>9, <1>12, <2>1 DEF Settled
    <2> QED
      BY <2>2
  <1>13. CASE p = pass[r] /\ k = k0 /\ cmd[r].op = "INTERSECT" /\ other = NULL
    <2>1. CouldBeNull(r, cmd[r].other, k)
      BY <1>1, <1>6, <1>13 DEF Could, Probed
    <2>2. Settled(r, p, k)
      BY <1>13, <2>1 DEF Settled
    <2>3. Settled(r, p, k)'
      BY <1>1, <1>2, <1>10, <2>2, SettledStable
    <2> QED
      BY <2>3
  <1>14. CASE p = pass[r] /\ k = k0 /\ cmd[r].op = "DIFFERENCE" /\ other # NULL
    <2>1. CouldBeSome(r, Probed(r), k)
      BY <1>6, <1>14 DEF Could, CouldBeSome, CouldBeValue
    <2>2. Settled(r, p, k)
      BY <1>1, <1>14, <2>1 DEF Settled, Probed
    <2>3. Settled(r, p, k)'
      BY <1>1, <1>2, <1>10, <1>14, <2>2, SettledStable
    <2> QED
      BY <2>3
  <1> QED
    BY <1>1, <1>11, <1>12, <1>13, <1>14

LEMMA SettledEnd ==
    ASSUME TypeOK, ControlOK, TxDrawn, ListInv, ListInv', FreshOK,
           SettledOK, History, NEW r \in Requests, Reader(r), ScanEnd(r) \/ Reply(r),
           NEW p \in Passes(r), NEW k \in RowIds,
           Scanning(r, p)' \/ Over(r, p)'
    PROVE  Ahead(r, p, k)' \/ Settled(r, p, k)'
  <1>1. Sent(r, k)' = Sent(r, k)
    <2>1. CASE ScanEnd(r)
      BY <2>1 DEF ScanEnd, Sent, RowsSent, Messages
    <2>2. CASE Reply(r)
      <3>1. Messages(r)' = Messages(r) \union {Success}
        BY <2>2, AppendMessages, MessageTypes DEF Reply, Answer
      <3> QED
        BY <3>1, StatusKinds DEF Sent, RowsSent
    <2> QED
      BY <2>1, <2>2
  <1>2. (Scanning(r, p) \/ Over(r, p)) /\ ~Ahead(r, p, k)
    <2>1. p \in {1, 2} /\ pass[r] \in {1, 2} /\ (p = 2 => cmd[r].op = "DIFFERENCE")
      BY DEF Passes, TypeOK
    <2>2. CASE ScanEnd(r)
      <3>1. pc[r] = "visit" /\ todo[r] = {} /\ out' = out /\ cmd' = cmd
        BY <2>2 DEF ScanEnd
      <3>2. \/ pass'[r] = 2 /\ pass[r] = 1 /\ pc'[r] = "scan"
            \/ pass' = pass /\ pc'[r] = "reply" /\ (cmd[r].op = "DIFFERENCE" => pass[r] # 1)
        BY <2>2 DEF ScanEnd, TypeOK
      <3>3. Success \notin Messages(r)'
        BY <3>2 DEF ListInv, AnsweredOK
      <3>4. p = pass[r] \/ p < pass[r]
        BY <2>1, <3>2, <3>3 DEF Scanning, Over, Succeeded
      <3> QED
        BY <3>1, <3>4 DEF Scanning, Over, Ahead
    <2>3. CASE Reply(r)
      BY <2>3 DEF Reply, Over, Ahead, Scanning
    <2> QED
      BY <2>2, <2>3
  <1>3. Settled(r, p, k)
    BY <1>2 DEF SettledOK
  <1>4. tx[r] # 0
    BY <1>2, SettledIds DEF ListInv
  <1>5. Settled(r, p, k)'
    BY <1>1, <1>3, <1>4, SettledStable
  <1> QED
    BY <1>5

LEMMA StepSettled ==
    ASSUME TypeOK, ControlOK, QueueOK, TxDrawn, TxOrder, ReadInv, ListInv, ListInv', FreshOK,
           SettledOK, [Next]_vars
    PROVE  SettledOK'
  <1> History
    BY StepHistory
  <1>1. cmd' = cmd
    BY DEF History, StableIds
  <1> SUFFICES ASSUME NEW r \in Requests, Reader(r), NEW p \in Passes(r), NEW k \in RowIds,
                      Scanning(r, p)' \/ Over(r, p)'
               PROVE  Ahead(r, p, k)' \/ Settled(r, p, k)'
    BY <1>1 DEF SettledOK, Reader, Passes
  <1>2. CASE Rests(r)
    BY <1>2, SettledRests DEF ListInv
  <1>3. ASSUME Task(r), ~aborted PROVE Ahead(r, p, k)' \/ Settled(r, p, k)'
    <2>1. IsScan(r)
      BY DEF Reader, IsScan
    <2>2. ASSUME ScanFind(r) PROVE FALSE
      <3>1. /\ pc[r] = "find" /\ pc'[r] \in {"scan", "done"} /\ pass' = pass
        BY <2>2 DEF ScanFind, Answer, TypeOK
      <3>2. tx[r] = 0
        BY <3>1 DEF TxDrawn
      <3>3. pass[r] = 1 /\ Success \notin Messages(r) /\ p \in {1, 2}
        BY <3>2 DEF FreshOK, Succeeded, Passes
      <3>4. Success \notin Messages(r)'
        BY <3>1, <3>3, StepMessages
      <3> QED
        BY <3>1, <3>3, <3>4 DEF Scanning, Over, Succeeded
    <2>3. CASE ScanLock(r)
      BY <1>3, <2>3, SettledLock
    <2>4. CASE Visit(r)
      <3>1. VisitSelect(r) \/ VisitJoin(r)
        BY <2>4 DEF Visit, VisitTruncate, Reader
      <3> QED
        BY <1>3, <2>4, <3>1, SettledSelect, SettledJoin
    <2>5. CASE Probe(r)
      BY <1>3, <2>5, SettledProbe
    <2>6. CASE ScanEnd(r) \/ Reply(r)
      BY <2>6, SettledEnd
    <2> QED
      BY <1>3, <2>1, <2>2, <2>3, <2>4, <2>5, <2>6, TaskOfScan
  <1> QED
    BY <1>2, <1>3, StepOwn

-------------------------------------------------------------------------------

LEMMA RegularInvariant == Spec => []RegularInv
  <1> DEFINE TxInv == (TypeOK /\ ControlOK) /\ QueueOK /\ TxDrawn /\ TxOrder
  <1>1. Init => RegularInv
    <2> SUFFICES ASSUME Init PROVE RegularInv
      OBVIOUS
    <2>1. \A r \in Requests : pc[r] = "idle" /\ pass[r] = 1 /\ Messages(r) = {}
      BY DEF Init, Messages
    <2>2. \A r \in Requests : \A p \in Passes(r) : ~Scanning(r, p) /\ ~Over(r, p)
      BY <2>1 DEF Scanning, Over, Succeeded, Passes
    <2> QED
      BY <2>1, <2>2
      DEF RegularInv, FreshOK, HeldRegular, JoinsOK, SettledOK, RowsSent, Succeeded
  <1>2. TxInv /\ ReadInv /\ ListInv /\ ListInv' /\ RegularInv /\ [Next]_vars => RegularInv'
    <2> SUFFICES ASSUME TxInv, ReadInv, ListInv, ListInv', RegularInv, [Next]_vars
                 PROVE  RegularInv'
      OBVIOUS
    <2>1. FreshOK'
      BY StepFresh DEF ListInv, RegularInv
    <2>2. HeldRegular'
      BY StepHeldRegular DEF RegularInv
    <2>3. JoinsOK'
      BY StepJoins DEF RegularInv
    <2>4. SettledOK'
      BY StepSettled DEF RegularInv
    <2> QED
      BY <2>1, <2>2, <2>3, <2>4 DEF RegularInv
  <1>3. Spec => []TxInv
    BY TxInvariant
  <1> HIDE DEF TxInv
  <1> QED
    BY <1>1, <1>2, <1>3, ReadInvariant, ListInvariant, PTL DEF Spec

LEMMA RegularInvImplies ==
    ASSUME ListInv, RegularInv
    PROVE  ReadsAreRegular
  <1>1. ASSUME NEW r \in Requests, Succeeded(r), Reader(r), NEW p \in Passes(r),
               NEW k \in RowIds
        PROVE  Settled(r, p, k)
    <2>1. Over(r, p) /\ ~Ahead(r, p, k)
      BY <1>1 DEF Over, Ahead, Scanning, ListInv, AnsweredOK, Succeeded
    <2> QED
      BY <1>1, <2>1 DEF RegularInv, SettledOK
  <1>2. ASSUME NEW r \in Requests, Succeeded(r), cmd[r].op = "SELECT"
        PROVE  SelectIsRegular(r)
    <2>1. 1 \in Passes(r) /\ Reader(r)
      BY <1>2 DEF Passes, Reader
    <2>2. ASSUME NEW k \in RowIds
          PROVE  \/ \E m \in Sent(r, k) : CouldBeValue(r, cmd[r].table, k, m.left)
                 \/ Sent(r, k) = {} /\ CouldBeNull(r, cmd[r].table, k)
      BY <1>1, <1>2, <2>1 DEF Settled, Could
    <2> QED
      BY <2>2 DEF SelectIsRegular, Sent
  <1>3. ASSUME NEW r \in Requests, Succeeded(r), IsJoin(r)
        PROVE  JoinIsRegular(r)
    <2>1. 1 \in Passes(r) /\ Reader(r)
      BY <1>3 DEF Passes, Reader, IsJoin
    <2>2. \A m \in RowsSent(r) :
             Could(r, cmd[r].table, m.row, m.left) /\ Could(r, cmd[r].other, m.row, m.right)
      BY <1>3 DEF RegularInv, JoinsOK
    <2>3. ASSUME cmd[r].op = "INTERSECT", NEW k \in RowIds
          PROVE  \/ \E m \in RowsSent(r) : m.row = k
                 \/ CouldBeNull(r, cmd[r].table, k)
                 \/ CouldBeNull(r, cmd[r].other, k)
      BY <1>1, <1>3, <2>1, <2>3 DEF Settled, Sent
    <2>4. ASSUME cmd[r].op = "DIFFERENCE", NEW k \in RowIds
          PROVE  /\ \/ \E m \in RowsSent(r) : m.row = k /\ m.left # NULL
                    \/ CouldBeNull(r, cmd[r].table, k)
                    \/ CouldBeSome(r, cmd[r].other, k)
                 /\ \/ \E m \in RowsSent(r) : m.row = k /\ m.right # NULL
                    \/ CouldBeNull(r, cmd[r].other, k)
                    \/ CouldBeSome(r, cmd[r].table, k)
      <3>1. Settled(r, 1, k) /\ Settled(r, 2, k)
        BY <1>1, <1>3, <2>1, <2>4 DEF Passes
      <3> QED
        BY <2>4, <3>1 DEF Settled, Sent
    <2> QED
      BY <2>2, <2>3, <2>4 DEF JoinIsRegular, Could
  <1>4. ASSUME NEW r \in Requests, Error \in Messages(r)
        PROVE  \E t \in TablesOf(cmd[r]) : InsertsInto(t) \intersect before[r] = {}
    BY <1>4 DEF ListInv, ErrorOK
  <1> QED
    BY <1>2, <1>3, <1>4 DEF ReadsAreRegular, IsJoin

\* A command sees the effect of every command that was answered before it was
\* issued, or of one that overlaps them: no acknowledged insert is lost and no
\* overwritten or truncated row comes back, in selects and in both sides of
\* joins; in the release build too, where versions may be out of the order of
\* their ids.
THEOREM ReadsAreRegularCorrect == Spec => []ReadsAreRegular
  <1>1. ListInv /\ RegularInv => ReadsAreRegular
    BY RegularInvImplies
  <1> QED
    BY <1>1, ListInvariant, RegularInvariant, PTL

-------------------------------------------------------------------------------
(* The end of the database *)

\* Where the closure of a task is follows from where the task is: the queue,
\* the threads and the closures that remain never share a task.
ClosuresOK ==
    /\ QueueOK
    /\ \A r \in running : r \in Requests /\ pc[r] \notin {"idle", "queued", "done"}
    /\ \A r \in returned : r \in Requests /\ pc[r] = "done"

LifetimeInv ==
    /\ TypeOK /\ ControlOK
    /\ ClosuresOK
    /\ NoTaskOutlivesDatabase

\* A task returns by giving its thread back, and only so.
LEMMA TaskCloses ==
    ASSUME TypeOK, NEW r \in Requests, Task(r)
    PROVE  /\ pc[r] \notin {"idle", "queued", "done"}
           /\ \A q \in Requests : q # r => pc'[q] = pc[q]
           /\ \/ Pool!Finish(r) /\ pc'[r] = "done"
              \/ UNCHANGED poolVars /\ pc'[r] \notin {"idle", "queued", "done"}
  <1>1. CASE InsertCreate(r) \/ Reply(r)
    BY <1>1 DEF InsertCreate, Reply, Answer, TypeOK
  <1>2. CASE ScanFind(r)
    BY <1>2 DEF ScanFind, Answer, TypeOK
  <1>3. CASE InsertFind(r) \/ InsertRowExisting(r) \/ InsertRowNew(r)
    BY <1>3 DEF InsertFind, InsertRowExisting, InsertRowNew, TypeOK
  <1>4. CASE ScanLock(r) \/ Visit(r) \/ Probe(r) \/ ScanEnd(r)
    BY <1>4 DEF ScanLock, Visit, VisitSelect, VisitTruncate, VisitJoin, Probe, ScanEnd, TypeOK
  <1> QED
    BY <1>1, <1>2, <1>3, <1>4 DEF Task

\* The steps of DatabaseLifetime are steps of Database, or leave its tasks alone.
LEMMA LifetimeSteps ==
    ASSUME [LifetimeNext]_allVars
    PROVE  \/ [Next]_vars
           \/ /\ UNCHANGED <<taskVars, asserts, txCounter, created, versions, aborted, before>>
              /\ UNCHANGED <<pending, running>>
  <1>1. ASSUME NEW r \in Requests, ~aborted, Issue(r) \/ Run(r) PROVE Next
    BY <1>1 DEF Issue, Run, Next
  <1>2. ASSUME ~aborted, Take PROVE Next
    BY <1>2 DEF Take, Next
  <1>3. CASE JoinThreads
    BY <1>3 DEF JoinThreads, Pool!Destroy, taskVars, vars
  <1>4. CASE DropOwner \/ \E r \in Requests : DropTask(r)
    BY <1>4 DEF DropOwner, DropTask, DropReference, Pool!Close, poolVars, taskVars
  <1>5. CASE AtRest \/ UNCHANGED allVars
    BY <1>5 DEF AtRest, allVars
  <1> QED
    BY <1>1, <1>2, <1>3, <1>4, <1>5 DEF LifetimeNext

LEMMA LifetimeTypes ==
    ASSUME TypeOK, ControlOK, [LifetimeNext]_allVars
    PROVE  TypeOK' /\ ControlOK'
  <1>1. CASE [Next]_vars
    BY <1>1, StepTypes
  <1>2. CASE UNCHANGED <<taskVars, asserts, txCounter, created, versions, aborted, before>>
    BY <1>2 DEF taskVars, TypeOK, ControlOK, IsScan
  <1> QED
    BY <1>1, <1>2, LifetimeSteps

\* The only closure that is left is the one that is dropped.
LEMMA LastReference ==
    ASSUME TypeOK, ClosuresOK, NEW r \in returned, References = {r}
    PROVE  pending = << >> /\ running = {} /\ returned = {r}
  <1>1. r \notin running /\ \A i \in DOMAIN pending : pending[i] # r
    BY DEF ClosuresOK, QueueOK
  <1>2. running \subseteq {r} /\ returned \subseteq {r} /\ \A i \in DOMAIN pending : pending[i] = r
    BY DEF References
  <1>3. DOMAIN pending = {}
    BY <1>1, <1>2
  <1>4. pending = << >>
    BY <1>3, LenProperties, EmptySeq DEF ClosuresOK, QueueOK
  <1> QED
    BY <1>1, <1>2, <1>4

LEMMA LifetimeStep ==
    ASSUME LifetimeInv, [LifetimeNext]_allVars
    PROVE  ClosuresOK' /\ NoTaskOutlivesDatabase'
  <1> USE DEF LifetimeInv
  <1>1. ASSUME NEW r \in Requests, Issue(r)
        PROVE  ClosuresOK' /\ NoTaskOutlivesDatabase'
    <2>1. QueueOK'
      BY <1>1, QueueSubmit DEF Issue, ClosuresOK
    <2>2. /\ pc[r] = "idle" /\ \A q \in Requests : q # r => pc'[q] = pc[q]
          /\ UNCHANGED <<running, returned, phase>> /\ owner
      BY <1>1 DEF Issue, HandleCommand, Pool!Submit, lifetimeVars, TypeOK
    <2> QED
      BY <2>1, <2>2 DEF ClosuresOK, NoTaskOutlivesDatabase
  <1>2. ASSUME Take PROVE ClosuresOK' /\ NoTaskOutlivesDatabase'
    <2>1. /\ QueueOK' /\ Head(pending) \in Requests /\ pc[Head(pending)] = "queued"
      BY <1>2, QueueStart DEF Take, ClosuresOK
    <2>2. /\ pc' = [pc EXCEPT ![Head(pending)] = "find"]
          /\ running' = running \union {Head(pending)}
          /\ pending # << >> /\ UNCHANGED <<returned, phase, owner>>
      BY <1>2 DEF Take, StartTask, Pool!Start, lifetimeVars
    <2>3. \A q \in Requests : pc'[q] = IF q = Head(pending) THEN "find" ELSE pc[q]
      BY <2>2 DEF TypeOK
    <2>4. ClosuresOK'
      BY <2>1, <2>2, <2>3 DEF ClosuresOK
    <2>5. References # {}
      <3>1. Len(pending) \in Nat \ {0} /\ DOMAIN pending = 1 .. Len(pending)
        BY <2>2, LenProperties, EmptySeq DEF ClosuresOK, QueueOK
      <3>2. 1 \in DOMAIN pending
        BY <3>1
      <3> QED
        BY <3>2 DEF References
    <2>6. phase = "open"
      BY <2>5 DEF NoTaskOutlivesDatabase
    <2> QED
      BY <2>2, <2>4, <2>6 DEF NoTaskOutlivesDatabase
  <1>3. ASSUME NEW r \in Requests, Run(r)
        PROVE  ClosuresOK' /\ NoTaskOutlivesDatabase'
    <2>1. QueueOK'
      BY <1>3, QueueTask DEF Run, ClosuresOK
    <2>2. /\ pc[r] \notin {"idle", "queued", "done"}
          /\ \A q \in Requests : q # r => pc'[q] = pc[q]
          /\ \/ Pool!Finish(r) /\ pc'[r] = "done"
             \/ UNCHANGED poolVars /\ pc'[r] \notin {"idle", "queued", "done"}
          /\ returned' = IF pc'[r] = "done" THEN returned \union {r} ELSE returned
          /\ UNCHANGED owner
      BY <1>3, TaskCloses DEF Run
    <2>3. CASE Pool!Finish(r) /\ pc'[r] = "done"
      <3>1. /\ r \in running /\ running' = running \ {r} /\ returned' = returned \union {r}
            /\ UNCHANGED phase
        BY <2>2, <2>3 DEF Pool!Finish
      <3>2. phase = "open"
        BY <3>1 DEF NoTaskOutlivesDatabase, References
      <3> QED
        BY <2>1, <2>2, <3>1, <3>2, <2>3 DEF ClosuresOK, NoTaskOutlivesDatabase
    <2>4. CASE UNCHANGED poolVars /\ pc'[r] \notin {"idle", "queued", "done"}
      BY <2>1, <2>2, <2>4 DEF poolVars, ClosuresOK, NoTaskOutlivesDatabase, References
    <2> QED
      BY <2>2, <2>3, <2>4
  <1>4. ASSUME DropOwner PROVE ClosuresOK' /\ NoTaskOutlivesDatabase'
    <2>1. /\ ~owner' /\ UNCHANGED <<pc, pending, running, returned>>
          /\ References = {} \/ UNCHANGED phase
          /\ owner
      BY <1>4 DEF DropOwner, DropReference, Pool!Close, poolVars
    <2> QED
      BY <2>1 DEF ClosuresOK, QueueOK, NoTaskOutlivesDatabase, References
  <1>5. ASSUME NEW r \in Requests, DropTask(r)
        PROVE  ClosuresOK' /\ NoTaskOutlivesDatabase'
    <2>1. /\ r \in returned /\ returned' = returned \ {r}
          /\ UNCHANGED <<pc, pending, running, owner>>
      BY <1>5 DEF DropTask, DropReference, Pool!Close, poolVars
    <2>2. ClosuresOK'
      BY <2>1 DEF ClosuresOK, QueueOK
    <2>3. CASE ~owner /\ References = {r}
      <3>1. pending = << >> /\ running = {} /\ returned = {r}
        BY <2>1, <2>3, LastReference
      <3>2. References' = {}
        BY <2>1, <3>1 DEF References
      <3> QED
        BY <2>1, <2>2, <2>3, <3>2 DEF NoTaskOutlivesDatabase
    <2>4. CASE ~(~owner /\ References = {r})
      <3>1. UNCHANGED phase
        BY <1>5, <2>4 DEF DropTask, DropReference, poolVars
      <3>2. phase = "open"
        BY <2>1 DEF NoTaskOutlivesDatabase, References
      <3> QED
        BY <2>2, <3>1, <3>2 DEF NoTaskOutlivesDatabase
    <2> QED
      BY <2>3, <2>4
  <1>6. ASSUME JoinThreads PROVE ClosuresOK' /\ NoTaskOutlivesDatabase'
    <2>1. /\ UNCHANGED <<pc, pending, running, returned, owner>>
          /\ phase = "closing" \/ UNCHANGED phase
      BY <1>6 DEF JoinThreads, Pool!Destroy, lifetimeVars, vars
    <2> QED
      BY <2>1 DEF ClosuresOK, QueueOK, NoTaskOutlivesDatabase, References
  <1>7. ASSUME UNCHANGED allVars PROVE ClosuresOK' /\ NoTaskOutlivesDatabase'
    BY <1>7 DEF allVars, vars, lifetimeVars, ClosuresOK, QueueOK,
                NoTaskOutlivesDatabase, References
  <1> QED
    BY <1>1, <1>2, <1>3, <1>4, <1>5, <1>6, <1>7 DEF LifetimeNext, AtRest

LEMMA LifetimeInvariant == LifetimeSpec => []LifetimeInv
  <1>1. LifetimeInit => LifetimeInv
    <2> SUFFICES ASSUME LifetimeInit PROVE LifetimeInv
      OBVIOUS
    <2>1. TypeOK /\ ControlOK
      BY InitTypes DEF LifetimeInit
    <2>2. ClosuresOK /\ NoTaskOutlivesDatabase
      BY EmptySeq DEF LifetimeInit, Init, Pool!PoolInit, ClosuresOK, QueueOK,
                      NoTaskOutlivesDatabase
    <2> QED
      BY <2>1, <2>2 DEF LifetimeInv
  <1>2. LifetimeInv /\ [LifetimeNext]_allVars => LifetimeInv'
    BY LifetimeTypes, LifetimeStep DEF LifetimeInv
  <1> QED
    BY <1>1, <1>2, PTL DEF LifetimeSpec

\* As long as a task is queued, running or not yet destroyed, the database is
\* not: its destructor starts after the last closure and the owner are gone,
\* whichever of them goes last and on whatever thread.
THEOREM NoTaskOutlivesDatabaseCorrect == LifetimeSpec => []NoTaskOutlivesDatabase
  <1>1. LifetimeInv => NoTaskOutlivesDatabase
    BY DEF LifetimeInv
  <1> QED
    BY <1>1, LifetimeInvariant, PTL

\* The queues keep the promise of ResultStream even if the owner of the
\* database leaves while commands are carried out.
THEOREM LifetimeStreamSafety == LifetimeSpec => Stream!StreamSafety
  <1>1. LifetimeInit => Stream!StreamInit
    BY StreamInitMaps DEF LifetimeInit
  <1>2. LifetimeInv /\ [LifetimeNext]_allVars => [Stream!StreamNext]_(Stream!streamVars)
    <2> SUFFICES ASSUME LifetimeInv, [LifetimeNext]_allVars
                 PROVE  [Stream!StreamNext]_(Stream!streamVars)
      OBVIOUS
    <2>1. CASE [Next]_vars
      BY <2>1, StreamStepMaps DEF LifetimeInv, ClosuresOK
    <2>2. CASE UNCHANGED taskVars
      BY <2>2, StateKept DEF taskVars, LifetimeInv, Stream!streamVars
    <2> QED
      BY <2>1, <2>2, LifetimeSteps
  <1> QED
    BY <1>1, <1>2, LifetimeInvariant, PTL DEF LifetimeSpec, Stream!StreamSafety

===============================================================================
