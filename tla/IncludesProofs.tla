--------------------------- MODULE IncludesProofs ---------------------------
(***************************************************************************)
(* Proofs about Includes, for all file systems, files of any length, any   *)
(* depth of includes and any number of handles.                            *)
(***************************************************************************)
EXTENDS Includes, FiniteSetTheorems, SequenceTheorems, WellFoundedInduction, TLAPS

ItemsOf(file) == disk[file].items

\* Items are read one by one; a file that waits has an include before "at".
Placed ==
    \A n \in 1 .. Len(stack) :
        /\ stack[n].at \in 1 .. Len(ItemsOf(stack[n].file)) + 1
        /\ n < Len(stack) =>
              /\ stack[n].at - 1 \in 1 .. Len(ItemsOf(stack[n].file))
              /\ ItemsOf(stack[n].file)[stack[n].at - 1].is = "include"

IInv ==
    /\ disk \in Disks
    /\ TypeOK
    /\ Placed
    /\ phase \in {"done", "failed"} => Len(stack) = 1
    /\ HandlesAreReturned

-----------------------------------------------------------------------------
(* Files, frames and reports.                                              *)

\* What is in a sequence with another element at one place.
LEMMA ReplacedElement ==
    ASSUME NEW S, NEW q \in Seq(S), NEW j \in 1 .. Len(q), NEW e \in S
    PROVE  LET r == [q EXCEPT ![j] = e]
           IN  /\ r \in Seq(S) /\ Len(r) = Len(q) /\ r[j] = e
               /\ \A i \in 1 .. Len(q) : i # j => r[i] = q[i]
OBVIOUS

\* The contents of a file of the disk.
LEMMA FilesAreRead ==
    ASSUME disk \in Disks, NEW file \in DOMAIN disk
    PROVE  /\ file \in Locations
           /\ ItemsOf(file) \in Seq(Items) /\ Len(ItemsOf(file)) \in Nat
           /\ disk[file].broken \in BOOLEAN
           /\ \A n \in 1 .. Len(ItemsOf(file)) : ItemsOf(file)[n] \in Items
<1>1. file \in Locations /\ disk[file] \in Contents
  BY DisksAssumption
<1>2. ItemsOf(file) \in Seq(Items) /\ disk[file].broken \in BOOLEAN
  BY <1>1 DEF Contents, ItemsOf
<1> QED
  BY <1>1, <1>2

\* The file at the top of the stack.
LEMMA TopFrame ==
    ASSUME IInv
    PROVE  /\ Len(stack) \in Nat /\ Len(stack) >= 1 /\ Len(stack) \in 1 .. Len(stack)
           /\ Top \in Frame /\ Top.file \in DOMAIN disk /\ Top.file \in Locations
           /\ Top.dir \in Locations /\ Top.at \in Nat \ {0} /\ Top.list \in Seq(Declaration)
           /\ Text.items = ItemsOf(Top.file) /\ Text.items \in Seq(Items) /\ Len(Text.items) \in Nat
           /\ Text.broken \in BOOLEAN
           /\ Top.at \in 1 .. Len(Text.items) + 1
<1>1. stack \in Seq(Frame) /\ stack # <<>>
  BY DEF IInv, TypeOK
<1>2. Len(stack) \in Nat /\ Len(stack) >= 1 /\ Len(stack) \in 1 .. Len(stack)
  BY <1>1
<1>3. Top \in Frame
  BY <1>1, <1>2 DEF Top
<1>4. Top.file \in DOMAIN disk /\ Top.at \in 1 .. Len(ItemsOf(Top.file)) + 1
  BY <1>2 DEF IInv, TypeOK, Placed, Top
<1>5. Top.dir \in Locations /\ Top.at \in Nat \ {0} /\ Top.list \in Seq(Declaration)
  BY <1>3 DEF Frame
<1> QED
  BY <1>2, <1>3, <1>4, <1>5, FilesAreRead DEF Text, ItemsOf, IInv

\* The fields of a frame that moves on.
LEMMA FrameMoves ==
    ASSUME NEW t \in Frame, NEW n, NEW l
    PROVE  [t EXCEPT !.at = n, !.list = l] = [file |-> t.file, dir |-> t.dir, at |-> n, list |-> l]
<1> DEFINE u == [t EXCEPT !.at = n]
<1>1. u = [file |-> t.file, dir |-> t.dir, at |-> n, list |-> t.list]
  BY DEF Frame
<1>2. [t EXCEPT !.at = n, !.list = l] = [u EXCEPT !.list = l]
  OBVIOUS
<1> HIDE DEF u
<1>3. [u EXCEPT !.list = l] = [file |-> t.file, dir |-> t.dir, at |-> n, list |-> l]
  BY <1>1
<1> QED
  BY <1>2, <1>3

\* Going on behind an item changes the frame of its file only.
LEMMA PastItemFrame ==
    ASSUME IInv, NEW list \in Seq(Declaration)
    PROVE  LET past == PastItem(list)
           IN  /\ past \in Seq(Frame) /\ Len(past) = Len(stack)
               /\ past[Len(stack)] = [file |-> Top.file, dir |-> Top.dir,
                                      at |-> Top.at + 1, list |-> list]
               /\ \A n \in 1 .. Len(stack) : n # Len(stack) => past[n] = stack[n]
<1> DEFINE k == Len(stack)
           e == [Top EXCEPT !.at = Top.at + 1, !.list = list]
<1>1. stack \in Seq(Frame) /\ k \in 1 .. k /\ Top \in Frame /\ Top.at \in Nat
  BY TopFrame DEF IInv, TypeOK
<1>2. e = [file |-> Top.file, dir |-> Top.dir, at |-> Top.at + 1, list |-> list]
  BY <1>1, FrameMoves
<1>3. e \in Frame
  BY <1>1, <1>2 DEF Frame
<1>4. PastItem(list) = [stack EXCEPT ![k] = e]
  BY DEF PastItem, Top
<1> HIDE DEF e
<1> QED
  BY <1>1, <1>2, <1>3, <1>4, ReplacedElement

\* Returning from a file changes the list of the file that included it.
LEMMA ReturnFrame ==
    ASSUME IInv, Len(stack) > 1, NEW list \in Seq(Declaration), Return(list)
    PROVE  /\ stack' \in Seq(Frame) /\ Len(stack') = Len(stack) - 1 /\ stack' # <<>>
           /\ Len(stack) - 1 \in 1 .. Len(stack) - 1
           /\ Outer = stack[Len(stack) - 1] /\ Outer \in Frame
           /\ stack'[Len(stack) - 1] = [file |-> Outer.file, dir |-> Outer.dir,
                                        at |-> Outer.at, list |-> list]
           /\ \A n \in 1 .. Len(stack) - 1 : n # Len(stack) - 1 => stack'[n] = stack[n]
<1> DEFINE k == Len(stack)
           e == [Outer EXCEPT !.list = list]
<1>1. stack \in Seq(Frame) /\ k \in Nat /\ k - 1 \in Nat /\ k - 1 >= 1 /\ k - 1 \in 1 .. k - 1 /\ k - 1 \in 1 .. k
  BY TopFrame DEF IInv, TypeOK
<1>2. Outer = stack[k - 1] /\ Outer \in Frame
  BY <1>1 DEF Outer
<1>3. e = [file |-> Outer.file, dir |-> Outer.dir, at |-> Outer.at, list |-> list]
  BY <1>2 DEF Frame
<1>4. e \in Frame
  BY <1>2, <1>3 DEF Frame
<1>5. stack' = [n \in 1 .. k - 1 |-> IF n = k - 1 THEN e ELSE stack[n]]
  BY DEF Return
<1>6. \A n \in 1 .. k - 1 : stack[n] \in Frame
  BY <1>1
<1> HIDE DEF e
<1>7. stack' \in Seq(Frame) /\ Len(stack') = k - 1
  BY <1>1, <1>4, <1>5, <1>6
<1>8. stack' # <<>>
  BY <1>1, <1>7
<1> QED
  BY <1>1, <1>2, <1>3, <1>5, <1>7, <1>8

Reports == [code : Codes, file : Locations, at : Nat, handles : 0 .. MaxHandles]

\* A report is added to those before, and counted if it is about a missing file.
LEMMA OneMoreReport ==
    ASSUME IInv, NEW code \in Codes, Report(code)
    PROVE  /\ reported' \in Seq(Reports) /\ Len(reported) \in Nat /\ Len(reported') = Len(reported) + 1
           /\ Cardinality(MissingReports) \in Nat
           /\ Cardinality(MissingReports') =
                 IF code = "missing_include_file" THEN Cardinality(MissingReports) + 1
                 ELSE Cardinality(MissingReports)
<1> DEFINE k == Len(reported)
           r == [code |-> code, file |-> Top.file, at |-> Top.at, handles |-> handles]
<1>1. reported \in Seq(Reports) /\ k \in Nat /\ handles \in 0 .. MaxHandles
  BY DEF IInv, TypeOK, Reports
<1>2. r \in Reports
  BY <1>1, TopFrame DEF Reports
<1>3. reported' = Append(reported, r)
  BY DEF Report
<1>4. r.code = code
  OBVIOUS
<1> HIDE DEF r
<1>5. /\ reported' \in Seq(Reports) /\ Len(reported') = k + 1 /\ reported'[k + 1] = r
      /\ \A n \in 1 .. k : reported'[n] = reported[n]
  BY <1>1, <1>2, <1>3
<1>6. IsFiniteSet(MissingReports) /\ Cardinality(MissingReports) \in Nat
  <2>1. IsFiniteSet(1 .. k)
    BY <1>1, FS_Interval
  <2>2. MissingReports \subseteq 1 .. k
    BY DEF MissingReports
  <2> QED
    BY <2>1, <2>2, FS_Subset, FS_CardinalityType
<1>7. CASE code = "missing_include_file"
  <2>1. MissingReports' = MissingReports \union {k + 1}
    BY <1>1, <1>4, <1>5, <1>7 DEF MissingReports
  <2>2. k + 1 \notin MissingReports
    BY <1>1 DEF MissingReports
  <2> QED
    BY <1>1, <1>5, <1>6, <1>7, <2>1, <2>2, FS_AddElement
<1>8. CASE code # "missing_include_file"
  <2>1. MissingReports' = MissingReports
    BY <1>1, <1>4, <1>5, <1>8 DEF MissingReports
  <2> QED
    BY <1>1, <1>5, <1>6, <1>8, <2>1
<1> QED
  BY <1>7, <1>8

\* The handles that are open while files are read.
LEMMA OpenHandles ==
    ASSUME IInv, phase # "panic"
    PROVE  /\ handles \in Nat /\ RootHandles \in {1, 2} /\ MaxHandles \in Nat /\ MaxHandles >= 2
           /\ Cardinality(MissingReports) \in Nat
           /\ \E leaked \in 0 .. Cardinality(MissingReports) :
                 handles = RootHandles + 2 * (Len(stack) - 1) + leaked
<1>1. IsFiniteSet(1 .. Len(reported)) /\ MissingReports \subseteq 1 .. Len(reported)
  BY FS_Interval DEF MissingReports, IInv, TypeOK
<1>2. Cardinality(MissingReports) \in Nat
  BY <1>1, FS_Subset, FS_CardinalityType
<1> QED
  BY <1>2, DisksAssumption DEF IInv, TypeOK, HandlesAreReturned, RootHandles

-----------------------------------------------------------------------------
(* The invariant.                                                          *)

\* The outermost file is open.
LEMMA InitIInv == Init => IInv
<1> SUFFICES ASSUME Init PROVE IInv
  OBVIOUS
<1> DEFINE f == Opened(Root, Front(Root))
<1>1. /\ disk \in Disks /\ stack = <<f>> /\ phase = "reading" /\ handles = RootHandles
      /\ declarations = <<>> /\ reported = <<>> /\ Len(reported) = 0
  BY DEF Init
<1>2. Root \in Locations /\ Root \in DOMAIN disk /\ Front(Root) \in Locations
  BY <1>1, DisksAssumption DEF Front, Locations
<1>3. f \in Frame /\ f.file = Root /\ f.at = 1
  BY <1>2 DEF Opened, Frame
<1> HIDE DEF f
<1>4. stack \in Seq(Frame) /\ Len(stack) = 1 /\ stack[1] = f /\ stack # <<>>
  BY <1>1, <1>3
<1>5. RootHandles \in {1, 2} /\ RootHandles \in 0 .. MaxHandles
  BY DisksAssumption DEF RootHandles
<1>6. Len(ItemsOf(Root)) \in Nat
  BY <1>1, <1>2, FilesAreRead
<1>7. TypeOK
  BY <1>1, <1>2, <1>3, <1>4, <1>5 DEF TypeOK
<1>8. Placed
  BY <1>3, <1>4, <1>6 DEF Placed
<1>9. HandlesAreReturned
  <2>1. MissingReports = {} /\ Cardinality(MissingReports) = 0
    BY <1>1, FS_EmptySet DEF MissingReports
  <2> QED
    BY <1>1, <1>4, <1>5, <2>1 DEF HandlesAreReturned
<1> QED
  BY <1>1, <1>7, <1>8, <1>9 DEF IInv

\* Reading an item moves the file on; the rest of the invariant follows from what
\* else the step does.
LEMMA ItemRead ==
    ASSUME IInv, AtItem, NEW list \in Seq(Declaration),
           stack' = PastItem(list), UNCHANGED <<disk, phase, declarations>>,
           reported' \in Seq(Reports), handles' \in 0 .. MaxHandles,
           HandlesAreReturned'
    PROVE  IInv'
<1> DEFINE k == Len(stack)
<1>1. /\ stack' \in Seq(Frame) /\ Len(stack') = k
      /\ stack'[k] = [file |-> Top.file, dir |-> Top.dir, at |-> Top.at + 1, list |-> list]
      /\ \A n \in 1 .. k : n # k => stack'[n] = stack[n]
  BY PastItemFrame
<1>2. /\ k \in Nat /\ k >= 1 /\ Top.file \in DOMAIN disk /\ Top.at <= Len(ItemsOf(Top.file))
      /\ Top.at \in Nat \ {0} /\ Len(ItemsOf(Top.file)) \in Nat
  BY TopFrame DEF AtItem
<1>3. stack' # <<>>
  BY <1>1, <1>2
<1>4. stack'[k].file = Top.file /\ stack'[k].at = Top.at + 1
  BY <1>1
<1>5. TypeOK'
  <2>1. ASSUME NEW n \in 1 .. k PROVE stack'[n].file \in DOMAIN disk
    BY <1>1, <1>2, <1>4 DEF IInv, TypeOK
  <2> QED
    BY <1>1, <1>3, <2>1 DEF IInv, TypeOK, Reports
<1>6. Placed'
  <2> SUFFICES ASSUME NEW n \in 1 .. k
               PROVE  /\ stack'[n].at \in 1 .. Len(ItemsOf(stack'[n].file)) + 1
                      /\ n < k =>
                            /\ stack'[n].at - 1 \in 1 .. Len(ItemsOf(stack'[n].file))
                            /\ ItemsOf(stack'[n].file)[stack'[n].at - 1].is = "include"
    BY <1>1 DEF Placed, ItemsOf
  <2>1. CASE n = k
    BY <2>1, <1>2, <1>4
  <2>2. CASE n # k
    BY <2>2, <1>1, <1>2 DEF IInv, Placed
  <2> QED
    BY <2>1, <2>2
<1> QED
  BY <1>5, <1>6 DEF IInv, AtItem

\* A declaration needs no handle.
LEMMA ReadDeclarationStep ==
    ASSUME IInv, ReadDeclaration
    PROVE  IInv'
<1> DEFINE list == Appended(Top.list, [file |-> Top.file, at |-> Top.at])
<1>1. AtItem /\ stack' = PastItem(list) /\ UNCHANGED <<disk, phase, handles, declarations, reported>>
  BY DEF ReadDeclaration
<1>2. list \in Seq(Declaration)
  BY TopFrame DEF Appended, Declaration
<1>3. Len(stack') = Len(stack)
  BY <1>1, <1>2, PastItemFrame
<1>4. HandlesAreReturned'
  BY <1>1, <1>3 DEF IInv, HandlesAreReturned, MissingReports
<1>5. reported' \in Seq(Reports) /\ handles' \in 0 .. MaxHandles
  BY <1>1 DEF IInv, TypeOK, Reports
<1> QED
  BY <1>1, <1>2, <1>4, <1>5, ItemRead

\* Nor does an include with an illegal path.
LEMMA RejectIncludeStep ==
    ASSUME IInv, RejectInclude
    PROVE  IInv'
<1>1. /\ AtItem /\ stack' = PastItem(Top.list) /\ UNCHANGED <<disk, phase, handles, declarations>>
      /\ Report("invalid_include_path") /\ phase = "reading" /\ Top.list \in Seq(Declaration)
  BY TopFrame DEF RejectInclude, Including, AtItem
<1>2. Len(stack') = Len(stack)
  BY <1>1, PastItemFrame
<1>3. reported' \in Seq(Reports) /\ Cardinality(MissingReports') = Cardinality(MissingReports)
  BY <1>1, OneMoreReport DEF Codes
<1>4. HandlesAreReturned'
  BY <1>1, <1>2, <1>3 DEF IInv, HandlesAreReturned, RootHandles
<1>5. handles' \in 0 .. MaxHandles
  BY <1>1 DEF IInv, TypeOK
<1> QED
  BY <1>1, <1>3, <1>4, <1>5, ItemRead

\* Nor, in the end, does an include that names a directory.
LEMMA IncludeDirectoryStep ==
    ASSUME IInv, IncludeDirectory
    PROVE  IInv'
<1>1. /\ AtItem /\ stack' = PastItem(Top.list) /\ Top.list \in Seq(Declaration)
      /\ UNCHANGED <<disk, phase, handles, declarations, reported>>
  BY TopFrame DEF IncludeDirectory, Including
<1>2. Len(stack') = Len(stack)
  BY <1>1, PastItemFrame
<1>3. HandlesAreReturned'
  BY <1>1, <1>2 DEF IInv, HandlesAreReturned, MissingReports
<1>4. reported' \in Seq(Reports) /\ handles' \in 0 .. MaxHandles
  BY <1>1 DEF IInv, TypeOK, Reports
<1> QED
  BY <1>1, <1>3, <1>4, ItemRead

\* The directory of a missing file may stay open, and is counted.
LEMMA MissingIncludeStep ==
    ASSUME IInv, MissingInclude
    PROVE  IInv'
<1>1. /\ AtItem /\ stack' = PastItem(Top.list) /\ UNCHANGED <<disk, phase, declarations>>
      /\ Report("missing_include_file") /\ phase = "reading" /\ Top.list \in Seq(Declaration)
      /\ handles' = IF DirOpens THEN handles + 1 ELSE handles
  BY TopFrame DEF MissingInclude, Including, AtItem
<1>2. Len(stack') = Len(stack)
  BY <1>1, PastItemFrame
<1>3. reported' \in Seq(Reports) /\ Cardinality(MissingReports') = Cardinality(MissingReports) + 1
  BY <1>1, OneMoreReport DEF Codes
<1>4. /\ handles \in 0 .. MaxHandles /\ MaxHandles \in Nat /\ RootHandles \in Nat
      /\ Cardinality(MissingReports) \in Nat /\ Len(stack) \in Nat
  BY <1>1, OpenHandles, TopFrame DEF IInv, TypeOK
<1>5. handles' \in 0 .. MaxHandles
  BY <1>1, <1>4 DEF DirOpens
<1>6. PICK leaked \in 0 .. Cardinality(MissingReports) :
        handles = RootHandles + 2 * (Len(stack) - 1) + leaked
  BY <1>1, OpenHandles
<1>7. HandlesAreReturned'
  <2> DEFINE more == IF DirOpens THEN leaked + 1 ELSE leaked
  <2>1. more \in 0 .. Cardinality(MissingReports')
    BY <1>3, <1>4
  <2>2. handles' = RootHandles + 2 * (Len(stack') - 1) + more
    BY <1>1, <1>2, <1>4, <1>6
  <2>3. RootHandles' = RootHandles
    BY DEF RootHandles
  <2> QED
    BY <2>1, <2>2, <2>3 DEF HandlesAreReturned
<1> QED
  BY <1>1, <1>3, <1>5, <1>7, ItemRead

\* The stack when an include is entered: the including file has moved on, and
\* waits below the included one.
LEMMA EnteredFrames ==
    ASSUME IInv, EnterInclude
    PROVE  LET k == Len(stack)
           IN  /\ stack' \in Seq(Frame) /\ Len(stack') = k + 1 /\ k \in Nat /\ k >= 1
               /\ stack'[k + 1] = Opened(IncludedFile, IncludedDir)
               /\ stack'[k] = [file |-> Top.file, dir |-> Top.dir, at |-> Top.at + 1, list |-> Top.list]
               /\ \A n \in 1 .. k : n # k => stack'[n] = stack[n]
               /\ IncludedFile \in DOMAIN disk /\ IncludedDir \in Locations
<1> DEFINE k == Len(stack)
           past == PastItem(Top.list)
           e == Opened(IncludedFile, IncludedDir)
<1>1. FileOpens /\ DirOpens /\ stack' = Append(past, e)
  BY DEF EnterInclude, FileOpens, Opens
<1>2. IncludedFile \in DOMAIN disk /\ IncludedFile \in Locations
  BY <1>1, FilesAreRead DEF FileOpens, IInv
<1>3. IncludedDir \in Locations
  <2>1. PICK file \in DOMAIN disk : \E n \in 0 .. Len(file) - 1 : IncludedDir = SubSeq(file, 1, n)
    BY <1>1 DEF DirOpens, Directories
  <2>2. file \in Seq(STRING)
    BY FilesAreRead DEF Locations, IInv
  <2> QED
    BY <2>1, <2>2 DEF Locations
<1>4. e \in Frame
  BY <1>2, <1>3 DEF Opened, Frame
<1>5. /\ past \in Seq(Frame) /\ Len(past) = k /\ k \in Nat /\ k >= 1 /\ k \in 1 .. k
      /\ past[k] = [file |-> Top.file, dir |-> Top.dir, at |-> Top.at + 1, list |-> Top.list]
      /\ \A n \in 1 .. k : n # k => past[n] = stack[n]
  BY TopFrame, PastItemFrame
<1> HIDE DEF past, e
<1>6. /\ stack' \in Seq(Frame) /\ Len(stack') = k + 1 /\ stack'[k + 1] = e
      /\ \A n \in 1 .. k : stack'[n] = past[n]
  BY <1>1, <1>4, <1>5
<1> QED
  BY <1>2, <1>3, <1>5, <1>6 DEF e

\* An include takes two handles.
LEMMA EnterIncludeStep ==
    ASSUME IInv, EnterInclude
    PROVE  IInv'
<1> DEFINE k == Len(stack)
           e == Opened(IncludedFile, IncludedDir)
<1>1. /\ AtItem /\ UNCHANGED <<disk, phase, declarations, reported>> /\ handles' = handles + 2
      /\ phase = "reading" /\ FileOpens /\ Item.is = "include"
  BY DEF EnterInclude, Including, AtItem
<1>2. /\ stack' \in Seq(Frame) /\ Len(stack') = k + 1 /\ k \in Nat /\ k >= 1 /\ stack'[k + 1] = e
      /\ stack'[k] = [file |-> Top.file, dir |-> Top.dir, at |-> Top.at + 1, list |-> Top.list]
      /\ \A n \in 1 .. k : n # k => stack'[n] = stack[n]
      /\ IncludedFile \in DOMAIN disk
  BY EnteredFrames
<1>3. /\ Top.file \in DOMAIN disk /\ Top.at <= Len(ItemsOf(Top.file)) /\ Top.at \in Nat \ {0}
      /\ Len(ItemsOf(Top.file)) \in Nat /\ ItemsOf(Top.file)[Top.at].is = "include"
      /\ Len(ItemsOf(IncludedFile)) \in Nat
  BY <1>1, <1>2, TopFrame, FilesAreRead DEF AtItem, Item, IInv
<1>4. e.file = IncludedFile /\ e.at = 1
  BY DEF Opened
<1>5. stack'[k].file = Top.file /\ stack'[k].at = Top.at + 1
  BY <1>2
<1> HIDE DEF e
<1>6. handles' \in 0 .. MaxHandles
  BY <1>1, DisksAssumption DEF IInv, TypeOK, FileOpens, Opens
<1>7. \A n \in 1 .. k + 1 : n = k + 1 \/ n = k \/ (n \in 1 .. k /\ n # k /\ n < k)
  BY <1>2
<1>8. TypeOK'
  <2>1. ASSUME NEW n \in 1 .. k + 1 PROVE stack'[n].file \in DOMAIN disk
    BY <1>2, <1>3, <1>4, <1>5, <1>7 DEF IInv, TypeOK
  <2>2. stack' # <<>>
    BY <1>2
  <2> QED
    BY <1>1, <1>2, <1>6, <2>1, <2>2 DEF IInv, TypeOK
<1>9. Placed'
  <2> SUFFICES ASSUME NEW n \in 1 .. k + 1
               PROVE  /\ stack'[n].at \in 1 .. Len(ItemsOf(stack'[n].file)) + 1
                      /\ n < k + 1 =>
                            /\ stack'[n].at - 1 \in 1 .. Len(ItemsOf(stack'[n].file))
                            /\ ItemsOf(stack'[n].file)[stack'[n].at - 1].is = "include"
    BY <1>1, <1>2 DEF Placed, ItemsOf
  <2>1. CASE n = k + 1
    BY <2>1, <1>2, <1>3, <1>4
  <2>2. CASE n = k
    <3>1. stack'[n].at - 1 = Top.at
      BY <2>2, <1>3, <1>5
    <3> QED
      BY <2>2, <3>1, <1>3, <1>5
  <2>3. CASE n \in 1 .. k /\ n # k /\ n < k
    BY <2>3, <1>2 DEF IInv, Placed
  <2> QED
    BY <2>1, <2>2, <2>3, <1>7
<1>10. HandlesAreReturned'
  <2>1. PICK leaked \in 0 .. Cardinality(MissingReports) :
           handles = RootHandles + 2 * (Len(stack) - 1) + leaked
    BY <1>1, OpenHandles
  <2>2. /\ MissingReports' = MissingReports /\ RootHandles' = RootHandles
        /\ RootHandles \in Nat /\ leaked \in Nat
    BY <1>1, OpenHandles DEF MissingReports, RootHandles
  <2>3. handles' = RootHandles + 2 * (Len(stack') - 1) + leaked
    BY <1>1, <1>2, <2>1, <2>2
  <2> QED
    BY <2>2, <2>3 DEF HandlesAreReturned
<1> QED
  BY <1>1, <1>8, <1>9, <1>10 DEF IInv

\* Returning from an included file gives two handles back.
LEMMA Returned ==
    ASSUME IInv, Included, NEW list \in Seq(Declaration), Return(list), handles' = Closed,
           UNCHANGED <<disk, phase, declarations>>, reported' \in Seq(Reports),
           Cardinality(MissingReports') = Cardinality(MissingReports)
    PROVE  IInv'
<1> DEFINE k == Len(stack) - 1
<1>1. phase = "reading" /\ Len(stack) > 1 /\ Len(stack) \in Nat /\ k \in Nat /\ k >= 1
  BY TopFrame DEF Included, AtEnd
<1>2. /\ stack' \in Seq(Frame) /\ Len(stack') = k /\ stack' # <<>>
      /\ Outer = stack[k]
      /\ stack'[k] = [file |-> Outer.file, dir |-> Outer.dir, at |-> Outer.at, list |-> list]
      /\ \A n \in 1 .. k : n # k => stack'[n] = stack[n]
  BY <1>1, ReturnFrame
<1>3. \A n \in 1 .. k : stack'[n].file = stack[n].file /\ stack'[n].at = stack[n].at
  <2>1. stack'[k].file = Outer.file /\ stack'[k].at = Outer.at
    BY <1>2
  <2>2. stack'[k].file = stack[k].file /\ stack'[k].at = stack[k].at
    BY <1>2, <2>1
  <2>3. SUFFICES ASSUME NEW n \in 1 .. k
                 PROVE  stack'[n].file = stack[n].file /\ stack'[n].at = stack[n].at
    OBVIOUS
  <2>4. CASE n = k
    BY <2>2, <2>4
  <2>5. CASE n # k
    <3>1. stack'[n] = stack[n]
      BY <1>2, <2>5
    <3> QED
      BY <3>1
  <2> QED
    BY <2>4, <2>5
<1>4. \A n \in 1 .. k : n \in 1 .. Len(stack) /\ n < Len(stack)
  BY <1>1
<1>5. PICK leaked \in 0 .. Cardinality(MissingReports) :
         handles = RootHandles + 2 * (Len(stack) - 1) + leaked
  BY <1>1, OpenHandles
<1>6. RootHandles \in Nat /\ leaked \in Nat /\ handles \in 0 .. MaxHandles /\ MaxHandles \in Nat /\ handles' = handles - 2
  BY <1>1, OpenHandles DEF IInv, TypeOK, Closed
<1>7. handles' \in 0 .. MaxHandles /\ handles' = RootHandles + 2 * (k - 1) + leaked
  BY <1>1, <1>5, <1>6
<1>8. TypeOK'
  BY <1>2, <1>3, <1>4, <1>7 DEF IInv, TypeOK, Reports
<1>9. Placed'
  BY <1>2, <1>3, <1>4 DEF IInv, Placed, ItemsOf
<1>10. HandlesAreReturned'
  BY <1>2, <1>7 DEF HandlesAreReturned, RootHandles
<1> QED
  BY <1>1, <1>8, <1>9, <1>10 DEF IInv

\* The declarations of an included file join those of the including one.
LEMMA LeaveIncludeStep ==
    ASSUME IInv, LeaveInclude
    PROVE  IInv'
<1>1. /\ Included /\ Return(Outer.list \o Top.list) /\ handles' = Closed
      /\ UNCHANGED <<disk, phase, declarations, reported>> /\ Len(stack) > 1
  BY DEF LeaveInclude, Included
<1>2. Outer.list \o Top.list \in Seq(Declaration)
  <2>1. Outer \in Frame /\ Top \in Frame
    BY <1>1, TopFrame DEF Outer, IInv, TypeOK
  <2> QED
    BY <2>1 DEF Frame
<1>3. reported' \in Seq(Reports) /\ MissingReports' = MissingReports
  BY <1>1 DEF IInv, TypeOK, Reports, MissingReports
<1> QED
  BY <1>1, <1>2, <1>3, Returned

\* A syntax error in an included file is reported, and its declarations are lost.
LEMMA AbandonIncludeStep ==
    ASSUME IInv, AbandonInclude
    PROVE  IInv'
<1>1. /\ Included /\ Return(Outer.list) /\ handles' = Closed /\ Report("syntax_error")
      /\ UNCHANGED <<disk, phase, declarations>> /\ Len(stack) > 1
  BY DEF AbandonInclude, Included, Kept
<1>2. Outer.list \in Seq(Declaration)
  <2>1. Outer \in Frame
    BY <1>1, TopFrame DEF Outer, IInv, TypeOK
  <2> QED
    BY <2>1 DEF Frame
<1>3. reported' \in Seq(Reports) /\ Cardinality(MissingReports') = Cardinality(MissingReports)
  BY <1>1, OneMoreReport DEF Codes
<1> QED
  BY <1>1, <1>2, <1>3, Returned

\* A failed assertion ends the program, with the handles of the file closed.
LEMMA FailAssertionStep ==
    ASSUME IInv, FailAssertion
    PROVE  IInv'
<1>1. /\ Included /\ handles' = handles - 2 /\ phase' = "panic" /\ phase = "reading" /\ Len(stack) > 1
      /\ UNCHANGED <<disk, stack, declarations, reported>>
  BY DEF FailAssertion, Included, AtEnd, Closed
<1>2. /\ handles \in 0 .. MaxHandles /\ MaxHandles \in Nat /\ RootHandles \in Nat /\ Len(stack) \in Nat
      /\ \E leaked \in Nat : handles = RootHandles + 2 * (Len(stack) - 1) + leaked
  BY <1>1, OpenHandles, TopFrame DEF IInv, TypeOK
<1>3. handles' \in 0 .. MaxHandles
  BY <1>1, <1>2
<1> QED
  BY <1>1, <1>3 DEF IInv, TypeOK, Placed, ItemsOf, HandlesAreReturned

\* The outermost file has been read.
LEMMA FinishStep ==
    ASSUME IInv, Finish
    PROVE  IInv'
BY TopFrame DEF Finish, AtEnd, IInv, TypeOK, Placed, ItemsOf, HandlesAreReturned, MissingReports, RootHandles

\* Or it has a syntax error.
LEMMA FailStep ==
    ASSUME IInv, Fail
    PROVE  IInv'
<1>1. /\ phase = "reading" /\ Len(stack) = 1 /\ Report("syntax_error") /\ phase' = "failed"
      /\ UNCHANGED <<disk, stack, handles, declarations>>
  BY DEF Fail, AtEnd
<1>2. reported' \in Seq(Reports) /\ Cardinality(MissingReports') = Cardinality(MissingReports)
  BY <1>1, OneMoreReport DEF Codes
<1>3. HandlesAreReturned'
  BY <1>1, <1>2 DEF IInv, HandlesAreReturned, RootHandles
<1> QED
  BY <1>1, <1>2, <1>3 DEF IInv, TypeOK, Placed, ItemsOf, Reports

\* Every step of the parser keeps the invariant.
LEMMA NextIInv == IInv /\ [Next]_vars => IInv'
<1> SUFFICES ASSUME IInv, [Next]_vars PROVE IInv'
  OBVIOUS
<1>1. CASE UNCHANGED vars
  BY <1>1 DEF vars, IInv, TypeOK, Placed, ItemsOf, HandlesAreReturned, MissingReports, RootHandles
<1> QED
  BY <1>1, ReadDeclarationStep, RejectIncludeStep, MissingIncludeStep, IncludeDirectoryStep,
     EnterIncludeStep, LeaveIncludeStep, FailAssertionStep, AbandonIncludeStep, FinishStep, FailStep DEF Next

\* Files, frames and handles, at every moment of the reading.
THEOREM Invariance == Spec => []IInv
BY InitIInv, NextIInv, PTL DEF Spec

\* Types; in particular no more handles are open than the process may hold.
THEOREM TypeCorrect == Spec => []TypeOK
<1>1. IInv => TypeOK
  BY DEF IInv
<1> QED
  BY <1>1, Invariance, PTL

\* No handle outlives its file, for any depth of includes and whatever fails,
\* except one per missing file: that of its directory.
THEOREM HandlesReturned == Spec => []HandlesAreReturned
<1>1. IInv => HandlesAreReturned
  BY DEF IInv
<1> QED
  BY <1>1, Invariance, PTL

-----------------------------------------------------------------------------
(* Lemmas on sequences of sequences and on what is defined level by level. *)

\* Induction over the natural numbers, for a set of them.
LEMMA Induction ==
    ASSUME NEW S, 0 \in S, \A n \in Nat : n \in S => n + 1 \in S
    PROVE  \A n \in Nat : n \in S
<1> SUFFICES ASSUME Nat \ S # {} PROVE FALSE
  OBVIOUS
<1> DEFINE Less == {ss \in Nat \X Nat : ss[1] < ss[2]}
<1>1. IsWellFoundedOn(Less, Nat)
  BY NatLessThanWellFounded DEF OpToRel
<1>2. PICK x \in Nat \ S : \A y \in Nat \ S : ~(<<y, x>> \in Less)
  <2>1. Nat \ S \subseteq Nat
    OBVIOUS
  <2> QED
    BY <1>1, <2>1, WFMin
<1>3. \A y \in Nat \ S : ~(y < x)
  BY <1>2
<1>4. x # 0 /\ x - 1 \in Nat
  BY <1>2
<1>5. x - 1 \in S
  BY <1>3, <1>4
<1> QED
  BY <1>2, <1>4, <1>5

\* A function on the levels 0 to m, given by its first value and by the step from
\* one level to the next, exists.
LEMMA LevelsExist ==
    ASSUME NEW T, NEW base \in T, NEW step \in [T -> T], NEW m \in Nat
    PROVE  \E f \in [0 .. m -> T] :
               f = [d \in 0 .. m |-> IF d = 0 THEN base ELSE step[f[d - 1]]]
<1> DEFINE Step(f, d) == IF d = 0 THEN base ELSE step[f[d - 1]]
           Upto(f, l) == \A d \in 0 .. m : d <= l => f[d] = Step(f, d)
           S == {l \in Nat : \E f \in [0 .. m -> T] : Upto(f, l)}
<1>1. 0 \in S
  <2> DEFINE f == [d \in 0 .. m |-> base]
  <2>1. f \in [0 .. m -> T]
    OBVIOUS
  <2>2. Upto(f, 0)
    OBVIOUS
  <2> HIDE DEF f, Upto
  <2> QED
    BY <2>1, <2>2
<1>2. ASSUME NEW l \in Nat, l \in S PROVE l + 1 \in S
  <2>1. PICK f \in [0 .. m -> T] : Upto(f, l)
    BY <1>2
  <2> DEFINE g == [d \in 0 .. m |-> Step(f, d)]
  <2>2. \A d \in 0 .. m : d # 0 => d - 1 \in 0 .. m
    OBVIOUS
  <2>3. g \in [0 .. m -> T]
    BY <2>2
  <2>4. \A d \in 0 .. m : d <= l => f[d] = g[d]
    BY <2>1
  <2>5. Upto(g, l + 1)
    <3> SUFFICES ASSUME NEW d \in 0 .. m, d <= l + 1 PROVE g[d] = Step(g, d)
      OBVIOUS
    <3>1. g[d] = Step(f, d)
      OBVIOUS
    <3>2. d # 0 => d - 1 \in 0 .. m /\ d - 1 <= l
      BY <2>2
    <3> HIDE DEF g
    <3> QED
      BY <2>4, <3>1, <3>2
  <2> HIDE DEF g, Upto
  <2> QED
    BY <2>3, <2>5
<1>3. m \in S
  <2> HIDE DEF S
  <2> QED
    BY <1>1, <1>2, Induction
<1>4. PICK f \in [0 .. m -> T] : Upto(f, m)
  BY <1>3
<1>5. f = [d \in 0 .. m |-> Step(f, d)]
  <2>1. \A d \in 0 .. m : f[d] = Step(f, d)
    BY <1>4
  <2> HIDE DEF Step
  <2> QED
    BY <1>4, <2>1
<1> QED
  BY <1>5

\* Values are of a type on all levels if each is when the one below it is.
LEMMA LevelsTyped ==
    ASSUME NEW T, NEW m \in Nat, NEW h, h[0] \in T,
           \A d \in 1 .. m : h[d - 1] \in T => h[d] \in T
    PROVE  \A d \in 0 .. m : h[d] \in T
<1> DEFINE U == {l \in Nat : \A d \in 0 .. m : d <= l => h[d] \in T}
<1>1. 0 \in U
  OBVIOUS
<1>2. ASSUME NEW l \in Nat, l \in U PROVE l + 1 \in U
  <2> SUFFICES ASSUME NEW d \in 0 .. m, d <= l + 1 PROVE h[d] \in T
    OBVIOUS
  <2>1. d # 0 => d \in 1 .. m /\ d - 1 \in 0 .. m /\ d - 1 <= l
    OBVIOUS
  <2> QED
    BY <1>2, <2>1
<1>3. m \in U
  <2> HIDE DEF U
  <2> QED
    BY <1>1, <1>2, Induction
<1> QED
  BY <1>3

\* What a sequence of sequences is flattened to, part by part.
LEMMA FlattenedParts ==
    ASSUME NEW M, NEW parts \in Seq(Seq(M))
    PROVE  \E F : /\ \A i \in 1 .. Len(parts) :
                        /\ F[i] = IF i = 1 THEN parts[i] ELSE F[i - 1] \o parts[i]
                        /\ F[i] \in Seq(M)
                  /\ FlattenSeq(parts) = IF Len(parts) = 0 THEN <<>> ELSE F[Len(parts)]
<1> DEFINE k == Len(parts)
           Joined(f, i) == IF i = 1 THEN parts[i] ELSE f[i - 1] \o parts[i]
           Upto(f, n) == \A i \in 1 .. k : i <= n => f[i] = Joined(f, i)
           S == {n \in Nat : \E f : f = [i \in 1 .. k |-> f[i]] /\ Upto(f, n)}
           F == CHOOSE h : h = [i \in 1 .. k |-> Joined(h, i)]
           T == {n \in Nat : \A i \in 1 .. k : i <= n => F[i] \in Seq(M)}
<1>0. k \in Nat /\ DOMAIN parts = 1 .. k /\ \A i \in 1 .. k : parts[i] \in Seq(M)
  OBVIOUS
<1>2. 0 \in S
  <2> DEFINE f == [i \in 1 .. k |-> <<>>]
  <2>1. f = [i \in 1 .. k |-> f[i]]
    OBVIOUS
  <2>2. Upto(f, 0)
    BY <1>0
  <2> HIDE DEF f, Upto
  <2> QED
    BY <2>1, <2>2
<1>3. ASSUME NEW n \in Nat, n \in S PROVE n + 1 \in S
  <2>1. PICK f : f = [i \in 1 .. k |-> f[i]] /\ Upto(f, n)
    BY <1>3
  <2> DEFINE g == [i \in 1 .. k |-> Joined(f, i)]
  <2>2. g = [i \in 1 .. k |-> g[i]]
    OBVIOUS
  <2>3. \A i \in 1 .. k : i <= n => f[i] = g[i]
    BY <2>1
  <2>4. Upto(g, n + 1)
    <3> SUFFICES ASSUME NEW i \in 1 .. k, i <= n + 1 PROVE g[i] = Joined(g, i)
      OBVIOUS
    <3>1. i # 1 => i - 1 \in 1 .. k /\ i - 1 <= n
      BY <1>0
    <3>2. g[i] = Joined(f, i)
      OBVIOUS
    <3> HIDE DEF g
    <3> QED
      BY <2>3, <3>1, <3>2
  <2> HIDE DEF g, Upto
  <2> QED
    BY <2>2, <2>4
<1>4. k \in S
  <2> HIDE DEF S
  <2> QED
    BY <1>0, <1>2, <1>3, Induction
<1>5. PICK f : f = [i \in 1 .. k |-> f[i]] /\ Upto(f, k)
  BY <1>4
<1>6. f = [i \in 1 .. k |-> Joined(f, i)]
  <2>1. \A i \in 1 .. k : i <= k
    BY <1>0
  <2>2. \A i \in 1 .. k : f[i] = Joined(f, i)
    BY <1>5, <2>1
  <2> HIDE DEF Joined
  <2> QED
    BY <1>5, <2>2
<1>7. F = [i \in 1 .. k |-> Joined(F, i)]
  BY <1>6
<1> HIDE DEF F
<1>70. \A i \in 1 .. k : F[i] = Joined(F, i)
  BY <1>7
<1>8. 0 \in T
  BY <1>0
<1>9. ASSUME NEW n \in Nat, n \in T PROVE n + 1 \in T
  <2> SUFFICES ASSUME NEW i \in 1 .. k, i <= n + 1 PROVE F[i] \in Seq(M)
    OBVIOUS
  <2>1. CASE i = 1
    BY <1>0, <1>70, <2>1
  <2>2. CASE i # 1
    <3>1. i - 1 \in 1 .. k /\ i - 1 <= n
      BY <1>0, <2>2
    <3>2. F[i - 1] \in Seq(M) /\ parts[i] \in Seq(M)
      BY <1>0, <1>9, <3>1
    <3>3. F[i - 1] \o parts[i] \in Seq(M)
      BY <3>2
    <3> QED
      BY <1>70, <2>2, <3>3
  <2> QED
    BY <2>1, <2>2
<1>10. k \in T
  <2> HIDE DEF T
  <2> QED
    BY <1>0, <1>8, <1>9, Induction
<1>11. \A i \in 1 .. k : F[i] = Joined(F, i) /\ F[i] \in Seq(M)
  BY <1>0, <1>10, <1>70
<1>12. FlattenSeq(parts) = IF k = 0 THEN <<>> ELSE F[k]
  <2>1. CASE k = 0
    BY <1>0, <2>1 DEF FlattenSeq
  <2>2. CASE k # 0
    BY <2>2 DEF FlattenSeq, F
  <2> QED
    BY <2>1, <2>2
<1> QED
  BY <1>11, <1>12

IsJoin(joined, a, b) == joined = a \o b

\* Putting sequences behind each other is associative.
LEMMA Regrouped ==
    ASSUME NEW M, NEW a \in Seq(M), NEW b \in Seq(M), NEW c \in Seq(M),
           NEW ab, NEW bc, NEW abc, IsJoin(ab, a, b), IsJoin(bc, b, c), IsJoin(abc, a, bc)
    PROVE  IsJoin(abc, ab, c)
BY DEF IsJoin

\* A sequence of sequences with one more of them.
LEMMA FlattenedLonger ==
    ASSUME NEW M, NEW p \in Seq(Seq(M)), NEW q \in Seq(Seq(M)), Len(q) = Len(p) + 1,
           \A i \in 1 .. Len(p) : q[i] = p[i]
    PROVE  /\ FlattenSeq(p) \in Seq(M) /\ q[Len(q)] \in Seq(M)
           /\ FlattenSeq(q) = FlattenSeq(p) \o q[Len(q)]
<1>1. PICK k \in Nat : k = Len(p) /\ Len(q) = k + 1
  OBVIOUS
<1>2. PICK F : /\ \A i \in 1 .. Len(p) : /\ F[i] = IF i = 1 THEN p[i] ELSE F[i - 1] \o p[i]
                                         /\ F[i] \in Seq(M)
               /\ FlattenSeq(p) = IF Len(p) = 0 THEN <<>> ELSE F[Len(p)]
  BY FlattenedParts, Zenon
<1>3. PICK G : /\ \A i \in 1 .. Len(q) : /\ G[i] = IF i = 1 THEN q[i] ELSE G[i - 1] \o q[i]
                                         /\ G[i] \in Seq(M)
               /\ FlattenSeq(q) = IF Len(q) = 0 THEN <<>> ELSE G[Len(q)]
  BY FlattenedParts, Zenon
<1>31. /\ \A i \in 1 .. k : F[i] = (IF i = 1 THEN p[i] ELSE F[i - 1] \o p[i]) /\ F[i] \in Seq(M)
       /\ FlattenSeq(p) = IF k = 0 THEN <<>> ELSE F[k]
       /\ \A i \in 1 .. k + 1 : G[i] = IF i = 1 THEN q[i] ELSE G[i - 1] \o q[i]
       /\ FlattenSeq(q) = G[k + 1]
  <2>1. k + 1 # 0 /\ Len(p) = k /\ Len(q) = k + 1
    BY <1>1
  <2>2. /\ \A i \in 1 .. k : F[i] = (IF i = 1 THEN p[i] ELSE F[i - 1] \o p[i]) /\ F[i] \in Seq(M)
        /\ FlattenSeq(p) = IF k = 0 THEN <<>> ELSE F[k]
    BY <1>2, <2>1, Zenon
  <2>3. \A i \in 1 .. k + 1 : G[i] = IF i = 1 THEN q[i] ELSE G[i - 1] \o q[i]
    BY <1>3, <2>1, Zenon
  <2>4. FlattenSeq(q) = G[k + 1]
    BY <1>3, <2>1, Zenon
  <2> QED
    BY <2>2, <2>3, <2>4
<1> DEFINE S == {n \in Nat : \A i \in 1 .. k : i <= n => F[i] = G[i]}
<1>4. 0 \in S
  BY <1>1
<1>41. \A n \in Nat : n \in S <=> \A i \in 1 .. k : i <= n => F[i] = G[i]
  BY Zenon
<1> HIDE DEF S
<1>5. ASSUME NEW n \in Nat, n \in S PROVE n + 1 \in S
  <2>0. n + 1 \in Nat
    OBVIOUS
  <2> SUFFICES ASSUME NEW i \in 1 .. k, i <= n + 1 PROVE F[i] = G[i]
    BY <1>41, <2>0, Zenon
  <2>1. i \in 1 .. k + 1 /\ q[i] = p[i]
    BY <1>1
  <2>2. i # 1 => i - 1 \in 1 .. k /\ i - 1 <= n
    BY <1>1
  <2>3. i # 1 => F[i - 1] = G[i - 1]
    BY <1>5, <1>41, <2>2, Zenon
  <2>4. F[i] = IF i = 1 THEN p[i] ELSE F[i - 1] \o p[i]
    BY <1>31, Zenon
  <2>5. G[i] = IF i = 1 THEN q[i] ELSE G[i - 1] \o q[i]
    BY <1>31, <2>1, Zenon
  <2>6. CASE i = 1
    BY <2>1, <2>4, <2>5, <2>6, Zenon
  <2>7. CASE i # 1
    BY <2>1, <2>3, <2>4, <2>5, <2>7, Zenon
  <2> QED
    BY <2>6, <2>7
<1>6. k \in S
  <2> HIDE DEF S
  <2> QED
    BY <1>1, <1>4, <1>5, Induction
<1>7. q[k + 1] \in Seq(M)
  BY <1>1
<1>8. CASE k = 0
  <2>1. G[1] = q[1] /\ FlattenSeq(q) = q[1] /\ FlattenSeq(p) = <<>>
    BY <1>1, <1>31, <1>8
  <2>2. <<>> \o q[1] = q[1] /\ <<>> \in Seq(M)
    BY <1>7, <1>8, ConcatEmptySeq
  <2> QED
    BY <1>1, <1>7, <1>8, <2>1, <2>2
<1>9. CASE k # 0
  <2>1. k \in 1 .. k /\ k + 1 \in 1 .. k + 1 /\ k + 1 # 1 /\ (k + 1) - 1 = k
    BY <1>1, <1>9
  <2>2. F[k] = G[k] /\ F[k] \in Seq(M)
    <3>1. k <= k
      BY <1>1
    <3> QED
      BY <1>31, <1>41, <1>6, <2>1, <3>1, Zenon
  <2>3. FlattenSeq(q) = G[k + 1] /\ G[k + 1] = G[k] \o q[k + 1]
    BY <1>1, <1>31, <2>1
  <2> QED
    BY <1>1, <1>31, <1>7, <1>9, <2>2, <2>3
<1> QED
  BY <1>8, <1>9

\* The last of the sequences, without another or with one behind it, replaced by
\* the two together and more.
LEMMA FlattenedLast ==
    ASSUME NEW M, NEW p \in Seq(Seq(M)), NEW q \in Seq(Seq(M)), NEW y \in Seq(M),
           Len(p) >= 1, Len(q) = Len(p), \A i \in 1 .. Len(p) - 1 : q[i] = p[i],
           q[Len(q)] = p[Len(p)] \o y
    PROVE  FlattenSeq(q) = FlattenSeq(p) \o y
<1>1. PICK k \in Nat : k = Len(p) /\ k = Len(q) /\ k >= 1
  OBVIOUS
<1> DEFINE r == [i \in 1 .. k - 1 |-> p[i]]
<1>2. r \in Seq(Seq(M)) /\ Len(r) = k - 1 /\ \A i \in 1 .. k - 1 : r[i] = p[i] /\ r[i] = q[i]
  <2>1. k - 1 \in Nat /\ \A i \in 1 .. k - 1 : p[i] \in Seq(M)
    BY <1>1
  <2>2. r \in [1 .. k - 1 -> Seq(M)]
    BY <2>1, Zenon
  <2>3. r \in Seq(Seq(M)) /\ Len(r) = k - 1
    <3> HIDE DEF r
    <3> QED
      BY <2>1, <2>2
  <2>4. \A i \in 1 .. k - 1 : r[i] = p[i] /\ r[i] = q[i]
    BY <1>1, Zenon
  <2> QED
    BY <2>3, <2>4
<1> HIDE DEF r
<1>20. /\ Len(p) = Len(r) + 1 /\ \A i \in 1 .. Len(r) : p[i] = r[i]
       /\ Len(q) = Len(r) + 1 /\ \A i \in 1 .. Len(r) : q[i] = r[i]
  BY <1>1, <1>2
<1>3. FlattenSeq(p) = FlattenSeq(r) \o p[Len(p)] /\ FlattenSeq(r) \in Seq(M) /\ p[Len(p)] \in Seq(M)
  BY <1>2, <1>20, FlattenedLonger, Zenon
<1>4. FlattenSeq(q) = FlattenSeq(r) \o q[Len(q)]
  BY <1>2, <1>20, FlattenedLonger, Zenon
<1>5. /\ IsJoin(FlattenSeq(p), FlattenSeq(r), p[Len(p)])
      /\ IsJoin(FlattenSeq(q), FlattenSeq(r), q[Len(q)])
      /\ IsJoin(q[Len(q)], p[Len(p)], y)
  BY <1>3, <1>4, Zenon DEF IsJoin
<1>6. IsJoin(FlattenSeq(q), FlattenSeq(p), y)
  BY <1>3, <1>5, Regrouped
<1> QED
  BY <1>6, Zenon DEF IsJoin

\* When the last part takes in the one behind it and y, all parts together end in y.
LEMMA FlattenedMerge ==
    ASSUME NEW M, NEW p \in Seq(Seq(M)), NEW q \in Seq(Seq(M)), NEW y \in Seq(M),
           Len(q) >= 1, Len(p) = Len(q) + 1, \A i \in 1 .. Len(q) - 1 : q[i] = p[i],
           q[Len(q)] = p[Len(q)] \o (p[Len(p)] \o y)
    PROVE  FlattenSeq(q) = FlattenSeq(p) \o y
<1>1. PICK k \in Nat : k = Len(q) /\ Len(p) = k + 1 /\ k >= 1
  OBVIOUS
<1> DEFINE r == [i \in 1 .. k |-> p[i]]
<1>2. r \in Seq(Seq(M)) /\ Len(r) = k /\ \A i \in 1 .. k : r[i] = p[i]
  <2>1. \A i \in 1 .. k : p[i] \in Seq(M)
    BY <1>1
  <2> QED
    BY <1>1, <2>1
<1> HIDE DEF r
<1>20. /\ Len(p) = Len(r) + 1 /\ \A i \in 1 .. Len(r) : p[i] = r[i]
       /\ Len(r) >= 1 /\ Len(q) = Len(r) /\ \A i \in 1 .. Len(r) - 1 : q[i] = r[i]
       /\ q[Len(q)] = r[Len(r)] \o (p[Len(p)] \o y)
  <2>1. k \in 1 .. k /\ r[k] = p[k] /\ \A i \in 1 .. k - 1 : i \in 1 .. k
    BY <1>1, <1>2
  <2>2. q[k] = r[k] \o (p[Len(p)] \o y)
    BY <1>1, <2>1
  <2>3. \A i \in 1 .. k - 1 : q[i] = r[i]
    BY <1>1, <1>2, <2>1
  <2> QED
    BY <1>1, <1>2, <2>2, <2>3
<1>3. FlattenSeq(p) = FlattenSeq(r) \o p[Len(p)] /\ FlattenSeq(r) \in Seq(M) /\ p[Len(p)] \in Seq(M)
  BY <1>2, <1>20, FlattenedLonger, Zenon
<1>4. p[Len(p)] \o y \in Seq(M)
  BY <1>3, ConcatProperties, Zenon
<1>5. FlattenSeq(q) = FlattenSeq(r) \o (p[Len(p)] \o y)
  BY <1>2, <1>4, <1>20, FlattenedLast, Zenon
<1>6. /\ IsJoin(FlattenSeq(p), FlattenSeq(r), p[Len(p)])
      /\ IsJoin(FlattenSeq(q), FlattenSeq(r), p[Len(p)] \o y)
      /\ IsJoin(p[Len(p)] \o y, p[Len(p)], y)
  BY <1>3, <1>5, Zenon DEF IsJoin
<1>7. IsJoin(FlattenSeq(q), FlattenSeq(p), y)
  BY <1>3, <1>6, Regrouped
<1> QED
  BY <1>7, Zenon DEF IsJoin

\* A path is followed name by name.
LEMMA WalkedPath ==
    ASSUME NEW dir, NEW path \in Seq(STRING)
    PROVE  \E f : /\ f[0] = dir
                  /\ \A n \in 1 .. Len(path) :
                        f[n] = IF path[n] = Up THEN Front(f[n - 1]) ELSE Append(f[n - 1], path[n])
                  /\ Walk(dir, path) = f[Len(path)]
<1> DEFINE k == Len(path)
           Step(f, n) == IF n = 0 THEN dir
                         ELSE IF path[n] = Up THEN Front(f[n - 1]) ELSE Append(f[n - 1], path[n])
           Upto(f, m) == \A n \in 0 .. k : n <= m => f[n] = Step(f, n)
           S == {m \in Nat : \E f : f = [n \in 0 .. k |-> f[n]] /\ Upto(f, m)}
           F == CHOOSE f : f = [n \in 0 .. k |-> Step(f, n)]
<1>0. k \in Nat
  OBVIOUS
<1>1. 0 \in S
  <2> DEFINE f == [n \in 0 .. k |-> dir]
  <2>1. f = [n \in 0 .. k |-> f[n]]
    OBVIOUS
  <2>2. Upto(f, 0)
    BY <1>0
  <2> HIDE DEF f, Upto
  <2> QED
    BY <2>1, <2>2
<1>2. ASSUME NEW m \in Nat, m \in S PROVE m + 1 \in S
  <2>1. PICK f : f = [n \in 0 .. k |-> f[n]] /\ Upto(f, m)
    BY <1>2
  <2> DEFINE g == [n \in 0 .. k |-> Step(f, n)]
  <2>2. g = [n \in 0 .. k |-> g[n]]
    OBVIOUS
  <2>3. \A n \in 0 .. k : n <= m => f[n] = g[n]
    BY <2>1
  <2>4. Upto(g, m + 1)
    <3> SUFFICES ASSUME NEW n \in 0 .. k, n <= m + 1 PROVE g[n] = Step(g, n)
      OBVIOUS
    <3>1. n # 0 => n - 1 \in 0 .. k /\ n - 1 <= m
      BY <1>0
    <3>2. g[n] = Step(f, n)
      OBVIOUS
    <3> HIDE DEF g
    <3> QED
      BY <2>3, <3>1, <3>2
  <2> HIDE DEF g, Upto
  <2> QED
    BY <2>2, <2>4
<1>3. k \in S
  <2> HIDE DEF S
  <2> QED
    BY <1>0, <1>1, <1>2, Induction
<1>4. PICK f : f = [n \in 0 .. k |-> f[n]] /\ Upto(f, k)
  BY <1>3
<1>5. f = [n \in 0 .. k |-> Step(f, n)]
  <2>1. \A n \in 0 .. k : f[n] = Step(f, n)
    BY <1>0, <1>4
  <2> HIDE DEF Step
  <2> QED
    BY <1>4, <2>1
<1>6. F = [n \in 0 .. k |-> Step(F, n)]
  BY <1>5
<1>7. Walk(dir, path) = F[k]
  BY DEF Walk
<1> HIDE DEF F
<1>8. \A n \in 0 .. k : F[n] = Step(F, n)
  BY <1>6
<1>9. F[0] = dir
  BY <1>0, <1>8
<1>10. \A n \in 1 .. k : F[n] = IF path[n] = Up THEN Front(F[n - 1]) ELSE Append(F[n - 1], path[n])
  BY <1>0, <1>8
<1> QED
  BY <1>7, <1>9, <1>10

-----------------------------------------------------------------------------
(* What files mean, and their problems, from level to level.               *)

\* A flattened sequence of sequences holds what those hold.
LEMMA FlattenedType ==
    ASSUME NEW M, NEW parts \in Seq(Seq(M))
    PROVE  FlattenSeq(parts) \in Seq(M) /\ (Len(parts) = 0 => FlattenSeq(parts) = <<>>)
<1>1. PICK F : /\ \A i \in 1 .. Len(parts) : F[i] \in Seq(M)
               /\ FlattenSeq(parts) = IF Len(parts) = 0 THEN <<>> ELSE F[Len(parts)]
  <2>1. \E F : /\ \A i \in 1 .. Len(parts) :
                     /\ F[i] = IF i = 1 THEN parts[i] ELSE F[i - 1] \o parts[i]
                     /\ F[i] \in Seq(M)
               /\ FlattenSeq(parts) = IF Len(parts) = 0 THEN <<>> ELSE F[Len(parts)]
    BY FlattenedParts, Zenon
  <2> QED
    BY <2>1, Zenon
<1>2. Len(parts) # 0 => Len(parts) \in 1 .. Len(parts)
  OBVIOUS
<1> QED
  BY <1>1, <1>2

Lists == [DOMAIN disk -> Seq(Declaration)]
ProblemReports == [code : Codes, file : Locations, at : Nat]
ProblemLists == [DOMAIN disk -> Seq(ProblemReports)]

\* What the first k items of a file mean, as one sequence per item.
MeantParts(file, k, included) == [n \in 1 .. k |-> MeantOfItem(file, n, included)]
ProblemsParts(file, k, included) == [n \in 1 .. k |-> ProblemsOfItem(file, n, included)]

\* What the items of a file mean is a sequence of declarations each.
LEMMA MeantPartsType ==
    ASSUME disk \in Disks, NEW file \in DOMAIN disk, NEW included \in Lists,
           NEW k \in 0 .. Len(ItemsOf(file))
    PROVE  /\ MeantParts(file, k, included) \in Seq(Seq(Declaration))
           /\ Len(MeantParts(file, k, included)) = k
<1>1. file \in Locations /\ Len(ItemsOf(file)) \in Nat
  BY FilesAreRead
<1>2. ASSUME NEW n \in 1 .. k PROVE MeantOfItem(file, n, included) \in Seq(Declaration)
  <2>1. n \in Nat /\ <<[file |-> file, at |-> n]>> \in Seq(Declaration)
    BY <1>1 DEF Declaration
  <2>2. Reaches(file, disk[file].items[n])
            => included[Target(file, disk[file].items[n])] \in Seq(Declaration)
    BY DEF Reaches, Lists
  <2>3. <<>> \in Seq(Declaration)
    OBVIOUS
  <2> QED
    BY <2>1, <2>2, <2>3 DEF MeantOfItem
<1> QED
  BY <1>1, <1>2 DEF MeantParts

\* So are their problems.
LEMMA ProblemsPartsType ==
    ASSUME disk \in Disks, NEW file \in DOMAIN disk, NEW included \in ProblemLists,
           NEW k \in 0 .. Len(ItemsOf(file))
    PROVE  /\ ProblemsParts(file, k, included) \in Seq(Seq(ProblemReports))
           /\ Len(ProblemsParts(file, k, included)) = k
<1>1. file \in Locations /\ Len(ItemsOf(file)) \in Nat
  BY FilesAreRead
<1>2. ASSUME NEW n \in 1 .. k PROVE ProblemsOfItem(file, n, included) \in Seq(ProblemReports)
  <2>1. ASSUME NEW code \in Codes PROVE <<Problem(code, file, n)>> \in Seq(ProblemReports)
    <3>1. Problem(code, file, n) \in ProblemReports
      BY <1>1 DEF Problem, ProblemReports
    <3> QED
      BY <3>1
  <2>2. Reaches(file, disk[file].items[n])
            => included[Target(file, disk[file].items[n])] \in Seq(ProblemReports)
    BY DEF Reaches, ProblemLists
  <2>3. <<>> \in Seq(ProblemReports)
    OBVIOUS
  <2>4. (IF disk[file].items[n].legal THEN "missing_include_file" ELSE "invalid_include_path") \in Codes
    BY DEF Codes
  <2> QED
    BY <2>1, <2>2, <2>3, <2>4 DEF ProblemsOfItem
<1> QED
  BY <1>1, <1>2 DEF ProblemsParts

\* What files mean is defined at every level, from what they mean one level below.
LEMMA MeantLevels ==
    ASSUME disk \in Disks
    PROVE  /\ MeantAt \in [0 .. MaxHandles -> Lists]
           /\ \A d \in 1 .. MaxHandles : \A file \in DOMAIN disk :
                 MeantAt[d][file] = IF disk[file].broken THEN <<>>
                                    ELSE FlattenSeq(MeantParts(file, Len(ItemsOf(file)), MeantAt[d - 1]))
<1> DEFINE Whole(file, g) == IF disk[file].broken THEN <<>>
                             ELSE FlattenSeq(MeantParts(file, Len(ItemsOf(file)), g))
           base == [file \in DOMAIN disk |-> <<>>]
           step == [g \in Lists |-> [file \in DOMAIN disk |-> Whole(file, g)]]
           Body(f, d) == [file \in DOMAIN disk |->
                             IF d = 0 \/ disk[file].broken THEN <<>>
                             ELSE FlattenSeq([n \in 1 .. Len(disk[file].items) |->
                                                 MeantOfItem(file, n, f[d - 1])])]
<1>0. MaxHandles \in Nat
  BY DisksAssumption
<1>1. base \in Lists
  BY DEF Lists
<1>2. \A g \in Lists : \A file \in DOMAIN disk : Whole(file, g) \in Seq(Declaration)
  <2> SUFFICES ASSUME NEW g \in Lists, NEW file \in DOMAIN disk
               PROVE  FlattenSeq(MeantParts(file, Len(ItemsOf(file)), g)) \in Seq(Declaration)
    OBVIOUS
  <2>1. Len(ItemsOf(file)) \in 0 .. Len(ItemsOf(file))
    BY FilesAreRead
  <2>2. MeantParts(file, Len(ItemsOf(file)), g) \in Seq(Seq(Declaration))
    BY <2>1, MeantPartsType
  <2> QED
    BY <2>2, FlattenedType
<1>3. step \in [Lists -> Lists]
  <2> HIDE DEF Whole
  <2>1. \A g \in Lists : [file \in DOMAIN disk |-> Whole(file, g)] \in Lists
    BY <1>2 DEF Lists
  <2> QED
    BY <2>1
<1>4. \A f, d : Body(f, d) = IF d = 0 THEN base ELSE [file \in DOMAIN disk |-> Whole(file, f[d - 1])]
  BY DEF MeantParts, ItemsOf
<1>5. \A g \in Lists : step[g] = [file \in DOMAIN disk |-> Whole(file, g)]
  OBVIOUS
<1>6. MeantAt = CHOOSE f : f = [d \in 0 .. MaxHandles |-> Body(f, d)]
  BY DEF MeantAt
<1> HIDE DEF base, step, Body
<1>7. PICK f \in [0 .. MaxHandles -> Lists] :
         f = [d \in 0 .. MaxHandles |-> IF d = 0 THEN base ELSE step[f[d - 1]]]
  BY <1>0, <1>1, <1>3, LevelsExist
<1>8. f = [d \in 0 .. MaxHandles |-> Body(f, d)]
  <2>1. ASSUME NEW d \in 0 .. MaxHandles PROVE f[d] = Body(f, d)
    <3>1. CASE d = 0
      BY <1>4, <1>7, <3>1
    <3>2. CASE d # 0
      <4>1. d - 1 \in 0 .. MaxHandles /\ f[d - 1] \in Lists
        BY <1>0, <3>2
      <4>2. f[d] = step[f[d - 1]]
        BY <1>7, <3>2
      <4>3. step[f[d - 1]] = [file \in DOMAIN disk |-> Whole(file, f[d - 1])]
        BY <1>5, <4>1
      <4> QED
        BY <1>4, <3>2, <4>2, <4>3
    <3> QED
      BY <3>1, <3>2
  <2>2. f = [d \in 0 .. MaxHandles |-> f[d]]
    OBVIOUS
  <2> QED
    BY <2>1, <2>2
<1>9. MeantAt = [d \in 0 .. MaxHandles |-> Body(MeantAt, d)]
  BY <1>6, <1>8
<1>10. PICK h : h = MeantAt
  OBVIOUS
<1>11. h = [d \in 0 .. MaxHandles |-> Body(h, d)]
  BY <1>9, <1>10
<1>12. h = [d \in 0 .. MaxHandles |-> h[d]] /\ \A d \in 0 .. MaxHandles : h[d] = Body(h, d)
  BY <1>11
<1>13. h[0] = base
  <2>1. 0 \in 0 .. MaxHandles
    BY <1>0
  <2>2. h[0] = Body(h, 0)
    BY <1>12, <2>1
  <2>3. Body(h, 0) = IF 0 = 0 THEN base ELSE [file \in DOMAIN disk |-> Whole(file, h[0 - 1])]
    BY <1>4, Zenon
  <2> QED
    BY <2>2, <2>3, Zenon
<1>14. \A d \in 1 .. MaxHandles : h[d] = [file \in DOMAIN disk |-> Whole(file, h[d - 1])]
  <2> SUFFICES ASSUME NEW d \in 1 .. MaxHandles
               PROVE  h[d] = [file \in DOMAIN disk |-> Whole(file, h[d - 1])]
    OBVIOUS
  <2>1. d \in 0 .. MaxHandles /\ d # 0
    BY <1>0
  <2> QED
    BY <1>4, <1>12, <2>1
<1>15. \A d \in 1 .. MaxHandles : h[d - 1] \in Lists => h[d] \in Lists
  BY <1>3, <1>5, <1>14
<1>16. \A d \in 0 .. MaxHandles : h[d] \in Lists
  <2>1. h[0] \in Lists
    BY <1>1, <1>13
  <2> QED
    BY <1>0, <1>15, <2>1, LevelsTyped, Zenon
<1>17. h \in [0 .. MaxHandles -> Lists]
  BY <1>12, <1>16
<1> QED
  BY <1>10, <1>14, <1>17

\* The problem of a file that does not end as it should.
SyntaxError(file) ==
    IF disk[file].broken THEN <<Problem("syntax_error", file, Len(ItemsOf(file)) + 1)>> ELSE <<>>

\* It is a problem at most.
LEMMA SyntaxErrorType ==
    ASSUME disk \in Disks, NEW file \in DOMAIN disk
    PROVE  SyntaxError(file) \in Seq(ProblemReports)
<1>1. file \in Locations /\ Len(ItemsOf(file)) + 1 \in Nat
  BY FilesAreRead
<1>2. Problem("syntax_error", file, Len(ItemsOf(file)) + 1) \in ProblemReports
  BY <1>1 DEF Problem, ProblemReports, Codes
<1> QED
  BY <1>2 DEF SyntaxError

\* So are their problems, the syntax error of a broken file last.
LEMMA ProblemsLevels ==
    ASSUME disk \in Disks
    PROVE  /\ ProblemsAt \in [0 .. MaxHandles -> ProblemLists]
           /\ \A d \in 1 .. MaxHandles : \A file \in DOMAIN disk :
                 ProblemsAt[d][file] = FlattenSeq(ProblemsParts(file, Len(ItemsOf(file)), ProblemsAt[d - 1]))
                                          \o SyntaxError(file)
<1> DEFINE Whole(file, g) == FlattenSeq(ProblemsParts(file, Len(ItemsOf(file)), g)) \o SyntaxError(file)
           base == [file \in DOMAIN disk |-> <<>>]
           step == [g \in ProblemLists |-> [file \in DOMAIN disk |-> Whole(file, g)]]
           Body(f, d) == [file \in DOMAIN disk |->
                             IF d = 0 THEN <<>>
                             ELSE FlattenSeq([n \in 1 .. Len(disk[file].items) |->
                                                 ProblemsOfItem(file, n, f[d - 1])])
                                  \o (IF disk[file].broken
                                      THEN <<Problem("syntax_error", file, Len(disk[file].items) + 1)>>
                                      ELSE <<>>)]
<1>0. MaxHandles \in Nat
  BY DisksAssumption
<1>1. base \in ProblemLists
  BY DEF ProblemLists
<1>2. \A g \in ProblemLists : \A file \in DOMAIN disk : Whole(file, g) \in Seq(ProblemReports)
  <2> SUFFICES ASSUME NEW g \in ProblemLists, NEW file \in DOMAIN disk
               PROVE  Whole(file, g) \in Seq(ProblemReports)
    OBVIOUS
  <2>1. Len(ItemsOf(file)) \in 0 .. Len(ItemsOf(file))
    BY FilesAreRead
  <2>2. ProblemsParts(file, Len(ItemsOf(file)), g) \in Seq(Seq(ProblemReports))
    BY <2>1, ProblemsPartsType
  <2>3. FlattenSeq(ProblemsParts(file, Len(ItemsOf(file)), g)) \in Seq(ProblemReports)
    BY <2>2, FlattenedType
  <2>4. SyntaxError(file) \in Seq(ProblemReports)
    BY SyntaxErrorType
  <2> QED
    BY <2>3, <2>4
<1>3. step \in [ProblemLists -> ProblemLists]
  <2> HIDE DEF Whole
  <2>1. \A g \in ProblemLists : [file \in DOMAIN disk |-> Whole(file, g)] \in ProblemLists
    BY <1>2 DEF ProblemLists
  <2> QED
    BY <2>1
<1>4. \A f, d : Body(f, d) = IF d = 0 THEN base ELSE [file \in DOMAIN disk |-> Whole(file, f[d - 1])]
  BY DEF ProblemsParts, SyntaxError, ItemsOf
<1>5. \A g \in ProblemLists : step[g] = [file \in DOMAIN disk |-> Whole(file, g)]
  OBVIOUS
<1>6. ProblemsAt = CHOOSE f : f = [d \in 0 .. MaxHandles |-> Body(f, d)]
  BY DEF ProblemsAt
<1> HIDE DEF base, step, Body
<1>7. PICK f \in [0 .. MaxHandles -> ProblemLists] :
         f = [d \in 0 .. MaxHandles |-> IF d = 0 THEN base ELSE step[f[d - 1]]]
  BY <1>0, <1>1, <1>3, LevelsExist
<1>8. f = [d \in 0 .. MaxHandles |-> Body(f, d)]
  <2>1. ASSUME NEW d \in 0 .. MaxHandles PROVE f[d] = Body(f, d)
    <3>1. CASE d = 0
      BY <1>4, <1>7, <3>1
    <3>2. CASE d # 0
      <4>1. d - 1 \in 0 .. MaxHandles /\ f[d - 1] \in ProblemLists
        BY <1>0, <3>2
      <4>2. f[d] = step[f[d - 1]]
        BY <1>7, <3>2
      <4>3. step[f[d - 1]] = [file \in DOMAIN disk |-> Whole(file, f[d - 1])]
        BY <1>5, <4>1
      <4> QED
        BY <1>4, <3>2, <4>2, <4>3
    <3> QED
      BY <3>1, <3>2
  <2>2. f = [d \in 0 .. MaxHandles |-> f[d]]
    OBVIOUS
  <2> QED
    BY <2>1, <2>2
<1>9. ProblemsAt = [d \in 0 .. MaxHandles |-> Body(ProblemsAt, d)]
  BY <1>6, <1>8
<1>10. PICK h : h = ProblemsAt
  OBVIOUS
<1>11. h = [d \in 0 .. MaxHandles |-> Body(h, d)]
  BY <1>9, <1>10
<1>12. h = [d \in 0 .. MaxHandles |-> h[d]] /\ \A d \in 0 .. MaxHandles : h[d] = Body(h, d)
  BY <1>11
<1>13. h[0] = base
  <2>1. 0 \in 0 .. MaxHandles
    BY <1>0
  <2>2. h[0] = Body(h, 0)
    BY <1>12, <2>1
  <2>3. Body(h, 0) = IF 0 = 0 THEN base ELSE [file \in DOMAIN disk |-> Whole(file, h[0 - 1])]
    BY <1>4, Zenon
  <2> QED
    BY <2>2, <2>3, Zenon
<1>14. \A d \in 1 .. MaxHandles : h[d] = [file \in DOMAIN disk |-> Whole(file, h[d - 1])]
  <2> SUFFICES ASSUME NEW d \in 1 .. MaxHandles
               PROVE  h[d] = [file \in DOMAIN disk |-> Whole(file, h[d - 1])]
    OBVIOUS
  <2>1. d \in 0 .. MaxHandles /\ d # 0
    BY <1>0
  <2> QED
    BY <1>4, <1>12, <2>1
<1>15. \A d \in 1 .. MaxHandles : h[d - 1] \in ProblemLists => h[d] \in ProblemLists
  <2> SUFFICES ASSUME NEW d \in 1 .. MaxHandles, h[d - 1] \in ProblemLists
               PROVE  h[d] \in ProblemLists
    OBVIOUS
  <2>1. h[d] = step[h[d - 1]]
    BY <1>5, <1>14, Zenon
  <2> QED
    BY <1>3, <2>1
<1>16. \A d \in 0 .. MaxHandles : h[d] \in ProblemLists
  <2>1. h[0] \in ProblemLists
    BY <1>1, <1>13
  <2> QED
    BY <1>0, <1>15, <2>1, LevelsTyped, Zenon
<1>17. h \in [0 .. MaxHandles -> ProblemLists]
  BY <1>12, <1>16
<1> QED
  BY <1>10, <1>14, <1>17

-----------------------------------------------------------------------------
(* What has been read of a file.                                           *)

\* What the first k items of a file mean, and their problems, where the file may
\* include so many levels less one.
MeantUpto(depth, file, k) == FlattenSeq(MeantParts(file, k, MeantAt[depth - 1]))
ProblemsUpto(depth, file, k) == FlattenSeq(ProblemsParts(file, k, ProblemsAt[depth - 1]))

\* One more item adds what it means.
LEMMA MeantItemByItem ==
    ASSUME disk \in Disks, NEW file \in DOMAIN disk, NEW d \in 1 .. MaxHandles
    PROVE  /\ MeantUpto(d, file, 0) = <<>>
           /\ \A k \in 0 .. Len(ItemsOf(file)) : MeantUpto(d, file, k) \in Seq(Declaration)
           /\ \A k \in 1 .. Len(ItemsOf(file)) :
                 MeantUpto(d, file, k) = MeantUpto(d, file, k - 1) \o MeantOfItem(file, k, MeantAt[d - 1])
           /\ MeantAt[d][file] = IF disk[file].broken THEN <<>>
                                 ELSE MeantUpto(d, file, Len(ItemsOf(file)))
<1>0. Len(ItemsOf(file)) \in Nat /\ MaxHandles \in Nat
  BY FilesAreRead, DisksAssumption
<1>1. PICK g : g = MeantAt[d - 1]
  OBVIOUS
<1>2. g \in Lists
  <2>1. d - 1 \in 0 .. MaxHandles
    BY <1>0
  <2> QED
    BY <1>1, <2>1, MeantLevels
<1>3. \A k \in 0 .. Len(ItemsOf(file)) :
         MeantParts(file, k, g) \in Seq(Seq(Declaration)) /\ Len(MeantParts(file, k, g)) = k
  BY <1>2, MeantPartsType
<1>4. \A k : MeantUpto(d, file, k) = FlattenSeq(MeantParts(file, k, g))
  BY <1>1 DEF MeantUpto
<1>5. MeantUpto(d, file, 0) = <<>>
  <2>1. 0 \in 0 .. Len(ItemsOf(file))
    BY <1>0
  <2> QED
    BY <1>3, <1>4, <2>1, FlattenedType
<1>6. \A k \in 0 .. Len(ItemsOf(file)) : MeantUpto(d, file, k) \in Seq(Declaration)
  BY <1>3, <1>4, FlattenedType
<1>7. ASSUME NEW k \in 1 .. Len(ItemsOf(file))
      PROVE  MeantUpto(d, file, k) = MeantUpto(d, file, k - 1) \o MeantOfItem(file, k, MeantAt[d - 1])
  <2>1. k \in 0 .. Len(ItemsOf(file)) /\ k - 1 \in 0 .. Len(ItemsOf(file)) /\ k \in 1 .. k
    BY <1>0
  <2>2. PICK p \in Seq(Seq(Declaration)) : p = MeantParts(file, k - 1, g) /\ Len(p) = k - 1
    BY <1>3, <2>1
  <2>3. PICK q \in Seq(Seq(Declaration)) : q = MeantParts(file, k, g) /\ Len(q) = k
    BY <1>3, <2>1
  <2>4. Len(q) = Len(p) + 1
    BY <2>1, <2>2, <2>3
  <2>5. \A i \in 1 .. Len(p) : q[i] = p[i]
    <3>1. \A i \in 1 .. k - 1 : i \in 1 .. k
      BY <2>1
    <3> QED
      BY <2>2, <2>3, <3>1 DEF MeantParts
  <2>6. q[Len(q)] = MeantOfItem(file, k, g)
    BY <2>1, <2>3 DEF MeantParts
  <2>7. FlattenSeq(q) = FlattenSeq(p) \o q[Len(q)]
    BY <2>4, <2>5, FlattenedLonger, Zenon
  <2> QED
    BY <1>1, <1>4, <2>2, <2>3, <2>6, <2>7
<1>8. MeantAt[d][file] = IF disk[file].broken THEN <<>> ELSE MeantUpto(d, file, Len(ItemsOf(file)))
  BY MeantLevels DEF MeantUpto
<1> QED
  BY <1>5, <1>6, <1>7, <1>8

\* And its problems.
LEMMA ProblemsItemByItem ==
    ASSUME disk \in Disks, NEW file \in DOMAIN disk, NEW d \in 1 .. MaxHandles
    PROVE  /\ ProblemsUpto(d, file, 0) = <<>>
           /\ \A k \in 0 .. Len(ItemsOf(file)) : ProblemsUpto(d, file, k) \in Seq(ProblemReports)
           /\ \A k \in 1 .. Len(ItemsOf(file)) :
                 ProblemsUpto(d, file, k) = ProblemsUpto(d, file, k - 1) \o ProblemsOfItem(file, k, ProblemsAt[d - 1])
           /\ ProblemsAt[d][file] = ProblemsUpto(d, file, Len(ItemsOf(file))) \o SyntaxError(file)
<1>0. Len(ItemsOf(file)) \in Nat /\ MaxHandles \in Nat
  BY FilesAreRead, DisksAssumption
<1>1. PICK g : g = ProblemsAt[d - 1]
  OBVIOUS
<1>2. g \in ProblemLists
  <2>1. d - 1 \in 0 .. MaxHandles
    BY <1>0
  <2> QED
    BY <1>1, <2>1, ProblemsLevels
<1>3. \A k \in 0 .. Len(ItemsOf(file)) :
         ProblemsParts(file, k, g) \in Seq(Seq(ProblemReports)) /\ Len(ProblemsParts(file, k, g)) = k
  BY <1>2, ProblemsPartsType
<1>4. \A k : ProblemsUpto(d, file, k) = FlattenSeq(ProblemsParts(file, k, g))
  BY <1>1 DEF ProblemsUpto
<1>5. ProblemsUpto(d, file, 0) = <<>>
  <2>1. 0 \in 0 .. Len(ItemsOf(file))
    BY <1>0
  <2> QED
    BY <1>3, <1>4, <2>1, FlattenedType
<1>6. \A k \in 0 .. Len(ItemsOf(file)) : ProblemsUpto(d, file, k) \in Seq(ProblemReports)
  BY <1>3, <1>4, FlattenedType
<1>7. ASSUME NEW k \in 1 .. Len(ItemsOf(file))
      PROVE  ProblemsUpto(d, file, k) = ProblemsUpto(d, file, k - 1) \o ProblemsOfItem(file, k, ProblemsAt[d - 1])
  <2>1. k \in 0 .. Len(ItemsOf(file)) /\ k - 1 \in 0 .. Len(ItemsOf(file)) /\ k \in 1 .. k
    BY <1>0
  <2>2. PICK p \in Seq(Seq(ProblemReports)) : p = ProblemsParts(file, k - 1, g) /\ Len(p) = k - 1
    BY <1>3, <2>1
  <2>3. PICK q \in Seq(Seq(ProblemReports)) : q = ProblemsParts(file, k, g) /\ Len(q) = k
    BY <1>3, <2>1
  <2>4. Len(q) = Len(p) + 1
    BY <2>1, <2>2, <2>3
  <2>5. \A i \in 1 .. Len(p) : q[i] = p[i]
    <3>1. \A i \in 1 .. k - 1 : i \in 1 .. k
      BY <2>1
    <3> QED
      BY <2>2, <2>3, <3>1 DEF ProblemsParts
  <2>6. q[Len(q)] = ProblemsOfItem(file, k, g)
    BY <2>1, <2>3 DEF ProblemsParts
  <2>7. FlattenSeq(q) = FlattenSeq(p) \o q[Len(q)]
    BY <2>4, <2>5, FlattenedLonger, Zenon
  <2> QED
    BY <1>1, <1>4, <2>2, <2>3, <2>6, <2>7
<1>8. ProblemsAt[d][file] = ProblemsUpto(d, file, Len(ItemsOf(file))) \o SyntaxError(file)
  BY ProblemsLevels DEF ProblemsUpto
<1> QED
  BY <1>5, <1>6, <1>7, <1>8

-----------------------------------------------------------------------------
(* Where an include leads to.                                              *)

\* The directories of a file are the shorter prefixes of its location.
Above(file) == {SubSeq(file, 1, n) : n \in 0 .. Len(file) - 1}

\* The beginning of a sequence.
LEMMA Beginning ==
    ASSUME NEW M, NEW q \in Seq(M), NEW n \in 0 .. Len(q)
    PROVE  LET b == SubSeq(q, 1, n)
           IN  b \in Seq(M) /\ Len(b) = n /\ \A i \in 1 .. n : b[i] = q[i]
OBVIOUS

\* A sequence of one element.
LEMMA OnlyElement ==
    ASSUME NEW M, NEW q \in Seq(M), Len(q) = 1
    PROVE  q = <<q[1]>>
<1>1. q = [i \in 1 .. 1 |-> q[i]]
  OBVIOUS
<1>2. <<q[1]>> = [i \in 1 .. 1 |-> q[i]]
  OBVIOUS
<1> QED
  BY <1>1, <1>2

\* A sequence and one more element.
LEMMA OneBehind ==
    ASSUME NEW M, NEW q \in Seq(M), NEW e \in M
    PROVE  LET r == Append(q, e)
           IN  r \in Seq(M) /\ Len(r) = Len(q) + 1 /\ \A i \in 1 .. Len(q) : r[i] = q[i]
OBVIOUS

\* A file lies in a directory, and a directory of it in another or in itself.
LEMMA DirectoriesOf ==
    ASSUME NEW file \in Locations, file # <<>>
    PROVE  /\ Front(file) \in Above(file)
           /\ \A dir \in Above(file) : dir \in Locations /\ Front(dir) \in Above(file)
<1>1. Len(file) \in Nat /\ Len(file) >= 1 /\ file \in Seq(STRING)
  BY DEF Locations
<1>2. Front(file) \in Above(file)
  BY <1>1 DEF Front, Above
<1>3. ASSUME NEW n \in 0 .. Len(file) - 1
      PROVE  SubSeq(file, 1, n) \in Locations /\ Front(SubSeq(file, 1, n)) \in Above(file)
  <2>1. PICK dir \in Seq(STRING) : /\ dir = SubSeq(file, 1, n) /\ Len(dir) = n
                                   /\ \A i \in 1 .. n : dir[i] = file[i]
    <3>1. n \in 0 .. Len(file)
      BY <1>1
    <3>2. /\ SubSeq(file, 1, n) \in Seq(STRING) /\ Len(SubSeq(file, 1, n)) = n
          /\ \A i \in 1 .. n : SubSeq(file, 1, n)[i] = file[i]
      BY <1>1, <3>1, Beginning, Zenon
    <3> QED
      BY <3>2, Zenon
  <2>2. CASE n = 0
    <3>1. dir = <<>>
      BY <2>1, <2>2
    <3>2. Front(dir) = <<>>
      BY <3>1 DEF Front
    <3>3. SubSeq(file, 1, 0) = <<>> /\ 0 \in 0 .. Len(file) - 1
      BY <1>1
    <3> QED
      BY <2>1, <3>2, <3>3 DEF Above, Locations
  <2>3. CASE n # 0
    <3>1. n - 1 \in 0 .. Len(file) - 1 /\ n - 1 \in Nat
      BY <1>1, <2>3
    <3>2. SubSeq(dir, 1, n - 1) = SubSeq(file, 1, n - 1)
      BY <1>1, <2>1, <3>1
    <3>3. Front(dir) = SubSeq(file, 1, n - 1)
      BY <2>1, <3>2 DEF Front
    <3> QED
      BY <2>1, <3>1, <3>3 DEF Above, Locations
  <2> QED
    BY <2>2, <2>3
<1> QED
  BY <1>2, <1>3 DEF Above

\* A file is in the directory before its name.
LEMMA NamedIn ==
    ASSUME NEW dir \in Locations, NEW name \in STRING
    PROVE  LET file == Append(dir, name)
           IN  file \in Locations /\ Front(file) = dir /\ dir \in Above(file)
<1>1. Len(dir) \in Nat /\ dir \in Seq(STRING)
  BY DEF Locations
<1>2. PICK file \in Seq(STRING) : /\ file = Append(dir, name) /\ Len(file) = Len(dir) + 1
                                  /\ \A i \in 1 .. Len(dir) : file[i] = dir[i]
  BY <1>1, OneBehind
<1>3. SubSeq(file, 1, Len(dir)) = dir
  BY <1>1, <1>2
<1>4. Len(dir) \in 0 .. Len(file) - 1 /\ Len(file) - 1 = Len(dir)
  BY <1>1, <1>2
<1> QED
  BY <1>2, <1>3, <1>4 DEF Front, Above, Locations

\* No file is a directory, nor the root.
LEMMA FilesAndDirectories ==
    ASSUME disk \in Disks, NEW file \in DOMAIN disk
    PROVE  /\ file \in Locations /\ file # <<>> /\ file \notin Directories
           /\ Above(file) \subseteq Directories
<1>1. /\ file \in Locations
      /\ \A f \in DOMAIN disk : \A dir \in Above(f) : dir \notin DOMAIN disk
  BY DisksAssumption DEF Above
<1>2. Directories = UNION {Above(f) : f \in DOMAIN disk}
  BY DEF Directories, Above
<1>3. file # <<>>
  <2>1. Root \in DOMAIN disk /\ Root \in Seq(STRING) /\ Root # <<>>
    BY DisksAssumption DEF Locations
  <2>2. Len(Root) \in Nat /\ Len(Root) >= 1
    BY <2>1
  <2>3. SubSeq(Root, 1, 0) = <<>> /\ 0 \in 0 .. Len(Root) - 1
    BY <2>1, <2>2
  <2>4. <<>> \in Above(Root)
    BY <2>3 DEF Above
  <2> QED
    BY <1>1, <2>1, <2>4
<1> QED
  BY <1>1, <1>2, <1>3

\* The directory before the name of what is there, is there.
LEMMA ParentIsThere ==
    ASSUME disk \in Disks, NEW there \in DOMAIN disk \union Directories
    PROVE  Front(there) \in Directories
<1>1. CASE there \in DOMAIN disk
  BY <1>1, FilesAndDirectories, DirectoriesOf
<1>2. CASE there \in Directories
  <2>1. PICK file \in DOMAIN disk : there \in Above(file)
    BY <1>2 DEF Directories, Above
  <2> QED
    BY <2>1, FilesAndDirectories, DirectoriesOf
<1> QED
  BY <1>1, <1>2

\* A legal path is a sequence of names, and ends in one that leads downwards.
LEMMA LegalPath ==
    ASSUME NEW path \in LegalPaths
    PROVE  path \in Seq(STRING) \ {<<>>} /\ Len(path) \in Nat \ {0} /\ path[Len(path)] # Up
<1>1. path \in Seq(Names) /\ path # <<>> /\ path[Len(path)] # Up
  BY DEF LegalPaths, Paths, Last
<1>2. Len(path) \in Nat \ {0} /\ path = [n \in 1 .. Len(path) |-> path[n]]
  BY <1>1
<1>3. \A n \in 1 .. Len(path) : path[n] \in STRING
  <2>1. \A n \in 1 .. Len(path) : path[n] \in Names
    BY <1>1
  <2>2. Names \subseteq STRING
    BY Zenon DEF Names
  <2> QED
    BY <2>1, <2>2
<1> QED
  BY <1>1, <1>2, <1>3

\* A legal path of one or two names leads from the directory of a file to something
\* in the directory that the code opens first.
LEMMA ShortPaths ==
    ASSUME NEW file \in Locations, file # <<>>, NEW path \in LegalPaths, Len(path) <= 2
    PROVE  LET dir == IF Len(path) > 1 THEN Walk(Front(file), <<Head(path)>>) ELSE Front(file)
           IN  /\ dir = Front(Walk(Front(file), path))
               /\ \A n \in 1 .. Len(path) - 1 : Walk(Front(file), SubSeq(path, 1, n)) = dir
<1>1. path \in Seq(STRING) \ {<<>>} /\ path[Len(path)] # Up
  BY LegalPath
<1>3. PICK d0 : d0 = Front(file)
  OBVIOUS
<1>4. /\ d0 \in Above(file) /\ d0 \in Locations
      /\ \A dir \in Above(file) : dir \in Locations /\ Front(dir) \in Above(file)
  BY <1>3, DirectoriesOf
<1>5. Len(path) \in {1, 2} /\ path[1] \in STRING /\ Head(path) = path[1]
  <2>1. path \in Seq(STRING) /\ path # <<>> /\ Len(path) \in Nat
    BY <1>1
  <2>2. Len(path) # 0
    BY <2>1
  <2>3. 1 \in 1 .. Len(path)
    BY <2>1, <2>2
  <2>4. path[1] \in STRING
    BY <2>1, <2>3
  <2>5. Head(path) = path[1]
    BY <2>1
  <2>6. Len(path) \in {1, 2}
    <3>1. PICK l \in Nat : l = Len(path) /\ l # 0 /\ l <= 2
      BY <2>1, <2>2
    <3>2. l = 1 \/ l = 2
      BY <3>1
    <3> QED
      BY <3>1, <3>2
  <2> QED
    BY <2>4, <2>5, <2>6
<1>6. CASE Len(path) = 1
  <2>1. PICK f : /\ f[0] = d0 /\ f[1] = (IF path[1] = Up THEN Front(f[0]) ELSE Append(f[0], path[1]))
                 /\ Walk(d0, path) = f[1]
    <3>1. \E f : /\ f[0] = d0
                 /\ \A n \in 1 .. Len(path) :
                       f[n] = IF path[n] = Up THEN Front(f[n - 1]) ELSE Append(f[n - 1], path[n])
                 /\ Walk(d0, path) = f[Len(path)]
      BY <1>1, WalkedPath
    <3>2. 1 \in 1 .. Len(path) /\ 1 - 1 = 0
      BY <1>6
    <3> QED
      BY <1>6, <3>1, <3>2
  <2>2. path[1] # Up
    BY <1>1, <1>6
  <2>3. Walk(d0, path) = Append(d0, path[1])
    BY <2>1, <2>2
  <2>4. Front(Append(d0, path[1])) = d0
    BY <1>4, <1>5, NamedIn
  <2> QED
    BY <1>3, <1>6, <2>3, <2>4
<1>7. CASE Len(path) = 2
  <2>1. PICK f : /\ f[0] = d0 /\ f[1] = (IF path[1] = Up THEN Front(f[0]) ELSE Append(f[0], path[1]))
                 /\ f[2] = (IF path[2] = Up THEN Front(f[1]) ELSE Append(f[1], path[2]))
                 /\ Walk(d0, path) = f[2]
    <3>1. \E f : /\ f[0] = d0
                 /\ \A n \in 1 .. Len(path) :
                       f[n] = IF path[n] = Up THEN Front(f[n - 1]) ELSE Append(f[n - 1], path[n])
                 /\ Walk(d0, path) = f[Len(path)]
      BY <1>1, WalkedPath
    <3>2. 1 \in 1 .. Len(path) /\ 1 - 1 = 0 /\ 2 \in 1 .. Len(path) /\ 2 - 1 = 1
      BY <1>7
    <3> QED
      BY <1>7, <3>1, <3>2
  <2>2. Walk(d0, <<Head(path)>>) = f[1]
    <3>1. PICK p : p = <<Head(path)>>
      OBVIOUS
    <3>2. p \in Seq(STRING) /\ Len(p) = 1 /\ p[1] = path[1]
      BY <1>5, <3>1
    <3>3. \E g : /\ g[0] = d0
                 /\ \A n \in 1 .. Len(p) :
                       g[n] = IF p[n] = Up THEN Front(g[n - 1]) ELSE Append(g[n - 1], p[n])
                 /\ Walk(d0, p) = g[Len(p)]
      <4>1. p \in Seq(STRING)
        BY <3>2
      <4> QED
        BY <4>1, WalkedPath, Zenon
    <3>4. 1 \in 1 .. Len(p) /\ 1 - 1 = 0
      BY <3>2
    <3>5. PICK g : /\ g[0] = d0 /\ g[1] = (IF p[1] = Up THEN Front(g[0]) ELSE Append(g[0], p[1]))
                   /\ Walk(d0, p) = g[1]
      BY <3>2, <3>3, <3>4
    <3>6. g[1] = f[1]
      BY <2>1, <3>2, <3>5
    <3> QED
      BY <3>1, <3>5, <3>6
  <2>3. f[1] \in Locations
    <3>1. CASE path[1] = Up
      BY <1>4, <2>1, <3>1
    <3>2. CASE path[1] # Up
      <4>1. f[1] = Append(d0, path[1])
        BY <2>1, <3>2
      <4> QED
        BY <1>4, <1>5, <4>1, NamedIn
    <3> QED
      BY <3>1, <3>2
  <2>4. path[2] # Up
    BY <1>1, <1>7
  <2>5. Walk(d0, path) = Append(f[1], path[2])
    BY <2>1, <2>4
  <2>6. path[2] \in STRING
    <3>1. path \in Seq(STRING) /\ 2 \in 1 .. Len(path)
      BY <1>1, <1>7
    <3> QED
      BY <3>1
  <2>7. Front(Append(f[1], path[2])) = f[1]
    BY <2>3, <2>6, NamedIn
  <2>8. SubSeq(path, 1, 1) = <<Head(path)>>
    <3>1. path \in Seq(STRING) /\ 1 \in 0 .. Len(path) /\ 1 \in 1 .. 1
      BY <1>1, <1>7
    <3>2. /\ SubSeq(path, 1, 1) \in Seq(STRING) /\ Len(SubSeq(path, 1, 1)) = 1
          /\ \A i \in 1 .. 1 : SubSeq(path, 1, 1)[i] = path[i]
      BY <3>1, Beginning, Zenon
    <3>3. PICK b \in Seq(STRING) : b = SubSeq(path, 1, 1) /\ Len(b) = 1 /\ b[1] = path[1]
      BY <3>1, <3>2
    <3> QED
      BY <1>5, <3>3, OnlyElement, Zenon
  <2>9. \A n \in 1 .. Len(path) - 1 : n = 1
    BY <1>7
  <2>10. \A n \in 1 .. Len(path) - 1 : Walk(d0, SubSeq(path, 1, n)) = f[1]
    BY <2>2, <2>8, <2>9
  <2>11. Front(Walk(d0, path)) = f[1] /\ Len(path) > 1
    BY <1>7, <2>5, <2>7
  <2> QED
    BY <1>3, <2>2, <2>10, <2>11
<1> QED
  BY <1>5, <1>6, <1>7
-----------------------------------------------------------------------------
(* While files are read: their lists are what their items so far mean, and *)
(* the reports are the problems of those items, the outermost file's       *)
(* first.                                                                  *)

\* The items of a file that have been read; a file that waits is in the middle of
\* the include before "at".
ItemsRead(files, n) == IF n < Len(files) THEN files[n].at - 2 ELSE files[n].at - 1

\* How deep the includes of a file on the stack can be: fewer files than handles
\* are open.
Depth(n) == MaxHandles + 1 - n

FilesNest(files) ==
    /\ files[1].file = Root
    /\ \A n \in 1 .. Len(files) : files[n].dir = Front(files[n].file)
    /\ \A n \in 1 .. Len(files) - 1 :
          LET item == ItemsOf(files[n].file)[files[n].at - 1]
          IN  Reaches(files[n].file, item) /\ files[n + 1].file = Target(files[n].file, item)

ListsAreMeant(files) ==
    \A n \in 1 .. Len(files) :
        files[n].list = MeantUpto(Depth(n), files[n].file, ItemsRead(files, n))

ProblemsOfStack(files) ==
    [n \in 1 .. Len(files) |-> ProblemsUpto(Depth(n), files[n].file, ItemsRead(files, n))]

Read(files, known) ==
    FilesNest(files) /\ ListsAreMeant(files) /\ known = FlattenSeq(ProblemsOfStack(files))

ReadingInv == phase = "reading" /\ Shallow /\ ~Exhausted => Read(stack, Known)

\* The disk does not change, nor does what its files mean.
LEMMA SameDisk ==
    ASSUME disk' = disk, NEW files, files = stack', NEW known, known = Known'
    PROVE  /\ MeantAt' = MeantAt /\ ProblemsAt' = ProblemsAt /\ Shallow' = Shallow
           /\ Meant' = Meant /\ Problems' = Problems
           /\ Read(stack, Known)' <=> Read(files, known)
<1>1. MeantAt' = MeantAt
  BY DEF MeantAt, MeantOfItem, Reaches, Target
<1>2. ProblemsAt' = ProblemsAt
  BY DEF ProblemsAt, ProblemsOfItem, Reaches, NamesDirectory, Directories, Target
<1>3. Meant' = Meant /\ Problems' = Problems
  BY <1>1, <1>2 DEF Meant, Problems
<1>4. Shallow' = Shallow
  BY DEF Shallow
<1>5. ListsAreMeant(stack)' <=> ListsAreMeant(files)
  BY <1>1 DEF ListsAreMeant, MeantUpto, MeantParts, MeantOfItem, Reaches, Target, ItemsRead, Depth
<1>6. ProblemsOfStack(stack)' = ProblemsOfStack(files)
  BY <1>2 DEF ProblemsOfStack, ProblemsUpto, ProblemsParts, ProblemsOfItem, Reaches, NamesDirectory,
                 Directories, Target, ItemsRead, Depth
<1>7. FilesNest(stack)' <=> FilesNest(files)
  BY DEF FilesNest, Reaches, Target, ItemsOf
<1> QED
  BY <1>1, <1>2, <1>3, <1>4, <1>5, <1>6, <1>7 DEF Read

\* The files that are being read, and the problems met in each.
LEMMA FilesBeingRead ==
    ASSUME IInv, phase = "reading"
    PROVE  /\ Len(stack) \in Nat /\ Len(stack) >= 1 /\ MaxHandles \in Nat
           /\ Len(stack) < MaxHandles
           /\ \A n \in 1 .. Len(stack) :
                 /\ Depth(n) \in 1 .. MaxHandles
                 /\ stack[n].file \in DOMAIN disk
                 /\ ItemsRead(stack, n) \in 0 .. Len(ItemsOf(stack[n].file))
                 /\ n < Len(stack) =>
                       /\ stack[n].at - 1 = ItemsRead(stack, n) + 1
                       /\ stack[n].at - 1 \in 1 .. Len(ItemsOf(stack[n].file))
                       /\ Depth(n) - 1 = Depth(n + 1)
           /\ ProblemsOfStack(stack) \in Seq(Seq(ProblemReports))
           /\ Len(ProblemsOfStack(stack)) = Len(stack)
<1>1. PICK k \in Nat : k = Len(stack) /\ k >= 1
  BY TopFrame
<1>2. MaxHandles \in Nat /\ k < MaxHandles
  <2>1. PICK leaked \in 0 .. Cardinality(MissingReports) :
           handles = RootHandles + 2 * (k - 1) + leaked
    BY <1>1, OpenHandles
  <2>2. handles <= MaxHandles /\ RootHandles >= 1 /\ leaked \in Nat /\ RootHandles \in Nat /\ MaxHandles \in Nat
    BY OpenHandles DEF IInv, TypeOK
  <2>3. MaxHandles >= 2
    BY OpenHandles
  <2> QED
    BY <1>1, <2>1, <2>2, <2>3
<1>3. ASSUME NEW n \in 1 .. k
      PROVE  /\ Depth(n) \in 1 .. MaxHandles
             /\ stack[n].file \in DOMAIN disk
             /\ ItemsRead(stack, n) \in 0 .. Len(ItemsOf(stack[n].file))
             /\ n < k =>
                   /\ stack[n].at - 1 = ItemsRead(stack, n) + 1
                   /\ stack[n].at - 1 \in 1 .. Len(ItemsOf(stack[n].file))
                   /\ Depth(n) - 1 = Depth(n + 1)
  <2>1. Depth(n) \in 1 .. MaxHandles /\ Depth(n) - 1 = Depth(n + 1)
    BY <1>1, <1>2 DEF Depth
  <2>2. /\ stack[n].file \in DOMAIN disk
        /\ stack[n].at \in 1 .. Len(ItemsOf(stack[n].file)) + 1
        /\ n < k => stack[n].at - 1 \in 1 .. Len(ItemsOf(stack[n].file))
    BY <1>1 DEF IInv, TypeOK, Placed
  <2>3. Len(ItemsOf(stack[n].file)) \in Nat
    BY <2>2, FilesAreRead DEF IInv
  <2>4. PICK at \in Nat, l \in Nat : at = stack[n].at /\ l = Len(ItemsOf(stack[n].file))
    BY <2>2, <2>3
  <2>5. ItemsRead(stack, n) = IF n < k THEN at - 2 ELSE at - 1
    BY <1>1, <2>4 DEF ItemsRead
  <2>6. at \in 1 .. l + 1 /\ (n < k => at - 1 \in 1 .. l)
    BY <2>2, <2>4
  <2>7. ItemsRead(stack, n) \in 0 .. l /\ (n < k => at - 1 = ItemsRead(stack, n) + 1)
    BY <2>5, <2>6
  <2> QED
    BY <2>1, <2>2, <2>4, <2>6, <2>7
<1>4. \A n \in 1 .. k : ProblemsUpto(Depth(n), stack[n].file, ItemsRead(stack, n)) \in Seq(ProblemReports)
  BY <1>3, ProblemsItemByItem DEF IInv
<1>5. ProblemsOfStack(stack) \in Seq(Seq(ProblemReports)) /\ Len(ProblemsOfStack(stack)) = k
  BY <1>1, <1>4 DEF ProblemsOfStack
<1> QED
  BY <1>1, <1>2, <1>3, <1>5

\* The outermost file is about to be read.
LEMMA ReadingStarts == Init => ReadingInv
<1> SUFFICES ASSUME Init PROVE Read(stack, Known)
  BY DEF ReadingInv
<1> DEFINE f == Opened(Root, Front(Root))
<1>1. stack = <<f>> /\ reported = <<>> /\ disk \in Disks /\ Root \in DOMAIN disk
  BY DisksAssumption DEF Init
<1>2. f.file = Root /\ f.dir = Front(Root) /\ f.at = 1 /\ f.list = <<>>
  BY DEF Opened
<1> HIDE DEF f
<1>3. Len(stack) = 1 /\ stack[1] = f
  BY <1>1
<1>4. Depth(1) \in 1 .. MaxHandles
  BY DisksAssumption DEF Depth
<1>5. ItemsRead(stack, 1) = 0
  BY <1>2, <1>3 DEF ItemsRead
<1>6. MeantUpto(Depth(1), Root, 0) = <<>> /\ ProblemsUpto(Depth(1), Root, 0) = <<>>
  BY <1>1, <1>4, MeantItemByItem, ProblemsItemByItem
<1>7. FilesNest(stack) /\ ListsAreMeant(stack)
  BY <1>2, <1>3, <1>5, <1>6 DEF FilesNest, ListsAreMeant
<1>8. Known = FlattenSeq(ProblemsOfStack(stack))
  <2>0. <<>> \in Seq(Seq(ProblemReports)) /\ Len(<<>>) = 0
    OBVIOUS
  <2>1. PICK p \in Seq(Seq(ProblemReports)) : p = <<>> /\ Len(p) = 0
    BY <2>0, Zenon
  <2>2. PICK q \in Seq(Seq(ProblemReports)) : q = ProblemsOfStack(stack) /\ Len(q) = 1 /\ q[1] = <<>>
    <3>1. ProblemsOfStack(stack) = [n \in 1 .. 1 |-> ProblemsUpto(Depth(n), stack[n].file, ItemsRead(stack, n))]
      BY <1>3 DEF ProblemsOfStack
    <3>2. ProblemsUpto(Depth(1), stack[1].file, ItemsRead(stack, 1)) = <<>>
      BY <1>2, <1>3, <1>5, <1>6
    <3>3. IInv /\ phase = "reading"
      BY InitIInv DEF Init
    <3>4. ProblemsOfStack(stack) \in Seq(Seq(ProblemReports)) /\ Len(ProblemsOfStack(stack)) = 1
      BY <1>3, <3>3, FilesBeingRead
    <3>5. ProblemsOfStack(stack)[1] = <<>>
      BY <3>1, <3>2
    <3> QED
      BY <3>4, <3>5
  <2>3. Len(q) = Len(p) + 1 /\ \A i \in 1 .. Len(p) : q[i] = p[i]
    BY <2>1, <2>2
  <2>4. FlattenSeq(p) = <<>>
    BY <2>1, FlattenedType
  <2>5. FlattenSeq(q) = FlattenSeq(p) \o q[Len(q)]
    BY <2>3, FlattenedLonger, Zenon
  <2>6. FlattenSeq(q) = <<>>
    BY <2>2, <2>4, <2>5
  <2>7. Known = <<>>
    BY <1>1 DEF Known
  <2> QED
    BY <2>2, <2>6, <2>7
<1> QED
  BY <1>7, <1>8 DEF Read

\* The fields of the frame that has moved on.
LEMMA PastItemFields ==
    ASSUME IInv, NEW list \in Seq(Declaration)
    PROVE  LET f == PastItem(list)[Len(stack)]
           IN  f.file = Top.file /\ f.dir = Top.dir /\ f.at = Top.at + 1 /\ f.list = list
<1>1. PICK f : f = PastItem(list)[Len(stack)]
  OBVIOUS
<1>2. f = [file |-> Top.file, dir |-> Top.dir, at |-> Top.at + 1, list |-> list]
  BY <1>1, PastItemFrame
<1>3. f.file = Top.file /\ f.dir = Top.dir
  BY <1>2
<1>4. f.at = Top.at + 1
  BY <1>2
<1>5. f.list = list
  BY <1>2
<1> QED
  BY <1>1, <1>3, <1>4, <1>5

\* The file at the top has been read up to its item at hand.
LEMMA ItemsReadAtTop ==
    ASSUME NEW files, NEW k \in Nat, Len(files) = k, NEW n \in Nat, files[k].at = n + 1
    PROVE  ItemsRead(files, k) = n
<1>1. ItemsRead(files, k) = files[k].at - 1
  BY DEF ItemsRead
<1> QED
  BY <1>1

\* Files nest as before when those that wait are where they were.
LEMMA NestAgain ==
    ASSUME NEW old, NEW k \in Nat, k >= 1, Len(old) \in Nat, k <= Len(old), FilesNest(old),
           NEW files, Len(files) = k,
           \A n \in 1 .. k : files[n].file = old[n].file /\ files[n].dir = old[n].dir,
           \A n \in 1 .. k - 1 : files[n].at = old[n].at
    PROVE  FilesNest(files)
<1>1. files[1].file = Root
  BY DEF FilesNest
<1>2. ASSUME NEW n \in 1 .. k PROVE files[n].dir = Front(files[n].file)
  BY DEF FilesNest
<1>3. ASSUME NEW n \in 1 .. k - 1
      PROVE  LET item == ItemsOf(files[n].file)[files[n].at - 1]
             IN  Reaches(files[n].file, item) /\ files[n + 1].file = Target(files[n].file, item)
  <2>1. /\ Reaches(old[n].file, ItemsOf(old[n].file)[old[n].at - 1])
        /\ old[n + 1].file = Target(old[n].file, ItemsOf(old[n].file)[old[n].at - 1])
    BY DEF FilesNest
  <2>2. /\ files[n].file = old[n].file /\ files[n].at = old[n].at
        /\ files[n + 1].file = old[n + 1].file
    OBVIOUS
  <2> QED
    BY <2>1, <2>2
<1> QED
  BY <1>1, <1>2, <1>3 DEF FilesNest

\* An item of the file at the top has been read, and leads to no other file.
LEMMA ItemReadInOrder ==
    ASSUME IInv, ReadingInv, Shallow, ~Exhausted, AtItem, NEW list \in Seq(Declaration),
           list = Top.list \o MeantOfItem(Top.file, Top.at, MeantAt[Depth(Len(stack)) - 1]),
           NEW files, files = PastItem(list), NEW known,
           known = Known \o ProblemsOfItem(Top.file, Top.at, ProblemsAt[Depth(Len(stack)) - 1])
    PROVE  Read(files, known)
<1> DEFINE meant == MeantOfItem(Top.file, Top.at, MeantAt[Depth(Len(stack)) - 1])
           problems == ProblemsOfItem(Top.file, Top.at, ProblemsAt[Depth(Len(stack)) - 1])
<1>1. PICK k \in Nat : k = Len(stack) /\ k >= 1 /\ k \in 1 .. k
  BY TopFrame
<1>2. /\ FilesNest(stack) /\ ListsAreMeant(stack) /\ Known = FlattenSeq(ProblemsOfStack(stack))
  BY DEF ReadingInv, AtItem, Read
<1>3. /\ files \in Seq(Frame) /\ Len(files) = k
      /\ files[k] = [file |-> Top.file, dir |-> Top.dir, at |-> Top.at + 1, list |-> list]
      /\ \A n \in 1 .. k : n # k => files[n] = stack[n]
  BY <1>1, PastItemFrame
<1>4. /\ Top = stack[k] /\ Top.file \in DOMAIN disk
      /\ Top.at \in 1 .. Len(ItemsOf(Top.file)) /\ Top.at \in Nat \ {0}
  BY <1>1, TopFrame DEF AtItem, Top
<1>5. /\ files[k].file = Top.file /\ files[k].dir = Top.dir
      /\ files[k].at = Top.at + 1 /\ files[k].list = list
  BY <1>1, PastItemFields
<1>6. /\ Depth(k) \in 1 .. MaxHandles /\ ItemsRead(stack, k) = Top.at - 1 /\ ItemsRead(files, k) = Top.at
      /\ \A n \in 1 .. k : n # k => n < k /\ ItemsRead(files, n) = ItemsRead(stack, n)
  <2>1. ItemsRead(stack, k) = Top.at - 1
    BY <1>1, <1>4 DEF ItemsRead
  <2>2. ItemsRead(files, k) = Top.at
    <3>1. Len(files) = k /\ files[k].at = Top.at + 1
      BY <1>3, <1>5, Zenon
    <3>2. Top.at \in Nat
      BY <1>4
    <3> QED
      BY <1>1, <3>1, <3>2, ItemsReadAtTop
  <2>3. \A n \in 1 .. k : n # k => n < k /\ ItemsRead(files, n) = ItemsRead(stack, n)
    BY <1>1, <1>3 DEF ItemsRead
  <2> QED
    BY <1>1, <2>1, <2>2, <2>3, FilesBeingRead DEF AtItem
<1>7. /\ MeantUpto(Depth(k), Top.file, Top.at) = MeantUpto(Depth(k), Top.file, Top.at - 1) \o meant
      /\ ProblemsUpto(Depth(k), Top.file, Top.at) = ProblemsUpto(Depth(k), Top.file, Top.at - 1) \o problems
  <2>1. PICK d \in 1 .. MaxHandles, file \in DOMAIN disk : d = Depth(k) /\ file = Top.file
    BY <1>4, <1>6
  <2>2. Top.at \in 1 .. Len(ItemsOf(file)) /\ disk \in Disks
    BY <1>4, <2>1 DEF IInv
  <2>3. MeantUpto(d, file, Top.at) = MeantUpto(d, file, Top.at - 1) \o MeantOfItem(file, Top.at, MeantAt[d - 1])
    BY <2>2, MeantItemByItem
  <2>4. ProblemsUpto(d, file, Top.at)
            = ProblemsUpto(d, file, Top.at - 1) \o ProblemsOfItem(file, Top.at, ProblemsAt[d - 1])
    BY <2>2, ProblemsItemByItem
  <2> QED
    BY <1>1, <2>1, <2>3, <2>4
<1> HIDE DEF meant, problems
<1>8. FilesNest(files)
  <2>1. ASSUME NEW n \in 1 .. k PROVE files[n].file = stack[n].file /\ files[n].dir = stack[n].dir
    <3>1. CASE n = k
      BY <1>4, <1>5, <3>1, Zenon
    <3>2. CASE n # k
      BY <1>3, <3>2, Zenon
    <3> QED
      BY <3>1, <3>2
  <2>2. ASSUME NEW n \in 1 .. k - 1 PROVE files[n].at = stack[n].at
    <3>1. n \in 1 .. k /\ n # k
      BY <1>1
    <3> QED
      BY <1>3, <3>1, Zenon
  <2>3. Len(stack) \in Nat /\ k <= Len(stack)
    BY <1>1
  <2>4. FilesNest(stack) /\ Len(files) = k /\ k >= 1
    BY <1>1, <1>2, <1>3
  <2> QED
    BY <2>1, <2>2, <2>3, <2>4, NestAgain
<1>9. ListsAreMeant(files)
  <2> SUFFICES ASSUME NEW n \in 1 .. k
               PROVE  files[n].list = MeantUpto(Depth(n), files[n].file, ItemsRead(files, n))
    BY <1>3 DEF ListsAreMeant
  <2>1. CASE n = k
    <3>1. Top.list = MeantUpto(Depth(k), Top.file, Top.at - 1)
      BY <1>1, <1>2, <1>4, <1>6 DEF ListsAreMeant
    <3>2. list = Top.list \o meant
      BY <1>1 DEF meant
    <3> QED
      BY <1>5, <1>6, <1>7, <2>1, <3>1, <3>2
  <2>2. CASE n # k
    BY <1>1, <1>2, <1>3, <1>6, <2>2 DEF ListsAreMeant
  <2> QED
    BY <2>1, <2>2
<1>10. known = FlattenSeq(ProblemsOfStack(files))
  <2>1. PICK p : p = ProblemsOfStack(stack)
    OBVIOUS
  <2>2. PICK q : q = ProblemsOfStack(files)
    OBVIOUS
  <2>3. p \in Seq(Seq(ProblemReports)) /\ Len(p) = k
    BY <1>1, <2>1, FilesBeingRead DEF AtItem
  <2>4. \A n \in 1 .. k : q[n] = ProblemsUpto(Depth(n), files[n].file, ItemsRead(files, n))
    BY <1>3, <2>2 DEF ProblemsOfStack
  <2>5. \A n \in 1 .. k : p[n] = ProblemsUpto(Depth(n), stack[n].file, ItemsRead(stack, n))
    BY <1>1, <2>1 DEF ProblemsOfStack
  <2>6. \A n \in 1 .. k : n # k => q[n] = p[n]
    BY <1>3, <1>6, <2>4, <2>5
  <2>7. q[k] = p[k] \o problems
    <3>1. q[k] = ProblemsUpto(Depth(k), Top.file, Top.at)
      BY <1>1, <1>5, <1>6, <2>4
    <3>2. p[k] = ProblemsUpto(Depth(k), Top.file, Top.at - 1)
      BY <1>1, <1>4, <1>6, <2>5
    <3> QED
      BY <1>7, <3>1, <3>2
  <2>8. problems \in Seq(ProblemReports)
    <3>1. PICK g : g = ProblemsAt[Depth(k) - 1]
      OBVIOUS
    <3>2. g \in ProblemLists
      <4>1. Depth(k) - 1 \in 0 .. MaxHandles
        BY <1>6, DisksAssumption
      <4> QED
        BY <3>1, <4>1, ProblemsLevels DEF IInv
    <3>3. PICK l \in Nat : l = Len(ItemsOf(Top.file)) /\ l \in 0 .. l
      BY <1>4, FilesAreRead DEF IInv
    <3>4. ProblemsParts(Top.file, l, g) \in Seq(Seq(ProblemReports)) /\ Len(ProblemsParts(Top.file, l, g)) = l
      BY <1>4, <3>2, <3>3, ProblemsPartsType DEF IInv
    <3>5. ProblemsParts(Top.file, l, g)[Top.at] \in Seq(ProblemReports)
      BY <1>4, <3>3, <3>4
    <3>6. ProblemsParts(Top.file, l, g)[Top.at] = ProblemsOfItem(Top.file, Top.at, g)
      BY <1>4, <3>3 DEF ProblemsParts
    <3> QED
      BY <1>1, <3>1, <3>5, <3>6 DEF problems
  <2>9. q \in Seq(Seq(ProblemReports)) /\ Len(q) = k
    <3>1. \A n \in 1 .. k : q[n] \in Seq(ProblemReports)
      <4>1. \A n \in 1 .. k : p[n] \in Seq(ProblemReports)
        BY <2>3
      <4>2. p[k] \o problems \in Seq(ProblemReports)
        BY <1>1, <2>8, <4>1
      <4> QED
        BY <2>6, <2>7, <4>1, <4>2
    <3>2. q = [n \in 1 .. k |-> q[n]]
      BY <1>3, <2>2 DEF ProblemsOfStack
    <3> QED
      BY <1>1, <3>1, <3>2
  <2>10. FlattenSeq(q) = FlattenSeq(p) \o problems
    <3>1. Len(p) >= 1 /\ Len(q) = Len(p) /\ q[Len(q)] = p[Len(p)] \o problems
      BY <1>1, <2>3, <2>7, <2>9
    <3>2. \A i \in 1 .. Len(p) - 1 : q[i] = p[i]
      BY <1>1, <2>3, <2>6
    <3> QED
      BY <2>3, <2>8, <2>9, <3>1, <3>2, FlattenedLast, Zenon
  <2>11. known = Known \o problems
    BY <1>1 DEF problems
  <2> QED
    BY <1>2, <2>1, <2>2, <2>10, <2>11
<1> QED
  BY <1>8, <1>9, <1>10 DEF Read

\* The fields of the frame that is returned to.
LEMMA ReturnFields ==
    ASSUME IInv, Len(stack) > 1, NEW list \in Seq(Declaration), Return(list)
    PROVE  LET f == stack'[Len(stack) - 1]
               o == stack[Len(stack) - 1]
           IN  f.file = o.file /\ f.dir = o.dir /\ f.at = o.at /\ f.list = list
<1>1. PICK f, o : f = stack'[Len(stack) - 1] /\ o = stack[Len(stack) - 1]
  OBVIOUS
<1>2. f = [file |-> o.file, dir |-> o.dir, at |-> o.at, list |-> list]
  BY <1>1, ReturnFrame
<1>3. f.file = o.file /\ f.dir = o.dir
  BY <1>2
<1>4. f.at = o.at
  BY <1>2
<1>5. f.list = list
  BY <1>2
<1> QED
  BY <1>1, <1>3, <1>4, <1>5

\* What the file at the top of the stack means, and its problems, are those of the
\* include the file below it waits at.
LEMMA IncludedMeans ==
    ASSUME IInv, Included, Read(stack, Known)
    PROVE  LET j == Len(stack) - 1
               file == stack[j].file
               n == stack[j].at - 1
           IN  /\ j \in Nat /\ j >= 1 /\ j \in 1 .. j /\ Depth(j) \in 1 .. MaxHandles /\ file \in DOMAIN disk
               /\ n \in 1 .. Len(ItemsOf(file)) /\ ItemsRead(stack, j) = n - 1
               /\ MeantOfItem(file, n, MeantAt[Depth(j) - 1]) = IF Text.broken THEN <<>> ELSE Top.list
               /\ ProblemsOfItem(file, n, ProblemsAt[Depth(j) - 1])
                     = ProblemsOfStack(stack)[Len(stack)] \o SyntaxError(Top.file)
<1>1. PICK j \in Nat : j = Len(stack) - 1 /\ Len(stack) = j + 1 /\ j >= 1 /\ j \in 1 .. j
                       /\ j \in 1 .. Len(stack) /\ j < Len(stack) /\ j + 1 \in 1 .. Len(stack)
  BY TopFrame DEF Included
<1>2. PICK file, n : file = stack[j].file /\ n = stack[j].at - 1
  OBVIOUS
<1>3. /\ Depth(j) \in 1 .. MaxHandles /\ file \in DOMAIN disk /\ n = ItemsRead(stack, j) + 1
      /\ n \in 1 .. Len(ItemsOf(file)) /\ Depth(j) - 1 = Depth(j + 1) /\ Depth(j + 1) \in 1 .. MaxHandles
      /\ ItemsRead(stack, j) \in 0 .. Len(ItemsOf(file))
  BY <1>1, <1>2, FilesBeingRead DEF Included, AtEnd
<1>4. /\ FilesNest(stack) /\ ListsAreMeant(stack) /\ Top = stack[j + 1] /\ Top.file \in DOMAIN disk
      /\ disk \in Disks
  BY <1>1, TopFrame DEF Read, Top, IInv
<1>5. Reaches(file, ItemsOf(file)[n]) /\ Top.file = Target(file, ItemsOf(file)[n])
  <2>1. j \in 1 .. Len(stack) - 1
    BY <1>1
  <2> QED
    BY <1>2, <1>4, <2>1 DEF FilesNest
<1>6. ItemsRead(stack, j + 1) = Len(ItemsOf(Top.file))
  <2>1. PICK at \in Nat, l \in Nat : at = Top.at /\ l = Len(ItemsOf(Top.file)) /\ at \in 1 .. l + 1 /\ at > l
    BY TopFrame DEF Included, AtEnd
  <2>2. at - 1 = l
    BY <2>1
  <2> QED
    BY <1>1, <1>4, <2>1, <2>2 DEF ItemsRead
<1>7. /\ Top.list = MeantUpto(Depth(j + 1), Top.file, Len(ItemsOf(Top.file)))
      /\ ProblemsOfStack(stack)[Len(stack)] = ProblemsUpto(Depth(j + 1), Top.file, Len(ItemsOf(Top.file)))
  <2>1. Top.list = MeantUpto(Depth(j + 1), Top.file, ItemsRead(stack, j + 1))
    BY <1>1, <1>4 DEF ListsAreMeant
  <2>2. ProblemsOfStack(stack)[j + 1] = ProblemsUpto(Depth(j + 1), Top.file, ItemsRead(stack, j + 1))
    BY <1>1, <1>4 DEF ProblemsOfStack
  <2> QED
    BY <1>1, <1>6, <2>1, <2>2
<1>8. /\ MeantOfItem(file, n, MeantAt[Depth(j) - 1]) = MeantAt[Depth(j + 1)][Top.file]
      /\ ProblemsOfItem(file, n, ProblemsAt[Depth(j) - 1]) = ProblemsAt[Depth(j + 1)][Top.file]
  <2>1. ItemsOf(file)[n].is # "decl" /\ ~NamesDirectory(file, ItemsOf(file)[n])
    BY <1>4, <1>5, FilesAndDirectories DEF Reaches, NamesDirectory
  <2> QED
    BY <1>3, <1>5, <2>1 DEF MeantOfItem, ProblemsOfItem, ItemsOf
<1>9. /\ MeantAt[Depth(j + 1)][Top.file] = IF Text.broken THEN <<>> ELSE Top.list
      /\ ProblemsAt[Depth(j + 1)][Top.file] = ProblemsOfStack(stack)[Len(stack)] \o SyntaxError(Top.file)
  <2>1. PICK d \in 1 .. MaxHandles, f \in DOMAIN disk : d = Depth(j + 1) /\ f = Top.file
    BY <1>3, <1>4
  <2>2. MeantAt[d][f] = IF disk[f].broken THEN <<>> ELSE MeantUpto(d, f, Len(ItemsOf(f)))
    BY <1>4, <2>1, MeantItemByItem
  <2>3. ProblemsAt[d][f] = ProblemsUpto(d, f, Len(ItemsOf(f))) \o SyntaxError(f)
    BY <1>4, <2>1, ProblemsItemByItem
  <2> QED
    BY <1>7, <2>1, <2>2, <2>3 DEF Text
<1>10. ItemsRead(stack, j) = n - 1
  BY <1>3
<1> QED
  BY <1>1, <1>2, <1>3, <1>8, <1>9, <1>10

\* What is known when the file at the top has been read.
ListBehind == IF Text.broken THEN Outer.list ELSE Outer.list \o Top.list
KnownBehind == Known \o SyntaxError(Top.file)

\* The file at the top of the stack has been read, and the one below goes on with
\* its declarations, or without them after a syntax error.
LEMMA FileLeftInOrder ==
    ASSUME IInv, Included, Read(stack, Known), NEW list \in Seq(Declaration), Return(list),
           list = ListBehind, NEW files, files = stack', NEW known, known = KnownBehind
    PROVE  Read(files, known)
<1>1. PICK j \in Nat : /\ j = Len(stack) - 1 /\ Len(stack) = j + 1 /\ j >= 1 /\ j \in 1 .. j
                       /\ j \in 1 .. Len(stack) /\ j + 1 \in 1 .. Len(stack)
  <2>1. PICK l \in Nat : l = Len(stack) /\ l > 1
    BY TopFrame DEF Included
  <2>2. /\ l - 1 \in Nat /\ l = (l - 1) + 1 /\ l - 1 >= 1 /\ l - 1 \in 1 .. l - 1
        /\ l - 1 \in 1 .. l /\ (l - 1) + 1 \in 1 .. l
    BY <2>1
  <2> QED
    BY <2>1, <2>2
<1>2. PICK file, n : file = stack[j].file /\ n = stack[j].at - 1
  OBVIOUS
<1>3. PICK meant : meant = MeantOfItem(file, n, MeantAt[Depth(j) - 1])
  OBVIOUS
<1>4. PICK problems : problems = ProblemsOfItem(file, n, ProblemsAt[Depth(j) - 1])
  OBVIOUS
<1>5. /\ Depth(j) \in 1 .. MaxHandles /\ file \in DOMAIN disk
      /\ n \in 1 .. Len(ItemsOf(file)) /\ ItemsRead(stack, j) = n - 1
      /\ meant = IF Text.broken THEN <<>> ELSE Top.list
      /\ problems = ProblemsOfStack(stack)[Len(stack)] \o SyntaxError(Top.file)
  BY <1>1, <1>2, <1>3, <1>4, IncludedMeans
<1>6. /\ files \in Seq(Frame) /\ Len(files) = j /\ Outer = stack[j] /\ Outer \in Frame
      /\ \A i \in 1 .. j : i # j => files[i] = stack[i]
  <2>1. Len(stack) > 1
    BY DEF Included
  <2> QED
    BY <1>1, <2>1, ReturnFrame
<1>7. files[j].file = file /\ files[j].dir = stack[j].dir /\ files[j].at = n + 1 /\ files[j].list = list
  <2>1. Len(stack) > 1
    BY DEF Included
  <2>2. /\ stack'[j].file = stack[j].file /\ stack'[j].dir = stack[j].dir
        /\ stack'[j].at = stack[j].at /\ stack'[j].list = list
    BY <1>1, <2>1, ReturnFields
  <2>3. stack[j].at = n + 1
    <3>1. stack[j].at \in Nat /\ n = stack[j].at - 1
      BY <1>2, <1>6 DEF Frame
    <3> QED
      BY <3>1
  <2> QED
    BY <1>2, <2>2, <2>3
<1>8. /\ ItemsRead(files, j) = n /\ Len(ItemsOf(file)) \in Nat
      /\ \A i \in 1 .. j : i # j => i < j /\ ItemsRead(files, i) = ItemsRead(stack, i)
  <2>1. Len(ItemsOf(file)) \in Nat /\ n \in Nat
    BY <1>5, FilesAreRead DEF IInv
  <2>2. ItemsRead(files, j) = n
    <3>1. Len(files) = j /\ files[j].at = n + 1
      BY <1>6, <1>7
    <3> QED
      BY <1>1, <2>1, <3>1, ItemsReadAtTop
  <2>3. \A i \in 1 .. j : i # j => i < j /\ ItemsRead(files, i) = ItemsRead(stack, i)
    BY <1>1, <1>6 DEF ItemsRead
  <2> QED
    BY <2>1, <2>2, <2>3
<1>9. /\ MeantUpto(Depth(j), file, n) = MeantUpto(Depth(j), file, n - 1) \o meant
      /\ ProblemsUpto(Depth(j), file, n) = ProblemsUpto(Depth(j), file, n - 1) \o problems
  <2>1. PICK d \in 1 .. MaxHandles, f \in DOMAIN disk : d = Depth(j) /\ f = file
    BY <1>5
  <2>2. n \in 1 .. Len(ItemsOf(f)) /\ disk \in Disks
    BY <1>5, <2>1 DEF IInv
  <2>3. MeantUpto(d, f, n) = MeantUpto(d, f, n - 1) \o MeantOfItem(f, n, MeantAt[d - 1])
    BY <2>2, MeantItemByItem
  <2>4. ProblemsUpto(d, f, n) = ProblemsUpto(d, f, n - 1) \o ProblemsOfItem(f, n, ProblemsAt[d - 1])
    BY <2>2, ProblemsItemByItem
  <2> QED
    BY <1>3, <1>4, <2>1, <2>3, <2>4
<1>10. FilesNest(stack) /\ ListsAreMeant(stack) /\ Known = FlattenSeq(ProblemsOfStack(stack))
  BY DEF Read
<1>11. FilesNest(files)
  <2>1. ASSUME NEW i \in 1 .. j PROVE files[i].file = stack[i].file /\ files[i].dir = stack[i].dir
    <3>1. CASE i = j
      BY <1>2, <1>7, <3>1, Zenon
    <3>2. CASE i # j
      BY <1>6, <3>2, Zenon
    <3> QED
      BY <3>1, <3>2
  <2>2. ASSUME NEW i \in 1 .. j - 1 PROVE files[i].at = stack[i].at
    <3>1. i \in 1 .. j /\ i # j
      BY <1>1
    <3> QED
      BY <1>6, <3>1, Zenon
  <2>3. Len(stack) \in Nat /\ j <= Len(stack)
    BY <1>1
  <2>4. FilesNest(stack) /\ Len(files) = j /\ j >= 1
    BY <1>1, <1>6, <1>10
  <2> QED
    BY <2>1, <2>2, <2>3, <2>4, NestAgain
<1>12. ListsAreMeant(files)
  <2> SUFFICES ASSUME NEW i \in 1 .. j
               PROVE  files[i].list = MeantUpto(Depth(i), files[i].file, ItemsRead(files, i))
    BY <1>6 DEF ListsAreMeant
  <2>1. CASE i = j
    <3>1. Outer.list = MeantUpto(Depth(j), file, n - 1)
      BY <1>1, <1>2, <1>5, <1>6, <1>10 DEF ListsAreMeant
    <3>2. Outer.list \in Seq(Declaration)
      BY <1>6 DEF Frame
    <3>3. Outer.list \o <<>> = Outer.list
      BY <3>2, ConcatEmptySeq
    <3>4. list = Outer.list \o meant
      BY <1>5, <3>3 DEF ListBehind
    <3> QED
      BY <1>7, <1>8, <1>9, <2>1, <3>1, <3>4
  <2>2. CASE i # j
    BY <1>1, <1>6, <1>8, <1>10, <2>2 DEF ListsAreMeant
  <2> QED
    BY <2>1, <2>2
<1>13. known = FlattenSeq(ProblemsOfStack(files))
  <2>1. PICK p : p = ProblemsOfStack(stack)
    OBVIOUS
  <2>2. PICK q : q = ProblemsOfStack(files)
    OBVIOUS
  <2>3. p \in Seq(Seq(ProblemReports)) /\ Len(p) = j + 1
    BY <1>1, <2>1, FilesBeingRead DEF Included, AtEnd
  <2>4. \A i \in 1 .. j : q[i] = ProblemsUpto(Depth(i), files[i].file, ItemsRead(files, i))
    BY <1>6, <2>2 DEF ProblemsOfStack
  <2>5. \A i \in 1 .. j : p[i] = ProblemsUpto(Depth(i), stack[i].file, ItemsRead(stack, i))
    BY <1>1, <2>1 DEF ProblemsOfStack
  <2>6. \A i \in 1 .. j : i # j => q[i] = p[i]
    BY <1>6, <1>8, <2>4, <2>5
  <2>7. PICK y \in Seq(ProblemReports) : y = SyntaxError(Top.file)
    BY TopFrame, SyntaxErrorType DEF IInv
  <2>8. q[j] = p[j] \o (p[j + 1] \o y)
    <3>1. q[j] = ProblemsUpto(Depth(j), file, n)
      BY <1>1, <1>7, <1>8, <2>4
    <3>2. p[j] = ProblemsUpto(Depth(j), file, n - 1)
      BY <1>1, <1>2, <1>5, <2>5
    <3>3. problems = p[j + 1] \o y
      BY <1>1, <1>5, <2>1, <2>7
    <3> QED
      BY <1>9, <3>1, <3>2, <3>3
  <2>9. q \in Seq(Seq(ProblemReports)) /\ Len(q) = j
    <3>1. \A i \in 1 .. j : q[i] \in Seq(ProblemReports)
      <4>1. \A i \in 1 .. j + 1 : p[i] \in Seq(ProblemReports)
        BY <2>3
      <4>2. p[j] \in Seq(ProblemReports) /\ p[j + 1] \in Seq(ProblemReports)
        BY <1>1, <4>1
      <4>3. p[j] \o (p[j + 1] \o y) \in Seq(ProblemReports)
        BY <4>2
      <4>4. \A i \in 1 .. j : p[i] \in Seq(ProblemReports)
        BY <1>1, <4>1
      <4> QED
        BY <2>6, <2>8, <4>3, <4>4
    <3>2. q = [i \in 1 .. j |-> q[i]]
      BY <1>6, <2>2 DEF ProblemsOfStack
    <3> QED
      BY <1>1, <3>1, <3>2
  <2>10. FlattenSeq(q) = FlattenSeq(p) \o y
    <3>1. Len(q) >= 1 /\ Len(p) = Len(q) + 1 /\ q[Len(q)] = p[Len(q)] \o (p[Len(p)] \o y)
      BY <1>1, <2>3, <2>8, <2>9
    <3>2. \A i \in 1 .. Len(q) - 1 : q[i] = p[i]
      BY <1>1, <2>6, <2>9
    <3> QED
      BY <2>3, <2>7, <2>9, <3>1, <3>2, FlattenedMerge, Zenon
  <2> QED
    BY <1>10, <2>1, <2>2, <2>7, <2>10 DEF KnownBehind
<1> QED
  BY <1>11, <1>12, <1>13 DEF Read

\* An include is entered: nothing of the included file has been read.
LEMMA FileEnteredInOrder ==
    ASSUME IInv, Read(stack, Known), Shallow, EnterInclude, NEW files, files = stack'
    PROVE  Read(files, Known)
<1>1. PICK k \in Nat : k = Len(stack) /\ k >= 1 /\ k \in 1 .. k /\ k < MaxHandles /\ MaxHandles \in Nat
  BY FilesBeingRead DEF EnterInclude, Including, AtItem
<1>2. PICK e : e = Opened(IncludedFile, IncludedDir)
  OBVIOUS
<1>3. /\ files \in Seq(Frame) /\ Len(files) = k + 1 /\ files[k + 1] = e
      /\ \A n \in 1 .. k : n # k => files[n] = stack[n]
      /\ IncludedFile \in DOMAIN disk
  BY <1>1, <1>2, EnteredFrames
<1>4. /\ files[k].file = Top.file /\ files[k].dir = Top.dir
      /\ files[k].at = Top.at + 1 /\ files[k].list = Top.list
  <2>1. PICK t : t = files[k]
    OBVIOUS
  <2>2. t = [file |-> Top.file, dir |-> Top.dir, at |-> Top.at + 1, list |-> Top.list]
    BY <1>1, <2>1, EnteredFrames
  <2> QED
    BY <2>1, <2>2
<1>5. e.file = IncludedFile /\ e.dir = IncludedDir /\ e.at = 1 /\ e.list = <<>>
  BY <1>2 DEF Opened
<1>6. /\ Top = stack[k] /\ Top.file \in DOMAIN disk /\ Top.at \in Nat \ {0} /\ disk \in Disks
      /\ Top.at \in 1 .. Len(ItemsOf(Top.file)) /\ Item = ItemsOf(Top.file)[Top.at]
      /\ Item.is = "include" /\ Item.legal /\ Item \in Items
  <2>1. /\ Top = stack[k] /\ Top.file \in DOMAIN disk /\ Top.at \in Nat \ {0} /\ disk \in Disks
        /\ Top.at \in 1 .. Len(ItemsOf(Top.file)) /\ Item = ItemsOf(Top.file)[Top.at]
    BY <1>1, TopFrame DEF EnterInclude, Including, AtItem, Item, Top, IInv
  <2>2. Item \in Items
    BY <2>1, FilesAreRead
  <2> QED
    BY <2>1, <2>2 DEF EnterInclude, Including
<1>7. FilesNest(stack) /\ ListsAreMeant(stack) /\ Known = FlattenSeq(ProblemsOfStack(stack))
  BY DEF Read
<1>8. /\ IncludedFile = Target(Top.file, Item) /\ IncludedDir = Front(IncludedFile)
      /\ Reaches(Top.file, Item)
  <2>1. Top.dir = Front(Top.file)
    BY <1>1, <1>6, <1>7 DEF FilesNest
  <2>2. IncludedFile = Walk(Front(Top.file), Item.path)
    BY <2>1 DEF IncludedFile
  <2>3. Item.path \in LegalPaths
    BY <1>6 DEF Items
  <2>4. Len(Item.path) <= 2
    BY <1>6 DEF Shallow, ItemsOf
  <2>5. IncludedDir = Front(IncludedFile)
    BY <1>6, <2>1, <2>2, <2>3, <2>4, FilesAndDirectories, ShortPaths DEF IncludedDir
  <2> QED
    BY <1>3, <1>6, <2>2, <2>5 DEF Target, Reaches
<1>9. /\ ItemsRead(files, k) = ItemsRead(stack, k) /\ ItemsRead(files, k + 1) = 0
      /\ \A n \in 1 .. k : ItemsRead(files, n) = ItemsRead(stack, n)
  <2>1. ItemsRead(files, k) = ItemsRead(stack, k)
    BY <1>1, <1>3, <1>4, <1>6 DEF ItemsRead
  <2>2. ItemsRead(files, k + 1) = 0
    BY <1>1, <1>3, <1>5 DEF ItemsRead
  <2>3. \A n \in 1 .. k : n # k => ItemsRead(files, n) = ItemsRead(stack, n)
    BY <1>1, <1>3 DEF ItemsRead
  <2> QED
    BY <2>1, <2>2, <2>3
<1>10. /\ \A n \in 1 .. k : /\ files[n].file = stack[n].file /\ files[n].dir = stack[n].dir
                            /\ files[n].list = stack[n].list
       /\ \A n \in 1 .. k + 1 : n \in 1 .. k \/ n = k + 1
  BY <1>1, <1>3, <1>4, <1>6
<1>11. Depth(k + 1) \in 1 .. MaxHandles
  BY <1>1 DEF Depth
<1>12. FilesNest(files)
  <2>1. files[1].file = Root
    BY <1>1, <1>7, <1>10 DEF FilesNest
  <2>2. ASSUME NEW n \in 1 .. k + 1 PROVE files[n].dir = Front(files[n].file)
    BY <1>1, <1>3, <1>5, <1>7, <1>8, <1>10 DEF FilesNest
  <2>3. ASSUME NEW n \in 1 .. k
        PROVE  LET item == ItemsOf(files[n].file)[files[n].at - 1]
               IN  Reaches(files[n].file, item) /\ files[n + 1].file = Target(files[n].file, item)
    <3>1. CASE n = k
      <4>1. files[k].at - 1 = Top.at
        BY <1>4, <1>6
      <4> QED
        BY <1>3, <1>4, <1>5, <1>6, <1>8, <3>1, <4>1
    <3>2. CASE n # k
      <4>1. n \in 1 .. k - 1 /\ n + 1 \in 1 .. k
        BY <1>1, <3>2
      <4>2. /\ Reaches(stack[n].file, ItemsOf(stack[n].file)[stack[n].at - 1])
            /\ stack[n + 1].file = Target(stack[n].file, ItemsOf(stack[n].file)[stack[n].at - 1])
        BY <1>1, <1>7, <4>1 DEF FilesNest
      <4>3. files[n] = stack[n] /\ files[n + 1].file = stack[n + 1].file
        BY <1>3, <1>10, <3>2, <4>1
      <4> QED
        BY <4>2, <4>3
    <3> QED
      BY <3>1, <3>2
  <2>4. Len(files) - 1 = k
    BY <1>1, <1>3
  <2> QED
    BY <1>3, <2>1, <2>2, <2>3, <2>4 DEF FilesNest
<1>13. /\ MeantUpto(Depth(k + 1), IncludedFile, 0) = <<>>
       /\ ProblemsUpto(Depth(k + 1), IncludedFile, 0) = <<>>
  BY <1>3, <1>6, <1>11, MeantItemByItem, ProblemsItemByItem
<1>14. ListsAreMeant(files)
  <2> SUFFICES ASSUME NEW n \in 1 .. k + 1
               PROVE  files[n].list = MeantUpto(Depth(n), files[n].file, ItemsRead(files, n))
    BY <1>3 DEF ListsAreMeant
  <2>1. CASE n = k + 1
    BY <1>3, <1>5, <1>9, <1>13, <2>1
  <2>2. CASE n \in 1 .. k
    BY <1>1, <1>7, <1>9, <1>10, <2>2 DEF ListsAreMeant
  <2> QED
    BY <1>10, <2>1, <2>2
<1>15. Known = FlattenSeq(ProblemsOfStack(files))
  <2>1. PICK p : p = ProblemsOfStack(stack)
    OBVIOUS
  <2>2. PICK q : q = ProblemsOfStack(files)
    OBVIOUS
  <2>3. p \in Seq(Seq(ProblemReports)) /\ Len(p) = k
    BY <1>1, <2>1, FilesBeingRead DEF EnterInclude, Including, AtItem
  <2>4. /\ q = [n \in 1 .. k + 1 |-> q[n]]
        /\ \A n \in 1 .. k + 1 : q[n] = ProblemsUpto(Depth(n), files[n].file, ItemsRead(files, n))
    BY <1>3, <2>2 DEF ProblemsOfStack
  <2>5. \A n \in 1 .. k : p[n] = ProblemsUpto(Depth(n), stack[n].file, ItemsRead(stack, n))
    BY <1>1, <2>1 DEF ProblemsOfStack
  <2>6. \A n \in 1 .. k : q[n] = p[n] /\ n \in 1 .. k + 1
    BY <1>1, <1>9, <1>10, <2>4, <2>5
  <2>7. q[k + 1] = <<>>
    <3>1. k + 1 \in 1 .. k + 1
      BY <1>1
    <3> QED
      BY <1>3, <1>5, <1>9, <1>13, <2>4, <3>1
  <2>8. q \in Seq(Seq(ProblemReports)) /\ Len(q) = k + 1
    <3>1. \A n \in 1 .. k + 1 : q[n] \in Seq(ProblemReports)
      <4>1. \A n \in 1 .. k : p[n] \in Seq(ProblemReports)
        BY <2>3
      <4>2. <<>> \in Seq(ProblemReports)
        OBVIOUS
      <4> QED
        BY <1>10, <2>6, <2>7, <4>1, <4>2
    <3>2. k + 1 \in Nat
      BY <1>1
    <3> QED
      BY <2>4, <3>1, <3>2
  <2>9. /\ FlattenSeq(p) \in Seq(ProblemReports) /\ q[Len(q)] = <<>>
        /\ FlattenSeq(q) = FlattenSeq(p) \o q[Len(q)]
    <3>1. Len(q) = Len(p) + 1 /\ \A i \in 1 .. Len(p) : q[i] = p[i]
      BY <2>3, <2>6, <2>8
    <3>2. q[Len(q)] = <<>>
      BY <2>7, <2>8
    <3> QED
      BY <2>3, <2>8, <3>1, <3>2, FlattenedLonger, Zenon
  <2>10. FlattenSeq(q) = FlattenSeq(p)
    BY <2>9, ConcatEmptySeq
  <2> QED
    BY <1>7, <2>1, <2>2, <2>10
<1> QED
  BY <1>12, <1>14, <1>15 DEF Read

\* A sequence and nothing else.
LEMMA NothingBehind ==
    ASSUME NEW M, NEW q \in Seq(M)
    PROVE  q \o <<>> = q
BY ConcatEmptySeq

\* Putting one element behind a sequence is appending it.
LEMMA OneElementBehind ==
    ASSUME NEW M, NEW q \in Seq(M), NEW e \in M
    PROVE  q \o <<e>> = Append(q, e)
OBVIOUS

\* A single sequence, flattened.
LEMMA FlattenedOne ==
    ASSUME NEW M, NEW q \in Seq(Seq(M)), Len(q) = 1
    PROVE  FlattenSeq(q) = q[1]
<1>1. PICK F : /\ \A i \in 1 .. Len(q) : F[i] = (IF i = 1 THEN q[i] ELSE F[i - 1] \o q[i])
               /\ FlattenSeq(q) = IF Len(q) = 0 THEN <<>> ELSE F[Len(q)]
  BY FlattenedParts, Zenon
<1>2. 1 \in 1 .. Len(q) /\ Len(q) # 0
  OBVIOUS
<1> QED
  BY <1>1, <1>2

\* A report makes one more problem known; once a report has met a lack of handles,
\* all that follows may be due to it.
LEMMA KnownGrows ==
    ASSUME IInv, NEW code \in Codes, Report(code)
    PROVE  /\ Known' = Known \o <<Problem(code, Top.file, Top.at)>>
           /\ ~Exhausted' => ~Exhausted /\ handles <= MaxHandles - 2
<1>1. PICK k \in Nat : k = Len(reported)
  BY DEF IInv, TypeOK
<1>2. PICK r : r = [code |-> code, file |-> Top.file, at |-> Top.at, handles |-> handles]
  OBVIOUS
<1>3. /\ r.code = code /\ r.file = Top.file /\ r.at = Top.at /\ r.handles = handles
      /\ reported' = Append(reported, r)
  BY <1>2 DEF Report
<1>4. r \in Reports /\ reported \in Seq(Reports) /\ handles \in Nat /\ MaxHandles \in Nat
  BY <1>2, TopFrame, DisksAssumption DEF IInv, TypeOK, Reports
<1>5. /\ Len(reported') = k + 1 /\ reported'[k + 1] = r
      /\ \A n \in 1 .. k : reported'[n] = reported[n]
  BY <1>1, <1>3, <1>4
<1>6. PICK x : x = Problem(code, Top.file, Top.at)
  OBVIOUS
<1>7. x \in ProblemReports /\ \A n \in 1 .. k : Problem(reported[n].code, reported[n].file, reported[n].at) \in ProblemReports
  <2>1. x \in ProblemReports
    BY <1>6, TopFrame DEF Problem, ProblemReports
  <2>2. ASSUME NEW n \in 1 .. k
        PROVE  Problem(reported[n].code, reported[n].file, reported[n].at) \in ProblemReports
    <3>1. reported[n] \in Reports
      BY <1>1, <1>4
    <3> QED
      BY <3>1 DEF Reports, Problem, ProblemReports
  <2> QED
    BY <2>1, <2>2
<1>8. PICK q : q = Known
  OBVIOUS
<1>9. /\ q \in Seq(ProblemReports) /\ Len(q) = k
      /\ \A n \in 1 .. k : q[n] = Problem(reported[n].code, reported[n].file, reported[n].at)
  BY <1>1, <1>7, <1>8 DEF Known
<1>10. PICK known : known = Known'
  OBVIOUS
<1>11. known = [n \in 1 .. k + 1 |-> Problem(reported'[n].code, reported'[n].file, reported'[n].at)]
  BY <1>5, <1>10 DEF Known, Problem
<1>12. known = Append(q, x)
  <2>1. \A n \in 1 .. k + 1 : known[n] = IF n = k + 1 THEN x ELSE q[n]
    <3> SUFFICES ASSUME NEW n \in 1 .. k + 1 PROVE known[n] = IF n = k + 1 THEN x ELSE q[n]
      OBVIOUS
    <3>1. known[n] = Problem(reported'[n].code, reported'[n].file, reported'[n].at)
      BY <1>11
    <3>2. CASE n = k + 1
      BY <1>3, <1>5, <1>6, <3>1, <3>2
    <3>3. CASE n # k + 1
      <4>1. n \in 1 .. k
        BY <3>3
      <4> QED
        BY <1>5, <1>9, <3>1, <3>3, <4>1
    <3> QED
      BY <3>2, <3>3
  <2>2. PICK a \in Seq(ProblemReports) : /\ a = Append(q, x) /\ Len(a) = k + 1 /\ a[k + 1] = x
                                         /\ \A n \in 1 .. k : a[n] = q[n]
    <3>1. PICK y \in ProblemReports : y = x
      BY <1>7
    <3>2. q \in Seq(ProblemReports) /\ Len(q) = k
      BY <1>9
    <3>3. LET a == Append(q, y)
          IN  a \in Seq(ProblemReports) /\ Len(a) = k + 1 /\ a[k + 1] = y /\ \A n \in 1 .. k : a[n] = q[n]
      BY <3>2
    <3> QED
      BY <3>1, <3>3
  <2>3. \A n \in 1 .. k + 1 : known[n] = a[n] /\ known[n] \in ProblemReports
    <3>1. \A n \in 1 .. k + 1 : n = k + 1 \/ n \in 1 .. k
      OBVIOUS
    <3>2. \A n \in 1 .. k : q[n] \in ProblemReports
      BY <1>9
    <3> QED
      BY <1>7, <2>1, <2>2, <3>1, <3>2
  <2>4. known \in Seq(ProblemReports) /\ Len(known) = k + 1
    BY <1>11, <2>3
  <2> QED
    BY <2>2, <2>3, <2>4, SeqEqual
<1>13. Append(q, x) = q \o <<x>>
  BY <1>7, <1>9, OneElementBehind
<1>14. Exhausted' <=> \E n \in 1 .. k + 1 : reported'[n].handles > MaxHandles - 2
  BY <1>5 DEF Exhausted
<1>15. ~Exhausted' => ~Exhausted
  <2>1. \A n \in 1 .. k : n \in 1 .. k + 1 /\ reported'[n] = reported[n]
    BY <1>5
  <2> QED
    BY <1>1, <1>14, <2>1 DEF Exhausted
<1>16. ~Exhausted' => handles <= MaxHandles - 2
  <2>1. k + 1 \in 1 .. k + 1 /\ reported'[k + 1].handles = handles
    BY <1>3, <1>5
  <2> QED
    BY <1>4, <1>14, <2>1
<1> QED
  BY <1>6, <1>8, <1>10, <1>12, <1>13, <1>15, <1>16

\* The problems that are known are a sequence of problems.
LEMMA KnownType ==
    ASSUME IInv
    PROVE  Known \in Seq(ProblemReports)
<1>1. reported \in Seq(Reports)
  BY DEF IInv, TypeOK, Reports
<1>2. \A n \in 1 .. Len(reported) :
         Problem(reported[n].code, reported[n].file, reported[n].at) \in ProblemReports
  <2> SUFFICES ASSUME NEW n \in 1 .. Len(reported)
               PROVE  Problem(reported[n].code, reported[n].file, reported[n].at) \in ProblemReports
    OBVIOUS
  <2>1. reported[n] \in Reports
    BY <1>1
  <2> QED
    BY <2>1 DEF Reports, Problem, ProblemReports
<1> QED
  BY <1>1, <1>2 DEF Known

-----------------------------------------------------------------------------
(* Reading in order: the steps.                                            *)

OrderInv == ReadingInv /\ ReadInOrder /\ EveryProblemIsReported

\* Until reading ends there is nothing to show but what has been read.
LEMMA StillReading ==
    ASSUME disk' = disk, phase' \notin {"done", "failed"},
           phase' = "reading" /\ Shallow /\ ~Exhausted' => Read(stack, Known)'
    PROVE  OrderInv'
<1>1. Shallow' = Shallow
  BY DEF Shallow
<1> QED
  BY <1>1 DEF OrderInv, ReadingInv, ReadInOrder, EveryProblemIsReported

\* What the item at hand means if it leads to no file, and its problems.
LEMMA ItemAtHand ==
    ASSUME IInv, AtItem, NEW meant, NEW problems, ~Reaches(Top.file, Item)
    PROVE  /\ Item.is = "decl" =>
                 /\ MeantOfItem(Top.file, Top.at, meant) = <<[file |-> Top.file, at |-> Top.at]>>
                 /\ ProblemsOfItem(Top.file, Top.at, problems) = <<>>
           /\ Item.is = "include" =>
                 /\ MeantOfItem(Top.file, Top.at, meant) = <<>>
                 /\ ProblemsOfItem(Top.file, Top.at, problems)
                       = IF NamesDirectory(Top.file, Item) THEN <<>>
                         ELSE <<Problem(IF Item.legal THEN "missing_include_file"
                                                      ELSE "invalid_include_path",
                                        Top.file, Top.at)>>
<1>1. disk[Top.file].items[Top.at] = Item
  BY DEF Item, Text
<1> QED
  BY <1>1 DEF MeantOfItem, ProblemsOfItem

\* A declaration is read.
LEMMA ReadDeclarationInOrder ==
    ASSUME IInv, OrderInv, ReadDeclaration
    PROVE  OrderInv'
<1>1. /\ AtItem /\ Item.is = "decl" /\ ~Reaches(Top.file, Item)
      /\ UNCHANGED <<disk, phase, reported>> /\ phase = "reading"
      /\ stack' = PastItem(Append(Top.list, [file |-> Top.file, at |-> Top.at]))
  BY DEF ReadDeclaration, AtItem, Reaches, Appended
<1>2. SUFFICES ASSUME Shallow, ~Exhausted' PROVE Read(stack, Known)'
  BY <1>1, StillReading
<1>3. ~Exhausted /\ ReadingInv /\ Known' = Known
  BY <1>1, <1>2 DEF Exhausted, Known, OrderInv
<1>4. PICK list : list = Append(Top.list, [file |-> Top.file, at |-> Top.at])
  OBVIOUS
<1>5. PICK d : d = [file |-> Top.file, at |-> Top.at]
  OBVIOUS
<1>6. d \in Declaration /\ Top.list \in Seq(Declaration)
  BY <1>5, TopFrame DEF Declaration
<1>7. list = Append(Top.list, d) /\ list \in Seq(Declaration) /\ Top.list \o <<d>> = Append(Top.list, d)
  BY <1>4, <1>5, <1>6, OneElementBehind
<1>8. list = Top.list \o MeantOfItem(Top.file, Top.at, MeantAt[Depth(Len(stack)) - 1])
  BY <1>1, <1>5, <1>7, ItemAtHand
<1>9. Known = Known \o ProblemsOfItem(Top.file, Top.at, ProblemsAt[Depth(Len(stack)) - 1])
  BY <1>1, ItemAtHand, KnownType, NothingBehind
<1>10. PICK files, known : files = stack' /\ known = Known'
  OBVIOUS
<1>11. files = PastItem(list)
  BY <1>1, <1>4, <1>10
<1>12. known = Known \o ProblemsOfItem(Top.file, Top.at, ProblemsAt[Depth(Len(stack)) - 1])
  BY <1>3, <1>9, <1>10
<1>13. Read(files, known)
  BY <1>1, <1>2, <1>3, <1>7, <1>8, <1>11, <1>12, ItemReadInOrder, Zenon
<1> QED
  BY <1>1, <1>10, <1>13, SameDisk

\* An include is passed over.
LEMMA IncludePassed ==
    ASSUME IInv, OrderInv, Including, UNCHANGED <<disk, phase>>, stack' = PastItem(Top.list),
           Report(IF Item.legal THEN "missing_include_file" ELSE "invalid_include_path"),
           Shallow, ~Exhausted', ~Reaches(Top.file, Item), ~NamesDirectory(Top.file, Item)
    PROVE  Read(stack, Known)'
<1>1. AtItem /\ Item.is = "include" /\ phase = "reading"
  BY DEF Including, AtItem
<1>2. PICK code \in Codes : code = IF Item.legal THEN "missing_include_file" ELSE "invalid_include_path"
  BY DEF Codes
<1>3. Report(code)
  BY <1>2
<1>4. ~Exhausted /\ ReadingInv /\ Known' = Known \o <<Problem(code, Top.file, Top.at)>>
  BY <1>3, KnownGrows DEF OrderInv
<1>5. Top.list \in Seq(Declaration)
  BY TopFrame
<1>6. Top.list = Top.list \o MeantOfItem(Top.file, Top.at, MeantAt[Depth(Len(stack)) - 1])
  BY <1>1, <1>5, ItemAtHand, NothingBehind
<1>7. PICK files, known : files = stack' /\ known = Known'
  OBVIOUS
<1>8. PICK list : list = Top.list
  OBVIOUS
<1>9. /\ files = PastItem(list) /\ list \in Seq(Declaration)
      /\ list = Top.list \o MeantOfItem(Top.file, Top.at, MeantAt[Depth(Len(stack)) - 1])
  BY <1>5, <1>6, <1>7, <1>8
<1>10. known = Known \o ProblemsOfItem(Top.file, Top.at, ProblemsAt[Depth(Len(stack)) - 1])
  BY <1>1, <1>2, <1>4, <1>7, ItemAtHand
<1>11. Read(files, known)
  BY <1>1, <1>4, <1>9, <1>10, ItemReadInOrder, Zenon
<1> QED
  BY <1>7, <1>11, SameDisk

\* Because its path is illegal.
LEMMA RejectIncludeInOrder ==
    ASSUME IInv, OrderInv, RejectInclude
    PROVE  OrderInv'
<1>1. /\ Including /\ ~Item.legal /\ phase' = "reading"
      /\ ~Reaches(Top.file, Item) /\ ~NamesDirectory(Top.file, Item)
      /\ UNCHANGED <<disk, phase>> /\ stack' = PastItem(Top.list)
      /\ Report("invalid_include_path")
  BY DEF RejectInclude, Including, AtItem, Reaches, NamesDirectory
<1>2. Report(IF Item.legal THEN "missing_include_file" ELSE "invalid_include_path")
  BY <1>1
<1>3. Shallow /\ ~Exhausted' => Read(stack, Known)'
  BY <1>1, <1>2, IncludePassed
<1> QED
  BY <1>1, <1>3, StillReading

\* Where handles are left, what a short legal path leads to is opened if it is there.
LEMMA OpenedIfThere ==
    ASSUME IInv, FilesNest(stack), Shallow, Including, Item.legal, handles <= MaxHandles - 2
    PROVE  /\ IncludedFile = Target(Top.file, Item)
           /\ IncludedFile \in DOMAIN disk \union Directories => Opens
<1>1. /\ Top = stack[Len(stack)] /\ Len(stack) \in 1 .. Len(stack) /\ Item.is = "include"
      /\ Top.file \in DOMAIN disk /\ disk \in Disks
      /\ Top.at \in 1 .. Len(ItemsOf(Top.file)) /\ Item = ItemsOf(Top.file)[Top.at]
  BY TopFrame DEF Including, AtItem, Item, Top, IInv
<1>2. Item \in Items
  BY <1>1, FilesAreRead
<1>3. Top.dir = Front(Top.file)
  BY <1>1 DEF FilesNest
<1>4. IncludedFile = Walk(Front(Top.file), Item.path)
  BY <1>3 DEF IncludedFile
<1>5. Item.path \in LegalPaths /\ Len(Item.path) <= 2
  BY <1>1, <1>2 DEF Items, Shallow, ItemsOf
<1>6. /\ IncludedDir = Front(IncludedFile)
      /\ \A n \in 1 .. Len(Item.path) - 1 : Walk(Top.dir, SubSeq(Item.path, 1, n)) = IncludedDir
  <2>1. Top.file \in Locations /\ Top.file # <<>>
    BY <1>1, FilesAndDirectories
  <2> QED
    BY <1>3, <1>4, <1>5, <2>1, ShortPaths DEF IncludedDir
<1>7. IncludedFile \in DOMAIN disk \union Directories => IncludedDir \in Directories
  BY <1>1, <1>6, ParentIsThere
<1>8. handles < MaxHandles /\ handles + 1 < MaxHandles
  BY DisksAssumption DEF IInv, TypeOK
<1> QED
  BY <1>4, <1>6, <1>7, <1>8 DEF Target, Opens, DirOpens, Leads

\* Or because there is nothing by that name.
LEMMA MissingIncludeInOrder ==
    ASSUME IInv, OrderInv, MissingInclude
    PROVE  OrderInv'
<1>1. /\ Including /\ Item.legal /\ ~FileOpens /\ ~DirectoryOpens
      /\ phase' = "reading" /\ phase = "reading"
      /\ UNCHANGED <<disk, phase>> /\ stack' = PastItem(Top.list)
      /\ Report("missing_include_file")
  BY DEF MissingInclude, Including, AtItem
<1>2. Report(IF Item.legal THEN "missing_include_file" ELSE "invalid_include_path")
  BY <1>1
<1>3. SUFFICES ASSUME Shallow, ~Exhausted' PROVE Read(stack, Known)'
  BY <1>1, StillReading
<1>4. handles <= MaxHandles - 2 /\ ~Exhausted
  BY <1>1, <1>3, KnownGrows DEF Codes
<1>5. FilesNest(stack)
  BY <1>1, <1>3, <1>4 DEF OrderInv, ReadingInv, Read
<1>6. /\ IncludedFile = Target(Top.file, Item)
      /\ IncludedFile \notin DOMAIN disk /\ IncludedFile \notin Directories
  BY <1>1, <1>3, <1>4, <1>5, OpenedIfThere DEF FileOpens, DirectoryOpens
<1>7. ~Reaches(Top.file, Item) /\ ~NamesDirectory(Top.file, Item)
  BY <1>6 DEF Reaches, NamesDirectory
<1> QED
  BY <1>1, <1>2, <1>3, <1>7, IncludePassed

\* A directory is passed over without a report.
LEMMA IncludeDirectoryInOrder ==
    ASSUME IInv, OrderInv, IncludeDirectory
    PROVE  OrderInv'
<1>1. /\ Including /\ AtItem /\ Item.is = "include" /\ Item.legal /\ DirectoryOpens
      /\ UNCHANGED <<disk, phase, reported>> /\ phase = "reading"
      /\ stack' = PastItem(Top.list)
  BY DEF IncludeDirectory, Including, AtItem
<1>2. SUFFICES ASSUME Shallow, ~Exhausted' PROVE Read(stack, Known)'
  BY <1>1, StillReading
<1>3. ~Exhausted /\ ReadingInv /\ Known' = Known
  BY <1>1, <1>2 DEF Exhausted, Known, OrderInv
<1>4. FilesNest(stack)
  BY <1>1, <1>2, <1>3 DEF ReadingInv, Read
<1>5. IncludedFile = Target(Top.file, Item) /\ IncludedFile \in Directories
  <2>1. Top = stack[Len(stack)] /\ Len(stack) \in 1 .. Len(stack)
    BY TopFrame DEF Top
  <2> QED
    BY <1>1, <1>4, <2>1 DEF FilesNest, IncludedFile, Target, DirectoryOpens
<1>6. NamesDirectory(Top.file, Item) /\ ~Reaches(Top.file, Item)
  <2>1. IncludedFile \notin DOMAIN disk
    BY <1>5, FilesAndDirectories DEF IInv
  <2> QED
    BY <1>1, <1>5, <2>1 DEF NamesDirectory, Reaches
<1>7. PICK list : list = Top.list
  OBVIOUS
<1>8. /\ list \in Seq(Declaration)
      /\ list = Top.list \o MeantOfItem(Top.file, Top.at, MeantAt[Depth(Len(stack)) - 1])
  BY <1>1, <1>6, <1>7, TopFrame, ItemAtHand, NothingBehind
<1>9. Known = Known \o ProblemsOfItem(Top.file, Top.at, ProblemsAt[Depth(Len(stack)) - 1])
  BY <1>1, <1>6, ItemAtHand, KnownType, NothingBehind
<1>10. PICK files, known : files = stack' /\ known = Known'
  OBVIOUS
<1>11. files = PastItem(list)
  BY <1>1, <1>7, <1>10
<1>12. known = Known \o ProblemsOfItem(Top.file, Top.at, ProblemsAt[Depth(Len(stack)) - 1])
  BY <1>3, <1>9, <1>10
<1>13. Read(files, known)
  BY <1>1, <1>2, <1>3, <1>8, <1>11, <1>12, ItemReadInOrder, Zenon
<1> QED
  BY <1>1, <1>10, <1>13, SameDisk

\* A file is entered.
LEMMA EnterIncludeInOrder ==
    ASSUME IInv, OrderInv, EnterInclude
    PROVE  OrderInv'
<1>1. UNCHANGED <<disk, phase, reported>> /\ phase = "reading" /\ phase' = "reading"
  BY DEF EnterInclude, Including, AtItem
<1>2. SUFFICES ASSUME Shallow, ~Exhausted' PROVE Read(stack, Known)'
  BY <1>1, StillReading
<1>3. ~Exhausted /\ Known' = Known
  BY <1>1, <1>2 DEF Exhausted, Known
<1>4. Read(stack, Known)
  BY <1>1, <1>2, <1>3 DEF OrderInv, ReadingInv
<1>5. PICK files, known : files = stack' /\ known = Known'
  OBVIOUS
<1>6. Read(files, known)
  BY <1>2, <1>3, <1>4, <1>5, FileEnteredInOrder
<1> QED
  BY <1>1, <1>5, <1>6, SameDisk

\* A file is left behind its last item.
LEMMA LeaveIncludeInOrder ==
    ASSUME IInv, OrderInv, LeaveInclude
    PROVE  OrderInv'
<1>1. /\ UNCHANGED <<disk, phase, reported>> /\ phase = "reading" /\ phase' = "reading"
      /\ Included /\ ~Text.broken /\ Return(Outer.list \o Top.list) /\ Len(stack) > 1
  BY DEF LeaveInclude, Included, AtEnd
<1>2. SUFFICES ASSUME Shallow, ~Exhausted' PROVE Read(stack, Known)'
  BY <1>1, StillReading
<1>3. ~Exhausted /\ Known' = Known
  BY <1>1, <1>2 DEF Exhausted, Known
<1>4. Read(stack, Known)
  BY <1>1, <1>2, <1>3 DEF OrderInv, ReadingInv
<1>5. PICK files, known : files = stack' /\ known = Known'
  OBVIOUS
<1>6. PICK list : list = Outer.list \o Top.list
  OBVIOUS
<1>7. list \in Seq(Declaration)
  <2>1. Outer \in Frame /\ Top \in Frame
    BY <1>1, TopFrame DEF Outer, IInv, TypeOK
  <2>2. Outer.list \in Seq(Declaration) /\ Top.list \in Seq(Declaration)
    BY <2>1 DEF Frame
  <2> QED
    BY <1>6, <2>2
<1>8. list = ListBehind /\ Return(list)
  BY <1>1, <1>6 DEF ListBehind
<1>9. known = KnownBehind
  <2>1. SyntaxError(Top.file) = <<>>
    BY <1>1 DEF SyntaxError, Text
  <2>2. Known \o <<>> = Known
    BY KnownType, NothingBehind
  <2> QED
    BY <1>3, <1>5, <2>1, <2>2 DEF KnownBehind
<1>10. Read(files, known)
  BY <1>1, <1>4, <1>5, <1>7, <1>8, <1>9, FileLeftInOrder
<1> QED
  BY <1>1, <1>5, <1>10, SameDisk

\* The syntax error of a file is at its end.
LEMMA SyntaxErrorAtEnd ==
    ASSUME IInv, AtEnd, Text.broken
    PROVE  SyntaxError(Top.file) = <<Problem("syntax_error", Top.file, Top.at)>>
<1>1. PICK at \in Nat, l \in Nat : at = Top.at /\ l = Len(ItemsOf(Top.file)) /\ at \in 1 .. l + 1 /\ at > l
  BY TopFrame DEF AtEnd
<1>2. at = l + 1
  BY <1>1
<1> QED
  BY <1>1, <1>2 DEF SyntaxError, Text

\* Or at a syntax error.
LEMMA AbandonIncludeInOrder ==
    ASSUME IInv, OrderInv, AbandonInclude
    PROVE  OrderInv'
<1>1. /\ UNCHANGED <<disk, phase>> /\ phase = "reading" /\ phase' = "reading" /\ AtEnd
      /\ Included /\ Text.broken /\ Return(Outer.list) /\ Len(stack) > 1 /\ Report("syntax_error")
  BY DEF AbandonInclude, Included, AtEnd, Kept
<1>2. SUFFICES ASSUME Shallow, ~Exhausted' PROVE Read(stack, Known)'
  BY <1>1, StillReading
<1>3. ~Exhausted /\ Known' = Known \o <<Problem("syntax_error", Top.file, Top.at)>>
  BY <1>1, <1>2, KnownGrows DEF Codes
<1>4. Read(stack, Known)
  BY <1>1, <1>2, <1>3 DEF OrderInv, ReadingInv
<1>5. PICK files, known : files = stack' /\ known = Known'
  OBVIOUS
<1>6. PICK list : list = Outer.list
  OBVIOUS
<1>7. list \in Seq(Declaration)
  <2>1. Outer \in Frame
    BY <1>1, TopFrame DEF Outer, IInv, TypeOK
  <2> QED
    BY <1>6, <2>1 DEF Frame
<1>8. list = ListBehind /\ Return(list)
  BY <1>1, <1>6 DEF ListBehind
<1>9. known = KnownBehind
  <2>1. SyntaxError(Top.file) = <<Problem("syntax_error", Top.file, Top.at)>>
    BY <1>1, SyntaxErrorAtEnd
  <2> QED
    BY <1>3, <1>5, <2>1 DEF KnownBehind
<1>10. Read(files, known)
  BY <1>1, <1>4, <1>5, <1>7, <1>8, <1>9, FileLeftInOrder
<1> QED
  BY <1>1, <1>5, <1>10, SameDisk

\* The outermost file has been read: what it means is its list, and its problems
\* are known, up to a syntax error at its end.
LEMMA OutermostRead ==
    ASSUME IInv, AtEnd, Len(stack) = 1, Read(stack, Known)
    PROVE  /\ ~Text.broken => Meant = Top.list /\ Problems = Known
           /\ Text.broken => Problems = Known \o <<Problem("syntax_error", Top.file, Top.at)>>
<1>1. /\ Top = stack[1] /\ Top.file \in DOMAIN disk /\ disk \in Disks
      /\ FilesNest(stack) /\ ListsAreMeant(stack) /\ Known = FlattenSeq(ProblemsOfStack(stack))
      /\ ProblemsOfStack(stack) \in Seq(Seq(ProblemReports)) /\ Len(ProblemsOfStack(stack)) = 1
  BY TopFrame, FilesBeingRead DEF Read, Top, IInv, AtEnd
<1>2. Top.file = Root /\ Depth(1) = MaxHandles /\ MaxHandles \in 1 .. MaxHandles
  BY <1>1, DisksAssumption DEF FilesNest, Depth
<1>3. ItemsRead(stack, 1) = Len(ItemsOf(Root))
  <2>1. PICK at \in Nat, l \in Nat : at = Top.at /\ l = Len(ItemsOf(Top.file)) /\ at \in 1 .. l + 1 /\ at > l
    BY TopFrame DEF AtEnd
  <2>2. at - 1 = l
    BY <2>1
  <2> QED
    BY <1>1, <1>2, <2>1, <2>2 DEF ItemsRead
<1>4. Top.list = MeantUpto(MaxHandles, Root, Len(ItemsOf(Root)))
  BY <1>1, <1>2, <1>3 DEF ListsAreMeant
<1>5. Known = ProblemsUpto(MaxHandles, Root, Len(ItemsOf(Root)))
  <2>1. FlattenSeq(ProblemsOfStack(stack)) = ProblemsOfStack(stack)[1]
    BY <1>1, FlattenedOne
  <2>2. ProblemsOfStack(stack)[1] = ProblemsUpto(Depth(1), stack[1].file, ItemsRead(stack, 1))
    BY DEF ProblemsOfStack
  <2> QED
    BY <1>1, <1>2, <1>3, <2>1, <2>2
<1>6. Meant = IF disk[Root].broken THEN <<>> ELSE MeantUpto(MaxHandles, Root, Len(ItemsOf(Root)))
  BY <1>1, <1>2, MeantItemByItem DEF Meant
<1>7. Problems = ProblemsUpto(MaxHandles, Root, Len(ItemsOf(Root))) \o SyntaxError(Root)
  BY <1>1, <1>2, ProblemsItemByItem DEF Problems
<1>8. CASE ~Text.broken
  <2>1. SyntaxError(Root) = <<>> /\ ~disk[Root].broken
    BY <1>2, <1>8 DEF SyntaxError, Text
  <2>2. Known \o <<>> = Known
    BY KnownType, NothingBehind
  <2> QED
    BY <1>4, <1>5, <1>6, <1>7, <1>8, <2>1, <2>2
<1>9. CASE Text.broken
  <2>1. SyntaxError(Top.file) = <<Problem("syntax_error", Top.file, Top.at)>>
    BY <1>9, SyntaxErrorAtEnd
  <2> QED
    BY <1>2, <1>5, <1>7, <1>9, <2>1
<1> QED
  BY <1>8, <1>9, TopFrame

\* The document is complete.
LEMMA FinishInOrder ==
    ASSUME IInv, OrderInv, Finish
    PROVE  OrderInv'
<1>1. /\ AtEnd /\ Len(stack) = 1 /\ ~Text.broken /\ declarations' = Top.list /\ phase' = "done"
      /\ UNCHANGED <<disk, stack, reported>> /\ phase = "reading"
  BY DEF Finish, AtEnd
<1>2. SUFFICES ASSUME Shallow', ~Exhausted' PROVE declarations' = Meant' /\ Problems' = Known'
  BY <1>1 DEF OrderInv, ReadingInv, ReadInOrder, EveryProblemIsReported
<1>3. Known' = Known /\ ~Exhausted /\ Shallow
  BY <1>1, <1>2 DEF Known, Exhausted, Shallow
<1>4. Read(stack, Known)
  BY <1>1, <1>3 DEF OrderInv, ReadingInv
<1>5. Meant = Top.list /\ Problems = Known
  BY <1>1, <1>4, OutermostRead
<1>6. Meant' = Meant /\ Problems' = Problems
  BY <1>1, SameDisk
<1> QED
  BY <1>1, <1>3, <1>5, <1>6

\* Or there is none, because of a syntax error.
LEMMA FailInOrder ==
    ASSUME IInv, OrderInv, Fail
    PROVE  OrderInv'
<1>1. /\ AtEnd /\ Len(stack) = 1 /\ Text.broken /\ Report("syntax_error") /\ phase' = "failed"
      /\ disk' = disk /\ phase = "reading"
  BY DEF Fail, AtEnd
<1>2. SUFFICES ASSUME Shallow', ~Exhausted' PROVE Problems' = Known'
  BY <1>1 DEF OrderInv, ReadingInv, ReadInOrder, EveryProblemIsReported
<1>3. Known' = Known \o <<Problem("syntax_error", Top.file, Top.at)>> /\ ~Exhausted /\ Shallow
  BY <1>1, <1>2, KnownGrows DEF Shallow, Codes
<1>4. Read(stack, Known)
  BY <1>1, <1>3 DEF OrderInv, ReadingInv
<1>5. Problems = Known \o <<Problem("syntax_error", Top.file, Top.at)>>
  BY <1>1, <1>4, OutermostRead
<1>6. Problems' = Problems
  BY <1>1, SameDisk
<1> QED
  BY <1>3, <1>5, <1>6

\* A failed assertion ends the program before the document is complete.
LEMMA FailAssertionInOrder ==
    ASSUME FailAssertion
    PROVE  OrderInv'
BY StillReading DEF FailAssertion

\* Every step of the parser reads in order.
LEMMA NextInOrder == IInv /\ OrderInv /\ [Next]_vars => OrderInv'
<1> SUFFICES ASSUME IInv, OrderInv, [Next]_vars PROVE OrderInv'
  OBVIOUS
<1>1. CASE UNCHANGED vars
  <2>1. UNCHANGED <<disk, stack, phase, declarations, reported>>
    BY <1>1 DEF vars
  <2>2. PICK files, known : files = stack' /\ known = Known'
    OBVIOUS
  <2>3. Known' = Known /\ Exhausted' = Exhausted
    BY <2>1 DEF Known, Exhausted
  <2>4. /\ Shallow' = Shallow /\ Meant' = Meant /\ Problems' = Problems
        /\ Read(stack, Known)' <=> Read(files, known)
    BY <2>1, <2>2, SameDisk
  <2>5. files = stack /\ known = Known
    BY <2>1, <2>2, <2>3
  <2> QED
    BY <2>1, <2>3, <2>4, <2>5 DEF OrderInv, ReadingInv, ReadInOrder, EveryProblemIsReported
<1> QED
  BY <1>1, ReadDeclarationInOrder, RejectIncludeInOrder, MissingIncludeInOrder,
     IncludeDirectoryInOrder, EnterIncludeInOrder, LeaveIncludeInOrder, FailAssertionInOrder, AbandonIncludeInOrder, FinishInOrder, FailInOrder DEF Next

\* At every moment the lists of the files on the stack are what their items so far
\* mean, and the reports are the problems of those items.
THEOREM ReadingInvariance == Spec => []OrderInv
<1>1. Init => OrderInv
  BY ReadingStarts DEF Init, OrderInv, ReadInOrder, EveryProblemIsReported
<1> QED
  BY <1>1, NextInOrder, Invariance, PTL DEF Spec

\* The document lists the declarations of all files in the order of the text, as if
\* each file stood in place of its include (a directory in place of its include
\* stands for nothing), for any file system and any depth.
THEOREM DocumentInOrder == Spec => []ReadInOrder
<1>1. OrderInv => ReadInOrder
  BY DEF OrderInv
<1> QED
  BY <1>1, ReadingInvariance, PTL

\* Each illegal path, each include of something that is not there and each syntax
\* error is reported once and in reading order, and nothing else is, though reading
\* goes on after an included file that failed.  An include that names a directory is
\* not among them: the code passes over it as over an empty file, without a report.
THEOREM ProblemsReported == Spec => []EveryProblemIsReported
<1>1. OrderInv => EveryProblemIsReported
  BY DEF OrderInv
<1> QED
  BY <1>1, ReadingInvariance, PTL
=============================================================================
