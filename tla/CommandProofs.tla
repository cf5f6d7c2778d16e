---------------------------- MODULE CommandProofs ---------------------------
(***************************************************************************)
(* Machine-checked proofs about Command: the invariants of Server and of   *)
(* Setup hold whichever of the two the command becomes, because nothing of *)
(* the server exists before Serve and nothing of it after `setup`.         *)
(* First Setup alone, for any number of runs of it: SetupIInv follows      *)
(* every file through a run: untouched, being replaced, written (its old   *)
(* content in the backup), undone or committed.                            *)
(***************************************************************************)
EXTENDS Command, ServerProofs

Contents ==
  {c \in [run : Nat, state : {"absent", "part", "whole"}] : c.state = "absent" => c = Absent}

Busy == {"rename", "create", "fill", "restore"}
Writing == {"stat"} \cup Busy
Working == Writing \cup {"verify"}
Idle == {"stopped", "failed", "done"}

Entry == [file : Managed, had : BOOLEAN]

Places == {"stopped", "failed", "done", "prompt", "stat", "rename", "create", "fill", "restore",
           "verify", "rollback", "commit"}
DiskType == [Managed -> [path : Contents, bak : Contents]]
SetupType ==
  [pc : Places, run : Nat, todo : Seq(Managed), had : BOOLEAN, written : Seq(Entry), verified : BOOLEAN]

FileTypes ==
  /\ disk \in DiskType /\ before \in [Managed -> Contents] /\ lost \in BOOLEAN
  /\ setup \in SetupType

(* What is still to be written and what is written are different files. *)
Names(s) == {s[i] : i \in 1..Len(s)}
Distinct(s) == \A i, j \in 1..Len(s) : s[i] = s[j] => i = j
FileSet(w) == {w[i].file : i \in 1..Len(w)}
DistinctFiles(w) == \A i, j \in 1..Len(w) : w[i].file = w[j].file => i = j

Lists ==
  /\ Distinct(setup.todo) /\ DistinctFiles(setup.written)
  /\ Names(setup.todo) \cap FileSet(setup.written) = {}
  /\ setup.pc \in Writing => Len(setup.todo) # 0
  /\ setup.pc \in {"prompt", "failed"} => setup.written = <<>>

Untouched(f) == disk[f].path = before[f]

(* The old content is in the backup, or there was none. *)
SetAside(f, had) == IF had THEN disk[f].bak = before[f] ELSE before[f] = Absent

CurrentFile ==
  /\ setup.pc \in {"rename", "restore"} => setup.had
  /\ setup.pc = "rename" => Untouched(Current)
  /\ setup.pc \in {"create", "fill", "restore"} => SetAside(Current, setup.had)
  /\ setup.pc = "create" /\ ~setup.had => Untouched(Current)
  /\ setup.pc = "fill" => disk[Current].path = Generated("part")

WrittenFiles ==
  setup.pc \in Working \cup {"rollback"} =>
    \A i \in 1..Len(setup.written) :
      LET w == setup.written[i] IN SetAside(w.file, w.had) /\ disk[w.file].path = Generated("whole")

Rolled(f) ==
  \/ Untouched(f)
  \/ before[f] = Absent /\ disk[f].path = Generated("part")
  \/ lost /\ (disk[f].bak = before[f] \/ before[f] = Absent)

OtherFiles ==
  \A f \in Managed \ FileSet(setup.written) :
    /\ setup.pc \in Working => Untouched(f) \/ (setup.pc \in Busy /\ f = Current)
    /\ setup.pc \in {"rollback", "failed"} => Rolled(f)

AllFiles ==
  \A f \in Managed :
    /\ setup.pc = "prompt" => Untouched(f)
    /\ setup.pc \in {"commit", "done"} => setup.verified /\ (Untouched(f) \/ disk[f].path = Generated("whole"))
    /\ setup.pc = "stopped" /\ Exists(before[f]) => before[f] \in {disk[f].path, disk[f].bak} \/ Committed(f)

SetupIInv == FileTypes /\ Lists /\ CurrentFile /\ WrittenFiles /\ OtherFiles /\ AllFiles

-----------------------------------------------------------------------------
(* The two lists: taking the head of todo, appending to and shortening written. *)

(* The head of todo leaves it. *)
LEMMA HeadLaw ==
  ASSUME NEW S, NEW s \in Seq(S), Len(s) # 0
  PROVE  /\ Head(s) \in Names(s) /\ Head(s) \in S
         /\ Tail(s) \in Seq(S) /\ Len(Tail(s)) = Len(s) - 1
         /\ Names(Tail(s)) \subseteq Names(s)
         /\ Distinct(s) => Distinct(Tail(s)) /\ Head(s) \notin Names(Tail(s))
<1>1. Len(s) \in Nat /\ s # <<>>
  BY LenProperties, EmptySeq
<1>2. Head(s) \in S /\ Tail(s) \in Seq(S) /\ Len(Tail(s)) = Len(s) - 1
      /\ \A i \in 1..Len(Tail(s)) : Tail(s)[i] = s[i + 1]
  BY <1>1, HeadTailProperties
<1>3. Head(s) = s[1] /\ 1 \in 1..Len(s)
  <2>1. Head(s) = s[1]
    OBVIOUS
  <2>2. \A n \in Nat : n # 0 => 1 \in 1..n
    OBVIOUS
  <2> QED
    BY <1>1, <2>1, <2>2
<1>4. \A i \in 1..Len(Tail(s)) : i + 1 \in 1..Len(s) /\ i + 1 # 1
  BY <1>1, <1>2
<1>5. Names(Tail(s)) \subseteq Names(s)
  BY <1>2, <1>4 DEF Names
<1>6. ASSUME Distinct(s) PROVE Distinct(Tail(s)) /\ Head(s) \notin Names(Tail(s))
  <2>1. \A i, j \in 1..Len(Tail(s)) : i + 1 = j + 1 => i = j
    BY <1>1, <1>2
  <2>2. Distinct(Tail(s))
    BY <1>2, <1>4, <1>6, <2>1 DEF Distinct
  <2>3. \A i \in 1..Len(Tail(s)) : Tail(s)[i] # Head(s)
    BY <1>2, <1>3, <1>4, <1>6 DEF Distinct
  <2> QED
    BY <2>2, <2>3 DEF Names
<1> QED
  BY <1>2, <1>3, <1>5, <1>6 DEF Names

(* A file joins the written ones. *)
LEMMA AppendLaw ==
  ASSUME NEW w \in Seq(Entry), NEW e \in Entry
  PROVE  /\ Append(w, e) \in Seq(Entry)
         /\ FileSet(Append(w, e)) = FileSet(w) \cup {e.file}
         /\ \A i \in 1..Len(Append(w, e)) : Append(w, e)[i] = e \/ \E j \in 1..Len(w) : Append(w, e)[i] = w[j]
         /\ DistinctFiles(w) /\ e.file \notin FileSet(w) => DistinctFiles(Append(w, e))
<1> DEFINE a == Append(w, e)
<1>1. Len(w) \in Nat
  BY LenProperties
<1>2. a \in Seq(Entry) /\ Len(a) = Len(w) + 1 /\ a[Len(w) + 1] = e /\ \A i \in 1..Len(w) : a[i] = w[i]
  BY AppendProperties
<1> HIDE DEF a
<1>3. \A i \in 1..Len(a) : i \in 1..Len(w) \/ i = Len(w) + 1
  BY <1>1, <1>2
<1>4. \A i \in 1..Len(w) : i \in 1..Len(a)
  BY <1>1, <1>2
<1>5. Len(w) + 1 \in 1..Len(a)
  BY <1>1, <1>2
<1>6. FileSet(a) = FileSet(w) \cup {e.file}
  BY <1>2, <1>3, <1>4, <1>5 DEF FileSet
<1>7. ASSUME DistinctFiles(w), e.file \notin FileSet(w) PROVE DistinctFiles(a)
  <2> SUFFICES ASSUME NEW i \in 1..Len(a), NEW j \in 1..Len(a), a[i].file = a[j].file PROVE i = j
    BY DEF DistinctFiles
  <2>1. \A k \in 1..Len(w) : w[k].file # e.file
    BY <1>7 DEF FileSet
  <2> QED
    BY <1>2, <1>3, <1>7, <2>1 DEF DistinctFiles
<1> QED
  BY <1>2, <1>3, <1>6, <1>7 DEF a

(* The last written file is taken off, as the rollback does. *)
LEMMA FrontLaw ==
  ASSUME NEW w \in Seq(Entry), w # <<>>
  PROVE  LET front == SubSeq(w, 1, Len(w) - 1) IN
         /\ Len(w) \in 1..Len(w) /\ Last(w) = w[Len(w)] /\ Last(w) \in Entry /\ front \in Seq(Entry)
         /\ \A i \in 1..Len(front) : i \in 1..Len(w) /\ front[i] = w[i]
         /\ FileSet(w) = FileSet(front) \cup {Last(w).file}
         /\ DistinctFiles(w) => DistinctFiles(front) /\ Last(w).file \notin FileSet(front)
<1> DEFINE n == Len(w) - 1
           front == SubSeq(w, 1, n)
<1>1. Len(w) \in Nat /\ Len(w) # 0
  BY LenProperties, EmptySeq
<1>2. n \in Nat /\ Len(w) = n + 1 /\ n \in Int /\ 1 \in Int /\ n - 1 + 1 = n /\ (1 <= n \/ n = 0)
  <2>1. \A l \in Nat : l # 0 =>
          /\ l - 1 \in Nat /\ l = (l - 1) + 1 /\ l - 1 \in Int /\ 1 \in Int /\ (l - 1) - 1 + 1 = l - 1
          /\ 1 <= l - 1 \/ l - 1 = 0
    OBVIOUS
  <2> QED
    BY <1>1, <2>1
<1>3. \A i \in 1..Len(w) : w[i] \in Entry
  BY ElementOfSeq
<1> HIDE DEF n
<1>4. \A i \in 1..n : i \in 1..Len(w)
  BY <1>2
<1>5. front \in Seq(Entry) /\ Len(front) = n /\ \A i \in 1..n : front[i] = w[i]
  <2>1. /\ SubSeq(w, 1, n) \in Seq(Entry)
        /\ Len(SubSeq(w, 1, n)) = IF 1 <= n THEN n - 1 + 1 ELSE 0
        /\ \A i \in 1..n - 1 + 1 : SubSeq(w, 1, n)[i] = w[1 + i - 1]
    BY <1>2, <1>3, <1>4, SubSeqProperties
  <2>2. Len(SubSeq(w, 1, n)) = n /\ \A i \in 1..n : SubSeq(w, 1, n)[i] = w[i]
    BY <1>2, <2>1
  <2> QED
    BY <2>1, <2>2
<1> HIDE DEF front
<1>6. n + 1 \in 1..Len(w) /\ Last(w) = w[n + 1] /\ Last(w) \in Entry
  BY <1>2, <1>3 DEF Last
<1>7. \A i \in 1..Len(w) : i \in 1..n \/ i = n + 1
  BY <1>2
<1>8. \A i \in 1..n : i # n + 1
  BY <1>2
<1>9. FileSet(w) = FileSet(front) \cup {Last(w).file}
  BY <1>4, <1>5, <1>6, <1>7 DEF FileSet
<1>10. ASSUME DistinctFiles(w) PROVE DistinctFiles(front) /\ Last(w).file \notin FileSet(front)
  <2>1. DistinctFiles(front)
    BY <1>4, <1>5, <1>10 DEF DistinctFiles
  <2>2. \A i \in 1..n : front[i].file # Last(w).file
    BY <1>4, <1>5, <1>6, <1>8, <1>10 DEF DistinctFiles
  <2> QED
    BY <1>5, <2>1, <2>2 DEF FileSet
<1> QED
  BY <1>2, <1>4, <1>5, <1>6, <1>9, <1>10 DEF n, front

-----------------------------------------------------------------------------
(* One step of the command. *)

(* Whoever wrote them, the contents a step writes are contents. *)
LEMMA ContentLaw ==
  ASSUME FileTypes
  PROVE  /\ Absent \in Contents /\ Operators \in Contents
         /\ Generated("part") \in Contents /\ Generated("whole") \in Contents
         /\ \A c \in Contents : ~Exists(c) => c = Absent
         /\ ~Exists(Absent)
BY DEF FileTypes, DiskType, SetupType, Places, Contents, Absent, Operators, Generated, Exists

(* Whatever happens next, nothing that was there before is lost. *)
LEMMA SetupIInvImplies == SetupIInv => SetupSafe
<1> SUFFICES ASSUME SetupIInv PROVE SetupSafe
  OBVIOUS
<1> USE DEF SetupIInv
<1>0. setup.pc \in Idle \cup Working \cup {"prompt", "rollback", "commit"}
  BY DEF FileTypes, SetupType, Places, Idle, Working, Writing, Busy
<1>1. ASSUME NEW f \in Managed, Exists(before[f])
      PROVE  before[f] \in {disk[f].path, disk[f].bak} \/ Committed(f)
  <2>0. before[f] # Absent
    BY <1>1, ContentLaw
  <2>1. CASE setup.pc \in Working \cup {"rollback"} /\ f \in FileSet(setup.written)
    <3>1. PICK i \in 1..Len(setup.written) : setup.written[i].file = f
      BY <2>1 DEF FileSet
    <3> QED
      BY <2>0, <2>1, <3>1 DEF WrittenFiles, SetAside
  <2>2. CASE setup.pc \in Working /\ f \notin FileSet(setup.written)
    <3>1. Untouched(f) \/ (setup.pc \in Busy /\ f = Current)
      BY <2>2 DEF OtherFiles
    <3> QED
      BY <2>0, <3>1 DEF CurrentFile, Untouched, SetAside, Busy
  <2>3. CASE setup.pc \in {"rollback", "failed"} /\ f \notin FileSet(setup.written)
    BY <2>0, <2>3 DEF OtherFiles, Rolled, Untouched
  <2>4. CASE setup.pc = "failed" /\ f \in FileSet(setup.written)
    BY <2>4, EmptySeq DEF Lists, FileSet
  <2>5. CASE setup.pc \in {"prompt", "commit", "done", "stopped"}
    BY <1>1, <2>5 DEF AllFiles, Untouched, Committed
  <2> QED
    BY <1>0, <2>1, <2>2, <2>3, <2>4, <2>5 DEF Idle
<1>2. ASSUME setup.pc = "failed", ~lost, NEW f \in Managed
      PROVE  disk[f].path = before[f] \/ (before[f] = Absent /\ disk[f].path = Generated("part"))
  <2>1. f \notin FileSet(setup.written)
    BY <1>2, EmptySeq DEF Lists, FileSet
  <2> QED
    BY <1>2, <2>1 DEF OtherFiles, Rolled, Untouched
<1> QED
  BY <1>1, <1>2 DEF SetupSafe, OldConfigNeverLost, FailedSetupUndone

-----------------------------------------------------------------------------
(* The steps that write one file. *)

(* The file being written is not yet among the written ones. *)
LEMMA CurrentLaw ==
  ASSUME SetupIInv, setup.pc \in Writing
  PROVE  /\ Current \in Managed /\ Current \notin FileSet(setup.written)
         /\ Tail(setup.todo) \in Seq(Managed) /\ Len(Tail(setup.todo)) = Len(setup.todo) - 1
         /\ Distinct(Tail(setup.todo)) /\ Current \notin Names(Tail(setup.todo))
         /\ Names(Tail(setup.todo)) \subseteq Names(setup.todo)
<1>1. setup.todo \in Seq(Managed) /\ Len(setup.todo) # 0 /\ Distinct(setup.todo)
  BY DEF SetupIInv, FileTypes, SetupType, Lists
<1>2. Current \in Names(setup.todo)
  BY <1>1, HeadLaw DEF Current
<1>3. Current \in Managed /\ Tail(setup.todo) \in Seq(Managed) /\ Len(Tail(setup.todo)) = Len(setup.todo) - 1
  BY <1>1, HeadLaw DEF Current
<1>4. Distinct(Tail(setup.todo)) /\ Current \notin Names(Tail(setup.todo))
      /\ Names(Tail(setup.todo)) \subseteq Names(setup.todo)
  BY <1>1, HeadLaw DEF Current
<1> QED
  BY <1>2, <1>3, <1>4 DEF SetupIInv, Lists

(* Every written entry names a file of its own. *)
LEMMA WrittenLaw ==
  ASSUME FileTypes, NEW i \in 1..Len(setup.written)
  PROVE  setup.written[i] \in Entry /\ setup.written[i].file \in FileSet(setup.written)
         /\ setup.written[i].file \in Managed
<1>1. setup.written[i] \in Entry
  BY ElementOfSeq DEF FileTypes, DiskType, SetupType, Places
<1> QED
  BY <1>1 DEF FileSet, Entry

(* A step on the file being written keeps what is known of the others. *)
LEMMA CurrentStep ==
  ASSUME SetupIInv, setup.pc \in Writing, FileTypes',
         \A f \in Managed : f # Current => disk'[f] = disk[f],
         UNCHANGED before, lost => lost',
         setup'.run = setup.run, setup'.todo = setup.todo, setup'.written = setup.written,
         setup'.pc \in Busy \cup {"rollback"}, CurrentFile',
         setup'.pc = "rollback" => Rolled(Current)'
  PROVE  SetupIInv'
<1> USE DEF SetupIInv
<1>0. Current \in Managed /\ Current \notin FileSet(setup.written) /\ Current' = Current
  BY CurrentLaw DEF Current
<1>1. Lists'
  BY DEF Lists, Writing, Busy
<1>2. WrittenFiles'
  <2> SUFFICES ASSUME NEW i \in 1..Len(setup.written)
               PROVE  LET w == setup.written[i]
                      IN  SetAside(w.file, w.had)' /\ disk'[w.file].path = Generated("whole")
    BY DEF WrittenFiles, Generated
  <2>1. setup.written[i].file \in Managed /\ setup.written[i].file # Current
    BY <1>0, WrittenLaw
  <2> QED
    BY <2>1 DEF WrittenFiles, SetAside, Working
<1>3. OtherFiles'
  <2> SUFFICES ASSUME NEW f \in Managed, f \notin FileSet(setup.written)
               PROVE  /\ setup'.pc \in Working => Untouched(f)' \/ (setup'.pc \in Busy /\ f = Current)
                      /\ setup'.pc \in {"rollback", "failed"} => Rolled(f)'
    BY <1>0 DEF OtherFiles
  <2>1. CASE f = Current
    BY <2>1, <1>0 DEF Working, Writing, Busy
  <2>2. CASE f # Current
    <3>1. Untouched(f)
      BY <2>2 DEF OtherFiles, Working
    <3> QED
      BY <2>2, <3>1 DEF Untouched, Rolled
  <2> QED
    BY <2>1, <2>2
<1>4. AllFiles'
  BY DEF AllFiles, Busy
<1> QED
  BY <1>1, <1>2, <1>3, <1>4

(* A file system call on the current file keeps the invariant. *)
LEMMA WriteStep ==
  ASSUME SetupIInv, StatFile \/ BackUpFile \/ CreateFile \/ RestoreFile \/ (FillFile /\ UNCHANGED disk)
  PROVE  SetupIInv'
<1> USE DEF SetupIInv
<1>0. setup.pc \in Writing
  BY DEF StatFile, BackUpFile, CreateFile, RestoreFile, FillFile, Writing, Busy
<1>1. Current \in Managed /\ Current \notin FileSet(setup.written)
  BY <1>0, CurrentLaw
<1>2. disk[Current] \in [path : Contents, bak : Contents] /\ before[Current] \in Contents
  BY <1>1 DEF FileTypes, DiskType
<1>3. /\ Absent \in Contents /\ Operators \in Contents
      /\ Generated("part") \in Contents /\ Generated("whole") \in Contents
      /\ \A c \in Contents : ~Exists(c) => c = Absent
  BY ContentLaw
<1>4. CASE StatFile
  <2>a. disk' \in DiskType
    BY <1>1, <1>2, <1>3, <1>4 DEF FileTypes, DiskType, StatFile, Set
  <2>b. setup' \in SetupType
    BY <1>4 DEF FileTypes, SetupType, Places, StatFile
  <2>1. FileTypes'
    BY <1>4, <2>a, <2>b DEF FileTypes, StatFile
  <2>2. Untouched(Current)
    BY <1>1, <1>4 DEF OtherFiles, StatFile, Working, Writing, Busy
  <2>3. /\ \A f \in Managed : f # Current => disk'[f] = disk[f]
        /\ disk'[Current].path = disk[Current].path
        /\ setup'.run = setup.run /\ setup'.todo = setup.todo /\ setup'.written = setup.written
        /\ \/ setup'.pc = "rename" /\ setup'.had
           \/ setup'.pc = "create" /\ ~setup'.had /\ ~Exists(disk[Current].path)
    <3>1. CASE Exists(disk[Current].path)
      <4>1. \/ disk' = disk
            \/ disk' = [disk EXCEPT ![Current] = [disk[Current] EXCEPT !.bak = Absent]]
        BY <1>4, <3>1 DEF StatFile, Set
      <4>2. setup' = [setup EXCEPT !.pc = "rename", !.had = TRUE]
        BY <1>4, <3>1 DEF StatFile
      <4>3. (\A f \in Managed : f # Current => disk'[f] = disk[f]) /\ disk'[Current].path = disk[Current].path
        BY <1>1, <1>2, <4>1 DEF FileTypes, DiskType
      <4> QED
        BY <4>2, <4>3 DEF FileTypes, SetupType
    <3>2. CASE ~Exists(disk[Current].path)
      BY <1>1, <1>2, <1>4, <3>2 DEF FileTypes, DiskType, SetupType, StatFile, Set
    <3> QED
      BY <3>1, <3>2
  <2>4. CurrentFile'
    BY <1>2, <1>3, <1>4, <2>2, <2>3 DEF CurrentFile, Untouched, SetAside, Current, StatFile
  <2> QED
    BY <1>0, <1>4, <2>1, <2>3, <2>4, CurrentStep DEF StatFile, Busy
<1>5. CASE BackUpFile
  <2>a. disk' \in DiskType
    BY <1>1, <1>2, <1>3, <1>5 DEF FileTypes, DiskType, BackUpFile, Set, BackedUp
  <2>b. setup' \in SetupType
    BY <1>5 DEF FileTypes, SetupType, Places, BackUpFile, Goes
  <2>1. FileTypes'
    BY <1>5, <2>a, <2>b DEF FileTypes, BackUpFile
  <2>2. Untouched(Current) /\ setup.had
    BY <1>5 DEF CurrentFile, BackUpFile
  <2>3. /\ \A f \in Managed : f # Current => disk'[f] = disk[f]
        /\ setup'.run = setup.run /\ setup'.todo = setup.todo /\ setup'.written = setup.written
        /\ setup'.had = setup.had
        /\ \/ setup'.pc = "create" /\ disk'[Current].bak = disk[Current].path
           \/ setup'.pc = "rollback" /\ disk' = disk
    BY <1>1, <1>2, <1>5 DEF FileTypes, DiskType, SetupType, BackUpFile, Set, Goes, BackedUp
  <2>4. CurrentFile'
    BY <1>5, <2>2, <2>3 DEF CurrentFile, Untouched, SetAside, Current, BackUpFile
  <2>5. setup'.pc = "rollback" => Rolled(Current)'
    BY <1>5, <2>2, <2>3 DEF Rolled, Untouched, Current, BackUpFile
  <2> QED
    BY <1>0, <1>5, <2>1, <2>3, <2>4, <2>5, CurrentStep DEF BackUpFile, Busy
<1>6. CASE CreateFile
  <2>a. disk' \in DiskType
    BY <1>1, <1>2, <1>3, <1>6 DEF FileTypes, DiskType, CreateFile, Set
  <2>b. setup' \in SetupType
    BY <1>6 DEF FileTypes, SetupType, Places, CreateFile, WriteFails, Goes
  <2>1. FileTypes'
    BY <1>6, <2>a, <2>b DEF FileTypes, CreateFile
  <2>2. SetAside(Current, setup.had) /\ (~setup.had => Untouched(Current))
    BY <1>6 DEF CurrentFile, CreateFile
  <2>3. /\ \A f \in Managed : f # Current => disk'[f] = disk[f]
        /\ setup'.run = setup.run /\ setup'.todo = setup.todo /\ setup'.written = setup.written
        /\ setup'.had = setup.had
        /\ \/ setup'.pc = "fill" /\ disk'[Current].path = Generated("part") /\ disk'[Current].bak = disk[Current].bak
           \/ setup'.pc = "restore" /\ disk' = disk /\ setup.had
           \/ setup'.pc = "rollback" /\ disk' = disk /\ ~setup.had
    BY <1>1, <1>2, <1>6 DEF FileTypes, DiskType, SetupType, CreateFile, WriteFails, Set, Goes
  <2>4. CurrentFile'
    BY <1>6, <2>2, <2>3 DEF CurrentFile, SetAside, Current, CreateFile, Generated
  <2>5. setup'.pc = "rollback" => Rolled(Current)'
    BY <1>6, <2>2, <2>3 DEF Rolled, Untouched, Current, CreateFile
  <2> QED
    BY <1>0, <1>6, <2>1, <2>3, <2>4, <2>5, CurrentStep DEF CreateFile, Busy
<1>7. CASE FillFile /\ UNCHANGED disk
  <2>0. setup.pc = "fill" /\ WriteFails
    <3>1. disk[Current].path = Generated("part")
      BY <1>7 DEF CurrentFile, FillFile
    <3>2. disk' # [disk EXCEPT ![Current] = [disk[Current] EXCEPT !.path = Generated("whole")]]
      BY <1>1, <1>2, <1>7, <3>1 DEF FileTypes, DiskType, Generated
    <3> QED
      BY <1>7, <3>2 DEF FillFile, Set
  <2>1. FileTypes'
    BY <1>7, <2>0 DEF FileTypes, DiskType, SetupType, Places, FillFile, WriteFails, Goes, Working, Writing, Busy
  <2>2. SetAside(Current, setup.had) /\ disk[Current].path = Generated("part")
    BY <2>0 DEF CurrentFile
  <2>3. /\ setup'.run = setup.run /\ setup'.todo = setup.todo /\ setup'.written = setup.written
        /\ setup'.had = setup.had
        /\ setup'.pc = IF setup.had THEN "restore" ELSE "rollback"
    <3>1. setup' = [setup EXCEPT !.pc = IF setup.had THEN "restore" ELSE "rollback"]
      BY <2>0 DEF WriteFails, Goes
    <3> QED
      BY <3>1 DEF FileTypes, SetupType
  <2>4. CurrentFile'
    BY <1>7, <2>2, <2>3 DEF CurrentFile, SetAside, Current, FillFile
  <2>5. setup'.pc = "rollback" => Rolled(Current)'
    BY <1>7, <2>2, <2>3 DEF Rolled, SetAside, Current, FillFile, Generated
  <2> QED
    BY <1>0, <1>7, <2>1, <2>3, <2>4, <2>5, CurrentStep DEF FillFile, Busy
<1>8. CASE RestoreFile
  <2>a. disk' \in DiskType
    BY <1>1, <1>2, <1>3, <1>8 DEF FileTypes, DiskType, RestoreFile, Set, Restored
  <2>b. setup' \in SetupType
    BY <1>8 DEF FileTypes, SetupType, Places, RestoreFile, Goes
  <2>1. FileTypes'
    BY <1>8, <2>a, <2>b DEF FileTypes, RestoreFile
  <2>2. setup.had /\ SetAside(Current, setup.had)
    BY <1>8 DEF CurrentFile, RestoreFile
  <2>3. /\ \A f \in Managed : f # Current => disk'[f] = disk[f]
        /\ setup'.run = setup.run /\ setup'.todo = setup.todo /\ setup'.written = setup.written
        /\ setup'.pc = "rollback"
        /\ disk'[Current].path = disk[Current].bak \/ (disk' = disk /\ lost')
        /\ lost => lost'
    BY <1>1, <1>2, <1>8 DEF FileTypes, DiskType, SetupType, RestoreFile, Restored, Set, Goes
  <2>4. CurrentFile'
    BY <2>3 DEF CurrentFile
  <2>5. Rolled(Current)'
    BY <1>8, <2>2, <2>3 DEF Rolled, Untouched, SetAside, Current, RestoreFile
  <2> QED
    BY <1>0, <1>8, <2>1, <2>3, <2>4, <2>5, CurrentStep DEF RestoreFile, Busy
<1> QED
  BY <1>4, <1>5, <1>6, <1>7, <1>8

(* The current file is complete and joins the written ones. *)
LEMMA FillStep ==
  ASSUME SetupIInv, FillFile, disk' # disk
  PROVE  SetupIInv'
<1> USE DEF SetupIInv
<1> DEFINE cur == Current
           e == [file |-> cur, had |-> setup.had]
<1>0. setup.pc \in Writing /\ setup.pc = "fill"
  BY DEF FillFile, Writing, Busy
<1>1. /\ cur \in Managed /\ cur \notin FileSet(setup.written)
      /\ Tail(setup.todo) \in Seq(Managed) /\ Len(Tail(setup.todo)) = Len(setup.todo) - 1
      /\ Distinct(Tail(setup.todo)) /\ cur \notin Names(Tail(setup.todo))
      /\ Names(Tail(setup.todo)) \subseteq Names(setup.todo)
  BY <1>0, CurrentLaw
<1>2. disk[cur] \in [path : Contents, bak : Contents] /\ Generated("whole") \in Contents
  BY <1>1, ContentLaw DEF FileTypes, DiskType
<1>3. /\ disk' = [disk EXCEPT ![cur] = [disk[cur] EXCEPT !.path = Generated("whole")]]
      /\ setup' = [setup EXCEPT !.pc = IF Len(setup.todo) = 1 THEN "verify" ELSE "stat",
                                !.todo = Tail(@), !.written = Append(@, e)]
      /\ UNCHANGED <<answers, before, lost>>
  BY DEF FillFile, Set
<1>4. e \in Entry /\ setup.written \in Seq(Entry) /\ setup.todo \in Seq(Managed) /\ setup.had \in BOOLEAN
  BY <1>1 DEF Entry, FileTypes, SetupType
<1> HIDE DEF e, cur
<1>5. /\ Append(setup.written, e) \in Seq(Entry)
      /\ FileSet(Append(setup.written, e)) = FileSet(setup.written) \cup {e.file}
      /\ \A i \in 1..Len(Append(setup.written, e)) :
           Append(setup.written, e)[i] = e \/ \E j \in 1..Len(setup.written) : Append(setup.written, e)[i] = setup.written[j]
      /\ DistinctFiles(setup.written) /\ e.file \notin FileSet(setup.written) => DistinctFiles(Append(setup.written, e))
  BY <1>4, AppendLaw
<1>6. e.file = cur /\ e.had = setup.had
  BY DEF e
<1>7. /\ setup'.pc \in {"verify", "stat"} /\ (setup'.pc = "stat" => Len(setup.todo) # 1)
      /\ setup'.todo = Tail(setup.todo) /\ setup'.written = Append(setup.written, e) /\ setup'.run = setup.run
      /\ setup' \in SetupType
  BY <1>1, <1>3, <1>4, <1>5 DEF FileTypes, SetupType, Places
<1>8. disk' \in DiskType /\ (\A f \in Managed : f # cur => disk'[f] = disk[f])
      /\ disk'[cur].path = Generated("whole") /\ disk'[cur].bak = disk[cur].bak
  BY <1>1, <1>2, <1>3 DEF FileTypes, DiskType
<1>9. FileTypes'
  BY <1>3, <1>7, <1>8 DEF FileTypes
<1>10. Lists'
  <2>1. Len(setup.todo) \in Nat /\ Len(setup.todo) # 0
    BY <1>0, <1>4, LenProperties DEF Lists
  <2>2. setup'.pc = "stat" => Len(setup'.todo) # 0
    BY <2>1, <1>1, <1>7
  <2>3. Names(setup'.todo) \cap FileSet(setup'.written) = {}
    BY <1>1, <1>5, <1>6, <1>7 DEF Lists
  <2> QED
    BY <1>1, <1>5, <1>6, <1>7, <2>2, <2>3 DEF Lists, Writing, Busy
<1>11. CurrentFile'
  BY <1>7 DEF CurrentFile
<1>12. WrittenFiles'
  <2> SUFFICES ASSUME NEW i \in 1..Len(Append(setup.written, e))
               PROVE  LET w == Append(setup.written, e)[i]
                      IN  SetAside(w.file, w.had)' /\ disk'[w.file].path = Generated("whole")
    BY <1>7 DEF WrittenFiles, Generated
  <2>1. CASE Append(setup.written, e)[i] = e
    BY <2>1, <1>0, <1>3, <1>6, <1>8 DEF CurrentFile, SetAside, cur
  <2>2. ASSUME NEW j \in 1..Len(setup.written), Append(setup.written, e)[i] = setup.written[j]
        PROVE  LET w == Append(setup.written, e)[i]
               IN  SetAside(w.file, w.had)' /\ disk'[w.file].path = Generated("whole")
    <3>1. setup.written[j].file \in Managed /\ setup.written[j].file # cur
      BY <1>1, WrittenLaw
    <3> QED
      BY <2>2, <3>1, <1>0, <1>3, <1>8 DEF WrittenFiles, SetAside, Working, Writing, Busy
  <2> QED
    BY <2>1, <2>2, <1>5
<1>13. OtherFiles'
  <2> SUFFICES ASSUME NEW f \in Managed, f \notin FileSet(setup.written), f # cur
               PROVE  Untouched(f)'
    BY <1>5, <1>6, <1>7 DEF OtherFiles
  <2>1. Untouched(f)
    BY <1>0 DEF OtherFiles, Working, cur
  <2> QED
    BY <2>1, <1>3, <1>8 DEF Untouched
<1>14. AllFiles'
  BY <1>7 DEF AllFiles
<1> QED
  BY <1>9, <1>10, <1>11, <1>12, <1>13, <1>14

(* The rollback takes the last written file back, or fails to. *)
LEMMA RollbackStep ==
  ASSUME SetupIInv, rollbackAll
  PROVE  SetupIInv'
<1> USE DEF SetupIInv
<1>0. setup.pc = "rollback" /\ UNCHANGED before
  BY DEF rollbackAll
<1>1. CASE setup.written = <<>>
  <2>1. disk' = disk /\ lost' = lost /\ setup' = [setup EXCEPT !.pc = "failed"]
    BY <1>1 DEF rollbackAll, Goes
  <2>2. /\ setup'.pc = "failed" /\ setup'.run = setup.run /\ setup'.todo = setup.todo
        /\ setup'.written = setup.written /\ setup' \in SetupType
    BY <2>1 DEF FileTypes, SetupType, Places
  <2> QED
    BY <1>0, <1>1, <2>1, <2>2 DEF FileTypes, Lists, CurrentFile, WrittenFiles, OtherFiles, AllFiles, Rolled, Untouched,
       Generated, Writing, Working, Busy
<1>2. CASE setup.written # <<>>
  <2> DEFINE w == Last(setup.written)
             front == SubSeq(setup.written, 1, Len(setup.written) - 1)
  <2>1. /\ Len(setup.written) \in 1..Len(setup.written) /\ w = setup.written[Len(setup.written)]
        /\ w \in Entry /\ front \in Seq(Entry)
        /\ \A i \in 1..Len(front) : i \in 1..Len(setup.written) /\ front[i] = setup.written[i]
        /\ FileSet(setup.written) = FileSet(front) \cup {w.file}
        /\ DistinctFiles(setup.written) => DistinctFiles(front) /\ w.file \notin FileSet(front)
    BY <1>2, FrontLaw DEF FileTypes, SetupType
  <2>2. /\ setup' = [setup EXCEPT !.written = front]
        /\ \/ disk' = [disk EXCEPT ![w.file] = Undone(disk[w.file], w.had)] /\ lost' = lost
           \/ disk' = disk /\ lost' = TRUE
    BY <1>2 DEF rollbackAll, Set
  <2>3. SetAside(w.file, w.had) /\ w.file \in Managed /\ w.had \in BOOLEAN
    BY <1>0, <2>1 DEF WrittenFiles, Entry
  <2> HIDE DEF w, front
  <2>4. disk[w.file] \in [path : Contents, bak : Contents] /\ Absent \in Contents
    BY <2>3, ContentLaw DEF FileTypes, DiskType
  <2>5. Undone(disk[w.file], w.had) \in [path : Contents, bak : Contents]
        /\ Undone(disk[w.file], w.had).path = before[w.file]
    BY <2>3, <2>4 DEF Undone, Restored, SetAside
  <2>6. /\ disk' \in DiskType /\ (\A f \in Managed : f # w.file => disk'[f] = disk[f]) /\ lost' \in BOOLEAN
        /\ lost => lost'
        /\ disk'[w.file].path = before[w.file] \/ (lost' /\ disk'[w.file] = disk[w.file])
    BY <2>2, <2>3, <2>5 DEF FileTypes, DiskType
  <2>7. /\ setup'.pc = "rollback" /\ setup'.run = setup.run /\ setup'.todo = setup.todo
        /\ setup'.written = front /\ setup' \in SetupType
    BY <1>0, <2>1, <2>2 DEF FileTypes, SetupType, Places
  <2>8. FileTypes'
    BY <1>0, <2>6, <2>7 DEF FileTypes
  <2>9. Lists'
    BY <2>1, <2>7 DEF Lists, Writing, Busy
  <2>10. WrittenFiles'
    <3> SUFFICES ASSUME NEW i \in 1..Len(front)
                 PROVE  /\ IF front[i].had THEN disk'[front[i].file].bak = before'[front[i].file]
                                         ELSE before'[front[i].file] = Absent
                        /\ disk'[front[i].file].path = Generated("whole")
      BY <2>7 DEF WrittenFiles, SetAside, Generated
    <3>1. i \in 1..Len(setup.written) /\ front[i] = setup.written[i] /\ front[i].file # w.file
      BY <2>1 DEF Lists, FileSet
    <3>2. front[i].file \in Managed
      BY <3>1, WrittenLaw
    <3> QED
      BY <1>0, <2>6, <3>1, <3>2 DEF WrittenFiles, SetAside
  <2>11. OtherFiles'
    <3> SUFFICES ASSUME NEW f \in Managed, f \notin FileSet(front) PROVE Rolled(f)'
      BY <2>7 DEF OtherFiles, Working, Writing, Busy
    <3>1. CASE f = w.file
      BY <3>1, <1>0, <2>3, <2>6 DEF Rolled, Untouched, SetAside
    <3>2. CASE f # w.file
      <4>1. Rolled(f)
        BY <3>2, <1>0, <2>1 DEF OtherFiles
      <4> QED
        BY <4>1, <3>2, <1>0, <2>6, <2>7 DEF Rolled, Untouched, Generated
    <3> QED
      BY <3>1, <3>2
  <2>12. CurrentFile' /\ AllFiles'
    BY <2>7 DEF CurrentFile, AllFiles
  <2> QED
    BY <2>8, <2>9, <2>10, <2>11, <2>12
<1> QED
  BY <1>1, <1>2

(* The end of a run: verification, the commit, a kill; the operator's edits. *)
LEMMA EndStep ==
  ASSUME SetupIInv, Verify \/ commitAll \/ Killed \/ \E f \in Managed : OperatorWrites(f)
  PROVE  SetupIInv'
<1> USE DEF SetupIInv
<1>0. SetupSafe
  BY SetupIInvImplies
<1>1. CASE Verify
  <2>1. /\ setup.pc = "verify" /\ UNCHANGED <<disk, before, lost>>
        /\ \/ setup' = [setup EXCEPT !.pc = "commit", !.verified = TRUE]
           \/ setup' = [setup EXCEPT !.pc = "rollback"]
    BY <1>1 DEF Verify, Goes
  <2>2. /\ setup' \in SetupType /\ setup'.run = setup.run /\ setup'.todo = setup.todo
        /\ setup'.written = setup.written
        /\ setup'.pc = "rollback" \/ (setup'.pc = "commit" /\ setup'.verified)
    BY <2>1 DEF FileTypes, SetupType, Places
  <2>3. \A f \in Managed : f \notin FileSet(setup.written) => Untouched(f)
    BY <2>1 DEF OtherFiles, Working, Busy
  <2>4. \A f \in Managed : f \in FileSet(setup.written) => disk[f].path = Generated("whole")
    BY <2>1 DEF WrittenFiles, FileSet, Working
  <2>5. FileTypes' /\ Lists' /\ CurrentFile'
    BY <2>1, <2>2 DEF FileTypes, Lists, CurrentFile, Writing, Busy
  <2>6. WrittenFiles'
    BY <2>1, <2>2 DEF WrittenFiles, SetAside, Generated, Working
  <2>7. OtherFiles'
    BY <2>1, <2>2, <2>3 DEF OtherFiles, Rolled, Untouched, Working, Writing, Busy
  <2>8. AllFiles'
    BY <2>1, <2>2, <2>3, <2>4 DEF AllFiles, Untouched, Generated
  <2> QED
    BY <2>5, <2>6, <2>7, <2>8
<1>2. CASE commitAll
  <2>1. setup.pc = "commit" /\ UNCHANGED <<before, lost>>
    BY <1>2 DEF commitAll
  <2>2. /\ disk' \in DiskType /\ \A f \in Managed : disk'[f].path = disk[f].path
        /\ setup' \in SetupType /\ setup'.run = setup.run /\ setup'.todo = setup.todo
        /\ setup'.verified = setup.verified
        /\ setup'.pc \in {"commit", "done"} /\ DistinctFiles(setup'.written)
        /\ Names(setup'.todo) \cap FileSet(setup'.written) = {}
    <3>1. CASE setup.written = <<>>
      BY <1>2, <3>1 DEF commitAll, Goes, FileTypes, SetupType, Places, Lists
    <3>2. CASE setup.written # <<>>
      <4> DEFINE w == Head(setup.written)
                 rest == Tail(setup.written)
      <4>1. /\ setup' = [setup EXCEPT !.written = rest]
            /\ \/ disk' = [disk EXCEPT ![w.file] = [disk[w.file] EXCEPT !.bak = Absent]]
               \/ disk' = disk
        BY <1>2, <3>2 DEF commitAll, Set
      <4>2. /\ w \in Entry /\ rest \in Seq(Entry) /\ Len(rest) = Len(setup.written) - 1
            /\ \A i \in 1..Len(rest) : rest[i] = setup.written[i + 1]
        BY <3>2, HeadTailProperties DEF FileTypes, SetupType
      <4>3. Len(setup.written) \in Nat
        BY LenProperties DEF FileTypes, SetupType
      <4> HIDE DEF w, rest
      <4>4. \A i \in 1..Len(rest) : i + 1 \in 1..Len(setup.written)
        BY <4>2, <4>3
      <4>5. \A i, j \in 1..Len(rest) : i + 1 = j + 1 => i = j
        BY <4>2, <4>3
      <4>a. DistinctFiles(rest)
        BY SMTT(30), <4>2, <4>4, <4>5 DEF Lists, DistinctFiles
      <4>b. FileSet(rest) \subseteq FileSet(setup.written)
        BY <4>2, <4>4 DEF FileSet
      <4>6. DistinctFiles(rest) /\ FileSet(rest) \subseteq FileSet(setup.written)
        BY <4>a, <4>b
      <4>7. w.file \in Managed /\ disk[w.file] \in [path : Contents, bak : Contents] /\ Absent \in Contents
        BY <4>2, ContentLaw DEF Entry, FileTypes, DiskType
      <4>8. disk' \in DiskType /\ \A f \in Managed : disk'[f].path = disk[f].path
        BY <4>1, <4>7 DEF FileTypes, DiskType
      <4>9. /\ setup' \in SetupType /\ setup'.pc = "commit" /\ setup'.run = setup.run
            /\ setup'.todo = setup.todo /\ setup'.verified = setup.verified /\ setup'.written = rest
        BY <2>1, <4>1, <4>2 DEF FileTypes, SetupType
      <4> QED
        BY <4>6, <4>8, <4>9 DEF Lists
    <3> QED
      BY <3>1, <3>2
  <2>3. FileTypes' /\ CurrentFile' /\ WrittenFiles' /\ OtherFiles'
    BY <2>1, <2>2 DEF FileTypes, CurrentFile, WrittenFiles, OtherFiles, Working, Writing, Busy
  <2>4. Lists'
    BY <2>2 DEF Lists, Writing, Busy
  <2>5. AllFiles'
    BY <2>1, <2>2 DEF AllFiles, Untouched, Generated
  <2> QED
    BY <2>3, <2>4, <2>5
<1>3. CASE Killed
  <2>1. /\ setup' = [Stopped EXCEPT !.run = setup.run, !.verified = setup.verified]
        /\ UNCHANGED <<disk, before, lost>>
    BY <1>3 DEF Killed
  <2>2. /\ setup' \in SetupType /\ setup'.pc = "stopped" /\ setup'.run = setup.run
        /\ setup'.verified = setup.verified /\ setup'.todo = <<>> /\ setup'.written = <<>>
    BY <2>1, EmptySeq DEF Stopped, FileTypes, SetupType, Places
  <2>3. FileTypes' /\ CurrentFile' /\ WrittenFiles' /\ OtherFiles'
    BY <2>1, <2>2 DEF FileTypes, CurrentFile, WrittenFiles, OtherFiles, Working, Writing, Busy
  <2>4. Lists'
    BY <2>2, EmptySeq DEF Lists, Distinct, DistinctFiles, Names, FileSet, Writing, Busy
  <2>5. AllFiles'
    BY <1>0, <2>1, <2>2 DEF AllFiles, SetupSafe, OldConfigNeverLost, Committed, Generated
  <2> QED
    BY <2>3, <2>4, <2>5
<1>4. ASSUME NEW f \in Managed, OperatorWrites(f) PROVE SetupIInv'
  <2>1. /\ setup.pc \in {"stopped", "failed", "done", "prompt"} /\ UNCHANGED <<setup, lost>>
        /\ disk' = [disk EXCEPT ![f] = [disk[f] EXCEPT !.path = Operators]]
        /\ before' = [before EXCEPT ![f] = Operators]
    BY <1>4 DEF OperatorWrites, Set
  <2>2. Operators \in Contents /\ disk[f] \in [path : Contents, bak : Contents]
    BY ContentLaw DEF FileTypes, DiskType
  <2>3. /\ disk' \in DiskType /\ before' \in [Managed -> Contents]
        /\ \A g \in Managed : g # f => disk'[g] = disk[g] /\ before'[g] = before[g]
        /\ disk'[f].path = Operators /\ before'[f] = Operators
    BY <2>1, <2>2 DEF FileTypes, DiskType
  <2>4. FileTypes' /\ Lists' /\ CurrentFile' /\ WrittenFiles'
    BY <2>1, <2>3 DEF FileTypes, Lists, CurrentFile, WrittenFiles, Working, Writing, Busy
  <2>5. OtherFiles'
    BY <2>1, <2>3 DEF OtherFiles, Rolled, Untouched, Generated, Working, Writing, Busy
  <2>6. AllFiles'
    BY <2>1, <2>3 DEF AllFiles, Untouched, Committed, Generated
  <2> QED
    BY <2>4, <2>5, <2>6
<1> QED
  BY <1>1, <1>2, <1>3, <1>4

(* A run begins, or is told what to write. *)
LEMMA BeginStep ==
  ASSUME SetupIInv, applySetupAnswers \/ \E force \in BOOLEAN : runSetupCommand(force)
  PROVE  SetupIInv'
<1> USE DEF SetupIInv
<1>0. SetupSafe
  BY SetupIInvImplies
<1>1. ASSUME NEW force \in BOOLEAN, runSetupCommand(force) PROVE SetupIInv'
  <2>1. /\ setup' = [Stopped EXCEPT !.pc = "prompt", !.run = setup.run + 1]
        /\ before' = [f \in Managed |-> disk[f].path] /\ lost' = FALSE /\ UNCHANGED disk
    BY <1>1 DEF runSetupCommand
  <2>a. setup.run + 1 \in Nat /\ <<>> \in Seq(Managed) /\ <<>> \in Seq(Entry)
    BY EmptySeq DEF FileTypes, SetupType
  <2>2. setup' \in SetupType /\ setup'.pc = "prompt" /\ setup'.todo = <<>> /\ setup'.written = <<>>
    BY <2>1, <2>a DEF Stopped, SetupType, Places
  <2>3. before' \in [Managed -> Contents] /\ \A f \in Managed : before'[f] = disk[f].path
    BY <2>1 DEF FileTypes, DiskType
  <2>4. FileTypes' /\ CurrentFile' /\ WrittenFiles' /\ OtherFiles'
    BY <2>1, <2>2, <2>3 DEF FileTypes, CurrentFile, WrittenFiles, OtherFiles, Working, Writing, Busy
  <2>5. Lists'
    BY <2>2, EmptySeq DEF Lists, Distinct, DistinctFiles, Names, FileSet, Writing, Busy
  <2>6. AllFiles'
    BY <2>1, <2>2, <2>3 DEF AllFiles, Untouched
  <2> QED
    BY <2>4, <2>5, <2>6
<1>2. ASSUME applySetupAnswers, setup' = [setup EXCEPT !.pc = "stopped"] PROVE SetupIInv'
  <2>1. setup.pc = "prompt" /\ UNCHANGED <<disk, before, lost>>
    BY <1>2 DEF applySetupAnswers
  <2>2. /\ setup' \in SetupType /\ setup'.pc = "stopped" /\ setup'.run = setup.run /\ setup'.todo = setup.todo
        /\ setup'.written = setup.written /\ setup'.verified = setup.verified
    BY <1>2 DEF FileTypes, SetupType, Places
  <2>3. FileTypes' /\ CurrentFile' /\ WrittenFiles' /\ OtherFiles' /\ Lists'
    BY <2>1, <2>2 DEF FileTypes, CurrentFile, WrittenFiles, OtherFiles, Lists, Working, Writing, Busy
  <2>4. AllFiles'
    BY <1>0, <2>1, <2>2 DEF AllFiles, SetupSafe, OldConfigNeverLost, Committed, Generated
  <2> QED
    BY <2>3, <2>4
<1>3. ASSUME applySetupAnswers, NEW a, setup' = [setup EXCEPT !.pc = "stat", !.todo = Files(a)] PROVE SetupIInv'
  <2>1. setup.pc = "prompt" /\ UNCHANGED <<disk, before, lost>>
    BY <1>3 DEF applySetupAnswers
  <2>2. Files(a) \in Seq(Managed) /\ Len(Files(a)) # 0 /\ Distinct(Files(a))
    <3>1. CASE HasKeys(a)
      <4>1. Files(a) = <<"attachra.yaml", "policy.yaml", "attachra.env">>
        <5> DEFINE x == <<"attachra.yaml", "policy.yaml">>
                   y == <<"attachra.env">>
                   z == <<"attachra.yaml", "policy.yaml", "attachra.env">>
        <5>1. /\ x \in Seq(Managed) /\ y \in Seq(Managed) /\ z \in Seq(Managed)
              /\ Len(x) = 2 /\ Len(y) = 1 /\ Len(z) = 3
              /\ x[1] = z[1] /\ x[2] = z[2] /\ y[1] = z[3]
          BY DEF Managed
        <5>2. Files(a) = x \o y
          BY <3>1 DEF Files
        <5> HIDE DEF x, y, z
        <5>3. /\ x \o y \in Seq(Managed) /\ Len(x \o y) = Len(x) + Len(y)
              /\ \A i \in 1..Len(x) + Len(y) : (x \o y)[i] = IF i <= Len(x) THEN x[i] ELSE y[i - Len(x)]
          BY <5>1, ConcatProperties
        <5>4. Len(x \o y) = 3 /\ (x \o y)[1] = z[1] /\ (x \o y)[2] = z[2] /\ (x \o y)[3] = z[3]
          BY <5>1, <5>3
        <5>5. \A i \in 1..Len(x \o y) : (x \o y)[i] = z[i]
          BY <5>4
        <5>6. x \o y = z
          BY <5>1, <5>3, <5>4, <5>5, SeqEqual
        <5> QED
          BY <5>2, <5>6 DEF z
      <4> QED
        BY <4>1 DEF Managed, Distinct
    <3>2. CASE ~HasKeys(a)
      <4>1. Files(a) = <<"attachra.yaml", "policy.yaml">>
        BY <3>2 DEF Files
      <4> QED
        BY <4>1 DEF Managed, Distinct
    <3> QED
      BY <3>1, <3>2
  <2>3. /\ setup' \in SetupType /\ setup'.pc = "stat" /\ setup'.todo = Files(a)
        /\ setup'.written = setup.written /\ setup.written = <<>>
    BY <1>3, <2>1, <2>2 DEF FileTypes, SetupType, Places, Lists
  <2>4. FileSet(setup.written) = {} /\ Len(setup.written) = 0
    BY <2>3, EmptySeq DEF FileSet
  <2>5. FileTypes' /\ CurrentFile' /\ AllFiles'
    BY <2>1, <2>3 DEF FileTypes, CurrentFile, AllFiles
  <2>6. WrittenFiles'
    BY <2>3, <2>4 DEF WrittenFiles
  <2>7. Lists'
    BY <2>2, <2>3, <2>4 DEF Lists
  <2>8. OtherFiles'
    BY <2>1, <2>3 DEF OtherFiles, AllFiles, Untouched
  <2> QED
    BY <2>5, <2>6, <2>7, <2>8
<1> QED
  BY <1>1, <1>2, <1>3 DEF applySetupAnswers, Goes

(* From any state that satisfies the invariant, a step leads to one that does. *)
LEMMA SetupStepInv == SetupIInv /\ [SetupStep]_setupVars => SetupIInv'
<1>1. ASSUME SetupIInv, SetupStep PROVE SetupIInv'
  <2>1. CASE FillFile
    BY <1>1, <2>1, FillStep, WriteStep
  <2> QED
    BY <1>1, <2>1, WriteStep, RollbackStep, EndStep, BeginStep DEF SetupStep
<1>2. ASSUME SetupIInv, UNCHANGED setupVars PROVE SetupIInv'
  BY <1>2 DEF setupVars, SetupIInv, FileTypes, Lists, CurrentFile, WrittenFiles, OtherFiles, AllFiles, Untouched,
     SetAside, Rolled, Committed, Generated, Current
<1> QED
  BY <1>1, <1>2

(* No run has begun. *)
LEMMA SetupFresh == SetupInit \/ SetupIdle => SetupIInv
<1> SUFFICES ASSUME SetupInit \/ SetupIdle PROVE SetupIInv
  OBVIOUS
<1>1. setup = Stopped /\ before = [f \in Managed |-> Absent] /\ lost = FALSE
  BY DEF SetupInit, SetupIdle
<1>2. Absent \in Contents /\ Operators \in Contents /\ ~Exists(Absent)
  BY DEF Absent, Operators, Contents, Exists
<1>3. disk \in DiskType
  <2>1. CASE SetupIdle
    BY <1>2, <2>1 DEF SetupIdle, DiskType
  <2>2. CASE SetupInit
    BY <1>2, <2>2 DEF SetupInit, DiskType
  <2> QED
    BY <2>1, <2>2
<1>4. setup \in SetupType /\ setup.pc = "stopped" /\ setup.todo = <<>> /\ setup.written = <<>>
  BY <1>1, EmptySeq DEF Stopped, SetupType, Places
<1>5. FileTypes /\ CurrentFile /\ WrittenFiles /\ OtherFiles
  BY <1>1, <1>2, <1>3, <1>4 DEF FileTypes, CurrentFile, WrittenFiles, OtherFiles, Working, Writing, Busy
<1>6. Lists
  BY <1>4, EmptySeq DEF Lists, Distinct, DistinctFiles, Names, FileSet, Writing, Busy
<1>7. AllFiles
  BY <1>1, <1>2, <1>4 DEF AllFiles
<1> QED
  BY <1>5, <1>6, <1>7 DEF SetupIInv

-----------------------------------------------------------------------------
(* The command.                                                            *)

(* Until Serve, the server's state is that of a process that has not begun. *)
NotServing == command # "serve" => Fresh /\ main = "off"

(* What the server starts from is what config.Load answered. *)
LoadedFromInput == command = "loaded" => loaded = Load(input.yaml, input.env) /\ loaded.ok

CommandIInv == ServerIInv /\ SetupIInv /\ NotServing /\ LoadedFromInput

(* Serve hands a fresh process to run(). *)
LEMMA ServeStep ==
  ASSUME ServerIInv, Fresh, Serve
  PROVE  ServerIInv'
<1>0. 1 \in 1..MaxVersion /\ Broken \subseteq 1..MaxVersion
  BY ServerAssumption
<1>1. /\ main' = "open" /\ file' \in 1..MaxVersion /\ UNCHANGED <<defers, failed, ctx, storeOpen, current, asked>>
      /\ UNCHANGED <<hup, watched, reload, sweeper, milter, session, http, api>>
  BY <1>0 DEF Serve, adapterVars
<1>2. /\ defers = <<>> /\ storeOpen = FALSE /\ current = 0 /\ hup = 0
      /\ reload = Loop /\ sweeper = Loop /\ milter = Adapter /\ http = Adapter
      /\ session = "none" /\ api = [pc |-> "idle", seen |-> 0]
  BY DEF Fresh
<1>3. Types'
  BY <1>1 DEF ServerIInv, Types, Early, Leaving
<1>4. Depth' = 0 /\ Prefix(defers')
  BY <1>1, <1>2, EmptyLaw DEF ServerIInv, Deferred, Depth, Prefix
<1>5. Deferred'
  BY <1>1, <1>2, <1>4 DEF Deferred
<1>6. LoopsBracketed' /\ AdaptersBracketed'
  BY <1>1, <1>2 DEF LoopsBracketed, AdaptersBracketed, Loop, Adapter, Early, Leaving
<1>7. PolicyHeld'
  BY <1>1, <1>2, ServerAssumption DEF PolicyHeld, Loop, Adapter
<1> QED
  BY <1>3, <1>5, <1>6, <1>7 DEF ServerIInv

-----------------------------------------------------------------------------
(* config.Load. *)

(* An empty admin.listen survives Load only next to fold_into_http, and      *)
(* that flag comes from the file or the environment, never from a default.  *)
LEMMA FoldAskedFor ==
  ASSUME NEW yaml, NEW env, Load(yaml, env).ok, Blank(adminListen(Load(yaml, env).cfg))
  PROVE  LET k == "admin_fold_into_http"
         IN  IF k \in DOMAIN env.set THEN EnvFlag(env.set[k]) ELSE k \in DOMAIN yaml /\ yaml[k]
<1> DEFINE k == "admin_fold_into_http"
           parsed == [j \in DOMAIN Default |->
                        IF j \notin DOMAIN yaml THEN Default[j]
                        ELSE IF j \in TextKeys THEN expandEnv(yaml[j], env.vars) ELSE yaml[j]]
           applied == applyEnvOverrides(parsed, env.set)
           cfg == ResetAdminListen(applied)
<1>1. Load(yaml, env).cfg = cfg /\ Load(yaml, env).ok = Validate(cfg)
  BY DEF Load
<1>2. cfg.admin_fold_into_http
  <2>1. ~cfg.admin_fold_into_http => ~Blank(cfg.admin_listen)
    BY <1>1 DEF Validate
  <2> QED
    BY <1>1, <2>1 DEF adminListen
<1>3. k \in DOMAIN Default /\ "admin_listen" \in DOMAIN Default /\ Default[k] = FALSE
      /\ k \notin TextKeys /\ k \notin EnvTexts /\ k \in EnvFlags
  BY DEF Default, TextKeys, FlagKeys, EnvTexts, EnvFlags
<1>4. DOMAIN parsed = DOMAIN Default /\ parsed[k] = IF k \in DOMAIN yaml THEN yaml[k] ELSE FALSE
  BY <1>3
<1> HIDE DEF parsed
<1>5. applied[k] = IF k \in DOMAIN env.set THEN EnvFlag(env.set[k]) ELSE parsed[k]
  BY <1>3, <1>4 DEF applyEnvOverrides
<1>6. cfg[k] = applied[k]
  BY <1>3, <1>4 DEF ResetAdminListen, applyEnvOverrides
<1> QED
  BY <1>2, <1>4, <1>5, <1>6

(* What Validate accepts, the constructors accept. *)
LEMMA ValidStarts ==
  ASSUME NEW cfg, Validate(cfg)
  PROVE  /\ LoggerAccepts(cfg) /\ storageConfig(cfg) /\ LinkDefaultsValidate(cfg)
         /\ TickerAccepts(cfg) /\ ParseTrustedProxies(cfg)
<1>1. LoggerAccepts(cfg) /\ ParseTrustedProxies(cfg)
  BY DEF Validate, LoggerAccepts, ParseTrustedProxies, validateTrustedProxies
<1>2. storageConfig(cfg)
  BY DEF Validate, validateStorage, storageConfig, Blank
<1>3. LinkDefaultsValidate(cfg)
  BY DEF Validate, validateLinks, LinkDefaultsValidate
<1>4. TickerAccepts(cfg)
  BY DEF Validate, validateRetention, TickerAccepts
<1> QED
  BY <1>1, <1>2, <1>3, <1>4

(* Load answers whether what it loaded is valid. *)
LEMMA LoadValidates ==
  ASSUME NEW yaml, NEW env, Load(yaml, env).ok
  PROVE  Validate(Load(yaml, env).cfg)
BY DEF Load

-----------------------------------------------------------------------------
(* From any state that satisfies the invariant, a step leads to one that does. *)
LEMMA CommandStep == CommandIInv /\ [CommandNext]_allVars => CommandIInv'
<1> SUFFICES ASSUME CommandIInv, [CommandNext]_allVars PROVE CommandIInv'
  OBVIOUS
<1> USE DEF CommandIInv
<1>1. UNCHANGED vars => ServerIInv'
  BY ServerStep
<1>2. UNCHANGED setupVars => SetupIInv'
  BY SetupStepInv
<1>3. UNCHANGED vars => (Fresh /\ main = "off" => (Fresh /\ main = "off")')
  BY DEF vars, mainVars, policyVars, adapterVars, Fresh
<1>4. CASE LoadConfig
  BY <1>1, <1>2, <1>3, <1>4 DEF LoadConfig, NotServing, LoadedFromInput
<1>5. CASE Serve
  BY <1>2, <1>5, ServeStep DEF Serve, NotServing, LoadedFromInput
<1>6. CASE command = "serve" /\ Next /\ UNCHANGED <<setupVars, commandVars>>
  BY <1>2, <1>6, ServerStep DEF NotServing, LoadedFromInput, commandVars
<1>7. CASE command = "setup" /\ SetupStep /\ UNCHANGED <<vars, commandVars>>
  BY <1>1, <1>3, <1>7, SetupStepInv DEF NotServing, LoadedFromInput, commandVars
<1>8. CASE UNCHANGED allVars
  BY <1>1, <1>2, <1>3, <1>8 DEF NotServing, LoadedFromInput, allVars, commandVars
<1> QED
  BY <1>4, <1>5, <1>6, <1>7, <1>8 DEF CommandNext

(* The command starts in a state that satisfies it. *)
LEMMA CommandFresh == CommandInit => CommandIInv
<1> SUFFICES ASSUME CommandInit PROVE CommandIInv
  OBVIOUS
<1>1. SetupIInv
  BY SetupFresh DEF CommandInit
<1>2. ServerIInv
  <2>1. file \in 1..MaxVersion
    BY ServerAssumption DEF CommandInit
  <2> QED
    BY <2>1, ServerFresh DEF CommandInit
<1> QED
  BY <1>1, <1>2 DEF CommandInit, NotServing, LoadedFromInput, CommandIInv

-----------------------------------------------------------------------------
(* CommandIInv is an invariant of the command. *)
LEMMA CommandInvariant == CommandSpec => []CommandIInv
BY CommandFresh, CommandStep, PTL DEF CommandSpec

(* An invalid policy is never applied, the server has a policy while it     *)
(* serves, and the store closes after everything that uses it, for every    *)
(* configuration file, every number of edits and every set of broken        *)
(* versions.                                                                *)
THEOREM CommandServesCorrectly == CommandSpec => []ServerInv
<1>1. CommandIInv => ServerInv
  BY ServerIInvImplies DEF CommandIInv
<1> QED
  BY <1>1, CommandInvariant, PTL

(* attachra setup destroys nothing, whatever call fails and wherever the    *)
(* command is killed, for any number of runs.                               *)
THEOREM SetupDestroysNothing == CommandSpec => []SetupSafe
<1>1. CommandIInv => SetupSafe
  BY SetupIInvImplies DEF CommandIInv
<1> QED
  BY <1>1, CommandInvariant, PTL

(* A configuration config.Load accepts never moves /metrics and /readyz to  *)
(* the public listener unasked, and every constructor accepts it: for every *)
(* file and environment.                                                    *)
THEOREM ConfigAccepted == CommandSpec => []ConfigSound
<1>1. CommandIInv => ConfigSound
  <2> SUFFICES ASSUME CommandIInv, command = "loaded" PROVE ConfigSound
    BY DEF ConfigSound, AdminExplicit, AcceptedStarts
  <2>1. loaded = Load(input.yaml, input.env) /\ loaded.ok
    BY DEF CommandIInv, LoadedFromInput
  <2>2. AdminExplicit
    BY <2>1, FoldAskedFor DEF AdminExplicit
  <2>3. AcceptedStarts
    BY <2>1, LoadValidates, ValidStarts DEF AcceptedStarts
  <2> QED
    BY <2>2, <2>3 DEF ConfigSound
<1> QED
  BY <1>1, CommandInvariant, PTL
=============================================================================
