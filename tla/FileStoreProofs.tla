-------------------------- MODULE FileStoreProofs ---------------------------
(***************************************************************************)
(* Machine-checked proofs about FileStore, for any keys, payloads, callers *)
(* and inodes: the directory tree stays sound, and the driver implements   *)
(* what storage.Driver promises (ObjectStore).                             *)
(***************************************************************************)
EXTENDS FileStore, SequenceTheorems, WellFoundedInduction, TLAPS

-----------------------------------------------------------------------------
(* Keys and paths: a well-formed key is its own path, so two of them never *)
(* name one file.                                                          *)

(* The i-th directory that Joined visits, from those before it. *)
Segment(key, p, i) ==
  IF i = 0 THEN <<>>
  ELSE CASE key[i] \in {"", "."} -> p[i - 1]
         [] key[i] = ".." /\ p[i - 1] # <<>> /\ p[i - 1][Len(p[i - 1])] # ".." ->
              SubSeq(p[i - 1], 1, Len(p[i - 1]) - 1)
         [] OTHER -> Append(p[i - 1], key[i])

(* A well-formed key's segments are taken as they are. *)
LEMMA SegmentLaw ==
  ASSUME NEW key \in Seq(STRING), ValidateKey(key), NEW p, NEW i \in 1..Len(key),
         p[i - 1] = SubSeq(key, 1, i - 1)
  PROVE  Segment(key, p, i) = SubSeq(key, 1, i)
<1>1. i # 0 /\ i \in DOMAIN key
  BY LenProperties
<1>2. key[i] \notin {"", "."} /\ key[i] # ".."
  BY <1>1 DEF ValidateKey
<1>3. Segment(key, p, i) = Append(p[i - 1], key[i])
  BY <1>1, <1>2 DEF Segment
<1>4. Append(SubSeq(key, 1, i - 1), key[i]) = SubSeq(key, 1, i)
  OBVIOUS
<1> QED
  BY <1>3, <1>4

(* filepath.Join leaves a well-formed key as it is. *)
LEMMA PathLaw ==
  ASSUME NEW key \in Seq(STRING), ValidateKey(key)
  PROVE  Joined(key) = key
<1> DEFINE n == Len(key)
           Is(f) == f = [i \in 0..n |-> Segment(key, f, i)]
           F == [i \in 0..n |-> SubSeq(key, 1, i)]
<1>0. n \in Nat
  BY LenProperties
<1>1. Is(F)
  <2>1. ASSUME NEW i \in 0..n PROVE SubSeq(key, 1, i) = Segment(key, F, i)
    <3>1. CASE i = 0
      BY <3>1 DEF Segment
    <3>2. CASE i # 0
      <4>1. i \in 1..n /\ i - 1 \in 0..n
        BY <1>0, <3>2
      <4>2. F[i - 1] = SubSeq(key, 1, i - 1)
        BY <4>1
      <4> HIDE DEF F
      <4> QED
        BY <4>1, <4>2, SegmentLaw
    <3> QED
      BY <3>1, <3>2
  <2> HIDE DEF n
  <2> QED
    BY <2>1
<1>2. ASSUME NEW f, Is(f)
      PROVE  f[n] = key
  <2> DEFINE Bad == {i \in 0..n : f[i] # SubSeq(key, 1, i)}
  <2>1. ASSUME Bad # {} PROVE FALSE
    <3>0. Bad \subseteq Nat
      BY <1>0
    <3> HIDE DEF Bad
    <3>1. PICK i \in Bad : \A j \in Bad : ~(<<j, i>> \in OpToRel(<, Nat))
      BY <2>1, <3>0, NatLessThanWellFounded, WFMin, Zenon
    <3> USE DEF Bad
    <3>2. CASE i = 0
      <4>1. f[0] = Segment(key, f, 0)
        BY <1>0, <1>2
      <4>2. f[0] = <<>> /\ SubSeq(key, 1, 0) = <<>>
        BY <4>1 DEF Segment
      <4> QED
        BY <3>2, <4>2
    <3>3. CASE i # 0
      <4>1. i \in 1..n /\ i - 1 \in 0..n /\ i - 1 \in Nat /\ i \in Nat /\ i - 1 < i
        BY <1>0, <3>3
      <4>2. <<i - 1, i>> \in OpToRel(<, Nat)
        BY <4>1 DEF OpToRel
      <4>3. i - 1 \notin Bad
        BY <3>1, <4>2
      <4>4. f[i - 1] = SubSeq(key, 1, i - 1)
        BY <4>1, <4>3
      <4>5. Segment(key, f, i) = SubSeq(key, 1, i)
        BY <4>1, <4>4, SegmentLaw
      <4>6. f[i] = Segment(key, f, i)
        BY <1>2, <4>1
      <4> QED
        BY <4>5, <4>6
    <3> QED
      BY <3>2, <3>3
  <2>2. n \in 0..n
    BY <1>0
  <2>3. f[n] = SubSeq(key, 1, n)
    BY <2>1, <2>2
  <2> QED
    BY <2>3
<1>3. Is(CHOOSE f : Is(f))
  <2> HIDE DEF Is, F
  <2> QED
    BY <1>1, Zenon
<1>4. (CHOOSE f : Is(f))[n] = key
  <2> HIDE DEF Is
  <2> QED
    BY <1>2, <1>3
<1> QED
  BY <1>4 DEF Joined, Segment

(* resolvePath accepts the well-formed keys, and gives each a path of its own. *)
LEMMA ResolvedLaw ==
  /\ \A k \in Key : Resolved[k].path \in Path
  /\ \A k \in Key : Resolved[k].ok <=> k \in WellFormed
  /\ \A k \in WellFormed : k \in Key /\ Resolved[k].path = k /\ k \in Path
<1>1. ASSUME NEW k \in Key
      PROVE  /\ Resolved[k].ok <=> ValidateKey(k) /\ ~Escapes(Joined(k))
             /\ Resolved[k].path = Joined(k)
  <2> DEFINE b == ValidateKey(k) /\ ~Escapes(Joined(k))
  <2>1. Resolved[k] = [ok |-> b, path |-> Joined(k)]
    BY DEF Resolved, resolvePath
  <2>2. b = TRUE \/ b = FALSE
    OBVIOUS
  <2> HIDE DEF b
  <2>3. Resolved[k].ok = b /\ Resolved[k].path = Joined(k)
    BY <2>1
  <2>4. Resolved[k].ok <=> b
    BY <2>2, <2>3
  <2> USE DEF b
  <2> QED
    BY <2>3, <2>4
<1>2. \A k \in Key : Resolved[k].path \in Path
  BY DEF Path
<1>3. ASSUME NEW k \in WellFormed
      PROVE  k \in Key /\ Joined(k) = k /\ ~Escapes(Joined(k)) /\ ValidateKey(k)
  <2>1. k \in Key /\ ValidateKey(k) /\ k \in Seq(STRING)
    BY FileAssumption DEF WellFormed
  <2>2. Joined(k) = k
    BY <2>1, PathLaw
  <2>3. 1 \in DOMAIN k
    <3>1. k # <<>>
      BY <2>1 DEF ValidateKey
    <3>2. Len(k) # 0
      BY <2>1, <3>1, EmptySeq
    <3>3. Len(k) \in Nat /\ DOMAIN k = 1..Len(k)
      BY <2>1, LenProperties
    <3> QED
      BY <3>2, <3>3
  <2>4. k[1] # ".."
    BY <2>1, <2>3 DEF ValidateKey
  <2> QED
    BY <2>1, <2>2, <2>4 DEF Escapes
<1>4. ASSUME NEW k \in Key PROVE Resolved[k].ok <=> k \in WellFormed
  <2>1. Resolved[k].ok <=> ValidateKey(k) /\ ~Escapes(Joined(k))
    BY <1>1
  <2>2. k \in WellFormed <=> ValidateKey(k)
    BY DEF WellFormed
  <2> QED
    BY <1>3, <2>1, <2>2
<1>5. ASSUME NEW k \in WellFormed PROVE Resolved[k].path = k
  BY <1>1, <1>3
<1> QED
  BY <1>2, <1>3, <1>4, <1>5


-----------------------------------------------------------------------------
(* Payloads that are written, or read, one chunk at a time.                *)

(* s is what has been copied of v so far. *)
StartOf(s, v) == \E n \in 0..Len(v) : s = SubSeq(v, 1, n)

(* Nothing, and everything, is a start of a payload. *)
LEMMA StartEnds ==
  ASSUME NEW v \in Seq(Nat)
  PROVE  StartOf(<<>>, v) /\ StartOf(v, v)
<1>1. Len(v) \in Nat
  BY LenProperties
<1>2. <<>> = SubSeq(v, 1, 0) /\ v = SubSeq(v, 1, Len(v))
  BY SubSeqEmpty, SubSeqFull
<1>3. 0 \in 0..Len(v) /\ Len(v) \in 0..Len(v)
  BY <1>1
<1> QED
  BY <1>2, <1>3 DEF StartOf

(* The next chunk makes a longer start, and the rest completes it. *)
LEMMA StartGrows ==
  ASSUME NEW v \in Seq(Nat), NEW s, StartOf(s, v)
  PROVE  /\ s \in Seq(Nat)
         /\ s # v => StartOf(Append(s, v[Len(s) + 1]), v)
         /\ s \o SubSeq(v, Len(s) + 1, Len(v)) = v
<1>0. PICK n \in 0..Len(v) : s = SubSeq(v, 1, n)
  BY DEF StartOf
<1>1. Len(v) \in Nat /\ n \in Nat /\ n \in Int /\ 1 \in Int
  BY LenProperties
<1>2. \A i \in 1..n : v[i] \in Nat
  <2>1. \A i \in 1..Len(v) : v[i] \in Nat
    BY ElementOfSeq
  <2> QED
    BY <1>1, <2>1
<1>3. s \in Seq(Nat) /\ Len(s) = n
  <2>1. Len(SubSeq(v, 1, n)) = (IF 1 <= n THEN n - 1 + 1 ELSE 0) /\ SubSeq(v, 1, n) \in Seq(Nat)
    BY <1>1, <1>2, SubSeqProperties
  <2> QED
    BY <1>0, <1>1, <2>1
<1>4. ASSUME s # v PROVE StartOf(Append(s, v[Len(s) + 1]), v)
  <2>1. n # Len(v)
    BY <1>0, <1>4, SubSeqFull
  <2>2. n + 1 \in 0..Len(v) /\ n + 1 \in 1..Len(v)
    BY <1>0, <1>1, <2>1
  <2>3. Append(SubSeq(v, 1, n), v[n + 1]) = SubSeq(v, 1, n + 1)
    BY <2>2
  <2> QED
    BY <1>0, <1>3, <2>2, <2>3 DEF StartOf
<1>5. SubSeq(v, 1, n) \o SubSeq(v, n + 1, Len(v)) = v
  <2>1. 1 \in 1..Len(v) + 1 /\ n \in 1 - 1..Len(v) /\ Len(v) \in n..Len(v)
    BY <1>0, <1>1
  <2> QED
    BY <2>1, ConcatAdjacentSubSeq, SubSeqFull
<1> QED
  BY <1>0, <1>3, <1>4, <1>5


-----------------------------------------------------------------------------
(* The inductive invariant.  TreeSound says nothing of what a call in      *)
(* progress knows; it is kept because a Put owns its temporary file alone  *)
(* and has written a start of its source, and because no one writes to a   *)
(* file that is open for reading.                                          *)

PutPc == {"begin", "create", "write", "rename", "discard", "ok", "error"}
LeafPc == {"begin", "leaf", "ok", "notFound", "error"}

CallType ==
  [op : {"none", "put", "get", "delete", "stat"}, key : Seq(STRING), src : Seq(Nat), size : Int,
   pc : {"idle"} \cup PutPc \cup LeafPc, ino : Inode \cup {0}, buf : Seq(Nat)]

(* What a call k holds at each of its steps. *)
Shape(k) ==
  /\ k \in CallType
  /\ k.op = "none" => k = NoCall
  /\ k.op # "none" => k.key \in Key /\ k.src \in Content
  /\ k.op = "put" =>
       /\ k.pc \in PutPc /\ k.buf = <<>>
       /\ k.ino # 0 <=> k.pc \in {"write", "rename", "discard"}
       /\ k.pc \in {"create", "write", "rename"} => Resolved[k.key].ok
  /\ k.op \in {"get", "delete", "stat"} =>
       /\ k.pc \in LeafPc
       /\ k.ino # 0 <=> k.op = "get" /\ k.pc = "ok"
       /\ k.op = "delete" \/ k.pc # "ok" => k.buf = <<>>
       /\ k.pc = "leaf" => Resolved[k.key].ok

(* MkdirAll came first, and nothing removes a directory of ds. *)
Placed(k, ds) == k.op = "put" /\ k.pc \in {"create", "write", "rename"} => Dir(Resolved[k.key].path) \in ds

(* A Put writes to a temporary file of its own, one of ts, with contents f. *)
Writing(k, ts, f) ==
  k.op = "put" /\ k.ino # 0 =>
    /\ k.ino \in ts
    /\ StartOf(f[k.ino], k.src)
    /\ k.pc = "rename" => f[k.ino] = k.src /\ k.size \in {-1, Len(k.src)}

(* A Get reads a file that is complete. *)
Reading(k, ts, f) == k.op = "get" /\ k.ino # 0 => k.ino \notin ts /\ StartOf(k.buf, f[k.ino])

CallOK(k) ==
  Shape(k) /\ Placed(k, dirs) /\ Writing(k, temps \ stranded, data) /\ Reading(k, temps, data)

Calls == DOMAIN call = Caller /\ call = [c \in Caller |-> call[c]] /\ \A c \in Caller : CallOK(call[c])

(* The temporary file of a call, if it has one; nobody else has it. *)
TempOf(k) == IF k.op = "put" THEN k.ino ELSE 0

Owned == \A c, d \in Caller : TempOf(call[c]) # 0 /\ TempOf(call[c]) = call[d].ino => c = d

DataType == data \in [Inode -> Seq(Nat)]

FileIInv == TreeSound /\ DataType /\ Calls /\ Owned

(* The invariant says what it is meant to. *)
LEMMA FileIInvImplies == FileIInv => TreeSound
BY DEF FileIInv

(* TempsAccounted, of temporary files ts, stranded ones ss and calls k. *)
Accounted(ts, ss, k) == ts = (ss \cup {k[c].ino : c \in {d \in Caller : k[d].op = "put"}}) \ {0}

(* A temporary file is one of a Put that runs, or stranded. *)
LEMMA TempsLaw ==
  ASSUME NEW ts, NEW ss, NEW k
  PROVE  Accounted(ts, ss, k) <=>
           \A i : i \in ts <=> i # 0 /\ (i \in ss \/ \E c \in Caller : TempOf(k[c]) = i)
<1> DEFINE owners == {k[c].ino : c \in {d \in Caller : k[d].op = "put"}}
<1>1. \A i : i # 0 => (i \in owners <=> \E c \in Caller : TempOf(k[c]) = i)
  BY DEF TempOf
<1>2. Accounted(ts, ss, k) <=> ts = (ss \cup owners) \ {0}
  BY DEF Accounted
<1> HIDE DEF owners
<1>3. ts = (ss \cup owners) \ {0} <=> \A i : i \in ts <=> i # 0 /\ (i \in ss \/ i \in owners)
  OBVIOUS
<1> QED
  BY <1>1, <1>2, <1>3

(* So it is in every state of the invariant. *)
LEMMA TempsKnown ==
  ASSUME FileIInv
  PROVE  \A i : i \in temps <=> i # 0 /\ (i \in stranded \/ \E c \in Caller : TempOf(call[c]) = i)
<1>1. Accounted(temps, stranded, call)
  BY DEF FileIInv, TreeSound, TempsAccounted, Accounted
<1> QED
  BY <1>1, TempsLaw

(* And so it has to be after a step. *)
LEMMA TempsKept ==
  ASSUME \A i : i \in temps' <=> i # 0 /\ (i \in stranded' \/ \E c \in Caller : TempOf(call'[c]) = i)
  PROVE  TempsAccounted'
<1>1. Accounted(temps', stranded', call')
  BY TempsLaw
<1> QED
  BY <1>1 DEF TempsAccounted, Accounted

(* A step of one call c, after which it is k, that leaves the files of the *)
(* other calls alone and shares none of them.                              *)
LEMMA OneCall ==
  ASSUME FileIInv, NEW c \in Caller, NEW k,
         call' = [call EXCEPT ![c] = k],
         Shape(k), Placed(k, dirs'), Writing(k, temps' \ stranded', data'), Reading(k, temps', data'),
         dirs \subseteq dirs',
         \A d \in Caller \ {c} : call[d].ino # 0 =>
           /\ data'[call[d].ino] = data[call[d].ino]
           /\ call[d].ino \in temps' <=> call[d].ino \in temps
           /\ call[d].ino \in stranded' <=> call[d].ino \in stranded,
         \A d \in Caller \ {c} :
           /\ TempOf(k) # 0 => TempOf(k) # call[d].ino
           /\ TempOf(call[d]) # 0 => TempOf(call[d]) # k.ino
  PROVE  Calls' /\ Owned'
<1>1. /\ DOMAIN call' = Caller /\ call' = [d \in Caller |-> call'[d]]
      /\ call'[c] = k /\ \A d \in Caller \ {c} : call'[d] = call[d]
  BY DEF FileIInv, Calls
<1>2. ASSUME NEW d \in Caller \ {c}
      PROVE  /\ Shape(call[d]) /\ Placed(call[d], dirs')
             /\ Writing(call[d], temps' \ stranded', data') /\ Reading(call[d], temps', data')
  <2>1. /\ Shape(call[d]) /\ Placed(call[d], dirs)
        /\ Writing(call[d], temps \ stranded, data) /\ Reading(call[d], temps, data)
    BY DEF FileIInv, Calls, CallOK
  <2>2. Placed(call[d], dirs')
    BY <2>1 DEF Placed
  <2>3. Writing(call[d], temps' \ stranded', data')
    BY <2>1 DEF Writing
  <2>4. Reading(call[d], temps', data')
    BY <2>1 DEF Reading
  <2> QED
    BY <2>1, <2>2, <2>3, <2>4
<1>3. ASSUME NEW d \in Caller
      PROVE  /\ Shape(call'[d]) /\ Placed(call'[d], dirs')
             /\ Writing(call'[d], temps' \ stranded', data') /\ Reading(call'[d], temps', data')
  BY <1>1, <1>2
<1>4. Calls'
  BY <1>1, <1>3 DEF Calls, CallOK
<1>5. Owned'
  <2>1. SUFFICES ASSUME NEW d \in Caller, NEW e \in Caller,
                        TempOf(call'[d]) # 0, TempOf(call'[d]) = call'[e].ino
                 PROVE  d = e
    BY DEF Owned
  <2>2. CASE d # c /\ e # c
    BY <1>1, <2>1, <2>2 DEF FileIInv, Owned
  <2> QED
    BY <1>1, <2>1, <2>2
<1> QED
  BY <1>4, <1>5


(* A step of one call that changes no file and opens no new temporary one. *)
LEMMA QuietStep ==
  ASSUME FileIInv, NEW c \in Caller, NEW k,
         call' = [call EXCEPT ![c] = k], UNCHANGED <<entry, temps, data, stranded>>,
         dirs \subseteq dirs', dirs' \subseteq {<<>>} \cup UNION {Ancestors(p) : p \in Path},
         Shape(k), Placed(k, dirs'), Writing(k, temps \ stranded, data), Reading(k, temps, data),
         TempOf(k) = TempOf(call[c])
  PROVE  FileIInv'
<1>1. \A d \in Caller : Shape(call[d]) /\ Writing(call[d], temps \ stranded, data) /\ Reading(call[d], temps, data)
  BY DEF FileIInv, Calls, CallOK
<1>2. \A d \in Caller \ {c} :
        /\ TempOf(k) # 0 => TempOf(k) # call[d].ino
        /\ TempOf(call[d]) # 0 => TempOf(call[d]) # k.ino
  <2>1. SUFFICES ASSUME NEW d \in Caller \ {c}, TempOf(call[d]) # 0, TempOf(call[d]) = k.ino PROVE FALSE
    BY DEF FileIInv, Owned
  <2>2. CASE k.op = "put"
    BY <2>1, <2>2 DEF FileIInv, Owned, TempOf
  <2>3. CASE k.op = "get"
    <3>1. call[d].op = "put" /\ call[d].ino # 0 /\ call[d].ino = k.ino
      BY <2>1 DEF TempOf
    <3>2. call[d].ino \in temps
      BY <1>1, <3>1 DEF Writing
    <3> QED
      BY <2>3, <3>1, <3>2 DEF Reading
  <2>4. CASE k.op \notin {"put", "get"}
    <3>1. k.op = "none" => k.ino = 0
      BY DEF Shape, NoCall
    <3>2. k.op \in {"delete", "stat"} => k.ino = 0
      BY DEF Shape
    <3>3. k.op \in {"none", "put", "get", "delete", "stat"}
      BY DEF Shape, CallType
    <3> QED
      BY <2>1, <2>4, <3>1, <3>2, <3>3
  <2> QED
    BY <2>2, <2>3, <2>4
<1>3. Calls' /\ Owned'
  BY <1>2, OneCall
<1>4. /\ call'[c] = k /\ \A d \in Caller \ {c} : call'[d] = call[d]
      /\ \A d \in Caller : TempOf(call'[d]) = TempOf(call[d])
  BY DEF FileIInv, Calls
<1>5. TempsAccounted'
  <2>1. \A i : i \in temps <=> i # 0 /\ (i \in stranded \/ \E d \in Caller : TempOf(call[d]) = i)
    BY TempsKnown
  <2>2. \A i : i \in temps' <=> i # 0 /\ (i \in stranded' \/ \E d \in Caller : TempOf(call'[d]) = i)
    BY <1>4, <2>1
  <2> QED
    BY <2>2, TempsKept
<1>6. TypeOK'
  <2>1. \A d \in Caller : call'[d].ino \in Inode \cup {0}
    BY <1>3 DEF Calls, CallOK, Shape, CallType
  <2> QED
    BY <2>1 DEF FileIInv, TreeSound, TypeOK
<1> QED
  BY <1>3, <1>5, <1>6 DEF FileIInv, TreeSound, DataType

-----------------------------------------------------------------------------
(* The actions that move a call on and touch no file.                      *)

(* A call that goes to another step keeps the rest. *)
LEMMA GotoLaw ==
  ASSUME NEW k \in CallType, NEW pc \in {"idle"} \cup PutPc \cup LeafPc
  PROVE  LET r == [k EXCEPT !.pc = pc] IN
         /\ r \in CallType /\ r.pc = pc
         /\ r.op = k.op /\ r.key = k.key /\ r.src = k.src /\ r.size = k.size /\ r.ino = k.ino /\ r.buf = k.buf
BY DEF CallType

(* What the invariant says of one call. *)
LEMMA CallKnown ==
  ASSUME FileIInv, NEW c \in Caller
  PROVE  /\ call[c] \in CallType /\ Shape(call[c]) /\ Placed(call[c], dirs)
         /\ Writing(call[c], temps \ stranded, data) /\ Reading(call[c], temps, data)
         /\ call[c].pc # "idle" /\ call[c].pc # "begin" => call[c].op # "none"
         /\ dirs \subseteq {<<>>} \cup UNION {Ancestors(p) : p \in Path}
<1>1. Shape(call[c])
  BY DEF FileIInv, Calls, CallOK
<1>2. call[c].op = "none" => call[c].pc = "idle"
  BY <1>1 DEF Shape, NoCall
<1> QED
  BY <1>1, <1>2 DEF FileIInv, Calls, CallOK, Shape, TreeSound, TypeOK

(* The directory of an object is one of those above it. *)
LEMMA DirLaw ==
  ASSUME NEW path \in Seq(STRING), path # <<>>
  PROVE  Dir(path) \in Ancestors(path)
<1>1. Len(path) \in Nat \ {0}
  BY EmptySeq
<1>2. \A n \in Nat \ {0} : n - 1 \in 0..n - 1
  OBVIOUS
<1>3. Len(path) - 1 \in 0..Len(path) - 1
  BY <1>1, <1>2
<1> QED
  BY <1>3 DEF Dir, Ancestors

(* Steps of one call from one place in the code to another. *)
LEMMA GotoStep ==
  ASSUME FileIInv, NEW c \in Caller,
         \/ Reject(c) \/ PutMkdirAll(c) \/ PutCreateTempFails(c) \/ PutClose(c) \/ PutFails(c)
         \/ checkNoSymlink(c) \/ LeafMissing(c) \/ LeafFails(c)
  PROVE  FileIInv'
<1>1. PICK pc \in PutPc \cup LeafPc :
        /\ Goto(c, pc) /\ UNCHANGED <<entry, temps, data, stranded>>
        /\ \/ UNCHANGED dirs /\ pc # "create"
           \/ /\ dirs' = dirs \cup Ancestors(Target(c)) /\ pc = "create"
              /\ call[c].op = "put" /\ Resolved[call[c].key].ok
        /\ \/ call[c].pc = "begin" /\ pc = "error"
           \/ call[c].pc = "begin" /\ call[c].op = "put" /\ pc = "create"
           \/ call[c].op = "put" /\ call[c].pc = "create" /\ pc = "error"
           \/ call[c].op = "put" /\ call[c].pc = "write" /\ pc = "rename" /\ CopiedAsDeclared(c)
           \/ call[c].op = "put" /\ call[c].pc \in {"write", "rename"} /\ pc = "discard"
           \/ call[c].pc = "begin" /\ call[c].op # "put" /\ Resolved[call[c].key].ok /\ pc \in {"leaf", "notFound"}
           \/ call[c].pc = "leaf" /\ pc \in {"notFound", "error"}
  <2>1. CASE Reject(c)
    BY <2>1 DEF Reject, PutPc, LeafPc
  <2>2. CASE PutMkdirAll(c)
    BY <2>2 DEF PutMkdirAll, Accepted, PutPc, LeafPc
  <2>3. CASE PutCreateTempFails(c)
    BY <2>3 DEF PutCreateTempFails, At, PutPc, LeafPc
  <2>4. CASE PutClose(c)
    BY <2>4 DEF PutClose, At, PutPc, LeafPc
  <2>5. CASE PutFails(c)
    BY <2>5 DEF PutFails, PutPc, LeafPc
  <2>6. CASE checkNoSymlink(c)
    BY <2>6 DEF checkNoSymlink, Accepted, PutPc, LeafPc
  <2>7. CASE LeafMissing(c) \/ LeafFails(c)
    BY <2>7 DEF LeafMissing, LeafFails, PutPc, LeafPc
  <2> QED
    BY <2>1, <2>2, <2>3, <2>4, <2>5, <2>6, <2>7
<1>2. /\ call[c] \in CallType /\ Shape(call[c]) /\ Placed(call[c], dirs)
      /\ Writing(call[c], temps \ stranded, data) /\ Reading(call[c], temps, data)
      /\ dirs \subseteq {<<>>} \cup UNION {Ancestors(p) : p \in Path}
  BY CallKnown
<1>3. PICK k : k = [call[c] EXCEPT !.pc = pc]
  OBVIOUS
<1>4. /\ k \in CallType /\ k.pc = pc /\ k.op = call[c].op /\ k.key = call[c].key /\ k.src = call[c].src
      /\ k.size = call[c].size /\ k.ino = call[c].ino /\ k.buf = call[c].buf
  BY <1>2, <1>3, GotoLaw
<1>5. call' = [call EXCEPT ![c] = k]
  BY <1>1, <1>3 DEF Goto, FileIInv, Calls
<1>6. Shape(k)
  BY <1>1, <1>2, <1>4 DEF Shape, PutPc, LeafPc, NoCall
<1>7. Placed(k, dirs')
  <2>1. CASE pc = "create"
    <3>1. Target(c) = Resolved[k.key].path /\ dirs' = dirs \cup Ancestors(Target(c))
      BY <1>1, <1>4, <2>1 DEF Target
    <3>2. Dir(Target(c)) \in Ancestors(Target(c))
      <4>1. Target(c) = call[c].key /\ call[c].key \in WellFormed
        BY <1>1, <1>2, <2>1, ResolvedLaw DEF Target, Shape
      <4>2. call[c].key \in Seq(STRING) /\ call[c].key # <<>>
        BY <4>1, FileAssumption DEF WellFormed, ValidateKey
      <4> QED
        BY <4>1, <4>2, DirLaw
    <3> QED
      BY <3>1, <3>2 DEF Placed
  <2>2. CASE pc # "create"
    BY <1>1, <1>2, <1>4, <2>2 DEF Placed
  <2> QED
    BY <2>1, <2>2
<1>8. Writing(k, temps \ stranded, data)
  BY <1>1, <1>2, <1>4 DEF Writing, CopiedAsDeclared, AtEOF, Written
<1>9. Reading(k, temps, data)
  BY <1>1, <1>2, <1>4 DEF Reading
<1>10. dirs \subseteq dirs' /\ dirs' \subseteq {<<>>} \cup UNION {Ancestors(p) : p \in Path}
  <2>1. Target(c) \in Path \/ UNCHANGED dirs
    BY <1>1, <1>2, ResolvedLaw DEF Target, Shape
  <2> QED
    BY <1>1, <1>2, <2>1
<1>11. TempOf(k) = TempOf(call[c])
  BY <1>4 DEF TempOf
<1> QED
  BY <1>1, <1>5, <1>6, <1>7, <1>8, <1>9, <1>10, <1>11, QuietStep

(* A new call has done nothing yet. *)
LEMMA InvokeStep ==
  ASSUME FileIInv, NEW c \in Caller, NEW op \in {"put", "get", "delete", "stat"},
         NEW k \in Key, NEW v \in Content, NEW n \in Sizes, Invoke(c, op, k, v, n)
  PROVE  FileIInv'
<1>1. PICK r : r = [NoCall EXCEPT !.op = op, !.key = k, !.src = v, !.size = n, !.pc = "begin"]
  OBVIOUS
<1>2. /\ r = [op |-> op, key |-> k, src |-> v, size |-> n, pc |-> "begin", ino |-> 0, buf |-> <<>>]
  BY <1>1 DEF NoCall
<1>3. k \in Seq(STRING) /\ v \in Seq(Nat) /\ <<>> \in Seq(Nat)
  BY FileAssumption, EmptySeq
<1>4. n \in Int
  <2>1. \A w \in Content : Len(w) \in Nat
    BY FileAssumption, LenProperties
  <2> QED
    BY <2>1 DEF Sizes
<1>5. r \in CallType
  BY <1>2, <1>3, <1>4 DEF CallType, PutPc, LeafPc
<1>6. Shape(r)
  BY <1>2, <1>5 DEF Shape, PutPc, LeafPc
<1>7. Placed(r, dirs) /\ Writing(r, temps \ stranded, data) /\ Reading(r, temps, data) /\ TempOf(r) = 0
  BY <1>2 DEF Placed, Writing, Reading, TempOf
<1>8. TempOf(call[c]) = 0 /\ call' = [call EXCEPT ![c] = r] /\ UNCHANGED <<dirs, entry, temps, data, stranded>>
  BY <1>1 DEF Invoke, TempOf, NoCall
<1>9. dirs \subseteq {<<>>} \cup UNION {Ancestors(p) : p \in Path}
  BY CallKnown
<1> QED
  BY <1>6, <1>7, <1>8, <1>9, QuietStep

(* Opening a stream, reading a chunk from it, and asking for a size. *)
LEMMA ReadStep ==
  ASSUME FileIInv, NEW c \in Caller, GetOpen(c) \/ Read(c) \/ StatFile(c)
  PROVE  FileIInv'
<1>1. /\ call[c] \in CallType /\ Shape(call[c]) /\ Placed(call[c], dirs)
      /\ Writing(call[c], temps \ stranded, data) /\ Reading(call[c], temps, data)
      /\ dirs \subseteq {<<>>} \cup UNION {Ancestors(p) : p \in Path}
  BY CallKnown
<1>2. call[c].op \in {"get", "stat"} /\ call[c].key \in Key /\ Target(c) \in Path
  <2>1. call[c].op \in {"get", "stat"}
    BY DEF GetOpen, Read, StatFile, At
  <2> QED
    BY <1>1, <2>1, ResolvedLaw DEF Shape, Target
<1>3. UNCHANGED <<dirs, entry, temps, data, stranded>>
  BY DEF GetOpen, Read, StatFile
<1>4. entry[Target(c)] # 0 => entry[Target(c)] \in Inode /\ entry[Target(c)] \notin temps
  BY <1>2 DEF FileIInv, TreeSound, TypeOK
<1>5. \A i \in Inode : i # 0 /\ data[i] \in Seq(Nat) /\ Len(data[i]) \in Nat
  BY FileAssumption, LenProperties DEF FileIInv, DataType
<1>6. ASSUME NEW k \in CallType, call' = [call EXCEPT ![c] = k],
             k.op = call[c].op, k.key = call[c].key, k.src = call[c].src, k.pc = "ok",
             k.op = "get" => k.ino # 0 /\ k.ino \notin temps /\ StartOf(k.buf, data[k.ino]),
             k.op = "stat" => k.ino = 0
      PROVE  FileIInv'
  <2>1. Shape(k)
    BY <1>1, <1>2, <1>6 DEF Shape, PutPc, LeafPc
  <2>2. Placed(k, dirs) /\ Writing(k, temps \ stranded, data)
    BY <1>2, <1>6 DEF Placed, Writing
  <2>3. Reading(k, temps, data)
    BY <1>6 DEF Reading
  <2>4. TempOf(k) = TempOf(call[c])
    BY <1>2, <1>6 DEF TempOf
  <2> QED
    BY <1>1, <1>3, <1>6, <2>1, <2>2, <2>3, <2>4, QuietStep
<1>7. CASE GetOpen(c)
  <2>1. PICK k : k = [call[c] EXCEPT !.pc = "ok", !.ino = entry[Target(c)]]
    OBVIOUS
  <2>2. call[c].op = "get" /\ call[c].pc = "leaf" /\ entry[Target(c)] # 0
    BY <1>7 DEF GetOpen, At, Exists
  <2>3. call[c].buf = <<>>
    BY <1>1, <2>2 DEF Shape
  <2>4. call' = [call EXCEPT ![c] = k]
    BY <1>7, <2>1 DEF GetOpen, FileIInv, Calls
  <2>5. /\ k \in CallType /\ k.op = call[c].op /\ k.key = call[c].key /\ k.src = call[c].src
        /\ k.pc = "ok" /\ k.ino = entry[Target(c)] /\ k.buf = call[c].buf
    BY <1>1, <1>4, <2>1, <2>2 DEF CallType, PutPc, LeafPc
  <2>6. StartOf(k.buf, data[k.ino])
    BY <1>4, <1>5, <2>2, <2>3, <2>5, StartEnds
  <2> QED
    BY <1>4, <1>6, <2>2, <2>4, <2>5, <2>6
<1>8. CASE Read(c)
  <2>1. PICK k : k = [call[c] EXCEPT !.buf = Append(@, Written(c)[Len(@) + 1])]
    OBVIOUS
  <2>2. call[c].op = "get" /\ call[c].pc = "ok" /\ call[c].buf # data[call[c].ino]
    BY <1>8 DEF Read, At, Written
  <2>3. call[c].ino # 0 /\ call[c].ino \in Inode /\ call[c].ino \notin temps
    BY <1>1, <2>2 DEF Shape, CallType, Reading
  <2>4. /\ data[call[c].ino] \in Seq(Nat)
        /\ StartOf(Append(call[c].buf, data[call[c].ino][Len(call[c].buf) + 1]), data[call[c].ino])
    BY <1>1, <1>5, <2>2, <2>3, StartGrows DEF Reading
  <2>5. Append(call[c].buf, data[call[c].ino][Len(call[c].buf) + 1]) \in Seq(Nat)
    BY <2>4, StartGrows
  <2>6. call' = [call EXCEPT ![c] = k]
    BY <1>8, <2>1 DEF Read, FileIInv, Calls
  <2>7. /\ k \in CallType /\ k.op = call[c].op /\ k.key = call[c].key /\ k.src = call[c].src
        /\ k.pc = "ok" /\ k.ino = call[c].ino
        /\ k.buf = Append(call[c].buf, data[call[c].ino][Len(call[c].buf) + 1])
    BY <1>1, <2>1, <2>2, <2>5 DEF CallType, Written
  <2> QED
    BY <1>6, <2>2, <2>3, <2>4, <2>6, <2>7
<1>9. CASE StatFile(c)
  <2>1. PICK k : k = [call[c] EXCEPT !.pc = "ok", !.buf = <<Len(data[entry[Target(c)]])>>]
    OBVIOUS
  <2>2. call[c].op = "stat" /\ call[c].pc = "leaf" /\ entry[Target(c)] # 0
    BY <1>9 DEF StatFile, At, Exists
  <2>3. <<Len(data[entry[Target(c)]])>> \in Seq(Nat)
    BY <1>4, <1>5, <2>2
  <2>4. call' = [call EXCEPT ![c] = k]
    BY <1>9, <2>1 DEF StatFile, FileIInv, Calls
  <2>5. /\ k \in CallType /\ k.op = call[c].op /\ k.key = call[c].key /\ k.src = call[c].src
        /\ k.pc = "ok" /\ k.ino = call[c].ino
    BY <1>1, <2>1, <2>3 DEF CallType, PutPc, LeafPc
  <2>6. call[c].ino = 0
    BY <1>1, <2>2 DEF Shape
  <2> QED
    BY <1>6, <2>2, <2>4, <2>5, <2>6
<1> QED
  BY <1>7, <1>8, <1>9

-----------------------------------------------------------------------------
(* The actions that create, fill, rename and remove files.                 *)

(* CreateTemp takes an inode that no name and no stream stands for. *)
LEMMA FreeLaw ==
  ASSUME Free # {}
  PROVE  /\ Min(Free) \in Inode \ {0} /\ Min(Free) \notin temps
         /\ \A c \in Caller : call[c].ino # Min(Free)
         /\ \A p \in DOMAIN entry : entry[p] # Min(Free)
<1>1. Free \subseteq Nat /\ Free \subseteq Inode \ {0}
  BY FileAssumption DEF Free
<1>2. PICK x \in Free : \A y \in Free : ~(<<y, x>> \in OpToRel(<, Nat))
  BY <1>1, NatLessThanWellFounded, WFMin, Zenon
<1>3. \A y \in Free : x <= y
  <2>1. TAKE y \in Free
  <2>2. ~(<<y, x>> \in OpToRel(<, Nat))
    BY <1>2
  <2>3. x \in Nat /\ y \in Nat
    BY <1>1
  <2>4. ~(y < x)
    BY <2>2, <2>3 DEF OpToRel
  <2> QED
    BY <2>3, <2>4
<1>4. Min(Free) \in Free
  BY <1>3 DEF Min
<1> QED
  BY <1>1, <1>4 DEF Free, Live, Open, Range

(* Reclaiming empties inodes without a name or a stream, and no others. *)
LEMMA ReclaimLaw ==
  ASSUME FileIInv, Reclaim
  PROVE  /\ data' \in [Inode -> Seq(Nat)]
         /\ \A i \in Inode : \E v \in Content : StartOf(data'[i], v)
         /\ \A i \in Inode : i \in temps' => data'[i] = data[i]
         /\ \A p \in DOMAIN entry' : entry'[p] \in Inode => data'[entry'[p]] = data[entry'[p]]
         /\ \A c \in Caller : call'[c].ino \in Inode => data'[call'[c].ino] = data[call'[c].ino]
<1>1. PICK w \in Content : w \in Seq(Nat)
  BY FileAssumption
<1>2. StartOf(<<>>, w) /\ <<>> \in Seq(Nat)
  BY <1>1, StartEnds, EmptySeq
<1>3. data \in [Inode -> Seq(Nat)] /\ \A i \in Inode : \E v \in Content : StartOf(data[i], v)
  BY DEF FileIInv, DataType, TreeSound, TypeOK, StartOf
<1>4. data' = [i \in Inode |-> IF i \in Live' THEN data[i] ELSE <<>>]
  BY DEF Reclaim
<1>5. data' \in [Inode -> Seq(Nat)] /\ \A i \in Inode : data'[i] = data[i] \/ data'[i] = <<>>
  BY <1>2, <1>3, <1>4
<1>6. \A i \in Inode : i \in Live' => data'[i] = data[i]
  BY <1>4
<1>7. ASSUME NEW i \in Inode PROVE \E v \in Content : StartOf(data'[i], v)
  BY <1>1, <1>2, <1>3, <1>5
<1>8. /\ \A i \in temps' : i \in Live'
      /\ \A p \in DOMAIN entry' : entry'[p] \in Live'
      /\ \A c \in Caller : call'[c].ino \in Live'
  BY DEF Live, Open, Range
<1> QED
  BY <1>5, <1>6, <1>7, <1>8

(* The tree after a step, part by part. *)
LEMMA FileStep ==
  ASSUME FileIInv, NEW c \in Caller, NEW k,
         call' = [call EXCEPT ![c] = k], UNCHANGED dirs,
         Shape(k), Placed(k, dirs), Writing(k, temps' \ stranded', data'), Reading(k, temps', data'),
         data' \in [Inode -> Seq(Nat)], \A i \in Inode : \E v \in Content : StartOf(data'[i], v),
         temps' \subseteq Inode, stranded' \subseteq temps',
         \A i : i \in temps' <=> i # 0 /\ (i \in stranded' \/ \E d \in Caller : TempOf(call'[d]) = i),
         entry' \in [Path -> Inode \cup {0}],
         \A p \in Path : entry'[p] # 0 => Dir(p) \in dirs /\ entry'[p] \notin temps',
         \A p, q \in Path : entry'[p] = entry'[q] /\ entry'[p] # 0 => p = q,
         \A d \in Caller \ {c} : call[d].ino # 0 =>
           /\ data'[call[d].ino] = data[call[d].ino]
           /\ call[d].ino \in temps' <=> call[d].ino \in temps
           /\ call[d].ino \in stranded' <=> call[d].ino \in stranded,
         \A d \in Caller \ {c} :
           /\ TempOf(k) # 0 => TempOf(k) # call[d].ino
           /\ TempOf(call[d]) # 0 => TempOf(call[d]) # k.ino
  PROVE  FileIInv'
<1>1. Placed(k, dirs') /\ dirs \subseteq dirs'
  BY DEF Placed
<1>2. Calls' /\ Owned'
  BY <1>1, OneCall
<1>3. TempsAccounted'
  BY TempsKept
<1>4. TypeOK'
  <2>1. \A d \in Caller : call'[d].ino \in Inode \cup {0}
    BY <1>2 DEF Calls, CallOK, Shape, CallType
  <2>2. dirs' \subseteq {<<>>} \cup UNION {Ancestors(p) : p \in Path}
    BY CallKnown
  <2>3. \A i \in Inode : \E v \in Content : \E n \in 0..Len(v) : data'[i] = SubSeq(v, 1, n)
    BY DEF StartOf
  <2>4. \A p \in Path : entry'[p] # 0 => Dir(p) \in dirs' /\ entry'[p] \notin temps'
    OBVIOUS
  <2> QED
    BY <2>1, <2>2, <2>3, <2>4 DEF TypeOK
<1> QED
  BY <1>2, <1>3, <1>4 DEF FileIInv, TreeSound, DataType

(* What the invariant says of the tree. *)
LEMMA TreeKnown ==
  ASSUME FileIInv
  PROVE  /\ data \in [Inode -> Seq(Nat)] /\ \A i \in Inode : \E v \in Content : StartOf(data[i], v)
         /\ temps \subseteq Inode /\ stranded \subseteq temps /\ 0 \notin Inode
         /\ \A i : i \in temps <=> i # 0 /\ (i \in stranded \/ \E c \in Caller : TempOf(call[c]) = i)
         /\ entry \in [Path -> Inode \cup {0}]
         /\ \A p \in Path : entry[p] # 0 => Dir(p) \in dirs /\ entry[p] \notin temps
         /\ \A p, q \in Path : entry[p] = entry[q] /\ entry[p] # 0 => p = q
         /\ \A c \in Caller : call[c].ino \in Inode \cup {0}
         /\ \A c, d \in Caller : TempOf(call[c]) # 0 /\ TempOf(call[c]) = call[d].ino => c = d
         /\ DOMAIN call = Caller
BY FileAssumption, TempsKnown DEF FileIInv, TreeSound, TypeOK, DataType, StartOf, Owned, Calls

(* os.CreateTemp *)
LEMMA CreateTempStep ==
  ASSUME FileIInv, NEW c \in Caller, PutCreateTemp(c)
  PROVE  FileIInv'
<1>1. PICK i : i = Min(Free)
  OBVIOUS
<1>2. PICK k : k = [call[c] EXCEPT !.pc = "write", !.ino = i]
  OBVIOUS
<1>3. /\ call[c].op = "put" /\ call[c].pc = "create" /\ UNCHANGED <<dirs, entry, stranded>>
      /\ temps' = temps \cup {i} /\ data' = [data EXCEPT ![i] = <<>>]
      /\ call' = [call EXCEPT ![c] = k]
  BY <1>1, <1>2 DEF PutCreateTemp, At, FileIInv, Calls
<1>4. /\ i \in Inode /\ i # 0 /\ i \notin temps /\ \A d \in Caller : call[d].ino # i
      /\ \A p \in Path : entry[p] # i
  <2>1. Free # {} /\ DOMAIN entry = Path
    BY TreeKnown DEF PutCreateTemp
  <2> QED
    BY <1>1, <2>1, FreeLaw
<1>5. call[c] \in CallType /\ Shape(call[c]) /\ Placed(call[c], dirs)
  BY CallKnown
<1>6. /\ k \in CallType /\ k.op = "put" /\ k.pc = "write" /\ k.ino = i
      /\ k.key = call[c].key /\ k.src = call[c].src /\ k.buf = call[c].buf
  BY <1>2, <1>3, <1>4, <1>5 DEF CallType, PutPc, LeafPc
<1>7. Shape(k)
  BY <1>3, <1>4, <1>5, <1>6 DEF Shape, PutPc
<1>8. Placed(k, dirs)
  BY <1>3, <1>5, <1>6 DEF Placed
<1>9. k.src \in Content /\ k.src \in Seq(Nat) /\ StartOf(<<>>, k.src) /\ <<>> \in Seq(Nat)
  BY <1>3, <1>5, <1>6, FileAssumption, StartEnds, EmptySeq DEF Shape
<1>10. /\ data' \in [Inode -> Seq(Nat)] /\ data'[i] = <<>> /\ \A j \in Inode \ {i} : data'[j] = data[j]
       /\ \A j \in Inode : \E v \in Content : StartOf(data'[j], v)
  BY <1>3, <1>4, <1>9, TreeKnown
<1>11. Writing(k, temps' \ stranded', data') /\ Reading(k, temps', data')
  BY <1>3, <1>4, <1>6, <1>9, <1>10, TreeKnown DEF Writing, Reading
<1>12. call'[c] = k /\ \A d \in Caller \ {c} : call'[d] = call[d]
  BY <1>3, TreeKnown
<1>13. \A j : j \in temps' <=> j # 0 /\ (j \in stranded' \/ \E d \in Caller : TempOf(call'[d]) = j)
  <2>1. TempOf(call[c]) = 0 /\ TempOf(call'[c]) = i
    BY <1>3, <1>5, <1>6, <1>12 DEF TempOf, Shape
  <2> QED
    BY <1>3, <1>4, <1>12, <2>1, TreeKnown
<1>14. \A d \in Caller \ {c} : call[d].ino # 0 =>
         /\ data'[call[d].ino] = data[call[d].ino]
         /\ call[d].ino \in temps' <=> call[d].ino \in temps
         /\ call[d].ino \in stranded' <=> call[d].ino \in stranded
  BY <1>3, <1>4, <1>10, TreeKnown
<1>15. \A d \in Caller \ {c} :
         /\ TempOf(k) # 0 => TempOf(k) # call[d].ino
         /\ TempOf(call[d]) # 0 => TempOf(call[d]) # k.ino
  BY <1>4, <1>6 DEF TempOf
<1>16. /\ temps' \subseteq Inode /\ stranded' \subseteq temps' /\ entry' \in [Path -> Inode \cup {0}]
       /\ \A p \in Path : entry'[p] # 0 => Dir(p) \in dirs /\ entry'[p] \notin temps'
       /\ \A p, q \in Path : entry'[p] = entry'[q] /\ entry'[p] # 0 => p = q
  BY <1>3, <1>4, TreeKnown
<1> QED
  BY <1>3, <1>7, <1>8, <1>10, <1>11, <1>13, <1>14, <1>15, <1>16, FileStep

(* One chunk of the copy. *)
LEMMA WriteStep ==
  ASSUME FileIInv, NEW c \in Caller, PutWrite(c)
  PROVE  FileIInv'
<1>1. PICK k : k = call[c]
  OBVIOUS
<1>2. PICK i : i = k.ino
  OBVIOUS
<1>3. /\ k.op = "put" /\ k.pc = "write" /\ data[i] # k.src
      /\ UNCHANGED <<dirs, entry, temps, call, stranded>>
      /\ data' = [data EXCEPT ![i] = Append(@, k.src[Len(@) + 1])]
  BY <1>1, <1>2 DEF PutWrite, At, AtEOF, Written
<1>4. /\ k \in CallType /\ Shape(k) /\ Placed(k, dirs)
      /\ Writing(k, temps \ stranded, data) /\ Reading(k, temps, data)
  BY <1>1, CallKnown
<1>5. i \in Inode /\ i # 0 /\ i \in temps /\ i \notin stranded /\ StartOf(data[i], k.src)
  BY <1>2, <1>3, <1>4, TreeKnown DEF Shape, Writing
<1>6. k.src \in Content /\ k.src \in Seq(Nat)
  BY <1>3, <1>4, FileAssumption DEF Shape
<1> DEFINE s == Append(data[i], k.src[Len(data[i]) + 1])
<1>8. StartOf(s, k.src) /\ s \in Seq(Nat)
  <2>1. StartOf(s, k.src)
    BY <1>3, <1>5, <1>6, StartGrows
  <2> QED
    BY <1>6, <2>1, StartGrows
<1>9. data' = [data EXCEPT ![i] = s]
  BY <1>3
<1> HIDE DEF s
<1>10. /\ data' \in [Inode -> Seq(Nat)] /\ data'[i] = s /\ \A j \in Inode \ {i} : data'[j] = data[j]
       /\ \A j \in Inode : \E v \in Content : StartOf(data'[j], v)
  BY SMTT(30), <1>5, <1>6, <1>8, <1>9, TreeKnown
<1>11. Writing(k, temps' \ stranded', data') /\ Reading(k, temps', data')
  BY <1>2, <1>3, <1>5, <1>8, <1>10 DEF Writing, Reading
<1>12. call' = [call EXCEPT ![c] = k]
  BY <1>1, <1>3 DEF FileIInv, Calls
<1>13. \A d \in Caller \ {c} :
         /\ TempOf(k) # 0 => TempOf(k) # call[d].ino
         /\ TempOf(call[d]) # 0 => TempOf(call[d]) # k.ino
  BY <1>1, TreeKnown
<1>14. \A d \in Caller \ {c} : call[d].ino # i
  BY <1>2, <1>3, <1>5, <1>13 DEF TempOf
<1>15. \A d \in Caller \ {c} : call[d].ino # 0 =>
         /\ data'[call[d].ino] = data[call[d].ino]
         /\ call[d].ino \in temps' <=> call[d].ino \in temps
         /\ call[d].ino \in stranded' <=> call[d].ino \in stranded
  BY <1>3, <1>10, <1>14, TreeKnown
<1>16. /\ temps' \subseteq Inode /\ stranded' \subseteq temps' /\ entry' \in [Path -> Inode \cup {0}]
       /\ \A p \in Path : entry'[p] # 0 => Dir(p) \in dirs /\ entry'[p] \notin temps'
       /\ \A p, q \in Path : entry'[p] = entry'[q] /\ entry'[p] # 0 => p = q
       /\ \A j : j \in temps' <=> j # 0 /\ (j \in stranded' \/ \E d \in Caller : TempOf(call'[d]) = j)
  BY <1>3, TreeKnown
<1> QED
  BY <1>3, <1>4, <1>10, <1>11, <1>12, <1>13, <1>15, <1>16, FileStep

(* The end of a Put that had a temporary file: removed, left or renamed. *)
LEMMA PutEndStep ==
  ASSUME FileIInv, NEW c \in Caller,
         PutRename(c) \/ \E removed \in BOOLEAN : PutDiscard(c, removed)
  PROVE  FileIInv'
<1>1. PICK i : i = call[c].ino
  OBVIOUS
<1>2. /\ call[c].op = "put" /\ call[c].pc \in {"discard", "rename"}
      /\ UNCHANGED dirs /\ Reclaim
  BY DEF PutRename, PutDiscard, At
<1>3. /\ call[c] \in CallType /\ Shape(call[c]) /\ Placed(call[c], dirs)
      /\ Writing(call[c], temps \ stranded, data)
  BY CallKnown
<1>4. i \in Inode /\ i # 0 /\ i \in temps /\ i \notin stranded
  BY <1>1, <1>2, <1>3, TreeKnown DEF Shape, Writing
<1>5. \A d \in Caller \ {c} : call[d].ino # i /\ TempOf(call[d]) # i
  <2>1. TempOf(call[c]) = i
    BY <1>1, <1>2 DEF TempOf
  <2> QED
    BY <1>4, <2>1, TreeKnown DEF TempOf
<1>6. PICK k : k \in {[call[c] EXCEPT !.pc = "ok", !.ino = 0], [call[c] EXCEPT !.pc = "error", !.ino = 0]}
               /\ call' = [call EXCEPT ![c] = k]
  <2>1. CASE PutRename(c)
    BY <2>1 DEF PutRename, FileIInv, Calls
  <2>2. CASE \E removed \in BOOLEAN : PutDiscard(c, removed)
    BY <2>2 DEF PutDiscard, FileIInv, Calls
  <2> QED
    BY <2>1, <2>2
<1>7. /\ k \in CallType /\ k.op = "put" /\ k.pc \in {"ok", "error"} /\ k.ino = 0
      /\ k.key = call[c].key /\ k.src = call[c].src /\ k.buf = call[c].buf
  BY <1>2, <1>3, <1>6 DEF CallType, PutPc, LeafPc
<1>8. Shape(k) /\ Placed(k, dirs)
  BY <1>2, <1>3, <1>7 DEF Shape, PutPc, Placed
<1>9. Writing(k, temps' \ stranded', data') /\ Reading(k, temps', data') /\ TempOf(k) = 0
  BY <1>7 DEF Writing, Reading, TempOf
<1>10. call'[c] = k /\ \A d \in Caller \ {c} : call'[d] = call[d]
  BY <1>6, TreeKnown
<1>11. \/ UNCHANGED <<entry, stranded>> /\ temps' = temps \ {i}
       \/ UNCHANGED <<entry, temps>> /\ stranded' = stranded \cup {i}
       \/ /\ UNCHANGED stranded /\ temps' = temps \ {i} /\ call[c].pc = "rename"
          /\ entry' = [entry EXCEPT ![Target(c)] = i]
  BY <1>1 DEF PutRename, PutDiscard, At
<1>12. \A j : j \in temps' <=> j # 0 /\ (j \in stranded' \/ \E d \in Caller : TempOf(call'[d]) = j)
  <2>1. \A j : (\E d \in Caller : TempOf(call'[d]) = j) /\ j # 0 <=> (\E d \in Caller \ {c} : TempOf(call[d]) = j) /\ j # 0
    BY <1>9, <1>10
  <2>2. \A j : j \in temps <=> j # 0 /\ (j \in stranded \/ j = i \/ \E d \in Caller \ {c} : TempOf(call[d]) = j)
    BY <1>1, <1>2, <1>4, TreeKnown DEF TempOf
  <2>3. CASE temps' = temps \ {i} /\ stranded' = stranded
    BY <1>4, <1>5, <2>1, <2>2, <2>3
  <2>4. CASE temps' = temps /\ stranded' = stranded \cup {i}
    BY <1>4, <2>1, <2>2, <2>4
  <2> QED
    BY <1>11, <2>3, <2>4
<1>13. temps' \subseteq Inode /\ stranded' \subseteq temps'
  BY <1>4, <1>11, TreeKnown
<1>14. /\ data' \in [Inode -> Seq(Nat)] /\ \A j \in Inode : \E v \in Content : StartOf(data'[j], v)
       /\ \A d \in Caller : call'[d].ino \in Inode => data'[call'[d].ino] = data[call'[d].ino]
  BY <1>2, ReclaimLaw
<1>15. \A d \in Caller \ {c} : call[d].ino # 0 =>
         /\ data'[call[d].ino] = data[call[d].ino]
         /\ call[d].ino \in temps' <=> call[d].ino \in temps
         /\ call[d].ino \in stranded' <=> call[d].ino \in stranded
  <2>1. SUFFICES ASSUME NEW d \in Caller \ {c}, call[d].ino # 0
                 PROVE  /\ data'[call[d].ino] = data[call[d].ino]
                        /\ call[d].ino \in temps' <=> call[d].ino \in temps
                        /\ call[d].ino \in stranded' <=> call[d].ino \in stranded
    OBVIOUS
  <2>2. call[d].ino \in Inode /\ call'[d] = call[d] /\ call[d].ino # i
    BY <1>5, <1>10, <2>1, TreeKnown
  <2>3. data'[call[d].ino] = data[call[d].ino]
    BY <1>14, <2>2
  <2>4. call[d].ino \in temps' <=> call[d].ino \in temps
    BY <1>11, <2>2
  <2>5. call[d].ino \in stranded' <=> call[d].ino \in stranded
    BY <1>11, <2>2
  <2> QED
    BY <2>3, <2>4, <2>5
<1>16. \A d \in Caller \ {c} :
         /\ TempOf(k) # 0 => TempOf(k) # call[d].ino
         /\ TempOf(call[d]) # 0 => TempOf(call[d]) # k.ino
  BY <1>7, <1>9
<1>17. /\ entry' \in [Path -> Inode \cup {0}]
       /\ \A p \in Path : entry'[p] # 0 => Dir(p) \in dirs /\ entry'[p] \notin temps'
       /\ \A p, q \in Path : entry'[p] = entry'[q] /\ entry'[p] # 0 => p = q
  <2>1. CASE UNCHANGED entry /\ temps' \subseteq temps
    BY <2>1, TreeKnown
  <2>2. CASE call[c].pc = "rename" /\ temps' = temps \ {i} /\ entry' = [entry EXCEPT ![Target(c)] = i]
    <3>1. Target(c) \in Path /\ Dir(Target(c)) \in dirs
      BY <1>2, <1>3, <2>2, ResolvedLaw DEF Shape, Target, Placed
    <3>2. \A p \in Path : entry[p] # i
      BY <1>4, TreeKnown
    <3>3. entry' \in [Path -> Inode \cup {0}] /\ entry'[Target(c)] = i /\ \A p \in Path \ {Target(c)} : entry'[p] = entry[p]
      BY <1>4, <2>2, <3>1, TreeKnown
    <3>4. \A p \in Path : entry'[p] # 0 => Dir(p) \in dirs /\ entry'[p] \notin temps'
      BY <2>2, <3>1, <3>3, TreeKnown
    <3>5. \A p, q \in Path : entry'[p] = entry'[q] /\ entry'[p] # 0 => p = q
      BY <3>2, <3>3, TreeKnown
    <3> QED
      BY <3>3, <3>4, <3>5
  <2> QED
    BY <1>11, <2>1, <2>2
<1> QED
  BY <1>2, <1>6, <1>8, <1>9, <1>12, <1>13, <1>14, <1>15, <1>16, <1>17, FileStep

(* os.Remove of an object, and the end of a call, which closes its stream. *)
LEMMA ReleaseStep ==
  ASSUME FileIInv, NEW c \in Caller, DeleteRemove(c) \/ Return(c)
  PROVE  FileIInv'
<1>1. /\ call[c] \in CallType /\ Shape(call[c])
  BY CallKnown
<1>2. UNCHANGED <<dirs, temps, stranded>> /\ Reclaim /\ TempOf(call[c]) = 0
  <2>1. CASE DeleteRemove(c)
    BY <2>1 DEF DeleteRemove, At, TempOf
  <2>2. CASE Return(c)
    BY <1>1, <2>2 DEF Return, Result, Shape, TempOf
  <2> QED
    BY <2>1, <2>2
<1>3. PICK k : /\ call' = [call EXCEPT ![c] = k] /\ Shape(k) /\ k.op \in {"none", "delete"}
  <2>1. CASE DeleteRemove(c)
    <3>1. PICK k : k = [call[c] EXCEPT !.pc = "ok"]
      OBVIOUS
    <3>2. call[c].op = "delete" /\ call[c].pc = "leaf" /\ call' = [call EXCEPT ![c] = k]
      BY <2>1, <3>1 DEF DeleteRemove, At, Goto, FileIInv, Calls
    <3>3. /\ k \in CallType /\ k.pc = "ok" /\ k.op = "delete" /\ k.key = call[c].key /\ k.src = call[c].src
          /\ k.ino = call[c].ino /\ k.buf = call[c].buf
      BY <1>1, <3>1, <3>2, GotoLaw DEF PutPc
    <3>4. Shape(k)
      BY <1>1, <3>2, <3>3 DEF Shape, LeafPc
    <3> QED
      BY <3>2, <3>3, <3>4
  <2>2. CASE Return(c)
    <3>1. NoCall \in CallType
      BY EmptySeq DEF CallType, NoCall, PutPc, LeafPc
    <3>2. NoCall.op = "none"
      BY DEF NoCall
    <3>3. Shape(NoCall)
      BY <3>1, <3>2 DEF Shape
    <3>4. call' = [call EXCEPT ![c] = NoCall]
      BY <2>2 DEF Return
    <3> QED
      BY <3>2, <3>3, <3>4
  <2> QED
    BY <2>1, <2>2
<1>4. k.ino = 0 /\ TempOf(k) = 0
  BY <1>3 DEF Shape, NoCall, TempOf
<1>5. Placed(k, dirs) /\ Writing(k, temps' \ stranded', data') /\ Reading(k, temps', data')
  BY <1>3 DEF Placed, Writing, Reading
<1>6. call'[c] = k /\ \A d \in Caller \ {c} : call'[d] = call[d]
  BY <1>3, TreeKnown
<1>7. /\ data' \in [Inode -> Seq(Nat)] /\ \A j \in Inode : \E v \in Content : StartOf(data'[j], v)
      /\ \A d \in Caller : call'[d].ino \in Inode => data'[call'[d].ino] = data[call'[d].ino]
  BY <1>2, ReclaimLaw
<1>8. \A d \in Caller \ {c} : call[d].ino # 0 =>
        /\ data'[call[d].ino] = data[call[d].ino]
        /\ call[d].ino \in temps' <=> call[d].ino \in temps
        /\ call[d].ino \in stranded' <=> call[d].ino \in stranded
  BY <1>2, <1>6, <1>7, TreeKnown
<1>9. \A d \in Caller \ {c} :
        /\ TempOf(k) # 0 => TempOf(k) # call[d].ino
        /\ TempOf(call[d]) # 0 => TempOf(call[d]) # k.ino
  BY <1>4
<1>10. temps' \subseteq Inode /\ stranded' \subseteq temps'
  BY <1>2, TreeKnown
<1>11. \A j : j \in temps' <=> j # 0 /\ (j \in stranded' \/ \E d \in Caller : TempOf(call'[d]) = j)
  <2>1. \A d \in Caller : TempOf(call'[d]) = TempOf(call[d])
    BY <1>2, <1>4, <1>6
  <2> QED
    BY <1>2, <2>1, TreeKnown
<1>12. \/ UNCHANGED entry
       \/ entry' = [entry EXCEPT ![Target(c)] = 0]
  BY DEF DeleteRemove, Return
<1>13. /\ entry' \in [Path -> Inode \cup {0}]
       /\ \A p \in Path : entry'[p] # 0 => entry'[p] = entry[p]
  BY <1>12, TreeKnown
<1>14. \A p \in Path : entry'[p] # 0 => Dir(p) \in dirs /\ entry'[p] \notin temps'
  BY <1>2, <1>13, TreeKnown
<1>15. \A p, q \in Path : entry'[p] = entry'[q] /\ entry'[p] # 0 => p = q
  BY <1>13, TreeKnown
<1> QED
  BY <1>2, <1>3, <1>5, <1>7, <1>8, <1>9, <1>10, <1>11, <1>13, <1>14, <1>15, FileStep

(* The process dies: the temporary files are stranded, the objects stay. *)
LEMMA CrashStep ==
  ASSUME FileIInv, Crash
  PROVE  FileIInv'
<1>1. /\ UNCHANGED <<dirs, entry, temps>> /\ stranded' = temps /\ Reclaim
      /\ call' = [c \in Caller |-> NoCall]
  BY DEF Crash
<1>2. Shape(NoCall) /\ NoCall.op = "none" /\ NoCall.ino = 0 /\ NoCall \in CallType
  <2>1. NoCall \in CallType
    BY EmptySeq DEF CallType, NoCall, PutPc, LeafPc
  <2>2. NoCall.op = "none" /\ NoCall.ino = 0
    BY DEF NoCall
  <2> QED
    BY <2>1, <2>2 DEF Shape
<1>3. Placed(NoCall, dirs') /\ Writing(NoCall, temps' \ stranded', data') /\ Reading(NoCall, temps', data')
  BY <1>2 DEF Placed, Writing, Reading
<1>4. DOMAIN call' = Caller /\ call' = [c \in Caller |-> call'[c]] /\ \A c \in Caller : call'[c] = NoCall
  BY <1>1
<1>5. TempOf(NoCall) = 0
  BY <1>2 DEF TempOf
<1>6. Calls' /\ Owned'
  BY <1>2, <1>3, <1>4, <1>5 DEF Calls, CallOK, Owned
<1>7. /\ data' \in [Inode -> Seq(Nat)] /\ \A j \in Inode : \E v \in Content : StartOf(data'[j], v)
  BY <1>1, ReclaimLaw
<1>8. TempsAccounted'
  <2>1. \A j : j \in temps' <=> j # 0 /\ (j \in stranded' \/ \E d \in Caller : TempOf(call'[d]) = j)
    BY <1>1, <1>4, <1>5, TreeKnown
  <2> QED
    BY <2>1, TempsKept
<1>9. TypeOK'
  <2>1. \A c \in Caller : call'[c].ino \in Inode \cup {0}
    BY <1>2, <1>4
  <2>2. \A i \in Inode : \E v \in Content : \E n \in 0..Len(v) : data'[i] = SubSeq(v, 1, n)
    BY <1>7 DEF StartOf
  <2>3. dirs' \subseteq {<<>>} \cup UNION {Ancestors(p) : p \in Path}
    BY <1>1 DEF FileIInv, TreeSound, TypeOK
  <2>4. temps' \subseteq Inode /\ stranded' \subseteq temps'
    BY <1>1, TreeKnown
  <2> QED
    BY <1>1, <2>1, <2>2, <2>3, <2>4, TreeKnown DEF TypeOK
<1> QED
  BY <1>6, <1>7, <1>8, <1>9 DEF FileIInv, TreeSound, DataType

(* A fresh tree. *)
LEMMA FileFresh == Init => FileIInv
<1> SUFFICES ASSUME Init PROVE FileIInv
  OBVIOUS
<1>1. /\ dirs = {<<>>} /\ entry = [p \in Path |-> 0] /\ temps = {} /\ stranded = {}
      /\ data = [i \in Inode |-> <<>>] /\ call = [c \in Caller |-> NoCall]
  BY DEF Init
<1>2. Shape(NoCall) /\ NoCall.op = "none" /\ NoCall.ino = 0
  <2>1. NoCall \in CallType
    BY EmptySeq DEF CallType, NoCall, PutPc, LeafPc
  <2>2. NoCall.op = "none" /\ NoCall.ino = 0
    BY DEF NoCall
  <2> QED
    BY <2>1, <2>2 DEF Shape
<1>3. Placed(NoCall, dirs) /\ Writing(NoCall, temps \ stranded, data) /\ Reading(NoCall, temps, data)
  BY <1>2 DEF Placed, Writing, Reading
<1>4. TempOf(NoCall) = 0
  BY <1>2 DEF TempOf
<1>5. Calls /\ Owned
  BY <1>1, <1>2, <1>3, <1>4 DEF Calls, CallOK, Owned
<1>6. PICK w \in Content : w \in Seq(Nat)
  BY FileAssumption
<1>7. data \in [Inode -> Seq(Nat)] /\ \A i \in Inode : \E v \in Content : StartOf(data[i], v)
  BY <1>1, <1>6, StartEnds, EmptySeq
<1>8. TempsAccounted
  <2>1. \A j : j \in temps <=> j # 0 /\ (j \in stranded \/ \E d \in Caller : TempOf(call[d]) = j)
    BY <1>1, <1>4
  <2>2. Accounted(temps, stranded, call)
    BY <2>1, TempsLaw
  <2> QED
    BY <2>2 DEF TempsAccounted, Accounted
<1>9. TypeOK
  <2>1. \A c \in Caller : call[c].ino \in Inode \cup {0}
    BY <1>1, <1>2
  <2>2. \A i \in Inode : \E v \in Content : \E n \in 0..Len(v) : data[i] = SubSeq(v, 1, n)
    BY <1>7 DEF StartOf
  <2> QED
    BY <1>1, <2>1, <2>2 DEF TypeOK
<1> QED
  BY <1>5, <1>7, <1>8, <1>9 DEF FileIInv, TreeSound, DataType

(* Every step preserves the invariant. *)
LEMMA FileStepInv == FileIInv /\ [Next]_vars => FileIInv'
<1> SUFFICES ASSUME FileIInv, [Next]_vars PROVE FileIInv'
  OBVIOUS
<1>1. CASE UNCHANGED vars
  <2>1. TypeOK'
    BY <1>1 DEF vars, FileIInv, TreeSound, TypeOK
  <2>2. TempsAccounted'
    BY <1>1 DEF vars, FileIInv, TreeSound, TempsAccounted
  <2>3. DataType' /\ Owned'
    BY <1>1 DEF vars, FileIInv, DataType, Owned
  <2>4. Calls'
    BY <1>1 DEF vars, FileIInv, Calls, CallOK
  <2> QED
    BY <2>1, <2>2, <2>3, <2>4 DEF FileIInv, TreeSound
<1>2. ASSUME NEW c \in Caller,
             \E op \in {"put", "get", "delete", "stat"}, k \in Key, v \in Content, n \in Sizes : Invoke(c, op, k, v, n)
      PROVE  FileIInv'
  BY <1>2, InvokeStep
<1>3. ASSUME NEW c \in Caller,
             \/ Reject(c) \/ PutMkdirAll(c) \/ PutCreateTempFails(c) \/ PutClose(c) \/ PutFails(c)
             \/ checkNoSymlink(c) \/ LeafMissing(c) \/ LeafFails(c)
      PROVE  FileIInv'
  BY <1>3, GotoStep
<1>4. ASSUME NEW c \in Caller, GetOpen(c) \/ Read(c) \/ StatFile(c) PROVE FileIInv'
  BY <1>4, ReadStep
<1>5. ASSUME NEW c \in Caller, PutCreateTemp(c) PROVE FileIInv'
  BY <1>5, CreateTempStep
<1>6. ASSUME NEW c \in Caller, PutWrite(c) PROVE FileIInv'
  BY <1>6, WriteStep
<1>7. ASSUME NEW c \in Caller, PutRename(c) \/ \E removed \in BOOLEAN : PutDiscard(c, removed) PROVE FileIInv'
  BY <1>7, PutEndStep
<1>8. ASSUME NEW c \in Caller, DeleteRemove(c) \/ Return(c) PROVE FileIInv'
  BY <1>8, ReleaseStep
<1>9. CASE Crash
  BY <1>9, CrashStep
<1> QED
  BY <1>1, <1>2, <1>3, <1>4, <1>5, <1>6, <1>7, <1>8, <1>9 DEF Next

(* The inductive invariant holds in every state. *)
LEMMA FileInvariant == Spec => []FileIInv
BY FileFresh, FileStepInv, PTL DEF Spec

(* Whatever calls overlap, wherever one fails and whenever the process dies: *)
(* a temporary file is either that of a running Put or known to be stranded, *)
(* never also an object, and objects lie in directories that exist.          *)
THEOREM FileTreeSound == Spec => []TreeSound
BY FileInvariant, FileIInvImplies, PTL

-----------------------------------------------------------------------------
(* The refinement: the abstract store holds what the entries lead to, and  *)
(* the abstract call of a stream is the file that it reads.                *)

(* What call k looks like to its caller when the files hold f. *)
View(k, f) ==
  [op |-> k.op, key |-> k.key, src |-> k.src, size |-> k.size,
   res |-> IF k.pc \in Result THEN k.pc ELSE "none",
   value |-> IF k.op = "get" /\ k.ino # 0 THEN f[k.ino] ELSE k.buf]

(* What was read of a stream and what remains are together the file. *)
LEMMA ValueLaw ==
  ASSUME NEW k, NEW f, k.op = "get" /\ k.ino # 0 => f[k.ino] \in Seq(Nat) /\ StartOf(k.buf, f[k.ino])
  PROVE  (IF k.op = "get" /\ k.ino # 0 THEN k.buf \o SubSeq(f[k.ino], Len(k.buf) + 1, Len(f[k.ino])) ELSE k.buf)
           = (IF k.op = "get" /\ k.ino # 0 THEN f[k.ino] ELSE k.buf)
<1>1. CASE k.op = "get" /\ k.ino # 0
  <2>1. k.buf \o SubSeq(f[k.ino], Len(k.buf) + 1, Len(f[k.ino])) = f[k.ino]
    BY <1>1, StartGrows
  <2> QED
    BY <1>1, <2>1
<1>2. CASE ~(k.op = "get" /\ k.ino # 0)
  BY <1>2
<1> QED
  BY <1>1, <1>2

(* The callers' calls as the abstract store sees them. *)
LEMMA PendingLaw ==
  ASSUME FileIInv
  PROVE  Pending = [c \in Caller |-> View(call[c], data)]
<1>1. ASSUME NEW c \in Caller PROVE Promise(c) = View(call[c], data)
  <2>1. Reading(call[c], temps, data) /\ call[c].ino \in Inode \cup {0}
    BY CallKnown, TreeKnown
  <2>2. call[c].op = "get" /\ call[c].ino # 0 => data[call[c].ino] \in Seq(Nat) /\ StartOf(call[c].buf, data[call[c].ino])
    BY <2>1, TreeKnown DEF Reading
  <2> QED
    BY <2>2, ValueLaw DEF Promise, Remaining, Written, View
<1> QED
  BY <1>1 DEF Pending

(* The same after a step. *)
LEMMA PendingNext ==
  ASSUME FileIInv'
  PROVE  Pending' = [c \in Caller |-> View(call'[c], data')]
<1>1. ASSUME NEW c \in Caller PROVE Promise(c)' = View(call'[c], data')
  <2>1. Reading(call'[c], temps', data') /\ Shape(call'[c]) /\ data' \in [Inode -> Seq(Nat)]
    BY DEF FileIInv, Calls, CallOK, DataType
  <2>2. call'[c].ino \in Inode \cup {0}
    BY <2>1 DEF Shape, CallType
  <2>3. call'[c].op = "get" /\ call'[c].ino # 0 => data'[call'[c].ino] \in Seq(Nat) /\ StartOf(call'[c].buf, data'[call'[c].ino])
    BY <2>1, <2>2 DEF Reading
  <2> QED
    BY <2>3, ValueLaw DEF Promise, Remaining, Written, View
<1> QED
  BY <1>1 DEF Pending

(* A step of one call that leaves the files of the others alone. *)
LEMMA ViewStep ==
  ASSUME FileIInv, FileIInv', NEW c \in Caller, NEW k, call' = [call EXCEPT ![c] = k],
         \A d \in Caller \ {c} : call[d].ino \in Inode => data'[call[d].ino] = data[call[d].ino]
  PROVE  /\ Pending' = [Pending EXCEPT ![c] = View(k, data')]
         /\ Pending[c] = View(call[c], data)
         /\ DOMAIN Pending = Caller
<1>1. Pending = [d \in Caller |-> View(call[d], data)]
  BY PendingLaw
<1>2. Pending' = [d \in Caller |-> View(call'[d], data')]
  BY PendingNext
<1>3. call'[c] = k /\ \A d \in Caller \ {c} : call'[d] = call[d]
  BY TreeKnown
<1>4. ASSUME NEW d \in Caller \ {c} PROVE View(call'[d], data') = View(call[d], data)
  <2>1. call[d].ino # 0 => data'[call[d].ino] = data[call[d].ino]
    BY TreeKnown
  <2> QED
    BY <1>3, <2>1 DEF View
<1>5. Pending' = [Pending EXCEPT ![c] = View(k, data')]
  BY <1>1, <1>2, <1>3, <1>4
<1> QED
  BY <1>1, <1>5

(* What the abstract store holds under each key. *)
LEMMA ObjectsLaw ==
  /\ DOMAIN Objects = WellFormed /\ Objects = [k \in WellFormed |-> Objects[k]]
  /\ \A k \in WellFormed : Objects[k] = IF entry[k] = 0 THEN {} ELSE {data[entry[k]]}
BY ResolvedLaw DEF Objects

(* The same after a step. *)
LEMMA ObjectsNext ==
  /\ DOMAIN Objects' = WellFormed /\ Objects' = [k \in WellFormed |-> Objects'[k]]
  /\ \A k \in WellFormed : Objects'[k] = IF entry'[k] = 0 THEN {} ELSE {data'[entry'[k]]}
BY ResolvedLaw DEF Objects

(* Nothing happens to the objects while their files stay as they are. *)
LEMMA ObjectsSame ==
  ASSUME \A k \in WellFormed : entry'[k] = entry[k] /\ (entry[k] # 0 => data'[entry[k]] = data[entry[k]])
  PROVE  Objects' = Objects
BY ObjectsLaw, ObjectsNext

(* Steps that no caller can see: the abstract store does nothing. *)
LEMMA HiddenStep ==
  ASSUME FileIInv, FileIInv', NEW c \in Caller, NEW k, call' = [call EXCEPT ![c] = k],
         View(k, data') = View(call[c], data),
         \A d \in Caller \ {c} : call[d].ino \in Inode => data'[call[d].ino] = data[call[d].ino],
         \A p \in WellFormed : entry'[p] = entry[p] /\ (entry[p] # 0 => data'[entry[p]] = data[entry[p]])
  PROVE  UNCHANGED Driver!vars
<1>1. Pending' = [Pending EXCEPT ![c] = View(k, data')] /\ Pending[c] = View(call[c], data)
  BY ViewStep
<1>2. Pending = [d \in Caller |-> View(call[d], data)]
  BY PendingLaw
<1>3. Pending' = Pending
  BY <1>1, <1>2
<1>4. Objects' = Objects
  BY ObjectsSame
<1> QED
  BY <1>3, <1>4 DEF Driver!vars

(* A caller calls. *)
LEMMA InvokeRefines ==
  ASSUME FileIInv, FileIInv', NEW c \in Caller, NEW op \in {"put", "get", "delete", "stat"},
         NEW k \in Key, NEW v \in Content, NEW n \in Sizes, Invoke(c, op, k, v, n)
  PROVE  Driver!Invoke(c)
<1>1. PICK r : r = [NoCall EXCEPT !.op = op, !.key = k, !.src = v, !.size = n, !.pc = "begin"]
  OBVIOUS
<1>2. /\ call' = [call EXCEPT ![c] = r] /\ call[c] = NoCall /\ UNCHANGED <<entry, data>>
      /\ op # "put" => n = -1 /\ v = CHOOSE w \in Content : TRUE
  BY <1>1 DEF Invoke
<1>3. View(NoCall, data) = Driver!NoCall
  BY DEF View, NoCall, Driver!NoCall, Result
<1>4. View(r, data') = [Driver!NoCall EXCEPT !.op = op, !.key = k, !.src = v, !.size = n]
  <2>1. r = [op |-> op, key |-> k, src |-> v, size |-> n, pc |-> "begin", ino |-> 0, buf |-> <<>>]
    BY <1>1 DEF NoCall
  <2>2. View(r, data') = [op |-> op, key |-> k, src |-> v, size |-> n, res |-> "none", value |-> <<>>]
    BY <2>1 DEF View, Result
  <2>3. PICK s : s = [Driver!NoCall EXCEPT !.op = op, !.key = k, !.src = v, !.size = n]
    OBVIOUS
  <2>4. s = [op |-> op, key |-> k, src |-> v, size |-> n, res |-> "none", value |-> <<>>]
    BY <2>3 DEF Driver!NoCall
  <2> QED
    BY <2>2, <2>3, <2>4
<1>5. /\ Pending' = [Pending EXCEPT ![c] = [Driver!NoCall EXCEPT !.op = op, !.key = k, !.src = v, !.size = n]]
      /\ Pending[c] = Driver!NoCall
  <2>1. \A d \in Caller \ {c} : call[d].ino \in Inode => data'[call[d].ino] = data[call[d].ino]
    BY <1>2
  <2>2. Pending' = [Pending EXCEPT ![c] = View(r, data')] /\ Pending[c] = View(call[c], data)
    BY <1>2, <2>1, ViewStep
  <2> QED
    BY <1>2, <1>3, <1>4, <2>2
<1>6. Objects' = Objects
  BY <1>2, ObjectsSame
<1>7. op \in Driver!Op /\ n \in Driver!Sizes
  BY DEF Driver!Op, Driver!Sizes, Sizes
<1> QED
  BY <1>2, <1>5, <1>6, <1>7 DEF Driver!Invoke

(* A call of the abstract store, and the same with its answer. *)
AbstractCall(op, key, src, size, res, value) ==
  [op |-> op, key |-> key, src |-> src, size |-> size, res |-> res, value |-> value]
Answered(r, res, value) == [r EXCEPT !.res = res, !.value = value]

(* An answer changes nothing else of the call. *)
LEMMA AnswerLaw ==
  ASSUME NEW op, NEW key, NEW src, NEW size, NEW old, NEW res, NEW value
  PROVE  Answered(AbstractCall(op, key, src, size, "none", old), res, value)
           = AbstractCall(op, key, src, size, res, value)
<1>1. PICK r : r = [[op |-> op, key |-> key, src |-> src, size |-> size, res |-> "none", value |-> old]
                      EXCEPT !.res = res, !.value = value]
  OBVIOUS
<1>2. r = [op |-> op, key |-> key, src |-> src, size |-> size, res |-> res, value |-> value]
  BY <1>1
<1> QED
  BY <1>1, <1>2 DEF Answered, AbstractCall

(* A step of call c to k that ends the abstract call with a result and a value. *)
LEMMA EndsLaw ==
  ASSUME FileIInv, FileIInv', NEW c \in Caller, NEW k, call' = [call EXCEPT ![c] = k],
         k.op = call[c].op, k.key = call[c].key, k.src = call[c].src, k.size = call[c].size,
         call[c].pc \notin Result, k.pc \in Result,
         \A d \in Caller \ {c} : call[d].ino \in Inode => data'[call[d].ino] = data[call[d].ino]
  PROVE  /\ Driver!Ends(c, k.pc, IF k.op = "get" /\ k.ino # 0 THEN data'[k.ino] ELSE k.buf)
         /\ Pending[c].op = call[c].op /\ Pending[c].res = "none"
         /\ Pending[c].key = call[c].key /\ Pending[c].src = call[c].src /\ Pending[c].size = call[c].size
<1> DEFINE value == IF k.op = "get" /\ k.ino # 0 THEN data'[k.ino] ELSE k.buf
<1>1. /\ Pending' = [Pending EXCEPT ![c] = View(k, data')]
      /\ Pending[c] = View(call[c], data) /\ DOMAIN Pending = Caller
  BY ViewStep
<1>2. View(k, data') = Answered(View(call[c], data), k.pc, value)
  <2>1. View(k, data') = AbstractCall(call[c].op, call[c].key, call[c].src, call[c].size, k.pc, value)
    BY DEF View, AbstractCall
  <2>2. PICK v : View(call[c], data) = AbstractCall(call[c].op, call[c].key, call[c].src, call[c].size, "none", v)
    BY DEF View, AbstractCall
  <2> HIDE DEF value
  <2> QED
    BY <2>1, <2>2, AnswerLaw
<1> HIDE DEF value
<1>3. Pending' = [Pending EXCEPT ![c].res = k.pc, ![c].value = value]
  <2>1. Pending' = [Pending EXCEPT ![c] = Answered(Pending[c], k.pc, value)]
    BY <1>1, <1>2
  <2> QED
    BY <1>1, <2>1 DEF Answered
<1>4. Driver!Ends(c, k.pc, value)
  BY <1>3 DEF Driver!Ends
<1>5. /\ Pending[c].op = call[c].op /\ Pending[c].res = "none"
      /\ Pending[c].key = call[c].key /\ Pending[c].src = call[c].src /\ Pending[c].size = call[c].size
  BY <1>1 DEF View
<1> USE DEF value
<1> QED
  BY <1>4, <1>5

(* Errors, on every path that reports one: the store is as it was. *)
LEMMA FailRefines ==
  ASSUME FileIInv, FileIInv', NEW c \in Caller,
         \/ Reject(c) \/ PutCreateTempFails(c) \/ LeafFails(c)
         \/ \E removed \in BOOLEAN : PutDiscard(c, removed)
  PROVE  Driver!Fail(c)
<1>1. PICK k : /\ k \in {[call[c] EXCEPT !.pc = "error"], [call[c] EXCEPT !.pc = "error", !.ino = 0]}
               /\ call' = [call EXCEPT ![c] = k]
  <2>1. CASE Reject(c) \/ PutCreateTempFails(c) \/ LeafFails(c)
    BY <2>1 DEF Reject, PutCreateTempFails, LeafFails, Goto, FileIInv, Calls
  <2>2. CASE \E removed \in BOOLEAN : PutDiscard(c, removed)
    BY <2>2 DEF PutDiscard, FileIInv, Calls
  <2> QED
    BY <2>1, <2>2
<1>2. /\ call[c].pc \in {"begin", "leaf"} \/ (call[c].op = "put" /\ call[c].pc \in {"create", "discard"})
      /\ UNCHANGED entry
      /\ UNCHANGED data \/ Reclaim
  <2>1. CASE Reject(c) \/ LeafFails(c)
    BY <2>1 DEF Reject, LeafFails
  <2>2. CASE PutCreateTempFails(c)
    BY <2>2 DEF PutCreateTempFails, At
  <2>3. CASE \E removed \in BOOLEAN : PutDiscard(c, removed)
    BY <2>3 DEF PutDiscard, At
  <2> QED
    BY <2>1, <2>2, <2>3
<1>3. call[c] \in CallType /\ Shape(call[c])
  BY CallKnown
<1>4. /\ k.pc = "error" /\ k.op = call[c].op /\ k.key = call[c].key /\ k.src = call[c].src
      /\ k.size = call[c].size /\ k.buf = call[c].buf /\ k.ino \in {0, call[c].ino}
  BY <1>1, <1>3 DEF CallType
<1>5. call[c].op # "none"
  BY <1>2, <1>3 DEF Shape, NoCall
<1>6. k.buf = <<>> /\ ~(k.op = "get" /\ k.ino # 0)
  <2>1. call[c].op \in {"put", "get", "delete", "stat"}
    BY <1>3, <1>5 DEF CallType
  <2> QED
    BY <1>2, <1>3, <1>4, <2>1 DEF Shape
<1>7. /\ \A d \in Caller \ {c} : call[d].ino \in Inode => data'[call[d].ino] = data[call[d].ino]
      /\ \A p \in Path : entry[p] # 0 => data'[entry[p]] = data[entry[p]]
  <2>1. CASE UNCHANGED data
    BY <2>1
  <2>2. CASE Reclaim
    <3>1. \A d \in Caller \ {c} : call'[d] = call[d]
      BY <1>1, TreeKnown
    <3>2. \A p \in Path : entry[p] \in Inode => data'[entry[p]] = data[entry[p]]
      BY <1>2, <2>2, ReclaimLaw, TreeKnown
    <3>3. \A d \in Caller \ {c} : call[d].ino \in Inode => data'[call[d].ino] = data[call[d].ino]
      BY <2>2, <3>1, ReclaimLaw
    <3> QED
      BY <3>2, <3>3, TreeKnown
  <2> QED
    BY <1>2, <2>1, <2>2
<1>8. /\ Driver!Ends(c, k.pc, IF k.op = "get" /\ k.ino # 0 THEN data'[k.ino] ELSE k.buf)
      /\ Pending[c].op = call[c].op /\ Pending[c].res = "none"
  <2>1. call[c].pc \notin Result /\ k.pc \in Result
    BY <1>2, <1>4 DEF Result
  <2> QED
    BY <1>1, <1>4, <1>7, <2>1, EndsLaw
<1>9. Objects' = Objects
  BY <1>2, <1>7, ObjectsSame, ResolvedLaw
<1>10. Driver!Ends(c, "error", <<>>)
  BY <1>4, <1>6, <1>8
<1> QED
  BY <1>5, <1>8, <1>9, <1>10 DEF Driver!Fail

(* A missing object or a missing directory: there was no such object then. *)
LEMMA NotFoundRefines ==
  ASSUME FileIInv, FileIInv', NEW c \in Caller,
         LeafMissing(c) \/ (checkNoSymlink(c) /\ Dir(Target(c)) \notin dirs)
  PROVE  Driver!NotFound(c)
<1>1. call[c] \in CallType /\ Shape(call[c])
  BY CallKnown
<1>2. /\ call[c].pc \in {"begin", "leaf"} /\ Goto(c, "notFound") /\ UNCHANGED <<dirs, entry, temps, data, stranded>>
      /\ call[c].op \in {"get", "delete", "stat"} /\ Resolved[call[c].key].ok
  <2>1. CASE LeafMissing(c)
    <3>1. call[c].op # "none" /\ call[c].op # "put"
      BY <1>1, <2>1 DEF LeafMissing, Shape, NoCall, PutPc
    <3> QED
      BY <1>1, <2>1, <3>1 DEF LeafMissing, Shape, CallType
  <2>2. CASE checkNoSymlink(c) /\ Dir(Target(c)) \notin dirs
    <3>1. call[c].op # "none" /\ call[c].op # "put"
      BY <1>1, <2>2 DEF checkNoSymlink, Accepted, Shape, NoCall
    <3> QED
      BY <1>1, <2>2, <3>1 DEF checkNoSymlink, Accepted, CallType
  <2> QED
    BY <2>1, <2>2
<1>3. call[c].key \in WellFormed /\ Target(c) = call[c].key /\ Target(c) \in Path
  BY <1>1, <1>2, ResolvedLaw DEF Shape, Target
<1>4. entry[Target(c)] = 0
  <2>1. CASE LeafMissing(c)
    BY <2>1 DEF LeafMissing, Exists
  <2>2. CASE checkNoSymlink(c) /\ Dir(Target(c)) \notin dirs
    BY <1>3, <2>2, TreeKnown
  <2> QED
    BY <2>1, <2>2
<1>5. Objects[call[c].key] = {} /\ Objects' = Objects
  BY <1>2, <1>3, <1>4, ObjectsLaw, ObjectsSame
<1>6. PICK k : k = [call[c] EXCEPT !.pc = "notFound"]
  OBVIOUS
<1>7. /\ k.pc = "notFound" /\ k.op = call[c].op /\ k.key = call[c].key /\ k.src = call[c].src
      /\ k.size = call[c].size /\ k.buf = call[c].buf /\ k.ino = call[c].ino
  BY <1>1, <1>6, GotoLaw DEF LeafPc
<1>8. call' = [call EXCEPT ![c] = k]
  BY <1>2, <1>6 DEF Goto, FileIInv, Calls
<1>9. k.buf = <<>> /\ ~(k.op = "get" /\ k.ino # 0)
  BY <1>1, <1>2, <1>7 DEF Shape
<1>10. /\ Driver!Ends(c, k.pc, IF k.op = "get" /\ k.ino # 0 THEN data'[k.ino] ELSE k.buf)
       /\ Pending[c].op = call[c].op /\ Pending[c].res = "none" /\ Pending[c].key = call[c].key
  <2>1. call[c].pc \notin Result /\ k.pc \in Result
    BY <1>2, <1>7 DEF Result
  <2>2. \A d \in Caller \ {c} : call[d].ino \in Inode => data'[call[d].ino] = data[call[d].ino]
    BY <1>2
  <2> QED
    BY <1>7, <1>8, <2>1, <2>2, EndsLaw
<1>11. Driver!Ends(c, "notFound", <<>>)
  BY <1>7, <1>9, <1>10
<1>12. \E op \in Driver!Op \ {"put"} : Driver!Waits(c, op)
  BY <1>2, <1>10 DEF Driver!Op, Driver!Waits
<1> QED
  BY <1>3, <1>5, <1>10, <1>11, <1>12 DEF Driver!NotFound, Driver!Found

(* os.Rename is the instant at which a Put takes effect. *)
LEMMA PutRefines ==
  ASSUME FileIInv, FileIInv', NEW c \in Caller, PutRename(c)
  PROVE  Driver!Put(c)
<1>1. PICK i : i = call[c].ino
  OBVIOUS
<1>2. PICK k : k = [call[c] EXCEPT !.pc = "ok", !.ino = 0]
  OBVIOUS
<1>3. /\ call[c].op = "put" /\ call[c].pc = "rename" /\ Reclaim
      /\ entry' = [entry EXCEPT ![Target(c)] = i] /\ call' = [call EXCEPT ![c] = k]
  BY <1>1, <1>2 DEF PutRename, At, FileIInv, Calls
<1>4. call[c] \in CallType /\ Shape(call[c]) /\ Writing(call[c], temps \ stranded, data)
  BY CallKnown
<1>5. /\ k.pc = "ok" /\ k.op = "put" /\ k.key = call[c].key /\ k.src = call[c].src
      /\ k.size = call[c].size /\ k.buf = <<>> /\ k.ino = 0
  BY <1>2, <1>3, <1>4 DEF CallType, Shape
<1>6. i \in Inode /\ i # 0 /\ data[i] = call[c].src /\ call[c].size \in {-1, Len(call[c].src)}
  BY <1>1, <1>3, <1>4, TreeKnown DEF Shape, Writing
<1>7. call[c].key \in WellFormed /\ Target(c) = call[c].key /\ Target(c) \in Path
  BY <1>3, <1>4, ResolvedLaw DEF Shape, Target
<1>8. /\ entry' \in [Path -> Inode \cup {0}] /\ entry'[call[c].key] = i
      /\ \A p \in Path \ {call[c].key} : entry'[p] = entry[p]
  BY <1>3, <1>6, <1>7, TreeKnown
<1>9. /\ data'[i] = call[c].src /\ \A p \in Path \ {call[c].key} : entry[p] # 0 => data'[entry[p]] = data[entry[p]]
      /\ \A d \in Caller \ {c} : call[d].ino \in Inode => data'[call[d].ino] = data[call[d].ino]
  <2>1. \A p \in Path : entry'[p] \in Inode => data'[entry'[p]] = data[entry'[p]]
    BY <1>3, <1>8, ReclaimLaw
  <2>2. \A d \in Caller \ {c} : call'[d] = call[d]
    BY <1>3, TreeKnown
  <2>3. \A d \in Caller \ {c} : call[d].ino \in Inode => data'[call[d].ino] = data[call[d].ino]
    BY <1>3, <2>2, ReclaimLaw
  <2>4. \A p \in Path \ {call[c].key} : entry[p] # 0 => data'[entry[p]] = data[entry[p]]
    BY <1>8, <2>1, TreeKnown
  <2> QED
    BY <1>6, <1>7, <1>8, <2>1, <2>3, <2>4
<1>10. Objects' = [Objects EXCEPT ![call[c].key] = {call[c].src}]
  <2>1. Objects'[call[c].key] = {call[c].src}
    BY <1>6, <1>7, <1>8, <1>9, ObjectsNext
  <2>2. ASSUME NEW p \in WellFormed \ {call[c].key} PROVE Objects'[p] = Objects[p]
    <3>1. entry'[p] = entry[p] /\ (entry[p] # 0 => data'[entry[p]] = data[entry[p]])
      BY <1>8, <1>9, ResolvedLaw
    <3>2. Objects[p] = IF entry[p] = 0 THEN {} ELSE {data[entry[p]]}
      BY ObjectsLaw
    <3>3. Objects'[p] = IF entry'[p] = 0 THEN {} ELSE {data'[entry'[p]]}
      BY ObjectsNext
    <3> QED
      BY <3>1, <3>2, <3>3
  <2> QED
    BY <1>7, <2>1, <2>2, ObjectsLaw, ObjectsNext
<1>11. /\ Driver!Ends(c, k.pc, IF k.op = "get" /\ k.ino # 0 THEN data'[k.ino] ELSE k.buf)
       /\ Pending[c].op = call[c].op /\ Pending[c].res = "none"
       /\ Pending[c].key = call[c].key /\ Pending[c].src = call[c].src /\ Pending[c].size = call[c].size
  <2>1. call[c].pc \notin Result /\ k.pc \in Result /\ k.op = call[c].op
    BY <1>3, <1>5 DEF Result
  <2> QED
    BY <1>3, <1>5, <1>9, <2>1, EndsLaw
<1>12. Driver!Ends(c, "ok", <<>>)
  BY <1>5, <1>11
<1> QED
  BY <1>3, <1>6, <1>7, <1>10, <1>11, <1>12 DEF Driver!Put, Driver!Waits

(* os.Open is the instant of a Get, Stat that of a Stat. *)
LEMMA OpenRefines ==
  ASSUME FileIInv, FileIInv', NEW c \in Caller, GetOpen(c) \/ StatFile(c)
  PROVE  Driver!Get(c) \/ Driver!Stat(c)
<1>1. call[c] \in CallType /\ Shape(call[c])
  BY CallKnown
<1>2. /\ call[c].pc = "leaf" /\ call[c].op \in {"get", "stat"} /\ entry[Target(c)] # 0
      /\ UNCHANGED <<entry, data>>
  BY DEF GetOpen, StatFile, At, Exists
<1>3. call[c].key \in WellFormed /\ Target(c) = call[c].key /\ Target(c) \in Path
  BY <1>1, <1>2, ResolvedLaw DEF Shape, Target
<1>4. Objects[call[c].key] = {data[entry[Target(c)]]} /\ Objects' = Objects
  BY <1>2, <1>3, ObjectsLaw, ObjectsSame
<1>5. ASSUME NEW k, call' = [call EXCEPT ![c] = k], k.op = call[c].op, k.key = call[c].key,
             k.src = call[c].src, k.size = call[c].size, k.pc = "ok"
      PROVE  /\ Driver!Ends(c, "ok", IF k.op = "get" /\ k.ino # 0 THEN data'[k.ino] ELSE k.buf)
             /\ Pending[c].op = call[c].op /\ Pending[c].res = "none" /\ Pending[c].key = call[c].key
  <2>1. call[c].pc \notin Result /\ k.pc \in Result
    BY <1>2, <1>5 DEF Result
  <2>2. \A d \in Caller \ {c} : call[d].ino \in Inode => data'[call[d].ino] = data[call[d].ino]
    BY <1>2
  <2>3. /\ Driver!Ends(c, k.pc, IF k.op = "get" /\ k.ino # 0 THEN data'[k.ino] ELSE k.buf)
        /\ Pending[c].op = call[c].op /\ Pending[c].res = "none" /\ Pending[c].key = call[c].key
    BY <1>5, <2>1, <2>2, EndsLaw
  <2> QED
    BY <1>5, <2>3
<1>6. CASE GetOpen(c)
  <2>1. PICK k : k = [call[c] EXCEPT !.pc = "ok", !.ino = entry[Target(c)]]
    OBVIOUS
  <2>2. call' = [call EXCEPT ![c] = k] /\ call[c].op = "get"
    BY <1>6, <2>1 DEF GetOpen, At, FileIInv, Calls
  <2>3. /\ k.op = call[c].op /\ k.key = call[c].key /\ k.src = call[c].src
        /\ k.size = call[c].size /\ k.pc = "ok" /\ k.ino = entry[Target(c)]
    BY <1>1, <2>1 DEF CallType
  <2>4. /\ Driver!Ends(c, "ok", data[entry[Target(c)]])
        /\ Pending[c].op = "get" /\ Pending[c].res = "none" /\ Pending[c].key = call[c].key
    BY <1>2, <1>5, <2>2, <2>3
  <2> QED
    BY <1>3, <1>4, <2>4 DEF Driver!Get, Driver!Waits, Driver!Found
<1>7. CASE StatFile(c)
  <2>1. PICK k : k = [call[c] EXCEPT !.pc = "ok", !.buf = <<Len(data[entry[Target(c)]])>>]
    OBVIOUS
  <2>2. call' = [call EXCEPT ![c] = k] /\ call[c].op = "stat"
    BY <1>7, <2>1 DEF StatFile, At, FileIInv, Calls
  <2>3. /\ k.op = call[c].op /\ k.key = call[c].key /\ k.src = call[c].src
        /\ k.size = call[c].size /\ k.pc = "ok" /\ k.buf = <<Len(data[entry[Target(c)]])>>
    BY <1>1, <2>1 DEF CallType
  <2>4. /\ Driver!Ends(c, "ok", <<Len(data[entry[Target(c)]])>>)
        /\ Pending[c].op = "stat" /\ Pending[c].res = "none" /\ Pending[c].key = call[c].key
    BY <1>2, <1>5, <2>2, <2>3
  <2> QED
    BY <1>3, <1>4, <2>4 DEF Driver!Stat, Driver!Waits, Driver!Found
<1> QED
  BY <1>6, <1>7

(* os.Remove is the instant of a Delete. *)
LEMMA DeleteRefines ==
  ASSUME FileIInv, FileIInv', NEW c \in Caller, DeleteRemove(c)
  PROVE  Driver!Delete(c)
<1>1. PICK k : k = [call[c] EXCEPT !.pc = "ok"]
  OBVIOUS
<1>2. /\ call[c].op = "delete" /\ call[c].pc = "leaf" /\ Reclaim /\ entry[Target(c)] # 0
      /\ entry' = [entry EXCEPT ![Target(c)] = 0] /\ call' = [call EXCEPT ![c] = k]
  BY <1>1 DEF DeleteRemove, At, Exists, Goto, FileIInv, Calls
<1>3. call[c] \in CallType /\ Shape(call[c])
  BY CallKnown
<1>4. /\ k.pc = "ok" /\ k.op = "delete" /\ k.key = call[c].key /\ k.src = call[c].src
      /\ k.size = call[c].size /\ k.buf = <<>>
  BY <1>1, <1>2, <1>3 DEF CallType, Shape
<1>5. call[c].key \in WellFormed /\ Target(c) = call[c].key /\ Target(c) \in Path
  BY <1>2, <1>3, ResolvedLaw DEF Shape, Target
<1>6. /\ entry' \in [Path -> Inode \cup {0}] /\ entry'[call[c].key] = 0
      /\ \A p \in Path \ {call[c].key} : entry'[p] = entry[p]
  BY <1>2, <1>5, TreeKnown
<1>7. /\ \A p \in Path \ {call[c].key} : entry[p] # 0 => data'[entry[p]] = data[entry[p]]
      /\ \A d \in Caller \ {c} : call[d].ino \in Inode => data'[call[d].ino] = data[call[d].ino]
  <2>1. \A p \in Path : entry'[p] \in Inode => data'[entry'[p]] = data[entry'[p]]
    BY <1>2, <1>6, ReclaimLaw
  <2>2. \A d \in Caller \ {c} : call'[d] = call[d]
    BY <1>2, TreeKnown
  <2>3. \A d \in Caller \ {c} : call[d].ino \in Inode => data'[call[d].ino] = data[call[d].ino]
    BY <1>2, <2>2, ReclaimLaw
  <2>4. \A p \in Path \ {call[c].key} : entry[p] # 0 => data'[entry[p]] = data[entry[p]]
    BY <1>6, <2>1, TreeKnown
  <2> QED
    BY <2>3, <2>4
<1>8. Objects[call[c].key] # {}
  BY <1>2, <1>5, ObjectsLaw
<1>9. Objects' = [Objects EXCEPT ![call[c].key] = {}]
  <2>1. Objects'[call[c].key] = {}
    BY <1>5, <1>6, ObjectsNext
  <2>2. ASSUME NEW p \in WellFormed \ {call[c].key} PROVE Objects'[p] = Objects[p]
    <3>1. entry'[p] = entry[p] /\ (entry[p] # 0 => data'[entry[p]] = data[entry[p]])
      BY <1>6, <1>7, ResolvedLaw
    <3>2. Objects[p] = IF entry[p] = 0 THEN {} ELSE {data[entry[p]]}
      BY ObjectsLaw
    <3>3. Objects'[p] = IF entry'[p] = 0 THEN {} ELSE {data'[entry'[p]]}
      BY ObjectsNext
    <3> QED
      BY <3>1, <3>2, <3>3
  <2> QED
    BY <1>5, <2>1, <2>2, ObjectsLaw, ObjectsNext
<1>10. /\ Driver!Ends(c, k.pc, IF k.op = "get" /\ k.ino # 0 THEN data'[k.ino] ELSE k.buf)
       /\ Pending[c].op = call[c].op /\ Pending[c].res = "none" /\ Pending[c].key = call[c].key
  <2>1. call[c].pc \notin Result /\ k.pc \in Result /\ k.op = call[c].op
    BY <1>2, <1>4 DEF Result
  <2> QED
    BY <1>2, <1>4, <1>7, <2>1, EndsLaw
<1>11. Driver!Ends(c, "ok", <<>>)
  BY <1>4, <1>10
<1> QED
  BY <1>2, <1>5, <1>8, <1>9, <1>10, <1>11 DEF Driver!Delete, Driver!Waits, Driver!Found

(* The end of a call. *)
LEMMA ReturnRefines ==
  ASSUME FileIInv, FileIInv', NEW c \in Caller, Return(c)
  PROVE  Driver!Return(c)
<1>1. call[c].pc \in Result /\ call' = [call EXCEPT ![c] = NoCall] /\ UNCHANGED entry /\ Reclaim
  BY DEF Return
<1>2. /\ \A d \in Caller \ {c} : call[d].ino \in Inode => data'[call[d].ino] = data[call[d].ino]
      /\ \A p \in Path : entry[p] # 0 => data'[entry[p]] = data[entry[p]]
  <2>1. \A d \in Caller \ {c} : call'[d] = call[d]
    BY <1>1, TreeKnown
  <2>2. \A d \in Caller \ {c} : call[d].ino \in Inode => data'[call[d].ino] = data[call[d].ino]
    BY <1>1, <2>1, ReclaimLaw
  <2>3. \A p \in Path : entry[p] \in Inode => data'[entry[p]] = data[entry[p]]
    BY <1>1, ReclaimLaw, TreeKnown
  <2> QED
    BY <2>2, <2>3, TreeKnown
<1>3. View(NoCall, data') = Driver!NoCall
  BY DEF View, NoCall, Driver!NoCall, Result
<1>4. Pending' = [Pending EXCEPT ![c] = Driver!NoCall] /\ Pending[c] = View(call[c], data)
  BY <1>1, <1>2, <1>3, ViewStep
<1>5. Pending[c].res # "none"
  BY <1>1, <1>4 DEF View, Result
<1>6. Objects' = Objects
  BY <1>1, <1>2, ObjectsSame, ResolvedLaw
<1> QED
  BY <1>4, <1>5, <1>6 DEF Driver!Return

(* The death of the process. *)
LEMMA CrashRefines ==
  ASSUME FileIInv, FileIInv', Crash
  PROVE  Driver!Crash
<1>1. call' = [c \in Caller |-> NoCall] /\ UNCHANGED entry /\ Reclaim
  BY DEF Crash
<1>2. \A p \in Path : entry[p] # 0 => data'[entry[p]] = data[entry[p]]
  <2>1. \A p \in Path : entry[p] \in Inode => data'[entry[p]] = data[entry[p]]
    BY <1>1, ReclaimLaw, TreeKnown
  <2> QED
    BY <2>1, TreeKnown
<1>3. View(NoCall, data') = Driver!NoCall
  BY DEF View, NoCall, Driver!NoCall, Result
<1>4. Pending' = [c \in Caller |-> Driver!NoCall]
  BY <1>1, <1>3, PendingNext
<1>5. Objects' = Objects
  BY <1>1, <1>2, ObjectsSame, ResolvedLaw
<1> QED
  BY <1>4, <1>5 DEF Driver!Crash

(* The other steps of a call are its own affair. *)
LEMMA HiddenRefines ==
  ASSUME FileIInv, FileIInv', NEW c \in Caller,
         \/ PutMkdirAll(c) \/ PutCreateTemp(c) \/ PutWrite(c) \/ PutClose(c) \/ PutFails(c) \/ Read(c)
         \/ (checkNoSymlink(c) /\ Dir(Target(c)) \in dirs)
  PROVE  UNCHANGED Driver!vars
<1>1. call[c] \in CallType /\ Shape(call[c]) /\ Writing(call[c], temps \ stranded, data) /\ DOMAIN call = Caller
      /\ call = [d \in Caller |-> call[d]]
  BY CallKnown, TreeKnown DEF FileIInv, Calls
<1>2. CASE \/ PutMkdirAll(c) \/ PutClose(c) \/ PutFails(c) \/ (checkNoSymlink(c) /\ Dir(Target(c)) \in dirs)
  <2>1. PICK pc \in {"create", "rename", "discard", "leaf"} :
          /\ Goto(c, pc) /\ call[c].pc \in {"begin", "write", "rename"} /\ UNCHANGED <<entry, data>>
    <3>1. CASE PutMkdirAll(c)
      BY <3>1 DEF PutMkdirAll, Accepted
    <3>2. CASE PutClose(c) \/ PutFails(c)
      BY <3>2 DEF PutClose, PutFails, At
    <3>3. CASE checkNoSymlink(c) /\ Dir(Target(c)) \in dirs
      BY <3>3 DEF checkNoSymlink, Accepted
    <3> QED
      BY <1>2, <3>1, <3>2, <3>3
  <2>2. PICK k : k = [call[c] EXCEPT !.pc = pc]
    OBVIOUS
  <2>3. /\ k.pc = pc /\ k.op = call[c].op /\ k.key = call[c].key /\ k.src = call[c].src
        /\ k.size = call[c].size /\ k.buf = call[c].buf /\ k.ino = call[c].ino
    BY <1>1, <2>2, GotoLaw DEF PutPc, LeafPc
  <2>4. call' = [call EXCEPT ![c] = k]
    BY <2>1, <2>2 DEF Goto
  <2>5. View(k, data') = View(call[c], data)
    BY <2>1, <2>3 DEF View, Result
  <2> QED
    BY <2>1, <2>4, <2>5, HiddenStep
<1>3. CASE PutCreateTemp(c)
  <2>1. PICK i : i = Min(Free)
    OBVIOUS
  <2>2. PICK k : k = [call[c] EXCEPT !.pc = "write", !.ino = i]
    OBVIOUS
  <2>3. /\ call[c].op = "put" /\ call[c].pc = "create" /\ UNCHANGED entry /\ Free # {}
        /\ data' = [data EXCEPT ![i] = <<>>] /\ call' = [call EXCEPT ![c] = k]
    BY <1>1, <1>3, <2>1, <2>2 DEF PutCreateTemp, At
  <2>4. (\A d \in Caller : call[d].ino # i) /\ \A p \in Path : entry[p] # i
    BY <2>1, <2>3, FreeLaw, TreeKnown
  <2>5. /\ k.pc = "write" /\ k.op = call[c].op /\ k.key = call[c].key /\ k.src = call[c].src
        /\ k.size = call[c].size /\ k.buf = call[c].buf
    BY <1>1, <2>2 DEF CallType
  <2>6. View(k, data') = View(call[c], data)
    BY <2>3, <2>5 DEF View, Result
  <2>7. \A j \in Inode : j # i => data'[j] = data[j]
    BY <2>3, TreeKnown
  <2>8. \A d \in Caller \ {c} : call[d].ino \in Inode => data'[call[d].ino] = data[call[d].ino]
    BY <2>4, <2>7
  <2>9. \A p \in WellFormed : entry'[p] = entry[p] /\ (entry[p] # 0 => data'[entry[p]] = data[entry[p]])
    <3>1. SUFFICES ASSUME NEW p \in WellFormed PROVE entry[p] # 0 => data'[entry[p]] = data[entry[p]]
      BY <2>3
    <3>2. p \in Path /\ entry[p] \in Inode \cup {0} /\ entry[p] # i
      BY <2>4, TreeKnown, ResolvedLaw
    <3> QED
      BY <2>7, <3>2
  <2> QED
    BY <2>3, <2>6, <2>8, <2>9, HiddenStep
<1>4. CASE PutWrite(c)
  <2>1. PICK i : i = call[c].ino
    OBVIOUS
  <2>2. /\ call[c].op = "put" /\ call[c].pc = "write" /\ UNCHANGED <<entry, call>>
        /\ \A j \in Inode : j # i => data'[j] = data[j]
    BY <1>4, <2>1, TreeKnown DEF PutWrite, At
  <2>3. i # 0 /\ i \in temps
    BY <1>1, <2>1, <2>2 DEF Shape, Writing
  <2>4. \A d \in Caller \ {c} : call[d].ino # i
    BY <2>1, <2>2, <2>3, TreeKnown DEF TempOf
  <2>5. call' = [call EXCEPT ![c] = call[c]]
    BY <1>1, <2>2
  <2>6. View(call[c], data') = View(call[c], data)
    BY <2>2 DEF View
  <2>7. \A d \in Caller \ {c} : call[d].ino \in Inode => data'[call[d].ino] = data[call[d].ino]
    BY <2>2, <2>4
  <2>8. \A p \in WellFormed : entry'[p] = entry[p] /\ (entry[p] # 0 => data'[entry[p]] = data[entry[p]])
    <3>1. SUFFICES ASSUME NEW p \in WellFormed, entry[p] # 0 PROVE data'[entry[p]] = data[entry[p]]
      BY <2>2
    <3>2. p \in Path /\ entry[p] \in Inode /\ entry[p] # i
      BY <2>3, <3>1, TreeKnown, ResolvedLaw
    <3> QED
      BY <2>2, <3>2
  <2> QED
    BY <2>5, <2>6, <2>7, <2>8, HiddenStep
<1>5. CASE Read(c)
  <2>1. PICK k : k = [call[c] EXCEPT !.buf = Append(@, Written(c)[Len(@) + 1])]
    OBVIOUS
  <2>2. /\ call[c].op = "get" /\ call[c].pc = "ok" /\ UNCHANGED <<entry, data>>
        /\ call' = [call EXCEPT ![c] = k]
    BY <1>1, <1>5, <2>1 DEF Read, At
  <2>3. /\ k.pc = call[c].pc /\ k.op = call[c].op /\ k.key = call[c].key /\ k.src = call[c].src
        /\ k.size = call[c].size /\ k.ino = call[c].ino
    BY <1>1, <2>1 DEF CallType
  <2>4. call[c].ino # 0
    BY <1>1, <2>2 DEF Shape
  <2>5. View(k, data') = View(call[c], data)
    BY <2>2, <2>3, <2>4 DEF View
  <2> QED
    BY <2>2, <2>5, HiddenStep
<1> QED
  BY <1>2, <1>3, <1>4, <1>5

(* A fresh directory is an empty store. *)
LEMMA FreshRefines == Init => Driver!Init
<1> SUFFICES ASSUME Init PROVE Driver!Init
  OBVIOUS
<1>1. FileIInv
  BY FileFresh
<1>2. entry = [p \in Path |-> 0] /\ call = [c \in Caller |-> NoCall]
  BY DEF Init
<1>3. View(NoCall, data) = Driver!NoCall
  BY DEF View, NoCall, Driver!NoCall, Result
<1>4. Pending = [c \in Caller |-> Driver!NoCall]
  BY <1>1, <1>2, <1>3, PendingLaw
<1>5. Objects = [k \in WellFormed |-> {}]
  <2>1. \A k \in WellFormed : Objects[k] = {}
    BY <1>2, ObjectsLaw, ResolvedLaw
  <2> QED
    BY <2>1, ObjectsLaw
<1> QED
  BY <1>4, <1>5 DEF Driver!Init

(* Every step is one of the abstract store, or none. *)
LEMMA StepRefines == FileIInv /\ FileIInv' /\ [Next]_vars => [Driver!Next]_(Driver!vars)
<1> SUFFICES ASSUME FileIInv, FileIInv', [Next]_vars PROVE [Driver!Next]_(Driver!vars)
  OBVIOUS
<1>1. CASE UNCHANGED vars
  <2>1. Objects' = Objects
    BY <1>1, ObjectsSame DEF vars
  <2>2. Pending' = Pending
    BY <1>1, PendingLaw, PendingNext DEF vars
  <2> QED
    BY <2>1, <2>2 DEF Driver!vars
<1>2. ASSUME NEW c \in Caller,
             \E op \in {"put", "get", "delete", "stat"}, k \in Key, v \in Content, n \in Sizes : Invoke(c, op, k, v, n)
      PROVE  Driver!Next
  <2>1. Driver!Invoke(c)
    BY <1>2, InvokeRefines
  <2> QED
    BY <2>1 DEF Driver!Next
<1>3. ASSUME NEW c \in Caller,
             \/ Reject(c) \/ PutCreateTempFails(c) \/ LeafFails(c)
             \/ \E removed \in BOOLEAN : PutDiscard(c, removed)
      PROVE  Driver!Next
  <2>1. Driver!Fail(c)
    BY <1>3, FailRefines
  <2> QED
    BY <2>1 DEF Driver!Next
<1>4. ASSUME NEW c \in Caller, LeafMissing(c) \/ (checkNoSymlink(c) /\ Dir(Target(c)) \notin dirs)
      PROVE  Driver!Next
  <2>1. Driver!NotFound(c)
    BY <1>4, NotFoundRefines
  <2> QED
    BY <2>1 DEF Driver!Next
<1>5. ASSUME NEW c \in Caller, PutRename(c) PROVE Driver!Next
  <2>1. Driver!Put(c)
    BY <1>5, PutRefines
  <2> QED
    BY <2>1 DEF Driver!Next
<1>6. ASSUME NEW c \in Caller, GetOpen(c) \/ StatFile(c) PROVE Driver!Next
  <2>1. Driver!Get(c) \/ Driver!Stat(c)
    BY <1>6, OpenRefines
  <2> QED
    BY <2>1 DEF Driver!Next
<1>7. ASSUME NEW c \in Caller, DeleteRemove(c) PROVE Driver!Next
  <2>1. Driver!Delete(c)
    BY <1>7, DeleteRefines
  <2> QED
    BY <2>1 DEF Driver!Next
<1>8. ASSUME NEW c \in Caller, Return(c) PROVE Driver!Next
  <2>1. Driver!Return(c)
    BY <1>8, ReturnRefines
  <2> QED
    BY <2>1 DEF Driver!Next
<1>9. CASE Crash
  <2>1. Driver!Crash
    BY <1>9, CrashRefines
  <2> QED
    BY <2>1 DEF Driver!Next
<1>10. ASSUME NEW c \in Caller,
              \/ PutMkdirAll(c) \/ PutCreateTemp(c) \/ PutWrite(c) \/ PutClose(c) \/ PutFails(c) \/ Read(c)
              \/ (checkNoSymlink(c) /\ Dir(Target(c)) \in dirs)
       PROVE  UNCHANGED Driver!vars
  BY <1>10, HiddenRefines
<1> QED
  BY <1>1, <1>2, <1>3, <1>4, <1>5, <1>6, <1>7, <1>8, <1>9, <1>10 DEF Next

(* The filesystem driver does what storage.Driver promises, one system call *)
(* at a time: an object appears, is replaced and disappears as a whole, a   *)
(* call that fails changes nothing, and a stream delivers the object as it  *)
(* was when it was opened.                                                  *)
THEOREM FileStoreRefines == Spec => ImplementsDriver
<1>1. Spec => []FileIInv
  BY FileInvariant
<1>2. Init => Driver!Init
  BY FreshRefines
<1>3. FileIInv /\ FileIInv' /\ [Next]_vars => [Driver!Next]_(Driver!vars)
  BY StepRefines
<1> QED
  BY <1>1, <1>2, <1>3, PTL DEF Spec, ImplementsDriver, Driver!Spec

=============================================================================
