----------------------------- MODULE FileStore ------------------------------
(* The filesystem driver of internal/core/storage/fs, one system call at a  *)
(* time, and the claim that it implements ObjectStore.  A file is an inode  *)
(* with a name; a temporary file of Put is an inode with a name of its own; *)
(* an open stream keeps its inode although the name is gone.                *)
EXTENDS FiniteSetsExt, Functions, Sequences

CONSTANTS
  Key,        \* keys callers pass: sequences of the segments between "/"
  Content,    \* payloads: sequences of chunks of one read each
  Caller,
  Inode       \* 1..n; the disk has no more

ASSUME FileAssumption ==
  /\ Inode \subseteq Nat \ {0}
  /\ Key \subseteq Seq(STRING)
  /\ Content # {} /\ Content \subseteq Seq(Nat)   \* a number stands for a chunk

VARIABLES
  dirs,       \* directories below base_dir
  entry,      \* directory entries of objects: [path -> inode or 0]
  temps,      \* inodes named .tmp-*
  data,       \* what is written to each inode
  call,       \* calls in progress
  stranded    \* temporary files a crash or a failed Remove left (history)

vars == <<dirs, entry, temps, data, call, stranded>>

-----------------------------------------------------------------------------
(* Keys and paths *)

ValidateKey(key) == key # <<>> /\ \A i \in DOMAIN key : key[i] \notin {"", ".", ".."}

WellFormed == {k \in Key : ValidateKey(k)}

(* filepath.Join of base_dir and the key, relative to base_dir again: "."   *)
(* and empty segments vanish, ".." takes one segment away or, at the top,   *)
(* leaves base_dir.                                                         *)
Joined(key) ==
  LET Step[i \in 0..Len(key)] ==
        IF i = 0 THEN <<>>
        ELSE LET p == Step[i - 1] IN
             CASE key[i] \in {"", "."} -> p
               [] key[i] = ".." /\ p # <<>> /\ p[Len(p)] # ".." -> SubSeq(p, 1, Len(p) - 1)
               [] OTHER -> Append(p, key[i])
  IN Step[Len(key)]

Escapes(path) == path # <<>> /\ path[1] = ".."

resolvePath(key) == [ok |-> ValidateKey(key) /\ ~Escapes(Joined(key)), path |-> Joined(key)]

Resolved == [k \in Key |-> resolvePath(k)]   \* computed once per key
Path == {Resolved[k].path : k \in Key}
Dir(path) == SubSeq(path, 1, Len(path) - 1)
Ancestors(path) == {SubSeq(path, 1, n) : n \in 0..Len(path) - 1}

-----------------------------------------------------------------------------
NoCall == [op |-> "none", key |-> <<>>, src |-> <<>>, size |-> 0, pc |-> "idle", ino |-> 0, buf |-> <<>>]

Init ==
  /\ dirs = {<<>>}                    \* New creates base_dir if it is missing
  /\ entry = [p \in Path |-> 0]
  /\ temps = {} /\ stranded = {}
  /\ data = [i \in Inode |-> <<>>]
  /\ call = [c \in Caller |-> NoCall]

At(c, op, pc) == call[c].op = op /\ call[c].pc = pc
Goto(c, pc) == call' = [call EXCEPT ![c].pc = pc]
Target(c) == Resolved[call[c].key].path

(* An inode lives while it has a name or is open. *)
Open == {call[c].ino : c \in Caller}
Live == temps \cup Range(entry) \cup Open
Free == Inode \ Live
Reclaim == data' = [i \in Inode |-> IF i \in Live' THEN data[i] ELSE <<>>]

-----------------------------------------------------------------------------
(* A caller calls; a cancelled context or a bad key ends the call at once.  *)
Sizes == {-1} \cup {Len(v) : v \in Content}

Invoke(c, op, k, v, n) ==
  /\ call[c] = NoCall
  /\ op # "put" => n = -1 /\ v = CHOOSE w \in Content : TRUE
  /\ call' = [call EXCEPT ![c] = [NoCall EXCEPT !.op = op, !.key = k, !.src = v, !.size = n, !.pc = "begin"]]
  /\ UNCHANGED <<dirs, entry, temps, data, stranded>>

Reject(c) ==
  /\ call[c].pc = "begin"
  /\ Goto(c, "error")
  /\ UNCHANGED <<dirs, entry, temps, data, stranded>>

Accepted(c) == call[c].pc = "begin" /\ Resolved[call[c].key].ok

-----------------------------------------------------------------------------
(* Put *)

PutMkdirAll(c) ==
  /\ Accepted(c) /\ call[c].op = "put"
  /\ dirs' = dirs \cup Ancestors(Target(c))
  /\ Goto(c, "create")
  /\ UNCHANGED <<entry, temps, data, stranded>>

(* os.CreateTemp in the target's directory. *)
PutCreateTemp(c) ==
  /\ At(c, "put", "create") /\ Free # {}
  /\ LET i == Min(Free) IN
     /\ temps' = temps \cup {i}
     /\ data' = [data EXCEPT ![i] = <<>>]
     /\ call' = [call EXCEPT ![c].pc = "write", ![c].ino = i]
  /\ UNCHANGED <<dirs, entry, stranded>>

PutCreateTempFails(c) ==
  /\ At(c, "put", "create")
  /\ Goto(c, "error")
  /\ UNCHANGED <<dirs, entry, temps, data, stranded>>

Written(c) == data[call[c].ino]
AtEOF(c) == Written(c) = call[c].src

(* io.Copy: one read of the source, one write. *)
PutWrite(c) ==
  /\ At(c, "put", "write") /\ ~AtEOF(c)
  /\ data' = [data EXCEPT ![call[c].ino] = Append(@, call[c].src[Len(@) + 1])]
  /\ UNCHANGED <<dirs, entry, temps, call, stranded>>

(* Mutant: the copy is taken for complete before the reader's EOF. *)
CopiedAsDeclaredEarly(c) == call[c].size \in {-1, Len(call[c].src)}

(* The reader's EOF, with as many bytes as the caller declared. *)
CopiedAsDeclared(c) == AtEOF(c) /\ call[c].size \in {-1, Len(Written(c))}

PutClose(c) ==
  /\ At(c, "put", "write") /\ CopiedAsDeclared(c)
  /\ Goto(c, "rename")
  /\ UNCHANGED <<dirs, entry, temps, data, stranded>>

(* Mutant: the error path forgets the temporary file. *)
PutFailsKeepTemp(c) ==
  /\ call[c].op = "put" /\ call[c].pc \in {"write", "rename"}
  /\ call' = [call EXCEPT ![c].pc = "error", ![c].ino = 0]
  /\ UNCHANGED <<dirs, entry, temps, data, stranded>>

(* The source fails, the disk is full, the size is not the declared one,    *)
(* Close fails, or Rename fails.                                            *)
PutFails(c) ==
  /\ call[c].op = "put" /\ call[c].pc \in {"write", "rename"}
  /\ Goto(c, "discard")
  /\ UNCHANGED <<dirs, entry, temps, data, stranded>>

(* os.Remove of the temporary file; its error is ignored. *)
PutDiscard(c, removed) ==
  /\ At(c, "put", "discard")
  /\ IF removed THEN temps' = temps \ {call[c].ino} /\ UNCHANGED stranded
                ELSE UNCHANGED temps /\ stranded' = stranded \cup {call[c].ino}
  /\ call' = [call EXCEPT ![c].pc = "error", ![c].ino = 0]
  /\ UNCHANGED <<dirs, entry>>
  /\ Reclaim

(* Mutant: the temporary name is linked to the target and stays. *)
PutRenameLink(c) ==
  /\ At(c, "put", "rename")
  /\ entry' = [entry EXCEPT ![Target(c)] = call[c].ino]
  /\ call' = [call EXCEPT ![c].pc = "ok", ![c].ino = 0]
  /\ UNCHANGED <<dirs, temps, data, stranded>>

(* os.Rename replaces what the name stood for. *)
PutRename(c) ==
  /\ At(c, "put", "rename")
  /\ entry' = [entry EXCEPT ![Target(c)] = call[c].ino]
  /\ temps' = temps \ {call[c].ino}
  /\ call' = [call EXCEPT ![c].pc = "ok", ![c].ino = 0]
  /\ UNCHANGED <<dirs, stranded>>
  /\ Reclaim

-----------------------------------------------------------------------------
(* Get, Delete, Stat: first checkNoSymlink, which reports a missing         *)
(* directory as not found and lets a missing leaf pass.                     *)

checkNoSymlink(c) ==
  /\ Accepted(c) /\ call[c].op # "put"
  /\ Goto(c, IF Dir(Target(c)) \in dirs THEN "leaf" ELSE "notFound")
  /\ UNCHANGED <<dirs, entry, temps, data, stranded>>

Exists(c) == entry[Target(c)] # 0

GetOpen(c) ==
  /\ At(c, "get", "leaf") /\ Exists(c)
  /\ call' = [call EXCEPT ![c].pc = "ok", ![c].ino = entry[Target(c)]]
  /\ UNCHANGED <<dirs, entry, temps, data, stranded>>

(* The caller reads the stream. *)
Read(c) ==
  /\ At(c, "get", "ok") /\ call[c].buf # Written(c)
  /\ call' = [call EXCEPT ![c].buf = Append(@, Written(c)[Len(@) + 1])]
  /\ UNCHANGED <<dirs, entry, temps, data, stranded>>

DeleteRemove(c) ==
  /\ At(c, "delete", "leaf") /\ Exists(c)
  /\ entry' = [entry EXCEPT ![Target(c)] = 0]
  /\ Goto(c, "ok")
  /\ UNCHANGED <<dirs, temps, stranded>>
  /\ Reclaim

StatFile(c) ==
  /\ At(c, "stat", "leaf") /\ Exists(c)
  /\ call' = [call EXCEPT ![c].pc = "ok", ![c].buf = <<Len(data[entry[Target(c)]])>>]
  /\ UNCHANGED <<dirs, entry, temps, data, stranded>>

LeafMissing(c) ==
  /\ call[c].pc = "leaf" /\ ~Exists(c)
  /\ Goto(c, "notFound")
  /\ UNCHANGED <<dirs, entry, temps, data, stranded>>

(* Lstat, Open, Remove or Stat fails for another reason. *)
LeafFails(c) ==
  /\ call[c].pc = "leaf"
  /\ Goto(c, "error")
  /\ UNCHANGED <<dirs, entry, temps, data, stranded>>

Result == {"ok", "notFound", "error"}

(* The call is over; a stream is closed, wherever its reader stopped. *)
Return(c) ==
  /\ call[c].pc \in Result
  /\ call' = [call EXCEPT ![c] = NoCall]
  /\ UNCHANGED <<dirs, entry, temps, stranded>>
  /\ Reclaim

-----------------------------------------------------------------------------
(* The process dies; the files stay, and nobody looks for .tmp-* later.     *)
Crash ==
  /\ call' = [c \in Caller |-> NoCall]
  /\ stranded' = temps
  /\ UNCHANGED <<dirs, entry, temps>>
  /\ Reclaim

Next ==
  \/ \E c \in Caller :
       \/ \E op \in {"put", "get", "delete", "stat"}, k \in Key, v \in Content, n \in Sizes : Invoke(c, op, k, v, n)
       \/ Reject(c)
       \/ PutMkdirAll(c) \/ PutCreateTemp(c) \/ PutCreateTempFails(c) \/ PutWrite(c) \/ PutClose(c)
       \/ PutFails(c) \/ PutRename(c)
       \/ \E removed \in BOOLEAN : PutDiscard(c, removed)
       \/ checkNoSymlink(c) \/ GetOpen(c) \/ Read(c) \/ DeleteRemove(c) \/ StatFile(c)
       \/ LeafMissing(c) \/ LeafFails(c) \/ Return(c)
  \/ Crash

Spec == Init /\ [][Next]_vars

-----------------------------------------------------------------------------
(* Properties *)

(* Types; names are given to different inodes, and only inside directories  *)
(* that exist.                                                              *)
TypeOK ==
  /\ dirs \subseteq {<<>>} \cup UNION {Ancestors(p) : p \in Path} /\ temps \subseteq Inode /\ stranded \subseteq temps
  /\ entry \in [Path -> Inode \cup {0}]
  /\ \A i \in Inode : \E v \in Content : \E n \in 0..Len(v) : data[i] = SubSeq(v, 1, n)
  /\ \A c \in Caller : call[c].ino \in Inode \cup {0}
  /\ \A p \in Path : entry[p] # 0 => Dir(p) \in dirs /\ entry[p] \notin temps
  /\ \A p, q \in Path : entry[p] = entry[q] /\ entry[p] # 0 => p = q

(* A temporary file belongs to a Put that is still running, unless a crash  *)
(* or a failed Remove left it: no error path of Put forgets it ("a failed   *)
(* Put never leaves a corrupt file").                                       *)
TempsAccounted ==
  temps = (stranded \cup {call[c].ino : c \in {d \in Caller : call[d].op = "put"}}) \ {0}

(* What is still to be read of an open object, and the call as a caller sees it. *)
Remaining(c) == SubSeq(Written(c), Len(call[c].buf) + 1, Len(Written(c)))

Promise(c) ==
  LET k == call[c] IN
  [op |-> k.op, key |-> k.key, src |-> k.src, size |-> k.size,
   res |-> IF k.pc \in Result THEN k.pc ELSE "none",
   value |-> IF k.op = "get" /\ k.ino # 0 THEN k.buf \o Remaining(c) ELSE k.buf]

Objects == [k \in WellFormed |-> {data[i] : i \in {entry[Resolved[k].path]} \ {0}}]
Pending == [c \in Caller |-> Promise(c)]

Driver == INSTANCE ObjectStore WITH objects <- Objects, pending <- Pending

(* The driver does what storage.Driver promises, whatever calls overlap and *)
(* wherever one fails or the process dies: an object appears, is replaced   *)
(* and disappears as a whole, at one instant within the call that returns   *)
(* success; a call that fails changes nothing; a stream delivers the object *)
(* as it was when it was opened, also if it is deleted or replaced by now.  *)
ImplementsDriver == Driver!Spec

(* The directory tree is sound: temporary files and entries never share an  *)
(* inode, and every temporary file has an owner or is known to be stranded. *)
TreeSound == TypeOK /\ TempsAccounted
=============================================================================
