-------------------------------- MODULE Setup --------------------------------
(* cmd/attachra/setup.go: `attachra setup` writes attachra.yaml,            *)
(* policy.yaml and, for S3 credentials, attachra.env; checks them with the  *)
(* server's own config.Load; and keeps or undoes the whole of it.           *)
(*                                                                          *)
(* Every file-system call is a step, and the command can be killed between  *)
(* any two.  A file is told by who wrote it: 0 is the operator, k the k-th  *)
(* run of the command.                                                      *)
EXTENDS Config, Sequences

CONSTANT MaxRuns   \* bound: how often the operator runs the command

ASSUME SetupAssumption == MaxRuns \in Nat

VARIABLES
  disk,      \* the directory: for every file its path and its .setup-bak
  setup,     \* the running command
  answers,   \* what it was told, until it has verified that
  before,    \* history: the paths when it began
  lost       \* history: a best-effort call of this run failed

setupVars == <<disk, setup, answers, before, lost>>

(* setupManagedFiles *)
Managed == {"attachra.yaml", "policy.yaml", "attachra.env"}

Absent == [run |-> 0, state |-> "absent"]
Operators == [run |-> 0, state |-> "whole"]
Generated(state) == [run |-> setup.run, state |-> state]

Exists(content) == content.state # "absent"

-----------------------------------------------------------------------------
(* The answers. *)

Good == [domains |-> "example.com", url |-> "https://mail", storage |-> "fs", fsBaseDir |-> "", endpoint |-> "e",
         region |-> "r", bucket |-> "b", access |-> "", secret |-> "", httpListen |-> "", failureMode |-> ""]

(* Flags that differ from Good: rejected ones, blank ones, S3. *)
RawFlags ==
  {Good} \cup {[Good EXCEPT !.domains = d] : d \in {"", "-"}} \cup {[Good EXCEPT !.url = u] : u \in {"", "mail"}}
  \cup {[Good EXCEPT !.fsBaseDir = " "], [Good EXCEPT !.failureMode = "Closed"], [Good EXCEPT !.storage = "tape"]}
  \cup {[Good EXCEPT !.storage = "s3", !.region = r] : r \in {"", " ", "r"}}
  \cup {[Good EXCEPT !.storage = "s3", !.access = a] : a \in {"key", "two lines"}}

firstNonEmpty(a, b) == IF a # "" THEN a ELSE b

parseDomains(raw) == raw = "example.com"
validateBaseURLFormat(url) == validatePublicBaseURL(url)
validateEnvSecretValue(v) == v # "two lines"

Defaulted(raw) ==
  [raw EXCEPT !.storage = firstNonEmpty(@, "fs"), !.fsBaseDir = firstNonEmpty(@, "/var/lib/attachra/files"),
              !.httpListen = firstNonEmpty(@, "127.0.0.1:18080"), !.failureMode = firstNonEmpty(@, "open")]

(* A listener in use is a warning only. *)
collectNonInteractiveAnswers(raw) ==
  LET a == Defaulted(raw)
      complete == /\ a.domains # "" /\ a.url # ""
                  /\ a.storage = "s3" => "" \notin {a.endpoint, a.region, a.bucket}
      valid == /\ parseDomains(a.domains) /\ validateBaseURLFormat(a.url)
               /\ validateEnvSecretValue(a.access) /\ validateEnvSecretValue(a.secret)
               /\ a.storage \in {"fs", "s3"} /\ a.failureMode \in {"open", "closed"}
  IN  [ok |-> complete /\ valid, answers |-> a]

FlagAnswers == {c.answers : c \in {x \in {collectNonInteractiveAnswers(raw) : raw \in RawFlags} : x.ok}}

(* The wizard trims what it reads and asks again until an answer is valid.  *)
(* A flag it offers as the default is not trimmed, and the listen address   *)
(* it asks for after one that is in use may be empty.                       *)
runSetupWizard ==
  {[a EXCEPT !.httpListen = l] : a \in {x \in FlagAnswers : x.region # " "},
                              l \in {"", "127.0.0.1:18080"}}

(* Keys go to attachra.env, with a placeholder in the YAML. *)
HasKeys(a) == a.storage = "s3" /\ (a.access # "" \/ a.secret # "")

generateAttachraYAML(a) ==
  [log_level |-> "info", log_format |-> "text", milter_failure_mode |-> a.failureMode, http_listen |-> a.httpListen,
   public_base_url |-> a.url, storage_driver |-> a.storage,
   database_driver |-> "sqlite", database_path |-> "/var/lib/attachra/attachra.db", policy_path |-> "policy.yaml"]
  @@ (IF a.storage = "fs" THEN [fs_base_dir |-> a.fsBaseDir]
      ELSE [s3_endpoint |-> a.endpoint, s3_region |-> a.region, s3_bucket |-> a.bucket])
  @@ (IF HasKeys(a) THEN [s3_access_key |-> "${ATTACHRA_S3_ACCESS_KEY}", s3_secret_key |-> "${ATTACHRA_S3_SECRET_KEY}"]
      ELSE <<>>)

(* The generated policy has one rule for the domains and a default: it      *)
(* always parses.                                                           *)
generatePolicyYAML(a) == parseDomains(a.domains)

NoEnv == [vars |-> <<>>, set |-> <<>>]

-----------------------------------------------------------------------------
Stopped == [pc |-> "stopped", run |-> 0, todo |-> <<>>, had |-> FALSE, written |-> <<>>,
            verified |-> FALSE]

SetupIdle ==
  /\ disk = [f \in Managed |-> [path |-> Absent, bak |-> Absent]]
  /\ setup = Stopped /\ answers = Good /\ before = [f \in Managed |-> Absent] /\ lost = FALSE

(* Any of the files may be the operator's. *)
SetupInit ==
  /\ \E mine \in SUBSET Managed :
       disk = [f \in Managed |-> [path |-> IF f \in mine THEN Operators ELSE Absent, bak |-> Absent]]
  /\ setup = Stopped /\ answers = Good /\ before = [f \in Managed |-> Absent] /\ lost = FALSE

Runs == setup.pc \notin {"stopped", "failed", "done"}
Goes(pc) == setup' = [setup EXCEPT !.pc = pc]

(* checkNoExistingConfig comes before the prompts. *)
checkNoExistingConfig == \A f \in Managed : ~Exists(disk[f].path)

runSetupCommand(force) ==
  /\ ~Runs /\ setup.run < MaxRuns
  /\ force \/ checkNoExistingConfig
  /\ setup' = [Stopped EXCEPT !.pc = "prompt", !.run = setup.run + 1]
  /\ before' = [f \in Managed |-> disk[f].path] /\ lost' = FALSE
  /\ UNCHANGED <<disk, answers>>

Files(a) == <<"attachra.yaml", "policy.yaml">> \o (IF HasKeys(a) THEN <<"attachra.env">> ELSE <<>>)

(* applySetupAnswers begins: a key that would break attachra.env ends it,   *)
(* as do wrong flags and a directory that cannot be made.                   *)
applySetupAnswers ==
  /\ setup.pc = "prompt"
  /\ \/ \E a \in FlagAnswers \cup runSetupWizard :
          /\ validateEnvSecretValue(a.access) /\ validateEnvSecretValue(a.secret)
          /\ answers' = a /\ setup' = [setup EXCEPT !.pc = "stat", !.todo = Files(a)]
     \/ Goes("stopped") /\ UNCHANGED answers
  /\ UNCHANGED <<disk, before, lost>>

-----------------------------------------------------------------------------
(* writeManagedFile, for the first file of todo. *)

Current == Head(setup.todo)
Set(f, entry) == disk' = [disk EXCEPT ![f] = entry]

(* Mutant: the old file is not moved out of the way. *)
BackedUpInPlace(entry) == entry

BackedUp(entry) == [path |-> Absent, bak |-> entry.path]
Restored(entry) == [path |-> entry.bak, bak |-> Absent]

(* A leftover backup of an earlier run is removed, if that works. *)
StatFile ==
  /\ setup.pc = "stat"
  /\ IF Exists(disk[Current].path)
       THEN /\ Set(Current, [disk[Current] EXCEPT !.bak = Absent]) \/ UNCHANGED disk
            /\ setup' = [setup EXCEPT !.pc = "rename", !.had = TRUE]
       ELSE /\ setup' = [setup EXCEPT !.pc = "create", !.had = FALSE]
            /\ UNCHANGED disk
  /\ UNCHANGED <<answers, before, lost>>

BackUpFile ==
  /\ setup.pc = "rename"
  /\ \/ Set(Current, BackedUp(disk[Current])) /\ Goes("create")
     \/ UNCHANGED disk /\ Goes("rollback")
  /\ UNCHANGED <<answers, before, lost>>

(* os.WriteFile creates the file, then fills it. *)
WriteFails == IF setup.had THEN Goes("restore") ELSE Goes("rollback")

CreateFile ==
  /\ setup.pc = "create"
  /\ \/ Set(Current, [disk[Current] EXCEPT !.path = Generated("part")]) /\ Goes("fill")
     \/ UNCHANGED disk /\ WriteFails
  /\ UNCHANGED <<answers, before, lost>>

FillFile ==
  /\ setup.pc = "fill"
  /\ \/ /\ Set(Current, [disk[Current] EXCEPT !.path = Generated("whole")])
        /\ setup' = [setup EXCEPT !.pc = IF Len(setup.todo) = 1 THEN "verify" ELSE "stat",
                                  !.todo = Tail(@), !.written = Append(@, [file |-> Current, had |-> setup.had])]
     \/ UNCHANGED disk /\ WriteFails
  /\ UNCHANGED <<answers, before, lost>>

(* "Best-effort: restore the original before reporting the write failure." *)
RestoreFile ==
  /\ setup.pc = "restore" /\ Goes("rollback")
  /\ \/ Set(Current, Restored(disk[Current])) /\ UNCHANGED lost
     \/ UNCHANGED disk /\ lost' = TRUE
  /\ UNCHANGED <<answers, before>>

-----------------------------------------------------------------------------
(* config.Load and policy.Parse of what was written, then all or nothing. *)

Verify ==
  /\ setup.pc = "verify"
  /\ \/ Load(generateAttachraYAML(answers), NoEnv).ok /\ generatePolicyYAML(answers)
        /\ setup' = [setup EXCEPT !.pc = "commit", !.verified = TRUE]
     \/ Goes("rollback")
  /\ answers' = Good
  /\ UNCHANGED <<disk, before, lost>>

(* Mutant: what was written is removed, and nothing put back. *)
UndoneRemoved(entry, had) == [entry EXCEPT !.path = Absent]

(* The rollback of one file. *)
Undone(entry, had) == IF had THEN Restored(entry) ELSE [entry EXCEPT !.path = Absent]

Last(s) == s[Len(s)]

rollbackAll ==
  /\ setup.pc = "rollback"
  /\ IF setup.written = <<>>
       THEN Goes("failed") /\ answers' = Good /\ UNCHANGED <<disk, lost>>
       ELSE LET w == Last(setup.written) IN
            /\ setup' = [setup EXCEPT !.written = SubSeq(@, 1, Len(@) - 1)]
            /\ \/ Set(w.file, Undone(disk[w.file], w.had)) /\ UNCHANGED lost
               \/ UNCHANGED disk /\ lost' = TRUE
            /\ UNCHANGED answers
  /\ UNCHANGED before

commitAll ==
  /\ setup.pc = "commit"
  /\ IF setup.written = <<>>
       THEN Goes("done") /\ UNCHANGED disk
       ELSE LET w == Head(setup.written) IN
            /\ setup' = [setup EXCEPT !.written = Tail(@)]
            /\ \/ w.had /\ Set(w.file, [disk[w.file] EXCEPT !.bak = Absent])
               \/ UNCHANGED disk
  /\ UNCHANGED <<answers, before, lost>>

(* The command is killed. *)
Killed ==
  /\ Runs /\ setup' = [Stopped EXCEPT !.run = setup.run, !.verified = setup.verified]
  /\ answers' = Good
  /\ UNCHANGED <<disk, before, lost>>

(* The operator writes a file by hand, also while the command asks. *)
OperatorWrites(f) ==
  /\ setup.pc \in {"stopped", "failed", "done", "prompt"} /\ disk[f].path # Operators
  /\ Set(f, [disk[f] EXCEPT !.path = Operators])
  /\ before' = [before EXCEPT ![f] = Operators]
  /\ UNCHANGED <<setup, answers, lost>>

SetupStep ==
  \/ \E force \in BOOLEAN : runSetupCommand(force)
  \/ applySetupAnswers
  \/ StatFile \/ BackUpFile \/ CreateFile \/ FillFile \/ RestoreFile
  \/ Verify \/ rollbackAll \/ commitAll
  \/ Killed \/ \E f \in Managed : OperatorWrites(f)

-----------------------------------------------------------------------------
(* Properties. *)

Committed(f) == setup.verified /\ disk[f].path = Generated("whole")

(* "NOR destroys a previously valid one": whatever call fails and wherever  *)
(* the command is killed, what a file held when this run began is still at  *)
(* its path or in its backup, until every new file is written and verified. *)
OldConfigNeverLost ==
  \A f \in Managed : Exists(before[f]) => before[f] \in {disk[f].path, disk[f].bak} \/ Committed(f)

(* "a failed verification rolls each one back to its exact prior state"     *)
(* (applySetupAnswers): a run that ended with an error, none of whose       *)
(* best-effort calls failed, left every file as it was.  Only a new file    *)
(* whose own write failed half-way stays.                                   *)
FailedSetupUndone ==
  setup.pc = "failed" /\ ~lost =>
    \A f \in Managed : disk[f].path = before[f] \/ (before[f] = Absent /\ disk[f].path = Generated("part"))

(* attachra setup destroys nothing: neither by dying nor by failing.        *)
SetupSafe == OldConfigNeverLost /\ FailedSetupUndone
=============================================================================
