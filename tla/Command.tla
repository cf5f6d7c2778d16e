------------------------------ MODULE Command -------------------------------
(* cmd/attachra: run() dispatches on its arguments.  `setup` is Setup.tla;  *)
(* without a subcommand run() loads the configuration (Config.tla) and, if  *)
(* that is valid, becomes the server (Server.tla).                          *)
EXTENDS Server, Setup

CONSTANT Inputs   \* pairs of a configuration file and an environment

VARIABLES
  command,   \* the command, and how far run() is with the server's
  input,     \* the file and the environment
  loaded     \* config.Load's answer

commandVars == <<command, input, loaded>>
allVars == <<vars, setupVars, commandVars>>

NoInput == [yaml |-> <<>>, env |-> NoEnv]
NotLoaded == [ok |-> FALSE, cfg |-> Default]

CommandInit ==
  /\ \/ command = "setup" /\ input = NoInput /\ SetupInit
     \/ command = "load" /\ input \in Inputs /\ SetupIdle
  /\ loaded = NotLoaded
  /\ config = [policy |-> FALSE, retention |-> FALSE] /\ file = 1 /\ main = "off" /\ Fresh

(* A file that cannot be read or is not YAML ends the command like one that *)
(* does not validate.                                                       *)
LoadConfig ==
  /\ command = "load"
  /\ loaded' = Load(input.yaml, input.env)
  /\ command' = IF loaded'.ok THEN "loaded" ELSE "refused"
  /\ UNCHANGED <<vars, setupVars, input>>

(* run() goes on with what it loaded; the constructors' own checks are      *)
(* AcceptedStarts.  The policy file has whatever version it has.            *)
Serve ==
  /\ command = "loaded" /\ command' = "serve"
  /\ config' = [policy |-> loaded.cfg.policy_path # "", retention |-> loaded.cfg.retention_enabled]
  /\ file' \in {1} \cup Broken /\ main' = "open"
  /\ input' = NoInput /\ loaded' = NotLoaded
  /\ UNCHANGED <<defers, failed, ctx, storeOpen, current, asked, hup, watched, reload, sweeper, adapterVars, setupVars>>

Ended == command = "refused" \/ (command = "setup" /\ ~Runs)

CommandNext ==
  \/ LoadConfig \/ Serve
  \/ command = "serve" /\ Next /\ UNCHANGED <<setupVars, commandVars>>
  \/ command = "setup" /\ SetupStep /\ UNCHANGED <<vars, commandVars>>
  \/ Ended /\ UNCHANGED allVars

CommandSpec == CommandInit /\ [][CommandNext]_allVars /\ Fairness /\ WF_allVars(LoadConfig \/ Serve)

-----------------------------------------------------------------------------
(* Properties. *)

(* "the ONLY way to produce an empty adminListen here is                    *)
(* cfg.Admin.FoldIntoHTTP being true" (main.go): whatever the file and the  *)
(* environment say of admin.listen, /metrics and /readyz move to the public *)
(* listener only if the last word on fold_into_http asked for it.           *)
AdminExplicit ==
  command = "loaded" /\ Blank(adminListen(loaded.cfg)) =>
    LET k == "admin_fold_into_http" IN
    IF k \in DOMAIN input.env.set THEN EnvFlag(input.env.set[k]) ELSE k \in DOMAIN input.yaml /\ input.yaml[k]

(* A configuration Validate accepts is one the constructors accept:         *)
(* config.go repeats their checks because it may not import them.           *)
AcceptedStarts ==
  command = "loaded" =>
    /\ LoggerAccepts(loaded.cfg) /\ storageConfig(loaded.cfg) /\ LinkDefaultsValidate(loaded.cfg)
    /\ TickerAccepts(loaded.cfg) /\ ParseTrustedProxies(loaded.cfg)

(* What Load accepts starts, and exposes no more than was asked for.        *)
ConfigSound == AdminExplicit /\ AcceptedStarts
=============================================================================
