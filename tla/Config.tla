------------------------------- MODULE Config -------------------------------
(* internal/config: the defaults, the YAML file, the environment, and       *)
(* validation; and what cmd/attachra hands the constructors from the result.*)
(*                                                                          *)
(* A configuration is a record from keys (section_field) to values; a file  *)
(* and the environment are functions from some of the keys.  Strings stand  *)
(* for classes: " " is any blank text, "${...}" a placeholder.              *)
EXTENDS Integers, FiniteSets, TLC

Default ==
  [log_level |-> "info", log_format |-> "text",
   milter_listen |-> "inet:127.0.0.1:6785", milter_failure_mode |-> "open",
   http_listen |-> "127.0.0.1:8080", http_trusted_proxies |-> "", public_base_url |-> "",
   admin_listen |-> "127.0.0.1:18090", admin_fold_into_http |-> FALSE,
   rate_per_ip_per_minute |-> 120, rate_per_ip_burst |-> 20, rate_global_per_minute |-> 6000,
   rate_global_burst |-> 200, rate_not_found_per_minute |-> 20, rate_tarpit_delay |-> 1,
   max_message_size |-> 104857600, max_attachment_size |-> 26214400, max_mime_parts |-> 1000,
   max_mime_depth |-> 20, max_header_bytes |-> 1048576, milter_max_connections |-> 100,
   milter_timeout |-> 30, http_timeout |-> 30, inline_max_size |-> 262144,
   storage_driver |-> "fs", fs_base_dir |-> "./data/attachments", s3_endpoint |-> "",
   s3_region |-> "", s3_bucket |-> "", s3_sse |-> "", s3_access_key |-> "", s3_secret_key |-> "",
   database_driver |-> "sqlite", database_path |-> "./data/attachra.db",
   links_ttl |-> 604800, links_max_downloads |-> 0, links_token_bytes |-> 16, links_retention |-> 2592000,
   retention_enabled |-> TRUE, retention_interval |-> 3600, retention_chunk_size |-> 200,
   retention_audit |-> 0, policy_path |-> "", policy_dry_run |-> FALSE, spool_dir |-> ""]

FlagKeys == {"admin_fold_into_http", "policy_dry_run", "retention_enabled"}
LimitKeys == {"max_message_size", "max_attachment_size", "max_mime_parts", "max_mime_depth", "max_header_bytes",
              "milter_max_connections", "milter_timeout", "http_timeout", "inline_max_size"}
RateKeys == {"rate_per_ip_per_minute", "rate_per_ip_burst", "rate_global_per_minute", "rate_global_burst",
             "rate_not_found_per_minute", "rate_tarpit_delay"}
OtherNumbers == {"links_ttl", "links_max_downloads", "links_token_bytes", "links_retention",
                 "retention_interval", "retention_chunk_size", "retention_audit"}
NumberKeys == LimitKeys \cup RateKeys \cup OtherNumbers
TextKeys == DOMAIN Default \ (FlagKeys \cup NumberKeys)

(* strings.TrimSpace(s) == "" *)
Blank(s) == s \in {"", " "}

(* strings.ToLower, on the spellings that occur. *)
ToLower(s) ==
  CASE s \in {"Closed", "CLOSED"} -> "closed"
    [] s \in {"Open", "OPEN"} -> "open"
    [] s = "INFO" -> "info"
    [] s = "True" -> "true"
    [] OTHER -> s

(* strconv.Atoi, on the texts that occur. *)
Atoi == "0" :> 0 @@ "-1" :> -1 @@ "600" :> 600

-----------------------------------------------------------------------------
(* Load: defaults, then the file, then the environment. *)

(* Only a variable that is set is substituted: "left as-is" otherwise. *)
expandEnv(v, vars) == IF v \in DOMAIN vars THEN vars[v] ELSE v

EnvTexts == {"log_level", "log_format", "milter_listen", "milter_failure_mode", "http_listen", "admin_listen",
             "public_base_url", "storage_driver", "s3_endpoint", "s3_region", "s3_bucket", "s3_access_key",
             "s3_secret_key", "fs_base_dir", "policy_path", "database_driver", "database_path", "spool_dir"}
EnvFlags == {"admin_fold_into_http", "policy_dry_run"}
EnvNumbers == {"rate_per_ip_per_minute", "rate_global_per_minute"}

EnvFlag(v) == ToLower(v) = "true" \/ v = "1"

(* A number that does not parse is ignored (lookupEnvInt). *)
applyEnvOverrides(cfg, set) ==
  [k \in DOMAIN cfg |->
     IF k \notin DOMAIN set THEN cfg[k]
     ELSE IF k \in EnvTexts THEN set[k]
     ELSE IF k \in EnvFlags THEN EnvFlag(set[k])
     ELSE IF k \in EnvNumbers /\ set[k] \in DOMAIN Atoi THEN Atoi[set[k]]
     ELSE cfg[k]]

(* Mutant: an empty admin.listen opts out. *)
ResetAdminListenOptOut(cfg) == IF Blank(cfg.admin_listen) THEN [cfg EXCEPT !.admin_fold_into_http = TRUE] ELSE cfg

(* An empty admin.listen is never an opt-out. *)
ResetAdminListen(cfg) ==
  IF ~cfg.admin_fold_into_http /\ Blank(cfg.admin_listen)
    THEN [cfg EXCEPT !.admin_listen = Default.admin_listen] ELSE cfg

validateLimits(cfg) == \A k \in LimitKeys : cfg[k] > 0
validateRateLimit(cfg) == \A k \in RateKeys : cfg[k] >= 0

validateStorage(cfg) ==
  \/ cfg.storage_driver = "s3" /\ ~Blank(cfg.s3_bucket) /\ ~Blank(cfg.s3_region)
     /\ cfg.s3_sse \in {"", "AES256", "aws:kms"}
  \/ cfg.storage_driver = "fs" /\ ~Blank(cfg.fs_base_dir)

validateDatabase(cfg) == cfg.database_driver = "sqlite" /\ ~Blank(cfg.database_path)

(* Mutant: the minimum of link.MinTokenBytes is not mirrored. *)
validateLinksShort(cfg) ==
  /\ cfg.links_ttl > 0 /\ cfg.links_max_downloads >= 0 /\ cfg.links_token_bytes >= 8
  /\ cfg.links_retention = 0 \/ cfg.links_retention >= cfg.links_ttl

validateLinks(cfg) ==
  /\ cfg.links_ttl > 0 /\ cfg.links_max_downloads >= 0 /\ cfg.links_token_bytes >= 16
  /\ cfg.links_retention = 0 \/ cfg.links_retention >= cfg.links_ttl

validateRetention(cfg) ==
  /\ cfg.retention_audit >= 0
  /\ cfg.retention_enabled => cfg.retention_interval > 0 /\ cfg.retention_chunk_size > 0

(* The directory exists and can be written: a probe file is created in it. *)
validateSpool(cfg) == Blank(cfg.spool_dir) \/ cfg.spool_dir = "/spool"

validateTrustedProxies(cfg) == cfg.http_trusted_proxies \in {"", "10.0.0.0/8"}
validatePublicBaseURL(url) == url = "https://mail"

validMilterFailureModes == {"open", "closed"}

Validate(cfg) ==
  /\ ToLower(cfg.log_level) \in {"debug", "info", "warn", "error"} /\ ToLower(cfg.log_format) \in {"json", "text"}
  /\ ~Blank(cfg.milter_listen) /\ ToLower(cfg.milter_failure_mode) \in validMilterFailureModes
  /\ ~Blank(cfg.http_listen) /\ validateRateLimit(cfg) /\ validateTrustedProxies(cfg)
  /\ ~cfg.admin_fold_into_http => ~Blank(cfg.admin_listen)
  /\ validateLimits(cfg) /\ validateStorage(cfg) /\ validateDatabase(cfg)
  /\ validateLinks(cfg) /\ validateRetention(cfg) /\ validateSpool(cfg)
  /\ cfg.public_base_url = "" \/ validatePublicBaseURL(cfg.public_base_url)

(* env.vars are the variables a placeholder can name, env.set the           *)
(* ATTACHRA_ overrides.                                                     *)
Load(yaml, env) ==
  LET parsed == [k \in DOMAIN Default |->
                   IF k \notin DOMAIN yaml THEN Default[k]
                   ELSE IF k \in TextKeys THEN expandEnv(yaml[k], env.vars) ELSE yaml[k]]
      cfg == ResetAdminListen(applyEnvOverrides(parsed, env.set))
  IN [ok |-> Validate(cfg), cfg |-> cfg]

-----------------------------------------------------------------------------
(* cmd/attachra: what the constructors take from the configuration, and     *)
(* what they insist on.                                                     *)

(* logging.New *)
LoggerAccepts(cfg) ==
  /\ ToLower(cfg.log_level) \in {"debug", "info", "warn", "warning", "error"}
  /\ ToLower(cfg.log_format) \in {"json", "text"}

(* storageConfig, and New of the fs and s3 drivers: an unknown driver gets  *)
(* no configuration.  The directory itself is Server's InitDrivers.         *)
storageConfig(cfg) ==
  \/ cfg.storage_driver = "fs" /\ cfg.fs_base_dir # ""
  \/ cfg.storage_driver = "s3" /\ cfg.s3_bucket # "" /\ cfg.s3_region # ""

(* link.NewEngine: Defaults.Validate *)
LinkDefaultsValidate(cfg) == cfg.links_ttl > 0 /\ cfg.links_max_downloads >= 0 /\ cfg.links_token_bytes >= 16

(* time.NewTicker panics otherwise (watchRetentionCleanup). *)
TickerAccepts(cfg) == cfg.retention_enabled => cfg.retention_interval > 0

ParseTrustedProxies(cfg) == cfg.http_trusted_proxies \in {"", "10.0.0.0/8"}

(* "" folds /metrics and /readyz into the public listener. *)
adminListen(cfg) == IF cfg.admin_fold_into_http THEN "" ELSE cfg.admin_listen
=============================================================================
