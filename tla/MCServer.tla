------------------------------ MODULE MCServer ------------------------------
(* An instance of Command for TLC: the second version of the policy file    *)
(* does not validate, and the configuration files and environments set one  *)
(* key, or two of one section.                                              *)
EXTENDS Command

MCBroken == {2}

TextValues(k) ==
  CASE k \in {"log_level"} -> {"", "INFO", "loud"}
    [] k = "log_format" -> {"json", "xml"}
    [] k = "milter_failure_mode" -> {"", "Closed"}
    [] k = "public_base_url" -> {"https://mail", "mail"}
    [] k = "http_trusted_proxies" -> {"10.0.0.0/8", "proxy"}
    [] k = "storage_driver" -> {"fs", "s3", "tape"}
    [] k = "s3_sse" -> {"AES256", "none"}
    [] k = "database_driver" -> {"sqlite", "postgres"}
    [] k = "spool_dir" -> {"/spool", "/missing"}
    [] OTHER -> {"", " ", "${NAME}", "x"}

YamlValues(k) ==
  IF k \in FlagKeys THEN BOOLEAN ELSE IF k \in NumberKeys THEN {-1, 0, 8, 16} ELSE TextValues(k)
EnvValues(k) ==
  IF k \in EnvFlags THEN {"True", "1", "yes", ""}
  ELSE IF k \in EnvNumbers THEN {"-1", "0", "600", "many"} ELSE TextValues(k)

One(keys, Values(_)) == UNION {{k :> v : v \in Values(k)} : k \in keys}
Two(keys, Values(_)) == {a @@ b : a, b \in One(keys, Values)}

Admin == {"admin_listen", "admin_fold_into_http"}
Links == {"links_ttl", "links_max_downloads", "links_token_bytes", "links_retention"}
Retain == {"retention_enabled", "retention_interval", "retention_chunk_size"}
S3 == {"s3_region", "s3_bucket"}

MCYamls ==
  {<<>>} \cup One(DOMAIN Default, YamlValues) \cup Two(Admin, YamlValues) \cup Two(Links, YamlValues)
  \cup Two(Retain, YamlValues) \cup {("storage_driver" :> "s3") @@ f : f \in Two(S3, YamlValues)}

EnvSets == {<<>>} \cup One(EnvTexts \cup EnvFlags \cup EnvNumbers, EnvValues)
Env(set) == [vars |-> "${NAME}" :> "", set |-> set]

MCInputs ==
  [yaml : MCYamls, env : {NoEnv, Env(<<>>)}] \cup [yaml : {<<>>}, env : {Env(s) : s \in EnvSets}]
  \cup [yaml : Two(Admin, YamlValues), env : {Env(s) : s \in Two(Admin, EnvValues)}]
=============================================================================
