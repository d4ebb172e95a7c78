-------------------------- MODULE ServiceSettings --------------------------
(***************************************************************************)
(* Settings (config/settings.py): from an environment to validated          *)
(* settings, and what the wiring takes for granted about them.              *)
(*                                                                         *)
(* An environment is a function from the names it sets to texts.  Names     *)
(* stand for the variables whose values depend on one another or on APP_ENV *)
(* (the others are checked on their own); texts for the classes of values   *)
(* the validators tell apart.  "" is any blank text.                        *)
(***************************************************************************)
EXTENDS Naturals

\* DEPLOYED_BOOTSTRAP_ENV_KEYS
Bootstrap == {"APP_ENV", "SECRET_ID", "AWS_REGION", "AWS_DEFAULT_REGION"}

\* Variables whose default is None, and those that have one.
Optional == {"REDIS_URL", "KAFKA_SERVERS", "KAFKA_REGION", "SSL_CA_FILE", "JWT_MATERIAL"}

\* Seconds, scaled down: only their order matters.
Default ==
    [SEQUENCE_PREFIX |-> "unscoped", GUARD_PREFIX |-> "unscoped",
     KAFKA_MODE |-> "local", AUTH_ENABLED |-> "false",
     ACTIVE_TTL |-> "3", FINAL_TTL |-> "1", GUARD_TTL |-> "2", REFRESH_INTERVAL |-> "1"]

Seconds == [x \in {"0", "1", "2", "3"} |->
              CASE x = "0" -> 0 [] x = "1" -> 1 [] x = "2" -> 2 [] x = "3" -> 3]

Durations == {"ACTIVE_TTL", "FINAL_TTL", "GUARD_TTL", "REFRESH_INTERVAL"}

\* The fields of Settings that can come from the secret.
AppKeys == Optional \cup DOMAIN Default

None == "None"

-----------------------------------------------------------------------------
\* A field's value: the text, or the default of one that is not set.
Field(env, k) ==
    IF k \in DOMAIN env THEN env[k]
    ELSE IF k \in Optional THEN None ELSE Default[k]

\* os.environ.get(name, "").strip()
Text(env, k) == IF k \in DOMAIN env THEN env[k] ELSE ""

\* Each field on its own: types, ranges, no blank text.
FieldsParse(env) ==
    /\ \A k \in Optional \cup {"SEQUENCE_PREFIX", "GUARD_PREFIX"} : Field(env, k) # ""
    /\ Field(env, "KAFKA_MODE") \in {"local", "aws_msk"}
    /\ Field(env, "AUTH_ENABLED") \in {"true", "false"}
    /\ \A k \in Durations : Field(env, k) \in DOMAIN Seconds /\ Seconds[Field(env, k)] > 0
    /\ Text(env, "APP_ENV") \in {"local", "deployed"}

\* Faulty variant: the comparison lets both be equal.
RefreshesAtExpiry(env) ==
    Seconds[Field(env, "REFRESH_INTERVAL")] <= Seconds[Field(env, "GUARD_TTL")]

\* The refresh comes before the guard expires.
RefreshesInTime(env) ==
    Seconds[Field(env, "REFRESH_INTERVAL")] < Seconds[Field(env, "GUARD_TTL")]

\* The region of the Kafka profile: its own, or the task's.
Region(env) ==
    IF Field(env, "KAFKA_REGION") # None THEN Field(env, "KAFKA_REGION")
    ELSE IF Text(env, "AWS_REGION") # "" THEN Text(env, "AWS_REGION")
    ELSE IF Text(env, "AWS_DEFAULT_REGION") # "" THEN Text(env, "AWS_DEFAULT_REGION")
    ELSE None

\* _apply_environment_rules
RulesHold(env) ==
    /\ Text(env, "APP_ENV") = "deployed" =>
         /\ Field(env, "REDIS_URL") # None /\ Field(env, "KAFKA_SERVERS") # None
         /\ Field(env, "SEQUENCE_PREFIX") # "unscoped" /\ Field(env, "GUARD_PREFIX") # "unscoped"
         /\ Field(env, "KAFKA_MODE") = "aws_msk"
    /\ Seconds[Field(env, "FINAL_TTL")] <= Seconds[Field(env, "ACTIVE_TTL")]
    /\ RefreshesInTime(env)
    /\ Field(env, "AUTH_ENABLED") = "true" => Field(env, "JWT_MATERIAL") # None
    /\ Field(env, "KAFKA_MODE") = "local" => Field(env, "SSL_CA_FILE") = None
    /\ Field(env, "KAFKA_MODE") = "aws_msk" => Region(env) # None

Accepts(env) == FieldsParse(env) /\ RulesHold(env)

\* The settings of an accepted environment.
Settings(env) ==
    [k \in AppKeys |->
       CASE k = "REDIS_URL" /\ Field(env, k) = None -> "local"
         [] k = "KAFKA_SERVERS" /\ Field(env, k) = None -> "local"
         [] k = "KAFKA_REGION" /\ Field(env, "KAFKA_MODE") = "aws_msk" -> Region(env)
         [] OTHER -> Field(env, k)]

-----------------------------------------------------------------------------
(* The wiring: what create_runtime_bundle makes of settings *)

\* create_shared_redis_client and its two siblings assert the URL.
RedisBuilds(s) == s["REDIS_URL"] # None

\* kafka_connection_for_mode raises without a region for MSK.
KafkaProfile(s) ==
    CASE s["KAFKA_MODE"] = "local" -> "local_plaintext"
      [] s["KAFKA_MODE"] = "aws_msk" /\ s["KAFKA_REGION"] # None -> "aws_msk_iam"
      [] OTHER -> None

KafkaBuilds(s) == s["KAFKA_SERVERS"] # None /\ KafkaProfile(s) # None

\* create_auth_backend: `auth_jwt_signing_material or ""'.
SigningMaterial(s) ==
    IF s["AUTH_ENABLED"] # "true" THEN None
    ELSE IF s["JWT_MATERIAL"] = None THEN "" ELSE s["JWT_MATERIAL"]

Builds(s) == RedisBuilds(s) /\ KafkaBuilds(s)

\* What the components take for granted beyond that: a verifier has a key, the
\* final TTL shortens the sequence key's, the lease outlives its refresh interval.
Sound(s) ==
    /\ SigningMaterial(s) # ""
    /\ Seconds[s["FINAL_TTL"]] <= Seconds[s["ACTIVE_TTL"]]
    /\ Seconds[s["REFRESH_INTERVAL"]] < Seconds[s["GUARD_TTL"]]
=============================================================================
