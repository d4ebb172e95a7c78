-------------------------- MODULE MCConfiguration --------------------------
(***************************************************************************)
(* TLC instance of DeployedConfiguration: a working configuration spread    *)
(* over the three layers, and one-value edits of every kind around it.      *)
(***************************************************************************)
EXTENDS DeployedConfiguration

WorkingLayers ==
    << [KAFKA_MODE |-> "aws_msk", GUARD_TTL |-> "2", GUARD_PREFIX |-> "unscoped"],
       [REDIS_URL |-> "url", KAFKA_SERVERS |-> "url",
        SEQUENCE_PREFIX |-> "scoped", GUARD_PREFIX |-> "scoped"],
       [JWT_MATERIAL |-> "key", AUTH_ENABLED |-> "true"] >>

\* What breaks or moves a value: blanks, values out of range or out of order,
\* another mode, the sentinel, values that are no scalar, keys not allowed.
OneEdit ==
    {<<"REDIS_URL", "">>, <<"REDIS_URL", "other">>, <<"REDIS_URL", Unset>>,
     <<"GUARD_PREFIX", "unscoped">>, <<"GUARD_PREFIX", Unset>>,
     <<"KAFKA_MODE", "local">>, <<"SSL_CA_FILE", "file">>, <<"KAFKA_REGION", "other">>,
     <<"JWT_MATERIAL", Unset>>, <<"JWT_MATERIAL", Null>>, <<"AUTH_ENABLED", "false">>,
     <<"REFRESH_INTERVAL", "2">>, <<"REFRESH_INTERVAL", "1">>, <<"GUARD_TTL", "1">>, <<"GUARD_TTL", "3">>,
     <<"FINAL_TTL", "3">>, <<"FINAL_TTL", "0">>, <<"ACTIVE_TTL", "2">>, <<"ACTIVE_TTL", Nested>>,
     <<"APP_ENV", "local">>, <<"AWS_REGION", "">>, <<"SECRET_ID", "">>, <<"UNKNOWN", "x">>}

\* A developer's complete environment.
DeveloperEnv ==
    [REDIS_URL |-> "dev", KAFKA_SERVERS |-> "dev", SEQUENCE_PREFIX |-> "dev", GUARD_PREFIX |-> "dev",
     KAFKA_MODE |-> "aws_msk", KAFKA_REGION |-> "dev", JWT_MATERIAL |-> "dev",
     GUARD_TTL |-> "3", REFRESH_INTERVAL |-> "1", FINAL_TTL |-> "2"]
=============================================================================
