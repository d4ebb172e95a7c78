-------------------- MODULE DeployedConfigurationProofs --------------------
(***************************************************************************)
(* For any layers, any edits of them, of the task definition and of the     *)
(* secret, any environment and .env, and any number of overlapping runs and *)
(* failed calls: what was published lets a task start, takes effect in it,  *)
(* and settings that were accepted satisfy the wiring.                      *)
(***************************************************************************)
EXTENDS DeployedConfiguration, TLAPS

\* What a field of Settings is: the ones that are looked up below.
LEMMA Fields ==
    /\ AppKeys = Optional \cup {"SEQUENCE_PREFIX", "GUARD_PREFIX", "KAFKA_MODE", "AUTH_ENABLED",
                                "ACTIVE_TTL", "FINAL_TTL", "GUARD_TTL", "REFRESH_INTERVAL"}
    /\ AppKeys \cap Bootstrap = {}
    /\ "missing" \notin AppKeys
<1>1. DOMAIN Default = {"SEQUENCE_PREFIX", "GUARD_PREFIX", "KAFKA_MODE", "AUTH_ENABLED",
                        "ACTIVE_TTL", "FINAL_TTL", "GUARD_TTL", "REFRESH_INTERVAL"}
  BY DEF Default
<1> QED
  BY <1>1 DEF AppKeys, Optional, Bootstrap

\* Settings only reads the fields and the three variables of the bootstrap set
\* that name the environment and the region.
LEMMA AcceptsReads ==
    ASSUME NEW e, NEW f,
           \A k \in AppKeys : Field(e, k) = Field(f, k),
           \A k \in {"APP_ENV", "AWS_REGION", "AWS_DEFAULT_REGION"} : Text(e, k) = Text(f, k),
           Accepts(e)
    PROVE  Accepts(f)
<1> USE Fields DEF Optional, Durations
<1>1. FieldsParse(f)
  BY DEF Accepts, FieldsParse
<1>2. Region(f) = Region(e)
  BY DEF Region
<1>3. RefreshesInTime(f)
  BY DEF Accepts, RulesHold, RefreshesInTime
<1>4. RulesHold(f)
  BY <1>2, <1>3 DEF Accepts, RulesHold
<1> QED
  BY <1>1, <1>4 DEF Accepts

\* _apply_environment_rules implies every assertion of create_runtime_bundle and
\* what the components take for granted.
LEMMA AcceptedIsWired ==
    ASSUME NEW env, Accepts(env)
    PROVE  /\ Builds(Settings(env))
           /\ Sound(Settings(env))
           /\ Deployed(env) => KafkaProfile(Settings(env)) = "aws_msk_iam"
<1> DEFINE s == Settings(env)
<1> USE Fields DEF Optional
<1>1. /\ s["REDIS_URL"] # None /\ s["KAFKA_SERVERS"] # None
      /\ s["KAFKA_MODE"] = Field(env, "KAFKA_MODE")
      /\ s["AUTH_ENABLED"] = Field(env, "AUTH_ENABLED")
      /\ s["JWT_MATERIAL"] = Field(env, "JWT_MATERIAL")
      /\ \A k \in Durations : s[k] = Field(env, k)
      /\ Field(env, "KAFKA_MODE") = "aws_msk" => s["KAFKA_REGION"] = Region(env)
  BY DEF Settings, None, Durations
<1> HIDE DEF s
<1>2. Builds(s)
  BY <1>1 DEF Builds, RedisBuilds, KafkaBuilds, KafkaProfile, Accepts, FieldsParse, RulesHold, None
<1>3. Sound(s)
  BY <1>1 DEF Sound, SigningMaterial, Accepts, FieldsParse, RulesHold, RefreshesInTime, Durations, None
<1>4. Deployed(env) => KafkaProfile(s) = "aws_msk_iam"
  BY <1>1 DEF Deployed, KafkaProfile, Accepts, RulesHold
<1> QED
  BY <1>2, <1>3, <1>4 DEF s

-----------------------------------------------------------------------------
\* What render_secret_bundle lets through: scalars for fields of Settings, that
\* Settings accepts together with what the validation adds.
Publishable(payload) ==
    /\ DOMAIN payload \subseteq AppKeys
    /\ \A k \in DOMAIN payload : payload[k] \notin {Nested, Null, None}
    /\ Accepts(Updated(ValidatedWith, payload))

\* The files hold three tables of texts.
LayersAreText ==
    /\ DOMAIN layers = 1 .. 3
    /\ \A i \in 1 .. 3 : \A k \in DOMAIN layers[i] : layers[i][k] \notin {None, Null}

\* A run that is about to write holds a payload that was rendered, whatever has
\* become of the files since.
RunsHoldRendered ==
    /\ run = [o \in Operators |-> [at |-> run[o].at, payload |-> run[o].payload]]
    /\ \A o \in Operators :
         run[o].at \in {"describing", "putting", "creating"} => Publishable(run[o].payload)

\* So does the secret, until it is changed by hand.
SecretIsRendered == synced => Publishable(secret)

\* A task runs on settings that were accepted.
RunningWasAccepted ==
    /\ task.at # "crashed"
    /\ task.at = "running" => Accepts(task.env)

ConfigurationInv ==
    /\ LayersAreText /\ RunsHoldRendered /\ SecretIsRendered
    /\ RunningWasAccepted /\ PublishedIsEffective

\* Rendering only lets publishable payloads through.
LEMMA RendersPublishable ==
    ASSUME LayersAreText, Renders(layers)
    PROVE  Publishable(AppSecret(layers))
<1> DEFINE p == AppSecret(layers)
<1>1. \A k \in DOMAIN p : \E i \in 1 .. 3 : k \in DOMAIN layers[i] /\ p[k] = layers[i][k]
  BY DEF AppSecret
<1>2. \A i \in 1 .. 3 : \A k \in DOMAIN layers[i] : layers[i][k] \notin {Nested, None, Null}
  BY DEF LayersAreText, Renders
<1>3. \A k \in DOMAIN p : p[k] \notin {Nested, Null, None}
  BY <1>1, <1>2
<1>4. Accepts(Updated(ValidatedWith, p))
  BY DEF Renders, IsolatedEnviron
<1> QED
  BY <1>3, <1>4 DEF Renders, Publishable

\* The merge takes every field the secret sets from the secret: the bootstrap keys
\* that are put back are no fields.
LEMMA SecretDecides ==
    ASSUME NEW initial, NEW file, NEW payload, Publishable(payload)
    PROVE  \A k \in DOMAIN payload : Field(Merged(initial, file, payload), k) = payload[k]
<1> SUFFICES ASSUME NEW k \in DOMAIN payload
             PROVE  Field(Merged(initial, file, payload), k) = payload[k]
  OBVIOUS
<1> DEFINE below == Updated(DotenvLayer(file), initial)
           kept == Restrict(initial, DOMAIN initial \cap Bootstrap)
<1>1. k \notin DOMAIN kept
  BY Fields DEF Publishable, Restrict
<1>2. k \in DOMAIN SecretLayer(payload) /\ SecretLayer(payload)[k] = payload[k]
  BY DEF Publishable, SecretLayer, EnvText
<1> HIDE DEF below, kept
<1>3. /\ k \in DOMAIN Updated(below, SecretLayer(payload))
      /\ Updated(below, SecretLayer(payload))[k] = payload[k]
  BY <1>2 DEF Updated
<1>4. LET env == Updated(Updated(below, SecretLayer(payload)), kept)
      IN  k \in DOMAIN env /\ env[k] = payload[k]
  BY <1>1, <1>3 DEF Updated
<1>5. Merged(initial, file, payload) = Updated(Updated(below, SecretLayer(payload)), kept)
  BY DEF Merged, below, kept
<1> QED
  BY <1>4, <1>5 DEF Field

\* ... and Settings keeps such a value: it substitutes one only for None.
LEMMA PublishedTakesEffect ==
    ASSUME NEW initial, NEW file, NEW payload, Publishable(payload),
           NEW k \in DOMAIN payload
    PROVE  Settings(Merged(initial, file, payload))[k] = payload[k]
<1> DEFINE env == Merged(initial, file, payload)
<1>1. Field(env, k) = payload[k] /\ Field(env, k) # None /\ k \in AppKeys
  BY SecretDecides DEF Publishable
<1> HIDE DEF env
<1>2. k = "KAFKA_REGION" => Region(env) = Field(env, k)
  BY <1>1 DEF Region
<1>3. Settings(env)[k] = Field(env, k)
  BY <1>1, <1>2 DEF Settings
<1> QED
  BY <1>1, <1>3 DEF env

\* What was validated is what a task with the printed environment reads.
LEMMA PublishableBoots ==
    ASSUME NEW payload, Publishable(payload)
    PROVE  Boots(BootstrapEnvironment, Empty, payload)
<1> DEFINE e == Updated(ValidatedWith, payload)
           f == Merged(BootstrapEnvironment, Empty, payload)
<1>1. Deployed(BootstrapEnvironment)
  BY DEF Deployed, Text, BootstrapEnvironment
<1>2. Loads(BootstrapEnvironment, payload)
  <2>1. DOMAIN Missing = {"missing"}
    BY DEF Missing
  <2>2. payload # Missing
    BY <2>1, Fields DEF Publishable
  <2> QED
    BY <2>2 DEF Loads, Text, BootstrapEnvironment, Publishable
<1>3. /\ DOMAIN e = {"APP_ENV", "AWS_REGION"} \cup DOMAIN payload
      /\ \A k \in DOMAIN e : e[k] = IF k \in DOMAIN payload THEN payload[k] ELSE ValidatedWith[k]
  BY DEF Updated, ValidatedWith
<1>4. /\ DOMAIN f = {"APP_ENV", "AWS_REGION", "SECRET_ID"} \cup DOMAIN payload
      /\ f["APP_ENV"] = "deployed" /\ f["AWS_REGION"] = "region"
  <2>1. DOMAIN DotenvLayer(Empty) = {}
    BY DEF DotenvLayer, RestrictValues, Restrict, Empty
  <2>2. DOMAIN BootstrapEnvironment = {"APP_ENV", "AWS_REGION", "SECRET_ID"}
    BY DEF BootstrapEnvironment
  <2>3. DOMAIN BootstrapEnvironment \cap Bootstrap = {"APP_ENV", "AWS_REGION", "SECRET_ID"}
    BY <2>2 DEF Bootstrap
  <2>4. DOMAIN SecretLayer(payload) = DOMAIN payload
    BY DEF SecretLayer
  <2> QED
    BY <2>1, <2>2, <2>3, <2>4 DEF Merged, Updated, Restrict, BootstrapEnvironment
<1>5. \A k \in DOMAIN payload : Field(f, k) = payload[k]
  BY SecretDecides
<1>6. \A k \in AppKeys : Field(e, k) = Field(f, k)
  BY <1>3, <1>4, <1>5, Fields DEF Field, Bootstrap
<1>7. \A k \in {"APP_ENV", "AWS_REGION", "AWS_DEFAULT_REGION"} : Text(e, k) = Text(f, k)
  <2>1. \A k \in Bootstrap : k \notin DOMAIN payload
    BY Fields DEF Publishable
  <2> QED
    BY <1>3, <1>4, <2>1 DEF Text, ValidatedWith, Bootstrap
<1>8. Accepts(f)
  <2> HIDE DEF e, f
  <2> QED
    BY <1>6, <1>7, AcceptsReads DEF Publishable, e
<1> QED
  BY <1>1, <1>2, <1>8 DEF Boots, BootEnvironment

-----------------------------------------------------------------------------
\* Nothing is published and no task has started.
LEMMA ConfigurationInit == Init => ConfigurationInv
<1> SUFFICES ASSUME Init PROVE ConfigurationInv
  OBVIOUS
<1>1. LayersAreText
  BY ConfigurationAssumption DEF Init, LayersAreText
<1>2. RunsHoldRendered
  BY DEF Init, RunsHoldRendered, Idle
<1>3. RunningWasAccepted /\ PublishedIsEffective
  BY DEF Init, RunningWasAccepted, PublishedIsEffective, Off
<1> QED
  BY <1>1, <1>2, <1>3 DEF Init, ConfigurationInv, SecretIsRendered

\* A run that moves on keeps its payload, and may write only what was rendered.
LEMMA GotoKeepsRendered ==
    ASSUME NEW o \in Operators, NEW place, RunsHoldRendered, Goto(o, place),
           place \in {"describing", "putting", "creating"} => Publishable(run[o].payload)
    PROVE  RunsHoldRendered'
BY DEF RunsHoldRendered, Goto

\* Every step of a run of sync_secret.py keeps the invariant.
LEMMA RunStep ==
    ASSUME NEW o \in Operators, ConfigurationInv,
           \/ Render(o) \/ RenderRejected(o) \/ Describe(o) \/ Put(o) \/ Create(o)
           \/ CallFails(o) \/ Again(o)
    PROVE  ConfigurationInv'
<1> USE DEF ConfigurationInv
<1>0. /\ UNCHANGED <<layers, task>>
      /\ LayersAreText' /\ RunningWasAccepted' /\ PublishedIsEffective'
  BY DEF Render, RenderRejected, Describe, Put, Create, CallFails, Again,
     LayersAreText, RunningWasAccepted, PublishedIsEffective
<1>1. CASE Render(o)
  <2>1. Publishable(AppSecret(layers))
    BY <1>1, RendersPublishable DEF Render
  <2>2. RunsHoldRendered'
    BY <1>1, <2>1 DEF Render, RunsHoldRendered
  <2> QED
    BY <1>0, <1>1, <2>2 DEF Render, SecretIsRendered
<1>2. CASE RenderRejected(o)
  <2>1. RunsHoldRendered'
    BY <1>2 DEF RenderRejected, RunsHoldRendered
  <2> QED
    BY <1>0, <1>2, <2>1 DEF RenderRejected, SecretIsRendered
<1>3. CASE Describe(o)
  <2>1. RunsHoldRendered'
    BY <1>3, GotoKeepsRendered DEF Describe, At, RunsHoldRendered
  <2> QED
    BY <1>0, <1>3, <2>1 DEF Describe, SecretIsRendered
<1>4. ASSUME At(o, "putting") \/ At(o, "creating"), Store(o)
      PROVE  SecretIsRendered'
  BY <1>4 DEF At, Store, RunsHoldRendered, SecretIsRendered
<1>5. CASE Put(o)
  <2>1. RunsHoldRendered'
    BY <1>5, GotoKeepsRendered DEF Put
  <2> QED
    BY <1>0, <1>4, <1>5, <2>1 DEF Put
<1>6. CASE Create(o)
  <2>1. RunsHoldRendered'
    BY <1>6, GotoKeepsRendered DEF Create
  <2>2. SecretIsRendered'
    BY <1>4, <1>6 DEF Create, SecretIsRendered
  <2> QED
    BY <1>0, <2>1, <2>2
<1>7. CASE CallFails(o)
  <2>1. RunsHoldRendered'
    BY <1>7, GotoKeepsRendered DEF CallFails
  <2>2. SecretIsRendered'
    BY <1>4, <1>7 DEF CallFails, SecretIsRendered
  <2> QED
    BY <1>0, <2>1, <2>2
<1>8. CASE Again(o)
  <2>1. RunsHoldRendered'
    BY <1>8 DEF Again, RunsHoldRendered, Idle
  <2> QED
    BY <1>0, <1>8, <2>1 DEF Again, SecretIsRendered
<1> QED
  BY <1>1, <1>2, <1>3, <1>5, <1>6, <1>7, <1>8

\* A task starts: on accepted settings, which hold the secret's values.
LEMMA BootStep ==
    ASSUME ConfigurationInv, Boot
    PROVE  ConfigurationInv'
<1> USE DEF ConfigurationInv
<1> DEFINE env == BootEnvironment(process, dotenv, secret)
           from == IF Deployed(process) /\ synced THEN secret ELSE Empty
<1>1. LayersAreText' /\ RunsHoldRendered' /\ SecretIsRendered'
  BY DEF Boot, LayersAreText, RunsHoldRendered, SecretIsRendered
<1>2. CASE ~Boots(process, dotenv, secret)
  BY <1>1, <1>2 DEF Boot, RunningWasAccepted, PublishedIsEffective
<1>3. CASE Boots(process, dotenv, secret)
  <2>1. Accepts(env) /\ Builds(Settings(env))
    BY <1>3, AcceptedIsWired DEF Boots
  <2>2. task' = [at |-> "running", env |-> env, from |-> from]
    BY <1>3, <2>1 DEF Boot
  <2>3. \A k \in DOMAIN from : Settings(env)[k] = from[k]
    <3>1. CASE Deployed(process) /\ synced
      <4>1. env = Merged(process, dotenv, secret) /\ from = secret
        BY <3>1 DEF BootEnvironment
      <4> QED
        BY <3>1, <4>1, PublishedTakesEffect DEF SecretIsRendered
    <3>2. CASE ~(Deployed(process) /\ synced)
      BY <3>2 DEF Empty
    <3> QED
      BY <3>1, <3>2
  <2> HIDE DEF env, from
  <2>4. RunningWasAccepted' /\ PublishedIsEffective'
    BY <2>1, <2>2, <2>3 DEF RunningWasAccepted, PublishedIsEffective
  <2> QED
    BY <1>1, <2>4
<1> QED
  BY <1>2, <1>3

\* Edits of files, task definition and secret keep the invariant: one of the secret
\* by hand is no longer the script's.
LEMMA EditStep ==
    ASSUME ConfigurationInv, Edit
    PROVE  ConfigurationInv'
<1> USE DEF ConfigurationInv
<1>1. UNCHANGED <<run, task>> /\ RunsHoldRendered' /\ RunningWasAccepted' /\ PublishedIsEffective'
  BY DEF Edit, EditLayer, EditTask, EditSecret, BreakAws,
     RunsHoldRendered, RunningWasAccepted, PublishedIsEffective
<1>2. ASSUME NEW e \in Edits, NEW i \in 1 .. 3, EditLayer(i, e) PROVE ConfigurationInv'
  <2>1. \A k \in DOMAIN Set(layers[i], e) : Set(layers[i], e)[k] \notin {None, Null}
    BY <1>2, ConfigurationAssumption DEF EditLayer, LayersAreText, Set, Updated
  <2>2. /\ DOMAIN layers' = DOMAIN layers /\ layers'[i] = Set(layers[i], e)
        /\ \A j \in 1 .. 3 : j # i => layers'[j] = layers[j]
    BY <1>2 DEF EditLayer, LayersAreText
  <2>3. LayersAreText'
    BY <2>1, <2>2 DEF LayersAreText
  <2> QED
    BY <1>1, <1>2, <2>3 DEF EditLayer, SecretIsRendered
<1>3. ASSUME NEW e \in Edits, EditTask(e) PROVE ConfigurationInv'
  BY <1>1, <1>3 DEF EditTask, LayersAreText, SecretIsRendered
<1>4. ASSUME NEW e \in Edits, EditSecret(e) PROVE ConfigurationInv'
  BY <1>1, <1>4 DEF EditSecret, LayersAreText, SecretIsRendered
<1>5. CASE BreakAws
  BY <1>1, <1>5 DEF BreakAws, LayersAreText, SecretIsRendered
<1> QED
  BY <1>2, <1>3, <1>4, <1>5 DEF Edit

\* The invariant holds throughout.
LEMMA ConfigurationInvariance == Spec => []ConfigurationInv
<1>1. ConfigurationInv /\ [Next]_vars => ConfigurationInv'
  <2> SUFFICES ASSUME ConfigurationInv, [Next]_vars PROVE ConfigurationInv'
    OBVIOUS
  <2> USE DEF ConfigurationInv
  <2>1. CASE BootFails
    BY <2>1 DEF BootFails, LayersAreText, RunsHoldRendered, SecretIsRendered,
       RunningWasAccepted, PublishedIsEffective
  <2>2. CASE Replace
    BY <2>2 DEF Replace, Off, LayersAreText, RunsHoldRendered, SecretIsRendered,
       RunningWasAccepted, PublishedIsEffective
  <2>3. CASE UNCHANGED vars
    BY <2>3 DEF vars, LayersAreText, RunsHoldRendered, SecretIsRendered,
       RunningWasAccepted, PublishedIsEffective
  <2> QED
    BY <2>1, <2>2, <2>3, RunStep, BootStep, EditStep DEF Next
<1> QED
  BY <1>1, ConfigurationInit, PTL DEF Spec

-----------------------------------------------------------------------------
\* sync_secret.py validates in an isolated environment exactly what a task with the
\* printed environment will read, so a secret it wrote always starts one.
THEOREM SyncedSecretAlwaysBoots == Spec => []SyncedSecretBoots
<1>1. ConfigurationInv => SyncedSecretBoots
  BY PublishableBoots DEF ConfigurationInv, SecretIsRendered, SyncedSecretBoots
<1> QED
  BY <1>1, ConfigurationInvariance, PTL

\* merge_deployed_secrets_into_environ: no task definition and no .env shadows a
\* published value.
THEOREM PublishedAlwaysEffective == Spec => []PublishedIsEffective
BY ConfigurationInvariance, PTL DEF ConfigurationInv

\* Settings: what it accepts never trips an assertion of create_runtime_bundle, and
\* a deployed task always speaks to MSK with IAM.
THEOREM RunningAlwaysWired == Spec => []RunningIsWired
<1>1. ConfigurationInv => RunningIsWired
  BY AcceptedIsWired DEF ConfigurationInv, RunningWasAccepted, RunningIsWired
<1> QED
  BY <1>1, ConfigurationInvariance, PTL
=============================================================================
