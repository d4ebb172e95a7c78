----------------------- MODULE DeployedConfiguration -----------------------
(***************************************************************************)
(* How configuration reaches a task: TOML layers in the repository, rendered *)
(* and validated by ci-cd/sync_secret.py, published to Secrets Manager, and  *)
(* merged by config/secrets_loader.py with the task's environment and .env   *)
(* when a task starts.                                                       *)
(*                                                                          *)
(* Operators run the script concurrently; each run is a describe and a       *)
(* create or a put, any of which may fail, a write also after it took        *)
(* effect.  Configurations are explored as edits of a working one, wherever  *)
(* one can be made.                                                          *)
(***************************************************************************)
EXTENDS ServiceSettings, Functions

CONSTANTS
    Operators,   \* runs of sync_secret.py that may overlap
    Working,     \* the three layers of a working configuration
    Edits,       \* the <<name, value>> pairs an edit may set
    FullEnv,     \* a complete environment, as a developer's .env or shell has it
    MaxEdits,    \* bound: edits in a behaviour
    MaxFaults    \* bound: failed calls in a behaviour

\* Values of TOML and JSON that are no text: the sentinel that removes a key,
\* JSON's null, and a list or table.
Unset == "__UNSET__"
Null == "null"
Nested == "nested"

\* No value of a file is Python's None, and TOML has no null.
ASSUME ConfigurationAssumption ==
    /\ MaxEdits \in Nat /\ MaxFaults \in Nat
    /\ DOMAIN Working = 1 .. 3
    /\ \A i \in 1 .. 3 : \A k \in DOMAIN Working[i] : Working[i][k] \notin {None, Null}
    /\ \A e \in Edits : e[2] # None

VARIABLES
    layers,      \* base.toml, <env>.toml, <env>.secrets.toml: their [app] tables
    aws,         \* whether [aws] is complete
    shell,       \* the environment sync_secret.py is run in
    secret,      \* what Secrets Manager holds, or Missing
    synced,      \* the secret is as a run of sync_secret.py wrote it
    run,         \* each run: where it is, and the payload it rendered
    process,     \* the task definition's environment
    dotenv,      \* the .env in the task's working directory
    task,        \* the task: off, running, rejected by Settings, or crashed in the wiring
    edits, faults

vars == <<layers, aws, shell, secret, synced, run, process, dotenv, task, edits, faults>>

Empty == [k \in {} |-> ""]

\* merged.update(over): what `over` sets replaces or joins.
Updated(env, over) ==
    [k \in DOMAIN env \cup DOMAIN over |-> IF k \in DOMAIN over THEN over[k] ELSE env[k]]

Missing == [k \in {"missing"} |-> ""]

\* The environment that render_secret_bundle prints for the task definition.
BootstrapEnvironment ==
    [APP_ENV |-> "deployed", AWS_REGION |-> "region", SECRET_ID |-> "id"]

Idle == [at |-> "idle", payload |-> Empty]
Off == [at |-> "off", env |-> Empty, from |-> Empty]

Init ==
    /\ layers = Working
    /\ aws = TRUE
    /\ shell \in {Empty, FullEnv}
    /\ secret = Missing
    /\ synced = FALSE
    /\ run = [o \in Operators |-> Idle]
    /\ process \in {BootstrapEnvironment, Updated(FullEnv, BootstrapEnvironment)}
    /\ dotenv \in {Empty, FullEnv}
    /\ task = Off
    /\ edits = 0 /\ faults = 0

-----------------------------------------------------------------------------
(* sync_secret.py *)

\* _merge_app_layers: the last layer that names a key decides, and the sentinel
\* removes it.
AppSecret(l) ==
    LET last(k) == IF k \in DOMAIN l[3] THEN l[3] ELSE IF k \in DOMAIN l[2] THEN l[2] ELSE l[1]
        names == UNION {DOMAIN l[i] : i \in 1 .. 3}
    IN  [k \in {x \in names : last(x)[x] # Unset} |-> last(k)[k]]

\* Faulty variant: the operator's environment is still there.
EnvironOfShell(values) == Updated(shell, values)

\* _isolated_environ: cleared, then filled.
IsolatedEnviron(values) == values

\* What _validate_deployed_settings adds to the payload.
ValidatedWith == [APP_ENV |-> "deployed", AWS_REGION |-> "region"]

\* _merge_app_layers, _validate_secret_app_keys, _load_aws_config and
\* _validate_deployed_settings all pass.
Renders(l) ==
    /\ aws
    /\ \A i \in DOMAIN l : \A k \in DOMAIN l[i] : l[i][k] # Nested
    /\ DOMAIN AppSecret(l) \subseteq AppKeys
    /\ \E env \in {IsolatedEnviron(Updated(ValidatedWith, AppSecret(l)))} : Accepts(env)

At(o, place) == run[o].at = place
Goto(o, place) == run' = [run EXCEPT ![o].at = place]

\* render_secret_bundle; a run that is rejected ends with exit code 1.
Render(o) ==
    /\ At(o, "idle")
    /\ Renders(layers)
    /\ run' = [run EXCEPT ![o] = [at |-> "describing", payload |-> AppSecret(layers)]]
    /\ UNCHANGED <<layers, aws, shell, secret, synced, process, dotenv, task, edits, faults>>

RenderRejected(o) ==
    /\ At(o, "idle")
    /\ ~Renders(layers)
    /\ run' = [run EXCEPT ![o] = [at |-> "failed", payload |-> Empty]]
    /\ UNCHANGED <<layers, aws, shell, secret, synced, process, dotenv, task, edits, faults>>

\* Faulty variant: the secret is taken to be missing.
DescribeSkipped(o) ==
    /\ At(o, "describing")
    /\ Goto(o, "creating")
    /\ UNCHANGED <<layers, aws, shell, secret, synced, process, dotenv, task, edits, faults>>

\* describe_secret: ResourceNotFoundException means create.
Describe(o) ==
    /\ At(o, "describing")
    /\ Goto(o, IF secret = Missing THEN "creating" ELSE "putting")
    /\ UNCHANGED <<layers, aws, shell, secret, synced, process, dotenv, task, edits, faults>>

Store(o) ==
    /\ secret' = run[o].payload
    /\ synced' = TRUE

Put(o) ==
    /\ At(o, "putting")
    /\ Store(o)
    /\ Goto(o, "done")
    /\ UNCHANGED <<layers, aws, shell, process, dotenv, task, edits, faults>>

\* create_secret refuses a name that exists by now.
Create(o) ==
    /\ At(o, "creating")
    /\ IF secret = Missing THEN Store(o) /\ Goto(o, "done")
       ELSE Goto(o, "failed") /\ UNCHANGED <<secret, synced>>
    /\ UNCHANGED <<layers, aws, shell, process, dotenv, task, edits, faults>>

\* A call raises; a write may have taken effect all the same.
CallFails(o) ==
    /\ run[o].at \in {"describing", "putting", "creating"}
    /\ faults < MaxFaults /\ faults' = faults + 1
    /\ \/ UNCHANGED <<secret, synced>>
       \/ At(o, "putting") /\ Store(o)
       \/ At(o, "creating") /\ secret = Missing /\ Store(o)
    /\ Goto(o, "failed")
    /\ UNCHANGED <<layers, aws, shell, process, dotenv, task, edits>>

\* An operator runs the script again while the secret is not what the
\* repository says.
Again(o) ==
    /\ run[o].at \in {"done", "failed"}
    /\ secret # AppSecret(layers)
    /\ run' = [run EXCEPT ![o] = Idle]
    /\ UNCHANGED <<layers, aws, shell, secret, synced, process, dotenv, task, edits, faults>>

-----------------------------------------------------------------------------
(* secrets_loader.py and get_settings, when a task starts *)

\* _secret_scalar_to_str of a scalar.
EnvText(v) == IF v = Null THEN "" ELSE v

SecretLayer(payload) == [k \in DOMAIN payload |-> EnvText(payload[k])]

\* _load_dotenv_layer leaves out blank values.
DotenvLayer(file) == RestrictValues(file, LAMBDA v : v # "")

\* Faulty variant: the process environment has the last word.
MergedProcessLast(initial, file, payload) ==
    Updated(Updated(DotenvLayer(file), SecretLayer(payload)), initial)

\* merge_deployed_secrets_into_environ: .env, then the process, then the secret;
\* bootstrap keys of the process are put back.
Merged(initial, file, payload) ==
    Updated(Updated(Updated(DotenvLayer(file), initial), SecretLayer(payload)),
            Restrict(initial, DOMAIN initial \cap Bootstrap))

Loads(initial, payload) ==
    /\ Text(initial, "SECRET_ID") # ""
    /\ payload # Missing
    /\ \A k \in DOMAIN payload : payload[k] # Nested

Deployed(initial) == Text(initial, "APP_ENV") = "deployed"

\* The environment Settings is built from.  Without APP_ENV=deployed pydantic
\* reads the process and .env, where it accepts only fields of Settings.
BootEnvironment(initial, file, payload) ==
    IF Deployed(initial) THEN Merged(initial, file, payload) ELSE Updated(file, initial)

Boots(initial, file, payload) ==
    /\ IF Deployed(initial) THEN Loads(initial, payload)
       ELSE DOMAIN file \subseteq AppKeys \cup {"APP_ENV"}
    /\ Accepts(BootEnvironment(initial, file, payload))

\* get_settings, then create_runtime_bundle, whose assertions would crash the task.
Boot ==
    LET env == BootEnvironment(process, dotenv, secret)
    IN  /\ task.at = "off"
        /\ task' =
             IF ~Boots(process, dotenv, secret) THEN [at |-> "rejected", env |-> Empty, from |-> Empty]
             ELSE [at |-> IF Builds(Settings(env)) THEN "running" ELSE "crashed", env |-> env,
                   from |-> IF Deployed(process) /\ synced THEN secret ELSE Empty]
        /\ UNCHANGED <<layers, aws, shell, secret, synced, run, process, dotenv, edits, faults>>

\* get_secret_value raises.
BootFails ==
    /\ task.at = "off"
    /\ Deployed(process)
    /\ faults < MaxFaults /\ faults' = faults + 1
    /\ task' = [at |-> "rejected", env |-> Empty, from |-> Empty]
    /\ UNCHANGED <<layers, aws, shell, secret, synced, run, process, dotenv, edits>>

\* ECS replaces the task.
Replace ==
    /\ task.at # "off"
    /\ task' = Off
    /\ UNCHANGED <<layers, aws, shell, secret, synced, run, process, dotenv, edits, faults>>

-----------------------------------------------------------------------------
(* Edits *)

Set(env, e) == Updated(env, [k \in {e[1]} |-> e[2]])

\* TOML has no null.
EditLayer(i, e) ==
    /\ e[2] # Null
    /\ layers' = [layers EXCEPT ![i] = Set(@, e)]
    /\ UNCHANGED <<aws, shell, secret, synced, run, process, dotenv, task, faults>>

BreakAws ==
    /\ aws' = ~aws
    /\ UNCHANGED <<layers, shell, secret, synced, run, process, dotenv, task, faults>>

\* A new revision of the task definition, for the next task.
EditTask(e) ==
    /\ task.at = "off"
    /\ process' = Set(process, e)
    /\ UNCHANGED <<layers, aws, shell, secret, synced, run, dotenv, task, faults>>

\* A value changed by hand in Secrets Manager.
EditSecret(e) ==
    /\ secret # Missing
    /\ secret' = Set(secret, e)
    /\ synced' = FALSE
    /\ UNCHANGED <<layers, aws, shell, run, process, dotenv, task, faults>>

Edit ==
    /\ edits < MaxEdits
    /\ edits' = edits + 1
    /\ \/ \E e \in Edits : (\E i \in 1 .. 3 : EditLayer(i, e)) \/ EditTask(e) \/ EditSecret(e)
       \/ BreakAws

-----------------------------------------------------------------------------
Next ==
    \/ \E o \in Operators :
         \/ Render(o) \/ RenderRejected(o) \/ Describe(o) \/ Put(o) \/ Create(o)
         \/ CallFails(o) \/ Again(o)
    \/ Boot \/ BootFails \/ Replace
    \/ Edit

Spec == Init /\ [][Next]_vars

\* A run of the script goes on, and operators repeat it until it has done its work.
Fairness ==
    \A o \in Operators :
      WF_vars(Render(o) \/ RenderRejected(o) \/ Describe(o) \/ Put(o) \/ Create(o) \/ Again(o))

FairSpec == Spec /\ Fairness

-----------------------------------------------------------------------------
\* A secret that sync_secret.py wrote lets a task with the printed bootstrap
\* environment start, whatever the shell it was rendered in held, however runs
\* overlapped and whichever calls failed.
SyncedSecretBoots == synced => Boots(BootstrapEnvironment, Empty, secret)

\* A task that started from such a secret runs with every value of it: neither the
\* task definition nor a .env left in the image shadows one.
PublishedIsEffective ==
    task.at = "running" => \A k \in DOMAIN task.from : Settings(task.env)[k] = task.from[k]

\* Settings that were accepted, from whatever mixture of sources, satisfy every
\* assertion of the wiring and what the components take for granted; a deployed
\* task never falls back to the plaintext profile.
RunningIsWired ==
    /\ task.at # "crashed"
    /\ task.at = "running" =>
         /\ Sound(Settings(task.env))
         /\ Deployed(task.env) => KafkaProfile(Settings(task.env)) = "aws_msk_iam"

\* Once edits and failures stop, the secret ends up as the repository says, if that
\* renders: no overlap of runs and no half-failed write keeps it from there.
SyncConverges == <>[](Renders(layers) => secret = AppSecret(layers))
=============================================================================
