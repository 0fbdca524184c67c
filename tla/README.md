# A formal model of db-mcp-server

db-mcp-server is an MCP server that lets an agent look at the metadata of
configured databases (SQL Server, Snowflake, Databricks) and run queries on
them, under a policy. This directory holds TLA+ modules of its core, the TLC
configurations that check them and proofs for TLAPS. Paths below are relative to
`src/db_mcp_server/` of the repository; every modelled definition is listed
with its lines in `PROJECT.json` under `map`.

## 1. The system

| part | state it keeps | operations | right when |
|---|---|---|---|
| MCP tools (`server.py`) | none between calls | seven tools; resources and prompts | each call validates before it touches anything, is audited and answered consistently |
| Query service (`services/query_service.py`) | locals of a call: options, validated request, adapter, result | `run_query`, `explain_query` | the adapter works under what was approved; each execution is audited; nothing runs twice |
| Metadata service (`services/metadata_service.py`) | none | `list_schemas`, `list_tables`, `describe_table` | failures to reach a connection have one code; nothing is lost between adapter and caller |
| Validation service (`services/validation_service.py`) | the configuration | `validate_query_request`, `validate_metadata_request` | connection, parser, policy, limits, in this order |
| SQL parser, policy, limits, errors (`safety/`) | none | pure functions | only admissible statements pass; codes are stable |
| Connection registry (`services/connection_registry.py`) | configuration, factories given to it, factories it has imported | describe a connection, resolve secrets, create an adapter per call | secrets are read for admitted requests only; an adapter is whole or there is none; failures surface |
| Secrets (`config/secrets.py`) | the environment | resolve a variable | missing and empty variables are errors that do not leak |
| Audit service (`services/audit_service.py`) | the log | `success`, `failure` | the log tells what the callers were told |
| Adapters (`adapters/`) | an engine with a pool, or a client, per adapter; connections while they work, and in the pool until the adapter is collected | `test_connection`, three metadata operations, `run_query`, `explain_query` | results are complete or marked; connections come back; plans are not executed; fallbacks mix nothing; a listing is the database of one moment |
| Configuration (`config/models.py`, `config/loader.py`, `main.py`) | read once per process | load | a file that cannot be used stops the start |
| Drivers (`drivers/`) | a client | open a connection | - |
| Not wired in | | `mcp/`, `adapters/sqlalchemy_base.py`, most of `services/result_formatter.py`, `util/retry.py` (empty) | - |

A tool calls a service; the service calls the validation service (which calls
parser, policy and limits), then the registry (which reads secrets and calls an
adapter factory), then the adapter; results and exceptions come back the same
way. An exception is turned into a coded error where it is first caught and
passes up to three `except` clauses. There are no callbacks and no threads: the
tools are synchronous functions on one event loop, so a call is served from
arrival to answer before the next one starts. What is hard is therefore not the
interleaving of calls but

* the order of steps inside a call and which version of a value each step uses
  (what was asked for, what was approved);
* the many places where a call can fail, with something already done: a secret
  read, a statement executed, an event written;
* the death of the process between two steps, of which the backend and the audit
  log know more than the caller;
* fallback chains, in which a failure is not the end;
* a factory of unknown signature that is called in six ways, in which an exception
  from inside counts as a wrong signature;
* adapters and pools that outlive their call, and sessions left in another mode;
* databases that other sessions change between two statements of one call;
* backends that do not answer: no timeout is ever set.

`PROJECT.json` lists the hazards at their lines under `hazards`.

## 2. Modules

| module | models | rests on |
|---|---|---|
| `ErrorModel` | `safety/errors.py` | - |
| `SqlPolicy` | `safety/sql_parser.py`, `policies.py`, `limits.py` | `ErrorModel` |
| `ResultShape` | what adapters and query service make of a reply | `SqlPolicy` |
| `QueryPipeline` | a call of `run_query` or `explain_query`, step by step | `ResultShape` |
| `QueryProperties` | its properties and its inductive invariants | `QueryPipeline`, `CallContract`, `AdapterPhases` |
| `CallContract` | abstract: what a caller may rely on | - |
| `AdapterFactory` | secrets of a connection, factories and the ways to call them | `ErrorModel` |
| `AdapterCalls` | start of the process, registry and adapter of one call after the other | `AdapterFactory` |
| `AdapterProperties` | its properties and its inductive invariant | `AdapterCalls`, `AdapterPhases` |
| `AdapterPhases` | abstract: what `QueryPipeline` and `AdapterCalls` have in common | - |
| `MetadataSources` | the chain of information schemas of Databricks | - |
| `MetadataTools` | the five metadata tools down to the adapters' statements | `SqlPolicy`, `MetadataSources` |
| `MetadataProperties` | its properties and its inductive invariants | `MetadataTools` |
| `Listings` | conditions and rows of the metadata statements on a database that changes | `MetadataSources` |
| `ListingProperties` | its properties and its inductive invariant | `Listings` |
| `ErrorModelProofs`, `QueryPipelineProofs`, `QueryAuditProofs`, `AdapterProofs`, `MetadataProofs`, `MetadataPlanProofs`, `FetchProofs`, `ListingProofs` | theorems | the modules of properties |
| `MCQueryPipeline`, `MCAdapterCalls`, `MCMetadata`, `MCListings` | values of the constants for TLC | |

The pipeline, the adapters and the metadata tools are modules of their own: they
never run at the same time, as one call is served after the other. What
composes them is refinement. `AdapterPhases` is the part of `QueryPipeline`
between validation and normalization, and `QueryPipeline` is shown to implement it:
what it takes for granted is the module's seven phases and nothing else.
`AdapterCalls` replaces each of their steps by the steps it consists of and is shown
to implement the same module. `CallContract` is what
`QueryPipeline` as a whole is shown to implement.

### Errors and policy

An exception is a record: a typed error with its code, or a foreign exception
with the set of word groups that occur in its name and text. The order in which
`classify_exception` searches the groups is kept (`NeedleOrder`). A SQL text is
a member of `Texts` and sqlglot is the constant function `Parsed` from texts to
sequences of nodes; a node carries its class, the leading word of an
`exp.Command`, and, for the properties only, whether it changes anything.
Classification, policy and limits are operators in the order of the code's
checks. `MCParsed` gives sqlglot's answers in the version the lock file pins,
among them that `TRUNCATE TABLE` is a `TruncateTable` node.

### QueryPipeline

`stage` is the position in `QueryService.run_query` / `explain_query`; the
other variables are its locals (`options` is `execution_options`, `validated`,
`error`, `result`) and histories: requests (`calls`), calls whose secrets were
read (`touched`), statements sent with their replies (`sent`), the audit log and
the answers.

| action | code |
|---|---|
| `Receive` | the tool, `_resolve_query_options` |
| `ValidationPasses`, `ValidationRefuses` | `validate_query_request`, `_execution_options_from_validation` |
| `ResolveSecrets` | `resolve_secrets` inside `create_adapter` |
| `BuildAdapter`, `BuildFails` | `_invoke_factory` and the engine or client |
| `ConnectFails`, `SendStatement` | the adapter opens a connection and executes |
| `BackendReplies`, `BackendRaises` | the driver returns or raises |
| `Normalize`, `NormalizeFails` | the adapter's and the service's result models |
| `AuditSuccess`, `Return` | `_audit_success`, `return` |
| `AuditFailure`, `RaiseToCaller` | `_audit_failure`, `raise` to a direct caller |
| `ToolAuditsFailure` | the tool's `except`: second event, answer |
| `Crash` | the process dies; locals are gone, log and backend stay |

Rows are counted, not represented. `adapter_result` keeps what differs between
the adapters: a statement without a result set makes `keys()` raise on the two
SQLAlchemy adapters, a dumped plan cannot be loaded into an `ExplainResult`, the
Databricks warning of a cut result cannot be built. `commits` says what happens
to a write when the connection closes (external).

### CallContract

The abstract specification is a log with one entry per call: whether the request
is admissible, how often its statement has reached a backend, and its status.
Calls are served one at a time, a statement is executed at most once, only if
admissible and only while its caller waits; an ok answer needs an execution;
answers are final; each call ends. `Contract == INSTANCE CallContract WITH log <- ...`
in `QueryProperties` is the refinement mapping and `MeetsContract` the property.

### AdapterFactory and AdapterCalls

`AdapterCalls` follows calls whose request was validated through
`ConnectionRegistry.create_adapter` and the adapter's `run_query` or
`explain_query`, in a process that is started, killed and started again. What it
keeps: the process with the configuration it read and its environment, the
registry's two mappings of factories, the attempt at calling one, the failure
the call will end with, and every adapter built, with its pool (empty, a
connection in use, an idle one), whether its connection is alive and whether its
session is in SHOWPLAN mode. Histories are the calls, the statements that
reached a backend, everything that went wrong (`faults`) and the answers.

| action | code |
|---|---|
| `Start` | `load_config` and `main`: a file may be missing, unreadable, undecodable, no YAML, no mapping or invalid |
| `Receive` | `create_adapter` with a connection that `describe_connection` finds |
| `ResolveSecrets` | `resolve_secrets`, field by field, from the environment of now |
| `FindFactory`, `ImportFails` | `_get_adapter_factory`: given, cached or imported |
| `FactoryDoesNotFit` | a `TypeError` in `_invoke_factory`: the next attempt, or none is left |
| `FactoryBuilds`, `FactoryRaises`, `FactoryReturnsSomething` | the other outcomes of an attempt |
| `Connect`, `ConnectFails` | `engine.connect()`, `connect()` of the Databricks client |
| `SwitchShowplanOn`, `SwitchShowplanOnFails`, `SwitchShowplanOff`, `SwitchShowplanOffFails` | `explain_query` of SQL Server with its `finally` |
| `SendStatement`, `StatementReturns`, `StatementRaises` | execute and fetch |
| `CloseConnection` | the end of `with`: back into the pool, or closed |
| `End` | the result, or the exception as it is classified |
| `Collect` | the garbage collector finds the adapter of an earlier call |
| `Crash` | the process dies and its connections with it |

A factory is a signature and what it makes. An argument is its role: the
configuration, the secrets, the name, one setting, one secret or the parameter's
default. `binds` is Python's rule for calls, `attempts` the six ways, and
`call_factory` what may come of one: the classes of the three adapters are
translated, a factory from outside may do anything with the arguments it takes.
A constructor that meets a `TypeError` of its own (importing a driver, building
an engine) is indistinguishable from one that does not fit, and the model tries
the next attempt as the code does.

`AdapterProperties!MeetsPhases` is the refinement: `PhaseNow` maps the eleven
stages to the seven of `AdapterPhases`. `QueryProperties!MeetsPhases` maps the
eleven stages of the pipeline to them: a request being validated is not further
than its secrets, and a call has its reply until it ends, also where normalization,
audit or the tool fail afterwards (the statement was sent, and its reply is in
`sent`). Its liveness part, that the phase is idle again and again, says that every
call of the pipeline ends.

### MetadataTools

What an adapter does is a *plan*: tasks in order, each with alternatives of which
the next is tried when one fails, each alternative a list of instructions to open
a connection, ask a statement, close. `adapter_plan` translates the adapters:
SQL Server asks `DB_NAME()` on a second connection inside the first one;
Snowflake looks its database up beforehand, on a connection of its own;
Databricks uses one connection per statement and falls back from one information
schema to the next and then to `SHOW`, which for the tables of a catalog becomes
`SHOW SCHEMAS` and one `SHOW TABLES` per schema (`followed_by`). A failing
instruction closes every connection and drops what the alternative had collected
(`FailAlternative`). `rows = None` is the `ok=False` of `test_connection`.
That SQL Server refuses the `list_tables` statement is `Answerable` (external).

### Listings

`MetadataTools` counts rows; `Listings` has them. The database (`world`) is a set
of schemas in catalogs and of tables and views in them, and other sessions create,
replace and drop objects and schemas at any moment of a call (`Change`,
external); `moments` keeps the databases there were since the call began, in
order, and `seen` is the set of them. A call is its statements: `tasks` gives what is to be asked and from
which sources, `StatementFails` goes to the next source. `place_clause`,
`type_clause`, `described` and `schema_rows` are the conditions of the statements,
`covers` what a source holds, `table_info`, `show_table_row` and the answers of
`TableReturns`, `ColumnsReturn` and `KeysReturn` what the adapters make of rows.
The names backends give to kinds of objects are sets of words (`type_name`,
external); `map_table_type` and `table_object_type` are the adapters' rules for
them.

## 3. What is checked

| run | question | properties |
|---|---|---|
| `Policy` | all combinations of defaults, connection flags, text, mode, limits and options object, one call | `TypeOK`, `OnlyAdmissibleStatements`, `AdapterGetsApprovedOptions`, `RefusedCallsTouchNothing`, `RefusalCodesAreStable`, `AdmissibleCallsAreTried` |
| `Faults` | two calls, each backend, every fault and a crash at every point | `HistoryInv` (with `PipelineInv` in it), `AuditAgreesWithAnswer`, `EveryExecutionAccountedFor`, `AtMostOneExecution`, `TruncationIsReported`, `ClosedCallsStayClosed`, `MeetsPhases`, `MeetsContract` |
| `Adapters` | two calls in up to two processes, every kind of file, missing secrets, three factories for each backend, every failure from secrets to the end of the connection | `AdapterInv` (with `AdapterTypeOK` in it), `BuiltinAdaptersAreWhole`, `FailuresAreNotMasked`, `PlansAreNotExecuted`, `ConnectionsComeBack`, `OneCallPerAdapter`, `PooledConnectionsAreNotReused`, `EveryCallEnds`, `MeetsPhases` |
| `Metadata` | every metadata tool, each statement failing, empty or not, a crash at every point | `MetadataInv`, `FetchInv` (with `MetadataTypeOK` in them), `RefusedRequestsTouchNothing`, `FailureCodesAreStable`, `EventAgreesWithAnswer`, `ListingsAreWhole`, `SourcesAreExhausted`, `TestsTellTheTruth`, `ConnectionsComeBack`, `EveryCallEnds` |
| `Listings` | every listing and description from every source, on a database that changes up to three times during the call | `ListingInv`, `ListingsAreOfOneMoment`, `ShownObjectsWereThere`, `LastingObjectsAreListed`, `SchemasAreOfOneMoment`, `EachSchemaIsOfOneMoment`, `DescriptionsMoveForward` |

They all hold. "Admissible" is stated a second time in `QueryProperties`, without
the order and the structure of the code, so that `OnlyAdmissibleStatements`
compares two descriptions and not one with itself.

Runs that show where the code and its documents part:

| run | what the documents say | what happens |
|---|---|---|
| `ReadonlyOther` | PLAN.md:263 readonly mode allows only read-only statements | `GRANT`, `TRUNCATE TABLE`, `SELECT ... INTO` run |
| `ImplicitFull` | PLAN.md:205-207, SPLIT-PLAN.md:431 full mode needs a request that asks for it | the default mode may be full |
| `Oversized` | SPLIT-PLAN.md:459 oversized requests are rejected or truncated | Databricks: the statement runs, then the truncation itself fails |
| `SilentBackend` | PLAN.md:269 apply timeout | no adapter applies it |
| `Plans` | PLAN.md:162 returns a query plan where supported | Snowflake (and SQL Server): `QUERY_BLOCKED` |
| `Writes` | PLAN.md:187 full permissions of the database user | SQL Server: no commit, or an error after the write |
| `SqlServerTables` | PLAN.md:152-153 lists tables/views within a schema | SQL Server: the statement names a schema where a view belongs |

Each of these runs has one configuration, one call, and no more faults than its property excuses.

The documents do not agree on the order of the steps of a query. PLAN.md:252-264
loads the secrets and creates the adapter before the text is parsed and the policy
enforced, and SPLIT-PLAN.md:630-636 resolves the connection before both; by
SPLIT-PLAN.md:489 bad requests fail before they reach an adapter. The code parses
and enforces the policy first and reads secrets afterwards, for a query as for
metadata: that is the order of the model, and `RefusedCallsTouchNothing` and
`AdmissibleCallsAreTried` state it.

Also met, without a run: the service loses `limit` and
`limit_type` of a truncation warning (`query_service.py:373` looks for a field
the dump no longer has; SPLIT-PLAN.md:460 wants it preserved); a `timeout_ms` of
zero is `QUERY_TIMEOUT`, because the text of the ValueError contains "timeout";
`max_bytes` is passed along and has no effect; the tools give the audit events no `request_id`; `fetchall` is used where
PLAN.md:270 says `max_rows + 1`; invalid values for `QueryOptions` raise outside
the `try` and leave no event of the service; the `test_connection` statement of
SQL Server uses the reserved word `current_user` as an alias (`sqlserver.py:47`),
which would make it fail each time: the model leaves both outcomes open.

What the runs `Adapters` and `Listings` show of the code, as it stands in their
properties:

* A factory from outside with the parameters (config, secrets) takes the name
  for the configuration: the attempt with (name, config) comes before the one
  with (config, secrets). `BuiltinAdaptersAreWhole` therefore speaks of the
  server's own classes only.
* A `TypeError` inside the constructor of SQL Server or Snowflake surfaces as a
  `BACKEND_ERROR` about a missing secret: the second attempt calls the class without
  secrets. The model keeps that the first exception is dropped (`FailuresAreNotMasked`).
* A session that could not be switched out of SHOWPLAN mode goes back into the
  pool in that mode. It harms nobody because no pool is ever used again
  (`PooledConnectionsAreNotReused`); PLAN.md:518 wants pools that are, and with them
  `PlansAreNotExecuted` would depend on the switch.
* `read_text` may raise `UnicodeDecodeError`, which is no `ConfigError`: the process
  then ends with a traceback and not with the exit code of a configuration error.
* `list_schemas` of Databricks has no condition on the catalog: with the
  metastore's information schema it lists the schemas of all catalogs
  (`SchemasAreOfOneMoment`). Likewise a description without any catalog, which
  server.py:252 calls that of a single table or view, has the columns of all tables of
  that schema and name in the metastore, and the kind of one of them. That is as
  far as `DescriptionsMoveForward` goes there; where a catalog is known it excludes it.
* SQL Server calls whatever it describes a table; a table that does not exist is
  "unknown" for Databricks and a table without columns for the others; Snowflake
  never lists external tables and describes them as "unknown"; a materialized
  view has `is_view` true for Databricks and false for Snowflake.
* `SHOW TABLES`, the last resort of Databricks, lists views as tables and
  without regard to `include_views`, schema by schema: its answer is the database of
  no one moment. What it lists of each schema is (`EachSchemaIsOfOneMoment`), and
  the schemas are those of a moment before (see also `ShownObjectsWereThere`,
  `LastingObjectsAreListed`).
* Two or three statements make a description and nothing holds the table
  between them: its kind may be that of a view, its columns those of the table
  that has replaced it, and its keys those of a third. `DescriptionsMoveForward`
  says what holds nevertheless: each part is of one moment, a later part of no
  earlier one, and the columns marked as keys are those among the keys.

### Bounds

* The bounds in guards are `MaxCalls`, `MaxStarts` and `MaxChanges`. `MaxCalls` is 1 in
  `Policy`, whose question is about one request, and in `Metadata`: no variable but
  the histories survives a metadata call, `held = 0` between calls being one of
  the properties. It is 2 in `Faults` and `Adapters`: a call after a failed, lost or
  successful one, and what the first left behind (an idle connection, a session
  in another mode, a cached factory). `MaxStarts` is 2: a process after one that
  was killed or did not start. None of the three properties of `Adapters` that
  relate calls relates more than two of them.
* `MaxChanges` is 3 in `Listings`: a description takes at most three statements, so
  that there is one change before them and one in either gap; in a chain of SHOW
  statements a table can be moved from a schema not yet read to one already read,
  and a schema dropped and created again. `Listings` follows one call: nothing is
  kept between calls.
* The factories of `Adapters` are, for each backend, the class of its adapter
  module, one from outside that makes an adapter (from keywords only, from
  anything, from positions only) and one that returns a class or something else.
* The databases of `Listings` hold an object of each kind, a table that may be replaced
  by a view of its name, and two others of that name: in another catalog and
  in another schema.
* `max_rows` is 0 (refused) or 1 to 3, so that replies of 0 to 3 rows are below, at
  and above it.
* Texts: one per class the code tells apart, plus one batch of each kind, the
  empty and the broken one.
* Errors: three or two foreign exceptions, without a known word, with two competing
  ones, and a timeout.
* A catalog is absent, "main" or "system" (which shortens the Databricks chain);
  `SHOW SCHEMAS` names none or two schemas, so that one can fail after another succeeded.

`CHECK_DEADLOCK` is on; `Finished` lets a behaviour stop at the bound.

### Fairness

In all modules `ServerStep` is weakly fair: the process goes on as long as it has something to
do, which a synchronous function does unless it is killed. `BackendStep` is
weakly fair in `FairSpec` only: that a backend answers or fails is an assumption
about the world, and `SilentBackend` shows what the code guarantees without it.
`EveryCallEnds`, `MeetsContract` and both `MeetsPhases` are checked under that
assumption: they show that the code itself never loops and loses no call, but not
that a call on a silent backend ends. That is `TimeoutEndsCall`, and it is false.
Nothing is assumed of
`Receive`, `Crash`, `Start` and `Collect`: no caller has to call, nobody has to
restart the process, and the garbage collector may never run.

## 4. What is proved

Every theorem holds for all values of the constants that satisfy the named
assumptions, with any number of calls, starts, factories, statements and rows;
TLC evaluates the assumptions in the runs.

| module | assumptions | theorems |
|---|---|---|
| `QueryPipelineProofs` | `PipelineAssumption`, `NoneAssumption` | `PipelineInvariant`; `TypeCorrect`, `OnlyAdmissibleStatementsRun`, `ApprovedOptionsReachAdapters`, `RefusedTouchNothing`, `ValidationIsExact` |
| `QueryAuditProofs` | the same | `HistoryInvariant`; `StatementsRunOnce`, `AuditAgrees`, `ExecutionsAreAudited`, `RefusalCodesStable`, `TruncationReported`, `AnsweredCallsAreFinal`, `AdmissibleAreTried`, `MeetsContractSafety`, `PipelineMeetsPhases` |
| `AdapterProofs` | `CallsAssumption` | `AdapterInvariant`; `TypesHold`, `AdaptersAreWhole`, `FailuresSurface`, `PlansAreOnlyPlans`, `NoConnectionLeaks`, `AdaptersAreNotShared`, `PoolsAreNotUsed`, `MeetsPhasesSafety` |
| `MetadataProofs` | `MetadataAssumption`, `MetadataNoneAssumption` | `MetadataInvariant`; `RefusedTouchNothing`, `CodesAreStable`, `EventsAgree` |
| `MetadataPlanProofs` | the same | `MetadataConnectionsComeBack`, `TestsAreTrue` |
| `FetchProofs` | the same | `FetchInvariant`; `WholeListings`, `ExhaustedSources`, `MetadataTypes` |
| `ListingProofs` | `ListingsAssumption`, `NamesAssumption`, `TextAssumption` | `ListingInvariant`; `OneMomentOfTables`, `OneMomentOfSchemas`, `NothingMadeUp`, `NothingPassedOver`, `EachSchemaOfOneMoment`, `DescriptionsForward` |

The assumptions are types of the constants, that `None` is not a value of another
type, and, for adapters, that connections name a variable for every field that
must have one and that factories have no more required parameters than
parameters. `ErrorModelProofs` has the lemmas about classified exceptions that the
others share.

**Pipeline.** The safety properties speak of statements already sent; they say
nothing of a call that is about to send one, so they are not inductive.
`StageFacts` adds what each stage may count on: before validation the options are
the caller's; in the stages after it the request has passed `refusal`, `validated`
is its validated form and `options` the approved ones. The step `SendStatement`
then needs that a request which is not refused is `Admissible`. `ValidationIsExact`
compares the code's order of checks with this declarative statement, in both
directions: `refusal` is `None` exactly for the admissible requests. It
also needs the lemma that the approved options are the effective ones. All other steps leave
`sent` alone or change only a reply in it.

**Audit and history.** `HistoryInv` adds what `audit`, `sent` and `answers` hold of the
call in progress: no event before `auditing`, the service's own after it, no
statement before `executing` and one at most after. With it the five properties
about answers follow from the step that writes the answer, and every other step
leaves the answered calls as they are, which is `ClosedCallsStayClosed` itself.
The steps of the pipeline then map to those of `CallContract` one by one.
`ProgressFacts`, that an admissible request past the stage `resolving` has got to its
secrets, gives `AdmissibleCallsAreTried`: validation fails such a request only by
`refusal`, which `ValidationIsExact` excludes. For `PipelineMeetsPhases` the phase of a
failing call depends on `sent`; `SentFacts` says that the statement of the call in
progress is the last one and has no reply while it executes, and that `None` is no reply
(in `NoneAssumption`) that it has one afterwards.

**Adapters.** `CallFacts` says that the configuration and the environment of the call
in progress are those of the process and, once secrets are resolved, that none is
missing; `AdapterFacts` which adapter is the call's, in which stage it holds a
connection and in which mode its session is; `FaultFacts` that the failure to be
answered is the last of the call and what the earlier ones may be. The core of
`AdaptersAreWhole` is a lemma on the six attempts: for each of the
built-in classes an attempt that yields an adapter has bound the configuration
and the secrets to their parameters.

**Metadata.** Refusals, codes and events are proved like those of the pipeline. The
number of open connections depends on instruction lists that are computed from
the configuration: `Leads` says of a list of instructions that it goes from a
number of open connections to another without exceeding a third. The lemmas show that
each alternative of each plan leads from none to none, that a list
followed by others of the kind does, and the invariant that the rest of the list
in progress leads from `held` to none.

**Listings.** Nothing of a listing is claimed before it is returned, nor of a
description, so each safety property holds trivially until the last statement and
is not inductive. `CallFacts` says which tasks are left, in which order, and
which sources a call may ask at all; it is the number of tasks left that tells which
parts of a description are known (`ColumnsKnown`, `TableKnown`). `TableAt`,
`ColumnsAt` and `KeysAt` are the moments a part fits, and `ShownAt` those that
what is listed of a schema fits. `DescribeFacts` says of the parts known that
they have moments in this order, `SchemaFacts` the same of the schemas read and
of those already shown, `KeyFacts` that the flags of columns agree with the
keys, and `ShownFacts`, for SHOW TABLES, that an object that lasts is listed already or
its schema is still to be shown. A change appends a database to `moments` and
leaves the earlier ones as they are: no moment a part fits is lost
(`PartsLast`, `SchemasLast`), statements about *some* database seen survive and those
about *every* database seen get weaker. A statement that answers adds the last
moment (`NowIsLast`), and none is later, so the order is kept. The steps that answer rest on two lemmas: the
condition of every statement, in every source that may be asked, is the place
the request is about (`Covered`), and the words of a kind are told apart as the
properties say (`KindsTold`, `KindsAskedFor`). `TextAssumption` excludes empty texts:
for some statements an empty catalog or schema is none, for others a name that
nothing has, so that there is no one meaning of such a request.

**Listings come whole.** `ListingsAreWhole` speaks of answers, `SourcesAreExhausted` of
statements already tried; neither says what a call in progress has still to
ask. `FetchInv` relates the two: `PlanShape` gives what the alternatives left are, in
the order of the sources (`Chain`), and how many (`Turn` counts the rest
backwards, so that `Now` is the source in turn); `TurnFacts` says that the sources
before it have failed and that everything that counts came from it; `LeftFacts`
that what it has answered and the list of instructions left make up one listing:
for `SHOW`, as many schemas as were named are shown or still to be shown.
`PlanFacts` excludes plans that open a connection for nothing, without which a task
could end with nothing asked. `PlansStayShort`, part of `MetadataTypes`, is what bounds the plans: two
tasks with three sources each, for any configuration. `OutcomeFacts` carries this to the stages after
the last statement. Every source fails at most once, and a failing source takes
what it delivered with it: `rows` restarts at 0, and `Used` counts the records of
the source in turn only. The lemma `MoreRows` says that one more record of it adds its
rows to the sum. Sums and repetitions are over sequences of any length, which
needs induction; `EveryNumber` gets it from `NatLessThanWellFounded`, for sets of
numbers in place of predicates. So `Total` is the last value of the one function
that adds up a sequence (`OneTotal`, `SomeTotal`), and `repeated` is given by its
members rather than by recursion.

Only model-checked: liveness (`EveryCallEnds`, the liveness parts of
`MeetsContract` and of the two `MeetsPhases`), as fairness and `ENABLED` are beyond the
prover. Every invariant and every action property of the runs that pass is proved.
The runs that end in a violation are TLC's by nature.

## 5. What is not modelled

* Not wired in: `adapters/sqlalchemy_base.py` (no adapter derives from it, and its
  operations read an attribute nothing sets), `mcp/`, most of
  `services/result_formatter.py`, two of the three engine builders in `drivers/`,
  `util/retry.py` (empty). `truncate_sequence` and `truncate_bytes` are called by tests only.
  (The second reports the bytes it cut off at, not those of the text it returns
  after dropping a broken character.)
* Text only: resources and prompts, formatting, redaction, logging, messages and
  details of errors, argument parsing.
* Data: values of rows, column types, query ids, `elapsed_ms`; hence also that an
  answer may fail to be serialized after its success event was written.
* The code of a missing secret may also depend on the names of variable and
  connection, as the classifier searches the text for words; here it depends on the field.
* sqlglot, the drivers, the backends and FastMCP are outside the tree and appear
  as constants or nondeterministic choices. A text has one parse: that the caller
  chooses the dialect of the check, and the backend that of the execution, is not
  represented.

## 6. Possible extensions

1. Two dialects per text, with the policy judging one and the backend running the
   other.
2. Values that cannot be serialized, as an outcome between the success event and the answer.
