----------------------------- MODULE MetadataTools -----------------------------
(***************************************************************************)
(* The metadata tools of server.py (list_connections, test_connection,     *)
(* list_schemas, list_tables, describe_table) through ValidationService,   *)
(* MetadataService and ConnectionRegistry to the statements the adapters   *)
(* generate, and back.                                                     *)
(*                                                                         *)
(* What an adapter does is a plan: tasks to be done one after the other; a *)
(* task is a list of alternatives, of which the next one is tried when one *)
(* has failed; an alternative is a list of instructions: open a            *)
(* connection, ask a statement on the innermost open one, close it.        *)
(***************************************************************************)
EXTENDS SqlPolicy, SequencesExt
INSTANCE MetadataSources

CONSTANTS Names,          \* connection names a caller may use
          Configs,        \* the configurations under study
          Requests,       \* the requests callers may send
          RowCounts,      \* how many rows a statement may return
          BackendErrors,  \* what drivers and backends may raise
          MaxCalls        \* bound: calls in a behaviour

\* "" is the empty text: not None, but false in an `or`.
Text    == {"", "main", "system"}
Request == [ tool : { "list_connections", "test_connection", "list_schemas",
                      "list_tables", "describe_table" },
             connection_name : Names, permission_mode : PermissionMode \cup {None},
             catalog : Text \cup {None}, schema : Text \cup {None} ]

\* home: the catalog (database) and schema a connection is configured with.
IsConfig(c) ==
  /\ DOMAIN c = {"defaults", "connections", "home", "unset"}
  /\ c.defaults \in Defaults
  /\ DOMAIN c.connections \subseteq Names /\ IsFiniteSet(DOMAIN c.connections)
  /\ \A n \in DOMAIN c.connections : c.connections[n] \in Connection
  /\ c.home \in [Names -> [ catalog : Text \cup {None},
                            schema  : Text \cup {None} ]]
  /\ c.unset \in [Names -> {"nothing", "password", "other"}]

ASSUME MetadataAssumption ==
  /\ \A c \in Configs : IsConfig(c)
  /\ Requests \subseteq Request
  /\ \A r \in Requests : r.tool = "describe_table" => r.schema # None
  /\ RowCounts \subseteq Nat
  /\ BackendErrors \subseteq RawError
  /\ MaxCalls \in Nat

ASSUME MetadataNoneAssumption ==
  /\ None \notin PermissionMode /\ None \notin PolicyReason /\ None \notin Nat
  /\ None \notin DbMcpError /\ None \notin RawError

VARIABLES
  config,   \* the loaded configuration; never changes
  stage,    \* where the call in progress is
  calls,    \* history: every request received
  plan,     \* what the adapter still has to do
  held,     \* connections it has open
  rows,     \* rows of the listing it has collected; None: ok=False of a test
  error,    \* the exception the call is failing with
  touched,  \* history: calls whose secrets were read
  tried,    \* history: statements that returned or failed
  audit,    \* the audit log
  answers   \* history: for every call what its caller has got so far

vars == << config, stage, calls, plan, held, rows, error, touched, tried, audit,
           answers >>

Current == Len(calls)
Call    == calls[Current]
Target  == config.connections[Call.connection_name]
Home    == config.home[Call.connection_name]
------------------------------------------------------------------------------
\* The statements of the adapters.

Open  == [do |-> "open"]
Close == [do |-> "close"]

\* what: "schemas", "tables", "columns" list something; "table", "keys" and
\* "name" (DB_NAME, CURRENT_DATABASE, session details) do not.
Ask(what, source)   == [do |-> "ask", what |-> what, source |-> source]
Query(what, source) == << Open, Ask(what, source), Close >>

\* SQL Server.  The name of the database is asked on a connection of its own
\* while the first one is open.
CurrentCatalog == Query("name", "server")

information_schema_prefix(catalog) ==
  IF Or(catalog, None) = None THEN CurrentCatalog ELSE << >>

sqlserver_list_schemas ==
  << Open >> \o CurrentCatalog \o << Ask("schemas", "server"), Close >>
    \o CurrentCatalog

sqlserver_list_tables(catalog) ==
  << Open >> \o information_schema_prefix(catalog)
    \o << Ask("tables", "server"), Close >>

sqlserver_describe_table(catalog) ==
  LET prefix == information_schema_prefix(catalog)
  IN  << Open >> \o prefix \o << Ask("columns", "server") >>
        \o prefix \o << Ask("keys", "server") >>
        \o prefix \o << Ask("keys", "server"), Close >>

\* Snowflake.  The name of the database is asked first, if nobody gives it.
database_name(catalog, home) ==
  IF Or(catalog, Or(home.catalog, None)) = None
  THEN Query("name", "server") ELSE << >>

snowflake_list(what, catalog, home) ==
  database_name(catalog, home) \o Query(what, "server")

snowflake_describe_table(catalog, home) ==
  database_name(catalog, home)
    \o << Open, Ask("table", "server"), Ask("columns", "server"),
          Ask("keys", "server"), Close >>

\* Databricks.  Each statement on a connection of its own; the information
\* schemas are tried one after the other.
run_metadata_query(what, catalog) ==
  [ i \in DOMAIN metadata_sources(catalog) |->
      Query(what, metadata_sources(catalog)[i]) ]

\* SHOW TABLES of one schema, or of each schema of a catalog, which SHOW
\* SCHEMAS names, or of whatever the session is in.
show_tables(catalog, schema) ==
  IF schema = None /\ catalog # None THEN Query("schemas", "show")
                                     ELSE Query("tables", "show")

databricks_list_tables(catalog, schema) ==
  << run_metadata_query("tables", catalog) \o << show_tables(catalog, schema) >> >>

databricks_plan(r, home) ==
  CASE r.tool = "test_connection" -> << << Query("name", "server") >> >>
    [] r.tool = "list_schemas" ->
         << run_metadata_query("schemas", home.catalog)
              \o << Query("schemas", "show") >> >>
    [] r.tool = "list_tables" ->
         databricks_list_tables(Or(r.catalog, home.catalog),
                                Or(r.schema, home.schema))
    [] r.tool = "describe_table" ->
         << run_metadata_query("table", Or(r.catalog, home.catalog)),
            run_metadata_query("columns", Or(r.catalog, home.catalog)) >>

sqlserver_plan(r) ==
  << << CASE r.tool = "test_connection" -> Query("name", "server")
          [] r.tool = "list_schemas"    -> sqlserver_list_schemas
          [] r.tool = "list_tables"     -> sqlserver_list_tables(r.catalog)
          [] r.tool = "describe_table"  -> sqlserver_describe_table(r.catalog) >> >>

snowflake_plan(r, home) ==
  << << CASE r.tool = "test_connection" -> Query("name", "server")
          [] r.tool = "list_schemas"    -> snowflake_list("schemas", None, home)
          [] r.tool = "list_tables"     -> snowflake_list("tables", r.catalog, home)
          [] r.tool = "describe_table"  ->
               snowflake_describe_table(r.catalog, home) >> >>

adapter_plan(type, r, home) ==
  CASE type = "databricks" -> databricks_plan(r, home)
    [] type = "sqlserver"  -> sqlserver_plan(r)
    [] type = "snowflake"  -> snowflake_plan(r, home)

\* Which statements make up the listing a tool returns.
Kept(tool) == CASE tool = "list_schemas" -> "schemas"
                [] tool = "list_tables"  -> "tables"
                [] OTHER -> "columns"

\* External: SQL Server refuses the list_tables query, which selects from a
\* schema ([db].INFORMATION_SCHEMA), not from a view in it.
Answerable(type, ask) == type = "sqlserver" => ask.what # "tables"
------------------------------------------------------------------------------
\* Stages, answers and audit events.

Stage == { "idle", "validating", "resolving", "building", "asking", "auditing",
           "returning", "failing" }

Unanswered  == [status |-> "open", code |-> None, rows |-> None]
Answered(n) == [status |-> "ok", code |-> None, rows |-> n]
Failed(e)   == [status |-> "error", code |-> e.code, rows |-> None]
Lost        == [status |-> "lost", code |-> None, rows |-> None]

Event(status, code, ok) ==
  [call |-> Current, status |-> status, code |-> code, ok |-> ok]

Answer(a) == answers' = [answers EXCEPT ![Current] = a]

\* The locals of the call are gone once its caller has an answer.
Forget == stage' = "idle" /\ plan' = << >> /\ rows' = 0 /\ error' = None

Fail(exc) == stage' = "failing" /\ error' = exc

\* Mutant: the gates of full mode are left out.
refusal_without_policy(c, r) ==
  IF r.connection_name \notin DOMAIN c.connections
    THEN Coded("UNKNOWN_CONNECTION")
    ELSE None

\* What validate_metadata_request and the checks of MetadataService raise
\* before an adapter is asked for; None if nothing.  test_connection takes no
\* permission mode.
refusal(c, r) ==
  IF r.connection_name \notin DOMAIN c.connections
    THEN Coded("UNKNOWN_CONNECTION")
  ELSE IF ~evaluate_metadata_request(c.connections[r.connection_name],
             c.defaults,
             IF r.tool = "test_connection" THEN None ELSE r.permission_mode).allowed
    THEN Coded("QUERY_BLOCKED")
  ELSE IF r.tool = "describe_table" /\ "" \in {r.catalog, r.schema} THEN Raw({})
  ELSE None

\* Mutant: MetadataService lets the exception of the registry through.
adapter_error_unwrapped(tool, exc) == exc

\* MetadataService hides why there is no adapter, test_connection does not.
adapter_error(tool, exc) ==
  IF tool = "test_connection" THEN exc ELSE Coded("BACKEND_ERROR")

\* The instruction to carry out, and the statement the alternative is about.
Instruction == plan[1][1][1]
NextAsk ==
  LET left == plan[1][1]
  IN  left[CHOOSE i \in DOMAIN left :
             left[i].do = "ask" /\ \A j \in 1 .. i - 1 : left[j].do # "ask"]

Try(ask, outcome) ==
  tried' = Append(tried, [ call |-> Current, what |-> ask.what,
                           source |-> ask.source, outcome |-> outcome ])

\* The SQLAlchemy adapters turn every failure of test_connection into a result.
catches(type, tool) == tool = "test_connection" /\ type # "databricks"

\* Mutant: nothing closes the connections of a failed alternative.
FailAlternativeLeaks(exc) ==
  /\ plan' = << >> /\ Fail(exc) /\ rows' = 0
  /\ UNCHANGED held

\* Mutant: the first failure is final.
FailAlternativeGivesUp(exc) ==
  /\ held' = 0
  /\ plan' = << >> /\ Fail(exc) /\ rows' = 0

\* Mutant: a failed test is a result like any other.
FailAlternativeReachable(exc) ==
  /\ held' = 0 /\ plan' = << >> /\ rows' = 0
  /\ stage' = "auditing" /\ UNCHANGED error

\* Where an instruction fails every `with` closes its connection, what the
\* alternative had collected is gone and the next alternative begins.
FailAlternative(exc) ==
  /\ held' = 0
  /\ IF Len(plan[1]) > 1
     THEN plan' = [plan EXCEPT ![1] = Tail(@)] /\ rows' = 0
          /\ UNCHANGED << stage, error >>
     ELSE /\ plan' = << >>
          /\ IF catches(Target.type, Call.tool)
             THEN stage' = "auditing" /\ rows' = None /\ UNCHANGED error
             ELSE Fail(exc) /\ rows' = 0

Asking(do) == stage = "asking" /\ plan[1][1] # << >> /\ Instruction.do = do

Proceed(instructions) == plan' = [plan EXCEPT ![1][1] = instructions]

\* Mutant: SHOW TABLES for the first schema only.
followed_by_first(ask, n) ==
  IF Call.tool = "list_tables" /\ ask.what = "schemas" /\ n > 0
  THEN Query("tables", "show") ELSE << >>

\* SHOW SCHEMAS, asked for the tables of a catalog, is followed by one SHOW
\* TABLES per schema.
repeated(instructions, n) ==
  LET m == Len(instructions)
  IN  [i \in 1 .. n * m |-> instructions[((i - 1) % m) + 1]]

followed_by(ask, n) ==
  IF Call.tool = "list_tables" /\ ask.what = "schemas"
  THEN repeated(Query("tables", "show"), n) ELSE << >>

\* A database without a name is an error for Snowflake's listings only.
nameless(ask, n) ==
  /\ Target.type = "snowflake" /\ Call.tool # "test_connection"
  /\ ask.what = "name" /\ n = 0
------------------------------------------------------------------------------
\* Mutants of the steps.

\* Mutant: a failing statement is skipped.
BackendFailsSkips ==
  /\ Asking("ask")
  /\ Try(Instruction, None)
  /\ Proceed(Tail(plan[1][1]))
  /\ UNCHANGED << config, stage, calls, held, rows, error, touched, audit,
                  answers >>

\* Mutant: an empty listing is waited for.
TaskDoneWaits ==
  /\ stage = "asking" /\ plan[1][1] = << >> /\ rows # 0
  /\ plan' = Tail(plan)
  /\ stage' = IF Len(plan) = 1 THEN "auditing" ELSE stage
  /\ UNCHANGED << config, calls, held, rows, error, touched, tried, audit,
                  answers >>

\* Mutant: the audit event does not say whether the test was passed.
AuditSuccessAlwaysOk ==
  /\ stage = "auditing"
  /\ audit' = Append(audit, Event("success", None, TRUE))
  /\ stage' = "returning"
  /\ UNCHANGED << config, calls, plan, held, rows, error, touched, tried,
                  answers >>
------------------------------------------------------------------------------
\* The steps of a call.

Receive(r) ==
  /\ stage = "idle" /\ Current < MaxCalls
  /\ calls' = Append(calls, r)
  /\ answers' = Append(answers, Unanswered)
  /\ IF r.tool = "list_connections"
     THEN stage' = "auditing" /\ rows' = Cardinality(DOMAIN config.connections)
     ELSE stage' = "validating" /\ UNCHANGED rows
  /\ UNCHANGED << config, plan, held, error, touched, tried, audit >>

Accept ==
  /\ stage = "validating" /\ refusal(config, Call) = None
  /\ stage' = "resolving"
  /\ UNCHANGED << config, calls, plan, held, rows, error, touched, tried, audit,
                  answers >>

Refuse ==
  /\ stage = "validating" /\ refusal(config, Call) # None
  /\ Fail(refusal(config, Call))
  /\ UNCHANGED << config, calls, plan, held, rows, touched, tried, audit,
                  answers >>

ResolveSecrets ==
  /\ stage = "resolving"
  /\ touched' = touched \cup {Current}
  /\ LET field == config.unset[Call.connection_name]
     IN  IF field = "nothing" THEN stage' = "building" /\ UNCHANGED error
         ELSE Fail(adapter_error(Call.tool, secret_error(field)))
  /\ UNCHANGED << config, calls, plan, held, rows, tried, audit, answers >>

BuildAdapter ==
  /\ stage = "building"
  /\ plan' = adapter_plan(Target.type, Call, Home)
  /\ stage' = "asking"
  /\ UNCHANGED << config, calls, held, rows, error, touched, tried, audit,
                  answers >>

BuildFails ==
  /\ stage = "building"
  /\ \E exc \in BackendErrors \cup {Coded("CONNECTION_FAILED")} :
       Fail(adapter_error(Call.tool, exc))
  /\ UNCHANGED << config, calls, plan, held, rows, touched, tried, audit,
                  answers >>

OpenConnection ==
  /\ Asking("open")
  /\ held' = held + 1
  /\ Proceed(Tail(plan[1][1]))
  /\ UNCHANGED << config, stage, calls, rows, error, touched, tried, audit,
                  answers >>

CloseConnection ==
  /\ Asking("close")
  /\ held' = held - 1
  /\ Proceed(Tail(plan[1][1]))
  /\ UNCHANGED << config, stage, calls, rows, error, touched, tried, audit,
                  answers >>

StatementReturns ==
  /\ Asking("ask") /\ Answerable(Target.type, Instruction)
  /\ \E n \in RowCounts :
       /\ ~nameless(Instruction, n)
       /\ Try(Instruction, n)
       /\ rows' = IF Instruction.what = Kept(Call.tool) THEN rows + n ELSE rows
       /\ Proceed(Tail(plan[1][1]) \o followed_by(Instruction, n))
  /\ UNCHANGED << config, stage, calls, held, error, touched, audit, answers >>

\* The ValueError of _database_name.
NoDatabase ==
  /\ Asking("ask") /\ \E n \in RowCounts : nameless(Instruction, n)
  /\ Try(Instruction, 0)
  /\ FailAlternative(Raw({}))
  /\ UNCHANGED << config, calls, touched, audit, answers >>

StatementRefused ==
  /\ Asking("ask") /\ ~Answerable(Target.type, Instruction)
  /\ Try(Instruction, None)
  /\ FailAlternative(Raw({}))
  /\ UNCHANGED << config, calls, touched, audit, answers >>

\* A connection cannot be opened, or a statement fails on it.
BackendFails ==
  /\ Asking("open") \/ Asking("ask")
  /\ Try(NextAsk, None)
  /\ \E exc \in BackendErrors : FailAlternative(exc)
  /\ UNCHANGED << config, calls, touched, audit, answers >>

\* An alternative has come to its end: its task is done.
TaskDone ==
  /\ stage = "asking" /\ plan[1][1] = << >>
  /\ plan' = Tail(plan)
  /\ stage' = IF Len(plan) = 1 THEN "auditing" ELSE stage
  /\ UNCHANGED << config, calls, held, rows, error, touched, tried, audit,
                  answers >>

AuditSuccess ==
  /\ stage = "auditing"
  /\ audit' = Append(audit, Event("success", None, rows # None))
  /\ stage' = "returning"
  /\ UNCHANGED << config, calls, plan, held, rows, error, touched, tried,
                  answers >>

Return ==
  /\ stage = "returning"
  /\ Answer(Answered(rows)) /\ Forget
  /\ UNCHANGED << config, calls, held, touched, tried, audit >>

AuditFailure ==
  /\ stage = "failing"
  /\ LET e == normalize_exception(error)
     IN  /\ audit' = Append(audit, Event("failure", e.code, FALSE))
         /\ Answer(Failed(e))
  /\ Forget
  /\ UNCHANGED << config, calls, held, touched, tried >>

\* The process dies, its connections with it, and is started again.
Crash ==
  /\ stage # "idle"
  /\ Answer(Lost) /\ Forget /\ held' = 0
  /\ UNCHANGED << config, calls, touched, tried, audit >>

\* Not a step of the code: the bound on calls is reached.
Finished == stage = "idle" /\ Current = MaxCalls /\ UNCHANGED vars
------------------------------------------------------------------------------
Init ==
  /\ config \in Configs
  /\ stage = "idle"
  /\ calls = << >> /\ answers = << >>
  /\ plan = << >> /\ held = 0 /\ rows = 0 /\ error = None
  /\ touched = {} /\ tried = << >> /\ audit = << >>

ServerStep ==
  \/ Accept \/ Refuse \/ ResolveSecrets \/ BuildAdapter \/ BuildFails
  \/ CloseConnection \/ TaskDone \/ AuditSuccess \/ Return \/ AuditFailure

BackendStep ==
  \/ OpenConnection \/ StatementReturns \/ NoDatabase \/ StatementRefused
  \/ BackendFails

Next ==
  \/ \E r \in Requests : Receive(r)
  \/ ServerStep \/ BackendStep
  \/ Crash \/ Finished

Spec == Init /\ [][Next]_vars

\* The process keeps running, and backends answer or fail in the end.
FairSpec == Spec /\ WF_vars(ServerStep) /\ WF_vars(BackendStep)
==============================================================================
