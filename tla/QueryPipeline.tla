----------------------------- MODULE QueryPipeline -----------------------------
(***************************************************************************)
(* One call of run_query or explain_query after the other, through the     *)
(* tool functions of server.py, QueryService, ValidationService,           *)
(* ConnectionRegistry and an adapter, to the backend and back.             *)
(*                                                                         *)
(* The tools are synchronous functions on the event loop of the server: a  *)
(* call runs from its arrival to its answer before the next one starts.    *)
(* Inside a call the steps are the places where something outside the      *)
(* process happens or fails: an environment variable is missing, a         *)
(* connection is refused, the backend raises, answers late or not at all,  *)
(* the process is killed.  Nothing of a call survives a crash but what the *)
(* backend has executed and what the audit log holds.                      *)
(***************************************************************************)
EXTENDS ResultShape

CONSTANTS Names,          \* connection names a caller may use
          Configs,        \* the configurations under study
          Requests,       \* the requests callers may send
          Replies,        \* what a backend may return
          BackendErrors,  \* what drivers and backends may raise
          MaxCalls        \* bound: calls in a behaviour

Sql == [text : Texts, padded : BOOLEAN]

\* via: through the MCP tool of server.py, or a direct use of QueryService
\* (only the latter can pass a QueryOptions object).
Request == [ via : {"server", "service"}, tool : {"run_query", "explain_query"},
             connection_name : Names, sql : Sql,
             permission_mode : PermissionMode \cup {None},
             limits : [Limit -> Int \cup {None}],
             options : QueryOptions \cup {None} ]

\* unset: for each connection the secret field whose environment variable is
\* missing or empty, if any.
IsConfig(c) ==
  /\ DOMAIN c = {"defaults", "connections", "unset"}
  /\ c.defaults \in Defaults
  /\ DOMAIN c.connections \subseteq Names
  /\ \A n \in DOMAIN c.connections : c.connections[n] \in Connection
  /\ c.unset \in [Names -> {"nothing", "password", "other"}]

ASSUME PipelineAssumption ==
  /\ \A c \in Configs : IsConfig(c)
  /\ Requests \subseteq Request
  /\ \A r \in Requests : r.via = "server" => r.options = None
  /\ Replies \subseteq Reply
  /\ BackendErrors \subseteq RawError
  /\ MaxCalls \in Nat
  /\ \A t \in Texts : Parsed[t] # ParseError => Parsed[t] \in Seq(Node)

\* None is a value of its own.
ASSUME NoneAssumption ==
  /\ None \notin PermissionMode /\ None \notin PolicyReason
  /\ None \notin BOOLEAN /\ None \notin Int
  /\ None \notin DbMcpError /\ None \notin RawError
  /\ None \notin QueryOptions /\ None \notin QueryResult /\ None \notin Reply

VARIABLES
  config,     \* the loaded configuration; never changes
  stage,      \* where the call in progress is
  calls,      \* history: every request received
  options,    \* execution_options of the call in progress
  validated,  \* its ValidatedQueryRequest
  error,      \* the DbMcpError it is failing with
  result,     \* its normalized result
  touched,    \* history: calls whose secrets were read
  sent,       \* history: statements that reached a backend, with its reply
  audit,      \* the audit log
  answers     \* history: for every call what its caller has got so far

vars == << config, stage, calls, options, validated, error, result, touched,
           sent, audit, answers >>

Stage == { "idle", "validating", "resolving", "building", "connecting",
           "executing", "normalizing", "auditing", "returning",
           "failing", "raising" }

Current == Len(calls)
Call    == calls[Current]
Backend == config.connections[Call.connection_name].type

Open        == [status |-> "open", code |-> None, result |-> None]
Answered(r) == [status |-> "ok", code |-> None, result |-> r]
Failed(e)   == [status |-> "error", code |-> e.code, result |-> None]
Lost        == [status |-> "lost", code |-> None, result |-> None]

Event(by, status, code) ==
  [call |-> Current, by |-> by, status |-> status, code |-> code]
------------------------------------------------------------------------------
\* QueryService: options, validation, options again.

NoOptions == [ permission_mode |-> None, limits |-> [l \in Limit |-> None],
               allow_multiple_statements |-> None ]

\* An explicit argument beats the options object.
resolve_query_options(r) ==
  LET base == Given(r.options, NoOptions)
  IN  [ permission_mode |-> Given(r.permission_mode, base.permission_mode),
        limits |-> [l \in Limit |-> Given(r.limits[l], base.limits[l])],
        allow_multiple_statements |-> base.allow_multiple_statements ]

policy_decision(c, r, o) ==
  evaluate_analysis(parse_sql(r.sql.text), c.connections[r.connection_name],
                    c.defaults, o.permission_mode)

\* Mutant: limits are checked before the policy, and only they are.
refusal_limits_only(c, r, o) ==
  IF r.connection_name \notin DOMAIN c.connections
    THEN Coded("UNKNOWN_CONNECTION")
  ELSE IF ~parses(r.sql.text) THEN Coded("INVALID_SQL")
  ELSE limits_error(resolve_query_limits(c.defaults, o))

\* The exception validate_query_request raises, None if it returns.
refusal(c, r, o) ==
  IF r.connection_name \notin DOMAIN c.connections
    THEN Coded("UNKNOWN_CONNECTION")
  ELSE IF ~parses(r.sql.text) THEN Coded("INVALID_SQL")
  ELSE IF ~policy_decision(c, r, o).allowed THEN Coded("QUERY_BLOCKED")
  ELSE limits_error(resolve_query_limits(c.defaults, o))

\* The ValidatedQueryRequest: the text that was parsed is the stripped one.
validate_query_request(c, r, o) ==
  [ sql    |-> [text |-> r.sql.text, padded |-> FALSE],
    limits |-> resolve_query_limits(c.defaults, o),
    policy |-> policy_decision(c, r, o) ]

\* Mutant: what the caller asked for is handed on, not what was approved.
execution_options_fallback_first(v, o) ==
  [ permission_mode |-> Given(o.permission_mode, v.policy.permission_mode),
    limits |-> v.limits,
    allow_multiple_statements |->
      Given(o.allow_multiple_statements, v.policy.allow_multiple_statements) ]

execution_options(v, o) ==
  [ permission_mode |-> Given(v.policy.permission_mode, o.permission_mode),
    limits |-> v.limits,
    allow_multiple_statements |->
      Given(v.policy.allow_multiple_statements, o.allow_multiple_statements) ]

\* External: is a write kept when the connection is closed without a commit?
\* The SQL Server driver rolls back, Databricks commits each statement, with
\* Snowflake it depends on the account.
commits(type) ==
  CASE type = "sqlserver"  -> {FALSE}
    [] type = "databricks" -> {TRUE}
    [] OTHER -> BOOLEAN
------------------------------------------------------------------------------
\* What several steps do.

Fail(exc) ==
  /\ error' = normalize_exception(exc)
  /\ stage' = "failing"

\* The locals of the call are gone once its caller has an answer.
Forget ==
  /\ stage' = "idle"
  /\ options' = None /\ validated' = None /\ error' = None /\ result' = None

Answer(a) == answers' = [answers EXCEPT ![Current] = a]

\* What the adapter makes of the backend's reply.
Returned == adapter_result(Backend, Call.tool, sent[Len(sent)].reply,
                           options.limits["max_rows"])

------------------------------------------------------------------------------
\* Mutants of the steps.

\* Mutant: a missing secret is waited for.
ResolveSecretsWaits ==
  /\ stage = "resolving"
  /\ touched' = touched \cup {Current}
  /\ stage' = IF config.unset[Call.connection_name] = "nothing"
              THEN "building" ELSE stage
  /\ UNCHANGED << config, calls, options, validated, error, result, sent, audit,
                  answers >>

\* Mutant: an adapter's exception is swallowed.
NormalizeFailsSilently ==
  /\ stage = "normalizing" /\ Returned.kind # "result"
  /\ stage' = "failing"
  /\ UNCHANGED << config, calls, options, validated, error, result, touched,
                  sent, audit, answers >>

\* Mutant: the failure event holds the kind of error instead of its code.
AuditFailureWholeError ==
  /\ stage = "failing"
  /\ audit' = Append(audit, Event("service", "failure", error.kind))
  /\ stage' = "raising"
  /\ UNCHANGED << config, calls, options, validated, error, result, touched,
                  sent, answers >>

\* Mutant: a failing statement is sent once more.
BackendRaisesRetry ==
  /\ stage = "executing"
  /\ stage' = IF Len(sent) < 3 THEN "connecting" ELSE "failing"
  /\ error' = Coded("BACKEND_ERROR")
  /\ UNCHANGED << config, calls, options, validated, result, touched, sent,
                  audit, answers >>

\* Mutant: the answer goes out before the audit event does.
ReturnThenAudit ==
  /\ stage = "returning"
  /\ Answer(Answered(result))
  /\ stage' = "auditing"
  /\ UNCHANGED << config, calls, options, validated, error, result, touched,
                  sent, audit >>

\* Mutant: a call that fails after validation leaves no event of the service.
AuditFailureOnlyIfRefused ==
  /\ stage = "failing"
  /\ audit' = IF validated = None
              THEN Append(audit, Event("service", "failure", error.code))
              ELSE audit
  /\ stage' = "raising"
  /\ UNCHANGED << config, calls, options, validated, error, result, touched,
                  sent, answers >>

\* Mutant: the tool audits the error it was given, and answers another one.
ToolAuditsFailureReclassified ==
  /\ stage = "raising" /\ Call.via = "server"
  /\ LET e == normalize_forgets_code(error)
     IN  /\ audit' = Append(audit, Event("tool", "failure", error.code))
         /\ Answer(Failed(e))
  /\ Forget
  /\ UNCHANGED << config, calls, touched, sent >>

\* Mutant: the call is resumed after a restart.
CrashResumes ==
  /\ stage # "idle"
  /\ stage' = IF stage = "executing" THEN "connecting" ELSE stage
  /\ UNCHANGED << config, calls, options, validated, error, result, touched,
                  sent, audit, answers >>

------------------------------------------------------------------------------
\* The steps of a call.

\* Start of the tool function and of QueryService.run_query / explain_query.
Receive(r) ==
  /\ stage = "idle" /\ Current < MaxCalls
  /\ calls' = Append(calls, r)
  /\ answers' = Append(answers, Open)
  /\ options' = resolve_query_options(r)
  /\ stage' = "validating"
  /\ UNCHANGED << config, validated, error, result, touched, sent, audit >>

ValidationPasses ==
  /\ stage = "validating" /\ refusal(config, Call, options) = None
  /\ validated' = validate_query_request(config, Call, options)
  /\ options' = execution_options(validated', options)
  /\ stage' = "resolving"
  /\ UNCHANGED << config, calls, error, result, touched, sent, audit, answers >>

ValidationRefuses ==
  /\ stage = "validating" /\ refusal(config, Call, options) # None
  /\ Fail(refusal(config, Call, options))
  /\ UNCHANGED << config, calls, options, validated, result, touched, sent,
                  audit, answers >>

\* Registry: all secrets of the connection are read before the adapter is built.
ResolveSecrets ==
  /\ stage = "resolving"
  /\ touched' = touched \cup {Current}
  /\ LET field == config.unset[Call.connection_name]
     IN  IF field = "nothing" THEN stage' = "building" /\ UNCHANGED error
                              ELSE Fail(secret_error(field))
  /\ UNCHANGED << config, calls, options, validated, result, sent, audit,
                  answers >>

BuildAdapter ==
  /\ stage = "building"
  /\ stage' = "connecting"
  /\ UNCHANGED << config, calls, options, validated, error, result, touched,
                  sent, audit, answers >>

\* The driver is missing or rejects the settings, or no way of calling the
\* factory fits.
BuildFails ==
  /\ stage = "building"
  /\ \E exc \in BackendErrors \cup {Coded("CONNECTION_FAILED")} : Fail(exc)
  /\ UNCHANGED << config, calls, options, validated, result, touched, sent,
                  audit, answers >>

ConnectFails ==
  /\ stage = "connecting"
  /\ \E exc \in BackendErrors : Fail(exc)
  /\ UNCHANGED << config, calls, options, validated, result, touched, sent,
                  audit, answers >>

SendStatement ==
  /\ stage = "connecting"
  /\ sent' = Append(sent, [ call |-> Current, sql |-> validated.sql,
                            options |-> options, reply |-> None,
                            durable |-> FALSE ])
  /\ stage' = "executing"
  /\ UNCHANGED << config, calls, options, validated, error, result, touched,
                  audit, answers >>

BackendRaises ==
  /\ stage = "executing"
  /\ \E exc \in BackendErrors : Fail(exc)
  /\ UNCHANGED << config, calls, options, validated, result, touched, sent,
                  audit, answers >>

BackendReplies ==
  /\ stage = "executing"
  /\ \E reply \in Replies,
        durable \in IF Call.tool = "run_query" THEN commits(Backend)
                                               ELSE {FALSE} :
       sent' = [sent EXCEPT ![Len(sent)].reply = reply,
                            ![Len(sent)].durable = durable]
  /\ stage' = "normalizing"
  /\ UNCHANGED << config, calls, options, validated, error, result, touched,
                  audit, answers >>

Normalize ==
  /\ stage = "normalizing" /\ Returned.kind = "result"
  /\ result' = normalize_query_result(Returned)
  /\ stage' = "auditing"
  /\ UNCHANGED << config, calls, options, validated, error, touched, sent,
                  audit, answers >>

NormalizeFails ==
  /\ stage = "normalizing" /\ Returned.kind # "result"
  /\ Fail(Returned)
  /\ UNCHANGED << config, calls, options, validated, result, touched, sent,
                  audit, answers >>

AuditSuccess ==
  /\ stage = "auditing"
  /\ audit' = Append(audit, Event("service", "success", None))
  /\ stage' = "returning"
  /\ UNCHANGED << config, calls, options, validated, error, result, touched,
                  sent, answers >>

Return ==
  /\ stage = "returning"
  /\ Answer(Answered(result)) /\ Forget
  /\ UNCHANGED << config, calls, touched, sent, audit >>

AuditFailure ==
  /\ stage = "failing"
  /\ audit' = Append(audit, Event("service", "failure", error.code))
  /\ stage' = "raising"
  /\ UNCHANGED << config, calls, options, validated, error, result, touched,
                  sent, answers >>

\* QueryService raises to its own caller ...
RaiseToCaller ==
  /\ stage = "raising" /\ Call.via = "service"
  /\ Answer(Failed(error)) /\ Forget
  /\ UNCHANGED << config, calls, touched, sent, audit >>

\* ... or to the tool, which adds message and details, audits again and raises.
ToolAuditsFailure ==
  /\ stage = "raising" /\ Call.via = "server"
  /\ LET e == normalize_exception(error)
     IN  /\ audit' = Append(audit, Event("tool", "failure", e.code))
         /\ Answer(Failed(e))
  /\ Forget
  /\ UNCHANGED << config, calls, touched, sent >>

\* The process dies and is started again; the caller never gets an answer.
Crash ==
  /\ stage # "idle"
  /\ Answer(Lost) /\ Forget
  /\ UNCHANGED << config, calls, touched, sent, audit >>

\* Not a step of the code: the bound on calls is reached.
Finished == stage = "idle" /\ Current = MaxCalls /\ UNCHANGED vars
------------------------------------------------------------------------------
Init ==
  /\ config \in Configs
  /\ stage = "idle"
  /\ calls = << >> /\ answers = << >>
  /\ options = None /\ validated = None /\ error = None /\ result = None
  /\ touched = {} /\ sent = << >> /\ audit = << >>

\* What Python does by itself, and what waits for the other side.
ServerStep ==
  \/ ValidationPasses \/ ValidationRefuses \/ ResolveSecrets
  \/ BuildAdapter \/ BuildFails
  \/ Normalize \/ NormalizeFails \/ AuditSuccess \/ Return
  \/ AuditFailure \/ RaiseToCaller \/ ToolAuditsFailure

BackendStep == ConnectFails \/ SendStatement \/ BackendRaises \/ BackendReplies

Next ==
  \/ \E r \in Requests : Receive(r)
  \/ ServerStep \/ BackendStep
  \/ Crash \/ Finished

Spec == Init /\ [][Next]_vars

\* The process runs as long as it has something to do.
ServerFairSpec == Spec /\ WF_vars(ServerStep)

\* And every backend answers or fails in the end: nothing in the code sees to
\* that, no timeout is ever set.
FairSpec == ServerFairSpec /\ WF_vars(BackendStep)
==============================================================================
