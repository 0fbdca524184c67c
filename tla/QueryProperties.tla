---------------------------- MODULE QueryProperties ----------------------------
(***************************************************************************)
(* What the query pipeline has to guarantee, and what the repository's     *)
(* documents say of it that the code does not do.                          *)
(***************************************************************************)
EXTENDS QueryPipeline

Ended(c) == answers[c].status # "open"

\* Where a call's events are in the audit log, and its statements in what was sent.
AuditedAt(c) == { k \in DOMAIN audit : audit[k].call = c }
SentAt(c)    == { i \in DOMAIN sent : sent[i].call = c }

\* Types of the pipeline's state.
SentRecord(n)  == [ call : 1 .. n, sql : Sql, options : QueryOptions,
                    reply : Reply \cup {None}, durable : BOOLEAN ]
AuditRecord(n) == [ call : 1 .. n, by : {"service", "tool"},
                    status : {"success", "failure"},
                    code : ErrorCode \cup {None} ]
AnswerRecord   == [ status : {"open", "ok", "error", "lost"},
                    code : ErrorCode \cup {None},
                    result : QueryResult \cup {None} ]

TypeOK ==
  /\ config \in Configs
  /\ stage \in Stage
  /\ calls \in Seq(Requests)
  /\ options \in QueryOptions \cup {None}
  /\ error \in DbMcpError \cup {None}
  /\ result \in QueryResult \cup {None}
  /\ touched \subseteq DOMAIN calls
  /\ sent \in Seq(SentRecord(Len(calls)))
  /\ audit \in Seq(AuditRecord(Len(calls)))
  /\ answers \in Seq(AnswerRecord)
  /\ Len(answers) = Len(calls)
------------------------------------------------------------------------------
\* What may run, said again without the order of checks of the code.

\* The mode in force: the argument, else the options object, else the default.
EffectiveMode(c, r) ==
  IF r.permission_mode # None THEN r.permission_mode
  ELSE IF r.options # None /\ r.options.permission_mode # None
       THEN r.options.permission_mode
       ELSE c.defaults.permission_mode

EffectiveLimit(c, r, l) ==
  IF r.limits[l] # None THEN r.limits[l]
  ELSE IF r.options # None /\ r.options.limits[l] # None
       THEN r.options.limits[l]
       ELSE c.defaults.limits[l]

Known(c, r)  == r.connection_name \in DOMAIN c.connections
Parses(r)    == Parsed[r.sql.text] \notin {ParseError, << >>}
Destroys(r)  == \E i \in DOMAIN Parsed[r.sql.text] :
                  classify_statement(Parsed[r.sql.text][i]) = "destructive"

Permitted(c, r) ==
  LET connection == c.connections[r.connection_name]
      full       == EffectiveMode(c, r) = "full"
  IN  /\ Len(Parsed[r.sql.text]) > 1 => c.defaults.allow_multiple_statements
      /\ Destroys(r) => full /\ ~c.defaults.block_destructive_sql
      /\ full => connection.allow_full_permissions /\ ~connection.read_only

Admissible(c, r) ==
  /\ Known(c, r) /\ Parses(r) /\ Permitted(c, r)
  /\ \A l \in Limit : EffectiveLimit(c, r, l) > 0

\* The code a request that may not run has to fail with.
StableCode(c, r, code) ==
  /\ ~Known(c, r) => code = "UNKNOWN_CONNECTION"
  /\ Known(c, r) /\ ~Parses(r) => code = "INVALID_SQL"
  /\ Known(c, r) /\ Parses(r) /\ ~Permitted(c, r) => code = "QUERY_BLOCKED"

\* A statement that reaches a backend belongs to a request that the policy,
\* the parser and the limits all admit, and is the very text they judged
\* (QueryService passes validated.sql, the stripped text, to the adapter).
OnlyAdmissibleStatements ==
  \A i \in DOMAIN sent :
    LET r == calls[sent[i].call]
    IN  /\ Admissible(config, r)
        /\ sent[i].sql = [text |-> r.sql.text, padded |-> FALSE]

\* The adapter works under what was approved, not under what was asked for:
\* effective mode, effective limits, and the multi-statement rule of the
\* defaults even when an options object says otherwise.
AdapterGetsApprovedOptions ==
  \A i \in DOMAIN sent :
    LET r == calls[sent[i].call]
    IN  sent[i].options =
          [ permission_mode |-> EffectiveMode(config, r),
            limits |-> [l \in Limit |-> EffectiveLimit(config, r, l)],
            allow_multiple_statements |->
              config.defaults.allow_multiple_statements ]

\* No secret of a connection is read for a request that is refused: create_adapter
\* comes after validate_query_request.
RefusedCallsTouchNothing ==
  \A c \in touched : Admissible(config, calls[c])

\* No layer refuses what it should let through: a call that was answered and whose
\* request is admissible went as far as the secrets of its connection, whatever
\* checks of parser, policy and limits it had to pass.
AdmissibleCallsAreTried ==
  \A c \in DOMAIN answers :
    answers[c].status \in {"ok", "error"} /\ Admissible(config, calls[c]) =>
      c \in touched

\* A refusal keeps its code through the three layers that catch and rethrow it
\* (ValidationService, QueryService, tool): unknown connection before parse
\* error before policy, whatever else is wrong with the request.
RefusalCodesAreStable ==
  \A c \in DOMAIN answers :
    answers[c].status = "error" => StableCode(config, calls[c], answers[c].code)
------------------------------------------------------------------------------
EventOf(c, who, status, code) ==
  [call |-> c, by |-> who, status |-> status, code |-> code]

\* Audit and answer of a call tell the same story: one success event of the
\* service, or its failure event followed at once, through the server, by the
\* tool's, all with the code the caller gets; and no other event.
AuditAgreesWithAnswer ==
  \A c \in DOMAIN answers :
    /\ answers[c].status = "ok" =>
         \E k \in DOMAIN audit :
           /\ AuditedAt(c) = {k}
           /\ audit[k] = EventOf(c, "service", "success", None)
    /\ answers[c].status = "error" =>
         \E k \in DOMAIN audit :
           /\ AuditedAt(c) = IF calls[c].via = "server" THEN {k, k + 1} ELSE {k}
           /\ audit[k] = EventOf(c, "service", "failure", answers[c].code)
           /\ calls[c].via = "server" =>
                audit[k + 1] = EventOf(c, "tool", "failure", answers[c].code)

\* A statement that reached a backend is in the audit log, unless its call is
\* still running or was killed.
EveryExecutionAccountedFor ==
  \A i \in DOMAIN sent :
    \/ answers[sent[i].call].status \in {"open", "lost"}
    \/ \E k \in DOMAIN audit :
         audit[k].call = sent[i].call /\ audit[k].by = "service"

\* No layer sends a statement twice: an ambiguous failure is the caller's to
\* resolve, a crash does not resume the call.
AtMostOneExecution ==
  \A i, j \in DOMAIN sent : sent[i].call = sent[j].call => i = j

\* A step that leaves every ended call as it is.
LeavesEndedCalls ==
  \A c \in DOMAIN answers : Ended(c) =>
    /\ answers'[c] = answers[c]
    /\ AuditedAt(c)' = AuditedAt(c)
    /\ \A k \in AuditedAt(c) : audit'[k] = audit[k]
    /\ c \in touched' => c \in touched
    /\ SentAt(c)' = SentAt(c)
    /\ \A i \in SentAt(c) : sent'[i] = sent[i]

\* Once a call is answered or lost, no step changes its answer, adds an audit
\* event to it or changes one, reads its secrets or sends its statement.
ClosedCallsStayClosed == [][LeavesEndedCalls]_vars

\* Every row of the reply, or exactly max_rows of them and word of it.
Reported(s, r) ==
  LET max_rows == s.options.limits["max_rows"]
  IN  IF s.reply.rows > max_rows
      THEN r.rows = max_rows /\ r.truncated /\ r.warnings # {}
      ELSE r.rows = s.reply.rows /\ ~r.truncated /\ r.warnings = {}

\* A run_query answered ok holds every row the backend returned, or exactly
\* max_rows of them and then says so.
TruncationIsReported ==
  \A i \in DOMAIN sent :
    LET c == sent[i].call
    IN  calls[c].tool = "run_query" /\ answers[c].status = "ok" =>
          Reported(sent[i], answers[c].result)

\* What the contract's log is in the pipeline.
CallLog ==
  [ c \in DOMAIN calls |->
      [ admissible |-> Admissible(config, calls[c]),
        executions |-> Cardinality(SentAt(c)),
        status     |-> answers[c].status ] ]

Contract == INSTANCE CallContract WITH log <- CallLog

\* The pipeline implements the contract of its callers.
MeetsContract == Contract!Contract

\* How the pipeline takes the registry and the adapters: a request that has yet to
\* be validated is not further than its secrets, a reply is there until the call
\* has ended, whatever is made of it.
PhaseNow ==
  CASE stage \in {"idle", "building", "connecting", "executing"} -> stage
    [] stage \in {"validating", "resolving"} -> "resolving"
    [] stage \in {"normalizing", "auditing", "returning"} -> "replied"
    [] stage \in {"failing", "raising"} ->
         IF \E i \in SentAt(Current) : sent[i].reply # None
         THEN "replied" ELSE "failed"

SentBy == [i \in DOMAIN sent |-> sent[i].call]

Phases == INSTANCE AdapterPhases WITH
  begun <- Len(calls), sent <- SentBy, phase <- PhaseNow

\* The pipeline goes through the very phases that the registry and the adapters
\* go through, and every call comes to the end of them.
MeetsPhases == Phases!Phases
------------------------------------------------------------------------------
\* Claims of the documents that the code does not keep.

\* PLAN.md:263 "if permission_mode="readonly", only allow read-only statements".
ReadonlyModeRunsOnlyReads ==
  \A i \in DOMAIN sent :
    LET nodes == Parsed[sent[i].sql.text]
    IN  sent[i].options.permission_mode = "readonly" =>
          \A n \in DOMAIN nodes : ~nodes[n].changes

\* PLAN.md:205-207: a non-read-only query runs only when the request explicitly
\* sets permission_mode="full" and the connection allows it.
WritesNeedExplicitOptIn ==
  \A i \in DOMAIN sent :
    LET r == calls[sent[i].call]
    IN  Destroys(r) => \/ r.permission_mode = "full"
                       \/ r.options # None /\ r.options.permission_mode = "full"

\* SPLIT-PLAN.md:459 "oversized requests are rejected or truncated
\* deterministically": rows beyond max_rows are cut, they fail no call that the
\* backend has answered.
OversizedResultsAreTruncated ==
  \A i \in DOMAIN sent :
    LET c == sent[i].call
    IN  calls[c].tool = "run_query" /\ sent[i].reply # None =>
          (sent[i].reply.columns > 0 => answers[c].status # "error")

\* PLAN.md:269 "apply timeout": a call whose statement is running ends, also
\* when its backend stays silent.
TimeoutEndsCall == stage = "executing" ~> stage = "idle"

\* PLAN.md:162 "Returns a query plan where supported": a plan the backend has
\* returned reaches the caller.
PlansReachTheCaller ==
  \A i \in DOMAIN sent :
    LET c == sent[i].call
    IN  calls[c].tool = "explain_query" /\ sent[i].reply # None =>
          answers[c].status # "error"

\* PLAN.md:187: a permitted full-mode request executes with the permissions of
\* the database user.  A write the backend has carried out is not answered with
\* an error, and if it is answered ok it lasts.
PermittedWritesTakeEffect ==
  \A i \in DOMAIN sent :
    LET c == sent[i].call
    IN  calls[c].tool = "run_query" /\ Destroys(calls[c]) /\ sent[i].reply # None
          => /\ answers[c].status # "error"
             /\ answers[c].status = "ok" => sent[i].durable
------------------------------------------------------------------------------
\* Why the safety properties hold.

Approved     == { "resolving", "building", "connecting", "executing",
                  "normalizing", "auditing", "returning" }
Executed     == { "executing", "normalizing", "auditing", "returning" }

\* What each stage may count on: before validation the options are the
\* caller's, after it the request has passed and the options are the approved
\* ones; a reply, a result or an error is there when a step is about to use it.
StageFacts ==
  /\ stage # "idle" => calls # << >>
  /\ stage = "validating" => options = resolve_query_options(Call)
  /\ stage \in Approved =>
       LET asked == resolve_query_options(Call)
       IN  /\ refusal(config, Call, asked) = None
           /\ validated = validate_query_request(config, Call, asked)
           /\ options = execution_options(validated, asked)
  /\ stage \in Executed =>
       sent # << >> /\ (stage # "executing" => sent[Len(sent)].reply \in Replies)
  /\ stage \in {"auditing", "returning"} => result \in QueryResult
  /\ stage \in {"failing", "raising"} => error \in DbMcpError

\* The inductive invariant of what reaches a backend.
PipelineInv ==
  /\ TypeOK
  /\ StageFacts
  /\ OnlyAdmissibleStatements
  /\ AdapterGetsApprovedOptions
  /\ RefusedCallsTouchNothing

Unsent == {"validating", "resolving", "building", "connecting"}

\* What the histories hold of the call in progress: it is the one that is open;
\* its statement is there once it was sent, its event once it was audited; if
\* it may run, it got to the secrets; the error or the result it is about to end
\* with is the one it has to be.
OpenFacts ==
  \A c \in DOMAIN answers :
    answers[c].status = "open" <=> stage # "idle" /\ c = Current

SentFacts ==
  /\ stage \in Unsent => SentAt(Current) = {}
  /\ stage \in Executed => sent[Len(sent)].call = Current
  /\ stage = "executing" => sent[Len(sent)].reply = None

ProgressFacts ==
  stage \notin {"idle", "validating", "resolving"} /\ Admissible(config, Call) =>
    Current \in touched

AuditFacts ==
  /\ stage = "returning" =>
       /\ AuditedAt(Current) = {Len(audit)}
       /\ audit[Len(audit)] = EventOf(Current, "service", "success", None)
  /\ stage = "raising" =>
       /\ AuditedAt(Current) = {Len(audit)}
       /\ audit[Len(audit)] = EventOf(Current, "service", "failure", error.code)
  /\ stage \notin {"idle", "returning", "raising"} => AuditedAt(Current) = {}

OutcomeFacts ==
  /\ stage \in {"failing", "raising"} => StableCode(config, Call, error.code)
  /\ stage \in {"auditing", "returning"} /\ Call.tool = "run_query" =>
       Reported(sent[Len(sent)], result)

\* The inductive invariant of what is told of it.
HistoryInv ==
  /\ PipelineInv
  /\ OpenFacts /\ SentFacts /\ ProgressFacts /\ AuditFacts /\ OutcomeFacts
  /\ AtMostOneExecution
  /\ AuditAgreesWithAnswer
  /\ RefusalCodesAreStable
  /\ TruncationIsReported
  /\ AdmissibleCallsAreTried
==============================================================================
