-------------------------- MODULE QueryPipelineProofs --------------------------
(***************************************************************************)
(* Type correctness and safety of the query pipeline for every value of    *)
(* its constants.                                                          *)
(***************************************************************************)
EXTENDS QueryProperties, ErrorModelProofs, SequenceTheorems

\* An argument that is given wins.
LEMMA GivenType ==
  ASSUME NEW S, NEW v \in S \cup {None}, NEW d \in S \cup {None}
  PROVE  /\ Given(v, d) \in S \cup {None}
         /\ d \in S => Given(v, d) \in S
BY DEF Given

\* A foreign exception is not None.
LEMMA RawType ==
  ASSUME NEW words \in SUBSET ErrorCode
  PROVE  Raw(words) \in RawError /\ Raw(words) # None
<1>1. Raw(words) \in RawError
  BY RawWords
<1> QED
  BY <1>1, NoneAssumption

\* Whatever is missing from a request, QueryService ends up with a QueryOptions.
LEMMA ResolvedOptionsType ==
  ASSUME NEW r \in Requests
  PROVE  resolve_query_options(r) \in QueryOptions
<1>1. r \in Request
  BY PipelineAssumption
<1>2. NoOptions \in QueryOptions
  BY DEF NoOptions, QueryOptions
<1>3. Given(r.options, NoOptions) \in QueryOptions
  BY <1>1, <1>2 DEF Given, Request
<1> QED
  BY <1>1, <1>3 DEF resolve_query_options, Given, Request, QueryOptions

\* The mode and limits QueryService works out are the effective ones.
LEMMA ResolvedOptionsEffective ==
  ASSUME NEW c \in Configs, NEW r \in Requests
  PROVE  LET o == resolve_query_options(r)
         IN  /\ Given(o.permission_mode, c.defaults.permission_mode)
                  = EffectiveMode(c, r)
             /\ \A l \in Limit : Given(o.limits[l], c.defaults.limits[l])
                                   = EffectiveLimit(c, r, l)
<1>1. r \in Request
  BY PipelineAssumption
<1>2. CASE r.options = None
  BY <1>1, <1>2 DEF resolve_query_options, Given, NoOptions, EffectiveMode,
                    EffectiveLimit
<1>3. CASE r.options # None
  BY <1>1, <1>3 DEF resolve_query_options, Given, EffectiveMode, EffectiveLimit
<1> QED
  BY <1>2, <1>3

\* Every statement of a text is classified, in its place.
LEMMA StatementKinds ==
  ASSUME NEW text, Parsed[text] \in Seq(Node)
  PROVE  /\ DOMAIN statement_kinds(text) = DOMAIN Parsed[text]
         /\ Len(statement_kinds(text)) = Len(Parsed[text])
         /\ \A i \in DOMAIN Parsed[text] :
              statement_kinds(text)[i] = classify_statement(Parsed[text][i])
<1> DEFINE n == Len(Parsed[text])
           k == statement_kinds(text)
<1>1. n \in Nat /\ DOMAIN Parsed[text] = 1 .. n
  BY LenProperties
<1>2. DOMAIN k = 1 .. n
        /\ \A i \in 1 .. n : k[i] = classify_statement(Parsed[text][i])
  BY <1>1 DEF statement_kinds
<1>3. \A i \in 1 .. n : k[i] \in SqlStatementKind
  BY <1>2 DEF classify_statement, SqlStatementKind
<1>4. k \in [1 .. n -> SqlStatementKind]
  BY <1>1, <1>3 DEF statement_kinds
<1> HIDE DEF k, n
<1>5. k \in Seq(SqlStatementKind)
  BY <1>1, <1>4, SeqDef
<1>6. Len(k) = n
  BY <1>1, <1>2, <1>5, LenProperties
<1> QED
  BY <1>1, <1>2, <1>6 DEF k, n

\* The policy allows what the order-free rule permits, and nothing else.
LEMMA AllowedIsPermitted ==
  ASSUME NEW c \in Configs, NEW r \in Requests, Known(c, r), Parses(r),
         policy_decision(c, r, resolve_query_options(r)).allowed
  PROVE  Permitted(c, r)
<1> DEFINE o    == resolve_query_options(r)
           text == r.sql.text
           mode == Given(o.permission_mode, c.defaults.permission_mode)
           reason == refusal_reason(parse_sql(text),
                       c.connections[r.connection_name], mode,
                       c.defaults.allow_multiple_statements,
                       c.defaults.block_destructive_sql)
<1>1. reason = None
  BY DEF policy_decision, evaluate_analysis
<1>2. "multi_statement_not_allowed" # None
        /\ "destructive_sql_blocked" # None
        /\ "full_permission_required" # None /\ "read_only_connection" # None
  BY NoneAssumption DEF PolicyReason
<1>3. text \in Texts /\ Parsed[text] \in Seq(Node)
  BY PipelineAssumption DEF Request, Sql, Parses
<1>4. Len(Parsed[text]) > 1 => ~parse_sql(text).is_single_statement
  <2> DEFINE n == Len(Parsed[text])
             m == Len(statement_kinds(text))
  <2>1. m = n /\ n \in Nat
    BY <1>3, StatementKinds, LenProperties
  <2>2. parse_sql(text).is_single_statement <=> m = 1
    BY DEF parse_sql
  <2> HIDE DEF n, m
  <2>3. n > 1 => m # 1
    BY <2>1
  <2> QED
    BY <2>2, <2>3, Zenon DEF n
<1>5. Destroys(r) = parse_sql(text).has_destructive
  BY <1>3, StatementKinds DEF parse_sql, Destroys
<1>6. mode = EffectiveMode(c, r)
  BY ResolvedOptionsEffective
<1>7. mode \in PermissionMode
  <2>1. c.defaults.permission_mode \in PermissionMode
    BY PipelineAssumption DEF IsConfig, Defaults
  <2>2. o.permission_mode \in PermissionMode \cup {None}
    BY ResolvedOptionsType DEF QueryOptions
  <2> QED
    BY <2>1, <2>2 DEF Given
<1> HIDE DEF mode, text
<1> QED
  BY <1>1, <1>2, <1>4, <1>5, <1>6, <1>7
     DEF Permitted, refusal_reason, full_mode_refusal, PermissionMode, text

\* The order of checks in the code comes to the same as the order-free rule: a
\* request that validation lets through is admissible.
LEMMA PassedIsAdmissible ==
  ASSUME NEW c \in Configs, NEW r \in Requests,
         refusal(c, r, resolve_query_options(r)) = None
  PROVE  Admissible(c, r)
<1> DEFINE o == resolve_query_options(r)
<1>1. Coded("UNKNOWN_CONNECTION") # None /\ Coded("INVALID_SQL") # None
        /\ Coded("QUERY_BLOCKED") # None
  BY NoneAssumption DEF Coded, DbMcpError, ErrorCode
<1>2. /\ Known(c, r) /\ Parses(r)
      /\ policy_decision(c, r, o).allowed
      /\ limits_error(resolve_query_limits(c.defaults, o)) = None
  BY <1>1 DEF refusal, Known, parses, Parses
<1>3. Permitted(c, r)
  BY <1>2, AllowedIsPermitted
<1>4. \A l \in Limit : EffectiveLimit(c, r, l) > 0
  <2> DEFINE limits == resolve_query_limits(c.defaults, o)
  <2>1. \A l \in Limit : limits[l] = EffectiveLimit(c, r, l)
    BY ResolvedOptionsEffective DEF resolve_query_limits
  <2>2. limits \in [Limit -> Int]
    <3>1. c.defaults.limits \in [Limit -> Int]
      BY PipelineAssumption DEF IsConfig, Defaults
    <3>2. o.limits \in [Limit -> Int \cup {None}]
      BY ResolvedOptionsType DEF QueryOptions
    <3> QED
      BY <3>1, <3>2 DEF resolve_query_limits, Given
  <2>3. Raw({"QUERY_TIMEOUT"}) # None /\ Raw({}) # None
    BY RawType DEF ErrorCode
  <2> HIDE DEF limits
  <2>4. limits_error(limits) = None
    BY <1>2 DEF limits
  <2>5. \A l \in Limit : limits[l] > 0
    BY <2>2, <2>3, <2>4 DEF limits_error, Limit
  <2> QED
    BY <2>1, <2>5
<1> QED
  BY <1>2, <1>3, <1>4 DEF Admissible

\* The policy refuses only what the order-free rule forbids.
LEMMA PermittedIsAllowed ==
  ASSUME NEW c \in Configs, NEW r \in Requests, Known(c, r), Parses(r),
         Permitted(c, r)
  PROVE  policy_decision(c, r, resolve_query_options(r)).allowed
<1> DEFINE o    == resolve_query_options(r)
           text == r.sql.text
           mode == Given(o.permission_mode, c.defaults.permission_mode)
           reason == refusal_reason(parse_sql(text),
                       c.connections[r.connection_name], mode,
                       c.defaults.allow_multiple_statements,
                       c.defaults.block_destructive_sql)
<1>1. policy_decision(c, r, o).allowed <=> reason = None
  BY DEF policy_decision, evaluate_analysis
<1>2. text \in Texts /\ Parsed[text] \in Seq(Node) /\ Parsed[text] # << >>
  BY PipelineAssumption DEF Request, Sql, Parses
<1>3. parse_sql(text).is_single_statement \/ c.defaults.allow_multiple_statements
  <2> DEFINE n == Len(Parsed[text])
             m == Len(statement_kinds(text))
  <2>1. m = n /\ n \in Nat /\ n # 0
    BY <1>2, StatementKinds, EmptySeq, LenProperties
  <2>2. parse_sql(text).is_single_statement <=> m = 1
    BY DEF parse_sql
  <2>3. n > 1 => c.defaults.allow_multiple_statements
    BY DEF Permitted
  <2> HIDE DEF n, m
  <2>4. n = 1 \/ n > 1
    BY <2>1
  <2> QED
    BY <2>1, <2>2, <2>3, <2>4
<1>4. Destroys(r) = parse_sql(text).has_destructive
  BY <1>2, StatementKinds DEF parse_sql, Destroys
<1>5. mode = EffectiveMode(c, r)
  BY ResolvedOptionsEffective
<1> HIDE DEF mode, text
<1>6. reason = None
  BY <1>3, <1>4, <1>5 DEF Permitted, refusal_reason, full_mode_refusal, text
<1> QED
  BY <1>1, <1>6

\* Validation refuses a request exactly if it is not admissible: no check of the
\* code lets through what it should not or stops what it should let through.
THEOREM ValidationIsExact ==
  ASSUME NEW c \in Configs, NEW r \in Requests
  PROVE  refusal(c, r, resolve_query_options(r)) = None <=> Admissible(c, r)
<1> DEFINE o == resolve_query_options(r)
           limits == resolve_query_limits(c.defaults, o)
<1>1. ASSUME Admissible(c, r) PROVE refusal(c, r, o) = None
  <2>1. r.connection_name \in DOMAIN c.connections /\ parses(r.sql.text)
    BY <1>1 DEF Admissible, Known, Parses, parses
  <2>2. policy_decision(c, r, o).allowed
    BY <1>1, PermittedIsAllowed DEF Admissible
  <2>3. \A l \in Limit : limits[l] > 0
    BY <1>1, ResolvedOptionsEffective DEF resolve_query_limits, Admissible
  <2>4. limits \in [Limit -> Int]
    <3>1. c.defaults.limits \in [Limit -> Int]
      BY PipelineAssumption DEF IsConfig, Defaults
    <3>2. o.limits \in [Limit -> Int \cup {None}]
      BY ResolvedOptionsType DEF QueryOptions
    <3> QED
      BY <3>1, <3>2 DEF resolve_query_limits, Given
  <2> HIDE DEF limits
  <2>5. limits_error(limits) = None
    BY <2>3, <2>4 DEF limits_error, Limit
  <2> QED
    BY <2>1, <2>2, <2>5 DEF refusal, limits
<1> QED
  BY <1>1, PassedIsAdmissible

\* The options QueryService works out after validation are the effective ones,
\* and fully defined.
LEMMA ApprovedOptions ==
  ASSUME NEW c \in Configs, NEW r \in Requests
  PROVE  LET o == resolve_query_options(r)
             approved == execution_options(validate_query_request(c, r, o), o)
         IN  /\ approved =
                  [ permission_mode |-> EffectiveMode(c, r),
                    limits |-> [l \in Limit |-> EffectiveLimit(c, r, l)],
                    allow_multiple_statements |->
                      c.defaults.allow_multiple_statements ]
             /\ approved \in QueryOptions
             /\ approved.limits \in [Limit -> Int]
<1> DEFINE o == resolve_query_options(r)
           v == validate_query_request(c, r, o)
<1>1. c.defaults \in Defaults
  BY PipelineAssumption DEF IsConfig
<1>2. r \in Request
  BY PipelineAssumption
<1>3. o \in QueryOptions
  BY ResolvedOptionsType
<1>4. EffectiveMode(c, r) \in PermissionMode
  BY <1>1, <1>2 DEF EffectiveMode, Request, QueryOptions, Defaults
<1>5. \A l \in Limit : EffectiveLimit(c, r, l) \in Int
  BY <1>1, <1>2 DEF EffectiveLimit, Request, QueryOptions, Defaults
<1>6. v.policy.permission_mode = EffectiveMode(c, r)
        /\ v.policy.allow_multiple_statements
             = c.defaults.allow_multiple_statements
  BY ResolvedOptionsEffective
     DEF validate_query_request, policy_decision, evaluate_analysis
<1>7. v.limits = [l \in Limit |-> EffectiveLimit(c, r, l)]
  BY ResolvedOptionsEffective DEF validate_query_request, resolve_query_limits
<1>8. EffectiveMode(c, r) # None
        /\ c.defaults.allow_multiple_statements \in BOOLEAN
        /\ c.defaults.allow_multiple_statements # None
  BY <1>1, <1>4, NoneAssumption DEF Defaults
<1>9. /\ Given(v.policy.permission_mode, o.permission_mode)
           = EffectiveMode(c, r)
      /\ Given(v.policy.allow_multiple_statements, o.allow_multiple_statements)
           = c.defaults.allow_multiple_statements
  BY <1>6, <1>8 DEF Given
<1> HIDE DEF o, v
<1>10. execution_options(v, o) =
         [ permission_mode |-> EffectiveMode(c, r),
           limits |-> [l \in Limit |-> EffectiveLimit(c, r, l)],
           allow_multiple_statements |-> c.defaults.allow_multiple_statements ]
  BY <1>7, <1>9 DEF execution_options
<1>11. [l \in Limit |-> EffectiveLimit(c, r, l)] \in [Limit -> Int]
  BY <1>5
<1> QED
  BY <1>4, <1>8, <1>10, <1>11 DEF QueryOptions, o, v

\* Validation either returns or raises an exception of a known kind.
LEMMA RefusalType ==
  ASSUME NEW c \in Configs, NEW r \in Requests
  PROVE  refusal(c, r, resolve_query_options(r))
           \in DbMcpError \cup RawError \cup {None}
<1>1. /\ Coded("UNKNOWN_CONNECTION") \in DbMcpError
      /\ Coded("INVALID_SQL") \in DbMcpError
      /\ Coded("QUERY_BLOCKED") \in DbMcpError
  BY DEF Coded, DbMcpError, ErrorCode
<1>2. Raw({"QUERY_TIMEOUT"}) \in RawError /\ Raw({}) \in RawError
  BY RawType DEF ErrorCode
<1> QED
  BY <1>1, <1>2 DEF refusal, limits_error

\* An adapter returns a well-formed result or raises.
LEMMA AdapterResultType ==
  ASSUME NEW type, NEW tool, NEW reply \in Reply, NEW max_rows \in Int
  PROVE  /\ adapter_result(type, tool, reply, max_rows) \in QueryResult \cup RawError
         /\ adapter_result(type, tool, reply, max_rows).kind = "result" =>
              adapter_result(type, tool, reply, max_rows) \in QueryResult
<1> DEFINE cut == [ code |-> "truncation", limit_type |-> "rows",
                    limit |-> max_rows, actual |-> reply.rows ]
<1>1. Raw({}) \in RawError /\ Raw({"QUERY_BLOCKED"}) \in RawError
  BY RawType DEF ErrorCode
<1>2. reply.rows \in Nat
  BY DEF Reply
<1>3. Result(reply.rows, FALSE, {}) \in QueryResult
  BY <1>2 DEF Result, QueryResult
<1>4. cut \in Warning
  BY <1>2 DEF Warning
<1>5. cuts(reply.rows, max_rows) => max_rows \in Nat
  BY DEF cuts
<1> HIDE DEF cut
<1>6. max_rows \in Nat => Result(max_rows, TRUE, {cut}) \in QueryResult
  BY <1>4 DEF Result, QueryResult
<1>7. build_query_result(reply, max_rows) \in QueryResult
  BY <1>3, <1>5, <1>6 DEF build_query_result, cut
<1>8. adapter_result(type, tool, reply, max_rows) \in QueryResult \cup RawError
  BY <1>1, <1>3, <1>7
     DEF adapter_result, databricks_run_query, databricks_explain_query,
         sqlalchemy_run_query, sqlalchemy_explain_query, keys_error, reload_error
<1>9. \A x \in RawError : x.kind # "result"
  BY DEF RawError
<1> QED
  BY <1>8, <1>9

\* Normalization keeps a result well-formed.
LEMMA NormalizedResult ==
  ASSUME NEW r \in QueryResult
  PROVE  normalize_query_result(r) \in QueryResult
<1>1. normalize_warnings(r.warnings) \in SUBSET Warning
  BY DEF normalize_warnings, QueryResult, Warning
<1> QED
  BY <1>1 DEF normalize_query_result, QueryResult

------------------------------------------------------------------------------
\* The inductive invariant.

\* What TypeOK and StageFacts say of the call in progress.
LEMMA CallInProgress ==
  ASSUME TypeOK, StageFacts, stage # "idle"
  PROVE  /\ Current \in 1 .. Len(calls)
         /\ Current \in DOMAIN calls
         /\ Call \in Requests
         /\ Call \in Request
         /\ Current \in DOMAIN answers
<1>1. calls \in Seq(Requests) /\ calls # << >>
  BY DEF TypeOK, StageFacts
<1>2. Len(calls) \in Nat \ {0} /\ DOMAIN calls = 1 .. Len(calls)
  BY <1>1, EmptySeq, LenProperties
<1>3. Current \in 1 .. Len(calls)
  BY <1>2 DEF Current
<1>4. Call \in Requests
  BY <1>1, <1>3, ElementOfSeq DEF Call
<1>5. DOMAIN answers = 1 .. Len(calls)
  BY LenProperties DEF TypeOK
<1> QED
  BY <1>2, <1>3, <1>4, <1>5, PipelineAssumption

\* The statement that is at a backend, or was last.
LEMMA StatementInProgress ==
  ASSUME TypeOK, StageFacts, stage \in Executed
  PROVE  /\ Len(sent) \in 1 .. Len(sent)
         /\ Len(sent) \in DOMAIN sent
         /\ sent[Len(sent)] \in SentRecord(Len(calls))
         /\ stage # "executing" => sent[Len(sent)].reply \in Reply
<1>1. sent \in Seq(SentRecord(Len(calls))) /\ sent # << >>
  BY DEF TypeOK, StageFacts
<1>2. Len(sent) \in Nat \ {0} /\ DOMAIN sent = 1 .. Len(sent)
  BY <1>1, EmptySeq, LenProperties
<1>3. sent[Len(sent)] \in SentRecord(Len(calls))
  BY <1>1, <1>2, ElementOfSeq
<1>4. stage # "executing" => sent[Len(sent)].reply \in Reply
  BY PipelineAssumption DEF StageFacts
<1> QED
  BY <1>2, <1>3, <1>4

\* What an approved call works with.
LEMMA CallApproved ==
  ASSUME TypeOK, StageFacts, stage \in Approved
  PROVE  /\ Admissible(config, Call)
         /\ validated.sql = [text |-> Call.sql.text, padded |-> FALSE]
         /\ options = [ permission_mode |-> EffectiveMode(config, Call),
                        limits |-> [l \in Limit |->
                                      EffectiveLimit(config, Call, l)],
                        allow_multiple_statements |->
                          config.defaults.allow_multiple_statements ]
         /\ options \in QueryOptions
         /\ options.limits \in [Limit -> Int]
<1> DEFINE asked == resolve_query_options(Call)
<1>1. stage # "idle" /\ Call \in Requests /\ config \in Configs
  BY CallInProgress DEF Approved, TypeOK
<1>2. /\ refusal(config, Call, asked) = None
      /\ validated = validate_query_request(config, Call, asked)
      /\ options = execution_options(validated, asked)
  BY DEF StageFacts
<1>3. Admissible(config, Call)
  BY <1>1, <1>2, PassedIsAdmissible
<1>4. validated.sql = [text |-> Call.sql.text, padded |-> FALSE]
  BY <1>2 DEF validate_query_request
<1> QED
  BY <1>1, <1>2, <1>3, <1>4, ApprovedOptions

\* A failing step leaves one of the server's errors behind.
LEMMA FailSets ==
  ASSUME NEW exc \in DbMcpError \cup RawError, Fail(exc)
  PROVE  error' \in DbMcpError /\ stage' = "failing"
BY NormalizedError DEF Fail

\* What a request is answered is a well-formed answer.
LEMMA AnswerTypes ==
  /\ Open \in AnswerRecord /\ Lost \in AnswerRecord
  /\ \A r \in QueryResult : Answered(r) \in AnswerRecord
  /\ \A e \in DbMcpError : Failed(e) \in AnswerRecord
BY DEF Open, Lost, Answered, Failed, AnswerRecord, DbMcpError

\* Answering the call in progress keeps the answers well-formed.
LEMMA AnswerKeepsType ==
  ASSUME TypeOK, StageFacts, stage # "idle",
         NEW a \in AnswerRecord, Answer(a)
  PROVE  answers' \in Seq(AnswerRecord) /\ Len(answers') = Len(calls)
<1>1. answers \in Seq(AnswerRecord) /\ Len(answers) = Len(calls)
        /\ Current \in 1 .. Len(answers)
  BY CallInProgress DEF TypeOK
<1> QED
  BY <1>1, ExceptSeq DEF Answer

\* Auditing the call in progress keeps the log well-formed.
LEMMA AuditKeepsType ==
  ASSUME TypeOK, StageFacts, stage # "idle",
         NEW by \in {"service", "tool"}, NEW status \in {"success", "failure"},
         NEW code \in ErrorCode \cup {None}
  PROVE  Append(audit, Event(by, status, code)) \in Seq(AuditRecord(Len(calls)))
<1>1. Event(by, status, code) \in AuditRecord(Len(calls))
  BY CallInProgress DEF Event, AuditRecord
<1> QED
  BY <1>1, AppendProperties DEF TypeOK

\* Every step keeps the types.
LEMMA TypeStep ==
  ASSUME TypeOK, StageFacts, [Next]_vars
  PROVE  TypeOK'
<1>1. ASSUME NEW r \in Requests, Receive(r) PROVE TypeOK'
  <2> DEFINE n == Len(calls)
  <2>1. /\ calls \in Seq(Requests) /\ answers \in Seq(AnswerRecord)
        /\ calls' = Append(calls, r) /\ answers' = Append(answers, Open)
    BY <1>1 DEF Receive, TypeOK
  <2>2. /\ calls' \in Seq(Requests) /\ Len(calls') = n + 1 /\ n \in Nat
        /\ DOMAIN calls = 1 .. n /\ DOMAIN calls' = 1 .. n + 1
    BY <2>1, AppendProperties, LenProperties
  <2>3. answers' \in Seq(AnswerRecord) /\ Len(answers') = n + 1
    BY <2>1, AnswerTypes, AppendProperties DEF TypeOK
  <2>4. SentRecord(n) \subseteq SentRecord(n + 1)
          /\ AuditRecord(n) \subseteq AuditRecord(n + 1)
          /\ 1 .. n \subseteq 1 .. n + 1
    <3> HIDE DEF n
    <3> QED
      BY <2>2 DEF SentRecord, AuditRecord
  <2>5. sent \in Seq(SentRecord(n + 1)) /\ audit \in Seq(AuditRecord(n + 1))
    BY <2>4, SeqMonotonic DEF TypeOK
  <2>6. touched \subseteq DOMAIN calls'
    BY <2>2, <2>4 DEF TypeOK
  <2>7. options' \in QueryOptions /\ stage' \in Stage
    BY <1>1, ResolvedOptionsType DEF Receive, Stage
  <2> QED
    BY <1>1, <2>2, <2>3, <2>5, <2>6, <2>7 DEF TypeOK, Receive
<1>2. CASE ValidationPasses
  <2>1. stage # "idle" /\ options = resolve_query_options(Call)
          /\ config \in Configs
    BY <1>2 DEF ValidationPasses, StageFacts, TypeOK
  <2>2. options' = execution_options(
                     validate_query_request(config, Call, options), options)
    BY <1>2 DEF ValidationPasses
  <2>3. options' \in QueryOptions
    BY <2>1, <2>2, CallInProgress, ApprovedOptions
  <2> QED
    BY <1>2, <2>3 DEF TypeOK, ValidationPasses, Stage
<1>3. CASE ValidationRefuses
  <2> DEFINE exc == refusal(config, Call, options)
  <2>1. stage # "idle" /\ options = resolve_query_options(Call)
          /\ config \in Configs /\ exc # None /\ Fail(exc)
    BY <1>3 DEF ValidationRefuses, StageFacts, TypeOK
  <2>2. exc \in DbMcpError \cup RawError
    BY <2>1, CallInProgress, RefusalType
  <2> HIDE DEF exc
  <2>3. error' \in DbMcpError /\ stage' = "failing"
    BY <2>1, <2>2, FailSets
  <2> QED
    BY <1>3, <2>3 DEF TypeOK, ValidationRefuses, Stage
<1>4. CASE ResolveSecrets
  <2> DEFINE field == config.unset[Call.connection_name]
  <2>1. Current \in DOMAIN calls
    BY <1>4, CallInProgress DEF ResolveSecrets
  <2>2. secret_error(field) \in RawError
    BY SecretErrorType
  <2>3. /\ touched' = touched \cup {Current}
        /\ \/ stage' = "building" /\ error' = error
           \/ Fail(secret_error(field))
    BY <1>4 DEF ResolveSecrets
  <2> HIDE DEF field
  <2>4. error' \in DbMcpError \cup {None} /\ stage' \in Stage
    BY <2>2, <2>3, FailSets DEF TypeOK, Stage
  <2> QED
    BY <1>4, <2>1, <2>3, <2>4 DEF TypeOK, ResolveSecrets
<1>5. CASE BuildAdapter
  BY <1>5 DEF TypeOK, BuildAdapter, Stage
<1>6. CASE BuildFails \/ ConnectFails \/ BackendRaises
  <2>1. PICK exc \in BackendErrors \cup {Coded("CONNECTION_FAILED")} : Fail(exc)
    BY <1>6 DEF BuildFails, ConnectFails, BackendRaises
  <2>2. exc \in DbMcpError \cup RawError
    BY PipelineAssumption DEF Coded, DbMcpError, ErrorCode
  <2>3. error' \in DbMcpError /\ stage' = "failing"
    BY <2>1, <2>2, FailSets
  <2> QED
    BY <1>6, <2>3 DEF TypeOK, BuildFails, ConnectFails, BackendRaises, Stage
<1>7. CASE SendStatement
  <2> DEFINE s == [ call |-> Current, sql |-> validated.sql,
                    options |-> options, reply |-> None, durable |-> FALSE ]
  <2>1. stage = "connecting" /\ sent' = Append(sent, s)
    BY <1>7 DEF SendStatement
  <2>2. Current \in 1 .. Len(calls) /\ Call \in Request
    BY <2>1, CallInProgress
  <2>3. validated.sql \in Sql /\ options \in QueryOptions
    <3>1. /\ validated.sql = [text |-> Call.sql.text, padded |-> FALSE]
          /\ options \in QueryOptions
      BY <2>1, CallApproved DEF Approved
    <3>2. Call.sql.text \in Texts
      BY <2>2 DEF Request, Sql
    <3> QED
      BY <3>1, <3>2 DEF Sql
  <2>4. s \in SentRecord(Len(calls))
    BY <2>2, <2>3 DEF SentRecord
  <2> HIDE DEF s
  <2>5. sent' \in Seq(SentRecord(Len(calls)))
    BY <2>1, <2>4, AppendProperties DEF TypeOK
  <2> QED
    BY <1>7, <2>5 DEF TypeOK, SendStatement, Stage
<1>8. CASE BackendReplies
  <2> DEFINE k == Len(sent)
  <2>1. PICK reply \in Replies, durable \in BOOLEAN :
          sent' = [sent EXCEPT ![k].reply = reply, ![k].durable = durable]
    BY <1>8 DEF BackendReplies, commits
  <2>2. k \in 1 .. Len(sent) /\ sent[k] \in SentRecord(Len(calls))
    BY <1>8, StatementInProgress DEF BackendReplies, Executed
  <2> DEFINE s == [sent[k] EXCEPT !.reply = reply, !.durable = durable]
  <2>3. s \in SentRecord(Len(calls))
    BY <2>2, PipelineAssumption DEF SentRecord
  <2>4. sent' = [sent EXCEPT ![k] = s]
    BY <2>1, <2>2 DEF TypeOK
  <2> HIDE DEF s, k
  <2>5. sent' \in Seq(SentRecord(Len(calls)))
    BY <2>2, <2>3, <2>4, ExceptSeq DEF TypeOK
  <2> QED
    BY <1>8, <2>5 DEF TypeOK, BackendReplies, Stage
<1>9. CASE Normalize \/ NormalizeFails
  <2>1. stage = "normalizing" /\ stage \in Executed /\ stage \in Approved
    BY <1>9 DEF Normalize, NormalizeFails, Executed, Approved
  <2>2. options.limits["max_rows"] \in Int
    BY <2>1, CallApproved DEF Limit
  <2>3. /\ Returned \in QueryResult \cup RawError
        /\ Returned.kind = "result" => Returned \in QueryResult
    BY <2>1, <2>2, StatementInProgress, AdapterResultType DEF Returned
  <2>4. CASE Normalize
    <3>1. result' \in QueryResult
      BY <2>3, <2>4, NormalizedResult DEF Normalize
    <3> QED
      BY <2>4, <3>1 DEF TypeOK, Normalize, Stage
  <2>5. CASE NormalizeFails
    <3>1. \A r \in QueryResult : r.kind = "result"
      BY DEF QueryResult
    <3>2. Returned \in RawError /\ Fail(Returned)
      BY <2>3, <2>5, <3>1 DEF NormalizeFails
    <3>3. error' \in DbMcpError /\ stage' = "failing"
      BY <3>2, FailSets
    <3> QED
      BY <2>5, <3>3 DEF TypeOK, NormalizeFails, Stage
  <2> QED
    BY <1>9, <2>4, <2>5
<1>10. CASE AuditSuccess
  <2>1. audit' \in Seq(AuditRecord(Len(calls)))
    BY <1>10, AuditKeepsType DEF AuditSuccess
  <2> QED
    BY <1>10, <2>1 DEF TypeOK, AuditSuccess, Stage
<1>11. CASE AuditFailure
  <2>1. error.code \in ErrorCode
    BY <1>11 DEF AuditFailure, StageFacts, DbMcpError
  <2>2. audit' \in Seq(AuditRecord(Len(calls)))
    BY <1>11, <2>1, AuditKeepsType DEF AuditFailure
  <2> QED
    BY <1>11, <2>2 DEF TypeOK, AuditFailure, Stage
<1>12. CASE Return
  <2>1. Answered(result) \in AnswerRecord
    BY <1>12, AnswerTypes DEF Return, StageFacts
  <2>2. answers' \in Seq(AnswerRecord) /\ Len(answers') = Len(calls)
    BY <1>12, <2>1, AnswerKeepsType DEF Return
  <2> QED
    BY <1>12, <2>2 DEF TypeOK, Return, Forget, Stage
<1>13. CASE RaiseToCaller
  <2>1. Failed(error) \in AnswerRecord
    BY <1>13, AnswerTypes DEF RaiseToCaller, StageFacts
  <2>2. answers' \in Seq(AnswerRecord) /\ Len(answers') = Len(calls)
    BY <1>13, <2>1, AnswerKeepsType DEF RaiseToCaller
  <2> QED
    BY <1>13, <2>2 DEF TypeOK, RaiseToCaller, Forget, Stage
<1>14. CASE ToolAuditsFailure
  <2> DEFINE e == normalize_exception(error)
  <2>1. e \in DbMcpError
    BY <1>14, NormalizedError DEF ToolAuditsFailure, StageFacts
  <2> HIDE DEF e
  <2>2. audit' = Append(audit, Event("tool", "failure", e.code))
          /\ Answer(Failed(e)) /\ stage # "idle"
    BY <1>14 DEF ToolAuditsFailure, e
  <2>3. e.code \in ErrorCode
    BY <2>1 DEF DbMcpError
  <2>4. audit' \in Seq(AuditRecord(Len(calls)))
    BY <2>2, <2>3, AuditKeepsType
  <2>5. answers' \in Seq(AnswerRecord) /\ Len(answers') = Len(calls)
    BY <2>1, <2>2, AnswerTypes, AnswerKeepsType
  <2> QED
    BY <1>14, <2>4, <2>5 DEF TypeOK, ToolAuditsFailure, Forget, Stage
<1>15. CASE Crash
  <2>1. answers' \in Seq(AnswerRecord) /\ Len(answers') = Len(calls)
    BY <1>15, AnswerTypes, AnswerKeepsType DEF Crash
  <2> QED
    BY <1>15, <2>1 DEF TypeOK, Crash, Forget, Stage
<1>16. CASE UNCHANGED vars
  BY <1>16 DEF TypeOK, vars
<1> QED
  BY <1>1, <1>2, <1>3, <1>4, <1>5, <1>6, <1>7, <1>8, <1>9, <1>10, <1>11, <1>12,
     <1>13, <1>14, <1>15, <1>16 DEF Next, ServerStep, BackendStep, Finished

\* Every step leaves the next stage with what it counts on.
LEMMA StageFactsStep ==
  ASSUME TypeOK, TypeOK', StageFacts, [Next]_vars
  PROVE  StageFacts'
<1>1. ASSUME NEW r \in Requests, Receive(r) PROVE StageFacts'
  <2>1. calls \in Seq(Requests) /\ calls' = Append(calls, r)
          /\ options' = resolve_query_options(r) /\ stage' = "validating"
    BY <1>1 DEF Receive, TypeOK
  <2>2. calls' # << >> /\ calls'[Len(calls')] = r
    BY <2>1, AppendProperties
  <2> QED
    BY <2>1, <2>2 DEF StageFacts, Approved, Executed, Call, Current
<1>2. CASE ValidationPasses
  <2>1. stage = "validating" /\ options = resolve_query_options(Call)
          /\ calls # << >>
    BY <1>2 DEF ValidationPasses, StageFacts
  <2> QED
    BY <1>2, <2>1
       DEF StageFacts, ValidationPasses, Approved, Executed, Call, Current
<1>3. CASE ValidationRefuses
  <2> DEFINE exc == refusal(config, Call, options)
  <2>1. stage # "idle" /\ options = resolve_query_options(Call)
          /\ config \in Configs /\ exc # None /\ Fail(exc)
    BY <1>3 DEF ValidationRefuses, StageFacts, TypeOK
  <2>2. exc \in DbMcpError \cup RawError
    BY <2>1, CallInProgress, RefusalType
  <2> HIDE DEF exc
  <2>3. error' \in DbMcpError /\ stage' = "failing"
    BY <2>1, <2>2, FailSets
  <2> QED
    BY <1>3, <2>1, <2>3 DEF StageFacts, ValidationRefuses, Approved, Executed
<1>4. CASE ResolveSecrets
  <2> DEFINE field == config.unset[Call.connection_name]
  <2>1. secret_error(field) \in RawError
    BY SecretErrorType
  <2>2. stage' = "building" \/ Fail(secret_error(field))
    BY <1>4 DEF ResolveSecrets
  <2> HIDE DEF field
  <2>3. stage' = "building" \/ (stage' = "failing" /\ error' \in DbMcpError)
    BY <2>1, <2>2, FailSets
  <2> QED
    BY <1>4, <2>3
       DEF StageFacts, ResolveSecrets, Approved, Executed, Call, Current
<1>5. CASE BuildAdapter
  BY <1>5 DEF StageFacts, BuildAdapter, Approved, Executed, Call, Current
<1>6. CASE BuildFails \/ ConnectFails \/ BackendRaises
  <2>1. PICK exc \in BackendErrors \cup {Coded("CONNECTION_FAILED")} : Fail(exc)
    BY <1>6 DEF BuildFails, ConnectFails, BackendRaises
  <2>2. exc \in DbMcpError \cup RawError
    BY PipelineAssumption DEF Coded, DbMcpError, ErrorCode
  <2>3. error' \in DbMcpError /\ stage' = "failing"
    BY <2>1, <2>2, FailSets
  <2> QED
    BY <1>6, <2>3 DEF StageFacts, BuildFails, ConnectFails, BackendRaises,
                      Approved, Executed
<1>7. CASE SendStatement
  <2>1. sent' # << >>
    <3>1. sent' \in Seq(SentRecord(Len(calls'))) /\ sent \in Seq(SentRecord(Len(calls)))
      BY DEF TypeOK
    <3>2. Len(sent') = Len(sent) + 1
      BY <1>7, <3>1 DEF SendStatement
    <3> QED
      BY <3>1, <3>2, LenProperties, EmptySeq
  <2> QED
    BY <1>7, <2>1
       DEF StageFacts, SendStatement, Approved, Executed, Call, Current
<1>8. CASE BackendReplies
  <2> DEFINE k == Len(sent)
  <2>1. PICK reply \in Replies, durable \in BOOLEAN :
          sent' = [sent EXCEPT ![k].reply = reply, ![k].durable = durable]
    BY <1>8 DEF BackendReplies, commits
  <2>2. k \in 1 .. Len(sent) /\ sent[k] \in SentRecord(Len(calls))
          /\ sent \in Seq(SentRecord(Len(calls)))
    BY <1>8, StatementInProgress DEF BackendReplies, Executed, TypeOK
  <2>3. Len(sent') = k /\ sent'[k].reply = reply /\ sent' # << >>
    BY <2>1, <2>2, LenProperties DEF SentRecord
  <2> HIDE DEF k
  <2> QED
    BY <1>8, <2>3
       DEF StageFacts, BackendReplies, Approved, Executed, Call, Current
<1>9. CASE Normalize
  <2>1. stage \in Approved /\ stage \in Executed /\ stage # "executing"
    BY <1>9 DEF Normalize, Approved, Executed
  <2>2. options.limits["max_rows"] \in Int
    BY <2>1, CallApproved DEF Limit
  <2>3. Returned \in QueryResult
    BY <1>9, <2>1, <2>2, StatementInProgress, AdapterResultType
       DEF Returned, Normalize
  <2>4. result' \in QueryResult
    BY <1>9, <2>3, NormalizedResult DEF Normalize
  <2> QED
    BY <1>9, <2>4
       DEF StageFacts, Normalize, Approved, Executed, Call, Current
<1>10. CASE NormalizeFails
  <2>1. stage \in Approved /\ stage \in Executed /\ stage # "executing"
    BY <1>10 DEF NormalizeFails, Approved, Executed
  <2>2. options.limits["max_rows"] \in Int
    BY <2>1, CallApproved DEF Limit
  <2>3. Returned \in QueryResult \cup RawError
    BY <2>1, <2>2, StatementInProgress, AdapterResultType DEF Returned
  <2>4. \A r \in QueryResult : r.kind = "result"
    BY DEF QueryResult
  <2>5. Returned \in RawError /\ Fail(Returned)
    BY <1>10, <2>3, <2>4 DEF NormalizeFails
  <2>6. error' \in DbMcpError /\ stage' = "failing"
    BY <2>5, FailSets
  <2> QED
    BY <1>10, <2>6 DEF StageFacts, NormalizeFails, Approved, Executed
<1>11. CASE AuditSuccess
  BY <1>11 DEF StageFacts, AuditSuccess, Approved, Executed, Call, Current
<1>12. CASE AuditFailure
  BY <1>12 DEF StageFacts, AuditFailure, Approved, Executed, Call, Current
<1>13. CASE Return \/ RaiseToCaller \/ ToolAuditsFailure \/ Crash
  BY <1>13 DEF StageFacts, Return, RaiseToCaller, ToolAuditsFailure, Crash,
               Forget, Approved, Executed
<1>14. CASE UNCHANGED vars
  BY <1>14 DEF StageFacts, vars, Call, Current
<1> QED
  BY <1>1, <1>2, <1>3, <1>4, <1>5, <1>6, <1>7, <1>8, <1>9, <1>10, <1>11, <1>12,
     <1>13, <1>14 DEF Next, ServerStep, BackendStep, Finished

\* What the three safety properties ask of one statement and of one call.
StatementOK(s) ==
  /\ Admissible(config, calls[s.call])
  /\ s.sql = [text |-> calls[s.call].sql.text, padded |-> FALSE]
  /\ s.options = [ permission_mode |-> EffectiveMode(config, calls[s.call]),
                   limits |-> [l \in Limit |->
                                 EffectiveLimit(config, calls[s.call], l)],
                   allow_multiple_statements |->
                     config.defaults.allow_multiple_statements ]

Safe ==
  /\ \A i \in DOMAIN sent : StatementOK(sent[i])
  /\ \A c \in touched : Admissible(config, calls[c])

LEMMA SafeMeans ==
  Safe <=> /\ OnlyAdmissibleStatements /\ AdapterGetsApprovedOptions
           /\ RefusedCallsTouchNothing
BY DEF Safe, StatementOK, OnlyAdmissibleStatements, AdapterGetsApprovedOptions,
       RefusedCallsTouchNothing

\* No step reads a secret or sends a statement for a call that may not run.
LEMMA SafeStep ==
  ASSUME TypeOK, StageFacts, Safe, [Next]_vars
  PROVE  Safe'
<1>1. ASSUME NEW r \in Requests, Receive(r) PROVE Safe'
  <2>1. calls \in Seq(Requests) /\ calls' = Append(calls, r)
          /\ UNCHANGED <<config, sent, touched>>
    BY <1>1 DEF Receive, TypeOK
  <2>2. \A c \in DOMAIN calls : calls'[c] = calls[c]
    BY <2>1, AppendProperties, LenProperties
  <2>3. \A i \in DOMAIN sent : sent[i].call \in DOMAIN calls
    <3>1. SUFFICES ASSUME NEW i \in DOMAIN sent
                   PROVE  sent[i].call \in DOMAIN calls
      OBVIOUS
    <3>2. sent \in Seq(SentRecord(Len(calls)))
      BY DEF TypeOK
    <3>3. sent[i] \in SentRecord(Len(calls))
      BY <3>2, LenProperties, ElementOfSeq
    <3>4. DOMAIN calls = 1 .. Len(calls)
      BY <2>1, LenProperties
    <3> QED
      BY <3>3, <3>4 DEF SentRecord
  <2>4. touched \subseteq DOMAIN calls
    BY DEF TypeOK
  <2> QED
    BY <2>1, <2>2, <2>3, <2>4 DEF Safe, StatementOK
<1>2. CASE ResolveSecrets
  <2>1. /\ stage \in Approved /\ touched' = touched \cup {Current}
        /\ UNCHANGED <<config, calls, sent>>
    BY <1>2 DEF ResolveSecrets, Approved
  <2>2. Admissible(config, calls[Current])
    BY <2>1, CallApproved DEF Call
  <2> QED
    BY <2>1, <2>2 DEF Safe, StatementOK
<1>3. CASE SendStatement
  <2> DEFINE s == [ call |-> Current, sql |-> validated.sql,
                    options |-> options, reply |-> None, durable |-> FALSE ]
  <2>1. /\ stage \in Approved /\ sent' = Append(sent, s)
        /\ UNCHANGED <<config, calls, touched>>
    BY <1>3 DEF SendStatement, Approved
  <2>2. StatementOK(s)
    BY <2>1, CallApproved DEF Call, StatementOK
  <2> HIDE DEF s
  <2>3. \A i \in DOMAIN sent' : StatementOK(sent'[i])
    <3>1. SUFFICES ASSUME NEW i \in DOMAIN sent' PROVE StatementOK(sent'[i])
      OBVIOUS
    <3>2. sent \in Seq(SentRecord(Len(calls)))
      BY DEF TypeOK
    <3>3. sent'[i] = s \/ (i \in DOMAIN sent /\ sent'[i] = sent[i])
      BY <2>1, <3>1, <3>2
    <3> QED
      BY <2>2, <3>3 DEF Safe
  <2> QED
    BY <2>1, <2>3 DEF Safe, StatementOK
<1>4. CASE BackendReplies
  <2>1. UNCHANGED <<config, calls, touched>>
          /\ sent \in Seq(SentRecord(Len(calls)))
    BY <1>4 DEF BackendReplies, TypeOK
  <2>2. PICK reply \in Replies, durable \in BOOLEAN :
          sent' = [sent EXCEPT ![Len(sent)].reply = reply,
                               ![Len(sent)].durable = durable]
    BY <1>4 DEF BackendReplies, commits
  <2>3. DOMAIN sent' = DOMAIN sent
          /\ \A i \in DOMAIN sent : /\ sent'[i].call = sent[i].call
                                    /\ sent'[i].sql = sent[i].sql
                                    /\ sent'[i].options = sent[i].options
    <3>1. \A i \in DOMAIN sent : sent[i] \in SentRecord(Len(calls))
      BY <2>1, LenProperties, ElementOfSeq
    <3> QED
      BY <2>2, <3>1 DEF SentRecord
  <2> QED
    BY <2>1, <2>3 DEF Safe, StatementOK
<1>5. CASE UNCHANGED <<config, calls, sent, touched>>
  BY <1>5 DEF Safe, StatementOK
<1>6. CASE \/ ValidationPasses \/ ValidationRefuses \/ BuildAdapter \/ BuildFails
           \/ Normalize \/ NormalizeFails \/ AuditSuccess \/ Return
           \/ AuditFailure \/ RaiseToCaller \/ ToolAuditsFailure
           \/ ConnectFails \/ BackendRaises \/ Crash \/ UNCHANGED vars
  <2>1. UNCHANGED <<config, calls, sent, touched>>
    BY <1>6 DEF ValidationPasses, ValidationRefuses, BuildAdapter, BuildFails,
                Normalize, NormalizeFails, AuditSuccess, Return, AuditFailure,
                RaiseToCaller, ToolAuditsFailure, ConnectFails, BackendRaises,
                Crash, vars
  <2> QED
    BY <1>5, <2>1
<1> QED
  BY <1>1, <1>2, <1>3, <1>4, <1>6 DEF Next, ServerStep, BackendStep, Finished

\* Before the first call there is nothing to object to.
LEMMA InitInv == Init => PipelineInv
<1> SUFFICES ASSUME Init PROVE PipelineInv
  OBVIOUS
<1>1. TypeOK
  BY EmptySeq DEF Init, TypeOK, Stage
<1>2. StageFacts
  BY DEF Init, StageFacts, Approved, Executed
<1>3. Safe
  BY DEF Init, Safe
<1> QED
  BY <1>1, <1>2, <1>3, SafeMeans DEF PipelineInv

\* The inductive invariant of the pipeline: types, what each stage counts on,
\* and the safety of everything sent and read so far.
THEOREM PipelineInvariant == Spec => []PipelineInv
<1>1. PipelineInv /\ [Next]_vars => PipelineInv'
  <2> SUFFICES ASSUME PipelineInv, [Next]_vars PROVE PipelineInv'
    OBVIOUS
  <2>1. TypeOK /\ StageFacts /\ Safe
    BY SafeMeans DEF PipelineInv
  <2>2. TypeOK'
    BY <2>1, TypeStep
  <2>3. StageFacts'
    BY <2>1, <2>2, StageFactsStep
  <2>4. Safe'
    BY <2>1, SafeStep
  <2>5. (OnlyAdmissibleStatements /\ AdapterGetsApprovedOptions
           /\ RefusedCallsTouchNothing)'
    BY <2>4 DEF Safe, StatementOK, OnlyAdmissibleStatements,
                AdapterGetsApprovedOptions, RefusedCallsTouchNothing
  <2> QED
    BY <2>2, <2>3, <2>5 DEF PipelineInv
<1> QED
  BY InitInv, <1>1, PTL DEF Spec

\* The state of the pipeline is always well-typed.
THEOREM TypeCorrect == Spec => []TypeOK
<1>1. PipelineInv => TypeOK
  BY DEF PipelineInv
<1> QED
  BY PipelineInvariant, <1>1, PTL

\* QueryService never lets an adapter execute a text that the parser, the policy
\* and the limits have not all admitted, whatever the configuration, the
\* requests, the failures and the crashes.
THEOREM OnlyAdmissibleStatementsRun == Spec => []OnlyAdmissibleStatements
<1>1. PipelineInv => OnlyAdmissibleStatements
  BY DEF PipelineInv
<1> QED
  BY PipelineInvariant, <1>1, PTL

\* Adapters always work under the effective mode and limits, never under what an
\* options object asked for beyond them.
THEOREM ApprovedOptionsReachAdapters == Spec => []AdapterGetsApprovedOptions
<1>1. PipelineInv => AdapterGetsApprovedOptions
  BY DEF PipelineInv
<1> QED
  BY PipelineInvariant, <1>1, PTL

\* A refused request causes no secret to be read.
THEOREM RefusedTouchNothing == Spec => []RefusedCallsTouchNothing
<1>1. PipelineInv => RefusedCallsTouchNothing
  BY DEF PipelineInv
<1> QED
  BY PipelineInvariant, <1>1, PTL
==============================================================================
