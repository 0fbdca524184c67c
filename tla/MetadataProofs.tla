----------------------------- MODULE MetadataProofs -----------------------------
(***************************************************************************)
(* That a refused metadata request touches nothing and that codes, events  *)
(* and answers agree, for every configuration, request and failure.        *)
(***************************************************************************)
EXTENDS MetadataProperties, ErrorModelProofs, SequenceTheorems, FiniteSetTheorems

\* The gates of full mode let pass what is Permitted.
LEMMA AllowedIsPermitted ==
  ASSUME NEW r \in Requests, config \in Configs, Known(r)
  PROVE  evaluate_metadata_request(config.connections[r.connection_name],
           config.defaults,
           IF r.tool = "test_connection" THEN None ELSE r.permission_mode).allowed
         <=> Permitted(r)
<1> DEFINE c == config.connections[r.connection_name]
           m == IF r.tool = "test_connection" THEN None ELSE r.permission_mode
<1>1. c \in Connection
  BY MetadataAssumption DEF IsConfig, Known
<1>2. Given(m, config.defaults.permission_mode) = Mode(r)
  BY DEF Given, Mode
<1>3. full_mode_refusal(Mode(r), c) = None <=> Permitted(r)
  BY <1>1, MetadataNoneAssumption DEF full_mode_refusal, Permitted, PolicyReason, Connection
<1> QED
  BY <1>2, <1>3 DEF evaluate_metadata_request

\* What is refused, and how.
LEMMA RefusalMeans ==
  ASSUME NEW r \in Requests, config \in Configs
  PROVE  /\ refusal(config, r) \in DbMcpError \cup RawError \cup {None}
         /\ refusal(config, r) = None => Known(r) /\ Permitted(r) /\ Named(r)
         /\ refusal(config, r) # None =>
              StableCode(r, normalize_exception(refusal(config, r)).code)
<1> DEFINE x == refusal(config, r)
<1>1. /\ Coded("UNKNOWN_CONNECTION") \in DbMcpError
      /\ Coded("QUERY_BLOCKED") \in DbMcpError /\ Raw({}) \in RawError
  BY RawWords DEF Coded, DbMcpError, ErrorCode
<1>2. CASE ~Known(r)
  <2>1. x = Coded("UNKNOWN_CONNECTION")
    BY <1>2 DEF refusal, Known
  <2> QED
    BY <1>1, <1>2, <2>1, MetadataNoneAssumption
       DEF StableCode, normalize_exception, Coded
<1>3. CASE Known(r) /\ ~Permitted(r)
  <2>1. x = Coded("QUERY_BLOCKED")
    BY <1>3, AllowedIsPermitted DEF refusal, Known
  <2> QED
    BY <1>1, <1>3, <2>1, MetadataNoneAssumption
       DEF StableCode, normalize_exception, Coded
<1>4. CASE Known(r) /\ Permitted(r)
  <2>1. x = IF r.tool = "describe_table" /\ "" \in {r.catalog, r.schema}
            THEN Raw({}) ELSE None
    BY <1>4, AllowedIsPermitted DEF refusal, Known
  <2>2. x = IF Named(r) THEN None ELSE Raw({})
    BY <2>1 DEF Named
  <2> QED
    BY <1>1, <1>4, <2>2, MetadataNoneAssumption DEF StableCode
<1> QED
  BY <1>2, <1>3, <1>4

\* The code a missing secret has for a direct caller of the registry.
LEMMA SecretCode ==
  ASSUME NEW field
  PROVE  normalize_exception(secret_error(field)).code =
           IF field = "password" THEN "AUTH_FAILED" ELSE "CONNECTION_FAILED"
<1> DEFINE exc  == secret_error(field)
           hits == { i \in DOMAIN NeedleOrder : NeedleOrder[i] \in exc.words }
<1>1. /\ exc.kind = "raw" /\ exc.is_timeout = FALSE
      /\ exc.words = {"CONNECTION_FAILED"}
           \cup (IF field = "password" THEN {"AUTH_FAILED"} ELSE {})
  BY DEF secret_error, Raw
<1>2. hits = IF field = "password" THEN {2, 8} ELSE {8}
  BY <1>1 DEF NeedleOrder
<1>3. (CHOOSE i \in hits : \A j \in hits : i <= j)
        = IF field = "password" THEN 2 ELSE 8
  BY <1>2
<1>4. hits # {}
  BY <1>2
<1>5. classify_exception(exc) = NeedleOrder[IF field = "password" THEN 2 ELSE 8]
  BY <1>1, <1>3, <1>4 DEF classify_exception
<1>6. NeedleOrder[2] = "AUTH_FAILED" /\ NeedleOrder[8] = "CONNECTION_FAILED"
  BY DEF NeedleOrder
<1> QED
  BY <1>1, <1>5, <1>6 DEF normalize_exception, Coded
------------------------------------------------------------------------------
\* The histories.

LEMMA Histories ==
  ASSUME CallTypes
  PROVE  /\ Current \in Nat /\ Current = Len(calls)
         /\ DOMAIN calls = 1 .. Current /\ DOMAIN answers = 1 .. Current
         /\ Len(audit) \in Nat /\ DOMAIN audit = 1 .. Len(audit)
         /\ \A k \in DOMAIN audit : audit[k].call \in DOMAIN calls
         /\ \A c \in DOMAIN calls : calls[c] \in Requests
<1>1. /\ Len(calls) \in Nat /\ DOMAIN calls = 1 .. Len(calls)
      /\ DOMAIN answers = 1 .. Len(calls)
      /\ Len(audit) \in Nat /\ DOMAIN audit = 1 .. Len(audit)
  BY LenProperties DEF CallTypes
<1>2. \A k \in DOMAIN audit : audit[k] \in EventRecord(Len(calls))
  BY <1>1, ElementOfSeq DEF CallTypes
<1>3. \A c \in DOMAIN calls : calls[c] \in Requests
  BY <1>1, ElementOfSeq DEF CallTypes
<1> QED
  BY <1>1, <1>2, <1>3 DEF EventRecord, Current

LEMMA CallOpen ==
  ASSUME CallTypes, CallFacts, stage # "idle"
  PROVE  /\ Current \in DOMAIN calls /\ Current \in DOMAIN answers
         /\ Current \in 1 .. Current /\ Call \in Requests
<1>1. Current \in 1 .. Current
  BY Histories DEF CallFacts
<1> QED
  BY <1>1, Histories DEF Call

LEMMA ReceivedCall ==
  ASSUME CallTypes, NEW r \in Requests, Receive(r)
  PROVE  /\ Current' = Current + 1 /\ Current \in Nat
         /\ DOMAIN calls' = 1 .. Current + 1 /\ DOMAIN answers' = 1 .. Current + 1
         /\ \A c \in 1 .. Current : calls'[c] = calls[c] /\ answers'[c] = answers[c]
         /\ calls'[Current + 1] = r /\ answers'[Current + 1] = Unanswered
         /\ calls' \in Seq(Requests) /\ answers' \in Seq(AnswerRecord)
         /\ Len(answers') = Len(calls')
         /\ \A c : AuditedAt(c)' = AuditedAt(c)
         /\ AuditedAt(Current + 1) = {}
         /\ UNCHANGED << config, touched, tried, audit >>
<1>1. /\ Current \in Nat /\ Len(calls) = Current /\ Len(answers) = Current
      /\ calls \in Seq(Requests) /\ answers \in Seq(AnswerRecord)
      /\ Unanswered \in AnswerRecord
  BY Histories DEF CallTypes, Current, Unanswered, AnswerRecord
<1>2. calls' = Append(calls, r) /\ answers' = Append(answers, Unanswered)
        /\ UNCHANGED << config, touched, tried, audit >>
  BY DEF Receive
<1> DEFINE n == Current
<1> HIDE DEF n
<1>3. /\ calls' \in Seq(Requests) /\ Len(calls') = n + 1 /\ calls'[n + 1] = r
      /\ DOMAIN calls' = 1 .. n + 1 /\ \A c \in 1 .. n : calls'[c] = calls[c]
  BY <1>1, <1>2, AppendProperties, LenProperties DEF n
<1>4. /\ answers' \in Seq(AnswerRecord) /\ Len(answers') = n + 1
      /\ answers'[n + 1] = Unanswered
      /\ DOMAIN answers' = 1 .. n + 1 /\ \A c \in 1 .. n : answers'[c] = answers[c]
  BY <1>1, <1>2, AppendProperties, LenProperties DEF n
<1>5. \A k \in DOMAIN audit : audit[k].call \in 1 .. n
  BY Histories DEF n
<1>6. \A c : AuditedAt(c)' = AuditedAt(c)
  BY <1>2 DEF AuditedAt
<1>7. AuditedAt(n + 1) = {}
  BY <1>1, <1>5 DEF AuditedAt, n
<1> QED
  BY <1>1, <1>2, <1>3, <1>4, <1>6, <1>7 DEF n, Current

LEMMA AnsweredCall ==
  ASSUME CallTypes, CallFacts, stage # "idle", NEW a \in AnswerRecord, Answer(a)
  PROVE  /\ answers' \in Seq(AnswerRecord) /\ Len(answers') = Len(calls)
         /\ DOMAIN answers' = DOMAIN answers /\ answers'[Current] = a
         /\ \A c \in DOMAIN answers : c # Current => answers'[c] = answers[c]
<1>1. /\ answers \in Seq(AnswerRecord) /\ Len(answers) = Len(calls)
      /\ Current \in 1 .. Len(answers) /\ DOMAIN answers = 1 .. Len(answers)
  BY CallOpen, Histories DEF CallTypes
<1> QED
  BY <1>1, ExceptSeq, LenProperties DEF Answer

\* An event of the call in progress comes after all the others.
LEMMA AuditedCall ==
  ASSUME CallTypes, CallFacts, stage # "idle", UNCHANGED calls,
         NEW status \in {"success", "failure"}, NEW code \in ErrorCode \cup {None},
         NEW ok \in BOOLEAN, audit' = Append(audit, Event(status, code, ok))
  PROVE  /\ audit' \in Seq(EventRecord(Len(calls)))
         /\ Len(audit) + 1 \in DOMAIN audit'
         /\ audit'[Len(audit) + 1] = Event(status, code, ok)
         /\ \A k \in DOMAIN audit : k \in DOMAIN audit' /\ audit'[k] = audit[k]
         /\ AuditedAt(Current)' = AuditedAt(Current) \cup {Len(audit) + 1}
         /\ \A c : c # Current => AuditedAt(c)' = AuditedAt(c)
<1> DEFINE e == Event(status, code, ok)
           n == Len(audit)
<1>1. /\ n \in Nat /\ DOMAIN audit = 1 .. n
      /\ audit \in Seq(EventRecord(Len(calls)))
  BY Histories DEF CallTypes
<1>2. e \in EventRecord(Len(calls)) /\ e.call = Current
  BY CallOpen, Histories DEF Event, EventRecord
<1> HIDE DEF e
<1>3. /\ audit' \in Seq(EventRecord(Len(calls)))
      /\ Len(audit') = n + 1 /\ audit'[n + 1] = e /\ DOMAIN audit' = 1 .. n + 1
      /\ \A k \in 1 .. n : audit'[k] = audit[k]
  BY <1>1, <1>2, AppendProperties, LenProperties DEF e
<1> HIDE DEF n
<1>4. DOMAIN audit' = DOMAIN audit \cup {n + 1} /\ n + 1 \notin DOMAIN audit
  BY <1>1, <1>3
<1>5. Current' = Current
  BY DEF Current
<1>6. \A c : AuditedAt(c)' = IF c = Current THEN AuditedAt(c) \cup {n + 1} ELSE AuditedAt(c)
  BY <1>1, <1>2, <1>3, <1>4 DEF AuditedAt
<1> QED
  BY <1>3, <1>4, <1>5, <1>6 DEF n, e
------------------------------------------------------------------------------
\* The steps, by what they leave alone.

Preparing == Accept \/ Refuse \/ ResolveSecrets \/ BuildAdapter \/ BuildFails

Asks ==
  \/ OpenConnection \/ CloseConnection \/ StatementReturns \/ NoDatabase
  \/ StatementRefused \/ BackendFails \/ TaskDone

Closing == Return \/ AuditFailure \/ Crash

LEMMA Steps ==
  ASSUME [Next]_vars
  PROVE  \/ \E r \in Requests : Receive(r)
         \/ Preparing \/ Asks \/ AuditSuccess \/ Closing \/ UNCHANGED vars
BY DEF Next, ServerStep, BackendStep, Finished, Preparing, Asks, Closing

\* An exception that is raised is one of the server's or a foreign one, also
\* where MetadataService has put its own in its place.
LEMMA AdapterError ==
  ASSUME NEW tool, NEW exc \in DbMcpError \cup RawError
  PROVE  adapter_error(tool, exc) \in DbMcpError \cup RawError
BY DEF adapter_error, Coded, DbMcpError, ErrorCode

\* What the steps before the first statement do.
LEMMA PreparingStep ==
  ASSUME CallTypes, CallFacts, Preparing
  PROVE  /\ UNCHANGED << config, calls, rows, tried, audit, answers >>
         /\ stage # "idle" /\ stage' \in {"resolving", "building", "asking", "failing"}
         /\ rows \in Nat
         /\ touched' \in { touched, touched \cup {Current} }
         /\ error' \in DbMcpError \cup RawError \cup {None}
         /\ touched' # touched => Known(Call) /\ Permitted(Call) /\ Named(Call)
         /\ stage' \in {"resolving", "building", "asking"} =>
              Known(Call) /\ Permitted(Call) /\ Named(Call)
         /\ stage' \in {"building", "asking"} =>
              Current \in touched' /\ config.unset[Call.connection_name] = "nothing"
         /\ stage' = "failing" =>
              error' # None /\ StableCode(Call, normalize_exception(error').code)
<1>1. stage # "idle"
  BY DEF Preparing, Accept, Refuse, ResolveSecrets, BuildAdapter, BuildFails
<1>2. Call \in Requests /\ config \in Configs
        /\ error \in DbMcpError \cup RawError \cup {None}
  BY <1>1, CallOpen DEF CallTypes
<1>3. \A exc \in DbMcpError \cup RawError : exc # None
  BY MetadataNoneAssumption
<1>4. CASE Accept
  BY <1>2, <1>4, RefusalMeans DEF Accept, CallFacts
<1>5. CASE Refuse
  BY <1>2, <1>3, <1>5, RefusalMeans DEF Refuse, Fail, CallFacts
<1>6. CASE ResolveSecrets
  <2> DEFINE field == config.unset[Call.connection_name]
             exc   == adapter_error(Call.tool, secret_error(field))
  <2>1. Known(Call) /\ Permitted(Call) /\ Named(Call) /\ rows \in Nat
          /\ stage = "resolving"
          /\ UNCHANGED << config, calls, rows, tried, audit, answers >>
          /\ touched' = touched \cup {Current}
    BY <1>6 DEF ResolveSecrets, CallFacts
  <2>2. CASE field = "nothing"
    BY <1>2, <1>6, <2>1, <2>2 DEF ResolveSecrets
  <2>3. CASE field # "nothing"
    <3>1. stage' = "failing" /\ error' = exc
      BY <1>6, <2>3 DEF ResolveSecrets, Fail
    <3>2. exc \in DbMcpError \cup RawError
      BY SecretErrorType, AdapterError
    <3>3. normalize_exception(exc).code =
            IF Call.tool # "test_connection" THEN "BACKEND_ERROR"
            ELSE IF field = "password" THEN "AUTH_FAILED" ELSE "CONNECTION_FAILED"
      <4>1. normalize_exception(Coded("BACKEND_ERROR")).code = "BACKEND_ERROR"
        BY DEF normalize_exception, Coded
      <4> QED
        BY <4>1, SecretCode DEF adapter_error
    <3> HIDE DEF exc
    <3>4. StableCode(Call, normalize_exception(exc).code)
      BY <2>1, <3>3 DEF StableCode
    <3> QED
      BY <1>3, <2>1, <3>1, <3>2, <3>4
  <2> QED
    BY <2>2, <2>3
<1>7. CASE BuildAdapter
  BY <1>2, <1>7 DEF BuildAdapter, CallFacts
<1>8. CASE BuildFails
  <2>1. PICK exc \in BackendErrors \cup {Coded("CONNECTION_FAILED")} :
          Fail(adapter_error(Call.tool, exc))
    BY <1>8 DEF BuildFails
  <2>2. exc \in DbMcpError \cup RawError
    BY MetadataAssumption DEF Coded, DbMcpError, ErrorCode
  <2>3. error' \in DbMcpError \cup RawError /\ stage' = "failing"
    BY <2>1, <2>2, AdapterError DEF Fail
  <2>4. StableCode(Call, normalize_exception(error').code)
    BY <1>8 DEF StableCode, BuildFails, CallFacts
  <2> QED
    BY <1>3, <1>8, <2>3, <2>4 DEF BuildFails, CallFacts
<1> QED
  BY <1>4, <1>5, <1>6, <1>7, <1>8 DEF Preparing

\* What the steps of an adapter do.
LEMMA AsksStep ==
  ASSUME CallTypes, CallFacts, Asks
  PROVE  /\ UNCHANGED << config, calls, touched, audit, answers >>
         /\ stage = "asking" /\ stage' \in {"asking", "auditing", "failing"}
         /\ rows' \in Nat \cup {None} /\ (stage' # "auditing" => rows' \in Nat)
         /\ error' \in DbMcpError \cup RawError \cup {None}
         /\ stage' = "failing" => error' # None
         /\ \/ UNCHANGED tried
            \/ \E t : tried' = Append(tried, t) /\ t.call = Current
<1>1. stage = "asking" /\ rows \in Nat
        /\ error \in DbMcpError \cup RawError \cup {None}
  BY DEF Asks, OpenConnection, CloseConnection, StatementReturns, NoDatabase,
         StatementRefused, BackendFails, TaskDone, Asking, CallFacts, CallTypes
<1>2. ASSUME NEW exc \in DbMcpError \cup RawError, FailAlternative(exc)
      PROVE  /\ stage' \in {"asking", "auditing", "failing"}
             /\ rows' \in Nat \cup {None} /\ (stage' # "auditing" => rows' \in Nat)
             /\ error' \in DbMcpError \cup RawError \cup {None}
             /\ stage' = "failing" => error' # None
  BY <1>1, <1>2, MetadataNoneAssumption DEF FailAlternative, Fail
<1>3. ASSUME NEW ask, NEW outcome, Try(ask, outcome)
      PROVE  \E t : tried' = Append(tried, t) /\ t.call = Current
  <2> DEFINE t == [ call |-> Current, what |-> ask.what, source |-> ask.source,
                    outcome |-> outcome ]
  <2>1. tried' = Append(tried, t) /\ t.call = Current
    BY <1>3 DEF Try
  <2> HIDE DEF t
  <2> QED
    BY <2>1
<1>4. Raw({}) \in RawError /\ BackendErrors \subseteq RawError
  BY RawWords, MetadataAssumption
<1>5. CASE OpenConnection \/ CloseConnection \/ TaskDone
  BY <1>1, <1>5 DEF OpenConnection, CloseConnection, TaskDone
<1>6. CASE StatementReturns
  <2>1. PICK n \in RowCounts :
          /\ Try(Instruction, n)
          /\ rows' = IF Instruction.what = Kept(Call.tool) THEN rows + n ELSE rows
    BY <1>6 DEF StatementReturns
  <2>2. rows' \in Nat
    BY <1>1, <2>1, MetadataAssumption
  <2> QED
    BY <1>1, <1>3, <1>6, <2>1, <2>2 DEF StatementReturns
<1>7. CASE NoDatabase
  BY <1>1, <1>2, <1>3, <1>4, <1>7 DEF NoDatabase
<1>8. CASE StatementRefused
  BY <1>1, <1>2, <1>3, <1>4, <1>8 DEF StatementRefused
<1>9. CASE BackendFails
  BY <1>1, <1>2, <1>3, <1>4, <1>9 DEF BackendFails
<1> QED
  BY <1>5, <1>6, <1>7, <1>8, <1>9 DEF Asks

\* The step that ends a call.
LEMMA ClosingStep ==
  ASSUME CallTypes, CallFacts, Closing
  PROVE  /\ UNCHANGED << config, calls, touched, tried >>
         /\ stage # "idle" /\ stage' = "idle" /\ rows' = 0 /\ error' = None
         /\ \/ /\ stage = "returning" /\ Answer(Answered(rows)) /\ UNCHANGED audit
            \/ /\ stage = "failing"
               /\ audit' = Append(audit,
                    Event("failure", normalize_exception(error).code, FALSE))
               /\ Answer(Failed(normalize_exception(error)))
            \/ Answer(Lost) /\ UNCHANGED audit
BY DEF Closing, Return, AuditFailure, Crash, Forget

\* Answers have their type.
LEMMA AnswerTypes ==
  /\ Lost \in AnswerRecord /\ Lost.status = "lost"
  /\ \A n \in Nat \cup {None} : /\ Answered(n) \in AnswerRecord
                               /\ Answered(n).status = "ok" /\ Answered(n).rows = n
  /\ \A e \in DbMcpError : /\ Failed(e) \in AnswerRecord /\ e.code \in ErrorCode
                           /\ Failed(e).status = "error" /\ Failed(e).code = e.code
BY DEF Lost, Answered, Failed, AnswerRecord, DbMcpError

\* What a failing call is answered with.
LEMMA FailingError ==
  ASSUME CallTypes, CallFacts, stage = "failing"
  PROVE  normalize_exception(error) \in DbMcpError
BY NormalizedError DEF CallTypes, CallFacts

\* A statement that is tried comes after all the others.
LEMMA Tries ==
  ASSUME tried \in Seq({tried[i] : i \in DOMAIN tried}), NEW t, tried' = Append(tried, t)
  PROVE  /\ tried' \in Seq({tried'[i] : i \in DOMAIN tried'})
         /\ \A i \in DOMAIN tried' : tried'[i] = t
              \/ \E j \in DOMAIN tried : tried'[i] = tried[j]
<1> DEFINE S == {tried[i] : i \in DOMAIN tried} \cup {t}
           n == Len(tried)
<1>1. tried \in Seq(S) /\ t \in S /\ n \in Nat /\ DOMAIN tried = 1 .. n
  BY SeqMonotonic, LenProperties
<1> HIDE DEF S
<1>2. /\ tried' \in Seq(S) /\ Len(tried') = n + 1 /\ DOMAIN tried' = 1 .. n + 1
      /\ tried'[n + 1] = t /\ \A i \in 1 .. n : tried'[i] = tried[i]
  BY <1>1, AppendProperties, LenProperties
<1> HIDE DEF n
<1>3. \A i \in 1 .. n + 1 : i = n + 1 \/ i \in 1 .. n
  BY <1>1
<1>4. \A i \in DOMAIN tried' : tried'[i] = t
              \/ \E j \in DOMAIN tried : tried'[i] = tried[j]
  BY <1>1, <1>2, <1>3
<1> DEFINE R == {tried'[i] : i \in DOMAIN tried'}
<1>5. tried' \in [1 .. n + 1 -> R]
  BY <1>2, LenProperties
<1>6. n + 1 \in Nat
  BY <1>1
<1>7. ASSUME NEW m \in Nat, NEW A, NEW f \in [1 .. m -> A] PROVE f \in Seq(A)
  BY SeqDef
<1> HIDE DEF R
<1>8. tried' \in Seq(R)
  BY <1>5, <1>6, <1>7
<1> QED
  BY <1>4, <1>8 DEF R
------------------------------------------------------------------------------
\* The invariant, part by part.

LEMMA TypesStep ==
  ASSUME CallTypes, CallFacts, [Next]_vars
  PROVE  CallTypes'
<1>1. ASSUME NEW r \in Requests, Receive(r) PROVE CallTypes'
  <2>1. /\ config' \in Configs /\ calls' \in Seq(Requests)
        /\ answers' \in Seq(AnswerRecord) /\ Len(answers') = Len(calls')
    BY <1>1, ReceivedCall DEF CallTypes
  <2>2. stage' \in Stage /\ error' \in DbMcpError \cup RawError \cup {None}
    BY <1>1 DEF Receive, CallTypes, Stage
  <2>3. rows' \in Nat \cup {None}
    <3>1. IsFiniteSet(DOMAIN config.connections)
      BY MetadataAssumption DEF CallTypes, IsConfig
    <3> QED
      BY <1>1, <3>1, FS_CardinalityType DEF Receive, CallTypes
  <2>4. touched' \subseteq DOMAIN calls'
    BY <1>1, ReceivedCall, Histories DEF CallTypes
  <2>5. audit' \in Seq(EventRecord(Len(calls')))
    <3>1. EventRecord(Len(calls)) \subseteq EventRecord(Len(calls'))
      BY <1>1, ReceivedCall DEF EventRecord, Current
    <3> QED
      BY <1>1, <3>1, ReceivedCall, SeqMonotonic DEF CallTypes
  <2> QED
    BY <2>1, <2>2, <2>3, <2>4, <2>5 DEF CallTypes
<1>2. CASE Preparing
  <2>1. touched' \subseteq DOMAIN calls
    BY <1>2, PreparingStep, CallOpen DEF CallTypes
  <2> QED
    BY <1>2, <2>1, PreparingStep DEF CallTypes, Stage
<1>3. CASE Asks
  BY <1>3, AsksStep DEF CallTypes, Stage
<1>4. CASE AuditSuccess
  <2>1. /\ UNCHANGED << config, calls, rows, error, touched, answers >>
        /\ stage # "idle" /\ stage' \in Stage
        /\ audit' = Append(audit, Event("success", None, rows # None))
    BY <1>4 DEF AuditSuccess, Stage
  <2>2. audit' \in Seq(EventRecord(Len(calls)))
    BY <2>1, AuditedCall
  <2> QED
    BY <2>1, <2>2 DEF CallTypes
<1>5. CASE Closing
  <2>1. /\ UNCHANGED << config, calls, touched >> /\ stage # "idle"
        /\ stage' \in Stage /\ rows' \in Nat /\ error' = None
    BY <1>5, ClosingStep DEF Stage
  <2>2. PICK a \in AnswerRecord : Answer(a)
    BY <1>5, <2>1, ClosingStep, AnswerTypes, FailingError DEF CallTypes
  <2>3. answers' \in Seq(AnswerRecord) /\ Len(answers') = Len(calls)
    BY <2>1, <2>2, AnsweredCall
  <2>4. audit' \in Seq(EventRecord(Len(calls)))
    <3>1. CASE UNCHANGED audit
      BY <3>1 DEF CallTypes
    <3>2. CASE stage = "failing" /\ audit' = Append(audit,
                    Event("failure", normalize_exception(error).code, FALSE))
      <4>1. normalize_exception(error).code \in ErrorCode
        BY <3>2, FailingError, AnswerTypes
      <4> QED
        BY <2>1, <3>2, <4>1, AuditedCall
    <3> QED
      BY <1>5, <3>1, <3>2, ClosingStep
  <2> QED
    BY <2>1, <2>3, <2>4 DEF CallTypes
<1>6. CASE UNCHANGED vars
  BY <1>6 DEF vars, CallTypes
<1> QED
  BY <1>1, <1>2, <1>3, <1>4, <1>5, <1>6, Steps

\* Nothing a step leaves alone changes what a request may do.
LEMMA SameJudgement ==
  ASSUME UNCHANGED << config, calls >>
  PROVE  /\ Current' = Current /\ Call' = Call
         /\ Known(Call)' <=> Known(Call)
         /\ Permitted(Call)' <=> Permitted(Call)
         /\ Named(Call)' <=> Named(Call)
         /\ \A code : StableCode(Call, code)' <=> StableCode(Call, code)
<1>1. Current' = Current /\ Call' = Call
  BY DEF Current, Call
<1>2. /\ Known(Call)' <=> Known(Call)
      /\ Permitted(Call)' <=> Permitted(Call)
      /\ Named(Call)' <=> Named(Call)
  BY <1>1 DEF Known, Permitted, Mode, Named
<1> QED
  BY <1>1, <1>2 DEF StableCode

LEMMA CallFactsStep ==
  ASSUME CallTypes, CallFacts, [Next]_vars
  PROVE  CallFacts'
<1>1. ASSUME NEW r \in Requests, Receive(r) PROVE CallFacts'
  <2>1. /\ stage' \in {"auditing", "validating"}
        /\ stage' = "validating" => rows' = rows
        /\ rows \in Nat
    BY <1>1 DEF Receive, CallFacts
  <2>2. Current' # 0 /\ answers'[Current'] = Unanswered
    BY <1>1, ReceivedCall
  <2> QED
    BY <2>1, <2>2 DEF CallFacts, Unanswered
<1>2. CASE Preparing
  <2>1. UNCHANGED << config, calls, answers, rows >>
    BY <1>2, PreparingStep
  <2> QED
    BY <1>2, <2>1, PreparingStep, SameJudgement DEF CallFacts, Unanswered
<1>3. CASE Asks
  <2>1. UNCHANGED << config, calls, answers, touched >>
    BY <1>3, AsksStep
  <2>2. StableCode(Call, normalize_exception(error').code)
    BY <1>3, AsksStep DEF CallFacts, StableCode
  <2> QED
    BY <1>3, <2>1, <2>2, AsksStep, SameJudgement DEF CallFacts, Unanswered
<1>4. CASE AuditSuccess
  BY <1>4 DEF AuditSuccess, CallFacts, Current, Unanswered
<1>5. CASE Closing
  <2>1. stage' = "idle" /\ rows' = 0
    BY <1>5, ClosingStep
  <2> QED
    BY <2>1 DEF CallFacts
<1>6. CASE UNCHANGED vars
  <2>1. UNCHANGED << config, calls, answers, touched, rows, error, stage >>
    BY <1>6 DEF vars
  <2> QED
    BY <2>1, SameJudgement DEF CallFacts, Unanswered
<1> QED
  BY <1>1, <1>2, <1>3, <1>4, <1>5, <1>6, Steps

LEMMA EventFactsStep ==
  ASSUME CallTypes, CallFacts, EventFacts, [Next]_vars
  PROVE  EventFacts'
<1>1. ASSUME NEW r \in Requests, Receive(r) PROVE EventFacts'
  <2>1. stage' # "returning"
    BY <1>1 DEF Receive
  <2>2. \A c : AuditedAt(c)' = AuditedAt(c)
    BY <1>1, ReceivedCall
  <2>3. AuditedAt(Current)' = {}
    BY <1>1, <2>2, ReceivedCall DEF AuditedAt
  <2> QED
    BY <2>1, <2>3 DEF EventFacts
<1>2. CASE Preparing \/ Asks
  <2>1. UNCHANGED << calls, audit >> /\ stage # "idle" /\ stage # "returning"
          /\ stage' # "returning"
    BY <1>2, PreparingStep, AsksStep
       DEF Preparing, Accept, Refuse, ResolveSecrets, BuildAdapter, BuildFails
  <2> QED
    BY <2>1 DEF EventFacts, AuditedAt, Current
<1>3. CASE AuditSuccess
  <2>1. /\ UNCHANGED << calls, rows >> /\ stage = "auditing" /\ stage' = "returning"
        /\ audit' = Append(audit, Event("success", None, rows # None))
    BY <1>3 DEF AuditSuccess
  <2> DEFINE k == Len(audit) + 1
  <2>2. /\ k \in DOMAIN audit' /\ AuditedAt(Current)' = {k}
        /\ audit'[k] = Event("success", None, rows # None)
    BY <2>1, AuditedCall DEF EventFacts
  <2>3. Current' = Current
    BY <2>1 DEF Current
  <2> HIDE DEF k
  <2> QED
    BY <2>1, <2>2, <2>3 DEF EventFacts, Event
<1>4. CASE Closing
  BY <1>4, ClosingStep DEF EventFacts
<1>5. CASE UNCHANGED vars
  BY <1>5 DEF vars, EventFacts, AuditedAt, Current
<1> QED
  BY <1>1, <1>2, <1>3, <1>4, <1>5, Steps

LEMMA TriedFactsStep ==
  ASSUME CallTypes, CallFacts, TriedFacts, [Next]_vars,
         tried \in Seq({tried[i] : i \in DOMAIN tried})
  PROVE  TriedFacts' /\ (tried \in Seq({tried[i] : i \in DOMAIN tried}))'
<1>1. touched \subseteq touched' /\ (Asks \/ UNCHANGED tried)
  BY Steps, ReceivedCall, PreparingStep, AsksStep, ClosingStep DEF AuditSuccess, vars
<1>2. CASE UNCHANGED tried
  BY <1>1, <1>2 DEF TriedFacts
<1>3. ASSUME NEW t, tried' = Append(tried, t), t.call = Current, Asks
      PROVE  TriedFacts' /\ (tried \in Seq({tried[i] : i \in DOMAIN tried}))'
  <2>1. Current \in touched'
    BY <1>1, <1>3, AsksStep DEF CallFacts
  <2> QED
    BY <1>1, <1>3, <2>1, Tries DEF TriedFacts
<1> QED
  BY <1>1, <1>2, <1>3, AsksStep

\* Calls stay what they are.
LEMMA CallsKept ==
  ASSUME CallTypes, CallFacts, [Next]_vars
  PROVE  /\ config' = config
         /\ \A c \in DOMAIN calls : c \in DOMAIN calls' /\ calls'[c] = calls[c]
<1>1. CASE \E r \in Requests : Receive(r)
  BY <1>1, ReceivedCall, Histories
<1>2. CASE Preparing \/ Asks \/ Closing
  BY <1>2, PreparingStep, AsksStep, ClosingStep
<1>3. CASE AuditSuccess \/ UNCHANGED vars
  BY <1>3 DEF AuditSuccess, vars
<1> QED
  BY <1>1, <1>2, <1>3, Steps

LEMMA RefusedStep ==
  ASSUME CallTypes, CallFacts, TriedFacts, TriedFacts', RefusedRequestsTouchNothing,
         [Next]_vars
  PROVE  RefusedRequestsTouchNothing'
<1> DEFINE May(r) == Known(r) /\ Permitted(r) /\ Named(r)
<1>1. \A c \in touched : c \in DOMAIN calls /\ May(calls[c])
  BY DEF RefusedRequestsTouchNothing, CallTypes
<1>2. \A c \in touched' : c \in touched \/ (c = Current /\ c \in DOMAIN calls /\ May(Call))
  <2>1. CASE Preparing
    BY <2>1, PreparingStep, CallOpen
  <2>2. CASE ~Preparing
    BY <2>2, Steps, ReceivedCall, AsksStep, ClosingStep DEF AuditSuccess, vars
  <2> QED
    BY <2>1, <2>2
<1>3. \A c \in touched' : c \in DOMAIN calls /\ May(calls[c])
  BY <1>1, <1>2 DEF Call
<1>4. \A r : May(r)' <=> May(r)
  BY CallsKept DEF Known, Permitted, Mode, Named
<1> HIDE DEF May
<1>5. \A c \in touched' : May(calls[c])'
  BY <1>3, <1>4, CallsKept DEF May, Known, Permitted, Mode, Named
<1> QED
  BY <1>5 DEF RefusedRequestsTouchNothing, TriedFacts, May

\* Only the answer of the call in progress changes, or one more is open.
LEMMA AnswersAfter ==
  ASSUME CallTypes, CallFacts, [Next]_vars, NEW c \in DOMAIN answers'
  PROVE  \/ c \in DOMAIN answers /\ answers'[c] = answers[c]
         \/ answers'[c] = Unanswered
         \/ Closing /\ c = Current /\ c \in DOMAIN answers
<1>1. CASE \E r \in Requests : Receive(r)
  <2>1. c \in 1 .. Current \/ c = Current + 1
    BY <1>1, ReceivedCall
  <2> QED
    BY <1>1, <2>1, ReceivedCall, Histories
<1>2. CASE Preparing \/ Asks \/ AuditSuccess \/ UNCHANGED vars
  BY <1>2, PreparingStep, AsksStep DEF AuditSuccess, vars
<1>3. CASE Closing
  BY <1>3, ClosingStep, AnsweredCall, AnswerTypes, FailingError DEF CallTypes
<1> QED
  BY <1>1, <1>2, <1>3, Steps

LEMMA CodesStep ==
  ASSUME CallTypes, CallFacts, FailureCodesAreStable, [Next]_vars
  PROVE  FailureCodesAreStable'
<1> SUFFICES ASSUME NEW c \in DOMAIN answers', answers'[c].status = "error"
             PROVE  StableCode(calls[c], answers[c].code)'
  BY DEF FailureCodesAreStable
<1>1. c \in DOMAIN answers => c \in DOMAIN calls
  BY Histories
<1>2. ASSUME c \in DOMAIN calls, NEW code, StableCode(calls[c], code)
      PROVE  StableCode(calls[c], code)'
  BY <1>2, CallsKept DEF StableCode, Known, Permitted, Mode, Named
<1>3. CASE c \in DOMAIN answers /\ answers'[c] = answers[c]
  <2>1. StableCode(calls[c], answers'[c].code)
    BY <1>3 DEF FailureCodesAreStable
  <2> QED
    BY <1>1, <1>2, <1>3, <2>1
<1>4. CASE Closing /\ c = Current /\ c \in DOMAIN answers
  <2>1. stage # "idle"
    BY <1>4, ClosingStep
  <2>2. CASE stage = "returning" /\ Answer(Answered(rows))
    BY <1>4, <2>1, <2>2, AnsweredCall, AnswerTypes DEF CallTypes
  <2>3. CASE Answer(Lost)
    BY <1>4, <2>1, <2>3, AnsweredCall, AnswerTypes
  <2>4. CASE stage = "failing" /\ Answer(Failed(normalize_exception(error)))
    <3>1. answers'[c] = Failed(normalize_exception(error))
      BY <1>4, <2>1, <2>4, AnsweredCall, AnswerTypes, FailingError
    <3>2. answers'[c].code = normalize_exception(error).code
      BY <2>4, <3>1, AnswerTypes, FailingError
    <3>3. StableCode(calls[c], answers'[c].code)
      BY <1>4, <2>4, <3>2 DEF CallFacts, Call
    <3> QED
      BY <1>1, <1>2, <1>4, <3>3
  <2> QED
    BY <1>4, <2>2, <2>3, <2>4, ClosingStep
<1> QED
  BY <1>3, <1>4, AnswersAfter DEF Unanswered

LEMMA EventAgreesStep ==
  ASSUME CallTypes, CallFacts, EventFacts, EventAgreesWithAnswer, [Next]_vars
  PROVE  EventAgreesWithAnswer'
<1> DEFINE Event_(c) == IF answers[c].status = "ok"
                        THEN [ call |-> c, status |-> "success", code |-> None,
                               ok |-> answers[c].rows # None ]
                        ELSE [ call |-> c, status |-> "failure",
                               code |-> answers[c].code, ok |-> FALSE ]
           Told(c) == answers[c].status \in {"ok", "error"} =>
                        \E k \in DOMAIN audit :
                          AuditedAt(c) = {k} /\ audit[k] = Event_(c)
<1>1. /\ (\A c \in DOMAIN answers : Told(c)) <=> EventAgreesWithAnswer
      /\ (\A c \in DOMAIN answers' : Told(c)') => EventAgreesWithAnswer'
  BY DEF EventAgreesWithAnswer
<1>2. SUFFICES ASSUME NEW c \in DOMAIN answers' PROVE Told(c)'
  BY <1>1
<1>3. CASE answers'[c] = Unanswered
  BY <1>3 DEF Unanswered
<1>4. ASSUME c \in DOMAIN answers, answers'[c] = answers[c], AuditedAt(c)' = AuditedAt(c),
             \A k \in DOMAIN audit : k \in DOMAIN audit' /\ audit'[k] = audit[k]
      PROVE  Told(c)'
  <2>1. Told(c) /\ Event_(c)' = Event_(c)
    BY <1>1, <1>4
  <2> HIDE DEF Event_
  <2> QED
    BY <1>4, <2>1
<1>5. CASE AuditSuccess
  <2>1. /\ UNCHANGED << calls, answers >> /\ stage # "idle" /\ Current' = Current
        /\ audit' = Append(audit, Event("success", None, rows # None))
    BY <1>5 DEF AuditSuccess, Current
  <2>2. CASE c = Current
    BY <1>3, <2>1, <2>2 DEF CallFacts
  <2>3. CASE c # Current
    <3>1. /\ AuditedAt(c)' = AuditedAt(c)
          /\ \A k \in DOMAIN audit : k \in DOMAIN audit' /\ audit'[k] = audit[k]
      BY <2>1, <2>3, AuditedCall
    <3> HIDE DEF Told
    <3> QED
      BY <1>4, <2>1, <3>1
  <2> QED
    BY <2>2, <2>3
<1>6. CASE ~AuditSuccess /\ ~Closing /\ answers'[c] # Unanswered
  <2>1. c \in DOMAIN answers /\ answers'[c] = answers[c]
    BY <1>6, AnswersAfter
  <2>2. UNCHANGED audit
    BY <1>6, Steps, ReceivedCall, PreparingStep, AsksStep DEF vars
  <2>3. AuditedAt(c)' = AuditedAt(c)
    BY <2>2 DEF AuditedAt
  <2> HIDE DEF Told
  <2> QED
    BY <1>4, <2>1, <2>2, <2>3
<1>7. CASE Closing
  <2>1. stage # "idle" /\ UNCHANGED calls
    BY <1>7, ClosingStep
  <2>2. CASE stage = "returning" /\ Answer(Answered(rows)) /\ UNCHANGED audit
    <3>1. /\ Answered(rows) \in AnswerRecord /\ Answered(rows).status = "ok"
          /\ Answered(rows).rows = rows
      BY AnswerTypes DEF CallTypes
    <3>2. CASE c = Current
      <4>1. answers'[c] = Answered(rows)
        BY <2>1, <2>2, <3>1, <3>2, AnsweredCall
      <4>2. PICK k \in DOMAIN audit :
              /\ AuditedAt(c) = {k}
              /\ audit[k] = [ call |-> c, status |-> "success", code |-> None,
                              ok |-> rows # None ]
        BY <2>1, <2>2, <3>2 DEF EventFacts
      <4>3. AuditedAt(c)' = AuditedAt(c)
        BY <2>2 DEF AuditedAt
      <4>4. Event_(c)' = [ call |-> c, status |-> "success", code |-> None,
                           ok |-> rows # None ]
        BY <3>1, <4>1
      <4> HIDE DEF Event_
      <4> QED
        BY <2>2, <4>2, <4>3, <4>4
    <3>3. CASE c # Current
      <4>1. c \in DOMAIN answers /\ answers'[c] = answers[c]
        BY <2>1, <2>2, <3>1, <3>3, AnsweredCall
      <4>2. AuditedAt(c)' = AuditedAt(c)
        BY <2>2 DEF AuditedAt
      <4> HIDE DEF Told
      <4> QED
        BY <1>4, <2>2, <4>1, <4>2
    <3> QED
      BY <3>2, <3>3
  <2>3. CASE Answer(Lost) /\ UNCHANGED audit
    <3>1. CASE c = Current
      <4>1. answers'[c].status = "lost"
        BY <2>1, <2>3, <3>1, AnsweredCall, AnswerTypes
      <4> QED
        BY <4>1
    <3>2. CASE c # Current
      <4>1. c \in DOMAIN answers /\ answers'[c] = answers[c]
        BY <2>1, <2>3, <3>2, AnsweredCall, AnswerTypes
      <4>2. AuditedAt(c)' = AuditedAt(c)
        BY <2>3 DEF AuditedAt
      <4> HIDE DEF Told
      <4> QED
        BY <1>4, <2>3, <4>1, <4>2
    <3> QED
      BY <3>1, <3>2
  <2>4. CASE /\ stage = "failing"
             /\ audit' = Append(audit,
                  Event("failure", normalize_exception(error).code, FALSE))
             /\ Answer(Failed(normalize_exception(error)))
    <3> DEFINE code == normalize_exception(error).code
               k    == Len(audit) + 1
    <3>1. /\ Failed(normalize_exception(error)) \in AnswerRecord
          /\ Failed(normalize_exception(error)).status = "error"
          /\ Failed(normalize_exception(error)).code = code
          /\ code \in ErrorCode
      BY <2>4, AnswerTypes, FailingError
    <3>2. /\ k \in DOMAIN audit' /\ audit'[k] = Event("failure", code, FALSE)
          /\ AuditedAt(Current)' = AuditedAt(Current) \cup {k}
          /\ \A i \in DOMAIN audit : i \in DOMAIN audit' /\ audit'[i] = audit[i]
          /\ \A i : i # Current => AuditedAt(i)' = AuditedAt(i)
      BY <2>1, <2>4, <3>1, AuditedCall
    <3>3. /\ answers'[Current] = Failed(normalize_exception(error))
          /\ \A i \in DOMAIN answers : i # Current => answers'[i] = answers[i]
          /\ c \in DOMAIN answers
      BY <2>1, <2>4, <3>1, AnsweredCall
    <3>4. CASE c = Current
      <4>1. PICK m : m = Current
        OBVIOUS
      <4>2. AuditedAt(m)' = {k}
        <5>1. Current' = Current /\ AuditedAt(Current) = {}
          BY <2>1, <2>4 DEF EventFacts, Current
        <5> QED
          BY <3>2, <4>1, <5>1
      <4>3. Event_(m)' = [ call |-> m, status |-> "failure", code |-> code,
                           ok |-> FALSE ]
        BY <3>1, <3>3, <4>1
      <4>4. audit'[k] = Event_(m)'
        BY <3>2, <4>1, <4>3 DEF Event
      <4> HIDE DEF Event_, k
      <4> QED
        BY <3>2, <3>4, <4>1, <4>2, <4>4
    <3>5. CASE c # Current
      <4> HIDE DEF Told
      <4> QED
        BY <1>4, <3>2, <3>3, <3>5
    <3> QED
      BY <3>4, <3>5
  <2> QED
    BY <1>7, <2>2, <2>3, <2>4, ClosingStep
<1> QED
  BY <1>3, <1>5, <1>6, <1>7
------------------------------------------------------------------------------
\* The invariant.

LEMMA InitInv == Init => MetadataInv
<1> SUFFICES ASSUME Init PROVE MetadataInv
  OBVIOUS
<1>1. /\ config \in Configs /\ stage = "idle" /\ calls = << >> /\ answers = << >>
      /\ rows = 0 /\ error = None /\ touched = {} /\ tried = << >> /\ audit = << >>
  BY DEF Init
<1>2. \A S : << >> \in Seq(S)
  BY EmptySeq
<1>3. CallTypes
  BY <1>1, <1>2 DEF CallTypes, Stage
<1>4. tried \in Seq({tried[i] : i \in DOMAIN tried})
  BY <1>1, <1>2
<1>5. CallFacts /\ EventFacts
  BY <1>1 DEF CallFacts, EventFacts
<1>6. /\ TriedFacts /\ RefusedRequestsTouchNothing
      /\ FailureCodesAreStable /\ EventAgreesWithAnswer
  BY <1>1 DEF TriedFacts, RefusedRequestsTouchNothing, FailureCodesAreStable,
              EventAgreesWithAnswer
<1> QED
  BY <1>3, <1>4, <1>5, <1>6 DEF MetadataInv

\* Whatever the configuration, the requests and the failures are, the types of a
\* metadata call and what its stages may count on hold in every reachable state,
\* and with them the three properties of the tools' refusals, codes and events.
THEOREM MetadataInvariant == Spec => []MetadataInv
<1>1. MetadataInv /\ [Next]_vars => MetadataInv'
  <2> SUFFICES ASSUME MetadataInv, [Next]_vars PROVE MetadataInv'
    OBVIOUS
  <2>1. /\ CallTypes /\ CallFacts /\ EventFacts /\ TriedFacts
        /\ tried \in Seq({tried[i] : i \in DOMAIN tried})
        /\ RefusedRequestsTouchNothing /\ FailureCodesAreStable
        /\ EventAgreesWithAnswer
    BY DEF MetadataInv
  <2>2. TriedFacts' /\ (tried \in Seq({tried[i] : i \in DOMAIN tried}))'
    BY <2>1, TriedFactsStep
  <2>3. CallTypes' /\ CallFacts' /\ EventFacts'
    BY <2>1, TypesStep, CallFactsStep, EventFactsStep
  <2>4. RefusedRequestsTouchNothing' /\ FailureCodesAreStable' /\ EventAgreesWithAnswer'
    BY <2>1, <2>2, RefusedStep, CodesStep, EventAgreesStep
  <2> QED
    BY <2>2, <2>3, <2>4 DEF MetadataInv
<1> QED
  BY InitInv, <1>1, PTL DEF Spec

\* A refused metadata request reads no secret and asks no backend anything.
THEOREM RefusedTouchNothing == Spec => []RefusedRequestsTouchNothing
<1>1. MetadataInv => RefusedRequestsTouchNothing
  BY DEF MetadataInv
<1> QED
  BY MetadataInvariant, <1>1, PTL

\* The code of an error tells why the request was refused, or which tool found a
\* secret missing.
THEOREM CodesAreStable == Spec => []FailureCodesAreStable
<1>1. MetadataInv => FailureCodesAreStable
  BY DEF MetadataInv
<1> QED
  BY MetadataInvariant, <1>1, PTL

\* Each answered call has one audit event, which says what the caller was told.
THEOREM EventsAgree == Spec => []EventAgreesWithAnswer
<1>1. MetadataInv => EventAgreesWithAnswer
  BY DEF MetadataInv
<1> QED
  BY MetadataInvariant, <1>1, PTL
=============================================================================
