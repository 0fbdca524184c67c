---------------------------- MODULE QueryAuditProofs ----------------------------
(***************************************************************************)
(* What the log and the answers tell of a call, and that the pipeline is   *)
(* an implementation of its contract, for every value of the constants.    *)
(***************************************************************************)
EXTENDS QueryPipelineProofs, FiniteSetTheorems

\* The histories of a state: as long as they are, and made of calls there were.
LEMMA Histories ==
  ASSUME TypeOK
  PROVE  /\ Len(calls) \in Nat /\ Len(sent) \in Nat /\ Len(audit) \in Nat
         /\ DOMAIN calls = 1 .. Len(calls) /\ DOMAIN answers = 1 .. Len(calls)
         /\ DOMAIN sent = 1 .. Len(sent) /\ DOMAIN audit = 1 .. Len(audit)
         /\ \A i \in DOMAIN sent : sent[i] \in SentRecord(Len(calls))
                                   /\ sent[i].call \in DOMAIN calls
         /\ \A k \in DOMAIN audit : audit[k].call \in DOMAIN calls
         /\ \A c \in DOMAIN calls : calls[c] \in Requests
                                    /\ answers[c] \in AnswerRecord
<1>1. /\ calls \in Seq(Requests) /\ answers \in Seq(AnswerRecord)
      /\ sent \in Seq(SentRecord(Len(calls)))
      /\ audit \in Seq(AuditRecord(Len(calls))) /\ Len(answers) = Len(calls)
  BY DEF TypeOK
<1>2. /\ Len(calls) \in Nat /\ Len(sent) \in Nat /\ Len(audit) \in Nat
      /\ DOMAIN calls = 1 .. Len(calls) /\ DOMAIN answers = 1 .. Len(calls)
      /\ DOMAIN sent = 1 .. Len(sent) /\ DOMAIN audit = 1 .. Len(audit)
  BY <1>1, LenProperties
<1>3. \A i \in DOMAIN sent : sent[i] \in SentRecord(Len(calls))
  BY <1>1, <1>2, ElementOfSeq
<1>4. \A k \in DOMAIN audit : audit[k] \in AuditRecord(Len(calls))
  BY <1>1, <1>2, ElementOfSeq
<1>5. \A c \in DOMAIN calls : calls[c] \in Requests /\ answers[c] \in AnswerRecord
  BY <1>1, <1>2, ElementOfSeq
<1> QED
  BY <1>2, <1>3, <1>4, <1>5 DEF SentRecord, AuditRecord

\* A call that is received is open, and new to every history.
LEMMA ReceivedCall ==
  ASSUME TypeOK, NEW r \in Requests, Receive(r)
  PROVE  /\ Current' = Current + 1 /\ Current' \notin DOMAIN calls
         /\ DOMAIN calls' = DOMAIN calls \cup {Current'}
         /\ DOMAIN answers' = DOMAIN answers \cup {Current'}
         /\ calls'[Current'] = r /\ answers'[Current'] = Open
         /\ \A c \in DOMAIN calls : calls'[c] = calls[c] /\ answers'[c] = answers[c]
         /\ AuditedAt(Current') = {} /\ SentAt(Current') = {}
         /\ UNCHANGED << config, sent, audit, touched >>
<1>1. /\ calls \in Seq(Requests) /\ answers \in Seq(AnswerRecord)
      /\ Len(answers) = Len(calls)
      /\ calls' = Append(calls, r) /\ answers' = Append(answers, Open)
  BY DEF TypeOK, Receive
<1>2. /\ Len(calls') = Len(calls) + 1
      /\ DOMAIN calls' = 1 .. Len(calls) + 1 /\ DOMAIN answers' = 1 .. Len(calls) + 1
      /\ calls'[Len(calls) + 1] = r /\ answers'[Len(calls) + 1] = Open
      /\ \A c \in 1 .. Len(calls) : calls'[c] = calls[c] /\ answers'[c] = answers[c]
  BY <1>1, AnswerTypes, AppendProperties, LenProperties
<1>3. Current' = Len(calls) + 1 /\ Current = Len(calls)
  BY <1>2 DEF Current
<1>4. Current' \notin DOMAIN calls
  BY <1>3, Histories
<1>5. AuditedAt(Current') = {} /\ SentAt(Current') = {}
  BY <1>4, Histories DEF AuditedAt, SentAt
<1> QED
  BY <1>2, <1>3, <1>4, <1>5, Histories DEF Receive

\* An answer changes nothing but the answer of the call in progress.
LEMMA AnsweredCall ==
  ASSUME TypeOK, StageFacts, stage # "idle", NEW a, Answer(a)
  PROVE  /\ DOMAIN answers' = DOMAIN answers
         /\ answers'[Current] = a
         /\ \A c \in DOMAIN answers \ {Current} : answers'[c] = answers[c]
BY CallInProgress DEF Answer

\* An event of the call in progress comes after all the others.
LEMMA AuditedCall ==
  ASSUME TypeOK, NEW by, NEW status, NEW code, UNCHANGED calls,
         audit' = Append(audit, Event(by, status, code))
  PROVE  /\ Len(audit') = Len(audit) + 1
         /\ Len(audit') \notin DOMAIN audit
         /\ DOMAIN audit' = DOMAIN audit \cup {Len(audit')}
         /\ audit'[Len(audit')] = EventOf(Current, by, status, code)
         /\ \A k \in DOMAIN audit : audit'[k] = audit[k]
         /\ \A c : AuditedAt(c)' =
                   IF c = Current THEN AuditedAt(c) \cup {Len(audit')} ELSE AuditedAt(c)
<1> DEFINE e == Event(by, status, code)
           n == Len(audit)
<1>1. n \in Nat /\ DOMAIN audit = 1 .. n /\ audit \in Seq(AuditRecord(Len(calls)))
  BY Histories DEF TypeOK
<1>2. e = EventOf(Current, by, status, code) /\ e.call = Current
  BY DEF Event, EventOf
<1> HIDE DEF e
<1>3. /\ Len(audit') = n + 1 /\ audit'[n + 1] = e
      /\ DOMAIN audit' = 1 .. n + 1
      /\ \A k \in 1 .. n : audit'[k] = audit[k]
  BY <1>1 DEF e
<1> HIDE DEF n
<1>4. DOMAIN audit' = DOMAIN audit \cup {n + 1} /\ n + 1 \notin DOMAIN audit
  BY <1>1, <1>3
<1>5. \A c : AuditedAt(c)' =
            IF c = Current THEN AuditedAt(c) \cup {n + 1} ELSE AuditedAt(c)
  BY <1>1, <1>2, <1>3, <1>4 DEF AuditedAt
<1> QED
  BY <1>1, <1>2, <1>3, <1>4, <1>5 DEF n
------------------------------------------------------------------------------
\* The steps, by what they do to the histories.

Working ==
  \/ ValidationPasses \/ ValidationRefuses \/ ResolveSecrets \/ BuildAdapter
  \/ BuildFails \/ ConnectFails \/ BackendRaises \/ Normalize \/ NormalizeFails

Closing == Return \/ RaiseToCaller \/ ToolAuditsFailure \/ Crash

LEMMA Steps ==
  ASSUME [Next]_vars
  PROVE  \/ \E r \in Requests : Receive(r)
         \/ Working \/ SendStatement \/ BackendReplies
         \/ AuditSuccess \/ AuditFailure \/ Closing \/ UNCHANGED vars
BY DEF Next, ServerStep, BackendStep, Finished, Working, Closing

\* A step that only works on its call leaves every history alone.
LEMMA WorkingStep ==
  ASSUME Working
  PROVE  /\ UNCHANGED << config, calls, sent, audit, answers >>
         /\ stage \notin {"idle", "returning", "failing", "raising"}
         /\ stage' \notin {"idle", "returning", "raising", "executing"}
BY DEF Working, ValidationPasses, ValidationRefuses, ResolveSecrets, BuildAdapter,
       BuildFails, ConnectFails, BackendRaises, Normalize, NormalizeFails, Fail

\* A step that ends a call answers it, and it only, for good.
LEMMA ClosingStep ==
  ASSUME TypeOK, StageFacts, Closing
  PROVE  /\ UNCHANGED << config, calls, sent, touched >> /\ stage # "idle"
         /\ stage' = "idle" /\ DOMAIN answers' = DOMAIN answers
         /\ Current' = Current /\ Current \in DOMAIN answers
         /\ answers'[Current].status \in {"ok", "error", "lost"}
         /\ \A c \in DOMAIN answers \ {Current} : answers'[c] = answers[c]
<1>1. PICK a : Answer(a) /\ a.status \in {"ok", "error", "lost"}
  BY DEF Closing, Return, RaiseToCaller, ToolAuditsFailure, Crash, Answered,
         Failed, Lost
<1>2. stage # "idle" /\ stage' = "idle" /\ UNCHANGED << config, calls, sent, touched >>
  BY DEF Closing, Return, RaiseToCaller, ToolAuditsFailure, Crash, Forget
<1> QED
  BY <1>1, <1>2, AnsweredCall, CallInProgress DEF Current

\* Secrets that were read stay read.
LEMMA TouchedGrows ==
  ASSUME [Next]_vars
  PROVE  touched \subseteq touched'
<1>1. ASSUME NEW r \in Requests, Receive(r) PROVE UNCHANGED touched
  BY <1>1 DEF Receive
<1>2. CASE ResolveSecrets
  BY <1>2 DEF ResolveSecrets
<1>3. CASE \/ ValidationPasses \/ ValidationRefuses \/ BuildAdapter \/ BuildFails
           \/ ConnectFails \/ BackendRaises \/ Normalize \/ NormalizeFails
           \/ SendStatement \/ BackendReplies \/ AuditSuccess \/ AuditFailure
  BY <1>3 DEF ValidationPasses, ValidationRefuses, BuildAdapter, BuildFails,
     ConnectFails, BackendRaises, Normalize, NormalizeFails, SendStatement,
     BackendReplies, AuditSuccess, AuditFailure
<1>4. CASE Closing \/ UNCHANGED vars
  BY <1>4 DEF Closing, Return, RaiseToCaller, ToolAuditsFailure, Crash, vars
<1> QED
  BY <1>1, <1>2, <1>3, <1>4, Steps DEF Working

------------------------------------------------------------------------------
\* The call in progress is the one that is open.
LEMMA OpenStep ==
  ASSUME TypeOK, StageFacts, OpenFacts, [Next]_vars
  PROVE  OpenFacts'
<1>1. ASSUME NEW r \in Requests, Receive(r) PROVE OpenFacts'
  <2>1. stage' = "validating" /\ stage = "idle" /\ Open.status = "open"
    BY <1>1 DEF Receive, Open
  <2>2. DOMAIN answers = DOMAIN calls
    BY Histories
  <2> QED
    BY <1>1, <2>1, <2>2, ReceivedCall DEF OpenFacts
<1>2. CASE Working
  BY <1>2, WorkingStep DEF OpenFacts, Current
<1>3. CASE SendStatement \/ BackendReplies \/ AuditSuccess \/ AuditFailure
  BY <1>3 DEF OpenFacts, Current, SendStatement, BackendReplies, AuditSuccess,
              AuditFailure
<1>4. CASE Closing
  BY <1>4, ClosingStep DEF OpenFacts
<1>5. CASE UNCHANGED vars
  BY <1>5 DEF OpenFacts, Current, vars
<1> QED
  BY <1>1, <1>2, <1>3, <1>4, <1>5, Steps

\* A reply changes neither whose a statement is nor how many there are.
LEMMA RepliedStatement ==
  ASSUME TypeOK, StageFacts, BackendReplies
  PROVE  /\ DOMAIN sent' = DOMAIN sent /\ Len(sent') = Len(sent)
         /\ \A i \in DOMAIN sent : sent'[i].call = sent[i].call
                                   /\ sent'[i].options = sent[i].options
         /\ \A i \in DOMAIN sent \ {Len(sent)} : sent'[i] = sent[i]
         /\ UNCHANGED << config, calls, audit, answers >>
<1>1. PICK reply \in Replies, durable \in BOOLEAN :
        sent' = [sent EXCEPT ![Len(sent)].reply = reply,
                             ![Len(sent)].durable = durable]
  BY DEF BackendReplies, commits
<1>2. sent \in Seq(SentRecord(Len(calls)))
        /\ \A i \in DOMAIN sent : sent[i] \in SentRecord(Len(calls))
  BY Histories DEF TypeOK
<1> QED
  BY <1>1, <1>2 DEF BackendReplies, SentRecord

\* A statement that is sent is the only one of its call.
LEMMA SentStatement ==
  ASSUME TypeOK, SendStatement
  PROVE  /\ Len(sent') = Len(sent) + 1 /\ Len(sent') \notin DOMAIN sent
         /\ DOMAIN sent' = DOMAIN sent \cup {Len(sent')}
         /\ sent'[Len(sent')].call = Current /\ sent'[Len(sent')].reply = None
         /\ \A i \in DOMAIN sent : sent'[i] = sent[i]
         /\ UNCHANGED << config, calls, audit, answers >>
<1> DEFINE s == [ call |-> Current, sql |-> validated.sql, options |-> options,
                  reply |-> None, durable |-> FALSE ]
           n == Len(sent)
<1>1. sent' = Append(sent, s) /\ s.call = Current /\ s.reply = None
        /\ UNCHANGED << config, calls, audit, answers >>
  BY DEF SendStatement
<1>2. n \in Nat /\ DOMAIN sent = 1 .. n /\ sent \in Seq(SentRecord(Len(calls)))
  BY Histories DEF TypeOK
<1> HIDE DEF s
<1>3. /\ Len(sent') = n + 1 /\ sent'[n + 1] = s /\ DOMAIN sent' = 1 .. n + 1
      /\ \A i \in 1 .. n : sent'[i] = sent[i]
  BY <1>1, <1>2
<1> HIDE DEF n
<1>4. DOMAIN sent' = DOMAIN sent \cup {n + 1} /\ n + 1 \notin DOMAIN sent
  BY <1>2, <1>3
<1> QED
  BY <1>1, <1>2, <1>3, <1>4 DEF n

\* A call has no statement before SendStatement, and one from then on.
LEMMA SentStep ==
  ASSUME TypeOK, StageFacts, SentFacts, AtMostOneExecution, [Next]_vars
  PROVE  SentFacts' /\ AtMostOneExecution'
<1>1. ASSUME NEW r \in Requests, Receive(r)
      PROVE  SentFacts' /\ AtMostOneExecution'
  <2>1. stage' = "validating"
    BY <1>1 DEF Receive
  <2>2. UNCHANGED sent /\ SentAt(Current') = {}
    BY <1>1, ReceivedCall
  <2> QED
    BY <2>1, <2>2 DEF SentFacts, AtMostOneExecution, SentAt, Executed
<1>2. CASE Working
  <2>1. UNCHANGED << calls, sent >>
    BY <1>2, WorkingStep
  <2>2. /\ stage' \in Unsent => stage \in Unsent
        /\ stage' \in Executed => stage \in Executed
        /\ stage' # "executing"
    BY <1>2 DEF Working, ValidationPasses, ValidationRefuses, ResolveSecrets,
                BuildAdapter, BuildFails, ConnectFails, BackendRaises, Normalize,
                NormalizeFails, Fail, Unsent, Executed
  <2> QED
    BY <2>1, <2>2 DEF SentFacts, AtMostOneExecution, SentAt, Current
<1>3. CASE SendStatement
  <2>1. stage' = "executing" /\ SentAt(Current) = {} /\ Current' = Current
    BY <1>3 DEF SendStatement, SentFacts, Unsent, Current
  <2>2. \A i \in DOMAIN sent : sent[i].call # Current
    BY <2>1 DEF SentAt
  <2> QED
    BY <1>3, <2>1, <2>2, SentStatement DEF SentFacts, AtMostOneExecution, Unsent
<1>4. CASE BackendReplies
  <2>1. stage' = "normalizing" /\ stage \in Executed /\ Current' = Current
    BY <1>4 DEF BackendReplies, Executed, Current
  <2>2. Len(sent) \in DOMAIN sent
    BY <2>1, StatementInProgress
  <2> QED
    BY <1>4, <2>1, <2>2, RepliedStatement DEF SentFacts, AtMostOneExecution, Unsent
<1>5. CASE AuditSuccess \/ AuditFailure
  BY <1>5 DEF SentFacts, AtMostOneExecution, SentAt, Current, Unsent, Executed,
              AuditSuccess, AuditFailure
<1>6. CASE Closing
  BY <1>6, ClosingStep DEF SentFacts, AtMostOneExecution, Unsent, Executed
<1>7. CASE UNCHANGED vars
  BY <1>7 DEF SentFacts, AtMostOneExecution, SentAt, Current, vars
<1> QED
  BY <1>1, <1>2, <1>3, <1>4, <1>5, <1>6, <1>7, Steps

\* An error of the server keeps its code when a tool normalizes it again.
LEMMA CodeKept ==
  ASSUME NEW e \in DbMcpError
  PROVE  normalize_exception(e).code = e.code
BY DEF normalize_exception, DbMcpError, Coded

------------------------------------------------------------------------------
\* What AuditAgreesWithAnswer asks of one call.
AgreesAt(c) ==
  /\ answers[c].status = "ok" =>
       \E k \in DOMAIN audit :
         AuditedAt(c) = {k} /\ audit[k] = EventOf(c, "service", "success", None)
  /\ answers[c].status = "error" =>
       \E k \in DOMAIN audit :
         /\ AuditedAt(c) = IF calls[c].via = "server" THEN {k, k + 1} ELSE {k}
         /\ audit[k] = EventOf(c, "service", "failure", answers[c].code)
         /\ calls[c].via = "server" =>
              audit[k + 1] = EventOf(c, "tool", "failure", answers[c].code)

\* It holds as long as answer and events of the call stay as they are.
LEMMA AgreesKept ==
  ASSUME NEW c, AgreesAt(c), answers'[c] = answers[c], calls'[c] = calls[c],
         AuditedAt(c)' = AuditedAt(c),
         \A k \in DOMAIN audit : k \in DOMAIN audit' /\ audit'[k] = audit[k]
  PROVE  AgreesAt(c)'
<1>1. ASSUME answers[c].status = "ok"
      PROVE  \E k \in DOMAIN audit' :
               AuditedAt(c)' = {k} /\ audit'[k] = EventOf(c, "service", "success", None)
  <2>1. PICK k \in DOMAIN audit :
          AuditedAt(c) = {k} /\ audit[k] = EventOf(c, "service", "success", None)
    BY <1>1 DEF AgreesAt
  <2> QED
    BY <2>1
<1>2. ASSUME answers[c].status = "error"
      PROVE  \E k \in DOMAIN audit' :
               /\ AuditedAt(c)' = IF calls'[c].via = "server" THEN {k, k + 1} ELSE {k}
               /\ audit'[k] = EventOf(c, "service", "failure", answers'[c].code)
               /\ calls'[c].via = "server" =>
                    audit'[k + 1] = EventOf(c, "tool", "failure", answers'[c].code)
  <2>1. PICK k \in DOMAIN audit :
          /\ AuditedAt(c) = IF calls[c].via = "server" THEN {k, k + 1} ELSE {k}
          /\ audit[k] = EventOf(c, "service", "failure", answers[c].code)
          /\ calls[c].via = "server" =>
               audit[k + 1] = EventOf(c, "tool", "failure", answers[c].code)
    BY <1>2 DEF AgreesAt
  <2>2. calls[c].via = "server" => k + 1 \in DOMAIN audit
    BY <2>1 DEF AuditedAt
  <2> QED
    BY <2>1, <2>2
<1> QED
  BY <1>1, <1>2 DEF AgreesAt

\* The events of the call in progress are those its stage says, and those of
\* the others agree with their answers.
LEMMA AuditStep ==
  ASSUME TypeOK, StageFacts, OpenFacts, AuditFacts, [Next]_vars,
         \A c \in DOMAIN answers : AgreesAt(c)
  PROVE  AuditFacts' /\ \A c \in DOMAIN answers' : AgreesAt(c)'
<1> DEFINE Goal == AuditFacts' /\ \A c \in DOMAIN answers' : AgreesAt(c)'
<1>1. ASSUME NEW r \in Requests, Receive(r) PROVE Goal
  <2>1. stage' = "validating"
    BY <1>1 DEF Receive
  <2>2. AuditFacts'
    BY <1>1, <2>1, ReceivedCall DEF AuditFacts, AuditedAt
  <2>3. ASSUME NEW c, c = Current' PROVE AgreesAt(c)'
    BY <1>1, <2>3, ReceivedCall DEF AgreesAt, Open
  <2>4. \A c \in DOMAIN answers : AgreesAt(c)'
    BY <1>1, ReceivedCall, AgreesKept, Histories DEF AuditedAt
  <2> QED
    BY <1>1, <2>2, <2>3, <2>4, ReceivedCall
<1>2. CASE UNCHANGED << calls, audit, answers >>
            /\ stage \notin {"idle", "returning", "raising"}
            /\ stage' \notin {"idle", "returning", "raising"}
  BY <1>2 DEF AuditFacts, AgreesAt, AuditedAt, Current
<1>3. CASE Working \/ SendStatement \/ BackendReplies
  BY <1>2, <1>3, WorkingStep DEF SendStatement, BackendReplies
<1>4. CASE AuditSuccess \/ AuditFailure
  <2>1. PICK status, code :
          /\ audit' = Append(audit, Event("service", status, code))
          /\ \/ /\ stage' = "returning" /\ status = "success" /\ code = None
             \/ /\ stage' = "raising" /\ status = "failure" /\ code = error'.code
    BY <1>4 DEF AuditSuccess, AuditFailure
  <2>2. /\ UNCHANGED << calls, answers >> /\ Current' = Current
        /\ stage \notin {"idle", "returning", "raising"}
    BY <1>4 DEF AuditSuccess, AuditFailure, Current
  <2>3. AuditedAt(Current) = {}
    BY <2>2 DEF AuditFacts
  <2>4. AuditedAt(Current)' = {Len(audit')}
    BY <2>1, <2>2, <2>3, AuditedCall
  <2>5. AuditFacts'
    BY <2>1, <2>2, <2>4, AuditedCall DEF AuditFacts
  <2>6. \A c \in DOMAIN answers \ {Current} : AgreesAt(c)'
    <3>1. SUFFICES ASSUME NEW c \in DOMAIN answers \ {Current} PROVE AgreesAt(c)'
      OBVIOUS
    <3>2. AuditedAt(c)' = AuditedAt(c)
            /\ \A k \in DOMAIN audit : k \in DOMAIN audit' /\ audit'[k] = audit[k]
      BY <2>1, <2>2, <3>1, AuditedCall
    <3> QED
      BY <2>2, <3>1, <3>2, AgreesKept
  <2>7. AgreesAt(Current)'
    BY <2>2, CallInProgress DEF OpenFacts, AgreesAt
  <2> QED
    BY <2>2, <2>5, <2>6, <2>7
<1>5. CASE Closing
  <2>1. AuditFacts'
    BY <1>5, ClosingStep DEF AuditFacts
  <2>2. /\ \A c \in DOMAIN answers \ {Current} : AuditedAt(c)' = AuditedAt(c)
        /\ \A k \in DOMAIN audit : k \in DOMAIN audit' /\ audit'[k] = audit[k]
    <3>1. CASE ToolAuditsFailure
      <4>1. audit' = Append(audit, Event("tool", "failure",
                                         normalize_exception(error).code))
        BY <3>1 DEF ToolAuditsFailure
      <4> QED
        BY <1>5, <4>1, AuditedCall, ClosingStep
    <3>2. CASE Return \/ RaiseToCaller \/ Crash
      BY <3>2 DEF Return, RaiseToCaller, Crash, AuditedAt
    <3> QED
      BY <1>5, <3>1, <3>2 DEF Closing
  <2>3. \A c \in DOMAIN answers \ {Current} : AgreesAt(c)'
    BY <1>5, <2>2, AgreesKept, ClosingStep
  <2>4. AgreesAt(Current)'
    <3>1. CASE Return
      <4>1. answers'[Current] = Answered(result) /\ UNCHANGED audit
              /\ AuditedAt(Current) = {Len(audit)}
              /\ audit[Len(audit)] = EventOf(Current, "service", "success", None)
        BY <3>1, AnsweredCall DEF Return, AuditFacts
      <4>2. Len(audit) \in DOMAIN audit
        BY <4>1 DEF AuditedAt
      <4> QED
        BY <1>5, <4>1, <4>2, ClosingStep DEF AgreesAt, Answered, AuditedAt
    <3>2. CASE RaiseToCaller
      <4>1. /\ answers'[Current] = Failed(error) /\ UNCHANGED audit
            /\ AuditedAt(Current) = {Len(audit)} /\ Call.via = "service"
            /\ audit[Len(audit)] = EventOf(Current, "service", "failure", error.code)
        BY <3>2, AnsweredCall DEF RaiseToCaller, AuditFacts
      <4>2. Len(audit) \in DOMAIN audit
        BY <4>1 DEF AuditedAt
      <4> QED
        BY <1>5, <4>1, <4>2, ClosingStep DEF AgreesAt, Failed, AuditedAt, Call
    <3>3. CASE ToolAuditsFailure
      <4> DEFINE e == normalize_exception(error)
      <4>1. e.code = error.code
        BY <3>3, CodeKept DEF ToolAuditsFailure, StageFacts
      <4>2. /\ answers'[Current] = Failed(e) /\ Call.via = "server"
            /\ audit' = Append(audit, Event("tool", "failure", e.code))
            /\ AuditedAt(Current) = {Len(audit)}
            /\ audit[Len(audit)] = EventOf(Current, "service", "failure", error.code)
        BY <3>3, AnsweredCall DEF ToolAuditsFailure, AuditFacts
      <4> HIDE DEF e
      <4>3. Len(audit) \in DOMAIN audit /\ Len(audit) \in Nat
        BY <4>2, Histories DEF AuditedAt
      <4>4. /\ AuditedAt(Current)' = {Len(audit), Len(audit) + 1}
            /\ Len(audit) \in DOMAIN audit'
            /\ audit'[Len(audit)] = EventOf(Current, "service", "failure", e.code)
            /\ audit'[Len(audit) + 1] = EventOf(Current, "tool", "failure", e.code)
        <5>1. UNCHANGED calls /\ Current' = Current
          BY <1>5, ClosingStep
        <5> QED
          BY <4>1, <4>2, <4>3, <5>1, AuditedCall
      <4>5. answers'[Current].status = "error" /\ answers'[Current].code = e.code
              /\ calls'[Current].via = "server" /\ Current' = Current
        BY <1>5, <4>2, ClosingStep DEF Failed, Call
      <4> QED
        BY <4>4, <4>5 DEF AgreesAt
    <3>4. CASE Crash
      BY <1>5, <3>4, AnsweredCall, ClosingStep DEF AgreesAt, Crash, Lost
    <3> QED
      BY <1>5, <3>1, <3>2, <3>3, <3>4 DEF Closing
  <2> QED
    BY <1>5, <2>1, <2>3, <2>4, ClosingStep
<1>6. CASE UNCHANGED vars
  BY <1>6 DEF AuditFacts, AgreesAt, AuditedAt, Current, vars
<1> QED
  BY <1>1, <1>3, <1>4, <1>5, <1>6, Steps

------------------------------------------------------------------------------
\* A request that may run comes as far as the secrets of its connection.
LEMMA ProgressStep ==
  ASSUME TypeOK, StageFacts, ProgressFacts, [Next]_vars
  PROVE  ProgressFacts'
<1>1. ASSUME NEW r \in Requests, Receive(r) PROVE ProgressFacts'
  BY <1>1 DEF Receive, ProgressFacts
<1>2. CASE ValidationPasses
  BY <1>2 DEF ValidationPasses, ProgressFacts
<1>3. CASE ValidationRefuses
  <2>1. /\ config \in Configs /\ Call \in Requests
        /\ options = resolve_query_options(Call)
    BY <1>3, CallInProgress DEF TypeOK, StageFacts, ValidationRefuses
  <2>2. ~Admissible(config, Call)
    BY <1>3, <2>1, ValidationIsExact DEF ValidationRefuses
  <2>3. UNCHANGED << config, Call >>
    BY <1>3 DEF ValidationRefuses, Call, Current
  <2> QED
    BY <2>2, <2>3 DEF ProgressFacts
<1>4. CASE ResolveSecrets
  BY <1>4 DEF ResolveSecrets, ProgressFacts, Current
<1>5. CASE UNCHANGED << config, calls, touched >>
             /\ stage \notin {"idle", "validating", "resolving"}
  BY <1>5 DEF ProgressFacts, Call, Current
<1>6. CASE \/ BuildAdapter \/ BuildFails \/ ConnectFails \/ BackendRaises
           \/ Normalize \/ NormalizeFails \/ SendStatement \/ BackendReplies
           \/ AuditSuccess \/ AuditFailure
  BY <1>5, <1>6 DEF BuildAdapter, BuildFails, ConnectFails, BackendRaises, Normalize,
     NormalizeFails, SendStatement, BackendReplies, AuditSuccess, AuditFailure
<1>7. CASE Closing
  BY <1>7, ClosingStep DEF ProgressFacts
<1>8. CASE UNCHANGED vars
  BY <1>8 DEF ProgressFacts, vars, Call, Current
<1> QED
  BY <1>1, <1>2, <1>3, <1>4, <1>6, <1>7, <1>8, Steps DEF Working

\* It has come there when it is answered.
LEMMA TriedStep ==
  ASSUME TypeOK, StageFacts, OpenFacts, ProgressFacts, AdmissibleCallsAreTried,
         [Next]_vars
  PROVE  AdmissibleCallsAreTried'
<1>1. ASSUME NEW r \in Requests, Receive(r) PROVE AdmissibleCallsAreTried'
  BY <1>1, ReceivedCall, Histories DEF AdmissibleCallsAreTried, Open
<1>2. CASE UNCHANGED << config, calls, answers >> /\ touched \subseteq touched'
  BY <1>2 DEF AdmissibleCallsAreTried
<1>3. touched \subseteq touched'
  BY TouchedGrows
<1>4. CASE Working \/ SendStatement \/ BackendReplies \/ AuditSuccess \/ AuditFailure
           \/ UNCHANGED vars
  BY <1>2, <1>3, <1>4, WorkingStep
     DEF SendStatement, BackendReplies, AuditSuccess, AuditFailure, vars
<1>5. CASE Closing
  <2>1. /\ UNCHANGED << config, calls, touched >> /\ DOMAIN answers' = DOMAIN answers
        /\ \A c \in DOMAIN answers \ {Current} : answers'[c] = answers[c]
        /\ Current \in DOMAIN answers
    BY <1>5, ClosingStep
  <2>2. answers'[Current].status \in {"ok", "error"} /\ Admissible(config, Call) =>
          Current \in touched
    <3>1. CASE Crash
      BY <3>1, AnsweredCall DEF Crash, Lost
    <3>2. CASE Return \/ RaiseToCaller \/ ToolAuditsFailure
      BY <3>2 DEF Return, RaiseToCaller, ToolAuditsFailure, ProgressFacts
    <3> QED
      BY <1>5, <3>1, <3>2 DEF Closing
  <2> QED
    BY <2>1, <2>2 DEF AdmissibleCallsAreTried, Call
<1> QED
  BY <1>1, <1>4, <1>5, Steps

------------------------------------------------------------------------------
\* The first reason for a refusal decides its code.
LEMMA RefusedCode ==
  ASSUME NEW c \in Configs, NEW r \in Requests,
         refusal(c, r, resolve_query_options(r)) # None
  PROVE  StableCode(c, r, normalize_exception(
                            refusal(c, r, resolve_query_options(r))).code)
<1>1. \A code \in ErrorCode : normalize_exception(Coded(code)).code = code
  BY DEF normalize_exception, Coded
<1>2. CASE ~Known(c, r)
  BY <1>1, <1>2 DEF refusal, Known, StableCode, ErrorCode
<1>3. CASE Known(c, r) /\ ~Parses(r)
  BY <1>1, <1>3 DEF refusal, Known, parses, Parses, StableCode, ErrorCode
<1>4. CASE Known(c, r) /\ Parses(r) /\ ~Permitted(c, r)
  <2>1. ~policy_decision(c, r, resolve_query_options(r)).allowed
    BY <1>4, AllowedIsPermitted
  <2> QED
    BY <1>1, <1>4, <2>1 DEF refusal, Known, parses, Parses, StableCode, ErrorCode
<1> QED
  BY <1>2, <1>3, <1>4 DEF StableCode

\* What an adapter makes of a reply, and the service of that, reports the rows
\* that are missing.
LEMMA ReportedResult ==
  ASSUME NEW type, NEW reply \in Reply, NEW max_rows \in Nat, NEW s,
         s.reply = reply, s.options.limits["max_rows"] = max_rows,
         adapter_result(type, "run_query", reply, max_rows).kind = "result"
  PROVE  Reported(s, normalize_query_result(
                       adapter_result(type, "run_query", reply, max_rows)))
<1> DEFINE cut == [ code |-> "truncation", limit_type |-> "rows",
                    limit |-> max_rows, actual |-> reply.rows ]
           a == adapter_result(type, "run_query", reply, max_rows)
<1>1. Raw({}).kind # "result" /\ reply.rows \in Nat /\ max_rows # None
  BY NoneAssumption DEF Raw, Reply
<1>2. cuts(reply.rows, max_rows) <=> reply.rows > max_rows
  BY <1>1 DEF cuts
<1>3. \/ reply.rows > max_rows /\ a = Result(max_rows, TRUE, {cut})
      \/ ~(reply.rows > max_rows) /\ a = Result(reply.rows, FALSE, {})
  <2>1. CASE type = "databricks"
    BY <1>1, <1>2, <2>1 DEF adapter_result, databricks_run_query
  <2>2. CASE type # "databricks"
    BY <1>1, <1>2, <2>2 DEF adapter_result, sqlalchemy_run_query, keys_error,
                            build_query_result
  <2> QED
    BY <2>1, <2>2
<1> HIDE DEF a
<1>4. normalize_warnings({}) = {} /\ normalize_warnings({cut}) # {}
  BY DEF normalize_warnings
<1> HIDE DEF cut
<1> DEFINE q == normalize_query_result(a)
<1>5. CASE reply.rows > max_rows
  <2>1. a = Result(max_rows, TRUE, {cut})
    BY <1>3, <1>5
  <2>2. q.rows = max_rows /\ q.truncated /\ q.warnings = normalize_warnings({cut})
    BY <2>1 DEF normalize_query_result, Result
  <2> HIDE DEF q
  <2>3. Reported(s, q)
    BY <1>4, <1>5, <2>2 DEF Reported
  <2> QED
    BY <2>3 DEF q, a
<1>6. CASE ~(reply.rows > max_rows)
  <2>1. a = Result(reply.rows, FALSE, {})
    BY <1>3, <1>6
  <2>2. q.rows = reply.rows /\ ~q.truncated /\ q.warnings = normalize_warnings({})
    BY <2>1 DEF normalize_query_result, Result
  <2> HIDE DEF q
  <2>3. Reported(s, q)
    BY <1>4, <1>6, <2>2 DEF Reported
  <2> QED
    BY <2>3 DEF q, a
<1> QED
  BY <1>5, <1>6

\* A call goes on to an error only with a code it may have, and to a result only
\* with one that reports the missing rows.
LEMMA OutcomeStep ==
  ASSUME TypeOK, StageFacts, AdapterGetsApprovedOptions, SentFacts, OutcomeFacts,
         [Next]_vars
  PROVE  OutcomeFacts'
<1>1. ASSUME NEW r \in Requests, Receive(r) PROVE OutcomeFacts'
  BY <1>1 DEF Receive, OutcomeFacts
<1>2. CASE ValidationRefuses
  <2>1. /\ config \in Configs /\ Call \in Requests
        /\ options = resolve_query_options(Call)
    BY <1>2, CallInProgress DEF TypeOK, StageFacts, ValidationRefuses
  <2>2. error' = normalize_exception(refusal(config, Call, options))
          /\ stage' = "failing" /\ UNCHANGED << config, calls >>
          /\ refusal(config, Call, options) # None
    BY <1>2 DEF ValidationRefuses, Fail
  <2>3. StableCode(config, Call, error'.code)
    BY <2>1, <2>2, RefusedCode
  <2> QED
    BY <2>2, <2>3 DEF OutcomeFacts, Call, Current, StableCode
<1>3. CASE stage \in Approved /\ UNCHANGED << config, calls >>
             /\ stage' \notin {"auditing", "returning"}
  <2>1. Admissible(config, Call)
    BY <1>3, CallApproved
  <2>2. \A code : StableCode(config, Call, code)
    BY <2>1 DEF StableCode, Admissible
  <2>3. UNCHANGED << config, Call >>
    BY <1>3 DEF Call, Current
  <2> QED
    BY <1>3, <2>2, <2>3 DEF OutcomeFacts
<1>4. CASE ValidationPasses
  BY <1>4 DEF OutcomeFacts, ValidationPasses
<1>5. CASE \/ ResolveSecrets \/ BuildAdapter \/ BuildFails \/ ConnectFails
           \/ BackendRaises \/ NormalizeFails \/ SendStatement \/ BackendReplies
  BY <1>3, <1>5 DEF Approved, ResolveSecrets, BuildAdapter, BuildFails,
     ConnectFails, BackendRaises, NormalizeFails, SendStatement, BackendReplies, Fail
<1>6. CASE Normalize
  <2> DEFINE s == sent[Len(sent)]
             n == EffectiveLimit(config, Call, "max_rows")
  <2>1. stage = "normalizing" /\ stage \in Approved /\ stage \in Executed
    BY <1>6 DEF Normalize, Approved, Executed
  <2>2. s.reply \in Reply /\ Len(sent) \in DOMAIN sent /\ s.call = Current
    BY <2>1, StatementInProgress DEF SentFacts
  <2>3. s.options = options /\ options.limits["max_rows"] = n
          /\ options.limits["max_rows"] \in Int
    BY <2>1, <2>2, CallApproved DEF AdapterGetsApprovedOptions, Call, Limit
  <2>4. n > 0
    BY <2>1, CallApproved DEF Admissible, Limit
  <2>5. /\ UNCHANGED << config, calls, sent, Call >> /\ stage' = "auditing"
        /\ Returned.kind = "result" /\ result' = normalize_query_result(Returned)
    BY <1>6 DEF Normalize, Call, Current
  <2>6. Returned = adapter_result(Backend, Call.tool, s.reply, n)
    BY <2>3 DEF Returned
  <2>7. n \in Nat
    BY <2>3, <2>4
  <2> HIDE DEF s, n
  <2>8. Call.tool = "run_query" => Reported(s, result')
    BY <2>2, <2>3, <2>5, <2>6, <2>7, ReportedResult
  <2> QED
    BY <2>5, <2>8 DEF OutcomeFacts, s, Reported
<1>7. CASE AuditSuccess \/ AuditFailure
  BY <1>7 DEF AuditSuccess, AuditFailure, OutcomeFacts, Call, Current
<1>8. CASE Closing
  BY <1>8, ClosingStep DEF OutcomeFacts
<1>9. CASE UNCHANGED vars
  BY <1>9 DEF OutcomeFacts, vars, Call, Current
<1> QED
  BY <1>1, <1>2, <1>4, <1>5, <1>6, <1>7, <1>8, <1>9, Steps DEF Working

\* What is answered is the outcome: codes and rows of answered calls.
LEMMA AnswersStep ==
  ASSUME TypeOK, StageFacts, OpenFacts, SentFacts, OutcomeFacts,
         AtMostOneExecution, RefusalCodesAreStable, TruncationIsReported,
         [Next]_vars
  PROVE  RefusalCodesAreStable' /\ TruncationIsReported'
<1> DEFINE Goal == RefusalCodesAreStable' /\ TruncationIsReported'
<1>1. ASSUME NEW r \in Requests, Receive(r) PROVE Goal
  <2>1. \A i \in DOMAIN sent : sent[i].call \in DOMAIN calls
    BY Histories
  <2>2. RefusalCodesAreStable'
    BY <1>1, ReceivedCall, Histories DEF RefusalCodesAreStable, Open
  <2>3. TruncationIsReported'
    BY <1>1, <2>1, ReceivedCall DEF TruncationIsReported
  <2> QED
    BY <2>2, <2>3
<1>2. CASE UNCHANGED << config, calls, sent, answers >>
  BY <1>2 DEF RefusalCodesAreStable, TruncationIsReported
<1>3. CASE Working \/ AuditSuccess \/ AuditFailure \/ UNCHANGED vars
  BY <1>2, <1>3, WorkingStep DEF AuditSuccess, AuditFailure, vars
<1>4. CASE SendStatement
  <2>1. stage # "idle" /\ Current \in DOMAIN answers
    BY <1>4, CallInProgress DEF SendStatement
  <2>2. answers[Current].status = "open"
    BY <2>1 DEF OpenFacts
  <2> QED
    BY <1>4, <2>2, SentStatement DEF RefusalCodesAreStable, TruncationIsReported
<1>5. CASE BackendReplies
  <2>1. stage = "executing" /\ Current \in DOMAIN answers
    BY <1>5, CallInProgress DEF BackendReplies
  <2>2. answers[Current].status = "open" /\ sent[Len(sent)].call = Current
    BY <2>1 DEF OpenFacts, SentFacts, Executed
  <2> QED
    BY <1>5, <2>2, RepliedStatement DEF RefusalCodesAreStable, TruncationIsReported
<1>6. CASE Closing
  <2>1. /\ UNCHANGED << config, calls, sent >> /\ DOMAIN answers' = DOMAIN answers
        /\ \A c \in DOMAIN answers \ {Current} : answers'[c] = answers[c]
        /\ Current \in DOMAIN answers
    BY <1>6, ClosingStep
  <2>2. answers'[Current].status = "error" =>
          StableCode(config, Call, answers'[Current].code)
    <3>1. CASE RaiseToCaller \/ ToolAuditsFailure
      <4>1. stage = "raising" /\ error \in DbMcpError
        BY <3>1 DEF RaiseToCaller, ToolAuditsFailure, StageFacts
      <4>2. PICK e : Answer(Failed(e)) /\ e.code = error.code
        BY <3>1, <4>1, CodeKept DEF RaiseToCaller, ToolAuditsFailure
      <4>3. answers'[Current] = Failed(e)
        BY <4>1, <4>2, AnsweredCall
      <4>4. StableCode(config, Call, error.code)
        BY <4>1 DEF OutcomeFacts
      <4> QED
        BY <4>2, <4>3, <4>4 DEF Failed
    <3>2. CASE Return \/ Crash
      BY <3>2, AnsweredCall DEF Return, Crash, Answered, Lost
    <3> QED
      BY <1>6, <3>1, <3>2 DEF Closing
  <2>3. RefusalCodesAreStable'
    BY <2>1, <2>2 DEF RefusalCodesAreStable, Call
  <2>4. ASSUME NEW i \in DOMAIN sent, sent[i].call = Current,
               calls[Current].tool = "run_query", answers'[Current].status = "ok"
        PROVE  Reported(sent[i], answers'[Current].result)
    <3>1. CASE Return
      <4>1. stage = "returning" /\ answers'[Current] = Answered(result)
        BY <3>1, AnsweredCall DEF Return
      <4>2. sent[Len(sent)].call = Current /\ Len(sent) \in DOMAIN sent
        BY <4>1, StatementInProgress DEF SentFacts, Executed
      <4>3. i = Len(sent)
        BY <2>4, <4>2 DEF AtMostOneExecution
      <4>4. Reported(sent[i], result)
        BY <2>4, <4>1, <4>3 DEF OutcomeFacts, Call
      <4> QED
        BY <4>1, <4>4 DEF Answered
    <3>2. CASE RaiseToCaller \/ ToolAuditsFailure \/ Crash
      <4>1. answers'[Current].status # "ok"
        BY <3>2, AnsweredCall
           DEF RaiseToCaller, ToolAuditsFailure, Crash, Failed, Lost
      <4> QED
        BY <2>4, <4>1
    <3> QED
      BY <1>6, <3>1, <3>2 DEF Closing
  <2>5. \A i \in DOMAIN sent : sent[i].call \in DOMAIN answers
    BY Histories
  <2>6. TruncationIsReported'
    BY <2>1, <2>4, <2>5 DEF TruncationIsReported
  <2> QED
    BY <2>3, <2>6
<1> QED
  BY <1>1, <1>3, <1>4, <1>5, <1>6, Steps
------------------------------------------------------------------------------
\* The invariant of the histories: audit log, answers and executions tell of
\* each call what happened to it, whatever fails and whenever the process dies.
THEOREM HistoryInvariant == Spec => []HistoryInv
<1>1. Init => HistoryInv
  BY InitInv DEF Init, HistoryInv, OpenFacts, SentFacts, AuditFacts, OutcomeFacts,
     AtMostOneExecution, AuditAgreesWithAnswer, RefusalCodesAreStable,
     TruncationIsReported, ProgressFacts, AdmissibleCallsAreTried, Unsent, Executed
<1>2. HistoryInv /\ PipelineInv' /\ [Next]_vars => HistoryInv'
  <2> SUFFICES ASSUME HistoryInv, PipelineInv', [Next]_vars PROVE HistoryInv'
    OBVIOUS
  <2>1. /\ TypeOK /\ StageFacts /\ AdapterGetsApprovedOptions
        /\ OpenFacts /\ SentFacts /\ ProgressFacts /\ AuditFacts /\ OutcomeFacts
        /\ AtMostOneExecution /\ RefusalCodesAreStable /\ TruncationIsReported
        /\ AdmissibleCallsAreTried
    BY DEF HistoryInv, PipelineInv
  <2>2. OpenFacts'
    BY <2>1, OpenStep
  <2>3. SentFacts' /\ AtMostOneExecution'
    BY <2>1, SentStep
  <2>4. \A c \in DOMAIN answers : AgreesAt(c)
    BY DEF HistoryInv, AuditAgreesWithAnswer, AgreesAt
  <2>5. AuditFacts' /\ \A c \in DOMAIN answers' : AgreesAt(c)'
    BY <2>1, <2>4, AuditStep
  <2>6. AuditAgreesWithAnswer'
    BY <2>5 DEF AuditAgreesWithAnswer, AgreesAt
  <2>7. OutcomeFacts'
    BY <2>1, OutcomeStep
  <2>8. RefusalCodesAreStable' /\ TruncationIsReported'
    BY <2>1, AnswersStep
  <2>9. ProgressFacts' /\ AdmissibleCallsAreTried'
    BY <2>1, ProgressStep, TriedStep
  <2> QED
    BY <2>2, <2>3, <2>5, <2>6, <2>7, <2>8, <2>9 DEF HistoryInv
<1> QED
  BY PipelineInvariant, <1>1, <1>2, PTL DEF Spec

\* No statement is ever sent a second time for the same call.
THEOREM StatementsRunOnce == Spec => []AtMostOneExecution
<1>1. HistoryInv => AtMostOneExecution
  BY DEF HistoryInv
<1> QED
  BY HistoryInvariant, <1>1, PTL

\* The audit log of a call is the one its answer calls for.
THEOREM AuditAgrees == Spec => []AuditAgreesWithAnswer
<1>1. HistoryInv => AuditAgreesWithAnswer
  BY DEF HistoryInv
<1> QED
  BY HistoryInvariant, <1>1, PTL

\* Every statement that ran is in the audit log, once its call is answered.
THEOREM ExecutionsAreAudited == Spec => []EveryExecutionAccountedFor
<1>1. HistoryInv => EveryExecutionAccountedFor
  <2> SUFFICES ASSUME HistoryInv, NEW i \in DOMAIN sent,
                      answers[sent[i].call].status \notin {"open", "lost"}
               PROVE  \E k \in DOMAIN audit :
                        audit[k].call = sent[i].call /\ audit[k].by = "service"
    BY DEF EveryExecutionAccountedFor
  <2> DEFINE c == sent[i].call
  <2>1. c \in DOMAIN answers /\ answers[c] \in AnswerRecord
    BY Histories DEF HistoryInv, PipelineInv
  <2>2. answers[c].status \in {"ok", "error"}
    BY <2>1 DEF AnswerRecord
  <2>3. PICK k \in DOMAIN audit :
          \E status, code : audit[k] = EventOf(c, "service", status, code)
    BY <2>1, <2>2 DEF HistoryInv, AuditAgreesWithAnswer
  <2> QED
    BY <2>3 DEF EventOf
<1> QED
  BY HistoryInvariant, <1>1, PTL

\* A request that may not run fails with the code of the first reason.
THEOREM RefusalCodesStable == Spec => []RefusalCodesAreStable
<1>1. HistoryInv => RefusalCodesAreStable
  BY DEF HistoryInv
<1> QED
  BY HistoryInvariant, <1>1, PTL

\* A call whose request may run is not refused on the way to its connection.
THEOREM AdmissibleAreTried == Spec => []AdmissibleCallsAreTried
<1>1. HistoryInv => AdmissibleCallsAreTried
  BY DEF HistoryInv
<1> QED
  BY HistoryInvariant, <1>1, PTL

\* No row is missing from an answer that does not say so.
THEOREM TruncationReported == Spec => []TruncationIsReported
<1>1. HistoryInv => TruncationIsReported
  BY DEF HistoryInv
<1> QED
  BY HistoryInvariant, <1>1, PTL

\* A call that has ended is not the one a step works for.
LEMMA EndedCalls ==
  ASSUME TypeOK, StageFacts, OpenFacts, SentFacts, [Next]_vars
  PROVE  LeavesEndedCalls
<1> SUFFICES ASSUME NEW c \in DOMAIN answers, Ended(c)
             PROVE  /\ answers'[c] = answers[c]
                    /\ AuditedAt(c)' = AuditedAt(c)
                    /\ \A k \in AuditedAt(c) : audit'[k] = audit[k]
                    /\ c \in touched' => c \in touched
                    /\ SentAt(c)' = SentAt(c)
                    /\ \A i \in SentAt(c) : sent'[i] = sent[i]
  BY DEF LeavesEndedCalls
<1> DEFINE Kept == /\ answers'[c] = answers[c]
                   /\ AuditedAt(c)' = AuditedAt(c)
                   /\ \A k \in AuditedAt(c) : audit'[k] = audit[k]
                   /\ c \in touched' => c \in touched
                   /\ SentAt(c)' = SentAt(c)
                   /\ \A i \in SentAt(c) : sent'[i] = sent[i]
<1>1. stage # "idle" => c # Current
  BY DEF OpenFacts, Ended
<1>2. ASSUME NEW r \in Requests, Receive(r) PROVE Kept
  BY <1>2, ReceivedCall, Histories DEF AuditedAt, SentAt
<1>3. CASE Working
  <2>1. UNCHANGED << sent, audit, answers >>
    BY <1>3, WorkingStep
  <2>2. touched' = touched \/ (stage # "idle" /\ touched' = touched \cup {Current})
    BY <1>3 DEF Working, ValidationPasses, ValidationRefuses, ResolveSecrets,
                BuildAdapter, BuildFails, ConnectFails, BackendRaises, Normalize,
                NormalizeFails
  <2> QED
    BY <1>1, <2>1, <2>2 DEF AuditedAt, SentAt
<1>4. CASE SendStatement
  <2>1. c # Current /\ touched' = touched
    BY <1>1, <1>4 DEF SendStatement
  <2> QED
    BY <1>4, <2>1, SentStatement DEF AuditedAt, SentAt
<1>5. CASE BackendReplies
  <2>1. c # Current /\ touched' = touched /\ sent[Len(sent)].call = Current
    BY <1>1, <1>5 DEF BackendReplies, SentFacts, Executed
  <2> QED
    BY <1>5, <2>1, RepliedStatement DEF AuditedAt, SentAt
<1>6. CASE AuditSuccess \/ AuditFailure \/ ToolAuditsFailure
  <2>1. c # Current /\ UNCHANGED << calls, touched, sent >>
    BY <1>1, <1>6 DEF AuditSuccess, AuditFailure, ToolAuditsFailure
  <2>2. PICK by, status, code : audit' = Append(audit, Event(by, status, code))
    BY <1>6 DEF AuditSuccess, AuditFailure, ToolAuditsFailure
  <2>3. AuditedAt(c)' = AuditedAt(c) /\ \A k \in AuditedAt(c) : audit'[k] = audit[k]
    BY <2>1, <2>2, AuditedCall DEF AuditedAt
  <2>4. answers'[c] = answers[c]
    BY <1>6, <2>1, ClosingStep DEF AuditSuccess, AuditFailure, Closing
  <2> QED
    BY <2>1, <2>3, <2>4 DEF SentAt
<1>7. CASE Return \/ RaiseToCaller \/ Crash
  <2>1. c # Current /\ UNCHANGED << touched, sent, audit >>
    BY <1>1, <1>7 DEF Return, RaiseToCaller, Crash
  <2>2. answers'[c] = answers[c]
    BY <1>7, <2>1, ClosingStep DEF Closing
  <2> QED
    BY <2>1, <2>2 DEF AuditedAt, SentAt
<1>8. CASE UNCHANGED vars
  BY <1>8 DEF vars, AuditedAt, SentAt
<1> QED
  BY <1>2, <1>3, <1>4, <1>5, <1>6, <1>7, <1>8, Steps DEF Closing

\* An answered or lost call stays as it is, in every history.
THEOREM AnsweredCallsAreFinal == Spec => ClosedCallsStayClosed
<1>1. HistoryInv /\ [Next]_vars => [LeavesEndedCalls]_vars
  BY EndedCalls DEF HistoryInv, PipelineInv
<1> QED
  BY HistoryInvariant, <1>1, PTL DEF Spec, ClosedCallsStayClosed
------------------------------------------------------------------------------
\* The contract's log.
LogEntry == [ admissible : BOOLEAN, executions : {0, 1},
              status : {"open", "ok", "error", "lost"} ]

\* A call has no statement or one.
LEMMA Executions ==
  ASSUME TypeOK, AtMostOneExecution, NEW c
  PROVE  \/ SentAt(c) = {} /\ Cardinality(SentAt(c)) = 0
         \/ SentAt(c) # {} /\ Cardinality(SentAt(c)) = 1
<1>1. CASE SentAt(c) = {}
  BY <1>1, FS_EmptySet
<1>2. CASE SentAt(c) # {}
  <2>1. PICK i \in DOMAIN sent : SentAt(c) = {i}
    BY <1>2 DEF SentAt, AtMostOneExecution
  <2> QED
    BY <1>2, <2>1, FS_Singleton
<1> QED
  BY <1>1, <1>2

\* The log has an entry for every call.
LogOK ==
  /\ CallLog \in Seq(LogEntry) /\ Len(CallLog) = Len(calls)
  /\ \A c \in 1 .. Len(calls) :
       CallLog[c] = [ admissible |-> Admissible(config, calls[c]),
                      executions |-> Cardinality(SentAt(c)),
                      status     |-> answers[c].status ]

LEMMA LogShape == TypeOK /\ AtMostOneExecution => LogOK
<1> SUFFICES ASSUME TypeOK, AtMostOneExecution PROVE LogOK
  OBVIOUS
<1> DEFINE n == Len(calls)
           entry(c) == [ admissible |-> Admissible(config, calls[c]),
                         executions |-> Cardinality(SentAt(c)),
                         status     |-> answers[c].status ]
<1>1. n \in Nat /\ DOMAIN calls = 1 .. n
  BY Histories
<1>2. \A c \in 1 .. n : entry(c) \in LogEntry
  <2>1. SUFFICES ASSUME NEW c \in 1 .. n PROVE entry(c) \in LogEntry
    OBVIOUS
  <2>2. Cardinality(SentAt(c)) \in {0, 1}
    BY Executions
  <2>3. answers[c].status \in {"open", "ok", "error", "lost"}
    BY <1>1, <2>1, Histories DEF AnswerRecord
  <2>4. Admissible(config, calls[c]) \in BOOLEAN
    BY DEF Admissible
  <2> QED
    BY <2>2, <2>3, <2>4 DEF LogEntry
<1>3. CallLog = [c \in 1 .. n |-> entry(c)]
  BY <1>1 DEF CallLog
<1> HIDE DEF entry
<1>4. CallLog \in [1 .. n -> LogEntry]
  BY <1>2, <1>3
<1> HIDE DEF n
<1>5. CallLog \in Seq(LogEntry)
  BY <1>1, <1>4, SeqDef
<1>6. DOMAIN CallLog = 1 .. n /\ DOMAIN CallLog = 1 .. Len(CallLog)
        /\ Len(CallLog) \in Nat
  BY <1>4, <1>5, LenProperties
<1>7. Len(CallLog) = n
  BY <1>1, <1>6
<1> QED
  BY <1>3, <1>5, <1>7 DEF entry, n, LogOK

LEMMA LogShapeAfter == (TypeOK /\ AtMostOneExecution)' => LogOK'
<1>1. TypeOK /\ AtMostOneExecution => LogOK
  BY LogShape
<1> QED
  BY <1>1, PTL

\* A step that changes no entry is no step of the contract.
LEMMA LogKept ==
  ASSUME TypeOK, AtMostOneExecution, TypeOK', AtMostOneExecution',
         UNCHANGED << config, calls >>,
         \A c \in DOMAIN calls : /\ SentAt(c)' = SentAt(c)
                                 /\ answers'[c].status = answers[c].status
  PROVE  CallLog' = CallLog
<1>1. DOMAIN calls = 1 .. Len(calls) /\ LogOK /\ LogOK'
  BY Histories, LogShape, LogShapeAfter
<1>2. \A c \in 1 .. Len(calls) : CallLog'[c] = CallLog[c]
  BY <1>1 DEF LogOK
<1> QED
  BY <1>1, <1>2, SeqEqual DEF LogOK

\* A step that changes the entry of the call in progress.
LEMMA LogChanged ==
  ASSUME TypeOK, StageFacts, AtMostOneExecution, TypeOK', AtMostOneExecution',
         stage # "idle", UNCHANGED << config, calls >>,
         NEW e \in LogEntry,
         e = [ admissible |-> Admissible(config, Call),
               executions |-> Cardinality(SentAt(Current)'),
               status     |-> answers'[Current].status ],
         \A c \in DOMAIN calls \ {Current} :
           SentAt(c)' = SentAt(c) /\ answers'[c].status = answers[c].status
  PROVE  CallLog' = [CallLog EXCEPT ![Len(CallLog)] = e]
<1>0. LogOK /\ LogOK'
  BY LogShape, LogShapeAfter
<1>1. /\ CallLog \in Seq(LogEntry) /\ CallLog' \in Seq(LogEntry)
      /\ Len(CallLog) = Current /\ Len(CallLog') = Current
      /\ Current \in 1 .. Len(CallLog)
  BY <1>0, CallInProgress DEF Current, LogOK
<1>2. DOMAIN calls = 1 .. Len(calls) /\ Len(calls) = Current /\ Current' = Current
  BY Histories DEF Current
<1> DEFINE t == [CallLog EXCEPT ![Current] = e]
<1>3. /\ t \in Seq(LogEntry) /\ Len(t) = Current
      /\ \A c \in 1 .. Current : t[c] = IF c = Current THEN e ELSE CallLog[c]
  BY <1>1, ExceptSeq
<1>4. \A c \in 1 .. Current : CallLog'[c] = IF c = Current THEN e ELSE CallLog[c]
  <2>1. SUFFICES ASSUME NEW c \in 1 .. Current
                 PROVE  CallLog'[c] = IF c = Current THEN e ELSE CallLog[c]
    OBVIOUS
  <2>2. /\ CallLog[c] = [ admissible |-> Admissible(config, calls[c]),
                           executions |-> Cardinality(SentAt(c)),
                           status     |-> answers[c].status ]
        /\ CallLog'[c] = [ admissible |-> Admissible(config, calls[c]),
                            executions |-> Cardinality(SentAt(c)'),
                            status     |-> answers'[c].status ]
    BY <1>0, <1>2, <2>1 DEF LogOK
  <2>3. CASE c = Current
    <3>1. SentAt(c)' = SentAt(Current)'
      BY <1>2, <2>3 DEF SentAt
    <3> QED
      BY <2>2, <2>3, <3>1 DEF Call
  <2>4. CASE c # Current
    BY <1>2, <2>1, <2>2, <2>4
  <2> QED
    BY <2>3, <2>4
<1> HIDE DEF t
<1>5. CallLog' = t
  BY <1>1, <1>3, <1>4, SeqEqual
<1> QED
  BY <1>1, <1>5 DEF t

\* The last entry while a call is in progress.
LEMMA LogOfCall ==
  ASSUME TypeOK, StageFacts, OpenFacts, AtMostOneExecution, stage # "idle"
  PROVE  /\ Contract!IsOpen
         /\ Contract!Last = [ admissible |-> Admissible(config, Call),
                              executions |-> Cardinality(SentAt(Current)),
                              status     |-> "open" ]
         /\ Contract!Last \in LogEntry
<1>1. Current \in 1 .. Len(calls) /\ Current \in DOMAIN answers
        /\ Len(CallLog) = Current /\ CallLog \in Seq(LogEntry)
  BY CallInProgress, LogShape DEF Current, LogOK
<1>2. answers[Current].status = "open"
  BY <1>1 DEF OpenFacts
<1>3. Contract!Last = [ admissible |-> Admissible(config, Call),
                        executions |-> Cardinality(SentAt(Current)),
                        status     |-> "open" ]
  BY <1>1, <1>2, LogShape DEF Contract!Last, Call, LogOK
<1>4. Contract!Last \in LogEntry
  BY <1>1, ElementOfSeq DEF Contract!Last
<1>5. CallLog # << >>
  BY <1>1, EmptySeq
<1> QED
  BY <1>3, <1>4, <1>5 DEF Contract!IsOpen

\* Every step of the pipeline is one of the contract, or none.
LEMMA ContractStep ==
  ASSUME HistoryInv, TypeOK', AtMostOneExecution', [Next]_vars
  PROVE  [Contract!ContractNext]_CallLog
<1>1. /\ TypeOK /\ StageFacts /\ OpenFacts /\ SentFacts /\ AtMostOneExecution
  BY DEF HistoryInv, PipelineInv
<1>2. DOMAIN calls = 1 .. Len(calls) /\ DOMAIN answers = 1 .. Len(calls)
        /\ Len(calls) \in Nat
  BY <1>1, Histories
<1>0. LogOK /\ LogOK'
  BY <1>1, LogShape, LogShapeAfter
<1>3. ASSUME NEW r \in Requests, Receive(r) PROVE Contract!ContractNext
  <2> DEFINE e == [ admissible |-> Admissible(config, r), executions |-> 0,
                    status |-> "open" ]
             t == Append(CallLog, e)
  <2>1. e \in LogEntry
    BY DEF LogEntry, Admissible
  <2>2. /\ Current' = Len(calls) + 1 /\ Len(calls') = Len(calls) + 1
        /\ calls'[Len(calls) + 1] = r /\ answers'[Len(calls) + 1] = Open
        /\ \A c \in 1 .. Len(calls) : calls'[c] = calls[c] /\ answers'[c] = answers[c]
        /\ SentAt(Len(calls) + 1) = {} /\ UNCHANGED << config, sent >>
    BY <1>1, <1>2, <1>3, ReceivedCall DEF Current
  <2>3. \A c : SentAt(c)' = SentAt(c)
    BY <2>2 DEF SentAt
  <2> HIDE DEF e
  <2>4. /\ t \in Seq(LogEntry) /\ Len(t) = Len(calls) + 1
        /\ t[Len(calls) + 1] = e /\ \A c \in 1 .. Len(calls) : t[c] = CallLog[c]
    BY <1>0, <2>1, AppendProperties DEF LogOK
  <2>5. \A c \in 1 .. Len(calls) + 1 : CallLog'[c] = t[c]
    <3>1. ASSUME NEW c \in 1 .. Len(calls) PROVE CallLog'[c] = t[c]
      BY <1>0, <1>2, <2>2, <2>3, <2>4 DEF LogOK
    <3>2. CallLog'[Len(calls) + 1] = e
      <4>1. PICK n : n = Len(calls) + 1
        OBVIOUS
      <4>2. n \in 1 .. Len(calls')
        BY <1>2, <2>2, <4>1
      <4>3. SentAt(n)' = {}
        BY <2>2, <2>3, <4>1
      <4>4. Cardinality(SentAt(n)') = 0
        BY <4>3, FS_EmptySet
      <4>5. answers'[n].status = "open" /\ calls'[n] = r /\ config' = config
        BY <2>2, <4>1 DEF Open
      <4>6. CallLog'[n] = [ admissible |-> Admissible(config', calls'[n]),
                            executions |-> Cardinality(SentAt(n)'),
                            status     |-> answers'[n].status ]
        BY <1>0, <4>2 DEF LogOK
      <4> QED
        BY <4>1, <4>4, <4>5, <4>6 DEF e
    <3> QED
      BY <1>2, <2>4, <3>1, <3>2
  <2>6. CallLog' \in Seq(LogEntry) /\ Len(CallLog') = Len(calls) + 1
    BY <1>0, <2>2 DEF LogOK
  <2> HIDE DEF t
  <2>7. CallLog' = t
    BY <2>4, <2>5, <2>6, SeqEqual
  <2>8. ~Contract!IsOpen
    <3>1. SUFFICES ASSUME CallLog # << >> PROVE Contract!Last.status # "open"
      BY DEF Contract!IsOpen
    <3>2. Len(calls) \in 1 .. Len(calls)
      BY <1>0, <1>2, <3>1, EmptySeq DEF LogOK
    <3>3. answers[Len(calls)].status # "open"
      BY <1>1, <1>2, <1>3, <3>2 DEF OpenFacts, Receive
    <3>4. CallLog[Len(calls)] =
              [ admissible |-> Admissible(config, calls[Len(calls)]),
                executions |-> Cardinality(SentAt(Len(calls))),
                status     |-> answers[Len(calls)].status ]
      BY <1>0, <3>2 DEF LogOK
    <3>5. Contract!Last = CallLog[Len(calls)]
      BY <1>0 DEF Contract!Last, LogOK
    <3> QED
      BY <3>3, <3>4, <3>5
  <2>9. Admissible(config, r) \in BOOLEAN
    BY DEF Admissible
  <2>10. Contract!Begin(Admissible(config, r))
    BY <2>7, <2>8 DEF Contract!Begin, t, e
  <2> QED
    BY <2>9, <2>10 DEF Contract!ContractNext
<1>4. CASE Working \/ BackendReplies \/ AuditSuccess \/ AuditFailure
  <2>1. UNCHANGED << config, calls, answers >>
    BY <1>4, WorkingStep DEF BackendReplies, AuditSuccess, AuditFailure
  <2>2. \A c : SentAt(c)' = SentAt(c)
    <3>1. CASE BackendReplies
      BY <1>1, <3>1, RepliedStatement DEF SentAt
    <3>2. CASE Working \/ AuditSuccess \/ AuditFailure
      BY <3>2, WorkingStep DEF SentAt, AuditSuccess, AuditFailure
    <3> QED
      BY <1>4, <3>1, <3>2
  <2> QED
    BY <1>1, <2>1, <2>2, LogKept
<1>5. CASE SendStatement
  <2> DEFINE e == [Contract!Last EXCEPT !.executions = 1]
  <2>1. stage \in Approved /\ stage \in Unsent /\ stage # "idle"
          /\ UNCHANGED << config, calls, answers >> /\ Current' = Current
    BY <1>5 DEF SendStatement, Approved, Unsent, Current
  <2>2. SentAt(Current) = {} /\ Cardinality(SentAt(Current)) = 0
    BY <1>1, <2>1, FS_EmptySet DEF SentFacts
  <2>3. SentAt(Current)' = {Len(sent')} /\ Cardinality(SentAt(Current)') = 1
    <3>1. SentAt(Current)' = {Len(sent')}
      BY <1>1, <1>5, <2>1, <2>2, SentStatement DEF SentAt
    <3> QED
      BY <3>1, FS_Singleton
  <2>4. \A c : c # Current => SentAt(c)' = SentAt(c)
    BY <1>1, <1>5, SentStatement DEF SentAt
  <2>5. /\ Contract!IsOpen /\ Contract!Last \in LogEntry
        /\ Contract!Last = [ admissible |-> Admissible(config, Call),
                             executions |-> 0, status |-> "open" ]
    BY <1>1, <2>1, <2>2, LogOfCall
  <2>6. Admissible(config, Call)
    BY <1>1, <2>1, CallApproved
  <2>7. answers'[Current].status = "open"
    BY <1>1, <2>1, CallInProgress DEF OpenFacts
  <2>8. e \in LogEntry
    BY <2>5 DEF LogEntry
  <2>9. e = [ admissible |-> Admissible(config, Call),
              executions |-> Cardinality(SentAt(Current)'),
              status     |-> answers'[Current].status ]
    BY <2>3, <2>5, <2>7
  <2> HIDE DEF e
  <2>10. CallLog' = [CallLog EXCEPT ![Len(CallLog)] = e]
    BY <1>1, <2>1, <2>4, <2>8, <2>9, LogChanged
  <2>11. Contract!Last.executions = 0 /\ Contract!Last.admissible
    BY <2>5, <2>6
  <2> QED
    BY <2>5, <2>10, <2>11
       DEF e, Contract!ContractNext, Contract!Execute, Contract!SetLast
<1>6. CASE Closing
  <2> DEFINE status == answers'[Current].status
             e == [Contract!Last EXCEPT !.status = status]
  <2>1. /\ stage # "idle" /\ UNCHANGED << config, calls, sent >>
        /\ status \in {"ok", "error", "lost"}
        /\ \A c \in DOMAIN answers \ {Current} : answers'[c] = answers[c]
    BY <1>1, <1>6, ClosingStep
  <2>2. \A c : SentAt(c)' = SentAt(c)
    BY <2>1 DEF SentAt
  <2>3. SentAt(Current)' = SentAt(Current)
    BY <2>1 DEF SentAt, Current
  <2>4. /\ Contract!IsOpen /\ Contract!Last \in LogEntry
        /\ Contract!Last = [ admissible |-> Admissible(config, Call),
                             executions |-> Cardinality(SentAt(Current)),
                             status |-> "open" ]
    BY <1>1, <2>1, LogOfCall
  <2> HIDE DEF status
  <2>5. e \in LogEntry
    BY <2>1, <2>4 DEF LogEntry
  <2>6. e = [ admissible |-> Admissible(config, Call),
              executions |-> Cardinality(SentAt(Current)'),
              status     |-> status ]
    BY <2>3, <2>4
  <2> HIDE DEF e
  <2>7. CallLog' = [CallLog EXCEPT ![Len(CallLog)] = e]
    BY <1>1, <1>2, <2>1, <2>2, <2>5, <2>6, LogChanged DEF status
  <2>8. Contract!SetLast([Contract!Last EXCEPT !.status = status])
    BY <2>7 DEF e, Contract!SetLast
  <2>9. CASE status = "ok"
    <3>1. stage = "returning"
      <4>1. CASE Return
        BY <4>1 DEF Return
      <4>2. CASE RaiseToCaller \/ ToolAuditsFailure \/ Crash
        BY <1>1, <2>1, <2>9, <4>2, AnsweredCall
           DEF status, RaiseToCaller, ToolAuditsFailure, Crash, Failed, Lost
      <4> QED
        BY <1>6, <4>1, <4>2 DEF Closing
    <3>2. Len(sent) \in SentAt(Current)
      BY <1>1, <3>1, StatementInProgress DEF SentFacts, Executed, SentAt
    <3>3. Contract!Last.executions = 1
      BY <1>1, <2>4, <3>2, Executions
    <3> QED
      BY <2>4, <2>8, <2>9, <3>3
         DEF Contract!ContractNext, Contract!Close, Contract!Succeed
  <2>10. CASE status \in {"error", "lost"}
    BY <2>4, <2>8, <2>10 DEF Contract!ContractNext, Contract!Close, Contract!End
  <2> QED
    BY <2>1, <2>9, <2>10
<1>7. CASE UNCHANGED vars
  BY <1>7 DEF vars, CallLog, SentAt
<1> QED
  BY <1>3, <1>4, <1>5, <1>6, <1>7, Steps

\* The pipeline implements the safety part of its callers' contract.
THEOREM MeetsContractSafety == Spec => Contract!ContractSafety
<1>1. Init => Contract!ContractInit
  <2> SUFFICES ASSUME Init PROVE CallLog = << >>
    BY DEF Contract!ContractInit
  <2>1. TypeOK /\ AtMostOneExecution /\ Len(calls) = 0
    BY InitInv DEF PipelineInv, Init, AtMostOneExecution
  <2> QED
    BY <2>1, LogShape, EmptySeq DEF LogOK
<1>2. HistoryInv /\ HistoryInv' /\ [Next]_vars => [Contract!ContractNext]_CallLog
  BY ContractStep DEF HistoryInv, PipelineInv
<1> QED
  BY HistoryInvariant, <1>1, <1>2, PTL DEF Spec, Contract!ContractSafety
------------------------------------------------------------------------------
\* The phases of the registry and the adapters.

\* The sequence of the calls whose statements were sent.
SentByOK ==
  /\ SentBy \in Seq(Nat) /\ Len(SentBy) = Len(sent)
  /\ \A i \in 1 .. Len(sent) : SentBy[i] = sent[i].call

\* It has the call of each statement in its place.
LEMMA SentByIs == TypeOK => SentByOK
<1> SUFFICES ASSUME TypeOK PROVE SentByOK
  OBVIOUS
<1>1. /\ Len(sent) \in Nat /\ DOMAIN sent = 1 .. Len(sent) /\ DOMAIN calls = 1 .. Len(calls)
      /\ \A i \in DOMAIN sent : sent[i].call \in DOMAIN calls
  BY Histories
<1>2. \A i \in 1 .. Len(sent) : sent[i].call \in Nat
  BY <1>1, Histories
<1>3. SentBy \in [1 .. Len(sent) -> Nat]
  BY <1>1, <1>2 DEF SentBy
<1>4. SentBy \in Seq(Nat)
  BY <1>1, <1>3, SeqDef
<1>5. DOMAIN SentBy = 1 .. Len(SentBy) /\ Len(SentBy) \in Nat
  BY <1>4, LenProperties
<1>6. Len(SentBy) = Len(sent)
  BY <1>1, <1>3, <1>5
<1> QED
  BY <1>1, <1>4, <1>6 DEF SentBy, SentByOK

\* The same after a step.
LEMMA SentByAfter == TypeOK' => SentByOK'
BY SentByIs, PTL

\* Sending a statement adds its call to them.
LEMMA SentByGrows ==
  ASSUME TypeOK, TypeOK', SendStatement
  PROVE  SentBy' = Append(SentBy, Len(calls))
<1> DEFINE n == Len(sent)
           m == Len(calls)
           t == Append(SentBy, m)
<1>1. n \in Nat /\ m \in Nat /\ DOMAIN sent = 1 .. n
  BY Histories
<1>2. /\ Len(sent') = n + 1 /\ sent'[n + 1].call = m
      /\ \A i \in 1 .. n : sent'[i].call = sent[i].call
  BY <1>1, SentStatement DEF Current
<1>3. /\ SentBy \in Seq(Nat) /\ Len(SentBy) = n
      /\ \A i \in 1 .. n : SentBy[i] = sent[i].call
  BY SentByIs DEF SentByOK
<1>4. /\ SentBy' \in Seq(Nat) /\ Len(SentBy') = n + 1
      /\ \A i \in 1 .. n + 1 : SentBy'[i] = sent'[i].call
  BY <1>2, SentByAfter DEF SentByOK
<1>5. /\ t \in Seq(Nat) /\ Len(t) = n + 1 /\ t[n + 1] = m
      /\ \A i \in 1 .. n : t[i] = sent[i].call
  BY <1>1, <1>3, AppendProperties
<1> HIDE DEF n, m, t
<1>6. \A i \in 1 .. n + 1 : SentBy'[i] = t[i]
  BY <1>1, <1>2, <1>4, <1>5
<1> QED
  BY <1>4, <1>5, <1>6, SeqEqual DEF t, m

\* A call whose backend has replied fails after a reply, any other without one.
LEMMA FailingPhase ==
  ASSUME TypeOK, StageFacts, SentFacts, AtMostOneExecution, UNCHANGED << calls, sent >>,
         stage' = "failing",
         stage \in Unsent \cup {"executing", "normalizing"}
  PROVE  PhaseNow' = IF stage = "normalizing" THEN "replied" ELSE "failed"
<1>1. SentAt(Current)' = SentAt(Current) /\ Current' = Current /\ sent' = sent
  BY DEF SentAt, Current
<1>2. CASE stage \in Unsent
  <2>1. SentAt(Current) = {} /\ stage # "normalizing"
    BY <1>2 DEF SentFacts, Unsent
  <2> QED
    BY <1>1, <2>1 DEF PhaseNow
<1>3. CASE stage \in {"executing", "normalizing"}
  <2>1. Len(sent) \in SentAt(Current)
    BY <1>3, StatementInProgress DEF SentFacts, SentAt, Executed
  <2>2. \A i \in SentAt(Current) : i = Len(sent)
    BY <2>1 DEF SentAt, AtMostOneExecution
  <2>3. CASE stage = "executing"
    <3>1. sent[Len(sent)].reply = None
      BY <2>3 DEF SentFacts
    <3> QED
      BY <1>1, <2>2, <2>3, <3>1 DEF PhaseNow
  <2>4. CASE stage = "normalizing"
    <3>1. sent[Len(sent)].reply # None
      BY <2>4, StatementInProgress, NoneAssumption DEF Executed
    <3> QED
      BY <1>1, <2>1, <2>4, <3>1 DEF PhaseNow
  <2> QED
    BY <1>3, <2>3, <2>4
<1> QED
  BY <1>2, <1>3

\* Every step is one of the phases' or leaves them as they are.
LEMMA PhasesStep ==
  ASSUME TypeOK, StageFacts, SentFacts, AtMostOneExecution, TypeOK', [Next]_vars
  PROVE  [Phases!PhasesNext]_(Phases!phasesVars)
<1> USE DEF Phases!PhasesNext, Phases!phasesVars, Phases!Move
<1>1. ASSUME NEW r \in Requests, Receive(r) PROVE Phases!Begin
  <2>1. Len(calls') = Len(calls) + 1 /\ UNCHANGED sent
    BY <1>1, ReceivedCall DEF Current
  <2>2. stage = "idle" /\ stage' = "validating"
    BY <1>1 DEF Receive
  <2> QED
    BY <2>1, <2>2 DEF PhaseNow, SentBy, Phases!Begin
<1>2. ASSUME UNCHANGED sent PROVE UNCHANGED SentBy
  BY <1>2 DEF SentBy
<1>3. CASE \/ ValidationRefuses \/ (ResolveSecrets /\ stage' = "failing") \/ BuildFails
           \/ ConnectFails \/ BackendRaises \/ NormalizeFails
  <2>1. /\ stage' = "failing" /\ UNCHANGED << calls, sent >>
        /\ stage \in { "validating", "resolving", "building", "connecting",
                        "executing", "normalizing" }
    BY <1>3 DEF ValidationRefuses, ResolveSecrets, BuildFails, ConnectFails,
                BackendRaises, NormalizeFails, Fail
  <2>2. PhaseNow' = IF stage = "normalizing" THEN "replied" ELSE "failed"
    BY <2>1, FailingPhase DEF Unsent
  <2> QED
    BY <1>2, <2>1, <2>2
       DEF PhaseNow, Phases!ResolveSecrets, Phases!BuildFails, Phases!ConnectFails,
           Phases!BackendRaises
<1>4. CASE \/ ValidationPasses \/ (ResolveSecrets /\ stage' = "building")
           \/ BuildAdapter \/ Normalize \/ AuditSuccess
  <2>1. /\ UNCHANGED << calls, sent >>
        /\ \/ stage = "validating" /\ stage' = "resolving"
           \/ stage = "resolving" /\ stage' = "building"
           \/ stage = "building" /\ stage' = "connecting"
           \/ stage = "normalizing" /\ stage' = "auditing"
           \/ stage = "auditing" /\ stage' = "returning"
    BY <1>4 DEF ValidationPasses, ResolveSecrets, BuildAdapter, Normalize, AuditSuccess
  <2> QED
    BY <1>2, <2>1 DEF PhaseNow, Phases!ResolveSecrets, Phases!BuildAdapter
<1>5. CASE ResolveSecrets
  <2>1. stage' \in {"failing", "building"}
    BY <1>5 DEF ResolveSecrets, Fail
  <2> QED
    BY <1>3, <1>4, <1>5, <2>1
<1>6. CASE SendStatement
  <2>1. stage = "connecting" /\ stage' = "executing" /\ UNCHANGED calls
    BY <1>6 DEF SendStatement
  <2> QED
    BY <1>6, <2>1, SentByGrows DEF PhaseNow, Phases!SendStatement
<1>7. CASE BackendReplies
  <2>1. stage = "executing" /\ stage' = "normalizing" /\ UNCHANGED calls
    BY <1>7 DEF BackendReplies
  <2>2. UNCHANGED SentBy
    BY <1>7, RepliedStatement DEF SentBy
  <2> QED
    BY <2>1, <2>2 DEF PhaseNow, Phases!BackendReplies
<1>8. CASE AuditFailure
  <2>1. stage = "failing" /\ stage' = "raising" /\ UNCHANGED << calls, sent >>
    BY <1>8 DEF AuditFailure
  <2>2. SentAt(Current)' = SentAt(Current) /\ sent' = sent
    BY <2>1 DEF SentAt, Current
  <2> QED
    BY <1>2, <2>1, <2>2 DEF PhaseNow
<1>9. CASE Closing
  <2>1. UNCHANGED << calls, sent >> /\ stage # "idle" /\ stage' = "idle"
    BY <1>9, ClosingStep
  <2>2. PhaseNow' = "idle"
    BY <2>1 DEF PhaseNow
  <2>3. CASE Crash
    <3>1. PhaseNow # "idle"
      BY <2>1 DEF PhaseNow, TypeOK, Stage
    <3> QED
      BY <1>2, <2>1, <2>2, <3>1 DEF Phases!Crash
  <2>4. CASE Return \/ RaiseToCaller \/ ToolAuditsFailure
    <3>1. stage \in {"returning", "raising"}
      BY <2>4 DEF Return, RaiseToCaller, ToolAuditsFailure
    <3>2. PhaseNow \in {"replied", "failed"}
      BY <3>1 DEF PhaseNow
    <3> QED
      BY <1>2, <2>1, <2>2, <3>2 DEF Phases!End
  <2> QED
    BY <1>9, <2>3, <2>4 DEF Closing
<1>10. CASE UNCHANGED vars
  <2>1. UNCHANGED << calls, sent, stage, PhaseNow >>
    BY <1>10 DEF vars, PhaseNow, SentAt, Current
  <2> QED
    BY <1>2, <2>1
<1> QED
  BY <1>1, <1>3, <1>4, <1>5, <1>6, <1>7, <1>8, <1>9, <1>10, Steps DEF Working

\* The pipeline goes through the phases that the registry and the adapters are
\* shown to go through (AdapterProofs!MeetsPhasesSafety), and through no others.
THEOREM PipelineMeetsPhases == Spec => Phases!PhasesSafety
<1>1. Init => Phases!PhasesInit
  BY DEF Init, Phases!PhasesInit, PhaseNow, SentBy
<1>2. HistoryInv /\ HistoryInv' /\ [Next]_vars =>
        [Phases!PhasesNext]_(Phases!phasesVars)
  BY PhasesStep DEF HistoryInv, PipelineInv
<1> QED
  BY HistoryInvariant, <1>1, <1>2, PTL DEF Spec, Phases!PhasesSafety
=============================================================================
