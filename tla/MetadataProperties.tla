--------------------------- MODULE MetadataProperties ---------------------------
(***************************************************************************)
(* What the metadata tools have to guarantee, and what a document says of  *)
(* them that the code does not do.                                         *)
(***************************************************************************)
EXTENDS MetadataTools

\* Where a call's events are in the log, and the statements it has tried.
AuditedAt(c) == { k \in DOMAIN audit : audit[k].call = c }
TriedBy(c)   == { i \in DOMAIN tried : tried[i].call = c }

\* Types of the state.
Instructions == [do : {"open", "close"}]
  \cup [ do : {"ask"}, what : {"name", "schemas", "tables", "table", "columns", "keys"},
         source : {"server", "system", "session", "catalog", "show"} ]

TriedRecord(n) ==
  [ call : 1 .. n,
    what : {"name", "schemas", "tables", "table", "columns", "keys"},
    source : {"server", "system", "session", "catalog", "show"},
    outcome : RowCounts \cup {None} ]
EventRecord(n) == [ call : 1 .. n, status : {"success", "failure"},
                    code : ErrorCode \cup {None}, ok : BOOLEAN ]
AnswerRecord   == [ status : {"open", "ok", "error", "lost"},
                    code : ErrorCode \cup {None}, rows : Nat \cup {None} ]

\* Of the call in progress, and of the plan its adapter follows.
CallTypes ==
  /\ config \in Configs
  /\ stage \in Stage
  /\ calls \in Seq(Requests)
  /\ rows \in Nat \cup {None}
  /\ error \in DbMcpError \cup RawError \cup {None}
  /\ touched \subseteq DOMAIN calls
  /\ audit \in Seq(EventRecord(Len(calls)))
  /\ answers \in Seq(AnswerRecord)
  /\ Len(answers) = Len(calls)

PlanTypes ==
  /\ plan \in Seq(Seq(Seq(Instructions)))
  /\ held \in Nat
  /\ tried \in Seq(TriedRecord(Len(calls)))

MetadataTypeOK == CallTypes /\ PlanTypes
------------------------------------------------------------------------------
\* May a request be served?  Full mode, asked for or by default, needs a
\* connection that allows it; describe_table needs names.
Mode(r) ==
  IF r.permission_mode = None \/ r.tool = "test_connection"
  THEN config.defaults.permission_mode ELSE r.permission_mode

Known(r) == r.connection_name \in DOMAIN config.connections

Permitted(r) ==
  LET connection == config.connections[r.connection_name]
  IN  Mode(r) = "full" =>
        connection.allow_full_permissions /\ ~connection.read_only

Named(r) == r.tool = "describe_table" => r.schema # "" /\ r.catalog # ""

\* A refused metadata request reads no secret and asks no backend anything:
\* the tools validate before MetadataService looks for an adapter.
RefusedRequestsTouchNothing ==
  \A c \in touched \cup {tried[i].call : i \in DOMAIN tried} :
    /\ c \in touched
    /\ Known(calls[c]) /\ Permitted(calls[c]) /\ Named(calls[c])

\* The code of an error tells a refusal from a missing secret.  The latter is
\* BACKEND_ERROR for every tool but test_connection, which says whether the
\* password is missing.
StableCode(r, code) ==
  LET unset == config.unset[r.connection_name]
  IN  /\ ~Known(r) => code = "UNKNOWN_CONNECTION"
      /\ Known(r) /\ ~Permitted(r) => code = "QUERY_BLOCKED"
      /\ Known(r) /\ Permitted(r) /\ Named(r) /\ unset # "nothing" =>
           code = (IF r.tool # "test_connection" THEN "BACKEND_ERROR"
                   ELSE IF unset = "password" THEN "AUTH_FAILED"
                   ELSE "CONNECTION_FAILED")

FailureCodesAreStable ==
  \A c \in DOMAIN answers :
    answers[c].status = "error" => StableCode(calls[c], answers[c].code)

\* One audit event per answered call, by the tool alone, with the caller's
\* code; a test that failed without an exception is a success with ok=False.
EventAgreesWithAnswer ==
  \A c \in DOMAIN answers :
    LET a == answers[c]
    IN  a.status \in {"ok", "error"} =>
          \E k \in DOMAIN audit :
            /\ AuditedAt(c) = {k}
            /\ audit[k] =
                 IF a.status = "ok"
                 THEN [ call |-> c, status |-> "success", code |-> None,
                        ok |-> a.rows # None ]
                 ELSE [ call |-> c, status |-> "failure", code |-> a.code,
                        ok |-> FALSE ]

\* The statements that make up a listing.  On Databricks the tables of a catalog
\* are those of the schemas which SHOW SCHEMAS has named.
Listing        == {"list_schemas", "list_tables", "describe_table"}
Relevant(tool) == {Kept(tool)} \cup IF tool = "list_tables" THEN {"schemas"} ELSE {}

Mine(c)         == { i \in TriedBy(c) : tried[i].what \in Relevant(calls[c].tool) }
Used(c, source) == { i \in Mine(c) : /\ tried[i].source = source
                                     /\ tried[i].what = Kept(calls[c].tool) }

\* (A recursive function: the folds of the library cannot be reasoned about.)
Total(seq) ==
  LET t[i \in 0 .. Len(seq)] == IF i = 0 THEN 0 ELSE t[i - 1] + seq[i]
  IN  t[Len(seq)]

RowsOf(seq, used) ==
  Total([i \in DOMAIN seq |-> IF i \in used THEN seq[i].outcome ELSE 0])

\* What was asked before that source had failed, nothing was asked after it, and
\* nothing it was asked has failed; every schema it named was shown.
CameFrom(c, source) ==
  \A i \in Mine(c) :
    /\ tried[i].source = source <=> tried[i].outcome # None
    /\ tried[i].source = source =>
         \A j \in Mine(c) : i < j => tried[j].source = source
    /\ tried[i].outcome # None /\ tried[i].what # Kept(calls[c].tool) =>
         tried[i].outcome = Cardinality(Used(c, source))

\* A listing comes whole and from one source, the last that was asked: its rows
\* are those of all its statements, and nothing that sources before it had
\* delivered is mixed in.
ListingsAreWhole ==
  \A c \in DOMAIN answers :
    answers[c].status = "ok" /\ calls[c].tool \in Listing =>
      \E source \in { tried[i].source : i \in Mine(c) } :
        CameFrom(c, source) /\ answers[c].rows = RowsOf(tried, Used(c, source))

\* The sources Databricks is asked for a listing, in their order.
CatalogOf(r) ==
  LET home == config.home[r.connection_name]
  IN  IF r.tool = "list_schemas" THEN home.catalog ELSE Or(r.catalog, home.catalog)

FailedAt(c, source) ==
  \E i \in TriedBy(c) : tried[i].source = source /\ tried[i].outcome = None

\* A listing on Databricks fails only when SHOW has failed too, and SHOW is
\* asked only when each information schema has failed.
SourcesAreExhausted ==
  \A c \in touched :
    LET sources == metadata_sources(CatalogOf(calls[c]))
    IN  /\ calls[c].tool \in {"list_schemas", "list_tables"}
        /\ config.connections[calls[c].connection_name].type = "databricks"
        => /\ answers[c].status = "error" /\ TriedBy(c) # {} => FailedAt(c, "show")
           /\ (\E i \in TriedBy(c) : tried[i].source = "show") =>
                \A i \in DOMAIN sources : FailedAt(c, sources[i])

\* test_connection says ok only if the backend has answered on an opened
\* connection; where it has not, the SQLAlchemy adapters answer ok=False and
\* Databricks raises.
TestsTellTheTruth ==
  \A c \in DOMAIN answers :
    LET reached == \E i \in TriedBy(c) : tried[i].outcome # None
    IN  calls[c].tool = "test_connection" /\ answers[c].status = "ok" =>
          /\ answers[c].rows # None <=> reached
          /\ ~reached => config.connections[calls[c].connection_name].type
                           # "databricks"

\* No connection stays open when a call ends or falls back, whatever failed in
\* it; SQL Server needs at most two at once, the others one.
ConnectionsComeBack ==
  /\ stage # "asking" => held = 0
  /\ stage = "asking" =>
       held <= (IF Target.type = "sqlserver" THEN 2 ELSE 1)
  /\ stage = "asking" /\ plan[1][1] = << >> => held = 0

\* A metadata call ends, through however many alternatives, if backends answer.
EveryCallEnds == stage # "idle" ~> stage = "idle"
------------------------------------------------------------------------------
\* Why the first of them hold.

\* What each stage may count on of the call in progress.
CallFacts ==
  /\ stage # "idle" => Current # 0 /\ answers[Current] = Unanswered
  /\ stage \notin {"auditing", "returning"} => rows \in Nat
  /\ stage \in {"resolving", "building", "asking"} =>
       Known(Call) /\ Permitted(Call) /\ Named(Call)
  /\ stage \in {"building", "asking"} =>
       Current \in touched /\ config.unset[Call.connection_name] = "nothing"
  /\ stage = "failing" =>
       error # None /\ StableCode(Call, normalize_exception(error).code)

\* Its event is written when its answer is on the way.
EventFacts ==
  stage # "idle" =>
    IF stage # "returning" THEN AuditedAt(Current) = {}
    ELSE \E k \in DOMAIN audit :
           /\ AuditedAt(Current) = {k}
           /\ audit[k] = [ call |-> Current, status |-> "success", code |-> None,
                           ok |-> rows # None ]

\* Every statement was tried by a call whose secrets were read.
TriedFacts == \A i \in DOMAIN tried : tried[i].call \in touched

\* The inductive invariant.
MetadataInv ==
  /\ CallTypes /\ tried \in Seq({tried[i] : i \in DOMAIN tried})
  /\ CallFacts /\ EventFacts /\ TriedFacts
  /\ RefusedRequestsTouchNothing /\ FailureCodesAreStable /\ EventAgreesWithAnswer
------------------------------------------------------------------------------
\* Why listings are whole and sources exhausted.

\* The sources the call may ask for what it keeps, and the one it is asking.
Chain ==
  IF Target.type # "databricks" THEN << "server" >>
  ELSE metadata_sources(CatalogOf(Call))
         \o IF Call.tool = "describe_table" THEN << >> ELSE << "show" >>
Turn == Len(Chain) - Len(plan[1]) + 1
Now  == Chain[Turn]

Fetching == stage = "asking" /\ Call.tool \in Listing

\* A connection is opened to ask something on it.
IsUseful(s) ==
  \A i \in DOMAIN s :
    s[i].do = "open" => \E j \in DOMAIN s : i < j /\ s[j].do = "ask"

PlanFacts ==
  /\ stage # "asking" => plan = << >>
  /\ stage = "asking" =>
       \A k \in DOMAIN plan : \A j \in DOMAIN plan[k] : IsUseful(plan[k][j])

\* What the k-th task left is about: Databricks describes a table in two.
About(p, k, tool) == IF k < Len(p) THEN "table" ELSE Kept(tool)

\* An alternative that was not tried yet.
ShowSchemas == Query("schemas", "show")

IsFresh(s, what, source) ==
  s = Query(what, source) \/ (source = "show" /\ what = "tables" /\ s = ShowSchemas)

\* What is left of a plan of Databricks, and of the others.
DatabricksShape(p, tool, chain) ==
  /\ Len(p) \in 1 .. IF tool = "describe_table" THEN 2 ELSE 1
  /\ \A k \in DOMAIN p :
       /\ Len(p[k]) \in 1 .. Len(chain)
       /\ k > 1 => Len(p[k]) = Len(chain)
       /\ \A j \in DOMAIN p[k] :
            k > 1 \/ j > 1 =>
              IsFresh(p[k][j], About(p, k, tool), chain[Len(chain) - Len(p[k]) + j])

ServerShape(p, tool) ==
  /\ Len(p) = 1 /\ Len(p[1]) = 1
  /\ \A i \in DOMAIN p[1][1] :
       p[1][1][i].do = "ask" =>
         /\ p[1][1][i].source = "server"
         /\ tool = "list_tables" => p[1][1][i].what # "schemas"

PlanShape ==
  Fetching => IF Target.type = "databricks"
              THEN DatabricksShape(plan, Call.tool, Chain)
              ELSE ServerShape(plan, Call.tool)

\* What was tried for the task in hand: the sources before this one failed, this
\* one did not.
TurnFacts ==
  Fetching =>
    /\ Len(plan) = 2 => Mine(Current) = {}
    /\ \A i \in Mine(Current) :
         /\ \E k \in 1 .. Turn : tried[i].source = Chain[k]
         /\ tried[i].source = Now <=> tried[i].outcome # None
         /\ \A j \in Mine(Current) :
              tried[i].source = Now /\ i < j => tried[j].source = Now
         /\ tried[i].what # Kept(Call.tool) => tried[i].source = "show"
    /\ Len(plan) = 1 => \A k \in 1 .. Turn - 1 : FailedAt(Current, Chain[k])
    /\ rows = RowsOf(tried, Used(Current, Now))

\* The end of one query after the other, and how many statements are in it.
IsQueries(s, what, source) ==
  \A i \in DOMAIN s : s[i] = Query(what, source)[3 - ((Len(s) - i) % 3)]
AsksIn(s) == (Len(s) + 1) \div 3

\* Where the schemas were named whose tables are shown.
NamedAt == { i \in Mine(Current) : /\ tried[i].outcome # None
                                   /\ tried[i].what # Kept(Call.tool) }

\* What is left to ask and what was asked already make up the listing.
LeftFacts ==
  LET left == plan[1][1]
      used == Used(Current, Now)
  IN  Fetching =>
        IF Target.type # "databricks"
        THEN \/ used # {}
             \/ \E i \in DOMAIN left : left[i].do = "ask" /\ left[i].what = Kept(Call.tool)
        ELSE \/ /\ Call.tool = "list_tables" /\ Now = "show"
                /\ left \in {ShowSchemas, Tail(ShowSchemas)}
                /\ \A i \in Mine(Current) : tried[i].source # "show"
             \/ /\ IsQueries(left, About(plan, 1, Call.tool), Now)
                /\ Len(plan) = 1 =>
                     /\ NamedAt = {} => Cardinality(used) + AsksIn(left) = 1
                     /\ \A i \in NamedAt :
                          tried[i].outcome = Cardinality(used) + AsksIn(left)

\* A call that is not asking yet has tried nothing; one that has failed has tried
\* everything, and one that has not has its listing.
OutcomeFacts ==
  /\ stage \in {"idle", "validating", "resolving", "building"} => rows = 0
  /\ stage \in {"validating", "resolving", "building"} => TriedBy(Current) = {}
  /\ stage = "failing" /\ Call.tool \in {"list_schemas", "list_tables"}
     /\ Current \in touched /\ Target.type = "databricks" /\ TriedBy(Current) # {} =>
       \A k \in DOMAIN Chain : FailedAt(Current, Chain[k])
  /\ stage \in {"auditing", "returning"} /\ Call.tool \in Listing =>
       \E source \in { tried[i].source : i \in Mine(Current) } :
         CameFrom(Current, source) /\ rows = RowsOf(tried, Used(Current, source))

\* The inductive invariant.
FetchInv ==
  /\ PlanTypes /\ PlanFacts /\ PlanShape /\ TurnFacts /\ LeftFacts /\ OutcomeFacts
  /\ ListingsAreWhole /\ SourcesAreExhausted
------------------------------------------------------------------------------
\* PLAN.md:152-153 "list_tables: Lists tables/views within a schema": where
\* nothing fails, an admitted list_tables is answered.
TablesAreListed ==
  \A c \in DOMAIN answers :
    calls[c].tool = "list_tables" /\ c \in touched =>
      answers[c].status # "error"
==============================================================================
