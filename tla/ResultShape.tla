------------------------------ MODULE ResultShape ------------------------------
(***************************************************************************)
(* From what a backend returned to what the caller of run_query or         *)
(* explain_query is given: the adapter builds a QueryResult (truncation),  *)
(* QueryService dumps it and builds its own.  Rows and columns are         *)
(* counted, not represented.                                               *)
(***************************************************************************)
EXTENDS SqlPolicy

\* What a driver hands to the adapter: a statement without a result set has
\* no columns.
Reply == [columns : Nat, rows : Nat]

\* ResultWarning, and TruncationWarning which adds the three limit fields.
Warning == [ code : {"truncation"}, limit_type : {"rows", None},
             limit : Int \cup {None}, actual : Nat \cup {None} ]

QueryResult == [ kind : {"result"}, rows : Nat, row_count : Nat,
                 truncated : BOOLEAN, warnings : SUBSET Warning ]

Result(rows, truncated, warnings) ==
  [ kind |-> "result", rows |-> rows, row_count |-> rows,
    truncated |-> truncated, warnings |-> warnings ]

\* SQL Server and Snowflake go through SQLAlchemy, whose CursorResult.keys()
\* raises ResourceClosedError for a statement without a result set.
keys_error(reply) == IF reply.columns = 0 THEN Raw({}) ELSE None

\* pydantic, loading a dumped QueryResult into an ExplainResult: a dumped
\* column holds the computed field display_size, which ColumnInfo forbids.
\* The text of that ValidationError says "extra_forbidden".
reload_error(reply) ==
  IF reply.columns > 0 THEN Raw({"QUERY_BLOCKED"}) ELSE None

------------------------------------------------------------------------------
cuts(rows, max_rows) == max_rows # None /\ max_rows >= 0 /\ rows > max_rows

\* Mutant: rows are cut but the result is not flagged.
build_query_result_silent(reply, max_rows) ==
  IF cuts(reply.rows, max_rows) THEN Result(max_rows, FALSE, {})
                                ELSE Result(reply.rows, FALSE, {})

build_query_result(reply, max_rows) ==
  IF cuts(reply.rows, max_rows)
  THEN Result(max_rows, TRUE,
              {[ code |-> "truncation", limit_type |-> "rows",
                 limit |-> max_rows, actual |-> reply.rows ]})
  ELSE Result(reply.rows, FALSE, {})

\* The SQLAlchemy adapters' run_query.
sqlalchemy_run_query(reply, max_rows) ==
  IF keys_error(reply) # None THEN keys_error(reply)
                              ELSE build_query_result(reply, max_rows)

\* They dump the QueryResult and load the dump into an ExplainResult.
sqlalchemy_explain_query(reply, max_rows) ==
  IF keys_error(reply) # None THEN keys_error(reply)
  ELSE IF reload_error(reply) # None THEN reload_error(reply)
  ELSE build_query_result(reply, max_rows)

\* The TruncationWarning built here lacks the required field message, so a
\* result that has to be cut is a ValidationError.
databricks_run_query(reply, max_rows) ==
  IF cuts(reply.rows, max_rows) THEN Raw({}) ELSE Result(reply.rows, FALSE, {})

\* max_rows is not applied to plans.
databricks_explain_query(reply, max_rows) == Result(reply.rows, FALSE, {})

\* What adapter.run_query / adapter.explain_query returns or raises.
adapter_result(type, tool, reply, max_rows) ==
  CASE type = "databricks" /\ tool = "run_query" ->
         databricks_run_query(reply, max_rows)
    [] type = "databricks" /\ tool # "run_query" ->
         databricks_explain_query(reply, max_rows)
    [] type # "databricks" /\ tool = "run_query" ->
         sqlalchemy_run_query(reply, max_rows)
    [] OTHER -> sqlalchemy_explain_query(reply, max_rows)

------------------------------------------------------------------------------
\* model_dump() writes each warning by the declared type of the list, so the
\* fields TruncationWarning adds are gone; without a limit_type in the dump the
\* service builds a plain ResultWarning.
normalize_warnings(warnings) ==
  { [ code |-> w.code, limit_type |-> None, limit |-> None, actual |-> None ]
      : w \in warnings }

normalize_query_result(r) ==
  [r EXCEPT !.warnings = normalize_warnings(r.warnings)]
==============================================================================
