------------------------------- MODULE SqlPolicy -------------------------------
(***************************************************************************)
(* What the safety package decides about a query request, as pure          *)
(* operators: classification of parsed statements (sql_parser.py), the     *)
(* policy decision (policies.py), the limits (limits.py), and the order in *)
(* which ValidationService applies them.                                   *)
(*                                                                         *)
(* sqlglot is outside src/.  A SQL text is a member of Texts and sqlglot   *)
(* is the function Parsed: the nodes it returns for a text, <<>> for a     *)
(* text with nothing in it, ParseError where it raises.  A node keeps the  *)
(* two things classify_statement looks at, its class and, for exp.Command, *)
(* its leading keyword, and one it does not see: whether executing the     *)
(* statement changes data, schema or permissions.                          *)
(***************************************************************************)
EXTENDS Integers, Sequences, ErrorModel

CONSTANTS None,        \* Python's None
          Texts,       \* SQL texts, up to surrounding white space
          ParseError,  \* sqlglot raised
          Parsed       \* Texts -> sequences of nodes, or ParseError

PermissionMode   == {"readonly", "full"}
SqlStatementKind == {"readonly", "destructive", "explain_like", "other"}
PolicyReason     == { "multi_statement_not_allowed", "destructive_sql_blocked",
                      "full_permission_required", "read_only_connection" }
Limit            == {"timeout_ms", "max_rows", "max_bytes"}

Node == [type : STRING, command : STRING, changes : BOOLEAN]

ReadOnlyTypes    == { "Select", "Union", "Intersect", "Except", "Values",
                      "Describe", "Show", "Explain" }
DestructiveTypes == { "Insert", "Update", "Delete", "Merge", "Create",
                      "Alter", "Drop", "Truncate" }
ExplainLikeTypes == { "Explain", "Describe", "Show" }
ExplainCommands     == { "EXPLAIN", "DESCRIBE", "DESC", "SHOW" }
DestructiveCommands == { "INSERT", "UPDATE", "DELETE", "MERGE", "CREATE",
                         "ALTER", "DROP", "TRUNCATE" }

\* The parts of the configuration the safety package reads (config/models.py).
Defaults   == [ permission_mode : PermissionMode,
                limits : [Limit -> Int],
                allow_multiple_statements : BOOLEAN,
                block_destructive_sql : BOOLEAN ]
Connection == [ type : {"sqlserver", "snowflake", "databricks"},
                read_only : BOOLEAN, allow_full_permissions : BOOLEAN ]

\* QueryOptions (models/query.py): every field may be absent.
QueryOptions == [ permission_mode : PermissionMode \cup {None},
                  limits : [Limit -> Int \cup {None}],
                  allow_multiple_statements : BOOLEAN \cup {None} ]

\* `value if value is not None else default`
Given(value, default) == IF value = None THEN default ELSE value

------------------------------------------------------------------------------
\* Statement classification.

is_type(node, types, commands) ==
  \/ node.type \in types
  \/ node.type = "Command" /\ node.command \in commands

classify_statement(node) ==
  IF is_type(node, DestructiveTypes, DestructiveCommands) THEN "destructive"
  ELSE IF is_type(node, ExplainLikeTypes, ExplainCommands) THEN "explain_like"
  ELSE IF node.type \in ReadOnlyTypes THEN "readonly"
  ELSE "other"

\* Mutant: only the first statement of a batch is classified.
statement_kinds_first_only(text) ==
  [i \in DOMAIN Parsed[text] |-> classify_statement(Parsed[text][1])]

statement_kinds(text) ==
  [i \in DOMAIN Parsed[text] |-> classify_statement(Parsed[text][i])]

parses(text) == Parsed[text] # ParseError /\ Parsed[text] # <<>>

\* SqlAnalysis: what the policy reads of it.
parse_sql(text) ==
  LET kinds == statement_kinds(text)
  IN  [ is_single_statement |-> Len(kinds) = 1,
        has_destructive |-> \E i \in DOMAIN kinds : kinds[i] = "destructive" ]

------------------------------------------------------------------------------
\* The policy decision.

\* Mutant: a read-only connection refuses every mode.
full_mode_refusal_any_mode(mode, connection) ==
  IF mode = "full" /\ ~connection.allow_full_permissions
    THEN "full_permission_required"
  ELSE IF connection.read_only THEN "read_only_connection"
  ELSE None

\* The two gates of full mode, shared by queries and metadata requests.
full_mode_refusal(mode, connection) ==
  IF mode = "full" /\ ~connection.allow_full_permissions
    THEN "full_permission_required"
  ELSE IF mode = "full" /\ connection.read_only THEN "read_only_connection"
  ELSE None

\* Reason to refuse an analysed text, None when the policy allows it.
refusal_reason(analysis, connection, mode, allow_multiple, block_destructive) ==
  IF ~analysis.is_single_statement /\ ~allow_multiple
    THEN "multi_statement_not_allowed"
  ELSE IF analysis.has_destructive /\ (mode = "readonly" \/ block_destructive)
    THEN "destructive_sql_blocked"
  ELSE full_mode_refusal(mode, connection)

\* ValidationService passes the permission mode of the request and nothing
\* else: multi-statement and destructive rules come from the defaults.
evaluate_analysis(analysis, connection, defaults, request_mode) ==
  LET mode   == Given(request_mode, defaults.permission_mode)
      reason == refusal_reason(analysis, connection, mode,
                               defaults.allow_multiple_statements,
                               defaults.block_destructive_sql)
  IN  [ allowed |-> reason = None,
        reason  |-> reason,
        permission_mode |-> mode,
        allow_multiple_statements |-> defaults.allow_multiple_statements ]

evaluate_metadata_request(connection, defaults, request_mode) ==
  LET mode   == Given(request_mode, defaults.permission_mode)
      reason == full_mode_refusal(mode, connection)
  IN  [allowed |-> reason = None, reason |-> reason, permission_mode |-> mode]

------------------------------------------------------------------------------
\* Limits.

resolve_query_limits(defaults, options) ==
  [l \in Limit |-> Given(options.limits[l], defaults.limits[l])]

\* The first non-positive limit raises a ValueError that names it; the text
\* "timeout_ms must be a positive integer" contains the word "timeout".
limits_error(limits) ==
  IF limits["timeout_ms"] <= 0 THEN Raw({"QUERY_TIMEOUT"})
  ELSE IF limits["max_rows"] <= 0 \/ limits["max_bytes"] <= 0 THEN Raw({})
  ELSE None
==============================================================================
