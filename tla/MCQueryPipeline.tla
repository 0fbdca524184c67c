---------------------------- MODULE MCQueryPipeline ----------------------------
(***************************************************************************)
(* Values of the constants for TLC.  "Policy" is about one call and every  *)
(* way its request and the configuration can disagree; "Fault" is about    *)
(* two calls and everything that can go wrong while they run.              *)
(***************************************************************************)
EXTENDS QueryProperties

Statement(type, changes) == [type |-> type, command |-> "", changes |-> changes]
Command(word)        == [type |-> "Command", command |-> word, changes |-> FALSE]

\* What sqlglot 30 makes of the texts below.
MCParsed ==
  [ select       |-> << Statement("Select", FALSE) >>,
    select_into  |-> << Statement("Select", TRUE) >>,
    insert       |-> << Statement("Insert", TRUE) >>,
    grant        |-> << Statement("Grant", TRUE) >>,
    truncate     |-> << Statement("TruncateTable", TRUE) >>,
    show         |-> << Command("SHOW") >>,
    select_twice |-> << Statement("Select", FALSE), Statement("Select", FALSE) >>,
    select_drop  |-> << Statement("Select", FALSE), Statement("Drop", TRUE) >>,
    empty        |-> << >>,
    broken       |-> ParseError ]

MCTexts == DOMAIN MCParsed
MCNames == {"db", "typo"}

Limits(ms, rows, bytes) ==
  [l \in Limit |-> CASE l = "timeout_ms" -> ms
                     [] l = "max_rows"   -> rows
                     [] OTHER            -> bytes]

NoLimits == Limits(None, None, None)

MCConfig(defaults, connection, unset) ==
  [ defaults |-> defaults, connections |-> [db |-> connection],
    unset |-> [n \in MCNames |-> unset] ]

MCDefaults(mode, rows, multiple, block) ==
  [ permission_mode |-> mode, limits |-> Limits(5, rows, 9),
    allow_multiple_statements |-> multiple, block_destructive_sql |-> block ]

MCConnection(type, read_only, full) ==
  [ type |-> type, read_only |-> read_only, allow_full_permissions |-> full ]

MCRequest(via, tool, name, text, mode, limits, object) ==
  [ via |-> via, tool |-> tool, connection_name |-> name,
    sql |-> [text |-> text, padded |-> TRUE], permission_mode |-> mode,
    limits |-> limits, options |-> object ]

MCOptions(mode, limits, multiple) ==
  [ permission_mode |-> mode, limits |-> limits,
    allow_multiple_statements |-> multiple ]

------------------------------------------------------------------------------
PolicyConfigs ==
  { MCConfig(MCDefaults(mode, rows, multiple, block),
             MCConnection("snowflake", read_only, full), "nothing")
      : mode \in PermissionMode, rows \in {0, 2},
        multiple \in BOOLEAN, block \in BOOLEAN,
        read_only \in BOOLEAN, full \in BOOLEAN }

\* Through the tool: any text, mode and limits; through the service: an
\* options object that contradicts the arguments.
PolicyRequests ==
  { MCRequest("server", "run_query", name, text, mode, limits, None)
      : name \in MCNames, text \in MCTexts \ {"select_into", "truncate"},
        mode \in PermissionMode \cup {None},
        limits \in {NoLimits, Limits(None, 1, None), Limits(0, 1, None)} }
  \cup
  { MCRequest("service", "run_query", "db", text, mode, limits,
              MCOptions(object_mode, Limits(7, 3, None), TRUE))
      : text \in {"select", "insert", "select_drop"},
        mode \in {"readonly", None}, object_mode \in {"full", None},
        limits \in {NoLimits, Limits(None, 1, None)} }

PolicyReplies == { [columns |-> 1, rows |-> 1] }
PolicyErrors  == { Raw({"UNSUPPORTED_OPERATION"}) }

------------------------------------------------------------------------------
BackendTypes == {"sqlserver", "snowflake", "databricks"}

\* One healthy configuration per backend; where a secret is missing the backend
\* does not matter.
FaultConfigs ==
  { MCConfig(MCDefaults("readonly", 2, FALSE, FALSE),
             MCConnection(type, FALSE, TRUE), "nothing")
      : type \in BackendTypes }
  \cup
  { MCConfig(MCDefaults("readonly", 2, FALSE, FALSE),
             MCConnection("snowflake", FALSE, TRUE), unset)
      : unset \in {"password", "other"} }

FaultRequests ==
  { MCRequest("server", "run_query", "db", "select", None,
              Limits(None, 1, None), None),
    MCRequest("server", "explain_query", "db", "select", None, NoLimits, None),
    MCRequest("service", "run_query", "db", "insert", "full", NoLimits, None),
    MCRequest("service", "run_query", "typo", "select", None, NoLimits, None) }

\* No result set; within, at and beyond a limit of 1 or 2 rows.
FaultReplies ==
  { [columns |-> 0, rows |-> 0] } \cup { [columns |-> 1, rows |-> n] : n \in 1 .. 3 }

FaultErrors ==
  { Raw({}), Raw({"QUERY_BLOCKED", "CONNECTION_FAILED"}),
    [kind |-> "raw", is_timeout |-> TRUE, words |-> {}] }

------------------------------------------------------------------------------
\* A single fault-free call per question, for the runs that show where the code
\* departs from its documents.
OneConfig(type, mode) ==
  { MCConfig(MCDefaults(mode, 2, FALSE, FALSE),
             MCConnection(type, FALSE, TRUE), "nothing") }

SqlServerConfig  == OneConfig("sqlserver", "readonly")
DatabricksConfig == OneConfig("databricks", "readonly")
SnowflakeConfig  == OneConfig("snowflake", "readonly")
FullDefaultConfig == OneConfig("snowflake", "full")

OneRequest(tool, text, mode, limits) ==
  { MCRequest("server", tool, "db", text, mode, limits, None) }

SelectRequest  == OneRequest("run_query", "select", None, NoLimits)
ChangeRequests == UNION { OneRequest("run_query", text, "readonly", NoLimits)
                            : text \in {"grant", "truncate", "select_into"} }
InsertRequest  == OneRequest("run_query", "insert", None, NoLimits)
FullInsertRequest == OneRequest("run_query", "insert", "full", NoLimits)
ExplainRequest == OneRequest("explain_query", "select", None, NoLimits)

OneRow     == { [columns |-> 1, rows |-> 1] }
ThreeRows  == { [columns |-> 1, rows |-> 3] }
WriteReplies == { [columns |-> n, rows |-> n] : n \in {0, 1} }
PlainError == { Raw({}) }
==============================================================================
